--------------------------- MODULE WdsPromptProofs ---------------------------
(***************************************************************************)
(* Proofs about a bring-up whose requests are answered before the timer    *)
(* fires again: then a slot has one request in flight, and it is the one   *)
(* its step calls for or one that an earlier activation left behind.       *)
(***************************************************************************)
EXTENDS WdsSessionProofs

-----------------------------------------------------------------------------
(* The scenario and its invariant.                                         *)

HarmfulFaults == {"early_activation", "start_error", "settings_noreply", "settings_error"}

\* A late CALL_FAILED of an earlier activation would put a new session past its
\* link.
PromptScenario ==
  /\ Prompt /\ Faults \cap HarmfulFaults = {}
  /\ MaxActivations <= 1 \/ "start_call_failed" \notin Faults

FirstScenario == PromptScenario /\ MaxActivations <= 1

IsIms(p) == p \in DOMAIN profiles /\ profiles[p]

\* The request a slot waits for at its step.
Expected(s, r) ==
  \/ r.op = "get_profile_list" /\ session[s].step = GET_PROFILES
  \/ /\ r.op = "get_profile_settings"
     /\ profile_list[s].live /\ r.arg = profile_list[s].i + 1
     /\ session[s].step \in {GET_PROFILES, PROFILE_READY}
  \/ r.op = "create_profile" /\ session[s].step = FIND_PROFILE_ADD_MODIFY
  \/ r.op = "add_link" /\ session[s].step = SETUP_LINK
  \/ /\ r.op = "bind_mux_data_port" /\ session[s].step = BIND_DATA_PORT_IPV4
     /\ r.arg = session[s].mux_id
  \/ /\ r.op = "start_network" /\ session[s].step = WAIT_FOR_COMPLETION
     /\ r.arg = session[s].profile_id
  \/ r.op = "get_current_settings" /\ session[s].step = GET_SETTINGS_IPV4

\* A request that the activation before left in flight; its answer is still to
\* come and finds the session at its beginning.
Stale(s, r) ==
  /\ activations[s] > 1 /\ session[s].step = GET_PROFILES
  /\ r.op \notin {"get_profile_list", "get_profile_settings"}
  /\ r.op = "start_network" => IsIms(r.arg)
  /\ r.op = "get_current_settings" => network[s] # NoNet

Only(s, r) == \A q \in Requests : pending[s][q] = IF q = r THEN 1 ELSE 0

InOrder(s) ==
  Idle(s) \/ \E r \in Requests : Only(s, r) /\ (Expected(s, r) \/ Stale(s, r))

\* The stage of the bring-up. A session whose step went below 0 has none: a
\* start request of the activation before got no answer.
GaveUp == Dec(GET_PROFILES)
Stage(s) == IF session[s].step = GaveUp THEN GET_PROFILES ELSE session[s].step

\* The stages from which on there is a profile, a link, a binding, a call.
Landmarks == {PROFILE_READY, LINK_BRINGUP, SELECT_IP_FAMILY_IPV4, REGISTER_INDICATIONS}

\* What the stage says of profile, link, binding and call.
Backed(s) ==
  /\ Stage(s) >= PROFILE_READY <=> session[s].profile_id # 0
  /\ session[s].profile_id # 0 => IsIms(session[s].profile_id)
  /\ Stage(s) >= LINK_BRINGUP => session[s].mux_id \in links[s]
  /\ Stage(s) >= SELECT_IP_FAMILY_IPV4 => bound[s] = session[s].mux_id
  /\ Stage(s) >= REGISTER_INDICATIONS => network[s] # NoNet
  /\ network[s] # NoNet => IsIms(network[s])
  /\ session[s].step = GaveUp => activations[s] > 1

Started(s) ==
  /\ profile_list[s].live => profile_list[s].len <= Len(profiles)
  /\ activations[s] = 0 => Idle(s) /\ session[s].profile_id = 0
  /\ activations[s] > 0 => wds[s]

Prompted(s) == InOrder(s) /\ Backed(s) /\ Started(s)

PromptInv == process # "crashed" /\ \A s \in Slots : Prompted(s)

-----------------------------------------------------------------------------
(* The queue of one slot.                                                  *)

LEMMA AnswerIsLast ==
  ASSUME TypeInv, NEW s \in Slots, InOrder(s), NEW r \in Requests, InFlight(s, r)
  PROVE  /\ Expected(s, r) \/ Stale(s, r)
         /\ \A q \in Requests : Answered(s, r)[q] = 0
<1>1. pending[s][r] > 0 /\ pending[s] \in Queues
  BY TypeFacts DEF InFlight
<1>2. PICK x \in Requests : Only(s, x) /\ (Expected(s, x) \/ Stale(s, x))
  BY <1>1 DEF InOrder, Idle
<1>3. x = r
  BY <1>1, <1>2 DEF Only
<1>4. \A q \in Requests : pending[s][q] = IF q = r THEN 1 ELSE 0
  BY <1>2, <1>3 DEF Only
<1>5. \A q \in Requests :
        Answered(s, r)[q] = IF q = r THEN pending[s][q] - 1 ELSE pending[s][q]
  BY <1>1 DEF Answered, Queues
<1> QED
  BY <1>2, <1>3, <1>4, <1>5

LEMMA ReceiveEmpties ==
  ASSUME TypeInv, NEW s \in Slots, InOrder(s), NEW r \in Requests, Receive(s, r)
  PROVE  Idle(s)'
<1>1. InFlight(s, r) /\ pending'[s] = Answered(s, r)
  BY TypeFacts DEF Receive
<1> QED
  BY <1>1, AnswerIsLast DEF Idle

LEMMA SendFills ==
  ASSUME TypeInv, NEW s \in Slots, Idle(s), NEW r \in Requests, Send(s, r)
  PROVE  Only(s, r)'
<1>1. pending[s] \in Queues /\ pending'[s] = [pending[s] EXCEPT ![r] = @ + 1]
  BY TypeFacts DEF Send
<1>2. \A q \in Requests : pending[s][q] = 0
  BY DEF Idle
<1>3. \A q \in Requests : pending'[s][q] = IF q = r THEN 1 ELSE 0
  BY <1>1, <1>2 DEF Queues
<1> QED
  BY <1>3 DEF Only

\* A slot that another slot's step leaves alone.
LEMMA OtherPrompt ==
  ASSUME NEW t \in Slots, Prompted(t), SlotKept(t),
         profile_list'[t] = profile_list[t], wds[t] => wds'[t],
         \A p : IsIms(p) => IsIms(p)', Len(profiles) \in Nat, Len(profiles)' \in Nat,
         Len(profiles) <= Len(profiles)', profile_list[t].len \in Nat
  PROVE  Prompted(t)'
<1>0. InOrder(t) /\ Backed(t) /\ Started(t)
  BY DEF Prompted
<1>1. Idle(t) => Idle(t)'
  BY DEF SlotKept, Idle
<1>2. ASSUME NEW r \in Requests, Only(t, r), Expected(t, r) \/ Stale(t, r)
      PROVE  Only(t, r)' /\ (Expected(t, r) \/ Stale(t, r))'
  <2>1. Only(t, r)'
    BY <1>2 DEF SlotKept, Only
  <2>2. Expected(t, r) => Expected(t, r)'
    BY DEF SlotKept, Expected
  <2>3. Stale(t, r) => Stale(t, r)'
    BY DEF SlotKept, Stale
  <2> QED
    BY <1>2, <2>1, <2>2, <2>3
<1>3. InOrder(t)'
  BY <1>0, <1>1, <1>2 DEF InOrder
<1>4. Backed(t)'
  BY <1>0 DEF SlotKept, Backed, Stage
<1>5. Started(t)'
  BY <1>0, <1>1 DEF SlotKept, Started
<1> QED
  BY <1>3, <1>4, <1>5 DEF Prompted

-----------------------------------------------------------------------------
(* The ticks.                                                              *)

Abreast(s) == \A k \in Landmarks : Stage(s)' >= k <=> Stage(s) >= k

\* A tick moves the step at most, and sends at most what the new step expects.
LEMMA QuietKeeps ==
  ASSUME TypeInv, NEW s \in Slots, Prompted(s), activations[s] > 0,
         UNCHANGED <<profiles, links, bound, network, profile_list, wds, activations>>,
         session'[s].profile_id = session[s].profile_id,
         session'[s].mux_id = session[s].mux_id,
         session'[s].step = GaveUp => session[s].step = GaveUp,
         Abreast(s), InOrder(s)'
  PROVE  Prompted(s)'
<1>1. Backed(s) /\ Started(s)
  BY DEF Prompted
<1>2. /\ Stage(s)' >= PROFILE_READY <=> Stage(s) >= PROFILE_READY
      /\ Stage(s)' >= LINK_BRINGUP <=> Stage(s) >= LINK_BRINGUP
      /\ Stage(s)' >= SELECT_IP_FAMILY_IPV4 <=> Stage(s) >= SELECT_IP_FAMILY_IPV4
      /\ Stage(s)' >= REGISTER_INDICATIONS <=> Stage(s) >= REGISTER_INDICATIONS
  BY DEF Abreast, Landmarks
<1>3. Backed(s)'
  BY <1>1, <1>2 DEF Backed, IsIms
<1>4. Started(s)'
  BY <1>1 DEF Started
<1> QED
  BY <1>3, <1>4 DEF Prompted

\* Two steps that no landmark lies between.
LEMMA SameStretch ==
  ASSUME NEW s \in Slots, NEW x, NEW y, session[s].step = x, session'[s].step = y,
         <<x, y>> \in {<<2, 3>>, <<3, 4>>, <<5, 6>>, <<6, 7>>, <<8, 9>>, <<9, 10>>,
                       <<11, 12>>, <<13, 99>>}
  PROVE  Abreast(s) /\ session'[s].step # GaveUp
BY DEF Abreast, Landmarks, Stage, GaveUp, Dec, GET_PROFILES, PROFILE_READY,
   LINK_BRINGUP, SELECT_IP_FAMILY_IPV4, REGISTER_INDICATIONS

LEMMA DueFacts ==
  ASSUME Prompt, TypeInv, OneIndicationPerActivation, NEW s \in Slots, Prompted(s),
         NEW step, Due(s, step)
  PROVE  /\ Idle(s) /\ activations[s] > 0 /\ wds[s]
         /\ session[s].step = step
<1>1. timers[s] > 0 /\ timers[s] + notified[s] <= activations[s]
  BY DEF Due, OneIndicationPerActivation
<1>2. timers[s] \in Nat /\ notified[s] \in Nat /\ activations[s] \in Nat
  BY TypeFacts
<1> QED
  BY <1>1, <1>2 DEF Due, Prompted, Started

LEMMA TickPrompted ==
  ASSUME Prompt, TypeInv, OneIndicationPerActivation, NEW s \in Slots, Prompted(s),
         Tick(s), process # "crashed"
  PROVE  Prompted(s)' /\ process' # "crashed"
<1> DEFINE Steps == /\ session'[s].profile_id = session[s].profile_id
                    /\ session'[s].mux_id = session[s].mux_id
                    /\ session'[s].step = GaveUp => session[s].step = GaveUp
                    /\ Abreast(s)
<1>1. PICK step : Due(s, step)
  BY DEF Tick, QuietTick, TickGetProfiles, TickWithoutClient, TickAddProfile,
     TickModifyProfile, TickProfileReady, TickDummy, TickSetupLink,
     TickBindDataPort, TickStartNetwork, TickWait, TickGetSettings, TickStop,
     TickFinished, TickGiveUp
<1>2. Idle(s) /\ activations[s] > 0 /\ wds[s]
  BY <1>1, DueFacts
<1>3. session[s] \in Sessions /\ session[s].step \in 0 .. 255
      /\ session[s].profile_id \in Profiles /\ DOMAIN session = Slots
  BY TypeFacts
<1>4. /\ UNCHANGED <<profiles, links, bound, network, profile_list>>
      /\ UNCHANGED <<wds, activations, process>>
      /\ ~TickWithoutClient(s)
  BY <1>2 DEF Tick, QuietTick, TickGetProfiles, TickWithoutClient, TickAddProfile,
     TickModifyProfile, TickProfileReady, TickDummy, TickSetupLink,
     TickBindDataPort, TickStartNetwork, TickWait, TickGetSettings, TickStop,
     TickFinished, TickGiveUp, vars, external, history
<1>5. Steps /\ InOrder(s)' => Prompted(s)'
  BY <1>2, <1>4, QuietKeeps
<1>6. ASSUME NEW r \in Requests, Send(s, r), Expected(s, r)' PROVE InOrder(s)'
  BY <1>2, <1>6, SendFills DEF InOrder
<1>7. UNCHANGED pending => InOrder(s)'
  BY <1>2 DEF InOrder, Idle
<1>8. session'[s].step = session[s].step => Abreast(s)
  BY DEF Abreast, Stage
<1>9. ASSUME NEW x, SetStep(s, x)
      PROVE  /\ session'[s].step = x /\ session'[s].profile_id = session[s].profile_id
             /\ session'[s].mux_id = session[s].mux_id
  BY <1>3, <1>9 DEF SetStep, Sessions
<1>10. CASE TickGetProfiles(s)
  <2>1. Request("get_profile_list", Len(profiles)) \in Requests
    BY TypeFacts, RequestKinds
  <2>2. Expected(s, Request("get_profile_list", Len(profiles)))'
    BY <1>10 DEF TickGetProfiles, Due, Expected, Request
  <2> QED
    BY <2>1, <2>2, <1>4, <1>5, <1>6, <1>8, <1>10 DEF TickGetProfiles
<1>11. CASE TickAddProfile(s)
  <2>1. Request("create_profile", 0) \in Requests
    BY RequestKinds
  <2>2. Expected(s, Request("create_profile", 0))'
    BY <1>11 DEF TickAddProfile, Due, Expected, Request
  <2> QED
    BY <2>1, <2>2, <1>4, <1>5, <1>6, <1>8, <1>11 DEF TickAddProfile
<1>12. CASE TickModifyProfile(s)
  BY <1>12 DEF TickModifyProfile, Due, Prompted, Backed, Stage, GaveUp, Dec,
     GET_PROFILES, PROFILE_READY, FIND_PROFILE_ADD_MODIFY
<1>13. CASE TickSetupLink(s)
  <2>1. CASE session[s].setup_link_done = 0
    <3>1. Send(s, Request("add_link", 0)) /\ Request("add_link", 0) \in Requests
      BY <1>13, <2>1, RequestKinds DEF TickSetupLink
    <3>2. session'[s].step = session[s].step
          /\ session'[s].profile_id = session[s].profile_id
          /\ session'[s].mux_id = session[s].mux_id
      BY <1>3, <1>13, <2>1 DEF TickSetupLink, Sessions
    <3>3. Expected(s, Request("add_link", 0))'
      BY <1>13, <3>2 DEF TickSetupLink, Due, Expected, Request
    <3> QED
      BY <3>1, <3>2, <3>3, <1>4, <1>5, <1>6, <1>8
  <2>2. CASE session[s].setup_link_done # 0
    BY <2>2, <1>4, <1>5, <1>7, <1>8, <1>13 DEF TickSetupLink
  <2> QED
    BY <2>1, <2>2
<1>14. CASE TickBindDataPort(s)
  <2> DEFINE r == Request("bind_mux_data_port", session[s].mux_id)
  <2>1. r \in Requests
    BY TypeFacts, RequestKinds
  <2>2. Expected(s, r)'
    BY <1>14 DEF TickBindDataPort, Due, Expected, Request
  <2> QED
    BY <2>1, <2>2, <1>4, <1>5, <1>6, <1>8, <1>14 DEF TickBindDataPort
<1>15. CASE TickStartNetwork(s)
  <2> DEFINE r == Request("start_network", session[s].profile_id)
  <2>1. r \in Requests
    BY <1>3, RequestKinds
  <2>2. /\ session[s].step = 9 /\ session'[s].step = 10
        /\ session'[s].profile_id = session[s].profile_id
        /\ session'[s].mux_id = session[s].mux_id
    BY <1>9, <1>15 DEF TickStartNetwork, Due, Inc, DO_START_NETWORK_IPV4
  <2>3. Expected(s, r)'
    BY <2>2 DEF Expected, Request, WAIT_FOR_COMPLETION
  <2>4. Steps
    BY <2>2, SameStretch
  <2> QED
    BY <2>1, <2>3, <2>4, <1>4, <1>5, <1>6, <1>15 DEF TickStartNetwork
<1>16. CASE TickGetSettings(s)
  <2>1. Request("get_current_settings", 0) \in Requests
    BY RequestKinds
  <2>2. Expected(s, Request("get_current_settings", 0))'
    BY <1>16 DEF TickGetSettings, Due, Expected, Request
  <2> QED
    BY <2>1, <2>2, <1>4, <1>5, <1>6, <1>8, <1>16 DEF TickGetSettings
<1>17. CASE TickProfileReady(s)
  <2>1. /\ session[s].step = 2 /\ session'[s].step = 3
        /\ session'[s].profile_id = session[s].profile_id
        /\ session'[s].mux_id = session[s].mux_id
    BY <1>9, <1>17 DEF TickProfileReady, Due, PROFILE_READY, SETUP_DATA_FORMAT
  <2>2. Steps
    BY <2>1, SameStretch
  <2> QED
    BY <2>2, <1>4, <1>5, <1>7, <1>17 DEF TickProfileReady
<1>18. CASE TickDummy(s)
  <2>1. session[s].step \in {3, 5, 6, 8, 11}
    BY <1>18 DEF TickDummy, Due, DummySteps, SETUP_DATA_FORMAT, LINK_BRINGUP,
       SET_IP_BEARER_METHOD, SELECT_IP_FAMILY_IPV4, REGISTER_INDICATIONS
  <2>2. /\ session'[s].step = session[s].step + 1
        /\ session'[s].profile_id = session[s].profile_id
        /\ session'[s].mux_id = session[s].mux_id
    BY <2>1, <1>9, <1>18 DEF TickDummy, Inc
  <2>3. Steps
    BY <2>1, <2>2, SameStretch
  <2> QED
    BY <2>3, <1>4, <1>5, <1>7, <1>18 DEF TickDummy
<1>19. CASE TickStop(s)
  <2>1. /\ session[s].step = 13 /\ session'[s].step = 99
        /\ session'[s].profile_id = session[s].profile_id
        /\ session'[s].mux_id = session[s].mux_id
    BY <1>9, <1>19 DEF TickStop, Due, BIND_DATA_PORT_IPV6, FINISHED
  <2>2. Steps
    BY <2>1, SameStretch
  <2> QED
    BY <2>2, <1>4, <1>5, <1>7, <1>19 DEF TickStop
<1>20. CASE TickWait(s) \/ TickFinished(s) \/ TickGiveUp(s)
  BY <1>4, <1>5, <1>7, <1>8, <1>20 DEF TickWait, TickFinished, TickGiveUp, vars
<1> QED
  BY <1>4, <1>10, <1>11, <1>12, <1>13, <1>14, <1>15, <1>16, <1>17, <1>18, <1>19,
     <1>20 DEF Tick, QuietTick

-----------------------------------------------------------------------------
(* The answers.                                                            *)

LEMMA WaitingFacts ==
  ASSUME TypeInv, NEW s \in Slots, Prompted(s), NEW r \in Requests, InFlight(s, r)
  PROVE  /\ activations[s] > 0 /\ wds[s]
         /\ Expected(s, r) \/ Stale(s, r)
         /\ \A q \in Requests : Answered(s, r)[q] = 0
<1>1. pending[s][r] # 0 /\ activations[s] \in Nat
  BY TypeFacts DEF InFlight
<1>2. activations[s] # 0
  BY <1>1 DEF Prompted, Started, Idle
<1> QED
  BY <1>1, <1>2, AnswerIsLast DEF Prompted, Started

\* An answer empties the queue; the list is not touched.
LEMMA AnswerKeeps ==
  ASSUME TypeInv, NEW s \in Slots, Prompted(s), NEW r \in Requests, Receive(s, r),
         UNCHANGED <<profile_list, wds, activations>>,
         Len(profiles) \in Nat, Len(profiles)' \in Nat, Len(profiles) <= Len(profiles)',
         Backed(s)'
  PROVE  Prompted(s)'
<1>1. activations[s] > 0 /\ wds[s] /\ Idle(s)'
  BY WaitingFacts, ReceiveEmpties DEF Receive, Prompted
<1>2. profile_list[s].len \in Nat
  BY ProfilesAssumption DEF TypeInv, TypeOK, Profiles
<1>3. Started(s)'
  BY <1>1, <1>2 DEF Prompted, Started
<1> QED
  BY <1>1, <1>3 DEF Prompted, InOrder

\* The profile table only grows, and a new profile is an IMS one.
LEMMA AppendedProfile ==
  ASSUME TypeInv, profiles' = Append(profiles, TRUE)
  PROVE  /\ Len(profiles) \in Nat /\ Len(profiles)' = Len(profiles) + 1
         /\ \A p : IsIms(p) \/ p = Len(profiles) + 1 => IsIms(p)'
<1>1. profiles \in Seq(BOOLEAN)
  BY DEF TypeInv, TypeOK
<1>2. /\ DOMAIN profiles = 1 .. Len(profiles) /\ DOMAIN profiles' = 1 .. Len(profiles) + 1
      /\ Len(profiles) \in Nat
      /\ \A p \in 1 .. Len(profiles) : profiles'[p] = profiles[p]
      /\ profiles'[Len(profiles) + 1] = TRUE
  BY <1>1
<1>3. \A p : IsIms(p) \/ p = Len(profiles) + 1 => p \in DOMAIN profiles' /\ profiles'[p]
  BY <1>2 DEF IsIms
<1>4. Len(profiles)' = Len(profiles) + 1
  BY <1>1
<1> QED
  BY <1>2, <1>3, <1>4 DEF IsIms

\* The stale answer moves a fresh session by one step, up or down.
LEMMA StaleBacks ==
  ASSUME NEW s \in Slots, Backed(s), session[s].step = GET_PROFILES, activations[s] > 1,
         session'[s].step \in {FIND_PROFILE_ADD_MODIFY, GaveUp},
         session'[s].profile_id = session[s].profile_id,
         UNCHANGED <<profiles, activations>>,
         network'[s] = network[s] \/ IsIms(network'[s])
  PROVE  Backed(s)'
<1>1. Stage(s) = 0 /\ session[s].profile_id = 0
  BY DEF Backed, Stage, GET_PROFILES, PROFILE_READY
<1>2. Stage(s)' \in {0, 1} /\ session'[s].profile_id = 0
  BY <1>1 DEF Stage, GET_PROFILES, FIND_PROFILE_ADD_MODIFY
<1>3. network'[s] # NoNet => IsIms(network[s])'
  BY DEF Backed, IsIms
<1> QED
  BY <1>2, <1>3 DEF Backed, PROFILE_READY, LINK_BRINGUP, SELECT_IP_FAMILY_IPV4,
     REGISTER_INDICATIONS

\* The expected answer takes the session on from its profile.
LEMMA ExpectedBacks ==
  ASSUME NEW s \in Slots, Backed(s),
         session[s].step \in 2 .. 99, session'[s].step \in 2 .. 99,
         session'[s].profile_id = session[s].profile_id,
         UNCHANGED <<profiles, activations>>,
         network'[s] = network[s] \/ IsIms(network'[s]),
         session'[s].step >= 5 => session'[s].mux_id \in links'[s],
         session'[s].step >= 8 => bound'[s] = session'[s].mux_id,
         session'[s].step >= 11 => network'[s] # NoNet
  PROVE  Backed(s)'
<1>1. Stage(s) = session[s].step /\ Stage(s)' = session'[s].step
      /\ session'[s].step # GaveUp
  BY DEF Stage, GaveUp, Dec, GET_PROFILES
<1>2. session[s].profile_id # 0 /\ IsIms(session[s].profile_id)
  BY <1>1 DEF Backed, PROFILE_READY
<1>3. network'[s] # NoNet => IsIms(network[s])'
  BY DEF Backed, IsIms
<1> QED
  BY <1>1, <1>2, <1>3 DEF Backed, IsIms, PROFILE_READY, LINK_BRINGUP,
     SELECT_IP_FAMILY_IPV4, REGISTER_INDICATIONS

\* What the session has reached, by the step it is at.
LEMMA BackedAt ==
  ASSUME NEW s \in Slots, Backed(s), session[s].step \in 2 .. 99
  PROVE  /\ session[s].profile_id # 0 /\ IsIms(session[s].profile_id)
         /\ session[s].step >= 5 => session[s].mux_id \in links[s]
         /\ session[s].step >= 8 => bound[s] = session[s].mux_id
         /\ session[s].step >= 11 => network[s] # NoNet
BY DEF Backed, Stage, GaveUp, Dec, GET_PROFILES, PROFILE_READY, LINK_BRINGUP,
   SELECT_IP_FAMILY_IPV4, REGISTER_INDICATIONS

LEMMA ProfileAnswers ==
  ASSUME TypeInv, NEW s \in Slots, Prompted(s), NEW r \in Requests,
         \/ GetProfileListFailed(s, r) \/ AddNewProfileReady(s, r)
         \/ AddNewProfileFailed(s, r) \/ ModifyProfileReady(s, r)
  PROVE  Prompted(s)'
<1>1. /\ Receive(s, r)
      /\ UNCHANGED <<profile_list, wds, activations, network, links, bound>>
  BY DEF GetProfileListFailed, AddNewProfileReady, AddNewProfileFailed,
     ModifyProfileReady, external, history
<1>2. Backed(s) /\ Len(profiles) \in Nat
  BY DEF Prompted, TypeInv, TypeOK
<1>3. profiles' = Append(profiles, TRUE) \/ UNCHANGED profiles
  BY DEF GetProfileListFailed, AddNewProfileReady, AddNewProfileFailed,
     ModifyProfileReady, external
<1>4. /\ Len(profiles)' \in Nat /\ Len(profiles) <= Len(profiles)'
      /\ \A p : IsIms(p) => IsIms(p)'
  <2>1. CASE profiles' = Append(profiles, TRUE)
    <3>1. Len(profiles)' = Len(profiles) + 1 /\ \A p : IsIms(p) => IsIms(p)'
      BY <2>1, AppendedProfile
    <3> QED
      BY <1>2, <3>1
  <2>2. CASE UNCHANGED profiles
    BY <1>2, <2>2 DEF IsIms
  <2> QED
    BY <1>3, <2>1, <2>2
<1>5. CASE AddNewProfileReady(s, r)
  <2>1. profiles' = Append(profiles, TRUE)
    BY <1>5 DEF AddNewProfileReady
  <2>2. /\ session'[s].profile_id = Len(profiles) + 1
        /\ session'[s].step = PROFILE_READY
    BY <1>5, TypeFacts DEF AddNewProfileReady, Sessions
  <2>3. \A p : p = Len(profiles) + 1 => IsIms(p)'
    BY <2>1, AppendedProfile
  <2>4. Stage(s)' = 2 /\ session'[s].step # GaveUp
    BY <2>2 DEF Stage, GaveUp, Dec, GET_PROFILES, PROFILE_READY
  <2>5. network'[s] # NoNet => IsIms(network[s])'
    BY <1>1, <1>2, <1>4 DEF Backed
  <2>6. Len(profiles) + 1 # 0
    BY <1>2
  <2>7. Backed(s)'
    BY <2>2, <2>3, <2>4, <2>5, <2>6 DEF Backed, PROFILE_READY, LINK_BRINGUP,
       SELECT_IP_FAMILY_IPV4, REGISTER_INDICATIONS
  <2> QED
    BY <1>1, <1>2, <1>4, <2>7, AnswerKeeps
<1>6. CASE ~AddNewProfileReady(s, r)
  <2>1. UNCHANGED session
    BY <1>6 DEF GetProfileListFailed, AddNewProfileFailed, ModifyProfileReady
  <2>2. Backed(s)'
    BY <1>1, <1>2, <1>4, <2>1 DEF Backed, Stage
  <2> QED
    BY <1>1, <1>2, <1>4, <2>2, AnswerKeeps
<1> QED
  BY <1>5, <1>6

LEMMA LinkAnswers ==
  ASSUME TypeInv, NEW s \in Slots, Prompted(s), NEW r \in Requests,
         \/ SetupLinkReady(s, r) \/ SetupLinkFailed(s, r)
         \/ BindMuxDataPortReady(s, r) \/ BindMuxDataPortFailed(s, r)
  PROVE  Prompted(s)'
<1>1. /\ Receive(s, r)
      /\ UNCHANGED <<profile_list, wds, activations, network, profiles>>
  BY DEF SetupLinkReady, SetupLinkFailed, BindMuxDataPortReady,
     BindMuxDataPortFailed, external, history
<1>2. Backed(s) /\ Len(profiles) \in Nat
  BY DEF Prompted, TypeInv, TypeOK
<1>3. Expected(s, r) \/ Stale(s, r)
  BY <1>1, WaitingFacts DEF Receive
<1>4. Backed(s)' => Prompted(s)'
  BY <1>1, <1>2, AnswerKeeps
<1>5. Stale(s, r) => session[s].step = 0 /\ activations[s] > 1 /\ Inc(0) = 1
  BY DEF Stale, GET_PROFILES, Inc
<1>6. CASE SetupLinkReady(s, r)
  <2>1. PICK mux \in MuxIds :
          /\ links' = [links EXCEPT ![s] = @ \cup {mux}]
          /\ session' = [session EXCEPT ![s] =
               [@ EXCEPT !.mux_id = mux, !.step = Inc(session[s].step)]]
    BY <1>6 DEF SetupLinkReady
  <2>2. /\ session'[s].step = Inc(session[s].step) /\ session'[s].mux_id = mux
        /\ session'[s].profile_id = session[s].profile_id
    BY <2>1, TypeFacts DEF Sessions
  <2>3. mux \in links'[s]
    BY <2>1 DEF TypeInv, TypeOK
  <2>4. CASE Expected(s, r)
    <3>1. session[s].step = 4
      BY <1>6, <2>4 DEF SetupLinkReady, Expected, SETUP_LINK
    <3>2. Inc(4) = 5
      BY DEF Inc
    <3>3. session'[s].step = 5 /\ network'[s] = network[s]
      BY <1>1, <2>2, <3>1, <3>2
    <3> QED
      BY <1>1, <1>2, <1>4, <2>2, <2>3, <3>1, <3>3, ExpectedBacks
  <2>5. CASE Stale(s, r)
    BY <1>1, <1>2, <1>4, <1>5, <2>2, <2>5, StaleBacks
       DEF GET_PROFILES, FIND_PROFILE_ADD_MODIFY
  <2> QED
    BY <1>3, <2>4, <2>5
<1>7. CASE BindMuxDataPortReady(s, r)
  <2>1. /\ session'[s].step = Inc(session[s].step)
        /\ session'[s].profile_id = session[s].profile_id
        /\ session'[s].mux_id = session[s].mux_id
    BY <1>7, TypeFacts DEF BindMuxDataPortReady, SetStep, Sessions
  <2>2. bound'[s] = r.arg /\ links' = links
    BY <1>7 DEF BindMuxDataPortReady, TypeInv, TypeOK
  <2>3. CASE Expected(s, r)
    <3>1. session[s].step = 7 /\ r.arg = session[s].mux_id
      BY <1>7, <2>3 DEF BindMuxDataPortReady, Expected, BIND_DATA_PORT_IPV4
    <3>2. session[s].mux_id \in links[s] /\ Inc(7) = 8
      BY <1>2, <3>1, BackedAt DEF Inc
    <3>3. session'[s].step = 8 /\ network'[s] = network[s]
      BY <1>1, <2>1, <3>1, <3>2
    <3> QED
      BY <1>1, <1>2, <1>4, <2>1, <2>2, <3>1, <3>2, <3>3, ExpectedBacks
  <2>4. CASE Stale(s, r)
    BY <1>1, <1>2, <1>4, <1>5, <2>1, <2>4, StaleBacks
       DEF GET_PROFILES, FIND_PROFILE_ADD_MODIFY
  <2> QED
    BY <1>3, <2>3, <2>4
<1>8. CASE SetupLinkFailed(s, r) \/ BindMuxDataPortFailed(s, r)
  BY <1>1, <1>2, <1>4, <1>8 DEF SetupLinkFailed, BindMuxDataPortFailed, Backed, Stage,
     IsIms, external
<1> QED
  BY <1>6, <1>7, <1>8

\* A start request is for an IMS profile, this activation's or the last one's.
LEMMA StartAnswers ==
  ASSUME PromptScenario, TypeInv, NEW s \in Slots, Prompted(s), NEW r \in Requests,
         \/ StartNetworkReady(s, r) \/ StartNetworkNoReply(s, r)
         \/ StartNetworkCallFailed(s, r) \/ StartNetworkError(s, r)
  PROVE  Prompted(s)'
<1>1. /\ Receive(s, r) /\ r.op = "start_network"
      /\ UNCHANGED <<profile_list, wds, activations, profiles, links, bound>>
  BY DEF StartNetworkReady, StartNetworkNoReply, StartNetworkCallFailed,
     StartNetworkError, external, history
<1>2. Backed(s) /\ Len(profiles) \in Nat /\ DOMAIN network = Slots
  BY DEF Prompted, TypeInv, TypeOK
<1>3. Expected(s, r) \/ Stale(s, r)
  BY <1>1, WaitingFacts DEF Receive
<1>4. /\ Expected(s, r) => session[s].step = 10 /\ r.arg = session[s].profile_id
      /\ Stale(s, r) => session[s].step = 0 /\ activations[s] > 1 /\ IsIms(r.arg)
  BY <1>1 DEF Expected, Stale, WAIT_FOR_COMPLETION, GET_PROFILES
<1>5. IsIms(r.arg) /\ r.arg # NoNet
  BY <1>1, <1>2, <1>3, <1>4, BackedAt, RequestArgs, ProfilesAssumption
     DEF Profiles, NoNet
<1>6. /\ session'[s].profile_id = session[s].profile_id
      /\ session'[s].mux_id = session[s].mux_id
  <2>1. CASE StartNetworkReady(s, r)
    BY <2>1, TypeFacts DEF StartNetworkReady, Sessions
  <2>2. ASSUME NEW x, SetStep(s, x)
        PROVE  /\ session'[s].profile_id = session[s].profile_id
               /\ session'[s].mux_id = session[s].mux_id
    BY <2>2, TypeFacts DEF SetStep, Sessions
  <2> QED
    BY <2>1, <2>2 DEF StartNetworkNoReply, StartNetworkCallFailed, StartNetworkError
<1>7. /\ network'[s] = network[s] \/ IsIms(network'[s])
      /\ StartNetworkReady(s, r) \/ StartNetworkError(s, r) => network'[s] # NoNet
  <2>1. StartNetworkReady(s, r) => network'[s] = r.arg
    BY <1>2 DEF StartNetworkReady
  <2>2. StartNetworkNoReply(s, r) => network'[s] = network[s] \/ network'[s] = r.arg
    BY <1>2 DEF StartNetworkNoReply
  <2>3. StartNetworkCallFailed(s, r) => network' = network
    BY DEF StartNetworkCallFailed, external
  <2>4. StartNetworkError(s, r) => network' = network /\ network[s] # NoNet
    BY DEF StartNetworkError, PromptScenario, HarmfulFaults, external
  <2> QED
    BY <1>5, <2>1, <2>2, <2>3, <2>4
<1>8. \/ /\ session'[s].step = Inc(session[s].step)
         /\ StartNetworkReady(s, r) \/ StartNetworkError(s, r)
      \/ session'[s].step = Dec(session[s].step)
      \/ session'[s].step = 6 /\ "start_call_failed" \in Faults
  <2>1. Inc(LINK_BRINGUP) = 6
    BY DEF Inc, LINK_BRINGUP
  <2>2. CASE StartNetworkReady(s, r)
    BY <2>2, TypeFacts DEF StartNetworkReady, Sessions
  <2>3. ASSUME NEW x, SetStep(s, x) PROVE session'[s].step = x
    BY <2>3, TypeFacts DEF SetStep, Sessions
  <2> QED
    BY <2>1, <2>2, <2>3 DEF StartNetworkNoReply, StartNetworkCallFailed,
       StartNetworkError
<1>9. Backed(s)'
  <2>1. CASE Expected(s, r)
    <3>1. Inc(10) = 11 /\ Dec(10) = 9
      BY DEF Inc, Dec
    <3>2. session'[s].step \in {6, 9, 11}
          /\ (session'[s].step = 11 => network'[s] # NoNet)
      BY <1>4, <1>7, <1>8, <2>1, <3>1
    <3>3. session[s].mux_id \in links[s] /\ bound[s] = session[s].mux_id
      BY <1>2, <1>4, <2>1, BackedAt
    <3> QED
      BY <1>1, <1>2, <1>4, <1>6, <1>7, <2>1, <3>2, <3>3, ExpectedBacks
  <2>2. CASE Stale(s, r)
    <3>1. activations[s] > 1 /\ activations[s] <= MaxActivations /\ MaxActivations \in Nat
      BY <1>4, <2>2, TypeFacts, BoundsAssumption
    <3>2. "start_call_failed" \notin Faults
      BY <3>1, TypeFacts DEF PromptScenario
    <3>3. Inc(0) = 1 /\ Dec(0) = GaveUp
      BY DEF Inc, GaveUp, GET_PROFILES
    <3>4. session'[s].step \in {1, GaveUp}
      BY <1>4, <1>8, <2>2, <3>2, <3>3
    <3> QED
      BY <1>1, <1>2, <1>4, <1>6, <1>7, <2>2, <3>4, StaleBacks
         DEF GET_PROFILES, FIND_PROFILE_ADD_MODIFY
  <2> QED
    BY <1>3, <2>1, <2>2
<1> QED
  BY <1>1, <1>2, <1>9, AnswerKeeps

\* The settings are asked for once there is a call, and a call stays.
LEMMA SettingsAnswers ==
  ASSUME Faults \cap HarmfulFaults = {}, TypeInv, NEW s \in Slots, Prompted(s),
         NEW r \in Requests,
         \/ GetCurrentSettingsReady(s, r) \/ GetCurrentSettingsIncomplete(s, r)
         \/ GetCurrentSettingsFailed(s, r)
  PROVE  Prompted(s)' /\ process' = process
<1>1. /\ Receive(s, r) /\ r.op = "get_current_settings"
      /\ UNCHANGED <<profile_list, wds, activations, profiles, network, links, bound>>
  BY DEF GetCurrentSettingsReady, GetCurrentSettingsIncomplete,
     GetCurrentSettingsFailed, external, history
<1>2. Backed(s) /\ Len(profiles) \in Nat
  BY DEF Prompted, TypeInv, TypeOK
<1>3. Expected(s, r) \/ Stale(s, r)
  BY <1>1, WaitingFacts DEF Receive
<1>4. /\ Expected(s, r) => session[s].step = 12
      /\ Stale(s, r) => session[s].step = 0 /\ activations[s] > 1 /\ network[s] # NoNet
  BY <1>1 DEF Expected, Stale, GET_SETTINGS_IPV4, GET_PROFILES
<1>5. network[s] # NoNet
  BY <1>2, <1>3, <1>4, BackedAt
<1>6. ~GetCurrentSettingsFailed(s, r)
  BY <1>5 DEF GetCurrentSettingsFailed, HarmfulFaults
<1>7. process' = process
  BY <1>6 DEF GetCurrentSettingsReady, GetCurrentSettingsIncomplete
<1>8. CASE GetCurrentSettingsReady(s, r)
  <2>1. /\ session'[s].step = Inc(session[s].step)
        /\ session'[s].profile_id = session[s].profile_id
        /\ session'[s].mux_id = session[s].mux_id
    <3>1. PICK addr \in IpAddrs : session' = [session EXCEPT ![s] =
            [@ EXCEPT !.ip_address = CopyAddress(session[s].ip_address, addr),
                      !.step = Inc(session[s].step)]]
      BY <1>8 DEF GetCurrentSettingsReady
    <3> QED
      BY <3>1, TypeFacts DEF Sessions
  <2>2. Inc(12) = 13 /\ Inc(0) = 1
    BY DEF Inc
  <2>3. CASE Expected(s, r)
    <3>1. session[s].mux_id \in links[s] /\ bound[s] = session[s].mux_id
      BY <1>2, <1>4, <2>3, BackedAt
    <3>2. session'[s].step = 13 /\ network'[s] = network[s]
      BY <1>1, <1>4, <2>1, <2>2, <2>3
    <3>3. Backed(s)'
      BY <1>1, <1>2, <1>4, <1>5, <2>1, <2>3, <3>1, <3>2, ExpectedBacks
    <3> QED
      BY <1>1, <1>2, <1>7, <3>3, AnswerKeeps
  <2>4. CASE Stale(s, r)
    <3>1. Backed(s)'
      BY <1>1, <1>2, <1>4, <2>1, <2>2, <2>4, StaleBacks
         DEF GET_PROFILES, FIND_PROFILE_ADD_MODIFY
    <3> QED
      BY <1>1, <1>2, <1>7, <3>1, AnswerKeeps
  <2> QED
    BY <1>3, <2>3, <2>4
<1>9. CASE GetCurrentSettingsIncomplete(s, r)
  <2>1. Backed(s)'
    BY <1>1, <1>2, <1>9 DEF GetCurrentSettingsIncomplete, Backed, Stage, IsIms
  <2> QED
    BY <1>1, <1>2, <1>7, <2>1, AnswerKeeps
<1> QED
  BY <1>6, <1>8, <1>9

-----------------------------------------------------------------------------
(* The profile list.                                                       *)

\* The next profile is asked for, or the list is freed and the session goes on
\* with what was found.
LEMMA GetNextPrompted ==
  ASSUME TypeInv, NEW s \in Slots, NEW sess \in Sessions,
         NEW list \in [live : {TRUE}, i : Nat, len : Profiles],
         NEW reqs \in Queues, \A q \in Requests : reqs[q] = 0,
         GetNextProfileSettings(s, sess, list, reqs),
         sess.step \in {GET_PROFILES, PROFILE_READY},
         sess.step = PROFILE_READY <=> sess.profile_id # 0,
         sess.profile_id # 0 => IsIms(sess.profile_id), Backed(s),
         list.len <= Len(profiles), activations[s] > 0, wds[s],
         UNCHANGED <<profiles, network, wds, activations>>
  PROVE  Prompted(s)'
<1>1. DOMAIN session = Slots /\ DOMAIN pending = Slots /\ DOMAIN profile_list = Slots
  BY DEF TypeInv, TypeOK
<1>2. network[s] # NoNet => IsIms(network[s])
  BY DEF Backed
<1>3. CASE list.i >= list.len
  <2>1. pending'[s] = reqs /\ ~profile_list'[s].live
    BY <1>1, <1>3 DEF GetNextProfileSettings
  <2>2. session'[s] = IF sess.profile_id = 0
                      THEN [sess EXCEPT !.step = FIND_PROFILE_ADD_MODIFY] ELSE sess
    BY <1>1, <1>3 DEF GetNextProfileSettings, SetSession
  <2>3. session'[s].profile_id = sess.profile_id
    BY <2>2 DEF Sessions
  <2>4. session'[s].step = IF sess.profile_id = 0 THEN 1 ELSE 2
    BY <2>2 DEF Sessions, FIND_PROFILE_ADD_MODIFY, PROFILE_READY
  <2>5a. Stage(s)' = session'[s].step /\ session'[s].step # GaveUp
    BY <2>4 DEF Stage, GaveUp, Dec, GET_PROFILES
  <2>5. InOrder(s)'
    BY <2>1 DEF InOrder, Idle
  <2>6. Backed(s)'
    BY <2>3, <2>4, <2>5a, <1>2 DEF Backed, IsIms, PROFILE_READY, LINK_BRINGUP,
       SELECT_IP_FAMILY_IPV4, REGISTER_INDICATIONS
  <2>7. Started(s)'
    BY <2>1 DEF Started
  <2> QED
    BY <2>5, <2>6, <2>7 DEF Prompted
<1>4. CASE ~(list.i >= list.len)
  <2> DEFINE r == Request("get_profile_settings", list.i + 1)
  <2>1. list.i + 1 \in 1 .. MaxProfiles
    BY <1>4, ProfilesAssumption DEF Profiles
  <2>2. r \in Requests
    BY <2>1, RequestKinds
  <2>3. /\ pending'[s] = [reqs EXCEPT ![r] = @ + 1]
        /\ profile_list'[s] = list /\ session'[s] = sess
    BY <1>1, <1>4 DEF GetNextProfileSettings, SetSession
  <2>4. \A q \in Requests : pending'[s][q] = IF q = r THEN 1 ELSE 0
    BY <2>2, <2>3 DEF Queues
  <2>5. Expected(s, r)'
    BY <2>3 DEF Expected, Request
  <2>6. InOrder(s)'
    BY <2>2, <2>4, <2>5 DEF InOrder, Only
  <2>7. Backed(s)'
    <3>1. Stage(s)' = sess.step /\ sess.step \in {0, 2} /\ session'[s].step # GaveUp
      BY <2>3 DEF Stage, GaveUp, Dec, GET_PROFILES, PROFILE_READY
    <3> QED
      BY <2>3, <3>1, <1>2 DEF Backed, IsIms, GET_PROFILES, PROFILE_READY, LINK_BRINGUP,
         SELECT_IP_FAMILY_IPV4, REGISTER_INDICATIONS
  <2>8. Started(s)'
    BY <2>3 DEF Started
  <2> QED
    BY <2>6, <2>7, <2>8 DEF Prompted
<1> QED
  BY <1>3, <1>4

LEMMA ListAnswers ==
  ASSUME TypeInv, NEW s \in Slots, Prompted(s), NEW r \in Requests,
         GetProfileListReady(s, r) \/ GetProfileSettingsReady(s, r)
  PROVE  Prompted(s)'
<1>1. InFlight(s, r) /\ UNCHANGED <<profiles, network, wds, activations>>
  BY DEF GetProfileListReady, GetProfileSettingsReady, external, history
<1>2. /\ activations[s] > 0 /\ wds[s]
      /\ Expected(s, r) \/ Stale(s, r)
      /\ \A q \in Requests : Answered(s, r)[q] = 0
  BY <1>1, WaitingFacts
<1>3. /\ Backed(s) /\ session[s] \in Sessions /\ Answered(s, r) \in Queues
      /\ Len(profiles) \in Profiles /\ Started(s)
      /\ DOMAIN pending = Slots
  BY <1>1, TypeFacts, AnsweredType DEF Prompted
<1>4. CASE GetProfileListReady(s, r)
  <2>1. session[s].step = 0 /\ session[s].profile_id = 0
    BY <1>2, <1>3, <1>4 DEF GetProfileListReady, Expected, Stale, GET_PROFILES, Backed,
       Stage, PROFILE_READY
  <2>2. PICK len \in r.arg .. Len(profiles) :
          IF len = 0
          THEN /\ SetStep(s, FIND_PROFILE_ADD_MODIFY)
               /\ pending' = [pending EXCEPT ![s] = Answered(s, r)]
               /\ UNCHANGED profile_list
          ELSE GetNextProfileSettings(s, session[s],
                 [live |-> TRUE, i |-> 0, len |-> len], Answered(s, r))
    BY <1>4 DEF GetProfileListReady
  <2>3. CASE len = 0
    <3>1. session'[s].step = 1 /\ session'[s].profile_id = 0
      BY <2>1, <2>2, <2>3, TypeFacts DEF SetStep, Sessions, FIND_PROFILE_ADD_MODIFY
    <3>2. Idle(s)' /\ UNCHANGED profile_list
      BY <1>2, <1>3, <2>2, <2>3 DEF Idle
    <3>3. Backed(s)'
      <4>1. Stage(s)' = 1 /\ session'[s].step # GaveUp
        BY <3>1 DEF Stage, GaveUp, Dec, GET_PROFILES
      <4> QED
        BY <1>1, <1>3, <3>1, <4>1 DEF Backed, IsIms, PROFILE_READY, LINK_BRINGUP,
           SELECT_IP_FAMILY_IPV4, REGISTER_INDICATIONS
    <3>4. Started(s)'
      BY <1>1, <1>2, <1>3, <3>2 DEF Started
    <3> QED
      BY <3>2, <3>3, <3>4 DEF Prompted, InOrder
  <2>4. CASE len # 0
    <3> DEFINE list == [live |-> TRUE, i |-> 0, len |-> len]
    <3>1. r.arg \in Profiles
      BY <1>4, RequestArgs DEF GetProfileListReady
    <3>2. len \in Profiles /\ len <= Len(profiles)
      <4>1. r.arg \in 0 .. MaxProfiles /\ MaxProfiles \in Nat
        BY <3>1, ProfilesAssumption DEF Profiles
      <4>2. Len(profiles) \in 0 .. MaxProfiles
        BY <1>3 DEF Profiles
      <4>3. len \in r.arg .. Len(profiles)
        OBVIOUS
      <4> HIDE DEF list
      <4> QED
        BY <4>1, <4>2, <4>3 DEF Profiles
    <3>3. list \in [live : {TRUE}, i : Nat, len : Profiles] /\ list.len <= Len(profiles)
      BY <3>2
    <3>4. GetNextProfileSettings(s, session[s], list, Answered(s, r))
      BY <2>2, <2>4
    <3>5. /\ session[s].step \in {GET_PROFILES, PROFILE_READY}
          /\ session[s].step = PROFILE_READY <=> session[s].profile_id # 0
      BY <2>1 DEF GET_PROFILES, PROFILE_READY
    <3> HIDE DEF list
    <3> QED
      BY <1>1, <1>2, <1>3, <2>1, <3>3, <3>4, <3>5, GetNextPrompted
  <2> QED
    BY <2>3, <2>4
<1>5. CASE GetProfileSettingsReady(s, r)
  <2> DEFINE old == profile_list[s]
             list == [old EXCEPT !.i = @ + 1]
  <2>1. /\ old.live /\ r.arg = old.i + 1
        /\ session[s].step \in {GET_PROFILES, PROFILE_READY}
    BY <1>2, <1>5 DEF GetProfileSettingsReady, Expected, Stale
  <2>2. /\ old \in [live : BOOLEAN, i : Nat, len : Profiles]
        /\ old.i < old.len /\ old.len <= Len(profiles)
    BY <1>3, <2>1 DEF TypeInv, TypeOK, ListCursorInside, Started
  <2>3. list \in [live : {TRUE}, i : Nat, len : Profiles] /\ list.len <= Len(profiles)
    <3>1. \A l \in [live : {TRUE}, i : Nat, len : Profiles], m \in Nat :
            /\ [l EXCEPT !.i = m] \in [live : {TRUE}, i : Nat, len : Profiles]
            /\ [l EXCEPT !.i = m].len = l.len
      OBVIOUS
    <3>2. old \in [live : {TRUE}, i : Nat, len : Profiles]
      BY <2>1, <2>2
    <3>3. old.i + 1 \in Nat
      BY <2>2
    <3> QED
      BY <2>2, <3>1, <3>2, <3>3
  <2>4. old.i + 1 \in DOMAIN profiles /\ old.i + 1 # 0 /\ old.i + 1 \in Profiles
    <3>1. DOMAIN profiles = 1 .. Len(profiles)
      BY DEF TypeInv, TypeOK
    <3> QED
      BY <1>3, <2>2, <3>1, ProfilesAssumption DEF Profiles
  <2>5. PICK is_ims \in BOOLEAN :
          /\ is_ims = profiles[r.arg] \/ (~is_ims /\ "profile_settings" \in Faults)
          /\ GetNextProfileSettings(s,
               IF is_ims THEN [session[s] EXCEPT !.profile_id = old.i + 1,
                                                 !.step = PROFILE_READY]
                         ELSE session[s],
               list, Answered(s, r))
    BY <1>5 DEF GetProfileSettingsReady
  <2>6. CASE is_ims
    <3> DEFINE sess == [session[s] EXCEPT !.profile_id = old.i + 1,
                                          !.step = PROFILE_READY]
    <3>1. /\ sess \in Sessions /\ sess.profile_id = old.i + 1
          /\ sess.step = PROFILE_READY
      <4> HIDE DEF old
      <4>1. PROFILE_READY \in 0 .. 255
        BY DEF PROFILE_READY
      <4>2. sess \in Sessions
        BY <1>3, <2>4, <4>1, SessionUpdates
      <4> QED
        BY <1>3, <4>2 DEF Sessions
    <3>2. IsIms(old.i + 1)
      BY <2>1, <2>4, <2>5, <2>6 DEF IsIms
    <3>3. GetNextProfileSettings(s, sess, list, Answered(s, r))
      BY <2>5, <2>6
    <3> HIDE DEF sess, list, old
    <3> QED
      BY <1>1, <1>2, <1>3, <2>3, <2>4, <3>1, <3>2, <3>3, GetNextPrompted
  <2>7. CASE ~is_ims
    <3>1. GetNextProfileSettings(s, session[s], list, Answered(s, r))
      BY <2>5, <2>7
    <3>2. session[s].step = PROFILE_READY <=> session[s].profile_id # 0
      BY <1>3, <2>1 DEF Backed, Stage, GaveUp, Dec, GET_PROFILES, PROFILE_READY
    <3>3. session[s].profile_id # 0 => IsIms(session[s].profile_id)
      BY <1>3 DEF Backed
    <3> HIDE DEF list, old
    <3> QED
      BY <1>1, <1>2, <1>3, <2>1, <2>3, <3>1, <3>2, <3>3, GetNextPrompted
  <2> QED
    BY <2>6, <2>7
<1> QED
  BY <1>4, <1>5

-----------------------------------------------------------------------------
(* Every step.                                                             *)

TablesGrow ==
  /\ Len(profiles) \in Nat /\ Len(profiles)' \in Nat /\ Len(profiles) <= Len(profiles)'
  /\ \A p : IsIms(p) => IsIms(p)'

LEMMA SameTables ==
  ASSUME TypeInv, UNCHANGED profiles
  PROVE  TablesGrow
BY DEF TypeInv, TypeOK, TablesGrow, IsIms

LEMMA CallbackTables ==
  ASSUME TypeInv, NEW s \in Slots, NEW r \in Requests, Callback(s, r)
  PROVE  /\ TablesGrow
         /\ "create_lost" \notin Faults => AddNewProfileReady(s, r) \/ UNCHANGED profiles
<1>1. \/ UNCHANGED profiles
      \/ /\ profiles' = Append(profiles, TRUE)
         /\ AddNewProfileReady(s, r) \/ "create_lost" \in Faults
  BY DEF Callback, GetProfileListReady, GetProfileListFailed,
     GetProfileSettingsReady, GetProfileSettingsFreed, AddNewProfileReady,
     AddNewProfileFailed, ModifyProfileReady, SetupLinkReady, SetupLinkFailed,
     BindMuxDataPortReady, BindMuxDataPortFailed, StartNetworkReady,
     StartNetworkNoReply, StartNetworkCallFailed, StartNetworkError,
     GetCurrentSettingsReady, GetCurrentSettingsIncomplete,
     GetCurrentSettingsFailed, external
<1>2. TablesGrow
  <2>1. CASE profiles' = Append(profiles, TRUE)
    <3>1. /\ Len(profiles) \in Nat /\ Len(profiles)' = Len(profiles) + 1
          /\ \A p : IsIms(p) => IsIms(p)'
      BY <2>1, AppendedProfile
    <3> QED
      BY <3>1 DEF TablesGrow
  <2> QED
    BY <1>1, <2>1, SameTables
<1> QED
  BY <1>1, <1>2

LEMMA CallbackPrompted ==
  ASSUME PromptScenario, TypeInv, NEW s \in Slots, Prompted(s),
         NEW r \in Requests, Callback(s, r), process # "crashed"
  PROVE  Prompted(s)' /\ process' # "crashed"
<1>0. Faults \cap HarmfulFaults = {}
  BY DEF PromptScenario
<1>1. ~GetProfileSettingsFreed(s, r)
  <2> SUFFICES ASSUME GetProfileSettingsFreed(s, r) PROVE FALSE
    OBVIOUS
  <2>1. /\ Expected(s, r) \/ Stale(s, r)
        /\ r.op = "get_profile_settings" /\ ~profile_list[s].live
    BY WaitingFacts DEF GetProfileSettingsFreed, Receive
  <2> QED
    BY <2>1 DEF Expected, Stale
<1>2. CASE \/ GetCurrentSettingsReady(s, r) \/ GetCurrentSettingsIncomplete(s, r)
           \/ GetCurrentSettingsFailed(s, r)
  BY <1>0, <1>2, SettingsAnswers
<1>3. CASE ~(\/ GetCurrentSettingsReady(s, r) \/ GetCurrentSettingsIncomplete(s, r)
             \/ GetCurrentSettingsFailed(s, r))
  <2>1. Prompted(s)'
    BY <1>1, <1>3, ListAnswers, ProfileAnswers, LinkAnswers, StartAnswers DEF Callback
  <2>2. process' = process
    BY <1>1, <1>3 DEF Callback, GetProfileListReady, GetProfileListFailed,
       GetProfileSettingsReady, AddNewProfileReady, AddNewProfileFailed,
       ModifyProfileReady, SetupLinkReady, SetupLinkFailed, BindMuxDataPortReady,
       BindMuxDataPortFailed, StartNetworkReady, StartNetworkNoReply,
       StartNetworkCallFailed, StartNetworkError
  <2> QED
    BY <2>1, <2>2
<1> QED
  BY <1>2, <1>3

LEMMA CallbackKeepsLists ==
  ASSUME TypeInv, NEW s \in Slots, NEW r \in Requests, Callback(s, r),
         NEW t \in Slots, t # s
  PROVE  profile_list'[t] = profile_list[t] /\ UNCHANGED wds
<1>1. DOMAIN profile_list = Slots
  BY DEF TypeInv, TypeOK
<1>2. CASE GetProfileListReady(s, r) \/ GetProfileSettingsReady(s, r)
  BY <1>1, <1>2 DEF GetProfileListReady, GetProfileSettingsReady,
     GetNextProfileSettings
<1>3. CASE ~(GetProfileListReady(s, r) \/ GetProfileSettingsReady(s, r))
  BY <1>3 DEF Callback, GetProfileListFailed, GetProfileSettingsFreed,
     AddNewProfileReady, AddNewProfileFailed, ModifyProfileReady, SetupLinkReady,
     SetupLinkFailed, BindMuxDataPortReady, BindMuxDataPortFailed,
     StartNetworkReady, StartNetworkNoReply, StartNetworkCallFailed,
     StartNetworkError, GetCurrentSettingsReady, GetCurrentSettingsIncomplete,
     GetCurrentSettingsFailed
<1> QED
  BY <1>1, <1>2, <1>3

LEMMA OthersPrompted ==
  ASSUME TypeInv, PromptInv, NEW t \in Slots, SlotKept(t), TablesGrow,
         profile_list'[t] = profile_list[t], UNCHANGED wds
  PROVE  Prompted(t)'
<1>1. profile_list[t].len \in Nat
  BY ProfilesAssumption DEF TypeInv, TypeOK, Profiles
<1> QED
  BY <1>1, OtherPrompt DEF PromptInv, TablesGrow

LEMMA ClientPrompted ==
  ASSUME PromptScenario, TypeInv, PromptInv, NEW s \in Slots,
         AllocateClientReady(s) \/ InitiateSession(s), NEW t \in Slots
  PROVE  Prompted(t)' /\ process' # "crashed"
<1>1. /\ Prompted(t) /\ process # "crashed" /\ Len(profiles) \in Nat
      /\ activations[s] \in Nat /\ MaxActivations \in Nat
      /\ DOMAIN session = Slots /\ DOMAIN wds = Slots /\ DOMAIN activations = Slots
  BY TypeFacts, BoundsAssumption DEF PromptInv, TypeInv, TypeOK
<1>2. UNCHANGED <<profile_list, profiles, network, pending>> /\ process' # "crashed"
  BY <1>1 DEF AllocateClientReady, InitiateSession, external, history
<1>3. profile_list[t].len \in Nat /\ wds \in [Slots -> BOOLEAN]
  BY ProfilesAssumption DEF TypeInv, TypeOK, Profiles
<1>4. CASE AllocateClientReady(s)
  <2>1. SlotKept(t)
    BY <1>4 DEF AllocateClientReady, SlotKept, external, history
  <2>2. wds[t] => wds'[t]
    BY <1>1, <1>3, <1>4 DEF AllocateClientReady
  <2> QED
    BY <1>1, <1>2, <1>3, <2>1, <2>2, SameTables, OtherPrompt DEF TablesGrow
<1>5. CASE InitiateSession(s) /\ t # s
  <2>1. SlotKept(t) /\ wds' = wds
    BY <1>1, <1>5 DEF InitiateSession, SlotKept, SetSession, external
  <2> QED
    BY <1>1, <1>2, <1>3, <2>1, SameTables, OtherPrompt DEF TablesGrow
<1>6. CASE InitiateSession(s) /\ t = s
  <2>1. Prompted(s) /\ wds[s] /\ wds' = wds /\ activations'[s] = activations[s] + 1
    BY <1>1, <1>6 DEF InitiateSession, PromptScenario, HarmfulFaults
  <2>2. session'[s].step = 0 /\ session'[s].profile_id = 0
    BY <1>1, <1>6 DEF InitiateSession, SetSession, FreshSession, GET_PROFILES
  <2>3. InOrder(s)'
    <3>1. CASE Idle(s)
      BY <1>2, <3>1 DEF InOrder, Idle
    <3>2. CASE ~Idle(s)
      <4>1. PICK r \in Requests : Only(s, r) /\ (Expected(s, r) \/ Stale(s, r))
        BY <2>1, <3>2 DEF Prompted, InOrder
      <4>2. activations'[s] > 1
        BY <1>1, <2>1, <3>2 DEF Prompted, Started
      <4>3. r.op = "start_network" => IsIms(r.arg)
        BY <2>1, <4>1, BackedAt DEF Prompted, Expected, Stale, WAIT_FOR_COMPLETION
      <4>4. r.op = "get_current_settings" => network[s] # NoNet
        BY <2>1, <4>1, BackedAt DEF Prompted, Expected, Stale, GET_SETTINGS_IPV4
      <4>5. r.op = "get_profile_settings" =>
              profile_list[s].live /\ r.arg = profile_list[s].i + 1
        BY <4>1 DEF Expected, Stale
      <4>6. Expected(s, r)' \/ Stale(s, r)'
        BY <1>2, <2>2, <4>2, <4>3, <4>4, <4>5 DEF Expected, Stale, IsIms, GET_PROFILES
      <4> QED
        BY <1>2, <4>1, <4>6 DEF InOrder, Only
    <3> QED
      BY <3>1, <3>2
  <2>4. Backed(s)'
    <3>1. Stage(s)' = 0 /\ session'[s].step # GaveUp
      BY <2>2 DEF Stage, GaveUp, Dec, GET_PROFILES
    <3> QED
      BY <1>2, <2>1, <2>2, <3>1 DEF Prompted, Backed, IsIms, PROFILE_READY, LINK_BRINGUP,
         SELECT_IP_FAMILY_IPV4, REGISTER_INDICATIONS
  <2>5. Started(s)'
    BY <1>1, <1>2, <2>1 DEF Prompted, Started
  <2> QED
    BY <1>2, <1>6, <2>3, <2>4, <2>5 DEF Prompted
<1> QED
  BY <1>2, <1>4, <1>5, <1>6

LEMMA NextPrompt ==
  ASSUME PromptScenario
  PROVE  TypeInv /\ OneIndicationPerActivation /\ PromptInv /\ [Next]_vars => PromptInv'
<1> SUFFICES ASSUME TypeInv, OneIndicationPerActivation, PromptInv, [Next]_vars
             PROVE  PromptInv'
  OBVIOUS
<1>0. Prompt /\ Faults \cap HarmfulFaults = {} /\ process # "crashed"
  BY DEF PromptScenario, PromptInv
<1>1. ASSUME NEW s \in Slots, Tick(s), NEW t \in Slots
      PROVE  Prompted(t)' /\ process' # "crashed"
  <2>1. Prompted(s)' /\ process' # "crashed"
    BY <1>0, <1>1, TickPrompted DEF PromptInv
  <2>2. CASE t # s
    <3>1. SlotKept(t)
      BY <1>1, <2>2, TickKeepsOthers
    <3>2. UNCHANGED <<profile_list, wds, profiles>>
      BY <1>1 DEF Tick, QuietTick, TickGetProfiles, TickWithoutClient, TickAddProfile,
         TickModifyProfile, TickProfileReady, TickDummy, TickSetupLink,
         TickBindDataPort, TickStartNetwork, TickWait, TickGetSettings, TickStop,
         TickFinished, TickGiveUp, vars, external
    <3> QED
      BY <2>1, <3>1, <3>2, OthersPrompted, SameTables
  <2> QED
    BY <2>1, <2>2
<1>2. ASSUME NEW s \in Slots, NEW r \in Requests, Callback(s, r), NEW t \in Slots
      PROVE  Prompted(t)' /\ process' # "crashed"
  <2>1. Prompted(s)' /\ process' # "crashed"
    BY <1>2, CallbackPrompted DEF PromptInv
  <2>2. CASE t # s
    BY <1>0, <1>2, <2>1, <2>2, CallbackKeepsOthers, CallbackKeepsLists,
       CallbackTables, OthersPrompted
  <2> QED
    BY <2>1, <2>2
<1>3. ASSUME NEW s \in Slots, AllocateClientReady(s) \/ InitiateSession(s)
      PROVE  PromptInv'
  <2>1. \A t \in Slots : Prompted(t)' /\ process' # "crashed"
    BY <1>3, ClientPrompted
  <2> QED
    BY <1>3, <2>1 DEF PromptInv
<1>4. CASE UNCHANGED vars
  BY <1>4 DEF vars, external, history, PromptInv, Prompted, InOrder, Idle, Only,
     Expected, Stale, Backed, Stage, Started, IsIms
<1>5. ASSUME NEW s \in Slots, Tick(s) PROVE PromptInv'
  BY <1>1, <1>5 DEF PromptInv
<1>6. ASSUME NEW s \in Slots, NEW r \in Requests, Callback(s, r) PROVE PromptInv'
  BY <1>2, <1>6 DEF PromptInv
<1> QED
  BY <1>3, <1>4, <1>5, <1>6 DEF Next

LEMMA InitPrompt == Init => PromptInv
<1> SUFFICES ASSUME Init, NEW s \in Slots PROVE Prompted(s)
  BY DEF Init, PromptInv
<1>1. /\ session[s].step = 0 /\ session[s].profile_id = 0 /\ Idle(s)
      /\ network[s] = NoNet /\ activations[s] = 0 /\ ~profile_list[s].live
  BY DEF Init, FreshSession, GET_PROFILES, Idle
<1>2. InOrder(s)
  BY <1>1 DEF InOrder
<1>3. Backed(s)
  BY <1>1 DEF Backed, Stage, GaveUp, Dec, GET_PROFILES, PROFILE_READY, LINK_BRINGUP,
     SELECT_IP_FAMILY_IPV4, REGISTER_INDICATIONS
<1>4. Started(s)
  BY <1>1 DEF Started
<1> QED
  BY <1>2, <1>3, <1>4 DEF Prompted

LEMMA PromptInvariant ==
  ASSUME PromptScenario
  PROVE  Spec => []PromptInv
<1>1. TypeInv /\ OneIndicationPerActivation /\ PromptInv /\ [Next]_vars => PromptInv'
  BY NextPrompt
<1> QED
  BY <1>1, InitPrompt, TypeInvariant, OneIndicationTheorem, PTL DEF Spec

-----------------------------------------------------------------------------
(* What it is for.                                                         *)

\* A call is on a profile that the modem has and whose APN type is IMS, found
\* in the list or made for it.
THEOREM ImsProfileTheorem ==
  ASSUME PromptScenario
  PROVE  Spec => []NetworkOnImsProfile
<1>1. PromptInv => NetworkOnImsProfile
  BY DEF PromptInv, Prompted, Backed, IsIms, NetworkOnImsProfile
<1> QED
  BY <1>1, PromptInvariant, PTL

\* Only the tick at FINISHED announces.
LEMMA AnnouncementFinishes ==
  ASSUME TypeInv, [Next]_vars, NEW s \in Slots, Announces(s)
  PROVE  TickFinished(s)
<1>1. notified'[s] # notified[s] /\ notified \in [Slots -> Nat]
  BY TypeFacts DEF Announces
<1>2. ~UNCHANGED notified
  BY <1>1
<1>3. PICK u \in Slots : Tick(u)
  <2>1. ASSUME NEW u \in Slots, AllocateClientReady(u) \/ InitiateSession(u)
        PROVE  UNCHANGED notified
    BY <2>1 DEF AllocateClientReady, InitiateSession, history
  <2>2. ASSUME NEW u \in Slots, NEW r \in Requests, Callback(u, r)
        PROVE  UNCHANGED notified
    BY <2>2 DEF Callback, GetProfileListReady, GetProfileListFailed,
       GetProfileSettingsReady, GetProfileSettingsFreed, AddNewProfileReady,
       AddNewProfileFailed, ModifyProfileReady, SetupLinkReady, SetupLinkFailed,
       BindMuxDataPortReady, BindMuxDataPortFailed, StartNetworkReady,
       StartNetworkNoReply, StartNetworkCallFailed, StartNetworkError,
       GetCurrentSettingsReady, GetCurrentSettingsIncomplete,
       GetCurrentSettingsFailed, history
  <2>3. ASSUME UNCHANGED vars PROVE UNCHANGED notified
    BY <2>3 DEF vars, history
  <2> QED
    BY <1>2, <2>1, <2>2, <2>3 DEF Next
<1>4. TickFinished(u)
  BY <1>2, <1>3 DEF Tick, QuietTick, TickGetProfiles, TickWithoutClient,
     TickAddProfile, TickModifyProfile, TickProfileReady, TickDummy, TickSetupLink,
     TickBindDataPort, TickStartNetwork, TickWait, TickGetSettings, TickStop,
     TickGiveUp, vars, history
<1>5. u = s
  BY <1>1, <1>4 DEF TickFinished
<1> QED
  BY <1>4, <1>5

LEMMA AnnouncementIsLive ==
  ASSUME TypeInv, PromptInv, [Next]_vars, NEW s \in Slots, Announces(s)
  PROVE  network[s] # NoNet /\ bound[s] \in links[s]
<1>1. TickFinished(s)
  BY AnnouncementFinishes
<1>2. session[s].step = 99
  BY <1>1 DEF TickFinished, Due, FINISHED
<1> QED
  BY <1>2, BackedAt DEF PromptInv, Prompted

\* What is announced is up: there is a call, on a link of the slot.
THEOREM LiveNetworkTheorem ==
  ASSUME PromptScenario
  PROVE  Spec => AnnouncesLiveNetwork
<1>1. TypeInv /\ PromptInv /\ [Next]_vars
      => [\A s \in Slots : Announces(s) => network[s] # NoNet /\ bound[s] \in links[s]]_vars
  BY AnnouncementIsLive
<1> QED
  BY <1>1, TypeInvariant, PromptInvariant, PTL DEF Spec, AnnouncesLiveNetwork

-----------------------------------------------------------------------------
(* A first activation meets no answer but its own.                         *)

LEMMA FirstIsFresh ==
  ASSUME FirstScenario, TypeInv, PromptInv, NEW s \in Slots
  PROVE  /\ activations[s] \in {0, 1}
         /\ \A r \in Requests : ~Stale(s, r)
         /\ Stage(s) = session[s].step /\ session[s].step # GaveUp
<1>1. activations[s] \in 0 .. MaxActivations /\ MaxActivations \in Nat
      /\ MaxActivations <= 1
  BY TypeFacts, BoundsAssumption DEF FirstScenario
<1>2. activations[s] \in {0, 1}
  BY <1>1
<1> QED
  BY <1>2 DEF PromptInv, Prompted, Backed, Stale, Stage

LEMMA FirstAnswers ==
  ASSUME FirstScenario, TypeInv, PromptInv, NEW s \in Slots, NEW r \in Requests,
         InFlight(s, r)
  PROVE  Expected(s, r)
BY FirstIsFresh, WaitingFacts DEF PromptInv

-----------------------------------------------------------------------------
(* The address of a first activation: the buffer is written once, by the   *)
(* only answer that takes the step past GET_SETTINGS_IPV4, so its content  *)
(* until then is the initial one, and after it an address is there.        *)

ZeroedAddress == \A k \in 1 .. IpLen : InitialBuffer[k] = NUL

FirstGrant(s) ==
  /\ CString(session[s].ip_address) = granted[s]
  /\ session[s].step <= GET_SETTINGS_IPV4 => session[s].ip_address = InitialBuffer
  /\ session[s].step > GET_SETTINGS_IPV4 => granted[s] \in IpAddrs

FirstGrants == \A s \in Slots : FirstGrant(s)

LEMMA TickStaysPast ==
  ASSUME TypeInv, NEW s \in Slots, Tick(s), NEW t \in Slots,
         session[t].step > GET_SETTINGS_IPV4
  PROVE  session'[t].step > GET_SETTINGS_IPV4
<1>1. CASE UNCHANGED session \/ session'[t] = session[t]
  BY <1>1
<1>2. CASE t # s
  BY <1>1, <1>2, TickKeepsOthers DEF SlotKept
<1>3. CASE t = s /\ TickStop(s)
  BY <1>3, TypeFacts DEF TickStop, SetStep, FINISHED, GET_SETTINGS_IPV4
<1>4. CASE t = s /\ ~TickStop(s)
  <2>1. session[s].step > 12
    BY <1>4 DEF GET_SETTINGS_IPV4
  <2>2. UNCHANGED session
    BY <1>4, <2>1 DEF Tick, QuietTick, TickGetProfiles, TickWithoutClient,
       TickAddProfile, TickModifyProfile, TickProfileReady, TickDummy, TickSetupLink,
       TickBindDataPort, TickStartNetwork, TickWait, TickGetSettings, TickFinished,
       TickGiveUp, Due, DummySteps, vars, GET_PROFILES, FIND_PROFILE_ADD_MODIFY,
       PROFILE_READY, SETUP_DATA_FORMAT, SETUP_LINK, LINK_BRINGUP,
       SET_IP_BEARER_METHOD, BIND_DATA_PORT_IPV4, SELECT_IP_FAMILY_IPV4,
       DO_START_NETWORK_IPV4, REGISTER_INDICATIONS
  <2> QED
    BY <1>4, <2>2
<1> QED
  BY <1>2, <1>3, <1>4

LEMMA NextStaysPast ==
  ASSUME FirstScenario, TypeInv, PromptInv, [Next]_vars, NEW t \in Slots,
         session[t].step > GET_SETTINGS_IPV4
  PROVE  session'[t].step > GET_SETTINGS_IPV4
<1>1. ASSUME NEW s \in Slots, NEW r \in Requests, Callback(s, r)
      PROVE  session'[t].step > GET_SETTINGS_IPV4
  <2>1. CASE t # s
    BY <1>1, <2>1, CallbackKeepsOthers DEF SlotKept
  <2>2. CASE t = s
    <3>1. InFlight(s, r)
      BY <1>1 DEF Callback, GetProfileListReady, GetProfileListFailed,
         GetProfileSettingsReady, GetProfileSettingsFreed, AddNewProfileReady,
         AddNewProfileFailed, ModifyProfileReady, SetupLinkReady, SetupLinkFailed,
         BindMuxDataPortReady, BindMuxDataPortFailed, StartNetworkReady,
         StartNetworkNoReply, StartNetworkCallFailed, StartNetworkError,
         GetCurrentSettingsReady, GetCurrentSettingsIncomplete,
         GetCurrentSettingsFailed, Receive
    <3>2. Expected(s, r)
      BY <3>1, FirstAnswers
    <3>3. session[s].step <= 12
      BY <3>2 DEF Expected, GET_PROFILES, PROFILE_READY, FIND_PROFILE_ADD_MODIFY,
         SETUP_LINK, BIND_DATA_PORT_IPV4, WAIT_FOR_COMPLETION, GET_SETTINGS_IPV4
    <3>4. session[s].step \in 0 .. 255
      BY TypeFacts
    <3> QED
      BY <2>2, <3>3, <3>4 DEF GET_SETTINGS_IPV4
  <2> QED
    BY <2>1, <2>2
<1>2. ASSUME NEW s \in Slots, AllocateClientReady(s) \/ InitiateSession(s)
      PROVE  session'[t].step > GET_SETTINGS_IPV4
  <2>1. activations[t] # 0
    <3>1. Backed(t) /\ Started(t) /\ session[t].step \in 0 .. 255
      BY TypeFacts DEF PromptInv, Prompted
    <3>2. session[t].profile_id # 0
      BY <3>1, FirstIsFresh DEF Backed, PROFILE_READY, GET_SETTINGS_IPV4
    <3> QED
      BY <3>1, <3>2 DEF Started
  <2>2. InitiateSession(s) => s # t
    BY <2>1, TypeFacts, BoundsAssumption DEF InitiateSession, FirstScenario
  <2> QED
    BY <1>2, <2>2, TypeFacts DEF AllocateClientReady, InitiateSession, SetSession
<1>3. CASE UNCHANGED vars
  BY <1>3 DEF vars
<1> QED
  BY <1>1, <1>2, <1>3, TickStaysPast DEF Next

\* No tick takes the step past GET_SETTINGS_IPV4.
LEMMA TickStaysBelow ==
  ASSUME TypeInv, NEW s \in Slots, Tick(s), NEW t \in Slots,
         session[t].step <= GET_SETTINGS_IPV4
  PROVE  session'[t].step <= GET_SETTINGS_IPV4
<1>1. CASE t # s
  BY <1>1, TickKeepsOthers DEF SlotKept
<1>2. CASE t = s /\ UNCHANGED session
  BY <1>2
<1>3. CASE t = s /\ session' = [session EXCEPT ![s].setup_link_done = 1]
  BY <1>3, TypeFacts DEF Sessions
<1>4. ASSUME t = s, NEW x, SetStep(s, x), x <= GET_SETTINGS_IPV4
      PROVE  session'[t].step <= GET_SETTINGS_IPV4
  BY <1>4, TypeFacts DEF SetStep, Sessions
<1>5. CASE t = s /\ TickModifyProfile(s)
  BY <1>4, <1>5 DEF TickModifyProfile, PROFILE_READY, GET_SETTINGS_IPV4
<1>6. CASE t = s /\ TickProfileReady(s)
  BY <1>4, <1>6 DEF TickProfileReady, SETUP_DATA_FORMAT, GET_SETTINGS_IPV4
<1>7. CASE t = s /\ (TickDummy(s) \/ TickStartNetwork(s))
  <2>1. session[s].step \in {3, 5, 6, 8, 9, 11} /\ SetStep(s, Inc(session[s].step))
    BY <1>7 DEF TickDummy, TickStartNetwork, Due, DummySteps, SETUP_DATA_FORMAT,
       LINK_BRINGUP, SET_IP_BEARER_METHOD, SELECT_IP_FAMILY_IPV4,
       DO_START_NETWORK_IPV4, REGISTER_INDICATIONS
  <2>2. Inc(session[s].step) <= GET_SETTINGS_IPV4
    BY <2>1 DEF Inc, GET_SETTINGS_IPV4
  <2> QED
    BY <1>4, <1>7, <2>1, <2>2
<1>8. ~(t = s /\ TickStop(s))
  BY DEF TickStop, Due, BIND_DATA_PORT_IPV6, GET_SETTINGS_IPV4
<1> QED
  BY <1>1, <1>2, <1>3, <1>5, <1>6, <1>7, <1>8 DEF Tick, QuietTick, TickGetProfiles,
     TickWithoutClient, TickAddProfile, TickSetupLink, TickBindDataPort, TickWait,
     TickGetSettings, TickFinished, TickGiveUp, vars

\* And no answer but the one with an address.
LEMMA AnswerStaysBelow ==
  ASSUME FirstScenario, TypeInv, PromptInv, NEW s \in Slots, NEW r \in Requests,
         Callback(s, r), ~GetCurrentSettingsReady(s, r),
         session[s].step <= GET_SETTINGS_IPV4
  PROVE  session'[s].step <= GET_SETTINGS_IPV4
<1> USE DEF GET_SETTINGS_IPV4
<1>0. session[s] \in Sessions /\ DOMAIN session = Slots /\ session[s].step \in 0 .. 255
  BY TypeFacts
<1>1. ASSUME NEW x, SetStep(s, x), x <= 12 PROVE session'[s].step <= 12
  BY <1>0, <1>1 DEF SetStep, Sessions
<1>2. InFlight(s, r)
  BY DEF Callback, GetProfileListReady, GetProfileListFailed,
     GetProfileSettingsReady, GetProfileSettingsFreed, AddNewProfileReady,
     AddNewProfileFailed, ModifyProfileReady, SetupLinkReady, SetupLinkFailed,
     BindMuxDataPortReady, BindMuxDataPortFailed, StartNetworkReady,
     StartNetworkNoReply, StartNetworkCallFailed, StartNetworkError,
     GetCurrentSettingsReady, GetCurrentSettingsIncomplete,
     GetCurrentSettingsFailed, Receive
<1>3. Expected(s, r)
  BY <1>2, FirstAnswers
<1>4. CASE UNCHANGED session
  BY <1>4
<1>5. ASSUME NEW sess \in Sessions, NEW list, NEW reqs, sess.step <= 12,
             GetNextProfileSettings(s, sess, list, reqs)
      PROVE  session'[s].step <= 12
  <2> DEFINE kept == IF sess.profile_id = 0
                     THEN [sess EXCEPT !.step = FIND_PROFILE_ADD_MODIFY] ELSE sess
  <2>1. kept.step <= 12
    BY <1>5 DEF Sessions, FIND_PROFILE_ADD_MODIFY
  <2>2. SetSession(s, kept) \/ SetSession(s, sess)
    BY <1>5 DEF GetNextProfileSettings
  <2> HIDE DEF kept
  <2> QED
    BY <1>0, <1>5, <2>1, <2>2 DEF SetSession
<1>6. CASE GetProfileListReady(s, r)
  <2>1. SetStep(s, FIND_PROFILE_ADD_MODIFY)
        \/ \E list, reqs : GetNextProfileSettings(s, session[s], list, reqs)
    BY <1>6 DEF GetProfileListReady
  <2> QED
    BY <1>0, <1>1, <1>5, <2>1 DEF FIND_PROFILE_ADD_MODIFY
<1>7. CASE GetProfileSettingsReady(s, r)
  <2> DEFINE found == [session[s] EXCEPT !.profile_id = profile_list[s].i + 1,
                                         !.step = PROFILE_READY]
  <2>1. profile_list[s].i + 1 \in Profiles /\ PROFILE_READY \in 0 .. 255
    <3>1. /\ profile_list[s].i \in Nat /\ profile_list[s].len \in Profiles
          /\ profile_list[s].i < profile_list[s].len
      BY <1>7 DEF GetProfileSettingsReady, TypeInv, TypeOK, ListCursorInside
    <3> QED
      BY <3>1, ProfilesAssumption DEF Profiles, PROFILE_READY
  <2>2. found \in Sessions
    BY <1>0, <2>1, SessionUpdates
  <2>3. found.step <= 12
    BY <1>0 DEF Sessions, PROFILE_READY
  <2>4. PICK sess, list, reqs : /\ sess \in {found, session[s]}
                               /\ GetNextProfileSettings(s, sess, list, reqs)
    BY <1>7 DEF GetProfileSettingsReady
  <2> HIDE DEF found
  <2> QED
    BY <1>0, <1>5, <2>2, <2>3, <2>4
<1>8. CASE AddNewProfileReady(s, r)
  <2>1. session' = [session EXCEPT ![s] = [session[s] EXCEPT
                      !.profile_id = Len(profiles) + 1, !.step = PROFILE_READY]]
    BY <1>8 DEF AddNewProfileReady
  <2> QED
    BY <1>0, <2>1 DEF Sessions, PROFILE_READY
<1>9. CASE SetupLinkReady(s, r)
  <2>1. PICK mux \in MuxIds : session' = [session EXCEPT ![s] =
          [session[s] EXCEPT !.mux_id = mux, !.step = Inc(session[s].step)]]
    BY <1>9 DEF SetupLinkReady
  <2>2. session[s].step = 4
    BY <1>3, <1>9 DEF Expected, SetupLinkReady, SETUP_LINK
  <2> QED
    BY <1>0, <2>1, <2>2 DEF Sessions, Inc
<1>10. CASE StartNetworkReady(s, r)
  <2>1. session' = [session EXCEPT ![s] =
          [session[s] EXCEPT !.has_handle = TRUE, !.step = Inc(session[s].step)]]
    BY <1>10 DEF StartNetworkReady
  <2>2. session[s].step = 10
    BY <1>3, <1>10 DEF Expected, StartNetworkReady, WAIT_FOR_COMPLETION
  <2> QED
    BY <1>0, <2>1, <2>2 DEF Sessions, Inc
<1>11. CASE BindMuxDataPortReady(s, r)
  <2>1. session[s].step = 7
    BY <1>3, <1>11 DEF Expected, BindMuxDataPortReady, BIND_DATA_PORT_IPV4
  <2> QED
    BY <1>1, <1>11, <2>1 DEF BindMuxDataPortReady, Inc
<1>12. CASE StartNetworkNoReply(s, r) \/ StartNetworkCallFailed(s, r)
            \/ StartNetworkError(s, r)
  <2>1. session[s].step = 10
    BY <1>3, <1>12 DEF Expected, StartNetworkNoReply, StartNetworkCallFailed,
       StartNetworkError, WAIT_FOR_COMPLETION
  <2> QED
    BY <1>1, <1>12, <2>1 DEF StartNetworkNoReply, StartNetworkCallFailed,
       StartNetworkError, Inc, Dec, LINK_BRINGUP
<1> QED
  BY <1>4, <1>6, <1>7, <1>8, <1>9, <1>10, <1>11, <1>12 DEF Callback,
     GetProfileListFailed, GetProfileSettingsFreed, AddNewProfileFailed,
     ModifyProfileReady, SetupLinkFailed, BindMuxDataPortFailed,
     GetCurrentSettingsIncomplete, GetCurrentSettingsFailed

LEMMA NextFirstGrants ==
  ASSUME FirstScenario, ZeroedAddress
  PROVE  TypeInv /\ PromptInv /\ FirstGrants /\ [Next]_vars => FirstGrants'
<1> SUFFICES ASSUME TypeInv, PromptInv, FirstGrants, [Next]_vars, NEW t \in Slots
             PROVE  FirstGrant(t)'
  BY DEF FirstGrants
<1>0. FirstGrant(t) /\ session[t].step \in 0 .. 255
  BY TypeFacts DEF FirstGrants
<1>1. CASE /\ AddressKept(t)
           /\ session[t].step <= GET_SETTINGS_IPV4
                => session'[t].step <= GET_SETTINGS_IPV4
  <2>1. session[t].step > 12 => session'[t].step > 12
    BY NextStaysPast DEF GET_SETTINGS_IPV4
  <2>2. session'[t].step \in 0 .. 255
    BY NextTypeInv DEF TypeInv, TypeOK, Sessions
  <2> QED
    BY <1>0, <1>1, <2>1, <2>2 DEF FirstGrant, AddressKept, GET_SETTINGS_IPV4
<1>2. ASSUME NEW r \in Requests, GetCurrentSettingsReady(t, r), GrantsAddress(t)
      PROVE  FirstGrant(t)'
  <2> DEFINE b == session[t].ip_address
  <2>1. PICK a \in IpAddrs : session'[t].ip_address = CopyAddress(b, a)
                             /\ granted'[t] = a
    BY <1>2 DEF GrantsAddress
  <2>2. session[t].step = 12
    <3>1. Expected(t, r) /\ r.op = "get_current_settings"
      BY <1>2, FirstAnswers DEF GetCurrentSettingsReady, Receive
    <3> QED
      BY <3>1 DEF Expected, GET_SETTINGS_IPV4
  <2>3. b = InitialBuffer
    BY <1>0, <2>2 DEF FirstGrant, GET_SETTINGS_IPV4
  <2>4. b \in [1 .. IpLen -> Byte] /\ b[Len(a) + 1] = NUL
    <3>1. Len(a) \in Nat /\ Len(a) < IpLen /\ IpLen \in Nat
      BY AddressAssumption, LenProperties
    <3> QED
      BY <2>3, <3>1, AddressAssumption DEF ZeroedAddress
  <2>5. CString(CopyAddress(b, a)) = a
    BY <2>4, CopiedString
  <2>6. session'[t].step = 13
    <3> DEFINE sess(x) == [session[t] EXCEPT !.ip_address = CopyAddress(b, x),
                                            !.step = Inc(session[t].step)]
    <3>1. PICK x \in IpAddrs : session' = [session EXCEPT ![t] = sess(x)]
      BY <1>2 DEF GetCurrentSettingsReady
    <3>2. sess(x).step = Inc(session[t].step)
      BY TypeFacts DEF Sessions
    <3> HIDE DEF sess
    <3>3. session'[t].step = Inc(session[t].step)
      BY <3>1, <3>2, TypeFacts
    <3> QED
      BY <2>2, <3>3 DEF Inc
  <2> HIDE DEF b
  <2> QED
    BY <2>1, <2>5, <2>6 DEF FirstGrant, GET_SETTINGS_IPV4
<1>3. CASE UNCHANGED vars
  <2>1. AddressKept(t) /\ session'[t].step = session[t].step
    BY <1>3 DEF vars, history, AddressKept
  <2> QED
    BY <1>1, <2>1
<1>4. ASSUME NEW s \in Slots, Tick(s) PROVE FirstGrant(t)'
  BY <1>1, <1>4, TickKeepsAddress, TickStaysBelow
<1>5. ASSUME NEW s \in Slots, AllocateClientReady(s) \/ InitiateSession(s)
      PROVE  FirstGrant(t)'
  <2>1. session[t].step <= GET_SETTINGS_IPV4 => session'[t].step <= GET_SETTINGS_IPV4
    <3>1. FreshSession(session[s].ip_address).step = 0
      BY DEF FreshSession, GET_PROFILES
    <3>2. UNCHANGED session
          \/ session' = [session EXCEPT ![s] = FreshSession(session[s].ip_address)]
      BY <1>5 DEF AllocateClientReady, InitiateSession, SetSession
    <3>3. session'[t].step = session[t].step \/ session'[t].step = 0
      BY <3>1, <3>2, TypeFacts
    <3> QED
      BY <3>3 DEF GET_SETTINGS_IPV4
  <2> QED
    BY <1>1, <1>5, <2>1, ClientKeepsAddress
<1>6. ASSUME NEW s \in Slots, NEW r \in Requests, Callback(s, r)
      PROVE  FirstGrant(t)'
  <2>1. CASE s = t /\ GetCurrentSettingsReady(s, r)
    <3>1. GrantsAddress(t)
      BY <1>6, <2>1, CallbackGrants
    <3> QED
      BY <1>2, <2>1, <3>1
  <2>2. CASE s = t /\ ~GetCurrentSettingsReady(s, r)
    <3>1. AddressKept(t)
      BY <1>6, <2>2, CallbackGrants
    <3>2. session[t].step <= GET_SETTINGS_IPV4 => session'[t].step <= GET_SETTINGS_IPV4
      BY <1>6, <2>2, AnswerStaysBelow
    <3> QED
      BY <1>1, <3>1, <3>2
  <2>3. CASE s # t
    <3>1. AddressKept(t)
      BY <1>6, <2>3, CallbackGrants
    <3>2. session'[t].step = session[t].step
      BY <1>6, <2>3, CallbackKeepsOthers DEF SlotKept
    <3> QED
      BY <1>1, <3>1, <3>2
  <2> QED
    BY <2>1, <2>2, <2>3
<1> QED
  BY <1>3, <1>4, <1>5, <1>6 DEF Next

LEMMA InitFirstGrants ==
  ASSUME ZeroedAddress
  PROVE  Init => FirstGrants
<1> SUFFICES ASSUME Init, NEW s \in Slots PROVE FirstGrant(s)
  BY DEF FirstGrants
<1>1. session[s].ip_address = InitialBuffer /\ granted[s] = <<>> /\ session[s].step = 0
  BY DEF Init, FreshSession, GET_PROFILES
<1>2. InitialBuffer[1] = NUL /\ InitialBuffer \in [1 .. IpLen -> Byte]
  BY AddressAssumption DEF ZeroedAddress
<1>3. CString(InitialBuffer) = <<>>
  BY <1>2, EmptyString
<1> QED
  BY <1>1, <1>3 DEF FirstGrant, GET_SETTINGS_IPV4

LEMMA FirstGrantsInvariant ==
  ASSUME FirstScenario, ZeroedAddress
  PROVE  Spec => []FirstGrants
<1>1. TypeInv /\ PromptInv /\ FirstGrants /\ [Next]_vars => FirstGrants'
  BY NextFirstGrants
<1> QED
  BY <1>1, InitFirstGrants, TypeInvariant, PromptInvariant, PTL DEF Spec, FirstScenario

\* An announcement is made at FINISHED, where an address is there.
LEMMA GrantedAtEnd ==
  ASSUME FirstGrants, NEW s \in Slots, TickFinished(s)
  PROVE  granted[s] \in IpAddrs /\ CString(session[s].ip_address) = granted[s]
BY DEF FirstGrants, FirstGrant, TickFinished, Due, FINISHED, GET_SETTINGS_IPV4

\* An address of any length is announced as it was granted, and never an empty
\* one, if the slot is activated once, answers are prompt and the buffer starts
\* zeroed: neither a late answer nor the tail of an earlier address is there.
THEOREM FirstAddressTheorem ==
  ASSUME FirstScenario, ZeroedAddress
  PROVE  Spec => AnnouncesGrantedAddress
<1>1. TypeInv /\ FirstGrants /\ [Next]_vars
      => [\A s \in Slots : Announces(s) =>
            granted[s] \in IpAddrs /\ CString(session[s].ip_address) = granted[s]]_vars
  BY AnnouncementFinishes, GrantedAtEnd
<1> QED
  BY <1>1, FirstGrantsInvariant, TypeInvariant, PTL DEF Spec, AnnouncesGrantedAddress
=============================================================================
