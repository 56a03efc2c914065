------------------------------- MODULE Daemon -------------------------------
(***************************************************************************)
(* An imsd instance from its start to its end. Past the lock, main starts  *)
(* two threads: one creates the client side (initialize_qmi_client, with   *)
(* a poll every ten seconds), the other publishes the DCM service and runs *)
(* the main loop. All callbacks run on that loop: the QMI device is opened,*)
(* a client is allocated for every service at once, and each service is    *)
(* started as soon as its client is there (nas.c, imsa.c, imss.c, dms.c,   *)
(* mfs.c). PDC, the data sessions and DCM have modules of their own.       *)
(*                                                                         *)
(* libqmi and the modem are external: `allocating' and `pending' hold what *)
(* an instance waits for, answered in any order; libqmi answers or times   *)
(* out every request.                                                      *)
(***************************************************************************)
EXTENDS InstanceLock

CONSTANTS
  Cleared,     \* TRUE: the memory g_new returns happens to be zero
  Unasked,     \* bound: services left out that start nothing here
  Untracked    \* bound: requests left out whose answers are only printed

WdsClients == {"wds0", "wds1"}             \* one per SIM slot
Passive    == {"pdc", "imsrtp"} \cup WdsClients
Waited     == {"dms", "nas", "imss", "imsa"}   \* the services wait_for_init waits for
Services   == (Waited \cup {"mfs"} \cup Passive) \ Unasked

\* initialization_state (qmi-ims-client.h)
IMS_INIT_PENDING == 0
IMS_INIT_OK      == 1
IMS_INIT_ERR     == 2
Readiness == {IMS_INIT_PENDING, IMS_INIT_OK, IMS_INIT_ERR}

\* What the start of a service sends (nas_start, imsa_start, dms_start,
\* imss_start, mfs_allocate), and what a poll of the registration sends.
NasRequests  == {"home_network", "event_report", "register_indications"}
ImsaRequests == {"imsa_bind"}
DmsRequests  == {"capabilities", "indication_register"}
ImssRequests == {"imss_bind"}
MfsRequests  == {"mfs_write", "mfs_read"}
PollRequests == {"imsa_services", "imsa_registration"}

\* The services that are not named send nothing here.
StartRequests(svc) ==
  CASE svc = "nas"  -> NasRequests
    [] svc = "imsa" -> ImsaRequests
    [] svc = "dms"  -> DmsRequests
    [] svc = "imss" -> ImssRequests
    [] svc = "mfs"  -> MfsRequests
    [] OTHER        -> {}

\* Requests whose answers, good or bad, are printed at most.
NasPrinted == NasRequests \ {"home_network"}
Printed  == PollRequests \cup NasPrinted \cup ImsaRequests \cup DmsRequests \cup {"imss_enable"}
Requests == Printed \cup NasRequests \cup ImssRequests \cup MfsRequests

ASSUME DaemonAssumption ==
  /\ Cleared \in BOOLEAN
  /\ Unasked \subseteq Passive
  /\ Untracked \subseteq Printed

VARIABLES
  client,    \* _IMSD_Client and _IMSD_Runtime of an instance, and its threads
  imss       \* modem: instances whose IMS client is bound to the subscription

vars == <<lockVars, client, imss>>

Networks == {"none", "kept"}   \* the zeros of the start, or what an answer left

Clients ==
  [created : BOOLEAN,            \* imsd_client is allocated, the poll is armed
   serving : BOOLEAN,            \* DCM is published and the main loop runs
   device : {"none", "bus", "new", "opening", "open"},
   ready : [Services -> Readiness],
   is_initialized : BOOLEAN,
   allocating : SUBSET Services, \* allocations in flight
   pending : SUBSET Requests,    \* requests in flight
   carrier : Networks,           \* nas.c: current_carrier
   network : Networks]           \* current_network_provider[0]

TypeOK ==
  /\ LockTypeOK
  /\ client \in [Instances -> Clients]
  /\ imss \subseteq Instances

NoClient ==
  [created |-> FALSE, serving |-> FALSE, device |-> "none",
   ready |-> [svc \in Services |-> IMS_INIT_PENDING], is_initialized |-> FALSE,
   allocating |-> {}, pending |-> {}, carrier |-> "none", network |-> "none"]

Init ==
  /\ LockInit
  /\ client = [p \in Instances |-> NoClient]
  /\ imss = {}

-----------------------------------------------------------------------------
\* The process ends, its memory and its clients with it.
Exit(p, how) ==
  /\ End(p, how)
  /\ client' = [client EXCEPT ![p] = NoClient]
  /\ imss' = imss \ {p}

Main(p) ==
  /\ ParseOptions(p) \/ OpenLockFile(p) \/ Flock(p) \/ LoadMainConfig(p)
  /\ UNCHANGED <<client, imss>>

Killed(p) == Alive(p) /\ Exit(p, "exited")

SetClient(p, c) ==
  /\ client' = [client EXCEPT ![p] = c]
  /\ UNCHANGED <<lockVars, imss>>

\* initialize_qmi_client, on its own thread: by device node, by the QRTR bus,
\* or not at all if the URI names no node.
InitializeQmiClient(p) ==
  /\ stage[p] = "configured"
  /\ ~client[p].created
  /\ \E device \in {"new", "bus", "none"},
        ready \in IF Cleared THEN {NoClient.ready} ELSE [Services -> Readiness],
        init \in IF Cleared THEN {FALSE} ELSE BOOLEAN :
       SetClient(p, [client[p] EXCEPT !.created = TRUE, !.device = device,
                                      !.ready = ready, !.is_initialized = init])

\* initialize_qmi_server, on its own thread: without socket or service it exits.
InitializeQmiServer(p) ==
  /\ stage[p] = "configured"
  /\ ~client[p].serving
  /\ \/ SetClient(p, [client[p] EXCEPT !.serving = TRUE])
     \/ Exit(p, "exited")

\* The main loop runs and may dispatch what the client side waits for.
Loop(p) == client[p].serving /\ client[p].created

\* The client of a service, and the context its start makes, is there.
Started(p, svc) == client[p].device = "open" /\ svc \notin client[p].allocating

\* request_network_start before the data session's client is there: without
\* imsd_client, or without the context that the first tick goes through
\* (wds_get_profile_list). Later activations are WdsSession's.
ActivationTooEarly(p) ==
  /\ client[p].serving
  /\ ~client[p].created \/ \E svc \in WdsClients \cap Services : ~Started(p, svc)
  /\ Exit(p, "crashed")

\* bus_new_callback
BusReady(p) ==
  /\ Loop(p)
  /\ client[p].device = "bus"
  /\ \/ SetClient(p, [client[p] EXCEPT !.device = "new"])
     \/ Exit(p, "exited")

\* qmi_device_ready
DeviceReady(p) ==
  /\ Loop(p)
  /\ client[p].device = "new"
  /\ \/ SetClient(p, [client[p] EXCEPT !.device = "opening"])
     \/ Exit(p, "exited")

\* device_open_ready: a client of every service is asked for at once.
DeviceOpenReady(p) ==
  /\ Loop(p)
  /\ client[p].device = "opening"
  /\ \/ SetClient(p, [client[p] EXCEPT !.device = "open", !.allocating = Services])
     \/ Exit(p, "exited")

\* The *_allocate_client_ready callbacks on success: the service is started.
ClientReady(p, svc) ==
  /\ svc \in client[p].allocating
  /\ SetClient(p, [client[p] EXCEPT
       !.allocating = @ \ {svc},
       !.ready[svc] = IMS_INIT_OK,
       !.pending = @ \cup (StartRequests(svc) \ Untracked)])

\* On failure only IMSRTP is done without.
ClientRefused(p, svc) ==
  /\ svc \in client[p].allocating
  /\ IF svc = "imsrtp"
     THEN SetClient(p, [client[p] EXCEPT !.allocating = @ \ {svc},
                                         !.ready[svc] = IMS_INIT_ERR])
     ELSE Exit(p, "exited")

-----------------------------------------------------------------------------
(* The answers to the services' requests.                                  *)

Answered(p, r) == [client[p] EXCEPT !.pending = @ \ {r}]

\* Answers that are printed at most. (imsa_attempt_bind_finish also resets
\* sub_requested, which nothing reads: is_sub_requested has no caller.)
PrintedAnswer(p, r) ==
  /\ r \in client[p].pending \cap Printed
  /\ SetClient(p, Answered(p, r))

\* get_home_network_ready: what an answer leaves is kept, be it the network or,
\* if the answer has none, two numbers nobody set; an error keeps nothing.
HomeNetworkReady(p) ==
  /\ "home_network" \in client[p].pending
  /\ \E carrier \in {client[p].carrier, "kept"} :
       SetClient(p, [Answered(p, "home_network") EXCEPT !.carrier = carrier])

\* ims_attempt_bind_finish: bound, the IMS services are enabled.
ImssBindReady(p) ==
  /\ "imss_bind" \in client[p].pending
  /\ client' = [client EXCEPT ![p] =
       [client[p] EXCEPT !.pending =
          (@ \ {"imss_bind"}) \cup ({"imss_enable"} \ Untracked)]]
  /\ imss' = imss \cup {p}
  /\ UNCHANGED lockVars

\* Mutant: the services are enabled although the binding failed.
ImssBindFailed_Goes(p) ==
  /\ "imss_bind" \in client[p].pending
  /\ SetClient(p, [client[p] EXCEPT
       !.pending = (@ \ {"imss_bind"}) \cup ({"imss_enable"} \ Untracked)])

ImssBindFailed(p) ==
  /\ "imss_bind" \in client[p].pending
  /\ SetClient(p, Answered(p, "imss_bind"))

\* mfs_test_write_ready: no answer, an error or an error code ends imsd.
MfsWriteReady(p) ==
  /\ "mfs_write" \in client[p].pending
  /\ \/ SetClient(p, Answered(p, "mfs_write"))
     \/ Exit(p, "exited")

\* mfs_test_read_ready: every path ends in exit(EXIT_FAILURE).
MfsReadReady(p) ==
  /\ "mfs_read" \in client[p].pending
  /\ Exit(p, "exited")

-----------------------------------------------------------------------------
\* What a poll does once the IMSA client is there.
Polled(p) ==
  LET c == client[p] IN
  [c EXCEPT !.network = c.carrier,
            !.pending = @ \cup (PollRequests \ Untracked),
            !.is_initialized =
               @ \/ \A svc \in Waited : c.ready[svc] = IMS_INIT_OK]

\* Mutant: the user agent is asked for as well, through imss.c's context.
WaitForInit_AsksUserAgent(p) ==
  /\ Loop(p)
  /\ IF Started(p, "imsa") /\ Started(p, "imss")
     THEN SetClient(p, Polled(p))
     ELSE Exit(p, "crashed")

\* wait_for_init, every ten seconds for ever: get_ims_services_state goes
\* through the context of imsa.c, a null pointer until the IMSA client is there.
WaitForInit(p) ==
  /\ Loop(p)
  /\ IF Started(p, "imsa")
     THEN SetClient(p, Polled(p))
     ELSE Exit(p, "crashed")

Allocated(p, svc) == ClientReady(p, svc) \/ ClientRefused(p, svc)

Callback(p) ==
  \/ BusReady(p) \/ DeviceReady(p) \/ DeviceOpenReady(p)
  \/ \E svc \in Services : Allocated(p, svc)
  \/ \E r \in Printed : PrintedAnswer(p, r)
  \/ HomeNetworkReady(p) \/ ImssBindReady(p) \/ ImssBindFailed(p)
  \/ MfsWriteReady(p) \/ MfsReadReady(p)

Step(p) ==
  \/ Main(p) \/ Killed(p)
  \/ InitializeQmiClient(p) \/ InitializeQmiServer(p) \/ ActivationTooEarly(p)
  \/ Callback(p)
  \/ WaitForInit(p)

Next == \E p \in Instances : Step(p)

Spec == Init /\ [][Next]_vars

-----------------------------------------------------------------------------
\* The inductive strengthening: a client is there only on an open device and
\* once its allocation was answered, and the IMS services are enabled only by a
\* client bound to the subscription (a failed binding stops there).
ClientInv(c, bound) ==
  /\ ~c.created => c.device = "none"
  /\ c.allocating # {} => c.device = "open"
  /\ Cleared => \A svc \in Services : c.ready[svc] = IMS_INIT_OK =>
                  c.device = "open" /\ svc \notin c.allocating
  /\ Cleared /\ c.is_initialized => \A svc \in Waited : c.ready[svc] = IMS_INIT_OK
  /\ "imss_enable" \in c.pending => bound

DaemonInv ==
  /\ TypeOK
  /\ LockInv
  /\ \A p \in Instances : ClientInv(client[p], p \in imss)

Crashes(p) == stage[p] # "crashed" /\ stage'[p] = "crashed"

\* What the start can crash on (the poll before imsa.c has its context, an
\* activation before imsd_client or the context of wds.c) is over when the IMSA
\* and WDS clients are there, whichever services are still to come: readiness
\* must not run ahead of the contexts that are then gone through.
CrashesOnlyBeforeClients ==
  [][\A p \in Instances : Crashes(p) =>
       \E svc \in {"imsa"} \cup (WdsClients \cap Services) :
         client[p].ready[svc] # IMS_INIT_OK]_vars
=============================================================================
