---------------------------- MODULE DaemonProofs ----------------------------
(***************************************************************************)
(* What holds of any number of imsd instances and inodes (InstanceLock) and *)
(* of every start sequence, whatever fails or is late (Daemon). LockInv and *)
(* DaemonInv are the invariants; the action properties follow from them.    *)
(***************************************************************************)
EXTENDS Daemon, TLAPS

-----------------------------------------------------------------------------
(* The lock.                                                               *)

LEMMA LockInitial == LockInit => LockInv
  BY InodesAssumption DEF LockInit, LockInv, LockTypeOK, OneInstance, Stages

\* Whoever ends leaves nothing but the file behind.
LEMMA EndKeepsLock ==
  ASSUME LockInv, NEW p \in Instances, NEW how \in Ended, End(p, how)
  PROVE  LockInv'
  BY DEF LockInv, LockTypeOK, OneInstance, End, Stages, Ended

LEMMA ParseOptionsKeepsLock ==
  ASSUME LockInv, NEW p \in Instances, ParseOptions(p)
  PROVE  LockInv'
<1>1. CASE End(p, "exited")
  BY <1>1, EndKeepsLock DEF Ended
<1>2. CASE Advance(p, "off", "parsed") /\ UNCHANGED <<descriptor, file, locked>>
  BY <1>2 DEF LockInv, LockTypeOK, OneInstance, Advance, Stages
<1> QED
  BY <1>1, <1>2 DEF ParseOptions

\* A new inode is made only if there is no file, and then nobody has one open.
LEMMA OpenLockFileKeepsLock ==
  ASSUME LockInv, NEW p \in Instances, OpenLockFile(p)
  PROVE  LockInv'
<1>1. CASE End(p, "exited")
  BY <1>1, EndKeepsLock DEF Ended
<1>2. CASE ~End(p, "exited")
  <2>1. PICK i \in IF file = NoInode
                   THEN Inodes \ {descriptor[q] : q \in Instances} ELSE {file} :
          /\ descriptor' = [descriptor EXCEPT ![p] = i]
          /\ file' = i
    BY <1>2 DEF OpenLockFile
  <2>2. Advance(p, "parsed", "opened") /\ UNCHANGED locked
    BY <1>2 DEF OpenLockFile
  <2>3. i \in Inodes /\ i # NoInode
    BY <2>1, InodesAssumption DEF LockInv, LockTypeOK
  <2>4. LockTypeOK'
    BY <2>1, <2>2, <2>3 DEF LockInv, LockTypeOK, Advance, Stages
  <2>5. ASSUME NEW q \in Instances, q # p, stage[q] \in {"opened", "locked", "configured"}
        PROVE  descriptor'[q] = file'
    <3>1. descriptor[q] = file /\ file # NoInode
      BY <2>5 DEF LockInv
    <3> QED
      BY <3>1, <2>1, <2>5 DEF LockInv, LockTypeOK
  <2> QED
    BY <2>1, <2>2, <2>3, <2>4, <2>5 DEF LockInv, LockTypeOK, OneInstance, Advance
<1> QED
  BY <1>1, <1>2

\* Everybody past flock has the same file open, so a second one is refused.
LEMMA FlockKeepsLock ==
  ASSUME LockInv, NEW p \in Instances, Flock(p)
  PROVE  LockInv'
<1>1. CASE Contended(p)
  BY <1>1, EndKeepsLock DEF Flock, Ended
<1>2. CASE ~Contended(p)
  <2>1. \A q \in Instances : stage[q] \notin {"locked", "configured"}
    BY <1>2 DEF Flock, Contended, LockInv
  <2>2. /\ stage[p] = "opened" /\ descriptor[p] = file /\ file # NoInode
        /\ stage' = [stage EXCEPT ![p] = "locked"]
        /\ locked' = [locked EXCEPT ![p] = TRUE]
        /\ UNCHANGED <<descriptor, file>>
    BY <1>2 DEF Flock, Advance, LockInv
  <2>3. LockTypeOK'
    BY <2>2 DEF LockInv, LockTypeOK, Stages
  <2>4. OneInstance'
    BY <2>1, <2>2 DEF LockInv, LockTypeOK, OneInstance
  <2> QED
    BY <2>2, <2>3, <2>4 DEF LockInv, LockTypeOK
<1> QED
  BY <1>1, <1>2

LEMMA LoadMainConfigKeepsLock ==
  ASSUME LockInv, NEW p \in Instances, LoadMainConfig(p)
  PROVE  LockInv'
<1>1. CASE End(p, "exited")
  BY <1>1, EndKeepsLock DEF Ended
<1>2. CASE Advance(p, "locked", "configured") /\ UNCHANGED <<descriptor, file, locked>>
  BY <1>2 DEF LoadMainConfig, LockInv, LockTypeOK, OneInstance, Advance, Stages
<1> QED
  BY <1>1, <1>2 DEF LoadMainConfig

LEMMA UnchangedKeepsLock == LockInv /\ UNCHANGED lockVars => LockInv'
  BY DEF LockInv, LockTypeOK, OneInstance, lockVars

\* Every step main takes towards or away from the lock.
LEMMA MainKeepsLock ==
  ASSUME LockInv, NEW p \in Instances, Main(p)
  PROVE  LockInv'
  BY ParseOptionsKeepsLock, OpenLockFileKeepsLock, FlockKeepsLock,
     LoadMainConfigKeepsLock DEF Main

-----------------------------------------------------------------------------
(* The start sequence.                                                     *)

LEMMA NoClientIsGood ==
  NoClient \in Clients /\ ClientInv(NoClient, FALSE) /\ ClientInv(NoClient, TRUE)
  BY DEF NoClient, Clients, ClientInv, Readiness, Networks, IMS_INIT_PENDING, IMS_INIT_OK

LEMMA DaemonInitial == Init => DaemonInv
<1> SUFFICES ASSUME Init PROVE DaemonInv
  OBVIOUS
<1>1. LockInv
  BY LockInitial DEF Init
<1>2. TypeOK
  BY <1>1, NoClientIsGood DEF Init, TypeOK, LockInv
<1>3. ASSUME NEW p \in Instances PROVE ClientInv(client[p], p \in imss)
  <2>1. client[p] = NoClient /\ p \notin imss
    BY DEF Init
  <2> QED
    BY <2>1, NoClientIsGood DEF ClientInv
<1> QED
  BY <1>1, <1>2, <1>3 DEF DaemonInv

\* A step that sets one client to a good one.
LEMMA SetClientKeepsInv ==
  ASSUME DaemonInv, NEW p \in Instances, NEW c \in Clients, SetClient(p, c),
         ClientInv(c, p \in imss)
  PROVE  DaemonInv'
<1>1. LockInv'
  BY UnchangedKeepsLock DEF DaemonInv, SetClient
<1>2. TypeOK'
  BY <1>1 DEF DaemonInv, TypeOK, SetClient, LockInv
<1>3. ASSUME NEW q \in Instances PROVE ClientInv(client[q], q \in imss)'
  <2>1. imss' = imss /\ client' \in [Instances -> Clients]
    BY <1>2 DEF SetClient, TypeOK
  <2>2. CASE q = p
    <3>1. client'[q] = c
      BY <2>2 DEF SetClient, DaemonInv, TypeOK
    <3> QED
      BY <3>1, <2>1, <2>2 DEF ClientInv
  <2>3. CASE q # p
    <3>1. client'[q] = client[q]
      BY <2>3 DEF SetClient, DaemonInv, TypeOK
    <3> QED
      BY <3>1, <2>1 DEF DaemonInv, ClientInv
  <2> QED
    BY <2>2, <2>3
<1> QED
  BY <1>1, <1>2, <1>3 DEF DaemonInv

LEMMA ExitKeepsInv ==
  ASSUME DaemonInv, NEW p \in Instances, NEW how \in Ended, Exit(p, how)
  PROVE  DaemonInv'
<1>1. LockInv'
  BY EndKeepsLock DEF DaemonInv, Exit
<1>2. TypeOK'
  BY <1>1, NoClientIsGood DEF DaemonInv, TypeOK, Exit, LockInv
<1>3. ASSUME NEW q \in Instances PROVE ClientInv(client[q], q \in imss)'
  <2>1. CASE q = p
    <3>1. client'[q] = NoClient /\ q \notin imss'
      BY <2>1 DEF Exit, DaemonInv, TypeOK
    <3> QED
      BY <3>1, NoClientIsGood DEF ClientInv
  <2>2. CASE q # p
    <3>1. client'[q] = client[q] /\ (q \in imss' <=> q \in imss)
      BY <2>2 DEF Exit, DaemonInv, TypeOK
    <3> QED
      BY <3>1 DEF DaemonInv, ClientInv
  <2> QED
    BY <2>1, <2>2
<1> QED
  BY <1>1, <1>2, <1>3 DEF DaemonInv

-----------------------------------------------------------------------------
(* One lemma per action of an instance.                                    *)

\* What an instance's own record says before a step.
LEMMA ClientFacts ==
  ASSUME DaemonInv, NEW p \in Instances
  PROVE  client[p] \in Clients /\ ClientInv(client[p], p \in imss)
  BY DEF DaemonInv, TypeOK

LEMMA MainKeepsInv ==
  ASSUME DaemonInv, NEW p \in Instances, Main(p)
  PROVE  DaemonInv'
<1>1. LockInv'
  BY MainKeepsLock DEF DaemonInv
<1>2. client' = client /\ imss' = imss
  BY DEF Main
<1>3. TypeOK'
  BY <1>1, <1>2 DEF DaemonInv, TypeOK, LockInv
<1>4. ASSUME NEW q \in Instances PROVE ClientInv(client[q], q \in imss)'
  BY <1>2 DEF DaemonInv, ClientInv
<1> QED
  BY <1>1, <1>3, <1>4 DEF DaemonInv

LEMMA InitializeQmiClientKeepsInv ==
  ASSUME DaemonInv, NEW p \in Instances, InitializeQmiClient(p)
  PROVE  DaemonInv'
<1>1. PICK device \in {"new", "bus", "none"},
           ready \in IF Cleared THEN {NoClient.ready} ELSE [Services -> Readiness],
           init \in IF Cleared THEN {FALSE} ELSE BOOLEAN :
        SetClient(p, [client[p] EXCEPT !.created = TRUE, !.device = device,
                                       !.ready = ready, !.is_initialized = init])
  BY DEF InitializeQmiClient
<1> DEFINE c == [client[p] EXCEPT !.created = TRUE, !.device = device,
                                  !.ready = ready, !.is_initialized = init]
<1>2. client[p].created = FALSE
  BY ClientFacts DEF InitializeQmiClient, Clients
<1>3. client[p].allocating = {}
  BY <1>2, ClientFacts DEF ClientInv, Clients
<1>4. ready \in [Services -> Readiness]
  BY NoClientIsGood DEF Clients, NoClient, Readiness
<1>5. Cleared => init = FALSE /\ \A svc \in Services : ready[svc] # IMS_INIT_OK
  BY DEF NoClient, IMS_INIT_PENDING, IMS_INIT_OK
<1>6. c \in Clients
  BY <1>4, ClientFacts DEF Clients
<1>7. ClientInv(c, p \in imss)
  BY <1>3, <1>5, ClientFacts DEF ClientInv, Clients
<1> QED
  BY <1>1, <1>6, <1>7, SetClientKeepsInv

LEMMA InitializeQmiServerKeepsInv ==
  ASSUME DaemonInv, NEW p \in Instances, InitializeQmiServer(p)
  PROVE  DaemonInv'
<1> DEFINE c == [client[p] EXCEPT !.serving = TRUE]
<1>1. CASE Exit(p, "exited")
  BY <1>1, ExitKeepsInv DEF Ended
<1>2. CASE SetClient(p, c)
  <2>1. c \in Clients
    BY ClientFacts DEF Clients
  <2>2. ClientInv(c, p \in imss)
    BY ClientFacts DEF InitializeQmiServer, ClientInv, Clients
  <2> QED
    BY <1>2, <2>1, <2>2, SetClientKeepsInv
<1> QED
  BY <1>1, <1>2 DEF InitializeQmiServer

LEMMA BusReadyKeepsInv ==
  ASSUME DaemonInv, NEW p \in Instances, BusReady(p)
  PROVE  DaemonInv'
<1> DEFINE c == [client[p] EXCEPT !.device = "new"]
<1>1. CASE Exit(p, "exited")
  BY <1>1, ExitKeepsInv DEF Ended
<1>2. CASE SetClient(p, c)
  <2>1. c \in Clients
    BY ClientFacts DEF Clients
  <2>2. ClientInv(c, p \in imss)
    BY ClientFacts DEF BusReady, ClientInv, Clients
  <2> QED
    BY <1>2, <2>1, <2>2, SetClientKeepsInv
<1> QED
  BY <1>1, <1>2 DEF BusReady

LEMMA DeviceReadyKeepsInv ==
  ASSUME DaemonInv, NEW p \in Instances, DeviceReady(p)
  PROVE  DaemonInv'
<1> DEFINE c == [client[p] EXCEPT !.device = "opening"]
<1>1. CASE Exit(p, "exited")
  BY <1>1, ExitKeepsInv DEF Ended
<1>2. CASE SetClient(p, c)
  <2>1. c \in Clients
    BY ClientFacts DEF Clients
  <2>2. ClientInv(c, p \in imss)
    BY ClientFacts DEF DeviceReady, ClientInv, Clients
  <2> QED
    BY <1>2, <2>1, <2>2, SetClientKeepsInv
<1> QED
  BY <1>1, <1>2 DEF DeviceReady

\* The device was not open before, so no client was there to lose.
LEMMA DeviceOpenReadyKeepsInv ==
  ASSUME DaemonInv, NEW p \in Instances, DeviceOpenReady(p)
  PROVE  DaemonInv'
<1> DEFINE c == [client[p] EXCEPT !.device = "open", !.allocating = Services]
<1>1. CASE Exit(p, "exited")
  BY <1>1, ExitKeepsInv DEF Ended
<1>2. CASE SetClient(p, c)
  <2>1. c \in Clients
    BY ClientFacts DEF Clients
  <2>2. ClientInv(c, p \in imss)
    BY ClientFacts DEF DeviceOpenReady, ClientInv, Clients
  <2> QED
    BY <1>2, <2>1, <2>2, SetClientKeepsInv
<1> QED
  BY <1>1, <1>2 DEF DeviceOpenReady

LEMMA ClientReadyKeepsInv ==
  ASSUME DaemonInv, NEW p \in Instances, NEW svc \in Services, ClientReady(p, svc)
  PROVE  DaemonInv'
<1> DEFINE c == [client[p] EXCEPT
                   !.allocating = @ \ {svc},
                   !.ready[svc] = IMS_INIT_OK,
                   !.pending = @ \cup (StartRequests(svc) \ Untracked)]
<1>1. SetClient(p, c)
  BY DEF ClientReady
<1>2. StartRequests(svc) \subseteq Requests /\ "imss_enable" \notin StartRequests(svc)
  BY DEF StartRequests, Requests, Printed, PollRequests,
       NasRequests, ImsaRequests, DmsRequests, ImssRequests, MfsRequests, NasPrinted
<1>3. c \in Clients
  BY <1>2, ClientFacts DEF Clients, Readiness
<1>4. ClientInv(c, p \in imss)
  BY <1>2, ClientFacts DEF ClientReady, ClientInv, Clients
<1> QED
  BY <1>1, <1>3, <1>4, SetClientKeepsInv

LEMMA ClientRefusedKeepsInv ==
  ASSUME DaemonInv, NEW p \in Instances, NEW svc \in Services, ClientRefused(p, svc)
  PROVE  DaemonInv'
<1> DEFINE c == [client[p] EXCEPT !.allocating = @ \ {svc}, !.ready[svc] = IMS_INIT_ERR]
<1>1. CASE svc # "imsrtp"
  BY <1>1, ExitKeepsInv DEF ClientRefused, Ended
<1>2. CASE svc = "imsrtp"
  <2>1. SetClient(p, c)
    BY <1>2 DEF ClientRefused
  <2>2. c \in Clients
    BY ClientFacts DEF Clients, Readiness
  <2>3. svc \notin Waited
    BY <1>2 DEF Waited
  <2>4. IMS_INIT_ERR # IMS_INIT_OK
    BY DEF IMS_INIT_ERR, IMS_INIT_OK
  <2>5. ClientInv(c, p \in imss)
    BY <2>3, <2>4, ClientFacts DEF ClientRefused, ClientInv, Clients
  <2> QED
    BY <2>1, <2>2, <2>5, SetClientKeepsInv
<1> QED
  BY <1>1, <1>2

\* An answer that is taken off and sends nothing, whatever it leaves in the carrier.
LEMMA AnsweredKeepsInv ==
  ASSUME DaemonInv, NEW p \in Instances, NEW r \in Requests, NEW carrier \in Networks,
         SetClient(p, [Answered(p, r) EXCEPT !.carrier = carrier])
  PROVE  DaemonInv'
<1> DEFINE c == [Answered(p, r) EXCEPT !.carrier = carrier]
<1>1. c \in Clients
  BY ClientFacts DEF Clients, Answered
<1>2. ClientInv(c, p \in imss)
  BY ClientFacts DEF Clients, Answered, ClientInv
<1> QED
  BY <1>1, <1>2, SetClientKeepsInv

LEMMA AnsweredAsIs ==
  ASSUME DaemonInv, NEW p \in Instances, NEW r \in Requests, SetClient(p, Answered(p, r))
  PROVE  DaemonInv'
<1>1. client[p].carrier \in Networks
  BY ClientFacts DEF Clients
<1>2. Answered(p, r) = [Answered(p, r) EXCEPT !.carrier = client[p].carrier]
  BY ClientFacts DEF Answered, Clients
<1>3. SetClient(p, [Answered(p, r) EXCEPT !.carrier = client[p].carrier])
  BY <1>2 DEF SetClient
<1> QED
  BY <1>1, <1>3, AnsweredKeepsInv

LEMMA HomeNetworkReadyKeepsInv ==
  ASSUME DaemonInv, NEW p \in Instances, HomeNetworkReady(p)
  PROVE  DaemonInv'
<1>1. PICK carrier \in {client[p].carrier, "kept"} :
        SetClient(p, [Answered(p, "home_network") EXCEPT !.carrier = carrier])
  BY DEF HomeNetworkReady
<1>2. carrier \in Networks
  BY ClientFacts DEF Clients, Networks
<1> QED
  BY <1>1, <1>2, AnsweredKeepsInv DEF Requests, NasRequests

\* The services are enabled in the step that binds the client.
LEMMA ImssBindReadyKeepsInv ==
  ASSUME DaemonInv, NEW p \in Instances, ImssBindReady(p)
  PROVE  DaemonInv'
<1> DEFINE c == [client[p] EXCEPT
              !.pending = (@ \ {"imss_bind"}) \cup ({"imss_enable"} \ Untracked)]
<1>1. client' = [client EXCEPT ![p] = c] /\ imss' = imss \cup {p} /\ UNCHANGED lockVars
  BY DEF ImssBindReady
<1>2. c \in Clients
  BY ClientFacts DEF Clients, Requests, Printed, ImssRequests
<1>3. LockInv'
  BY <1>1, UnchangedKeepsLock DEF DaemonInv
<1>4. TypeOK'
  BY <1>1, <1>2, <1>3 DEF DaemonInv, TypeOK, LockInv
<1>5. ASSUME NEW q \in Instances PROVE ClientInv(client[q], q \in imss)'
  <2>1. CASE q = p
    <3>1. client'[q] = c /\ q \in imss'
      BY <1>1, <2>1 DEF DaemonInv, TypeOK
    <3>2. ClientInv(c, TRUE)
      BY ClientFacts DEF Clients, ClientInv
    <3> QED
      BY <3>1, <3>2 DEF ClientInv
  <2>2. CASE q # p
    <3>1. client'[q] = client[q] /\ (q \in imss' <=> q \in imss)
      BY <1>1, <2>2 DEF DaemonInv, TypeOK
    <3> QED
      BY <3>1 DEF DaemonInv, ClientInv
  <2> QED
    BY <2>1, <2>2
<1> QED
  BY <1>3, <1>4, <1>5 DEF DaemonInv

LEMMA WaitForInitKeepsInv ==
  ASSUME DaemonInv, NEW p \in Instances, WaitForInit(p)
  PROVE  DaemonInv'
<1>1. CASE ~Started(p, "imsa")
  BY <1>1, ExitKeepsInv DEF WaitForInit, Ended
<1>2. CASE Started(p, "imsa")
  <2>1. SetClient(p, Polled(p))
    BY <1>2 DEF WaitForInit
  <2>2. Polled(p) \in Clients
    <3>1. PollRequests \ Untracked \subseteq Requests
      BY DEF Requests, Printed
    <3> QED
      BY <3>1, ClientFacts DEF Polled, Clients
  <2>3. "imss_enable" \notin PollRequests
    BY DEF PollRequests
  <2>4. ClientInv(Polled(p), p \in imss)
    BY <2>3, ClientFacts DEF Polled, Clients, ClientInv
  <2> QED
    BY <2>1, <2>2, <2>4, SetClientKeepsInv
<1> QED
  BY <1>1, <1>2

LEMMA CallbackKeepsInv ==
  ASSUME DaemonInv, NEW p \in Instances, Callback(p)
  PROVE  DaemonInv'
<1>1. CASE BusReady(p) \/ DeviceReady(p) \/ DeviceOpenReady(p)
  BY <1>1, BusReadyKeepsInv, DeviceReadyKeepsInv, DeviceOpenReadyKeepsInv
<1>2. CASE \E svc \in Services : Allocated(p, svc)
  BY <1>2, ClientReadyKeepsInv, ClientRefusedKeepsInv DEF Allocated
<1>3. CASE \E r \in Printed : PrintedAnswer(p, r)
  BY <1>3, AnsweredAsIs DEF PrintedAnswer, Requests
<1>4. CASE HomeNetworkReady(p) \/ ImssBindReady(p)
  BY <1>4, HomeNetworkReadyKeepsInv, ImssBindReadyKeepsInv
<1>5. CASE ImssBindFailed(p)
  BY <1>5, AnsweredAsIs DEF ImssBindFailed, Requests, ImssRequests
<1>6. CASE MfsWriteReady(p)
  BY <1>6, AnsweredAsIs, ExitKeepsInv DEF MfsWriteReady, Requests, MfsRequests, Ended
<1>7. CASE MfsReadReady(p)
  BY <1>7, ExitKeepsInv DEF MfsReadReady, Ended
<1> QED
  BY <1>1, <1>2, <1>3, <1>4, <1>5, <1>6, <1>7 DEF Callback

LEMMA DaemonStep == DaemonInv /\ [Next]_vars => DaemonInv'
<1> SUFFICES ASSUME DaemonInv, [Next]_vars PROVE DaemonInv'
  OBVIOUS
<1>1. CASE UNCHANGED vars
  <2>1. LockInv'
    BY <1>1, UnchangedKeepsLock DEF DaemonInv, vars
  <2> QED
    BY <1>1, <2>1 DEF DaemonInv, TypeOK, LockInv, ClientInv, vars
<1>2. ASSUME NEW p \in Instances, Step(p) PROVE DaemonInv'
  <2>1. CASE Killed(p)
    BY <2>1, ExitKeepsInv DEF Killed, Ended
  <2>2. CASE ActivationTooEarly(p)
    BY <2>2, ExitKeepsInv DEF ActivationTooEarly, Ended
  <2> QED
    BY <1>2, <2>1, <2>2, MainKeepsInv, InitializeQmiClientKeepsInv,
       InitializeQmiServerKeepsInv, CallbackKeepsInv, WaitForInitKeepsInv DEF Step
<1> QED
  BY <1>1, <1>2 DEF Next

-----------------------------------------------------------------------------
(* The theorems.                                                           *)

\* The invariant the run checks holds of every instance and every start.
THEOREM DaemonInvTheorem == Spec => []DaemonInv
  BY DaemonInitial, DaemonStep, PTL DEF Spec

\* imsd.c "We shall only start once": of any number of executions, started,
\* ended and killed in any order, at most one gets past flock at a time.
THEOREM OneInstanceTheorem == Spec => []OneInstance
<1>1. DaemonInv => OneInstance
  BY DEF DaemonInv, LockInv
<1> QED
  BY <1>1, DaemonInvTheorem, PTL

\* Steps change the stage of their own instance only, "refused" is Flock's and
\* "crashed" is the poll's or the early activation's.
LEMMA StageChanges ==
  ASSUME NEW p \in Instances, Step(p)
  PROVE  \E s :
           /\ stage' = stage \/ stage' = [stage EXCEPT ![p] = s]
           /\ s = "refused" => Contended(p)
           /\ s = "crashed" => ActivationTooEarly(p) \/ (WaitForInit(p) /\ ~Started(p, "imsa"))
<1>1. CASE Main(p)
  <2>1. \/ End(p, "exited") \/ (Contended(p) /\ End(p, "refused"))
        \/ Advance(p, "off", "parsed") \/ Advance(p, "parsed", "opened")
        \/ Advance(p, "opened", "locked") \/ Advance(p, "locked", "configured")
    BY <1>1 DEF Main, ParseOptions, OpenLockFile, Flock, LoadMainConfig
  <2>2. CASE Contended(p) /\ End(p, "refused")
    <3> WITNESS "refused"
    <3> QED
      BY <2>2 DEF End
  <2>3. CASE End(p, "exited")
    <3> WITNESS "exited"
    <3> QED
      BY <2>3 DEF End
  <2>4. ASSUME NEW from, NEW to \in {"parsed", "opened", "locked", "configured"},
               Advance(p, from, to)
        PROVE  \E s :
                 /\ stage' = stage \/ stage' = [stage EXCEPT ![p] = s]
                 /\ s \notin {"refused", "crashed"}
    <3> WITNESS to
    <3> QED
      BY <2>4 DEF Advance
  <2> QED
    BY <2>1, <2>2, <2>3, <2>4
<1>3. CASE Exit(p, "exited")
  <2> WITNESS "exited"
  <2> QED
    BY <1>3 DEF Exit, End
<1>4. CASE Exit(p, "crashed") /\ (ActivationTooEarly(p) \/ (WaitForInit(p) /\ ~Started(p, "imsa")))
  <2> WITNESS "crashed"
  <2> QED
    BY <1>4 DEF Exit, End
<1>5. CASE UNCHANGED stage
  <2> WITNESS "off"
  <2> QED
    BY <1>5
<1>6. Main(p) \/ Exit(p, "exited") \/ UNCHANGED stage
        \/ (Exit(p, "crashed") /\ (ActivationTooEarly(p) \/ (WaitForInit(p) /\ ~Started(p, "imsa"))))
  <2>1. CASE Callback(p)
    BY <2>1 DEF Callback, BusReady, DeviceReady, DeviceOpenReady, Allocated, ClientReady,
       ClientRefused, PrintedAnswer, HomeNetworkReady, ImssBindReady, ImssBindFailed,
       MfsWriteReady, MfsReadReady, SetClient, lockVars
  <2>2. CASE Killed(p) \/ InitializeQmiClient(p) \/ InitializeQmiServer(p)
    BY <2>2 DEF Killed, InitializeQmiClient, InitializeQmiServer, SetClient, lockVars
  <2>3. CASE ActivationTooEarly(p)
    BY <2>3 DEF ActivationTooEarly
  <2>4. CASE WaitForInit(p)
    BY <2>4 DEF WaitForInit, SetClient, lockVars
  <2> QED
    BY <2>1, <2>2, <2>3, <2>4 DEF Step
<1> QED
  BY <1>1, <1>3, <1>4, <1>5, <1>6

\* Who is told that imsd is already running is told the truth.
THEOREM RefusalTheorem == Spec => RefusedOnlyByTheLiving
<1>1. ASSUME DaemonInv, [Next]_vars
      PROVE  [\A p \in Instances : Refused(p) =>
                \E q \in Instances : stage[q] \in {"locked", "configured"}]_lockVars
  <2> SUFFICES ASSUME NEW p \in Instances, Refused(p)
               PROVE  \E q \in Instances : stage[q] \in {"locked", "configured"}
    OBVIOUS
  <2>1. PICK r \in Instances : Step(r)
    BY <1>1 DEF Next, vars, lockVars, Refused
  <2>2. PICK s :
          /\ stage' = stage \/ stage' = [stage EXCEPT ![r] = s]
          /\ s = "refused" => Contended(r)
          /\ s = "crashed" => ActivationTooEarly(r) \/ (WaitForInit(r) /\ ~Started(r, "imsa"))
    BY <2>1, StageChanges
  <2>3. r = p /\ s = "refused"
    BY <1>1, <2>2 DEF Refused, DaemonInv, LockInv, LockTypeOK
  <2> QED
    BY <1>1, <2>2, <2>3 DEF Contended, DaemonInv, LockInv
<1> QED
  BY <1>1, DaemonInvTheorem, PTL DEF Spec, RefusedOnlyByTheLiving

\* The start crashes only while the IMSA client or a WDS client is not there, and
\* never once they are, for any failures and delays of the others.
THEOREM CrashTheorem ==
  ASSUME Cleared = TRUE
  PROVE  Spec => CrashesOnlyBeforeClients
<1> DEFINE Needed == {"imsa"} \cup (WdsClients \cap Services)
<1>0. Needed \subseteq Services
  BY DaemonAssumption DEF Waited, Services, Passive, WdsClients
<1>1. ASSUME DaemonInv, [Next]_vars
      PROVE  [\A p \in Instances :
                Crashes(p) => \E svc \in Needed : client[p].ready[svc] # IMS_INIT_OK]_vars
  <2> SUFFICES ASSUME NEW p \in Instances, Crashes(p)
               PROVE  \E svc \in Needed : client[p].ready[svc] # IMS_INIT_OK
    OBVIOUS
  <2>1. PICK r \in Instances : Step(r)
    BY <1>1 DEF Next, vars, lockVars, Crashes
  <2>2. PICK s :
          /\ stage' = stage \/ stage' = [stage EXCEPT ![r] = s]
          /\ s = "refused" => Contended(r)
          /\ s = "crashed" => ActivationTooEarly(r) \/ (WaitForInit(r) /\ ~Started(r, "imsa"))
    BY <2>1, StageChanges
  <2>3. r = p /\ s = "crashed"
    BY <1>1, <2>2 DEF Crashes, DaemonInv, LockInv, LockTypeOK
  <2>4. client[p] \in Clients /\ ClientInv(client[p], p \in imss)
    BY <1>1, ClientFacts
  <2>5. ASSUME NEW svc \in Needed, ~Started(p, svc)
        PROVE  client[p].ready[svc] # IMS_INIT_OK
    BY <2>4, <2>5, <1>0 DEF Started, ClientInv
  <2>6. CASE ActivationTooEarly(p)
    <3>1. CASE ~client[p].created
      <4>1. ~Started(p, "imsa") /\ "imsa" \in Needed
        BY <2>4, <3>1 DEF Started, ClientInv
      <4> QED
        BY <2>5, <4>1
    <3>2. CASE \E svc \in WdsClients \cap Services : ~Started(p, svc)
      BY <2>5, <3>2
    <3> QED
      BY <2>6, <3>1, <3>2 DEF ActivationTooEarly
  <2>7. CASE ~Started(p, "imsa")
    BY <2>5, <2>7
  <2> QED
    BY <2>2, <2>3, <2>6, <2>7
<1> QED
  BY <1>1, DaemonInvTheorem, PTL DEF Spec, CrashesOnlyBeforeClients
=============================================================================
