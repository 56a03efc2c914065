# A TLA+ model of imsd

imsd configures the baseband of a Qualcomm phone for IMS. When the modem wants
the IMS data connection of a SIM slot it asks imsd's DCM server for it; imsd
then brings a data session up through QMI (profile, network link, data port,
call, settings) and tells the modem the address. This directory holds the TLA+
modules that model imsd from its start to its end, the TLC configurations that
check them, and machine-checked proofs.

Run from this directory: `tlc -config wds_prompt.cfg MCWdsSession` (any run of
the table below), and `tlapm` on each of `DcmServerProofs`, `WdsSessionProofs`,
`WdsPromptProofs`, `ImsSessionProofs`, `PdcConfigProofs`, `DaemonProofs`,
`TlvWalkProofs` and `McfgScanProofs`.

## 1. The system: inventory

imsd is one process. `main` (imsd.c) takes a lock and starts two threads: one
sets the QMI client side up and returns, the other publishes the DCM service and
runs the main loop, which never quits. Everything from then on (timers, socket
input, answers of the modem) is a callback on that loop, so a callback is atomic
and what interleaves is the order of callbacks; the two threads interleave only
while they set things up.

| Component | State | Operations | Must be true | Module |
|---|---|---|---|---|
| WDS session bring-up (`wds.c`) | per slot: `connection_readiness_step` (uint8), `profile_id`, `mux_id`, `setup_link_done`, `ip_address`, the profile list with its cursor; armed timers; requests in flight | `initiate_wds_session`, the 5 ms timer `get_wds_ready_to_connect` with one case per step, ten `*_ready` callbacks | each stage has the resource it rests on; one link and one announcement per activation; the announced address is the granted one (it is not after a second activation, section 4); an activation ends in an announcement | `WdsSession`, `Bearer` |
| DCM server (`dcm.c`) | client table, indication transaction id, `PDP_Session[MAX_SIM_SLOTS]` | `handle_incoming_qrtr_request` (activation, four plain requests, unknown), `notify_pdp_ipaddress_change` | an indication carries the request of its own slot and agrees with the response to it; fresh transaction ids; every client hears (a second one does not, section 4) | `DcmServer` |
| The two together | the above | `request_network_start`, `notify_pdp_ipaddress_change` called inside a handler / a tick | asked, then connected, then announced; the modem that asked is told | `ImsSession`, `PdpService` |
| Main, lock (`imsd.c`), configuration (`config.c`) | lock file and descriptor, how far `main` is | options, `open`, `flock`, `load_config`, two threads | one instance at a time; a dead one keeps nobody out | `InstanceLock`, `Daemon` |
| QMI clients (`qmi-ims-client.c`) | device, handles and readiness flags of the services | device open, one allocation callback per service, `wait_for_init` every 10 s | nobody uses a client that is not there (the first poll and an early activation may); readiness follows the allocations | `Daemon` (and `AllocateClientReady` of `WdsSession`) |
| IMSA, IMSS, NAS, DMS (`imsa.c`, `imss.c`, `nas.c`, `dms.c`) | a context each; the current carrier | bind, enable services, poll the states, query the home network | polls use a started client; services are enabled by a bound client | `Daemon` |
| MFS (`mfs.c`) | a context | a write test and a read test | (the answer to the read test ends the process) | `Daemon` |
| QMI message utilities (`qmi-util.c`) | none beyond the call | TLV search, result and count; header and TLV builders | the walk goes from TLV to TLV and finds what is there; it ends (not for every length, section 4) | `TlvWalk`, `RecordWalk` |
| PDC (`pdc.c`) | config list, tokens, loaded count, timeout id | list, selected and info indications in any order, timeout | the configuration is selected once, after everything was loaded; a selection ends in an activation | `PdcConfig` |
| Carrier configuration parser (`pdc_locate.c`) | global buffer, header pointers and section table; offsets into the file and its footer; what was found so far | directory scan, file checks, item walk, footer walk | a report is about its own file; the walks go from record to record, whatever came before; nothing is written past its array (section 4) | `McfgScan`, `RecordWalk` |

How they interact: DCM calls `request_network_start` from within the handler of
an activation request, before it answers; WDS calls
`notify_pdp_ipaddress_change` from within its last timer tick. Both directions
are plain calls on the one loop, so each is a single step of `ImsSession`.
`device_open_ready` asks for the clients of all services at once and each
allocation callback starts its service; `pdc_start` scans the configuration
files before it asks PDC anything. DCM finds the fields of a request with
`get_tlv_offset_by_id`.

What is hard in this code:

- **One counter, many writers.** `connection_readiness_step` is advanced by the
  timer and by every answer, with `++`, `--` and assignments. The timer repeats
  the request of its stage every 5 ms until the stage changes, so answers to the
  copies arrive in later stages and still move the counter.
- **Nothing is cancelled.** A second activation resets the session but leaves
  the first one's timer and requests running.
- **Freed and stale memory.** The profile list is freed with its last answer;
  the address buffer keeps what was in it.
- **Several slots, one server.** Sessions of two slots come up concurrently and
  are announced through one table that is searched by `slot_id`.
- **A start without an order.** Eight services are allocated at once, answered in
  any order, and a poll that runs every ten seconds looks at all of them.
- **Walks over what others wrote.** Offsets are sums of sixteen-bit lengths, kept
  in sixteen bits themselves, and what one walk leaves in a global the next finds.

As committed, every instance ends within seconds: the answer to the MFS read test
ends in `exit` whatever it says (mfs.c:92, `MfsReadReady`), although README.md and
NOTES.md describe a daemon that goes on serving. `WdsSession`, `DcmServer`,
`ImsSession` and `PdcConfig` describe the process for as long as it lives.

PROJECT.json lists each hazard at its line, with the properties aimed at it.

## 2. Modules

`WdsSession` is the bring-up. `session[s]` is `_WDS_Packet_Session`;
`session[s].step` is `connection_readiness_step`, with the constants of `wds.h`
and the wrap of a uint8 (`Inc`, `Dec`). `profile_list[s]` is `_Profile_List`
(`live`: not freed). `timers[s]` counts armed GLib timers and `pending[s]`
counts requests that were sent and not yet answered: GLib and libqmi are
external, so these two bags are what is left of them. `profiles`, `links`,
`bound` and `network` are the modem's and the kernel's side; `granted`,
`activations` and `notified` are history variables that only properties read.

- A `Tick*` action is one case of the switch in `get_wds_ready_to_connect`
  together with everything it calls: sending a request, moving the step,
  removing the timer.
- A callback action takes one request out of `pending`, executes it at the
  modem and runs the `*_ready` function on the answer. The early returns of a
  callback are actions of their own (`*Failed`, `*Incomplete`, `*NoReply`),
  enabled if the modem's state calls for the error or `Faults` allows it.
- Requests carry what a later action tells apart: the profile asked about, the
  mux identifier to bind, the profile to call on, and for a list request how
  many profiles there were when it was sent (the answer reflects some moment
  since then).

`Bearer` is what the bring-up promises about resources: profile, then one link
that no other slot has, then the port bound to that very link, then one call.
`WdsSession` implements it (`ImplementsBearer`) for one activation per slot.

`DcmServer` is the DCM server for well-formed messages. A TLV that a message
lacks is `Absent`; `out` is what the last step sent; `asked`, `answered` (what
the response to a slot's last activation said) and `subject` are history. The client table compares only the first four bytes of
a socket address (`g_int_hash`), which is `Key`. `DcmServer` leaves the call of
`request_network_start` to the module that composes it.

`ImsSession` composes the two: it EXTENDS `WdsSession` and has the server as the
instance `D`, whose addresses are all strings a session's buffer can hold
(`Strings`). `Activate` is the handler of an activation request (both components
move), `Announce` the tick at FINISHED with the indications it sends,
`SessionStep` everything else a session does.
`PdpService` is the service the two give the modem: idle, requested, connected,
announced, per slot.

`PdcConfig` is the exchange with the PDC service, apart from the rest: imsd asks
for the list and for the selected configuration, then for the details of every
entry, and three handlers each check whether theirs was the last report
(`CheckListConfigCompleted`). `pending` holds the requests in flight, told apart
by their token; the modem reports them in any order. An error branch of a
handler is an action of its own (`*Refused`, `*Failed`), be the error in the
indication or in the answer to the request. `listed` says whether
`config_list` is set: a modem without configurations reports an empty list or
none. `selections`, `activations` and `refused` are history.

`InstanceLock` is the part of `main` that lets one instance through: `stage[p]` is
where the execution p of imsd is, `descriptor` and `locked` what the kernel keeps
for it, `file` the inode behind the path. The end of a process (by itself, by a
signal, by a crash) gives up the lock and leaves the file.

`Daemon` EXTENDS it to the whole life of an instance. `client[p]` is
`_IMSD_Client` with its readiness flags, `current_carrier` and
`current_network_provider[0]`; `allocating` and `pending` are the allocations and
requests in flight, which libqmi answers in any order; `imss` is the modem's
knowledge of bound IMS clients. An action is one callback: the two threads'
functions, the three steps to an open device, `ClientReady`/`ClientRefused` for
each service (with the requests its start function sends, `StartRequests`), the
answers, and `WaitForInit`. Answers that are only printed share one action.

`RecordWalk` is what a walk over length-prefixed records promises: its cursor goes
from the beginning of one record to the beginning of the next. `TlvWalk` and
`McfgScan` implement it.

`TlvWalk` is the loop that `get_tlv_offset_by_id`, `did_qmi_op_fail` and
`count_tlvs_in_message` share: `cur_byte` with its sixteen bits, one action per
way to leave or to go on. A message is given by ids, lengths and beginnings; what
`recvfrom` cuts off is not `Received`.

`McfgScan` is `scan_pdc_mcfgs`: the files are met one after the other
(`OpenFails`, `Refuse`, `Accept` are the outcomes of the file's checks), items are
walked by `ReadItem`, `UnknownItem`, `MeetFooter` and `InsideFooter`, a footer's
sections by `ReadSection` until the limit or the table's end; `OverrunItem`,
`OverrunSection` and `UnsetName` lose the scan. `live` and `head`
are the buffers allocated and the one the global header pointer points into. A
file is given by its structure (kinds, lengths, beginnings), not its bytes.

`MCWdsSession`, `MCDcmServer`, `MCImsSession`, `MCPdcConfig`, `MCDaemon`,
`MCTlvWalk` and `MCMcfgScan` only hold constant values for TLC. An operator named `X_Something` next to a definition `X` is a mutant of
`X`: a plausible bug, used to confirm that a property can fail.

### Choices worth knowing

- **Scenario parameters.** `Prompt = TRUE` means that a session's requests are
  answered before its timer fires again; `FALSE` lets answers come arbitrarily
  late. 5 ms make both happen in practice. `Faults` names the failures of the
  environment that may happen, so each run says what it tolerates.
- **Undefined behaviour.** Reading the freed profile list is a crash
  (`GetProfileSettingsFreed`). An error answer to the settings request is freed
  twice: the process crashes or goes on, both are possible. Without any answer
  the callback dereferences NULL and crashes. A first tick before the client is
  allocated crashes if the shared context is not there, and otherwise crashes or
  is rejected by libqmi.
- **The first content of `ip_address`** is whatever `g_new` returned;
  `InitialBuffer` is a parameter. It is zeroed in the runs and in the two theorems
  about what is announced: with other contents nothing can be said of it.
- **`wds_modify_profile_by_id`** sends profile type 1 as `PROFILE_TYPE_3GPP`,
  which the modem reads as 3GPP2: the request leaves the 3GPP table alone.
- **Slots.** A slot number is taken to be in range; `MAX_SIM_SLOTS` sessions
  exist and the code indexes without a check.
- **The PDC context** is allocated without being cleared. `Zeroed` says whether
  the memory happens to be zero, as in the runs; otherwise the first values of
  `configs_loaded` and `ids_loaded` are arbitrary and nothing can be promised.
- **The client structure** comes from `g_new`, uncleared. `Cleared` says whether
  the memory happens to be zero, as in the run; otherwise readiness starts as
  anything and means nothing. `Unasked` and `Untracked` leave services and
  requests without consequences out of an instance.
- **Crashes of the start.** `WaitForInit` before the IMSA client is there follows
  the null pointer `ctx` of imsa.c. An activation finds no `imsd_client` between the
  two threads, and no context or client in wds.c until the WDS clients are there
  (`ActivationTooEarly`).
- **When the scan is lost.** `phase = "crashed"` means that nothing can be said of
  the scan any more: a section of unknown kind is printed with an unset `sec3`
  (`UnsetName`), or a copy runs over its array (`OverrunItem`, `OverrunSection`: an
  item over the 64 bytes of its blob, a file name over 256, a section over 64, a
  profile name over 128). A copy over its array may as well go unnoticed, so
  `ReadItem` and `ReadSection` are enabled too; a name that is too long is then read
  on into what lies behind it (`Copied`).
- **What a file may be.** `WellFormed` says where records begin, with operators of
  its own (`ItemExtent`, `SectionExtent`), not with those that translate the walks
  (`ItemEnd`, `SectionEnd`); that an empty section takes one byte of data is known
  from the code only. Records have any size. A footer need not be the last item: the
  walk then goes on inside the footer and takes its magic for an item
  (`InsideFooter`). A footer that `analyze_footer` refuses is the last item, and a
  footer holds one name at most. Items are counted in sixteen bits (`NumItems`).
- **What a message may be.** In `TlvWalk` the length of the last TLV says anything
  that leads to the end of the message, past it, to 0 or back onto a TLV
  (`WellFormed`, `LeadsTo`).
- **`WAIT_FOR_COMPLETION`** and the unused IPv6 stages change nothing: the tick
  is a stutter there.

## 3. Runs

| Run | Asks | Expected |
|---|---|---|
| `wds_any_order` | one activation, two copies of every request, any order, errors: no stage without its resource (`StagesInOrder`), refinement of `Bearer` | pass |
| `wds_reactivation` | two activations of a slot, all faults: one indication and one link per activation; the inductive invariant `IndInv` of the proofs | pass |
| `wds_prompt` | two slots, prompt answers, most faults: call on an IMS profile, only live connections announced, every activation announced | pass |
| `wds_overlap` | answers later than a tick, no fault: is every activation announced? | violated |
| `wds_stale_address` | a second activation, addresses of two lengths, prompt answers, no fault: is the announced address the granted one? | violated |
| `dcm_server` | two clients, two slots, any TLV missing: once all slots are active an indication carries its own slot's request and agrees with the response to it; transaction ids | pass |
| `dcm_first_slot` | indication for slot 0 while slot 1 was never activated | violated |
| `ims_session` | both components, two slots: the granted address is indicated, refinement of `PdpService`, the modem is told | pass |
| `pdc_config` | four configurations, every order of reports, every error: selected exactly when all is there, no crash once there is a list, activated unless refused | pass |
| `daemon` | three instances with every answer and failure: one holds the lock, only a living one refuses another, services enabled by bound clients only (in `DaemonInv`), crashes only before the IMSA and WDS clients are there | pass |
| `tlv_walk` | messages of up to three TLVs, whole, cut, or with a last length that lies: right offset, result and count, refinement of `RecordWalk` | pass |
| `mcfg_scan` | pairs of files, every item and section kind in every order, too large ones, footers first, last or missing, refused at every point: reports about their own file, buffers, sizes past the sixteen bits, where the scan may be lost, both walks refine `RecordWalk` | pass |

Bounds, and why they are enough:

- `MaxOutstanding` caps how many equal requests of a slot are in flight. Two
  (`wds_any_order`) already gives a late copy of every answer. The skipped start
  of section 4 needs four, because four increments carry the counter over it.
- `MaxActivations = 2` is the first number at which an old timer and old answers
  meet a new session. `OneIndicationPerActivation`, `OneLinkPerActivation`
  and `IndInv` are proved for every value; so are `NetworkOnImsProfile`,
  `AnnouncesLiveNetwork` and `ImplementsPdpService`, whose runs activate a slot once.
- `Faults` of `wds_prompt` leaves out the faults its properties do not
  hold with: an activation before its client and an error or no answer to the
  settings request (crashes), a link that is refused (never asked for again), a start
  refused with an error other than CALL_FAILED (taken for a success), and a profile
  that was made but whose answer is lost (the timer makes more until the table is
  full). `wds_reactivation` has every fault.
- Two slots give every interaction between slots: they share the profile table,
  the pool of mux identifiers and the server. Runs whose question is about one
  session have one slot.
- One to three profiles, one or two links, addresses of one or two characters
  in a buffer of three: enough for a list with and without an IMS profile, for a
  full table, for links running out, and for an address that does not fill its buffer.
  Addresses have two lengths in `ims_session` and `wds_stale_address`.
- `MaxIndications` caps the transaction ids the run uses; they start at 99, so
  the wrap to 1 is in the run. Two values per TLV distinguish old from new.
- Four configurations, two of them ROW_Commercial: the last report can be that
  of an entry to select, of one to leave alone, or of the selected configuration,
  and a walk that stops early would miss one.
- Three instances: one that holds the lock, one that opened the file before and
  one after it could have been removed; a second inode for the file that would
  then be made. IMSRTP and one WDS client stand for the services that start nothing
  (`Unasked` leaves the others out),
  `imss_enable` for the requests whose answers are printed (`Untracked`).
- Three TLVs in every order with repeated ids, empty values and lengths 0, 1 and
  4; a receive buffer of 18 bytes instead of 1023 cuts every TLV there is
  somewhere. The last length may also lead past the buffer or, with a wrap, to 0. A
  message whose last length leads back onto a TLV never ends and is left to the
  proofs, which have any message and any buffer.
- Two files: whatever is left over is left over from the one before. Two items
  and a footer behind them, before them or missing; a third section when the table
  has two places instead of 16 (`MAX_FOOTER_SECTIONS`). Of items, sections and names
  there is one that just fits its array and one that does not; contents of 60000 and
  65500 bytes make offsets wrap and one item larger than its size field can say.
- Runs that disable deadlock checking do so because the system stops: after the
  announcement there is no timer and no request left, after the PDC exchange no
  request, a walk returns, the scan is over, every instance has ended. `dcm_server` checks it.

Fairness (`Fairness` in `WdsSession`): GLib keeps dispatching an armed timer
and libqmi answers or times out every request (both weak fairness, per kind of
request); and a request that is repeated is not refused for ever (strong
fairness of the successful answer), without which no retry loop can end. A
permanent failure of `add_link` is not in the liveness run: the code sets
`setup_link_done` before it asks and never asks again. `ImsSession` needs only
that the main loop goes on serving each slot; whether the modem asks is up to it.
`PdcConfig` needs that requests in flight are reported or answered one day
(libqmi answers or times out each after ten seconds): one weak fairness, since
there are finitely many. `DcmServer`, `Daemon`, `TlvWalk` and `McfgScan` are
checked for safety only and assume no fairness.

## 4. What the runs show to be different from what the sources say

Each is a finding in PROJECT.json with the quoted line.

- *wds_overlap*: with two list requests in flight, a late profile answer sets the
  counter back while the link is being made; the session then stops at SETUP_LINK
  with "Spurious call" for ever.
- *dcm_first_slot*: a session that was never activated has `slot_id` 0 and the
  search keeps the last match, so the first slot's indication carries zeros.
- *wds_stale_address*: `memcpy` copies `strlen` bytes of an address over what the
  buffer held (wds.c:772), and an activation does not clear it. A second activation
  that is given a shorter address announces it with the tail of the first, where
  dcm.c:111 says "IP Address we got from the WDS service when we started the
  network".

More that no run shows. The models have these, and no property demands or
hides what the code does there.

In `WdsSession`:

- Four late answers to the repeated binding request count as four stages, so the
  start and the settings are skipped and an empty address is announced (wds.c:478;
  `AnnouncesLiveNetwork` fails with `Prompt = FALSE`, `MaxOutstanding = 4` and an IMS
  profile in the table). A late duplicate of the binding answer can likewise skip the
  settings.
- A start request of an old activation that times out after the slot was activated
  again takes `connection_readiness_step` from 0 to 255, and the timer gives up
  (wds.c:569); one that ends in CALL_FAILED takes it from 0 to 6, past the profile
  and the link, although answers come before the next tick (wds.c:573;
  `AnnouncesLiveNetwork` and `NetworkOnImsProfile` fail with `start_call_failed` and
  two activations).
- An error answer to the settings request is freed, used and freed again, and no
  answer is a null pointer (wds.c:720), where the comment two lines above wants to
  "just go on as we're asking for DHCP".
- A late settings answer reads whatever list the slot has by then, or a freed one
  (wds.c:62), and a profile is created again on every tick until the first answer
  (wds.c:848).

In the others:

- `DcmServer`: every `sockaddr_qrtr` has the same first four bytes, so a second
  client "already exists" and never gets an indication (dcm.c:366). The 32-bit PDP
  sequence is read as eight bits (dcm.c:227), so 257 goes back as 1 in the response
  and in the indication, against "These go back as they came in" (dcm.c:274);
  `IndicatesWhatItAnswered` says that the two agree all the same.
- `TlvWalk`: a length that leads past the message returns 65514 (qmi-util.c:76) where
  qmi-util.c:49 says "If invalid, returns 0"; `FindsTheTlv` asks only that it be no
  offset inside the message. The test at line 72 looks at a sum that may have wrapped:
  a length of 0xFFFD leaves the cursor where it is and the loop at line 71 never
  ends (`Loops`).
- `PdcConfig`: the report of the selected configuration is compared with the length of
  a list that was never set, whenever it comes before the list or there is none
  (pdc.c:191), where pdc.c:453-454 and 380 expect a modem without configurations.
- `Daemon`: no instance outlives the answer to the read test (mfs.c:92); readiness
  starts as what `g_new` left (qmi-ims-client.c:520).
- `McfgScan`: network codes are kept in eight bits, so 460 is reported as 204
  (pdc_locate.c:270; mcfg.h:185-190 declares them as sixteen bits);
  `EntriesTellTheirFiles` compares them up to a byte. A refused file's buffer is
  never freed (pdc_locate.c:498). An unknown section before the name reads an unset
  pointer (300), and the copies at 279, 322, 365 and 397 do not look at the size of
  their array; `CrashesOverTheFile` says that nothing else can lose the scan. A
  footer that is not last makes its file count as invalid (446).

Outside the models, `internal_pdp_id` is never assigned, so all slots have PDP id 0
although dcm.c:272 wants one id per slot.

## 5. Proofs

`DcmServerProofs` proves, for any clients, slots and values of the TLVs:
`TypeOK`; that consecutive indications have different transaction ids
(`FreshTransactionIds`); that an indication agrees with the response its slot's
last activation was given (`IndicatesWhatItAnswered`), whatever was asked for other
slots in between; and, if PDP sequences fit the eight bits dcm.c:227 reads
(`NarrowSequences`, the hypothesis of this theorem alone),
`IndicatesOwnRequestOnceAllActive`. Neither of the last two is inductive: the
invariants relate every entry of `PDP_Session` to the last request of its slot, or to
the answer to it, and to the slot its `slot_id` names; the search for a slot's entry
is then a statement about the last match.

`WdsSessionProofs` proves, for any slots, tables, bounds and faults:

- `TypeOK`, together with `ListCursorInside`: an answer advances the cursor of
  the profile list, and the next request names a profile of the table only
  because a live list has one left (`TypeInv`).
- `OneIndicationPerActivation`: armed timers and announcements are counted
  together; a tick at FINISHED moves one from the first to the second.
- `OneLinkPerActivation`: strengthened to `LinkBudget`, which counts the links
  made, the link requests in flight and the one that an activated session may
  still ask for while `setup_link_done` is 0, against the activations. The
  invariant is needed because the flag alone says nothing about a request that
  an earlier activation left behind.

- `StagesInOrder`, by way of `IndInv`, the invariant that `wds_reactivation` also
  checks with TLC. "A stage has its resources" is not inductive because requests
  outlive the stage that sent them: an answer that arrives late moves the counter
  as well. So a slot is said to *need* its link, or its binding, from the moment
  such a request is in flight (`NeedsLink`, `NeedsBinding`), and requests in
  flight carry what the session holds (`RequestsFitSession`). Every tick and
  every answer but one is then shown to be a move of its slot (`StageMove`) that
  keeps the invariant; the activation and the answer that brings the link are the
  two that are not, and need the link budget.
- `ImplementsBearer`, if a slot is activated once (`MaxActivations <= 1`, the
  theorem's only hypothesis; a second activation resets the session while the
  modem keeps what the first one took): every step maps to a step of `Bearer` or
  leaves all four mapped variables alone.

`WdsPromptProofs` proves `NetworkOnImsProfile` and `AnnouncesLiveNetwork` for any
number of activations under `PromptScenario`, the hypothesis of both: answers come before the next tick, there are none of the
faults that break them whatever the order (`HarmfulFaults`: an activation before its
client, a start request answered with an error that is no call failure, an error or no answer
to the settings request), and no CALL_FAILED where a slot may be activated again
(section 4 says what it does then). `PromptInv` says that a slot has at most one
request in flight: the one its step calls for (`Expected`), or one that an earlier
activation sent, whose answer meets a session at its beginning (`Stale`). From that it
follows that profile, link, binding and call are there as far as the counter says
(`Stage`, `Backed`; a counter that went below zero has given up and says nothing),
and that a profile answer finds the list it was asked for.

For slots that are activated once (`FirstScenario`) and a buffer that starts zeroed
(`ZeroedAddress`) it also proves `AnnouncesGrantedAddress` for addresses of any
lengths, since the buffer is then written once, over zeros (`FirstGrants`). What
`CString` makes of a buffer is a lemma about the place of its first zero
(`CStringAt`). `wds_stale_address` shows that the hypothesis of one activation is
needed.

`ImsSessionProofs` proves of the two components together:

- `ImsSession` implements `WdsSession` and `DcmServer` (`SessionRefinement`,
  `ServerRefinement`), so that all theorems about the components hold in the system.
  A step of the system leaves a component alone or is a step of that component;
  what has to be shown is that a session announces only slots DCM was asked about, which takes that
  activations and requests of a slot are counted alike (`AskedWhenActive`) and that
  timers never outnumber activations.
- What DCM promises, in the system: agreement of indication and response, own request
  in indications, transaction ids (`SystemAnswerTheorem`, `SystemIndicationTheorem`,
  `SystemTransactionIds`). The theorems are those of `DcmServerProofs`, through its
  instance `DP`.
- `IndicatesGrantedAddress` for addresses of any lengths in a first activation with
  prompt answers and a zeroed buffer.
- `ImplementsPdpService` under `PromptScenario`, for any number of activations: the
  phases nest (`PhasesNest`: what is announced has a call, what has a call was asked
  for), and every step of the system moves a slot by one phase or leaves all alone.

`PdcConfigProofs` proves `IndInv`, `SelectedWhenComplete` and
`CrashesOnlyWithoutList` of `PdcConfig` for any stored configurations and errors,
if the context starts zeroed (`Zeroed`, the hypothesis of all three). That the
last report selects, and selects once, rests on the counter being the number of
described entries; that in turn needs every request for details in flight to
belong to an entry of its own without a description (`CounterFitsList`), which
needs fresh tokens (`TokensFresh`), and on what can be in flight at which point of
the exchange (`Exchange`).

`DaemonProofs` proves, for any number of instances and inodes, `OneInstance` and
`RefusedOnlyByTheLiving`. "One holds the lock" is not inductive by itself: the lock
is on a file, so it also takes that whoever has the lock file open has the file
that is at the path now (`LockInv`), which holds because nothing removes it. It
then proves `DaemonInv`; and, if `g_new` returns zeroed memory (`Cleared`, the
hypothesis of this theorem alone), `CrashesOnlyBeforeClients`, which rests on a
service being ready only on an open device and once its allocation was answered
(`ClientInv`).

`TlvWalkProofs` proves `ReturnsTellTheMessage` for all messages of `WellFormed`, of
any length, with receive buffers of any size, those included for which the walk goes
round for ever. It rests on `WalkInv`: the cursor stands on a TLV or at the end, and
none of the TLVs before it is the one looked for. `ImplementsRecordWalk` needs that no
last length leads back onto a TLV (`Loops`, the only hypothesis): of the sums that wrap,
the test at qmi-util.c:72 stops the walk at 0 only.

`McfgScanProofs` proves all the properties of `mcfg_scan`, both refinements of
`RecordWalk` included, for any directories of files of `WellFormed`, records of any size
and any size of the section table. `ScanInv` says what is known while a file is read:
which items and sections are behind the cursors, and that `info` tells what those
sections tell. `ExtentsAgree` is the lemma that the code's cursors move by a record's
extent. The sizes come out right although both operands have
wrapped because each item is smaller than the wrap (`Small`). `CrashesOverTheFile`
follows from the invariant because the walk is known to be at a reached item or at a
section there is room for.

Out of the prover's reach and left to TLC are the liveness properties, and only
they: `ActivationIsAnnounced`, `ActivationIsIndicated` and `ActivatedUnlessRefused`.

## 6. Not modelled

- Code that nothing calls: `wds_stop_network`, `close_device` and
  `cancel_connection_manager` with the release of the clients, the IP call and
  user agent functions of imss.c, `is_sub_requested`.
- What is only printed: netmasks, registration and service states, the network's
  numbers, version and ICCID sections, configuration values. So are the
  12000 lines of mcfg.h from 275 on, a table of names for printed item numbers;
  they are seven tenths of the repository's lines, and nothing in them can be modelled as
  behaviour.
- `TlvWalk`: datagrams cut inside the three bytes of a TLV's header, and lengths that
  lead into the middle of a TLV or of the message's header (the walk then takes other
  bytes for a TLV). A message shorter than eleven bytes is refused even if it is a whole
  one with an empty TLV. The builders (`build_qmi_header`, `build_u8_tlv`,
  `build_u32_tlv`) write fixed places.
- `McfgScan`: files whose records do not lie one behind the other, beyond what the checks
  refuse; two names in one footer; names that are not terminated; a refused footer that
  is not last; what the blobs hold, which nothing reads but debug output that is off.
  Directories that cannot be read contribute no file, and the recursion into
  directories is flattened into the order it visits the files in.
- `PdcConfig`: a modem that reports details under a token it was not given (the code
  would describe the last entry looked at, pdc.c:241).
- `Daemon`: links that an instance leaves behind in the kernel when it ends. The
  scan's crash and PDC, data sessions and DCM have modules of their own; an instance that
  crashes in them ends like one that is killed.
- The subscription id TLV (stored, never used). Wording, logging and message
  layout everywhere; build files and notes.

## 7. Plan

Done: the data session and DCM with their composition, PDC, the start and the end of
an instance, the TLV walks and the configuration scan; and a proof of every safety
property the passing runs check. What is left:

1. The late CALL_FAILED of section 4 as a scenario of its own, with a theorem about
   what still holds then.
2. Messages whose TLVs overlap, so that a walk may read a header from inside a value.
