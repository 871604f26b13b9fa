# A TLA+ development of ACARS Print Bridge

ACARS Print Bridge watches the ACARS traffic of a simulated aircraft and prints
it on a thermal printer; it also prints the SimBrief flight plan, its loadsheets
and weather reports.  This directory models the program's own logic in TLA+,
checks it with TLC, and proves part of it with TLAPS.  Paths below are relative
to the repository; `services/...` and the like are under `src/acars_bridge/`.

`PROJECT.json` maps every definition that models code to the lines it models,
and lists the runs, the mutations that break each property, the findings, the
hazards of the code and the theorems.

## 1. Inventory: the system

### Threads

| thread | where | what it runs |
|---|---|---|
| command thread | `bridge/__main__.py` | reads NDJSON commands on stdin, `BridgeRuntime.handle`, one at a time: settings, Print OFP, Unlock, start and stop of the tap |
| tick | `bridge/runtime.py` `_background_tick_loop` | once a second: simulator snapshot, print gate, watcher's `tick_local`, automatic weather, scheduling of the SimBrief poll |
| SimBrief poll | `bridge/runtime.py` `_schedule_simbrief_poll` | a pool of one worker: `poll_network_if_due` |
| print worker | `services/print_manager.py` | one executor per `PrintManager`; a settings save builds a new manager and does not wait for the old one |
| proxy workers | `tap/proxy.py` | up to 32 connections; each captured reply goes to ingestion |
| companion HTTP | `companion/server.py` | one thread per request of the phone |
| companion station | `services/companion_station.py` | polls Hoppie in the place of the aircraft |
| simulator monitors | `simconnect/monitor.py`, `xplane/monitor.py` | keep the last snapshot |
| WinDivert loop | `tap/divert.py` | rewrites packets towards the proxy |

### Components

| component | state | operations | what makes it correct |
|---|---|---|---|
| Print gate, `services/sterile.py` | the hold and its three reasons, the settle deadline, two bounded queues | bring a job, tick, save a setting, flush | nothing strands, nothing is lost but by a full queue, order within a channel, the settle window is kept, every hold has a reason and ends with it |
| SimBrief watcher, `simbrief/watcher.py` | lock state (phase, OFP, marks, times), last OFP id | tick, poll, Print OFP, Unlock, restore | bundle and final print once per OFP, every lock ends, every OFP is handled, a flight survives a restart |
| Simulator rules, `simconnect/monitor.py` | none | in world, powered, sterile, unpowered | one meaning of a sample for all users |
| Message store, `models/messages.py`, and ingestion, `services/ingestion.py` | messages with ids and fingerprints, print jobs | insert, list since/before, record a print, clear | a message once per session, a print record belongs to its message |
| Print stack, `services/print_manager.py`, `printing/escpos_printer.py` | a queue, a device | submit, retry, rebuild | cuts never overlap, an accepted job prints or is recorded failed |
| Phone companion, `companion/` | token, the page's newest and oldest id | list, detail, reply, request | the page shows each message of the store once |
| Companion station, `services/companion_station.py` | poll thread, stop flag, the setting that a conflict turns off | probe, start, stop, rejoin, poll | the station stays polled, a message taken from the network is stored |
| Outbound requests, `services/outbound.py` | the logon looked up, packets left to try | telex, weather, ATIS, CPDLC reply, PDC, position | one strip per request, none for a failed one |
| Wire session, `services/wire_session.py` | the captured logon, its network and age | store, get, clear | cleared with the tap, filed under its own network |
| ACARS tap, `tap/service.py`, `tap/proxy.py` | running parts, connections, failure counters | Connect, Disconnect, change of network, exchange, TLS fallback | all or nothing at start, no packet sent to a closed port, nothing kept after stop |
| Redirect, `tap/divert.py`, `tap/tcp_owner.py` | a snapshot of port owners, a verdict per connection | packet out, packet back, TLS fallback | only the simulator is diverted, a verdict holds for the connection |
| One exchange, `tap/proxy.py`, `hoppie/parser.py`, `tap/extract.py` | the request's form, the reply | fill in a callsign, take the reply apart, keep what concerns us | the network reads what the aircraft wrote, the messages are read as written |
| Simulator monitors, `simconnect/`, `xplane/` | session, subscription, time stamps, last sample | open, poll, subscribe, publish | the sample follows the simulator |
| Automatic weather, `weather/auto_wx.py` | positions found, plans printed | pulse | once per plan, not begun while the gate holds, printed in the end |
| Self-updater, `services/updater.py` | downloads, staged EXE, helper script | check, skip, install, replace, relaunch | a new EXE is later and verified, and never replaces a running one |
| Single instance, `single_instance.py` | lock file | acquire, release | at most one instance |
| Desktop shell, `bridge/`, `src-tauri/src/bridge.rs` | mutex, pipes, event deque | request, answer, event, death and restart of the bridge | an answer goes to its caller, no event waits for the next command |
| Settings store, `models/settings.py`, `printing/profiles.py` | a table of texts, profiles | get, set, save and apply a profile, migrate | getter, setter and profile agree |
| Ticket layout, `printing/base.py`, `printing/formatter.py`, `simbrief/tickets.py` | none | columns, wrapping, rows of a ticket | rows fit, no letter is lost |
| ATIS feeds, sniffer and hosts file, printer discovery, Qt window, web pages, command line | little of their own | - | see section 6 |

How they interact: the tap and the companion station hand messages to
ingestion; ingestion stores a message and brings its strip to the gate; the
watcher brings its bundles and finals to the gate; the tick gives the gate the
snapshot that closes or opens it; an open gate passes jobs to the print stack,
directly or, after a hold, by a flush.  The tap files the logon it sees in the
wire session, and the phone's requests send with it.  The monitors' sample is
what the gate, the watcher and the weather read.  Settings saves come from the
command thread between any two steps of the others.

### What is hard

The gate tests its hold under a lock and prints outside it; a tick reads the
settings in one critical section and applies its verdict in another; the
watcher has no lock at all and three threads; prints, polls, probes and fetches
take seconds during which other threads change the state the caller comes back to;
the watcher persists its state around prints, so a crash can fall in between; a
print may end in an exception that skips the mark behind it; an answer may be
handled after what it says has changed;
ids are reused after a clear while other threads hold them; proxy workers and
poll threads outlive the stop that should end them; a poll removes from the
network what it returns; answers are matched to commands by their order alone.
The list, with the line of each hazard and the properties that watch it, is in
`PROJECT.json`.

## 2. Modules

| module | models | checked in | proofs |
|---|---|---|---|
| `SimState` | pure rules from a sample to in-world, powered, sterile, unpowered | with the gate | - |
| `SterileGate` | print gate, and the tick, command, job and print threads that meet in it | `gate_*` | `SterileGateProofs` |
| `DeferredPrinting` | the abstract promise of the gate, which `SterileGate` implements | `gate_settings` | `SterileGateProofs` |
| `SimBriefWatcher` | the watcher with its three threads, its persistence and restart | `watcher_*` | `SimBriefWatcherProofs` |
| `MessageLog` | the messages table: ids, fingerprints, pages of rows (operators on a log) | with its users | with its users |
| `MessagePrinting` | ingestion, reprints and tickets, print managers, print records | `printing_path` | `MessagePrintingProofs` |
| `PhoneInbox` | the phone's inbox page and the companion's answers | `message_path` | `PhoneInboxProofs` |
| `WireVault` | the captured logon and the chosen network | with its users | - |
| `AcarsTap` | Connect, Disconnect, proxies, redirects and workers | `tap` | `TapProofs` |
| `TapFlows` | which packets the redirect diverts | `message_path` | `TapProofs` |
| `ProxyForms` | one exchange in the proxy | `message_path` | `TapProofs` |
| `HoppieWire` | a reply taken apart into messages | `message_path` | `MessagePathProofs` |
| `CompanionStation` | station mode: probe, poll thread, start and stop | `station` | `MessagePathProofs` |
| `OutboundRequests` | the phone's requests, beside station and tap | `station` | `MessagePathProofs` |
| `SimMonitors` | MSFS, X-Plane and the two monitors | `simulators` | - |
| `AutoWeather` | the pulse that prints the destination's weather | `desktop` | `DesktopProofs` |
| `Updater` | the self-update and its helper script | `desktop` | `DesktopProofs` |
| `DesktopShell` | the shell, its bridge process and the line protocol | `desktop` | `DesktopProofs` |
| `SingleInstance` | the lock file | `desktop` | `DesktopProofs` |
| `SettingsStore` | getters, setters, profiles, migration | `desktop`, `settings_radius` | `DesktopProofs` |
| `TicketLayout` | columns, wrapping, rows of the tickets | `message_path` | `MessagePathProofs` |

Composition.  `SterileGate` extends `SimState`; `MessagePrinting` and
`PhoneInbox` extend `MessageLog`, so that a mutation of the table's operators
reaches both.  `WireVault` is extended by `AcarsTap`, which stores and clears
the logon, and by `CompanionStation`, which `OutboundRequests` extends: there
the requests of the phone run beside the poll thread, the settings saves and
two actions that stand for the tap.

`MCMessagePath` and `MCDesktop` put components in one run that share no state.
A variable `part` says which of them a behaviour exercises, the others stay
where they start: the run's states are the sum of the parts' and every part is
explored as if alone.  `MCOutboundRequests` does the same with the requests and
the station's messages, which no request looks at.  The other `MC` modules are
plain instances.
`SequenceLemmas` has no model: it holds the inductions the proof modules share
(section 4).

### SterileGate

A job is a model value with a channel (`acars` or `simbrief`).  One action is
one critical section of the gate's lock, or one step of a thread outside it.

| action | code |
|---|---|
| `Defer`, `RunNow` | `run_or_defer_acars`, `run_or_defer_simbrief`: under the lock, queue or pass |
| `PrintCleared` | the passed job's body, outside the lock (an ingested message first sleeps a second) |
| `TickJudge` | first section of `update_from_snapshot` and the judgement: the locals are `verdict` |
| `TickApply` | second section: hold, settle window, release on the shut-to-open edge |
| `Dispatch`, `PrintSubmitted` | `_dispatch_flush` and the print worker that runs what it submitted |
| `SetThresholds`, `SetRequirePowered`, `RebuildPrinter` | the three steps of a settings save |
| `NewSample`, `Elapse` | the simulator, and time |

`readyIn` is the time left to `_power_ready_at`.  The settle window is
`SettleTicks` units; time does not advance between the two sections of one tick,
which takes microseconds.  The stagger between flushed jobs is time only: the
jobs of a flush are dispatched one by one, in order, with anything in between.
`poweredFor` is a history variable.

### SimBriefWatcher

A state is a record with the fields of `WatcherState`.  A time stamp is its age
in units, which stops growing at the threshold the code compares it with
(`Older`); minutes and hours (landing debounce, grace, max lock) do not pass
while a strip is printing, seconds do.  `last` and `saved` are the two settings
the watcher persists.  A handler is one action except where its thread waits, for
the printer or for SimBrief:

| actions | code |
|---|---|
| `TickMaxLock`, `TickDisabled`, `Tick` | `tick_local` up to its print, with `_update_flight_phase` (`FlightPhase`) and `_should_print_final` |
| `TickMissedPrinted`, `TickFinalPrinted` | `tick_local` after the missed final and after the final |
| `PollStart`, `PollFails` | `poll_network_if_due` and `_poll`: request sent, answered with an error |
| `Answered` | `fetch_latest` returns, to the poll worker or to Print OFP, with the OFP that is the latest then |
| `PollLocks`, `PollIgnores`, `PollLockPrinted` | `_poll` handles the answer it holds, some time later; its bundle printed |
| `PrintNowStart`, `PrintNowFails`, `PrintNow`, `PrintNowPrinted` | `print_now` before and after SimBrief's answer, and `_lock_onto` around the bundle's printing |
| `TickRaises`, `PollLockRaises`, `PrintNowRaises` | the print ends in an exception: `_emit` catches only `PrinterError`, and the record of a strip whose message was cleared is refused; the rest of the handler is skipped |
| `UnlockNow` | `unlock` from the command thread |
| `SetEnabled`, `NewOfp`, `Expire`, `Elapse` | settings, SimBrief, the clock |
| `Crash` | restart: `_restore` |

`answer` is what each worker was told and has not handled; the poll worker reads
the time (`clock`) before it asks, as `_poll` does.  So an answer may be handled
when Print OFP has locked onto a newer OFP meanwhile, and pass for a regenerated
one.  `Elapse` lets seconds, minutes or hours pass (`Span`).  `crossed` is history:
the OFPs locked onto while a strip was printing whose end marks the lock in force
(`Marking`).

The tick reads the simulator through `snap` (any of `Snapshots`) and the gate
through `hold` (any combination the gate can be in), so the watcher is checked
against every behaviour of both.  `due` says the clock has reached T-5.

### MessagePrinting

`log` is the messages table, whose rows are their contents: an incoming message
(equal to another when their fingerprints are) or a ticket (never known before,
its fingerprint has a time stamp).  `records` is `print_jobs`.  A *runner* is a
thread that ingests or asks (proxy worker, station poller, phone request,
command thread, tick) or the print worker of a print stack; `doing` holds the
job it has in hand, at one of four places: `stored` (inserted, not read back),
`known` (a duplicate to be looked up), `print` (through the gate), `cut` (at the
printer, under its manager's lock).

| action | code |
|---|---|
| `ReceiveNew`, `ReceiveDuplicate` | `ingest` and the transaction of `insert_inbound` |
| `ReadBack` | `insert_inbound`'s `get` after its lock is given up, and the rest of `ingest`; the same of `insert_ticket` |
| `FindKnown` | `get_by_fingerprint` for a refreshed duplicate |
| `AskReprint`, `AskReprintLast`, `AskTicket` | `cmd_print_message`, `reprint_last`, `_print_bundle` |
| `StoreTicket` | the transaction of `insert_ticket` |
| `TakeHeld` | a print worker takes a job the gate released |
| `StartPrint`, `FinishPrint` | `_emit`: the lock, the printer, `create_print_job` with its foreign key |
| `Rebuild` | `AppSession.rebuild_printer` |
| `Clear` | `clear_all`, on command or at boot |
| `Restart` | the program stops anywhere and starts again |

`Bring` stands for the gate, whose own behaviour is `SterileGate`'s subject: it
passes a job or holds it, as it likes, so the properties hold for every gate.  A
held message keeps the print manager it was taken up with; a reprint or a ticket
looks the manager up when it runs (`StackOf`).  `owed`, `tried` and `unasked` are
history.  Left out: suppression of repeated "not available" replies, the
auto-print switch, the pairing code, test page and feed (which take the same
lock), and batches of more than one message.

### PhoneInbox

The page keeps what it lists (`shown`), `newestId`, `oldestId` and the open
message.  A request is sent, answered by the server against the log of that
moment, and received, in three steps; `MaxSlots` of them are under way at once,
in any order, and each may fail at any point.

| action | code |
|---|---|
| `SendLoad`, `Loaded` | `boot` and `loadInbox`; polling starts when boot's load has come |
| `SendPoll`, `Polled` | `pollNew` |
| `SendMore`, `MoreLoaded` | `loadOlder` |
| `SendOpen`, `Opened`, `CloseDetail` | `openDetail`, the close button |
| `SendReply`, `Replied` | `sendReply`, which loads the inbox again |
| `Answer` | `CompanionApi.messages`, `message`, and `reply_cpdlc` |
| `Arrive`, `Clear` | a row is stored; the log is cleared |
| `Fails` | `api` throws |

A row's content is the number of its arrival, so a reused id shows.

### WireVault and AcarsTap

A Connect makes a *session*: a proxy with its listeners, and a redirect that a
thread of its own opens.  Sessions are never reused, so what an old worker
touches is visible.  `step` is where the command thread stands inside the
service's lock; `late` is history: the logon in the vault was stored by a
worker whose session was over.

| action | code |
|---|---|
| `ConnectRefused`, `StartProxy`, `ConnectDone`, `ConnectFails` | `TapService.start` up to its first failure; the listeners; `divert.start` after its wait |
| `DivertOpens`, `DivertFails` | the redirect's thread opens the driver |
| `Disconnect`, `TearDown` | `_cleanup_unlocked`: redirect, then proxy and vault |
| `SaveNetwork`, `SaveDone` | `cmd_save_settings` stores the network first and disconnects last |
| `Accept`, `Greeted`, `Broken`, `Capture`, `WriteStatus` | a worker's connection, which on the HTTPS port begins with a TLS handshake (stage `greeting`); `_on_exchange`, whose last part, the status, is written under the lock |
| `TlsError`, `TlsCounted` | the failure counter is read, then written; `_on_tls_failure` |
| `Elapse` | the logon ages up to `WireTtl` |

### TapFlows, ProxyForms, HoppieWire

`TapFlows` has a connection per client port, the system's table of owners, the
redirect's snapshot of it and the verdict per connection.  `ClientPacket` is
`_handle_packet` towards the network with `_should_divert_flow` and `owner_for`,
`ProxyReplies` the way back; `Open`, `RowAppears`, `Close` are the system's,
`Age` ends the snapshot's 0.25 s, `SetHttpsRedirect` is the TLS fallback.
`reused` and `upset` are history.

`ProxyForms` follows one request: `Forward` patches a missing callsign
(`_patch_hoppie_credentials`: query and body, the length counted again),
`Replies` or `Breaks` is the network, `Tell` decides whether the tap hears of it.

`HoppieWire` starts from the messages the network holds, writes them as a reply,
and reads it: `ReadReply` is `parse_response`, whose brace counter is `Scan`, one
mark at a time with the depth, the block it is in and the blocks it has.  A block
is a message by the code's own rule (`IsMessage`): after an optional number
(`Unnumbered`), two words or more before the first brace behind a space
(`OpensBody`), and a brace at its end; the second word is a type or "unknown"
(`TypeOf`).  A body is any text of words and braces, so it may hold the names and
types that begin a block.  `TakeMessages` is `messages_from_hoppie_exchange` with the
callsign filter (`Kept`) and the labelling of weather replies.

### CompanionStation and OutboundRequests

| action | code |
|---|---|
| `Save`, `ProbeOk`, `ProbeFails`, `Start`, `Stop`, `Joined` | a settings save and `_sync_companion`: `probe`, `start`, `stop` with its join of two seconds |
| `Check`, `Fetched`, `FetchFails`, `Conflict`, `Ingest`, `IngestFails`, `Wake` | `_loop`, split where it waits |
| `Breaks` | a database error outside of the loop's `try` ends the thread, with the mode on |
| `Send` | the network gets a message for the callsign |
| `Ask`, `Choose`, `Identify`, `Sent`, `SendFails`, `Inforeq`, `PublicAnswers`, `PublicFails`, `Respond` | a request of the phone: the choice between network and public source, `_require_credentials`, the packet, the fallbacks |
| `TapStores`, `TapClears`, `Age` | the tap and the clock |

`uplink` says where each message is: a poll takes all that wait, and the
network forgets them.  A request that tries several packets has `tries` of them left,
`MaxPackets` at the start (three for a split ATIS).

### SimMonitors

MSFS fills a pipe of messages that `Poll` drains `PumpLimit` at a time
(`_ctypes_client.py`), asking for the system states every `AskEvery` polls;
`SessionOpens`, `SessionRefused` are the monitor's reconnect.  X-Plane hears
`Subscribe`, answers with `Recv`, announces itself with `RecvBeacon`; `GoesStale`,
`Detect` and `Publish` are its monitor.  `Shown` is `CompositeSimMonitor.snapshot`.
`Environment` starts, moves and quits simulators; a system event may be lost.
`MsfsDies` ends MSFS without a quit message, with what it said before read or lost:
`served` says whether the MSFS a session was opened with still runs, and a session
without it whose pipe holds no quit is `Orphaned`.

### AutoWeather, Updater, DesktopShell, SingleInstance

`AutoWeather`: `Tick` samples the flight under the tick lock; `Leave`,
`Consider`, `Locate`, `LocateFails`, `Decide`, `Fetch`, `FetchFails`,
`PrintBodies`, `Mark` are `consider` in its order; `PrintRaises` is an exception of a
print: some of the strips are out, the plan is not marked, and the pulse ends.
`Move` is everything that changes meanwhile.  `raised` is history.

`Updater`: `Install`, `Download`, `Stage` (the copy beside the EXE begins), `Copied`,
`Schedule` (the helper is started) and their failures are `cmd_install_update`;
`KillApp`, `Replace`, `ReplaceFails`, `Relaunch` the helper script, of which several
may be at work, since nothing keeps a second install from starting beside a waiting
helper, and all use one staged file; `Quit`, `Start`, `Skip` the user; `Publish` the
releases, which may also be withdrawn.  A file is the build of a release, whole, cut,
wrong, or half of a copy; a release gives a size, or a size and a digest (`Asset`).
`over` is history: the last copy began while a helper was at work.

`DesktopShell`: `Request`, `ReadEvent`, `ReadAnswer`, `ReadFails` are
`BridgeSidecar` in `bridge.rs`; `Receive`, `Answer`, `Emit` are the loop of
`__main__.py` and `emit_event`; `Dies` is the bridge's crash.  Pipes are sequences
of lines.

`SingleInstance`: `Look` and `Take` are the two halves of `acquire_lock`,
`ReleaseLock` unlinks the file whoever owns it, `Crash` leaves it.

### SettingsStore and TicketLayout

`SettingsStore` knows for every numeric and two-valued setting its kind of
range, its limits and its default, taken from the getters.  `Read` is the getter,
`Kept` what the setter leaves in the table, `Sanitized` the rule of a profile.
Settings do not influence each other, so one of them (`focus`) is worked on in a
behaviour and the others are absent.

`TicketLayout` starts from any paper.  `FormatMessage` takes a line of words to rows
(`WrapLines`, which places blanks and words one by one: `Filled`) and to a
label-and-value row; `RenderTickets` takes the fields a plan has to the sections of
its three tickets.

## 3. What the runs check

| run | configuration | question | result |
|---|---|---|---|
| `gate_settings` | `GateSettings.cfg` | do settings saves that race ticks and flushes lose, strand or repeat a job? does the gate implement `DeferredPrinting`? is every job printed in the end, and does a lasting hazard shut the gate? | holds |
| `gate_order` | `GateOrder.cfg` | order within a channel, and the settle window, when only ticks release | holds |
| `watcher_safety` | `WatcherSafety.cfg` | with answers handled late and prints that raise: are bundles and finals repeated, does a lock have its OFP, is a flight saved, is a final that never printed owed? | holds |
| `watcher_liveness` | `WatcherLiveness.cfg` | does every lock end and every OFP get handled? | holds |
| `printing_path` | `PrintingPath.cfg` | through racing duplicates, clears, a second print stack and restarts: is a strip lost, does a message print itself twice? is what is due tried in the end? | holds |
| `message_path` | `MessagePath.cfg` | is only the simulator diverted, and a connection one way throughout? is a form kept, a reply read as written, the phone's list whole and in order, a strip within its paper? | holds |
| `tap` | `TapSessions.cfg` | does a Connect leave all or nothing, is a diverted packet ever met by a closed port 80, is the vault empty when off, does every worker past its handshake end? | holds |
| `station` | `StationRequests.cfg` | is the station polled whatever stuck threads do, is what was taken from the network stored, does a request print one strip? | holds |
| `simulators` | `Simulators.cfg` | does the sample say in the end what the simulators do, unless MSFS was killed? | holds |
| `desktop` | `Desktop.cfg` | weather once per plan and printed in the end; sound installs; answers to their callers and no event waiting; one instance unless starts raced; settings that come back as shown | holds |
| `gate_sterile` | `GateSterile.cfg` | README: "prints queue and release when sterile ends" | violated |
| `settings_radius` | `SettingsRadius.cfg` | `settings.py`: "migrate leftover installs once" | violated |

### The disagreements

Shown by a run:

* **`gate_sterile`.**  A job passes while the gate is open and prints later
  (an ingested message sleeps a second in between; a flushed job waits in the
  print worker), and the aircraft has gone sterile.
* **`settings_radius`.**  The migration of the old factory radius runs at every
  start without a mark that it ran: 150 nm chosen on the page is 180 nm after
  the next start.

Stated as definitions, broken by the code, each without a run of its own; to see
one fail, name it as an `INVARIANT` or `PROPERTY` beside those of the cfg given:

| definition | cfg | what a document says | what happens |
|---|---|---|---|
| `UnlockedPolls` | `WatcherSafety.cfg` | README.md:201 "Unlock lets the same OFP lock again" | Unlock while the tick prints the final: the tick then marks the fresh state as final-printed, and it stays there without an OFP |
| `CutsNeverOverlap` | `PrintingPath.cfg` | `print_manager.py`:23 "cuts never overlap" | a settings save builds a second print manager with a lock and a worker of its own, on the same device |
| `ReplyAnswersWhatWasRead` | `MessagePath.cfg` | README.md:115 "open a message to Print or send WILCO" | the log is cleared while a message is open; its id goes to a new message, and the reply answers that one |
| `InboxArrives` | `PhoneInbox` by itself with the `FairSpec` of that module | README.md:105 "to read the ACARS inbox" | `pollNew` does nothing while `newestId` is 0: a page opened on an empty log never shows a message until Refresh |
| `HttpsIsServed` | `TapSessions.cfg` | `proxy.py`:87 "HTTP-only still useful" | port 443 is taken, the certificate is trusted: HTTPS is redirected to a port where the proxy does not listen |
| `WeatherAlwaysWorks` | `StationRequests.cfg` | README.md:118 "Weather / ATIS on the phone always work" | with a logon the weather is asked of the network only: its error ends the request, and the public source is not tried |

Narrower ones, kept out of the properties:

* A tick that judged with "only when powered" off may open the gate just after
  it was switched on, for one tick; `HazardShutsGate` says it shuts again.
* An OFP locked onto while the tick prints another's final, or while a Fenix's
  bundle prints, inherits the mark made afterwards; `MissedFinalOwed` leaves these
  OFPs out (`crossed`).
* A print that raises leaves its final, or the plan's weather, unmarked, and it
  prints again; `FinalOnce` and `WxOncePerOfp` allow one copy for each.
* The page may show rows twice when two polls overlap; `InboxInOrder` is stated
  for requests that do not.
* A callsign in the query is overridden by the one filled in the body when the
  fields are split between both (`proxy.py`:455); `FormIsKept` leaves it out.
* A body that closes the block it is in and opens another reads as two messages,
  and a brace left open in one message loses every message of the reply, which the
  network has forgotten; `ReadAsWritten` is about bodies that close what they open,
  and about replies that do not, which give nothing.
* An MSFS that is killed leaves its last sample in force, connected, until the
  program restarts (`_ctypes_client.py`:503 takes a failed call for an empty queue);
  `SampleFollowsSim` leaves it out.
* An aircraft that opens an HTTPS connection and says nothing holds its proxy worker
  for ever (`proxy.py`:166 has no timeout); `WorkersFinish` begins after the handshake.
* A second install started beside a waiting helper is ended by that helper, and half
  of its copy may be put in place; `InstallsAreSound` says that it takes this.
* A database error at the head of the station's loop ends its thread with the mode
  on, and nothing starts another; `StationIsPolled` accepts it.
* A verdict outlives its connection: a port taken over by another program, or by
  the simulator, keeps the old one (`reused` in `FlowsAreSound`).
* A kind of weather whose fetch failed is not tried again once another kind of
  the same plan has printed; `WxIsPrinted` asks for one.
* A profile stays the active one after a page edits the format by hand.
* A width below 16 columns is raised to 16 though the paper is narrower.
* An instance that lost a race to start removes the other's lock file when it
  ends; from then on `SecondOnlyByRace` promises nothing.

### Bounds, and why they are enough

* Gate: three jobs in two channels, queues of one or two, so that a queue overflows;
  a settle window of one or two units, so that a hazard can return in the middle of
  it; up to two print stacks (`MaxExecutors`), so one settings save races the ticks
  and an old stack keeps work after its replacement. The samples cover: no
  simulator, menu, dark, powered below and above the AGL limit, and taxiing above 40
  kt. `gate_order` has one stack: with two, an old worker and a new one print side
  by side and no order is promised.
* Watcher: two OFPs, one a Fenix's, are enough for a regeneration, a turnaround and
  a stale answer; every threshold is one unit. `WatcherSafety.cfg` has the final
  after a taxi roll and a simulator that goes (`TaxiSnapshots`),
  `WatcherLiveness.cfg` one OFP and the doors (`DoorSnapshots`). `MaxEvents` bounds
  the uses of Print OFP, Unlock, crashes and prints that raise together (one: each
  is a disturbance of an otherwise undisturbed run; their pairs do not finish within
  minutes), but for one pair: what Print OFP prints may raise as well.
* Printing: one printable message, one that is not, one ticket, two threads beside
  the print workers, two print stacks, two messages or requests (a duplicate needs
  two) and one clear or restart between any of their steps.
* `MessagePath.cfg`: page and poll answers of one row and three arrivals, so that
  both limits cut an answer short, with two requests under way and one clear; the
  page is opened once and loaded again by each reply, the way a Refresh loads it;
  two ports and three connections, so that a port changes hands, and `MaxFlows` 0,
  so that the second verdict already throws the first away; queries and bodies of
  two fields; replies of two messages whose bodies (`WrittenBodies`) hold braces,
  and words that look like the head of a block; lines of three words at and around
  the width of each paper.
* `TapSessions.cfg`: two Connects, so that a worker outlives its session and meets
  the next one; two workers, which race on the counter; one change of the network;
  TLS falls back at the first failure.
* `StationRequests.cfg`: two poll threads, so that one is stuck while the next
  starts, one thread of the phone's server, three packets as in the code; the logon
  lives one step. Saves are unbounded. Requests never look at the station's
  messages, so the run has two parts (`part`): requests beside the station without
  messages, and the station with two messages and no request.
* `Simulators.cfg`: one poll takes two messages and the pipe may hold more, so a
  poll leaves some behind; three moves of the user (a start, a change, a quit or a
  kill).
* `Desktop.cfg`: two tickers and plans with two kinds of weather and four moves,
  prints that raise among them; two versions that give a size with or without a
  digest, two helpers, so that a second install meets a waiting one, and two tries
  of each; two callers, three commands, one death, three events and a deque of one,
  so that it overflows; three processes and five starts; typed numbers below, at,
  inside and above the ranges.

Deadlock is not checked in `PrintingPath.cfg` (without another message the
component rests), in `MessagePath.cfg`, `Desktop.cfg` and `Simulators.cfg` (the
forms, replies and layouts end, and the bounds end the rest) and in
`SettingsRadius.cfg`.  The gate, the watcher, the tap and the station must not
stop and are checked for it.

### Fairness

* Gate: the tick thread, workers and threads that hold a job keep running (weak
  fairness of each one's step); a save that has begun is completed; time passes
  between ticks (strong, because each tick interrupts it).  Nothing makes the user
  save a setting, a message arrive or the simulator change.
* Watcher: the eight-hour test of the tick comes (weak on `TickMaxLock`; what else
  the tick does is not forced), prints end, well or with an exception, the poll starts
  when due and its answer is handled; SimBrief answers infinitely often if it is asked
  infinitely often (strong on `Answered("poll")`: single requests may fail for ever in
  between); hours pass (strong, since only while nothing prints).  The user, a new OFP,
  a crash and an exception are never forced.
* Printing: a thread that has a job in hand goes on with it, a print ends, a
  print worker takes what was released (weak), and a manager's lock that is free
  again and again is got (strong on `StartPrint`).  That the gate releases what
  it holds is `JobsFinish` of `SterileGate`.
* Tap: a command once begun goes on (weak on `CommandStep`: no wait in it is
  without a timeout); a worker whose handshake is complete goes on too, but waits for
  the service's lock, which is free again and again (strong on `Proceeds`).  Nobody has
  to connect or call, and nobody has to complete a handshake, which has no timeout.
* Station: every wait of the sync, the loop and a request has a timeout (weak on
  each).  Saves, messages, the tap and database errors are never forced.
* Simulators: both monitor threads loop, and a simulator that runs answers and
  sends (weak on each); nobody has to start, quit or kill one.
* Weather: the pulse runs again and again (weak), and a fetch tried again and
  again succeeds some day (strong on `Locate` and `Fetch`).

## 4. What is proved

The proofs hold for every value of the constants: any number of jobs, threads,
OFPs, sessions, messages, any size of queues, pages and deques.  Every safety
invariant and every action property of the passing runs is a theorem, the
refinement of `DeferredPrinting` included; only liveness is left to TLC.  TLC
checked each inductive invariant on a small instance before it was proved.

The assumptions are named in the modules and hold in the code: `GateAssumption`,
`WatcherAssumption`, `PrintingAssumption`, `InboxAssumption`, `VaultAssumption`,
`TapAssumption`, `PacketAssumption` and `WireAssumption` (types, sets that do not
overlap - a station is not called like a message type or a brace -, and limits that
are positive where a limit of zero makes no sense), and `LayoutAssumption` (the
ranges the settings are clamped to; a glyph and a word have a width). Some theorems
name a condition in their statement instead: `WeatherOncePerPlan` that the values
which stand for "none" are no plan and no ticker; `AnswersMatch` and
`EventsAreAccounted` that "none" is no caller and the deque holds at least one
event; `VerdictsHold` that "nobody" is no program; `SettingsComeBack` that numbers
are whole; `WindowKept` that power is required throughout, and `StripsKeepOrder`
that no settings save builds a second print stack - the two situations their
properties are about, which `gate_order` checks and outside of which the code does
not keep them.

**SterileGateProofs.**  `GateTypeOK`, `HoldIsJustified`, `NothingStranded` are parts of
`GateInvariant`.  `NoStrandedJob` is not inductive alone.  A release happens on
the edge from `blocking` to not `blocking`; that a tick which leaves the gate open
finds the queues empty needs the induction hypothesis, and that
`SetRequirePowered` may open the gate to exactly `sterile` needs `blocking` to be
the disjunction of its reasons, which is `HoldHasReason`.  `WindowKept` rests on
`SettleInv`: while the gate does not see an unpowered aircraft, the time since and
the time left of the window make up the whole of it (`Covered`), and a verdict in
flight was judged with the setting on.  With the setting being switched the second
part fails, and so does the property: that is the one-tick opening of section 3.

`NoJobLostOrRepeated` (`EachJobOnce`) follows from `JobsInv`: the seven places a job
may be in make up all jobs and no two share one (`Partitioned`), no line holds a
job twice (`LinesInv`), and a thread about to release has dispatched its previous
batch (`FlushersFree`).  The last is what the code relies on without saying so: a
release overwrites the thread's batch.  Lemmas on lines of jobs (`TakeHead`,
`AddLast`, `ReplaceLine`, `JoinLines`) carry it through the steps.
`GateKeepsPromise` is the refinement, action by action: `Defer` is `Hold`, `RunNow`
is `Pass`, the three ways to print are `Emerge`, the step that shuts or opens
the gate is `Shut` or `Open`, and everything else stutters; that `Open` moves
exactly the held jobs needs `JobsInv` too.  `StripsKeepOrder` (`PrintsInOrder`)
follows the work submitted, the batch and the queue as three lines in a row
(`RowOrder`): handing on the head of one to the end of the one before keeps who
comes before whom, and so does a release, because the batch it fills is empty.

**SimBriefWatcherProofs.**  `TickIs` and `StepIs` first boil the handlers down to
a few outcomes (`TickOutcome`, `StepOutcome`): what a step may do to the lock, to
what is saved and to the counts.  Each theorem then goes over the outcomes.
`WatcherKnowsOfp` (`LockHasOfp`) from `LockInv`: without an Unlock, polling and
having no OFP are the same in the state and in what is saved, and a lock whose
bundle still prints is fresh - too young to end under the print.
`FlightStaysSaved` from `FlightInv`.

The other three stand on what a late answer can be: SimBrief's answers do not get
older, so the poll worker will be shown its pending answer or a newer OFP (`Floor`).
An OFP is settled once that is newer, or is the OFP itself and remembered
(`Settled`), and dealt with once the worker will not take it for a regenerated one
either (`Done`).  `BundlePrintsOnce` from `BundleInv`: an OFP not dealt with has printed
only for what was paid (`Paid`: Print OFP, Unlock, crashes).  `FinalPrintsOnce` from
`FinalInv`, which counts for the state in force and for the saved one what was
printed and what is still owed: a crash returns to the saved state, which may owe
again what is just printing, and a print that raises leaves what it printed still
owed.  A Print OFP pays for its second copy only when its bundle is out (`Copies`).
`MissedFinalIsOwed` from `OwedInv`: the end of a print marks the final of the lock
in force, which is the one whose final it was unless that OFP was locked onto since
(`crossed`).

**MessagePrintingProofs.**  `PrintingTypeOK` from `PrintingInv` (ids are given out in
order, an incoming message has one row, records name rows).  `NoStripLost`
(`StripsAccounted`) adds `AccountInv`: until a clear or a restart, what a thread is to
read back is in the log, so no strip that is due is dropped on the way.
`MessagePrintsOnce` (`PrintsItselfOnce`) from `OnceInv`, which counts what may still
print by itself: strips on their way, threads about to read the message's row
back, and the message that has not come.  The first attempt failed, and rightly:
it assumed that a clear adds two copies at most.  It adds one more each
time, since for every earlier clear a thread may still hold an id that now
names this message.  The property therefore bounds the copies after k clears by
1 + 2 + ... + (k + 1).

**PhoneInboxProofs.**  `InboxKeepsRows` (`InboxHasNoGap`) and `InboxStaysInOrder`
(`InboxInOrder`) from `PhoneInvariant`: ids are given out in order and rows go only
all at once (`LogInv`); a request under way has the shape its kind gives it
(`Slots`); a load that meets another list request counts as crossed (`AloneInv`)
and is answered from the top down (`LoadInv`); what a poll or a request for older
rows brings joins the list without a gap, since it was asked from an id inside the
list (`ListInv`), or, when nothing crosses, from its end (`OrderInv`).  The
server's pages are minima and maxima of sets of ids, which lemmas relate to
intervals.  `InboxTypeOK` is the type invariant.

**TapProofs.**  `ConnectIsAllOrNothing`, `Port80IsServed` and `LogonIsLive`, from
`TapInv`.  `StepInv` says which of proxy and redirect the service holds at each
step of a command; `SessionInv` that a session other than the service's proxy has
no listener and that a driver which is not off belongs to the service or to the
Connect under way; `VaultInv` that a logon not stored late belongs to the running
proxy, whose network is the chosen one except while a change is being saved.

`VerdictsHold` from `FlowsInv`: `WayInv` ties the ways a
connection's packets took to the verdict kept for it, `OwnerInv` ties table,
snapshot and verdicts of a port that never changed hands to its one program.
`FormsAreKept` (`FormIsKept`) from `FormsInv` and lemmas on forms of any length:
the first of several fields of a name exists (`FirstExists`), and filling in a
callsign leaves the first of every other name where it was (`PatchIs`).

**MessagePathProofs.**  `RepliesReadAsWritten` (`ReadAsWritten`) from `WireInv`: once
read, the reply is what `parse_response` makes of the written messages, and what is
taken is what the exchange makes of that.  The work is in the operators.  The brace
counter in the middle of a body is as deep as two plus the depth of the part read
(`ScanBody`), so a balanced body leaves it where it was and the block ends at its
own brace (`ScanWrapped`); block by block it collects what was written (`ScanWire`).
What becomes a message is what was a block, whatever words its body holds
(`ReplyWhole`): the head of a block has no brace, so the first brace behind a space is
the body's own (`BlockRead`), its last mark is the closing one, and
a number at its front is the network's, since no station is called like one.  For
the other half, the counter's depth is that of the text as long as nothing stood
outside of the blocks (`ScanCounts`), so a reply that ends at another depth than it
began with fails as a whole (`ReplyFails`).

`StripsFitPaper` (`LayoutFits`) from `LayoutInv`: a strip is laid out from a message,
with all letters and within the columns, or from tickets, with their sections.
Wrapping keeps, token by token, rows within the columns and the letters of what was
placed (`PlaceKeeps`, `FilledKeeps`): cutting a long word in rows keeps its letters
(`ChunksKeep`), stripping a row loses blanks only.  Columns times glyph is below the
paper's dots by the division that made them (`ColumnsFit`).  Tickets are taken apart
into pieces that do or do not begin and end with a divider, which tells
where two may meet (`StripJoin`).

`StationAlwaysPolled` from `StationInv`: a command that means to stop runs only with
the mode off (`CommandInv`; a thread can turn the mode off but never on), and the
stop flag is set only while joining or when the service has no thread (`ThreadInv`),
so a stuck thread that survives its stop is never the service's. A thread that a
database error ended counts as its own case (`Halted`). `AtMostOneReply` from
`StripsInv`: a strip puts its request among the finished ones, which are never
continued.

**DesktopProofs.**  `WeatherOncePerPlan` from `WeatherInv`: only the holder of the
tick lock is at work, on a plan not yet marked, and an unmarked plan has one strip
per pulse that raised, and one more only in the hands of the pulse about to mark it.
`AnswersMatch` from `ShellInv`:
while a caller holds the mutex its command is in exactly one place (written,
handled, answered), and without one both pipes are empty (`OneOnItsWay`).
`EventsAreAccounted` adds `EventsInv`, which follows an event from the deque through
the pipe.  `SoundInstalls` from `UpdateInv`: what is
staged is of a verified download and later than the EXE in place (`Stageable`), and
half of a copy meets a helper only if it was begun under one (`over`); whichever
helper takes it, the staged file is gone with it.  `OneUnlessRaced` from `LockInv`:
without a race at most one process is alive, and the file holds its pid.
`SettingsComeBack` (`ShownComesBack`): what a setting shows is a value its limits
leave as it is (`Good`), wherever it was read from (`ReadGood`, `PresetGood`,
`BuiltinGood`, `FitGood` setting kind by setting kind), and such a value survives
the setter, the getter (`GoodBack`) and the rule of a profile (`SanitizedGood`);
`SettingsInv` keeps the table and the profiles to such values.

**SequenceLemmas.**  The library's induction theorems take an operator the provers
cannot instantiate, and unfolding a recursive function proves nothing of it until it
is known to exist.  Here a set stands for the predicate.  A set of numbers that has
one has a least (`HasLeast`), by the well-foundedness of finite sets under inclusion,
applied to the sets 0 .. n; hence induction up to n (`UpTo`) and along a sequence
(`ByAppending`); hence a recursive function over 0 .. n exists (`FoldExists`) and
there is one (`FoldsAgree`).  `FlatIs` applies that to `FlattenSeq`, and `EachConcat`
says that replacing each element by a sequence may be done part by part.  `HasLeast`
also gives the first field of a form and the nearest choice of a setting.

Only model-checked: every liveness property (`JobsFinish`, `HazardShutsGate`,
`LockEnds`, `OfpIsHandled`, `DueIsTried`, `WorkersFinish`, `PolledIsStored`,
`WxIsPrinted`, `SampleFollowsSim`), which is out of the prover's reach.
`PrintsInOrder` says which strip comes before which, and not what a filtered
sequence is: `SelectSeq` has a definition the provers do not unfold.

## 5. Plan

Built, in this order: the gate; the watcher; store, printing and inbox; the tap
and its vault; station and requests; monitors; weather, updater, shell and lock
file; settings; the way of a message (flows, forms, replies, layout); proofs of
the gate's types and holds, the tap, station, flows, weather, shell, updater and
lock file; then of the gate's jobs, order and refinement, the watcher, printing,
the inbox, forms and settings; last of the replies and the layout, with the
inductions they need.

Left:

1. A composition of watcher and gate, for the final that is marked printed when
   the gate has merely queued it: a restart loses it.  The two modules together
   have too many states for a run of minutes; the watcher needs a smaller
   abstract form first.
2. The companion's print button and forms, the auto-print switch and the
   suppression of repeated replies; the printer's own retries.
3. Ending the lock file's owner by force, and the public feeds' caches.

## 6. Not modelled

* ATIS feeds: fetching and picking text; found, not found and failed are inputs
  of `OutboundRequests` and `AutoWeather`.
* Sniffer and hosts file: parsing of captured packets, and one edit that removes
  old entries.
* Printer discovery, certificates, native libraries (SimConnect's binding, the
  WinDivert driver, printer drivers): they enter as success or failure.
* The legacy Qt window: a second front end whose tick calls the components
  modelled here.  The web pages: they show what they were last given.
* The command line and launchers: thin entry points.
* Text: wording of strips and errors, SimBrief's and CPDLC's fields, glyphs, QR
  codes.  A message is what its properties tell apart.
* In modelled components: the watcher's switch that turns the final ticket off
  (it has the effect of a Fenix), status lines, message numbers, text settings and
  the encrypted logon.  `PROJECT.json` names them per component.
