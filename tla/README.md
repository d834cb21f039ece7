# clackd in TLA+

clackd is a daemon that remaps QMK/VIA and GMK67-family keyboards over hidraw and serves
D-Bus clients; clackctl is its command-line client. This directory holds TLA+ models of
both, the TLC configurations that check them, and TLAPS proofs. Paths below are relative to
the repository; `engine` is `src/engine/mod.rs`, `via` is `src/hal/via.rs`, `gmk67` is
`src/hal/legacy/gmk67.rs`, `shadow` is `src/hal/legacy/mod.rs`, `main` is `src/main.rs` and
`ctl` is `src/bin/clackctl/main.rs`.

## 1. The system

| Part | State it keeps | Operations | Modelled in |
|---|---|---|---|
| Supervisor (`engine`) | registry: device to worker handle, device to reconnect token and cancel handle, token counter | one arm of `handle_command` per `EngineCommand`, `attach_device`, `start_reconnect_backoff`, eviction on a failed `try_send` | `Engine`; as single steps in `Daemon` |
| Device worker (`engine`) | its op queue, `commit_deadline`, the boxed driver | one driver call per op, debounced commit, flush on close, `DeviceError` on a fatal error | `Engine`, `ViaSession` |
| Reconnect task (`engine`) | device, token, attempts, a freshly attached handle | back-off, cancel, attach, hand over, give up | `Engine` |
| Boot, udev pump, shutdown (`main`) | scanned commands, the monitor's socket | IPC wait, initial scan, seeding, monitor, event to command, `Shutdown`, abort and join | `Daemon`; the pump also in `Engine` |
| Driver table (`main`) | the entries of `devices.toml`, the coalescing interval | backend of a vendor and product | `Daemon` |
| Descriptor probes (`via`, `gmk67`) | none | which hidraw node is the control interface | `HidDescriptor`, used by `Daemon` |
| D-Bus frontend (`src/ipc/frontend.rs`) | a reply receiver per call | a command per method | `Clackctl`; callers of `Engine` |
| IPC task and signal pump (`src/ipc/mod.rs`) | bounded broadcast receiver | lifecycle event to signal; a lag; a closed channel | `Daemon` |
| VIA driver (`via`) | Direct: transport and touched channels; Coalesced: write buffer, flush deadline, touched channels in an actor | the `KeyboardDriver` calls, auto-flush, final flush and save | `ViaSession`; its values in `Clackctl` |
| VIA transport (`via`) | the hidraw node, a timeout | write a report, read a report, check the echo | `ViaRoundtrip` |
| GMK67 driver (`gmk67`) | shadow, lighting | read-back, edits, multi-frame transactions, abort | `Gmk67`; its encodings in `Gmk67Frames` |
| Shadow (`shadow`) | keymap, confirmed keymap, dirty positions, status; a JSON file | load, edit, prepare/confirm/rollback, adopt, save | `Gmk67` |
| Topology (`src/engine/topology.rs`) | static bounds | `contains` | `Clackctl`; a request kind of `Engine` |
| `clackctl` | none between runs | resolve a device name, then one D-Bus call or several | `Clackctl` |

Tasks meet only through channels. Callers, the pump, workers and reconnect tasks send
`EngineCommand`s into one bounded channel that the supervisor drains; the supervisor sends
into each worker's bounded queue with `try_send`; a worker calls its driver, which for a
coalesced VIA keyboard relays to an actor and awaits the reply. Lifecycle events go through
a bounded broadcast channel that forgets its oldest entry. A channel closes when its
receiver, or the last of its senders, is dropped, and much of the design rests on that:
evicting a registry entry is what ends a worker, and a worker's end is what ends its actor.

What is hard here: a command and the state it was sent about drift apart while it waits in
the channel; handles travel in messages; recovery is raced by unplugging, replugging and
shutdown; a hidraw id names another keyboard a moment later; the coalescer answers reads
while half a flush has failed; responses outlive their timeouts; a keyboard commit is many
frames with no undo; values cross three scales on their way to a board. PROJECT.json lists
each of these as a hazard at its line, with the properties that cover it.

## 2. The modules

* **`Engine`**: supervisor, workers, reconnect tasks and channels. An action is what a task
  does between two awaits; the three awaits of a reconnect task, the supervisor's await in
  `attach_device` and a worker's await for room in the channel are states of their own.
  A handle is the number of its worker, and `Held(w)` says whether some sender of its
  channel still exists: in the registry, in a travelling `DeviceReattached`, or in the task
  about to send it. A driver call has three outcomes (`ok`, a retriable error, a fatal one),
  the split `is_fatal_driver_error` makes. `announced` is the last lifecycle event.
* **`Daemon`**: the whole process around the engine, which is reduced to single steps
  (attach, fail, retry, evict, write, commit, end a session). In full are: what main does
  from the IPC wait to its exit, the kernel's nodes and the monitor's socket, the driver
  table and the probes, the engine channel, the broadcast channel and the signal pump.
  An `Add` is handled by sysfs attributes read when the pump gets to it, so they may be of
  another device (`Attributes`). Four histories say what may excuse a stale registry or a
  misled client: `unwatched` (the node changed between scan and monitor), `failed` (given
  up), `skipped` (its last event was lost) and `silent` (evicted without an event).
* **`HidDescriptor`**: the two walkers over the bytes of a report descriptor. `Daemon` takes
  `Passing` from the walkers over the encoded items of each interface, and its property
  says the same of the items themselves.
* **`ViaSession`**: one attached VIA keyboard from the worker's loop to the firmware, in both
  modes. A round-trip is a step; flushing and saving take one step per entry, so failures,
  unplugging and calls fall between any two. The worker awaits each reply, so at most one
  call is in flight, which is why the actor's queue needs no model of its own. A request
  that timed out may have taken effect (`Lands`).
* **`DurableKeymap`**: the abstract specification `ViaSession` implements: a keymap that
  answers one call at a time, of which a possibly older part is stored in the keyboard. The
  refinement maps its keymap to the buffer laid over the firmware, and its store to the
  firmware.
* **`ViaRoundtrip`**: below `ViaSession`: requests and responses as reports in queues, so a
  response can be late or lost. `ViaSession` takes a round-trip as atomic and its answer as
  its own; `ViaRoundtrip` shows how far that is true.
* **`Gmk67`**: the GMK67 driver over shadow, board and JSON file. Every feature report is a
  step, so it may fail, and the daemon may die, at each. The last frame of a call, its save
  and its answer are steps of their own (`Persist` or `ConfirmCommit`, then `Answer`), so a
  crash may fall between any two. A save may fail and nobody is told; a load may fail too, by
  an unreadable or malformed file, and then the session starts fresh beside it. A key is a
  layer and a page of its key-definition area, since pages are what a partial commit can tear.
* **`Gmk67Frames`**: the pure functions of that driver: the 0..255 and 0..15 scales, hue and
  saturation against RGB, the packed payload, `lighting_with_via_value`, and the
  key-definition area with the EK68's index table.
* **`Clackctl`**: a user, clackctl, the D-Bus methods it calls and two boards, over the
  values that are really sent. Ids are numbered in the order the engine sorts them, that of
  strings. Every command resolves its name anew; every D-Bus call is a step through the
  engine's checks and the driver to what the board then holds. `live` is what reads return,
  `saved` what a replug leaves: for the EK68 its shadow file, which every lighting call and
  every commit writes whole, uncommitted keys included, unless the save fails. `area` is what
  the EK68's key-definition areas hold, up to the page where a failed commit stopped;
  the read-back of an attach adopts it. `confirmed` and `dirty` are the shadow's. `last`,
  `committed` and `kept` note the acknowledged writes: of all fields, of keys up to the last
  commit, and of what surely survives a replug. A note is dropped where the code promises
  nothing: a key whose uncommitted edit a lighting save or a failed commit may have left in
  the file or on the board, and whatever a failed save or load may have lost.

`EngineProofs` (the registry), `EngineChannelsProofs` (handles and calls in the channels),
`DaemonProofs`, `ViaSessionProofs`, `ViaRoundtripProofs`, `Gmk67Proofs`, `Gmk67FramesProofs` and
`ClackctlProofs` hold the proofs. The `MC*` modules only extend a module and define model
values, inputs and symmetry sets; `MCDaemon` also assumes, for TLC to evaluate, the closed
formula that is a hypothesis of a theorem (section 4). Where a comment says
"seeded fault", the definition after it is a plausible bug in the definition that follows;
nothing uses it in the specifications: PROJECT.json lists it as a mutant that a property must
catch.

## 3. What is checked

| Run | Question and answer |
|---|---|
| `engine_safety` | One device, two callers, lost udev events, panics, a full queue, up to four reconnections cancelled and superseded at every point, shutdown: registry maps stay disjoint, nothing unplugged comes back, what is served was announced, each call is pending in exactly one place, no worker is replaced silently, at most one worker can come to serve a device and a handle on its way is fresh. Holds. |
| `engine_liveness` | With panics, and reconnections that fail, back off again and are cancelled at any attempt: calls are answered, failed workers evicted, orphans and reconnections end, shutdown ends all workers. Holds. |
| `engine_stale_error` | Does `DeviceError` evict only the worker that failed? Violated. |
| `engine_lost_recovery` | Does a failed worker lead to a reconnection? Violated. |
| `daemon` | From boot to exit, with hot-plug, late attributes, reused nodes, retries, a lagging pump and an exit at any point: the registry follows the bus (`RegistryTracksBus`), clients that follow the signals follow the registry (`SignalsTell`), main's exit cuts nothing short but sessions already closing, boot and exit end. Holds, outside the four histories. |
| `via_session` | Both modes implement `DurableKeymap`; commits save lighting; a clean end drains everything; writes lose their deadline only to a failed commit; a buffered write reaches the firmware and is announced; a closed session ends on a dead keyboard too. Holds. |
| `via_stranded` | Do buffered writes always have a deadline? Violated. |
| `via_late_frames` | With late responses, a read is still of its own key, and a stale one takes at least three (key) or two (lighting) timeouts. Holds, and the numbers are tight. |
| `via_desync` | Is an answer always that of its own request? Violated. |
| `gmk67_safety` | Shadow, board and file through failed frames, crashes, failed saves and loads, and read-backs: bookkeeping, confined drift, no lost commit or lighting while saves and loads succeed, whole read-backs, no board left in customization mode. Holds. |
| `gmk67_stale` | Does `get_keycode` never return stale state? Violated. |
| `clackctl` | A list, commands by id and by index, keyboards that come and go, refused and half-failed writes, commits that stop after any page, failed saves and loads: every field reads as it was last written, through scales, colours, frames and commits, and after a replug as the last write that surely survives it (`LastWriteHolds`); a write stays in its field and in the macro buffer; a command reaches the keyboard its user saw unless one that matters to the name moved (`NamedIsReached`). Holds. |

### Findings with a run

1. **Lost recovery** (`engine:518` with `:747`). A request queued ahead of the worker's
   `DeviceError` finds the channel closed and removes the entry without `DeviceRemoved`. The
   error then finds no entry: no signal, no reconnection, contrary to the README.
2. **Stale error** (`engine:517`). `DeviceError` names the device, not the worker, so a late
   one evicts the healthy worker of a replugged keyboard.
3. **Stranded writes** (`via:724`). The `Flush` arm clears the deadline even when the flush
   failed; the auto-flush arm below it re-arms the deadline and says why it must.
4. **Desynchronised reports** (`via:316`). A timeout between write and read leaves a response
   in the node's queue, which the next request that echoes alike accepts. `set_lighting`
   accepts anything. From then on every answer may be one request old.
5. **Stale after rollback** (`shadow:333`). Rollback restores the shadow but not the pages a
   failed commit already wrote, and the layer is clean, so nothing pushes them again.

### Disagreements met while modelling, without a run

The models follow the code in each of these.

* The production factory (`main:327`) gives the coalescer no sender, so an auto-flush emits
  none of the `LayoutUpdated` that `via:633-636` promises; the worker's debounced commit
  emits it later, which `WriteIsAnnounced` checks with `HasEvents = FALSE`.
* `persist_lighting` (`shadow:283`) writes uncommitted edits to the file, which the next
  start loads as confirmed and clean, so they are reported and never pushed; `DriftConfined`
  names these layers, and `LastWriteHolds` says nothing of these keys after a replug.
* A shadow file that cannot be read or parsed is taken for an empty one (`shadow:173-193`):
  the session starts with no remaps and default lighting, whatever the board has, and its
  next save overwrites the file. A failed save is logged and swallowed (`shadow:386-402`), so
  a commit or a lighting call is acknowledged that a restart will not show.
  `CommittedSurvives` and `LightingSurvives` hold while neither happens; `DriftConfined`
  covers both.
* With `sync_on_attach` a replug adopts whatever pages a failed commit left on the board
  (`gmk67:1016-1029`), so edits that were reported as rolled back come back.
* `main:197-203` speaks of rows and columns in `devices.toml`, which the factories ignore:
  every board gets 16 by 16. A VIA cell beyond the firmware's matrix is acknowledged and
  lost; `LastWriteHolds` leaves these cells out and says so.
* `driver = "epomaker"` with `sync_on_attach` never enables the read-back, and the setting
  is one for all keyboards (`main:229-240`).
* `READY=1` is sent although the IPC server failed or timed out (`main:97-107`).
* `src/engine/messages.rs:241` has `Shutdown` close all workers gracefully; main awaits the
  supervisor but no worker, so a final commit may be cut short. `ExitOnlyCutsClosing` is
  what remains true.
* The frontend documents a `device_removed` signal for every loss; an eviction after a
  failed `try_send` emits none (`silent`).
* `engine:84-89` has subscribers republish the full state on a lag; the pump only logs it.
  `SignalsTell` shows when a client is misled nevertheless: only when the last event of a
  device was itself lost.
* `src/hal/mod.rs:149` translates `ErrorKind::NotFound` ("ENODEV") into `Disconnected`; the
  standard library maps neither ENODEV nor a hidraw node's EIO to that kind, so
  `classify_io_error` (`via:1116`) answers the non-fatal `Io`, and the worker of an unplugged
  VIA keyboard is retired by the udev removal only.
* A worker reports every fatal error, `PermissionDenied` too, as `Disconnected`
  (`engine:967-975`).
* VIA `set_lighting` is acknowledged for a channel the firmware does not have, and from then
  on every commit of the session fails at that channel (`CommitVia`).
* A GMK67 board takes effect 128, its internal code for off, and reads it back as 0.
* clackctl's comment on colours (`ctl:893-896`) omits that a dark colour loses its value
  and that a hue drifts: `Rendered` bounds the drift by 12 of 255 in each colour channel.
* An exact id that is not attached falls back to an index or to a part of another id, so
  "hidraw1" may reach "hidraw10"; the `mind` of `NamedIsReached` has the moves this needs.
* `keymap` and `lighting show` are many calls to one id, so on a reused id one listing may
  mix two boards.

### Bounds

**Engine.** Capacities are 2 (engine) and 1 (worker): the smallest at which a command waits
behind another and a queue overflows. Two workers and two to four reconnect tasks allow a
failure, a reattachment and a failure of the reattached worker; four tasks are what a reused
token would need to show (two overlapping reconnections while two workers may still fail).
`SpareTask` bounds failed attaches so that the task bound never blocks an error report: it
limits how often an attach fails, not what follows. Reconnections are given up after
`MaxAttempts`, two in `engine_liveness` and in both violation runs, so a transient failure is
followed by a second back-off that may be cancelled, succeed or be the last. `engine_safety`
has one attempt but four tasks, its invariants being proved for any number of attempts.
`engine_liveness` has one caller and an unbuffered driver: that a full worker queue loses no
call is `PendingOnce`'s, in the safety run, and that a worker ends whose debounced commit
fails at its close is `SessionEnds`', in `ViaSession`. One device, since devices share only
the channel and the supervisor; the registry invariants are proved for any set. Each request
kind stands for a way the supervisor or the worker treats one: `set` arms the debounce, `call`
does not, `oob` is answered without a worker, as `info` is.

**Daemon.** Two nodes, of which one moves twice: a node reused by another keyboard, and a
removal and an arrival both queued before the pump handles either. Four interfaces: a VIA
control interface, the boot interface of the same keyboard, a GMK67 vendor interface and a
Bluetooth keyboard without USB parent; one descriptor has data that look like a prefix to a
walker out of step. Capacities of 1 (engine) and 2 (broadcast) let main and the pump wait
for room and the signal pump lag behind a pair of events; one fault is a failed scan,
monitor, open, call, connection or emission.

**VIA.** `via_session` has two keys, two channels and three calls, the length of write,
write, commit; two failures are a failed flush and a failed retry. In `via_late_frames` three
timeouts are what the smallest stale keycode read needs, so the bound is where the property
is tight.

**GMK67.** Two layers, as the board has, and two pages, the fewest that can tear; two session
ends give a crash and a restart that crashes in its read-back. Two frames or loads may fail,
and any save.

**Clackctl.** An EK68 and a VIA board; two ids, one a part of the other; one name by id and
one by index; three of sixteen command lines, chosen to hit each refusal and each driver
path once (percent and raw levels, an effect the GMK67 lacks, a truncated payload, cells
outside either matrix, a macro one byte too long); two moves, so that two ids can trade
places; one failure, of a call, a commit, a save or a load. `ClackctlAssumption` has at most
one GMK67 board, since two share a file. One user: users share nothing but the boards.

TLC's deadlock checking is off in all runs since every one really stops: after `Shutdown`,
at a session's end, or when its bounded calls are made.

### Fairness

`Engine`: every task is scheduled (weak fairness per task; a driver call ends since each
hidraw round-trip has a timeout), and a send that waits for room gets strong fairness since
tokio's bounded channel queues its senders first come first served. `ViaSession`: the tasks
and the flush timer are weakly fair. A waiting call and the closed channel are strongly
fair: on a dead keyboard the timer fires for ever, but each failure re-arms it one interval
ahead, and in between `select!` has nothing but the call to take. `Daemon`: main and the
supervisor are weakly fair, all that `MainNeverHangs` needs: the IPC wait has a timeout, and
the supervisor drains the channel. Nothing is assumed of keyboards, callers or signals.

## 4. What is proved

Everything here holds for all values of the constants, from the named `ASSUME`s of the
component modules. The inductive invariants were checked with TLC on the runs' instances
before they were proved. One theorem has a hypothesis besides, `ProbesTell`, a constant formula
that TLC evaluates.

`EngineProofs`:

* `TypeCorrect`: `Spec => []TypeOK`, channel capacities included.
* `OneRoleHolds`: a device is served, being reconnected or being attached, never two of them.
* `NoGhostDeviceHolds`: nothing is served or reconnected after its last command was a removal.
* `ServedIsAnnouncedHolds`: the last announcement of what is served was `DeviceAdded`. Nothing
  is claimed of evictions, of which the one on a closed channel announces nothing.
* `NoSilentReplacementHolds`: no step replaces a registered worker by another.

They follow from the inductive invariant `RegistryInv == TypeOK /\ SpawnedOK /\ OneRole /\
NoGhostDevice` (`RegistryCorrect`). `SpawnedOK` is needed because records allow what the Rust
types do not, a running task without a device. `OneRole` and `NoGhostDevice` need each other:
the honoured token in `DeviceReattached` shows the device is being reconnected, hence present
and not served. The action property follows from the invariant in each step: an attach ends
only for a device that `OneRole` says is not served, and a reattachment only under a current
token.

`EngineChannelsProofs`, about what travels between the tasks of `Engine`:

* `OneCandidateHolds`: at most one worker can come to serve a device, however many
  reconnections, cancellations and replugs overlap.
* `FreshHandlesHolds`: a handle on its way is of a worker that has done nothing yet.
* `PendingOnceHolds`: a client waits exactly while its call is in one place, the engine
  channel or one worker's queue.

The first two follow from `HandleInv == TokensUnique /\ HandlesFresh /\ HeldOnce`
(`HandlesCorrect`). `TokensUnique` says a token is handed out once and is its running task's or
its message's; with it, the token the registry honours names one attempt. `HandlesFresh` is
needed so that a reattached worker cannot already have failed, `HeldOnce` so that registering
one handle leaves no second on its way. Both lean on `RegistryInv`. `PendingOnce` is
`CallsInv == QueuesBounded /\ CallsAwaited /\ CallsOnce /\ CallsKept` (`CallsCorrect`): what
waits is awaited, nobody has two calls, who waits has one. A worker that ends drops its queue,
whose callers are then answered by the dropped reply sender; `QueuesBounded` says that an ended
worker has no queue left, without which the rest would not be inductive.

`DaemonProofs`, for any nodes, interfaces, driver table and channel capacities:

* `TypeCorrect`: `Spec => []TypeOK`; the engine channel and the broadcast channel keep to
  their capacities, and the pump and the scan send only commands for real nodes and ids.
* `ExitOnlyCutsClosingHolds`: when main has exited nothing is served. The invariant
  `ExitShape` adds that a stopped supervisor serves nothing and that main exits after it.
* `SignalsTellHolds`: a client that follows the signals ends with the registry's view.
  `SignalsTell` is inductive beside `TypeOK`; what has to be shown is what publishing into a
  full channel and emitting do to the last unread event of each device (`PublishTells`,
  `PumpTells`): they change no other device's, unless the loss is noted in `skipped`.

* `RegistryTracksBusHolds`: once every event is handled the registry serves exactly the
  control interfaces on the bus, under the ids they have now. Its hypothesis `ProbesTell`
  (each probe passes exactly the interfaces whose descriptor declares what it looks for) is
  evaluated by TLC on the interfaces of `MCDaemon`, and the walkers behind it on every
  descriptor of up to four items (`WalkersTell`).

The last rests on `RegistryInv == BootShape /\ (Tracking => every watched node is Tracked)`. A
removal makes obsolete whatever stands before it in a queue, so an event or a command is
*fresh* when no removal of its node follows it. `Tracked` then says three things, each needed
for the others: what is fresh is of the interface on the bus (`Current`); a session or a
reconnection with no removal on its way is of the interface on the bus (`Settled`); a control
interface on the bus is seeded, fresh in a queue, served, being retried, or noted in `failed`
or `silent` (`Expected`). `BootShape` keeps the queues empty before the scan and the seeds
`Connected`. With empty queues, `Tracked` is `RegistryTracksBus`.

`BoundAssumption` and `NoneAssumption` state what the proofs need of the bounds and of `None`.

`ViaSessionProofs`:

* `TypeCorrect`: `Spec => []TypeOK`.
* `SessionKeepsPromise`: `Spec => KeepsPromise`, the refinement of `DurableKeymap`.
* `OnlyCommitsStrand`: buffered writes lose their deadline only to a failed commit.
* `CommitSavesAll`: an acknowledged commit has saved all lighting.
* `CleanExitDrainsHolds`: a session that ends with the keyboard there and no failed
  round-trip leaves no buffered write and no unsaved coalesced lighting.

The invariant `SessionInv == TypeOK /\ CallShape /\ CommitShape` (`SessionCorrect`) says
what a call's target is, that a direct driver never buffers, that a commit at work has a
caller awaiting it, and that its save begins with an empty buffer. The last is why a commit
may be acknowledged: `SaveDone` maps to the abstract `Commit`, which asks that the keyboard
stores the whole keymap. A flushed entry maps to `Store`, or to a failing `Commit` when its
caller is told; an auto-flush that starts, ends or fails is a stutter. `OnlyCommitsStrand`
adds that only commits and closes save, `CommitSavesAll` that an untouched channel has an
admissible value saved. `CleanExitDrainsHolds` adds `DrainShape`: without a fault, a
coalescer in its last save has an empty buffer and one that has ended has nothing left to save
either. A wrong outcome counts as a fault or means the keyboard is gone (`WrongIsCounted`).

`ViaRoundtripProofs`, for any targets, values and number of timeouts:

* `TypeCorrect`: `Spec => []TypeOK`.
* `ReadIsOfItsTargetHolds`: an accepted read returns a value its own key or light has had.
* `FreshUnlessManyTimeoutsHolds`: a read that returns an older value than the acknowledged one
  takes three timeouts for a key, two for a light.

The invariant `RoundtripInv` (`RoundtripCorrect`) is about positions in the two queues. Every
round-trip that did not time out took one report out of them, so a report left there has at
most as many requests after it and reports before it as there were timeouts, or one more while
a round-trip is in progress (`Window`). A stale answer to a key must echo alike, so between it
and the read there must be an acknowledged write that itself accepted a late answer: `Window`
counts the timeouts this takes (`KeysAcked`, `LightsAcked`). The number is three and not two
since a read made right after a write still sees it, also when it is answered late
(`GetAfterSet`).

`Gmk67Proofs`, for any number of layers and pages, frames that fail or land late, crashes,
failed saves and failed loads:

* `TypeCorrect`: `Spec => []TypeOK`.
* `ShadowConsistentHolds`, `DriftConfinedHolds`, `CommittedSurvivesHolds`,
  `LightingSurvivesHolds`, `LeavesCustomizationHolds`: the five safety invariants of the run.
* `ReadBackWholeHolds`: a read-back changes the shadow only to what the whole board holds.

`DriverCorrect` proves `DriverInv == TypeOK /\ FrameShape /\ ShadowConsistent /\
CommitProgress /\ TargetOnBoard /\ FileOnBoard`. `FrameShape` keeps the frame counter within
its transaction. `CommitProgress` says which pages of which layers a commit at work has
already pushed, so that at its last frame the board holds what the shadow does.
`TargetOnBoard` says the rollback target equals the board outside the layers that are tainted
or being pushed, without which a rollback could not confine the drift; `FileOnBoard` says the
same of the file outside the layers noted in `fileTainted`, without which a restart could not. `DriftConfined` is the idle case.
`CommittedSurvives` needs in addition that edits are numbered upwards (`Numbered`), so a page
of a failed commit is never older than the acknowledged one; `LeavesCustomization` needs
`CustomShape`, which says at which frames of a transaction the board is in customization mode.

`Gmk67FramesProofs`, about every input and every index table that meets `KeyIndexAssumption`
(indices within the area, no index twice):

* `KeymapRoundTrip`: reading back a written area gives the keymap of the keys the area has,
  so the read-back of `sync_on_attach` is the inverse of a commit. From `EntryCarries` (an
  entry belongs to one cell, by injectivity) and `EntryWritten` (the footer overwrites none).
* `LevelRoundTrip`, `LevelWithinHalfAStep`, `LevelsKeepOrder`: the board's 16 levels survive
  VIA's scale and back, a level comes back within half a step, and order is kept.
* `ColourIsBytes`, `SaturationRoundTrip`, `PackedRoundTrip`: colours are bytes, saturation
  comes back exactly, a payload is the inverse of its encoding.
* `ColourComesBackClose`: a hue drifts, but a colour read back and shown again is within 12 of
  255 of what was asked for, in each channel. A colour is a place on a wheel of six sixths
  (`Wheel`); its hue is a step of its sixth, some of them one off (`HueOf`), which moves its
  middle channel little (`StepsAreClose`); where the hue leaves the sixth the colour is next to
  the border on both sides (`NearAtBorder`).
* `AcceptedIsRenderable`, `OtherValuesKept`, `WrittenIsRead`, `ReadIsShown`: what
  `set_lighting` accepts the board can render; a value changes no other; a value reads back
  as its rounding; what is read and written again changes nothing the board shows.

`ClackctlProofs`, for any boards, names, cells, macro sizes and command lines:

* `TypeCorrect`: `Spec => []TypeOK`.
* `NamedIsReachedHolds`: a command reaches the keyboard its user saw unless one that matters to
  the name came or went.
* `WritesStayInTheirFieldHolds`: a call changes the field it writes and no other.
* `LastWritesHold`: every field reads as its last acknowledged write (`last`), where a failed
  commit takes keys back to `committed` and a replug every field to `kept`.

`TypeInv` types the boards, the notes and the user's side. That no board holds a key outside
its area and no payload leaves its bytes comes from the drivers' refusals, applied to what
clackctl's parsers let through (`CommandsAssumption`: `parse_level`, `parse_u8`, `parse_u16`,
`parse_hex_bytes`; `NamesAssumption`: an id is not spelt like a line number, `resolve_device`).
`NamesInv` says that while nothing that matters to a name moved, the name resolves to what the
list showed (`NameKept`). For an index this is counting: the line of an id is the number of
ids below it, no two ids share a line (`LineIs`), and moves above it do not change it
(`SameLine`). `LastInv` has for every board that
`last` holds of `live`, `kept` of `saved` and, on an EK68, `committed` of `confirmed`. A
read-back takes keys from the board and not from the file, so the keys of `kept` must hold of
`area` too; and what `kept` says of cells without pending edits must hold of `live` and
`confirmed`, or a lighting save would break it. On a VIA board keys and macros are the same in
`live` and `saved`. What the scales and colours do
to a value comes from `Gmk67FramesProofs`.

Model-checked only: liveness, which is out of the prover's reach as `ENABLED` is; and the
walkers of `HidDescriptor` with its encoding, recursions over data that need an induction over
data. Every safety invariant and
every action property of the passing runs has its theorem.

## 5. What is not modelled

* Frame layouts other than those in `Gmk67Frames`, the poll loop below a VIA timeout, chunks
  of the macro buffer as frames.
* Timers: delays are only known to end. The length of a debounce or of a back-off matters to
  none of the properties.
* A `spawn_blocking` ioctl that outlives its timeout is a frame that may have landed; that it
  lands after a later frame is not modelled.
* Two overlapping sessions of one keyboard after a quick replug (`via:763`), and two boards
  of one kind sharing one shadow file (`gmk67:607`): listed as hazards without a property.
* TOML syntax, keycode names, hex and other parsing; D-Bus argument types and error names;
  identity getters, which return constants; clackctl's `info`, `keys`, `effects` and
  `monitor`; formatting and logging.
* Packaging: build files, units and documents.

## 6. Plan

1. `Engine`, `ViaSession`, `ViaRoundtrip`, `Gmk67`; proofs of the registry and of the session
   (done).
2. Boot, monitor, exit and signal pump (`Daemon`), probes (`HidDescriptor`), encodings and
   their proofs (`Gmk67Frames`), `clackctl` through to the boards (`Clackctl`) (done).
3. Proofs of `Gmk67`, of `CleanExitDrains`, of `Daemon`'s types, exit and signals (done).
4. Proofs of handles and calls in flight, of `RegistryTracksBus`, of `ViaRoundtrip` and of
   `Clackctl` (done).
5. Two overlapping sessions of one keyboard; an abstract device life cycle that `Engine`
   implements.
