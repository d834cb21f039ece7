-------------------------------- MODULE Daemon --------------------------------
(***************************************************************************)
(* The clackd process around the engine (src/src/main.rs, src/src/ipc):    *)
(* boot, the initial scan and the live udev monitor, the driver table and  *)
(* the probe of a node's report descriptor, the signal pump behind the     *)
(* bounded broadcast channel, and the orderly exit.                        *)
(*                                                                         *)
(*   kernel -> udevQ -> pump --\                     /-> worker sessions   *)
(*   scan -> seeds -> main ------> engineQ -> supervisor -> events -> IPC  *)
(*                                                                         *)
(* The engine is the abstraction Engine refines in detail: requests,       *)
(* failures and retries are single steps here, and only the commands main  *)
(* and the pump send pass through the bounded channel.                     *)
(***************************************************************************)
EXTENDS HidDescriptor, FiniteSets

CONSTANTS
  Node,          \* hidraw nodes, which name the devices
  Interface,     \* HID interfaces that may appear on a node
  UsbOf,         \* the USB vendor and product of an interface, or NoUsb
  ItemsOf,       \* the items of its report descriptor
  NoUsb,         \* no USB parent: Bluetooth and virtual nodes
  Absent,        \* nothing on the node
  None,          \* no session, no reconnection
  Entries,       \* devices.toml in order: [usb, driver]; empty if absent or malformed
  CoalesceMs,    \* CLACKD_VIA_COALESCE_MS; 0 if unset or malformed
  EngineCap,     \* ENGINE_CHANNEL_CAPACITY
  BroadcastCap,  \* LIFECYCLE_CHANNEL_CAPACITY
  UdevCap,       \* bound: udev events the monitor holds
  AtBoot,        \* bound: what the nodes hold when the daemon starts
  Movable,       \* bound: nodes plugged or unplugged later
  MaxMoves,      \* bound: times a node is plugged or unplugged
  MaxFaults      \* bound: failed calls, opens and emissions

ASSUME InterfacesAssumption ==
  /\ Interface \subseteq DOMAIN UsbOf
  /\ Interface \subseteq DOMAIN ItemsOf
  /\ Absent \notin Interface
  /\ AtBoot \subseteq [Node -> Interface \cup {Absent}]
  /\ Movable \subseteq Node
ASSUME NoneAssumption ==
  /\ None \notin {UsbOf[x] : x \in Interface}
  /\ None \notin [iface : Interface, usb : {UsbOf[x] : x \in Interface},
                  dirty : BOOLEAN, alive : BOOLEAN]
ASSUME CapacityAssumption ==
  /\ CoalesceMs \in Nat
  /\ EngineCap \in Nat \ {0}
  /\ BroadcastCap \in Nat \ {0}
ASSUME BoundAssumption ==
  UdevCap \in Nat /\ MaxMoves \in Nat /\ MaxFaults \in Nat

Usb == {UsbOf[x] : x \in Interface} \ {NoUsb}

-----------------------------------------------------------------------------
(***************************************************************************)
(* Driver selection.                                                       *)
(***************************************************************************)
Backend(driver) == IF driver \in {"gmk67", "epomaker"} THEN "gmk67" ELSE "via"

\* The table keeps the last entry of a vendor and product.
driver_table(usb) ==
  LET named == {k \in DOMAIN Entries : Entries[k].usb = usb} IN
  IF named = {} THEN "via"
  ELSE Backend(Entries[CHOOSE k \in named : \A j \in named : j <= k].driver)

\* A driver holds writes back until a commit: always gmk67, via on request.
Buffers(backend) == backend = "gmk67" \/ CoalesceMs > 0

\* The interfaces whose descriptor passes a backend's attach-time probe.
Passing ==
  [via |-> {x \in Interface :
             hid_descriptor_has_usage_page(Encode(ItemsOf[x]), VIA_USAGE_PAGE)},
   gmk67 |-> {x \in Interface :
             descriptor_has_feature_report(Encode(ItemsOf[x]), FRAME_LEN)}]

-----------------------------------------------------------------------------
VARIABLES
  bus,         \* kernel: the interface on each node, or Absent
  udevQ,       \* events in the monitor's socket
  moves, faults,
  main,        \* where main is
  seeds,       \* scanned commands main has not sent
  engineQ,     \* the EngineCommand channel
  supervisor,  \* "running" or "stopped"
  served,      \* DeviceRegistry.devices: the session behind the handle
  retrying,    \* DeviceRegistry.reconnecting: the usb ids the task attaches with
  closing,     \* sessions whose channel is closed and whose task still runs
  ipc,         \* the IPC task
  events,      \* lifecycle events the signal pump has not received
  lagged,      \* the pump's next receive reports lost events
  signalled,   \* nodes whose last D-Bus signal was DeviceAdded
  unwatched,   \* history: changed between scan and monitor, no removal heard since
  failed,      \* history: attach or reconnection given up
  skipped,     \* history: last DeviceAdded or DeviceRemoved never emitted
  silent       \* history: evicted without an event

kernelVars == <<bus, udevQ, moves, unwatched>>
bootVars == <<main, seeds>>
registryVars == <<served, retrying, closing, failed, silent>>
ipcVars == <<ipc, lagged, signalled>>
vars == <<bus, udevQ, moves, faults, main, seeds, engineQ, supervisor, served,
          retrying, closing, ipc, events, lagged, signalled, unwatched, failed,
          skipped, silent>>

Session == [iface : Interface, usb : Usb, dirty : BOOLEAN, alive : BOOLEAN]
Command == [type : {"Connected"}, node : Node, usb : Usb]
      \cup [type : {"Disconnected"}, node : Node]
      \cup [type : {"Shutdown"}]
Event == [type : {"Added", "Removed", "Layout"}, node : Node]
UdevEvent == [type : {"Add", "Remove"}, node : Node, iface : Interface]

Booting == {"awaitingIpc", "scanning", "seeding", "opening"}
Ended == {"exited", "bootFailed", "killed"}
Up == main \notin Ended
Monitoring == main \in {"running", "stopping"}

Init ==
  /\ bus \in AtBoot
  /\ main = "awaitingIpc" /\ supervisor = "running" /\ ipc = "starting"
  /\ udevQ = <<>> /\ engineQ = <<>> /\ events = <<>>
  /\ moves = 0 /\ faults = 0 /\ lagged = FALSE
  /\ seeds = {} /\ closing = {} /\ signalled = {}
  /\ unwatched = {} /\ failed = {} /\ skipped = {} /\ silent = {}
  /\ served = [n \in Node |-> None]
  /\ retrying = [n \in Node |-> None]

Fault == faults < MaxFaults /\ faults' = faults + 1

-----------------------------------------------------------------------------
(***************************************************************************)
(* Kernel: the monitor hears of a change only while it is open.            *)
(***************************************************************************)
Heard(n, type, iface) ==
  IF Monitoring
  THEN /\ Len(udevQ) < UdevCap
       /\ udevQ' = Append(udevQ, [type |-> type, node |-> n, iface |-> iface])
       /\ unwatched' = IF type = "Remove" THEN unwatched \ {n} ELSE unwatched
  ELSE /\ unwatched' = IF main \in Booting THEN unwatched \cup {n} ELSE unwatched
       /\ UNCHANGED udevQ

Plug(n) ==
  /\ Up /\ moves < MaxMoves
  /\ bus[n] = Absent
  /\ \E x \in Interface : bus' = [bus EXCEPT ![n] = x] /\ Heard(n, "Add", x)
  /\ moves' = moves + 1
  /\ UNCHANGED <<faults, bootVars, engineQ, supervisor, registryVars, ipcVars, events, skipped>>

Unplug(n) ==
  /\ Up /\ moves < MaxMoves
  /\ bus[n] # Absent
  /\ bus' = [bus EXCEPT ![n] = Absent]
  /\ Heard(n, "Remove", bus[n])
  /\ moves' = moves + 1
  /\ UNCHANGED <<faults, bootVars, engineQ, supervisor, registryVars, ipcVars, events, skipped>>

-----------------------------------------------------------------------------
(***************************************************************************)
(* main: boot.                                                             *)
(***************************************************************************)
\* Seeded fault: one permit too many.
RoomForOneMore == supervisor = "running" /\ Len(engineQ) <= EngineCap
Room == supervisor = "running" /\ Len(engineQ) < EngineCap
Goto(pc) == main' = pc
Elsewhere == UNCHANGED <<bus, moves, supervisor, registryVars, signalled>>
eventVars == <<ipc, events, lagged, skipped>>
OnlyMainMoves == UNCHANGED <<faults, udevQ, unwatched, seeds, engineQ, eventVars>> /\ Elsewhere

\* The IPC task reported ready, ended without, or five seconds passed.
IpcAwaited ==
  /\ main = "awaitingIpc"
  /\ Goto("scanning")
  /\ OnlyMainMoves

\* The command of a node, if it has a USB parent.
device_to_connect_command(n, usb) ==
  IF usb = NoUsb THEN {} ELSE {[type |-> "Connected", node |-> n, usb |-> usb]}
Present == {n \in Node : bus[n] # Absent}

scan_initial_devices ==
  /\ main = "scanning"
  /\ Goto("seeding")
  /\ \/ /\ seeds' = UNION {device_to_connect_command(n, UsbOf[bus[n]]) : n \in Present}
        /\ unwatched' = {}
        /\ UNCHANGED faults
     \/ Fault /\ seeds' = {} /\ unwatched' = Present
  /\ UNCHANGED <<udevQ, engineQ, eventVars>> /\ Elsewhere

Seed ==
  /\ main = "seeding"
  /\ \/ \E c \in seeds : /\ Room
                         /\ engineQ' = Append(engineQ, c)
                         /\ seeds' = seeds \ {c}
                         /\ UNCHANGED main
     \/ seeds = {} /\ Goto("opening") /\ UNCHANGED <<engineQ, seeds>>
  /\ UNCHANGED <<faults, udevQ, eventVars, unwatched>> /\ Elsewhere

build_udev_monitor ==
  /\ main = "opening"
  /\ \/ Goto("running") /\ UNCHANGED faults
     \/ Fault /\ Goto("bootFailed")
  /\ UNCHANGED <<udevQ, seeds, engineQ, eventVars, unwatched>> /\ Elsewhere

-----------------------------------------------------------------------------
(***************************************************************************)
(* main: exit.  SIGTERM and SIGINT have no handler before wait_for_shutdown *)
(* is first polled.                                                        *)
(***************************************************************************)
TermSignal ==
  /\ \/ main \in Booting /\ Goto("killed")
     \/ main = "running" /\ Goto("stopping")
  /\ OnlyMainMoves

\* The send waits for room; then main drops its senders and aborts the pump, whose
\* socket closes.  Seeded fault: main counts on closed channels alone,
\* but the supervisor and its tasks hold senders of their own.
OnlyDropsSenders ==
  /\ main = "stopping"
  /\ Goto("closing") /\ udevQ' = <<>>
  /\ UNCHANGED <<faults, seeds, engineQ, eventVars, unwatched>> /\ Elsewhere
SendShutdown ==
  /\ main = "stopping"
  /\ Room \/ supervisor = "stopped"
  /\ engineQ' = IF Room THEN Append(engineQ, [type |-> "Shutdown"]) ELSE engineQ
  /\ Goto("closing") /\ udevQ' = <<>>
  /\ UNCHANGED <<faults, seeds, eventVars, unwatched>> /\ Elsewhere

AbortIpc ==
  /\ main = "closing"
  /\ Goto("joining")
  /\ ipc' = IF ipc \in {"starting", "serving"} THEN "aborted" ELSE ipc
  /\ events' = <<>> /\ lagged' = FALSE
  /\ UNCHANGED <<faults, udevQ, seeds, engineQ, skipped, unwatched>> /\ Elsewhere

\* Seeded fault: main returns without awaiting the supervisor.
ReturnAtOnce ==
  /\ main = "joining"
  /\ Goto("exited")
  /\ OnlyMainMoves
JoinSupervisor ==
  /\ main = "joining"
  /\ supervisor = "stopped"
  /\ Goto("exited")
  /\ OnlyMainMoves

-----------------------------------------------------------------------------
(***************************************************************************)
(* The udev pump.  An event's attributes are read when it is handled: by   *)
(* then the device may be gone, or another one sit on the same port.       *)
(***************************************************************************)
Attributes(e) ==
  IF bus[e.node] = e.iface THEN {UsbOf[e.iface]}
  ELSE {NoUsb} \cup {UsbOf[x] : x \in {bus[e.node]} \ {Absent}}

event_to_command(e) ==
  IF e.type = "Remove" THEN {{[type |-> "Disconnected", node |-> e.node]}}
  ELSE {device_to_connect_command(e.node, usb) : usb \in Attributes(e)}

run_udev_pump ==
  /\ main \in {"running", "stopping"}
  /\ udevQ # <<>>
  /\ \E cmd \in event_to_command(Head(udevQ)) :
       \/ cmd = {} /\ UNCHANGED engineQ
       \/ Room /\ \E c \in cmd : engineQ' = Append(engineQ, c)
  /\ udevQ' = Tail(udevQ)
  /\ UNCHANGED <<bus, moves, unwatched, faults, bootVars, supervisor, registryVars, ipcVars, events, skipped>>

-----------------------------------------------------------------------------
(***************************************************************************)
(* Lifecycle events.  A full broadcast channel forgets its oldest event;   *)
(* without a receiver nothing is kept.                                     *)
(***************************************************************************)
Receiving == ipc \in {"starting", "serving"}
Publish(type, n) ==
  LET full == Len(events) = BroadcastCap
      kept == IF full THEN Tail(events) ELSE events
  IN IF ~Receiving THEN UNCHANGED <<events, lagged, skipped>>
     ELSE /\ events' = Append(kept, [type |-> type, node |-> n])
          /\ lagged' = (lagged \/ full)
          /\ skipped' = IF full /\ Head(events).type # "Layout"
                        THEN skipped \cup {Head(events).node} ELSE skipped
Quiet == UNCHANGED <<events, lagged, skipped>>

-----------------------------------------------------------------------------
(***************************************************************************)
(* The supervisor and its sessions.                                        *)
(***************************************************************************)
AroundEngine == UNCHANGED <<bus, udevQ, moves, unwatched, bootVars, ipc, signalled>>

\* Opening a node finds what is on it now, whatever the command was sent for.
Opens(n, usb) ==
  IF bus[n] = Absent THEN "transient"
  ELSE IF bus[n] \in Passing[driver_table(usb)] THEN "ok" ELSE "rejected"

Attached(n, usb) ==
  /\ served' = [served EXCEPT ![n] =
                  [iface |-> bus[n], usb |-> usb, dirty |-> FALSE, alive |-> TRUE]]
  /\ retrying' = [retrying EXCEPT ![n] = None]
  /\ failed' = failed \ {n} /\ silent' = silent \ {n}
  /\ Publish("Added", n)
NotAttached(n, retry, given_up) ==
  /\ retrying' = [retrying EXCEPT ![n] = retry]
  /\ failed' = IF given_up THEN failed \cup {n} ELSE failed \ {n}
  /\ UNCHANGED <<served, silent>> /\ Quiet

\* An open or the topology queries after it may also fail: no permission yet, or
\* an error the code takes for final.
AttachDevice(n, usb) ==
  \/ Opens(n, usb) = "ok" /\ Attached(n, usb) /\ UNCHANGED faults
  \/ Opens(n, usb) = "rejected" /\ NotAttached(n, None, FALSE) /\ UNCHANGED faults
  \/ Opens(n, usb) = "transient" /\ NotAttached(n, usb, FALSE) /\ UNCHANGED faults
  \/ bus[n] # Absent /\ Fault /\ NotAttached(n, usb, FALSE)
  \/ bus[n] # Absent /\ Fault /\ NotAttached(n, None, TRUE)

Receive(c) ==
  /\ supervisor = "running" /\ Up
  /\ engineQ # <<>> /\ Head(engineQ) = c
  /\ engineQ' = Tail(engineQ)

SupConnected(n, usb) ==
  /\ Receive([type |-> "Connected", node |-> n, usb |-> usb])
  /\ \/ /\ served[n] # None
        /\ retrying' = [retrying EXCEPT ![n] = None]
        /\ UNCHANGED <<served, failed, silent, faults>> /\ Quiet
     \/ served[n] = None /\ AttachDevice(n, usb)
  /\ UNCHANGED <<supervisor, closing>> /\ AroundEngine

\* Dropping the handle closes the session's channel.
CloseSession(n) ==
  IF served[n].alive
  THEN closing' = closing \cup {[node |-> n, dirty |-> served[n].dirty]}
  ELSE UNCHANGED closing

\* Seeded fault: the reconnection outlives the device it was for.
StillReconnecting(n) ==
  /\ Receive([type |-> "Disconnected", node |-> n])
  /\ failed' = failed \ {n}
  /\ served' = [served EXCEPT ![n] = None]
  /\ IF served[n] = None THEN UNCHANGED closing /\ Quiet
     ELSE CloseSession(n) /\ Publish("Removed", n)
  /\ UNCHANGED <<supervisor, retrying, silent, faults>> /\ AroundEngine
SupDisconnected(n) ==
  /\ Receive([type |-> "Disconnected", node |-> n])
  /\ retrying' = [retrying EXCEPT ![n] = None]
  /\ failed' = failed \ {n}
  /\ served' = [served EXCEPT ![n] = None]
  /\ IF served[n] = None THEN UNCHANGED closing /\ Quiet
     ELSE CloseSession(n) /\ Publish("Removed", n)
  /\ UNCHANGED <<supervisor, silent, faults>> /\ AroundEngine

SupShutdown ==
  /\ Receive([type |-> "Shutdown"])
  /\ supervisor' = "stopped"
  /\ closing' = closing \cup {[node |-> n, dirty |-> served[n].dirty] :
                               n \in {m \in Node : served[m] # None /\ served[m].alive}}
  /\ served' = [n \in Node |-> None]
  /\ retrying' = [n \in Node |-> None]
  /\ UNCHANGED <<failed, silent, faults>> /\ Quiet /\ AroundEngine

\* A reconnection attempt that fails may have been the last one.
Retry(n) ==
  /\ supervisor = "running" /\ Up
  /\ retrying[n] # None
  /\ \/ AttachDevice(n, retrying[n])
     \/ Opens(n, retrying[n]) = "transient" /\ NotAttached(n, None, TRUE) /\ UNCHANGED faults
  /\ UNCHANGED <<engineQ, supervisor, closing>> /\ AroundEngine

Serving(n) == Up /\ supervisor = "running" /\ served[n] # None /\ served[n].alive
\* The session's open file is of the interface it attached to, and dies with it.
Reachable(n) == bus[n] = served[n].iface

\* A driver call met a fatal error and the worker's report arrived.
RequestFails(n) ==
  /\ Serving(n)
  /\ IF Reachable(n) THEN Fault ELSE UNCHANGED faults
  /\ served' = [served EXCEPT ![n] = None]
  /\ retrying' = [retrying EXCEPT ![n] = served[n].usb]
  /\ Publish("Removed", n)
  /\ UNCHANGED <<engineQ, supervisor, closing, failed, silent>> /\ AroundEngine

\* A worker panicked; the next request to it finds its channel closed.
WorkerDies(n) ==
  /\ Serving(n) /\ Fault
  /\ served' = [served EXCEPT ![n].alive = FALSE]
  /\ UNCHANGED <<engineQ, supervisor, retrying, closing, failed, silent>>
  /\ Quiet /\ AroundEngine
EvictDead(n) ==
  /\ Up /\ supervisor = "running" /\ served[n] # None /\ ~served[n].alive
  /\ served' = [served EXCEPT ![n] = None]
  /\ silent' = silent \cup {n}
  /\ UNCHANGED <<engineQ, supervisor, retrying, closing, failed, faults>>
  /\ Quiet /\ AroundEngine

\* A write, which a buffering driver only notes, and the commit that pushes it.
SetKeycode(n) ==
  /\ Serving(n)
  /\ IF Buffers(driver_table(served[n].usb))
     THEN served' = [served EXCEPT ![n].dirty = TRUE] /\ Quiet
     ELSE Reachable(n) /\ Publish("Layout", n) /\ UNCHANGED served
  /\ UNCHANGED <<engineQ, supervisor, retrying, closing, failed, silent, faults>>
  /\ AroundEngine
Commit(n) ==
  /\ Serving(n) /\ Reachable(n)
  /\ served[n].dirty
  /\ served' = [served EXCEPT ![n].dirty = FALSE]
  /\ Publish("Layout", n)
  /\ UNCHANGED <<engineQ, supervisor, retrying, closing, failed, silent, faults>>
  /\ AroundEngine

\* A closed session ends, its last commit made or failed.
SessionEnds ==
  /\ Up
  /\ \E s \in closing : closing' = closing \ {s}
  /\ UNCHANGED <<engineQ, supervisor, served, retrying, failed, silent, faults>>
  /\ Quiet /\ AroundEngine

-----------------------------------------------------------------------------
(***************************************************************************)
(* The IPC task and its signal pump.                                       *)
(***************************************************************************)
AroundIpc == UNCHANGED <<kernelVars, bootVars, engineQ, supervisor, registryVars>>

IpcConnects ==
  /\ Up /\ ipc = "starting"
  /\ ipc' = "serving"
  /\ UNCHANGED <<faults, events, lagged, signalled, skipped>> /\ AroundIpc

IpcFails ==
  /\ Up /\ ipc = "starting" /\ Fault
  /\ ipc' = "failed" /\ events' = <<>> /\ lagged' = FALSE
  /\ UNCHANGED <<signalled, skipped>> /\ AroundIpc

\* The receiver continues with the oldest event kept.  Seeded fault: it subscribes
\* anew and starts with the next one sent.
Resubscribe ==
  /\ Up /\ ipc = "serving" /\ lagged
  /\ lagged' = FALSE
  /\ events' = <<>>
  /\ UNCHANGED <<faults, ipc, signalled, skipped>> /\ AroundIpc
SignalPumpLagged ==
  /\ Up /\ ipc = "serving" /\ lagged
  /\ lagged' = FALSE
  /\ UNCHANGED <<faults, ipc, events, signalled, skipped>> /\ AroundIpc

Emitted(e) ==
  /\ signalled' = CASE e.type = "Added" -> signalled \cup {e.node}
                    [] e.type = "Removed" -> signalled \ {e.node}
                    [] OTHER -> signalled
  /\ skipped' = IF e.type = "Layout" THEN skipped ELSE skipped \ {e.node}
SignalPump ==
  /\ Up /\ ipc = "serving" /\ ~lagged
  /\ events # <<>>
  /\ events' = Tail(events)
  /\ \/ Emitted(Head(events)) /\ UNCHANGED faults
     \/ /\ Fault
        /\ skipped' = IF Head(events).type = "Layout" THEN skipped
                      ELSE skipped \cup {Head(events).node}
        /\ UNCHANGED signalled
  /\ UNCHANGED <<ipc, lagged>> /\ AroundIpc

\* Every sender of lifecycle events is gone: main's, the supervisor's, the workers'.
SignalPumpClosed ==
  /\ ipc = "serving" /\ ~lagged /\ events = <<>>
  /\ main = "closing" /\ supervisor = "stopped" /\ closing = {}
  /\ ipc' = "closed"
  /\ UNCHANGED <<faults, events, lagged, signalled, skipped>> /\ AroundIpc

-----------------------------------------------------------------------------
MainStep ==
  \/ IpcAwaited \/ scan_initial_devices \/ Seed \/ build_udev_monitor
  \/ SendShutdown \/ AbortIpc \/ JoinSupervisor
SupervisorStep ==
  \/ \E n \in Node, usb \in Usb : SupConnected(n, usb)
  \/ \E n \in Node : SupDisconnected(n)
  \/ SupShutdown
SessionStep ==
  \/ \E n \in Node : \/ Retry(n) \/ RequestFails(n) \/ WorkerDies(n) \/ EvictDead(n)
                     \/ SetKeycode(n) \/ Commit(n)
  \/ SessionEnds
IpcStep == IpcConnects \/ IpcFails \/ SignalPumpLagged \/ SignalPump \/ SignalPumpClosed

Next ==
  \/ \E n \in Movable : Plug(n) \/ Unplug(n)
  \/ TermSignal \/ MainStep \/ run_udev_pump
  \/ SupervisorStep \/ SessionStep \/ IpcStep

\* The runtime polls main and the supervisor as long as they can go on.
Fairness == WF_vars(MainStep) /\ WF_vars(SupervisorStep)
Spec == Init /\ [][Next]_vars /\ Fairness

-----------------------------------------------------------------------------
\* Every variable keeps to its type; the channels keep to their capacities.
TypeOK ==
  /\ bus \in [Node -> Interface \cup {Absent}]
  /\ udevQ \in Seq(UdevEvent) /\ Len(udevQ) <= UdevCap
  /\ moves \in 0 .. MaxMoves /\ faults \in 0 .. MaxFaults
  /\ main \in Booting \cup Ended \cup {"running", "stopping", "closing", "joining"}
  /\ seeds \subseteq Command
  /\ engineQ \in Seq(Command) /\ Len(engineQ) <= EngineCap
  /\ supervisor \in {"running", "stopped"}
  /\ served \in [Node -> Session \cup {None}]
  /\ retrying \in [Node -> Usb \cup {None}]
  /\ closing \subseteq [node : Node, dirty : BOOLEAN]
  /\ ipc \in {"starting", "serving", "failed", "aborted", "closed"}
  /\ events \in Seq(Event) /\ Len(events) <= BroadcastCap
  /\ lagged \in BOOLEAN
  /\ \A h \in {signalled, unwatched, failed, skipped, silent} : h \subseteq Node

(***************************************************************************)
(* The keyboard a node should be served as: on USB, and the control        *)
(* interface of the backend devices.toml names for it.                     *)
(***************************************************************************)
Control(x) ==
  /\ UsbOf[x] # NoUsb
  /\ IF driver_table(UsbOf[x]) = "gmk67" THEN DeclaresFeatureFrame(ItemsOf[x])
                                         ELSE DeclaresViaPage(ItemsOf[x])
Controls == {x \in Interface : Control(x)}

\* Each attach-time probe (open_transport and probe_via_usage_page in hal/via.rs,
\* probe_vendor_feature_interface in hal/legacy/gmk67.rs) passes exactly the
\* interfaces whose descriptors declare what it looks for.
ProbesTell ==
  \A x \in Interface :
    /\ x \in Passing["via"] <=> DeclaresViaPage(ItemsOf[x])
    /\ x \in Passing["gmk67"] <=> DeclaresFeatureFrame(ItemsOf[x])

\* Once every event is handled, the registry (engine/mod.rs) serves exactly the
\* control interfaces on the bus, each under the ids it has now: scan, monitor,
\* late attributes, id reuse and reconnection leave nothing stale.  Left out are
\* nodes nobody watched change, given up, retried, or evicted after a panic.
RegistryTracksBus ==
  (main = "running" /\ udevQ = <<>> /\ engineQ = <<>>) =>
    \A n \in Node \ (unwatched \cup failed \cup silent) :
      retrying[n] = None =>
        /\ served[n] # None <=> bus[n] \in Controls
        /\ served[n] # None => /\ served[n].iface = bus[n]
                               /\ served[n].usb = UsbOf[bus[n]]

(***************************************************************************)
(* What a D-Bus client that follows the signals will believe of a node     *)
(* once the pump has caught up.                                            *)
(***************************************************************************)
Unread(n) == {i \in DOMAIN events : events[i].node = n /\ events[i].type # "Layout"}
Believed(n) ==
  IF Unread(n) = {} THEN n \in signalled
  ELSE events[CHOOSE i \in Unread(n) : \A j \in Unread(n) : j <= i].type = "Added"

\* A client that follows DeviceAdded and DeviceRemoved ends with the registry's
\* view (ipc/mod.rs, run_signal_pump), unless the last event of a device itself
\* was lost or the device was evicted without one; an overrun of the broadcast
\* channel by layout updates alone leads nobody astray.
SignalsTell ==
  (Receiving /\ Up /\ supervisor = "running") =>
    \A n \in Node \ silent :
      (n \in skipped => Unread(n) # {}) => (Believed(n) <=> served[n] # None)

\* main returns from an orderly exit only when every session's channel is closed
\* (main.rs, supervisor.await): what the runtime then cuts short is at most a
\* worker's final commit, never a worker between two requests.
ExitOnlyCutsClosing == main = "exited" => \A n \in Node : served[n] = None

\* Boot comes to an end although the bus hangs or the channel is full, and a
\* shutdown that began ends in an exit (main.rs, Shutdown command).
MainNeverHangs ==
  /\ main \in Booting ~> main \notin Booting
  /\ main = "stopping" ~> main = "exited"
=============================================================================
