----------------------------- MODULE DaemonProofs -----------------------------
(***************************************************************************)
(* Proofs about Daemon: for any nodes, interfaces, driver table and        *)
(* capacities, types and capacities are kept, main's exit cuts off no      *)
(* session that is still served, clients that follow the signals know what *)
(* the registry serves, and the registry follows the bus.                  *)
(***************************************************************************)
EXTENDS Daemon, WellFoundedInduction, TLAPS

-----------------------------------------------------------------------------
(* Lemmas about commands, events and channels. *)

\* A device with a USB parent has a vendor and product the table can be asked for.
LEMMA UsbOfInterface ==
  ASSUME NEW x \in Interface, UsbOf[x] # NoUsb
  PROVE  UsbOf[x] \in Usb
  BY DEF Usb

\* What is sent for a node is a command, if anything is.
LEMMA ConnectCommands ==
  ASSUME NEW n \in Node, NEW usb \in Usb \cup {NoUsb}
  PROVE  device_to_connect_command(n, usb) \subseteq Command
<1>1. CASE usb = NoUsb
  BY <1>1 DEF device_to_connect_command
<1>2. CASE usb # NoUsb
  <2>1. [type |-> "Connected", node |-> n, usb |-> usb] \in [type : {"Connected"}, node : Node, usb : Usb]
    BY <1>2
  <2>2. QED
    BY <1>2, <2>1 DEF device_to_connect_command, Command
<1>3. QED
  BY <1>1, <1>2

\* What the pump makes of an event is a command, if anything.
LEMMA EventCommands ==
  ASSUME TypeOK, NEW e \in UdevEvent, NEW cmd \in event_to_command(e)
  PROVE  cmd \subseteq Command
<1>1. e.node \in Node /\ e.iface \in Interface
  BY DEF UdevEvent
<1>2. CASE e.type = "Remove"
  <2>1. [type |-> "Disconnected", node |-> e.node] \in [type : {"Disconnected"}, node : Node]
    BY <1>1
  <2>2. cmd = {[type |-> "Disconnected", node |-> e.node]}
    BY <1>2 DEF event_to_command
  <2>3. QED
    BY <2>1, <2>2 DEF Command
<1>3. CASE e.type # "Remove"
  <2>1. PICK usb \in Attributes(e) : cmd = device_to_connect_command(e.node, usb)
    BY <1>3 DEF event_to_command
  <2>2. bus[e.node] \in Interface \cup {Absent}
    BY <1>1 DEF TypeOK
  <2>3. usb \in Usb \cup {NoUsb}
    <3>1. CASE bus[e.node] = e.iface
      BY <1>1, <2>1, <3>1 DEF Attributes, Usb
    <3>2. CASE bus[e.node] # e.iface
      <4>1. usb = NoUsb \/ (bus[e.node] # Absent /\ usb = UsbOf[bus[e.node]])
        BY <2>1, <3>2 DEF Attributes
      <4>2. QED
        BY <2>2, <4>1 DEF Usb
    <3>3. QED
      BY <3>1, <3>2
  <2>4. QED
    BY <1>1, <2>1, <2>3, ConnectCommands
<1>4. QED
  BY <1>2, <1>3

\* Publishing keeps the broadcast channel within its capacity.
LEMMA PublishTypes ==
  ASSUME TypeOK, NEW type \in {"Added", "Removed", "Layout"}, NEW n \in Node, Publish(type, n)
  PROVE  /\ events' \in Seq(Event) /\ Len(events') <= BroadcastCap
         /\ lagged' \in BOOLEAN
         /\ skipped' \subseteq Node
<1>1. events \in Seq(Event) /\ Len(events) <= BroadcastCap /\ BroadcastCap \in Nat \ {0}
  BY CapacityAssumption DEF TypeOK
<1>2. lagged \in BOOLEAN /\ skipped \subseteq Node
  BY DEF TypeOK
<1>3. CASE ~Receiving
  BY <1>1, <1>2, <1>3 DEF Publish
<1>4. CASE Receiving
  <2> DEFINE e == [type |-> type, node |-> n]
             full == Len(events) = BroadcastCap
             kept == IF full THEN Tail(events) ELSE events
  <2>1. e \in Event
    BY DEF Event
  <2>2. /\ events' = Append(kept, e)
        /\ lagged' = (lagged \/ full)
        /\ skipped' = IF full /\ Head(events).type # "Layout"
                      THEN skipped \cup {Head(events).node} ELSE skipped
    BY <1>4 DEF Publish
  <2>3. kept \in Seq(Event) /\ Len(kept) < BroadcastCap
    BY <1>1
  <2>4. full => Head(events) \in Event
    BY <1>1
  <2>5. full => Head(events).node \in Node
    BY <2>4 DEF Event
  <2> HIDE DEF e, kept
  <2>6. events' \in Seq(Event) /\ Len(events') <= BroadcastCap
    BY <1>1, <2>1, <2>2, <2>3
  <2>7. QED
    BY <1>2, <2>2, <2>5, <2>6
<1>5. QED
  BY <1>3, <1>4

LEMMA QuietTypes ==
  ASSUME TypeOK, Quiet
  PROVE  /\ events' \in Seq(Event) /\ Len(events') <= BroadcastCap
         /\ lagged' \in BOOLEAN
         /\ skipped' \subseteq Node
  BY DEF TypeOK, Quiet

\* A fault is counted.
LEMMA FaultTypes ==
  ASSUME TypeOK, Fault \/ UNCHANGED faults
  PROVE  faults' \in 0 .. MaxFaults
<1>1. faults \in 0 .. MaxFaults /\ MaxFaults \in Nat
  BY BoundAssumption DEF TypeOK
<1>2. CASE UNCHANGED faults
  BY <1>1, <1>2
<1>3. CASE Fault
  BY <1>1, <1>3 DEF Fault
<1>4. QED
  BY <1>2, <1>3

\* What an attach changes, whether it succeeds, will be retried or is given up.
LEMMA AttachTypes ==
  ASSUME TypeOK, NEW n \in Node, NEW usb \in Usb, AttachDevice(n, usb)
  PROVE  /\ served' \in [Node -> Session \cup {None}]
         /\ retrying' \in [Node -> Usb \cup {None}]
         /\ failed' \subseteq Node /\ silent' \subseteq Node
         /\ faults' \in 0 .. MaxFaults
         /\ events' \in Seq(Event) /\ Len(events') <= BroadcastCap
         /\ lagged' \in BOOLEAN
         /\ skipped' \subseteq Node
<1>1. /\ served \in [Node -> Session \cup {None}]
      /\ retrying \in [Node -> Usb \cup {None}]
      /\ failed \subseteq Node /\ silent \subseteq Node
      /\ bus[n] \in Interface \cup {Absent}
  BY DEF TypeOK
<1>2. faults' \in 0 .. MaxFaults
  <2>1. Fault \/ UNCHANGED faults
    BY DEF AttachDevice
  <2>2. QED
    BY <2>1, FaultTypes
<1>3. CASE Opens(n, usb) = "ok" /\ Attached(n, usb)
  <2>1. bus[n] \in Interface
    BY <1>1, <1>3 DEF Opens
  <2>2. [iface |-> bus[n], usb |-> usb, dirty |-> FALSE, alive |-> TRUE] \in Session
    BY <2>1 DEF Session
  <2>3. Publish("Added", n)
    BY <1>3 DEF Attached
  <2>4. /\ events' \in Seq(Event) /\ Len(events') <= BroadcastCap
        /\ lagged' \in BOOLEAN /\ skipped' \subseteq Node
    BY <2>3, PublishTypes
  <2>5. served' \in [Node -> Session \cup {None}]
    BY <1>1, <1>3, <2>2 DEF Attached
  <2>6. QED
    BY <1>1, <1>2, <1>3, <2>4, <2>5 DEF Attached
<1>4. CASE \E retry \in {usb, None}, given_up \in BOOLEAN : NotAttached(n, retry, given_up)
  <2>1. Quiet
    BY <1>4 DEF NotAttached
  <2>2. /\ events' \in Seq(Event) /\ Len(events') <= BroadcastCap
        /\ lagged' \in BOOLEAN /\ skipped' \subseteq Node
    BY <2>1, QuietTypes
  <2>3. QED
    BY <1>1, <1>2, <1>4, <2>2 DEF NotAttached
<1>5. QED
  BY <1>3, <1>4 DEF AttachDevice

-----------------------------------------------------------------------------
(* Type correctness. *)

LEMMA InitTypes ==
  ASSUME Init
  PROVE  TypeOK
<1>1. bus \in [Node -> Interface \cup {Absent}]
  BY InterfacesAssumption DEF Init
<1>2. faults \in 0 .. MaxFaults /\ moves \in 0 .. MaxMoves
  BY BoundAssumption DEF Init
<1>3. /\ engineQ \in Seq(Command) /\ Len(engineQ) <= EngineCap
      /\ udevQ \in Seq(UdevEvent) /\ Len(udevQ) <= UdevCap
      /\ events \in Seq(Event) /\ Len(events) <= BroadcastCap
  BY CapacityAssumption, BoundAssumption DEF Init
<1>4. QED
  BY <1>1, <1>2, <1>3 DEF Init, TypeOK, Booting, Ended

LEMMA PlugTypes ==
  ASSUME TypeOK, NEW n \in Movable, Plug(n) \/ Unplug(n)
  PROVE  TypeOK'
<1>1. n \in Node
  BY InterfacesAssumption
<1>2. bus' \in [Node -> Interface \cup {Absent}]
  BY <1>1 DEF TypeOK, Plug, Unplug
<1>3. moves' \in 0 .. MaxMoves
  <2>1. moves \in 0 .. MaxMoves /\ moves < MaxMoves /\ moves' = moves + 1
    BY DEF TypeOK, Plug, Unplug
  <2>2. QED
    BY <2>1, BoundAssumption
<1>4. PICK type \in {"Add", "Remove"}, x \in Interface : Heard(n, type, x)
  <2>1. CASE Plug(n)
    BY <2>1 DEF Plug
  <2>2. CASE Unplug(n)
    BY <1>1, <2>2 DEF Unplug, TypeOK
  <2>3. QED
    BY <2>1, <2>2
<1>5. /\ udevQ' \in Seq(UdevEvent) /\ Len(udevQ') <= UdevCap
      /\ unwatched' \subseteq Node
  <2>1. /\ udevQ \in Seq(UdevEvent) /\ Len(udevQ) <= UdevCap /\ UdevCap \in Nat
        /\ unwatched \subseteq Node
    BY BoundAssumption DEF TypeOK
  <2>2. [type |-> type, node |-> n, iface |-> x] \in UdevEvent
    BY <1>1 DEF UdevEvent
  <2>3. CASE Monitoring
    BY <1>4, <2>1, <2>2, <2>3 DEF Heard
  <2>4. CASE ~Monitoring
    BY <1>1, <1>4, <2>1, <2>4 DEF Heard
  <2>5. QED
    BY <2>3, <2>4
<1>6. UNCHANGED <<faults, bootVars, engineQ, supervisor, registryVars, ipcVars, events, skipped>>
  BY DEF Plug, Unplug
<1>7. QED
  BY <1>2, <1>3, <1>5, <1>6 DEF TypeOK, bootVars, registryVars, ipcVars

LEMMA MainTypes ==
  ASSUME TypeOK, MainStep \/ TermSignal
  PROVE  TypeOK'
<1> USE DEF Elsewhere, OnlyMainMoves, eventVars, registryVars, Goto
<1>1. CASE IpcAwaited \/ JoinSupervisor \/ TermSignal
  BY <1>1 DEF TypeOK, IpcAwaited, JoinSupervisor, TermSignal, Booting, Ended
<1>2. CASE scan_initial_devices
  <2>1. seeds' \subseteq Command
    <3>1. CASE seeds' = UNION {device_to_connect_command(n, UsbOf[bus[n]]) : n \in Present}
      <4>1. SUFFICES ASSUME NEW n \in Present
                     PROVE  device_to_connect_command(n, UsbOf[bus[n]]) \subseteq Command
        BY <3>1
      <4>2. n \in Node /\ bus[n] \in Interface
        BY DEF Present, TypeOK
      <4>3. UsbOf[bus[n]] \in Usb \cup {NoUsb}
        BY <4>2 DEF Usb
      <4>4. QED
        BY <4>2, <4>3, ConnectCommands
    <3>2. CASE seeds' = {}
      BY <3>2
    <3>3. QED
      BY <1>2, <3>1, <3>2 DEF scan_initial_devices
  <2>2. faults' \in 0 .. MaxFaults
    BY <1>2, FaultTypes DEF scan_initial_devices
  <2>3. unwatched' \subseteq Node
    BY <1>2 DEF scan_initial_devices, Present
  <2>4. QED
    BY <1>2, <2>1, <2>2, <2>3 DEF TypeOK, scan_initial_devices, Booting
<1>3. CASE Seed
  <2>1. engineQ' \in Seq(Command) /\ Len(engineQ') <= EngineCap /\ seeds' \subseteq Command
    <3>1. engineQ \in Seq(Command) /\ Len(engineQ) <= EngineCap /\ seeds \subseteq Command
      BY DEF TypeOK
    <3>2. CASE UNCHANGED <<engineQ, seeds>>
      BY <3>1, <3>2
    <3>3. ASSUME NEW c \in seeds, Room, engineQ' = Append(engineQ, c), seeds' = seeds \ {c}
          PROVE  engineQ' \in Seq(Command) /\ Len(engineQ') <= EngineCap /\ seeds' \subseteq Command
      BY <3>1, <3>3, CapacityAssumption DEF Room
    <3>4. QED
      BY <1>3, <3>2, <3>3 DEF Seed
  <2>2. main' \in {main, "opening"}
    BY <1>3 DEF Seed
  <2>3. QED
    BY <1>3, <2>1, <2>2 DEF TypeOK, Seed, Booting
<1>4. CASE build_udev_monitor
  <2>1. faults' \in 0 .. MaxFaults
    BY <1>4, FaultTypes DEF build_udev_monitor
  <2>2. QED
    BY <1>4, <2>1 DEF TypeOK, build_udev_monitor, Ended
<1>5. CASE SendShutdown
  <2>1. [type |-> "Shutdown"] \in Command
    BY DEF Command
  <2>2. engineQ' \in Seq(Command) /\ Len(engineQ') <= EngineCap
    BY <1>5, <2>1, CapacityAssumption DEF TypeOK, SendShutdown, Room
  <2>3. udevQ' \in Seq(UdevEvent) /\ Len(udevQ') <= UdevCap
    BY <1>5, BoundAssumption DEF SendShutdown
  <2>4. QED
    BY <1>5, <2>2, <2>3 DEF TypeOK, SendShutdown
<1>6. CASE AbortIpc
  <2>1. events' \in Seq(Event) /\ Len(events') <= BroadcastCap
    BY <1>6, CapacityAssumption DEF AbortIpc
  <2>2. QED
    BY <1>6, <2>1 DEF TypeOK, AbortIpc
<1>7. QED
  BY <1>1, <1>2, <1>3, <1>4, <1>5, <1>6 DEF MainStep

LEMMA PumpTypes ==
  ASSUME TypeOK, run_udev_pump
  PROVE  TypeOK'
<1>1. udevQ \in Seq(UdevEvent) /\ udevQ # <<>> /\ Len(udevQ) <= UdevCap
  BY DEF TypeOK, run_udev_pump
<1>2. Head(udevQ) \in UdevEvent /\ Tail(udevQ) \in Seq(UdevEvent) /\ Len(Tail(udevQ)) <= UdevCap
  BY <1>1, BoundAssumption
<1>3. engineQ' \in Seq(Command) /\ Len(engineQ') <= EngineCap
  <2>1. engineQ \in Seq(Command) /\ Len(engineQ) <= EngineCap
    BY DEF TypeOK
  <2>2. PICK cmd \in event_to_command(Head(udevQ)) :
          \/ cmd = {} /\ UNCHANGED engineQ
          \/ Room /\ \E c \in cmd : engineQ' = Append(engineQ, c)
    BY DEF run_udev_pump
  <2>3. cmd \subseteq Command
    BY <1>2, <2>2, EventCommands
  <2>4. QED
    BY <2>1, <2>2, <2>3, CapacityAssumption DEF Room
<1>4. QED
  BY <1>2, <1>3 DEF TypeOK, run_udev_pump, bootVars, registryVars, ipcVars

LEMMA SupervisorTypes ==
  ASSUME TypeOK, SupervisorStep
  PROVE  TypeOK'
<1> USE DEF AroundEngine, bootVars
<1>1. SUFFICES ASSUME NEW c \in Command, Receive(c),
                      \/ \E n \in Node, usb \in Usb :
                           SupConnected(n, usb) /\ c = [type |-> "Connected", node |-> n, usb |-> usb]
                      \/ \E n \in Node : SupDisconnected(n)
                      \/ SupShutdown
               PROVE  TypeOK'
  BY DEF SupervisorStep, SupConnected, SupDisconnected, SupShutdown, Command
<1>2. engineQ' \in Seq(Command) /\ Len(engineQ') <= EngineCap
  <2>1. engineQ \in Seq(Command) /\ engineQ # <<>> /\ Len(engineQ) <= EngineCap
    BY <1>1 DEF TypeOK, Receive
  <2>2. engineQ' = Tail(engineQ)
    BY <1>1 DEF Receive
  <2>3. QED
    BY <2>1, <2>2, CapacityAssumption
<1>3. ASSUME NEW n \in Node, NEW usb \in Usb, SupConnected(n, usb)
      PROVE  TypeOK'
  <2>1. CASE AttachDevice(n, usb)
    BY <1>2, <1>3, <2>1, AttachTypes DEF TypeOK, SupConnected
  <2>2. CASE Quiet /\ retrying' = [retrying EXCEPT ![n] = None] /\ UNCHANGED <<served, failed, silent, faults>>
    BY <1>2, <1>3, <2>2 DEF TypeOK, SupConnected, Quiet
  <2>3. QED
    BY <1>3, <2>1, <2>2 DEF SupConnected
<1>4. ASSUME NEW n \in Node, SupDisconnected(n)
      PROVE  TypeOK'
  <2>1. closing' \subseteq [node : Node, dirty : BOOLEAN]
    BY <1>4 DEF TypeOK, SupDisconnected, CloseSession, Session
  <2>2. /\ events' \in Seq(Event) /\ Len(events') <= BroadcastCap
        /\ lagged' \in BOOLEAN /\ skipped' \subseteq Node
    BY <1>4, PublishTypes, QuietTypes DEF SupDisconnected
  <2>3. QED
    BY <1>2, <1>4, <2>1, <2>2 DEF TypeOK, SupDisconnected
<1>5. CASE SupShutdown
  <2>1. closing' \subseteq [node : Node, dirty : BOOLEAN]
    <3>1. \A n \in Node : served[n] # None => served[n].dirty \in BOOLEAN
      BY DEF TypeOK, Session
    <3>2. QED
      BY <1>5, <3>1 DEF TypeOK, SupShutdown
  <2>2. QED
    BY <1>2, <1>5, <2>1 DEF TypeOK, SupShutdown, Quiet
<1>6. QED
  BY <1>1, <1>3, <1>4, <1>5

LEMMA SessionTypes ==
  ASSUME TypeOK, SessionStep
  PROVE  TypeOK'
<1> USE DEF AroundEngine, bootVars
<1>1. ASSUME NEW n \in Node, Retry(n)
      PROVE  TypeOK'
  <2>1. retrying[n] \in Usb
    BY <1>1 DEF TypeOK, Retry
  <2>2. CASE AttachDevice(n, retrying[n])
    BY <1>1, <2>1, <2>2, AttachTypes DEF TypeOK, Retry
  <2>3. CASE NotAttached(n, None, TRUE) /\ UNCHANGED faults
    BY <1>1, <2>3 DEF TypeOK, Retry, NotAttached, Quiet
  <2>4. QED
    BY <1>1, <2>2, <2>3 DEF Retry
<1>2. ASSUME NEW n \in Node, RequestFails(n)
      PROVE  TypeOK'
  <2>1. served[n].usb \in Usb
    BY <1>2 DEF TypeOK, RequestFails, Serving, Session
  <2>2. faults' \in 0 .. MaxFaults
    BY <1>2, FaultTypes DEF RequestFails
  <2>3. QED
    BY <1>2, <2>1, <2>2, PublishTypes DEF TypeOK, RequestFails
<1>3. ASSUME NEW n \in Node, WorkerDies(n) \/ EvictDead(n)
      PROVE  TypeOK'
  <2>1. served' \in [Node -> Session \cup {None}]
    <3>1. served \in [Node -> Session \cup {None}] /\ served[n] \in Session
      BY <1>3 DEF TypeOK, WorkerDies, EvictDead, Serving
    <3>2. [served[n] EXCEPT !.alive = FALSE] \in Session
      BY <3>1 DEF Session
    <3>3. \/ served' = [served EXCEPT ![n] = None]
          \/ served' = [served EXCEPT ![n] = [served[n] EXCEPT !.alive = FALSE]]
      BY <1>3 DEF WorkerDies, EvictDead
    <3> HIDE DEF Session
    <3>4. QED
      BY <3>1, <3>2, <3>3
  <2>2. faults' \in 0 .. MaxFaults
    BY <1>3, FaultTypes DEF WorkerDies, EvictDead
  <2>3. QED
    BY <1>3, <2>1, <2>2 DEF TypeOK, WorkerDies, EvictDead, Quiet
<1>4. ASSUME NEW n \in Node, SetKeycode(n) \/ Commit(n)
      PROVE  TypeOK'
  <2>1. served' \in [Node -> Session \cup {None}]
    <3>1. served \in [Node -> Session \cup {None}] /\ served[n] \in Session
      BY <1>4 DEF TypeOK, SetKeycode, Commit, Serving
    <3>2. \A d \in BOOLEAN : [served EXCEPT ![n].dirty = d] \in [Node -> Session \cup {None}]
      BY <3>1 DEF Session
    <3>3. \/ served' = served
          \/ \E d \in BOOLEAN : served' = [served EXCEPT ![n].dirty = d]
      BY <1>4 DEF SetKeycode, Commit
    <3>4. QED
      BY <3>1, <3>2, <3>3
  <2>2. /\ events' \in Seq(Event) /\ Len(events') <= BroadcastCap
        /\ lagged' \in BOOLEAN /\ skipped' \subseteq Node
    BY <1>4, PublishTypes, QuietTypes DEF SetKeycode, Commit
  <2>3. QED
    BY <1>4, <2>1, <2>2 DEF TypeOK, SetKeycode, Commit
<1>5. CASE SessionEnds
  BY <1>5 DEF TypeOK, SessionEnds, Quiet
<1>6. QED
  BY <1>1, <1>2, <1>3, <1>4, <1>5 DEF SessionStep

LEMMA IpcTypes ==
  ASSUME TypeOK, IpcStep
  PROVE  TypeOK'
<1> USE DEF AroundIpc, kernelVars, bootVars, registryVars
<1>1. CASE IpcConnects \/ SignalPumpLagged \/ SignalPumpClosed
  BY <1>1 DEF TypeOK, IpcConnects, SignalPumpLagged, SignalPumpClosed
<1>2. CASE IpcFails
  <2>1. faults' \in 0 .. MaxFaults
    BY <1>2, FaultTypes DEF IpcFails
  <2>2. events' \in Seq(Event) /\ Len(events') <= BroadcastCap
    BY <1>2, CapacityAssumption DEF IpcFails
  <2>3. QED
    BY <1>2, <2>1, <2>2 DEF TypeOK, IpcFails
<1>3. CASE SignalPump
  <2>1. events \in Seq(Event) /\ events # <<>> /\ Len(events) <= BroadcastCap
    BY <1>3 DEF TypeOK, SignalPump
  <2>2. Head(events) \in Event /\ Tail(events) \in Seq(Event) /\ Len(Tail(events)) <= BroadcastCap
    BY <2>1, CapacityAssumption
  <2>3. Head(events).node \in Node
    BY <2>2 DEF Event
  <2>4. faults' \in 0 .. MaxFaults
    BY <1>3, FaultTypes DEF SignalPump
  <2>5. signalled' \subseteq Node /\ skipped' \subseteq Node
    <3>1. signalled \subseteq Node /\ skipped \subseteq Node
      BY DEF TypeOK
    <3>2. QED
      BY <1>3, <2>3, <3>1 DEF SignalPump, Emitted
  <2>6. QED
    BY <1>3, <2>2, <2>4, <2>5 DEF TypeOK, SignalPump
<1>4. QED
  BY <1>1, <1>2, <1>3 DEF IpcStep

\* TypeOK holds throughout: every variable of the process keeps its type, the engine
\* channel (main.rs, ENGINE_CHANNEL_CAPACITY) and the broadcast channel
\* (LIFECYCLE_CHANNEL_CAPACITY) never hold more than they were made for, and what
\* the pump and the scan send are commands for real nodes and ids.
THEOREM TypeCorrect == Spec => []TypeOK
<1>1. Init => TypeOK
  BY InitTypes
<1>2. TypeOK /\ [Next]_vars => TypeOK'
  <2>1. SUFFICES ASSUME TypeOK, [Next]_vars PROVE TypeOK'
    OBVIOUS
  <2>2. CASE UNCHANGED vars
    BY <2>1, <2>2 DEF TypeOK, vars
  <2>3. CASE Next
    BY <2>1, <2>3, PlugTypes, MainTypes, PumpTypes, SupervisorTypes, SessionTypes, IpcTypes
       DEF Next
  <2>4. QED
    BY <2>1, <2>2, <2>3
<1>3. QED
  BY <1>1, <1>2, PTL DEF Spec

-----------------------------------------------------------------------------
(* The exit. *)

\* The supervisor stops with nothing served, and main has exited only after it.
ExitShape ==
  /\ supervisor = "stopped" => \A n \in Node : served[n] = None
  /\ main = "exited" => supervisor = "stopped"

\* main.rs: supervisor.await comes before the return, and the supervisor serves
\* nothing once it has stopped; so the runtime, dropped at the return, cuts short
\* no worker that could still have been given a request.
THEOREM ExitOnlyCutsClosingHolds == Spec => []ExitOnlyCutsClosing
<1>1. Init => ExitShape
  BY DEF Init, ExitShape
<1>2. ExitShape /\ [Next]_vars => ExitShape'
  <2>1. SUFFICES ASSUME ExitShape, [Next]_vars PROVE ExitShape'
    OBVIOUS
  <2> USE DEF ExitShape
  <2>2. CASE UNCHANGED vars
    BY <2>1, <2>2 DEF vars
  <2>3. CASE \E n \in Movable : Plug(n) \/ Unplug(n)
    BY <2>1, <2>3 DEF Plug, Unplug, bootVars, registryVars
  <2>4. CASE TermSignal \/ MainStep
    <3>1. UNCHANGED <<supervisor, served>>
      BY <2>4 DEF TermSignal, MainStep, IpcAwaited, scan_initial_devices, Seed, build_udev_monitor,
                  SendShutdown, AbortIpc, JoinSupervisor, OnlyMainMoves, Elsewhere, registryVars
    <3>2. main' = "exited" => supervisor = "stopped"
      BY <2>1, <2>4 DEF TermSignal, MainStep, IpcAwaited, scan_initial_devices, Seed,
                  build_udev_monitor, SendShutdown, AbortIpc, JoinSupervisor, Goto
    <3>3. QED
      BY <2>1, <3>1, <3>2
  <2>5. CASE run_udev_pump
    BY <2>1, <2>5 DEF run_udev_pump, bootVars, registryVars
  <2>6. CASE SupervisorStep
    <3>1. CASE SupShutdown
      BY <3>1 DEF SupShutdown
    <3>2. CASE \E n \in Node : SupDisconnected(n) \/ \E usb \in Usb : SupConnected(n, usb)
      BY <2>1, <3>2 DEF SupDisconnected, SupConnected, Receive, AroundEngine, bootVars
    <3>3. QED
      BY <2>6, <3>1, <3>2 DEF SupervisorStep
  <2>7. CASE SessionStep
    <3>1. CASE SessionEnds
      BY <2>1, <3>1 DEF SessionEnds, AroundEngine, bootVars
    <3>2. CASE ~SessionEnds
      <4>1. supervisor = "running" /\ UNCHANGED <<supervisor, main>>
        BY <2>7, <3>2 DEF SessionStep, Retry, RequestFails, WorkerDies, EvictDead, SetKeycode,
                          Commit, Serving, AroundEngine, bootVars
      <4>2. QED
        BY <2>1, <4>1
    <3>3. QED
      BY <3>1, <3>2
  <2>8. CASE IpcStep
    BY <2>1, <2>8 DEF IpcStep, IpcConnects, IpcFails, SignalPumpLagged, SignalPump,
                      SignalPumpClosed, AroundIpc, bootVars, registryVars
  <2>9. QED
    BY <2>1, <2>2, <2>3, <2>4, <2>5, <2>6, <2>7, <2>8 DEF Next
<1>3. ExitShape => ExitOnlyCutsClosing
  BY DEF ExitShape, ExitOnlyCutsClosing
<1>4. QED
  BY <1>1, <1>2, <1>3, PTL DEF Spec

-----------------------------------------------------------------------------
(***************************************************************************)
(* The signals.  What a client will believe depends on the last unread     *)
(* event of the device, so the lemmas say what Append and Tail do to it.   *)
(***************************************************************************)
UnreadIn(s, n) == {i \in DOMAIN s : s[i].node = n /\ s[i].type # "Layout"}
IsLast(s, n, i) == i \in UnreadIn(s, n) /\ \A j \in UnreadIn(s, n) : j <= i
About(e, n) == e.node = n /\ e.type # "Layout"

LEMMA LastExists ==
  ASSUME NEW s \in Seq(Event), NEW n \in Node, UnreadIn(s, n) # {}
  PROVE  \E i \in UnreadIn(s, n) : IsLast(s, n, i)
<1> DEFINE Back == {Len(s) - i : i \in UnreadIn(s, n)}
<1>1. UnreadIn(s, n) \subseteq 1 .. Len(s)
  BY DEF UnreadIn
<1>2. Back \subseteq Nat /\ Back # {}
  BY <1>1
<1>3. PICK b \in Back : \A c \in Back : <<c, b>> \notin OpToRel(<, Nat)
  BY <1>2, WFMin, NatLessThanWellFounded, Zenon
<1>4. \A c \in Back : ~(c < b)
  BY <1>2, <1>3, Zenon DEF OpToRel
<1>5. PICK i \in UnreadIn(s, n) : b = Len(s) - i
  BY <1>3
<1>6. ASSUME NEW j \in UnreadIn(s, n)
      PROVE  j <= i
  <2>1. Len(s) - j \in Back
    OBVIOUS
  <2>2. ~(Len(s) - j < Len(s) - i)
    BY <1>4, <1>5, <2>1
  <2>3. i \in Nat /\ j \in Nat /\ Len(s) \in Nat
    BY <1>1
  <2> HIDE DEF Back
  <2>4. QED
    BY <2>2, <2>3
<1>7. QED
  BY <1>6 DEF IsLast

\* The last unread event is the one a client ends with.
LEMMA LastIsBelieved ==
  ASSUME NEW n \in Node, events \in Seq(Event), NEW i, IsLast(events, n, i)
  PROVE  Unread(n) # {} /\ (Believed(n) <=> events[i].type = "Added")
<1>1. UnreadIn(events, n) = Unread(n)
  BY DEF UnreadIn, Unread
<1>2. Unread(n) \subseteq Nat
  BY DEF Unread
<1>3. (CHOOSE k \in Unread(n) : \A j \in Unread(n) : j <= k) = i
  BY <1>1, <1>2 DEF IsLast
<1>4. QED
  BY <1>1, <1>3 DEF IsLast, Believed

LEMMA AppendLast ==
  ASSUME NEW s \in Seq(Event), NEW e \in Event, NEW n \in Node, About(e, n)
  PROVE  IsLast(Append(s, e), n, Len(s) + 1) /\ Append(s, e)[Len(s) + 1] = e
<1> DEFINE t == Append(s, e)
<1>1. t \in Seq(Event) /\ Len(t) = Len(s) + 1 /\ t[Len(s) + 1] = e
  OBVIOUS
<1>2. UnreadIn(t, n) \subseteq 1 .. Len(t)
  BY DEF UnreadIn
<1>3. Len(s) + 1 \in UnreadIn(t, n)
  BY <1>1 DEF UnreadIn, About
<1>4. QED
  BY <1>1, <1>2, <1>3 DEF IsLast

LEMMA AppendOther ==
  ASSUME NEW s \in Seq(Event), NEW e \in Event, NEW n \in Node, ~About(e, n)
  PROVE  /\ UnreadIn(Append(s, e), n) = UnreadIn(s, n)
         /\ \A i \in UnreadIn(s, n) : Append(s, e)[i] = s[i]
<1> DEFINE t == Append(s, e)
<1>1. /\ t \in Seq(Event) /\ Len(t) = Len(s) + 1 /\ t[Len(s) + 1] = e
      /\ \A i \in 1 .. Len(s) : t[i] = s[i]
  OBVIOUS
<1>2. DOMAIN s = 1 .. Len(s) /\ DOMAIN t = 1 .. (Len(s) + 1) /\ Len(s) \in Nat
  BY <1>1
<1> HIDE DEF t
<1>3. UnreadIn(t, n) = UnreadIn(s, n)
  BY <1>1, <1>2 DEF UnreadIn, About
<1>4. \A i \in UnreadIn(s, n) : t[i] = s[i]
  BY <1>1, <1>2 DEF UnreadIn
<1>5. QED
  BY <1>3, <1>4 DEF t

LEMMA TailShifts ==
  ASSUME NEW s \in Seq(Event), s # <<>>, NEW n \in Node
  PROVE  /\ \A i \in UnreadIn(Tail(s), n) : i + 1 \in UnreadIn(s, n) /\ Tail(s)[i] = s[i + 1]
         /\ \A j \in UnreadIn(s, n) : j # 1 => j - 1 \in UnreadIn(Tail(s), n)
         /\ 1 \in UnreadIn(s, n) <=> About(Head(s), n)
<1> DEFINE t == Tail(s)
<1>1. /\ t \in Seq(Event) /\ Len(t) = Len(s) - 1 /\ Len(s) >= 1
      /\ \A i \in 1 .. Len(t) : t[i] = s[i + 1]
      /\ Head(s) = s[1]
  OBVIOUS
<1>2. DOMAIN s = 1 .. Len(s) /\ DOMAIN t = 1 .. Len(t) /\ Len(s) \in Nat
  BY <1>1
<1> HIDE DEF t
<1>3. \A i \in UnreadIn(t, n) : i + 1 \in UnreadIn(s, n) /\ t[i] = s[i + 1]
  BY <1>1, <1>2 DEF UnreadIn
<1>4. \A j \in UnreadIn(s, n) : j # 1 => j - 1 \in UnreadIn(t, n)
  <2>1. SUFFICES ASSUME NEW j \in UnreadIn(s, n), j # 1 PROVE j - 1 \in UnreadIn(t, n)
    OBVIOUS
  <2>2. j \in 2 .. Len(s)
    BY <1>2, <2>1 DEF UnreadIn
  <2>3. j - 1 \in 1 .. Len(t) /\ t[j - 1] = s[j]
    BY <1>1, <2>2
  <2>4. QED
    BY <1>2, <2>1, <2>3 DEF UnreadIn
<1>5. 1 \in UnreadIn(s, n) <=> About(Head(s), n)
  BY <1>1, <1>2 DEF UnreadIn, About
<1>6. QED
  BY <1>3, <1>4, <1>5 DEF t

\* Taking the oldest event away moves the last one, unless it was the only one.
LEMMA TailKeepsLast ==
  ASSUME NEW s \in Seq(Event), s # <<>>, NEW n \in Node
  PROVE  /\ UnreadIn(Tail(s), n) # {} =>
              \E i \in UnreadIn(Tail(s), n) :
                IsLast(Tail(s), n, i) /\ IsLast(s, n, i + 1) /\ Tail(s)[i] = s[i + 1]
         /\ UnreadIn(Tail(s), n) = {} => UnreadIn(s, n) = {} \/ IsLast(s, n, 1)
         /\ UnreadIn(Tail(s), n) = {} /\ ~About(Head(s), n) => UnreadIn(s, n) = {}
<1> DEFINE t == Tail(s)
<1>1. t \in Seq(Event)
  OBVIOUS
<1>2. UnreadIn(s, n) \subseteq Nat /\ UnreadIn(t, n) \subseteq Nat
  BY <1>1 DEF UnreadIn
<1>3. /\ \A i \in UnreadIn(t, n) : i + 1 \in UnreadIn(s, n) /\ t[i] = s[i + 1] /\ i >= 1
      /\ \A j \in UnreadIn(s, n) : j # 1 => j - 1 \in UnreadIn(t, n)
      /\ 1 \in UnreadIn(s, n) <=> About(Head(s), n)
  <2>1. \A i \in UnreadIn(t, n) : i >= 1
    BY <1>1 DEF UnreadIn
  <2>2. QED
    BY <2>1, TailShifts
<1> HIDE DEF t
<1>4. ASSUME UnreadIn(t, n) # {}
      PROVE  \E i \in UnreadIn(t, n) : IsLast(t, n, i) /\ IsLast(s, n, i + 1) /\ t[i] = s[i + 1]
  <2>1. PICK i \in UnreadIn(t, n) : IsLast(t, n, i)
    BY <1>1, <1>4, LastExists
  <2>2. \A j \in UnreadIn(s, n) : j <= i + 1
    BY <1>2, <1>3, <2>1 DEF IsLast
  <2>3. QED
    BY <1>3, <2>1, <2>2 DEF IsLast
<1>5. ASSUME UnreadIn(t, n) = {}
      PROVE  UnreadIn(s, n) = {} \/ IsLast(s, n, 1)
  <2>1. \A j \in UnreadIn(s, n) : j = 1
    BY <1>3, <1>5
  <2>2. QED
    BY <2>1 DEF IsLast
<1>6. UnreadIn(t, n) = {} /\ ~About(Head(s), n) => UnreadIn(s, n) = {}
  BY <1>3
<1> USE DEF t
<1>7. QED
  BY <1>4, <1>5, <1>6, Zenon

Sure(n) == n \in skipped => Unread(n) # {}
Told(n) == Sure(n) => (Believed(n) <=> served[n] # None)
\* A step after which the client will believe of n what it would have before.
SameBelief(n) == Sure(n)' => Sure(n) /\ (Believed(n)' <=> Believed(n))

\* The same last event leads to the same belief.
LEMMA SameLast ==
  ASSUME NEW n \in Node, events \in Seq(Event), events' \in Seq(Event),
         NEW i, NEW j, IsLast(events, n, i), IsLast(events', n, j), events[i] = events'[j]
  PROVE  SameBelief(n)
<1>1. Unread(n) # {} /\ (Believed(n) <=> events[i].type = "Added")
  BY LastIsBelieved
<1>2. (CHOOSE k \in Unread(n)' : \A l \in Unread(n)' : l <= k) = j /\ Unread(n)' # {}
  <2>1. UnreadIn(events', n) = Unread(n)'
    BY DEF UnreadIn, Unread
  <2>2. Unread(n)' \subseteq Nat
    BY DEF Unread
  <2>3. QED
    BY <2>1, <2>2 DEF IsLast
<1>3. Believed(n)' <=> events'[j].type = "Added"
  BY <1>2 DEF Believed
<1>4. QED
  BY <1>1, <1>3 DEF SameBelief, Sure

\* Losing the oldest event misleads about no device the loss is not noted for.
LEMMA NothingUnread ==
  ASSUME NEW n \in Node, Unread(n) = {}, Unread(n)' = {},
         n \in signalled' <=> n \in signalled,
         n \in skipped => n \in skipped'
  PROVE  SameBelief(n)
  BY DEF SameBelief, Sure, Believed

LEMMA PublishTells ==
  ASSUME TypeOK, Receiving, UNCHANGED signalled,
         NEW type \in {"Added", "Removed", "Layout"}, NEW n \in Node, Publish(type, n)
  PROVE  /\ type # "Layout" => Sure(n)' /\ (Believed(n)' <=> type = "Added")
         /\ \A m \in Node : m # n \/ type = "Layout" => SameBelief(m)
<1> DEFINE e == [type |-> type, node |-> n]
           full == Len(events) = BroadcastCap
           kept == IF full THEN Tail(events) ELSE events
<1>1. events \in Seq(Event) /\ events' \in Seq(Event) /\ skipped \subseteq Node /\ e \in Event
  BY PublishTypes DEF TypeOK, Event
<1>2. /\ events' = Append(kept, e)
      /\ skipped' = IF full /\ Head(events).type # "Layout"
                    THEN skipped \cup {Head(events).node} ELSE skipped
  BY DEF Publish
<1>3. (full => events # <<>>) /\ kept \in Seq(Event)
  BY <1>1, CapacityAssumption
<1>4. \A m : UnreadIn(events', m) = Unread(m)' /\ UnreadIn(events, m) = Unread(m)
  BY DEF UnreadIn, Unread
<1>5. ASSUME type # "Layout"
      PROVE  Sure(n)' /\ (Believed(n)' <=> type = "Added")
  <2>1. IsLast(events', n, Len(kept) + 1) /\ events'[Len(kept) + 1] = e
    BY <1>1, <1>2, <1>3, <1>5, AppendLast DEF About
  <2>2. (CHOOSE k \in Unread(n)' : \A l \in Unread(n)' : l <= k) = Len(kept) + 1 /\ Unread(n)' # {}
    <3>1. Unread(n)' \subseteq Nat
      BY <1>1 DEF Unread
    <3>2. QED
      BY <1>4, <2>1, <3>1 DEF IsLast
  <2>3. Believed(n)' <=> events'[Len(kept) + 1].type = "Added"
    BY <2>2 DEF Believed
  <2>4. events'[Len(kept) + 1].type = type
    BY <2>1
  <2>5. QED
    BY <2>2, <2>3, <2>4 DEF Sure
<1>6. ASSUME NEW m \in Node, m # n \/ type = "Layout"
      PROVE  SameBelief(m)
  <2>1. ~About(e, m)
    BY <1>6 DEF About
  <2> HIDE DEF e, kept
  <2>2. /\ UnreadIn(events', m) = UnreadIn(kept, m)
        /\ \A i \in UnreadIn(kept, m) : events'[i] = kept[i]
    BY <1>1, <1>2, <1>3, <2>1, AppendOther
  <2>3. \A i : IsLast(kept, m, i) <=> IsLast(events', m, i)
    BY <2>2 DEF IsLast
  <2>4. CASE ~full
    <3>1. kept = events /\ skipped' = skipped
      BY <1>2, <2>4 DEF kept
    <3>2. CASE UnreadIn(events, m) = {}
      BY <1>4, <2>2, <3>1, <3>2, NothingUnread
    <3>3. CASE UnreadIn(events, m) # {}
      <4>1. PICK i \in UnreadIn(events, m) : IsLast(events, m, i)
        BY <1>1, <3>3, LastExists
      <4>2. QED
        BY <1>1, <2>2, <2>3, <3>1, <4>1, SameLast
    <3>4. QED
      BY <3>2, <3>3
  <2>5. CASE full
    <3>1. kept = Tail(events) /\ events # <<>>
      BY <1>3, <2>5 DEF kept
    <3>2. CASE UnreadIn(kept, m) # {}
      <4>1. PICK i \in UnreadIn(kept, m) :
              IsLast(kept, m, i) /\ IsLast(events, m, i + 1) /\ kept[i] = events[i + 1]
        <5>1. UnreadIn(Tail(events), m) # {} =>
                \E i \in UnreadIn(Tail(events), m) :
                  /\ IsLast(Tail(events), m, i) /\ IsLast(events, m, i + 1)
                  /\ Tail(events)[i] = events[i + 1]
          BY <1>1, <3>1, TailKeepsLast, Zenon
        <5>2. QED
          BY <3>1, <3>2, <5>1, Zenon
      <4>2. QED
        BY <1>1, <2>2, <2>3, <4>1, SameLast
    <3>3. CASE UnreadIn(kept, m) = {} /\ ~About(Head(events), m)
      <4>1. UnreadIn(events, m) = {}
        BY <1>1, <3>1, <3>3, TailKeepsLast
      <4>2. skipped \subseteq skipped'
        BY <1>2
      <4>3. QED
        BY <1>4, <2>2, <3>3, <4>1, <4>2, NothingUnread
    <3>4. CASE UnreadIn(kept, m) = {} /\ About(Head(events), m)
      <4>1. m \in skipped' /\ Unread(m)' = {}
        BY <1>2, <1>4, <2>2, <2>5, <3>4 DEF About
      <4>2. QED
        BY <4>1 DEF SameBelief, Sure
    <3>5. QED
      BY <3>2, <3>3, <3>4
  <2>6. QED
    BY <2>4, <2>5
<1>7. QED
  BY <1>5, <1>6

\* What the signal pump emits, or fails to, agrees with what was to be believed.
LEMMA PumpTells ==
  ASSUME TypeOK, SignalPump, NEW m \in Node
  PROVE  SameBelief(m)
<1> DEFINE e == Head(events)
<1>1. events \in Seq(Event) /\ events # <<>> /\ events' = Tail(events) /\ e \in Event
  BY DEF TypeOK, SignalPump
<1>2. events' \in Seq(Event)
  BY <1>1
<1>3. UnreadIn(events', m) = Unread(m)' /\ UnreadIn(events, m) = Unread(m)
  BY DEF UnreadIn, Unread
<1>4. e = events[1] /\ e.type \in {"Added", "Removed", "Layout"}
  BY <1>1 DEF Event
<1>5. CASE UnreadIn(events', m) # {}
  <2>1. PICK i \in UnreadIn(events', m) :
          IsLast(events', m, i) /\ IsLast(events, m, i + 1) /\ events'[i] = events[i + 1]
    <3>1. UnreadIn(Tail(events), m) # {} =>
            \E i \in UnreadIn(Tail(events), m) :
              /\ IsLast(Tail(events), m, i) /\ IsLast(events, m, i + 1)
              /\ Tail(events)[i] = events[i + 1]
      BY <1>1, TailKeepsLast, Zenon
    <3>2. QED
      BY <1>1, <1>5, <3>1, Zenon
  <2>2. QED
    BY <1>1, <1>2, <2>1, SameLast
<1>6. CASE UnreadIn(events', m) = {} /\ ~About(e, m)
  <2>1. UnreadIn(events, m) = {}
    BY <1>1, <1>6, TailKeepsLast
  <2>2. (m \in signalled' <=> m \in signalled) /\ (m \in skipped => m \in skipped')
    BY <1>4, <1>6 DEF SignalPump, Emitted, About
  <2>3. QED
    BY <1>3, <1>6, <2>1, <2>2, NothingUnread
<1>7. CASE UnreadIn(events', m) = {} /\ About(e, m)
  <2>1. IsLast(events, m, 1)
    <3>1. UnreadIn(events, m) = {} \/ IsLast(events, m, 1)
      BY <1>1, <1>7, TailKeepsLast
    <3>2. 1 \in UnreadIn(events, m)
      BY <1>1, <1>7, TailShifts
    <3>3. QED
      BY <3>1, <3>2
  <2>2. Unread(m) # {} /\ (Believed(m) <=> e.type = "Added")
    BY <1>1, <1>4, <2>1, LastIsBelieved
  <2>3. CASE Emitted(e)
    <3>1. m \in signalled' <=> e.type = "Added"
      BY <1>4, <1>7, <2>3 DEF Emitted, About
    <3>2. Believed(m)' <=> m \in signalled'
      BY <1>3, <1>7 DEF Believed
    <3>3. QED
      BY <2>2, <3>1, <3>2 DEF SameBelief, Sure
  <2>4. CASE m \in skipped'
    BY <1>3, <1>7, <2>4 DEF SameBelief, Sure
  <2>5. QED
    BY <1>7, <2>3, <2>4 DEF SignalPump, About
<1>8. QED
  BY <1>5, <1>6, <1>7

Following == Receiving /\ Up /\ supervisor = "running"

\* A step that publishes nothing and serves the same nodes misleads nobody.
LEMMA QuietTells ==
  ASSUME SignalsTell, Following' => Following,
         UNCHANGED <<events, signalled, skipped>>,
         \A n \in Node \ silent' : n \notin silent /\ (served'[n] # None <=> served[n] # None)
  PROVE  SignalsTell'
  BY DEF SignalsTell, Following, Unread, Believed

\* An attach tells of the device it serves.
LEMMA AttachTells ==
  ASSUME TypeOK, SignalsTell, Following, Following', UNCHANGED signalled,
         NEW n \in Node, NEW usb \in Usb, AttachDevice(n, usb)
  PROVE  SignalsTell'
<1>1. CASE Opens(n, usb) = "ok" /\ Attached(n, usb)
  <2>1. Publish("Added", n) /\ silent' = silent \ {n}
    BY <1>1 DEF Attached
  <2>2. /\ Sure(n)' /\ Believed(n)'
        /\ \A m \in Node : m # n => SameBelief(m)
    BY <2>1, PublishTells DEF Following
  <2>3. served'[n] # None /\ \A m \in Node : m # n => served'[m] = served[m]
    <3>1. served \in [Node -> Session \cup {None}] /\ bus[n] \in Interface \cup {Absent}
      BY DEF TypeOK
    <3>2. bus[n] \in Interface
      <4>1. bus[n] # Absent
        BY <1>1 DEF Opens
      <4>2. QED
        BY <3>1, <4>1
    <3> DEFINE session == [iface |-> bus[n], usb |-> usb, dirty |-> FALSE, alive |-> TRUE]
    <3>3. session # None
      <4>1. usb \in {UsbOf[x] : x \in Interface}
        BY DEF Usb
      <4>2. session \in [iface : Interface, usb : {UsbOf[x] : x \in Interface},
                        dirty : BOOLEAN, alive : BOOLEAN]
        BY <3>2, <4>1
      <4>3. QED
        BY <4>2, NoneAssumption
    <3>4. served' = [served EXCEPT ![n] = session]
      BY <1>1 DEF Attached
    <3> HIDE DEF session
    <3>5. served'[n] = session
      BY <3>1, <3>4
    <3>6. \A m \in Node : m # n => served'[m] = served[m]
      BY <3>1, <3>4
    <3>7. QED
      BY <3>3, <3>5, <3>6
  <2>4. SUFFICES ASSUME NEW m \in Node \ silent', Sure(m)'
                 PROVE  Believed(m)' <=> served'[m] # None
    BY DEF SignalsTell, Sure
  <2>5. CASE m = n
    BY <2>2, <2>3, <2>5
  <2>6. CASE m # n
    <3>1. m \in Node \ silent /\ Sure(m) /\ (Believed(m)' <=> Believed(m))
      BY <2>1, <2>2, <2>4, <2>6 DEF SameBelief
    <3>2. QED
      BY <2>3, <2>6, <3>1 DEF SignalsTell, Following, Sure
  <2>7. QED
    BY <2>5, <2>6
<1>2. CASE Quiet /\ UNCHANGED <<served, silent>>
  BY <1>2, QuietTells DEF Quiet
<1>3. QED
  BY <1>1, <1>2 DEF AttachDevice, NotAttached

\* What a step does to the nodes served, told of by what it publishes.
LEMMA RemovedTells ==
  ASSUME TypeOK, SignalsTell, Following, UNCHANGED <<signalled, silent>>,
         NEW n \in Node, Publish("Removed", n), served' = [served EXCEPT ![n] = None]
  PROVE  SignalsTell'
<1>1. /\ Sure(n)' /\ ~Believed(n)'
      /\ \A m \in Node : m # n => SameBelief(m)
  BY PublishTells DEF Following
<1>2. served'[n] = None /\ \A m \in Node : m # n => served'[m] = served[m]
  BY DEF TypeOK
<1>3. SUFFICES ASSUME NEW m \in Node \ silent, Sure(m)'
               PROVE  Believed(m)' <=> served'[m] # None
  BY DEF SignalsTell, Sure
<1>4. CASE m = n
  BY <1>1, <1>2, <1>4
<1>5. CASE m # n
  <2>1. Sure(m) /\ (Believed(m)' <=> Believed(m))
    BY <1>1, <1>3, <1>5 DEF SameBelief
  <2>2. QED
    BY <1>2, <1>5, <2>1 DEF SignalsTell, Following, Sure
<1>6. QED
  BY <1>4, <1>5

LEMMA LayoutTells ==
  ASSUME TypeOK, SignalsTell, Following, UNCHANGED <<signalled, silent>>,
         NEW n \in Node, Publish("Layout", n),
         \A m \in Node : served'[m] # None <=> served[m] # None
  PROVE  SignalsTell'
<1>1. \A m \in Node : SameBelief(m)
  BY PublishTells DEF Following
<1>2. SUFFICES ASSUME NEW m \in Node \ silent, Sure(m)'
               PROVE  Believed(m)' <=> served'[m] # None
  BY DEF SignalsTell, Sure
<1>3. Sure(m) /\ (Believed(m)' <=> Believed(m))
  BY <1>1, <1>2 DEF SameBelief
<1>4. QED
  BY <1>3 DEF SignalsTell, Following, Sure

LEMMA SupervisorTells ==
  ASSUME TypeOK, SignalsTell, SupervisorStep, Following, Following'
  PROVE  SignalsTell'
<1> USE DEF AroundEngine
<1>1. ASSUME NEW n \in Node, NEW usb \in Usb, SupConnected(n, usb)
      PROVE  SignalsTell'
  <2>1. CASE AttachDevice(n, usb)
    BY <1>1, <2>1, AttachTells DEF SupConnected
  <2>2. CASE Quiet /\ UNCHANGED <<served, silent>>
    BY <1>1, <2>2, QuietTells DEF SupConnected, Quiet
  <2>3. QED
    BY <1>1, <2>1, <2>2 DEF SupConnected
<1>2. ASSUME NEW n \in Node, SupDisconnected(n)
      PROVE  SignalsTell'
  <2>1. CASE served[n] = None
    <3>1. served' = served
      BY <1>2, <2>1 DEF SupDisconnected, TypeOK
    <3>2. QED
      BY <1>2, <2>1, <3>1, QuietTells DEF SupDisconnected, Quiet
  <2>2. CASE served[n] # None
    BY <1>2, <2>2, RemovedTells DEF SupDisconnected
  <2>3. QED
    BY <2>1, <2>2
<1>3. ~SupShutdown
  BY DEF SupShutdown, Following
<1>4. QED
  BY <1>1, <1>2, <1>3 DEF SupervisorStep

LEMMA SessionTells ==
  ASSUME TypeOK, SignalsTell, SessionStep, Following, Following'
  PROVE  SignalsTell'
<1> USE DEF AroundEngine
<1>1. ASSUME NEW n \in Node, Retry(n)
      PROVE  SignalsTell'
  <2>1. CASE AttachDevice(n, retrying[n])
    <3>1. retrying[n] \in Usb
      BY <1>1 DEF TypeOK, Retry
    <3>2. QED
      BY <1>1, <2>1, <3>1, AttachTells DEF Retry
  <2>2. CASE NotAttached(n, None, TRUE)
    BY <1>1, <2>2, QuietTells DEF Retry, NotAttached, Quiet
  <2>3. QED
    BY <1>1, <2>1, <2>2 DEF Retry
<1>2. ASSUME NEW n \in Node, RequestFails(n)
      PROVE  SignalsTell'
  BY <1>2, RemovedTells DEF RequestFails
<1>3. ASSUME NEW n \in Node, EvictDead(n)
      PROVE  SignalsTell'
  <2>1. \A m \in Node \ silent' : m \notin silent /\ (served'[m] # None <=> served[m] # None)
    BY <1>3 DEF EvictDead, TypeOK
  <2>2. QED
    BY <1>3, <2>1, QuietTells DEF EvictDead, Quiet
<1>4. ASSUME NEW n \in Node, WorkerDies(n) \/ SetKeycode(n) \/ Commit(n)
      PROVE  SignalsTell'
  <2>1. \A m \in Node : served'[m] # None <=> served[m] # None
    <3>1. served \in [Node -> Session \cup {None}] /\ served[n] \in Session
      BY <1>4 DEF TypeOK, WorkerDies, SetKeycode, Commit, Serving
    <3>2. \/ served' = served
          \/ \E d \in BOOLEAN : served' = [served EXCEPT ![n].dirty = d]
          \/ served' = [served EXCEPT ![n].alive = FALSE]
      BY <1>4 DEF WorkerDies, SetKeycode, Commit
    <3>3. served'[n] \in Session /\ \A m \in Node : m # n => served'[m] = served[m]
      BY <3>1, <3>2 DEF Session
    <3>4. None \notin Session
      BY NoneAssumption DEF Session, Usb
    <3>5. QED
      BY <3>1, <3>3, <3>4
  <2>2. UNCHANGED <<signalled, silent>>
    BY <1>4 DEF WorkerDies, SetKeycode, Commit
  <2>3. CASE Publish("Layout", n)
    BY <2>1, <2>2, <2>3, LayoutTells
  <2>4. CASE Quiet
    BY <2>1, <2>2, <2>4, QuietTells DEF Quiet
  <2>5. QED
    BY <1>4, <2>3, <2>4 DEF WorkerDies, SetKeycode, Commit
<1>5. CASE SessionEnds
  BY <1>5, QuietTells DEF SessionEnds, Quiet
<1>6. QED
  BY <1>1, <1>2, <1>3, <1>4, <1>5 DEF SessionStep

LEMMA IpcTells ==
  ASSUME TypeOK, SignalsTell, IpcStep, Following, Following'
  PROVE  SignalsTell'
<1> USE DEF AroundIpc, registryVars
<1>1. CASE IpcConnects \/ SignalPumpLagged
  BY <1>1, QuietTells DEF IpcConnects, SignalPumpLagged
<1>2. CASE SignalPump
  <2>1. SUFFICES ASSUME NEW m \in Node \ silent, Sure(m)'
                 PROVE  Believed(m)' <=> served[m] # None
    BY <1>2 DEF SignalsTell, Sure, SignalPump
  <2>2. Sure(m) /\ (Believed(m)' <=> Believed(m))
    BY <1>2, <2>1, PumpTells DEF SameBelief
  <2>3. QED
    BY <2>2 DEF SignalsTell, Following, Sure
<1>3. ~IpcFails /\ ~SignalPumpClosed
  BY DEF IpcFails, SignalPumpClosed, Following, Receiving
<1>4. QED
  BY <1>1, <1>2, <1>3 DEF IpcStep

\* Nothing starts to be followed again: the IPC task, the process and the
\* supervisor end once.
LEMMA FollowingEnds ==
  ASSUME Next, Following'
  PROVE  Following
<1> USE DEF Next, MainStep, SupervisorStep, SessionStep, IpcStep, Plug, Unplug, TermSignal,
            IpcAwaited, scan_initial_devices, Seed, build_udev_monitor, SendShutdown, AbortIpc,
            JoinSupervisor, run_udev_pump, SupConnected, SupDisconnected, SupShutdown, Retry,
            RequestFails, WorkerDies, EvictDead, SetKeycode, Commit, SessionEnds, IpcConnects,
            IpcFails, SignalPumpLagged, SignalPump, SignalPumpClosed
<1>1. Receiving
  <2>1. ipc' = ipc \/ ipc = "starting" \/ ipc = "serving"
    BY DEF OnlyMainMoves, eventVars, AroundEngine, ipcVars
  <2>2. QED
    BY <2>1 DEF Following, Receiving
<1>2. main' = main \/ main \notin Ended
  BY DEF AroundEngine, AroundIpc, bootVars, Ended, Booting
<1>3. supervisor' = supervisor \/ supervisor' = "stopped"
  BY DEF OnlyMainMoves, Elsewhere, AroundIpc
<1>4. QED
  BY <1>1, <1>2, <1>3 DEF Following, Up

LEMMA NextTells ==
  ASSUME TypeOK, SignalsTell, Next
  PROVE  SignalsTell'
<1>1. CASE ~Following'
  BY <1>1 DEF SignalsTell, Following
<1>2. CASE Following'
  <2>1. Following
    BY <1>2, FollowingEnds
  <2>2. CASE \E n \in Movable : Plug(n) \/ Unplug(n)
    BY <2>1, <2>2, QuietTells DEF Plug, Unplug, registryVars, ipcVars
  <2>3. CASE AbortIpc
    BY <1>2, <2>1, <2>3 DEF AbortIpc, Following, Receiving
  <2>4. CASE TermSignal \/ (MainStep /\ ~AbortIpc)
    <3>1. UNCHANGED <<events, signalled, skipped, served, silent>>
      BY <2>4 DEF TermSignal, MainStep, IpcAwaited, scan_initial_devices, Seed,
         build_udev_monitor, SendShutdown, JoinSupervisor, OnlyMainMoves, Elsewhere,
         eventVars, registryVars
    <3>2. QED
      BY <2>1, <3>1, QuietTells
  <2>5. CASE run_udev_pump
    BY <2>1, <2>5, QuietTells DEF run_udev_pump, registryVars, ipcVars
  <2>6. CASE SupervisorStep \/ SessionStep \/ IpcStep
    BY <1>2, <2>1, <2>6, SupervisorTells, SessionTells, IpcTells
  <2>7. QED
    BY <2>2, <2>3, <2>4, <2>5, <2>6 DEF Next
<1>3. QED
  BY <1>1, <1>2

\* ipc/mod.rs, run_signal_pump: a client that follows DeviceAdded and DeviceRemoved
\* knows what the registry serves as soon as the pump has caught up, for any
\* capacity of the broadcast channel, unless a device's own last event was
\* overwritten or could not be emitted, or its dead worker was evicted.
THEOREM SignalsTellHolds == Spec => []SignalsTell
<1>1. Init => SignalsTell
  BY DEF Init, SignalsTell, Unread, Believed
<1>2. TypeOK /\ SignalsTell /\ [Next]_vars => SignalsTell'
  <2>1. SUFFICES ASSUME TypeOK, SignalsTell, [Next]_vars PROVE SignalsTell'
    OBVIOUS
  <2>2. CASE UNCHANGED vars
    BY <2>1, <2>2 DEF vars, SignalsTell, Receiving, Up, Unread, Believed
  <2>3. QED
    BY <2>1, <2>2, NextTells
<1>3. QED
  BY <1>1, <1>2, TypeCorrect, PTL DEF Spec

-----------------------------------------------------------------------------
(***************************************************************************)
(* The registry.  A removal makes everything before it in a channel        *)
(* obsolete: what is fresh in a queue is what no removal follows.  Fresh   *)
(* events and commands speak of what is on the bus now; a node without a   *)
(* removal on its way is served as what is on the bus; and a control       *)
(* interface on the bus is served, on its way, or accounted for.           *)
(***************************************************************************)
Has(s, R) == \E i \in DOMAIN s : s[i] \in R
Fresh(s, A, R) ==
  {e \in A : \E i \in DOMAIN s : s[i] = e /\ \A j \in DOMAIN s : j > i => s[j] \notin R}

LEMMA AppendHas ==
  ASSUME NEW S, NEW q \in Seq(S), NEW e \in S, NEW R
  PROVE  Has(Append(q, e), R) <=> (Has(q, R) \/ e \in R)
<1> DEFINE t == Append(q, e)
           l == Len(q)
<1>1. /\ l \in Nat /\ DOMAIN q = 1 .. l /\ DOMAIN t = 1 .. l + 1
      /\ t[l + 1] = e
      /\ \A i \in 1 .. l : t[i] = q[i]
  OBVIOUS
<1> HIDE DEF t, l
<1>2. ASSUME Has(t, R)
      PROVE  Has(q, R) \/ e \in R
  BY <1>1, <1>2 DEF Has
<1>3. ASSUME Has(q, R)
      PROVE  Has(t, R)
  <2>1. PICK i \in 1 .. l : q[i] \in R
    BY <1>1, <1>3 DEF Has
  <2>2. i \in DOMAIN t /\ t[i] = q[i]
    BY <1>1
  <2> QED  BY <2>1, <2>2 DEF Has
<1>4. ASSUME e \in R
      PROVE  Has(t, R)
  <2>1. l + 1 \in DOMAIN t
    BY <1>1
  <2> QED  BY <1>1, <1>4, <2>1 DEF Has
<1> QED  BY <1>2, <1>3, <1>4 DEF t

LEMMA AppendFresh ==
  ASSUME NEW S, NEW q \in Seq(S), NEW e \in S, NEW A, NEW R, A \cap R = {}
  PROVE  /\ e \in R => Fresh(Append(q, e), A, R) = {}
         /\ e \notin R => Fresh(Append(q, e), A, R) = Fresh(q, A, R) \cup ({e} \cap A)
<1> DEFINE t == Append(q, e)
           l == Len(q)
<1>1. /\ l \in Nat /\ DOMAIN q = 1 .. l /\ DOMAIN t = 1 .. l + 1
      /\ t[l + 1] = e
      /\ \A i \in 1 .. l : t[i] = q[i]
  OBVIOUS
<1> HIDE DEF t, l
<1>2. ASSUME e \in R
      PROVE  Fresh(t, A, R) = {}
  <2> SUFFICES ASSUME NEW f \in A, NEW i \in DOMAIN t, t[i] = f,
                      \A j \in DOMAIN t : j > i => t[j] \notin R
               PROVE  FALSE
    BY DEF Fresh
  <2>1. l + 1 \in DOMAIN t /\ i \in Nat /\ i <= l + 1
    BY <1>1
  <2>2. i = l + 1
    BY <2>1, <1>1, <1>2
  <2> QED  BY <2>2, <1>1, <1>2
<1>3. ASSUME e \notin R
      PROVE  Fresh(t, A, R) = Fresh(q, A, R) \cup ({e} \cap A)
  <2>1. ASSUME NEW f \in Fresh(t, A, R)
        PROVE  f \in Fresh(q, A, R) \cup ({e} \cap A)
    <3>1. PICK i \in DOMAIN t : f \in A /\ t[i] = f /\ \A j \in DOMAIN t : j > i => t[j] \notin R
      BY DEF Fresh
    <3>2. CASE i = l + 1
      BY <3>1, <3>2, <1>1
    <3>3. CASE i \in 1 .. l
      <4>1. q[i] = f /\ \A j \in DOMAIN q : j > i => q[j] \notin R
        BY <3>1, <3>3, <1>1
      <4> QED  BY <4>1, <3>1, <3>3, <1>1 DEF Fresh
    <3> QED  BY <3>2, <3>3, <1>1
  <2>2. ASSUME NEW f \in Fresh(q, A, R)
        PROVE  f \in Fresh(t, A, R)
    <3>1. PICK i \in DOMAIN q : f \in A /\ q[i] = f /\ \A j \in DOMAIN q : j > i => q[j] \notin R
      BY DEF Fresh
    <3>2. i \in DOMAIN t /\ t[i] = f
      BY <3>1, <1>1
    <3>3. ASSUME NEW j \in DOMAIN t, j > i
          PROVE  t[j] \notin R
      BY <3>1, <3>3, <1>1, <1>3
    <3> QED  BY <3>1, <3>2, <3>3 DEF Fresh
  <2>3. ASSUME e \in A
        PROVE  e \in Fresh(t, A, R)
    <3>1. l + 1 \in DOMAIN t /\ \A j \in DOMAIN t : ~(j > l + 1)
      BY <1>1
    <3> QED  BY <3>1, <2>3, <1>1 DEF Fresh
  <2> QED  BY <2>1, <2>2, <2>3
<1> QED  BY <1>2, <1>3 DEF t

LEMMA TailFresh ==
  ASSUME NEW S, NEW q \in Seq(S), q # <<>>, NEW A, NEW R
  PROVE  /\ Head(q) \in S
         /\ Has(q, R) <=> Has(Tail(q), R) \/ Head(q) \in R
         /\ Fresh(q, A, R) = Fresh(Tail(q), A, R)
              \cup (IF Has(Tail(q), R) THEN {} ELSE {Head(q)} \cap A)
<1> DEFINE t == Tail(q)
           l == Len(q)
           h == Head(q)
<1>1. /\ l \in Nat /\ l >= 1 /\ DOMAIN q = 1 .. l /\ DOMAIN t = 1 .. l - 1
      /\ q[1] = h /\ h \in S
      /\ \A i \in 1 .. l - 1 : t[i] = q[i + 1]
  OBVIOUS
<1> HIDE DEF t, l, h
<1>2. \A i \in DOMAIN t : i + 1 \in DOMAIN q /\ i + 1 > 1 /\ q[i + 1] = t[i]
  BY <1>1
<1>3. \A i \in DOMAIN q : i = 1 \/ (i - 1 \in DOMAIN t /\ t[i - 1] = q[i])
  BY <1>1
<1>4. Has(q, R) <=> Has(t, R) \/ h \in R
  <2>1. ASSUME Has(q, R)
        PROVE  Has(t, R) \/ h \in R
    BY <2>1, <1>1, <1>3 DEF Has
  <2>2. ASSUME Has(t, R)
        PROVE  Has(q, R)
    BY <2>2, <1>2 DEF Has
  <2>3. ASSUME h \in R
        PROVE  Has(q, R)
    BY <2>3, <1>1 DEF Has
  <2> QED  BY <2>1, <2>2, <2>3
<1>5. ASSUME NEW f \in Fresh(q, A, R)
      PROVE  f \in Fresh(t, A, R) \/ (~Has(t, R) /\ f = h /\ f \in A)
  <2>1. PICK i \in DOMAIN q : f \in A /\ q[i] = f /\ \A j \in DOMAIN q : j > i => q[j] \notin R
    BY DEF Fresh
  <2>2. CASE i = 1
    <3>1. \A j \in DOMAIN t : t[j] \notin R
      BY <2>1, <2>2, <1>2
    <3> QED  BY <3>1, <2>1, <2>2, <1>1 DEF Has
  <2>3. CASE i # 1
    <3>1. i - 1 \in DOMAIN t /\ t[i - 1] = f
      BY <2>1, <2>3, <1>3
    <3>2. ASSUME NEW j \in DOMAIN t, j > i - 1
          PROVE  t[j] \notin R
      <4>1. j + 1 \in DOMAIN q /\ q[j + 1] = t[j] /\ j + 1 > i
        BY <3>2, <1>1, <1>2
      <4> QED  BY <4>1, <2>1
    <3> QED  BY <3>1, <3>2, <2>1 DEF Fresh
  <2> QED  BY <2>2, <2>3
<1>6. ASSUME NEW f \in Fresh(t, A, R)
      PROVE  f \in Fresh(q, A, R)
  <2>1. PICK i \in DOMAIN t : f \in A /\ t[i] = f /\ \A j \in DOMAIN t : j > i => t[j] \notin R
    BY DEF Fresh
  <2>2. i + 1 \in DOMAIN q /\ q[i + 1] = f
    BY <2>1, <1>2
  <2>3. ASSUME NEW j \in DOMAIN q, j > i + 1
        PROVE  q[j] \notin R
    <3>1. j # 1 /\ j - 1 > i
      BY <2>3, <1>1
    <3> QED  BY <3>1, <2>1, <1>3
  <2> QED  BY <2>1, <2>2, <2>3 DEF Fresh
<1>7. ASSUME ~Has(t, R), h \in A
      PROVE  h \in Fresh(q, A, R)
  <2>1. \A j \in DOMAIN q : j > 1 => q[j] \notin R
    BY <1>1, <1>3, <1>7 DEF Has
  <2> QED  BY <2>1, <1>1, <1>7 DEF Fresh
<1>8. Fresh(q, A, R) = Fresh(t, A, R) \cup (IF Has(t, R) THEN {} ELSE {h} \cap A)
  BY <1>5, <1>6, <1>7
<1> QED  BY <1>1, <1>4, <1>8 DEF t, h

AddsOf(n) == {e \in UdevEvent : e.type = "Add" /\ e.node = n}
RemovesOf(n) == {e \in UdevEvent : e.type = "Remove" /\ e.node = n}
ConnectsOf(n) == {c \in Command : c.type = "Connected" /\ c.node = n}
DisconnectsOf(n) == {c \in Command : c.type = "Disconnected" /\ c.node = n}

RemovalHeard(n) == Has(udevQ, RemovesOf(n))
RemovalQueued(n) == Has(engineQ, DisconnectsOf(n))
\* A removal of the node is on its way to the supervisor.
Leaving(n) == RemovalHeard(n) \/ RemovalQueued(n)
FreshEvents(n) == Fresh(udevQ, AddsOf(n), RemovesOf(n))
FreshCommands(n) ==
  IF RemovalHeard(n) THEN {} ELSE Fresh(engineQ, ConnectsOf(n), DisconnectsOf(n))

SameQueues(n) ==
  /\ FreshEvents(n)' = FreshEvents(n)
  /\ FreshCommands(n)' = FreshCommands(n)
  /\ Leaving(n)' <=> Leaving(n)

LEMMA Disjoint ==
  ASSUME NEW n
  PROVE  AddsOf(n) \cap RemovesOf(n) = {} /\ ConnectsOf(n) \cap DisconnectsOf(n) = {}
  BY DEF AddsOf, RemovesOf, ConnectsOf, DisconnectsOf

LEMMA QueuesKept ==
  ASSUME NEW n, UNCHANGED <<udevQ, engineQ>>
  PROVE  SameQueues(n)
  BY DEF SameQueues, FreshEvents, FreshCommands, Leaving, RemovalHeard, RemovalQueued

\* The kernel announces a change.
LEMMA EventHeard ==
  ASSUME TypeOK, NEW e \in UdevEvent, udevQ' = Append(udevQ, e), UNCHANGED engineQ, NEW n
  PROVE  /\ e \in RemovesOf(n) =>
              FreshEvents(n)' = {} /\ FreshCommands(n)' = {} /\ Leaving(n)'
         /\ e \in AddsOf(n) =>
              /\ FreshEvents(n)' = FreshEvents(n) \cup {e}
              /\ FreshCommands(n)' = FreshCommands(n)
              /\ Leaving(n)' <=> Leaving(n)
         /\ e.node # n => SameQueues(n)
<1>1. udevQ \in Seq(UdevEvent)
  BY DEF TypeOK
<1>2. /\ Has(udevQ', RemovesOf(n)) <=> Has(udevQ, RemovesOf(n)) \/ e \in RemovesOf(n)
      /\ e \in RemovesOf(n) => Fresh(udevQ', AddsOf(n), RemovesOf(n)) = {}
      /\ e \notin RemovesOf(n) =>
           Fresh(udevQ', AddsOf(n), RemovesOf(n)) =
             Fresh(udevQ, AddsOf(n), RemovesOf(n)) \cup ({e} \cap AddsOf(n))
  <2> DEFINE A == AddsOf(n)
             R == RemovesOf(n)
  <2>1. A \cap R = {}
    BY Disjoint
  <2> HIDE DEF A, R
  <2>2. Has(Append(udevQ, e), R) <=> (Has(udevQ, R) \/ e \in R)
    BY <1>1, AppendHas
  <2>3. e \in R => Fresh(Append(udevQ, e), A, R) = {}
    BY <1>1, <2>1, AppendFresh
  <2>4. e \notin R => Fresh(Append(udevQ, e), A, R) = Fresh(udevQ, A, R) \cup ({e} \cap A)
    BY <1>1, <2>1, AppendFresh
  <2> QED  BY <2>2, <2>3, <2>4 DEF A, R
<1>3. /\ RemovalHeard(n)' <=> RemovalHeard(n) \/ e \in RemovesOf(n)
      /\ RemovalQueued(n)' <=> RemovalQueued(n)
  BY <1>2 DEF RemovalHeard, RemovalQueued
<1>4. /\ e \in RemovesOf(n) => FreshEvents(n)' = {}
      /\ e \notin RemovesOf(n) => FreshEvents(n)' = FreshEvents(n) \cup ({e} \cap AddsOf(n))
  BY <1>2 DEF FreshEvents
<1>5. /\ e \in RemovesOf(n) => FreshCommands(n)' = {}
      /\ e \notin RemovesOf(n) => FreshCommands(n)' = FreshCommands(n)
  BY <1>3 DEF FreshCommands
<1>6. e \in AddsOf(n) => e \notin RemovesOf(n)
  BY Disjoint
<1>7. e.node # n => e \notin RemovesOf(n) /\ e \notin AddsOf(n)
  BY DEF AddsOf, RemovesOf
<1>8. CASE e \in RemovesOf(n)
  BY <1>8, <1>3, <1>4, <1>5, <1>6, <1>7 DEF Leaving
<1>9. CASE e \in AddsOf(n)
  BY <1>9, <1>3, <1>4, <1>5, <1>6, <1>7 DEF Leaving
<1>10. CASE e \notin RemovesOf(n) /\ e \notin AddsOf(n)
  <2>1. {e} \cap AddsOf(n) = {}
    BY <1>10
  <2> QED  BY <1>10, <2>1, <1>3, <1>4, <1>5 DEF Leaving, SameQueues
<1> QED  BY <1>8, <1>9, <1>10

\* The scan sends a node's command.
LEMMA CommandSent ==
  ASSUME TypeOK, NEW c \in Command, engineQ' = Append(engineQ, c), UNCHANGED udevQ, NEW n,
         c \notin DisconnectsOf(n)
  PROVE  /\ FreshEvents(n)' = FreshEvents(n)
         /\ Leaving(n)' <=> Leaving(n)
         /\ c \notin ConnectsOf(n) => FreshCommands(n)' = FreshCommands(n)
         /\ c \in ConnectsOf(n) =>
              FreshCommands(n)' = IF RemovalHeard(n) THEN {} ELSE FreshCommands(n) \cup {c}
<1>1. engineQ \in Seq(Command)
  BY DEF TypeOK
<1>2. /\ Has(engineQ', DisconnectsOf(n)) <=> Has(engineQ, DisconnectsOf(n))
      /\ Fresh(engineQ', ConnectsOf(n), DisconnectsOf(n)) =
           Fresh(engineQ, ConnectsOf(n), DisconnectsOf(n)) \cup ({c} \cap ConnectsOf(n))
  <2> DEFINE A == ConnectsOf(n)
             R == DisconnectsOf(n)
  <2>1. A \cap R = {}
    BY Disjoint
  <2> HIDE DEF A, R
  <2>2. Has(Append(engineQ, c), R) <=> (Has(engineQ, R) \/ c \in R)
    BY <1>1, AppendHas
  <2>3. c \notin R => Fresh(Append(engineQ, c), A, R) = Fresh(engineQ, A, R) \cup ({c} \cap A)
    BY <1>1, <2>1, AppendFresh
  <2> QED  BY <2>2, <2>3 DEF A, R
<1>3. /\ RemovalHeard(n)' <=> RemovalHeard(n)
      /\ RemovalQueued(n)' <=> RemovalQueued(n)
  BY <1>2 DEF RemovalHeard, RemovalQueued
<1>4. FreshEvents(n)' = FreshEvents(n)
  BY DEF FreshEvents
<1>5. FreshCommands(n)' = IF RemovalHeard(n) THEN {} ELSE FreshCommands(n) \cup ({c} \cap ConnectsOf(n))
  BY <1>2, <1>3 DEF FreshCommands
<1>6. /\ c \in ConnectsOf(n) => {c} \cap ConnectsOf(n) = {c}
      /\ c \notin ConnectsOf(n) => {c} \cap ConnectsOf(n) = {}
  OBVIOUS
<1>7. c \notin ConnectsOf(n) => FreshCommands(n)' = FreshCommands(n)
  BY <1>5, <1>6 DEF FreshCommands
<1>8. c \in ConnectsOf(n) =>
        FreshCommands(n)' = IF RemovalHeard(n) THEN {} ELSE FreshCommands(n) \cup {c}
  BY <1>5, <1>6
<1> QED  BY <1>3, <1>4, <1>7, <1>8 DEF Leaving

\* The supervisor takes a command.
LEMMA CommandTaken ==
  ASSUME TypeOK, NEW c, Receive(c), UNCHANGED udevQ, NEW n
  PROVE  /\ c \in Command
         /\ FreshEvents(n)' = FreshEvents(n)
         /\ c \notin ConnectsOf(n) => FreshCommands(n)' = FreshCommands(n)
         /\ c \notin DisconnectsOf(n) => (Leaving(n)' <=> Leaving(n))
         /\ c \in DisconnectsOf(n) => Leaving(n)
         /\ c \in ConnectsOf(n) =>
              FreshCommands(n) = FreshCommands(n)' \cup (IF Leaving(n) THEN {} ELSE {c})
<1>1. engineQ \in Seq(Command) /\ engineQ # <<>> /\ Head(engineQ) = c /\ engineQ' = Tail(engineQ)
  BY DEF TypeOK, Receive
<1>2. /\ c \in Command
      /\ Has(engineQ, DisconnectsOf(n)) <=> Has(engineQ', DisconnectsOf(n)) \/ c \in DisconnectsOf(n)
      /\ Fresh(engineQ, ConnectsOf(n), DisconnectsOf(n)) =
           Fresh(engineQ', ConnectsOf(n), DisconnectsOf(n))
             \cup (IF Has(engineQ', DisconnectsOf(n)) THEN {} ELSE {c} \cap ConnectsOf(n))
  BY <1>1, TailFresh
<1>3. /\ RemovalHeard(n)' <=> RemovalHeard(n)
      /\ RemovalQueued(n) <=> RemovalQueued(n)' \/ c \in DisconnectsOf(n)
  BY <1>2 DEF RemovalHeard, RemovalQueued
<1>4. FreshEvents(n)' = FreshEvents(n)
  BY DEF FreshEvents
<1>5. c \notin ConnectsOf(n) => FreshCommands(n)' = FreshCommands(n)
  BY <1>2, <1>3 DEF FreshCommands
<1>6. ASSUME c \in ConnectsOf(n)
      PROVE  FreshCommands(n) = FreshCommands(n)' \cup (IF Leaving(n) THEN {} ELSE {c})
  <2>1. c \notin DisconnectsOf(n) /\ {c} \cap ConnectsOf(n) = {c}
    BY <1>6, Disjoint
  <2>2. RemovalQueued(n) <=> Has(engineQ', DisconnectsOf(n))
    BY <2>1, <1>2 DEF RemovalQueued
  <2>3. CASE RemovalHeard(n)
    BY <2>3, <1>3 DEF FreshCommands, Leaving
  <2>4. CASE ~RemovalHeard(n)
    BY <2>1, <2>2, <2>4, <1>2, <1>3 DEF FreshCommands, Leaving
  <2> QED  BY <2>3, <2>4
<1> QED  BY <1>2, <1>3, <1>4, <1>5, <1>6 DEF Leaving

\* The pump takes an event.
LEMMA EventPumped ==
  ASSUME TypeOK, udevQ # <<>>, udevQ' = Tail(udevQ), NEW n
  PROVE  /\ Head(udevQ) \in UdevEvent
         /\ RemovalHeard(n) <=> RemovalHeard(n)' \/ Head(udevQ) \in RemovesOf(n)
         /\ FreshEvents(n) = FreshEvents(n)'
              \cup (IF RemovalHeard(n)' THEN {} ELSE {Head(udevQ)} \cap AddsOf(n))
<1>1. udevQ \in Seq(UdevEvent)
  BY DEF TypeOK
<1>2. /\ Head(udevQ) \in UdevEvent
      /\ Has(udevQ, RemovesOf(n)) <=> Has(udevQ', RemovesOf(n)) \/ Head(udevQ) \in RemovesOf(n)
      /\ Fresh(udevQ, AddsOf(n), RemovesOf(n)) =
           Fresh(udevQ', AddsOf(n), RemovesOf(n))
             \cup (IF Has(udevQ', RemovesOf(n)) THEN {} ELSE {Head(udevQ)} \cap AddsOf(n))
  BY <1>1, TailFresh
<1> QED  BY <1>2 DEF RemovalHeard, FreshEvents

SeedsOf(n) == {c \in seeds : c.node = n}
IsOf(usb, n) == bus[n] \in Interface /\ usb = UsbOf[bus[n]]

\* What is fresh is of the interface on the bus.
Current(n) ==
  /\ \A e \in FreshEvents(n) : e.iface = bus[n]
  /\ \A c \in FreshCommands(n) \cup SeedsOf(n) : IsOf(c.usb, n)

\* Without a removal on its way a session or a reconnection is of the interface on the bus.
Settled(n) ==
  ~Leaving(n) =>
    /\ served[n] # None => /\ bus[n] \in Controls
                           /\ served[n].iface = bus[n]
                           /\ IsOf(served[n].usb, n)
    /\ retrying[n] # None => IsOf(retrying[n], n)

\* A control interface on the bus is on its way to the supervisor or has been there.
Accounted(n) ==
  /\ ~Leaving(n)
  /\ served[n] # None \/ retrying[n] # None \/ n \in failed \/ n \in silent
Expected(n) ==
  bus[n] \in Controls =>
    \/ SeedsOf(n) # {} \/ FreshCommands(n) # {} \/ FreshEvents(n) # {}
    \/ Accounted(n)

Tracked(n) == Current(n) /\ Settled(n) /\ Expected(n)

Shutdowns == {c \in Command : c.type = "Shutdown"}
Unscanned == main \in {"awaitingIpc", "scanning"}
Tracking == main \in {"seeding", "opening", "running"}
BootShape ==
  /\ \A c \in seeds : c.type = "Connected"
  /\ Unscanned => /\ engineQ = <<>> /\ udevQ = <<>> /\ seeds = {}
                  /\ \A n \in Node : served[n] = None /\ retrying[n] = None
  /\ main = "seeding" => udevQ = <<>>
  /\ main \in {"opening", "running"} => seeds = {}
  /\ Tracking => ~Has(engineQ, Shutdowns)

RegistryInv ==
  /\ BootShape
  /\ Tracking => \A n \in Node \ unwatched : Tracked(n)

\* A node nothing happened to.
LEMMA TrackedKept ==
  ASSUME NEW n, Tracked(n), SameQueues(n), SeedsOf(n)' = SeedsOf(n),
         bus'[n] = bus[n], served'[n] = served[n], retrying'[n] = retrying[n],
         n \in failed => n \in failed', n \in silent => n \in silent'
  PROVE  Tracked(n)'
<1>1. Current(n)'
  BY DEF Tracked, Current, SameQueues, IsOf
<1>2. Settled(n)'
  BY DEF Tracked, Settled, SameQueues, IsOf
<1>3. Expected(n)'
  BY DEF Tracked, Expected, Accounted, SameQueues
<1> QED  BY <1>1, <1>2, <1>3 DEF Tracked

LEMMA EmptyQueues ==
  ASSUME udevQ = <<>>, engineQ = <<>>, NEW n
  PROVE  FreshEvents(n) = {} /\ FreshCommands(n) = {} /\ ~Leaving(n)
<1>1. DOMAIN udevQ = {} /\ DOMAIN engineQ = {}
  OBVIOUS
<1>2. FreshEvents(n) = {}
  BY <1>1 DEF FreshEvents, Fresh
<1>3. FreshCommands(n) = {}
  BY <1>1 DEF FreshCommands, Fresh
<1>4. ~Leaving(n)
  BY <1>1 DEF Leaving, RemovalHeard, RemovalQueued, Has
<1> QED  BY <1>2, <1>3, <1>4

LEMMA MoveTracks ==
  ASSUME TypeOK, RegistryInv, NEW n \in Movable, Plug(n) \/ Unplug(n)
  PROVE  RegistryInv'
<1> USE DEF bootVars, registryVars
<1>1. BootShape
  BY DEF RegistryInv
<1>2. /\ UNCHANGED <<main, seeds, engineQ, served, retrying, failed, silent>>
      /\ n \in Node
  BY InterfacesAssumption DEF Plug, Unplug
<1>3. ~Monitoring => UNCHANGED udevQ
  BY DEF Plug, Unplug, Heard
<1>4. BootShape'
  BY <1>1, <1>2, <1>3 DEF BootShape, Unscanned, Tracking, Monitoring
<1>5. ASSUME Tracking, NEW m \in Node \ unwatched'
      PROVE  Tracked(m)'
  <2>1. SeedsOf(m)' = SeedsOf(m)
    BY <1>2 DEF SeedsOf
  <2>2. bus \in [Node -> Interface \cup {Absent}]
    BY DEF TypeOK
  <2>3. m # n => bus'[m] = bus[m]
    BY <2>2 DEF Plug, Unplug
  <2>4. m # n => m \notin unwatched
    BY <1>5 DEF Plug, Unplug, Heard
  <2>5. m # n => Tracked(m)
    BY <2>4, <1>5 DEF RegistryInv
  <2>6. CASE ~Monitoring
    <3>1. m # n
      BY <2>6, <1>5 DEF Plug, Unplug, Heard, Monitoring, Tracking, Booting
    <3>2. SameQueues(m)
      BY <2>6, <1>2, <1>3, QueuesKept
    <3> QED  BY <3>1, <3>2, <2>1, <2>3, <2>5, <1>2, TrackedKept
  <2>7. CASE Monitoring
    <3>1. seeds = {} /\ SeedsOf(m)' = {}
      BY <2>7, <1>1, <1>2, <1>5 DEF BootShape, Monitoring, Tracking, SeedsOf
    <3>2. PICK x \in Interface :
            \/ /\ bus[n] = Absent /\ bus' = [bus EXCEPT ![n] = x]
               /\ udevQ' = Append(udevQ, [type |-> "Add", node |-> n, iface |-> x])
               /\ unwatched' = unwatched
            \/ /\ bus[n] = x /\ bus' = [bus EXCEPT ![n] = Absent]
               /\ udevQ' = Append(udevQ, [type |-> "Remove", node |-> n, iface |-> x])
      <4>1. CASE Plug(n)
        <5>1. PICK x \in Interface : bus' = [bus EXCEPT ![n] = x] /\ Heard(n, "Add", x)
          BY <4>1 DEF Plug
        <5> QED  BY <4>1, <5>1, <2>7 DEF Plug, Heard
      <4>2. CASE Unplug(n)
        <5>1. bus[n] \in Interface
          BY <4>2, <2>2, <1>2 DEF Unplug
        <5> QED  BY <4>2, <5>1, <2>7 DEF Unplug, Heard
      <4> QED  BY <4>1, <4>2
    <3>3. CASE m # n
      <4>1. PICK e1 \in UdevEvent : e1.node = n /\ udevQ' = Append(udevQ, e1)
        <5>1. /\ [type |-> "Add", node |-> n, iface |-> x] \in UdevEvent
              /\ [type |-> "Remove", node |-> n, iface |-> x] \in UdevEvent
          BY <1>2 DEF UdevEvent
        <5> QED  BY <5>1, <3>2
      <4>2. SameQueues(m)
        BY <4>1, <3>3, <1>2, EventHeard
      <4> QED  BY <4>2, <3>3, <2>1, <2>3, <2>5, <1>2, TrackedKept
    <3>4. CASE /\ m = n /\ bus[n] = Absent /\ bus' = [bus EXCEPT ![n] = x]
               /\ udevQ' = Append(udevQ, [type |-> "Add", node |-> n, iface |-> x])
               /\ unwatched' = unwatched
      <4> DEFINE a == [type |-> "Add", node |-> n, iface |-> x]
      <4>1. a \in UdevEvent /\ a \in AddsOf(m) /\ a.iface = x
        BY <3>4, <1>2 DEF UdevEvent, AddsOf
      <4> HIDE DEF a
      <4>2. /\ FreshEvents(m)' = FreshEvents(m) \cup {a}
            /\ FreshCommands(m)' = FreshCommands(m)
            /\ Leaving(m)' <=> Leaving(m)
        BY <4>1, <3>4, <1>2, EventHeard DEF a
      <4>3. Tracked(m)
        BY <3>4, <1>5 DEF RegistryInv
      <4>4. bus'[m] = x
        BY <3>4, <2>2, <1>2
      <4>5. bus[m] \notin Interface /\ bus[m] \notin Controls
        BY <3>4, InterfacesAssumption DEF Controls
      <4>6. FreshCommands(m) = {}
        BY <4>3, <4>5 DEF Tracked, Current, IsOf
      <4>7. FreshEvents(m) = {}
        <5>1. \A f \in FreshEvents(m) : f.iface \in Interface
          BY DEF FreshEvents, Fresh, AddsOf, UdevEvent
        <5> QED  BY <5>1, <4>3, <4>5 DEF Tracked, Current
      <4>8. Current(m)'
        BY <4>1, <4>2, <4>4, <4>6, <4>7, <3>1 DEF Current
      <4>9. Settled(m)'
        BY <4>2, <4>3, <4>5, <1>2 DEF Tracked, Settled, IsOf
      <4>10. Expected(m)'
        BY <4>2 DEF Expected
      <4> QED  BY <4>8, <4>9, <4>10 DEF Tracked
    <3>5. CASE /\ m = n /\ bus' = [bus EXCEPT ![n] = Absent]
               /\ udevQ' = Append(udevQ, [type |-> "Remove", node |-> n, iface |-> x])
      <4> DEFINE r == [type |-> "Remove", node |-> n, iface |-> x]
      <4>1. r \in UdevEvent /\ r \in RemovesOf(m)
        BY <3>5, <1>2 DEF UdevEvent, RemovesOf
      <4> HIDE DEF r
      <4>2. FreshEvents(m)' = {} /\ FreshCommands(m)' = {} /\ Leaving(m)'
        BY <4>1, <3>5, <1>2, EventHeard DEF r
      <4>3. bus'[m] \notin Controls
        BY <3>5, <2>2, <1>2, InterfacesAssumption DEF Controls
      <4> QED  BY <4>2, <4>3, <3>1 DEF Tracked, Current, Settled, Expected
    <3> QED  BY <3>2, <3>3, <3>4, <3>5
  <2> QED  BY <2>6, <2>7
<1> QED  BY <1>1, <1>2, <1>4, <1>5 DEF RegistryInv, Tracking

LEMMA ScanTracks ==
  ASSUME TypeOK, RegistryInv, scan_initial_devices
  PROVE  RegistryInv'
<1> USE DEF Goto, Elsewhere, eventVars, registryVars
<1>1. /\ UNCHANGED <<bus, udevQ, engineQ, served, retrying, failed, silent>>
      /\ main = "scanning" /\ main' = "seeding"
  BY DEF scan_initial_devices
<1>2. /\ engineQ = <<>> /\ udevQ = <<>>
      /\ \A n \in Node : served[n] = None /\ retrying[n] = None
  BY <1>1 DEF RegistryInv, BootShape, Unscanned
<1>3. \A c \in seeds' : c.type = "Connected"
  <2>1. CASE seeds' = UNION {device_to_connect_command(n, UsbOf[bus[n]]) : n \in Present}
    BY <2>1 DEF device_to_connect_command
  <2>2. CASE seeds' = {}
    BY <2>2
  <2> QED  BY <2>1, <2>2 DEF scan_initial_devices
<1>4. ~Has(engineQ, Shutdowns)
  BY <1>2 DEF Has
<1>5. BootShape'
  BY <1>1, <1>2, <1>3, <1>4 DEF BootShape, Unscanned, Tracking, Has
<1>6. ASSUME NEW n \in Node \ unwatched'
      PROVE  Tracked(n)'
  <2>1. FreshEvents(n)' = {} /\ FreshCommands(n)' = {} /\ ~Leaving(n)'
    <3>1. FreshEvents(n) = {} /\ FreshCommands(n) = {} /\ ~Leaving(n)
      BY <1>2, EmptyQueues
    <3>2. SameQueues(n)
      BY <1>1, QueuesKept
    <3> QED  BY <3>1, <3>2 DEF SameQueues
  <2>2. bus \in [Node -> Interface \cup {Absent}]
    BY DEF TypeOK
  <2>3. CASE seeds' = UNION {device_to_connect_command(m, UsbOf[bus[m]]) : m \in Present}
    <3>1. ASSUME NEW c \in SeedsOf(n)'
          PROVE  IsOf(c.usb, n)'
      <4>1. c \in seeds' /\ c.node = n
        BY DEF SeedsOf
      <4>2. PICK m \in Present : c \in device_to_connect_command(m, UsbOf[bus[m]])
        BY <4>1, <2>3
      <4>3. c.node = m /\ c.usb = UsbOf[bus[m]]
        BY <4>2 DEF device_to_connect_command
      <4>4. bus[m] \in Interface
        BY <2>2 DEF Present
      <4> QED  BY <4>1, <4>3, <4>4, <1>1 DEF IsOf
    <3>2. ASSUME bus[n] \in Controls
          PROVE  SeedsOf(n)' # {}
      <4> DEFINE c == [type |-> "Connected", node |-> n, usb |-> UsbOf[bus[n]]]
      <4>1. bus[n] \in Interface /\ UsbOf[bus[n]] # NoUsb
        BY <3>2 DEF Controls, Control
      <4>2. n \in Present
        BY <4>1, InterfacesAssumption DEF Present
      <4>3. c \in device_to_connect_command(n, UsbOf[bus[n]])
        BY <4>1 DEF device_to_connect_command
      <4>4. c \in seeds' /\ c.node = n
        BY <4>2, <4>3, <2>3
      <4> QED  BY <4>4 DEF SeedsOf
    <3> QED  BY <3>1, <3>2, <2>1, <1>1, <1>2 DEF Tracked, Current, Settled, Expected
  <2>4. CASE seeds' = {} /\ unwatched' = Present
    <3>1. bus[n] = Absent
      BY <2>4, <1>6 DEF Present
    <3>2. bus[n] \notin Controls
      BY <3>1, InterfacesAssumption DEF Controls
    <3>3. SeedsOf(n)' = {}
      BY <2>4 DEF SeedsOf
    <3> QED  BY <3>2, <3>3, <2>1, <1>1, <1>2 DEF Tracked, Current, Settled, Expected
  <2> QED  BY <2>3, <2>4 DEF scan_initial_devices
<1> QED  BY <1>5, <1>6 DEF RegistryInv

LEMMA SeedTracks ==
  ASSUME TypeOK, RegistryInv, Seed
  PROVE  RegistryInv'
<1> USE DEF Goto, Elsewhere, eventVars, registryVars
<1>1. /\ UNCHANGED <<bus, udevQ, unwatched, served, retrying, failed, silent>>
      /\ main = "seeding"
  BY DEF Seed
<1>2. /\ udevQ = <<>> /\ ~Has(engineQ, Shutdowns)
      /\ \A c \in seeds : c.type = "Connected"
      /\ \A n \in Node \ unwatched : Tracked(n)
  BY <1>1 DEF RegistryInv, BootShape, Tracking
<1>3. ASSUME NEW c \in seeds, engineQ' = Append(engineQ, c), seeds' = seeds \ {c}, UNCHANGED main
      PROVE  RegistryInv'
  <2>1. c \in Command /\ c.type = "Connected" /\ engineQ \in Seq(Command)
    BY <1>2 DEF TypeOK
  <2>2. ~Has(engineQ', Shutdowns)
    <3>1. c \notin Shutdowns
      BY <2>1 DEF Shutdowns
    <3>2. Has(Append(engineQ, c), Shutdowns) <=> (Has(engineQ, Shutdowns) \/ c \in Shutdowns)
      BY <2>1, AppendHas
    <3> QED  BY <3>1, <3>2, <1>2, <1>3
  <2>3. BootShape'
    BY <2>2, <1>1, <1>2, <1>3 DEF BootShape, Unscanned, Tracking
  <2>4. ASSUME NEW n \in Node \ unwatched
        PROVE  Tracked(n)'
    <3>1. Tracked(n)
      BY <1>2
    <3>2. c \notin DisconnectsOf(n)
      BY <2>1 DEF DisconnectsOf
    <3>3. /\ FreshEvents(n)' = FreshEvents(n)
          /\ Leaving(n)' <=> Leaving(n)
          /\ c \notin ConnectsOf(n) => FreshCommands(n)' = FreshCommands(n)
          /\ c \in ConnectsOf(n) =>
               FreshCommands(n)' = IF RemovalHeard(n) THEN {} ELSE FreshCommands(n) \cup {c}
      BY <2>1, <3>2, <1>1, <1>3, CommandSent
    <3>4. CASE c.node # n
      <4>1. c \notin ConnectsOf(n)
        BY <3>4 DEF ConnectsOf
      <4>2. SameQueues(n)
        BY <4>1, <3>3 DEF SameQueues
      <4>3. SeedsOf(n)' = SeedsOf(n)
        BY <3>4, <1>3 DEF SeedsOf
      <4> QED  BY <4>2, <4>3, <3>1, <1>1, TrackedKept
    <3>5. CASE c.node = n
      <4>1. c \in ConnectsOf(n) /\ c \in SeedsOf(n)
        BY <3>5, <2>1 DEF ConnectsOf, SeedsOf
      <4>2. ~RemovalHeard(n)
        BY <1>2 DEF RemovalHeard, Has
      <4>3. FreshCommands(n)' = FreshCommands(n) \cup {c}
        BY <4>1, <4>2, <3>3
      <4>4. SeedsOf(n)' \subseteq SeedsOf(n)
        BY <1>3 DEF SeedsOf
      <4>5. Current(n)'
        <5>1. \A d \in FreshCommands(n)' \cup SeedsOf(n)' : IsOf(d.usb, n)
          BY <4>1, <4>3, <4>4, <3>1 DEF Tracked, Current
        <5>2. \A d : IsOf(d.usb, n)' <=> IsOf(d.usb, n)
          BY <1>1 DEF IsOf
        <5>3. \A e \in FreshEvents(n)' : e.iface = bus'[n]
          BY <3>1, <3>3, <1>1 DEF Tracked, Current
        <5> QED  BY <5>1, <5>2, <5>3 DEF Current
      <4>6. Settled(n)'
        BY <3>1, <3>3, <1>1 DEF Tracked, Settled, IsOf
      <4>7. Expected(n)'
        BY <4>3 DEF Expected
      <4> QED  BY <4>5, <4>6, <4>7 DEF Tracked
    <3> QED  BY <3>4, <3>5
  <2> QED  BY <2>3, <2>4, <1>1 DEF RegistryInv
<1>4. CASE seeds = {} /\ main' = "opening" /\ UNCHANGED <<engineQ, seeds>>
  <2>1. BootShape'
    BY <1>1, <1>2, <1>4 DEF BootShape, Unscanned, Tracking
  <2>2. ASSUME NEW n \in Node \ unwatched
        PROVE  Tracked(n)'
    <3>1. SameQueues(n) /\ SeedsOf(n)' = SeedsOf(n)
      BY <1>1, <1>4, QueuesKept DEF SeedsOf
    <3> QED  BY <3>1, <1>1, <1>2, TrackedKept
  <2> QED  BY <2>1, <2>2, <1>1 DEF RegistryInv
<1> QED  BY <1>3, <1>4 DEF Seed

LEMMA MainTracks ==
  ASSUME TypeOK, RegistryInv, TermSignal \/ MainStep
  PROVE  RegistryInv'
<1> USE DEF Goto, Elsewhere, OnlyMainMoves, eventVars, registryVars
<1>1. BootShape
  BY DEF RegistryInv
<1>2. CASE IpcAwaited
  <2>1. BootShape'
    BY <1>1, <1>2 DEF BootShape, IpcAwaited, Unscanned, Tracking
  <2>2. ~Tracking'
    BY <1>2 DEF IpcAwaited, Tracking
  <2> QED  BY <2>1, <2>2, <1>1 DEF RegistryInv
<1>3. CASE build_udev_monitor
  <2>1. /\ UNCHANGED <<bus, udevQ, seeds, engineQ, unwatched, served, retrying, failed, silent>>
        /\ main = "opening" /\ main' \in {"running", "bootFailed"}
    BY <1>3 DEF build_udev_monitor
  <2>2. BootShape'
    BY <2>1, <1>1 DEF BootShape, Unscanned, Tracking
  <2>3. ASSUME NEW n \in Node \ unwatched
        PROVE  Tracked(n)'
    <3>1. SameQueues(n) /\ SeedsOf(n)' = SeedsOf(n)
      BY <2>1, QueuesKept DEF SeedsOf
    <3>2. Tracked(n)
      BY <2>1 DEF RegistryInv, Tracking
    <3> QED  BY <3>1, <3>2, <2>1, TrackedKept
  <2> QED  BY <2>1, <2>2, <2>3, <1>1 DEF RegistryInv
<1>4. CASE TermSignal \/ SendShutdown \/ AbortIpc \/ JoinSupervisor
  <2>1. main' \in {"killed", "stopping", "closing", "joining", "exited"} /\ UNCHANGED seeds
    BY <1>4 DEF TermSignal, SendShutdown, AbortIpc, JoinSupervisor
  <2>2. BootShape'
    BY <2>1, <1>1 DEF BootShape, Unscanned, Tracking
  <2>3. ~Tracking'
    BY <2>1 DEF Tracking
  <2> QED  BY <2>2, <2>3, <1>1 DEF RegistryInv
<1> QED  BY <1>2, <1>3, <1>4, ScanTracks, SeedTracks DEF MainStep

LEMMA PumpTracks ==
  ASSUME TypeOK, RegistryInv, run_udev_pump
  PROVE  RegistryInv'
<1> DEFINE e == Head(udevQ)
<1> USE DEF bootVars, registryVars
<1>1. BootShape
  BY DEF RegistryInv
<1>2. /\ UNCHANGED <<bus, unwatched, main, seeds, served, retrying, failed, silent>>
      /\ main \in {"running", "stopping"}
      /\ udevQ # <<>> /\ udevQ' = Tail(udevQ)
  BY DEF run_udev_pump
<1>3. PICK cmd \in event_to_command(e) :
        \/ cmd = {} /\ UNCHANGED engineQ
        \/ \E c \in cmd : engineQ' = Append(engineQ, c)
  BY DEF run_udev_pump
<1>4. CASE main = "stopping"
  <2>1. ~Tracking' /\ BootShape'
    BY <1>1, <1>2, <1>4 DEF BootShape, Tracking, Unscanned
  <2> QED  BY <2>1, <1>1 DEF RegistryInv
<1>5. CASE main = "running"
  <2>1. /\ engineQ \in Seq(Command)
        /\ bus \in [Node -> Interface \cup {Absent}]
        /\ seeds = {} /\ ~Has(engineQ, Shutdowns)
        /\ \A n \in Node \ unwatched : Tracked(n)
    BY <1>1, <1>5 DEF TypeOK, BootShape, Tracking, RegistryInv
  <2>2. e \in UdevEvent
    BY <1>2, EventPumped
  <2>3. e.node \in Node /\ e.iface \in Interface /\ e.type \in {"Add", "Remove"}
    BY <2>2 DEF UdevEvent
  <2>4. cmd \subseteq Command
    BY <2>2, <1>3, EventCommands
  <2> HIDE DEF e
  <2>5. e.type = "Remove" => cmd = {[type |-> "Disconnected", node |-> e.node]}
    BY <1>3 DEF event_to_command
  <2>6. ASSUME e.type = "Add"
        PROVE  \E usb \in Attributes(e) : cmd = device_to_connect_command(e.node, usb)
    BY <1>3, <2>6 DEF event_to_command
  <2>7. ASSUME e.type = "Add", NEW c \in cmd
        PROVE  c.type = "Connected" /\ c.node = e.node /\ c.usb \in Attributes(e)
    BY <2>6, <2>7 DEF device_to_connect_command
  <2>8. \A c \in cmd : c \notin Shutdowns
    BY <2>3, <2>5, <2>7 DEF Shutdowns
  <2>9. ~Has(engineQ', Shutdowns)
    <3>1. CASE UNCHANGED engineQ
      BY <3>1, <2>1
    <3>2. ASSUME NEW c \in cmd, engineQ' = Append(engineQ, c)
          PROVE  ~Has(engineQ', Shutdowns)
      <4>1. Has(Append(engineQ, c), Shutdowns) <=> (Has(engineQ, Shutdowns) \/ c \in Shutdowns)
        BY <3>2, <2>1, <2>4, AppendHas
      <4> QED  BY <4>1, <3>2, <2>1, <2>8
    <3> QED  BY <3>1, <3>2, <1>3
  <2>10. BootShape'
    BY <2>1, <2>9, <1>2, <1>5 DEF BootShape, Tracking, Unscanned
  <2>11. ASSUME NEW n \in Node \ unwatched
         PROVE  Tracked(n)'
    <3> DEFINE q == Fresh(engineQ, ConnectsOf(n), DisconnectsOf(n))
               qq == Fresh(engineQ', ConnectsOf(n), DisconnectsOf(n))
    <3>1. Tracked(n) /\ SeedsOf(n) = {} /\ SeedsOf(n)' = {}
      BY <2>1, <1>2 DEF SeedsOf
    <3>2. /\ RemovalHeard(n) <=> RemovalHeard(n)' \/ e \in RemovesOf(n)
          /\ FreshEvents(n) = FreshEvents(n)'
               \cup (IF RemovalHeard(n)' THEN {} ELSE {e} \cap AddsOf(n))
      BY <1>2, EventPumped DEF e
    <3>3. /\ FreshCommands(n) = IF RemovalHeard(n) THEN {} ELSE q
          /\ FreshCommands(n)' = IF RemovalHeard(n)' THEN {} ELSE qq
      BY DEF FreshCommands
    <3>4. UNCHANGED engineQ => qq = q /\ (RemovalQueued(n)' <=> RemovalQueued(n))
      BY DEF RemovalQueued
    <3>5. ASSUME NEW c \in cmd, engineQ' = Append(engineQ, c)
          PROVE  /\ RemovalQueued(n)' <=> (RemovalQueued(n) \/ c \in DisconnectsOf(n))
                 /\ c \in DisconnectsOf(n) => qq = {}
                 /\ c \notin DisconnectsOf(n) => qq = q \cup ({c} \cap ConnectsOf(n))
      <4> DEFINE A == ConnectsOf(n)
                 R == DisconnectsOf(n)
      <4>1. A \cap R = {} /\ c \in Command
        BY <2>4, Disjoint
      <4> HIDE DEF A, R
      <4>2. Has(Append(engineQ, c), R) <=> (Has(engineQ, R) \/ c \in R)
        BY <4>1, <2>1, AppendHas
      <4>3. c \in R => Fresh(Append(engineQ, c), A, R) = {}
        BY <4>1, <2>1, AppendFresh
      <4>4. c \notin R => Fresh(Append(engineQ, c), A, R) = Fresh(engineQ, A, R) \cup ({c} \cap A)
        BY <4>1, <2>1, AppendFresh
      <4> QED  BY <4>2, <4>3, <4>4, <3>5 DEF A, R, RemovalQueued
    <3> HIDE DEF q, qq
    <3>6. CASE e.node # n
      <4>1. e \notin RemovesOf(n) /\ {e} \cap AddsOf(n) = {}
        BY <3>6 DEF RemovesOf, AddsOf
      <4>2. \A c \in cmd : c.node = e.node
        BY <2>3, <2>5, <2>7
      <4>3. \A c \in cmd : c \notin DisconnectsOf(n) /\ {c} \cap ConnectsOf(n) = {}
        BY <4>2, <3>6 DEF DisconnectsOf, ConnectsOf
      <4>4. qq = q /\ (RemovalQueued(n)' <=> RemovalQueued(n))
        BY <4>3, <3>4, <3>5, <1>3
      <4>5. RemovalHeard(n)' <=> RemovalHeard(n)
        BY <4>1, <3>2
      <4>6. FreshEvents(n)' = FreshEvents(n)
        BY <4>1, <3>2
      <4>7. FreshCommands(n)' = FreshCommands(n)
        BY <4>4, <4>5, <3>3
      <4>8. SameQueues(n)
        BY <4>4, <4>5, <4>6, <4>7 DEF SameQueues, Leaving
      <4> QED  BY <4>8, <3>1, <1>2, TrackedKept
    <3>7. CASE e.node = n /\ e.type = "Remove"
      <4> DEFINE d == [type |-> "Disconnected", node |-> n]
      <4>1. e \in RemovesOf(n) /\ {e} \cap AddsOf(n) = {}
        BY <3>7, <2>2 DEF RemovesOf, AddsOf
      <4>2. cmd = {d} /\ d \in DisconnectsOf(n)
        BY <3>7, <2>4, <2>5 DEF DisconnectsOf
      <4>3. RemovalQueued(n)' /\ qq = {}
        BY <4>2, <3>5, <1>3
      <4>4. Leaving(n) /\ Leaving(n)'
        BY <4>1, <4>3, <3>2 DEF Leaving
      <4>5. FreshEvents(n)' = FreshEvents(n)
        BY <4>1, <3>2
      <4>6. FreshCommands(n)' = {} /\ FreshCommands(n) = {}
        BY <4>1, <4>3, <3>2, <3>3
      <4>7. SameQueues(n) /\ SeedsOf(n)' = SeedsOf(n)
        BY <4>4, <4>5, <4>6, <3>1 DEF SameQueues
      <4> QED  BY <4>7, <3>1, <1>2, TrackedKept
    <3>8. CASE e.node = n /\ e.type = "Add"
      <4>1. e \notin RemovesOf(n) /\ e \in AddsOf(n)
        BY <3>8, <2>2 DEF RemovesOf, AddsOf
      <4>2. \A c \in cmd : c \in ConnectsOf(n) /\ c \notin DisconnectsOf(n)
        BY <3>8, <2>4, <2>7 DEF ConnectsOf, DisconnectsOf
      <4>3. RemovalQueued(n)' <=> RemovalQueued(n)
        BY <4>2, <3>4, <3>5, <1>3
      <4>4. RemovalHeard(n)' <=> RemovalHeard(n)
        BY <4>1, <3>2
      <4>5. Leaving(n)' <=> Leaving(n)
        BY <4>3, <4>4 DEF Leaving
      <4>6. CASE RemovalHeard(n)
        <5>1. FreshEvents(n)' = FreshEvents(n)
          BY <4>4, <4>6, <3>2
        <5>2. FreshCommands(n)' = FreshCommands(n)
          BY <4>4, <4>6, <3>3
        <5>3. SameQueues(n)
          BY <4>5, <5>1, <5>2 DEF SameQueues
        <5> QED  BY <5>3, <3>1, <1>2, TrackedKept
      <4>7. CASE ~RemovalHeard(n)
        <5>1. FreshEvents(n) = FreshEvents(n)' \cup {e}
          BY <4>1, <4>4, <4>7, <3>2
        <5>2. e.iface = bus[n]
          BY <5>1, <3>1 DEF Tracked, Current
        <5>3. \A usb \in Attributes(e) : IsOf(usb, n)
          BY <5>2, <3>8, <2>3 DEF Attributes, IsOf
        <5>4. FreshCommands(n) = q /\ FreshCommands(n)' = qq
          BY <4>4, <4>7, <3>3
        <5>5. FreshCommands(n)' = FreshCommands(n) \cup cmd
          <6>1. CASE cmd = {} /\ UNCHANGED engineQ
            BY <6>1, <5>4, <3>4
          <6>2. ASSUME NEW c \in cmd, engineQ' = Append(engineQ, c)
                PROVE  FreshCommands(n)' = FreshCommands(n) \cup cmd
            <7>1. cmd = {c}
              BY <6>2, <2>6, <3>8 DEF device_to_connect_command
            <7>2. qq = q \cup ({c} \cap ConnectsOf(n)) /\ {c} \cap ConnectsOf(n) = {c}
              BY <6>2, <4>2, <3>5
            <7> QED  BY <7>1, <7>2, <5>4
          <6> QED  BY <6>1, <6>2, <1>3
        <5>6. \A usb : IsOf(usb, n)' <=> IsOf(usb, n)
          BY <1>2 DEF IsOf
        <5>7. Current(n)'
          <6>1. \A f \in FreshEvents(n)' : f.iface = bus'[n]
            BY <5>1, <3>1, <1>2 DEF Tracked, Current
          <6>2. \A c \in cmd : IsOf(c.usb, n)
            BY <5>3, <2>7, <3>8
          <6>3. \A c \in FreshCommands(n)' \cup SeedsOf(n)' : IsOf(c.usb, n)
            BY <6>2, <5>5, <3>1 DEF Tracked, Current
          <6> QED  BY <6>1, <6>3, <5>6 DEF Current
        <5>8. Settled(n)'
          BY <4>5, <5>6, <3>1, <1>2 DEF Tracked, Settled
        <5>9. ASSUME bus[n] \in Controls
              PROVE  FreshCommands(n)' # {}
          <6>1. UsbOf[bus[n]] # NoUsb
            BY <5>9 DEF Controls, Control
          <6>2. PICK usb \in Attributes(e) : cmd = device_to_connect_command(e.node, usb)
            BY <2>6, <3>8
          <6>3. usb # NoUsb
            BY <6>1, <6>2, <5>3 DEF IsOf
          <6>4. cmd # {}
            BY <6>2, <6>3 DEF device_to_connect_command
          <6> QED  BY <6>4, <5>5
        <5>10. Expected(n)'
          BY <5>9, <1>2 DEF Expected
        <5> QED  BY <5>7, <5>8, <5>10 DEF Tracked
      <4> QED  BY <4>6, <4>7
    <3> QED  BY <3>6, <3>7, <3>8, <2>3
  <2> QED  BY <2>10, <2>11, <1>1, <1>2 DEF RegistryInv
<1> QED  BY <1>2, <1>4, <1>5

\* What an attempt with the ids of the interface on the bus makes of its node.
Outcome(n, usb) ==
  \/ /\ bus[n] \in Controls
     /\ served'[n] # None /\ served'[n].iface = bus[n] /\ served'[n].usb = usb
     /\ retrying'[n] = None
  \/ /\ served'[n] = served[n]
     /\ retrying'[n] \in {usb, None}
     /\ bus[n] \in Controls => retrying'[n] # None \/ n \in failed'

LEMMA AttachOutcome ==
  ASSUME TypeOK, ProbesTell, NEW n \in Node, NEW usb \in Usb, IsOf(usb, n), AttachDevice(n, usb)
  PROVE  Outcome(n, usb)
<1>1. /\ usb # None /\ usb # NoUsb
      /\ usb \in {UsbOf[x] : x \in Interface}
  BY NoneAssumption DEF Usb
<1>2. bus[n] \in Interface /\ usb = UsbOf[bus[n]] /\ bus[n] # Absent
  BY InterfacesAssumption DEF IsOf
<1>3. driver_table(usb) \in {"via", "gmk67"}
  BY DEF driver_table, Backend
<1>4. bus[n] \in Passing[driver_table(usb)] <=> bus[n] \in Controls
  <2>1. bus[n] \in Controls <=>
          IF driver_table(usb) = "gmk67" THEN DeclaresFeatureFrame(ItemsOf[bus[n]])
                                         ELSE DeclaresViaPage(ItemsOf[bus[n]])
    BY <1>1, <1>2 DEF Controls, Control
  <2>2. /\ bus[n] \in Passing["via"] <=> DeclaresViaPage(ItemsOf[bus[n]])
        /\ bus[n] \in Passing["gmk67"] <=> DeclaresFeatureFrame(ItemsOf[bus[n]])
    BY <1>2 DEF ProbesTell
  <2>3. CASE driver_table(usb) = "gmk67"
    BY <2>1, <2>2, <2>3
  <2>4. CASE driver_table(usb) = "via"
    BY <2>1, <2>2, <2>4
  <2> QED  BY <2>3, <2>4, <1>3
<1>5. CASE Opens(n, usb) = "ok" /\ Attached(n, usb)
  <2> DEFINE session == [iface |-> bus[n], usb |-> usb, dirty |-> FALSE, alive |-> TRUE]
  <2>1. bus[n] \in Controls
    BY <1>2, <1>4, <1>5 DEF Opens
  <2>2. /\ session # None /\ session.iface = bus[n] /\ session.usb = usb
    <3>1. session \in [iface : Interface, usb : {UsbOf[x] : x \in Interface},
                       dirty : BOOLEAN, alive : BOOLEAN]
      BY <1>1, <1>2
    <3> QED  BY <3>1, NoneAssumption
  <2>3. served' = [served EXCEPT ![n] = session] /\ retrying' = [retrying EXCEPT ![n] = None]
    BY <1>5 DEF Attached
  <2> HIDE DEF session
  <2>4. served'[n] = session /\ retrying'[n] = None
    BY <2>3 DEF TypeOK
  <2> QED  BY <2>1, <2>2, <2>4 DEF Outcome
<1>6. ASSUME NEW retry \in {usb, None}, NEW given_up \in BOOLEAN, NotAttached(n, retry, given_up),
             bus[n] \in Controls => given_up \/ retry = usb
      PROVE  Outcome(n, usb)
  <2>1. served' = served /\ retrying'[n] = retry
    BY <1>6 DEF NotAttached, TypeOK
  <2>2. given_up => n \in failed'
    BY <1>6 DEF NotAttached
  <2> QED  BY <2>1, <2>2, <1>1, <1>6 DEF Outcome
<1>7. CASE Opens(n, usb) = "rejected" /\ NotAttached(n, None, FALSE)
  <2>1. bus[n] \notin Controls
    BY <1>2, <1>4, <1>7 DEF Opens
  <2> QED  BY <2>1, <1>6, <1>7
<1>8. CASE NotAttached(n, usb, FALSE)
  BY <1>6, <1>8
<1>9. CASE NotAttached(n, None, TRUE)
  BY <1>6, <1>9
<1> QED  BY <1>5, <1>7, <1>8, <1>9 DEF AttachDevice

\* It leaves the other nodes alone.
LEMMA AttachOthers ==
  ASSUME TypeOK, NEW n \in Node, NEW usb, AttachDevice(n, usb), NEW m \in Node, m # n
  PROVE  /\ served'[m] = served[m] /\ retrying'[m] = retrying[m]
         /\ m \in failed => m \in failed'
         /\ m \in silent => m \in silent'
<1>1. CASE Attached(n, usb)
  BY <1>1 DEF Attached, TypeOK
<1>2. ASSUME NEW retry, NEW given_up \in BOOLEAN, NotAttached(n, retry, given_up)
      PROVE  /\ served' = served /\ silent' = silent /\ retrying'[m] = retrying[m]
             /\ m \in failed => m \in failed'
  BY <1>2 DEF NotAttached, TypeOK
<1>3. CASE ~Attached(n, usb)
  BY <1>2, <1>3 DEF AttachDevice
<1> QED  BY <1>1, <1>3

\* A node on its way out: what its session does is of no account.
LEMMA LeavingTracks ==
  ASSUME NEW n, Tracked(n), Leaving(n), SameQueues(n), SeedsOf(n)' = SeedsOf(n), bus' = bus
  PROVE  Tracked(n)'
<1>1. Current(n)'
  BY DEF Tracked, Current, SameQueues, IsOf
<1>2. Settled(n)' /\ Expected(n)'
  BY DEF Tracked, Settled, Expected, Accounted, SameQueues
<1> QED  BY <1>1, <1>2 DEF Tracked

\* A node an attempt is made to attach.
LEMMA AttachTracks ==
  ASSUME TypeOK, ProbesTell, NEW n \in Node, Tracked(n), ~Leaving(n), ~Leaving(n)',
         FreshEvents(n)' = FreshEvents(n), FreshCommands(n)' \subseteq FreshCommands(n),
         SeedsOf(n)' = SeedsOf(n), bus' = bus,
         NEW usb \in Usb, IsOf(usb, n), Outcome(n, usb)
  PROVE  Tracked(n)'
<1>1. \A u : IsOf(u, n)' <=> IsOf(u, n)
  BY DEF IsOf
<1>2. Current(n)'
  BY <1>1 DEF Tracked, Current
<1>3. /\ served[n] # None => /\ bus[n] \in Controls
                             /\ served[n].iface = bus[n]
                             /\ IsOf(served[n].usb, n)
  BY DEF Tracked, Settled
<1>4. CASE /\ bus[n] \in Controls
           /\ served'[n] # None /\ served'[n].iface = bus[n] /\ served'[n].usb = usb
           /\ retrying'[n] = None
  <2>1. Settled(n)' /\ Expected(n)'
    BY <1>1, <1>4 DEF Settled, Expected, Accounted
  <2> QED  BY <2>1, <1>2 DEF Tracked
<1>5. CASE /\ served'[n] = served[n]
           /\ retrying'[n] \in {usb, None}
           /\ bus[n] \in Controls => retrying'[n] # None \/ n \in failed'
  <2>1. Settled(n)'
    BY <1>1, <1>3, <1>5 DEF Settled
  <2>2. Expected(n)'
    BY <1>5 DEF Expected, Accounted
  <2> QED  BY <2>1, <2>2, <1>2 DEF Tracked
<1> QED  BY <1>4, <1>5 DEF Outcome

LEMMA BootKept ==
  ASSUME BootShape, ~Unscanned, UNCHANGED <<main, seeds, udevQ>>,
         Tracking => ~Has(engineQ', Shutdowns)
  PROVE  BootShape'
  BY DEF BootShape, Unscanned, Tracking, Has

LEMMA SupervisorTracks ==
  ASSUME TypeOK, ProbesTell, RegistryInv, SupervisorStep
  PROVE  RegistryInv'
<1> USE DEF AroundEngine, bootVars
<1>1. PICK c : Receive(c) /\ \/ \E n \in Node, usb \in Usb :
                                  /\ c = [type |-> "Connected", node |-> n, usb |-> usb]
                                  /\ SupConnected(n, usb)
                             \/ \E n \in Node : /\ c = [type |-> "Disconnected", node |-> n]
                                                /\ SupDisconnected(n)
                             \/ c = [type |-> "Shutdown"] /\ SupShutdown
  BY DEF SupervisorStep, SupConnected, SupDisconnected, SupShutdown
<1>2. UNCHANGED <<bus, udevQ, main, seeds, unwatched>>
  BY DEF SupervisorStep, SupConnected, SupDisconnected, SupShutdown
<1>3. BootShape
  BY DEF RegistryInv
<1>4. engineQ \in Seq(Command) /\ engineQ # <<>> /\ Head(engineQ) = c /\ engineQ' = Tail(engineQ)
  BY <1>1 DEF TypeOK, Receive
<1>5. /\ ~Unscanned
      /\ Tracking => ~Has(engineQ', Shutdowns) /\ c \notin Shutdowns
      /\ c \in Command
  <2>1. c \in Command /\ (Has(engineQ, Shutdowns) <=> Has(engineQ', Shutdowns) \/ c \in Shutdowns)
    BY <1>4, TailFresh
  <2> QED  BY <2>1, <1>3, <1>4 DEF BootShape
<1>6. BootShape'
  BY <1>2, <1>3, <1>5, BootKept
<1>7. ASSUME Tracking, NEW m \in Node \ unwatched
      PROVE  Tracked(m)'
  <2>1. Tracked(m) /\ SeedsOf(m)' = SeedsOf(m)
    BY <1>2, <1>7 DEF RegistryInv, SeedsOf
  <2>2. /\ FreshEvents(m)' = FreshEvents(m)
        /\ c \notin ConnectsOf(m) => FreshCommands(m)' = FreshCommands(m)
        /\ c \notin DisconnectsOf(m) => (Leaving(m)' <=> Leaving(m))
        /\ c \in DisconnectsOf(m) => Leaving(m)
        /\ c \in ConnectsOf(m) =>
             FreshCommands(m) = FreshCommands(m)' \cup (IF Leaving(m) THEN {} ELSE {c})
    BY <1>1, <1>2, CommandTaken
  <2>3. /\ served \in [Node -> Session \cup {None}]
        /\ retrying \in [Node -> Usb \cup {None}]
    BY DEF TypeOK
  <2>4. ASSUME NEW n \in Node, NEW usb \in Usb, SupConnected(n, usb),
               c = [type |-> "Connected", node |-> n, usb |-> usb]
        PROVE  Tracked(m)'
    <3>1. c \notin DisconnectsOf(m) /\ (m # n => c \notin ConnectsOf(m))
      BY <2>4 DEF DisconnectsOf, ConnectsOf
    <3>2. CASE m # n
      <4>1. SameQueues(m)
        BY <3>1, <3>2, <2>2 DEF SameQueues
      <4>2. /\ served'[m] = served[m] /\ retrying'[m] = retrying[m]
            /\ m \in failed => m \in failed'
            /\ m \in silent => m \in silent'
        <5>1. CASE AttachDevice(n, usb)
          BY <5>1, <3>2, <1>7, AttachOthers
        <5>2. CASE served[n] # None
          BY <5>2, <3>2, <2>3, <2>4 DEF SupConnected
        <5> QED  BY <5>1, <5>2, <2>4 DEF SupConnected
      <4> QED  BY <4>1, <4>2, <1>2, <2>1, TrackedKept
    <3>3. CASE m = n
      <4>1. c \in ConnectsOf(m) /\ c.usb = usb
        BY <3>3, <2>4, <1>5 DEF ConnectsOf
      <4>2. FreshCommands(m) = FreshCommands(m)' \cup (IF Leaving(m) THEN {} ELSE {c})
        BY <4>1, <2>2
      <4>3. Leaving(m)' <=> Leaving(m)
        BY <3>1, <2>2
      <4>4. CASE Leaving(m)
        <5>1. SameQueues(m)
          BY <4>2, <4>3, <4>4, <2>2 DEF SameQueues
        <5> QED  BY <5>1, <4>4, <1>2, <2>1, LeavingTracks
      <4>5. CASE ~Leaving(m)
        <5>1. c \in FreshCommands(m) /\ FreshCommands(m)' \subseteq FreshCommands(m)
          BY <4>2, <4>5
        <5>2. IsOf(usb, m)
          BY <5>1, <4>1, <2>1 DEF Tracked, Current
        <5>3. Outcome(m, usb)
          <6>1. CASE served[n] # None /\ UNCHANGED served /\ retrying' = [retrying EXCEPT ![n] = None]
            <7>1. served'[m] = served[m] /\ retrying'[m] = None
              BY <6>1, <3>3, <2>3
            <7>2. /\ bus[m] \in Controls /\ served[m].iface = bus[m]
                  /\ served[m].usb = usb
              BY <6>1, <5>2, <4>5, <3>3, <2>1 DEF Tracked, Settled, IsOf
            <7> QED  BY <7>1, <7>2, <6>1, <3>3 DEF Outcome
          <6>2. CASE AttachDevice(n, usb)
            BY <6>2, <5>2, <3>3, <1>3, AttachOutcome
          <6> QED  BY <6>1, <6>2, <2>4 DEF SupConnected
        <5> QED  BY <5>1, <5>2, <5>3, <4>3, <4>5, <2>1, <2>2, <1>2, <1>3, AttachTracks
      <4> QED  BY <4>4, <4>5
    <3> QED  BY <3>2, <3>3
  <2>5. ASSUME NEW n \in Node, SupDisconnected(n), c = [type |-> "Disconnected", node |-> n]
        PROVE  Tracked(m)'
    <3>1. c \notin ConnectsOf(m)
      BY <2>5 DEF ConnectsOf
    <3>2. /\ served' = [served EXCEPT ![n] = None] /\ retrying' = [retrying EXCEPT ![n] = None]
          /\ failed' = failed \ {n} /\ silent' = silent
      BY <2>5 DEF SupDisconnected
    <3>3. CASE m # n
      <4>1. c \notin DisconnectsOf(m)
        BY <3>3, <2>5 DEF DisconnectsOf
      <4>2. SameQueues(m)
        BY <3>1, <4>1, <2>2 DEF SameQueues
      <4>3. served'[m] = served[m] /\ retrying'[m] = retrying[m]
        BY <3>2, <3>3, <2>3
      <4> QED  BY <4>2, <4>3, <3>2, <3>3, <1>2, <2>1, TrackedKept
    <3>4. CASE m = n
      <4>1. Leaving(m)
        BY <3>4, <2>2, <2>5, <1>5 DEF DisconnectsOf
      <4>2. FreshCommands(m)' = FreshCommands(m)
        BY <3>1, <2>2
      <4>3. served'[m] = None /\ retrying'[m] = None
        BY <3>2, <3>4, <2>3
      <4>4. Current(m)'
        BY <4>2, <1>2, <2>1, <2>2 DEF Tracked, Current, IsOf
      <4>5. Settled(m)'
        BY <4>3 DEF Settled
      <4>6. Expected(m)'
        BY <4>1, <4>2, <1>2, <2>1, <2>2 DEF Tracked, Expected, Accounted
      <4> QED  BY <4>4, <4>5, <4>6 DEF Tracked
    <3> QED  BY <3>3, <3>4
  <2>6. c # [type |-> "Shutdown"]
    BY <1>5, <1>7 DEF Shutdowns
  <2> QED  BY <2>4, <2>5, <2>6, <1>1
<1> QED  BY <1>2, <1>3, <1>6, <1>7 DEF RegistryInv, Tracking

\* A node whose session is another record of the same interface.
LEMMA SessionKept ==
  ASSUME NEW n, Tracked(n), SameQueues(n), SeedsOf(n)' = SeedsOf(n), bus' = bus,
         served[n] # None, served'[n] # None,
         served'[n].iface = served[n].iface, served'[n].usb = served[n].usb,
         retrying'[n] = retrying[n]
  PROVE  Tracked(n)'
<1>1. \A u : IsOf(u, n)' <=> IsOf(u, n)
  BY DEF IsOf
<1>2. Current(n)'
  BY <1>1 DEF Tracked, Current, SameQueues
<1>3. Settled(n)'
  BY <1>1 DEF Tracked, Settled, SameQueues
<1>4. Expected(n)'
  BY DEF Tracked, Expected, Accounted, SameQueues
<1> QED  BY <1>2, <1>3, <1>4 DEF Tracked

LEMMA SessionTracks ==
  ASSUME TypeOK, ProbesTell, RegistryInv, SessionStep
  PROVE  RegistryInv'
<1> USE DEF AroundEngine, bootVars
<1>1. UNCHANGED <<bus, udevQ, engineQ, main, seeds, unwatched>>
  BY DEF SessionStep, Retry, RequestFails, WorkerDies, EvictDead, SetKeycode, Commit, SessionEnds
<1>2. BootShape
  BY DEF RegistryInv
<1>3. /\ served \in [Node -> Session \cup {None}]
      /\ retrying \in [Node -> Usb \cup {None}]
  BY DEF TypeOK
<1>4. \A m : SameQueues(m) /\ SeedsOf(m)' = SeedsOf(m)
  BY <1>1, QueuesKept DEF SeedsOf
<1>5. CASE SessionEnds
  <2>1. UNCHANGED <<served, retrying, failed, silent>>
    BY <1>5 DEF SessionEnds
  <2>2. BootShape'
    BY <1>1, <1>2, <2>1 DEF BootShape, Unscanned, Tracking, Has
  <2>3. ASSUME Tracking, NEW m \in Node \ unwatched
        PROVE  Tracked(m)'
    <3>1. Tracked(m)
      BY <2>3 DEF RegistryInv
    <3> QED  BY <3>1, <2>1, <1>1, <1>4, TrackedKept
  <2> QED  BY <2>2, <2>3, <1>1, <1>2 DEF RegistryInv, Tracking
<1>6. ASSUME NEW n \in Node,
             Retry(n) \/ RequestFails(n) \/ WorkerDies(n) \/ EvictDead(n) \/ SetKeycode(n) \/ Commit(n)
      PROVE  RegistryInv'
  <2>1. served[n] # None \/ retrying[n] # None
    BY <1>6 DEF Retry, RequestFails, WorkerDies, EvictDead, SetKeycode, Commit, Serving
  <2>2. ~Unscanned
    BY <2>1, <1>2 DEF BootShape
  <2>3. BootShape'
    BY <2>2, <1>1, <1>2, BootKept DEF BootShape
  <2>4. ASSUME Tracking, NEW m \in Node \ unwatched
        PROVE  Tracked(m)'
    <3>1. Tracked(m)
      BY <2>4 DEF RegistryInv
    <3>2. CASE m # n
      <4>1. /\ served'[m] = served[m] /\ retrying'[m] = retrying[m]
            /\ m \in failed => m \in failed'
            /\ m \in silent => m \in silent'
        <5>1. CASE Retry(n)
          <6>1. CASE AttachDevice(n, retrying[n])
            BY <6>1, <3>2, <2>4, AttachOthers
          <6>2. CASE NotAttached(n, None, TRUE)
            BY <6>2, <3>2, <1>3 DEF NotAttached
          <6> QED  BY <6>1, <6>2, <5>1 DEF Retry
        <5>2. CASE RequestFails(n) \/ EvictDead(n)
          BY <5>2, <3>2, <1>3 DEF RequestFails, EvictDead
        <5>3. CASE WorkerDies(n) \/ SetKeycode(n) \/ Commit(n)
          <6>1. UNCHANGED <<retrying, failed, silent>>
            BY <5>3 DEF WorkerDies, SetKeycode, Commit
          <6>2. served' = served \/ \E s : served' = [served EXCEPT ![n] = s]
            BY <5>3 DEF WorkerDies, SetKeycode, Commit
          <6>3. served'[m] = served[m]
            BY <6>2, <3>2, <1>3
          <6> QED  BY <6>1, <6>3
        <5> QED  BY <5>1, <5>2, <5>3, <1>6
      <4> QED  BY <4>1, <3>1, <1>1, <1>4, TrackedKept
    <3>3. CASE m = n /\ Leaving(n)
      BY <3>1, <3>3, <1>1, <1>4, LeavingTracks
    <3>4. CASE m = n /\ ~Leaving(n)
      <4>1. ~Leaving(n)'
        BY <3>4, <1>4 DEF SameQueues
      <4>2. /\ FreshEvents(n)' = FreshEvents(n)
            /\ FreshCommands(n)' \subseteq FreshCommands(n)
            /\ SeedsOf(n)' = SeedsOf(n)
        BY <1>4 DEF SameQueues
      <4>3. /\ served[n] # None => /\ bus[n] \in Controls
                                   /\ served[n].iface = bus[n]
                                   /\ IsOf(served[n].usb, n)
            /\ retrying[n] # None => IsOf(retrying[n], n)
        BY <3>1, <3>4 DEF Tracked, Settled
      <4>4. None \notin Usb /\ None \notin Session
        BY NoneAssumption DEF Usb, Session
      <4>5. CASE Retry(n)
        <5>1. retrying[n] \in Usb /\ IsOf(retrying[n], n)
          BY <4>3, <4>5, <1>3 DEF Retry
        <5>2. Outcome(n, retrying[n])
          <6>1. CASE AttachDevice(n, retrying[n])
            BY <6>1, <5>1, <1>2, AttachOutcome
          <6>2. CASE NotAttached(n, None, TRUE)
            <7>1. served' = served /\ retrying'[n] = None /\ n \in failed'
              BY <6>2, <1>3 DEF NotAttached
            <7> QED  BY <7>1 DEF Outcome
          <6> QED  BY <6>1, <6>2, <4>5 DEF Retry
        <5> QED  BY <5>1, <5>2, <4>1, <4>2, <3>1, <3>4, <1>1, <1>2, AttachTracks
      <4>6. CASE RequestFails(n)
        <5>1. served[n] # None /\ served[n] \in Session
          BY <4>6, <1>3 DEF RequestFails, Serving
        <5>2. served[n].usb \in Usb /\ IsOf(served[n].usb, n)
          BY <5>1, <4>3 DEF Session
        <5>3. served'[n] = None /\ retrying'[n] = served[n].usb
          BY <4>6, <1>3 DEF RequestFails
        <5>4. Current(n)'
          BY <4>2, <3>1, <3>4, <1>1 DEF Tracked, Current, IsOf
        <5>5. Settled(n)'
          BY <5>2, <5>3, <1>1 DEF Settled, IsOf
        <5>6. retrying'[n] # None
          BY <5>2, <5>3, <4>4
        <5>7. Expected(n)'
          BY <5>6, <4>1 DEF Expected, Accounted
        <5> QED  BY <5>4, <5>5, <5>7, <3>4 DEF Tracked
      <4>7. CASE EvictDead(n)
        <5>1. served'[n] = None /\ UNCHANGED retrying /\ n \in silent'
          BY <4>7, <1>3 DEF EvictDead
        <5>2. Current(n)'
          BY <4>2, <3>1, <3>4, <1>1 DEF Tracked, Current, IsOf
        <5>3. Settled(n)'
          BY <5>1, <4>3, <1>1 DEF Settled, IsOf
        <5>4. Expected(n)'
          BY <5>1, <4>1 DEF Expected, Accounted
        <5> QED  BY <5>2, <5>3, <5>4, <3>4 DEF Tracked
      <4>8. CASE WorkerDies(n) \/ SetKeycode(n) \/ Commit(n)
        <5>1. served[n] \in Session /\ served[n] # None /\ UNCHANGED retrying
          BY <4>8, <1>3 DEF WorkerDies, SetKeycode, Commit, Serving
        <5>2. \/ served' = served
              \/ \E d \in BOOLEAN : served' = [served EXCEPT ![n] = [@ EXCEPT !.dirty = d]]
              \/ served' = [served EXCEPT ![n] = [@ EXCEPT !.alive = FALSE]]
          BY <4>8 DEF WorkerDies, SetKeycode, Commit
        <5>3. /\ served'[n] \in Session
              /\ served'[n].iface = served[n].iface /\ served'[n].usb = served[n].usb
          <6>1. CASE served' = served
            BY <6>1, <5>1
          <6>2. ASSUME NEW d \in BOOLEAN,
                       \/ served' = [served EXCEPT ![n] = [@ EXCEPT !.dirty = d]]
                       \/ served' = [served EXCEPT ![n] = [@ EXCEPT !.alive = d]]
                PROVE  /\ served'[n] \in Session
                       /\ served'[n].iface = served[n].iface /\ served'[n].usb = served[n].usb
            BY <6>2, <5>1, <1>3 DEF Session
          <6> QED  BY <6>1, <6>2, <5>2
        <5>4. served'[n] # None
          BY <5>3, <4>4
        <5> QED  BY <5>1, <5>3, <5>4, <3>1, <3>4, <1>1, <1>4, SessionKept
      <4> QED  BY <4>5, <4>6, <4>7, <4>8, <1>6
    <3> QED  BY <3>2, <3>3, <3>4
  <2> QED  BY <2>3, <2>4, <1>1, <1>2 DEF RegistryInv, Tracking
<1> QED  BY <1>5, <1>6 DEF SessionStep

\* The IPC task has no say in the registry.
LEMMA IpcTracks ==
  ASSUME RegistryInv, UNCHANGED <<kernelVars, bootVars, engineQ, registryVars>>
  PROVE  RegistryInv'
<1> USE DEF kernelVars, bootVars, registryVars
<1>1. BootShape'
  BY DEF RegistryInv, BootShape, Unscanned, Tracking, Has
<1>2. ASSUME Tracking, NEW m \in Node \ unwatched
      PROVE  Tracked(m)'
  <2>1. Tracked(m)
    BY <1>2 DEF RegistryInv
  <2>2. SameQueues(m) /\ SeedsOf(m)' = SeedsOf(m)
    BY QueuesKept DEF SeedsOf
  <2> QED  BY <2>1, <2>2, TrackedKept
<1> QED  BY <1>1, <1>2 DEF RegistryInv, Tracking

\* With every queue empty nothing is on its way, so the invariant says it all.
LEMMA TrackingTells ==
  ASSUME RegistryInv
  PROVE  RegistryTracksBus
<1>1. SUFFICES ASSUME main = "running", udevQ = <<>>, engineQ = <<>>,
                      NEW n \in Node \ (unwatched \cup failed \cup silent), retrying[n] = None
               PROVE  /\ served[n] # None <=> bus[n] \in Controls
                      /\ served[n] # None => /\ served[n].iface = bus[n]
                                             /\ served[n].usb = UsbOf[bus[n]]
  BY DEF RegistryTracksBus
<1>2. FreshEvents(n) = {} /\ FreshCommands(n) = {} /\ ~Leaving(n)
  BY <1>1, EmptyQueues
<1>3. SeedsOf(n) = {}
  BY <1>1 DEF RegistryInv, BootShape, SeedsOf
<1>4. Tracked(n)
  BY <1>1 DEF RegistryInv, Tracking
<1> QED  BY <1>1, <1>2, <1>3, <1>4 DEF Tracked, Settled, Expected, Accounted, IsOf

\* The registry (engine/mod.rs) follows the bus: once every event is handled it serves
\* exactly the control interfaces, each under the ids it has now, whatever was
\* plugged, unplugged, retried or queued before, as long as the attach-time probes
\* tell the interfaces apart.  The walkers behind them recurse over the bytes of a
\* descriptor; that they do is left to TLC (MCDaemon, WalkersTell).
THEOREM RegistryTracksBusHolds == ProbesTell /\ Spec => []RegistryTracksBus
<1>1. Init => RegistryInv
  <2>1. SUFFICES ASSUME Init PROVE RegistryInv
    OBVIOUS
  <2>2. BootShape
    BY <2>1 DEF Init, BootShape, Unscanned, Tracking
  <2> QED  BY <2>1, <2>2 DEF Init, RegistryInv, Tracking
<1>2. TypeOK /\ ProbesTell /\ RegistryInv /\ [Next]_vars => RegistryInv' /\ ProbesTell'
  <2> SUFFICES ASSUME TypeOK, ProbesTell, RegistryInv, [Next]_vars PROVE RegistryInv'
    BY DEF ProbesTell
  <2>1. CASE UNCHANGED vars
    BY <2>1, IpcTracks DEF vars, kernelVars, bootVars, registryVars
  <2>2. CASE IpcStep
    BY <2>2, IpcTracks
      DEF IpcStep, IpcConnects, IpcFails, SignalPumpLagged, SignalPump, SignalPumpClosed, AroundIpc
  <2> QED
    BY <2>1, <2>2, MoveTracks, MainTracks, PumpTracks, SupervisorTracks, SessionTracks
      DEF Next
<1>3. RegistryInv => RegistryTracksBus
  BY TrackingTells
<1> QED  BY <1>1, <1>2, <1>3, TypeCorrect, PTL DEF Spec
=============================================================================
