------------------------------- MODULE Engine -------------------------------
(***************************************************************************)
(* The engine of clackd (src/src/engine/mod.rs): the supervisor task that  *)
(* owns the device registry, the per-device worker tasks, the reconnection *)
(* tasks, and the bounded channels that join them.                         *)
(*                                                                         *)
(*   udev pump --\                        /--> worker (bounded op queue)   *)
(*   D-Bus calls --> engineQ -> supervisor --> worker                      *)
(*   workers ----/      ^                 \--> reconnect task --\          *)
(*                      \---------------------------------------/          *)
(*                                                                         *)
(* Every task runs between two awaits as one action.  The supervisor's     *)
(* await inside attach_device, a worker's await on a full engine channel   *)
(* and the three awaits of a reconnect task (back-off, attach, send) are   *)
(* states of their own, so the tasks interleave exactly there.             *)
(*                                                                         *)
(* Data is abstracted: a request is its kind and its caller, a driver call *)
(* is one of the outcomes the code tells apart, and a handle is the number *)
(* of the worker whose channel it sends to.                                *)
(***************************************************************************)
EXTENDS Integers, Sequences, FiniteSets

CONSTANTS
  Devices,        \* device ids (udev sysnames)
  NoDevice,       \* not a device id
  Buffered,       \* the devices whose driver does not emit a layout event per set
  Clients,        \* D-Bus callers, each with at most one call in flight
  Kinds,          \* the request kinds the callers use, a subset of AllKinds
  EngineCap,      \* ENGINE_CHANNEL_CAPACITY
  WorkerCap,      \* WORKER_CHANNEL_CAPACITY
  MaxAttempts,    \* RECONNECT_MAX_ATTEMPTS
  MaxWorkers,     \* bound: worker tasks ever spawned
  MaxTasks,       \* bound: reconnect tasks ever spawned
  UdevCap,        \* bound: udev events not yet forwarded by the pump
  LossyUdev,      \* TRUE: a udev event may be lost (netlink overrun)
  PanickyDriver   \* TRUE: a driver call may panic

(***************************************************************************)
(* Requests answered from the registry (ListDevices, GetDeviceInfo,        *)
(* GetDeviceIdentity) are "info"; GetKeycode, the macro and the lighting   *)
(* calls, which only run one driver call, are "call"; "oob" is a GetKeycode *)
(* or SetKeycode outside the cached topology.                              *)
(***************************************************************************)
AllKinds == {"info", "call", "set", "commit", "oob"}

ASSUME DevicesAssumption ==
  /\ NoDevice \notin Devices
  /\ Buffered \subseteq Devices
  /\ Kinds \subseteq AllKinds
ASSUME BoundsAssumption ==
  /\ EngineCap \in Nat \ {0}
  /\ WorkerCap \in Nat \ {0}
  /\ MaxAttempts \in Nat \ {0}
  /\ MaxWorkers \in Nat
  /\ MaxTasks \in Nat
  /\ UdevCap \in Nat
  /\ LossyUdev \in BOOLEAN
  /\ PanickyDriver \in BOOLEAN

Workers == 1 .. MaxWorkers
Tasks == 1 .. MaxTasks
NoWorker == 0
NoToken == -1

VARIABLES
  plugged,       \* kernel: is the keyboard on the bus
  udevQ,         \* udev events the pump has not forwarded
  engineQ,       \* the EngineCommand channel
  supPc,         \* supervisor: "idle", "attaching" (inside attach_device), "stopped"
  supDev,        \* the device the supervisor is attaching
  devices,       \* DeviceRegistry.devices: the registered worker, or NoWorker
  reconnecting,  \* DeviceRegistry.reconnecting: the current token, or NoToken
  nextToken,     \* DeviceRegistry.next_reconnect_token
  worker,        \* the worker tasks
  task,          \* the reconnect tasks
  client,        \* "idle" or "waiting" for a reply
  quitting,      \* main has asked for Shutdown
  present,       \* history: the supervisor's last udev command for the device was an add
  announced      \* history: the last lifecycle event of the device was DeviceAdded

kernelVars == <<plugged, udevQ>>
registryVars == <<devices, reconnecting, nextToken>>
supVars == <<supPc, supDev>>
historyVars == <<present, announced>>
vars == <<plugged, udevQ, engineQ, supPc, supDev, devices, reconnecting,
          nextToken, worker, task, client, quitting, present, announced>>

UdevEvent == [type : {"Connected", "Disconnected"}, dev : Devices]
EngineCommand ==
       UdevEvent
  \cup [type : {"Error"}, dev : Devices]
  \cup [type : {"Reattached"}, dev : Devices, wk : Workers, tok : Nat]
  \cup [type : {"Request"}, dev : Devices, kind : Kinds, from : Clients]
  \cup [type : {"Shutdown"}]
WorkerOp == [kind : Kinds, from : Clients]

(***************************************************************************)
(* A worker is unspawned ("none"), in its select loop ("loop"), awaiting   *)
(* room for its DeviceError ("failing"), past that send but not yet        *)
(* returned, so that its receiver is still open ("leaving"), or gone.      *)
(***************************************************************************)
WorkerRec == [pc : {"none", "loop", "failing", "leaving", "exited"},
              dev : Devices \cup {NoDevice},
              queue : Seq(WorkerOp),
              armed : BOOLEAN]
TaskRec == [pc : {"none", "sleeping", "attaching", "sending", "done"},
            dev : Devices \cup {NoDevice},
            tok : Nat \cup {NoToken},
            attempts : Nat,
            wk : Workers \cup {NoWorker}]

Unspawned == [pc |-> "none", dev |-> NoDevice, queue |-> <<>>, armed |-> FALSE]
Fresh(d) == [pc |-> "loop", dev |-> d, queue |-> <<>>, armed |-> FALSE]
Gone(d) == [pc |-> "exited", dev |-> d, queue |-> <<>>, armed |-> FALSE]
NoTaskYet == [pc |-> "none", dev |-> NoDevice, tok |-> NoToken,
              attempts |-> 0, wk |-> NoWorker]

Messages(q) == {q[i] : i \in DOMAIN q}
Callers(q) == {op.from : op \in Messages(q)}
\* Bounded channel: a send waits for room, and fails once the receiver is gone.
\* Seeded fault: one permit too many.
RoomForOneMore == supPc # "stopped" /\ Len(engineQ) <= EngineCap
Room == supPc # "stopped" /\ Len(engineQ) < EngineCap

(***************************************************************************)
(* The senders of a worker's channel: the registry handle, a handle        *)
(* travelling in a DeviceReattached command, and the handle a reconnect    *)
(* task is about to send.  rx.recv() yields None once there is none.       *)
(***************************************************************************)
\* Seeded fault: a sender that does not count while its handle travels.
HeldIfRegistered(w) == \E d \in Devices : devices[d] = w
Held(w) ==
  \/ \E d \in Devices : devices[d] = w
  \/ \E m \in Messages(engineQ) : m.type = "Reattached" /\ m.wk = w
  \/ \E t \in Tasks : task[t].pc = "sending" /\ task[t].wk = w

\* Worker and task numbers are handed out in order.
NextWorker(w) ==
  worker[w].pc = "none" /\ \A v \in Workers : v < w => worker[v].pc # "none"
NextTask(t) ==
  task[t].pc = "none" /\ \A u \in Tasks : u < t => task[u].pc # "none"

Init ==
  /\ plugged = [d \in Devices |-> FALSE]
  /\ udevQ = <<>>
  /\ engineQ = <<>>
  /\ supPc = "idle"
  /\ supDev = NoDevice
  /\ devices = [d \in Devices |-> NoWorker]
  /\ reconnecting = [d \in Devices |-> NoToken]
  /\ nextToken = 0
  /\ worker = [w \in Workers |-> Unspawned]
  /\ task = [t \in Tasks |-> NoTaskYet]
  /\ client = [c \in Clients |-> "idle"]
  /\ quitting = FALSE
  /\ present = [d \in Devices |-> FALSE]
  /\ announced = [d \in Devices |-> FALSE]

-----------------------------------------------------------------------------
(* The kernel and the udev pump (main.rs). *)

\* A keyboard is plugged in or pulled out; the event may be lost.
KernelEvent(d, lost) ==
  /\ Len(udevQ) < UdevCap
  /\ lost => LossyUdev
  /\ plugged' = [plugged EXCEPT ![d] = ~@]
  /\ udevQ' = IF lost THEN udevQ
              ELSE Append(udevQ, [type |-> IF plugged[d] THEN "Disconnected" ELSE "Connected",
                                  dev |-> d])
  /\ UNCHANGED <<engineQ, supVars, registryVars, worker, task, client, quitting, historyVars>>

\* run_udev_pump: one event becomes one command; send waits for room.
UdevPump ==
  /\ udevQ # <<>>
  /\ Room
  /\ engineQ' = Append(engineQ, Head(udevQ))
  /\ udevQ' = Tail(udevQ)
  /\ UNCHANGED <<plugged, supVars, registryVars, worker, task, client, quitting, historyVars>>

\* main: SIGTERM or SIGINT sends Shutdown, once.
SendShutdown ==
  /\ ~quitting
  /\ Room
  /\ quitting' = TRUE
  /\ engineQ' = Append(engineQ, [type |-> "Shutdown"])
  /\ UNCHANGED <<kernelVars, supVars, registryVars, worker, task, client, historyVars>>

\* A D-Bus method sends its command and awaits the reply.
ClientRequest(c, d, k) ==
  /\ client[c] = "idle"
  /\ Room
  /\ client' = [client EXCEPT ![c] = "waiting"]
  /\ engineQ' = Append(engineQ, [type |-> "Request", dev |-> d, kind |-> k, from |-> c])
  /\ UNCHANGED <<kernelVars, supVars, registryVars, worker, task, quitting, historyVars>>

-----------------------------------------------------------------------------
(* The supervisor: handle_command. *)

\* The supervisor is between commands and takes one of this type.
Takes(type) ==
  /\ supPc = "idle"
  /\ engineQ # <<>>
  /\ Head(engineQ).type = type
  /\ engineQ' = Tail(engineQ)

\* A reply is sent, or its sender dropped: the caller's await ends.
Answered(callers) == [c \in Clients |-> IF c \in callers THEN "idle" ELSE client[c]]

\* The bound on reconnect tasks: a failed attach starts one only while every
\* worker that can still report an error keeps one in reserve.
SpareTask ==
  Cardinality({t \in Tasks : task[t].pc = "none"}) >
    Cardinality({w \in Workers : worker[w].pc \in {"none", "loop", "failing"}})
      + Cardinality({i \in DOMAIN engineQ : engineQ[i].type = "Error"})

\* Seeded fault: the counter is not advanced.
TokenKept == nextToken
TokenAdvanced == nextToken + 1

\* start_reconnect_backoff: a fresh token replaces any entry, whose task is cancelled.
StartBackoff(d) ==
  \E t \in Tasks :
    /\ NextTask(t)
    /\ task' = [task EXCEPT ![t] = [pc |-> "sleeping", dev |-> d, tok |-> nextToken,
                                    attempts |-> 0, wk |-> NoWorker]]
    /\ reconnecting' = [reconnecting EXCEPT ![d] = nextToken]
    /\ nextToken' = TokenAdvanced

\* contains_key: the duplicate add is ignored.
\* Seeded fault: the check is missing.
NeverDuplicate(d) == FALSE
Duplicate(d) == devices[d] # NoWorker

\* DeviceConnected, up to the await in attach_device.
SupConnected ==
  /\ Takes("Connected")
  /\ LET d == Head(engineQ).dev IN
       /\ reconnecting' = [reconnecting EXCEPT ![d] = NoToken]
       /\ present' = [present EXCEPT ![d] = TRUE]
       /\ IF Duplicate(d)
            THEN UNCHANGED supVars
            ELSE supPc' = "attaching" /\ supDev' = d
  /\ UNCHANGED <<kernelVars, devices, nextToken, worker, task, client, quitting, announced>>

\* attach_device succeeds: the worker is spawned, registered and announced.
SupAttached ==
  /\ supPc = "attaching"
  /\ \E w \in Workers :
       /\ NextWorker(w)
       /\ worker' = [worker EXCEPT ![w] = Fresh(supDev)]
       /\ devices' = [devices EXCEPT ![supDev] = w]
  /\ announced' = [announced EXCEPT ![supDev] = TRUE]
  /\ supPc' = "idle"
  /\ supDev' = NoDevice
  /\ UNCHANGED <<kernelVars, engineQ, reconnecting, nextToken, task, client, quitting, present>>

\* The factory or attach_device fails with Disconnected or PermissionDenied.
SupAttachTransient ==
  /\ supPc = "attaching"
  /\ SpareTask
  /\ StartBackoff(supDev)
  /\ supPc' = "idle"
  /\ supDev' = NoDevice
  /\ UNCHANGED <<kernelVars, engineQ, devices, worker, client, quitting, historyVars>>

\* Any other failure, or no driver for this vendor and product.
SupAttachPermanent ==
  /\ supPc = "attaching"
  /\ supPc' = "idle"
  /\ supDev' = NoDevice
  /\ UNCHANGED <<kernelVars, engineQ, registryVars, worker, task, client, quitting, historyVars>>

\* Removing a registry entry drops its sender.
\* Seeded fault: the entry stays.
EntryKept(d) == devices
EntryRemoved(d) == [devices EXCEPT ![d] = NoWorker]

\* DeviceDisconnected: cancel any reconnection, evict and announce.
SupDisconnected ==
  /\ Takes("Disconnected")
  /\ LET d == Head(engineQ).dev IN
       /\ reconnecting' = [reconnecting EXCEPT ![d] = NoToken]
       /\ devices' = EntryRemoved(d)
       /\ present' = [present EXCEPT ![d] = FALSE]
       /\ announced' = [announced EXCEPT ![d] = @ /\ devices[d] = NoWorker]
  /\ UNCHANGED <<kernelVars, supVars, nextToken, worker, task, client, quitting>>

\* DeviceError: evict, announce, and start the back-off; ignored when the
\* device is not registered.  A worker only ever reports Disconnected.
SupError ==
  /\ Takes("Error")
  /\ LET d == Head(engineQ).dev IN
       IF devices[d] = NoWorker
         THEN UNCHANGED <<registryVars, task, announced>>
         ELSE /\ devices' = EntryRemoved(d)
              /\ announced' = [announced EXCEPT ![d] = FALSE]
              /\ StartBackoff(d)
  /\ UNCHANGED <<kernelVars, supVars, worker, client, quitting, present>>

\* Seeded faults: any token is good enough; the reconnecting entry stays.
HonouredAlways(m) == TRUE
Honoured(m) == reconnecting[m.dev] = m.tok
RecoveryKept(d) == reconnecting
RecoveryOver(d) == [reconnecting EXCEPT ![d] = NoToken]

\* DeviceReattached is honoured only under the current token of its device.
SupReattached ==
  /\ Takes("Reattached")
  /\ LET m == Head(engineQ) IN
       IF Honoured(m)
         THEN /\ reconnecting' = RecoveryOver(m.dev)
              /\ devices' = [devices EXCEPT ![m.dev] = m.wk]
              /\ announced' = [announced EXCEPT ![m.dev] = TRUE]
         ELSE UNCHANGED <<reconnecting, devices, announced>>
  /\ UNCHANGED <<kernelVars, supVars, nextToken, worker, task, client, quitting, present>>

\* reply_with_error.  Seeded fault: the op is dropped on the floor, reply and all.
Forgotten(c) == client
Rejected(c) == Answered({c})

\* A request for a device without a handle, or answered from the registry, or
\* out of bounds, is answered at once.
SupRequestAnswered ==
  /\ Takes("Request")
  /\ LET m == Head(engineQ) IN
       /\ devices[m.dev] = NoWorker \/ m.kind \in {"info", "oob"}
       /\ client' = Answered({m.from})
  /\ UNCHANGED <<kernelVars, supVars, registryVars, worker, task, quitting, historyVars>>

\* try_send into the worker's channel: delivered, rejected as busy when it is
\* full, or - when the receiver is gone - answered and the handle evicted
\* (surface_worker_send_failure).
SupRequestDispatched ==
  /\ Takes("Request")
  /\ LET m == Head(engineQ)
         w == devices[m.dev]
     IN
       /\ w # NoWorker
       /\ m.kind \notin {"info", "oob"}
       /\ \/ /\ worker[w].pc # "exited"
             /\ Len(worker[w].queue) < WorkerCap
             /\ worker' = [worker EXCEPT ![w].queue =
                             Append(@, [kind |-> m.kind, from |-> m.from])]
             /\ UNCHANGED <<devices, client>>
          \/ /\ worker[w].pc # "exited"
             /\ Len(worker[w].queue) = WorkerCap
             /\ client' = Rejected(m.from)
             /\ UNCHANGED <<devices, worker>>
          \/ /\ worker[w].pc = "exited"
             /\ devices' = EntryRemoved(m.dev)
             /\ client' = Rejected(m.from)
             /\ UNCHANGED worker
  /\ UNCHANGED <<kernelVars, supVars, reconnecting, nextToken, task, quitting, historyVars>>

\* Seeded fault: the handles outlive the supervisor.
HandlesLeaked == devices
NoHandles == [d \in Devices |-> NoWorker]

\* Shutdown: the registry is cleared and the task returns, which drops the
\* receiver with every queued command, and the registry with its cancel handles.
SupShutdown ==
  /\ supPc = "idle"
  /\ engineQ # <<>>
  /\ Head(engineQ).type = "Shutdown"
  /\ supPc' = "stopped"
  /\ engineQ' = <<>>
  /\ devices' = NoHandles
  /\ reconnecting' = [d \in Devices |-> NoToken]
  /\ client' = Answered({m.from : m \in {x \in Messages(engineQ) : x.type = "Request"}})
  /\ UNCHANGED <<kernelVars, supDev, nextToken, worker, task, quitting, historyVars>>

Supervisor ==
  \/ SupConnected \/ SupAttached \/ SupAttachTransient \/ SupAttachPermanent
  \/ SupDisconnected \/ SupError \/ SupReattached
  \/ SupRequestAnswered \/ SupRequestDispatched \/ SupShutdown

-----------------------------------------------------------------------------
(* The worker: run_device_worker. *)

\* One op is taken, its driver call made and its reply sent.  A successful set
\* on a buffered driver arms the debounce, a commit disarms it.
WorkerOpDone(w, outcome) ==
  /\ worker[w].pc = "loop"
  /\ worker[w].queue # <<>>
  /\ LET op == Head(worker[w].queue)
         armed == CASE op.kind = "commit" -> FALSE
                    [] op.kind = "set" /\ outcome = "ok" /\ worker[w].dev \in Buffered -> TRUE
                    [] OTHER -> worker[w].armed
     IN
       /\ client' = Answered({op.from})
       /\ worker' = [worker EXCEPT ![w].queue = Tail(@),
                                   ![w].armed = armed,
                                   ![w].pc = IF outcome = "fatal" THEN "failing" ELSE "loop"]
  /\ UNCHANGED <<kernelVars, engineQ, supVars, registryVars, task, quitting, historyVars>>

\* The debounce elapses with no op waiting and the channel still open: the
\* select is biased to rx.
WorkerDebounce(w, outcome) ==
  /\ worker[w].pc = "loop"
  /\ worker[w].queue = <<>>
  /\ worker[w].armed
  /\ Held(w)
  /\ worker' = [worker EXCEPT ![w].armed = FALSE,
                              ![w].pc = IF outcome = "fatal" THEN "failing" ELSE "loop"]
  /\ UNCHANGED <<kernelVars, engineQ, supVars, registryVars, task, client, quitting, historyVars>>

\* rx.recv() yields None.  Seeded fault: the worker keeps a sender of its own channel.
SelfHeld(w) == FALSE
Deserted(w) == ~Held(w)

\* Every sender is gone: a last flush if one is due, and the loop ends.
WorkerClosed(w) ==
  /\ worker[w].pc = "loop"
  /\ worker[w].queue = <<>>
  /\ Deserted(w)
  /\ worker' = [worker EXCEPT ![w] = Gone(worker[w].dev)]
  /\ UNCHANGED <<kernelVars, engineQ, supVars, registryVars, task, client, quitting, historyVars>>

\* Seeded fault: the worker keeps waiting for a supervisor that is gone.
ReportSent(w) ==
  Room /\ engineQ' = Append(engineQ, [type |-> "Error", dev |-> worker[w].dev])
ReportSentOrRefused(w) ==
  \/ Room /\ engineQ' = Append(engineQ, [type |-> "Error", dev |-> worker[w].dev])
  \/ supPc = "stopped" /\ UNCHANGED engineQ

\* After a fatal error: DeviceError waits for room; with no receiver it fails at once.
WorkerReport(w) ==
  /\ worker[w].pc = "failing"
  /\ ReportSentOrRefused(w)
  /\ worker' = [worker EXCEPT ![w].pc = "leaving"]
  /\ UNCHANGED <<kernelVars, supVars, registryVars, task, client, quitting, historyVars>>

\* The worker returns; its receiver and the ops still queued are dropped.
WorkerExit(w) ==
  /\ worker[w].pc = "leaving"
  /\ client' = Answered(Callers(worker[w].queue))
  /\ worker' = [worker EXCEPT ![w] = Gone(worker[w].dev)]
  /\ UNCHANGED <<kernelVars, engineQ, supVars, registryVars, task, quitting, historyVars>>

\* A driver call panics: the task unwinds and no DeviceError is sent.
WorkerPanic(w) ==
  /\ PanickyDriver
  /\ worker[w].pc = "loop"
  /\ worker[w].queue # <<>> \/ worker[w].armed
  /\ client' = Answered(Callers(worker[w].queue))
  /\ worker' = [worker EXCEPT ![w] = Gone(worker[w].dev)]
  /\ UNCHANGED <<kernelVars, engineQ, supVars, registryVars, task, quitting, historyVars>>

Outcomes == {"ok", "retriable", "fatal"}
WorkerStep(w) ==
  \/ \E o \in Outcomes : WorkerOpDone(w, o) \/ WorkerDebounce(w, o)
  \/ WorkerClosed(w) \/ WorkerReport(w) \/ WorkerExit(w) \/ WorkerPanic(w)

-----------------------------------------------------------------------------
(* The reconnect task: reconnect_task. *)

\* The registry entry that holds this task's cancel handle is still there.
Current(t) ==
  task[t].dev \in Devices /\ reconnecting[task[t].dev] = task[t].tok

\* A task that has returned keeps nothing but its name.
Ended(t) == [task EXCEPT ![t].pc = "done", ![t].attempts = 0, ![t].wk = NoWorker]

\* The cancel handle was used or dropped while the task slept.
TaskCancelled(t) ==
  /\ task[t].pc = "sleeping"
  /\ ~Current(t)
  /\ task' = Ended(t)
  /\ UNCHANGED <<kernelVars, engineQ, supVars, registryVars, worker, client, quitting, historyVars>>

\* Seeded fault: the attempt is not counted.
Uncounted(n) == n
Counted(n) == n + 1

\* The back-off elapses (the select is not biased: even when cancelled).
TaskWake(t) ==
  /\ task[t].pc = "sleeping"
  /\ task[t].attempts < MaxAttempts
  /\ task' = [task EXCEPT ![t].pc = "attaching", ![t].attempts = Counted(@)]
  /\ UNCHANGED <<kernelVars, engineQ, supVars, registryVars, worker, client, quitting, historyVars>>

\* The attach succeeds and its worker is spawned; a cancelled task drops the
\* handle, another goes on to send it.
TaskAttached(t) ==
  /\ task[t].pc = "attaching"
  /\ \E w \in Workers :
       /\ NextWorker(w)
       /\ worker' = [worker EXCEPT ![w] = Fresh(task[t].dev)]
       /\ task' = IF Current(t)
                    THEN [task EXCEPT ![t].pc = "sending", ![t].wk = w]
                    ELSE Ended(t)
  /\ UNCHANGED <<kernelVars, engineQ, supVars, registryVars, client, quitting, historyVars>>

\* The attach fails: a transient error sleeps again until the attempts are used
\* up, any other ends the task.  Neither touches the registry.
TaskAttachFailed(t, outcome) ==
  /\ task[t].pc = "attaching"
  /\ task' = IF outcome = "transient" /\ task[t].attempts < MaxAttempts
               THEN [task EXCEPT ![t].pc = "sleeping"]
               ELSE Ended(t)
  /\ UNCHANGED <<kernelVars, engineQ, supVars, registryVars, worker, client, quitting, historyVars>>

\* The handle is sent once there is room, under the task's own token; without
\* a supervisor it is dropped.
TaskSend(t) ==
  /\ task[t].pc = "sending"
  /\ \/ /\ Room
        /\ engineQ' = Append(engineQ, [type |-> "Reattached", dev |-> task[t].dev,
                                       wk |-> task[t].wk, tok |-> task[t].tok])
     \/ /\ supPc = "stopped"
        /\ UNCHANGED engineQ
  /\ task' = Ended(t)
  /\ UNCHANGED <<kernelVars, supVars, registryVars, worker, client, quitting, historyVars>>

FailedAttach == {"transient", "permanent"}
TaskStep(t) ==
  \/ TaskCancelled(t) \/ TaskWake(t) \/ TaskAttached(t)
  \/ \E o \in FailedAttach : TaskAttachFailed(t, o)
  \/ TaskSend(t)

-----------------------------------------------------------------------------
Next ==
  \/ \E d \in Devices : \E lost \in BOOLEAN : KernelEvent(d, lost)
  \/ UdevPump
  \/ SendShutdown
  \/ \E c \in Clients : \E d \in Devices : \E k \in Kinds : ClientRequest(c, d, k)
  \/ Supervisor
  \/ \E w \in Workers : WorkerStep(w)
  \/ \E t \in Tasks : TaskStep(t)

Spec == Init /\ [][Next]_vars

(***************************************************************************)
(* Every task the runtime can run is eventually run, and every driver call *)
(* ends (each hidraw round trip has a timeout).  A send that waits for     *)
(* room is served in turn - tokio's bounded channel queues its senders -   *)
(* so it gets strong fairness.  Nothing is assumed of the user: keyboards, *)
(* callers and signals may come or not.                                    *)
(***************************************************************************)
Fairness ==
  /\ SF_vars(UdevPump)
  /\ WF_vars(Supervisor)
  /\ \A w \in Workers : WF_vars(WorkerStep(w)) /\ SF_vars(WorkerReport(w))
  /\ \A t \in Tasks : WF_vars(TaskStep(t)) /\ SF_vars(TaskSend(t))

FairSpec == Spec /\ Fairness

-----------------------------------------------------------------------------
(* Properties. *)

\* Every variable has the shape its Rust type allows and no bounded channel
\* holds more than its capacity.
TypeOK ==
  /\ plugged \in [Devices -> BOOLEAN]
  /\ udevQ \in Seq(UdevEvent) /\ Len(udevQ) <= UdevCap
  /\ engineQ \in Seq(EngineCommand) /\ Len(engineQ) <= EngineCap
  /\ supPc \in {"idle", "attaching", "stopped"}
  /\ supDev \in Devices \cup {NoDevice}
  /\ devices \in [Devices -> Workers \cup {NoWorker}]
  /\ reconnecting \in [Devices -> Nat \cup {NoToken}]
  /\ nextToken \in Nat
  /\ worker \in [Workers -> WorkerRec]
  /\ task \in [Tasks -> TaskRec]
  /\ client \in [Clients -> {"idle", "waiting"}]
  /\ quitting \in BOOLEAN
  /\ present \in [Devices -> BOOLEAN]
  /\ announced \in [Devices -> BOOLEAN]

\* A task that runs knows its device, and one that hands over a worker has it:
\* what the Rust types guarantee and the records above do not.
SpawnedOK ==
  /\ supPc = "attaching" <=> supDev \in Devices
  /\ \A w \in Workers : worker[w].pc # "none" => worker[w].dev \in Devices
  /\ \A t \in Tasks :
       /\ task[t].pc # "none" => task[t].dev \in Devices /\ task[t].tok \in Nat
       /\ task[t].pc = "sending" => task[t].wk \in Workers

\* A device is served, or being reconnected, or being attached by the
\* supervisor, never two of these: the registry's two maps stay disjoint
\* although three arms of handle_command and the reconnect tasks fill them.
OneRole ==
  \A d \in Devices :
    /\ devices[d] # NoWorker => reconnecting[d] = NoToken
    /\ supDev = d => devices[d] = NoWorker /\ reconnecting[d] = NoToken

\* A device whose last udev command was a removal is neither served nor being
\* reconnected, whatever handles and errors were still in flight for it: the
\* token check of DeviceReattached keeps a cancelled task from resurrecting it.
NoGhostDevice ==
  \A d \in Devices :
    devices[d] # NoWorker \/ reconnecting[d] # NoToken \/ supDev = d => present[d]

\* The workers a device could be served by next: the registered one, and each
\* one whose handle is on its way under the device's current token.
Candidates(d) ==
       ({devices[d]} \ {NoWorker})
  \cup {w \in Workers : \E m \in Messages(engineQ) :
          m.type = "Reattached" /\ m.dev = d /\ m.wk = w /\ m.tok = reconnecting[d]}
  \cup {w \in Workers : \E t \in Tasks :
          task[t].pc = "sending" /\ task[t].dev = d /\ task[t].wk = w /\ Current(t)}

\* At most one worker can come to serve a device, and no worker serves two:
\* tokens are never reused, so an older attempt never competes with a newer.
OneCandidate ==
  /\ \A d \in Devices : Cardinality(Candidates(d)) <= 1
  /\ \A d, e \in Devices : d # e => Candidates(d) \cap Candidates(e) = {}

\* A handle that is registered by DeviceReattached, or would be, belongs to a
\* worker of that device that is still in its loop with nothing queued.
FreshHandles ==
  \A d \in Devices : \A w \in Candidates(d) \ {devices[d]} :
    worker[w].pc = "loop" /\ worker[w].dev = d /\ worker[w].queue = <<>>

\* A caller waits exactly while its request is in one channel, once: no path
\* through eviction, overflow, worker death or shutdown loses or doubles it.
PendingOnce ==
  \A c \in Clients :
    LET inEngine == {i \in DOMAIN engineQ : engineQ[i].type = "Request" /\ engineQ[i].from = c}
        inWorkers == {p \in Workers \X (1 .. WorkerCap) :
                        /\ p[2] \in DOMAIN worker[p[1]].queue
                        /\ worker[p[1]].queue[p[2]].from = c}
    IN Cardinality(inEngine) + Cardinality(inWorkers) = IF client[c] = "waiting" THEN 1 ELSE 0

\* A registered handle is only ever removed, never replaced by another in one step
\* (DeviceConnected for a device still registered, and DeviceReattached).
NoSilentReplacement ==
  [][\A d \in Devices : devices[d] # NoWorker => devices'[d] \in {devices[d], NoWorker}]_vars

\* A device that is served was announced: its last lifecycle event is DeviceAdded,
\* whether it was attached or reattached (the arms of handle_command that emit an event).
\* The converse is not claimed: an eviction on a closed channel announces nothing.
ServedIsAnnounced == \A d \in Devices : devices[d] # NoWorker => announced[d]

\* Every call a D-Bus client makes is answered, or its reply sender dropped.
RequestAnswered == \A c \in Clients : client[c] = "waiting" ~> client[c] = "idle"

\* A worker that met a fatal error does not stay in the registry.
FailedWorkerEvicted ==
  \A d \in Devices : \A w \in Workers :
    (devices[d] = w /\ worker[w].pc = "failing") ~> (devices[d] # w)

\* A worker that no handle leads to any more ends.
OrphanExits ==
  \A w \in Workers : (worker[w].pc = "loop" /\ ~Held(w)) ~> (worker[w].pc = "exited")

\* A reconnection ends: it hands over a worker, is cancelled or gives up.
ReconnectEnds == \A t \in Tasks : (task[t].pc # "none") ~> (task[t].pc = "done")

\* Shutdown leaves no worker behind, however full the channels were.
ShutdownEndsWorkers ==
  (supPc = "stopped") ~> (\A w \in Workers : worker[w].pc \in {"none", "exited"})

-----------------------------------------------------------------------------
(* What the documentation says and the code does not do. *)

\* DeviceError names "the device whose worker failed": the worker it evicts is
\* one that failed.
OnlyFailedEvicted ==
  [][\A d \in Devices :
       (devices[d] # NoWorker /\ SupError /\ Head(engineQ).dev = d)
         => worker[devices[d]].pc # "loop"]_vars

\* README "The supervisor detects the failed task and schedules reconnection":
\* a registered worker that met a fatal error leads to a reconnection, unless
\* the device is unplugged or served again first or the daemon stops.
FailureLeadsToRecovery ==
  \A d \in Devices : \A w \in Workers :
    (devices[d] = w /\ worker[w].pc = "failing")
      ~> \/ reconnecting[d] # NoToken
         \/ devices[d] \notin {w, NoWorker}
         \/ ~present[d]
         \/ supPc = "stopped"
=============================================================================
