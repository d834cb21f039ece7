---------------------------- MODULE EngineProofs ----------------------------
(***************************************************************************)
(* Proofs about Engine: type correctness, and the safety of the registry   *)
(* (one role per device, no ghost device, no silent replacement).          *)
(***************************************************************************)
EXTENDS Engine, TLAPS

\* What the fields of a command are, by its type.
LEMMA CommandShape ==
  ASSUME NEW m \in EngineCommand
  PROVE  /\ m.type \in {"Connected", "Disconnected", "Error", "Reattached", "Request", "Shutdown"}
         /\ m.type \in {"Connected", "Disconnected", "Error", "Reattached", "Request"}
              => m.dev \in Devices
         /\ m.type = "Reattached" => m.wk \in Workers /\ m.tok \in Nat
         /\ m.type = "Request" => m.kind \in Kinds /\ m.from \in Clients
  BY DEF EngineCommand, UdevEvent

\* The head of a non-empty channel is a command, and its tail a channel.
LEMMA TakesShape ==
  ASSUME engineQ \in Seq(EngineCommand), Len(engineQ) <= EngineCap, NEW type, Takes(type)
  PROVE  /\ Head(engineQ) \in EngineCommand
         /\ Head(engineQ).type = type
         /\ engineQ' \in Seq(EngineCommand)
         /\ Len(engineQ') <= EngineCap
  BY BoundsAssumption DEF Takes

\* A command sent into a channel with room leaves a channel within its capacity.
LEMMA SendShape ==
  ASSUME engineQ \in Seq(EngineCommand), Room, NEW m \in EngineCommand,
         engineQ' = Append(engineQ, m)
  PROVE  engineQ' \in Seq(EngineCommand) /\ Len(engineQ') <= EngineCap
  BY BoundsAssumption DEF Room

\* The caller table keeps its shape when replies are sent.
LEMMA AnsweredShape ==
  ASSUME client \in [Clients -> {"idle", "waiting"}], NEW S
  PROVE  Answered(S) \in [Clients -> {"idle", "waiting"}]
  BY DEF Answered

LEMMA BackoffShape ==
  ASSUME TypeOK, NEW d \in Devices \cup {NoDevice}, StartBackoff(d)
  PROVE  /\ task' \in [Tasks -> TaskRec]
         /\ reconnecting' \in [Devices -> Nat \cup {NoToken}]
         /\ nextToken' \in Nat
<1>1. [pc |-> "sleeping", dev |-> d, tok |-> nextToken, attempts |-> 0, wk |-> NoWorker] \in TaskRec
  BY DEF TypeOK, TaskRec
<1>2. PICK t \in Tasks :
        /\ task' = [task EXCEPT ![t] = [pc |-> "sleeping", dev |-> d, tok |-> nextToken,
                                        attempts |-> 0, wk |-> NoWorker]]
        /\ reconnecting' = [reconnecting EXCEPT ![d] = nextToken]
        /\ nextToken' = nextToken + 1
  BY DEF StartBackoff, TokenAdvanced
<1>3. task' \in [Tasks -> TaskRec]
  BY <1>1, <1>2 DEF TypeOK
<1>4. reconnecting' \in [Devices -> Nat \cup {NoToken}]
  BY <1>2 DEF TypeOK
<1>5. nextToken' \in Nat
  BY <1>2 DEF TypeOK
<1>6. QED
  BY <1>3, <1>4, <1>5

\* A worker that was just spawned, or has returned, is a worker record.
LEMMA WorkerShape ==
  ASSUME NEW d \in Devices \cup {NoDevice}
  PROVE  Fresh(d) \in WorkerRec /\ Gone(d) \in WorkerRec
  BY DEF Fresh, Gone, WorkerRec

-----------------------------------------------------------------------------
\* Type correctness of the initial state.
LEMMA TypeInit == Init => TypeOK
<1> SUFFICES ASSUME Init PROVE TypeOK
  OBVIOUS
<1>1. Unspawned \in WorkerRec
  BY DEF Unspawned, WorkerRec
<1>2. NoTaskYet \in TaskRec
  BY DEF NoTaskYet, TaskRec
<1>3. /\ udevQ \in Seq(UdevEvent) /\ Len(udevQ) <= UdevCap
      /\ engineQ \in Seq(EngineCommand) /\ Len(engineQ) <= EngineCap
  BY BoundsAssumption DEF Init
<1>4. QED
  BY <1>1, <1>2, <1>3 DEF Init, TypeOK

LEMMA TypeEnvironment ==
  ASSUME TypeOK,
         \/ \E d \in Devices : \E lost \in BOOLEAN : KernelEvent(d, lost)
         \/ UdevPump
         \/ SendShutdown
         \/ \E c \in Clients : \E d \in Devices : \E k \in Kinds : ClientRequest(c, d, k)
  PROVE  TypeOK'
<1>1. ASSUME NEW d \in Devices, NEW lost \in BOOLEAN, KernelEvent(d, lost)
      PROVE  TypeOK'
  <2>1. [type |-> IF plugged[d] THEN "Disconnected" ELSE "Connected", dev |-> d] \in UdevEvent
    BY DEF UdevEvent
  <2>2. udevQ' \in Seq(UdevEvent) /\ Len(udevQ') <= UdevCap
    BY <1>1, <2>1, BoundsAssumption DEF TypeOK, KernelEvent
  <2>3. QED
    BY <1>1, <2>2 DEF TypeOK, KernelEvent, supVars, registryVars, historyVars
<1>2. CASE UdevPump
  <2>1. Head(udevQ) \in EngineCommand /\ udevQ' \in Seq(UdevEvent) /\ Len(udevQ') <= UdevCap
    BY <1>2, BoundsAssumption DEF TypeOK, UdevPump, EngineCommand
  <2>2. engineQ' \in Seq(EngineCommand) /\ Len(engineQ') <= EngineCap
    BY <1>2, <2>1, SendShape DEF TypeOK, UdevPump
  <2>3. QED
    BY <1>2, <2>1, <2>2 DEF TypeOK, UdevPump, supVars, registryVars, historyVars
<1>3. CASE SendShutdown
  <2>1. [type |-> "Shutdown"] \in EngineCommand
    BY DEF EngineCommand
  <2>2. engineQ' \in Seq(EngineCommand) /\ Len(engineQ') <= EngineCap
    BY <1>3, <2>1, SendShape DEF TypeOK, SendShutdown
  <2>3. QED
    BY <1>3, <2>2 DEF TypeOK, SendShutdown, kernelVars, supVars, registryVars, historyVars
<1>4. ASSUME NEW c \in Clients, NEW d \in Devices, NEW k \in Kinds, ClientRequest(c, d, k)
      PROVE  TypeOK'
  <2>1. [type |-> "Request", dev |-> d, kind |-> k, from |-> c] \in EngineCommand
    BY DEF EngineCommand
  <2>2. engineQ' \in Seq(EngineCommand) /\ Len(engineQ') <= EngineCap
    BY <1>4, <2>1, SendShape DEF TypeOK, ClientRequest
  <2>3. QED
    BY <1>4, <2>2 DEF TypeOK, ClientRequest, kernelVars, supVars, registryVars, historyVars
<1>5. QED
  BY <1>1, <1>2, <1>3, <1>4

LEMMA TypeSupervisor ==
  ASSUME TypeOK, Supervisor
  PROVE  TypeOK'
<1>1. CASE SupConnected
  <2>1. Head(engineQ).dev \in Devices /\ engineQ' \in Seq(EngineCommand) /\ Len(engineQ') <= EngineCap
    BY <1>1, TakesShape, CommandShape DEF TypeOK, SupConnected
  <2>2. QED
    BY <1>1, <2>1 DEF TypeOK, SupConnected, kernelVars, supVars, Takes
<1>2. CASE SupAttached
  <2>1. PICK w \in Workers : /\ worker' = [worker EXCEPT ![w] = Fresh(supDev)]
                              /\ devices' = [devices EXCEPT ![supDev] = w]
    BY <1>2 DEF SupAttached
  <2>2. worker' \in [Workers -> WorkerRec]
    BY <2>1, WorkerShape DEF TypeOK
  <2>3. devices' \in [Devices -> Workers \cup {NoWorker}]
    BY <2>1 DEF TypeOK
  <2>4. QED
    BY <1>2, <2>2, <2>3 DEF TypeOK, SupAttached, kernelVars
<1>3. CASE SupAttachTransient
  <2>1. /\ task' \in [Tasks -> TaskRec]
        /\ reconnecting' \in [Devices -> Nat \cup {NoToken}]
        /\ nextToken' \in Nat
    BY <1>3, BackoffShape DEF TypeOK, SupAttachTransient
  <2>2. QED
    BY <1>3, <2>1 DEF TypeOK, SupAttachTransient, kernelVars, historyVars
<1>4. CASE SupAttachPermanent
  BY <1>4 DEF TypeOK, SupAttachPermanent, kernelVars, registryVars, historyVars
<1>5. CASE SupDisconnected
  <2>1. Head(engineQ).dev \in Devices /\ engineQ' \in Seq(EngineCommand) /\ Len(engineQ') <= EngineCap
    BY <1>5, TakesShape, CommandShape DEF TypeOK, SupDisconnected
  <2>2. QED
    BY <1>5, <2>1 DEF TypeOK, SupDisconnected, EntryRemoved, kernelVars, supVars
<1>6. CASE SupError
  <2>1. Head(engineQ).dev \in Devices /\ engineQ' \in Seq(EngineCommand) /\ Len(engineQ') <= EngineCap
    BY <1>6, TakesShape, CommandShape DEF TypeOK, SupError
  <2>2. CASE devices[Head(engineQ).dev] = NoWorker
    BY <1>6, <2>1, <2>2 DEF TypeOK, SupError, kernelVars, supVars, registryVars
  <2>3. CASE devices[Head(engineQ).dev] # NoWorker
    BY <1>6, <2>1, <2>3, BackoffShape DEF TypeOK, SupError, EntryRemoved, kernelVars, supVars
  <2>4. QED
    BY <2>2, <2>3
<1>7. CASE SupReattached
  <2>1. /\ Head(engineQ).dev \in Devices /\ Head(engineQ).wk \in Workers
        /\ engineQ' \in Seq(EngineCommand) /\ Len(engineQ') <= EngineCap
    BY <1>7, TakesShape, CommandShape DEF TypeOK, SupReattached
  <2>2. QED
    BY <1>7, <2>1 DEF TypeOK, SupReattached, RecoveryOver, kernelVars, supVars
<1>8. CASE SupRequestAnswered
  <2>1. engineQ' \in Seq(EngineCommand) /\ Len(engineQ') <= EngineCap
    BY <1>8, TakesShape DEF TypeOK, SupRequestAnswered
  <2>2. client' \in [Clients -> {"idle", "waiting"}]
    BY <1>8, AnsweredShape DEF TypeOK, SupRequestAnswered
  <2>3. QED
    BY <1>8, <2>1, <2>2 DEF TypeOK, SupRequestAnswered, kernelVars, supVars, registryVars, historyVars
<1>9. CASE SupRequestDispatched
  <2> DEFINE m == Head(engineQ)
             w == devices[m.dev]
  <2>1. /\ m.dev \in Devices /\ m.kind \in Kinds /\ m.from \in Clients
        /\ engineQ' \in Seq(EngineCommand) /\ Len(engineQ') <= EngineCap
    BY <1>9, TakesShape, CommandShape DEF TypeOK, SupRequestDispatched
  <2>2. w \in Workers
    BY <1>9, <2>1 DEF TypeOK, SupRequestDispatched
  <2>3. client' \in [Clients -> {"idle", "waiting"}]
    <3>1. client' = client \/ client' = Answered({m.from})
      BY <1>9, Zenon DEF SupRequestDispatched, Rejected
    <3>2. client \in [Clients -> {"idle", "waiting"}]
      BY DEF TypeOK
    <3>3. QED
      BY <3>1, <3>2, AnsweredShape
  <2>4. devices' \in [Devices -> Workers \cup {NoWorker}]
    BY <1>9, <2>1 DEF TypeOK, SupRequestDispatched, EntryRemoved
  <2>5. worker' \in [Workers -> WorkerRec]
    <3>1. [kind |-> m.kind, from |-> m.from] \in WorkerOp
      BY <2>1 DEF WorkerOp
    <3>2. Append(worker[w].queue, [kind |-> m.kind, from |-> m.from]) \in Seq(WorkerOp)
      BY <2>2, <3>1 DEF TypeOK, WorkerRec
    <3>3. [worker[w] EXCEPT !.queue = Append(worker[w].queue, [kind |-> m.kind, from |-> m.from])]
            \in WorkerRec
      <4>1. worker[w] \in WorkerRec
        BY <2>2 DEF TypeOK
      <4>2. QED
        BY <3>2, <4>1 DEF WorkerRec
    <3>4. QED
      BY <1>9, <2>2, <3>3 DEF TypeOK, SupRequestDispatched
  <2>6. QED
    BY <1>9, <2>1, <2>3, <2>4, <2>5 DEF TypeOK, SupRequestDispatched, kernelVars, supVars, historyVars
<1>10. CASE SupShutdown
  <2>1. client' \in [Clients -> {"idle", "waiting"}]
    BY <1>10, AnsweredShape DEF TypeOK, SupShutdown
  <2>2. engineQ' \in Seq(EngineCommand) /\ Len(engineQ') <= EngineCap
    BY <1>10, BoundsAssumption DEF SupShutdown
  <2>3. QED
    BY <1>10, <2>1, <2>2 DEF TypeOK, SupShutdown, NoHandles, kernelVars, historyVars
<1>11. QED
  BY <1>1, <1>2, <1>3, <1>4, <1>5, <1>6, <1>7, <1>8, <1>9, <1>10 DEF Supervisor

LEMMA TypeWorker ==
  ASSUME TypeOK, SpawnedOK, NEW w \in Workers, WorkerStep(w)
  PROVE  TypeOK'
<1>0. worker[w] \in WorkerRec /\ worker[w].dev \in Devices \cup {NoDevice}
  BY DEF TypeOK, WorkerRec
<1>1. ASSUME NEW o \in Outcomes, WorkerOpDone(w, o)
      PROVE  TypeOK'
  <2>1. client' \in [Clients -> {"idle", "waiting"}]
    BY <1>1, AnsweredShape DEF TypeOK, WorkerOpDone
  <2>2. PICK a \in BOOLEAN, p \in {"loop", "failing"} :
          worker' = [worker EXCEPT ![w].queue = Tail(@), ![w].armed = a, ![w].pc = p]
    BY <1>0, <1>1 DEF WorkerOpDone, WorkerRec
  <2>3. Tail(worker[w].queue) \in Seq(WorkerOp)
    BY <1>0, <1>1 DEF WorkerOpDone, WorkerRec
  <2>4. worker' \in [Workers -> WorkerRec]
    BY <1>0, <2>2, <2>3 DEF TypeOK, WorkerRec
  <2>5. QED
    BY <1>1, <2>1, <2>4 DEF TypeOK, WorkerOpDone, kernelVars, supVars, registryVars, historyVars
<1>2. ASSUME NEW o \in Outcomes, WorkerDebounce(w, o)
      PROVE  TypeOK'
  <2>1. worker' \in [Workers -> WorkerRec]
    BY <1>0, <1>2 DEF TypeOK, WorkerDebounce, WorkerRec
  <2>2. QED
    BY <1>2, <2>1 DEF TypeOK, WorkerDebounce, kernelVars, supVars, registryVars, historyVars
<1>3. CASE WorkerClosed(w)
  <2>1. worker' \in [Workers -> WorkerRec]
    BY <1>0, <1>3, WorkerShape DEF TypeOK, WorkerClosed
  <2>2. QED
    BY <1>3, <2>1 DEF TypeOK, WorkerClosed, kernelVars, supVars, registryVars, historyVars
<1>4. CASE WorkerReport(w)
  <2>1. worker[w].dev \in Devices => [type |-> "Error", dev |-> worker[w].dev] \in EngineCommand
    BY DEF EngineCommand
  <2>2. worker' \in [Workers -> WorkerRec]
    BY <1>0, <1>4 DEF TypeOK, WorkerReport, WorkerRec
  <2>3. engineQ' \in Seq(EngineCommand) /\ Len(engineQ') <= EngineCap
    BY <1>4, <2>1, SendShape DEF TypeOK, SpawnedOK, WorkerReport, ReportSentOrRefused
  <2>4. QED
    BY <1>4, <2>2, <2>3 DEF TypeOK, WorkerReport, kernelVars, supVars, registryVars, historyVars
<1>5. CASE WorkerExit(w) \/ WorkerPanic(w)
  <2>1. client' \in [Clients -> {"idle", "waiting"}]
    BY <1>5, AnsweredShape DEF TypeOK, WorkerExit, WorkerPanic
  <2>2. worker' \in [Workers -> WorkerRec]
    BY <1>0, <1>5, WorkerShape DEF TypeOK, WorkerExit, WorkerPanic
  <2>3. QED
    BY <1>5, <2>1, <2>2
       DEF TypeOK, WorkerExit, WorkerPanic, kernelVars, supVars, registryVars, historyVars
<1>6. QED
  BY <1>1, <1>2, <1>3, <1>4, <1>5 DEF WorkerStep

LEMMA TypeTask ==
  ASSUME TypeOK, SpawnedOK, NEW t \in Tasks, TaskStep(t)
  PROVE  TypeOK'
<1>0. task[t] \in TaskRec /\ task[t].dev \in Devices \cup {NoDevice}
  BY DEF TypeOK, TaskRec
<1>1. Ended(t) \in [Tasks -> TaskRec]
  BY <1>0 DEF TypeOK, Ended, TaskRec
<1>2. CASE TaskCancelled(t)
  BY <1>1, <1>2 DEF TypeOK, TaskCancelled, kernelVars, supVars, registryVars, historyVars
<1>3. CASE TaskWake(t)
  <2>1. task' \in [Tasks -> TaskRec]
    <3>1. task[t].attempts + 1 \in Nat
      BY <1>0 DEF TaskRec
    <3>2. [task[t] EXCEPT !.pc = "attaching", !.attempts = task[t].attempts + 1] \in TaskRec
      BY <1>0, <3>1 DEF TaskRec
    <3>3. QED
      BY <1>3, <3>2 DEF TypeOK, TaskWake, Counted
  <2>2. QED
    BY <1>3, <2>1 DEF TypeOK, TaskWake, kernelVars, supVars, registryVars, historyVars
<1>4. CASE TaskAttached(t)
  <2>1. PICK w \in Workers :
          /\ worker' = [worker EXCEPT ![w] = Fresh(task[t].dev)]
          /\ task' = IF Current(t)
                       THEN [task EXCEPT ![t].pc = "sending", ![t].wk = w]
                       ELSE Ended(t)
    BY <1>4 DEF TaskAttached
  <2>2. worker' \in [Workers -> WorkerRec]
    BY <1>0, <2>1, WorkerShape DEF TypeOK
  <2>3. task' \in [Tasks -> TaskRec]
    BY <1>0, <1>1, <2>1 DEF TypeOK, TaskRec
  <2>4. QED
    BY <1>4, <2>2, <2>3 DEF TypeOK, TaskAttached, kernelVars, supVars, registryVars, historyVars
<1>5. ASSUME NEW o \in FailedAttach, TaskAttachFailed(t, o)
      PROVE  TypeOK'
  <2>1. task' \in [Tasks -> TaskRec]
    BY <1>0, <1>1, <1>5 DEF TypeOK, TaskAttachFailed, TaskRec
  <2>2. QED
    BY <1>5, <2>1 DEF TypeOK, TaskAttachFailed, kernelVars, supVars, registryVars, historyVars
<1>6. CASE TaskSend(t)
  <2> DEFINE m == [type |-> "Reattached", dev |-> task[t].dev, wk |-> task[t].wk, tok |-> task[t].tok]
  <2>1. m \in EngineCommand
    BY <1>0, <1>6 DEF SpawnedOK, TaskSend, EngineCommand
  <2>2. engineQ' \in Seq(EngineCommand) /\ Len(engineQ') <= EngineCap
    BY <1>6, <2>1, SendShape DEF TypeOK, TaskSend
  <2>3. QED
    BY <1>1, <1>6, <2>2 DEF TypeOK, TaskSend, kernelVars, supVars, registryVars, historyVars
<1>7. QED
  BY <1>2, <1>3, <1>4, <1>5, <1>6 DEF TaskStep

-----------------------------------------------------------------------------
(* The registry. *)

\* The inductive invariant.  OneRole and NoGhostDevice mention what a handler
\* is about to act on (the device being attached, the token of a message), so
\* they are inductive only together and with the shapes of those.
RegistryInv == TypeOK /\ SpawnedOK /\ OneRole /\ NoGhostDevice

LEMMA RegistryInit == Init => RegistryInv
<1> SUFFICES ASSUME Init PROVE RegistryInv
  OBVIOUS
<1>1. TypeOK
  BY TypeInit
<1>2. SpawnedOK
  BY DevicesAssumption DEF Init, SpawnedOK, Unspawned, NoTaskYet
<1>3. OneRole /\ NoGhostDevice
  BY DevicesAssumption DEF Init, OneRole, NoGhostDevice
<1>4. QED
  BY <1>1, <1>2, <1>3 DEF RegistryInv

\* Starting a back-off leaves every running task with a device and a token.
LEMMA BackoffSpawned ==
  ASSUME TypeOK, SpawnedOK, NEW d \in Devices, StartBackoff(d)
  PROVE  \A t \in Tasks :
           /\ task'[t].pc # "none" => task'[t].dev \in Devices /\ task'[t].tok \in Nat
           /\ task'[t].pc = "sending" => task'[t].wk \in Workers
  BY DEF TypeOK, SpawnedOK, StartBackoff

LEMMA SpawnedSupervisor ==
  ASSUME TypeOK, SpawnedOK, Supervisor
  PROVE  SpawnedOK'
<1>1. CASE SupConnected
  <2>1. Head(engineQ).dev \in Devices
    BY <1>1, TakesShape, CommandShape DEF TypeOK, SupConnected
  <2>2. QED
    BY <1>1, <2>1 DEF SpawnedOK, SupConnected, Takes, supVars
<1>2. CASE SupAttached
  <2>1. supDev \in Devices
    BY <1>2 DEF SpawnedOK, SupAttached
  <2>2. \A w \in Workers : worker'[w].pc # "none" => worker'[w].dev \in Devices
    BY <1>2, <2>1 DEF TypeOK, SpawnedOK, SupAttached, Fresh
  <2>3. QED
    BY <1>2, <2>2, DevicesAssumption DEF SpawnedOK, SupAttached
<1>3. CASE SupAttachTransient
  <2>1. supDev \in Devices
    BY <1>3 DEF SpawnedOK, SupAttachTransient
  <2>2. QED
    BY <1>3, <2>1, BackoffSpawned, DevicesAssumption DEF SpawnedOK, SupAttachTransient
<1>4. CASE SupAttachPermanent
  BY <1>4, DevicesAssumption DEF SpawnedOK, SupAttachPermanent
<1>5. CASE SupDisconnected
  BY <1>5 DEF SpawnedOK, SupDisconnected, supVars
<1>6. CASE SupError
  <2>1. Head(engineQ).dev \in Devices
    BY <1>6, TakesShape, CommandShape DEF TypeOK, SupError
  <2>2. CASE devices[Head(engineQ).dev] = NoWorker
    BY <1>6, <2>2 DEF SpawnedOK, SupError, supVars
  <2>3. CASE devices[Head(engineQ).dev] # NoWorker
    <3>1. StartBackoff(Head(engineQ).dev)
      BY <1>6, <2>3 DEF SupError
    <3>2. QED
      BY <1>6, <2>1, <3>1, BackoffSpawned DEF SpawnedOK, SupError, supVars
  <2>4. QED
    BY <2>2, <2>3
<1>7. CASE SupReattached
  BY <1>7 DEF SpawnedOK, SupReattached, supVars
<1>8. CASE SupRequestAnswered
  BY <1>8 DEF SpawnedOK, SupRequestAnswered, supVars
<1>9. CASE SupRequestDispatched
  <2>1. \A w \in Workers : worker'[w].pc = worker[w].pc /\ worker'[w].dev = worker[w].dev
    <3>1. ASSUME NEW v \in Workers, NEW q,
                 worker' = [worker EXCEPT ![v].queue = q]
          PROVE  \A w \in Workers : worker'[w].pc = worker[w].pc /\ worker'[w].dev = worker[w].dev
      BY <3>1 DEF TypeOK, WorkerRec
    <3>2. devices[Head(engineQ).dev] \in Workers
      BY <1>9, TakesShape, CommandShape DEF TypeOK, SupRequestDispatched
    <3>3. QED
      BY <1>9, <3>1, <3>2 DEF SupRequestDispatched
  <2>2. QED
    BY <1>9, <2>1 DEF SpawnedOK, SupRequestDispatched, supVars
<1>10. CASE SupShutdown
  BY <1>10 DEF SpawnedOK, SupShutdown
<1>11. QED
  BY <1>1, <1>2, <1>3, <1>4, <1>5, <1>6, <1>7, <1>8, <1>9, <1>10 DEF Supervisor

\* Outside the supervisor the registry, the attach in progress and the history
\* of udev commands do not change.
Elsewhere ==
  \/ \E d \in Devices : \E lost \in BOOLEAN : KernelEvent(d, lost)
  \/ UdevPump
  \/ SendShutdown
  \/ \E c \in Clients : \E d \in Devices : \E k \in Kinds : ClientRequest(c, d, k)
  \/ \E w \in Workers : WorkerStep(w)
  \/ \E t \in Tasks : TaskStep(t)

LEMMA ElsewhereLeavesRegistry ==
  ASSUME Elsewhere
  PROVE  UNCHANGED <<supPc, supDev, devices, reconnecting, nextToken, present, announced>>
  BY DEF Elsewhere, KernelEvent, UdevPump, SendShutdown, ClientRequest, WorkerStep, WorkerOpDone,
         WorkerDebounce, WorkerClosed, WorkerReport, WorkerExit, WorkerPanic, TaskStep,
         TaskCancelled, TaskWake, TaskAttached, TaskAttachFailed, TaskSend,
         supVars, registryVars, historyVars

\* A worker's step is its own: it keeps its device, the other workers and the
\* reconnect tasks are as they were, and a worker that was never spawned takes none.
LEMMA WorkerStepShape ==
  ASSUME TypeOK, NEW w \in Workers, WorkerStep(w)
  PROVE  /\ worker[w].pc # "none" /\ worker'[w].pc # "none"
         /\ \A v \in Workers : worker'[v].dev = worker[v].dev
         /\ \A v \in Workers \ {w} : worker'[v] = worker[v]
         /\ UNCHANGED task
<1>0. worker \in [Workers -> WorkerRec]
  BY DEF TypeOK
<1>r. worker[w] \in WorkerRec
  BY <1>0
<1>1. ASSUME NEW o \in Outcomes, WorkerOpDone(w, o)
      PROVE  /\ worker[w].pc # "none" /\ UNCHANGED task
             /\ worker'[w].dev = worker[w].dev /\ worker'[w].pc # "none"
             /\ \A v \in Workers \ {w} : worker'[v] = worker[v]
  <2>1. PICK a \in BOOLEAN, p \in {"loop", "failing"} :
          worker' = [worker EXCEPT ![w].queue = Tail(@), ![w].armed = a, ![w].pc = p]
    BY <1>r, <1>1 DEF WorkerOpDone, WorkerRec
  <2>2. worker[w].pc # "none" /\ UNCHANGED task
    BY <1>1 DEF WorkerOpDone
  <2>3. QED
    BY <1>0, <2>1, <2>2 DEF WorkerRec
<1>2. ASSUME NEW o \in Outcomes, WorkerDebounce(w, o)
      PROVE  /\ worker[w].pc # "none" /\ UNCHANGED task
             /\ \E p \in {"loop", "failing"} :
                  worker' = [worker EXCEPT ![w].armed = FALSE, ![w].pc = p]
  BY <1>2 DEF WorkerDebounce
<1>3. CASE WorkerReport(w)
  <2>1. worker[w].pc # "none" /\ worker' = [worker EXCEPT ![w].pc = "leaving"] /\ UNCHANGED task
    BY <1>3 DEF WorkerReport
  <2>2. QED
    BY <1>0, <2>1 DEF WorkerRec
<1>4. CASE WorkerClosed(w) \/ WorkerExit(w) \/ WorkerPanic(w)
  <2>1. worker[w].pc # "none" /\ worker' = [worker EXCEPT ![w] = Gone(worker[w].dev)] /\ UNCHANGED task
    BY <1>4 DEF WorkerClosed, WorkerExit, WorkerPanic
  <2>2. QED
    BY <1>0, <2>1 DEF Gone
<1>5. CASE \E o \in Outcomes : WorkerOpDone(w, o)
  BY <1>0, <1>1, <1>5
<1>6. CASE \E o \in Outcomes : WorkerDebounce(w, o)
  <2>1. PICK p \in {"loop", "failing"} : worker' = [worker EXCEPT ![w].armed = FALSE, ![w].pc = p]
    BY <1>2, <1>6
  <2>2. QED
    BY <1>0, <1>2, <1>6, <2>1 DEF WorkerRec
<1>7. QED
  BY <1>3, <1>4, <1>5, <1>6 DEF WorkerStep

LEMMA SpawnedElsewhere ==
  ASSUME TypeOK, SpawnedOK, Elsewhere
  PROVE  SpawnedOK'
<1>1. supPc' = supPc /\ supDev' = supDev
  BY ElsewhereLeavesRegistry
<1>2. CASE UNCHANGED <<worker, task>>
  BY <1>1, <1>2 DEF SpawnedOK
<1>3. ASSUME NEW w \in Workers, WorkerStep(w)
      PROVE  SpawnedOK'
  BY <1>1, <1>3, WorkerStepShape DEF SpawnedOK
<1>4. ASSUME NEW t \in Tasks, TaskStep(t)
      PROVE  SpawnedOK'
  <2>1. task[t].dev \in Devices /\ task[t].tok \in Nat
    BY <1>4 DEF SpawnedOK, TaskStep, TaskCancelled, TaskWake, TaskAttached, TaskAttachFailed, TaskSend
  <2>2. \A u \in Tasks : task'[u].dev = task[u].dev /\ task'[u].tok = task[u].tok
    <3>1. \A u \in Tasks : Ended(t)[u].dev = task[u].dev /\ Ended(t)[u].tok = task[u].tok
      BY DEF TypeOK, TaskRec, Ended
    <3>2. CASE TaskCancelled(t) \/ TaskSend(t)
      BY <3>1, <3>2 DEF TaskCancelled, TaskSend
    <3>3. CASE TaskWake(t)
      BY <3>3 DEF TypeOK, TaskRec, TaskWake
    <3>4. CASE TaskAttached(t)
      BY <3>1, <3>4 DEF TypeOK, TaskRec, TaskAttached
    <3>5. CASE \E o \in FailedAttach : TaskAttachFailed(t, o)
      BY <3>1, <3>5 DEF TypeOK, TaskRec, TaskAttachFailed
    <3>6. QED
      BY <1>4, <3>2, <3>3, <3>4, <3>5 DEF TaskStep
  <2>3. \A u \in Tasks \ {t} : task'[u] = task[u]
    BY <1>4 DEF TypeOK, TaskStep, TaskCancelled, TaskWake, TaskAttached,
                TaskAttachFailed, TaskSend, Ended
  <2>4. task'[t].pc = "sending" => task'[t].wk \in Workers
    BY <1>4 DEF TypeOK, TaskRec, TaskStep, TaskCancelled, TaskWake, TaskAttached,
                TaskAttachFailed, TaskSend, Ended
  <2>5. \A w \in Workers : worker'[w].pc # "none" => worker'[w].dev \in Devices
    <3>1. CASE worker' = worker
      BY <3>1 DEF SpawnedOK
    <3>2. ASSUME NEW v \in Workers, worker' = [worker EXCEPT ![v] = Fresh(task[t].dev)]
          PROVE  \A w \in Workers : worker'[w].pc # "none" => worker'[w].dev \in Devices
      BY <2>1, <3>2 DEF TypeOK, SpawnedOK, Fresh
    <3>3. QED
      BY <1>4, <3>1, <3>2 DEF TaskStep, TaskCancelled, TaskWake, TaskAttached,
                              TaskAttachFailed, TaskSend
  <2>6. QED
    BY <1>1, <2>1, <2>2, <2>3, <2>4, <2>5 DEF SpawnedOK
<1>5. QED
  BY <1>2, <1>3, <1>4 DEF Elsewhere, KernelEvent, UdevPump, SendShutdown, ClientRequest

LEMMA TypeElsewhere ==
  ASSUME TypeOK, SpawnedOK, Elsewhere
  PROVE  TypeOK'
  BY TypeEnvironment, TypeWorker, TypeTask DEF Elsewhere

LEMMA RolesSupervisor ==
  ASSUME RegistryInv, Supervisor
  PROVE  OneRole' /\ NoGhostDevice'
<1> USE DEF RegistryInv
<1>0. NoDevice \notin Devices /\ (supPc # "attaching" => supDev = NoDevice)
  BY DevicesAssumption DEF TypeOK, SpawnedOK
<1>1. CASE SupConnected
  <2>1. Head(engineQ).dev \in Devices
    BY <1>1, TakesShape, CommandShape DEF TypeOK, SupConnected
  <2>2. QED
    BY <1>0, <1>1, <2>1 DEF TypeOK, OneRole, NoGhostDevice, SupConnected, Takes, Duplicate, supVars
<1>2. CASE SupAttached
  BY <1>0, <1>2 DEF TypeOK, SpawnedOK, OneRole, NoGhostDevice, SupAttached
<1>3. CASE SupAttachTransient
  BY <1>0, <1>3 DEF TypeOK, SpawnedOK, OneRole, NoGhostDevice, SupAttachTransient, StartBackoff,
                    historyVars
<1>4. CASE SupAttachPermanent
  BY <1>0, <1>4 DEF OneRole, NoGhostDevice, SupAttachPermanent, registryVars, historyVars
<1>5. CASE SupDisconnected
  <2>1. Head(engineQ).dev \in Devices
    BY <1>5, TakesShape, CommandShape DEF TypeOK, SupDisconnected
  <2>2. QED
    BY <1>0, <1>5, <2>1 DEF TypeOK, OneRole, NoGhostDevice, SupDisconnected, Takes, EntryRemoved, supVars
<1>6. CASE SupError
  <2>1. Head(engineQ).dev \in Devices /\ supDev = NoDevice /\ supDev' = NoDevice
    BY <1>0, <1>6, TakesShape, CommandShape DEF TypeOK, SupError, Takes, supVars
  <2>2. CASE devices[Head(engineQ).dev] = NoWorker
    BY <1>6, <2>1, <2>2 DEF OneRole, NoGhostDevice, SupError, registryVars, supVars
  <2>3. CASE devices[Head(engineQ).dev] # NoWorker
    BY <1>0, <1>6, <2>1, <2>3
       DEF TypeOK, OneRole, NoGhostDevice, SupError, StartBackoff, EntryRemoved
  <2>4. QED
    BY <2>2, <2>3
<1>7. CASE SupReattached
  <2>1. Head(engineQ).dev \in Devices /\ Head(engineQ).tok \in Nat
    BY <1>7, TakesShape, CommandShape DEF TypeOK, SupReattached
  <2>2. supDev = NoDevice /\ supDev' = NoDevice
    BY <1>0, <1>7 DEF SupReattached, Takes, supVars
  <2>3. CASE Honoured(Head(engineQ))
    <3>1. reconnecting[Head(engineQ).dev] # NoToken
      BY <2>1, <2>3 DEF Honoured, NoToken
    <3>2. QED
      BY <1>0, <1>7, <2>1, <2>2, <2>3, <3>1
         DEF TypeOK, OneRole, NoGhostDevice, SupReattached, RecoveryOver
  <2>4. CASE ~Honoured(Head(engineQ))
    BY <1>7, <2>2, <2>4 DEF OneRole, NoGhostDevice, SupReattached
  <2>5. QED
    BY <2>3, <2>4
<1>8. CASE SupRequestAnswered
  BY <1>8 DEF OneRole, NoGhostDevice, SupRequestAnswered, supVars, registryVars, historyVars
<1>9. CASE SupRequestDispatched
  <2>1. Head(engineQ).dev \in Devices
    BY <1>9, TakesShape, CommandShape DEF TypeOK, SupRequestDispatched
  <2>2. \A d \in Devices : devices'[d] \in {devices[d], NoWorker}
    BY <1>9, <2>1 DEF TypeOK, SupRequestDispatched, EntryRemoved
  <2>3. QED
    BY <1>9, <2>2 DEF OneRole, NoGhostDevice, SupRequestDispatched, supVars, historyVars
<1>10. CASE SupShutdown
  BY <1>0, <1>10 DEF OneRole, NoGhostDevice, SupShutdown, NoHandles, historyVars
<1>11. QED
  BY <1>1, <1>2, <1>3, <1>4, <1>5, <1>6, <1>7, <1>8, <1>9, <1>10 DEF Supervisor

LEMMA RegistryStep == RegistryInv /\ [Next]_vars => RegistryInv'
<1> SUFFICES ASSUME RegistryInv, [Next]_vars
             PROVE  RegistryInv'
  OBVIOUS
<1>1. CASE Supervisor
  BY <1>1, TypeSupervisor, SpawnedSupervisor, RolesSupervisor DEF RegistryInv
<1>2. CASE Elsewhere
  <2>1. TypeOK' /\ SpawnedOK'
    BY <1>2, TypeElsewhere, SpawnedElsewhere DEF RegistryInv
  <2>2. OneRole' /\ NoGhostDevice'
    BY <1>2, ElsewhereLeavesRegistry DEF RegistryInv, OneRole, NoGhostDevice
  <2>3. QED
    BY <2>1, <2>2 DEF RegistryInv
<1>3. CASE UNCHANGED vars
  BY <1>3 DEF vars, RegistryInv, TypeOK, SpawnedOK, OneRole, NoGhostDevice
<1>4. QED
  BY <1>1, <1>2, <1>3 DEF Next, Elsewhere

-----------------------------------------------------------------------------
\* The registry's invariant holds in every reachable state: for any devices,
\* callers, channel capacities and numbers of attempts.
THEOREM RegistryCorrect == Spec => []RegistryInv
  BY RegistryInit, RegistryStep, PTL DEF Spec

\* Types, and no bounded channel over its capacity, however many senders wait.
THEOREM TypeCorrect == Spec => []TypeOK
<1>1. RegistryInv => TypeOK
  BY DEF RegistryInv
<1>2. QED
  BY <1>1, RegistryCorrect, PTL

\* A device has one role: handle_command never serves a device that is also
\* being reconnected or attached.
THEOREM OneRoleHolds == Spec => []OneRole
<1>1. RegistryInv => OneRole
  BY DEF RegistryInv
<1>2. QED
  BY <1>1, RegistryCorrect, PTL

\* A device that udev removed stays gone until udev adds it again, whatever
\* reconnect tasks and worker reports are still in flight.
THEOREM NoGhostDeviceHolds == Spec => []NoGhostDevice
<1>1. RegistryInv => NoGhostDevice
  BY DEF RegistryInv
<1>2. QED
  BY <1>1, RegistryCorrect, PTL

\* No step replaces one registered worker by another.
THEOREM NoSilentReplacementHolds == Spec => NoSilentReplacement
<1>1. RegistryInv /\ [Next]_vars
        => [\A d \in Devices : devices[d] # NoWorker => devices'[d] \in {devices[d], NoWorker}]_vars
  <2> SUFFICES ASSUME RegistryInv, Next, NEW d \in Devices, devices[d] # NoWorker
               PROVE  devices'[d] \in {devices[d], NoWorker}
    OBVIOUS
  <2>1. CASE Elsewhere
    BY <2>1, ElsewhereLeavesRegistry
  <2>2. CASE SupAttached
    BY <2>2 DEF RegistryInv, TypeOK, SpawnedOK, OneRole, SupAttached
  <2>3. CASE SupReattached
    <3>1. Head(engineQ).dev \in Devices /\ Head(engineQ).tok \in Nat
      BY <2>3, TakesShape, CommandShape DEF RegistryInv, TypeOK, SupReattached
    <3>2. reconnecting[d] = NoToken
      BY DEF RegistryInv, OneRole
    <3>3. CASE Honoured(Head(engineQ))
      <4>1. Head(engineQ).dev # d
        BY <3>1, <3>2, <3>3 DEF Honoured, NoToken
      <4>2. QED
        BY <2>3, <3>1, <3>3, <4>1 DEF RegistryInv, TypeOK, SupReattached
    <3>4. CASE ~Honoured(Head(engineQ))
      BY <2>3, <3>4 DEF SupReattached
    <3>5. QED
      BY <3>3, <3>4
  <2>4. CASE SupConnected \/ SupAttachTransient \/ SupAttachPermanent \/ SupRequestAnswered
    BY <2>4 DEF SupConnected, SupAttachTransient, SupAttachPermanent, SupRequestAnswered, registryVars
  <2>5. CASE SupDisconnected \/ SupError \/ SupRequestDispatched
    BY <2>5 DEF RegistryInv, TypeOK, SupDisconnected, SupError, SupRequestDispatched, EntryRemoved,
                registryVars
  <2>6. CASE SupShutdown
    BY <2>6 DEF SupShutdown, NoHandles
  <2>7. QED
    BY <2>1, <2>2, <2>3, <2>4, <2>5, <2>6 DEF Next, Elsewhere, Supervisor
<1>2. QED
  BY <1>1, RegistryCorrect, PTL DEF Spec, NoSilentReplacement

\* What a client sees on the bus covers what is served: the last lifecycle event of every
\* served device is DeviceAdded (the arms of handle_command that emit one).
THEOREM ServedIsAnnouncedHolds == Spec => []ServedIsAnnounced
<1> DEFINE Inv == RegistryInv /\ ServedIsAnnounced
<1>1. Init => Inv
  BY RegistryInit DEF Init, ServedIsAnnounced
<1>2. Inv /\ [Next]_vars => Inv'
  <2> SUFFICES ASSUME Inv, [Next]_vars, NEW d \in Devices, devices'[d] # NoWorker
               PROVE  announced'[d]
    BY RegistryStep DEF ServedIsAnnounced
  <2>1. CASE Elsewhere \/ UNCHANGED vars
    <3>1. UNCHANGED <<devices, announced>>
      BY <2>1, ElsewhereLeavesRegistry DEF vars, historyVars
    <3>2. QED
      BY <3>1 DEF ServedIsAnnounced
  <2>2. CASE SupAttached
    BY <2>2 DEF ServedIsAnnounced, SupAttached, RegistryInv, TypeOK
  <2>3. CASE SupReattached
    BY <2>3 DEF ServedIsAnnounced, SupReattached, RegistryInv, TypeOK
  <2>4. CASE SupDisconnected \/ SupError \/ SupRequestDispatched
    BY <2>4 DEF ServedIsAnnounced, SupDisconnected, SupError, SupRequestDispatched, EntryRemoved,
                RegistryInv, TypeOK, registryVars, historyVars
  <2>5. CASE SupConnected \/ SupAttachTransient \/ SupAttachPermanent \/ SupRequestAnswered
    BY <2>5 DEF ServedIsAnnounced, SupConnected, SupAttachTransient, SupAttachPermanent,
                SupRequestAnswered, registryVars, historyVars
  <2>6. CASE SupShutdown
    BY <2>6 DEF SupShutdown, NoHandles
  <2>7. QED
    BY <2>1, <2>2, <2>3, <2>4, <2>5, <2>6 DEF Next, Elsewhere, Supervisor
<1>3. QED
  BY <1>1, <1>2, PTL DEF Spec
=============================================================================
