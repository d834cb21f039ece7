------------------------ MODULE EngineChannelsProofs ------------------------
(***************************************************************************)
(* Proofs about what travels through the channels of Engine.               *)
(*                                                                         *)
(* Handles: a handle is in one place at a time, the registry, a travelling *)
(* DeviceReattached or the task about to send it; and a token names one    *)
(* attempt to reconnect.  So at most one worker can come to serve a        *)
(* device, however many attempts, cancellations and replugs overlap.       *)
(*                                                                         *)
(* Calls: a client's call is in one place at a time, the engine channel or *)
(* the queue of one worker, exactly while the client waits for its reply.  *)
(***************************************************************************)
EXTENDS EngineProofs, FiniteSetTheorems

\* The handles in flight: sent and not yet received, and about to be sent.
Sent == {i \in DOMAIN engineQ : engineQ[i].type = "Reattached"}
Sending == {t \in Tasks : task[t].pc = "sending"}
Started == {t \in Tasks : task[t].pc # "none"}
Running == {t \in Tasks : task[t].pc \in {"sleeping", "attaching", "sending"}}

\* A token is handed out once, and is the running task's or its message's.
TokensUnique ==
  /\ \A d \in Devices : reconnecting[d] < nextToken
  /\ \A t \in Started : task[t].tok < nextToken
  /\ \A i \in Sent : engineQ[i].tok < nextToken
  /\ \A t, u \in Started : task[t].tok = task[u].tok => t = u
  /\ \A i, j \in Sent : engineQ[i].tok = engineQ[j].tok => i = j
  /\ \A i \in Sent, t \in Running : engineQ[i].tok # task[t].tok

\* A worker whose handle is in flight has done nothing yet, and none is registered
\* before it is spawned.
HandlesFresh ==
  /\ \A i \in Sent : worker[engineQ[i].wk] = Fresh(engineQ[i].dev)
  /\ \A t \in Sending : worker[task[t].wk] = Fresh(task[t].dev)
  /\ \A d \in Devices : devices[d] # NoWorker => worker[devices[d]].pc # "none"

\* No two places hold handles of one worker.
HeldOnce ==
  /\ \A d, e \in Devices : devices[d] # NoWorker /\ devices[d] = devices[e] => d = e
  /\ \A d \in Devices, i \in Sent : engineQ[i].wk # devices[d]
  /\ \A d \in Devices, t \in Sending : task[t].wk # devices[d]
  /\ \A i, j \in Sent : engineQ[i].wk = engineQ[j].wk => i = j
  /\ \A i \in Sent, t \in Sending : engineQ[i].wk # task[t].wk
  /\ \A t, u \in Sending : task[t].wk = task[u].wk => t = u

HandleInv == TokensUnique /\ HandlesFresh /\ HeldOnce

-----------------------------------------------------------------------------
(* What travels in the engine channel. *)

\* The handles in the channel after a step were there before it, k places back.
Shifted(k) == \A i \in Sent' : i + k \in Sent /\ engineQ'[i] = engineQ[i + k]

LEMMA SentKept ==
  ASSUME engineQ \in Seq(EngineCommand), engineQ' = engineQ
  PROVE  Shifted(0)
  BY DEF Shifted, Sent

LEMMA SentElse ==
  ASSUME engineQ \in Seq(EngineCommand), NEW m, m.type # "Reattached",
         engineQ' = Append(engineQ, m)
  PROVE  Shifted(0)
  BY DEF Shifted, Sent

LEMMA SentTaken ==
  ASSUME engineQ \in Seq(EngineCommand), NEW type, Takes(type)
  PROVE  Shifted(1)
  BY DEF Shifted, Sent, Takes

LEMMA SentCleared ==
  ASSUME engineQ' = <<>>
  PROVE  Shifted(0)
  BY DEF Shifted, Sent

\* The fields of a travelling handle.
LEMMA SentShape ==
  ASSUME TypeOK, NEW i \in Sent
  PROVE  /\ engineQ[i].dev \in Devices /\ engineQ[i].wk \in Workers /\ engineQ[i].tok \in Nat
         /\ i \in Nat \ {0}
<1>1. engineQ[i] \in EngineCommand /\ engineQ[i].type = "Reattached" /\ i \in Nat \ {0}
  BY DEF TypeOK, Sent
<1>2. QED
  BY <1>1, CommandShape

LEMMA SendingShape ==
  ASSUME TypeOK, SpawnedOK, NEW t \in Sending
  PROVE  /\ t \in Tasks /\ t \in Running /\ t \in Started
         /\ task[t].dev \in Devices /\ task[t].wk \in Workers /\ task[t].tok \in Nat
  BY DEF SpawnedOK, Sending, Running, Started

LEMMA NotNoWorker == NoWorker \notin Workers
  BY DEF NoWorker, Workers

\* A worker's handle is on its way to the supervisor.
InFlight(w) ==
  \/ \E i \in Sent : engineQ[i].wk = w
  \/ \E t \in Sending : task[t].wk = w

\* A worker in flight waits for its first operation, and its channel is open.
LEMMA InFlightIdle ==
  ASSUME HandlesFresh, NEW w \in Workers, InFlight(w)
  PROVE  /\ worker[w].pc = "loop" /\ worker[w].queue = <<>> /\ ~worker[w].armed
         /\ Held(w)
<1>1. \E d : worker[w] = Fresh(d)
  BY DEF HandlesFresh, InFlight
<1>2. Held(w)
  BY DEF InFlight, Held, Sent, Sending, Messages
<1>3. QED
  BY <1>1, <1>2 DEF Fresh

\* So it takes no step of its own.
LEMMA InFlightWaits ==
  ASSUME HandlesFresh, NEW w \in Workers, WorkerStep(w)
  PROVE  ~InFlight(w)
<1> SUFFICES ASSUME InFlight(w) PROVE FALSE
  OBVIOUS
<1>1. /\ worker[w].pc = "loop" /\ worker[w].queue = <<>> /\ ~worker[w].armed
      /\ Held(w)
  BY InFlightIdle
<1>2. QED
  BY <1>1 DEF WorkerStep, WorkerOpDone, WorkerDebounce, WorkerClosed, Deserted, WorkerReport,
              WorkerExit, WorkerPanic

-----------------------------------------------------------------------------
(* A step that hands out no token and spawns no worker keeps the invariant. *)

\* The registry only loses entries.
RegistryShrinks ==
  /\ \A d \in Devices : devices'[d] \in {devices[d], NoWorker}
  /\ \A d \in Devices : reconnecting'[d] \in {reconnecting[d], NoToken}
  /\ nextToken' = nextToken

\* The reconnect tasks only go on, or end.
TasksGoOn ==
  /\ Started' \subseteq Started /\ Running' \subseteq Running
  /\ \A t \in Tasks : task'[t].tok = task[t].tok /\ task'[t].dev = task[t].dev
  /\ \A t \in Sending' : t \in Sending /\ task'[t].wk = task[t].wk

\* Workers in flight are untouched, and no worker becomes unspawned.
WorkersGoOn ==
  /\ \A w \in Workers : InFlight(w) => worker'[w] = worker[w]
  /\ \A w \in Workers : worker[w].pc # "none" => worker'[w].pc # "none"

LEMMA NoNewHandle ==
  ASSUME TypeOK, SpawnedOK, HandleInv, NEW k \in {0, 1}, Shifted(k), TypeOK',
         RegistryShrinks, TasksGoOn, WorkersGoOn
  PROVE  HandleInv'
<1>1. TokensUnique'
  <2>1. /\ \A d \in Devices : reconnecting'[d] < nextToken'
        /\ \A t \in Started' : task'[t].tok < nextToken'
    <3>1. nextToken \in Nat /\ NoToken < nextToken
      BY DEF TypeOK, NoToken
    <3>2. Started' \subseteq Tasks
      BY DEF Started
    <3>3. QED
      BY <3>1, <3>2 DEF HandleInv, TokensUnique, RegistryShrinks, TasksGoOn
  <2>2. \A i \in Sent' : engineQ'[i].tok < nextToken'
    BY DEF HandleInv, TokensUnique, RegistryShrinks, Shifted
  <2>3. \A t, u \in Started' : task'[t].tok = task'[u].tok => t = u
    <3>1. Started' \subseteq Tasks
      BY DEF Started
    <3>2. QED
      BY <3>1 DEF HandleInv, TokensUnique, TasksGoOn
  <2>4. \A i, j \in Sent' : engineQ'[i].tok = engineQ'[j].tok => i = j
    <3>1. SUFFICES ASSUME NEW i \in Sent', NEW j \in Sent', engineQ'[i].tok = engineQ'[j].tok
                   PROVE  i = j
      OBVIOUS
    <3>2. i + k = j + k
      BY <3>1 DEF HandleInv, TokensUnique, Shifted
    <3>3. i \in Int /\ j \in Int
      BY DEF Shifted, Sent, TypeOK
    <3>4. QED
      BY <3>2, <3>3
  <2>5. \A i \in Sent', t \in Running' : engineQ'[i].tok # task'[t].tok
    <3>1. Running' \subseteq Tasks
      BY DEF Running
    <3>2. QED
      BY <3>1 DEF HandleInv, TokensUnique, Shifted, TasksGoOn
  <2>6. QED
    BY <2>1, <2>2, <2>3, <2>4, <2>5 DEF TokensUnique
<1>2. HandlesFresh'
  <2>1. ASSUME NEW i \in Sent'
        PROVE  worker'[engineQ'[i].wk] = Fresh(engineQ'[i].dev)
    <3>1. i + k \in Sent /\ engineQ'[i] = engineQ[i + k]
      BY DEF Shifted
    <3>2. engineQ[i + k].wk \in Workers /\ InFlight(engineQ[i + k].wk)
      BY <3>1, SentShape DEF InFlight
    <3>3. QED
      BY <3>1, <3>2 DEF WorkersGoOn, HandleInv, HandlesFresh
  <2>2. ASSUME NEW t \in Sending'
        PROVE  worker'[task'[t].wk] = Fresh(task'[t].dev)
    <3>1. t \in Sending /\ task'[t].wk = task[t].wk
      BY DEF TasksGoOn
    <3>2. t \in Tasks /\ task[t].wk \in Workers /\ InFlight(task[t].wk)
      BY <3>1, SendingShape DEF InFlight
    <3>3. QED
      BY <3>1, <3>2 DEF TasksGoOn, WorkersGoOn, HandleInv, HandlesFresh
  <2>3. ASSUME NEW d \in Devices, devices'[d] # NoWorker
        PROVE  worker'[devices'[d]].pc # "none"
    <3>1. devices'[d] = devices[d] /\ devices[d] \in Workers
      BY <2>3 DEF RegistryShrinks, TypeOK
    <3>2. QED
      BY <2>3, <3>1 DEF WorkersGoOn, HandleInv, HandlesFresh
  <2>4. QED
    BY <2>1, <2>2, <2>3 DEF HandlesFresh
<1>3. HeldOnce'
  <2>1. \A d, e \in Devices : devices'[d] # NoWorker /\ devices'[d] = devices'[e] => d = e
    BY DEF RegistryShrinks, HandleInv, HeldOnce
  <2>2. \A d \in Devices, i \in Sent' : engineQ'[i].wk # devices'[d]
    BY SentShape, NotNoWorker DEF RegistryShrinks, Shifted, HandleInv, HeldOnce
  <2>3. \A d \in Devices, t \in Sending' : task'[t].wk # devices'[d]
    BY SendingShape, NotNoWorker DEF RegistryShrinks, TasksGoOn, HandleInv, HeldOnce
  <2>4. \A i, j \in Sent' : engineQ'[i].wk = engineQ'[j].wk => i = j
    <3>1. SUFFICES ASSUME NEW i \in Sent', NEW j \in Sent', engineQ'[i].wk = engineQ'[j].wk
                   PROVE  i = j
      OBVIOUS
    <3>2. i + k = j + k
      BY <3>1 DEF HandleInv, HeldOnce, Shifted
    <3>3. i \in Int /\ j \in Int
      BY DEF Sent, TypeOK
    <3>4. QED
      BY <3>2, <3>3
  <2>5. \A i \in Sent', t \in Sending' : engineQ'[i].wk # task'[t].wk
    BY DEF Shifted, TasksGoOn, HandleInv, HeldOnce
  <2>6. \A t, u \in Sending' : task'[t].wk = task'[u].wk => t = u
    BY DEF TasksGoOn, HandleInv, HeldOnce
  <2>7. QED
    BY <2>1, <2>2, <2>3, <2>4, <2>5, <2>6 DEF HeldOnce
<1>4. QED
  BY <1>1, <1>2, <1>3 DEF HandleInv

-----------------------------------------------------------------------------
(* The steps that create a token or a worker, or pass a handle on. *)

\* start_reconnect_backoff: the token is younger than every other.
LEMMA BackoffHandles ==
  ASSUME TypeOK, SpawnedOK, HandleInv, TypeOK', NEW k \in {0, 1}, Shifted(k),
         NEW d \in Devices, StartBackoff(d), worker' = worker,
         \A e \in Devices : devices'[e] \in {devices[e], NoWorker}
  PROVE  HandleInv'
<1>1. PICK t \in Tasks :
        /\ task[t].pc = "none"
        /\ task' = [task EXCEPT ![t] = [pc |-> "sleeping", dev |-> d, tok |-> nextToken,
                                        attempts |-> 0, wk |-> NoWorker]]
        /\ reconnecting' = [reconnecting EXCEPT ![d] = nextToken]
        /\ nextToken' = nextToken + 1
  BY DEF StartBackoff, NextTask, TokenAdvanced
<1>2. /\ task'[t].pc = "sleeping" /\ task'[t].tok = nextToken
      /\ \A u \in Tasks \ {t} : task'[u] = task[u]
  BY <1>1 DEF TypeOK
<1>3. /\ Started' = Started \cup {t} /\ t \notin Started
      /\ Running' = Running \cup {t} /\ Sending' = Sending
  BY <1>1, <1>2 DEF Started, Running, Sending
<1>4. \A u \in Started : u \in Tasks \ {t} /\ task'[u] = task[u]
  BY <1>2, <1>3 DEF Started
<1>5. Sending \subseteq Started /\ Running \subseteq Started
  BY DEF Sending, Running, Started
<1>6. nextToken \in Nat /\ \A i \in Sent' : engineQ'[i].tok \in Nat /\ engineQ'[i].tok < nextToken
  BY SentShape DEF TypeOK, HandleInv, TokensUnique, Shifted
<1>7. \A u \in Started : task[u].tok \in Nat /\ task[u].tok < nextToken
  BY DEF SpawnedOK, Started, HandleInv, TokensUnique
<1>8. TokensUnique'
  <2>1. \A e \in Devices : reconnecting'[e] < nextToken'
    <3>1. \A e \in Devices : reconnecting[e] \in Int /\ reconnecting[e] < nextToken
      BY DEF TypeOK, HandleInv, TokensUnique, NoToken
    <3>2. \A e \in Devices : reconnecting'[e] \in {reconnecting[e], nextToken}
      BY <1>1 DEF TypeOK
    <3>3. QED
      BY <1>1, <1>6, <3>1, <3>2
  <2>2. \A u \in Started' : task'[u].tok < nextToken'
    BY <1>1, <1>2, <1>3, <1>4, <1>6, <1>7
  <2>3. \A i \in Sent' : engineQ'[i].tok < nextToken'
    BY <1>1, <1>6
  <2>4. \A u, v \in Started' : task'[u].tok = task'[v].tok => u = v
    BY <1>2, <1>3, <1>4, <1>6, <1>7 DEF HandleInv, TokensUnique
  <2>5. \A i, j \in Sent' : engineQ'[i].tok = engineQ'[j].tok => i = j
    <3>1. SUFFICES ASSUME NEW i \in Sent', NEW j \in Sent', engineQ'[i].tok = engineQ'[j].tok
                   PROVE  i = j
      OBVIOUS
    <3>2. i + k = j + k
      BY <3>1 DEF HandleInv, TokensUnique, Shifted
    <3>3. i \in Int /\ j \in Int
      BY DEF Sent, TypeOK
    <3>4. QED
      BY <3>2, <3>3
  <2>6. \A i \in Sent', u \in Running' : engineQ'[i].tok # task'[u].tok
    <3>1. \A i \in Sent', u \in Running : engineQ'[i].tok # task'[u].tok
      BY <1>4, <1>5 DEF HandleInv, TokensUnique, Shifted
    <3>2. \A i \in Sent' : engineQ'[i].tok # task'[t].tok
      BY <1>2, <1>6
    <3>3. QED
      BY <1>3, <3>1, <3>2
  <2>7. QED
    BY <2>1, <2>2, <2>3, <2>4, <2>5, <2>6 DEF TokensUnique
<1>9. HandlesFresh' /\ HeldOnce'
  <2>1. /\ \A i \in Sent' : worker'[engineQ'[i].wk] = Fresh(engineQ'[i].dev)
        /\ \A u \in Sending' : worker'[task'[u].wk] = Fresh(task'[u].dev)
        /\ \A e \in Devices : devices'[e] # NoWorker => worker'[devices'[e]].pc # "none"
    BY <1>3, <1>4, <1>5 DEF HandleInv, HandlesFresh, Shifted
  <2>2. \A d1, e \in Devices : devices'[d1] # NoWorker /\ devices'[d1] = devices'[e] => d1 = e
    BY DEF HandleInv, HeldOnce
  <2>3. /\ \A e \in Devices, i \in Sent' : engineQ'[i].wk # devices'[e]
        /\ \A e \in Devices, u \in Sending' : task'[u].wk # devices'[e]
    BY <1>3, <1>4, <1>5, SentShape, SendingShape, NotNoWorker DEF Shifted, HandleInv, HeldOnce
  <2>4. \A i, j \in Sent' : engineQ'[i].wk = engineQ'[j].wk => i = j
    <3>1. SUFFICES ASSUME NEW i \in Sent', NEW j \in Sent', engineQ'[i].wk = engineQ'[j].wk
                   PROVE  i = j
      OBVIOUS
    <3>2. i + k = j + k
      BY <3>1 DEF HandleInv, HeldOnce, Shifted
    <3>3. i \in Int /\ j \in Int
      BY DEF Sent, TypeOK
    <3>4. QED
      BY <3>2, <3>3
  <2>5. /\ \A i \in Sent', u \in Sending' : engineQ'[i].wk # task'[u].wk
        /\ \A u, v \in Sending' : task'[u].wk = task'[v].wk => u = v
    BY <1>3, <1>4, <1>5 DEF Shifted, HandleInv, HeldOnce
  <2>6. QED
    BY <2>1, <2>2, <2>3, <2>4, <2>5 DEF HandlesFresh, HeldOnce
<1>10. QED
  BY <1>8, <1>9 DEF HandleInv

\* A worker just spawned is held by nobody yet.
LEMMA UnheldYet ==
  ASSUME TypeOK, SpawnedOK, HandleInv, NEW w \in Workers, worker[w].pc = "none"
  PROVE  /\ ~InFlight(w)
         /\ \A d \in Devices : devices[d] # w
<1>1. ~InFlight(w)
  BY InFlightIdle DEF HandleInv
<1>2. QED
  BY <1>1, NotNoWorker DEF HandleInv, HandlesFresh

\* attach_device registers the worker it spawned.
LEMMA AttachedHandles ==
  ASSUME TypeOK, SpawnedOK, HandleInv, SupAttached
  PROVE  HandleInv'
<1>1. supDev \in Devices
  BY DEF SpawnedOK, SupAttached
<1>2. PICK w \in Workers : /\ worker[w].pc = "none"
                            /\ worker' = [worker EXCEPT ![w] = Fresh(supDev)]
                            /\ devices' = [devices EXCEPT ![supDev] = w]
  BY DEF SupAttached, NextWorker
<1>3. UNCHANGED <<engineQ, reconnecting, nextToken, task>>
  BY DEF SupAttached
<1>4. ~InFlight(w) /\ \A d \in Devices : devices[d] # w
  BY <1>2, UnheldYet
<1>5. Sent' = Sent /\ Sending' = Sending /\ Started' = Started /\ Running' = Running
  BY <1>3 DEF Sent, Sending, Started, Running
<1>6. /\ worker'[w] = Fresh(supDev)
      /\ \A v \in Workers \ {w} : worker'[v] = worker[v]
      /\ devices'[supDev] = w
      /\ \A d \in Devices \ {supDev} : devices'[d] = devices[d]
  BY <1>1, <1>2 DEF TypeOK
<1>7. TokensUnique'
  BY <1>3, <1>5 DEF HandleInv, TokensUnique
<1>8. HandlesFresh'
  <2>1. \A i \in Sent : engineQ[i].wk \in Workers \ {w}
    BY <1>4, SentShape DEF InFlight
  <2>2. \A t \in Sending : task[t].wk \in Workers \ {w}
    BY <1>4, SendingShape DEF InFlight
  <2>3. \A d \in Devices \ {supDev} : devices'[d] # NoWorker => devices'[d] \in Workers \ {w}
    BY <1>4, <1>6 DEF TypeOK
  <2>4. Fresh(supDev).pc # "none"
    BY DEF Fresh
  <2>5. QED
    BY <1>3, <1>5, <1>6, <2>1, <2>2, <2>3, <2>4 DEF HandleInv, HandlesFresh
<1>9. HeldOnce'
  <2>1. \A d, e \in Devices : devices'[d] # NoWorker /\ devices'[d] = devices'[e] => d = e
    BY <1>4, <1>6 DEF HandleInv, HeldOnce
  <2>2. /\ \A d \in Devices, i \in Sent' : engineQ'[i].wk # devices'[d]
        /\ \A d \in Devices, t \in Sending' : task'[t].wk # devices'[d]
    BY <1>3, <1>4, <1>5, <1>6 DEF HandleInv, HeldOnce, InFlight
  <2>3. QED
    BY <1>3, <1>5, <2>1, <2>2 DEF HandleInv, HeldOnce
<1>10. QED
  BY <1>7, <1>8, <1>9 DEF HandleInv

\* A reconnect task that attaches its device holds the worker it spawned, or
\* drops it at once when it was cancelled.
LEMMA ReconnectedHandles ==
  ASSUME TypeOK, SpawnedOK, HandleInv, NEW t \in Tasks, TaskAttached(t)
  PROVE  HandleInv'
<1>1. PICK w \in Workers :
        /\ worker[w].pc = "none"
        /\ worker' = [worker EXCEPT ![w] = Fresh(task[t].dev)]
        /\ task' = IF Current(t)
                     THEN [task EXCEPT ![t].pc = "sending", ![t].wk = w]
                     ELSE Ended(t)
  BY DEF TaskAttached, NextWorker
<1>2. UNCHANGED <<engineQ, devices, reconnecting, nextToken>> /\ task[t].pc = "attaching"
  BY DEF TaskAttached, registryVars
<1>3. ~InFlight(w) /\ \A d \in Devices : devices[d] # w
  BY <1>1, UnheldYet
<1>4. /\ worker'[w] = Fresh(task[t].dev)
      /\ \A v \in Workers \ {w} : worker'[v] = worker[v]
  BY <1>1 DEF TypeOK
<1>5. /\ \A u \in Tasks \ {t} : task'[u] = task[u]
      /\ task'[t].tok = task[t].tok /\ task'[t].dev = task[t].dev
      /\ \/ task'[t].pc = "sending" /\ task'[t].wk = w
         \/ task'[t].pc = "done"
  <2>1. task[t] \in TaskRec
    BY DEF TypeOK
  <2>2. CASE Current(t)
    BY <1>1, <2>1, <2>2 DEF TypeOK, TaskRec
  <2>3. CASE ~Current(t)
    BY <1>1, <2>1, <2>3 DEF TypeOK, TaskRec, Ended
  <2>4. QED
    BY <2>2, <2>3
<1>6. /\ Sent' = Sent /\ Started' = Started /\ Running' \subseteq Running
      /\ \A u \in Sending' : \/ u = t /\ task'[u].wk = w
                             \/ u \in Sending \ {t} /\ task'[u] = task[u]
  <2>1. Sent' = Sent
    BY <1>2 DEF Sent
  <2>2. Started' = Started
    BY <1>2, <1>5 DEF Started
  <2>3. Running' \subseteq Running
    BY <1>2, <1>5 DEF Running
  <2>4. \A u \in Sending' : \/ u = t /\ task'[u].wk = w
                            \/ u \in Sending \ {t} /\ task'[u] = task[u]
    <3>1. SUFFICES ASSUME NEW u \in Tasks, task'[u].pc = "sending"
                   PROVE  \/ u = t /\ task'[u].wk = w
                          \/ u # t /\ task[u].pc = "sending" /\ task'[u] = task[u]
      BY DEF Sending
    <3>2. QED
      BY <1>5, <3>1
  <2>5. QED
    BY <2>1, <2>2, <2>3, <2>4
<1>7. \A u \in Started : u \in Tasks /\ task'[u].tok = task[u].tok
  BY <1>5 DEF Started
<1>8. TokensUnique'
  <2>1. Running \subseteq Started
    BY DEF Running, Started
  <2>2. QED
    BY <1>2, <1>6, <1>7, <2>1 DEF HandleInv, TokensUnique
<1>9. HandlesFresh'
  <2>1. \A i \in Sent : engineQ[i].wk \in Workers \ {w}
    BY <1>3, SentShape DEF InFlight
  <2>2. \A u \in Sending : task[u].wk \in Workers \ {w}
    BY <1>3, SendingShape DEF InFlight
  <2>3. \A d \in Devices : devices[d] # NoWorker => devices[d] \in Workers \ {w}
    BY <1>3 DEF TypeOK
  <2>4. QED
    BY <1>2, <1>4, <1>5, <1>6, <2>1, <2>2, <2>3 DEF HandleInv, HandlesFresh
<1>10. HeldOnce'
  <2>1. /\ \A i \in Sent : engineQ[i].wk # w
        /\ \A u \in Sending : task[u].wk # w
    BY <1>3 DEF InFlight
  <2>2. \A d \in Devices, u \in Sending' : task'[u].wk # devices'[d]
    BY <1>2, <1>3, <1>6 DEF HandleInv, HeldOnce
  <2>3. \A i \in Sent', u \in Sending' : engineQ'[i].wk # task'[u].wk
    BY <1>2, <1>6, <2>1 DEF HandleInv, HeldOnce
  <2>4. \A u, v \in Sending' : task'[u].wk = task'[v].wk => u = v
    BY <1>6, <2>1 DEF HandleInv, HeldOnce
  <2>5. QED
    BY <1>2, <1>6, <2>2, <2>3, <2>4 DEF HandleInv, HeldOnce
<1>11. QED
  BY <1>8, <1>9, <1>10 DEF HandleInv

\* The handle passes from the task into the channel, under the task's token.
LEMMA SendHandles ==
  ASSUME TypeOK, SpawnedOK, HandleInv, NEW t \in Sending, TaskSend(t), Room
  PROVE  HandleInv'
<1> DEFINE m == [type |-> "Reattached", dev |-> task[t].dev, wk |-> task[t].wk, tok |-> task[t].tok]
           n == Len(engineQ) + 1
<1>1. supPc # "stopped"
  BY DEF Room
<1>0. engineQ' = Append(engineQ, m) /\ task' = Ended(t)
  BY <1>1 DEF TaskSend
<1>2. UNCHANGED <<devices, reconnecting, nextToken, worker>>
  BY DEF TaskSend, registryVars
<1>3. /\ t \in Tasks /\ t \in Running /\ t \in Started
      /\ task[t].wk \in Workers
  BY SendingShape
<1>4. /\ \A u \in Tasks \ {t} : task'[u] = task[u]
      /\ task'[t].tok = task[t].tok /\ task'[t].dev = task[t].dev /\ task'[t].pc = "done"
  <2>1. task[t] \in TaskRec
    BY <1>3 DEF TypeOK
  <2>2. QED
    BY <1>0, <1>3, <2>1 DEF TypeOK, TaskRec, Ended
<1>5. \A i \in Sent' : \/ i = n /\ engineQ'[i] = m
                       \/ i \in Sent /\ engineQ'[i] = engineQ[i]
  <2>1. engineQ \in Seq(EngineCommand)
    BY DEF TypeOK
  <2>2. m \in EngineCommand
    BY SendingShape DEF EngineCommand
  <2> HIDE DEF m
  <2>3. \A i \in DOMAIN engineQ' : \/ i = n /\ engineQ'[i] = m
                                   \/ i \in DOMAIN engineQ /\ engineQ'[i] = engineQ[i]
    BY <1>0, <2>1, <2>2
  <2>4. SUFFICES ASSUME NEW i \in Sent'
                 PROVE  \/ i = n /\ engineQ'[i] = m
                        \/ i \in Sent /\ engineQ'[i] = engineQ[i]
    OBVIOUS
  <2>5. i \in DOMAIN engineQ' /\ engineQ'[i].type = "Reattached"
    BY DEF Sent
  <2> HIDE DEF n
  <2>6. QED
    BY <2>3, <2>5 DEF Sent
<1>6. /\ Sending' = Sending \ {t} /\ Started' = Started /\ Running' = Running \ {t}
  BY <1>3, <1>4 DEF Sending, Started, Running
<1>7. \A u \in Started : u \in Tasks /\ task'[u].tok = task[u].tok
  BY <1>4 DEF Started
<1>8. /\ Sending \subseteq Started /\ Running \subseteq Started
      /\ \A u \in Sending' : task'[u] = task[u]
  BY <1>4, <1>6 DEF Sending, Started, Running
<1>9. m.wk = task[t].wk /\ m.tok = task[t].tok /\ m.dev = task[t].dev
  OBVIOUS
<1> HIDE DEF m, n
<1>10. TokensUnique'
  <2>1. /\ \A d \in Devices : reconnecting'[d] < nextToken'
        /\ \A u \in Started' : task'[u].tok < nextToken'
        /\ \A u, v \in Started' : task'[u].tok = task'[v].tok => u = v
    BY <1>2, <1>6, <1>7 DEF HandleInv, TokensUnique
  <2>2. /\ \A i \in Sent' : engineQ'[i].tok < nextToken'
        /\ \A i, j \in Sent' : engineQ'[i].tok = engineQ'[j].tok => i = j
    BY <1>2, <1>3, <1>5, <1>9 DEF HandleInv, TokensUnique
  <2>3. \A i \in Sent', u \in Running' : engineQ'[i].tok # task'[u].tok
    BY <1>3, <1>5, <1>6, <1>7, <1>8, <1>9 DEF HandleInv, TokensUnique
  <2>4. QED
    BY <2>1, <2>2, <2>3 DEF TokensUnique
<1>11. HandlesFresh'
  BY <1>2, <1>5, <1>6, <1>8, <1>9 DEF HandleInv, HandlesFresh
<1>12. HeldOnce'
  <2>1. /\ \A d, e \in Devices : devices'[d] # NoWorker /\ devices'[d] = devices'[e] => d = e
        /\ \A d \in Devices, u \in Sending' : task'[u].wk # devices'[d]
        /\ \A u, v \in Sending' : task'[u].wk = task'[v].wk => u = v
    BY <1>2, <1>6, <1>8 DEF HandleInv, HeldOnce
  <2>2. /\ \A d \in Devices, i \in Sent' : engineQ'[i].wk # devices'[d]
        /\ \A i, j \in Sent' : engineQ'[i].wk = engineQ'[j].wk => i = j
    BY <1>2, <1>5, <1>9 DEF HandleInv, HeldOnce
  <2>3. \A i \in Sent', u \in Sending' : engineQ'[i].wk # task'[u].wk
    BY <1>5, <1>6, <1>8, <1>9 DEF HandleInv, HeldOnce
  <2>4. QED
    BY <2>1, <2>2, <2>3 DEF HeldOnce
<1>13. QED
  BY <1>10, <1>11, <1>12 DEF HandleInv

\* The handle passes from the channel into the registry, if its token is current.
LEMMA ReattachedHandles ==
  ASSUME TypeOK, SpawnedOK, OneRole, HandleInv, TypeOK', SupReattached, Honoured(Head(engineQ))
  PROVE  HandleInv'
<1> DEFINE m == Head(engineQ)
<1>1. /\ m.dev \in Devices /\ m.wk \in Workers /\ m.tok \in Nat
  BY TakesShape, CommandShape DEF TypeOK, SupReattached
<1>2. 1 \in Sent /\ engineQ[1] = m /\ Shifted(1)
  BY SentTaken DEF SupReattached, Takes, Sent, TypeOK
<1>3. /\ devices' = [devices EXCEPT ![m.dev] = m.wk]
      /\ reconnecting' = [reconnecting EXCEPT ![m.dev] = NoToken]
      /\ UNCHANGED <<nextToken, worker, task>>
  BY DEF SupReattached, RecoveryOver
<1>4. Sending' = Sending /\ Started' = Started /\ Running' = Running
  BY <1>3 DEF Sending, Started, Running
<1>5. /\ devices'[m.dev] = m.wk
      /\ \A d \in Devices \ {m.dev} : devices'[d] = devices[d]
      /\ \A d \in Devices : reconnecting'[d] \in {reconnecting[d], NoToken}
  BY <1>1, <1>3 DEF TypeOK
<1>6. \A i \in Sent' : i + 1 \in Sent \ {1} /\ engineQ'[i] = engineQ[i + 1]
  BY <1>2 DEF Shifted, Sent, TypeOK
<1>7. \A i, j \in Sent' : i + 1 = j + 1 => i = j
  BY DEF Sent, TypeOK
<1>8. nextToken \in Nat /\ NoToken < nextToken
  BY DEF TypeOK, NoToken
<1> HIDE DEF m
<1>9. TokensUnique'
  <2>1. /\ \A d \in Devices : reconnecting'[d] < nextToken'
        /\ \A u \in Started' : task'[u].tok < nextToken'
        /\ \A u, v \in Started' : task'[u].tok = task'[v].tok => u = v
    BY <1>3, <1>4, <1>5, <1>8 DEF HandleInv, TokensUnique
  <2>2. /\ \A i \in Sent' : engineQ'[i].tok < nextToken'
        /\ \A i, j \in Sent' : engineQ'[i].tok = engineQ'[j].tok => i = j
        /\ \A i \in Sent', u \in Running' : engineQ'[i].tok # task'[u].tok
    BY <1>3, <1>4, <1>6, <1>7 DEF HandleInv, TokensUnique
  <2>3. QED
    BY <2>1, <2>2 DEF TokensUnique
<1>10. HandlesFresh'
  <2>1. worker[m.wk].pc # "none"
    <3>1. worker[m.wk] = Fresh(m.dev)
      BY <1>2 DEF HandleInv, HandlesFresh
    <3>2. QED
      BY <3>1 DEF Fresh
  <2>2. QED
    BY <1>3, <1>4, <1>5, <1>6, <2>1 DEF HandleInv, HandlesFresh
<1>11. HeldOnce'
  <2>1. /\ \A d \in Devices : devices[d] # m.wk
        /\ \A i \in Sent \ {1} : engineQ[i].wk # m.wk
        /\ \A u \in Sending : task[u].wk # m.wk
    BY <1>2 DEF HandleInv, HeldOnce
  <2>2. \A d, e \in Devices : devices'[d] # NoWorker /\ devices'[d] = devices'[e] => d = e
    BY <1>5, <2>1 DEF HandleInv, HeldOnce
  <2>3. /\ \A d \in Devices, i \in Sent' : engineQ'[i].wk # devices'[d]
        /\ \A d \in Devices, u \in Sending' : task'[u].wk # devices'[d]
    BY <1>3, <1>4, <1>5, <1>6, <2>1 DEF HandleInv, HeldOnce
  <2>4. /\ \A i, j \in Sent' : engineQ'[i].wk = engineQ'[j].wk => i = j
        /\ \A i \in Sent', u \in Sending' : engineQ'[i].wk # task'[u].wk
        /\ \A u, v \in Sending' : task'[u].wk = task'[v].wk => u = v
    BY <1>3, <1>4, <1>6, <1>7 DEF HandleInv, HeldOnce
  <2>5. QED
    BY <2>2, <2>3, <2>4 DEF HeldOnce
<1>12. QED
  BY <1>9, <1>10, <1>11 DEF HandleInv

-----------------------------------------------------------------------------
(* Every step keeps the invariant. *)

LEMMA TasksKept ==
  ASSUME task' = task
  PROVE  TasksGoOn
  BY DEF TasksGoOn, Started, Running, Sending

LEMMA WorkersKept ==
  ASSUME worker' = worker
  PROVE  WorkersGoOn
  BY DEF WorkersGoOn

LEMMA HandlesEnvironment ==
  ASSUME RegistryInv, TypeOK', HandleInv,
         \/ \E d \in Devices : \E lost \in BOOLEAN : KernelEvent(d, lost)
         \/ UdevPump
         \/ SendShutdown
         \/ \E c \in Clients : \E d \in Devices : \E k \in Kinds : ClientRequest(c, d, k)
  PROVE  HandleInv'
<1>1. TypeOK /\ SpawnedOK
  BY DEF RegistryInv
<1>2. UNCHANGED <<devices, reconnecting, nextToken, worker, task>>
  BY DEF KernelEvent, UdevPump, SendShutdown, ClientRequest, registryVars
<1>3. Shifted(0)
  <2>1. engineQ \in Seq(EngineCommand)
    BY <1>1 DEF TypeOK
  <2>2. CASE UNCHANGED engineQ
    BY <2>1, <2>2, SentKept
  <2>3. CASE UdevPump
    <3>1. Head(udevQ) \in UdevEvent /\ engineQ' = Append(engineQ, Head(udevQ))
      BY <1>1, <2>3 DEF TypeOK, UdevPump
    <3>2. Head(udevQ).type # "Reattached"
      BY <3>1 DEF UdevEvent
    <3>3. QED
      BY <2>1, <3>1, <3>2, SentElse
  <2>4. CASE SendShutdown
    BY <2>1, <2>4, SentElse DEF SendShutdown
  <2>5. CASE \E c \in Clients : \E d \in Devices : \E k \in Kinds : ClientRequest(c, d, k)
    BY <2>1, <2>5, SentElse DEF ClientRequest
  <2>6. QED
    BY <2>2, <2>3, <2>4, <2>5 DEF KernelEvent
<1>4. RegistryShrinks
  BY <1>2 DEF RegistryShrinks
<1>5. QED
  BY <1>1, <1>2, <1>3, <1>4, TasksKept, WorkersKept, NoNewHandle

LEMMA HandlesWorker ==
  ASSUME RegistryInv, TypeOK', HandleInv, NEW w \in Workers, WorkerStep(w)
  PROVE  HandleInv'
<1>1. TypeOK /\ SpawnedOK /\ HandlesFresh
  BY DEF RegistryInv, HandleInv
<1>2. UNCHANGED <<devices, reconnecting, nextToken>>
  BY ElsewhereLeavesRegistry DEF Elsewhere
<1>3. /\ \A v \in Workers \ {w} : worker'[v] = worker[v]
      /\ worker'[w].pc # "none" /\ task' = task
  BY <1>1, WorkerStepShape
<1>4. Shifted(0)
  <2>1. engineQ \in Seq(EngineCommand)
    BY <1>1 DEF TypeOK
  <2>2. \/ UNCHANGED engineQ
        \/ engineQ' = Append(engineQ, [type |-> "Error", dev |-> worker[w].dev])
    BY DEF WorkerStep, WorkerOpDone, WorkerDebounce, WorkerClosed, WorkerReport,
           ReportSentOrRefused, WorkerExit, WorkerPanic
  <2>3. QED
    BY <2>1, <2>2, SentKept, SentElse
<1>5. WorkersGoOn
  BY <1>1, <1>3, InFlightWaits DEF WorkersGoOn
<1>6. RegistryShrinks
  BY <1>2 DEF RegistryShrinks
<1>7. QED
  BY <1>1, <1>3, <1>4, <1>5, <1>6, TasksKept, NoNewHandle

LEMMA HandlesTask ==
  ASSUME RegistryInv, TypeOK', HandleInv, NEW t \in Tasks, TaskStep(t)
  PROVE  HandleInv'
<1>1. TypeOK /\ SpawnedOK
  BY DEF RegistryInv
<1>2. CASE TaskAttached(t)
  BY <1>1, <1>2, ReconnectedHandles
<1>3. CASE TaskSend(t) /\ Room
  <2>1. t \in Sending
    BY <1>3 DEF TaskSend, Sending
  <2>2. QED
    BY <1>1, <1>3, <2>1, SendHandles
<1>4. CASE \/ TaskCancelled(t) \/ TaskWake(t) \/ (\E o \in FailedAttach : TaskAttachFailed(t, o))
           \/ (TaskSend(t) /\ ~Room)
  <2>1. UNCHANGED <<engineQ, devices, reconnecting, nextToken, worker>>
    BY <1>4 DEF TaskCancelled, TaskWake, TaskAttachFailed, TaskSend, registryVars
  <2>2. /\ \A u \in Tasks \ {t} : task'[u] = task[u]
        /\ task'[t].tok = task[t].tok /\ task'[t].dev = task[t].dev
        /\ task[t].pc \in {"sleeping", "attaching", "sending"}
        /\ task'[t].pc \in {"sleeping", "attaching", "done"}
    <3>1. task \in [Tasks -> TaskRec] /\ task[t] \in TaskRec
      BY <1>1 DEF TypeOK
    <3>2. CASE TaskWake(t)
      BY <3>1, <3>2 DEF TaskWake, TaskRec
    <3>3. CASE task' = [task EXCEPT ![t].pc = "sleeping"] /\ task[t].pc = "attaching"
      BY <3>1, <3>3 DEF TaskRec
    <3>4. CASE task' = Ended(t) /\ task[t].pc \in {"sleeping", "attaching", "sending"}
      BY <3>1, <3>4 DEF Ended, TaskRec
    <3>5. QED
      BY <1>4, <3>2, <3>3, <3>4 DEF TaskCancelled, TaskAttachFailed, TaskSend
  <2>3. TasksGoOn
    <3>1. Started' \subseteq Started
      BY <2>2 DEF Started
    <3>2. Running' \subseteq Running
      BY <2>2 DEF Running
    <3>3. \A u \in Sending' : u \in Sending /\ task'[u].wk = task[u].wk
      BY <2>2 DEF Sending
    <3>4. QED
      BY <2>2, <3>1, <3>2, <3>3 DEF TasksGoOn
  <2>4. Shifted(0)
    BY <1>1, <2>1, SentKept DEF TypeOK
  <2>5. RegistryShrinks
    BY <2>1 DEF RegistryShrinks
  <2>6. QED
    BY <1>1, <2>1, <2>3, <2>4, <2>5, WorkersKept, NoNewHandle
<1>5. QED
  BY <1>2, <1>3, <1>4 DEF TaskStep

LEMMA HandlesSupervisor ==
  ASSUME RegistryInv, TypeOK', HandleInv, Supervisor
  PROVE  HandleInv'
<1>0. TypeOK /\ SpawnedOK /\ OneRole /\ engineQ \in Seq(EngineCommand)
  BY DEF RegistryInv, TypeOK
<1>1. CASE SupAttached
  BY <1>0, <1>1, AttachedHandles
<1>2. CASE SupAttachTransient
  <2>1. supDev \in Devices /\ UNCHANGED <<engineQ, devices, worker>> /\ StartBackoff(supDev)
    BY <1>0, <1>2 DEF SpawnedOK, SupAttachTransient
  <2>2. Shifted(0)
    BY <1>0, <2>1, SentKept
  <2>3. QED
    BY <1>0, <2>1, <2>2, BackoffHandles
<1>3. CASE SupError /\ devices[Head(engineQ).dev] # NoWorker
  <2>1. Head(engineQ).dev \in Devices /\ Shifted(1)
    BY <1>0, <1>3, TakesShape, CommandShape, SentTaken DEF TypeOK, SupError
  <2>2. /\ StartBackoff(Head(engineQ).dev) /\ worker' = worker
        /\ devices' = [devices EXCEPT ![Head(engineQ).dev] = NoWorker]
    BY <1>3 DEF SupError, EntryRemoved
  <2>3. \A e \in Devices : devices'[e] \in {devices[e], NoWorker}
    BY <1>0, <2>1, <2>2 DEF TypeOK
  <2>4. QED
    BY <1>0, <2>1, <2>2, <2>3, BackoffHandles
<1>4. CASE SupReattached /\ Honoured(Head(engineQ))
  BY <1>0, <1>4, ReattachedHandles
<1>5. CASE SupRequestDispatched
  <2> DEFINE w == devices[Head(engineQ).dev]
  <2>1. /\ Head(engineQ).dev \in Devices /\ Shifted(1)
        /\ UNCHANGED <<reconnecting, nextToken, task>>
    BY <1>0, <1>5, TakesShape, CommandShape, SentTaken DEF TypeOK, SupRequestDispatched
  <2>2. w \in Workers
    BY <1>0, <1>5, <2>1 DEF TypeOK, SupRequestDispatched
  <2>3. ~InFlight(w)
    BY <2>1 DEF HandleInv, HeldOnce, InFlight
  <2>4. worker' = worker \/ \E q : worker' = [worker EXCEPT ![w].queue = q]
    BY <1>5 DEF SupRequestDispatched
  <2>5. \A v \in Workers : worker'[v].pc = worker[v].pc /\ (v # w => worker'[v] = worker[v])
    <3>1. worker \in [Workers -> WorkerRec]
      BY <1>0 DEF TypeOK
    <3>2. ASSUME NEW q, worker' = [worker EXCEPT ![w].queue = q]
          PROVE  \A v \in Workers : worker'[v].pc = worker[v].pc /\ (v # w => worker'[v] = worker[v])
      BY <2>2, <3>1, <3>2 DEF WorkerRec
    <3>3. QED
      BY <2>4, <3>2
  <2>6. WorkersGoOn
    BY <2>3, <2>5 DEF WorkersGoOn
  <2>7. devices' = devices \/ devices' = [devices EXCEPT ![Head(engineQ).dev] = NoWorker]
    BY <1>5 DEF SupRequestDispatched, EntryRemoved
  <2>8. RegistryShrinks
    BY <1>0, <2>1, <2>7 DEF RegistryShrinks, TypeOK
  <2>9. QED
    BY <1>0, <2>1, <2>6, <2>8, TasksKept, NoNewHandle
<1>6. CASE SupShutdown
  <2>1. /\ engineQ' = <<>> /\ UNCHANGED <<nextToken, worker, task>>
        /\ RegistryShrinks
    BY <1>6 DEF SupShutdown, NoHandles, RegistryShrinks
  <2>2. QED
    BY <1>0, <2>1, SentCleared, TasksKept, WorkersKept, NoNewHandle
<1>7. CASE SupAttachPermanent
  <2>1. UNCHANGED <<engineQ, worker, task>> /\ RegistryShrinks
    BY <1>7 DEF SupAttachPermanent, registryVars, RegistryShrinks
  <2>2. QED
    BY <1>0, <2>1, SentKept, TasksKept, WorkersKept, NoNewHandle
<1>8. CASE \/ SupConnected \/ SupDisconnected \/ SupRequestAnswered
           \/ (SupError /\ devices[Head(engineQ).dev] = NoWorker)
           \/ (SupReattached /\ ~Honoured(Head(engineQ)))
  <2>1. PICK type \in {"Connected", "Disconnected", "Request", "Error", "Reattached"} : Takes(type)
    BY <1>8 DEF SupConnected, SupDisconnected, SupRequestAnswered, SupError, SupReattached
  <2>2. UNCHANGED <<worker, task>>
    BY <1>8 DEF SupConnected, SupDisconnected, SupRequestAnswered, SupError, SupReattached
  <2>3. Head(engineQ).dev \in Devices
    BY <1>0, <2>1, TakesShape, CommandShape DEF TypeOK
  <2>4. RegistryShrinks
    <3>1. CASE SupConnected
      BY <1>0, <2>3, <3>1 DEF SupConnected, RegistryShrinks, TypeOK
    <3>2. CASE SupDisconnected
      BY <1>0, <2>3, <3>2 DEF SupDisconnected, EntryRemoved, RegistryShrinks, TypeOK
    <3>3. CASE UNCHANGED <<devices, reconnecting, nextToken>>
      BY <3>3 DEF RegistryShrinks
    <3>4. QED
      BY <1>8, <3>1, <3>2, <3>3 DEF SupRequestAnswered, SupError, SupReattached, registryVars
  <2>5. Shifted(1)
    BY <1>0, <2>1, SentTaken
  <2>6. QED
    BY <1>0, <2>2, <2>4, <2>5, TasksKept, WorkersKept, NoNewHandle
<1>9. QED
  BY <1>1, <1>2, <1>3, <1>4, <1>5, <1>6, <1>7, <1>8 DEF Supervisor

LEMMA HandlesInit == Init => HandleInv
<1> SUFFICES ASSUME Init PROVE HandleInv
  OBVIOUS
<1>1. Sent = {} /\ Sending = {} /\ Started = {} /\ Running = {}
  BY DEF Init, Sent, Sending, Started, Running, NoTaskYet
<1>2. /\ nextToken = 0
      /\ \A d \in Devices : reconnecting[d] = NoToken /\ devices[d] = NoWorker
  BY DEF Init
<1>3. QED
  BY <1>1, <1>2 DEF HandleInv, TokensUnique, HandlesFresh, HeldOnce, NoToken

LEMMA HandlesStep == RegistryInv /\ RegistryInv' /\ HandleInv /\ [Next]_vars => HandleInv'
<1> SUFFICES ASSUME RegistryInv, RegistryInv', HandleInv, [Next]_vars PROVE HandleInv'
  OBVIOUS
<1>0. TypeOK'
  BY DEF RegistryInv
<1>1. CASE UNCHANGED vars
  <2>1. Sent' = Sent /\ Sending' = Sending /\ Started' = Started /\ Running' = Running
    BY <1>1 DEF vars, Sent, Sending, Started, Running
  <2>2. QED
    BY <1>1, <2>1 DEF vars, HandleInv, TokensUnique, HandlesFresh, HeldOnce
<1>2. CASE Next
  BY <1>0, <1>2, HandlesEnvironment, HandlesSupervisor, HandlesWorker, HandlesTask DEF Next
<1>3. QED
  BY <1>1, <1>2

\* A handle is in one place, and a token names one attempt: whatever overlaps of
\* back-offs, replugs and cancellations start_reconnect_backoff is called in.
THEOREM HandlesCorrect == Spec => []HandleInv
<1>1. Init => RegistryInv /\ HandleInv
  BY RegistryInit, HandlesInit
<1>2. (RegistryInv /\ HandleInv) /\ [Next]_vars => (RegistryInv /\ HandleInv)'
  BY RegistryStep, HandlesStep
<1>3. QED
  BY <1>1, <1>2, PTL DEF Spec

-----------------------------------------------------------------------------
(* The candidates of a device. *)

\* The three ways of being a candidate; a registered worker excludes the others.
LEMMA CandidateShape ==
  ASSUME RegistryInv, NEW d \in Devices, NEW w \in Candidates(d)
  PROVE  \/ devices[d] = w /\ w # NoWorker
         \/ /\ devices[d] = NoWorker
            /\ \/ \E i \in Sent : /\ engineQ[i].dev = d /\ engineQ[i].wk = w
                                  /\ engineQ[i].tok = reconnecting[d]
               \/ \E t \in Sending : /\ task[t].dev = d /\ task[t].wk = w
                                     /\ task[t].tok = reconnecting[d]
<1>0. TypeOK /\ SpawnedOK /\ OneRole
  BY DEF RegistryInv
<1>1. CASE w \in {devices[d]} \ {NoWorker}
  BY <1>1
<1>2. CASE \E m \in Messages(engineQ) :
             m.type = "Reattached" /\ m.dev = d /\ m.wk = w /\ m.tok = reconnecting[d]
  <2>1. PICK i \in Sent : /\ engineQ[i].dev = d /\ engineQ[i].wk = w
                          /\ engineQ[i].tok = reconnecting[d]
    BY <1>2 DEF Messages, Sent
  <2>2. reconnecting[d] # NoToken
    BY <1>0, <2>1, SentShape DEF NoToken
  <2>3. QED
    BY <1>0, <2>1, <2>2 DEF OneRole
<1>3. CASE \E t \in Tasks : task[t].pc = "sending" /\ task[t].dev = d /\ task[t].wk = w /\ Current(t)
  <2>1. PICK t \in Sending : /\ task[t].dev = d /\ task[t].wk = w
                             /\ task[t].tok = reconnecting[d]
    BY <1>3 DEF Current, Sending
  <2>2. reconnecting[d] # NoToken
    BY <1>0, <2>1, SendingShape DEF NoToken
  <2>3. QED
    BY <1>0, <2>1, <2>2 DEF OneRole
<1>4. QED
  BY <1>1, <1>2, <1>3 DEF Candidates

LEMMA CandidatesAgree ==
  ASSUME RegistryInv, HandleInv, NEW d \in Devices, NEW v \in Candidates(d), NEW w \in Candidates(d)
  PROVE  v = w
<1>1. Sending \subseteq Running /\ Sending \subseteq Started
  BY DEF Sending, Running, Started
<1>2. QED
  BY <1>1, CandidateShape DEF HandleInv, TokensUnique

LEMMA CandidatesApart ==
  ASSUME RegistryInv, HandleInv, NEW d \in Devices, NEW e \in Devices,
         NEW w \in Candidates(d), w \in Candidates(e)
  PROVE  d = e
<1>1. CASE devices[d] = w
  BY <1>1, CandidateShape DEF HandleInv, HeldOnce
<1>2. CASE devices[e] = w
  BY <1>2, CandidateShape DEF HandleInv, HeldOnce
<1>3. CASE devices[d] # w /\ devices[e] # w
  BY <1>3, CandidateShape DEF HandleInv, HeldOnce
<1>4. QED
  BY <1>1, <1>2, <1>3

\* At most one worker can come to serve a device, and none two devices, however
\* many reconnect tasks were started, cancelled or overtaken by a replug.
THEOREM OneCandidateHolds == Spec => []OneCandidate
<1>1. RegistryInv /\ HandleInv => OneCandidate
  <2> SUFFICES ASSUME RegistryInv, HandleInv PROVE OneCandidate
    OBVIOUS
  <2>1. ASSUME NEW d \in Devices
        PROVE  Cardinality(Candidates(d)) <= 1
    <3>1. CASE Candidates(d) = {}
      BY <3>1, FS_EmptySet
    <3>2. CASE Candidates(d) # {}
      <4>1. PICK w : Candidates(d) = {w}
        BY <3>2, CandidatesAgree
      <4>2. Cardinality({w}) = 1
        BY FS_Singleton
      <4>3. QED
        BY <4>1, <4>2
    <3>3. QED
      BY <3>1, <3>2
  <2>2. \A d, e \in Devices : d # e => Candidates(d) \cap Candidates(e) = {}
    BY CandidatesApart
  <2>3. QED
    BY <2>1, <2>2 DEF OneCandidate
<1>2. QED
  BY <1>1, RegistryCorrect, HandlesCorrect, PTL

\* A worker registered by DeviceReattached is one of that device, waiting for its
\* first operation: it cannot have failed or ended while its handle travelled.
THEOREM FreshHandlesHolds == Spec => []FreshHandles
<1>1. RegistryInv /\ HandleInv => FreshHandles
  <2> SUFFICES ASSUME RegistryInv, HandleInv, NEW d \in Devices,
                      NEW w \in Candidates(d) \ {devices[d]}
               PROVE  worker[w].pc = "loop" /\ worker[w].dev = d /\ worker[w].queue = <<>>
    BY DEF FreshHandles
  <2>1. worker[w] = Fresh(d)
    BY CandidateShape DEF HandleInv, HandlesFresh
  <2>2. QED
    BY <2>1 DEF Fresh
<1>2. QED
  BY <1>1, RegistryCorrect, HandlesCorrect, PTL

-----------------------------------------------------------------------------
(* The calls in flight. *)

\* Where calls wait: for the supervisor, and for a worker.
Req == {i \in DOMAIN engineQ : engineQ[i].type = "Request"}
Ops(w) == DOMAIN worker[w].queue

\* A worker's queue is within its capacity, and there is none outside its life.
QueuesBounded ==
  \A w \in Workers :
    /\ Len(worker[w].queue) <= WorkerCap
    /\ worker[w].pc \in {"none", "exited"} => worker[w].queue = <<>>

\* A call that waits somewhere is one its caller waits for.
CallsAwaited ==
  /\ \A i \in Req : client[engineQ[i].from] = "waiting"
  /\ \A w \in Workers : \A j \in Ops(w) : client[worker[w].queue[j].from] = "waiting"

\* No caller has two.
CallsOnce ==
  /\ \A i, j \in Req : engineQ[i].from = engineQ[j].from => i = j
  /\ \A v, w \in Workers : \A i \in Ops(v), j \in Ops(w) :
       worker[v].queue[i].from = worker[w].queue[j].from => v = w /\ i = j
  /\ \A i \in Req : \A w \in Workers : \A j \in Ops(w) :
       engineQ[i].from # worker[w].queue[j].from

\* A caller that waits has one.
CallsKept ==
  \A c \in Clients : client[c] = "waiting" =>
    \/ \E i \in Req : engineQ[i].from = c
    \/ \E w \in Workers : \E j \in Ops(w) : worker[w].queue[j].from = c

CallsInv == QueuesBounded /\ CallsAwaited /\ CallsOnce /\ CallsKept

LEMMA ReqShape ==
  ASSUME TypeOK, NEW i \in Req
  PROVE  /\ i \in Nat \ {0} /\ engineQ[i].from \in Clients
         /\ engineQ[i].kind \in Kinds /\ engineQ[i].dev \in Devices
<1>1. engineQ[i] \in EngineCommand /\ engineQ[i].type = "Request" /\ i \in Nat \ {0}
  BY DEF TypeOK, Req
<1>2. QED
  BY <1>1, CommandShape

LEMMA OpShape ==
  ASSUME TypeOK, NEW w \in Workers
  PROVE  /\ worker[w] \in WorkerRec /\ worker[w].queue \in Seq(WorkerOp)
         /\ \A j \in Ops(w) : j \in Nat \ {0} /\ worker[w].queue[j].from \in Clients
<1>1. worker[w] \in WorkerRec
  BY DEF TypeOK
<1>2. worker[w].queue \in Seq(WorkerOp)
  BY <1>1 DEF WorkerRec
<1>3. \A j \in Ops(w) : j \in Nat \ {0} /\ worker[w].queue[j] \in WorkerOp
  BY <1>2 DEF Ops
<1>4. QED
  BY <1>1, <1>2, <1>3 DEF WorkerOp

\* What waits after a step waited before, up to k places back, and only the calls
\* of S have left: of the engine channel, and of a worker's queue.
ReqShifted(k, S) ==
  /\ \A i \in Req' : i + k \in Req /\ engineQ'[i] = engineQ[i + k] /\ engineQ'[i].from \notin S
  /\ \A i \in Req : engineQ[i].from \in S \/ \E j \in Req' : engineQ'[j].from = engineQ[i].from
OpsShifted(w, k, S) ==
  /\ \A i \in Ops(w)' : /\ i + k \in Ops(w) /\ worker'[w].queue[i] = worker[w].queue[i + k]
                        /\ worker'[w].queue[i].from \notin S
  /\ \A i \in Ops(w) : \/ worker[w].queue[i].from \in S
                       \/ \E j \in Ops(w)' : worker'[w].queue[j].from = worker[w].queue[i].from
WorkersShifted(S) == \A w \in Workers : \E k \in {0, 1} : OpsShifted(w, k, S)

\* Such a step keeps the calls and their callers together, if it answers just S.
LEMMA CallsAnswered ==
  ASSUME TypeOK, TypeOK', CallsInv, NEW S, NEW k \in {0, 1},
         ReqShifted(k, S), WorkersShifted(S), client' = Answered(S)
  PROVE  CallsAwaited' /\ CallsOnce' /\ CallsKept'
<1>1. \A c \in Clients : client'[c] = IF c \in S THEN "idle" ELSE client[c]
  BY DEF Answered
<1>2. \A i \in Req' : /\ i \in Nat /\ i + k \in Req /\ engineQ'[i].from = engineQ[i + k].from
                      /\ engineQ'[i].from \notin S /\ engineQ'[i].from \in Clients
  <2>1. \A i \in Req' : i \in Nat
    BY DEF Req, TypeOK
  <2>2. \A i \in Req' : i + k \in Req /\ engineQ'[i] = engineQ[i + k] /\ engineQ'[i].from \notin S
    BY DEF ReqShifted
  <2>3. QED
    BY <2>1, <2>2, ReqShape
<1>3. \A w \in Workers : \E l \in {0, 1} : \A i \in Ops(w)' :
        /\ i \in Nat /\ i + l \in Ops(w) /\ worker'[w].queue[i].from = worker[w].queue[i + l].from
        /\ worker'[w].queue[i].from \notin S /\ worker'[w].queue[i].from \in Clients
  <2> SUFFICES ASSUME NEW w \in Workers
               PROVE  \E l \in {0, 1} : \A i \in Ops(w)' :
                        /\ i \in Nat /\ i + l \in Ops(w)
                        /\ worker'[w].queue[i].from = worker[w].queue[i + l].from
                        /\ worker'[w].queue[i].from \notin S /\ worker'[w].queue[i].from \in Clients
    OBVIOUS
  <2>1. PICK l \in {0, 1} : OpsShifted(w, l, S)
    BY DEF WorkersShifted
  <2>2. worker'[w].queue \in Seq(WorkerOp)
    <3>1. worker'[w] \in WorkerRec
      BY DEF TypeOK
    <3>2. QED
      BY <3>1 DEF WorkerRec
  <2>3. \A i \in Ops(w)' : i \in Nat
    BY <2>2 DEF Ops
  <2>4. \A i \in Ops(w)' : /\ i + l \in Ops(w) /\ worker'[w].queue[i] = worker[w].queue[i + l]
                           /\ worker'[w].queue[i].from \notin S
    BY <2>1 DEF OpsShifted
  <2>5. \A i \in Ops(w) : worker[w].queue[i].from \in Clients
    BY OpShape
  <2>6. QED
    BY <2>3, <2>4, <2>5
<1>4. CallsAwaited'
  <2>1. \A i \in Req' : client'[engineQ'[i].from] = "waiting"
    BY <1>1, <1>2 DEF CallsInv, CallsAwaited
  <2>2. \A w \in Workers : \A j \in Ops(w)' : client'[worker'[w].queue[j].from] = "waiting"
    BY <1>1, <1>3 DEF CallsInv, CallsAwaited
  <2>3. QED
    BY <2>1, <2>2 DEF CallsAwaited
<1>5. CallsOnce'
  <2>1. ASSUME NEW i \in Req', NEW j \in Req', engineQ'[i].from = engineQ'[j].from
        PROVE  i = j
    <3>1. i + k = j + k
      BY <1>2, <2>1 DEF CallsInv, CallsOnce
    <3>2. QED
      BY <1>2, <3>1
  <2>2. ASSUME NEW v \in Workers, NEW w \in Workers, NEW i \in Ops(v)', NEW j \in Ops(w)',
               worker'[v].queue[i].from = worker'[w].queue[j].from
        PROVE  v = w /\ i = j
    <3>1. v = w
      BY <1>3, <2>2 DEF CallsInv, CallsOnce
    <3>2. PICK l \in {0, 1} : \A n \in Ops(w)' :
            n \in Nat /\ n + l \in Ops(w) /\ worker'[w].queue[n].from = worker[w].queue[n + l].from
      BY <1>3
    <3>3. i + l = j + l
      BY <2>2, <3>1, <3>2 DEF CallsInv, CallsOnce
    <3>4. QED
      BY <3>1, <3>2, <3>3
  <2>3. \A i \in Req' : \A w \in Workers : \A j \in Ops(w)' :
          engineQ'[i].from # worker'[w].queue[j].from
    BY <1>2, <1>3 DEF CallsInv, CallsOnce
  <2>4. QED
    BY <2>1, <2>2, <2>3 DEF CallsOnce
<1>6. CallsKept'
  <2> SUFFICES ASSUME NEW c \in Clients, client'[c] = "waiting"
               PROVE  \/ \E i \in Req' : engineQ'[i].from = c
                      \/ \E w \in Workers : \E j \in Ops(w)' : worker'[w].queue[j].from = c
    BY DEF CallsKept
  <2>1. c \notin S /\ client[c] = "waiting"
    BY <1>1
  <2>2. CASE \E i \in Req : engineQ[i].from = c
    BY <2>1, <2>2 DEF ReqShifted
  <2>3. CASE \E w \in Workers : \E j \in Ops(w) : worker[w].queue[j].from = c
    BY <2>1, <2>3 DEF WorkersShifted, OpsShifted
  <2>4. QED
    BY <2>1, <2>2, <2>3 DEF CallsInv, CallsKept
<1>7. QED
  BY <1>4, <1>5, <1>6

LEMMA NobodyAnswered ==
  ASSUME TypeOK, client' = client
  PROVE  client' = Answered({})
  BY DEF TypeOK, Answered

\* The engine channel is as it was, or got something else than a call, or lost its head.
LEMMA ReqKept ==
  ASSUME TypeOK, NEW S, \A i \in Req : engineQ[i].from \notin S,
         \/ UNCHANGED engineQ
         \/ \E m \in EngineCommand : m.type # "Request" /\ engineQ' = Append(engineQ, m)
  PROVE  ReqShifted(0, S)
<1>1. engineQ \in Seq(EngineCommand)
  BY DEF TypeOK
<1>2. CASE UNCHANGED engineQ
  <2>1. Req' = Req /\ \A i \in Req : i + 0 = i
    BY <1>1, <1>2 DEF Req
  <2>2. QED
    BY <1>2, <2>1 DEF ReqShifted
<1>3. ASSUME NEW m \in EngineCommand, m.type # "Request", engineQ' = Append(engineQ, m)
      PROVE  ReqShifted(0, S)
  <2>1. /\ \A i \in DOMAIN engineQ : i \in DOMAIN engineQ' /\ engineQ'[i] = engineQ[i] /\ i + 0 = i
        /\ \A i \in DOMAIN engineQ' : i \in DOMAIN engineQ \/ engineQ'[i] = m
    BY <1>1, <1>3
  <2>2. Req' = Req
    BY <1>3, <2>1 DEF Req
  <2>3. \A i \in Req : engineQ'[i] = engineQ[i] /\ i + 0 = i
    BY <2>1 DEF Req
  <2>4. QED
    BY <2>2, <2>3 DEF ReqShifted
<1>4. QED
  BY <1>2, <1>3

LEMMA ReqTaken ==
  ASSUME TypeOK, NEW S, NEW type, Takes(type),
         \A i \in Req : i # 1 <=> engineQ[i].from \notin S
  PROVE  ReqShifted(1, S)
<1>1. engineQ \in Seq(EngineCommand) /\ engineQ # <<>> /\ engineQ' = Tail(engineQ)
  BY DEF TypeOK, Takes
<1>2. \A i \in DOMAIN engineQ' : /\ i + 1 \in DOMAIN engineQ /\ i + 1 # 1
                                 /\ engineQ'[i] = engineQ[i + 1]
  BY <1>1
<1>3. \A i \in DOMAIN engineQ : i # 1 => /\ i - 1 \in DOMAIN engineQ' /\ (i - 1) + 1 = i
                                         /\ engineQ'[i - 1] = engineQ[i]
  BY <1>1
<1>4. \A i \in Req' : i + 1 \in Req /\ engineQ'[i] = engineQ[i + 1] /\ engineQ'[i].from \notin S
  BY <1>2 DEF Req
<1>5. ASSUME NEW i \in Req, engineQ[i].from \notin S
      PROVE  i - 1 \in Req' /\ engineQ'[i - 1].from = engineQ[i].from
  BY <1>3, <1>5 DEF Req
<1>6. QED
  BY <1>4, <1>5 DEF ReqShifted

\* A worker's queue is as it was.
LEMMA OpsKept ==
  ASSUME TypeOK, NEW w \in Workers, NEW S, worker'[w].queue = worker[w].queue,
         \A j \in Ops(w) : worker[w].queue[j].from \notin S
  PROVE  OpsShifted(w, 0, S)
<1>1. Ops(w)' = Ops(w) /\ \A j \in Ops(w) : j + 0 = j
  BY OpShape DEF Ops
<1>2. QED
  BY <1>1 DEF OpsShifted

LEMMA WorkersUntouched ==
  ASSUME TypeOK, NEW S, \A w \in Workers : worker'[w].queue = worker[w].queue,
         \A w \in Workers : \A j \in Ops(w) : worker[w].queue[j].from \notin S
  PROVE  WorkersShifted(S)
  BY OpsKept DEF WorkersShifted

\* A worker that answers its first call, loses all of them, or none.
LEMMA CallsOfWorker ==
  ASSUME TypeOK, TypeOK', CallsInv, NEW w \in Workers, NEW S, client' = Answered(S),
         \/ UNCHANGED engineQ
         \/ \E m \in EngineCommand : m.type # "Request" /\ engineQ' = Append(engineQ, m),
         \A v \in Workers \ {w} : worker'[v] = worker[v],
         \/ worker'[w].queue = worker[w].queue /\ S = {}
         \/ worker'[w].queue = <<>> /\ S = {worker[w].queue[j].from : j \in Ops(w)}
         \/ /\ worker[w].queue # <<>> /\ worker'[w].queue = Tail(worker[w].queue)
            /\ S = {Head(worker[w].queue).from},
         worker'[w].pc \in {"none", "exited"} => worker'[w].queue = <<>>
  PROVE  CallsInv'
<1>1. worker[w].queue \in Seq(WorkerOp)
  BY OpShape
<1>2. S \subseteq {worker[w].queue[j].from : j \in Ops(w)}
  BY <1>1 DEF Ops
<1>3. \A i \in Req : engineQ[i].from \notin S
  BY <1>2 DEF CallsInv, CallsOnce
<1>4. \A v \in Workers \ {w} : \A j \in Ops(v) : worker[v].queue[j].from \notin S
  BY <1>2 DEF CallsInv, CallsOnce
<1>5. \A v \in Workers \ {w} : OpsShifted(v, 0, S)
  BY <1>4, OpsKept
<1>6. OpsShifted(w, 0, S) \/ OpsShifted(w, 1, S)
  <2>1. CASE worker'[w].queue = worker[w].queue /\ S = {}
    BY <2>1, OpsKept
  <2>2. CASE worker'[w].queue = <<>> /\ S = {worker[w].queue[j].from : j \in Ops(w)}
    BY <2>2 DEF OpsShifted, Ops
  <2>3. CASE /\ worker[w].queue # <<>> /\ worker'[w].queue = Tail(worker[w].queue)
             /\ S = {Head(worker[w].queue).from}
    <3> DEFINE q == worker[w].queue
               r == worker'[w].queue
    <3>1. q \in Seq(WorkerOp) /\ q # <<>> /\ r = Tail(q) /\ S = {Head(q).from}
      BY <1>1, <2>3
    <3>2. Ops(w) = DOMAIN q /\ Ops(w)' = DOMAIN r
      BY DEF Ops
    <3>3. \A i \in DOMAIN q : q[i].from = q[1].from => i = 1
      <4>1. 1 \in DOMAIN q
        BY <3>1
      <4>2. QED
        BY <3>2, <4>1 DEF CallsInv, CallsOnce
    <3> HIDE DEF q, r
    <3>4. 1 \in DOMAIN q /\ S = {q[1].from}
      BY <3>1
    <3>5. \A i \in DOMAIN r : i + 1 \in DOMAIN q /\ i + 1 # 1 /\ r[i] = q[i + 1]
      BY <3>1
    <3>6. \A i \in DOMAIN q : i # 1 => i - 1 \in DOMAIN r /\ r[i - 1] = q[i]
      BY <3>1
    <3>7. \A i \in DOMAIN r : i + 1 \in DOMAIN q /\ r[i] = q[i + 1] /\ r[i].from \notin S
      BY <3>3, <3>4, <3>5
    <3>8. \A i \in DOMAIN q : q[i].from \in S \/ \E j \in DOMAIN r : r[j].from = q[i].from
      BY <3>4, <3>6
    <3>9. QED
      BY <3>2, <3>7, <3>8 DEF OpsShifted, q, r
  <2>4. QED
    BY <2>1, <2>2, <2>3
<1>7. ReqShifted(0, S) /\ WorkersShifted(S)
  BY <1>3, <1>5, <1>6, ReqKept DEF WorkersShifted
<1>8. QueuesBounded'
  <2>1. Len(worker'[w].queue) <= WorkerCap
    <3>1. Len(worker[w].queue) <= WorkerCap /\ WorkerCap \in Nat
      BY BoundsAssumption DEF CallsInv, QueuesBounded
    <3>2. worker'[w].queue \in {worker[w].queue, <<>>, Tail(worker[w].queue)}
      OBVIOUS
    <3>3. \A q \in Seq(WorkerOp) : Len(q) <= WorkerCap =>
            Len(<<>>) <= WorkerCap /\ (q # <<>> => Len(Tail(q)) <= WorkerCap)
      BY <3>1
    <3>4. CASE worker[w].queue # <<>>
      BY <1>1, <3>1, <3>2, <3>3, <3>4
    <3>5. CASE worker[w].queue = <<>>
      <4>1. worker'[w].queue = <<>>
        BY <3>5
      <4>2. QED
        BY <3>1, <4>1
    <3>6. QED
      BY <3>4, <3>5
  <2>2. QED
    BY <2>1 DEF CallsInv, QueuesBounded
<1>9. QED
  BY <1>7, <1>8, CallsAnswered DEF CallsInv

LEMMA CallsWorker ==
  ASSUME RegistryInv, TypeOK', CallsInv, NEW w \in Workers, WorkerStep(w)
  PROVE  CallsInv'
<1>1. TypeOK /\ SpawnedOK /\ worker \in [Workers -> WorkerRec] /\ worker[w] \in WorkerRec
  BY DEF RegistryInv, TypeOK
<1>2. worker[w].dev \in Devices /\ \A v \in Workers \ {w} : worker'[v] = worker[v]
  BY <1>1, WorkerStepShape DEF SpawnedOK
<1>3. ASSUME NEW o \in Outcomes, WorkerOpDone(w, o)
      PROVE  CallsInv'
  <2>1. PICK a \in BOOLEAN, p \in {"loop", "failing"} :
          worker' = [worker EXCEPT ![w].queue = Tail(@), ![w].armed = a, ![w].pc = p]
    BY <1>1, <1>3 DEF WorkerOpDone, WorkerRec
  <2>2. worker'[w].queue = Tail(worker[w].queue) /\ worker'[w].pc \in {"loop", "failing"}
    BY <1>1, <2>1 DEF WorkerRec
  <2>3. /\ worker[w].queue # <<>> /\ client' = Answered({Head(worker[w].queue).from})
        /\ UNCHANGED engineQ
    BY <1>3 DEF WorkerOpDone
  <2>4. QED
    BY <1>1, <1>2, <2>2, <2>3, CallsOfWorker
<1>4. CASE (\E o \in Outcomes : WorkerDebounce(w, o)) \/ WorkerReport(w)
  <2>1. worker'[w].queue = worker[w].queue /\ worker'[w].pc \in {"loop", "failing", "leaving"}
    <3>1. CASE \E o \in Outcomes : WorkerDebounce(w, o)
      BY <1>1, <3>1 DEF WorkerDebounce, WorkerRec
    <3>2. CASE WorkerReport(w)
      BY <1>1, <3>2 DEF WorkerReport, WorkerRec
    <3>3. QED
      BY <1>4, <3>1, <3>2
  <2>2. client' = Answered({})
    BY <1>1, <1>4, NobodyAnswered DEF WorkerDebounce, WorkerReport
  <2>3. \/ UNCHANGED engineQ
        \/ engineQ' = Append(engineQ, [type |-> "Error", dev |-> worker[w].dev])
    BY <1>4 DEF WorkerDebounce, WorkerReport, ReportSentOrRefused
  <2>4. [type |-> "Error", dev |-> worker[w].dev] \in EngineCommand
    BY <1>2 DEF EngineCommand
  <2>5. \/ UNCHANGED engineQ
        \/ \E m \in EngineCommand : m.type # "Request" /\ engineQ' = Append(engineQ, m)
    BY <2>3, <2>4
  <2>6. QED
    BY <1>1, <1>2, <2>1, <2>2, <2>5, CallsOfWorker
<1>5. CASE WorkerClosed(w) \/ WorkerExit(w) \/ WorkerPanic(w)
  <2>1. worker' = [worker EXCEPT ![w] = Gone(worker[w].dev)] /\ UNCHANGED engineQ
    BY <1>5 DEF WorkerClosed, WorkerExit, WorkerPanic
  <2>2. worker'[w].queue = <<>>
    BY <1>1, <2>1 DEF Gone
  <2>3. client' = Answered({worker[w].queue[j].from : j \in Ops(w)})
    <3>1. CASE WorkerClosed(w)
      <4>1. {worker[w].queue[j].from : j \in Ops(w)} = {} /\ UNCHANGED client
        BY <3>1 DEF WorkerClosed, Ops
      <4>2. QED
        BY <1>1, <4>1, NobodyAnswered
    <3>2. CASE WorkerExit(w) \/ WorkerPanic(w)
      <4>1. Callers(worker[w].queue) = {worker[w].queue[j].from : j \in Ops(w)}
        BY DEF Callers, Messages, Ops
      <4>2. client' = Answered(Callers(worker[w].queue))
        BY <3>2 DEF WorkerExit, WorkerPanic
      <4>3. QED
        BY <4>1, <4>2
    <3>3. QED
      BY <1>5, <3>1, <3>2
  <2>4. QED
    BY <1>1, <1>2, <2>1, <2>2, <2>3, CallsOfWorker
<1>6. QED
  BY <1>3, <1>4, <1>5 DEF WorkerStep

\* Spawning a worker, or none: queues stay, and no caller is answered.
LEMMA CallsOfOthers ==
  ASSUME TypeOK, TypeOK', CallsInv, client' = client, NEW k \in {0, 1}, ReqShifted(k, {}),
         \/ worker' = worker
         \/ \E w \in Workers, d \in Devices : worker[w].pc = "none" /\ worker' = [worker EXCEPT ![w] = Fresh(d)]
  PROVE  CallsInv'
<1>1. /\ \A v \in Workers : worker'[v].queue = worker[v].queue
      /\ \A v \in Workers : worker'[v].pc \in {"none", "exited"} => worker'[v].pc = worker[v].pc
  <2>1. CASE worker' = worker
    BY <2>1
  <2>2. ASSUME NEW w \in Workers, NEW d \in Devices, worker[w].pc = "none",
               worker' = [worker EXCEPT ![w] = Fresh(d)]
        PROVE  /\ \A v \in Workers : worker'[v].queue = worker[v].queue
               /\ \A v \in Workers : worker'[v].pc \in {"none", "exited"} => worker'[v].pc = worker[v].pc
    <3>1. worker'[w].queue = <<>> /\ worker'[w].pc = "loop" /\ worker[w].queue = <<>>
      BY <2>2 DEF TypeOK, Fresh, CallsInv, QueuesBounded
    <3>2. \A v \in Workers \ {w} : worker'[v] = worker[v]
      BY <2>2 DEF TypeOK
    <3>3. QED
      BY <3>1, <3>2
  <2>3. QED
    BY <2>1, <2>2
<1>2. WorkersShifted({}) /\ client' = Answered({})
  BY <1>1, WorkersUntouched, NobodyAnswered
<1>3. QueuesBounded'
  BY <1>1 DEF CallsInv, QueuesBounded
<1>4. QED
  BY <1>2, <1>3, CallsAnswered DEF CallsInv

\* A client's new call is its only one.
LEMMA CallsRequested ==
  ASSUME TypeOK, CallsInv, NEW c \in Clients, NEW d \in Devices, NEW k \in Kinds,
         ClientRequest(c, d, k)
  PROVE  CallsInv'
<1> DEFINE m == [type |-> "Request", dev |-> d, kind |-> k, from |-> c]
           n == Len(engineQ) + 1
<1>1. /\ client[c] = "idle" /\ client' = [client EXCEPT ![c] = "waiting"]
      /\ engineQ' = Append(engineQ, m) /\ worker' = worker
  BY DEF ClientRequest
<1>2. m.type = "Request" /\ m.from = c /\ m \in EngineCommand
  BY DEF EngineCommand
<1>3. engineQ \in Seq(EngineCommand)
  BY DEF TypeOK
<1> HIDE DEF m
<1>4. /\ n \in DOMAIN engineQ' /\ engineQ'[n] = m /\ n \notin DOMAIN engineQ
      /\ \A i \in DOMAIN engineQ' : i = n \/ i \in DOMAIN engineQ
      /\ \A i \in DOMAIN engineQ : i \in DOMAIN engineQ' /\ engineQ'[i] = engineQ[i]
  BY <1>1, <1>2, <1>3
<1> HIDE DEF n
<1>5. /\ Req' = Req \cup {n} /\ n \notin Req
      /\ engineQ'[n].from = c
      /\ \A i \in Req : engineQ'[i] = engineQ[i]
  BY <1>2, <1>4 DEF Req
<1>6. worker' = worker /\ \A w \in Workers : Ops(w)' = Ops(w)
  BY <1>1 DEF Ops
<1>7. /\ \A i \in Req : engineQ[i].from # c
      /\ \A w \in Workers : \A j \in Ops(w) : worker[w].queue[j].from # c
  BY <1>1 DEF CallsInv, CallsAwaited
<1>8. client'[c] = "waiting" /\ \A b \in Clients \ {c} : client'[b] = client[b]
  BY <1>1 DEF TypeOK
<1>9. /\ \A i \in Req' : \/ i = n /\ engineQ'[i].from = c
                         \/ /\ i \in Req /\ engineQ'[i].from = engineQ[i].from
                            /\ engineQ'[i].from \in Clients \ {c}
      /\ \A w \in Workers : \A j \in Ops(w) : worker[w].queue[j].from \in Clients \ {c}
  BY <1>5, <1>7, ReqShape, OpShape
<1>10. CallsAwaited'
  <2>1. \A i \in Req' : client'[engineQ'[i].from] = "waiting"
    BY <1>8, <1>9 DEF CallsInv, CallsAwaited
  <2>2. \A w \in Workers : \A j \in Ops(w) : client'[worker[w].queue[j].from] = "waiting"
    BY <1>8, <1>9 DEF CallsInv, CallsAwaited
  <2>3. QED
    BY <1>6, <2>1, <2>2 DEF CallsAwaited
<1>11. CallsOnce'
  <2>1. \A i, j \in Req' : engineQ'[i].from = engineQ'[j].from => i = j
    BY <1>9 DEF CallsInv, CallsOnce
  <2>2. \A v, w \in Workers : \A i \in Ops(v), j \in Ops(w) :
          worker[v].queue[i].from = worker[w].queue[j].from => v = w /\ i = j
    BY DEF CallsInv, CallsOnce
  <2>3. \A i \in Req' : \A w \in Workers : \A j \in Ops(w) :
          engineQ'[i].from # worker[w].queue[j].from
    BY <1>9 DEF CallsInv, CallsOnce
  <2>4. QED
    BY <1>6, <2>1, <2>2, <2>3 DEF CallsOnce
<1>12. CallsKept'
  <2> SUFFICES ASSUME NEW b \in Clients, client'[b] = "waiting"
               PROVE  \/ \E i \in Req' : engineQ'[i].from = b
                      \/ \E w \in Workers : \E j \in Ops(w)' : worker'[w].queue[j].from = b
    BY DEF CallsKept
  <2>1. CASE b = c
    BY <1>5, <2>1
  <2>2. CASE b # c
    <3>1. \/ \E i \in Req : engineQ[i].from = b
          \/ \E w \in Workers : \E j \in Ops(w) : worker[w].queue[j].from = b
      BY <1>8, <2>2 DEF CallsInv, CallsKept
    <3>2. QED
      BY <1>5, <1>6, <3>1
  <2>3. QED
    BY <2>1, <2>2
<1>13. QueuesBounded'
  BY <1>6 DEF CallsInv, QueuesBounded
<1>14. QED
  BY <1>10, <1>11, <1>12, <1>13 DEF CallsInv

\* A call moves from the engine channel to the end of its worker's queue.
LEMMA CallsDelivered ==
  ASSUME TypeOK, TypeOK', CallsInv, Takes("Request"), NEW w \in Workers,
         worker[w].pc \notin {"none", "exited"}, Len(worker[w].queue) < WorkerCap,
         worker' = [worker EXCEPT ![w].queue =
                      Append(@, [kind |-> Head(engineQ).kind, from |-> Head(engineQ).from])],
         client' = client
  PROVE  CallsInv'
<1> DEFINE f == Head(engineQ).from
           op == [kind |-> Head(engineQ).kind, from |-> f]
           q == worker[w].queue
           n == Len(q) + 1
<1>1. 1 \in Req /\ engineQ[1].from = f
  BY DEF Takes, Req, TypeOK
<1>2. ReqShifted(1, {f})
  BY <1>1, ReqTaken DEF CallsInv, CallsOnce
<1>3. f \in Clients /\ Head(engineQ).kind \in Kinds
  <2>1. engineQ[1] = Head(engineQ)
    BY DEF Takes, TypeOK
  <2>2. QED
    BY <1>1, <2>1, ReqShape
<1>4. q \in Seq(WorkerOp) /\ op \in WorkerOp /\ op.from = f
  BY <1>3, OpShape DEF WorkerOp
<1>5. /\ worker'[w].queue = Append(q, op) /\ worker'[w].pc = worker[w].pc
      /\ \A v \in Workers \ {w} : worker'[v] = worker[v]
  BY OpShape DEF TypeOK, WorkerRec
<1> HIDE DEF f, op, q
<1>6. /\ n \in DOMAIN Append(q, op) /\ Append(q, op)[n] = op /\ n \notin DOMAIN q
      /\ \A i \in DOMAIN Append(q, op) : i = n \/ i \in DOMAIN q
      /\ \A i \in DOMAIN q : i \in DOMAIN Append(q, op) /\ Append(q, op)[i] = q[i]
      /\ Len(Append(q, op)) = n /\ n <= WorkerCap
  <2>1. WorkerCap \in Nat /\ Len(q) < WorkerCap
    BY BoundsAssumption DEF q
  <2>2. QED
    BY <1>4, <2>1
<1> HIDE DEF n
<1>7. /\ Ops(w)' = Ops(w) \cup {n} /\ n \notin Ops(w)
      /\ worker'[w].queue[n].from = f
      /\ \A j \in Ops(w) : worker'[w].queue[j] = worker[w].queue[j]
      /\ Len(worker'[w].queue) <= WorkerCap
  BY <1>4, <1>5, <1>6 DEF Ops, q
<1>8. \A v \in Workers \ {w} : Ops(v)' = Ops(v) /\ worker'[v].queue = worker[v].queue
  BY <1>5 DEF Ops
<1>9. /\ \A v \in Workers : \A j \in DOMAIN worker'[v].queue :
           \/ v = w /\ j = n /\ worker'[v].queue[j].from = f
           \/ /\ j \in DOMAIN worker[v].queue /\ worker'[v].queue[j].from = worker[v].queue[j].from
              /\ worker'[v].queue[j].from # f
      /\ \A v \in Workers : \A j \in DOMAIN worker[v].queue :
           j \in DOMAIN worker'[v].queue /\ worker'[v].queue[j].from = worker[v].queue[j].from
  <2>1. \A v \in Workers : \A j \in DOMAIN worker[v].queue : worker[v].queue[j].from # f
    BY <1>1 DEF CallsInv, CallsOnce, Ops
  <2>2. \A v \in Workers \ {w} : /\ DOMAIN worker'[v].queue = DOMAIN worker[v].queue
                                 /\ worker'[v].queue = worker[v].queue
    BY <1>8 DEF Ops
  <2>3. /\ DOMAIN worker'[w].queue = DOMAIN worker[w].queue \cup {n}
        /\ \A j \in DOMAIN worker[w].queue : worker'[w].queue[j] = worker[w].queue[j]
        /\ worker'[w].queue[n].from = f
    BY <1>7 DEF Ops
  <2>4. QED
    BY <2>1, <2>2, <2>3
<1>10. \A i \in Req' : i \in Nat /\ i + 1 \in Req /\ engineQ'[i] = engineQ[i + 1] /\ engineQ'[i].from # f
  BY <1>2 DEF ReqShifted, Req, TypeOK
<1>11. CallsAwaited'
  <2>1. client[f] = "waiting"
    BY <1>1 DEF CallsInv, CallsAwaited
  <2>2. \A i \in Req' : client[engineQ'[i].from] = "waiting"
    BY <1>10 DEF CallsInv, CallsAwaited
  <2>3. \A v \in Workers : \A j \in DOMAIN worker'[v].queue : client[worker'[v].queue[j].from] = "waiting"
    <3>1. \A v \in Workers : \A j \in DOMAIN worker[v].queue : client[worker[v].queue[j].from] = "waiting"
      BY DEF CallsInv, CallsAwaited, Ops
    <3>2. QED
      BY <1>9, <2>1, <3>1
  <2>4. QED
    BY <2>2, <2>3 DEF CallsAwaited, Ops
<1>12. CallsOnce'
  <2>1. \A i, j \in Req' : engineQ'[i].from = engineQ'[j].from => i = j
    <3>1. \A i, j \in Req' : engineQ'[i].from = engineQ'[j].from => i + 1 = j + 1
      BY <1>10 DEF CallsInv, CallsOnce, Ops
    <3>2. QED
      BY <1>10, <3>1
  <2>2. \A u, v \in Workers : \A i \in DOMAIN worker'[u].queue, j \in DOMAIN worker'[v].queue :
          worker'[u].queue[i].from = worker'[v].queue[j].from => u = v /\ i = j
    <3> SUFFICES ASSUME NEW u \in Workers, NEW v \in Workers, NEW i \in DOMAIN worker'[u].queue, NEW j \in DOMAIN worker'[v].queue,
                        worker'[u].queue[i].from = worker'[v].queue[j].from
                 PROVE  u = v /\ i = j
      OBVIOUS
    <3>1. CASE worker'[u].queue[i].from = f
      <4>1. u = w /\ i = n
        BY <1>9, <3>1
      <4>2. worker'[v].queue[j].from = f
        BY <3>1
      <4>3. v = w /\ j = n
        BY <1>9, <4>2
      <4>4. QED
        BY <4>1, <4>3
    <3>2. CASE worker'[u].queue[i].from # f
      <4>1. /\ i \in DOMAIN worker[u].queue /\ worker'[u].queue[i].from = worker[u].queue[i].from
            /\ j \in DOMAIN worker[v].queue /\ worker'[v].queue[j].from = worker[v].queue[j].from
        BY <1>9, <3>2
      <4>2. worker[u].queue[i].from = worker[v].queue[j].from
        BY <4>1
      <4>3. \A m \in DOMAIN worker[u].queue, k \in DOMAIN worker[v].queue :
              worker[u].queue[m].from = worker[v].queue[k].from => u = v /\ m = k
        BY DEF CallsInv, CallsOnce, Ops
      <4>4. QED
        BY <4>1, <4>2, <4>3
    <3>3. QED
      BY <3>1, <3>2
  <2>3. ASSUME NEW i \in Req', NEW v \in Workers, NEW j \in DOMAIN worker'[v].queue
        PROVE  engineQ'[i].from # worker'[v].queue[j].from
    <3>1. CASE worker'[v].queue[j].from = f
      BY <1>10, <3>1
    <3>2. CASE worker'[v].queue[j].from # f
      <4>1. i + 1 \in Req /\ engineQ'[i] = engineQ[i + 1]
        BY <1>10
      <4>2. j \in DOMAIN worker[v].queue /\ worker'[v].queue[j].from = worker[v].queue[j].from
        BY <1>9, <3>2
      <4>3. QED
        BY <4>1, <4>2 DEF CallsInv, CallsOnce, Ops
    <3>3. QED
      BY <3>1, <3>2
  <2>4. QED
    BY <2>1, <2>2, <2>3 DEF CallsOnce, Ops
<1>13. CallsKept'
  <2> SUFFICES ASSUME NEW c \in Clients, client[c] = "waiting"
               PROVE  \/ \E i \in Req' : engineQ'[i].from = c
                      \/ \E v \in Workers : \E j \in Ops(v)' : worker'[v].queue[j].from = c
    BY DEF CallsKept
  <2>1. CASE c = f
    BY <1>7, <2>1
  <2>2. CASE c # f /\ \E i \in Req : engineQ[i].from = c
    <3>1. PICK i \in Req : engineQ[i].from = c
      BY <2>2
    <3>2. \E j \in Req' : engineQ'[j].from = engineQ[i].from
      BY <1>2, <2>2, <3>1 DEF ReqShifted
    <3>3. QED
      BY <3>1, <3>2
  <2>3. CASE \E v \in Workers : \E j \in Ops(v) : worker[v].queue[j].from = c
    <3>1. PICK v \in Workers : \E j \in DOMAIN worker[v].queue : worker[v].queue[j].from = c
      BY <2>3 DEF Ops
    <3>2. PICK j \in DOMAIN worker[v].queue : worker[v].queue[j].from = c
      BY <3>1
    <3>3. j \in DOMAIN worker'[v].queue /\ worker'[v].queue[j].from = c
      BY <1>9, <3>2
    <3>4. QED
      BY <3>3 DEF Ops
  <2>4. QED
    BY <2>1, <2>2, <2>3 DEF CallsInv, CallsKept
<1>14. QueuesBounded'
  BY <1>5, <1>7 DEF CallsInv, QueuesBounded
<1>15. QED
  BY <1>11, <1>12, <1>13, <1>14 DEF CallsInv

\* A call is answered by the supervisor.
LEMMA CallsRefused ==
  ASSUME TypeOK, TypeOK', CallsInv, Takes("Request"), worker' = worker,
         client' = Answered({Head(engineQ).from})
  PROVE  CallsInv'
<1> DEFINE f == Head(engineQ).from
<1>1. 1 \in Req /\ engineQ[1].from = f
  BY DEF Takes, Req, TypeOK
<1>2. ReqShifted(1, {f})
  BY <1>1, ReqTaken DEF CallsInv, CallsOnce
<1>3. \A v \in Workers : \A j \in Ops(v) : worker[v].queue[j].from # f
  BY <1>1 DEF CallsInv, CallsOnce
<1>4. WorkersShifted({f})
  BY <1>3, WorkersUntouched
<1>5. QueuesBounded'
  BY DEF CallsInv, QueuesBounded
<1>6. QED
  BY <1>2, <1>4, <1>5, CallsAnswered DEF CallsInv

LEMMA CallsEnvironment ==
  ASSUME RegistryInv, TypeOK', CallsInv,
         \/ \E d \in Devices : \E lost \in BOOLEAN : KernelEvent(d, lost)
         \/ UdevPump
         \/ SendShutdown
         \/ \E c \in Clients : \E d \in Devices : \E k \in Kinds : ClientRequest(c, d, k)
  PROVE  CallsInv'
<1>1. TypeOK
  BY DEF RegistryInv
<1>2. CASE \E c \in Clients : \E d \in Devices : \E k \in Kinds : ClientRequest(c, d, k)
  BY <1>1, <1>2, CallsRequested
<1>3. CASE \/ \E d \in Devices : \E lost \in BOOLEAN : KernelEvent(d, lost)
           \/ UdevPump
           \/ SendShutdown
  <2>1. worker' = worker /\ client' = client
    BY <1>3 DEF KernelEvent, UdevPump, SendShutdown
  <2>2. \/ UNCHANGED engineQ
        \/ \E m \in EngineCommand : m.type # "Request" /\ engineQ' = Append(engineQ, m)
    <3>1. CASE UdevPump
      <4>1. Head(udevQ) \in UdevEvent /\ engineQ' = Append(engineQ, Head(udevQ))
        BY <1>1, <3>1 DEF TypeOK, UdevPump
      <4>2. Head(udevQ) \in EngineCommand /\ Head(udevQ).type # "Request"
        BY <4>1 DEF UdevEvent, EngineCommand
      <4>3. QED
        BY <4>1, <4>2
    <3>2. CASE SendShutdown
      <4>1. [type |-> "Shutdown"] \in EngineCommand
        BY DEF EngineCommand
      <4>2. QED
        BY <3>2, <4>1 DEF SendShutdown
    <3>3. QED
      BY <1>3, <3>1, <3>2 DEF KernelEvent
  <2>3. ReqShifted(0, {})
    BY <1>1, <2>2, ReqKept
  <2>4. QED
    BY <1>1, <2>1, <2>3, CallsOfOthers
<1>4. QED
  BY <1>2, <1>3

LEMMA CallsTask ==
  ASSUME RegistryInv, TypeOK', CallsInv, NEW t \in Tasks, TaskStep(t)
  PROVE  CallsInv'
<1>1. TypeOK /\ SpawnedOK
  BY DEF RegistryInv
<1>2. client' = client
  BY DEF TaskStep, TaskCancelled, TaskWake, TaskAttached, TaskAttachFailed, TaskSend
<1>3. task[t].pc # "none" /\ task[t].dev \in Devices
  BY <1>1 DEF SpawnedOK, TaskStep, TaskCancelled, TaskWake, TaskAttached, TaskAttachFailed, TaskSend
<1>4. \/ worker' = worker
      \/ \E w \in Workers, d \in Devices : worker[w].pc = "none" /\ worker' = [worker EXCEPT ![w] = Fresh(d)]
  <2>1. CASE TaskAttached(t)
    BY <1>3, <2>1 DEF TaskAttached, NextWorker
  <2>2. CASE \/ TaskCancelled(t) \/ TaskWake(t) \/ TaskSend(t)
             \/ \E o \in FailedAttach : TaskAttachFailed(t, o)
    BY <2>2 DEF TaskCancelled, TaskWake, TaskAttachFailed, TaskSend
  <2>3. QED
    BY <2>1, <2>2 DEF TaskStep
<1>5. \/ UNCHANGED engineQ
      \/ \E m \in EngineCommand : m.type # "Request" /\ engineQ' = Append(engineQ, m)
  <2>1. CASE TaskSend(t)
    <3> DEFINE m == [type |-> "Reattached", dev |-> task[t].dev, wk |-> task[t].wk, tok |-> task[t].tok]
    <3>1. m \in EngineCommand
      BY <1>1, <2>1 DEF SpawnedOK, TaskSend, EngineCommand
    <3>2. UNCHANGED engineQ \/ engineQ' = Append(engineQ, m)
      BY <2>1 DEF TaskSend
    <3>3. QED
      BY <3>1, <3>2
  <2>2. CASE \/ TaskCancelled(t) \/ TaskWake(t) \/ TaskAttached(t)
             \/ \E o \in FailedAttach : TaskAttachFailed(t, o)
    BY <2>2 DEF TaskCancelled, TaskWake, TaskAttached, TaskAttachFailed
  <2>3. QED
    BY <2>1, <2>2 DEF TaskStep
<1>6. ReqShifted(0, {})
  BY <1>1, <1>5, ReqKept
<1>7. QED
  BY <1>1, <1>2, <1>4, <1>6, CallsOfOthers

\* Shutdown drops every queued command, and answers the calls among them.
LEMMA CallsDropped ==
  ASSUME TypeOK, TypeOK', CallsInv, SupShutdown
  PROVE  CallsInv'
<1> DEFINE S == {engineQ[i].from : i \in Req}
<1>1. engineQ' = <<>> /\ worker' = worker
  BY DEF SupShutdown
<1>2. {m.from : m \in {x \in Messages(engineQ) : x.type = "Request"}} = S
  BY DEF Messages, Req
<1>3. client' = Answered(S)
  BY <1>2 DEF SupShutdown
<1>4. ReqShifted(0, S)
  BY <1>1 DEF ReqShifted, Req
<1>5. \A w \in Workers : \A j \in Ops(w) : worker[w].queue[j].from \notin S
  BY DEF CallsInv, CallsOnce
<1> HIDE DEF S
<1>6. WorkersShifted(S)
  BY <1>1, <1>5, WorkersUntouched
<1>7. QueuesBounded'
  BY <1>1 DEF CallsInv, QueuesBounded
<1>8. QED
  BY <1>3, <1>4, <1>6, <1>7, CallsAnswered DEF CallsInv

LEMMA CallsSupervisor ==
  ASSUME RegistryInv, HandleInv, TypeOK', CallsInv, Supervisor
  PROVE  CallsInv'
<1>1. TypeOK /\ SpawnedOK
  BY DEF RegistryInv
<1>2. CASE SupRequestAnswered
  BY <1>1, <1>2, CallsRefused DEF SupRequestAnswered
<1>3. CASE SupRequestDispatched
  <2> DEFINE m == Head(engineQ)
             w == devices[m.dev]
  <2>1. Takes("Request") /\ w # NoWorker
    BY <1>3 DEF SupRequestDispatched
  <2>2. m.dev \in Devices
    BY <1>1, <2>1, TakesShape, CommandShape DEF TypeOK
  <2>3. w \in Workers /\ worker[w].pc # "none"
    BY <1>1, <2>1, <2>2 DEF TypeOK, HandleInv, HandlesFresh
  <2>4. CASE /\ worker[w].pc # "exited" /\ Len(worker[w].queue) < WorkerCap
             /\ worker' = [worker EXCEPT ![w].queue = Append(@, [kind |-> m.kind, from |-> m.from])]
             /\ client' = client
    BY <1>1, <2>1, <2>3, <2>4, CallsDelivered
  <2>5. CASE worker' = worker /\ client' = Answered({m.from})
    BY <1>1, <2>1, <2>5, CallsRefused
  <2>6. QED
    BY <1>3, <2>4, <2>5 DEF SupRequestDispatched, Rejected
<1>4. CASE SupShutdown
  BY <1>1, <1>4, CallsDropped
<1>5. CASE SupAttached \/ SupAttachTransient \/ SupAttachPermanent
  <2>1. UNCHANGED <<engineQ, client>>
    BY <1>5 DEF SupAttached, SupAttachTransient, SupAttachPermanent
  <2>2. \/ worker' = worker
        \/ \E w \in Workers, d \in Devices : worker[w].pc = "none" /\ worker' = [worker EXCEPT ![w] = Fresh(d)]
    <3>1. CASE SupAttached
      <4>1. supDev \in Devices
        BY <1>1, <3>1 DEF SpawnedOK, SupAttached
      <4>2. QED
        BY <3>1, <4>1 DEF SupAttached, NextWorker
    <3>2. CASE SupAttachTransient \/ SupAttachPermanent
      BY <3>2 DEF SupAttachTransient, SupAttachPermanent
    <3>3. QED
      BY <1>5, <3>1, <3>2
  <2>3. ReqShifted(0, {})
    BY <1>1, <2>1, ReqKept
  <2>4. QED
    BY <1>1, <2>1, <2>2, <2>3, CallsOfOthers
<1>6. CASE SupConnected \/ SupDisconnected \/ SupError \/ SupReattached
  <2>1. PICK type \in {"Connected", "Disconnected", "Error", "Reattached"} : Takes(type)
    BY <1>6 DEF SupConnected, SupDisconnected, SupError, SupReattached
  <2>2. UNCHANGED <<worker, client>>
    BY <1>6 DEF SupConnected, SupDisconnected, SupError, SupReattached
  <2>3. \A i \in Req : i # 1
    BY <1>1, <2>1 DEF TypeOK, Takes, Req
  <2>4. ReqShifted(1, {})
    BY <1>1, <2>1, <2>3, ReqTaken
  <2>5. QED
    BY <1>1, <2>2, <2>4, CallsOfOthers
<1>7. QED
  BY <1>2, <1>3, <1>4, <1>5, <1>6 DEF Supervisor

LEMMA CallsInit == Init => CallsInv
<1> SUFFICES ASSUME Init PROVE CallsInv
  OBVIOUS
<1>1. Req = {} /\ \A w \in Workers : worker[w].queue = <<>> /\ Ops(w) = {}
  BY DEF Init, Req, Ops, Unspawned
<1>2. QueuesBounded
  BY <1>1, BoundsAssumption DEF QueuesBounded
<1>3. \A c \in Clients : client[c] = "idle"
  BY DEF Init
<1>4. QED
  BY <1>1, <1>2, <1>3 DEF CallsInv, CallsAwaited, CallsOnce, CallsKept

LEMMA CallsStep ==
  RegistryInv /\ RegistryInv' /\ HandleInv /\ CallsInv /\ [Next]_vars => CallsInv'
<1> SUFFICES ASSUME RegistryInv, RegistryInv', HandleInv, CallsInv, [Next]_vars PROVE CallsInv'
  OBVIOUS
<1>0. TypeOK /\ TypeOK'
  BY DEF RegistryInv
<1>1. CASE UNCHANGED vars
  <2>1. UNCHANGED <<engineQ, worker, client>>
    BY <1>1 DEF vars
  <2>2. ReqShifted(0, {})
    BY <1>0, <2>1, ReqKept
  <2>3. QED
    BY <1>0, <2>1, <2>2, CallsOfOthers
<1>2. CASE Next
  BY <1>0, <1>2, CallsEnvironment, CallsSupervisor, CallsWorker, CallsTask DEF Next
<1>3. QED
  BY <1>1, <1>2

\* A call is in one channel, once, exactly while its caller waits, and channels keep to
\* their capacities: through eviction, overflow, worker death, panic and shutdown.
THEOREM CallsCorrect == Spec => []CallsInv
<1>1. Init => RegistryInv /\ HandleInv /\ CallsInv
  BY RegistryInit, HandlesInit, CallsInit
<1>2. (RegistryInv /\ HandleInv /\ CallsInv) /\ [Next]_vars
        => (RegistryInv /\ HandleInv /\ CallsInv)'
  BY RegistryStep, HandlesStep, CallsStep
<1>3. QED
  BY <1>1, <1>2, PTL DEF Spec

\* So what waits of a caller, counted over all channels, is one call or none, as its
\* caller waits or not.
THEOREM PendingOnceHolds == Spec => []PendingOnce
<1>1. TypeOK /\ CallsInv => PendingOnce
  <2> SUFFICES ASSUME TypeOK, CallsInv, NEW c \in Clients
               PROVE  Cardinality({i \in DOMAIN engineQ :
                                     engineQ[i].type = "Request" /\ engineQ[i].from = c})
                      + Cardinality({p \in Workers \X (1 .. WorkerCap) :
                                       /\ p[2] \in DOMAIN worker[p[1]].queue
                                       /\ worker[p[1]].queue[p[2]].from = c})
                      = IF client[c] = "waiting" THEN 1 ELSE 0
    BY DEF PendingOnce
  <2> DEFINE E == {i \in DOMAIN engineQ : engineQ[i].type = "Request" /\ engineQ[i].from = c}
             W == {p \in Workers \X (1 .. WorkerCap) :
                     /\ p[2] \in DOMAIN worker[p[1]].queue
                     /\ worker[p[1]].queue[p[2]].from = c}
  <2>1. E = {i \in Req : engineQ[i].from = c}
    BY DEF Req
  <2>2. /\ \A p \in W : /\ p = <<p[1], p[2]>> /\ p[1] \in Workers /\ p[2] \in Ops(p[1])
                        /\ worker[p[1]].queue[p[2]].from = c
        /\ \A w \in Workers : \A j \in Ops(w) :
             worker[w].queue[j].from = c => <<w, j>> \in W
    <3>1. ASSUME NEW w \in Workers, NEW j \in Ops(w)
          PROVE  j \in 1 .. WorkerCap
      <4>1. worker[w].queue \in Seq(WorkerOp) /\ Len(worker[w].queue) <= WorkerCap /\ WorkerCap \in Nat
        BY OpShape, BoundsAssumption DEF CallsInv, QueuesBounded
      <4>2. QED
        BY <4>1 DEF Ops
    <3>2. QED
      BY <3>1 DEF Ops
  <2> HIDE DEF E, W
  <2>3. CASE client[c] # "waiting"
    <3>1. CallsAwaited
      BY DEF CallsInv
    <3>2. E = {}
      BY <2>1, <2>3, <3>1 DEF CallsAwaited
    <3>3. W = {}
      <4> SUFFICES ASSUME NEW p \in W PROVE FALSE
        OBVIOUS
      <4>1. p[1] \in Workers /\ p[2] \in Ops(p[1]) /\ worker[p[1]].queue[p[2]].from = c
        BY <2>2
      <4>2. QED
        BY <2>3, <3>1, <4>1 DEF CallsAwaited
    <3>4. Cardinality(E) = 0 /\ Cardinality(W) = 0
      <4>1. Cardinality({}) = 0
        BY FS_EmptySet
      <4>2. QED
        BY <3>2, <3>3, <4>1
    <3>5. QED
      BY <2>3, <3>4 DEF E, W
  <2>4. ASSUME client[c] = "waiting", NEW i \in Req, engineQ[i].from = c
        PROVE  Cardinality(E) + Cardinality(W) = 1
    <3>1. E = {i}
      BY <2>1, <2>4 DEF CallsInv, CallsOnce
    <3>2. W = {}
      BY <2>2, <2>4 DEF CallsInv, CallsOnce
    <3>3. Cardinality(E) = 1 /\ Cardinality(W) = 0
      <4>1. Cardinality({}) = 0 /\ Cardinality({i}) = 1
        BY FS_EmptySet, FS_Singleton
      <4>2. QED
        BY <3>1, <3>2, <4>1
    <3>4. QED
      BY <3>3
  <2>5. ASSUME client[c] = "waiting", NEW w \in Workers, NEW j \in Ops(w),
               worker[w].queue[j].from = c
        PROVE  Cardinality(E) + Cardinality(W) = 1
    <3>1. E = {}
      BY <2>1, <2>5 DEF CallsInv, CallsOnce
    <3>2. W = {<<w, j>>}
      <4>1. <<w, j>> \in W
        BY <2>2, <2>5
      <4>2. ASSUME NEW p \in W
            PROVE  p = <<w, j>>
        <5>1. p[1] = w /\ p[2] = j
          BY <2>2, <2>5 DEF CallsInv, CallsOnce
        <5>2. QED
          BY <2>2, <5>1
      <4>3. QED
        BY <4>1, <4>2
    <3>3. Cardinality(E) = 0 /\ Cardinality(W) = 1
      <4>1. Cardinality({}) = 0 /\ Cardinality({<<w, j>>}) = 1
        BY FS_EmptySet, FS_Singleton
      <4>2. QED
        BY <3>1, <3>2, <4>1
    <3>4. QED
      BY <3>3
  <2>6. QED
    BY <2>3, <2>4, <2>5 DEF CallsInv, CallsKept, E, W
<1>2. RegistryInv => TypeOK
  BY DEF RegistryInv
<1>3. QED
  BY <1>1, <1>2, RegistryCorrect, CallsCorrect, PTL
=============================================================================
