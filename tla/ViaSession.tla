----------------------------- MODULE ViaSession -----------------------------
(***************************************************************************)
(* One attached VIA keyboard, from its worker task down to the firmware:   *)
(*                                                                         *)
(*   worker loop (engine/mod.rs) -- call --> ViaDriver (hal/via.rs)        *)
(*     Direct:     the driver does the round-trips in the worker's task    *)
(*     Coalesced:  the driver relays each call to the coalescer actor,     *)
(*                 which owns the transport and a buffer of keycode writes *)
(*                                                                         *)
(* Both loops take one input at a time; the worker awaits the reply of     *)
(* each call, so at most one call is in flight.  A round-trip is one step; *)
(* a flush and a save are one step per entry, so a failure, an unplug or a *)
(* new call can come between any two of them.                              *)
(*                                                                         *)
(* Each client call carries a new number, which stands for the keycode or  *)
(* the lighting value it writes.                                           *)
(***************************************************************************)
EXTENDS Integers, FiniteSets

CONSTANTS
  Keys,        \* (layer, row, col) positions
  Channels,    \* lighting channels
  NoTarget,    \* neither a key nor a channel
  Modes,       \* the modes with_coalescing is asked for: TRUE is ViaInner::Coalesced
  HasEvents,   \* TRUE: with_coalescing was given lifecycle_tx
  MaxOps,      \* bound: client calls
  MaxFaults    \* bound: failed round-trips while the keyboard is plugged in

ASSUME ConstantsAssumption ==
  /\ NoTarget \notin Keys \cup Channels
  /\ Modes \subseteq BOOLEAN
  /\ HasEvents \in BOOLEAN
  /\ MaxOps \in Nat
  /\ MaxFaults \in Nat

VARIABLES
  coalesced,   \* ViaDriver.inner is Coalesced, not Direct; it never changes
  keycode,     \* firmware: the keymap in EEPROM
  lighting,    \* firmware: the custom values in RAM
  savedLight,  \* firmware: the custom values in NVRAM
  alive,       \* the hidraw node still reaches the keyboard
  faults,      \* failed round-trips so far
  open,        \* the worker's channel has a sender
  worker,      \* "loop", "calling" or "exited" (and its driver dropped)
  armed,       \* commit_deadline is set
  call,        \* the driver call in flight
  reply,       \* its reply, not yet seen by the worker
  ops,         \* client calls so far
  buffer,      \* the coalescer's buffer
  deadline,    \* the coalescer's flush deadline is set
  touched,     \* touched_channels
  coPc,        \* the coalescer (or Direct driver): "select", "flushing", "saving", "exited"
  why,         \* the reason of the flush or save: "auto", "commit", "final"
  lightOk,     \* history: per channel, the last acknowledged value and those of later failed sets
  unseen,      \* history: a write was acknowledged after the last LayoutUpdated
  commitFailed \* history: the last commit failed and nothing was written or committed since

firmwareVars == <<keycode, lighting, savedLight>>
linkVars == <<alive, faults>>
workerVars == <<open, worker, armed, ops>>
coVars == <<coalesced, buffer, deadline, touched, coPc, why>>
historyVars == <<lightOk, unseen, commitFailed>>
vars == <<firmwareVars, linkVars, workerVars, call, reply, coVars, historyVars>>

NotBuffered == -1
NoCall == [op |-> "none", target |-> NoTarget, val |-> 0, by |-> "nobody"]
NoReply == [res |-> "none", val |-> 0]
Ops == {"get", "set", "light", "commit", "other"}
Calls == [op : Ops, target : Keys \cup Channels \cup {NoTarget}, val : Nat,
          by : {"client", "debounce", "close"}]

Buffered == {k \in Keys : buffer[k] # NotBuffered}

Init ==
  /\ coalesced \in Modes
  /\ keycode = [k \in Keys |-> 0]
  /\ lighting = [c \in Channels |-> 0]
  /\ savedLight = [c \in Channels |-> 0]
  /\ alive = TRUE
  /\ faults = 0
  /\ open = TRUE
  /\ worker = "loop"
  /\ armed = FALSE
  /\ call = NoCall
  /\ reply = NoReply
  /\ ops = 0
  /\ buffer = [k \in Keys |-> NotBuffered]
  /\ deadline = FALSE
  /\ touched = {}
  /\ coPc = "select"
  /\ why = "auto"
  /\ lightOk = [c \in Channels |-> {0}]
  /\ unseen = FALSE
  /\ commitFailed = FALSE

-----------------------------------------------------------------------------
(* The keyboard and the callers. *)

\* The keyboard is pulled out: this node never reaches it again.
Unplug ==
  /\ alive
  /\ alive' = FALSE
  /\ UNCHANGED <<firmwareVars, faults, workerVars, call, reply, coVars, historyVars>>

\* The registry drops the last handle (disconnect, eviction or shutdown).
CloseHandles ==
  /\ open
  /\ open' = FALSE
  /\ UNCHANGED <<firmwareVars, linkVars, worker, armed, ops, call, reply, coVars, historyVars>>

\* One round-trip.  It fails with a retryable error (Timeout, Io, an echo
\* mismatch) or, once the node is dead, possibly with Disconnected.
Roundtrip(o) ==
  /\ \/ o = "ok" /\ alive
     \/ o = "err" /\ (alive => faults < MaxFaults)
     \/ o = "gone" /\ ~alive
  /\ faults' = IF alive /\ o = "err" THEN faults + 1 ELSE faults
  /\ UNCHANGED alive

\* Whether the request of a round-trip with outcome o took effect: one that
\* timed out may have.
Lands(o, landed) ==
  /\ o = "ok" => landed
  /\ ~alive => ~landed

Outcomes == {"ok", "err", "gone"}

\* What the caller learns.  Seeded fault: an echo mismatch goes unnoticed.
Unchecked(o) == IF o = "err" THEN "ok" ELSE o
Checked(o) == o

-----------------------------------------------------------------------------
(* The worker: run_device_worker. *)

Issue(c) ==
  /\ call' = c
  /\ reply' = NoReply
  /\ worker' = "calling"

Requests ==
       {<<"get", k>> : k \in Keys} \cup {<<"set", k>> : k \in Keys}
  \cup {<<"light", c>> : c \in Channels}
  \cup {<<"commit", NoTarget>>, <<"other", NoTarget>>}

\* A client's operation is received.  An explicit commit supersedes the
\* debounce.  Bound: MaxOps.
WorkerRecv(r) ==
  /\ worker = "loop"
  /\ open
  /\ ops < MaxOps
  /\ ops' = ops + 1
  /\ armed' = (armed /\ r[1] # "commit")
  /\ Issue([op |-> r[1], target |-> r[2], val |-> ops + 1, by |-> "client"])
  /\ UNCHANGED <<firmwareVars, linkVars, open, coVars, historyVars>>

\* The debounced commit of a driver that does not announce each set.
WorkerDebounce ==
  /\ worker = "loop"
  /\ armed
  /\ armed' = FALSE
  /\ Issue([op |-> "commit", target |-> NoTarget, val |-> 0, by |-> "debounce"])
  /\ UNCHANGED <<firmwareVars, linkVars, open, ops, coVars, historyVars>>

\* All senders dropped: a pending debounce is committed first.
WorkerClosed ==
  /\ worker = "loop"
  /\ ~open
  /\ armed' = FALSE
  /\ IF armed
     THEN Issue([op |-> "commit", target |-> NoTarget, val |-> 0, by |-> "close"])
     ELSE worker' = "exited" /\ UNCHANGED <<call, reply>>
  /\ UNCHANGED <<firmwareVars, linkVars, open, ops, coVars, historyVars>>

\* A driver that does not announce each set gets its debounced commit.
\* Seeded fault: the debounce is left out while the flush timer runs.
ArmsIfIdle == call.op = "set" /\ reply.res = "ok" /\ coalesced /\ ~deadline
Arms == call.op = "set" /\ reply.res = "ok" /\ coalesced

\* LayoutUpdated follows a direct write and a commit.
Announces ==
  /\ reply.res = "ok"
  /\ call.by # "close"
  /\ call.op = "commit" \/ (call.op = "set" /\ ~coalesced)

\* The driver call returns.  The worker retires on a fatal error and once closed.
WorkerReply ==
  /\ reply # NoReply
  /\ armed' = (armed \/ Arms)
  /\ unseen' = (unseen /\ ~Announces)
  /\ worker' = IF reply.res = "gone" \/ call.by = "close" THEN "exited" ELSE "loop"
  /\ call' = NoCall
  /\ reply' = NoReply
  /\ UNCHANGED <<firmwareVars, linkVars, open, ops, coVars, lightOk, commitFailed>>

-----------------------------------------------------------------------------
(* The driver: run_coalescer, or ViaInner::Direct inside the worker's call. *)

Serves(op) == coPc = "select" /\ call.op = op /\ reply = NoReply
Reply(r, v) == reply' = [res |-> r, val |-> v]

\* The read-your-writes lookup: the buffer first, the firmware on a miss.
Get(o) ==
  /\ Serves("get")
  /\ IF call.target \in Buffered
     THEN o = "ok" /\ Reply("ok", buffer[call.target]) /\ UNCHANGED linkVars
     ELSE /\ Roundtrip(o)
          /\ Reply(o, IF o = "ok" THEN keycode[call.target] ELSE 0)
  /\ UNCHANGED <<firmwareVars, workerVars, call, coVars, historyVars>>

\* Coalesced set_keycode: buffer the write; the deadline does not slide.
SetBuffered ==
  /\ coalesced
  /\ Serves("set")
  /\ buffer' = [buffer EXCEPT ![call.target] = call.val]
  /\ deadline' = TRUE
  /\ Reply("ok", 0)
  /\ unseen' = TRUE
  /\ commitFailed' = FALSE
  /\ UNCHANGED <<firmwareVars, linkVars, workerVars, coalesced, call, touched, coPc, why, lightOk>>

\* Direct set_keycode: the firmware stores the write at once.
SetDirect(o, landed) ==
  /\ ~coalesced
  /\ Serves("set")
  /\ Roundtrip(o)
  /\ Lands(o, landed)
  /\ keycode' = IF landed THEN [keycode EXCEPT ![call.target] = call.val] ELSE keycode
  /\ Reply(Checked(o), 0)
  /\ unseen' = (unseen \/ o = "ok")
  /\ commitFailed' = (commitFailed /\ o # "ok")
  /\ UNCHANGED <<lighting, savedLight, workerVars, call, coVars, lightOk>>

\* set_lighting: live in firmware RAM; the channel is touched once it succeeds.
\* Seeded fault: the channel is not recorded.
Untouched(o) == touched
Touching(o) == IF o = "ok" THEN touched \cup {call.target} ELSE touched
SetLight(o, landed) ==
  /\ Serves("light")
  /\ Roundtrip(o)
  /\ Lands(o, landed)
  /\ lighting' = IF landed THEN [lighting EXCEPT ![call.target] = call.val] ELSE lighting
  /\ touched' = Touching(o)
  /\ lightOk' = [lightOk EXCEPT ![call.target] =
                   IF o = "ok" THEN {call.val} ELSE @ \cup {call.val}]
  /\ Reply(o, 0)
  /\ UNCHANGED <<keycode, savedLight, workerVars, coalesced, call, buffer, deadline, coPc, why,
                 unseen, commitFailed>>

\* Macros, get_lighting and the topology queries are plain round-trips.
OtherCall(o) ==
  /\ Serves("other")
  /\ Roundtrip(o)
  /\ Reply(o, 0)
  /\ UNCHANGED <<firmwareVars, workerVars, call, coVars, historyVars>>

\* commit_to_nvram: flush the buffer, if there is one, then save the lighting.
Commit ==
  /\ Serves("commit")
  /\ coPc' = IF coalesced THEN "flushing" ELSE "saving"
  /\ why' = "commit"
  /\ UNCHANGED <<firmwareVars, linkVars, workerVars, coalesced, call, reply, buffer, deadline,
                 touched, historyVars>>

\* select! is unbiased: an expired deadline races a waiting call.
AutoFlush ==
  /\ coPc = "select"
  /\ deadline
  /\ coPc' = "flushing"
  /\ why' = "auto"
  /\ UNCHANGED <<firmwareVars, linkVars, workerVars, coalesced, call, reply, buffer, deadline,
                 touched, historyVars>>

\* The worker returns and drops the driver, which closes the coalescer's channel.
\* Seeded faults: the driver is dropped with the last handle; nothing is flushed.
DroppedWithHandles == ~open
Dropped == worker = "exited"
NoFinalFlush == "exited"
FinalFlush == IF Buffered # {} THEN "flushing" ELSE "saving"
DriverDropped ==
  /\ coPc = "select"
  /\ Dropped
  /\ coPc' = IF coalesced THEN FinalFlush ELSE "exited"
  /\ why' = "final"
  /\ UNCHANGED <<firmwareVars, linkVars, workerVars, coalesced, call, reply, buffer, deadline,
                 touched, historyVars>>

\* A commit or its flush fails.  A failed auto-flush re-arms the deadline, a failed
\* commit clears it, and a failed final flush goes on to the save.
\* Seeded faults: the auto-flush does not re-arm; the final flush is tried again.
NotRearmed == FALSE
Rearmed == why = "auto"
RetriesForever == IF why = "final" THEN "flushing" ELSE "select"
AfterFailure == IF why = "final" THEN "saving" ELSE "select"

\* flush_buffer writes one entry and removes it; the first error ends the flush.
\* Seeded faults: the entry is removed before its write is acknowledged; it is kept.
NeverDrained(k, o) == buffer
DrainedEarly(k, o) == [buffer EXCEPT ![k] = NotBuffered]
Drained(k, o) == IF o = "ok" THEN [buffer EXCEPT ![k] = NotBuffered] ELSE buffer
FlushEntry(k, o, landed) ==
  /\ coPc = "flushing"
  /\ k \in Buffered
  /\ Roundtrip(o)
  /\ Lands(o, landed)
  /\ keycode' = IF landed THEN [keycode EXCEPT ![k] = buffer[k]] ELSE keycode
  /\ buffer' = Drained(k, o)
  /\ IF o = "ok"
     THEN UNCHANGED <<deadline, coPc, reply, commitFailed>>
     ELSE /\ deadline' = Rearmed
          /\ coPc' = AfterFailure
          /\ IF why = "commit" THEN Reply(o, 0) ELSE UNCHANGED reply
          /\ commitFailed' = (commitFailed \/ why = "commit")
  /\ UNCHANGED <<lighting, savedLight, workerVars, coalesced, call, touched, why, lightOk, unseen>>

\* The buffer is drained: LayoutUpdated goes out if the coalescer can send it.
FlushDone ==
  /\ coPc = "flushing"
  /\ Buffered = {}
  /\ unseen' = (unseen /\ ~HasEvents)
  /\ coPc' = IF why = "auto" THEN "select" ELSE "saving"
  /\ deadline' = (deadline /\ why # "auto")
  /\ UNCHANGED <<firmwareVars, linkVars, workerVars, coalesced, call, reply, buffer, touched, why,
                 lightOk, commitFailed>>

\* save_touched_channels: one id_custom_save per channel, up to the first error.
SaveChannel(c, o, landed) ==
  /\ coPc = "saving"
  /\ c \in touched
  /\ Roundtrip(o)
  /\ Lands(o, landed)
  /\ savedLight' = IF landed THEN [savedLight EXCEPT ![c] = lighting[c]] ELSE savedLight
  /\ IF o = "ok"
     THEN touched' = touched \ {c} /\ UNCHANGED <<deadline, coPc, reply, commitFailed>>
     ELSE /\ deadline' = FALSE
          /\ coPc' = IF why = "final" THEN "exited" ELSE "select"
          /\ IF why = "commit" THEN Reply(o, 0) ELSE UNCHANGED reply
          /\ commitFailed' = (commitFailed \/ why = "commit")
          /\ UNCHANGED touched
  /\ UNCHANGED <<keycode, lighting, workerVars, coalesced, call, buffer, why, lightOk, unseen>>

SaveDone ==
  /\ coPc = "saving"
  /\ touched = {}
  /\ deadline' = FALSE
  /\ coPc' = IF why = "final" THEN "exited" ELSE "select"
  /\ IF why = "commit"
     THEN Reply("ok", 0) /\ commitFailed' = FALSE
     ELSE UNCHANGED <<reply, commitFailed>>
  /\ UNCHANGED <<firmwareVars, linkVars, workerVars, coalesced, call, buffer, touched, why,
                 lightOk, unseen>>

-----------------------------------------------------------------------------
WorkerStep == WorkerDebounce \/ WorkerClosed \/ WorkerReply

ServeStep ==
  \/ \E o \in Outcomes : Get(o) \/ OtherCall(o)
  \/ \E o \in Outcomes, landed \in BOOLEAN : SetDirect(o, landed) \/ SetLight(o, landed)
  \/ SetBuffered
  \/ Commit

FlushStep ==
  \/ \E k \in Keys, o \in Outcomes, landed \in BOOLEAN : FlushEntry(k, o, landed)
  \/ FlushDone
  \/ \E c \in Channels, o \in Outcomes, landed \in BOOLEAN : SaveChannel(c, o, landed)
  \/ SaveDone

Next ==
  \/ Unplug
  \/ CloseHandles
  \/ \E r \in Requests : WorkerRecv(r)
  \/ WorkerStep
  \/ ServeStep
  \/ AutoFlush
  \/ DriverDropped
  \/ FlushStep

Spec == Init /\ [][Next]_vars

\* The two tasks are scheduled, a round-trip ends (it is bounded by a timeout), and a
\* timer that stays set fires.  A waiting call, and the closed channel, are taken even
\* though flushes of a dead keyboard recur: each re-arms its deadline a whole interval
\* ahead, and select! has nothing else to take.  Callers and the keyboard owe nothing.
FairSpec ==
  /\ Spec
  /\ WF_vars(WorkerStep)
  /\ SF_vars(ServeStep)
  /\ WF_vars(AutoFlush)
  /\ SF_vars(DriverDropped)
  /\ WF_vars(FlushStep)

-----------------------------------------------------------------------------
(* Properties. *)

\* Types of the variables: in particular a call is in flight exactly while the worker
\* awaits it, and the coalescer's close path runs only after the worker has gone.
TypeOK ==
  /\ coalesced \in BOOLEAN
  /\ why = "final" => worker = "exited"
  /\ call = NoCall <=> worker # "calling"
  /\ keycode \in [Keys -> Nat]
  /\ lighting \in [Channels -> Nat]
  /\ savedLight \in [Channels -> Nat]
  /\ alive \in BOOLEAN
  /\ faults \in Nat
  /\ open \in BOOLEAN
  /\ worker \in {"loop", "calling", "exited"}
  /\ armed \in BOOLEAN
  /\ call \in Calls \cup {NoCall}
  /\ reply \in [res : {"ok", "err", "gone"}, val : Nat] \cup {NoReply}
  /\ ops \in Nat
  /\ buffer \in [Keys -> Nat \cup {NotBuffered}]
  /\ deadline \in BOOLEAN
  /\ touched \subseteq Channels
  /\ coPc \in {"select", "flushing", "saving", "exited"}
  /\ why \in {"auto", "commit", "final"}
  /\ lightOk \in [Channels -> SUBSET Nat]
  /\ unseen \in BOOLEAN
  /\ commitFailed \in BOOLEAN

\* What a read returns: the buffer in front of the firmware.
Keymap == [k \in Keys |-> IF k \in Buffered THEN buffer[k] ELSE keycode[k]]
Promise == INSTANCE DurableKeymap WITH keymap <- Keymap, stored <- keycode
\* The session implements the durable keymap: a read returns the last acknowledged
\* write through buffering, auto-flushes that race calls, and flushes that fail half
\* way, and a commit is acknowledged only once the firmware holds every write
\* (run_coalescer, flush_buffer, ViaDriver::commit_to_nvram).
KeepsPromise == Promise!Spec

\* A commit that succeeds leaves every channel's last acknowledged lighting value, or
\* that of a later set that failed after reaching the firmware, in NVRAM
\* (save_touched_channels and the touched_channels bookkeeping of both modes).
CommitSavesLighting ==
  [][(call.op = "commit" /\ reply = NoReply /\ reply' = [res |-> "ok", val |-> 0])
       => \A c \in Channels : savedLight[c] \in lightOk[c]]_vars

\* Between two inputs of the coalescer, buffered writes wait without a flush deadline
\* only after a failed commit (the deadline bookkeeping of run_coalescer).
StrandedOnlyByFailedCommit ==
  (coPc = "select" /\ Buffered # {} /\ ~deadline) => commitFailed

\* A session that ends without a failed round-trip leaves nothing behind: no buffered
\* write and no unsaved coalesced lighting (final flush and save of run_coalescer).
CleanExitDrains ==
  (coPc = "exited" /\ alive /\ faults = 0)
    => /\ Buffered = {}
       /\ coalesced => touched = {}

\* A buffered write reaches the firmware unless the keyboard is pulled out or a commit
\* fails (non-sliding deadline, retries of the auto-flush, final flush).
WriteReachesFirmware ==
  \A k \in Keys : (k \in Buffered)
    ~> (k \notin Buffered \/ ~alive \/ commitFailed \/ coPc = "exited")

\* An acknowledged write is followed by a LayoutUpdated, unless a commit fails or the
\* worker ends first (per-set event, debounce and commit of run_device_worker).
WriteIsAnnounced == unseen ~> (~unseen \/ commitFailed \/ worker = "exited")

\* Once its last handle is dropped, the session ends: the worker commits and leaves, and
\* the coalescer flushes, saves and leaves (the two close paths).
SessionEnds == ~open ~> (coPc = "exited" /\ worker = "exited")

-----------------------------------------------------------------------------
(* Documented properties that the code does not have. *)

\* "re-arm the deadline so they retry on the next interval instead of stranding until
\* the next set/commit": buffered writes always have a deadline.
NeverStranded == (coPc = "select" /\ Buffered # {}) => deadline
=============================================================================
