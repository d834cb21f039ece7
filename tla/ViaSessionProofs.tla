-------------------------- MODULE ViaSessionProofs --------------------------
(***************************************************************************)
(* Proofs about ViaSession: type correctness, and that a session, in       *)
(* either mode, implements DurableKeymap.                                  *)
(***************************************************************************)
EXTENDS ViaSession, TLAPS

\* The target of a call is of the kind its operation needs, and a reply has a call.
CallShape ==
  /\ reply # NoReply => call # NoCall
  /\ call.op \in {"get", "set"} => call.target \in Keys
  /\ call.op = "light" => call.target \in Channels

\* Only a coalescer buffers and flushes.  A commit at work has a caller that waits for
\* it, and it saves the lighting only once its flush is complete.
CommitShape ==
  /\ ~coalesced => Buffered = {} /\ ~deadline
  /\ coPc = "flushing" => coalesced
  /\ coPc \in {"flushing", "saving"} /\ why = "commit" => call.op = "commit" /\ reply = NoReply
  /\ coPc = "saving" /\ why = "commit" => Buffered = {}

\* The inductive invariant.
SessionInv == TypeOK /\ CallShape /\ CommitShape

-----------------------------------------------------------------------------
(* Lemmas about the state. *)

\* What a call carries.
LEMMA CallFields ==
  ASSUME TypeOK
  PROVE  call.val \in Nat /\ (call # NoCall => call \in Calls)
  BY DEF TypeOK, Calls, NoCall

\* A buffered value is a number.
LEMMA BufferedValue ==
  ASSUME TypeOK, NEW k \in Buffered
  PROVE  k \in Keys /\ buffer[k] \in Nat
  BY DEF TypeOK, Buffered

LEMMA InitInv == Init => SessionInv
<1> SUFFICES ASSUME Init PROVE SessionInv
  OBVIOUS
<1>1. TypeOK
  <2>1. coalesced \in BOOLEAN
    BY ConstantsAssumption DEF Init
  <2>2. call = NoCall <=> worker # "calling"
    BY DEF Init
  <2>3. /\ keycode \in [Keys -> Nat]
        /\ lighting \in [Channels -> Nat]
        /\ savedLight \in [Channels -> Nat]
        /\ buffer \in [Keys -> Nat \cup {NotBuffered}]
        /\ lightOk \in [Channels -> SUBSET Nat]
    BY DEF Init
  <2>4. QED
    BY <2>1, <2>2, <2>3 DEF Init, TypeOK
<1>2. Buffered = {}
  BY DEF Init, Buffered
<1>3. CallShape /\ CommitShape
  BY <1>2 DEF Init, CallShape, CommitShape, NoCall
<1>4. QED
  BY <1>1, <1>3 DEF SessionInv

-----------------------------------------------------------------------------
(* Every action preserves the invariant. *)

\* The environment leaves everything alone that the invariant relates.
LEMMA EnvironmentInv ==
  ASSUME SessionInv, Unplug \/ CloseHandles
  PROVE  SessionInv'
<1>1. TypeOK'
  <2>1. alive' \in BOOLEAN /\ open' \in BOOLEAN
    BY DEF SessionInv, TypeOK, Unplug, CloseHandles, workerVars, linkVars
  <2>2. UNCHANGED <<firmwareVars, faults, worker, armed, ops, call, reply, coVars, historyVars>>
    BY DEF Unplug, CloseHandles, workerVars, linkVars
  <2>3. QED
    BY <2>1, <2>2 DEF SessionInv, TypeOK, firmwareVars, coVars, historyVars
<1>2. CallShape' /\ CommitShape'
  BY DEF SessionInv, CallShape, CommitShape, Buffered, Unplug, CloseHandles, workerVars, coVars
<1>3. QED
  BY <1>1, <1>2 DEF SessionInv

\* A call is issued only when none is in flight, and no commit is then at work.
LEMMA IssueInv ==
  ASSUME SessionInv, worker = "loop", NEW c \in Calls,
         Issue(c),
         c.op \in {"get", "set"} => c.target \in Keys,
         c.op = "light" => c.target \in Channels,
         armed' \in BOOLEAN, ops' \in Nat, open' = open,
         UNCHANGED <<firmwareVars, linkVars, coVars, historyVars>>
  PROVE  SessionInv'
<1>1. c # NoCall
  BY DEF Calls, Ops, NoCall
<1>2. call = NoCall
  BY DEF SessionInv, TypeOK
<1>3. TypeOK'
  BY <1>1 DEF SessionInv, TypeOK, Issue, firmwareVars, linkVars, coVars, historyVars
<1>4. CallShape'
  BY DEF CallShape, Issue
<1>5. ~(coPc \in {"flushing", "saving"} /\ why = "commit")
  BY <1>2 DEF SessionInv, CommitShape, NoCall
<1>6. CommitShape'
  BY <1>5 DEF SessionInv, CommitShape, Buffered, coVars
<1>7. QED
  BY <1>3, <1>4, <1>6 DEF SessionInv

\* A client's request is a call of the right shape.
LEMMA RecvInv ==
  ASSUME SessionInv, NEW r \in Requests, WorkerRecv(r)
  PROVE  SessionInv'
<1> DEFINE c == [op |-> r[1], target |-> r[2], val |-> ops + 1, by |-> "client"]
<1>1. ops \in Nat /\ armed \in BOOLEAN
  BY DEF SessionInv, TypeOK
<1>2. /\ r[1] \in Ops
      /\ r[2] \in Keys \cup Channels \cup {NoTarget}
      /\ r[1] \in {"get", "set"} => r[2] \in Keys
      /\ r[1] = "light" => r[2] \in Channels
  BY DEF Requests, Ops
<1>3. c \in Calls
  BY <1>1, <1>2 DEF Calls
<1>4. /\ worker = "loop"
      /\ Issue(c)
      /\ armed' \in BOOLEAN
      /\ ops' \in Nat
      /\ UNCHANGED <<firmwareVars, linkVars, open, coVars, historyVars>>
  BY <1>1 DEF WorkerRecv
<1>5. c.op = r[1] /\ c.target = r[2]
  OBVIOUS
<1> HIDE DEF c
<1>6. QED
  BY <1>2, <1>3, <1>4, <1>5, IssueInv

\* The worker's own commits, and its end.
LEMMA WorkerInv ==
  ASSUME SessionInv, WorkerStep
  PROVE  SessionInv'
<1> DEFINE c(by) == [op |-> "commit", target |-> NoTarget, val |-> 0, by |-> by]
<1>1. \A by \in {"debounce", "close"} : c(by) \in Calls
  BY DEF Calls, Ops
<1>2. CASE WorkerDebounce
  <2>1. worker = "loop" /\ Issue(c("debounce")) /\ armed' \in BOOLEAN /\ ops' \in Nat
        /\ UNCHANGED <<firmwareVars, linkVars, open, coVars, historyVars>>
    BY <1>2 DEF WorkerDebounce, SessionInv, TypeOK
  <2>2. c("debounce").op = "commit" /\ c("debounce") \in Calls
    BY <1>1
  <2> HIDE DEF c
  <2>3. QED
    BY <2>1, <2>2, IssueInv
<1>3. CASE WorkerClosed /\ armed
  <2>1. worker = "loop" /\ Issue(c("close")) /\ armed' \in BOOLEAN /\ ops' \in Nat
        /\ UNCHANGED <<firmwareVars, linkVars, open, coVars, historyVars>>
    BY <1>3 DEF WorkerClosed, SessionInv, TypeOK
  <2>2. c("close").op = "commit" /\ c("close") \in Calls
    BY <1>1
  <2> HIDE DEF c
  <2>3. QED
    BY <2>1, <2>2, IssueInv
<1>4. CASE WorkerClosed /\ ~armed
  <2>1. TypeOK'
    BY <1>4 DEF WorkerClosed, SessionInv, TypeOK, firmwareVars, linkVars, coVars, historyVars
  <2>2. CallShape' /\ CommitShape'
    BY <1>4 DEF WorkerClosed, SessionInv, CallShape, CommitShape, Buffered, coVars
  <2>3. QED
    BY <2>1, <2>2 DEF SessionInv
<1>5. CASE WorkerReply
  <2>1. TypeOK'
    <3>1. armed' \in BOOLEAN /\ unseen' \in BOOLEAN
      BY <1>5 DEF WorkerReply
    <3>2. worker' \in {"loop", "exited"} /\ (worker = "exited" => worker' = "exited")
      BY <1>5 DEF WorkerReply, SessionInv, TypeOK, CallShape
    <3>3. call' = NoCall /\ reply' = NoReply
      BY <1>5 DEF WorkerReply
    <3>4. QED
      BY <1>5, <3>1, <3>2, <3>3
         DEF WorkerReply, SessionInv, TypeOK, firmwareVars, linkVars, coVars
  <2>2. CallShape'
    BY <1>5 DEF WorkerReply, CallShape, NoCall
  <2>3. CommitShape'
    BY <1>5 DEF WorkerReply, SessionInv, CommitShape, Buffered, coVars
  <2>4. QED
    BY <2>1, <2>2, <2>3 DEF SessionInv
<1>6. QED
  BY <1>2, <1>3, <1>4, <1>5 DEF WorkerStep

\* A round-trip keeps the types of what it counts.
LEMMA RoundtripShape ==
  ASSUME TypeOK, NEW o \in Outcomes, Roundtrip(o)
  PROVE  alive' \in BOOLEAN /\ faults' \in Nat
<1>1. alive' = alive /\ faults' \in {faults, faults + 1}
  BY DEF Roundtrip
<1>2. QED
  BY <1>1 DEF TypeOK

\* Reads, and the calls that only make a round-trip.
LEMMA ReadInv ==
  ASSUME SessionInv, NEW o \in Outcomes, Get(o) \/ OtherCall(o)
  PROVE  SessionInv'
<1>1. alive' \in BOOLEAN /\ faults' \in Nat
  <2>1. CASE Roundtrip(o)
    BY <2>1, RoundtripShape DEF SessionInv
  <2>2. CASE UNCHANGED linkVars
    BY <2>2 DEF SessionInv, TypeOK, linkVars
  <2>3. QED
    BY <2>1, <2>2 DEF Get, OtherCall
<1>2. /\ reply' \in [res : {"ok", "err", "gone"}, val : Nat]
      /\ UNCHANGED <<firmwareVars, workerVars, call, coVars, historyVars>>
      /\ coPc = "select"
      /\ call.op \in {"get", "other"}
  <2>1. CASE Get(o)
    <3>1. call.target \in Keys
      BY <2>1 DEF Get, Serves, SessionInv, CallShape
    <3>2. keycode[call.target] \in Nat
      BY <3>1 DEF SessionInv, TypeOK
    <3>3. call.target \in Buffered => buffer[call.target] \in Nat
      BY BufferedValue DEF SessionInv
    <3>4. QED
      BY <2>1, <3>2, <3>3 DEF Get, Serves, Reply, Outcomes
  <2>2. CASE OtherCall(o)
    BY <2>2 DEF OtherCall, Serves, Reply, Outcomes
  <2>3. QED
    BY <2>1, <2>2
<1>3. TypeOK'
  BY <1>1, <1>2 DEF SessionInv, TypeOK, firmwareVars, workerVars, coVars, historyVars
<1>4. CallShape' /\ CommitShape'
  BY <1>2 DEF SessionInv, CallShape, CommitShape, NoCall, Buffered, coVars
<1>5. QED
  BY <1>3, <1>4 DEF SessionInv

LEMMA SetBufferedInv ==
  ASSUME SessionInv, SetBuffered
  PROVE  SessionInv'
<1>1. call.val \in Nat /\ reply' = [res |-> "ok", val |-> 0] /\ coPc = "select" /\ coalesced
  BY CallFields DEF SessionInv, SetBuffered, Serves, Reply
<1>2. buffer' \in [Keys -> Nat \cup {NotBuffered}]
  BY <1>1 DEF SetBuffered, SessionInv, TypeOK
<1>3. TypeOK'
  BY <1>1, <1>2 DEF SetBuffered, SessionInv, TypeOK, firmwareVars, linkVars, workerVars
<1>4. CallShape' /\ CommitShape'
  BY <1>1 DEF SetBuffered, Serves, SessionInv, CallShape, CommitShape, NoCall
<1>5. QED
  BY <1>3, <1>4 DEF SessionInv

LEMMA SetDirectInv ==
  ASSUME SessionInv, NEW o \in Outcomes, NEW landed \in BOOLEAN, SetDirect(o, landed)
  PROVE  SessionInv'
<1>1. /\ call.val \in Nat
      /\ reply' \in [res : {"ok", "err", "gone"}, val : Nat]
      /\ alive' \in BOOLEAN /\ faults' \in Nat
  BY CallFields, RoundtripShape DEF SessionInv, SetDirect, Reply, Checked, Outcomes
<1>2. keycode' \in [Keys -> Nat]
  BY <1>1 DEF SetDirect, SessionInv, TypeOK
<1>3. unseen' \in BOOLEAN /\ commitFailed' \in BOOLEAN
  BY DEF SetDirect
<1>4. TypeOK'
  BY <1>1, <1>2, <1>3 DEF SetDirect, SessionInv, TypeOK, workerVars, coVars
<1>5. CallShape' /\ CommitShape'
  BY DEF SetDirect, Serves, SessionInv, CallShape, CommitShape, NoCall, Buffered, coVars
<1>6. QED
  BY <1>4, <1>5 DEF SessionInv

LEMMA SetLightInv ==
  ASSUME SessionInv, NEW o \in Outcomes, NEW landed \in BOOLEAN, SetLight(o, landed)
  PROVE  SessionInv'
<1>1. /\ call.val \in Nat
      /\ reply' \in [res : {"ok", "err", "gone"}, val : Nat]
      /\ alive' \in BOOLEAN /\ faults' \in Nat
  BY CallFields, RoundtripShape DEF SessionInv, SetLight, Reply, Outcomes
<1>2. call.target \in Channels
  BY DEF SetLight, Serves, SessionInv, CallShape
<1>3. lighting' \in [Channels -> Nat] /\ lightOk' \in [Channels -> SUBSET Nat]
  BY <1>1 DEF SetLight, SessionInv, TypeOK
<1>4. touched' \subseteq Channels
  BY <1>2 DEF SetLight, Touching, SessionInv, TypeOK
<1>5. TypeOK'
  BY <1>1, <1>3, <1>4 DEF SetLight, SessionInv, TypeOK, workerVars
<1>6. CallShape' /\ CommitShape'
  BY DEF SetLight, Serves, SessionInv, CallShape, CommitShape, NoCall, Buffered
<1>7. QED
  BY <1>5, <1>6 DEF SessionInv

\* A commit, a flush or a close begins.
LEMMA BeginInv ==
  ASSUME SessionInv, Commit \/ AutoFlush \/ DriverDropped
  PROVE  SessionInv'
<1>1. TypeOK'
  BY DEF Commit, AutoFlush, DriverDropped, Dropped, FinalFlush, SessionInv, TypeOK, firmwareVars, linkVars,
         workerVars, historyVars
<1>2. CallShape' /\ CommitShape'
  BY DEF Commit, AutoFlush, DriverDropped, FinalFlush, Serves, SessionInv, CallShape, CommitShape, Buffered
<1>3. QED
  BY <1>1, <1>2 DEF SessionInv

\* One entry of a flush.
LEMMA FlushEntryInv ==
  ASSUME SessionInv, NEW k \in Keys, NEW o \in Outcomes, NEW landed \in BOOLEAN,
         FlushEntry(k, o, landed)
  PROVE  SessionInv'
<1>1. alive' \in BOOLEAN /\ faults' \in Nat
  BY RoundtripShape DEF SessionInv, FlushEntry
<1>2. k \in Buffered /\ buffer[k] \in Nat
  BY BufferedValue DEF SessionInv, FlushEntry
<1>3. keycode' \in [Keys -> Nat] /\ buffer' \in [Keys -> Nat \cup {NotBuffered}]
  BY <1>2 DEF SessionInv, TypeOK, FlushEntry, Drained
<1>4. coalesced /\ coPc = "flushing"
  BY DEF SessionInv, CommitShape, FlushEntry
<1>5. CASE o = "ok"
  <2>1. UNCHANGED <<deadline, coPc, reply, commitFailed, why>>
    BY <1>5 DEF FlushEntry
  <2>2. TypeOK'
    BY <1>1, <1>3, <2>1 DEF FlushEntry, SessionInv, TypeOK, workerVars
  <2>3. CallShape' /\ CommitShape'
    BY <1>4, <2>1 DEF FlushEntry, SessionInv, CallShape, CommitShape
  <2>4. QED
    BY <2>2, <2>3 DEF SessionInv
<1>6. CASE o # "ok"
  <2>1. /\ deadline' \in BOOLEAN
        /\ coPc' = AfterFailure
        /\ IF why = "commit" THEN Reply(o, 0) ELSE UNCHANGED reply
        /\ commitFailed' \in BOOLEAN
    BY <1>6 DEF FlushEntry, Rearmed, SessionInv, TypeOK
  <2>2. reply' \in [res : {"ok", "err", "gone"}, val : Nat] \cup {NoReply}
    BY <2>1 DEF Reply, Outcomes, SessionInv, TypeOK
  <2>3. TypeOK'
    BY <1>1, <1>3, <2>1, <2>2 DEF FlushEntry, AfterFailure, SessionInv, TypeOK, workerVars
  <2>4. CallShape'
    BY <1>4, <2>1 DEF FlushEntry, SessionInv, CallShape, CommitShape, NoCall
  <2>5. CommitShape'
    BY <1>4, <2>1 DEF FlushEntry, AfterFailure, SessionInv, CommitShape
  <2>6. QED
    BY <2>3, <2>4, <2>5 DEF SessionInv
<1>7. QED
  BY <1>5, <1>6

\* The flush is complete.
LEMMA FlushDoneInv ==
  ASSUME SessionInv, FlushDone
  PROVE  SessionInv'
<1>1. TypeOK'
  <2>1. unseen' \in BOOLEAN /\ deadline' \in BOOLEAN
    BY DEF FlushDone
  <2>2. QED
    BY <2>1 DEF FlushDone, SessionInv, TypeOK, firmwareVars, linkVars, workerVars
<1>2. CallShape' /\ CommitShape'
  BY DEF FlushDone, SessionInv, CallShape, CommitShape, Buffered
<1>3. QED
  BY <1>1, <1>2 DEF SessionInv

\* One channel of a save, and its end.
LEMMA SaveChannelInv ==
  ASSUME SessionInv, NEW c \in Channels, NEW o \in Outcomes, NEW landed \in BOOLEAN,
         SaveChannel(c, o, landed)
  PROVE  SessionInv'
<1>1. alive' \in BOOLEAN /\ faults' \in Nat
  BY RoundtripShape DEF SessionInv, SaveChannel
<1>2. savedLight' \in [Channels -> Nat]
  BY DEF SessionInv, TypeOK, SaveChannel
<1>3. CASE o = "ok"
  <2>1. UNCHANGED <<deadline, coPc, reply, commitFailed, why>> /\ touched' \subseteq Channels
    BY <1>3 DEF SaveChannel, SessionInv, TypeOK
  <2>2. TypeOK'
    BY <1>1, <1>2, <2>1 DEF SaveChannel, SessionInv, TypeOK, workerVars
  <2>3. CallShape' /\ CommitShape'
    BY <2>1 DEF SaveChannel, SessionInv, CallShape, CommitShape, Buffered
  <2>4. QED
    BY <2>2, <2>3 DEF SessionInv
<1>4. CASE o # "ok"
  <2>1. /\ deadline' = FALSE
        /\ coPc' \in {"select", "exited"}
        /\ IF why = "commit" THEN Reply(o, 0) ELSE UNCHANGED reply
        /\ commitFailed' \in BOOLEAN
        /\ UNCHANGED touched
        /\ coPc = "saving"
    BY <1>4 DEF SaveChannel
  <2>2. reply' \in [res : {"ok", "err", "gone"}, val : Nat] \cup {NoReply}
    BY <2>1 DEF Reply, Outcomes, SessionInv, TypeOK
  <2>3. TypeOK'
    BY <1>1, <1>2, <2>1, <2>2 DEF SaveChannel, SessionInv, TypeOK, workerVars
  <2>4. CallShape' /\ CommitShape'
    BY <2>1 DEF SaveChannel, SessionInv, CallShape, CommitShape, NoCall, Buffered
  <2>5. QED
    BY <2>3, <2>4 DEF SessionInv
<1>5. QED
  BY <1>3, <1>4

LEMMA SaveDoneInv ==
  ASSUME SessionInv, SaveDone
  PROVE  SessionInv'
<1>1. /\ deadline' = FALSE
      /\ coPc' \in {"select", "exited"}
      /\ coPc = "saving"
      /\ IF why = "commit" THEN Reply("ok", 0) /\ commitFailed' = FALSE
                           ELSE UNCHANGED <<reply, commitFailed>>
  BY DEF SaveDone
<1>2. reply' \in [res : {"ok", "err", "gone"}, val : Nat] \cup {NoReply}
  <2>1. reply' \in {reply, [res |-> "ok", val |-> 0]}
    BY <1>1 DEF Reply
  <2>2. QED
    BY <2>1 DEF SessionInv, TypeOK
<1>3. TypeOK'
  <2>1. commitFailed' \in BOOLEAN
    BY DEF SaveDone, SessionInv, TypeOK
  <2>2. QED
    BY <1>1, <1>2, <2>1 DEF SaveDone, SessionInv, TypeOK, firmwareVars, linkVars, workerVars
<1>4. CallShape' /\ CommitShape'
  BY <1>1 DEF SaveDone, SessionInv, CallShape, CommitShape, NoCall, Buffered
<1>5. QED
  BY <1>3, <1>4 DEF SessionInv

LEMMA StutterInv ==
  ASSUME SessionInv, UNCHANGED vars
  PROVE  SessionInv'
<1>1. TypeOK'
  BY DEF SessionInv, TypeOK, vars, firmwareVars, linkVars, workerVars, coVars, historyVars
<1>2. CallShape' /\ CommitShape'
  BY DEF SessionInv, CallShape, CommitShape, Buffered, vars, coVars
<1>3. QED
  BY <1>1, <1>2 DEF SessionInv

LEMMA NextInv == SessionInv /\ [Next]_vars => SessionInv'
<1> SUFFICES ASSUME SessionInv, [Next]_vars PROVE SessionInv'
  OBVIOUS
<1>1. CASE Unplug \/ CloseHandles
  BY <1>1, EnvironmentInv
<1>2. CASE \E r \in Requests : WorkerRecv(r)
  BY <1>2, RecvInv
<1>3. CASE WorkerStep
  BY <1>3, WorkerInv
<1>4. CASE ServeStep
  BY <1>4, ReadInv, SetBufferedInv, SetDirectInv, SetLightInv, BeginInv DEF ServeStep
<1>5. CASE AutoFlush \/ DriverDropped
  BY <1>5, BeginInv
<1>6. CASE FlushStep
  BY <1>6, FlushEntryInv, FlushDoneInv, SaveChannelInv, SaveDoneInv DEF FlushStep
<1>7. CASE UNCHANGED vars
  BY <1>7, StutterInv
<1>8. QED
  BY <1>1, <1>2, <1>3, <1>4, <1>5, <1>6, <1>7 DEF Next

\* The inductive invariant of a session: its variables are well typed, calls have the
\* targets they need, and a commit at work has a waiting caller (run_device_worker and
\* run_coalescer with its oneshot replies).
THEOREM SessionCorrect == Spec => []SessionInv
<1>1. QED
  BY InitInv, NextInv, PTL DEF Spec

\* Type correctness of a session for any keys, channels, modes and bounds.
THEOREM TypeCorrect == Spec => []TypeOK
<1>1. SessionInv => TypeOK
  BY DEF SessionInv
<1>2. QED
  BY <1>1, SessionCorrect, PTL

-----------------------------------------------------------------------------
(* The session implements DurableKeymap. *)

\* The keymap a reader sees changes only with the buffer and the firmware.
LEMMA SameKeymap ==
  ASSUME UNCHANGED <<keycode, buffer>>
  PROVE  Keymap' = Keymap
  BY DEF Keymap, Buffered

\* With nothing buffered the firmware holds what is read.
LEMMA NothingBuffered ==
  ASSUME TypeOK, Buffered = {}
  PROVE  Keymap = keycode
  BY DEF Keymap, TypeOK

LEMMA InitPromise == Init => Promise!Init
<1> SUFFICES ASSUME Init PROVE Promise!Init
  OBVIOUS
<1>1. Buffered = {}
  BY DEF Init, Buffered
<1>2. Keymap = [k \in Keys |-> 0] /\ keycode = Keymap
  BY <1>1 DEF Init, Keymap
<1>3. QED
  BY <1>2 DEF Init, Promise!Init, NoCall, NoReply, Promise!NoCall, Promise!NoReply

\* Steps that touch neither keys nor calls are stuttering steps.
LEMMA Stutters ==
  ASSUME UNCHANGED <<keycode, buffer, call, reply>>
  PROVE  UNCHANGED Promise!vars
  BY SameKeymap DEF Promise!vars

\* A call is issued while none is in progress.
LEMMA RequestPromise ==
  ASSUME SessionInv, worker = "loop", call' # NoCall, reply' = NoReply,
         UNCHANGED <<keycode, buffer>>
  PROVE  Promise!Request
<1>1. call = NoCall
  BY DEF SessionInv, TypeOK
<1>2. QED
  BY <1>1, SameKeymap DEF Promise!Request, NoCall, NoReply, Promise!NoCall, Promise!NoReply

LEMMA RecvPromise ==
  ASSUME SessionInv, \/ \E r \in Requests : WorkerRecv(r)
                     \/ WorkerStep
  PROVE  Promise!Next \/ UNCHANGED Promise!vars
<1>1. CASE \E r \in Requests : WorkerRecv(r)
  <2>1. worker = "loop" /\ reply' = NoReply /\ UNCHANGED <<keycode, buffer>>
    BY <1>1 DEF WorkerRecv, Issue, firmwareVars, coVars
  <2>2. call' # NoCall
    BY <1>1 DEF WorkerRecv, Issue, Requests, NoCall
  <2>3. QED
    BY <2>1, <2>2, RequestPromise DEF Promise!Next
<1>2. CASE WorkerDebounce \/ (WorkerClosed /\ armed)
  <2>1. worker = "loop" /\ reply' = NoReply /\ UNCHANGED <<keycode, buffer>>
    BY <1>2 DEF WorkerDebounce, WorkerClosed, Issue, firmwareVars, coVars
  <2>2. call' # NoCall
    BY <1>2 DEF WorkerDebounce, WorkerClosed, Issue, NoCall
  <2>3. QED
    BY <2>1, <2>2, RequestPromise DEF Promise!Next
<1>3. CASE WorkerClosed /\ ~armed
  <2>1. UNCHANGED <<keycode, buffer, call, reply>>
    BY <1>3 DEF WorkerClosed, firmwareVars, coVars
  <2>2. QED
    BY <2>1, Stutters
<1>4. CASE WorkerReply
  <2>1. /\ reply # NoReply /\ call' = NoCall /\ reply' = NoReply
        /\ UNCHANGED <<keycode, buffer>>
    BY <1>4 DEF WorkerReply, firmwareVars, coVars
  <2>2. Promise!Receive
    BY <2>1, SameKeymap DEF Promise!Receive, NoCall, NoReply, Promise!NoCall, Promise!NoReply
  <2>3. QED
    BY <2>2 DEF Promise!Next
<1>5. QED
  BY <1>1, <1>2, <1>3, <1>4 DEF WorkerStep

\* A call that is being served is answered.
LEMMA RepliesPromise ==
  ASSUME call.op \in Ops, reply = NoReply, NEW r \in {"ok", "err", "gone"}, NEW v,
         reply' = [res |-> r, val |-> v], UNCHANGED call
  PROVE  Promise!Replies
  BY DEF Ops, NoReply, Promise!Replies, Promise!NoCall, Promise!NoReply

\* A read returns the keymap's value.
LEMMA GetPromise ==
  ASSUME SessionInv, NEW o \in Outcomes, Get(o)
  PROVE  Promise!Get
<1>1. call.op = "get" /\ reply = NoReply /\ call.target \in Keys
  BY DEF Get, Serves, SessionInv, CallShape
<1>2. UNCHANGED <<keycode, buffer, call>>
  BY DEF Get, firmwareVars, coVars
<1>3. reply' \in {[res |-> "err", val |-> 0], [res |-> "gone", val |-> 0],
                   [res |-> "ok", val |-> Keymap[call.target]]}
  <2>1. CASE call.target \in Buffered
    <3>1. Keymap[call.target] = buffer[call.target]
      BY <1>1, <2>1 DEF Keymap
    <3>2. QED
      BY <2>1, <3>1 DEF Get, Reply
  <2>2. CASE call.target \notin Buffered
    <3>1. Keymap[call.target] = keycode[call.target]
      BY <1>1, <2>2 DEF Keymap
    <3>2. QED
      BY <2>2, <3>1 DEF Get, Reply, Outcomes
  <2>3. QED
    BY <2>1, <2>2
<1>4. Promise!Replies
  BY <1>1, <1>2, <1>3, RepliesPromise DEF Ops
<1>5. QED
  BY <1>1, <1>2, <1>3, <1>4, SameKeymap DEF Promise!Get, Promise!Failures, Promise!Acknowledged

\* A buffered write is readable at once.
LEMMA SetBufferedPromise ==
  ASSUME SessionInv, SetBuffered
  PROVE  Promise!Set
<1>1. call.op = "set" /\ reply = NoReply /\ call.target \in Keys /\ call.val \in Nat
  BY CallFields DEF SetBuffered, Serves, SessionInv, CallShape
<1>2. /\ UNCHANGED <<keycode, call>>
      /\ reply' = [res |-> "ok", val |-> 0]
      /\ buffer' = [buffer EXCEPT ![call.target] = call.val]
  BY DEF SetBuffered, Reply, firmwareVars
<1>3. buffer \in [Keys -> Nat \cup {NotBuffered}]
  BY DEF SessionInv, TypeOK
<1>4. Buffered' = Buffered \cup {call.target}
  BY <1>1, <1>2, <1>3 DEF Buffered, NotBuffered
<1>5. Keymap' = [Keymap EXCEPT ![call.target] = call.val]
  BY <1>1, <1>2, <1>3, <1>4 DEF Keymap
<1>6. Promise!Replies
  BY <1>1, <1>2, RepliesPromise DEF Ops
<1>7. QED
  BY <1>1, <1>2, <1>5, <1>6 DEF Promise!Set, Promise!Acknowledged

\* A direct write is stored and readable together, whatever its outcome.
LEMMA SetDirectPromise ==
  ASSUME SessionInv, NEW o \in Outcomes, NEW landed \in BOOLEAN, SetDirect(o, landed)
  PROVE  Promise!Set
<1>1. call.op = "set" /\ reply = NoReply /\ call.target \in Keys
  BY DEF SetDirect, Serves, SessionInv, CallShape
<1>2. /\ UNCHANGED <<buffer, call>>
      /\ reply' = [res |-> o, val |-> 0]
      /\ keycode' = IF landed THEN [keycode EXCEPT ![call.target] = call.val] ELSE keycode
      /\ o = "ok" => landed
  BY DEF SetDirect, Reply, Checked, Lands, coVars
<1>3. Buffered = {} /\ Buffered' = {}
  BY <1>2 DEF SetDirect, SessionInv, CommitShape, Buffered
<1>4. Keymap = keycode /\ Keymap' = keycode'
  <2>1. TypeOK /\ TypeOK'
    BY SetDirectInv DEF SessionInv
  <2>2. QED
    BY <1>3, <2>1 DEF Keymap, TypeOK
<1>5. Promise!Replies
  BY <1>1, <1>2, RepliesPromise DEF Ops, Outcomes
<1>6. QED
  BY <1>1, <1>2, <1>4, <1>5
     DEF Promise!Set, Promise!Acknowledged, Promise!Failures, Outcomes

\* Calls that touch no key.
LEMMA OtherPromise ==
  ASSUME SessionInv, NEW o \in Outcomes, NEW landed \in BOOLEAN,
         OtherCall(o) \/ SetLight(o, landed)
  PROVE  Promise!Other
<1>1. /\ call.op \in {"other", "light"} /\ reply = NoReply
      /\ reply' = [res |-> o, val |-> 0]
      /\ UNCHANGED <<keycode, buffer, call>>
  BY DEF OtherCall, SetLight, Serves, Reply, firmwareVars, coVars
<1>2. Promise!Replies
  BY <1>1, RepliesPromise DEF Ops, Outcomes
<1>3. QED
  BY <1>1, <1>2, SameKeymap DEF Promise!Other

\* The keyboard catches up on one key, or the commit that tried to fails, or both.
LEMMA FlushEntryPromise ==
  ASSUME SessionInv, NEW k \in Keys, NEW o \in Outcomes, NEW landed \in BOOLEAN,
         FlushEntry(k, o, landed)
  PROVE  Promise!Next \/ UNCHANGED Promise!vars
<1>1. /\ k \in Buffered /\ buffer[k] \in Nat
      /\ Keymap[k] = buffer[k]
      /\ keycode' = IF landed THEN [keycode EXCEPT ![k] = buffer[k]] ELSE keycode
      /\ buffer' = IF o = "ok" THEN [buffer EXCEPT ![k] = NotBuffered] ELSE buffer
      /\ o = "ok" => landed
      /\ UNCHANGED call
  BY BufferedValue DEF FlushEntry, Drained, Lands, Keymap, SessionInv
<1>2. /\ buffer \in [Keys -> Nat \cup {NotBuffered}]
      /\ keycode \in [Keys -> Nat]
  BY DEF SessionInv, TypeOK
<1>3. Keymap' = Keymap
  <2>1. CASE o = "ok"
    <3>1. Buffered' = Buffered \ {k}
      BY <1>1, <1>2, <2>1 DEF Buffered, NotBuffered
    <3>2. \A j \in Keys : (IF j \in Buffered' THEN buffer'[j] ELSE keycode'[j])
                          = (IF j \in Buffered THEN buffer[j] ELSE keycode[j])
      BY <1>1, <1>2, <2>1, <3>1
    <3>3. QED
      BY <3>2 DEF Keymap
  <2>2. CASE o # "ok"
    <3>1. Buffered' = Buffered
      BY <1>1, <2>2 DEF Buffered
    <3>2. \A j \in Keys : (IF j \in Buffered' THEN buffer'[j] ELSE keycode'[j])
                          = (IF j \in Buffered THEN buffer[j] ELSE keycode[j])
      BY <1>1, <1>2, <2>2, <3>1
    <3>3. QED
      BY <3>2 DEF Keymap
  <2>3. QED
    BY <2>1, <2>2
<1>4. Promise!CatchUp \/ UNCHANGED keycode
  <2>1. CASE landed
    BY <1>1, <2>1 DEF Promise!CatchUp
  <2>2. CASE ~landed
    BY <1>1, <2>2
  <2>3. QED
    BY <2>1, <2>2
<1>5. CASE UNCHANGED reply
  BY <1>1, <1>3, <1>4, <1>5 DEF Promise!Next, Promise!Store, Promise!vars
<1>6. CASE ~UNCHANGED reply
  <2>1. o # "ok" /\ why = "commit" /\ reply' = [res |-> o, val |-> 0]
    BY <1>6 DEF FlushEntry, Reply
  <2>2. call.op = "commit" /\ reply = NoReply
    BY <2>1 DEF FlushEntry, SessionInv, CommitShape
  <2>3. Promise!Replies
    BY <1>1, <2>1, <2>2, RepliesPromise DEF Ops, Outcomes
  <2>4. Promise!Commit
    BY <1>3, <1>4, <2>1, <2>2, <2>3 DEF Promise!Commit, Promise!Failures, Outcomes
  <2>5. QED
    BY <2>4 DEF Promise!Next
<1>7. QED
  BY <1>5, <1>6

\* A save touches no key: it is a stutter, or the end of a failed commit.
LEMMA SaveChannelPromise ==
  ASSUME SessionInv, NEW c \in Channels, NEW o \in Outcomes, NEW landed \in BOOLEAN,
         SaveChannel(c, o, landed)
  PROVE  Promise!Next \/ UNCHANGED Promise!vars
<1>1. UNCHANGED <<keycode, buffer, call>>
  BY DEF SaveChannel
<1>2. CASE UNCHANGED reply
  BY <1>1, <1>2, Stutters
<1>3. CASE ~UNCHANGED reply
  <2>1. o # "ok" /\ why = "commit" /\ reply' = [res |-> o, val |-> 0]
    BY <1>3 DEF SaveChannel, Reply
  <2>2. call.op = "commit" /\ reply = NoReply
    BY <2>1 DEF SaveChannel, SessionInv, CommitShape
  <2>3. Promise!Replies
    BY <1>1, <2>1, <2>2, RepliesPromise DEF Ops, Outcomes
  <2>4. Promise!Commit
    BY <1>1, <2>1, <2>2, <2>3, SameKeymap DEF Promise!Commit, Promise!Failures, Outcomes
  <2>5. QED
    BY <2>4 DEF Promise!Next
<1>4. QED
  BY <1>2, <1>3

\* A commit is acknowledged with nothing buffered.
LEMMA SaveDonePromise ==
  ASSUME SessionInv, SaveDone
  PROVE  Promise!Next \/ UNCHANGED Promise!vars
<1>1. UNCHANGED <<keycode, buffer, call>>
  BY DEF SaveDone, firmwareVars
<1>2. CASE why # "commit"
  BY <1>1, <1>2, Stutters DEF SaveDone
<1>3. CASE why = "commit"
  <2>1. /\ call.op = "commit" /\ reply = NoReply /\ Buffered = {}
        /\ reply' = [res |-> "ok", val |-> 0]
    BY <1>3 DEF SaveDone, Reply, SessionInv, CommitShape
  <2>2. keycode = Keymap
    BY <2>1, NothingBuffered DEF SessionInv
  <2>3. Promise!Replies
    BY <1>1, <2>1, RepliesPromise DEF Ops
  <2>4. Promise!Commit
    BY <1>1, <2>1, <2>2, <2>3, SameKeymap DEF Promise!Commit, Promise!Acknowledged
  <2>5. QED
    BY <2>4 DEF Promise!Next
<1>4. QED
  BY <1>2, <1>3

LEMMA NextPromise == SessionInv /\ [Next]_vars => [Promise!Next]_(Promise!vars)
<1> SUFFICES ASSUME SessionInv, [Next]_vars
             PROVE  Promise!Next \/ UNCHANGED Promise!vars
  OBVIOUS
<1>1. CASE Unplug \/ CloseHandles \/ Commit \/ AutoFlush \/ DriverDropped \/ FlushDone
           \/ UNCHANGED vars
  <2>1. UNCHANGED <<keycode, buffer, call, reply>>
    BY <1>1 DEF Unplug, CloseHandles, Commit, AutoFlush, DriverDropped, FlushDone, vars,
                firmwareVars, coVars
  <2>2. QED
    BY <2>1, Stutters
<1>2. CASE WorkerStep \/ \E r \in Requests : WorkerRecv(r)
  BY <1>2, RecvPromise
<1>3. CASE ServeStep
  BY <1>1, <1>3, GetPromise, SetBufferedPromise, SetDirectPromise, OtherPromise
     DEF ServeStep, Promise!Next
<1>4. CASE FlushStep
  BY <1>1, <1>4, FlushEntryPromise, SaveChannelPromise, SaveDonePromise DEF FlushStep
<1>5. QED
  BY <1>1, <1>2, <1>3, <1>4 DEF Next

\* A session implements the durable keymap: reads return the last acknowledged write and
\* a commit is acknowledged only when the firmware holds every write, in both modes and
\* through every failure of a flush (run_coalescer, flush_buffer, ViaDriver).
THEOREM SessionKeepsPromise == Spec => KeepsPromise
<1>1. Init => Promise!Init
  BY InitPromise
<1>2. SessionInv /\ [Next]_vars => [Promise!Next]_(Promise!vars)
  BY NextPromise
<1>3. QED
  BY <1>1, <1>2, SessionCorrect, PTL DEF Spec, KeepsPromise, Promise!Spec

-----------------------------------------------------------------------------
(* Deadlines: what StrandedOnlyByFailedCommit needs to be inductive. *)

\* Only commits and closes save, so a failed save never belongs to an auto-flush.
DeadlineInv ==
  /\ SessionInv
  /\ coPc = "saving" => why # "auto"
  /\ StrandedOnlyByFailedCommit

LEMMA InitDeadline == Init => DeadlineInv
<1>1. Init => Buffered = {}
  BY DEF Init, Buffered
<1>2. QED
  BY <1>1, InitInv DEF Init, DeadlineInv, StrandedOnlyByFailedCommit

\* Steps that leave the coalescer and the history of commits alone.
LEMMA IdleDeadline ==
  ASSUME DeadlineInv, UNCHANGED <<buffer, deadline, coPc, why, commitFailed>>
  PROVE  /\ coPc' = "saving" => why' # "auto"
         /\ StrandedOnlyByFailedCommit'
  BY DEF DeadlineInv, StrandedOnlyByFailedCommit, Buffered

LEMMA NextDeadline == DeadlineInv /\ [Next]_vars => DeadlineInv'
<1> SUFFICES ASSUME DeadlineInv, [Next]_vars
             PROVE  /\ coPc' = "saving" => why' # "auto"
                    /\ StrandedOnlyByFailedCommit'
  BY NextInv DEF DeadlineInv
<1>1. CASE \/ Unplug \/ CloseHandles \/ WorkerStep \/ UNCHANGED vars
           \/ \E r \in Requests : WorkerRecv(r)
  <2>1. UNCHANGED <<buffer, deadline, coPc, why, commitFailed>>
    BY <1>1 DEF Unplug, CloseHandles, WorkerStep, WorkerDebounce, WorkerClosed, WorkerReply,
                WorkerRecv, vars, coVars, historyVars
  <2>2. QED
    BY <2>1, IdleDeadline
<1>2. CASE \/ \E o \in Outcomes : Get(o) \/ OtherCall(o)
           \/ \E o \in Outcomes, landed \in BOOLEAN : SetLight(o, landed)
  <2>1. UNCHANGED <<buffer, deadline, coPc, why, commitFailed>>
    BY <1>2 DEF Get, OtherCall, SetLight, coVars, historyVars
  <2>2. QED
    BY <2>1, IdleDeadline
<1>3. CASE \E o \in Outcomes, landed \in BOOLEAN : SetDirect(o, landed)
  <2>1. Buffered' = {} /\ UNCHANGED <<coPc, why>>
    BY <1>3 DEF SetDirect, coVars, DeadlineInv, SessionInv, CommitShape, Buffered
  <2>2. QED
    BY <2>1 DEF DeadlineInv, StrandedOnlyByFailedCommit
<1>4. CASE SetBuffered
  BY <1>4 DEF SetBuffered, DeadlineInv, StrandedOnlyByFailedCommit
<1>5. CASE Commit \/ AutoFlush \/ DriverDropped
  BY <1>5 DEF Commit, AutoFlush, DriverDropped, FinalFlush, StrandedOnlyByFailedCommit
<1>6. CASE \E k \in Keys, o \in Outcomes, landed \in BOOLEAN : FlushEntry(k, o, landed)
  BY <1>6 DEF FlushEntry, Rearmed, AfterFailure, DeadlineInv, SessionInv, TypeOK,
              StrandedOnlyByFailedCommit
<1>7. CASE FlushDone
  <2>1. Buffered' = {}
    BY <1>7 DEF FlushDone, Buffered
  <2>2. QED
    BY <1>7, <2>1 DEF FlushDone, StrandedOnlyByFailedCommit
<1>8. CASE \E c \in Channels, o \in Outcomes, landed \in BOOLEAN : SaveChannel(c, o, landed)
  BY <1>8 DEF SaveChannel, DeadlineInv, SessionInv, TypeOK, StrandedOnlyByFailedCommit
<1>9. CASE SaveDone
  <2>1. why = "commit" => Buffered' = {}
    BY <1>9 DEF SaveDone, DeadlineInv, SessionInv, CommitShape, Buffered
  <2>2. QED
    BY <1>9, <2>1 DEF SaveDone, DeadlineInv, SessionInv, TypeOK, StrandedOnlyByFailedCommit
<1>10. QED
  BY <1>1, <1>2, <1>3, <1>4, <1>5, <1>6, <1>7, <1>8, <1>9 DEF Next, ServeStep, FlushStep

\* Buffered writes wait without a flush deadline only after a failed commit (the deadline
\* bookkeeping of every arm of run_coalescer).
THEOREM OnlyCommitsStrand == Spec => []StrandedOnlyByFailedCommit
<1>1. DeadlineInv => StrandedOnlyByFailedCommit
  BY DEF DeadlineInv
<1>2. QED
  BY <1>1, InitDeadline, NextDeadline, PTL DEF Spec

-----------------------------------------------------------------------------
(* Lighting: what a commit must have saved. *)

\* The firmware shows an admissible value of each channel, and has saved one of each
\* channel that is not touched.
LightInv ==
  /\ SessionInv
  /\ \A c \in Channels :
       /\ lighting[c] \in lightOk[c]
       /\ c \notin touched => savedLight[c] \in lightOk[c]

LEMMA InitLight == Init => LightInv
  BY InitInv DEF Init, LightInv

LEMMA NextLight == LightInv /\ [Next]_vars => LightInv'
<1> SUFFICES ASSUME LightInv, [Next]_vars, NEW c \in Channels
             PROVE  /\ lighting'[c] \in lightOk'[c]
                    /\ c \notin touched' => savedLight'[c] \in lightOk'[c]
  BY NextInv DEF LightInv
<1> USE DEF LightInv
<1>1. CASE UNCHANGED <<lighting, savedLight, touched, lightOk>>
  BY <1>1
<1>2. ASSUME NEW o \in Outcomes, NEW landed \in BOOLEAN, SetLight(o, landed)
      PROVE  /\ lighting'[c] \in lightOk'[c]
             /\ c \notin touched' => savedLight'[c] \in lightOk'[c]
  <2>1. /\ lighting \in [Channels -> Nat] /\ lightOk \in [Channels -> SUBSET Nat]
    BY DEF SessionInv, TypeOK
  <2>2. /\ lighting' = IF landed THEN [lighting EXCEPT ![call.target] = call.val] ELSE lighting
        /\ lightOk' = [lightOk EXCEPT ![call.target] =
                         IF o = "ok" THEN {call.val} ELSE @ \cup {call.val}]
        /\ touched' = IF o = "ok" THEN touched \cup {call.target} ELSE touched
        /\ savedLight' = savedLight
        /\ o = "ok" => landed
    BY <1>2 DEF SetLight, Touching, Lands
  <2>3. CASE c = call.target
    BY <2>1, <2>2, <2>3
  <2>4. CASE c # call.target
    BY <2>1, <2>2, <2>4
  <2>5. QED
    BY <2>3, <2>4
<1>3. ASSUME NEW d \in Channels, NEW o \in Outcomes, NEW landed \in BOOLEAN,
             SaveChannel(d, o, landed)
      PROVE  /\ lighting'[c] \in lightOk'[c]
             /\ c \notin touched' => savedLight'[c] \in lightOk'[c]
  <2>1. savedLight \in [Channels -> Nat]
    BY DEF SessionInv, TypeOK
  <2>2. /\ d \in touched
        /\ savedLight' = IF landed THEN [savedLight EXCEPT ![d] = lighting[d]] ELSE savedLight
        /\ touched' = IF o = "ok" THEN touched \ {d} ELSE touched
        /\ UNCHANGED <<lighting, lightOk>>
        /\ o = "ok" => landed
    BY <1>3 DEF SaveChannel, Lands
  <2>3. QED
    BY <2>1, <2>2
<1>4. CASE WorkerStep \/ \E r \in Requests : WorkerRecv(r)
  BY <1>1, <1>4 DEF WorkerStep, WorkerDebounce, WorkerClosed, WorkerReply, WorkerRecv,
                    firmwareVars, coVars, historyVars
<1>5. CASE ServeStep
  BY <1>1, <1>2, <1>5 DEF ServeStep, Get, OtherCall, SetDirect, SetBuffered, Commit,
                          firmwareVars, coVars, historyVars
<1>6. CASE FlushStep
  BY <1>1, <1>3, <1>6 DEF FlushStep, FlushEntry, FlushDone, SaveDone, firmwareVars, coVars
<1>7. CASE Unplug \/ CloseHandles \/ AutoFlush \/ DriverDropped \/ UNCHANGED vars
  BY <1>1, <1>7 DEF Unplug, CloseHandles, AutoFlush, DriverDropped, vars, firmwareVars, coVars,
                    historyVars
<1>8. QED
  BY <1>4, <1>5, <1>6, <1>7 DEF Next

\* Only SaveDone acknowledges a commit, with no channel left to save.
LEMMA AcknowledgedCommit ==
  ASSUME SessionInv, [Next]_vars, call.op = "commit", reply = NoReply,
         reply' = [res |-> "ok", val |-> 0]
  PROVE  touched = {}
<1>1. reply' # reply
  BY DEF NoReply
<1>2. ASSUME NEW o \in Outcomes, o # "ok", reply' = [res |-> o, val |-> 0]
      PROVE  FALSE
  BY <1>2
<1>3. CASE FlushStep
  <2>1. ASSUME NEW k \in Keys, NEW o \in Outcomes, NEW landed \in BOOLEAN, FlushEntry(k, o, landed)
        PROVE  FALSE
    BY <1>1, <1>2, <2>1 DEF FlushEntry, Reply
  <2>2. ASSUME NEW c \in Channels, NEW o \in Outcomes, NEW landed \in BOOLEAN, SaveChannel(c, o, landed)
        PROVE  FALSE
    BY <1>1, <1>2, <2>2 DEF SaveChannel, Reply
  <2>3. ~FlushDone
    BY <1>1 DEF FlushDone
  <2>4. QED
    BY <1>3, <2>1, <2>2, <2>3 DEF FlushStep, SaveDone
<1>4. ~ServeStep
  BY <1>1 DEF ServeStep, Get, OtherCall, SetDirect, SetLight, SetBuffered, Commit, Serves
<1>5. ~(WorkerStep \/ \E r \in Requests : WorkerRecv(r))
  BY <1>1 DEF WorkerStep, WorkerDebounce, WorkerClosed, WorkerReply, WorkerRecv, Issue
<1>6. ~(Unplug \/ CloseHandles \/ AutoFlush \/ DriverDropped \/ UNCHANGED vars)
  BY <1>1 DEF Unplug, CloseHandles, AutoFlush, DriverDropped, vars
<1>7. QED
  BY <1>3, <1>4, <1>5, <1>6 DEF Next

\* An acknowledged commit has saved every channel's last acknowledged lighting, or that of
\* a later set that failed after reaching the firmware (save_touched_channels).
THEOREM CommitSavesAll == Spec => CommitSavesLighting
<1>1. LightInv /\ [Next]_vars
        => [(call.op = "commit" /\ reply = NoReply /\ reply' = [res |-> "ok", val |-> 0])
              => \A c \in Channels : savedLight[c] \in lightOk[c]]_vars
  BY AcknowledgedCommit DEF LightInv
<1>2. QED
  BY <1>1, InitLight, NextLight, PTL DEF Spec, CommitSavesLighting

-----------------------------------------------------------------------------
(* A clean end. *)

\* As long as every round-trip went well, the final save begins with an empty buffer, and
\* the session ends with nothing left to save.
DrainShape ==
  (alive /\ faults = 0) =>
    /\ coPc = "saving" /\ why = "final" => Buffered = {}
    /\ coPc = "exited" => Buffered = {} /\ (coalesced => touched = {})

\* A round-trip that goes wrong is counted, or the keyboard is gone; neither is undone.
LEMMA WrongIsCounted ==
  ASSUME TypeOK, NEW o \in Outcomes, Roundtrip(o), alive', faults' = 0
  PROVE  alive /\ faults = 0 /\ o = "ok"
<1>1. alive /\ faults \in Nat /\ faults' = IF o = "err" THEN faults + 1 ELSE faults
  BY DEF TypeOK, Roundtrip
<1>2. o # "err" /\ faults = 0
  BY <1>1
<1>3. QED
  BY <1>1, <1>2 DEF Roundtrip, Outcomes

LEMMA NextDrain == SessionInv /\ DrainShape /\ [Next]_vars => DrainShape'
<1> SUFFICES ASSUME SessionInv, DrainShape, [Next]_vars, alive', faults' = 0
             PROVE  /\ coPc' = "saving" /\ why' = "final" => Buffered' = {}
                    /\ coPc' = "exited" => Buffered' = {} /\ (coalesced' => touched' = {})
  BY DEF DrainShape
<1>1. CASE WorkerStep \/ (\E r \in Requests : WorkerRecv(r)) \/ UNCHANGED vars
  <2>1. UNCHANGED <<linkVars, coVars>>
    BY <1>1 DEF WorkerStep, WorkerDebounce, WorkerClosed, WorkerReply, WorkerRecv, vars
  <2>2. QED
    BY <2>1 DEF DrainShape, Buffered, linkVars, coVars
<1>2. CASE Unplug \/ CloseHandles
  <2>1. ~Unplug /\ UNCHANGED <<linkVars, coVars>>
    BY <1>2 DEF Unplug, CloseHandles
  <2>2. QED
    BY <2>1 DEF DrainShape, Buffered, linkVars, coVars
<1>3. CASE ServeStep
  <2>1. coPc = "select"
    BY <1>3 DEF ServeStep, Get, OtherCall, SetDirect, SetLight, SetBuffered, Commit, Serves
  <2>2. coPc' = "select" \/ (coPc' \in {"flushing", "saving"} /\ why' = "commit")
    BY <1>3, <2>1 DEF ServeStep, Get, OtherCall, SetDirect, SetLight, SetBuffered, Commit, coVars
  <2>3. QED
    BY <2>2
<1>4. CASE AutoFlush
  BY <1>4 DEF AutoFlush
<1>5. CASE DriverDropped
  <2>1. UNCHANGED <<coalesced, buffer, touched>> /\ coPc' = IF coalesced THEN FinalFlush ELSE "exited"
    BY <1>5 DEF DriverDropped
  <2>2. CASE coalesced
    BY <2>1, <2>2 DEF FinalFlush, Buffered
  <2>3. CASE ~coalesced
    BY <2>1, <2>3 DEF SessionInv, CommitShape, Buffered
  <2>4. QED
    BY <2>2, <2>3
<1>6. ASSUME NEW k \in Keys, NEW o \in Outcomes, NEW landed \in BOOLEAN, FlushEntry(k, o, landed)
      PROVE  coPc' = "flushing"
  <2>1. o = "ok"
    BY <1>6, WrongIsCounted DEF FlushEntry, SessionInv
  <2>2. QED
    BY <1>6, <2>1 DEF FlushEntry
<1>7. CASE FlushDone
  BY <1>7 DEF FlushDone, Buffered
<1>8. ASSUME NEW c \in Channels, NEW o \in Outcomes, NEW landed \in BOOLEAN,
             SaveChannel(c, o, landed)
      PROVE  coPc' = "saving" /\ (why' = "final" => Buffered' = {})
  <2>1. o = "ok" /\ alive /\ faults = 0
    BY <1>8, WrongIsCounted DEF SaveChannel, SessionInv
  <2>2. coPc = "saving" /\ UNCHANGED <<coPc, why, buffer>>
    BY <1>8, <2>1 DEF SaveChannel
  <2>3. QED
    BY <2>1, <2>2 DEF DrainShape, Buffered
<1>9. CASE SaveDone
  <2>1. /\ coPc = "saving" /\ touched = {}
        /\ UNCHANGED <<alive, faults, coalesced, buffer, touched, why>>
        /\ coPc' = IF why = "final" THEN "exited" ELSE "select"
    BY <1>9 DEF SaveDone, linkVars
  <2>2. QED
    BY <2>1 DEF DrainShape, Buffered
<1>10. QED
  BY <1>1, <1>2, <1>3, <1>4, <1>5, <1>6, <1>7, <1>8, <1>9 DEF Next, FlushStep

\* A session without a failed round-trip leaves no buffered write and no unsaved lighting
\* of a coalescer behind, however it ends (the close path of run_coalescer).
THEOREM CleanExitDrainsHolds == Spec => []CleanExitDrains
<1>1. Init => DrainShape
  BY DEF Init, DrainShape
<1>2. DrainShape => CleanExitDrains
  BY DEF DrainShape, CleanExitDrains
<1>3. QED
  BY <1>1, <1>2, SessionCorrect, NextDrain, PTL DEF Spec
=============================================================================
