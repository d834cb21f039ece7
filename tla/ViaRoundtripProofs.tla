-------------------------- MODULE ViaRoundtripProofs --------------------------
(***************************************************************************)
(* Proofs about ViaRoundtrip: types and the order of its queues, that a    *)
(* read returns a value its own target has had, and how many timeouts it   *)
(* takes before a read can return less than an acknowledged write.         *)
(*                                                                         *)
(* The count rests on Window: behind a frame that is still queued there    *)
(* are at most as many requests as there were timeouts.  An echo that      *)
(* acknowledges request a by mistake, e, must be that old too, and the     *)
(* read that returns an older value comes after e and before a.            *)
(***************************************************************************)
EXTENDS ViaRoundtrip, TLAPS

Requests ==
       [op : {"get"}, target : Targets, val : {NoValue}, id : Nat]
  \cup [op : {"set"}, target : Targets, val : Values, id : Nat]
Responses == [op : {"get", "set"}, target : Targets, val : Values, id : Nat]

\* Requests whose round-trip is in progress: one or none.
InProgress == IF pending = NoRequest THEN 0 ELSE 1

Shapes ==
  /\ mem \in [Targets -> Values]
  /\ outbound \in Seq(Requests) /\ inbound \in Seq(Responses)
  /\ pending \in Requests \cup {NoRequest}
  /\ sent \in 0 .. MaxRequests
  /\ timeouts \in 0 .. MaxTimeouts
  /\ accepted.frame \in Responses \cup {NoRequest}
  /\ acked \in [Targets -> [val : Values, id : Nat]]
  /\ held \in [Targets -> SUBSET Values]

\* Ids are handed out in order, and both queues keep that order.
InOrder ==
  /\ \A i, j \in DOMAIN inbound : i < j => inbound[i].id < inbound[j].id
  /\ \A i, j \in DOMAIN outbound : i < j => outbound[i].id < outbound[j].id
  /\ \A i \in DOMAIN inbound, j \in DOMAIN outbound : inbound[i].id < outbound[j].id
  /\ \A i \in DOMAIN inbound : inbound[i].id <= sent
  /\ \A i \in DOMAIN outbound : outbound[i].id <= sent
  /\ \A t \in Targets : acked[t].id <= sent
  /\ pending # NoRequest => pending.id = sent

\* The requests made since a queued frame's, with the frames before it, are no more
\* than the timeouts there were: every round-trip that ended otherwise took a frame.
Window ==
  /\ Len(outbound) + Len(inbound) <= timeouts + InProgress
  /\ \A i \in DOMAIN inbound : sent - inbound[i].id + i <= timeouts + InProgress
  /\ \A i \in DOMAIN outbound :
       sent - outbound[i].id + Len(inbound) + i <= timeouts + InProgress

\* A response to a get carries a value its target has had.
ReadsHeld ==
  \A i \in DOMAIN inbound :
    inbound[i].op = "get" => inbound[i].val \in held[inbound[i].target]

\* A get made right after a set of the same target, whose response is queued, returns
\* what was set, or will: then it is the next one the firmware handles.  Until a request
\* is made after the set, its value is the one stored.
GetAfterSet ==
  \A i \in DOMAIN inbound : inbound[i].op = "set" =>
    /\ inbound[i].id = sent => mem[inbound[i].target] = inbound[i].val
    /\ \A j \in DOMAIN inbound :
         (inbound[j].op = "get" /\ inbound[j].target = inbound[i].target
            /\ inbound[j].id = inbound[i].id + 1) => inbound[j].val = inbound[i].val
    /\ \A j \in DOMAIN outbound :
         (outbound[j].op = "get" /\ outbound[j].target = inbound[i].target
            /\ outbound[j].id = inbound[i].id + 1) => mem[inbound[i].target] = inbound[i].val

\* Before the third timeout, a get of a key older than its acknowledged set returns that
\* set's value, or will.
KeysAcked ==
  timeouts < 3 => \A t \in Keys :
    /\ \A j \in DOMAIN inbound :
         (inbound[j].op = "get" /\ inbound[j].target = t /\ inbound[j].id < acked[t].id)
           => inbound[j].val = acked[t].val
    /\ \A j \in DOMAIN outbound :
         (outbound[j].op = "get" /\ outbound[j].target = t /\ outbound[j].id < acked[t].id)
           => j = 1 /\ mem[t] = acked[t].val

\* Before the second timeout nothing older than a light's acknowledged set is queued.
LightsAcked ==
  timeouts < 2 => \A t \in Lights :
    /\ \A j \in DOMAIN inbound : inbound[j].id >= acked[t].id
    /\ \A j \in DOMAIN outbound : outbound[j].id >= acked[t].id

RoundtripInv ==
  Shapes /\ InOrder /\ Window /\ ReadsHeld /\ GetAfterSet /\ KeysAcked /\ LightsAcked

-----------------------------------------------------------------------------
(* Sequences. *)

LEMMA AppendShape ==
  ASSUME NEW S, NEW q \in Seq(S), NEW e \in S
  PROVE  /\ Append(q, e) \in Seq(S)
         /\ Len(Append(q, e)) = Len(q) + 1
         /\ \A i \in DOMAIN Append(q, e) :
              \/ i \in DOMAIN q /\ Append(q, e)[i] = q[i]
              \/ i = Len(q) + 1 /\ Append(q, e)[i] = e
  OBVIOUS

LEMMA TailShape ==
  ASSUME NEW S, NEW q \in Seq(S), q # <<>>
  PROVE  /\ Tail(q) \in Seq(S)
         /\ Len(Tail(q)) = Len(q) - 1
         /\ 1 \in DOMAIN q /\ Head(q) = q[1]
         /\ \A i \in DOMAIN Tail(q) : i + 1 \in DOMAIN q /\ Tail(q)[i] = q[i + 1]
  OBVIOUS

LEMMA ElementShape ==
  ASSUME NEW S, NEW q \in Seq(S)
  PROVE  /\ Len(q) \in Nat
         /\ \A i \in DOMAIN q : i \in 1 .. Len(q) /\ i \in Nat /\ q[i] \in S
  OBVIOUS

LEMMA RequestIsSome == NoRequest \notin Requests
  BY DEF NoRequest, Requests

LEMMA InProgressBits == InProgress \in {0, 1}
  BY DEF InProgress

-----------------------------------------------------------------------------
(* What each action does to the queues, element by element. *)

LEMMA WriteShape ==
  ASSUME Shapes, NEW r \in Gets \cup Sets, Write(r)
  PROVE  /\ InProgress = 0 /\ InProgress' = 1
         /\ pending' \in Requests /\ pending'.id = sent + 1
         /\ sent' = sent + 1 /\ sent' \in 0 .. MaxRequests
         /\ UNCHANGED <<mem, inbound, timeouts, accepted, acked, held>>
         /\ outbound' \in Seq(Requests)
         /\ Len(outbound') = Len(outbound) + 1
         /\ \A i \in DOMAIN outbound' :
              \/ i \in DOMAIN outbound /\ outbound'[i] = outbound[i]
              \/ i = Len(outbound) + 1 /\ outbound'[i] = pending'
<1>1. /\ sent \in Nat /\ sent < MaxRequests /\ MaxRequests \in Nat
      /\ outbound \in Seq(Requests)
      /\ pending = NoRequest /\ sent' = sent + 1
      /\ UNCHANGED <<mem, inbound, timeouts, accepted, acked, held>>
  BY ConstantsAssumption DEF Shapes, Write, Ready
<1>2. pending' = [op |-> r.op, target |-> r.target, val |-> r.val, id |-> sent + 1]
      /\ outbound' = Append(outbound, pending')
  BY DEF Write
<1>3. CASE r \in Gets
  <2>1. r.op = "get" /\ r.target \in Targets /\ r.val = NoValue
    BY <1>3 DEF Gets
  <2> QED  BY <2>1, <1>1, <1>2, RequestIsSome, AppendShape DEF Requests, InProgress
<1>4. CASE r \in Sets
  <2>1. r.op = "set" /\ r.target \in Targets /\ r.val \in Values
    BY <1>4 DEF Sets
  <2> QED  BY <2>1, <1>1, <1>2, RequestIsSome, AppendShape DEF Requests, InProgress
<1> QED  BY <1>3, <1>4

LEMMA ReadShape ==
  ASSUME Shapes, Read
  PROVE  /\ InProgress = 1 /\ InProgress' = 0
         /\ pending \in Requests /\ pending' = NoRequest
         /\ UNCHANGED <<mem, outbound, sent, timeouts, held>>
         /\ 1 \in DOMAIN inbound
         /\ inbound' \in Seq(Responses) /\ Len(inbound') = Len(inbound) - 1
         /\ \A i \in DOMAIN inbound' :
              i + 1 \in DOMAIN inbound /\ inbound'[i] = inbound[i + 1]
         /\ \/ /\ Echoes(inbound[1], pending)
               /\ accepted' = [frame |-> inbound[1], id |-> pending.id]
               /\ acked' = IF pending.op = "set"
                           THEN [acked EXCEPT ![pending.target] =
                                   [val |-> pending.val, id |-> pending.id]]
                           ELSE acked
            \/ UNCHANGED <<accepted, acked>>
<1>1. /\ inbound \in Seq(Responses) /\ inbound # <<>> /\ inbound' = Tail(inbound)
      /\ pending \in Requests /\ pending' = NoRequest
      /\ UNCHANGED <<mem, outbound, sent, timeouts, held>>
  BY DEF Shapes, Read
<1>2. /\ 1 \in DOMAIN inbound /\ Head(inbound) = inbound[1]
      /\ inbound' \in Seq(Responses) /\ Len(inbound') = Len(inbound) - 1
      /\ \A i \in DOMAIN inbound' :
           i + 1 \in DOMAIN inbound /\ inbound'[i] = inbound[i + 1]
  BY <1>1, TailShape
<1>3. InProgress = 1 /\ InProgress' = 0
  BY <1>1, RequestIsSome DEF InProgress
<1>4. \/ /\ Echoes(Head(inbound), pending)
         /\ accepted' = [frame |-> Head(inbound), id |-> pending.id]
         /\ acked' = IF pending.op = "set"
                     THEN [acked EXCEPT ![pending.target] =
                             [val |-> pending.val, id |-> pending.id]]
                     ELSE acked
      \/ UNCHANGED <<accepted, acked>>
  BY DEF Read
<1> QED  BY <1>1, <1>2, <1>3, <1>4

LEMMA TimeOutShape ==
  ASSUME Shapes, TimeOut
  PROVE  /\ InProgress = 1 /\ InProgress' = 0
         /\ pending' = NoRequest
         /\ timeouts' = timeouts + 1 /\ timeouts' \in 0 .. MaxTimeouts
         /\ UNCHANGED <<mem, outbound, inbound, sent, accepted, acked, held>>
  BY ConstantsAssumption DEF Shapes, TimeOut, InProgress

LEMMA FirmwareShape ==
  ASSUME Shapes, NEW answers \in BOOLEAN, Firmware(answers)
  PROVE  /\ InProgress' = InProgress
         /\ UNCHANGED <<pending, sent, timeouts, accepted, acked>>
         /\ 1 \in DOMAIN outbound /\ outbound[1] \in Requests
         /\ outbound' \in Seq(Requests) /\ Len(outbound') = Len(outbound) - 1
         /\ \A i \in DOMAIN outbound' :
              i + 1 \in DOMAIN outbound /\ outbound'[i] = outbound[i + 1]
         /\ mem' \in [Targets -> Values]
         /\ \A t \in Targets :
              mem'[t] = IF outbound[1].op = "set" /\ outbound[1].target = t
                        THEN outbound[1].val ELSE mem[t]
         /\ held' \in [Targets -> SUBSET Values]
         /\ \A t \in Targets : held[t] \subseteq held'[t]
         /\ mem'[outbound[1].target] \in held'[outbound[1].target]
         /\ inbound' \in Seq(Responses)
         /\ Len(inbound') \in {Len(inbound), Len(inbound) + 1}
         /\ \A i \in DOMAIN inbound' :
              \/ i \in DOMAIN inbound /\ inbound'[i] = inbound[i]
              \/ /\ i = Len(inbound) + 1 /\ Len(inbound') = Len(inbound) + 1
                 /\ inbound'[i].op = outbound[1].op
                 /\ inbound'[i].target = outbound[1].target
                 /\ inbound'[i].id = outbound[1].id
                 /\ inbound'[i].val = mem'[outbound[1].target]
<1> DEFINE r == outbound[1]
           a == [r EXCEPT !.val = mem'[r.target]]
<1>1. /\ outbound \in Seq(Requests) /\ inbound \in Seq(Responses)
      /\ outbound # <<>> /\ outbound' = Tail(outbound)
      /\ mem \in [Targets -> Values] /\ held \in [Targets -> SUBSET Values]
      /\ UNCHANGED <<pending, sent, timeouts, accepted, acked>>
  BY DEF Shapes, Firmware
<1>2. /\ 1 \in DOMAIN outbound /\ Head(outbound) = r
      /\ outbound' \in Seq(Requests) /\ Len(outbound') = Len(outbound) - 1
      /\ \A i \in DOMAIN outbound' :
           i + 1 \in DOMAIN outbound /\ outbound'[i] = outbound[i + 1]
  BY <1>1, TailShape
<1>3. r \in Requests
  BY <1>1, <1>2, ElementShape
<1>4. /\ mem' = IF r.op = "set" THEN [mem EXCEPT ![r.target] = r.val] ELSE mem
      /\ held' = [held EXCEPT ![r.target] = @ \cup {mem'[r.target]}]
      /\ inbound' = IF answers THEN Append(inbound, a) ELSE inbound
  BY <1>2 DEF Firmware
<1>5. /\ r.target \in Targets /\ r.id \in Nat /\ r.op \in {"get", "set"}
      /\ r.op = "set" => r.val \in Values
      /\ r = [op |-> r.op, target |-> r.target, val |-> r.val, id |-> r.id]
  BY <1>3 DEF Requests
<1> HIDE DEF r
<1>6. /\ mem' \in [Targets -> Values]
      /\ \A t \in Targets : mem'[t] = IF r.op = "set" /\ r.target = t THEN r.val ELSE mem[t]
  BY <1>1, <1>4, <1>5
<1>7. mem'[r.target] \in Values
  BY <1>5, <1>6
<1>8. /\ held' \in [Targets -> SUBSET Values]
      /\ \A t \in Targets : held[t] \subseteq held'[t]
      /\ mem'[r.target] \in held'[r.target]
  BY <1>1, <1>4, <1>5, <1>7
<1>9. a = [op |-> r.op, target |-> r.target, val |-> mem'[r.target], id |-> r.id]
  BY <1>5
<1>10. a \in Responses
  BY <1>5, <1>7, <1>9 DEF Responses
<1>11. /\ a.op = r.op /\ a.target = r.target /\ a.id = r.id /\ a.val = mem'[r.target]
  BY <1>9
<1> HIDE DEF a
<1>12. /\ inbound' \in Seq(Responses)
       /\ Len(inbound') \in {Len(inbound), Len(inbound) + 1}
       /\ \A i \in DOMAIN inbound' :
            \/ i \in DOMAIN inbound /\ inbound'[i] = inbound[i]
            \/ /\ i = Len(inbound) + 1 /\ Len(inbound') = Len(inbound) + 1
               /\ inbound'[i] = a
  <2>1. CASE answers
    BY <2>1, <1>1, <1>4, <1>10, AppendShape
  <2>2. CASE ~answers
    BY <2>2, <1>1, <1>4
  <2> QED  BY <2>1, <2>2
<1>13. InProgress' = InProgress
  BY <1>1 DEF InProgress
<1> QED  BY <1>1, <1>2, <1>3, <1>6, <1>8, <1>11, <1>12, <1>13 DEF r

LEMMA QueueShapes ==
  ASSUME Shapes
  PROVE  /\ Len(inbound) \in Nat /\ Len(outbound) \in Nat
         /\ \A i \in DOMAIN inbound : i \in 1 .. Len(inbound) /\ inbound[i] \in Responses
         /\ \A i \in DOMAIN outbound : i \in 1 .. Len(outbound) /\ outbound[i] \in Requests
         /\ sent \in Nat /\ timeouts \in Nat
         /\ \A t \in Targets : acked[t] \in [val : Values, id : Nat]
<1>1. /\ inbound \in Seq(Responses) /\ outbound \in Seq(Requests)
      /\ acked \in [Targets -> [val : Values, id : Nat]]
      /\ sent \in Nat /\ timeouts \in Nat
  BY ConstantsAssumption DEF Shapes
<1> QED  BY <1>1, ElementShape

\* The ids are numbers, in the queues and in the acknowledgements.
LEMMA Ids ==
  ASSUME Shapes
  PROVE  /\ \A i \in DOMAIN inbound : inbound[i].id \in Nat /\ inbound[i].target \in Targets
         /\ \A i \in DOMAIN outbound : outbound[i].id \in Nat /\ outbound[i].target \in Targets
         /\ \A t \in Targets : acked[t].id \in Nat
<1>1. \A e \in Responses : e.id \in Nat /\ e.target \in Targets
  BY DEF Responses
<1>2. \A e \in Requests : e.id \in Nat /\ e.target \in Targets
  BY DEF Requests
<1>3. \A e \in [val : Values, id : Nat] : e.id \in Nat
  OBVIOUS
<1> QED  BY <1>1, <1>2, <1>3, QueueShapes

-----------------------------------------------------------------------------
(* The inductive step. *)

LEMMA WriteInv ==
  ASSUME RoundtripInv, NEW r \in Gets \cup Sets, Write(r)
  PROVE  RoundtripInv'
<1>1. Shapes /\ InOrder /\ Window /\ ReadsHeld /\ GetAfterSet /\ KeysAcked /\ LightsAcked
  BY DEF RoundtripInv
<1>2. /\ InProgress = 0 /\ InProgress' = 1
      /\ pending' \in Requests /\ pending'.id = sent + 1
      /\ sent' = sent + 1 /\ sent' \in 0 .. MaxRequests
      /\ UNCHANGED <<mem, inbound, timeouts, accepted, acked, held>>
      /\ outbound' \in Seq(Requests)
      /\ Len(outbound') = Len(outbound) + 1
  BY <1>1, WriteShape
<1>3. \A i \in DOMAIN outbound' :
        \/ i \in DOMAIN outbound /\ outbound'[i] = outbound[i]
        \/ i = Len(outbound) + 1 /\ outbound'[i] = pending'
  BY <1>1, WriteShape
<1>4. /\ Len(inbound) \in Nat /\ Len(outbound) \in Nat
      /\ \A i \in DOMAIN inbound : i \in 1 .. Len(inbound)
      /\ \A i \in DOMAIN outbound : i \in 1 .. Len(outbound)
      /\ sent \in Nat /\ timeouts \in Nat
  BY <1>1, QueueShapes
<1>5. /\ \A i \in DOMAIN inbound : inbound[i].id \in Nat /\ inbound[i].target \in Targets
      /\ \A i \in DOMAIN outbound : outbound[i].id \in Nat /\ outbound[i].target \in Targets
      /\ \A t \in Targets : acked[t].id \in Nat
  BY <1>1, Ids
<1>6. Shapes'
  BY <1>1, <1>2 DEF Shapes
<1>7. InOrder'
  <2>1. \A i, j \in DOMAIN inbound' : i < j => inbound'[i].id < inbound'[j].id
    BY <1>1, <1>2 DEF InOrder
  <2>2. \A i, j \in DOMAIN outbound' : i < j => outbound'[i].id < outbound'[j].id
    <3> SUFFICES ASSUME NEW i \in DOMAIN outbound', NEW j \in DOMAIN outbound', i < j
                 PROVE  outbound'[i].id < outbound'[j].id
      OBVIOUS
    <3>1. CASE j \in DOMAIN outbound /\ outbound'[j] = outbound[j]
      <4>1. i \in DOMAIN outbound /\ outbound'[i] = outbound[i]
        BY <3>1, <1>3, <1>4
      <4> QED  BY <4>1, <3>1, <1>1 DEF InOrder
    <3>2. CASE j = Len(outbound) + 1 /\ outbound'[j] = pending'
      <4>1. i \in DOMAIN outbound /\ outbound'[i] = outbound[i]
        BY <3>2, <1>3, <1>4
      <4>2. outbound[i].id <= sent
        BY <4>1, <1>1 DEF InOrder
      <4> QED  BY <4>1, <4>2, <3>2, <1>2, <1>4, <1>5
    <3> QED  BY <3>1, <3>2, <1>3
  <2>3. \A i \in DOMAIN inbound', j \in DOMAIN outbound' : inbound'[i].id < outbound'[j].id
    <3> SUFFICES ASSUME NEW i \in DOMAIN inbound, NEW j \in DOMAIN outbound'
                 PROVE  inbound[i].id < outbound'[j].id
      BY <1>2
    <3>1. CASE j \in DOMAIN outbound /\ outbound'[j] = outbound[j]
      BY <3>1, <1>1 DEF InOrder
    <3>2. CASE outbound'[j] = pending'
      <4>1. inbound[i].id <= sent
        BY <1>1 DEF InOrder
      <4> QED  BY <4>1, <3>2, <1>2, <1>4, <1>5
    <3> QED  BY <3>1, <3>2, <1>3
  <2>4. \A i \in DOMAIN inbound' : inbound'[i].id <= sent'
    BY <1>1, <1>2, <1>4, <1>5 DEF InOrder
  <2>5. \A i \in DOMAIN outbound' : outbound'[i].id <= sent'
    <3> SUFFICES ASSUME NEW i \in DOMAIN outbound'
                 PROVE  outbound'[i].id <= sent'
      OBVIOUS
    <3>1. CASE i \in DOMAIN outbound /\ outbound'[i] = outbound[i]
      BY <3>1, <1>1, <1>2, <1>4, <1>5 DEF InOrder
    <3>2. CASE outbound'[i] = pending'
      BY <3>2, <1>2, <1>4
    <3> QED  BY <3>1, <3>2, <1>3
  <2>6. \A t \in Targets : acked'[t].id <= sent'
    BY <1>1, <1>2, <1>4, <1>5 DEF InOrder
  <2>7. pending' # NoRequest => pending'.id = sent'
    BY <1>2
  <2> QED  BY <2>1, <2>2, <2>3, <2>4, <2>5, <2>6, <2>7 DEF InOrder
<1>8. Window'
  <2>1. Len(outbound') + Len(inbound') <= timeouts' + InProgress'
    BY <1>1, <1>2, <1>4 DEF Window
  <2>2. \A i \in DOMAIN inbound' :
          sent' - inbound'[i].id + i <= timeouts' + InProgress'
    BY <1>1, <1>2, <1>4, <1>5 DEF Window
  <2>3. ASSUME NEW i \in DOMAIN outbound'
        PROVE  sent' - outbound'[i].id + Len(inbound') + i <= timeouts' + InProgress'
    <3>1. CASE i \in DOMAIN outbound /\ outbound'[i] = outbound[i]
      <4> DEFINE d == outbound[i].id
                 l == Len(inbound)
      <4>1. sent - d + l + i <= timeouts
        BY <3>1, <1>1, <1>2, <1>4 DEF Window
      <4>2. d \in Nat /\ l \in Nat /\ i \in Nat /\ sent \in Nat /\ timeouts \in Nat
        BY <3>1, <1>4, <1>5
      <4>3. outbound'[i].id = d /\ Len(inbound') = l
        BY <3>1, <1>2
      <4> HIDE DEF d, l
      <4>4. (sent + 1) - d + l + i <= timeouts + 1
        BY <4>1, <4>2
      <4> QED  BY <4>3, <4>4, <1>2
    <3>2. CASE i = Len(outbound) + 1 /\ outbound'[i] = pending'
      <4>1. Len(outbound) + Len(inbound) <= timeouts + InProgress
        BY <1>1 DEF Window
      <4> QED  BY <4>1, <3>2, <1>2, <1>4
    <3> QED  BY <3>1, <3>2, <1>3
  <2> QED  BY <2>1, <2>2, <2>3 DEF Window
<1>9. ReadsHeld'
  BY <1>1, <1>2 DEF ReadsHeld
<1>10. GetAfterSet'
  <2> SUFFICES ASSUME NEW i \in DOMAIN inbound, inbound[i].op = "set"
               PROVE  /\ inbound[i].id = sent' => mem[inbound[i].target] = inbound[i].val
                      /\ \A j \in DOMAIN inbound :
                           (inbound[j].op = "get" /\ inbound[j].target = inbound[i].target
                              /\ inbound[j].id = inbound[i].id + 1) => inbound[j].val = inbound[i].val
                      /\ \A j \in DOMAIN outbound' :
                           (outbound'[j].op = "get" /\ outbound'[j].target = inbound[i].target
                              /\ outbound'[j].id = inbound[i].id + 1)
                             => mem[inbound[i].target] = inbound[i].val
    BY <1>2 DEF GetAfterSet
  <2>1. inbound[i].id <= sent
    BY <1>1 DEF InOrder
  <2>2. inbound[i].id # sent'
    BY <2>1, <1>2, <1>4, <1>5
  <2>3. inbound[i].id = sent => mem[inbound[i].target] = inbound[i].val
    BY <1>1 DEF GetAfterSet
  <2>4. ASSUME NEW j \in DOMAIN outbound', outbound'[j].op = "get",
               outbound'[j].target = inbound[i].target, outbound'[j].id = inbound[i].id + 1
        PROVE  mem[inbound[i].target] = inbound[i].val
    <3>1. CASE j \in DOMAIN outbound /\ outbound'[j] = outbound[j]
      BY <3>1, <2>4, <1>1 DEF GetAfterSet
    <3>2. CASE outbound'[j] = pending'
      BY <3>2, <2>3, <2>4, <1>2, <1>4, <1>5
    <3> QED  BY <3>1, <3>2, <1>3
  <2> QED  BY <2>2, <2>4, <1>1 DEF GetAfterSet
<1>11. KeysAcked'
  <2> SUFFICES ASSUME timeouts < 3, NEW t \in Keys
               PROVE  /\ \A j \in DOMAIN inbound :
                           (inbound[j].op = "get" /\ inbound[j].target = t
                              /\ inbound[j].id < acked[t].id) => inbound[j].val = acked[t].val
                      /\ \A j \in DOMAIN outbound' :
                           (outbound'[j].op = "get" /\ outbound'[j].target = t
                              /\ outbound'[j].id < acked[t].id) => j = 1 /\ mem[t] = acked[t].val
    BY <1>2 DEF KeysAcked
  <2>1. ASSUME NEW j \in DOMAIN outbound', outbound'[j].op = "get", outbound'[j].target = t,
               outbound'[j].id < acked[t].id
        PROVE  j = 1 /\ mem[t] = acked[t].val
    <3>1. CASE j \in DOMAIN outbound /\ outbound'[j] = outbound[j]
      BY <3>1, <2>1, <1>1 DEF KeysAcked
    <3>2. CASE outbound'[j] = pending'
      <4>1. t \in Targets /\ acked[t].id <= sent
        BY <1>1 DEF InOrder, Targets
      <4> QED  BY <4>1, <3>2, <2>1, <1>2, <1>4, <1>5
    <3> QED  BY <3>1, <3>2, <1>3
  <2> QED  BY <2>1, <1>1 DEF KeysAcked
<1>12. LightsAcked'
  <2> SUFFICES ASSUME timeouts < 2, NEW t \in Lights
               PROVE  /\ \A j \in DOMAIN inbound : inbound[j].id >= acked[t].id
                      /\ \A j \in DOMAIN outbound' : outbound'[j].id >= acked[t].id
    BY <1>2 DEF LightsAcked
  <2>1. ASSUME NEW j \in DOMAIN outbound'
        PROVE  outbound'[j].id >= acked[t].id
    <3>1. CASE j \in DOMAIN outbound /\ outbound'[j] = outbound[j]
      BY <3>1, <1>1 DEF LightsAcked
    <3>2. CASE outbound'[j] = pending'
      <4>1. t \in Targets /\ acked[t].id <= sent
        BY <1>1 DEF InOrder, Targets
      <4> QED  BY <4>1, <3>2, <1>2, <1>4, <1>5
    <3> QED  BY <3>1, <3>2, <1>3
  <2> QED  BY <2>1, <1>1 DEF LightsAcked
<1> QED  BY <1>6, <1>7, <1>8, <1>9, <1>10, <1>11, <1>12 DEF RoundtripInv

LEMMA TimeOutInv ==
  ASSUME RoundtripInv, TimeOut
  PROVE  RoundtripInv'
<1>1. Shapes /\ InOrder /\ Window /\ ReadsHeld /\ GetAfterSet /\ KeysAcked /\ LightsAcked
  BY DEF RoundtripInv
<1>2. /\ InProgress = 1 /\ InProgress' = 0
      /\ pending' = NoRequest
      /\ timeouts' = timeouts + 1 /\ timeouts' \in 0 .. MaxTimeouts
      /\ UNCHANGED <<mem, outbound, inbound, sent, accepted, acked, held>>
  BY <1>1, TimeOutShape
<1>3. timeouts \in Nat
  BY <1>1, QueueShapes
<1>4. Shapes'
  BY <1>1, <1>2 DEF Shapes
<1>5. InOrder'
  BY <1>1, <1>2 DEF InOrder
<1>6. timeouts' + InProgress' = timeouts + InProgress
  BY <1>2, <1>3
<1>7. Window'
  BY <1>1, <1>2, <1>6 DEF Window
<1>8. ReadsHeld' /\ GetAfterSet'
  BY <1>1, <1>2 DEF ReadsHeld, GetAfterSet
<1>9. (timeouts' < 3 => timeouts < 3) /\ (timeouts' < 2 => timeouts < 2)
  BY <1>2, <1>3
<1>10. KeysAcked' /\ LightsAcked'
  BY <1>1, <1>2, <1>9 DEF KeysAcked, LightsAcked
<1> QED  BY <1>4, <1>5, <1>7, <1>8, <1>10 DEF RoundtripInv

LEMMA FirmwareInv ==
  ASSUME RoundtripInv, NEW answers \in BOOLEAN, Firmware(answers)
  PROVE  RoundtripInv'
<1> DEFINE r == outbound[1]
<1>1. Shapes /\ InOrder /\ Window /\ ReadsHeld /\ GetAfterSet /\ KeysAcked /\ LightsAcked
  BY DEF RoundtripInv
<1>2. /\ InProgress' = InProgress
      /\ UNCHANGED <<pending, sent, timeouts, accepted, acked>>
      /\ 1 \in DOMAIN outbound /\ r \in Requests
      /\ outbound' \in Seq(Requests) /\ Len(outbound') = Len(outbound) - 1
  BY <1>1, FirmwareShape
<1>3. /\ mem' \in [Targets -> Values]
      /\ \A t \in Targets : mem'[t] = IF r.op = "set" /\ r.target = t THEN r.val ELSE mem[t]
      /\ held' \in [Targets -> SUBSET Values]
      /\ \A t \in Targets : held[t] \subseteq held'[t]
      /\ mem'[r.target] \in held'[r.target]
  BY <1>1, FirmwareShape
<1>4. \A i \in DOMAIN outbound' : i + 1 \in DOMAIN outbound /\ outbound'[i] = outbound[i + 1]
  BY <1>1, FirmwareShape
<1>5. \A i \in DOMAIN inbound' :
        \/ i \in DOMAIN inbound /\ inbound'[i] = inbound[i]
        \/ /\ i = Len(inbound) + 1 /\ Len(inbound') = Len(inbound) + 1
           /\ inbound'[i].op = r.op
           /\ inbound'[i].target = r.target
           /\ inbound'[i].id = r.id
           /\ inbound'[i].val = mem'[r.target]
  BY <1>1, FirmwareShape
<1>6. inbound' \in Seq(Responses) /\ Len(inbound') \in {Len(inbound), Len(inbound) + 1}
  BY <1>1, FirmwareShape
<1>7. /\ Len(inbound) \in Nat /\ Len(outbound) \in Nat
      /\ \A i \in DOMAIN inbound : i \in 1 .. Len(inbound)
      /\ \A i \in DOMAIN outbound : i \in 1 .. Len(outbound)
      /\ sent \in Nat /\ timeouts \in Nat
  BY <1>1, QueueShapes
<1>8. /\ \A i \in DOMAIN inbound : inbound[i].id \in Nat /\ inbound[i].target \in Targets
      /\ \A i \in DOMAIN outbound : outbound[i].id \in Nat /\ outbound[i].target \in Targets
      /\ \A t \in Targets : acked[t].id \in Nat
  BY <1>1, Ids
<1>9. Shapes'
  BY <1>1, <1>2, <1>3, <1>6 DEF Shapes
<1>10. Len(outbound') \in Nat /\ Len(inbound') \in Nat
  BY <1>2, <1>6, ElementShape
<1>11. /\ \A i \in DOMAIN outbound' : i \in 1 .. Len(outbound') /\ i \in Nat
       /\ \A i \in DOMAIN inbound' : i \in 1 .. Len(inbound') /\ i \in Nat
  BY <1>2, <1>6, ElementShape
<1> HIDE DEF r
\* The request handled comes after every response and before every other request.
<1>12. /\ r.id \in Nat /\ r.target \in Targets /\ r.id <= sent
       /\ \A i \in DOMAIN inbound : inbound[i].id < r.id
       /\ \A i \in DOMAIN outbound' : r.id < outbound'[i].id
  <2>1. r.id \in Nat /\ r.target \in Targets /\ r.id <= sent
    BY <1>1, <1>2, <1>8 DEF r, InOrder
  <2>2. \A i \in DOMAIN inbound : inbound[i].id < r.id
    BY <1>1, <1>2 DEF r, InOrder
  <2>3. ASSUME NEW i \in DOMAIN outbound'
        PROVE  r.id < outbound'[i].id
    <3>1. i + 1 \in DOMAIN outbound /\ 1 < i + 1 /\ outbound'[i] = outbound[i + 1]
      BY <1>4, <1>11, <1>10
    <3> QED  BY <3>1, <1>1, <1>2 DEF r, InOrder
  <2> QED  BY <2>1, <2>2, <2>3
<1>13. InOrder'
  <2>1. ASSUME NEW i \in DOMAIN inbound', NEW j \in DOMAIN inbound', i < j
        PROVE  inbound'[i].id < inbound'[j].id
    <3>1. CASE j \in DOMAIN inbound /\ inbound'[j] = inbound[j]
      <4>1. i \in DOMAIN inbound /\ inbound'[i] = inbound[i]
        BY <3>1, <2>1, <1>5, <1>7, <1>11
      <4> QED  BY <4>1, <3>1, <2>1, <1>1 DEF InOrder
    <3>2. CASE j = Len(inbound) + 1 /\ inbound'[j].id = r.id
      <4>1. i \in DOMAIN inbound /\ inbound'[i] = inbound[i]
        BY <3>2, <2>1, <1>5, <1>7, <1>11
      <4> QED  BY <4>1, <3>2, <1>12
    <3> QED  BY <3>1, <3>2, <1>5
  <2>2. ASSUME NEW i \in DOMAIN outbound', NEW j \in DOMAIN outbound', i < j
        PROVE  outbound'[i].id < outbound'[j].id
    <3>1. /\ i + 1 \in DOMAIN outbound /\ outbound'[i] = outbound[i + 1]
          /\ j + 1 \in DOMAIN outbound /\ outbound'[j] = outbound[j + 1]
      BY <1>4
    <3>2. i + 1 < j + 1
      BY <2>2, <1>11
    <3> QED  BY <3>1, <3>2, <1>1 DEF InOrder
  <2>3. ASSUME NEW i \in DOMAIN inbound', NEW j \in DOMAIN outbound'
        PROVE  inbound'[i].id < outbound'[j].id
    <3>1. j + 1 \in DOMAIN outbound /\ outbound'[j] = outbound[j + 1]
      BY <1>4
    <3>2. CASE i \in DOMAIN inbound /\ inbound'[i] = inbound[i]
      BY <3>1, <3>2, <1>1 DEF InOrder
    <3>3. CASE inbound'[i].id = r.id
      BY <3>3, <1>12
    <3> QED  BY <3>2, <3>3, <1>5
  <2>4. ASSUME NEW i \in DOMAIN inbound'
        PROVE  inbound'[i].id <= sent'
    <3>1. CASE i \in DOMAIN inbound /\ inbound'[i] = inbound[i]
      BY <3>1, <1>1, <1>2 DEF InOrder
    <3>2. CASE inbound'[i].id = r.id
      BY <3>2, <1>2, <1>12
    <3> QED  BY <3>1, <3>2, <1>5
  <2>5. \A i \in DOMAIN outbound' : outbound'[i].id <= sent'
    BY <1>1, <1>2, <1>4 DEF InOrder
  <2>6. /\ \A t \in Targets : acked'[t].id <= sent'
        /\ pending' # NoRequest => pending'.id = sent'
    BY <1>1, <1>2 DEF InOrder
  <2> QED  BY <2>1, <2>2, <2>3, <2>4, <2>5, <2>6 DEF InOrder
<1>14. Window'
  <2> DEFINE w == timeouts + InProgress
  <2>1. w \in Nat /\ w = timeouts' + InProgress'
    BY <1>2, <1>7, InProgressBits
  <2>2. /\ Len(outbound) + Len(inbound) <= w
        /\ \A i \in DOMAIN inbound : sent - inbound[i].id + i <= w
        /\ \A i \in DOMAIN outbound : sent - outbound[i].id + Len(inbound) + i <= w
    BY <1>1 DEF Window
  <2> HIDE DEF w
  <2>3. Len(outbound') + Len(inbound') <= w
    BY <2>1, <2>2, <1>2, <1>6, <1>7
  <2>4. ASSUME NEW i \in DOMAIN inbound'
        PROVE  sent' - inbound'[i].id + i <= w
    <3>1. CASE i \in DOMAIN inbound /\ inbound'[i] = inbound[i]
      BY <3>1, <2>2, <1>2
    <3>2. CASE i = Len(inbound) + 1 /\ inbound'[i].id = r.id
      <4>1. sent - r.id + Len(inbound) + 1 <= w
        BY <2>2, <1>2 DEF r
      <4>2. sent - r.id + (Len(inbound) + 1) <= w
        BY <4>1, <2>1, <1>7, <1>12
      <4> QED  BY <4>2, <3>2, <1>2
    <3> QED  BY <3>1, <3>2, <1>5
  <2>5. ASSUME NEW i \in DOMAIN outbound'
        PROVE  sent' - outbound'[i].id + Len(inbound') + i <= w
    <3> DEFINE d == outbound[i + 1].id
               l == Len(inbound)
               m == Len(inbound')
    <3>1. i + 1 \in DOMAIN outbound /\ outbound'[i].id = d /\ d \in Nat
      BY <1>4, <1>8
    <3>2. sent - d + l + (i + 1) <= w
      BY <3>1, <2>2
    <3>3. i \in Nat /\ l \in Nat /\ m \in Nat /\ m <= l + 1 /\ sent \in Nat
      BY <1>6, <1>7, <1>10, <1>11
    <3> HIDE DEF d, l, m
    <3>4. sent - d + m + i <= w
      BY <3>1, <3>2, <3>3, <2>1
    <3>5. sent' - d + m + i <= w
      BY <3>4, <1>2
    <3> QED  BY <3>1, <3>5 DEF m
  <2> QED  BY <2>1, <2>3, <2>4, <2>5 DEF Window
<1>15. ReadsHeld'
  <2> SUFFICES ASSUME NEW i \in DOMAIN inbound', inbound'[i].op = "get"
               PROVE  inbound'[i].val \in held'[inbound'[i].target]
    BY DEF ReadsHeld
  <2>1. CASE i \in DOMAIN inbound /\ inbound'[i] = inbound[i]
    BY <2>1, <1>1, <1>3, <1>8 DEF ReadsHeld
  <2>2. CASE inbound'[i].target = r.target /\ inbound'[i].val = mem'[r.target]
    BY <2>2, <1>3
  <2> QED  BY <2>1, <2>2, <1>5
<1>16. ASSUME NEW t \in Targets, r.op = "get"
       PROVE  mem'[t] = mem[t]
  BY <1>16, <1>3
<1>17. GetAfterSet'
  <2> SUFFICES ASSUME NEW i \in DOMAIN inbound', inbound'[i].op = "set"
               PROVE  /\ inbound'[i].id = sent' => mem'[inbound'[i].target] = inbound'[i].val
                      /\ \A j \in DOMAIN inbound' :
                           (inbound'[j].op = "get" /\ inbound'[j].target = inbound'[i].target
                              /\ inbound'[j].id = inbound'[i].id + 1)
                             => inbound'[j].val = inbound'[i].val
                      /\ \A j \in DOMAIN outbound' :
                           (outbound'[j].op = "get" /\ outbound'[j].target = inbound'[i].target
                              /\ outbound'[j].id = inbound'[i].id + 1)
                             => mem'[inbound'[i].target] = inbound'[i].val
    BY DEF GetAfterSet
  <2>1. CASE i \in DOMAIN inbound /\ inbound'[i] = inbound[i]
    <3> DEFINE e == inbound[i]
    <3>1. /\ e.op = "set" /\ e.id \in Nat /\ e.target \in Targets /\ e.id < r.id
      BY <2>1, <1>8, <1>12
    <3>2. \A j \in DOMAIN inbound :
            (inbound[j].op = "get" /\ inbound[j].target = e.target
               /\ inbound[j].id = e.id + 1) => inbound[j].val = e.val
      BY <2>1, <1>1 DEF GetAfterSet
    <3>3. (r.op = "get" /\ r.target = e.target /\ r.id = e.id + 1) => mem[e.target] = e.val
      BY <2>1, <1>1, <1>2 DEF GetAfterSet, r
    <3>4. inbound'[i] = e
      BY <2>1
    <3> HIDE DEF e
    <3>5. e.id # sent'
      BY <3>1, <1>2, <1>7, <1>12
    <3>6. ASSUME NEW j \in DOMAIN inbound', inbound'[j].op = "get",
                 inbound'[j].target = e.target, inbound'[j].id = e.id + 1
          PROVE  inbound'[j].val = e.val
      <4>1. CASE j \in DOMAIN inbound /\ inbound'[j] = inbound[j]
        BY <4>1, <3>2, <3>6
      <4>2. CASE /\ inbound'[j].op = r.op /\ inbound'[j].target = r.target
                 /\ inbound'[j].id = r.id /\ inbound'[j].val = mem'[r.target]
        <5>1. r.op = "get" /\ r.target = e.target /\ r.id = e.id + 1
          BY <4>2, <3>6
        <5>2. mem'[r.target] = mem[r.target]
          BY <5>1, <1>12, <1>16
        <5> QED  BY <5>1, <5>2, <4>2, <3>3
      <4> QED  BY <4>1, <4>2, <1>5
    <3>7. \A j \in DOMAIN outbound' : outbound'[j].id # e.id + 1
      <4> SUFFICES ASSUME NEW j \in DOMAIN outbound'
                   PROVE  outbound'[j].id # e.id + 1
        OBVIOUS
      <4>1. r.id < outbound'[j].id /\ outbound'[j].id \in Nat
        BY <1>4, <1>8, <1>12
      <4> QED  BY <4>1, <3>1, <1>12
    <3> QED  BY <3>4, <3>5, <3>6, <3>7
  <2>2. CASE /\ inbound'[i].op = r.op /\ inbound'[i].target = r.target
             /\ inbound'[i].id = r.id /\ inbound'[i].val = mem'[r.target]
    <3>1. ASSUME NEW j \in DOMAIN inbound'
          PROVE  inbound'[j].id # r.id + 1
      <4>1. CASE j \in DOMAIN inbound /\ inbound'[j] = inbound[j]
        <5>1. inbound[j].id \in Nat /\ inbound[j].id < r.id
          BY <4>1, <1>8, <1>12
        <5> QED  BY <5>1, <4>1, <1>12
      <4>2. CASE inbound'[j].id = r.id
        BY <4>2, <1>12
      <4> QED  BY <4>1, <4>2, <1>5
    <3> QED  BY <3>1, <2>2
  <2> QED  BY <2>1, <2>2, <1>5
<1>18. KeysAcked'
  <2> SUFFICES ASSUME timeouts < 3, NEW t \in Keys
               PROVE  /\ \A j \in DOMAIN inbound' :
                           (inbound'[j].op = "get" /\ inbound'[j].target = t
                              /\ inbound'[j].id < acked[t].id) => inbound'[j].val = acked[t].val
                      /\ \A j \in DOMAIN outbound' :
                           (outbound'[j].op = "get" /\ outbound'[j].target = t
                              /\ outbound'[j].id < acked[t].id) => j = 1 /\ mem'[t] = acked[t].val
    BY <1>2 DEF KeysAcked
  <2>1. /\ \A j \in DOMAIN inbound :
             (inbound[j].op = "get" /\ inbound[j].target = t
                /\ inbound[j].id < acked[t].id) => inbound[j].val = acked[t].val
        /\ \A j \in DOMAIN outbound :
             (outbound[j].op = "get" /\ outbound[j].target = t
                /\ outbound[j].id < acked[t].id) => j = 1 /\ mem[t] = acked[t].val
    BY <1>1 DEF KeysAcked
  <2>2. ASSUME NEW j \in DOMAIN inbound', inbound'[j].op = "get",
               inbound'[j].target = t, inbound'[j].id < acked[t].id
        PROVE  inbound'[j].val = acked[t].val
    <3>1. CASE j \in DOMAIN inbound /\ inbound'[j] = inbound[j]
      BY <3>1, <2>1, <2>2
    <3>2. CASE /\ inbound'[j].op = r.op /\ inbound'[j].target = r.target
               /\ inbound'[j].id = r.id /\ inbound'[j].val = mem'[r.target]
      <4>1. r.op = "get" /\ r.target = t /\ r.id < acked[t].id
        BY <3>2, <2>2
      <4>2. mem[t] = acked[t].val
        BY <4>1, <2>1, <1>2 DEF r
      <4>3. mem'[t] = mem[t]
        BY <4>1, <1>12, <1>16
      <4> QED  BY <4>1, <4>2, <4>3, <3>2
    <3> QED  BY <3>1, <3>2, <1>5
  <2>3. ASSUME NEW j \in DOMAIN outbound', outbound'[j].op = "get",
               outbound'[j].target = t, outbound'[j].id < acked[t].id
        PROVE  FALSE
    <3>1. j + 1 \in DOMAIN outbound /\ outbound'[j] = outbound[j + 1]
      BY <1>4
    <3>2. j + 1 = 1
      BY <3>1, <2>1, <2>3
    <3> QED  BY <3>2, <1>10, <1>11
  <2> QED  BY <2>2, <2>3
<1>19. LightsAcked'
  <2> SUFFICES ASSUME timeouts < 2, NEW t \in Lights
               PROVE  /\ \A j \in DOMAIN inbound' : inbound'[j].id >= acked[t].id
                      /\ \A j \in DOMAIN outbound' : outbound'[j].id >= acked[t].id
    BY <1>2 DEF LightsAcked
  <2>1. /\ \A j \in DOMAIN inbound : inbound[j].id >= acked[t].id
        /\ \A j \in DOMAIN outbound : outbound[j].id >= acked[t].id
    BY <1>1 DEF LightsAcked
  <2>2. r.id >= acked[t].id
    BY <2>1, <1>2 DEF r
  <2>3. \A j \in DOMAIN inbound' : inbound'[j].id >= acked[t].id
    BY <2>1, <2>2, <1>5
  <2>4. \A j \in DOMAIN outbound' : outbound'[j].id >= acked[t].id
    BY <2>1, <1>4
  <2> QED  BY <2>3, <2>4
<1> QED  BY <1>9, <1>13, <1>14, <1>15, <1>17, <1>18, <1>19 DEF RoundtripInv

LEMMA ReadInv ==
  ASSUME RoundtripInv, Read
  PROVE  RoundtripInv'
<1> DEFINE e == inbound[1]
           a == pending
<1>1. Shapes /\ InOrder /\ Window /\ ReadsHeld /\ GetAfterSet /\ KeysAcked /\ LightsAcked
  BY DEF RoundtripInv
<1>2. /\ InProgress = 1 /\ InProgress' = 0
      /\ pending \in Requests /\ pending' = NoRequest
      /\ UNCHANGED <<mem, outbound, sent, timeouts, held>>
      /\ 1 \in DOMAIN inbound
      /\ inbound' \in Seq(Responses) /\ Len(inbound') = Len(inbound) - 1
  BY <1>1, ReadShape
<1>3. \A i \in DOMAIN inbound' : i + 1 \in DOMAIN inbound /\ inbound'[i] = inbound[i + 1]
  BY <1>1, ReadShape
<1>4. \/ /\ Echoes(e, a)
         /\ accepted' = [frame |-> e, id |-> a.id]
         /\ acked' = IF a.op = "set"
                     THEN [acked EXCEPT ![a.target] = [val |-> a.val, id |-> a.id]]
                     ELSE acked
      \/ UNCHANGED <<accepted, acked>>
  BY <1>1, ReadShape
<1>5. /\ Len(inbound) \in Nat /\ Len(outbound) \in Nat
      /\ \A i \in DOMAIN inbound : i \in 1 .. Len(inbound) /\ inbound[i] \in Responses
      /\ \A i \in DOMAIN outbound : i \in 1 .. Len(outbound)
      /\ sent \in Nat /\ timeouts \in Nat
  BY <1>1, QueueShapes
<1>6. /\ \A i \in DOMAIN inbound : inbound[i].id \in Nat /\ inbound[i].target \in Targets
      /\ \A i \in DOMAIN outbound : outbound[i].id \in Nat /\ outbound[i].target \in Targets
      /\ \A t \in Targets : acked[t].id \in Nat
  BY <1>1, Ids
<1>7. /\ Len(inbound') \in Nat
      /\ \A i \in DOMAIN inbound' : i \in 1 .. Len(inbound') /\ i \in Nat
  BY <1>2, ElementShape
<1>8. /\ acked \in [Targets -> [val : Values, id : Nat]]
      /\ accepted.frame \in Responses \cup {NoRequest}
  BY <1>1 DEF Shapes
<1>9. /\ a.target \in Targets /\ a.id = sent
      /\ a.op = "set" => a.val \in Values
  <2>1. a.target \in Targets /\ (a.op = "set" => a.val \in Values)
    BY <1>2 DEF Requests
  <2>2. a.id = sent
    BY <1>1, <1>2, RequestIsSome DEF InOrder
  <2> QED  BY <2>1, <2>2
<1>10. e \in Responses /\ e.id \in Nat /\ e.target \in Targets /\ e.id <= sent
  BY <1>1, <1>2, <1>5, <1>6 DEF InOrder
\* What is left in the queues is younger than the response read.
<1>11. /\ \A i \in DOMAIN inbound' : e.id < inbound'[i].id
       /\ \A i \in DOMAIN outbound : e.id < outbound[i].id
  <2>1. ASSUME NEW i \in DOMAIN inbound'
        PROVE  e.id < inbound'[i].id
    <3>1. i + 1 \in DOMAIN inbound /\ 1 < i + 1 /\ inbound'[i] = inbound[i + 1]
      BY <1>3, <1>7
    <3> QED  BY <3>1, <1>1, <1>2 DEF InOrder
  <2>2. \A i \in DOMAIN outbound : e.id < outbound[i].id
    BY <1>1, <1>2 DEF InOrder
  <2> QED  BY <2>1, <2>2
\* Window: it answers a request at most as many requests back as there were timeouts.
<1>12. sent - e.id <= timeouts
  <2>1. sent - e.id + 1 <= timeouts + 1
    BY <1>1, <1>2 DEF Window
  <2> QED  BY <2>1, <1>5, <1>10
<1> HIDE DEF e, a
<1>13. \/ UNCHANGED acked
       \/ /\ Echoes(e, a) /\ a.op = "set"
          /\ acked' = [acked EXCEPT ![a.target] = [val |-> a.val, id |-> sent]]
  BY <1>4, <1>9
<1>14. /\ acked' \in [Targets -> [val : Values, id : Nat]]
       /\ \A t \in Targets :
            \/ acked'[t] = acked[t]
            \/ /\ Echoes(e, a) /\ a.op = "set" /\ t = a.target
               /\ acked'[t] = [val |-> a.val, id |-> sent]
  <2>1. CASE UNCHANGED acked
    BY <2>1, <1>8
  <2>2. CASE /\ Echoes(e, a) /\ a.op = "set"
             /\ acked' = [acked EXCEPT ![a.target] = [val |-> a.val, id |-> sent]]
    <3>1. [val |-> a.val, id |-> sent] \in [val : Values, id : Nat]
      BY <2>2, <1>5, <1>9
    <3> QED  BY <3>1, <2>2, <1>8, <1>9
  <2> QED  BY <2>1, <2>2, <1>13
<1>15. accepted'.frame \in Responses \cup {NoRequest}
  BY <1>4, <1>8, <1>10
<1>16. Shapes'
  BY <1>1, <1>2, <1>14, <1>15 DEF Shapes
<1>17. InOrder'
  <2>1. ASSUME NEW i \in DOMAIN inbound', NEW j \in DOMAIN inbound', i < j
        PROVE  inbound'[i].id < inbound'[j].id
    <3>1. /\ i + 1 \in DOMAIN inbound /\ inbound'[i] = inbound[i + 1]
          /\ j + 1 \in DOMAIN inbound /\ inbound'[j] = inbound[j + 1]
      BY <1>3
    <3>2. i + 1 < j + 1
      BY <2>1, <1>7
    <3> QED  BY <3>1, <3>2, <1>1 DEF InOrder
  <2>2. \A i, j \in DOMAIN outbound' : i < j => outbound'[i].id < outbound'[j].id
    BY <1>1, <1>2 DEF InOrder
  <2>3. \A i \in DOMAIN inbound', j \in DOMAIN outbound' : inbound'[i].id < outbound'[j].id
    BY <1>1, <1>2, <1>3 DEF InOrder
  <2>4. \A i \in DOMAIN inbound' : inbound'[i].id <= sent'
    BY <1>1, <1>2, <1>3 DEF InOrder
  <2>5. \A i \in DOMAIN outbound' : outbound'[i].id <= sent'
    BY <1>1, <1>2 DEF InOrder
  <2>6. ASSUME NEW t \in Targets
        PROVE  acked'[t].id <= sent'
    <3>1. CASE acked'[t] = acked[t]
      BY <3>1, <1>1, <1>2 DEF InOrder
    <3>2. CASE acked'[t] = [val |-> a.val, id |-> sent]
      BY <3>2, <1>2, <1>5
    <3> QED  BY <3>1, <3>2, <1>14
  <2> QED  BY <2>1, <2>2, <2>3, <2>4, <2>5, <2>6, <1>2 DEF InOrder
<1>18. Window'
  <2>1. /\ Len(outbound) + Len(inbound) <= timeouts + 1
        /\ \A i \in DOMAIN inbound : sent - inbound[i].id + i <= timeouts + 1
        /\ \A i \in DOMAIN outbound : sent - outbound[i].id + Len(inbound) + i <= timeouts + 1
    BY <1>1, <1>2 DEF Window
  <2>2. timeouts' + InProgress' = timeouts
    BY <1>2, <1>5
  <2>3. Len(outbound) + Len(inbound') <= timeouts
    BY <2>1, <1>2, <1>5
  <2>4. ASSUME NEW i \in DOMAIN inbound'
        PROVE  sent - inbound'[i].id + i <= timeouts
    <3> DEFINE d == inbound'[i].id
    <3>1. sent - d + (i + 1) <= timeouts + 1 /\ d \in Nat
      BY <2>1, <1>3, <1>6
    <3>2. i \in Nat
      BY <1>7
    <3> HIDE DEF d
    <3>3. sent - d + i <= timeouts
      BY <3>1, <3>2, <1>5
    <3> QED  BY <3>3 DEF d
  <2>5. ASSUME NEW i \in DOMAIN outbound
        PROVE  sent - outbound[i].id + Len(inbound') + i <= timeouts
    <3> DEFINE d == outbound[i].id
    <3>1. sent - d + Len(inbound) + i <= timeouts + 1 /\ d \in Nat
      BY <2>1, <1>6
    <3>2. i \in Nat
      BY <1>5
    <3> HIDE DEF d
    <3>3. sent - d + Len(inbound') + i <= timeouts
      BY <3>1, <3>2, <1>2, <1>5
    <3> QED  BY <3>3 DEF d
  <2> QED  BY <2>2, <2>3, <2>4, <2>5, <1>2 DEF Window
<1>19. ReadsHeld'
  BY <1>1, <1>2, <1>3 DEF ReadsHeld
<1>20. GetAfterSet'
  <2> SUFFICES ASSUME NEW i \in DOMAIN inbound', inbound'[i].op = "set"
               PROVE  /\ inbound'[i].id = sent => mem[inbound'[i].target] = inbound'[i].val
                      /\ \A j \in DOMAIN inbound' :
                           (inbound'[j].op = "get" /\ inbound'[j].target = inbound'[i].target
                              /\ inbound'[j].id = inbound'[i].id + 1)
                             => inbound'[j].val = inbound'[i].val
                      /\ \A j \in DOMAIN outbound :
                           (outbound[j].op = "get" /\ outbound[j].target = inbound'[i].target
                              /\ outbound[j].id = inbound'[i].id + 1)
                             => mem[inbound'[i].target] = inbound'[i].val
    BY <1>2 DEF GetAfterSet
  <2>1. i + 1 \in DOMAIN inbound /\ inbound'[i] = inbound[i + 1]
    BY <1>3
  <2>2. \A j \in DOMAIN inbound' : \E k \in DOMAIN inbound : inbound'[j] = inbound[k]
    BY <1>3
  <2> QED  BY <2>1, <2>2, <1>1 DEF GetAfterSet
<1>21. KeysAcked'
  <2> SUFFICES ASSUME timeouts < 3, NEW t \in Keys
               PROVE  /\ \A j \in DOMAIN inbound' :
                           (inbound'[j].op = "get" /\ inbound'[j].target = t
                              /\ inbound'[j].id < acked'[t].id) => inbound'[j].val = acked'[t].val
                      /\ \A j \in DOMAIN outbound :
                           (outbound[j].op = "get" /\ outbound[j].target = t
                              /\ outbound[j].id < acked'[t].id) => j = 1 /\ mem[t] = acked'[t].val
    BY <1>2 DEF KeysAcked
  <2>1. t \in Targets /\ t \notin Lights
    BY ConstantsAssumption DEF Targets
  <2>2. CASE acked'[t] = acked[t]
    BY <2>2, <1>1, <1>3 DEF KeysAcked
  <2>3. CASE /\ Echoes(e, a) /\ a.op = "set" /\ t = a.target
             /\ acked'[t] = [val |-> a.val, id |-> sent]
    <3>1. acked'[t].id = sent /\ acked'[t].val = a.val
      BY <2>3
    <3>2. e.op = "set" /\ e.target = t /\ e.val = a.val
      BY <2>1, <2>3 DEF Echoes
    <3>3. /\ \A j \in DOMAIN inbound :
               (inbound[j].op = "get" /\ inbound[j].target = t
                  /\ inbound[j].id = e.id + 1) => inbound[j].val = a.val
          /\ \A j \in DOMAIN outbound :
               (outbound[j].op = "get" /\ outbound[j].target = t
                  /\ outbound[j].id = e.id + 1) => mem[t] = a.val
      BY <3>2, <1>1, <1>2 DEF GetAfterSet, e
    \* At most two requests back, so the one between is the next.
    <3>4. \A id \in Nat : (e.id < id /\ id < sent) => id = e.id + 1
      BY <1>5, <1>10, <1>12
    <3>5. ASSUME NEW j \in DOMAIN inbound', inbound'[j].op = "get",
                 inbound'[j].target = t, inbound'[j].id < acked'[t].id
          PROVE  inbound'[j].val = acked'[t].val
      <4>1. inbound'[j].id = e.id + 1
        BY <3>1, <3>4, <3>5, <1>3, <1>6, <1>11
      <4> QED  BY <4>1, <3>1, <3>3, <3>5, <1>3
    <3>6. ASSUME NEW j \in DOMAIN outbound, outbound[j].op = "get",
                 outbound[j].target = t, outbound[j].id < acked'[t].id
          PROVE  j = 1 /\ mem[t] = acked'[t].val
      <4>1. outbound[j].id = e.id + 1
        BY <3>1, <3>4, <3>6, <1>6, <1>11
      <4>2. mem[t] = acked'[t].val
        BY <4>1, <3>1, <3>3, <3>6
      <4>3. ASSUME j # 1
            PROVE  FALSE
        <5>1. 1 \in DOMAIN outbound /\ 1 < j
          BY <4>3, <1>1, <1>5 DEF Shapes
        <5>2. outbound[1].id < outbound[j].id
          BY <5>1, <1>1 DEF InOrder
        <5>3. e.id < outbound[1].id /\ outbound[1].id \in Nat
          BY <5>1, <1>6, <1>11
        <5> QED  BY <5>2, <5>3, <4>1, <1>10
      <4> QED  BY <4>2, <4>3
    <3> QED  BY <3>5, <3>6
  <2> QED  BY <2>1, <2>2, <2>3, <1>14
<1>22. LightsAcked'
  <2> SUFFICES ASSUME timeouts < 2, NEW t \in Lights
               PROVE  /\ \A j \in DOMAIN inbound' : inbound'[j].id >= acked'[t].id
                      /\ \A j \in DOMAIN outbound : outbound[j].id >= acked'[t].id
    BY <1>2 DEF LightsAcked
  <2>1. t \in Targets
    BY DEF Targets
  <2>2. CASE acked'[t] = acked[t]
    BY <2>2, <1>1, <1>3 DEF LightsAcked
  <2>3. CASE acked'[t] = [val |-> a.val, id |-> sent]
    <3>1. acked'[t].id = sent
      BY <2>3
    \* At most one request back, so none is between.
    <3>2. \A id \in Nat : e.id < id => id >= sent
      BY <1>5, <1>10, <1>12
    <3>3. \A j \in DOMAIN inbound' : inbound'[j].id \in Nat
      BY <1>3, <1>6
    <3> QED  BY <3>1, <3>2, <3>3, <1>6, <1>11
  <2> QED  BY <2>1, <2>2, <2>3, <1>14
<1> QED  BY <1>16, <1>17, <1>18, <1>19, <1>20, <1>21, <1>22 DEF RoundtripInv

LEMMA RoundtripInit ==
  ASSUME Init
  PROVE  RoundtripInv
<1>1. /\ mem \in [Targets -> Values] /\ outbound = <<>> /\ inbound = <<>>
      /\ pending = NoRequest /\ sent = 0 /\ timeouts = 0
      /\ accepted.frame = NoRequest
      /\ acked = [t \in Targets |-> NoSet(t)]
      /\ held = [t \in Targets |-> {mem[t]}]
  BY DEF Init
<1>2. \A t \in Targets : mem[t] \in Values
  BY <1>1
<1>3. /\ acked \in [Targets -> [val : Values, id : Nat]]
      /\ \A t \in Targets : acked[t].id = 0
  BY <1>1, <1>2 DEF NoSet
<1>4. held \in [Targets -> SUBSET Values]
  BY <1>1, <1>2
<1>5. /\ outbound \in Seq(Requests) /\ inbound \in Seq(Responses)
      /\ Len(outbound) = 0 /\ Len(inbound) = 0
      /\ DOMAIN outbound = {} /\ DOMAIN inbound = {}
  BY <1>1
<1>6. Shapes
  BY <1>1, <1>3, <1>4, <1>5, ConstantsAssumption DEF Shapes
<1>7. InOrder
  BY <1>1, <1>3, <1>5 DEF InOrder
<1>8. Window
  BY <1>1, <1>5 DEF Window, InProgress
<1>9. ReadsHeld /\ GetAfterSet
  BY <1>5 DEF ReadsHeld, GetAfterSet
<1>10. KeysAcked /\ LightsAcked
  BY <1>5 DEF KeysAcked, LightsAcked
<1> QED  BY <1>6, <1>7, <1>8, <1>9, <1>10 DEF RoundtripInv

LEMMA RoundtripStep ==
  ASSUME RoundtripInv, [Next]_vars
  PROVE  RoundtripInv'
<1>1. ASSUME NEW r \in Gets \cup Sets, Write(r)
      PROVE  RoundtripInv'
  BY <1>1, WriteInv
<1>2. ASSUME NEW answers \in BOOLEAN, Firmware(answers)
      PROVE  RoundtripInv'
  BY <1>2, FirmwareInv
<1>3. CASE Read
  BY <1>3, ReadInv
<1>4. CASE TimeOut
  BY <1>4, TimeOutInv
<1>5. CASE UNCHANGED vars
  BY <1>5 DEF vars, RoundtripInv, Shapes, InOrder, Window, ReadsHeld, GetAfterSet,
              KeysAcked, LightsAcked, InProgress
<1> QED  BY <1>1, <1>2, <1>3, <1>4, <1>5 DEF Next

\* Both queues hold requests in the order they were sent, and no more of them, nor older
\* ones, than the timeouts account for (write_frame, read_frame, roundtrip).
THEOREM RoundtripCorrect == Spec => []RoundtripInv
<1>1. Init => RoundtripInv
  BY RoundtripInit
<1>2. RoundtripInv /\ [Next]_vars => RoundtripInv'
  BY RoundtripStep
<1> QED  BY <1>1, <1>2, PTL DEF Spec

\* Types, the order of the queues and their bound: one frame per timeout beyond the
\* round-trip in progress.
THEOREM TypeCorrect == Spec => []TypeOK
<1>1. ASSUME RoundtripInv
      PROVE  TypeOK
  <2>1. Shapes /\ InOrder /\ Window
    BY <1>1 DEF RoundtripInv
  <2>2. Requests \subseteq Frames /\ Responses \subseteq Frames
    BY DEF Requests, Responses, Frames
  <2>3. /\ \A i \in DOMAIN inbound : inbound[i] \in Frames
        /\ \A i \in DOMAIN outbound : outbound[i] \in Frames
    BY <2>1, <2>2, QueueShapes
  <2>4. ASSUME NEW q \in {outbound, inbound}
        PROVE  /\ \A i \in DOMAIN q : q[i] \in Frames
               /\ \A i, j \in DOMAIN q : i < j => q[i].id < q[j].id
    BY <2>1, <2>3 DEF InOrder
  <2>5. Len(outbound) + Len(inbound) <= timeouts + (IF pending = NoRequest THEN 0 ELSE 1)
    BY <2>1 DEF Window, InProgress
  <2> QED  BY <2>1, <2>2, <2>4, <2>5 DEF Shapes, TypeOK
<1> QED  BY <1>1, RoundtripCorrect, PTL

\* A response is accepted only by Read, as the echo of the request in progress.
LEMMA AcceptedIsEcho ==
  ASSUME RoundtripInv, [Next]_vars, accepted' # accepted
  PROVE  /\ pending \in Requests /\ UNCHANGED held
         /\ 1 \in DOMAIN inbound /\ inbound[1] \in Responses
         /\ Echoes(inbound[1], pending) /\ accepted'.frame = inbound[1]
<1>1. Read
  <2>1. \A r \in Gets \cup Sets : Write(r) => accepted' = accepted
    BY DEF Write
  <2>2. \A answers \in BOOLEAN : Firmware(answers) => accepted' = accepted
    BY DEF Firmware
  <2>3. TimeOut => accepted' = accepted
    BY DEF TimeOut
  <2>4. UNCHANGED vars => accepted' = accepted
    BY DEF vars
  <2> QED  BY <2>1, <2>2, <2>3, <2>4 DEF Next
<1>2. Shapes
  BY DEF RoundtripInv
<1> QED  BY <1>1, <1>2, ReadShape, QueueShapes

\* A read that succeeds returns a value that its own target has had, whatever stale
\* responses are queued (validate_echo).
THEOREM ReadIsOfItsTargetHolds == Spec => ReadIsOfItsTarget
<1>1. ASSUME RoundtripInv, [Next]_vars
      PROVE  [\A r \in {pending} :
                (accepted' # accepted /\ r.op = "get")
                  => accepted'.frame.val \in held[r.target]]_vars
  <2>1. ASSUME accepted' # accepted, pending.op = "get"
        PROVE  accepted'.frame.val \in held[pending.target]
    <3>1. /\ 1 \in DOMAIN inbound /\ accepted'.frame = inbound[1]
          /\ Echoes(inbound[1], pending)
      BY <1>1, <2>1, AcceptedIsEcho
    <3>2. inbound[1].op = "get" /\ inbound[1].target = pending.target
      BY <3>1, <2>1 DEF Echoes
    <3>3. ReadsHeld
      BY <1>1 DEF RoundtripInv
    <3> QED  BY <3>1, <3>2, <3>3 DEF ReadsHeld
  <2> QED  BY <2>1
<1> QED  BY <1>1, RoundtripCorrect, PTL DEF Spec, ReadIsOfItsTarget

\* It takes three timeouts before a keycode read can return less than an acknowledged
\* write, two before a lighting read can (roundtrip, validate_echo, set_lighting).
THEOREM FreshUnlessManyTimeoutsHolds == Spec => FreshUnlessManyTimeouts
<1>1. ASSUME RoundtripInv, [Next]_vars
      PROVE  [(Reading /\ accepted' # accepted /\ StaleRead(pending.target))
                => timeouts >= (IF pending.target \in Keys THEN 3 ELSE 2)]_vars
  <2> DEFINE t == pending.target
  <2>1. ASSUME Reading, accepted' # accepted, StaleRead(t)
        PROVE  timeouts >= (IF t \in Keys THEN 3 ELSE 2)
    <3>1. /\ pending \in Requests
          /\ 1 \in DOMAIN inbound /\ accepted'.frame = inbound[1]
          /\ inbound[1] \in Responses /\ Echoes(inbound[1], pending)
      BY <1>1, <2>1, AcceptedIsEcho
    <3>2. inbound[1].op = "get" /\ inbound[1].target = t
      BY <3>1, <2>1 DEF Echoes, Reading
    <3>3. t \in Targets /\ inbound[1].id \in Nat
      BY <3>1 DEF Requests, Responses
    <3>4. inbound[1].id < acked[t].id /\ inbound[1].val # acked[t].val
      BY <3>1, <2>1 DEF StaleRead
    <3>5. Shapes /\ KeysAcked /\ LightsAcked
      BY <1>1 DEF RoundtripInv
    <3>6. timeouts \in Nat /\ acked[t].id \in Nat
      BY <3>3, <3>5, QueueShapes, Ids
    <3> HIDE DEF t
    <3>7. CASE t \in Keys
      <4>1. ~(timeouts < 3)
        BY <3>1, <3>2, <3>4, <3>5, <3>7 DEF KeysAcked
      <4> QED  BY <4>1, <3>6, <3>7
    <3>8. CASE t \notin Keys
      <4>1. t \in Lights
        BY <3>3, <3>8 DEF Targets
      <4>2. ~(inbound[1].id >= acked[t].id)
        BY <3>3, <3>4, <3>6
      <4>3. ~(timeouts < 2)
        BY <4>1, <4>2, <3>1, <3>5 DEF LightsAcked
      <4> QED  BY <4>3, <3>6, <3>8
    <3> QED  BY <3>7, <3>8
  <2> QED  BY <2>1
<1> QED  BY <1>1, RoundtripCorrect, PTL DEF Spec, FreshUnlessManyTimeouts
=============================================================================
