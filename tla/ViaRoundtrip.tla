---------------------------- MODULE ViaRoundtrip ----------------------------
(***************************************************************************)
(* The round-trip of ViaTransport (hal/via.rs) over a hidraw node: one     *)
(* request frame is written, one frame is read back under a timeout, and   *)
(* the frame is checked to echo the request's leading bytes.  Frames carry *)
(* no sequence number, and the read takes whatever frame the node's queue  *)
(* holds first: a response that arrives after its request timed out is     *)
(* still there when the next request reads.                                *)
(*                                                                         *)
(* Requests get an id that is not on the wire; it tells which request a    *)
(* response answers.  A get or a set names a target: a key, whose set is   *)
(* checked for its echo, or a light, whose set is not.                     *)
(***************************************************************************)
EXTENDS Integers, Sequences, FiniteSets

CONSTANTS
  Keys,         \* keycode positions
  Lights,       \* (channel, value_id) lighting values
  Values,       \* keycodes and lighting values
  NoValue,      \* the value field of a get
  MaxRequests,  \* bound: requests
  MaxTimeouts   \* bound: requests that time out

Targets == Keys \cup Lights

ASSUME ConstantsAssumption ==
  /\ Keys \cap Lights = {}
  /\ Values # {} /\ NoValue \notin Values
  /\ MaxRequests \in Nat
  /\ MaxTimeouts \in Nat

VARIABLES
  mem,       \* firmware: the value of each target
  outbound,  \* requests the firmware has not handled
  inbound,   \* hidraw queue: responses not yet read
  pending,   \* the request in its round-trip, or NoRequest
  sent,      \* requests so far
  timeouts,  \* requests that timed out
  accepted,  \* history: the last accepted response, with the request it was accepted for
  acked,     \* history: per target, the last acknowledged set
  held       \* history: per target, every value it has had

vars == <<mem, outbound, inbound, pending, sent, timeouts, accepted, acked, held>>

NoRequest == [op |-> "none", target |-> NoValue, val |-> NoValue, id |-> 0]
Gets == [op : {"get"}, target : Targets, val : {NoValue}]
Sets == [op : {"set"}, target : Targets, val : Values]
Frames == [op : {"get", "set"}, target : Targets, val : Values \cup {NoValue}, id : Nat]
NoSet(t) == [val |-> mem[t], id |-> 0]

Init ==
  /\ mem \in [Targets -> Values]
  /\ outbound = <<>>
  /\ inbound = <<>>
  /\ pending = NoRequest
  /\ sent = 0
  /\ timeouts = 0
  /\ accepted = [frame |-> NoRequest, id |-> 0]
  /\ acked = [t \in Targets |-> NoSet(t)]
  /\ held = [t \in Targets |-> {mem[t]}]

\* &mut self: a round-trip starts when the last one has ended.
\* Seeded fault: a caller drops a round-trip half way and starts another.
ReadyAlways == TRUE
Ready == pending = NoRequest

\* write_frame: the request is handed to the firmware.
Write(r) ==
  /\ Ready
  /\ sent < MaxRequests
  /\ sent' = sent + 1
  /\ pending' = [op |-> r.op, target |-> r.target, val |-> r.val, id |-> sent + 1]
  /\ outbound' = Append(outbound, pending')
  /\ UNCHANGED <<mem, inbound, timeouts, accepted, acked, held>>

\* The firmware handles requests in order and echoes each; a get carries the value.
\* The response may be lost.
Firmware(answers) ==
  /\ outbound # <<>>
  /\ LET r == Head(outbound)
         stored == IF r.op = "set" THEN [mem EXCEPT ![r.target] = r.val] ELSE mem
     IN /\ mem' = stored
        /\ held' = [held EXCEPT ![r.target] = @ \cup {stored[r.target]}]
        /\ inbound' = IF answers
                      THEN Append(inbound, [r EXCEPT !.val = stored[r.target]])
                      ELSE inbound
  /\ outbound' = Tail(outbound)
  /\ UNCHANGED <<pending, sent, timeouts, accepted, acked>>

\* validate_echo: the command and its operands, the keycode of a set_keycode included.
\* Seeded fault: only the command byte is checked.
EchoesCommand(f, r) == f.op = r.op
Echoes(f, r) ==
  \/ r.op = "set" /\ r.target \in Lights   \* set_lighting checks nothing
  \/ /\ f.op = r.op
     /\ f.target = r.target
     /\ r.op = "set" => f.val = r.val

\* read_frame: whatever frame comes first answers the request.
Read ==
  /\ pending # NoRequest
  /\ inbound # <<>>
  /\ LET f == Head(inbound) IN
       IF Echoes(f, pending)
       THEN /\ accepted' = [frame |-> f, id |-> pending.id]
            /\ acked' = IF pending.op = "set"
                        THEN [acked EXCEPT ![pending.target] = [val |-> pending.val, id |-> pending.id]]
                        ELSE acked
       ELSE UNCHANGED <<accepted, acked>>   \* ProtocolViolation
  /\ inbound' = Tail(inbound)
  /\ pending' = NoRequest
  /\ UNCHANGED <<mem, outbound, sent, timeouts, held>>

\* The timeout drops the round-trip after its write; its response may still come.
TimeOut ==
  /\ pending # NoRequest
  /\ inbound = <<>>
  /\ timeouts < MaxTimeouts
  /\ timeouts' = timeouts + 1
  /\ pending' = NoRequest
  /\ UNCHANGED <<mem, outbound, inbound, sent, accepted, acked, held>>

Next ==
  \/ \E r \in Gets \cup Sets : Write(r)
  \/ \E answers \in BOOLEAN : Firmware(answers)
  \/ Read
  \/ TimeOut

Spec == Init /\ [][Next]_vars

-----------------------------------------------------------------------------
(* Properties. *)

\* Types of the variables.  Requests and responses are queued in the order they were sent,
\* and every one beyond the round-trip in progress is left over from a timeout.
TypeOK ==
  /\ mem \in [Targets -> Values]
  /\ \A q \in {outbound, inbound} :
       /\ \A i \in DOMAIN q : q[i] \in Frames
       /\ \A i, j \in DOMAIN q : i < j => q[i].id < q[j].id
  /\ Len(outbound) + Len(inbound) <= timeouts + (IF pending = NoRequest THEN 0 ELSE 1)
  /\ pending \in Frames \cup {NoRequest}
  /\ sent \in 0 .. MaxRequests
  /\ timeouts \in 0 .. MaxTimeouts
  /\ accepted.frame \in Frames \cup {NoRequest}
  /\ acked \in [Targets -> [val : Values, id : Nat]]
  /\ held \in [Targets -> SUBSET Values]

\* A read that succeeds returns a value that its own target has had, whatever stale
\* responses are queued (validate_echo on command and operands).
ReadIsOfItsTarget ==
  [][\A r \in {pending} :
       (accepted' # accepted /\ r.op = "get") => accepted'.frame.val \in held[r.target]]_vars

Reading == pending # NoRequest /\ pending.op = "get"
\* A read is stale: it returns an older value than the last acknowledged set's.
StaleRead(t) ==
  /\ accepted'.frame.id < acked[t].id
  /\ accepted'.frame.val # acked[t].val

\* A keycode read can be older than an acknowledged write only after three timeouts, a
\* lighting read after two: every echo check that passes or fails uses up one stale
\* response, so fewer late responses cannot outlast the write (roundtrip, validate_echo,
\* set_lighting).
FreshUnlessManyTimeouts ==
  [][(Reading /\ accepted' # accepted /\ StaleRead(pending.target))
       => timeouts >= (IF pending.target \in Keys THEN 3 ELSE 2)]_vars

-----------------------------------------------------------------------------
(* A documented property that the code does not have. *)

\* "The driver must drive the request frame to completion before accepting the next
\* command": a response is accepted only for the request it answers.
AnswersOwnRequest == accepted.frame.id = accepted.id
=============================================================================
