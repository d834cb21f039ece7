---------------------------- MODULE DurableKeymap ----------------------------
(***************************************************************************)
(* What one attached keyboard promises its callers, whatever driver is     *)
(* behind it: a keymap that answers one call at a time, of which a part,   *)
(* possibly old, is already stored in the keyboard.                        *)
(*                                                                         *)
(*   - a read returns the value of the last write that was acknowledged,   *)
(*     or of a later write that failed but reached the keyboard;           *)
(*   - the keyboard never stores anything but the current value;           *)
(*   - a commit is acknowledged only when the keyboard stores everything.  *)
(***************************************************************************)
EXTENDS Integers

CONSTANTS Keys, NoTarget

VARIABLES
  keymap,   \* what a read of each key returns
  stored,   \* what the keyboard itself holds
  call,     \* the call in progress, or NoCall
  reply     \* its reply, not yet received by the caller, or NoReply

vars == <<keymap, stored, call, reply>>

NoCall == [op |-> "none", target |-> NoTarget, val |-> 0, by |-> "nobody"]
NoReply == [res |-> "none", val |-> 0]
Failures == {[res |-> r, val |-> 0] : r \in {"err", "gone"}}
Acknowledged(v) == [res |-> "ok", val |-> v]

Init ==
  /\ keymap = [k \in Keys |-> 0]
  /\ stored = keymap
  /\ call = NoCall
  /\ reply = NoReply

Request ==
  /\ call = NoCall
  /\ call' # NoCall
  /\ reply' = NoReply
  /\ UNCHANGED <<keymap, stored>>

Replies == call # NoCall /\ reply = NoReply /\ reply' # NoReply /\ UNCHANGED call

Get ==
  /\ Replies
  /\ call.op = "get"
  /\ reply' \in Failures \cup {Acknowledged(keymap[call.target])}
  /\ UNCHANGED <<keymap, stored>>

\* A write that is acknowledged is readable, stored or not; one that fails is
\* either readable and stored or has no effect.
Set ==
  LET written == [keymap EXCEPT ![call.target] = call.val]
      through == [stored EXCEPT ![call.target] = call.val]
  IN /\ Replies
     /\ call.op = "set"
     /\ \/ reply' = Acknowledged(0) /\ keymap' = written /\ stored' \in {stored, through}
        \/ reply' \in Failures /\ keymap' = written /\ stored' = through
        \/ reply' \in Failures /\ UNCHANGED <<keymap, stored>>

\* The keyboard catches up on one key.
CatchUp == \E k \in Keys : stored' = [stored EXCEPT ![k] = keymap[k]]

\* A commit that fails may have stored one more key.
Commit ==
  /\ Replies
  /\ call.op = "commit"
  /\ \/ reply' = Acknowledged(0) /\ stored = keymap /\ UNCHANGED stored
     \/ reply' \in Failures /\ (CatchUp \/ UNCHANGED stored)
  /\ UNCHANGED keymap

\* Any call that touches no key.
Other ==
  /\ Replies
  /\ call.op \notin {"get", "set", "commit"}
  /\ UNCHANGED <<keymap, stored>>

Receive ==
  /\ reply # NoReply
  /\ call' = NoCall
  /\ reply' = NoReply
  /\ UNCHANGED <<keymap, stored>>

\* It may do so at any time.
Store ==
  /\ CatchUp
  /\ UNCHANGED <<keymap, call, reply>>

Next == Request \/ Get \/ Set \/ Commit \/ Other \/ Receive \/ Store

Spec == Init /\ [][Next]_vars
=============================================================================
