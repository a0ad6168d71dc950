------------------------------ MODULE KeyLease ------------------------------
(***************************************************************************)
(* What the idempotency guard promises for the shared store, without its   *)
(* middleware, its queries and its failures: a key is lent to one request  *)
(* at a time; only the borrower is charged under it, publishes its report  *)
(* there or gives the key back, all before the lease lapses.  The rows of  *)
(* the code have no owner: that the guard keeps this promise all the same, *)
(* and under which assumption, is what PaidInspection has to show.         *)
(***************************************************************************)
EXTENDS Integers

CONSTANTS Requests, NoRequest, Keys, KeyOf

VARIABLES
  now,
  slot,      \* key -> who has it, or whose report it holds, and until when
  charged    \* the keyed requests whose payment has been taken

vars == <<now, slot, charged>>

Vacant == [phase |-> "free", by |-> NoRequest, until |-> 0]

LentTo(k, r) == slot[k].phase = "lent" /\ slot[k].by = r /\ slot[k].until > now

(* k's slot, and no other, passes to r for some time to come.              *)
Becomes(k, phase, r) ==
  /\ slot' = [slot EXCEPT ![k] = slot'[k]]
  /\ slot'[k].phase = phase /\ slot'[k].by = r /\ slot'[k].until > now

Init ==
  /\ now = 0
  /\ slot = [k \in Keys |-> Vacant]
  /\ charged = {}

Lend(r) ==
  /\ slot[KeyOf[r]].phase = "free" \/ slot[KeyOf[r]].until <= now
  /\ Becomes(KeyOf[r], "lent", r)
  /\ UNCHANGED <<now, charged>>

Charge(r) ==
  /\ LentTo(KeyOf[r], r)
  /\ r \notin charged
  /\ charged' = charged \union {r}
  /\ UNCHANGED <<now, slot>>

(* Only a charged report is published.                                     *)
Publish(r) ==
  /\ LentTo(KeyOf[r], r)
  /\ r \in charged
  /\ Becomes(KeyOf[r], "published", r)
  /\ UNCHANGED <<now, charged>>

GiveBack(r) ==
  /\ LentTo(KeyOf[r], r)
  /\ slot' = [slot EXCEPT ![KeyOf[r]] = Vacant]
  /\ UNCHANGED <<now, charged>>

Pass == now' = now + 1 /\ UNCHANGED <<slot, charged>>

Next ==
  \/ \E r \in Requests :
       KeyOf[r] \in Keys /\ (Lend(r) \/ Charge(r) \/ Publish(r) \/ GiveBack(r))
  \/ Pass

Spec == Init /\ [][Next]_vars
=============================================================================
