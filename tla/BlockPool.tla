----------------------------- MODULE BlockPool -----------------------------
(***************************************************************************)
(* What a message pool promises, and what module Kernel takes it for: a    *)
(* call of mg_message_alloc returns, in one step, a block that nobody was  *)
(* given before or, once there is none, the one that was freed first.      *)
(***************************************************************************)
EXTENDS Sequences

CONSTANTS Thread, Block

VARIABLES fresh, freed, owned

Init ==
  /\ fresh = Block
  /\ freed = <<>>
  /\ owned = [t \in Thread |-> {}]

Own(t, b) == owned' = [owned EXCEPT ![t] = @ \cup {b}]

Alloc(t) ==
  \/ \E b \in fresh : fresh' = fresh \ {b} /\ Own(t, b) /\ UNCHANGED freed
  \/ /\ fresh = {} /\ freed # <<>>
     /\ freed' = Tail(freed)
     /\ Own(t, Head(freed))
     /\ UNCHANGED fresh

Free(t, b) ==
  /\ b \in owned[t]
  /\ freed' = Append(freed, b)
  /\ owned' = [owned EXCEPT ![t] = @ \ {b}]
  /\ UNCHANGED fresh

Next == \E t \in Thread : Alloc(t) \/ \E b \in Block : Free(t, b)

Spec == Init /\ [][Next]_<<fresh, freed, owned>>
=============================================================================
