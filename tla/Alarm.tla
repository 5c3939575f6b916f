------------------------------- MODULE Alarm -------------------------------
(***************************************************************************)
(* What mg_sleep_for promises: a sleeping actor is woken by the tick that  *)
(* is its delay away from the moment it fell asleep, no sooner, no later.  *)
(***************************************************************************)
EXTENDS Naturals

CONSTANTS Actor, MaxDelay

VARIABLE remaining   \* ticks left to each sleeping actor

Init == remaining = [a \in {} |-> 0]

Sleep(a, d) ==
  /\ a \notin DOMAIN remaining
  /\ remaining' = [b \in DOMAIN remaining \cup {a} |-> IF b = a THEN d ELSE remaining[b]]

\* Everyone who was due has been woken before the next tick.
Tick ==
  /\ \A a \in DOMAIN remaining : remaining[a] > 0
  /\ remaining' = [a \in DOMAIN remaining |-> remaining[a] - 1]

Wake(a) ==
  /\ remaining[a] = 0
  /\ remaining' = [b \in DOMAIN remaining \ {a} |-> remaining[b]]

Next ==
  \/ \E a \in Actor, d \in 1..MaxDelay : Sleep(a, d)
  \/ Tick
  \/ \E a \in DOMAIN remaining : Wake(a)

Spec == Init /\ [][Next]_remaining
=============================================================================
