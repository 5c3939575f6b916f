------------------------------- MODULE Channel -------------------------------
(***************************************************************************)
(* What a queue with one consumer promises: README.md:97 says sending      *)
(* cannot fail, so each message that was sent is received, once, and       *)
(* messages are received in the order in which they were sent.             *)
(***************************************************************************)
EXTENDS Sequences

CONSTANTS Chan, Message

VARIABLE chan   \* chan[q]: the messages sent to q and not received yet

Init == chan = [q \in Chan |-> <<>>]

Send(q, m) == chan' = [chan EXCEPT ![q] = Append(@, m)]

Receive(q) ==
  /\ chan[q] # <<>>
  /\ chan' = [chan EXCEPT ![q] = Tail(@)]

Next == \E q \in Chan : Receive(q) \/ \E m \in Message : Send(q, m)

Spec == Init /\ [][Next]_chan

In(q, m) == \E i \in DOMAIN chan[q] : chan[q][i] = m

\* A message that was sent is eventually received.
Delivery == \A q \in Chan, m \in Message : In(q, m) ~> ~In(q, m)
=============================================================================
