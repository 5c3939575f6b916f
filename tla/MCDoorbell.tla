----------------------------- MODULE MCDoorbell -----------------------------
(***************************************************************************)
(* Two processors and two levels, for TLC.                                 *)
(***************************************************************************)
EXTENDS Doorbell, TLC

CONSTANTS c1, c2, lo, hi

\* The doorbell interrupts at the lower of the two levels.
LowBell == 1

\* One processor requests from its thread, on itself and on the other one.
One_Requester == {<<c1, 0>>}

Two_vect2prio == lo :> 1 @@ hi :> 2
Two_prio2vect == 1 :> lo @@ 2 :> hi
=============================================================================
