------------------------------- MODULE MCDelivery -------------------------------
(* Three clients of a multi-client server, and the two ends of a legacy pair.*)
EXTENDS Delivery, Codec, TLC

CONSTANTS m1, m2, m3, p1, p2, server, end1, end2

AllTargets ==
  m1 :> server @@ m2 :> server @@ m3 :> server @@ p1 :> end2 @@ p2 :> end1
OneTarget == p1 :> end2

(* Delivery and Codec share no variable, so each runs while the other rests  *)
(* in its initial state.                                                     *)
MCInit == Init /\ CodecInit
MCNext ==
  \/ inbox = {} /\ Next /\ UNCHANGED inbox
  \/ Init /\ Receive /\ UNCHANGED vars
MCSpec == MCInit /\ [][MCNext]_<<vars, inbox>>
================================================================================
