---------------------------- MODULE MCOfflineQueue ----------------------------
(* QueueUse with samples of two places.                                      *)
EXTENDS QueueUse

\* Only samples of the same place share a frame.
SamePlace == {<<pt, pt>> : pt \in Points}
===============================================================================
