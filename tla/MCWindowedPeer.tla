-------------------------- MODULE MCWindowedPeer --------------------------
(* TLC instance of WindowedPeer: budgets on both sides of the bounds of the *)
(* properties, for windows 3 and 5 and fields of at most 3 bytes.           *)
EXTENDS WindowedPeer
===========================================================================
