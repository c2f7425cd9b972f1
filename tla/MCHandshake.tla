---------------------------- MODULE MCHandshake ----------------------------
(* TLC instance of Handshake: every kind of client, and sums at both ends   *)
(* of the range and on either side of the modulus 728.                      *)
EXTENDS Handshake
============================================================================
