------------------------------ MODULE MCServer ------------------------------
(* Three peers and descriptors for two, for TLC. *)
EXTENDS Server
=============================================================================
