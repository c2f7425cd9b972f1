------------------------- MODULE MCTypeEncoderCache -------------------------
(* type T struct { next *T; value any }. *)
EXTENDS TypeEncoderCache

MCTypes == {"T", "*T", "any"}
MCParts == [t \in MCTypes |->
  CASE t = "T" -> <<"*T", "any">> [] t = "*T" -> <<"T">> [] OTHER -> << >>]
=============================================================================
