------------------------- MODULE MCConnectionRegistry -------------------------
(* ConnectionRegistry with room for three connections and five clients.       *)
EXTENDS ConnectionRegistry
=============================================================================
