------------------------- MODULE MC_KeyChainParser -------------------------
(* Texts of up to six symbols over one key, one modifier and the comma.   *)
EXTENDS KeyChainParser
=============================================================================
