--------------------------- MODULE MC_Persistence ---------------------------
(* Persistence over the keys, lines and shortcuts of MC_KeyBindings.       *)
EXTENDS Persistence, MC_KeyBindings

(* The store with the fake meta key, for the property that reads it.       *)
MetaView == <<codeBindings, scanBindings, bindingsCount, fakeMetaKey>>
=============================================================================
