------------------------ MODULE MC_RegistryRefinement ------------------------
EXTENDS RegistryRefinement, MC_KeyBindings

(* The refinement mapping reads the store and hotkeys, never lastOp.       *)
RefinementView == <<codeBindings, scanBindings, bindingsCount, hotkeys>>
=============================================================================
