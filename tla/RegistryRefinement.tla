-------------------------- MODULE RegistryRefinement --------------------------
(***************************************************************************)
(* KeyBindings implements BindingRegistry.  The refinement mapping reads  *)
(* the abstract list off the two keyspace maps the way GetKeyBindingList() *)
(* does (every entry of both maps, by binding index) and forgets the      *)
(* indices; the hotkey index is the code's hotkeys map itself.             *)
(***************************************************************************)
EXTENDS KeyBindings

\* The abstract list: GetKeyBindingList() without the binding indices
RegistryOf(st) ==
    LET all == AllBindingsOf(st.code, st.scan)
    IN [i \in DOMAIN all |-> [action |-> all[i].action, keyChain |-> all[i].keyChain,
                              boundWith |-> all[i].boundWith]]

Registry == INSTANCE BindingRegistry WITH
                registry <- RegistryOf(Store),
                hotkeyIndex <- hotkeys

(* Every ExecuteCommand line the store runs is a step of the registry (or  *)
(* leaves it alone): the two maps keyed by trigger, the counter that       *)
(* orders them across keyspaces and its reset by unbindall, the per-keyset *)
(* dedupe of AddActionToKeyMap, the Any bit forced by Bind and the hotkey  *)
(* rebuild at the end of a successful line together behave as one ordered *)
(* list of bindings with an index kept in step.                            *)
RegistrySpec == Registry!Spec

=============================================================================
