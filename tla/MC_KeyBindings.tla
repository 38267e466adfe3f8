--------------------------- MODULE MC_KeyBindings ---------------------------
(* A small instance of KeyBindings: three keys (space only as the fake    *)
(* meta key), one concrete modifier beside "none", a plain, a chained, a  *)
(* wildcard and a scan-code shortcut for the same key, a stateful command *)
(* and a line with no command word, and fakemeta texts that set, clear or *)
(* are refused.                                                            *)
EXTENDS KeyBindings

MC_Keys == {"a", "enter", "space"}
MC_Mods == {"none", "shift"}
MC_Lines == {"attack", "attack queued", "moveforward", "chat", "   "}
MC_Command == [l \in MC_Lines |->
                 CASE l = "attack queued" -> "attack"
                   [] l = "   "           -> ""
                   [] OTHER               -> l]
MC_HotkeyName == [l \in MC_Lines |-> l]
MC_Stateful == {"moveforward"}

Code(k, m) == [key |-> k, mod |-> m, space |-> "code"]
Scan(k, m) == [key |-> k, mod |-> m, space |-> "scan"]

MC_Shortcuts == {"a", "Shift+a", "Any+a", "sc_a", "a,a", "enter", "a,,"}
(* The texts a fakemeta line gives: "none", the default "space", a key, a *)
(* modified key, a scan code and a chain.                                 *)
MC_MetaTexts == {"none", "space", "Shift+a", "sc_a", "a,a"}

MC_ParsedChain ==
    [s \in MC_Shortcuts \cup MC_MetaTexts |->
        CASE s = "a"       -> <<Code("a", "none")>>
          [] s = "Shift+a" -> <<Code("a", "shift")>>
          [] s = "Any+a"   -> <<Code("a", "any")>>
          [] s = "sc_a"    -> <<Scan("a", "none")>>
          [] s = "a,a"     -> <<Code("a", "none"), Code("a", "none")>>
          [] s = "enter"   -> <<Code("enter", "none")>>
          [] s = "space"   -> <<Code("space", "none")>>
          [] OTHER         -> ParseFail]

(* lastOp is read only by the properties about the last command line; the *)
(* runs that do not check those identify states by the binding store.     *)
StoreView == <<codeBindings, scanBindings, bindingsCount>>

MC_DefaultBindings == << <<"a", "attack">>, <<"sc_a", "attack">> >>
=============================================================================
