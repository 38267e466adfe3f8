----------------------------- MODULE Persistence -----------------------------
(***************************************************************************)
(* CKeyBindings::FileSave and the replay of the file it writes.            *)
(*                                                                         *)
(* FileSave writes a header that clears the store ("unbindall", "unbind    *)
(* enter chat"), the user key symbols (not part of this model), the fake  *)
(* meta key when one is set, then one "bind <boundWith> <rawline>" per     *)
(* binding of GetKeyBindingList(), in binding-index order.  The file      *)
(* is modelled as the sequence of parsed command lines a later Load feeds  *)
(* to ExecuteCommand: CSimpleParser::GetCleanLine drops the comments, the  *)
(* padding of %18s and the blank lines, so a line is its command and its  *)
(* words.  Replaying is ExecuteCommand's mutator of each line in order.    *)
(***************************************************************************)
EXTENDS KeyBindings

\* "bind %18s  %s": the shortcut as the user typed it and the raw action line
SavedBind(b) == [cmd |-> "bind", shortcut |-> b.boundWith, line |-> b.action]

\* The header: "unbindall" and "unbind enter chat"
SaveHeader ==
    << [cmd |-> "unbindall"],
       [cmd |-> "unbind", shortcut |-> BaselineShortcut, command |-> Command[BaselineLine]] >>

ASSUME \A k \in Keys : \E s \in MetaTexts \cup Shortcuts :
           ParsedKeySet(s) # ParseFail /\ ParsedKeySet(s).key = k /\ ParsedKeySet(s).space = "code"

\* keyCodes.GetName(k): a name of the key that CKeySet::Parse reads back
MetaName(k) ==
    CHOOSE s \in MetaTexts \cup Shortcuts :
        ParsedKeySet(s) # ParseFail /\ ParsedKeySet(s).key = k /\ ParsedKeySet(s).space = "code"

\* "fakemeta %s", written only if fakeMetaKey >= 0
MetaLine(st) ==
    IF st.meta = NoMetaKey THEN <<>>
    ELSE << [cmd |-> "fakemeta", shortcut |-> MetaName(st.meta)] >>

(* Mutant of FileSave: the header leaves out "unbind enter chat".          *)
FileSaveKeepsBaseline(st) ==
    LET all == AllBindingsOf(st.code, st.scan)
    IN << [cmd |-> "unbindall"] >> \o MetaLine(st) \o [i \in DOMAIN all |-> SavedBind(all[i])]

\* FileSave: the header, the fake meta key, then every binding in
\* binding-index order
FileSave(st) ==
    LET all == AllBindingsOf(st.code, st.scan)
    IN SaveHeader \o MetaLine(st) \o [i \in DOMAIN all |-> SavedBind(all[i])]

\* Load of the saved file: ExecuteCommand of every line, in order
Replay(st, lines) == FoldLeft(LAMBDA acc, ln : Mutate(acc, ln).st, st, lines)

\* "keyreload" without a file name, no Load running: ExecuteCommand of
\* "unbindall" and "unbind enter chat", LoadDefaults, then Load of the file
Reload(st, lines) ==
    LET cleared == UnBind(UnBindAll(st), BaselineShortcut, Command[BaselineLine]).st
    IN Replay(LoadDefaults(cleared), lines)

-----------------------------------------------------------------------------
(* Properties *)

(* What a store holds, up to the values of the binding indices: every      *)
(* binding (its line, its chain with the Any bit as stored, its shortcut   *)
(* text) in binding-index order.  The keyset and keyspace of a binding are *)
(* its chain's trigger, and resolution reads nothing of the index but its *)
(* order, so two stores with one shape resolve every input alike.          *)
Shape(st) ==
    LET all == AllBindingsOf(st.code, st.scan)
    IN [i \in DOMAIN all |-> [action |-> all[i].action, keyChain |-> all[i].keyChain,
                              boundWith |-> all[i].boundWith]]

(* Spec, section 8 (round trip): saving every binding with FileSave and    *)
(* replaying the saved file through ExecuteCommand gives back the same     *)
(* bindings in the same order, whatever history of bind, unbind, unbind-   *)
(* action, unbindall, fakemeta and keydefaults built the store, whether    *)
(* the file is loaded by "keyload <file>" or as the default file by        *)
(* "keyreload", which binds the defaults first: the header's unbindall and *)
(* "unbind enter chat", re-parsing the boundWith text (with the Any bit    *)
(* forced again for stateful commands) and the line-only dedupe of         *)
(* AddActionToKeyMap must together undo nothing and add nothing.           *)
SaveRoundTrip ==
    /\ Shape(Replay(Store, FileSave(Store))) = Shape(Store)
    /\ Shape(Reload(Store, FileSave(Store))) = Shape(Store)

(* FileSave writes the fake meta key "if it has been defined" (its         *)
(* comment), so that the file restores it.  Reloading the saved file with  *)
(* "keyreload" gives back the fake meta key it was saved with.             *)
FakeMetaSurvivesReload == Reload(Store, FileSave(Store)).meta = Store.meta

=============================================================================
