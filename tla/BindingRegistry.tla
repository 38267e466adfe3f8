--------------------------- MODULE BindingRegistry ---------------------------
(***************************************************************************)
(* What the binding store promises its callers (spec 4.2, 4.4, 4.5),      *)
(* without keyspaces, keyset maps or binding indices: one list of         *)
(* bindings in the order they were made, and the hotkey index derived     *)
(* from it.  A binding is its action line, its key chain (the trigger's   *)
(* modifiers a wildcard for a stateful command) and the shortcut text it  *)
(* was bound with.  A line is registered at most once per trigger chord.  *)
(*                                                                         *)
(* unbindaction is stated as the code behaves (UnBindAction's ||): it     *)
(* removes the command from the code keyspace when it is bound there, and *)
(* from the scan keyspace only otherwise.  The spec's stronger contract   *)
(* is the violation run unbindaction_both_spaces.                          *)
(***************************************************************************)
EXTENDS Sequences, SequencesExt

CONSTANTS Keys, Mods, ANY, Lines, NoCommand, Command, HotkeyName, Stateful,
          Shortcuts, ParseFail, ParsedChain, BaselineShortcut, BaselineLine,
          DefaultBindings

VARIABLES registry, hotkeyIndex

regVars == <<registry, hotkeyIndex>>

Commands == {Command[l] : l \in Lines} \ {NoCommand}
HotkeyNames == {HotkeyName[l] : l \in Lines}

TriggerOf(e) == Last(e.keyChain)
\* The one keyset an unbind text names, or ParseFail
ExactKeySet(s) ==
    IF ParsedChain[s] # ParseFail /\ Len(ParsedChain[s]) = 1
    THEN ParsedChain[s][1] ELSE ParseFail

\* The chain a bind registers: a stateful command's trigger matches any
\* modifiers
BoundChain(s, l) ==
    IF Command[l] \in Stateful
    THEN LET kc == ParsedChain[s] IN [kc EXCEPT ![Len(kc)].mod = ANY]
    ELSE ParsedChain[s]

Registered(r, s, l) ==
    \E i \in DOMAIN r : r[i].action = l /\ TriggerOf(r[i]) = Last(BoundChain(s, l))

\* bind: nothing when the text or the line does not parse or the line is
\* already on the trigger; else the binding goes to the end
Register(r, s, l) ==
    IF Command[l] = NoCommand \/ ParsedChain[s] = ParseFail \/ Registered(r, s, l)
    THEN r
    ELSE Append(r, [action |-> l, keyChain |-> BoundChain(s, l), boundWith |-> s])

Without(r, P(_)) == SelectSeq(r, LAMBDA e : ~P(e))

\* The hotkey index: for each command[+extra], the shortcut texts of its
\* bindings in the order they were made
Index(r) ==
    [n \in HotkeyNames |->
        LET sel == SelectSeq(r, LAMBDA e : HotkeyName[e.action] = n)
        IN [i \in DOMAIN sel |-> sel[i].boundWith]]

\* The keyspace unbindaction empties: code when the command is bound there
UnbindActionSpace(r, c) ==
    IF \E i \in DOMAIN r : Command[r[i].action] = c /\ TriggerOf(r[i]).space = "code"
    THEN "code" ELSE "scan"

Init ==
    /\ registry = <<>>
    /\ hotkeyIndex = Index(<<>>)

(* The operations, each as the registry it leaves after a call on r.     *)

RBind(r, s, l) == Register(r, s, l)

RUnBind(r, s, c) ==
    LET ks == ExactKeySet(s)
    IN Without(r, LAMBDA e : TriggerOf(e) = ks /\ Command[e.action] = c)

RUnBindKeyset(r, s) == LET ks == ExactKeySet(s) IN Without(r, LAMBDA e : TriggerOf(e) = ks)

RUnBindAction(r, c) ==
    LET sp == UnbindActionSpace(r, c)
    IN Without(r, LAMBDA e : TriggerOf(e).space = sp /\ Command[e.action] = c)

\* unbindall: only the baseline binding is left
RUnBindAll == Register(<<>>, BaselineShortcut, BaselineLine)

\* keydefaults: the default table bound in order
RKeyDefaults(r) == FoldLeft(LAMBDA acc, d : Register(acc, d[1], d[2]), r, DefaultBindings)

\* One call of an operation, and the hotkey index rebuilt from its result
Next ==
    \E after \in {registry'} :
        /\ \/ \E s \in Shortcuts, l \in Lines : after = RBind(registry, s, l)
           \/ \E s \in Shortcuts, c \in Commands : after = RUnBind(registry, s, c)
           \/ \E s \in Shortcuts : after = RUnBindKeyset(registry, s)
           \/ \E c \in Commands : after = RUnBindAction(registry, c)
           \/ after = RUnBindAll
           \/ after = RKeyDefaults(registry)
        /\ hotkeyIndex' = Index(after)

Spec == Init /\ [][Next]_regVars

=============================================================================
