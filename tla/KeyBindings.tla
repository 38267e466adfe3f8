----------------------------- MODULE KeyBindings -----------------------------
(***************************************************************************)
(* The binding store, its mutators and the resolution engine of           *)
(* CKeyBindings (src/rts/Game/UI/KeyBindings.cpp).                         *)
(*                                                                         *)
(* State: the two keyspace maps codeBindings and scanBindings (KeySet of a *)
(* chain's trigger chord -> list of KeyBinding), the global counter        *)
(* bindingsCount, the derived reverse map hotkeys and fakeMetaKey, which  *)
(* fakemeta and LoadDefaults set and FileSave writes.  Every action is one *)
(* top-level ExecuteCommand line, executed to completion with the hotkey   *)
(* map rebuilt at its end, as ExecuteCommand does when buildHotkeyMap is   *)
(* set.  Resolution (GetKeyBindingList) is a pure operator over the state. *)
(*                                                                         *)
(* Data is abstract: shortcut texts, action lines and commands are small   *)
(* constant sets; parsing a shortcut (CKeySet::Parse, ParseKeyChain) is    *)
(* the constant table ParsedChain.  A map absent key and an empty list are *)
(* the same value <<>>: the code erases every list it empties.             *)
(***************************************************************************)
EXTENDS Integers, Sequences, SequencesExt, FiniteSets, TLC

CONSTANTS
    Keys,            \* key identifiers, shared by both keyspaces
    Mods,            \* concrete modifier states (bitmasks without the Any bit)
    ANY,             \* the modifier state of a keyset whose Any bit is set
    Lines,           \* action lines (Action::line)
    NoCommand,       \* Action::command of a line with no command word
    Command,         \* Command[l]: Action(l).command
    HotkeyName,      \* HotkeyName[l]: command + (" " + extra if extra non-empty)
    Stateful,        \* statefulCommands (CKeyBindings::Init)
    Shortcuts,       \* shortcut texts as typed (KeyBinding::boundWith)
    ParseFail,       \* result of a shortcut text that does not parse
    ParsedChain,     \* ParsedChain[s]: the CKeyChain ParseKeyChain(s) yields
    MetaTexts,       \* the key names a fakemeta line may give
    NoneText,        \* "none", which SetFakeMetaKey reads as no key
    NoMetaKey,       \* fakeMetaKey = -1
    DefaultMetaText, \* "space", the fake meta key LoadDefaults sets
    BaselineShortcut,\* "enter", bound by unbindall
    BaselineLine,    \* "chat", bound by unbindall
    DefaultBindings, \* defaultBindings[]: a sequence of <<shortcut, line>>
    MaxBindings      \* bound on bindingsCount

ASSUME ANY \notin Mods /\ ParseFail \notin Seq(Keys)
ASSUME MaxBindings \in Nat
ASSUME NoneText \in MetaTexts /\ DefaultMetaText \in MetaTexts /\ NoMetaKey \notin Keys

Spaces == {"code", "scan"}
KeySets == [key : Keys, mod : Mods \cup {ANY}, space : Spaces]
KeySetsOf(sp) == {ks \in KeySets : ks.space = sp}
Commands == {Command[l] : l \in Lines} \ {NoCommand}
HotkeyNames == {HotkeyName[l] : l \in Lines}

KeyBinding == [action : Lines, keyChain : Seq(KeySets), boundWith : Shortcuts,
               bindingIndex : 1..MaxBindings]

(* What the last ExecuteCommand line was, and whether its mutator        *)
(* returned true.  Only the properties read it.                          *)
Ops == [op : {"bind"}, shortcut : Shortcuts, line : Lines, ok : BOOLEAN]
       \cup [op : {"unbind"}, shortcut : Shortcuts, command : Commands, ok : BOOLEAN]
       \cup [op : {"unbindkeyset"}, shortcut : Shortcuts, ok : BOOLEAN]
       \cup [op : {"unbindaction"}, command : Commands, ok : BOOLEAN]
       \cup [op : {"fakemeta"}, shortcut : MetaTexts, ok : BOOLEAN]
       \cup [op : {"unbindall", "keydefaults", "none"}]

VARIABLES codeBindings, scanBindings, bindingsCount, hotkeys, lastOp, fakeMetaKey

Store == [code |-> codeBindings, scan |-> scanBindings, count |-> bindingsCount,
          meta |-> fakeMetaKey]
vars == <<codeBindings, scanBindings, bindingsCount, hotkeys, lastOp, fakeMetaKey>>

-----------------------------------------------------------------------------
(* KeySet / KeyChain (KeySet.cpp is not part of this repository; these    *)
(* follow the spec, section 3 and 4.1).                                   *)

\* CKeySet::AnyMod
AnyMod(ks) == ks.mod = ANY
\* CKeySet::SetAnyBit: the keyset matches whatever modifiers are held
SetAnyBit(ks) == [ks EXCEPT !.mod = ANY]
\* CKeySet::Parse of a single keyset (UnBind, UnBindKeyset)
ParsedKeySet(s) ==
    IF ParsedChain[s] # ParseFail /\ Len(ParsedChain[s]) = 1
    THEN ParsedChain[s][1] ELSE ParseFail
\* A bound chord fits a live chord: same key and keyspace, and the same
\* modifiers unless the bound chord has the Any bit.
ChordFits(bound, live) ==
    /\ bound.key = live.key
    /\ bound.space = live.space
    /\ bound.mod \in {ANY, live.mod}
\* CKeyChain::fit: the needle matches the back of the live chain; every
\* chord before the trigger must lie within the chain timeout (inTime).
Fits(live, inTime, needle) ==
    /\ Len(needle) <= Len(live)
    /\ Len(needle) > 1 => inTime
    /\ \A j \in 0..Len(needle) - 1 :
          ChordFits(needle[Len(needle) - j], live[Len(live) - j])

Trigger(b) == Last(b.keyChain)

-----------------------------------------------------------------------------
(* Binding store *)

\* AddActionToKeyMap: append to the list of the trigger keyset with a fresh
\* index, unless an entry with the same action line is already there.
IsBound(list, b) == \E i \in DOMAIN list : list[i].action = b.action

(* Mutants of AddActionToKeyMap: the index taken before the increment     *)
(* (bindingsCount++), and the duplicate check left out.                    *)
AddActionToKeyMapPostIncrement(map, b, count) ==
    IF IsBound(map[Trigger(b)], b) THEN map
    ELSE [map EXCEPT ![Trigger(b)] = Append(@, [b EXCEPT !.bindingIndex = count])]
AddActionToKeyMapNoDedupe(map, b, count) ==
    [map EXCEPT ![Trigger(b)] = Append(@, [b EXCEPT !.bindingIndex = count + 1])]

AddActionToKeyMap(map, b, count) ==
    IF IsBound(map[Trigger(b)], b) THEN map
    ELSE [map EXCEPT ![Trigger(b)] = Append(@, [b EXCEPT !.bindingIndex = count + 1])]

\* RemoveCommandFromList
RemoveCommandFromList(list, c) == SelectSeq(list, LAMBDA b : Command[b.action] # c)
HasCommand(list, c) == \E i \in DOMAIN list : Command[list[i].action] = c

\* RemoveActionFromKeyMap: every list of the map, empties erased
RemoveActionFromKeyMap(c, map) == [ks \in DOMAIN map |-> RemoveCommandFromList(map[ks], c)]
MapHasCommand(map, c) == \E ks \in DOMAIN map : HasCommand(map[ks], c)

(* Mutant of Bind: the Any bit of a stateful command's trigger not set.  *)
NewBindingNoAnyBit(s, l) ==
    [action |-> l, keyChain |-> ParsedChain[s], boundWith |-> s, bindingIndex |-> 1]

\* The KeyBinding that Bind(s, l) builds: the parsed chain, its trigger
\* forced to Any for a stateful command.
NewBinding(s, l) ==
    LET kc == ParsedChain[s]
        chain == IF Command[l] \in Stateful
                 THEN [kc EXCEPT ![Len(kc)] = SetAnyBit(@)] ELSE kc
    IN [action |-> l, keyChain |-> chain, boundWith |-> s, bindingIndex |-> 1]

BindFails(s, l) == Command[l] = NoCommand \/ ParsedChain[s] = ParseFail

(* The mutators below act on a store value st = [code, scan, count, meta] *)
(* (codeBindings, scanBindings, bindingsCount, fakeMetaKey) and return     *)
(* [st, ok], ok being the boolean the C++ function returns.               *)
EmptyMap(sp) == [ks \in KeySetsOf(sp) |-> <<>>]
MapIn(st, sp) == IF sp = "code" THEN st.code ELSE st.scan
WithMap(st, sp, m) == IF sp = "code" THEN [st EXCEPT !.code = m] ELSE [st EXCEPT !.scan = m]
Result(st, ok) == [st |-> st, ok |-> ok]

\* Bind
Bind(st, s, l) ==
    IF BindFails(s, l) THEN Result(st, FALSE)
    ELSE LET b == NewBinding(s, l)
             map == MapIn(st, Trigger(b).space)
             added == ~IsBound(map[Trigger(b)], b)
         IN Result([WithMap(st, Trigger(b).space, AddActionToKeyMap(map, b, st.count))
                      EXCEPT !.count = IF added THEN @ + 1 ELSE @], TRUE)

\* UnBind: parse one keyset, remove the command from that keyset's list
UnBind(st, s, c) ==
    LET ks == ParsedKeySet(s) IN
    IF ks = ParseFail \/ MapIn(st, ks.space)[ks] = <<>> THEN Result(st, FALSE)
    ELSE LET map == MapIn(st, ks.space)
         IN Result(WithMap(st, ks.space, [map EXCEPT ![ks] = RemoveCommandFromList(@, c)]),
                   HasCommand(map[ks], c))

\* UnBindKeyset: drop the whole list of one exact keyset
UnBindKeyset(st, s) ==
    LET ks == ParsedKeySet(s) IN
    IF ks = ParseFail \/ MapIn(st, ks.space)[ks] = <<>> THEN Result(st, FALSE)
    ELSE Result(WithMap(st, ks.space, [MapIn(st, ks.space) EXCEPT ![ks] = <<>>]), TRUE)

\* UnBindAction: RemoveActionFromKeyMap(code) || RemoveActionFromKeyMap(scan);
\* the scan map is visited only when nothing was removed from the code map.
UnBindAction(st, c) ==
    IF MapHasCommand(st.code, c)
    THEN Result([st EXCEPT !.code = RemoveActionFromKeyMap(c, @)], TRUE)
    ELSE Result([st EXCEPT !.scan = RemoveActionFromKeyMap(c, @)], MapHasCommand(st.scan, c))

\* "unbindall": clear both maps, reset the counter, bind the bare minimum;
\* the fake meta key is left as it is
UnBindAll(st) ==
    Bind([st EXCEPT !.code = EmptyMap("code"), !.scan = EmptyMap("scan"), !.count = 0],
         BaselineShortcut, BaselineLine).st

\* SetFakeMetaKey: "none" clears it; else a key-code keyset's key, its
\* modifiers ignored; a text that does not parse or names a scan code fails
SetFakeMetaKey(st, s) ==
    LET ks == ParsedKeySet(s) IN
    IF s = NoneText THEN Result([st EXCEPT !.meta = NoMetaKey], TRUE)
    ELSE IF ks = ParseFail \/ ks.space # "code" THEN Result(st, FALSE)
    ELSE Result([st EXCEPT !.meta = ks.key], TRUE)

\* LoadDefaults: the fake meta key "space", then Bind every entry of the
\* default table, in order
LoadDefaults(st) ==
    FoldLeft(LAMBDA acc, d : Bind(acc, d[1], d[2]).st,
             SetFakeMetaKey(st, DefaultMetaText).st, DefaultBindings)

\* The mutators of ExecuteCommand's if-chain, on a store value; ln is a
\* parsed command line [cmd, shortcut, line, command]
Mutate(st, ln) ==
    CASE ln.cmd = "bind"         -> Bind(st, ln.shortcut, ln.line)
      [] ln.cmd = "unbind"       -> UnBind(st, ln.shortcut, ln.command)
      [] ln.cmd = "unbindkeyset" -> UnBindKeyset(st, ln.shortcut)
      [] ln.cmd = "unbindaction" -> UnBindAction(st, ln.command)
      [] ln.cmd = "fakemeta"     -> SetFakeMetaKey(st, ln.shortcut)
      [] ln.cmd = "unbindall"    -> Result(UnBindAll(st), TRUE)
      [] ln.cmd = "keydefaults"  -> Result(LoadDefaults(st), TRUE)

-----------------------------------------------------------------------------
(* Resolution engine *)

EntriesOf(map) == UNION {ToSet(map[ks]) : ks \in DOMAIN map}
ByBindingIndex(S) == SetToSortSeq(S, LAMBDA x, y : x.bindingIndex < y.bindingIndex)

\* GetKeyBindingList() with no arguments: every binding, by binding index
AllBindingsOf(cm, sm) == ByBindingIndex(EntriesOf(cm) \cup EntriesOf(sm))

\* BuildHotkeyMap: command[+extra] -> boundWith of its bindings, in order
BuildHotkeyMap(cm, sm) ==
    LET all == AllBindingsOf(cm, sm)
    IN [n \in HotkeyNames |->
          [i \in 1..Len(SelectSeq(all, LAMBDA b : HotkeyName[b.action] = n)) |->
             SelectSeq(all, LAMBDA b : HotkeyName[b.action] = n)[i].boundWith]]

\* GetKeyBindingList(const CKeySet&, bool forceAny)
LookupList(ks, forceAny) ==
    MapIn(Store, ks.space)[IF forceAny THEN SetAnyBit(ks) ELSE ks]

\* FilterByKeychain
FilterByKeychain(in, kc, inTime) == SelectSeq(in, LAMBDA b : Fits(kc, inTime, b.keyChain))

\* compareActionByTriggerOrder
CompareActionByTriggerOrder(a, b) ==
    IF AnyMod(Trigger(a)) = AnyMod(Trigger(b))
    THEN a.bindingIndex < b.bindingIndex
    ELSE AnyMod(Trigger(b))

\* std::inplace_merge: stable; an element of the right run goes first only
\* if it compares strictly less.
RECURSIVE InplaceMerge(_, _)
InplaceMerge(l, r) ==
    IF l = <<>> THEN r
    ELSE IF r = <<>> THEN l
    ELSE IF CompareActionByTriggerOrder(Head(r), Head(l))
         THEN <<Head(r)>> \o InplaceMerge(l, Tail(r))
         ELSE <<Head(l)>> \o InplaceMerge(Tail(l), r)

(* Mutant of MergeStep: a lower-indexed B duplicate is added without      *)
(* erasing its A equivalent.                                               *)
MergeStepKeepsDuplicate(aBegin, st, aB) ==
    LET dups == {a \in aBegin..st.aEnd : st.out[a].action = aB.action}
    IN IF dups = {} \/ aB.bindingIndex < st.out[Min(dups)].bindingIndex
       THEN [st EXCEPT !.out = Append(@, aB)]
       ELSE st

\* One iteration of the loop over list B: st.out is the output, A occupies
\* st.out[aBegin..st.aEnd]; the first A entry with B's line decides.
MergeStep(aBegin, st, aB) ==
    LET dups == {a \in aBegin..st.aEnd : st.out[a].action = aB.action}
        a == Min(dups)
    IN IF dups = {} THEN [st EXCEPT !.out = Append(@, aB)]
       ELSE IF aB.bindingIndex >= st.out[a].bindingIndex THEN st
       ELSE [out |-> Append(RemoveAt(st.out, a), aB), aEnd |-> st.aEnd - 1]

\* MergeActionListsByTrigger: the merge of listA and listB appended to out
MergeActionListsByTrigger(listA, listB, out) ==
    IF listA = <<>> THEN out \o listB
    ELSE IF listB = <<>> THEN out \o listA
    ELSE LET aBegin == Len(out) + 1
             st == FoldLeft(LAMBDA acc, aB : MergeStep(aBegin, acc, aB),
                            [out |-> out \o listA, aEnd |-> Len(out) + Len(listA)],
                            listB)
         IN SubSeq(st.out, 1, aBegin - 1)
            \o InplaceMerge(SubSeq(st.out, aBegin, st.aEnd),
                            SubSeq(st.out, st.aEnd + 1, Len(st.out)))

\* GetKeyBindingList(const CKeyChain& kc, const CKeyChain& sc)
GetKeyBindingList(kc, sc, inTime) ==
    LET kList1 == IF ~AnyMod(Last(kc))
                  THEN FilterByKeychain(LookupList(Last(kc), FALSE), kc, inTime) ELSE <<>>
        sList1 == IF ~AnyMod(Last(sc))
                  THEN FilterByKeychain(LookupList(Last(sc), FALSE), sc, inTime) ELSE <<>>
        merged == MergeActionListsByTrigger(kList1, sList1, <<>>)
        kList2 == FilterByKeychain(LookupList(Last(kc), TRUE), kc, inTime)
        sList2 == FilterByKeychain(LookupList(Last(sc), TRUE), sc, inTime)
    IN MergeActionListsByTrigger(kList2, sList2, merged)

-----------------------------------------------------------------------------
(* Operations: one ExecuteCommand line each, hotkeys rebuilt at the end. *)

\* Apply a mutator's result and ExecuteCommand's tail: BuildHotkeyMap runs
\* only when the mutator succeeded (a failure returns before it).
Apply(r) ==
    /\ codeBindings' = r.st.code
    /\ scanBindings' = r.st.scan
    /\ bindingsCount' = r.st.count
    /\ fakeMetaKey' = r.st.meta
    /\ hotkeys' = IF r.ok THEN BuildHotkeyMap(r.st.code, r.st.scan) ELSE hotkeys

Init ==
    /\ codeBindings = EmptyMap("code")
    /\ scanBindings = EmptyMap("scan")
    /\ bindingsCount = 0
    /\ hotkeys = [n \in HotkeyNames |-> <<>>]
    /\ lastOp = [op |-> "none"]
    /\ fakeMetaKey = NoMetaKey

\* "bind <s> <l>"
ExecBind(s, l) ==
    /\ bindingsCount < MaxBindings
    /\ Apply(Bind(Store, s, l))
    /\ lastOp' = [op |-> "bind", shortcut |-> s, line |-> l, ok |-> Bind(Store, s, l).ok]

\* "unbind <s> <c>"
ExecUnBind(s, c) ==
    /\ Apply(UnBind(Store, s, c))
    /\ lastOp' = [op |-> "unbind", shortcut |-> s, command |-> c, ok |-> UnBind(Store, s, c).ok]

\* "unbindkeyset <s>"
ExecUnBindKeyset(s) ==
    /\ Apply(UnBindKeyset(Store, s))
    /\ lastOp' = [op |-> "unbindkeyset", shortcut |-> s, ok |-> UnBindKeyset(Store, s).ok]

\* "unbindaction <c>"
ExecUnBindAction(c) ==
    /\ Apply(UnBindAction(Store, c))
    /\ lastOp' = [op |-> "unbindaction", command |-> c, ok |-> UnBindAction(Store, c).ok]

\* "fakemeta <s>"
ExecFakeMeta(s) ==
    /\ Apply(SetFakeMetaKey(Store, s))
    /\ lastOp' = [op |-> "fakemeta", shortcut |-> s, ok |-> SetFakeMetaKey(Store, s).ok]

\* "unbindall"
ExecUnBindAll ==
    /\ Apply(Result(UnBindAll(Store), TRUE))
    /\ lastOp' = [op |-> "unbindall"]

\* "keydefaults"
ExecKeyDefaults ==
    /\ bindingsCount + Len(DefaultBindings) <= MaxBindings
    /\ Apply(Result(LoadDefaults(Store), TRUE))
    /\ lastOp' = [op |-> "keydefaults"]

Next ==
    \/ \E s \in Shortcuts, l \in Lines : ExecBind(s, l)
    \/ \E s \in Shortcuts, c \in Commands : ExecUnBind(s, c)
    \/ \E s \in Shortcuts : ExecUnBindKeyset(s)
    \/ \E c \in Commands : ExecUnBindAction(c)
    \/ \E s \in MetaTexts : ExecFakeMeta(s)
    \/ ExecUnBindAll
    \/ ExecKeyDefaults

Spec == Init /\ [][Next]_vars


-----------------------------------------------------------------------------
(* Properties *)

TypeOK ==
    /\ codeBindings \in [KeySetsOf("code") -> Seq(KeyBinding)]
    /\ scanBindings \in [KeySetsOf("scan") -> Seq(KeyBinding)]
    /\ bindingsCount \in 0..MaxBindings
    /\ hotkeys \in [HotkeyNames -> Seq(Shortcuts)]
    /\ lastOp \in Ops
    /\ fakeMetaKey \in Keys \cup {NoMetaKey}

AllEntries == EntriesOf(codeBindings) \cup EntriesOf(scanBindings)

(* MergeActionListsByTrigger assumes that every list it gets is sorted by  *)
(* binding index and holds no action line twice, and it tells duplicates  *)
(* apart by line alone.  Through every sequence of bind, unbind,          *)
(* unbindall (which resets bindingsCount) and keydefaults: each keyset's  *)
(* list is strictly increasing in bindingIndex and free of repeated lines,*)
(* and no two bindings anywhere share an index up to bindingsCount.       *)
MergePreconditions ==
    /\ \A ks \in KeySets :
         LET list == MapIn(Store, ks.space)[ks]
         IN \A i, j \in DOMAIN list :
              i < j => /\ list[i].bindingIndex < list[j].bindingIndex
                       /\ list[i].action # list[j].action
    /\ \A b1, b2 \in AllEntries :
         b1.bindingIndex = b2.bindingIndex => b1 = b2
    /\ \A b \in AllEntries : b.bindingIndex <= bindingsCount

(* Live input: a press is a key with the concrete modifiers held; the     *)
(* same press gives a chord in each keyspace (the code and scan chains    *)
(* GetKeyBindingList(kc, sc) receives).  inTime: the chain's earlier      *)
(* chords lie within KeyChainTimeout.                                     *)
Presses == [key : Keys, mod : Mods]
LiveChains == {<<p>> : p \in Presses} \cup {<<p, q>> : p, q \in Presses}
ChainIn(live, sp) ==
    [i \in DOMAIN live |-> [key |-> live[i].key, mod |-> live[i].mod, space |-> sp]]
Resolve(live, inTime) == GetKeyBindingList(ChainIn(live, "code"), ChainIn(live, "scan"), inTime)

(* Section 4.3 of the spec, declaratively: the bindings whose trigger is  *)
(* the live trigger chord (then: its Any variant) in either keyspace and  *)
(* whose chain fits; of the bindings sharing a line only the lowest index *)
(* survives; exact-modifier survivors by index, then Any survivors by     *)
(* index.                                                                 *)
Candidates(live, inTime, triggers) ==
    {b \in AllEntries : /\ Trigger(b) \in triggers
                        /\ Fits(ChainIn(live, Trigger(b).space), inTime, b.keyChain)}
Survivors(C) ==
    {b \in C : \A c \in C : c.action = b.action => b.bindingIndex <= c.bindingIndex}
ReferenceResolution(live, inTime) ==
    LET exact == {Last(ChainIn(live, sp)) : sp \in Spaces}
    IN ByBindingIndex(Survivors(Candidates(live, inTime, exact)))
       \o ByBindingIndex(Survivors(Candidates(live, inTime, {SetAnyBit(ks) : ks \in exact})))

(* The resolution engine (GetKeyBindingList(kc, sc): two lookups per      *)
(* keyspace, FilterByKeychain, MergeActionListsByTrigger with its         *)
(* erase-and-inplace_merge) returns exactly the reference list for every  *)
(* live chain in every reachable binding store.                           *)
ResolutionMatchesReference ==
    \A live \in LiveChains, inTime \in BOOLEAN :
        Resolve(live, inTime) = ReferenceResolution(live, inTime)

(* A live chain that presses exactly the chords of a chain, a concrete   *)
(* modifier standing for Any.                                            *)
PressesFor(chain) ==
    [i \in DOMAIN chain |-> [key |-> chain[i].key,
                             mod |-> IF chain[i].mod = ANY THEN CHOOSE m \in Mods : TRUE
                                     ELSE chain[i].mod]]

(* Spec, section 8: a bind followed by a lookup of the same input returns *)
(* the bound action.  After a "bind" line that Bind accepted, pressing    *)
(* the bound chain (in time) resolves to a list holding that line.        *)
BoundActionResolves ==
    lastOp.op = "bind" /\ lastOp.ok =>
        LET r == Resolve(PressesFor(ParsedChain[lastOp.shortcut]), TRUE)
        IN \E i \in DOMAIN r : r[i].action = lastOp.line

(* Spec, section 4.5: unbindaction removes the command from both          *)
(* keyspaces.  After an "unbindaction c" line no binding of c is left in  *)
(* codeBindings or in scanBindings.                                       *)
UnBindActionClearsBothKeyspaces ==
    lastOp.op = "unbindaction" =>
        /\ ~MapHasCommand(codeBindings, lastOp.command)
        /\ ~MapHasCommand(scanBindings, lastOp.command)

=============================================================================
