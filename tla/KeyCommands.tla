----------------------------- MODULE KeyCommands -----------------------------
(***************************************************************************)
(* The command interpreter of CKeyBindings: ExecuteCommand and Load, with  *)
(* keys files that load other keys files (keyload, keyreload), the load    *)
(* stack that refuses a cyclic inclusion, and the buildHotkeyMap flag that *)
(* Load clears while a file runs and restores afterwards.                  *)
(*                                                                         *)
(* It extends KeyBindings: the mutators are KeyBindings' store operators.  *)
(* A Load is not one step: each line of the file on top of the stack is a *)
(* step, so the interpreter's state between lines (the frames and the      *)
(* flag) is visible.  frames[i] is the i-th active Load: its file, the     *)
(* position of the next line, and the flag value it saved.                *)
(*                                                                         *)
(* PushAction is the entry for the game's actions: "keysave" writes        *)
(* FileSave's lines to a file that later loads read (disk is the content  *)
(* of every file), the printing commands change nothing, and every other  *)
(* action goes to ExecuteCommand.  A keys file is read by Load, which     *)
(* calls ExecuteCommand only: a "keysave" line in a file is a command      *)
(* ExecuteCommand does not know, and does nothing.                         *)
(***************************************************************************)
EXTENDS Persistence

CONSTANTS
    Files,        \* keys file names
    NoFile,       \* keyload / keyreload written without a file name
    DefaultFile,  \* CKeyBindings::DEFAULT_FILENAME
    Content,      \* Content[f]: the clean command lines of file f (<<>> if absent)
    TopLines,     \* the command lines a user or the game may issue
    LoadBudget,   \* bindings one top-level line may add, at most
    OutFile,      \* keysave's defaultOutFilename, "uikeys.tmp"
    DebugArgs,    \* atoi of the word after "keydebug"
    NoArg,        \* "keydebug" written alone
    NotSaved      \* savedShape of a file keysave never wrote

LoadCmds == {"keyload", "keyreload"}
CmdLines ==
    [cmd : {"bind"}, shortcut : Shortcuts, line : Lines]
    \cup [cmd : {"unbind"}, shortcut : Shortcuts, command : Commands]
    \cup [cmd : {"unbindkeyset"}, shortcut : Shortcuts]
    \cup [cmd : {"unbindaction"}, command : Commands]
    \cup [cmd : {"fakemeta"}, shortcut : MetaTexts \cup Shortcuts]
    \cup [cmd : {"unbindall", "keydefaults"}]
    \cup [cmd : LoadCmds \cup {"keysave"}, file : Files \cup {NoFile}]
    \cup [cmd : {"keydebug"}, arg : DebugArgs \cup {NoArg}]
MutatorCmds == {"bind", "unbind", "unbindkeyset", "unbindaction", "fakemeta",
                "unbindall", "keydefaults"}

ASSUME DefaultFile \in Files /\ NoFile \notin Files /\ OutFile \in Files
ASSUME DebugArgs \subseteq Int
ASSUME \A f \in Files : Content[f] \in Seq(CmdLines)
ASSUME TopLines \subseteq CmdLines /\ LoadBudget \in 0..MaxBindings

VARIABLES buildHotkeyMap, frames, debugEnabled, disk,
          savedShape  \* history: Shape of the store each file was saved from

cmdVars == <<codeBindings, scanBindings, bindingsCount, hotkeys, lastOp, fakeMetaKey,
             buildHotkeyMap, frames, debugEnabled, disk, savedShape>>
fileVars == <<debugEnabled, disk, savedShape>>

\* CKeyBindings::loadStack
loadStack == [i \in DOMAIN frames |-> frames[i].file]

-----------------------------------------------------------------------------

SetStore(st) ==
    /\ codeBindings' = st.code
    /\ scanBindings' = st.scan
    /\ bindingsCount' = st.count
    /\ fakeMetaKey' = st.meta

\* Mutant: the caller's position advances twice (a loop that also
\* increments its cursor)
AdvanceCallerTwice(fs) ==
    IF fs = <<>> THEN fs
    ELSE [fs EXCEPT ![Len(fs)].pc = @ + 2]

\* The line that called the Load that just finished, or the line just run,
\* is done: the frame below moves to its next line.
AdvanceCaller(fs) ==
    IF fs = <<>> THEN fs
    ELSE [fs EXCEPT ![Len(fs)].pc = @ + 1]

\* ExecuteCommand of a mutator line; BuildHotkeyMap only if it succeeded
\* and buildHotkeyMap is set.
ExecMutator(ln) ==
    LET r == Mutate(Store, ln) IN
    /\ ln.cmd \in MutatorCmds
    /\ SetStore(r.st)
    /\ hotkeys' = IF r.ok /\ buildHotkeyMap
                  THEN BuildHotkeyMap(r.st.code, r.st.scan) ELSE hotkeys
    /\ frames' = AdvanceCaller(frames)
    /\ UNCHANGED <<buildHotkeyMap, lastOp>>
    /\ UNCHANGED fileVars

(* What "keyload"/"keyreload" do before calling Load: keyreload runs       *)
(* ExecuteCommand("unbindall") and ExecuteCommand("unbind enter chat"),    *)
(* each rebuilding the hotkeys if the flag is set; both run LoadDefaults   *)
(* when written without a file name and no Load is active.                 *)
PreLoad(ln) ==
    LET st0 == Store
        st1 == IF ln.cmd = "keyreload" THEN UnBindAll(st0) ELSE st0
        r2 == IF ln.cmd = "keyreload"
              THEN UnBind(st1, BaselineShortcut, Command[BaselineLine])
              ELSE Result(st1, FALSE)
        st3 == IF frames = <<>> /\ ln.file = NoFile THEN LoadDefaults(r2.st) ELSE r2.st
        hk == CASE ln.cmd = "keyreload" /\ buildHotkeyMap /\ r2.ok
                     -> BuildHotkeyMap(r2.st.code, r2.st.scan)
                [] ln.cmd = "keyreload" /\ buildHotkeyMap
                     -> BuildHotkeyMap(st1.code, st1.scan)
                [] OTHER -> hotkeys
    IN [st |-> st3, hotkeys |-> hk]

LoadFile(ln) == IF ln.file = NoFile THEN DefaultFile ELSE ln.file

\* Load's cyclic inclusion check
IsCyclic(f) == \E i \in DOMAIN loadStack : loadStack[i] = f

\* Load refuses a file already on the stack; ExecuteCommand's tail follows.
ExecLoadRefused(ln) ==
    LET pre == PreLoad(ln) IN
    /\ ln.cmd \in LoadCmds
    /\ IsCyclic(LoadFile(ln))
    /\ SetStore(pre.st)
    /\ hotkeys' = IF buildHotkeyMap THEN BuildHotkeyMap(pre.st.code, pre.st.scan)
                  ELSE pre.hotkeys
    /\ frames' = AdvanceCaller(frames)
    /\ UNCHANGED <<buildHotkeyMap, lastOp>>
    /\ UNCHANGED fileVars

ExecLoadStart(ln) ==
    LET pre == PreLoad(ln) IN
    /\ ln.cmd \in LoadCmds
    /\ ~IsCyclic(LoadFile(ln))
    /\ SetStore(pre.st)
    /\ hotkeys' = pre.hotkeys
    /\ frames' = Append(frames, [file |-> LoadFile(ln), pc |-> 1, saved |-> buildHotkeyMap])
    /\ buildHotkeyMap' = FALSE
    /\ UNCHANGED <<lastOp, fileVars>>

\* "keydebug" toggles the flag, "keydebug <n>" sets it to atoi(n) != 0;
\* ExecuteCommand's tail rebuilds the hotkeys if buildHotkeyMap is set
ExecKeyDebug(ln) ==
    /\ ln.cmd = "keydebug"
    /\ debugEnabled' = IF ln.arg = NoArg THEN ~debugEnabled ELSE ln.arg # 0
    /\ hotkeys' = IF buildHotkeyMap THEN BuildHotkeyMap(codeBindings, scanBindings)
                  ELSE hotkeys
    /\ frames' = AdvanceCaller(frames)
    /\ UNCHANGED <<codeBindings, scanBindings, bindingsCount, fakeMetaKey, lastOp,
                   buildHotkeyMap, disk, savedShape>>

\* A command ExecuteCommand does not know ("keysave" in a file): the final
\* else returns false, before the rebuild
ExecUnhandled(ln) ==
    /\ ln.cmd = "keysave"
    /\ frames' = AdvanceCaller(frames)
    /\ UNCHANGED <<codeBindings, scanBindings, bindingsCount, fakeMetaKey, lastOp,
                   hotkeys, buildHotkeyMap, fileVars>>

ExecuteCommand(ln) ==
    \/ ExecMutator(ln) \/ ExecLoadRefused(ln) \/ ExecLoadStart(ln)
    \/ ExecKeyDebug(ln) \/ ExecUnhandled(ln)

\* Load's loop: the parser has another line of the file on top
InFile == frames # <<>> /\ Last(frames).pc <= Len(disk[Last(frames).file])
CurrentLine == disk[Last(frames).file][Last(frames).pc]

\* Mutant: Load returns without restoring the saved flag
EndOfFileKeepsFlag ==
    /\ frames # <<>>
    /\ ~InFile
    /\ hotkeys' = hotkeys
    /\ frames' = AdvanceCaller(Front(frames))
    /\ UNCHANGED <<codeBindings, scanBindings, bindingsCount, fakeMetaKey, lastOp, buildHotkeyMap>>
    /\ UNCHANGED fileVars

\* Mutant: the calling line is not marked done, so it runs again
EndOfFileRerunsCaller ==
    /\ frames # <<>>
    /\ ~InFile
    /\ buildHotkeyMap' = Last(frames).saved
    /\ hotkeys' = IF Last(frames).saved THEN BuildHotkeyMap(codeBindings, scanBindings)
                  ELSE hotkeys
    /\ frames' = Front(frames)
    /\ UNCHANGED <<codeBindings, scanBindings, bindingsCount, fakeMetaKey, lastOp>>
    /\ UNCHANGED fileVars

\* Load after its loop: pop, restore the flag, return true; the calling
\* ExecuteCommand rebuilds the hotkeys if the restored flag is set.
EndOfFile ==
    /\ frames # <<>>
    /\ ~InFile
    /\ buildHotkeyMap' = Last(frames).saved
    /\ hotkeys' = IF Last(frames).saved THEN BuildHotkeyMap(codeBindings, scanBindings)
                  ELSE hotkeys
    /\ frames' = AdvanceCaller(Front(frames))
    /\ UNCHANGED <<codeBindings, scanBindings, bindingsCount, fakeMetaKey, lastOp>>
    /\ UNCHANGED fileVars

\* The model's bound: a line that may add bindings is issued only while
\* LoadBudget more fit under MaxBindings; removals are always possible.
WithinBound(ln) ==
    \/ ln.cmd \in {"unbind", "unbindkeyset", "unbindaction", "keysave", "keydebug"}
    \/ bindingsCount + LoadBudget <= MaxBindings

\* Save(filename): fopen(filename, "wt") and FileSave.  When fopen fails
\* nothing changes, a step the specification allows as stuttering.
Save(f) ==
    /\ disk' = [disk EXCEPT ![f] = FileSave(Store)]
    /\ savedShape' = [savedShape EXCEPT ![f] = Shape(Store)]

\* PushAction("keysave [file]"): Save to the file, by default uikeys.tmp
KeySave(ln) ==
    /\ ln.cmd = "keysave"
    /\ Save(IF ln.file = NoFile THEN OutFile ELSE ln.file)
    /\ UNCHANGED <<codeBindings, scanBindings, bindingsCount, fakeMetaKey, lastOp,
                   hotkeys, buildHotkeyMap, frames, debugEnabled>>

\* PushAction: keysave saves; keyprint, keysyms and keycodes only print;
\* everything else is ExecuteCommand of the raw line
PushAction(ln) ==
    \/ KeySave(ln)
    \/ ExecMutator(ln) \/ ExecLoadStart(ln) \/ ExecKeyDebug(ln)

\* A top-level action, issued only when no Load is running (so the load
\* stack is empty and Load cannot refuse it as cyclic)
UserCommand ==
    /\ frames = <<>>
    /\ \E ln \in TopLines : WithinBound(ln) /\ PushAction(ln)

LoadStep == (InFile /\ ExecuteCommand(CurrentLine)) \/ EndOfFile

\* CKeyBindings::Kill then Init, as between two games: Kill clears both
\* maps, the hotkeys and the load stack; Init sets fakeMetaKey to -1, the
\* flag and debugEnabled.  Neither touches bindingsCount.  Both run on the
\* game's thread, never inside a Load; the files on disk remain.
Restart ==
    /\ frames = <<>>
    /\ codeBindings' = EmptyMap("code")
    /\ scanBindings' = EmptyMap("scan")
    /\ hotkeys' = [n \in HotkeyNames |-> <<>>]
    /\ frames' = <<>>
    /\ fakeMetaKey' = NoMetaKey
    /\ buildHotkeyMap' = TRUE
    /\ debugEnabled' = FALSE
    /\ UNCHANGED <<bindingsCount, lastOp, disk, savedShape>>

CmdInit ==
    /\ Init
    /\ buildHotkeyMap = TRUE
    /\ frames = <<>>
    /\ debugEnabled = FALSE
    /\ disk = Content
    /\ savedShape = [f \in Files |-> NotSaved]

CmdNext == UserCommand \/ LoadStep \/ Restart

\* Load runs its loop to completion on the calling thread: once a Load is
\* active, its steps are not postponed forever.  The user is not fair.
CmdSpec == CmdInit /\ [][CmdNext]_cmdVars /\ WF_cmdVars(LoadStep)

-----------------------------------------------------------------------------
(* Properties *)

CmdTypeOK ==
    /\ TypeOK
    /\ buildHotkeyMap \in BOOLEAN
    /\ frames \in Seq([file : Files, pc : Nat, saved : BOOLEAN])
    /\ \A i \in DOMAIN frames : frames[i].pc \in 1..Len(disk[frames[i].file]) + 1
    /\ debugEnabled \in BOOLEAN
    /\ disk \in [Files -> Seq(CmdLines)]

(* Whenever no Load is running, the hotkey map is what BuildHotkeyMap      *)
(* makes of the current bindings: the flag that Load and LoadDefaults      *)
(* suppress is back on, and the last line that changed the bindings was    *)
(* followed by a rebuild.                                                  *)
HotkeysConsistent ==
    frames = <<>> => hotkeys = BuildHotkeyMap(codeBindings, scanBindings)

LoadTerminates == frames # <<>> ~> frames = <<>>

(* A file written by keysave, whenever a Load of it returns (from the top  *)
(* level, with keyload or keyreload, named or as the default file, or      *)
(* from inside another keys file), has put back the bindings the store had *)
(* when it was saved, in the same order: the saved header's unbindall and  *)
(* "unbind enter chat", run line by line by the interpreter with the flag  *)
(* cleared, undo whatever the store held before the load began and        *)
(* whatever the calling keyreload or LoadDefaults bound.                   *)
LoadOfSavedFileRestores ==
    LET f == Last(frames).file IN
    frames # <<>> /\ ~InFile /\ savedShape[f] # NotSaved => Shape(Store) = savedShape[f]

=============================================================================
