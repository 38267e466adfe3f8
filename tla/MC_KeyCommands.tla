--------------------------- MODULE MC_KeyCommands ---------------------------
(* KeyCommands over the keys, lines and shortcuts of MC_KeyBindings, with  *)
(* two keys files that include each other and themselves and a file that  *)
(* does not exist; uikeys.tmp, keysave's default, is written by keysave   *)
(* and loaded from the top level and from extra.txt, which also holds a    *)
(* keysave line (ignored by Load) and a keydebug line.                     *)
EXTENDS KeyCommands, MC_KeyBindings

BindLn(s, l) == [cmd |-> "bind", shortcut |-> s, line |-> l]
UnbindActionLn(c) == [cmd |-> "unbindaction", command |-> c]
LoadLn(c, f) == [cmd |-> c, file |-> f]

MC_Files == {"uikeys.txt", "extra.txt", "missing.txt", "uikeys.tmp"}
MC_Content ==
    [f \in MC_Files |->
        CASE f = "uikeys.txt" ->
               << BindLn("a", "attack"),
                  LoadLn("keyload", "extra.txt"),
                  BindLn("sc_a", "attack"),
                  LoadLn("keyload", "uikeys.txt") >>
          [] f = "extra.txt" ->
               << UnbindActionLn("attack"),
                  BindLn("Shift+a", "moveforward"),
                  LoadLn("keyreload", "extra.txt"),
                  LoadLn("keyload", "missing.txt"),
                  LoadLn("keysave", NoFile),
                  [cmd |-> "keydebug", arg |-> 1],
                  LoadLn("keyload", "uikeys.tmp"),
                  LoadLn("keyload", NoFile) >>
          [] OTHER -> << >>]

MC_TopLines ==
    { BindLn("a", "attack"), BindLn("sc_a", "attack"), BindLn("a,,", "attack"),
      UnbindActionLn("attack"),
      [cmd |-> "unbind", shortcut |-> "enter", command |-> "chat"],
      LoadLn("keyload", NoFile), LoadLn("keyload", "extra.txt"),
      LoadLn("keyreload", "uikeys.txt"),
      LoadLn("keysave", NoFile), LoadLn("keyload", "uikeys.tmp"),
      [cmd |-> "keydebug", arg |-> NoArg], [cmd |-> "keydebug", arg |-> 0] }
=============================================================================
