CONSTANTS
    Keys <- MC_Keys
    Mods <- MC_Mods
    ANY = "any"
    Lines <- MC_Lines
    NoCommand = ""
    Command <- MC_Command
    HotkeyName <- MC_HotkeyName
    Stateful <- MC_Stateful
    Shortcuts <- MC_Shortcuts
    ParseFail = ParseFail
    ParsedChain <- MC_ParsedChain
    MetaTexts <- MC_MetaTexts
    NoneText = "none"
    NoMetaKey = NoMetaKey
    DefaultMetaText = "space"
    BaselineShortcut = "enter"
    BaselineLine = "chat"
    DefaultBindings <- MC_DefaultBindings
    MaxBindings = 8
    Files <- MC_Files
    NoFile = NoFile
    DefaultFile = "uikeys.txt"
    Content <- MC_Content
    TopLines <- MC_TopLines
    LoadBudget = 5
    OutFile = "uikeys.tmp"
    DebugArgs = {0, 1}
    NoArg = NoArg
    NotSaved = NotSaved

SPECIFICATION CmdSpec

INVARIANTS
    CmdTypeOK
    HotkeysConsistent
    
    LoadOfSavedFileRestores

PROPERTIES
    LoadTerminates
