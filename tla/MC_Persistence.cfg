CONSTANTS
    Keys <- MC_Keys
    Mods <- MC_Mods
    ANY = "any"
    Lines <- MC_Lines
    NoCommand = ""
    Command <- MC_Command
    HotkeyName <- MC_HotkeyName
    Stateful <- MC_Stateful
    Shortcuts <- MC_Shortcuts
    ParseFail = ParseFail
    ParsedChain <- MC_ParsedChain
    MetaTexts <- MC_MetaTexts
    NoneText = "none"
    NoMetaKey = NoMetaKey
    DefaultMetaText = "space"
    BaselineShortcut = "enter"
    BaselineLine = "chat"
    DefaultBindings <- MC_DefaultBindings
    MaxBindings = 3

SPECIFICATION Spec
VIEW StoreView
INVARIANTS
    SaveRoundTrip
