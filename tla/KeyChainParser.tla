---------------------------- MODULE KeyChainParser ----------------------------
(***************************************************************************)
(* ParseKeyChain and ParseSingleChain (KeyBindings.cpp): a shortcut text   *)
(* becomes a CKeyChain, "," separating the chords.  When the text does not *)
(* parse, ParseKeyChain reads the commas one by one as the comma key       *)
(* instead, replacing each by its hex code, and reparses, recursively.     *)
(*                                                                         *)
(* A text is a sequence of symbols: key names, modifier prefixes           *)
(* ("Shift+"), Comma and HexComma, the text "0x2c" that replace() puts in  *)
(* a comma's place.  HexComma is one symbol although the code inserts four *)
(* characters: the recursion that follows only searches at or before the   *)
(* replaced position, which is unchanged, and CKeySet::Parse reads the     *)
(* token whatever its length.  size_t arithmetic is modulo SizeMax + 1,    *)
(* npos being SizeMax.  The keyset parser (KeySet.cpp is not part of this  *)
(* repository) accepts an optional modifier followed by one key.          *)
(***************************************************************************)
EXTENDS Integers, Sequences, SequencesExt, FiniteSets

CONSTANTS
    KeyNames,   \* key names a token may end with
    Modifiers,  \* modifier prefixes ("Shift+", "Ctrl+", ...)
    Comma,      \* ","
    HexComma,   \* IntToString(keyCodes.GetCode(","), "%#x")
    SizeMax,    \* std::string::npos, the largest size_t
    MaxKeyLen   \* bound on the length of a shortcut text

ASSUME Comma \notin KeyNames \cup Modifiers /\ HexComma \notin KeyNames \cup Modifiers
ASSUME SizeMax \in Nat /\ SizeMax > MaxKeyLen

Chars == KeyNames \cup Modifiers \cup {Comma}
NPos == SizeMax
Failed == [ok |-> FALSE, chain |-> <<>>]

VARIABLES keystr, parsed

parserVars == <<keystr, parsed>>

-----------------------------------------------------------------------------

\* CKeySet::Parse of one token: [mod, key] or a failure
TokenKeySet(tok) ==
    [mod |-> IF Len(tok) = 2 THEN tok[1] ELSE "none",
     key |-> IF Last(tok) = HexComma THEN Comma ELSE Last(tok)]
TokenParses(tok) ==
    \/ Len(tok) = 1 /\ tok[1] \in KeyNames \cup {HexComma}
    \/ Len(tok) = 2 /\ tok[1] \in Modifiers /\ tok[2] \in KeyNames \cup {HexComma}

(* Mutant of the token loop: while (getline(ss, kstr, ',')), which stops  *)
(* without a last empty piece, so "a," reads as "a" and "" as no chord.    *)
RECURSIVE TokensWhileGetline(_)
TokensWhileGetline(s) ==
    LET i == SelectInSeq(s, LAMBDA c : c = Comma)
    IN IF s = <<>> THEN <<>>
       ELSE IF i = 0 THEN <<s>>
       ELSE <<SubSeq(s, 1, i - 1)>> \o TokensWhileGetline(SubSeq(s, i + 1, Len(s)))

\* The tokens getline(kcstr, 256, ',') reads while ss.good(): every piece
\* between commas, the empty ones included
RECURSIVE Tokens(_)
Tokens(s) ==
    LET i == SelectInSeq(s, LAMBDA c : c = Comma)
    IN IF i = 0 THEN <<s>>
       ELSE <<SubSeq(s, 1, i - 1)>> \o Tokens(SubSeq(s, i + 1, Len(s)))

\* ParseSingleChain: every token must parse.  On failure the code leaves the
\* keysets parsed so far in kc, which no caller reads.
ParseSingleChain(s) ==
    LET toks == Tokens(s)
    IN IF \A i \in DOMAIN toks : TokenParses(toks[i])
       THEN [ok |-> TRUE, chain |-> [i \in DOMAIN toks |-> TokenKeySet(toks[i])]]
       ELSE Failed

\* std::string::rfind(',', pos): the last comma at an index <= pos, or npos
RFind(s, pos) ==
    LET I == {i \in 0..Len(s) - 1 : i <= pos /\ s[i + 1] = Comma}
    IN IF I = {} THEN NPos ELSE Max(I)

(* Mutant of ParseKeyChain: a comma that does not parse as a separator   *)
(* is only ever read as a key; the readings that keep it a separator and   *)
(* change an earlier comma are not tried.                                  *)
RECURSIVE ParseKeyChainAlwaysAsKey(_, _)
ParseKeyChainAlwaysAsKey(s, pos) ==
    LET cpos == RFind(s, pos)
        single == ParseSingleChain(s)
    IN IF single.ok THEN single
       ELSE IF cpos = NPos THEN Failed
       ELSE ParseKeyChainAlwaysAsKey(ReplaceAt(s, cpos + 1, HexComma), cpos)

\* ParseKeyChain(keystr, kc, pos)
RECURSIVE ParseKeyChain(_, _)
ParseKeyChain(s, pos) ==
    LET cpos == RFind(s, pos)
        single == ParseSingleChain(s)
        nextpos == (cpos - 1) % (SizeMax + 1)
        keepSeparator == ParseKeyChain(s, nextpos)
    IN IF single.ok THEN single
       ELSE IF cpos = NPos THEN Failed
       ELSE IF nextpos # NPos /\ keepSeparator.ok THEN keepSeparator
       ELSE ParseKeyChain(ReplaceAt(s, cpos + 1, HexComma), cpos)

(* Mutant of the cost: after replacing a comma the recursion starts over  *)
(* from the end of the text (pos npos) instead of at the replaced comma.   *)
RECURSIVE ParseCallsRestart(_, _)
ParseCallsRestart(s, pos) ==
    LET cpos == RFind(s, pos)
        nextpos == (cpos - 1) % (SizeMax + 1)
    IN IF ParseSingleChain(s).ok \/ cpos = NPos THEN 1
       ELSE 1 + (IF nextpos # NPos THEN ParseCallsRestart(s, nextpos) ELSE 0)
              + (IF nextpos # NPos /\ ParseKeyChain(s, nextpos).ok THEN 0
                 ELSE ParseCallsRestart(ReplaceAt(s, cpos + 1, HexComma), NPos))

\* The number of ParseSingleChain calls ParseKeyChain(s, pos) makes: one per
\* call, then the call that keeps the comma a separator (skipped when
\* cpos - 1 wraps to npos), then, if that one failed, the call on the text
\* with the comma replaced
RECURSIVE ParseCalls(_, _)
ParseCalls(s, pos) ==
    LET cpos == RFind(s, pos)
        nextpos == (cpos - 1) % (SizeMax + 1)
    IN IF ParseSingleChain(s).ok \/ cpos = NPos THEN 1
       ELSE 1 + (IF nextpos # NPos THEN ParseCalls(s, nextpos) ELSE 0)
              + (IF nextpos # NPos /\ ParseKeyChain(s, nextpos).ok THEN 0
                 ELSE ParseCalls(ReplaceAt(s, cpos + 1, HexComma), cpos))

-----------------------------------------------------------------------------
(* Bind parses the shortcut text of each bind line it is given.           *)

Init ==
    /\ keystr = <<>>
    /\ parsed = ParseKeyChain(<<>>, NPos)

\* Bind: ParseKeyChain(keystr, &keyBinding.keyChain)
ParseShortcut(s) ==
    /\ keystr' = s
    /\ parsed' = ParseKeyChain(s, NPos)

(* The texts are enumerated by extending the last one by a symbol, or     *)
(* starting over: every text of up to MaxKeyLen symbols is reached.        *)
NextTexts ==
    {Append(keystr, c) : c \in IF Len(keystr) < MaxKeyLen THEN Chars ELSE {}} \cup {<<>>}

Next == \E s \in NextTexts : ParseShortcut(s)

Spec == Init /\ [][Next]_parserVars

-----------------------------------------------------------------------------
(* Properties *)

KeySetValues == [mod : Modifiers \cup {"none"}, key : KeyNames \cup {Comma}]

(* Types, and: a text that parses gives at least one chord, whatever its  *)
(* commas (Bind's keyChain.empty() check is a second line of defence).    *)
ParserTypeOK ==
    /\ keystr \in BoundedSeq(Chars, MaxKeyLen)
    /\ parsed \in [ok : BOOLEAN, chain : Seq(KeySetValues)]
    /\ parsed.ok => parsed.chain # <<>>

(* The text with the commas at positions sep kept as separators and every  *)
(* other comma read as the comma key.                                       *)
CommaPositions(s) == {i \in DOMAIN s : s[i] = Comma}
Reading(s, sep) == [i \in DOMAIN s |-> IF i \in CommaPositions(s) \ sep THEN HexComma ELSE s[i]]
\* sep keeps a later comma as a separator than other does, at the last
\* position where the two readings differ
KeepsLaterSeparator(sep, other) ==
    LET d == (sep \ other) \cup (other \ sep) IN d # {} /\ Max(d) \in sep

(* The comment of ParseKeyChain: when the plain reading fails, commas are  *)
(* turned into keys until the text parses (",,," parses as "0x2c,0x2c").  *)
(* Across every text of up to MaxKeyLen symbols: ParseKeyChain succeeds    *)
(* exactly when some reading of the commas parses, and it returns the      *)
(* reading that keeps the rightmost commas as separators, the order in     *)
(* which its recursion (cpos - 1, with the npos wrap at position 0) tries  *)
(* them.  (With a keyset grammar of an optional modifier and one key, at   *)
(* most one reading parses; the order matters for richer key names.)      *)
ValidReadings(s) == {sep \in SUBSET CommaPositions(s) : ParseSingleChain(Reading(s, sep)).ok}

ParseMatchesReference ==
    LET valid == ValidReadings(keystr)
    IN IF valid = {} THEN parsed = Failed
       ELSE LET best == CHOOSE sep \in valid :
                          \A other \in valid : ~KeepsLaterSeparator(other, sep)
            IN parsed = ParseSingleChain(Reading(keystr, best))

(* The cost of a shortcut text that does not parse (Bind is given the text *)
(* the user typed).  With k commas, every comma is tried both ways before  *)
(* ParseKeyChain gives up: a text no reading of which parses costs exactly *)
(* 2^(k+1) - 1 ParseSingleChain calls, or 3 * 2^(k-1) - 1 when it starts   *)
(* with a comma (at position 0, cpos - 1 wraps to npos and that comma is   *)
(* only tried as a key); no text of k commas costs more.                    *)
ParseCostBound ==
    LET k == Cardinality(CommaPositions(keystr))
        calls == ParseCalls(keystr, NPos)
    IN /\ calls <= 2^(k + 1) - 1
       /\ ValidReadings(keystr) = {} =>
            calls = IF k > 0 /\ keystr[1] = Comma THEN 3 * 2^(k - 1) - 1 ELSE 2^(k + 1) - 1

=============================================================================
