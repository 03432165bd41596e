-------------------------- MODULE MCLanguageServer --------------------------
(***************************************************************************)
(* The language server over main.vr and a math.vr beside it, two texts:    *)
(* every file starts with the same text or is not there yet, and the       *)
(* package comes later if it does.  And, with the server at rest, a file   *)
(* as its author left it, with at most one token lost, changed or put in,  *)
(* through the parser and the fix-its it gets.                             *)
(***************************************************************************)
EXTENDS LanguageServer, SourceText
MCFiles == {"main.vr", "math.vr"}
MCMain == "main.vr"
MCBeside == MCFiles
MCText == {"A", "B"}
MCInit ==
  /\ Init /\ manifest = FALSE /\ disk["math.vr"] = "A" /\ disk["main.vr"] # "B"
  /\ FileStart(<<>>)
MCNext == file = <<>> /\ Next /\ UNCHANGED svars
MCSpec == MCInit /\ [][MCNext]_<<vars, svars>>

\* readBy is history that only MCElsewhere's property reads and nothing else
\* depends on: states that differ in it alone count as one here.
MCView == <<disks, editor, inbox, session, published, fixes, shownBy, changed, sent, svars>>
-----------------------------------------------------------------------------
Functions ==
  {<<"fn", "x">> \o g \o <<"(">> \o a \o <<")">> \o r \o <<"{", "}">> :
    g \in {<<>>, <<"<", "'a", ">">>},
    a \in {<<>>, <<"mut", "x", ":", "T">>, <<"x", ":", "&", "'a", "mut", "T", ",", "y", ":", "&", "T">>},
    r \in {<<>>, <<"->", "&", "str">>, <<"->", "&", "'a", "mut", "T", "<", "x", ">">>}}
Impls ==
  {<<"impl">> \o t \o <<"{", "pub", "fn", "x", "(">> \o s \o p \o <<")", "{", "}", "}">> :
    t \in {<<"T">>, <<"y", "for", "T">>},
    s \in {<<"self">>, <<"&", "self">>, <<"&", "mut", "self">>, <<"mut", "self">>, <<"self", ":", "T">>},
    p \in {<<>>, <<",", "x", ":", "&", "mut", "T">>}}
Declarations == {
  <<"#", "[", "x", "(", "-", "1", ")", "]", "pub", "(", "crate", ")", "struct", "T", "{",
    "#", "[", "x", "]", "pub", "x", ":", "T", "<", "x", ",", ">", ",", "}">>,
  <<"enum", "T", "{", "x", ",", "y", "(", "crate", "::", "T", ",", ")", ",",
    "T", "{", "pub", "(", "super", ")", "x", ":", "T", ",", "}", "}">>,
  <<"pub", "use", "crate", "::", "x", "::", "T", ";", "use", "x", "as", "y", ";", "mod", "x", ";">>,
  <<"pub", "async", "fn", "x", "(", ")", "{", "}",
    "#", "[", "x", "(", "y", "(", ")", ")", "]", "fn", "y", "(", ")", "{", "}">>}
Bodies == {
  <<"let", "mut", "x", ":", "T", "=", "&", "mut", "x", ".", "y", "(", "&", "x", ",", ")", ";",
    "x", "=", "vec", "!", "[", "1", ",", "]", ";">>,
  <<"if", "x", "==", "&", "y", "{", "return", ";", "}", "else", "if", "let", "T", "(", "x", ")", "=", "y",
    "{", "}", "&", "x">>,
  <<"while", "x", "<", "y", "(", "T", "{", "x", ":", "1", "}", ")", "{", "break", ";", "}",
    "return", "&", "x", "[", "1", "]", ";">>,
  <<"for", "x", "in", "(", "1", ")", "..=", "y", "{", "println", "!", "(", "text", ",", "&", "x", ")", ";", "}">>,
  <<"match", "x", "{", "T", "{", "x", ",", "y", ":", "-", "1", "..=", "1", "}", "=>", "{", "}",
    "_", "=>", "y", "as", "T", ",", "}">>,
  <<"x", "(", "|", "x", ":", "T", "<", "y", ">", ",", "y", ",", "|", "&", "x", "-", "y", ",",
    "move", "||", "x", ".", "await", "?", ")">>,
  <<"if", "x", "{", "}", "&", "(", "x", ")">>,
  <<"while", "let", "crate", "::", "T", "=", "x", "{", "}", "{", "x", "}", "-", "x", "*", "y", "&&", "!", "y">>}
Written == Functions \cup Impls \cup Declarations \cup {<<"fn", "x", "(", ")", "{">> \o b \o <<"}">> : b \in Bodies}

Slipped ==
  {"x", "_", "T", "str", "1", "'a", "&", "mut", "self", "pub", "crate", "as", "trait", ",", ":", "::", ";", "|",
   "=", "==", "=>", "(", ")", "{", "}", "<", ">", "[", "-", "..", "->", "#", ".", "if", "let", "fn"}

InitSource ==
  /\ Init /\ manifest = FALSE /\ disk = [f \in Files |-> "A"]
  /\ \E ts \in Written : FileStart(ts)
Slip ==
  /\ reading = <<>>
  /\ \E i \in DOMAIN file : \E edit \in {<<>>} \cup {<<t>> : t \in Slipped} \cup {<<t, file[i]>> : t \in Slipped} :
       file' = SubSeq(file, 1, i - 1) \o edit \o SubSeq(file, i + 1, Len(file))
  /\ reading' = Parsed(file')

EditorNext == MCNext \/ (file # <<>> /\ (SourceNext \/ Slip) /\ UNCHANGED vars)
EditorSpec == (MCInit \/ InitSource) /\ [][EditorNext]_<<vars, svars>>
=============================================================================
