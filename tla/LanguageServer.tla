---- MODULE LanguageServer ----
(***************************************************************************)
(* `varyk lsp`: what the server keeps between messages, next to the disk   *)
(* it reads and the editor it talks to.                                    *)
(*                                                                         *)
(* The files are one tree with a `main.vr` (Main) that is also the root    *)
(* file of the package there is when a Cargo.toml is found upward.  What a *)
(* check finds is any set of files with diagnostics and any fix-its among  *)
(* the files it read; a text is a value.  The editor's messages queue in   *)
(* order; what the server sends arrives at once.                           *)
(***************************************************************************)
EXTENDS Naturals, Sequences

CONSTANTS
    Files,       \* the .vr files
    Main,        \* the one named main.vr
    Beside,      \* those in Main's own directory
    Text,        \* what a file can hold
    NoText,      \* what a file that is not there holds, or a closed buffer
    Pkg,         \* the package's key, its directory
    Nobody,      \* no program
    MaxQueue,    \* bound: messages waiting for the server
    MaxSent,     \* bound: messages the editor sends
    MaxOutside   \* bound: changes made outside the editor

ASSUME ConstantsAssumption ==
    /\ Main \in Files /\ Beside \subseteq Files
    /\ Pkg \notin Files /\ Nobody \notin Files \cup {Pkg}
    /\ NoText \notin Text
    /\ MaxQueue \in Nat /\ MaxSent \in Nat /\ MaxOutside \in Nat

VARIABLES
    \* the disk
    disk,         \* disk[f]: f's text
    manifest,     \* there is a Cargo.toml
    \* the editor
    buffer,       \* buffer[f]: f's text in the editor, NoText when closed
    inbox,        \* messages the server has not read
    asking,       \* its code action request: none, still wanted, or outdated
    shownBy,      \* shownBy[f]: the program whose diagnostics f shows
    \* the server
    initialized, shutDown, exited, folders,
    published,    \* published[k]: files k's last check published for
    fixes,        \* fixes[k]: the fix-its it kept
    changed,      \* documents changed since they were last saved
    \* history and bounds
    overtaken,    \* overtaken[f]: f changed on disk while open, unsaved since
    readBy,       \* readBy[f]: the program whose check read f last
    sent, outside

disks   == <<disk, manifest, outside>>
editor  == <<buffer, asking, overtaken>>
session == <<initialized, shutDown, exited, folders>>
kept    == <<published, fixes, shownBy, readBy>>
vars    == <<disks, editor, inbox, session, kept, changed, sent>>

Keys == Files \cup {Pkg}
Fix  == [document : Files, file : Files, text : Text]
Message == [kind : {"initialize", "shutdown", "exit"}]
           \cup [kind : {"didOpen"}, file : Files, text : Text]
           \cup [kind : {"didChange", "didSave", "didClose", "codeAction"}, file : Files]

Init ==
    /\ disk \in [Files -> Text \cup {NoText}]
    /\ manifest \in BOOLEAN
    /\ buffer = [f \in Files |-> NoText]
    /\ inbox = <<>> /\ asking = "no"
    /\ shownBy = [f \in Files |-> Nobody]
    /\ initialized = FALSE /\ shutDown = FALSE /\ exited = FALSE /\ folders = FALSE
    /\ published = [k \in Keys |-> {}]
    /\ fixes = [k \in Keys |-> {}]
    /\ changed = {}
    /\ overtaken = [f \in Files |-> FALSE]
    /\ readBy = [f \in Files |-> Nobody]
    /\ sent = 0 /\ outside = 0

----
\* The program `f` belongs to, as its key, and its entry.
Exists(f) == disk[f] # NoText
ProgramOf(f) ==
    IF manifest /\ Exists(Main) THEN Pkg
    ELSE IF Exists(Main) /\ (f \in Beside \/ folders) THEN Main
    ELSE f
Entry(k) == IF k = Pkg THEN Main ELSE k

\* f leaves every program but its own; a program that is f alone goes whole.
Gone(f, k) ==
    IF k = ProgramOf(f) THEN {}
    ELSE IF k = f THEN published[k] ELSE published[k] \cap {f}
\* Mutant: of a program that is one file, only that
\* file is cleared.
LeftAlone(f) == UNION {Gone(f, k) : k \in Keys} \cap {f}

Left(f) == UNION {Gone(f, k) : k \in Keys}
\* Mutant: a program a file leaves keeps its fix-its.
KeptFixesAll(f, k) == IF k = f /\ k # ProgramOf(f) THEN {} ELSE fixes[k]

KeptFixes(f, k) ==
    IF k = ProgramOf(f) THEN fixes[k]
    ELSE IF k = f THEN {} ELSE {x \in fixes[k] : x.document # f}

\* The check panics, or the entry cannot be read: its program stays as it is.
CheckFails(f) ==
    /\ published' = [k \in Keys |-> published[k] \ Gone(f, k)]
    /\ fixes' = [k \in Keys |-> KeptFixes(f, k)]
    /\ shownBy' = [g \in Files |-> IF g \in Left(f) THEN Nobody ELSE shownBy[g]]
    /\ readBy' = readBy

\* Mutant: a module that is not there is read.
ReadsMissing(k, read) == Entry(k) \in read

Reads(k, read) == Entry(k) \in read /\ \A g \in read : Exists(g)

\* The check reads the entry and the modules it reaches and finds `groups` and
\* `found` in them: the server publishes for each file with diagnostics now,
\* and an empty list for the ones that had some.
CheckFinds(f, read, groups, found) ==
    LET key == ProgramOf(f) IN
    /\ Reads(key, read)
    /\ groups \subseteq read
    /\ \A x \in found : x.document \in groups /\ x.file \in read /\ x.text = disk[x.file]
    /\ published' = [k \in Keys |-> IF k = key THEN groups ELSE published[k] \ Gone(f, k)]
    /\ fixes' = [k \in Keys |-> IF k = key THEN found ELSE KeptFixes(f, k)]
    /\ shownBy' = [g \in Files |->
                     IF g \in groups THEN key
                     ELSE IF g \in Left(f) \cup published[key] THEN Nobody
                     ELSE shownBy[g]]
    /\ readBy' = [g \in Files |-> IF g \in read THEN key ELSE readBy[g]]

\* At most one fix-it per check: `found` is a set only for its emptiness.
Check(f) ==
    \/ CheckFails(f)
    \/ \E read \in SUBSET Files : \E groups \in SUBSET read :
        \/ CheckFinds(f, read, groups, {})
        \/ \E d \in groups, g \in read :
            CheckFinds(f, read, groups, {[document |-> d, file |-> g, text |-> disk[g]]})

----
\* The messages the server handles, one at a time.
Takes(kind) ==
    /\ ~exited /\ inbox # <<>> /\ Head(inbox).kind = kind
    /\ inbox' = Tail(inbox)
Named == Head(inbox).file

Initialize ==
    /\ Takes("initialize")
    /\ IF shutDown \/ initialized
       THEN UNCHANGED session
       ELSE /\ initialized' = TRUE
            /\ folders' \in BOOLEAN
            /\ UNCHANGED <<shutDown, exited>>
    /\ UNCHANGED <<disks, editor, kept, changed, sent>>

Shutdown ==
    /\ Takes("shutdown")
    /\ shutDown' = (shutDown \/ initialized)
    /\ UNCHANGED <<disks, editor, initialized, exited, folders, kept, changed, sent>>

Exit ==
    /\ Takes("exit")
    /\ exited' = TRUE
    /\ UNCHANGED <<disks, editor, initialized, shutDown, folders, kept, changed, sent>>

\* Mutant: a file that is opened is taken as saved.
TakenAsSaved == FALSE

\* The text is compared with the disk's, as it is when the message is handled.
OpensUnsaved == Head(inbox).text # disk[Named]

DidOpen ==
    /\ Takes("didOpen")
    /\ IF initialized
       THEN /\ changed' = IF OpensUnsaved THEN changed \cup {Named} ELSE changed \ {Named}
            /\ Check(Named)
       ELSE UNCHANGED <<changed, kept>>
    /\ UNCHANGED <<disks, editor, session, sent>>

DidChange ==
    /\ Takes("didChange")
    /\ changed' = IF initialized THEN changed \cup {Named} ELSE changed
    /\ UNCHANGED <<disks, editor, session, kept, sent>>

DidSave ==
    /\ Takes("didSave")
    /\ IF initialized
       THEN changed' = changed \ {Named} /\ Check(Named)
       ELSE UNCHANGED <<changed, kept>>
    /\ UNCHANGED <<disks, editor, session, sent>>

DidClose ==
    /\ Takes("didClose")
    /\ changed' = IF initialized THEN changed \ {Named} ELSE changed
    /\ UNCHANGED <<disks, editor, session, kept, sent>>

\* Mutant: only the document asked about is looked up.
OfferedUnsaved(d) ==
    {x \in UNION {fixes[k] : k \in Keys} :
        /\ initialized /\ ~shutDown
        /\ x.document = d
        /\ x.document \notin changed
        /\ disk[x.file] = x.text}

\* The fix-its a code action request for d gets now: a lost session gets none.
Offered(d) ==
    {x \in UNION {fixes[k] : k \in Keys} :
        /\ initialized /\ ~shutDown
        /\ x.document = d
        /\ x.document \notin changed /\ x.file \notin changed
        /\ disk[x.file] = x.text}

CodeAction ==
    /\ Takes("codeAction")
    /\ asking' = "no"
    /\ UNCHANGED <<disks, buffer, overtaken, session, kept, changed, sent>>

----
\* The editor.  It names documents only once it has sent `initialize`, saves
\* a document in one step, and drops an answer that an edit overtook.
Send(m) ==
    /\ sent < MaxSent /\ Len(inbox) < MaxQueue /\ ~exited
    /\ sent' = sent + 1
    /\ inbox' = Append(inbox, m)
    /\ UNCHANGED <<session, kept, changed>>
Greeted == initialized \/ (inbox # <<>> /\ Head(inbox).kind = "initialize")
Outdate == asking' = IF asking = "yes" THEN "late" ELSE asking

SendsOther ==
    /\ \E kind \in {"initialize", "shutdown", "exit"} : Send([kind |-> kind])
    /\ UNCHANGED <<disks, editor>>

\* A restored buffer may hold a text that was never saved.
Opens(f) ==
    /\ Greeted /\ buffer[f] = NoText
    /\ \E t \in Text :
        /\ buffer' = [buffer EXCEPT ![f] = t]
        /\ Send([kind |-> "didOpen", file |-> f, text |-> t])
    /\ overtaken' = [overtaken EXCEPT ![f] = FALSE]
    /\ Outdate
    /\ UNCHANGED disks

Edits(f) ==
    /\ buffer[f] # NoText
    /\ \E t \in Text \ {buffer[f]} : buffer' = [buffer EXCEPT ![f] = t]
    /\ Send([kind |-> "didChange", file |-> f])
    /\ Outdate
    /\ UNCHANGED <<disks, overtaken>>

Saves(f) ==
    /\ buffer[f] # NoText
    /\ disk' = [disk EXCEPT ![f] = buffer[f]]
    /\ overtaken' = [overtaken EXCEPT ![f] = FALSE]
    /\ Send([kind |-> "didSave", file |-> f])
    /\ UNCHANGED <<buffer, asking, manifest, outside>>

Closes(f) ==
    /\ buffer[f] # NoText
    /\ buffer' = [buffer EXCEPT ![f] = NoText]
    /\ Send([kind |-> "didClose", file |-> f])
    /\ UNCHANGED <<disks, asking, overtaken>>

Asks(f) ==
    /\ buffer[f] # NoText /\ asking = "no"
    /\ asking' = "yes"
    /\ Send([kind |-> "codeAction", file |-> f])
    /\ UNCHANGED <<disks, buffer, overtaken>>

\* Something else writes or removes a file, or adds or removes the manifest.
WritesOutside(f) ==
    /\ outside < MaxOutside /\ outside' = outside + 1
    /\ \E t \in (Text \cup {NoText}) \ {disk[f]} : disk' = [disk EXCEPT ![f] = t]
    /\ overtaken' = [overtaken EXCEPT ![f] = buffer[f] # NoText]
    /\ UNCHANGED <<manifest, buffer, asking, inbox, session, kept, changed, sent>>

TogglesManifest ==
    /\ outside < MaxOutside /\ outside' = outside + 1
    /\ manifest' = ~manifest
    /\ UNCHANGED <<disk, editor, inbox, session, kept, changed, sent>>

Serve == Initialize \/ Shutdown \/ Exit \/ DidOpen \/ DidChange \/ DidSave
         \/ DidClose \/ CodeAction
Edit(f) == Opens(f) \/ Edits(f) \/ Saves(f) \/ Closes(f) \/ Asks(f)

Next == Serve \/ SendsOther \/ TogglesManifest \/ \E f \in Files : Edit(f) \/ WritesOutside(f)

Spec == Init /\ [][Next]_vars

----
\* Every variable has its type.
TypeOK ==
    /\ disk \in [Files -> Text \cup {NoText}] /\ manifest \in BOOLEAN
    /\ buffer \in [Files -> Text \cup {NoText}]
    /\ inbox \in Seq(Message)
    /\ asking \in {"no", "yes", "late"}
    /\ shownBy \in [Files -> Keys \cup {Nobody}]
    /\ <<initialized, shutDown, exited, folders>> \in BOOLEAN \X BOOLEAN \X BOOLEAN \X BOOLEAN
    /\ published \in [Keys -> SUBSET Files]
    /\ fixes \in [Keys -> SUBSET Fix]
    /\ changed \in SUBSET Files
    /\ overtaken \in [Files -> BOOLEAN]
    /\ readBy \in [Files -> Keys \cup {Nobody}]
    /\ sent \in Nat /\ outside \in Nat

\* No diagnostic is stranded: what a file shows, the program that published it
\* still remembers, so its next check, or the file's, can take it away.
OwnerCanClear == \A f \in Files : shownBy[f] # Nobody => f \in published[shownBy[f]]

\* A kept fix-it goes with a diagnostic its program published and has not
\* withdrawn, also after a file moved from one program to another.
FixesPublished == \A k \in Keys : \A x \in fixes[k] : x.document \in published[k]

\* An offered fix-it fits: its offsets are into the text the editor holds for
\* the file, unless that file changed on disk behind the editor's back.
Awaited == inbox # <<>> /\ Head(inbox).kind = "codeAction" /\ asking = "yes" /\ ~exited
FixFits ==
    Awaited => \A x \in Offered(Named) :
        buffer[x.file] \in {NoText, x.text} \/ overtaken[x.file]

\* The editor has a text of its own for f, and the server will know before it
\* answers anything the editor sends from here on: f is marked changed once
\* what is queued about f is handled.
About(f) == {i \in 1..Len(inbox) : inbox[i].kind \in {"didOpen", "didChange", "didSave", "didClose"}
                                   /\ inbox[i].file = f}
Unsaved(f) == buffer[f] # NoText /\ buffer[f] # disk[f] /\ ~overtaken[f]
Tells(m, f) == m.kind = "didChange" \/ (m.kind = "didOpen" /\ m.text = buffer[f])
DirtyIsMarked ==
    \A f \in Files :
        ~exited /\ Unsaved(f) =>
            IF About(f) = {} THEN f \in changed
            ELSE \E i \in About(f) : (\A j \in About(f) : j <= i) /\ Tells(inbox[i], f)

\* docs/specs/2026-10-11-language-server-design.md: a fix-it "is offered only
\* while the editor's text is that file" as last checked.
FixFitsEditor ==
    Awaited => \A x \in Offered(Named) : buffer[x.file] \in {NoText, x.text}

\* The same document: "A file checked as one program leaves every other program
\* that published for it [...] so a diagnostic from a program that will not
\* check it again does not stay."
CheckedElsewhere ==
    \A f \in Files :
        shownBy[f] # Nobody /\ readBy[f] = ProgramOf(f) => shownBy[f] = readBy[f]
====
