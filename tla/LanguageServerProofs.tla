------------------------ MODULE LanguageServerProofs ------------------------
(***************************************************************************)
(* Proofs about the language server, for every set of files, texts and     *)
(* bounds, in two halves.                                                  *)
(*                                                                         *)
(* What it keeps: the state has its type, every diagnostic shown has a     *)
(* program that can still take it away, and every fix-it kept goes with a  *)
(* diagnostic its program still answers for. Only a check changes what is  *)
(* published, kept and shown, so that induction is one step per way a      *)
(* check can end and nothing for the other messages.                       *)
(*                                                                         *)
(* What it knows of the editor: an unsaved buffer is marked changed by the *)
(* time what is queued about it is handled, and so a fix-it that is        *)
(* offered fits the buffer it goes to. That is about the order of the      *)
(* queue: every message is followed from the back, where it is sent, to    *)
(* the front.                                                              *)
(***************************************************************************)
EXTENDS LanguageServer, TLAPS

KeptTyped ==
    /\ published \in [Keys -> SUBSET Files]
    /\ fixes \in [Keys -> SUBSET Fix]
    /\ shownBy \in [Files -> Keys \cup {Nobody}]
    /\ readBy \in [Files -> Keys \cup {Nobody}]

\* A file's program is keyed by a file or by the package.
LEMMA ProgramIsKey == ASSUME NEW f \in Files PROVE ProgramOf(f) \in Keys
  BY ConstantsAssumption DEF ProgramOf, Keys

\* The fix-its a program keeps when f leaves it are fix-its it had.
LEMMA KeptFixesTyped ==
    ASSUME KeptTyped, NEW f \in Files, NEW k \in Keys
    PROVE  KeptFixes(f, k) \in SUBSET Fix
  BY DEF KeptTyped, KeptFixes

\* However a check ends, what the server keeps has its type.
LEMMA CheckTyped ==
    ASSUME TypeOK, NEW f \in Files, Check(f)
    PROVE  KeptTyped'
<1>1. KeptTyped
  BY DEF TypeOK, KeptTyped
<1>2. CASE CheckFails(f)
  <2>1. published' \in [Keys -> SUBSET Files]
    BY <1>1, <1>2 DEF CheckFails, KeptTyped
  <2>2. fixes' \in [Keys -> SUBSET Fix]
    BY <1>1, <1>2, KeptFixesTyped DEF CheckFails
  <2>3. shownBy' \in [Files -> Keys \cup {Nobody}]
    BY <1>1, <1>2 DEF CheckFails, KeptTyped
  <2> QED
    BY <1>1, <1>2, <2>1, <2>2, <2>3 DEF CheckFails, KeptTyped
<1>3. ASSUME NEW read \in SUBSET Files, NEW groups \in SUBSET read,
             NEW found \in SUBSET Fix, CheckFinds(f, read, groups, found)
      PROVE  KeptTyped'
  <2> DEFINE key == ProgramOf(f)
  <2>0. key \in Keys
    BY ProgramIsKey
  <2> HIDE DEF key
  <2>1. published' \in [Keys -> SUBSET Files]
    <3>1. published' = [k \in Keys |-> IF k = key THEN groups ELSE published[k] \ Gone(f, k)]
      BY <1>3 DEF CheckFinds, key
    <3> QED BY <3>1, <1>1 DEF KeptTyped
  <2>2. fixes' \in [Keys -> SUBSET Fix]
    <3>1. fixes' = [k \in Keys |-> IF k = key THEN found ELSE KeptFixes(f, k)]
      BY <1>3 DEF CheckFinds, key
    <3> QED BY <3>1, <1>1, KeptFixesTyped
  <2>3. shownBy' \in [Files -> Keys \cup {Nobody}]
    <3>1. shownBy' = [g \in Files |->
                        IF g \in groups THEN key
                        ELSE IF g \in Left(f) \cup published[key] THEN Nobody
                        ELSE shownBy[g]]
      BY <1>3 DEF CheckFinds, key
    <3> QED BY <3>1, <2>0, <1>1 DEF KeptTyped
  <2>4. readBy' \in [Files -> Keys \cup {Nobody}]
    <3>1. readBy' = [g \in Files |-> IF g \in read THEN key ELSE readBy[g]]
      BY <1>3 DEF CheckFinds, key
    <3> QED BY <3>1, <2>0, <1>1 DEF KeptTyped
  <2> QED BY <2>1, <2>2, <2>3, <2>4 DEF KeptTyped
<1>4. ASSUME NEW read \in SUBSET Files, NEW groups \in SUBSET read,
             NEW d \in groups, NEW g \in read,
             CheckFinds(f, read, groups, {[document |-> d, file |-> g, text |-> disk[g]]})
      PROVE  KeptTyped'
  <2>1. disk[g] \in Text
    BY <1>4 DEF CheckFinds, Reads, Exists, TypeOK
  <2>2. {[document |-> d, file |-> g, text |-> disk[g]]} \in SUBSET Fix
    BY <2>1 DEF Fix
  <2> QED BY <1>3, <1>4, <2>2
<1> QED
  <2>1. CASE \E read \in SUBSET Files : \E groups \in SUBSET read :
                CheckFinds(f, read, groups, {})
    BY <1>3, <2>1
  <2> QED BY <1>2, <1>4, <2>1 DEF Check

-----------------------------------------------------------------------------
\* A check that ends without a result: what shows still has its program.
LEMMA FailKeepsOwner ==
    ASSUME TypeOK, OwnerCanClear, NEW f \in Files, CheckFails(f)
    PROVE  OwnerCanClear'
<1> SUFFICES ASSUME NEW g \in Files, shownBy'[g] # Nobody
             PROVE  g \in published'[shownBy'[g]]
  BY DEF OwnerCanClear
<1> DEFINE k == shownBy[g]
<1>1. g \notin Left(f) /\ shownBy'[g] = k
  BY DEF CheckFails
<1>2. k \in Keys /\ g \in published[k]
  BY <1>1 DEF TypeOK, OwnerCanClear
<1>3. g \notin Gone(f, k)
  BY <1>1, <1>2 DEF Left
<1> QED
  BY <1>1, <1>2, <1>3 DEF CheckFails

\* A check with a result: what it does not publish it takes away, here and in
\* the programs the file leaves.
LEMMA FindKeepsOwner ==
    ASSUME TypeOK, OwnerCanClear, NEW f \in Files,
           NEW read \in SUBSET Files, NEW groups \in SUBSET read, NEW found,
           CheckFinds(f, read, groups, found)
    PROVE  OwnerCanClear'
<1> DEFINE key == ProgramOf(f)
<1>1. key \in Keys
  BY ProgramIsKey
<1> HIDE DEF key
<1>2. published' = [k \in Keys |-> IF k = key THEN groups ELSE published[k] \ Gone(f, k)]
  BY DEF CheckFinds, key
<1>3. shownBy' = [g \in Files |->
                    IF g \in groups THEN key
                    ELSE IF g \in Left(f) \cup published[key] THEN Nobody
                    ELSE shownBy[g]]
  BY DEF CheckFinds, key
<1> SUFFICES ASSUME NEW g \in Files, shownBy'[g] # Nobody
             PROVE  g \in published'[shownBy'[g]]
  BY DEF OwnerCanClear
<1>4. CASE g \in groups
  BY <1>1, <1>2, <1>3, <1>4
<1>5. CASE g \notin groups
  <2> DEFINE k == shownBy[g]
  <2>1. g \notin Left(f) /\ g \notin published[key] /\ shownBy'[g] = k
    BY <1>3, <1>5
  <2>2. k \in Keys /\ g \in published[k]
    BY <2>1 DEF TypeOK, OwnerCanClear
  <2>3. g \notin Gone(f, k)
    BY <2>1, <2>2 DEF Left
  <2> QED
    BY <1>2, <2>1, <2>2, <2>3
<1> QED
  BY <1>4, <1>5

\* A file leaves another program with its diagnostics and its fix-its both.
LEMMA LeaveTakesFixes ==
    ASSUME TypeOK, FixesPublished, NEW f \in Files, NEW k \in Keys,
           NEW x \in KeptFixes(f, k)
    PROVE  x.document \in published[k] \ Gone(f, k)
  BY DEF TypeOK, FixesPublished, KeptFixes, Gone

\* However a check ends, a fix-it it leaves kept goes with a diagnostic.
LEMMA CheckKeepsFixes ==
    ASSUME TypeOK, FixesPublished, NEW f \in Files, Check(f)
    PROVE  FixesPublished'
<1>1. CASE CheckFails(f)
  <2>1. /\ published' = [k \in Keys |-> published[k] \ Gone(f, k)]
        /\ fixes' = [k \in Keys |-> KeptFixes(f, k)]
    BY <1>1 DEF CheckFails
  <2> QED
    BY <2>1, LeaveTakesFixes DEF FixesPublished
<1>2. ASSUME NEW read \in SUBSET Files, NEW groups \in SUBSET read, NEW found,
             CheckFinds(f, read, groups, found)
      PROVE  FixesPublished'
  <2> DEFINE key == ProgramOf(f)
  <2>1. /\ published' = [k \in Keys |-> IF k = key THEN groups ELSE published[k] \ Gone(f, k)]
        /\ fixes' = [k \in Keys |-> IF k = key THEN found ELSE KeptFixes(f, k)]
        /\ \A x \in found : x.document \in groups
    BY <1>2 DEF CheckFinds
  <2> HIDE DEF key
  <2> QED
    BY <2>1, LeaveTakesFixes DEF FixesPublished
<1> QED
  BY <1>1, <1>2 DEF Check

\* However a check ends, what is shown keeps an owner.
LEMMA CheckKeepsOwner ==
    ASSUME TypeOK, OwnerCanClear, NEW f \in Files, Check(f)
    PROVE  OwnerCanClear'
  BY FailKeepsOwner, FindKeepsOwner DEF Check
-----------------------------------------------------------------------------
\* The message at the front names a file when it is about a document.
LEMMA NamedIsFile ==
    ASSUME TypeOK, inbox # <<>>,
           Head(inbox).kind \in {"didOpen", "didChange", "didSave", "didClose"}
    PROVE  Named \in Files
<1>1. Head(inbox) \in Message
  BY DEF TypeOK
<1> QED
  BY <1>1 DEF Message, Named

\* What the server does with its messages: each either checks a file or
\* leaves alone what it keeps.
LEMMA ServeChecks ==
    ASSUME TypeOK, Serve
    PROVE  UNCHANGED kept \/ \E f \in Files : Check(f)
<1>1. CASE DidOpen
  BY <1>1, NamedIsFile DEF DidOpen, Takes
<1>2. CASE DidSave
  BY <1>2, NamedIsFile DEF DidSave, Takes
<1> QED
  BY <1>1, <1>2 DEF Serve, Initialize, Shutdown, Exit, DidChange, DidClose, CodeAction

\* Only an open or a save that is handled touches what is kept, and does
\* it by a check.
LEMMA StepChecks ==
    ASSUME TypeOK, [Next]_vars
    PROVE  UNCHANGED kept \/ \E f \in Files : Check(f)
<1>1. CASE Serve
  BY <1>1, ServeChecks
<1>2. CASE SendsOther
  BY <1>2 DEF SendsOther, Send
<1>3. ASSUME NEW f \in Files, Edit(f) PROVE UNCHANGED kept
  BY <1>3 DEF Edit, Opens, Edits, Saves, Closes, Asks, Send
<1>4. ASSUME NEW f \in Files, WritesOutside(f) PROVE UNCHANGED kept
  BY <1>4 DEF WritesOutside
<1>5. CASE TogglesManifest
  BY <1>5 DEF TogglesManifest
<1>6. CASE UNCHANGED vars
  BY <1>6 DEF vars
<1> QED
  BY <1>1, <1>2, <1>3, <1>4, <1>5, <1>6 DEF Next
-----------------------------------------------------------------------------
\* Type correctness, one lemma per kind of step.
LEMMA TakesTyped ==
    ASSUME TypeOK, NEW kind, Takes(kind)
    PROVE  inbox' \in Seq(Message)
  BY DEF TypeOK, Takes

\* A message of the editor leaves the queue a queue of messages.
LEMMA SendTyped ==
    ASSUME TypeOK, NEW m \in Message, Send(m)
    PROVE  inbox' \in Seq(Message) /\ sent' \in Nat
  BY DEF TypeOK, Send

\* The server handling a message keeps every type.
LEMMA ServeTyped == ASSUME TypeOK, Serve PROVE TypeOK'
<1> USE DEF disks, editor, session, kept
<1>1. inbox' \in Seq(Message)
  BY TakesTyped DEF Serve, Initialize, Shutdown, Exit, DidOpen, DidChange, DidSave,
                    DidClose, CodeAction
<1>2. KeptTyped'
  <2>1. CASE UNCHANGED kept
    BY <2>1 DEF TypeOK, KeptTyped
  <2> QED
    BY <2>1, ServeChecks, CheckTyped
<1>3. changed' \in SUBSET Files
  <2>1. CASE DidOpen
    BY <2>1, NamedIsFile DEF DidOpen, Takes, TypeOK
  <2>2. CASE DidChange
    BY <2>2, NamedIsFile DEF DidChange, Takes, TypeOK
  <2> QED
    BY <2>1, <2>2 DEF Serve, Initialize, Shutdown, Exit, DidSave, DidClose, CodeAction, TypeOK
<1>4. /\ <<initialized', shutDown', exited', folders'>> \in BOOLEAN \X BOOLEAN \X BOOLEAN \X BOOLEAN
      /\ asking' \in {"no", "yes", "late"}
      /\ UNCHANGED <<disk, manifest, buffer, overtaken, sent, outside>>
  BY DEF Serve, Initialize, Shutdown, Exit, DidOpen, DidChange, DidSave, DidClose,
         CodeAction, TypeOK
<1> QED
  BY <1>1, <1>2, <1>3, <1>4 DEF TypeOK, KeptTyped

\* So does the editor sending one about a document.
LEMMA EditTyped == ASSUME TypeOK, NEW f \in Files, Edit(f) PROVE TypeOK'
<1> USE DEF disks, editor, session, kept
<1>1. \A kind \in {"didChange", "didSave", "didClose", "codeAction"} :
          [kind |-> kind, file |-> f] \in Message
  BY DEF Message
<1>2. \A t \in Text : [kind |-> "didOpen", file |-> f, text |-> t] \in Message
  BY DEF Message
<1>3. CASE Opens(f)
  BY <1>2, <1>3, SendTyped DEF Opens, Outdate, Send, TypeOK
<1>4. CASE Edits(f)
  BY <1>1, <1>4, SendTyped DEF Edits, Outdate, Send, TypeOK
<1>5. CASE Saves(f)
  <2>1. buffer[f] \in Text \cup {NoText}
    BY DEF TypeOK
  <2> QED
    BY <1>1, <1>5, <2>1, SendTyped DEF Saves, Send, TypeOK
<1>6. CASE Closes(f)
  BY <1>1, <1>6, SendTyped DEF Closes, Send, TypeOK
<1>7. CASE Asks(f)
  BY <1>1, <1>7, SendTyped DEF Asks, Send, TypeOK
<1> QED
  BY <1>3, <1>4, <1>5, <1>6, <1>7 DEF Edit

\* And a change from outside.
LEMMA OutsideTyped ==
    ASSUME TypeOK, SendsOther \/ TogglesManifest \/ \E f \in Files : WritesOutside(f)
    PROVE  TypeOK'
<1> USE DEF disks, editor, session, kept
<1>1. CASE SendsOther
  <2>1. \A kind \in {"initialize", "shutdown", "exit"} : [kind |-> kind] \in Message
    BY DEF Message
  <2> QED
    BY <1>1, <2>1, SendTyped DEF SendsOther, Send, TypeOK
<1>2. CASE TogglesManifest
  BY <1>2 DEF TogglesManifest, TypeOK
<1>3. ASSUME NEW f \in Files, WritesOutside(f) PROVE TypeOK'
  <2>1. (buffer[f] # NoText) \in BOOLEAN
    OBVIOUS
  <2> QED
    BY <1>3, <2>1 DEF WritesOutside, TypeOK
<1> QED
  BY <1>1, <1>2, <1>3

\* Every step keeps the types.
LEMMA StepTyped == ASSUME TypeOK, [Next]_vars PROVE TypeOK'
<1>1. CASE UNCHANGED vars
  BY <1>1 DEF vars, disks, editor, session, kept, TypeOK
<1> QED
  BY <1>1, ServeTyped, EditTyped, OutsideTyped DEF Next

\* The first states have the types, and nothing is shown or kept in them.
LEMMA InitKept == Init => TypeOK /\ OwnerCanClear /\ FixesPublished
<1> SUFFICES ASSUME Init PROVE TypeOK /\ OwnerCanClear /\ FixesPublished
  OBVIOUS
<1>1. inbox \in Seq(Message) /\ sent \in Nat /\ outside \in Nat
  BY DEF Init
<1>2. KeptTyped
  BY DEF Init, KeptTyped
<1>3. TypeOK
  BY <1>1, <1>2 DEF Init, TypeOK, KeptTyped
<1>4. OwnerCanClear /\ FixesPublished
  BY DEF Init, OwnerCanClear, FixesPublished
<1> QED
  BY <1>3, <1>4

\* Every step keeps the types and both facts about what is kept.
LEMMA StepKept ==
    ASSUME TypeOK, OwnerCanClear, FixesPublished, [Next]_vars
    PROVE  OwnerCanClear' /\ FixesPublished'
<1>1. CASE UNCHANGED kept
  BY <1>1 DEF kept, OwnerCanClear, FixesPublished
<1> QED
  BY <1>1, StepChecks, CheckKeepsOwner, CheckKeepsFixes

\* The server's state and the editor's have their types throughout.
THEOREM TypeCorrect == Spec => []TypeOK
<1>1. Init => TypeOK
  BY InitKept
<1> QED
  BY <1>1, StepTyped, PTL DEF Spec

\* No diagnostic is stranded (lsp.rs check): whatever moves files between
\* programs, crashes included, the program a file's diagnostics came from
\* still lists the file, so a later check takes them away.
THEOREM NothingStranded == Spec => []OwnerCanClear
<1> DEFINE Kept == TypeOK /\ OwnerCanClear /\ FixesPublished
<1>1. Init => Kept
  BY InitKept
<1>2. Kept /\ [Next]_vars => Kept'
  BY StepTyped, StepKept
<1> QED
  BY <1>1, <1>2, PTL DEF Spec

\* A fix-it is kept only beside a diagnostic that is still published.
THEOREM FixesGoWithDiagnostics == Spec => []FixesPublished
<1> DEFINE Kept == TypeOK /\ OwnerCanClear /\ FixesPublished
<1>1. Init => Kept
  BY InitKept
<1>2. Kept /\ [Next]_vars => Kept'
  BY StepTyped, StepKept
<1> QED
  BY <1>1, <1>2, PTL DEF Spec
-----------------------------------------------------------------------------
\* What is queued between the editor and the server: documents are named in
\* a session that is, or is about to be, initialized; a code action that is
\* still awaited is the only one and has no edit behind it.
DocumentKinds == {"didOpen", "didChange", "didSave", "didClose", "codeAction"}
EditKinds == {"didOpen", "didChange"}

SessionInv ==
    /\ shutDown => initialized
    /\ \A f \in Files : buffer[f] # NoText => Greeted
    /\ \A i \in 1..Len(inbox) : inbox[i].kind \in DocumentKinds => Greeted

AskInv ==
    \A i \in 1..Len(inbox) : inbox[i].kind = "codeAction" =>
        /\ asking # "no"
        /\ \A j \in 1..Len(inbox) : inbox[j].kind = "codeAction" => j = i
        /\ asking = "yes" => \A j \in (i + 1)..Len(inbox) : inbox[j].kind \notin EditKinds

\* A message is taken from the front, and sent to the back.
LEMMA TakesFront ==
    ASSUME TypeOK, NEW kind, Takes(kind)
    PROVE  /\ Len(inbox) \in Nat /\ Len(inbox) >= 1 /\ Len(inbox') = Len(inbox) - 1
           /\ \A i \in 1..Len(inbox') : inbox'[i] = inbox[i + 1]
           /\ Head(inbox) = inbox[1] /\ inbox[1].kind = kind
  BY DEF TypeOK, Takes

\* A message that is sent goes to the back of the queue.
LEMMA SendsBack ==
    ASSUME TypeOK, NEW m \in Message, Send(m)
    PROVE  /\ Len(inbox) \in Nat /\ Len(inbox') = Len(inbox) + 1
           /\ \A i \in 1..Len(inbox) : inbox'[i] = inbox[i]
           /\ inbox'[Len(inbox) + 1] = m
           /\ inbox # <<>> => inbox' # <<>> /\ Head(inbox') = Head(inbox)
           /\ ~exited /\ UNCHANGED <<session, kept, changed>>
<1>1. inbox \in Seq(Message) /\ inbox' = Append(inbox, m)
  BY DEF TypeOK, Send
<1>2. /\ Len(inbox) \in Nat /\ Len(inbox') = Len(inbox) + 1
      /\ \A i \in 1..Len(inbox) : inbox'[i] = inbox[i]
      /\ inbox'[Len(inbox) + 1] = m
  BY <1>1
<1>3. inbox # <<>> => inbox' # <<>> /\ Head(inbox') = Head(inbox)
  BY <1>1
<1> QED
  BY <1>2, <1>3 DEF Send

\* The session's own messages.
LEMMA ServeKeepsSession ==
    ASSUME TypeOK, SessionInv, Serve
    PROVE  SessionInv' /\ (Greeted => initialized')
<1> USE DEF disks, editor, session, kept
<1>1. PICK kind : Takes(kind)
  BY DEF Serve, Initialize, Shutdown, Exit, DidOpen, DidChange, DidSave, DidClose, CodeAction
<1>2. UNCHANGED buffer
  BY DEF Serve, Initialize, Shutdown, Exit, DidOpen, DidChange, DidSave, DidClose, CodeAction
<1>3. initialized => initialized'
  BY DEF Serve, Initialize, Shutdown, Exit, DidOpen, DidChange, DidSave, DidClose, CodeAction
<1>4. Head(inbox).kind = "initialize" => initialized'
  BY DEF Serve, Initialize, Shutdown, Exit, DidOpen, DidChange, DidSave, DidClose, CodeAction,
         Takes, SessionInv
<1>5. Greeted => initialized'
  BY <1>3, <1>4 DEF Greeted
<1>6. shutDown' => initialized'
  BY <1>3 DEF Serve, Initialize, Shutdown, Exit, DidOpen, DidChange, DidSave, DidClose,
              CodeAction, SessionInv
<1>7. \A i \in 1..Len(inbox') : inbox'[i].kind \in DocumentKinds => initialized'
  <2>1. \A i \in 1..Len(inbox') : i + 1 \in 1..Len(inbox) /\ inbox'[i] = inbox[i + 1]
    BY <1>1, TakesFront
  <2> QED
    BY <2>1, <1>5 DEF SessionInv
<1>8. \A f \in Files : buffer'[f] # NoText => initialized'
  BY <1>2, <1>5 DEF SessionInv
<1> QED
  BY <1>5, <1>6, <1>7, <1>8 DEF SessionInv, Greeted

\* A message sent after `initialize` names a document after it too.
LEMMA SendKeepsSession ==
    ASSUME TypeOK, SessionInv, NEW m \in Message, Send(m),
           m.kind \in DocumentKinds => Greeted,
           \A f \in Files : buffer'[f] # NoText => Greeted
    PROVE  SessionInv'
<1>1. Greeted => Greeted'
  BY SendsBack DEF Greeted, session
<1>2. shutDown' => initialized'
  BY SendsBack DEF SessionInv, session
<1>3. \A i \in 1..Len(inbox') : inbox'[i].kind \in DocumentKinds => Greeted
  <2>1. ASSUME NEW i \in 1..Len(inbox') PROVE i \in 1..Len(inbox) \/ i = Len(inbox) + 1
    BY SendsBack
  <2> QED
    BY <2>1, SendsBack DEF SessionInv
<1> QED
  BY <1>1, <1>2, <1>3 DEF SessionInv

\* The editor's messages, one by one.
LEMMA EditSends ==
    ASSUME TypeOK, NEW f \in Files, Edit(f)
    PROVE  \E m \in Message :
             /\ Send(m) /\ m.kind \in DocumentKinds /\ m.file = f
             /\ m.kind = "didOpen" => Greeted
             /\ m.kind # "didOpen" => buffer[f] # NoText
             /\ m.kind = "codeAction" => asking = "no"
             /\ m.kind \in EditKinds => asking' = (IF asking = "yes" THEN "late" ELSE asking)
             /\ m.kind \notin EditKinds \cup {"codeAction"} => asking' = asking
             /\ m.kind = "codeAction" => asking' = "yes"
             /\ \A g \in Files \ {f} :
                   buffer'[g] = buffer[g] /\ disk'[g] = disk[g] /\ overtaken'[g] = overtaken[g]
             /\ m.kind = "didOpen" => buffer'[f] = m.text
             /\ m.kind = "didSave" => disk'[f] = buffer'[f]
             /\ m.kind = "didClose" => buffer'[f] = NoText
             /\ m.kind = "codeAction" =>
                   buffer'[f] = buffer[f] /\ disk'[f] = disk[f] /\ overtaken'[f] = overtaken[f]
<1> USE DEF disks, editor, DocumentKinds, EditKinds
<1>1. CASE Opens(f)
  <2>1. PICK t \in Text :
          /\ buffer' = [buffer EXCEPT ![f] = t]
          /\ Send([kind |-> "didOpen", file |-> f, text |-> t])
    BY <1>1 DEF Opens
  <2>2. [kind |-> "didOpen", file |-> f, text |-> t] \in Message
    BY DEF Message
  <2> QED
    BY <1>1, <2>1, <2>2 DEF Opens, Outdate, TypeOK
<1>2. \A kind \in {"didChange", "didSave", "didClose", "codeAction"} :
          [kind |-> kind, file |-> f] \in Message
  BY DEF Message
<1>3. CASE Edits(f)
  BY <1>2, <1>3 DEF Edits, Outdate, TypeOK
<1>4. CASE Saves(f)
  BY <1>2, <1>4 DEF Saves, TypeOK
<1>5. CASE Closes(f)
  BY <1>2, <1>5 DEF Closes, TypeOK
<1>6. CASE Asks(f)
  BY <1>2, <1>6 DEF Asks, TypeOK
<1> QED
  BY <1>1, <1>3, <1>4, <1>5, <1>6 DEF Edit

\* Every step keeps SessionInv.
LEMMA StepKeepsSession ==
    ASSUME TypeOK, SessionInv, [Next]_vars PROVE SessionInv'
<1> USE DEF disks, editor, session, kept
<1>1. CASE Serve
  BY <1>1, ServeKeepsSession
<1>2. CASE SendsOther
  <2>1. PICK kind \in {"initialize", "shutdown", "exit"} : Send([kind |-> kind])
    BY <1>2 DEF SendsOther
  <2>2. [kind |-> kind] \in Message /\ [kind |-> kind].kind \notin DocumentKinds
    BY DEF Message, DocumentKinds
  <2>3. UNCHANGED buffer
    BY <1>2 DEF SendsOther
  <2> QED
    BY <2>1, <2>2, <2>3, SendKeepsSession DEF SessionInv
<1>3. ASSUME NEW f \in Files, Edit(f) PROVE SessionInv'
  <2>1. PICK m \in Message :
          /\ Send(m) /\ m.kind \in DocumentKinds
          /\ m.kind = "didOpen" => Greeted
          /\ m.kind # "didOpen" => buffer[f] # NoText
          /\ \A g \in Files \ {f} : buffer'[g] = buffer[g]
    BY <1>3, EditSends
  <2>2. Greeted
    BY <2>1 DEF SessionInv
  <2> QED
    BY <2>1, <2>2, SendKeepsSession
<1>4. CASE UNCHANGED <<buffer, inbox, session>>
  BY <1>4 DEF SessionInv, Greeted
<1>5. ASSUME NEW f \in Files, WritesOutside(f) PROVE SessionInv'
  BY <1>4, <1>5 DEF WritesOutside
<1>6. CASE TogglesManifest
  BY <1>4, <1>6 DEF TogglesManifest
<1>7. CASE UNCHANGED vars
  BY <1>4, <1>7 DEF vars
<1> QED
  BY <1>1, <1>2, <1>3, <1>5, <1>6, <1>7 DEF Next
-----------------------------------------------------------------------------
\* Handling a message keeps AskInv.
LEMMA ServeKeepsAsk ==
    ASSUME TypeOK, AskInv, Serve PROVE AskInv'
<1> USE DEF disks, editor, session, kept
<1>1. PICK kind :
        /\ Takes(kind)
        /\ kind # "codeAction" => asking' = asking
  BY DEF Serve, Initialize, Shutdown, Exit, DidOpen, DidChange, DidSave, DidClose, CodeAction
<1>2. /\ Len(inbox) \in Nat /\ Len(inbox) >= 1 /\ Len(inbox') = Len(inbox) - 1
      /\ \A i \in 1..Len(inbox') : inbox'[i] = inbox[i + 1]
      /\ inbox[1].kind = kind
  BY <1>1, TakesFront
<1>3. CASE kind = "codeAction"
  <2>1. \A i \in 1..Len(inbox') : inbox'[i].kind # "codeAction"
    BY <1>2, <1>3 DEF AskInv
  <2> QED
    BY <2>1 DEF AskInv
<1>4. CASE kind # "codeAction"
  <2> SUFFICES ASSUME NEW i \in 1..Len(inbox'), inbox'[i].kind = "codeAction"
               PROVE  /\ asking' # "no"
                      /\ \A j \in 1..Len(inbox') : inbox'[j].kind = "codeAction" => j = i
                      /\ asking' = "yes" =>
                           \A j \in (i + 1)..Len(inbox') : inbox'[j].kind \notin EditKinds
    BY DEF AskInv
  <2>1. i + 1 \in 1..Len(inbox) /\ inbox[i + 1].kind = "codeAction"
    BY <1>2
  <2>2. /\ asking # "no"
        /\ \A j \in 1..Len(inbox) : inbox[j].kind = "codeAction" => j = i + 1
        /\ asking = "yes" => \A j \in (i + 2)..Len(inbox) : inbox[j].kind \notin EditKinds
    BY <2>1 DEF AskInv
  <2>3. \A j \in 1..Len(inbox') : inbox'[j].kind = "codeAction" => j = i
    <3> SUFFICES ASSUME NEW j \in 1..Len(inbox'), inbox'[j].kind = "codeAction" PROVE j = i
      OBVIOUS
    <3>1. j + 1 \in 1..Len(inbox) /\ inbox[j + 1].kind = "codeAction"
      BY <1>2
    <3> QED
      BY <2>2, <3>1
  <2>4. asking = "yes" => \A j \in (i + 1)..Len(inbox') : inbox'[j].kind \notin EditKinds
    <3> SUFFICES ASSUME asking = "yes", NEW j \in (i + 1)..Len(inbox')
                 PROVE  inbox'[j].kind \notin EditKinds
      OBVIOUS
    <3>1. j \in 1..Len(inbox') /\ j + 1 \in (i + 2)..Len(inbox)
      BY <1>2
    <3> QED
      BY <1>2, <2>2, <3>1
  <2> QED
    BY <1>1, <1>4, <2>2, <2>3, <2>4
<1> QED
  BY <1>3, <1>4

\* A message sent keeps AskInv: an edit outdates the request there is.
LEMMA SendKeepsAsk ==
    ASSUME TypeOK, AskInv, NEW m \in Message, Send(m),
           m.kind = "codeAction" => asking = "no" /\ asking' = "yes",
           m.kind \in EditKinds => asking' = (IF asking = "yes" THEN "late" ELSE asking),
           m.kind \notin EditKinds \cup {"codeAction"} => asking' = asking
    PROVE  AskInv'
<1> DEFINE n == Len(inbox)
<1>1. /\ n \in Nat /\ Len(inbox') = n + 1
      /\ \A i \in 1..n : inbox'[i] = inbox[i]
      /\ inbox'[n + 1] = m
  BY SendsBack
<1> HIDE DEF n
<1> SUFFICES ASSUME NEW i \in 1..(n + 1), inbox'[i].kind = "codeAction"
             PROVE  /\ asking' # "no"
                    /\ \A j \in 1..(n + 1) : inbox'[j].kind = "codeAction" => j = i
                    /\ asking' = "yes" =>
                         \A j \in (i + 1)..(n + 1) : inbox'[j].kind \notin EditKinds
  BY <1>1 DEF AskInv
<1>2. \A k \in 1..n : inbox[k].kind = "codeAction" =>
        /\ asking # "no"
        /\ \A j \in 1..n : inbox[j].kind = "codeAction" => j = k
        /\ asking = "yes" => \A j \in (k + 1)..n : inbox[j].kind \notin EditKinds
  BY DEF AskInv, n
<1>3. CASE m.kind = "codeAction"
  <2>1. \A k \in 1..n : inbox'[k].kind # "codeAction"
    BY <1>1, <1>2, <1>3
  <2>2. i = n + 1
    BY <1>1, <2>1
  <2> QED
    BY <1>1, <1>3, <2>1, <2>2
<1>4. CASE m.kind # "codeAction"
  <2>1. i \in 1..n /\ inbox[i].kind = "codeAction"
    BY <1>1, <1>4
  <2>2. \A j \in 1..(n + 1) : inbox'[j].kind = "codeAction" => j = i
    BY <1>1, <1>2, <1>4, <2>1
  <2>3. asking' # "no"
    BY <1>2, <1>4, <2>1
  <2>4. ASSUME asking' = "yes", NEW j \in (i + 1)..(n + 1) PROVE inbox'[j].kind \notin EditKinds
    <3>1. asking = "yes" /\ m.kind \notin EditKinds
      BY <1>4, <2>4
    <3>2. CASE j = n + 1
      BY <1>1, <3>1, <3>2
    <3>3. CASE j # n + 1
      <4>1. j \in (i + 1)..n /\ j \in 1..n
        BY <1>1, <2>1, <3>3
      <4> QED
        BY <1>1, <1>2, <2>1, <3>1, <4>1
    <3> QED
      BY <3>2, <3>3
  <2> QED
    BY <2>2, <2>3, <2>4
<1> QED
  BY <1>3, <1>4

\* Every step keeps AskInv.
LEMMA StepKeepsAsk ==
    ASSUME TypeOK, AskInv, [Next]_vars PROVE AskInv'
<1> USE DEF disks, editor, session, kept
<1>1. CASE Serve
  BY <1>1, ServeKeepsAsk
<1>2. CASE SendsOther
  <2>1. PICK kind \in {"initialize", "shutdown", "exit"} : Send([kind |-> kind])
    BY <1>2 DEF SendsOther
  <2>2. [kind |-> kind] \in Message /\ [kind |-> kind].kind \notin EditKinds \cup {"codeAction"}
    BY DEF Message, EditKinds
  <2>3. UNCHANGED asking
    BY <1>2 DEF SendsOther
  <2> QED
    BY <2>1, <2>2, <2>3, SendKeepsAsk
<1>3. ASSUME NEW f \in Files, Edit(f) PROVE AskInv'
  BY <1>3, EditSends, SendKeepsAsk
<1>4. CASE UNCHANGED <<asking, inbox>>
  BY <1>4 DEF AskInv
<1>5. ASSUME NEW f \in Files, WritesOutside(f) PROVE AskInv'
  BY <1>4, <1>5 DEF WritesOutside
<1>6. CASE TogglesManifest
  BY <1>4, <1>6 DEF TogglesManifest
<1>7. CASE UNCHANGED vars
  BY <1>4, <1>7 DEF vars
<1> QED
  BY <1>1, <1>2, <1>3, <1>5, <1>6, <1>7 DEF Next
-----------------------------------------------------------------------------
\* A buffer that differs from the disk is marked, or will be. What matters of
\* a step is what it does to the last queued message about the file.
Marked(f) ==
    IF About(f) = {} THEN f \in changed
    ELSE \E i \in About(f) : (\A j \in About(f) : j <= i) /\ Tells(inbox[i], f)

\* Handling a message keeps DirtyIsMarked: the last message about a file
\* leaves it marked as its text calls for.
LEMMA ServeKeepsMarked ==
    ASSUME TypeOK, SessionInv, NEW f \in Files, buffer[f] # disk[f], buffer[f] # NoText,
           Marked(f), Serve, ~exited'
    PROVE  Marked(f)'
<1> USE DEF disks, editor, session, kept
<1>1. PICK kind : Takes(kind)
  BY DEF Serve, Initialize, Shutdown, Exit, DidOpen, DidChange, DidSave, DidClose, CodeAction
<1>2. /\ Len(inbox) \in Nat /\ Len(inbox) >= 1 /\ Len(inbox') = Len(inbox) - 1
      /\ \A i \in 1..Len(inbox') : inbox'[i] = inbox[i + 1]
      /\ Head(inbox) = inbox[1] /\ inbox[1].kind = kind
  BY <1>1, TakesFront
<1>3. UNCHANGED <<buffer, disk>>
  BY DEF Serve, Initialize, Shutdown, Exit, DidOpen, DidChange, DidSave, DidClose, CodeAction
<1>4. \A i : i \in About(f)' <=> i \in 1..Len(inbox') /\ i + 1 \in About(f)
  BY <1>2 DEF About
<1>5. About(f) \subseteq 1..Len(inbox)
  BY DEF About
<1>6. CASE About(f)' # {}
  <2>1. About(f) # {}
    BY <1>4, <1>6
  <2>2. PICK i \in About(f) : (\A j \in About(f) : j <= i) /\ Tells(inbox[i], f)
    BY <2>1 DEF Marked
  <2>3. i - 1 \in About(f)'
    <3>1. PICK k \in About(f)' : TRUE
      BY <1>6
    <3>2. k \in 1..Len(inbox') /\ k + 1 \in About(f)
      BY <1>4, <3>1
    <3>3. k + 1 <= i /\ i \in 1..Len(inbox)
      BY <1>5, <2>2, <3>2
    <3>4. i - 1 \in 1..Len(inbox') /\ (i - 1) + 1 = i
      BY <1>2, <3>2, <3>3
    <3> QED
      BY <1>4, <2>2, <3>4
  <2>4. \A j \in About(f)' : j <= i - 1
    <3> SUFFICES ASSUME NEW j \in About(f)' PROVE j <= i - 1
      OBVIOUS
    <3>1. j \in 1..Len(inbox') /\ j + 1 <= i /\ i \in 1..Len(inbox)
      BY <1>4, <1>5, <2>2
    <3> QED
      BY <1>2, <3>1
  <2>5. inbox'[i - 1] = inbox[i]
    <3>1. i \in 1..Len(inbox) /\ i - 1 \in 1..Len(inbox')
      BY <1>4, <1>5, <2>2, <2>3
    <3>2. inbox'[i - 1] = inbox[(i - 1) + 1]
      BY <1>2, <3>1
    <3>3. (i - 1) + 1 = i
      BY <1>2, <3>1
    <3> QED
      BY <3>2, <3>3
  <2>6. Tells(inbox[i - 1], f)'
    BY <1>3, <2>2, <2>5 DEF Tells
  <2> QED
    BY <1>6, <2>3, <2>4, <2>6 DEF Marked
<1>7. CASE About(f)' = {}
  <2>1. \A i \in About(f) : i = 1
    <3> SUFFICES ASSUME NEW i \in About(f), i # 1 PROVE FALSE
      OBVIOUS
    <3>1. i - 1 \in 1..Len(inbox') /\ (i - 1) + 1 = i
      BY <1>2, <1>5
    <3> QED
      BY <1>4, <1>7, <3>1
  <2>2. CASE About(f) = {}
    <3>1. f \in changed
      BY <2>2 DEF Marked
    <3>2. kind \in {"didOpen", "didChange", "didSave", "didClose"} => Named # f
      BY <1>2, <2>2 DEF About, Named
    <3>3. f \in changed'
      BY <1>2, <3>1, <3>2 DEF Serve, Initialize, Shutdown, Exit, DidOpen, DidChange, DidSave,
                              DidClose, CodeAction, Takes
    <3> QED
      BY <1>7, <3>3 DEF Marked
  <2>3. CASE About(f) # {}
    <3>1. 1 \in About(f) /\ Tells(inbox[1], f)
      BY <2>1, <2>3 DEF Marked
    <3>2. /\ Named = f /\ kind \in {"didOpen", "didChange"}
          /\ kind = "didOpen" => Head(inbox).text = buffer[f]
      BY <1>2, <3>1 DEF About, Named, Tells
    <3>3. initialized
      <4>1. Greeted /\ Head(inbox).kind # "initialize"
        BY <1>2, <3>2 DEF SessionInv, DocumentKinds
      <4> QED
        BY <4>1 DEF Greeted
    <3>4. CASE kind = "didChange"
      <4>1. DidChange
        BY <1>2, <3>4 DEF Serve, Initialize, Shutdown, Exit, DidOpen, DidSave, DidClose,
                          CodeAction, Takes
      <4> QED
        BY <1>7, <3>2, <3>3, <4>1 DEF Marked, DidChange
    <3>5. CASE kind = "didOpen"
      <4>1. DidOpen
        BY <1>2, <3>5 DEF Serve, Initialize, Shutdown, Exit, DidChange, DidSave, DidClose,
                          CodeAction, Takes
      <4>2. OpensUnsaved
        BY <3>2, <3>5 DEF OpensUnsaved
      <4> QED
        BY <1>7, <3>2, <3>3, <4>1, <4>2 DEF Marked, DidOpen
    <3> QED
      BY <3>2, <3>4, <3>5
  <2> QED
    BY <2>2, <2>3
<1> QED
  BY <1>6, <1>7

\* A message about another file, or about none, leaves f's alone.
LEMMA SendKeepsMarked ==
    ASSUME TypeOK, NEW f \in Files, Marked(f), NEW m \in Message, Send(m),
           m.kind \notin {"didOpen", "didChange", "didSave", "didClose"} \/ m.file # f,
           buffer'[f] = buffer[f]
    PROVE  Marked(f)'
<1>1. /\ Len(inbox) \in Nat /\ Len(inbox') = Len(inbox) + 1
      /\ \A i \in 1..Len(inbox) : inbox'[i] = inbox[i]
      /\ inbox'[Len(inbox) + 1] = m
      /\ UNCHANGED changed
  BY SendsBack
<1>2. About(f)' = About(f)
  BY <1>1 DEF About
<1>3. \A i \in About(f) : inbox'[i] = inbox[i]
  BY <1>1 DEF About
<1> QED
  BY <1>1, <1>2, <1>3 DEF Marked, Tells

\* One that tells of f itself marks it.
LEMMA SendMarks ==
    ASSUME TypeOK, NEW f \in Files, NEW m \in Message, Send(m),
           m.kind \in {"didOpen", "didChange"}, m.file = f,
           m.kind = "didOpen" => m.text = buffer'[f]
    PROVE  Marked(f)'
<1>1. /\ Len(inbox) \in Nat /\ Len(inbox') = Len(inbox) + 1
      /\ inbox'[Len(inbox) + 1] = m
  BY SendsBack
<1>2. Len(inbox) + 1 \in About(f)' /\ \A j \in About(f)' : j <= Len(inbox) + 1
  BY <1>1 DEF About
<1> QED
  BY <1>1, <1>2 DEF Marked, Tells

\* Every step keeps DirtyIsMarked.
LEMMA StepKeepsMarked ==
    ASSUME TypeOK, SessionInv, DirtyIsMarked, [Next]_vars PROVE DirtyIsMarked'
<1> USE DEF disks, editor, session, kept
<1> SUFFICES ASSUME NEW f \in Files, ~exited', Unsaved(f)' PROVE Marked(f)'
  BY DEF DirtyIsMarked, Marked
<1>1. ~exited /\ Unsaved(f) => Marked(f)
  BY DEF DirtyIsMarked, Marked
<1>2. CASE Serve
  <2>1. UNCHANGED <<buffer, disk, overtaken>> /\ ~exited
    BY <1>2 DEF Serve, Initialize, Shutdown, Exit, DidOpen, DidChange, DidSave, DidClose,
                CodeAction, Takes
  <2>2. Unsaved(f) /\ buffer[f] # NoText /\ buffer[f] # disk[f]
    BY <2>1 DEF Unsaved
  <2> QED
    BY <1>1, <1>2, <2>1, <2>2, ServeKeepsMarked
<1>3. CASE SendsOther
  <2>1. PICK kind \in {"initialize", "shutdown", "exit"} : Send([kind |-> kind])
    BY <1>3 DEF SendsOther
  <2>2. /\ [kind |-> kind] \in Message
        /\ [kind |-> kind].kind \notin {"didOpen", "didChange", "didSave", "didClose"}
    BY DEF Message
  <2>3. UNCHANGED <<buffer, disk, overtaken>> /\ ~exited
    BY <1>3, <2>1 DEF SendsOther, Send
  <2> QED
    BY <1>1, <2>1, <2>2, <2>3, SendKeepsMarked DEF Unsaved
<1>4. ASSUME NEW g \in Files, Edit(g) PROVE Marked(f)'
  <2>1. PICK m \in Message :
          /\ Send(m) /\ m.kind \in DocumentKinds /\ m.file = g
          /\ \A h \in Files \ {g} :
                buffer'[h] = buffer[h] /\ disk'[h] = disk[h] /\ overtaken'[h] = overtaken[h]
          /\ m.kind = "didOpen" => buffer'[g] = m.text
          /\ m.kind = "didSave" => disk'[g] = buffer'[g]
          /\ m.kind = "didClose" => buffer'[g] = NoText
          /\ m.kind = "codeAction" =>
                buffer'[g] = buffer[g] /\ disk'[g] = disk[g] /\ overtaken'[g] = overtaken[g]
    BY <1>4, EditSends
  <2>2. ~exited
    BY <2>1 DEF Send
  <2>3. CASE f # g \/ m.kind = "codeAction"
    <3>1. buffer'[f] = buffer[f] /\ disk'[f] = disk[f] /\ overtaken'[f] = overtaken[f]
      BY <2>1, <2>3
    <3> QED
      BY <1>1, <2>1, <2>2, <2>3, <3>1, SendKeepsMarked DEF Unsaved
  <2>4. CASE f = g /\ m.kind # "codeAction"
    <3>1. m.kind \in {"didOpen", "didChange"}
      BY <2>1, <2>4 DEF Unsaved, DocumentKinds
    <3> QED
      BY <2>1, <2>4, <3>1, SendMarks
  <2> QED
    BY <2>3, <2>4
<1>5. CASE UNCHANGED <<inbox, changed, session, buffer>> /\ Unsaved(f)
  BY <1>1, <1>5 DEF Marked, About, Tells
<1>6. ASSUME NEW g \in Files, WritesOutside(g) PROVE Marked(f)'
  <2>1. f # g /\ disk'[f] = disk[f] /\ overtaken'[f] = overtaken[f]
    BY <1>6 DEF WritesOutside, Unsaved, TypeOK
  <2> QED
    BY <1>5, <1>6, <2>1 DEF WritesOutside, Unsaved
<1>7. CASE TogglesManifest
  BY <1>5, <1>7 DEF TogglesManifest, Unsaved
<1>8. CASE UNCHANGED vars
  BY <1>5, <1>8 DEF vars, Unsaved
<1> QED
  BY <1>2, <1>3, <1>4, <1>6, <1>7, <1>8 DEF Next
-----------------------------------------------------------------------------
\* A code action that is still awaited is answered for buffers the server
\* knows: none of them has an edit queued behind the request.
LEMMA AwaitedFits ==
    ASSUME TypeOK, AskInv, DirtyIsMarked PROVE FixFits
<1> SUFFICES ASSUME Awaited, NEW x \in Offered(Named),
                    buffer[x.file] # NoText, buffer[x.file] # x.text, ~overtaken[x.file]
             PROVE  FALSE
  BY DEF FixFits
<1>1. /\ inbox \in Seq(Message) /\ inbox # <<>> /\ Len(inbox) \in Nat
      /\ 1 \in 1..Len(inbox) /\ inbox[1] = Head(inbox)
      /\ inbox[1].kind = "codeAction" /\ asking = "yes" /\ ~exited
  BY DEF TypeOK, Awaited
<1>2. x.file \in Files /\ x.file \notin changed /\ disk[x.file] = x.text
  BY DEF Offered, TypeOK, Fix
<1>3. Unsaved(x.file)
  BY <1>2 DEF Unsaved
<1>4. PICK i \in About(x.file) : Tells(inbox[i], x.file)
  BY <1>1, <1>2, <1>3 DEF DirtyIsMarked
<1>5. i \in 1..Len(inbox) /\ inbox[i].kind \in EditKinds
  BY <1>4 DEF About, Tells, EditKinds
<1>6. i # 1
  BY <1>1, <1>5 DEF EditKinds
<1>7. i \in (1 + 1)..Len(inbox)
  BY <1>1, <1>5, <1>6
<1> QED
  BY <1>1, <1>5, <1>7 DEF AskInv

\* The inductive invariant under UnsavedIsKnown and OfferedFits.
EditorInv == TypeOK /\ SessionInv /\ AskInv /\ DirtyIsMarked

\* EditorInv holds in every reachable state.
LEMMA EditorKept == Spec => []EditorInv
<1>1. Init => TypeOK
  BY InitKept
<1>2. Init => SessionInv /\ AskInv /\ DirtyIsMarked
  <2> SUFFICES ASSUME Init PROVE SessionInv /\ AskInv /\ DirtyIsMarked
    OBVIOUS
  <2>1. Len(inbox) = 0 /\ \A f \in Files : buffer[f] = NoText
    BY DEF Init
  <2>2. 1..Len(inbox) = {}
    BY <2>1
  <2>3. ~shutDown
    BY DEF Init
  <2> QED
    BY <2>1, <2>2, <2>3 DEF SessionInv, AskInv, DirtyIsMarked, Unsaved
<1>3. EditorInv /\ [Next]_vars => EditorInv'
  BY StepTyped, StepKeepsSession, StepKeepsAsk, StepKeepsMarked DEF EditorInv
<1> QED
  BY <1>1, <1>2, <1>3, PTL DEF Spec, EditorInv

\* The server knows every buffer the editor holds unsaved, as soon as it has
\* handled what is queued about it (lsp.rs notification).
THEOREM UnsavedIsKnown == Spec => []DirtyIsMarked
  BY EditorKept, PTL DEF EditorInv

\* A fix-it offered to an editor that awaits it fits the buffer it is for,
\* unless the file was written behind the editor's back (lsp.rs
\* code_actions).
THEOREM OfferedFits == Spec => []FixFits
<1>1. EditorInv => FixFits
  BY AwaitedFits DEF EditorInv
<1> QED
  BY <1>1, EditorKept, PTL
=============================================================================
