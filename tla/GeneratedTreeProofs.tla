------------------------ MODULE GeneratedTreeProofs ------------------------
(***************************************************************************)
(* Proofs about GeneratedTree, for any number of processes, programs and   *)
(* files, wherever the directory lies and whichever processes are stopped. *)
(***************************************************************************)
EXTENDS GeneratedTree, TLAPS

(* The labels of a process, and those it has after the marker is written. *)
Writing == {"compare", "write", "rename", "toml", "lock", "cargo", "run"}
Clearing == {"listnet", "clearnet", "checknet", "rmnet", "clear"}
Marked == {"list", "extras"} \cup Clearing \cup Writing
Labels == {"idle", "look", "lookin", "mksrc", "mark", "ours", "oursin", "sweep", "clearall", "mkdest"}
          \cup Marked \cup Ended

Content == {Absent} \cup {Text[g][f] : g \in Programs, f \in Sources}
Built(g) == [f \in Sources |-> Text[g][f]]

TreeTypeOK ==
  /\ place \in {"build", "crate", "publish"}
  /\ linked \in BOOLEAN /\ theirs \in BOOLEAN /\ made \in BOOLEAN
  /\ srcDir \in BOOLEAN /\ netDir \in BOOLEAN /\ marker \in BOOLEAN
  /\ disk \in [DiskNames -> Content]
  /\ exe \in [Sources -> Content]
  /\ pc \in [Builds -> Labels]
  /\ prog \in [Builds -> Programs]
  /\ pos \in [Builds -> Nat \ {0}]
  /\ listed \in [Builds -> SUBSET DiskNames]
  /\ sub \in [Builds -> SUBSET DiskNames]
  /\ tops \in [Builds -> SUBSET {"marker", "toml", "lock", "src", "net"}]
  /\ swept \in [Builds -> SUBSET DiskNames]
  /\ met \in [Builds -> SUBSET Builds]
  /\ fresh \in [Builds -> BOOLEAN]
  /\ ran \in [Builds -> [Sources -> Content]]
  /\ dead \in SUBSET Builds

(* Nothing lies in a directory that is not there. *)
DirInv ==
  /\ srcDir => made
  /\ netDir => srcDir
  /\ \A e \in DiskNames : disk[e] # Absent => srcDir /\ (UnderNet(e) => netDir)

(* Two processes that run at once have met; none meets itself, or anyone   *)
(* before it begins.                                                       *)
MetInv == \A b, c \in Builds :
  /\ b \notin met[b]
  /\ pc[b] = "idle" => met[b] = {} /\ b \notin met[c]
  /\ Active(b) /\ Active(c) /\ b # c => c \in met[b]

(* What a process has still to clear is stale, and where it looked for it; *)
(* it begins to write with its first file, and writes those of its         *)
(* program; a temporary file of its is there only between its writing and  *)
(* its renaming.                                                           *)
OwnInv == \A b \in Builds :
  /\ pc[b] \notin Writing \cup {"extras"} \cup Ended => pos[b] = 1
  /\ \A e \in listed[b] : ~UnderNet(e) /\ (e[2] # None \/ ~Wants(prog[b], e[1]))
  /\ \A e \in sub[b] : UnderNet(e) /\ (e[2] # None \/ ~Wants(prog[b], e[1]))
  /\ pc[b] \in {"write", "rename"} => pos[b] <= Len(Files) /\ Wants(prog[b], Files[pos[b]])
  /\ \A f \in Sources : disk[<<f, b>>] # Absent =>
       pc[b] = "rename" /\ f = Files[pos[b]] /\ disk[<<f, b>>] = Text[prog[b]][f]

(* Where the commands go, by what the directory is. *)
PlaceInv ==
  /\ linked => \A e \in DiskNames : disk[e] = Absent
  /\ linked => \A b \in Builds : pc[b] \in {"idle", "refused"}
  /\ theirs /\ place # "build" =>
       /\ made /\ ~marker
       /\ \A b \in Builds : pc[b] \in {"idle", "look", "lookin", "ours", "oursin", "refused"}
  /\ place # "publish" => \A b \in Builds :
       /\ pc[b] \notin {"ours", "oursin", "sweep", "clearall", "mkdest", "extras", "noreadme"}
       /\ pc[b] \in Marked => marker
       /\ pc[b] = "mark" => made
  /\ place = "publish" => \A b \in Builds : pc[b] \notin {"cargo", "run"}
  /\ place = "build" => \A b \in Builds : pc[b] \notin {"lookin", "oursin"}
  /\ place # "publish" => \A e \in DiskNames : disk[e] # Absent => marker

(* What is stale to a build that met only builds of its program. *)
Stale(b, e) ==
  /\ disk[e] # Absent
  /\ IF e[2] = None THEN ~Wants(prog[b], e[1]) ELSE e[2] \notin met[b] \cup {b}

SourceInv(b) ==
  /\ pc[b] \in Clearing => \A e \in DiskNames : Stale(b, e) /\ ~UnderNet(e) => e \in listed[b]
  /\ pc[b] = "clearnet" => \A e \in DiskNames : Stale(b, e) /\ UnderNet(e) => e \in sub[b]
  /\ pc[b] \in {"checknet", "rmnet", "clear"} => \A e \in DiskNames : Stale(b, e) => ~UnderNet(e)
  /\ pc[b] \in Writing =>
       /\ \A e \in DiskNames : ~Stale(b, e)
       /\ \A i \in 1 .. Len(Files) : i < pos[b] /\ Wants(prog[b], Files[i]) =>
            disk[Final(Files[i])] = Text[prog[b]][Files[i]]
  /\ pc[b] \in {"toml", "lock", "cargo", "run"} => pos[b] > Len(Files)
  /\ pc[b] \in {"lock", "cargo", "run"} => toml = prog[b]
  /\ pc[b] \in {"cargo", "run"} /\ place = "build" => lock = Lock[prog[b]]
  /\ pc[b] = "run" => exe = Built(prog[b])

BuiltInv == place # "publish" => \A b \in Builds : AmongItsOwn(b) =>
  /\ Active(b) => SourceInv(b)
  /\ pc[b] = "done" => ran[b] = Built(prog[b])

(* A build that met nobody finds what it left. *)
Alone(b) ==
  /\ pc[b] \in {"lookin", "oursin"} => ~Owned
  /\ pc[b] \in {"oursin", "sweep"} => made
  /\ pc[b] = "clearall" => Entries \subseteq tops[b] /\ Present(DiskNames) \subseteq swept[b]
  /\ pc[b] \in {"mark"} \cup Marked => srcDir
  /\ pc[b] \in Marked => marker
  /\ pc[b] \in {"listnet", "clearnet", "checknet", "rmnet"} => netDir
  /\ pc[b] = "rmnet" => NetEmpty
  /\ pc[b] \in Clearing => listed[b] \subseteq Present(DiskNames)
  /\ pc[b] = "clearnet" => sub[b] \subseteq Present(DiskNames)
  /\ pc[b] = "write" => InPlace(Files[pos[b]])
  /\ pc[b] = "rename" => disk[<<Files[pos[b]], b>>] # Absent

AloneInv == \A b \in Builds : met[b] = {} =>
  /\ Active(b) => Alone(b)
  /\ pc[b] # "failed"

(* A directory without its marker was left by a process on its way. *)
Calm == place # "publish" \/ \A b \in Builds : met[b] = {}
MarkerInv ==
  Calm /\ ~marker /\ (srcDir \/ toml # Absent \/ lock # Absent) =>
    \E b \in Builds : pc[b] \in {"mark", "clearall"}

(* Builds of what is on disk. *)
FreshInv == place # "publish" => \A b \in Builds : Undisturbed(b) =>
  /\ pc[b] \notin {"idle", "lookin", "rmnet", "write", "rename", "failed", "refused"}
  /\ Active(b) =>
       /\ Tidy(prog[b])
       /\ pc[b] \in Clearing => listed[b] = {}
       /\ pc[b] = "clearnet" => sub[b] = {}
       /\ pc[b] \in {"listnet", "clearnet", "checknet"} => netDir
       /\ \A c \in Builds : Active(c) => Undisturbed(c)

TreeInv ==
  /\ TreeTypeOK /\ DirInv /\ MetInv /\ OwnInv /\ PlaceInv
  /\ BuiltInv /\ AloneInv /\ MarkerInv /\ RefusedOnlyForOthers /\ FreshInv
-----------------------------------------------------------------------------
(* Any step of a process but its beginning and its end by force. *)
Step(b) ==
  \/ Look(b) \/ LookIn(b) \/ MkSrc(b) \/ Mark(b) \/ ListSrc(b) \/ Clear(b)
  \/ ListNet(b) \/ ClearNet(b) \/ CheckNet(b) \/ RmNet(b)
  \/ Compare(b) \/ WriteTmp(b) \/ Rename(b) \/ WriteToml(b) \/ SyncLock(b)
  \/ Cargo(b) \/ RunExe(b)
  \/ Ours(b) \/ OursIn(b) \/ Sweep(b) \/ ClearAll(b) \/ MkDest(b) \/ Extras(b)

(* A name of a file is a source and its author. *)
LEMMA Names ==
  /\ \A f \in Sources, c \in Builds \cup {None} :
       <<f, c>> \in DiskNames /\ <<f, c>>[1] = f /\ <<f, c>>[2] = c
  /\ \A e \in DiskNames : e[1] \in Sources /\ e[2] \in Builds \cup {None} /\ e = <<e[1], e[2]>>
  BY DEF DiskNames

(* The files of a program are sources, and it has a root file. *)
LEMMA FileNames ==
  /\ Len(Files) \in Nat /\ Len(Files) >= 1
  /\ \A i \in 1 .. Len(Files) : Files[i] \in Sources
  /\ \A f \in Sources : \E i \in 1 .. Len(Files) : f = Files[i]
  /\ \A g \in Programs : Wants(g, Files[1])
<1>1. Len(Files) \in Nat /\ Len(Files) >= 1
  BY ProgramsAssumption
<1> QED
  BY <1>1, ProgramsAssumption DEF Sources, Wants

(* What a process writes or renames is a file of its program. *)
LEMMA OwnFile ==
  ASSUME TreeTypeOK, OwnInv, NEW b \in Builds, pc[b] \in {"write", "rename"}
  PROVE  /\ pos[b] \in 1 .. Len(Files)
         /\ Files[pos[b]] \in Sources
         /\ Text[prog[b]][Files[pos[b]]] \in Content
         /\ <<Files[pos[b]], b>> \in DiskNames /\ Final(Files[pos[b]]) \in DiskNames
<1>1. pos[b] \in 1 .. Len(Files)
  BY FileNames DEF TreeTypeOK, OwnInv
<1>2. Files[pos[b]] \in Sources
  BY <1>1, FileNames
<1>3. prog[b] \in Programs
  BY DEF TreeTypeOK
<1> QED
  BY <1>1, <1>2, <1>3, Names DEF Content, Final

(* A process touches nobody else's control. *)
LEMMA Frame ==
  ASSUME TreeTypeOK, NEW b \in Builds, Step(b)
  PROVE  /\ UNCHANGED <<place, linked, theirs, prog, met, fresh, dead>>
         /\ Active(b) /\ pc' = [pc EXCEPT ![b] = pc'[b]]
         /\ \A c \in Builds : c # b =>
              pc'[c] = pc[c] /\ pos'[c] = pos[c] /\ listed'[c] = listed[c] /\ sub'[c] = sub[c]
              /\ ran'[c] = ran[c]
<1> USE DEF At, Goto, Keep, disks, Active, Ended, TreeTypeOK
<1>1. CASE Look(b) \/ LookIn(b) \/ MkSrc(b) \/ Mark(b)
  BY <1>1 DEF Look, LookIn, MkSrc, Mark
<1>2. CASE ListSrc(b) \/ ListNet(b) \/ CheckNet(b) \/ RmNet(b)
  BY <1>2 DEF ListSrc, ListNet, CheckNet, RmNet
<1>3. CASE Clear(b) \/ ClearNet(b)
  BY <1>3 DEF Clear, ClearNet
<1>4. CASE Compare(b)
  BY <1>4 DEF Compare
<1>5. CASE WriteTmp(b) \/ Rename(b) \/ WriteToml(b) \/ SyncLock(b)
  BY <1>5 DEF WriteTmp, Rename, WriteToml, SyncLock
<1>6. CASE Cargo(b) \/ RunExe(b)
  BY <1>6 DEF Cargo, RunExe
<1>7. CASE Ours(b) \/ OursIn(b) \/ Sweep(b) \/ MkDest(b) \/ Extras(b)
  BY <1>7 DEF Ours, OursIn, Sweep, MkDest, Extras
<1>8. CASE ClearAll(b)
  BY <1>8 DEF ClearAll
<1> QED
  BY <1>1, <1>2, <1>3, <1>4, <1>5, <1>6, <1>7, <1>8 DEF Step

(* Every step keeps every variable in its type. *)
LEMMA StepType ==
  ASSUME TreeTypeOK, OwnInv, NEW b \in Builds, Step(b)
  PROVE  TreeTypeOK'
<1>0. /\ UNCHANGED <<place, linked, theirs, prog, met, fresh, dead>>
      /\ pc' = [pc EXCEPT ![b] = pc'[b]]
  BY Frame
<1>1. pc' \in [Builds -> Labels]
  BY <1>0 DEF TreeTypeOK, Labels, Marked, Clearing, Writing, Ended, Step, Goto, At, Look, LookIn, MkSrc,
     Mark, ListSrc, Clear, ListNet, ClearNet, CheckNet, RmNet, Compare, WriteTmp, Rename, WriteToml,
     SyncLock, Cargo, RunExe, Ours, OursIn, Sweep, ClearAll, MkDest, Extras
<1>2. made' \in BOOLEAN /\ srcDir' \in BOOLEAN /\ netDir' \in BOOLEAN /\ marker' \in BOOLEAN
  BY DEF TreeTypeOK, Step, At, disks, Look, LookIn, MkSrc,
     Mark, ListSrc, Clear, ListNet, ClearNet, CheckNet, RmNet, Compare, WriteTmp, Rename, WriteToml,
     SyncLock, Cargo, RunExe, Ours, OursIn, Sweep, ClearAll, MkDest, Extras
<1>3. pos' \in [Builds -> Nat \ {0}]
  <2>1. CASE Compare(b)
    BY <2>1 DEF TreeTypeOK, Compare
  <2>2. CASE Rename(b)
    BY <2>2 DEF TreeTypeOK, Rename
  <2> QED
    BY <2>1, <2>2 DEF TreeTypeOK, Step, disks, Look, LookIn, MkSrc,
     Mark, ListSrc, Clear, ListNet, ClearNet, CheckNet, RmNet, WriteTmp, WriteToml,
     SyncLock, Cargo, RunExe, Ours, OursIn, Sweep, ClearAll, MkDest, Extras
<1>4. listed' \in [Builds -> SUBSET DiskNames] /\ sub' \in [Builds -> SUBSET DiskNames]
  <2>0. listed \in [Builds -> SUBSET DiskNames] /\ sub \in [Builds -> SUBSET DiskNames]
    BY DEF TreeTypeOK
  <2>1. CASE ListSrc(b) \/ ListNet(b)
    BY <2>0, <2>1 DEF ListSrc, ListNet, ToClear, Present
  <2>2. CASE Clear(b)
    BY <2>0, <2>2 DEF Clear
  <2>3. CASE ClearNet(b)
    BY <2>0, <2>3 DEF ClearNet
  <2> QED
    BY <2>0, <2>1, <2>2, <2>3 DEF Step, disks, Look, LookIn, MkSrc,
     Mark, CheckNet, RmNet, Compare, WriteTmp, Rename, WriteToml,
     SyncLock, Cargo, RunExe, Ours, OursIn, Sweep, ClearAll, MkDest, Extras
<1>8. tops' \in [Builds -> SUBSET {"marker", "toml", "lock", "src", "net"}]
      /\ swept' \in [Builds -> SUBSET DiskNames]
  <2>0. /\ tops \in [Builds -> SUBSET {"marker", "toml", "lock", "src", "net"}]
        /\ swept \in [Builds -> SUBSET DiskNames]
    BY DEF TreeTypeOK
  <2>1. CASE Sweep(b)
    BY <2>0, <2>1 DEF Sweep, Entries, Present
  <2>2. CASE ClearAll(b)
    <3>1. \/ tops' = tops
          \/ \E n : tops' = [tops EXCEPT ![b] = @ \ {n}]
      BY <2>2 DEF ClearAll
    <3>2. \/ swept' = swept
          \/ \E e : swept' = [swept EXCEPT ![b] = @ \ {e}]
      BY <2>2 DEF ClearAll
    <3> QED
      BY <2>0, <3>1, <3>2
  <2>3. CASE ~Sweep(b) /\ ~ClearAll(b)
    BY <2>0, <2>3 DEF Step, Keep, Look, LookIn, MkSrc,
     Mark, ListSrc, Clear, ListNet, ClearNet, CheckNet, RmNet, Compare, WriteTmp, Rename, WriteToml,
     SyncLock, Cargo, RunExe, Ours, OursIn, MkDest, Extras
  <2> QED
    BY <2>1, <2>2, <2>3
<1>5. exe' \in [Sources -> Content]
  <2>1. Tree \in [Sources -> Content]
    BY Names DEF TreeTypeOK, Tree, Final
  <2> QED
    BY <2>1 DEF TreeTypeOK, Step, At, disks, Look, LookIn, MkSrc,
     Mark, ListSrc, Clear, ListNet, ClearNet, CheckNet, RmNet, Compare, WriteTmp, Rename, WriteToml,
     SyncLock, Cargo, RunExe, Ours, OursIn, Sweep, ClearAll, MkDest, Extras
<1>6. ran' \in [Builds -> [Sources -> Content]]
  BY DEF TreeTypeOK, Step, At, disks, Keep, Look, LookIn, MkSrc,
     Mark, ListSrc, Clear, ListNet, ClearNet, CheckNet, RmNet, Compare, WriteTmp, Rename, WriteToml,
     SyncLock, Cargo, RunExe, Ours, OursIn, Sweep, ClearAll, MkDest, Extras
<1>7. disk' \in [DiskNames -> Content]
  <2>1. Absent \in Content
    BY DEF Content
  <2>2. CASE WriteTmp(b)
    BY <2>2, OwnFile DEF TreeTypeOK, WriteTmp, At
  <2>3. CASE Rename(b)
    <3>1. /\ <<Files[pos[b]], b>> \in DiskNames /\ Final(Files[pos[b]]) \in DiskNames
      BY <2>3, OwnFile DEF Rename, At
    <3> QED
      BY <2>1, <2>3, <3>1 DEF TreeTypeOK, Rename
  <2>4. CASE Clear(b)
    BY <2>1, <2>4 DEF TreeTypeOK, Clear
  <2>5. CASE ClearNet(b)
    BY <2>1, <2>5 DEF TreeTypeOK, ClearNet
  <2>6. CASE ClearAll(b)
    BY <2>1, <2>6 DEF TreeTypeOK, ClearAll
  <2> QED
    BY <2>2, <2>3, <2>4, <2>5, <2>6 DEF TreeTypeOK, Step, At, disks, Look, LookIn, MkSrc,
     Mark, ListSrc, ListNet, CheckNet, RmNet, Compare, WriteToml,
     SyncLock, Cargo, RunExe, Ours, OursIn, Sweep, MkDest, Extras
<1> QED
  BY <1>0, <1>1, <1>2, <1>3, <1>4, <1>5, <1>6, <1>7, <1>8 DEF TreeTypeOK

(* The steps that change no file. *)
LEMMA NoFile ==
  ASSUME NEW b \in Builds, Step(b), disk' # disk
  PROVE  Clear(b) \/ ClearNet(b) \/ WriteTmp(b) \/ Rename(b) \/ ClearAll(b)
  BY DEF Step, disks, Look, LookIn, MkSrc, Mark, ListSrc, ListNet, CheckNet, RmNet, Compare, WriteToml,
     SyncLock, Cargo, RunExe, Ours, OursIn, Sweep, MkDest, Extras

(* The steps that change no directory. *)
LEMMA NoDirectory ==
  ASSUME NEW b \in Builds, Step(b), ~UNCHANGED <<made, srcDir, netDir>>
  PROVE  MkSrc(b) \/ RmNet(b) \/ Compare(b) \/ ClearAll(b) \/ MkDest(b)
  BY DEF Step, disks, Look, LookIn, Mark, ListSrc, Clear, ListNet, ClearNet, CheckNet, WriteTmp, Rename,
     WriteToml, SyncLock, Cargo, RunExe, Ours, OursIn, Sweep, Extras

(* What a step may do to a file: nothing, or remove what is stale to its   *)
(* process, or, when publishing, anything; or write its temporary file, in *)
(* a directory that is there; or rename it.                                *)
LEMMA FileSteps ==
  ASSUME TreeTypeOK, OwnInv, NEW b \in Builds, Step(b), NEW e \in DiskNames
  PROVE  \/ disk'[e] = disk[e]
         \/ /\ disk'[e] = Absent
            /\ pc[b] = "clearall" \/ e[2] # None \/ ~Wants(prog[b], e[1])
         \/ /\ pc[b] = "write" /\ pc'[b] = "rename" /\ e = <<Files[pos[b]], b>>
            /\ disk'[e] = Text[prog[b]][Files[pos[b]]] /\ InPlace(Files[pos[b]])
         \/ /\ pc[b] = "rename" /\ e = Final(Files[pos[b]])
            /\ disk'[e] = Text[prog[b]][Files[pos[b]]] /\ disk[<<Files[pos[b]], b>>] # Absent
<1>1. CASE Clear(b)
  BY <1>1 DEF Clear, TreeTypeOK, OwnInv
<1>2. CASE ClearNet(b)
  BY <1>2 DEF ClearNet, TreeTypeOK, OwnInv
<1>3. CASE ClearAll(b)
  BY <1>3 DEF ClearAll, TreeTypeOK, At
<1>4. CASE WriteTmp(b)
  BY <1>4, OwnFile DEF WriteTmp, TreeTypeOK, At, Goto
<1>5. CASE Rename(b)
  <2>1. Files[pos[b]] \in Sources /\ <<Files[pos[b]], b>> \in DiskNames
    BY <1>5, OwnFile DEF Rename, At
  <2>2. disk[<<Files[pos[b]], b>>] # Absent => disk[<<Files[pos[b]], b>>] = Text[prog[b]][Files[pos[b]]]
    BY <2>1 DEF OwnInv
  <2>3. <<Files[pos[b]], b>>[2] # None
    BY ProgramsAssumption
  <2>4. CASE disk[<<Files[pos[b]], b>>] # Absent
    <3>1. disk' = [disk EXCEPT ![Final(Files[pos[b]])] = disk[<<Files[pos[b]], b>>],
                               ![<<Files[pos[b]], b>>] = Absent]
      BY <1>5, <2>4 DEF Rename
    <3>2. /\ e = <<Files[pos[b]], b>> => disk'[e] = Absent
          /\ e = Final(Files[pos[b]]) /\ e # <<Files[pos[b]], b>> => disk'[e] = disk[<<Files[pos[b]], b>>]
          /\ e # Final(Files[pos[b]]) /\ e # <<Files[pos[b]], b>> => disk'[e] = disk[e]
      BY <3>1 DEF TreeTypeOK
    <3> QED
      BY <1>5, <2>2, <2>3, <2>4, <3>2 DEF Rename, At
  <2> QED
    BY <1>5, <2>4 DEF Rename
<1> QED
  BY <1>1, <1>2, <1>3, <1>4, <1>5, NoFile

(* After a rename the temporary file is gone. *)
LEMMA RenamedAway ==
  ASSUME TreeTypeOK, OwnInv, NEW b \in Builds, Rename(b)
  PROVE  \A f \in Sources : disk'[<<f, b>>] = Absent
<1>1. Files[pos[b]] \in Sources /\ <<Files[pos[b]], b>> \in DiskNames
  BY OwnFile DEF Rename, At
<1>2. \A f \in Sources : f # Files[pos[b]] => disk[<<f, b>>] = Absent
  BY DEF OwnInv
<1>3. \A f \in Sources : <<f, b>> \in DiskNames /\ <<f, b>> # Final(Files[pos[b]])
  BY Names, ProgramsAssumption DEF Final
<1> QED
  BY <1>1, <1>2, <1>3 DEF Rename, TreeTypeOK

(* No step leaves a file without its directory. *)
LEMMA DirStep ==
  ASSUME TreeTypeOK, OwnInv, DirInv, NEW b \in Builds, Step(b)
  PROVE  DirInv'
<1>1. CASE disk' = disk
  <2>1. CASE UNCHANGED <<made, srcDir, netDir>>
    BY <1>1, <2>1 DEF DirInv
  <2>2. CASE MkSrc(b) \/ MkDest(b)
    BY <1>1, <2>2 DEF DirInv, MkSrc, MkDest
  <2>3. CASE RmNet(b)
    BY <1>1, <2>3 DEF DirInv, RmNet, NetEmpty
  <2>4. CASE Compare(b)
    BY <1>1, <2>4 DEF DirInv, Compare
  <2>5. CASE ClearAll(b)
    BY <1>1, <2>5 DEF DirInv, ClearAll, NetEmpty, Present, HasEntries
  <2> QED
    BY <2>1, <2>2, <2>3, <2>4, <2>5, NoDirectory
<1>2. CASE disk' # disk
  <2>1. UNCHANGED <<made, srcDir, netDir>>
    BY <1>2, NoFile DEF Clear, ClearNet, WriteTmp, Rename, ClearAll
  <2>2. ASSUME NEW e \in DiskNames, disk'[e] # Absent PROVE srcDir /\ (UnderNet(e) => netDir)
    <3>1. CASE disk'[e] = disk[e]
      BY <2>2, <3>1 DEF DirInv
    <3>2. CASE e = <<Files[pos[b]], b>> /\ InPlace(Files[pos[b]])
      BY <3>2 DEF InPlace, UnderNet
    <3>3. CASE pc[b] = "rename" /\ e = Final(Files[pos[b]]) /\ disk[<<Files[pos[b]], b>>] # Absent
      <4>1. <<Files[pos[b]], b>> \in DiskNames
        BY <3>3, OwnFile
      <4>2. srcDir /\ (UnderNet(<<Files[pos[b]], b>>) => netDir)
        BY <3>3, <4>1 DEF DirInv
      <4> QED
        BY <3>3, <4>2 DEF UnderNet, Final
    <3> QED
      BY <2>2, <3>1, <3>2, <3>3, FileSteps
  <2> QED
    BY <2>1, <2>2 DEF DirInv, UnderNet
<1> QED
  BY <1>1, <1>2

(* What is to clear is stale, whatever was seen. *)
LEMMA ToClearIsStale ==
  ASSUME NEW b \in Builds, NEW S, NEW e \in ToClear(b, S)
  PROVE  e \in S /\ (e[2] # None \/ ~Wants(prog[b], e[1]))
  BY DEF ToClear

(* What a process is about to clear, write or rename is its own affair:    *)
(* its steps keep it so, and nobody else's touch it.                       *)
LEMMA OwnStep ==
  ASSUME TreeTypeOK, OwnInv, NEW b \in Builds, Step(b)
  PROVE  OwnInv'
<1>1. prog' = prog /\ \A c \in Builds : c # b => pc'[c] = pc[c] /\ pos'[c] = pos[c]
                        /\ listed'[c] = listed[c] /\ sub'[c] = sub[c]
  BY Frame
<1>2. ASSUME NEW c \in Builds
      PROVE  /\ \A e \in listed'[c] : ~UnderNet(e) /\ (e[2] # None \/ ~Wants(prog[c], e[1]))
             /\ \A e \in sub'[c] : UnderNet(e) /\ (e[2] # None \/ ~Wants(prog[c], e[1]))
  <2>1. CASE c # b \/ (listed'[c] = listed[c] /\ sub'[c] = sub[c])
    BY <1>1, <2>1 DEF OwnInv
  <2>2. CASE c = b /\ (Clear(b) \/ ClearNet(b))
    BY <2>2 DEF Clear, ClearNet, TreeTypeOK, OwnInv
  <2>3. CASE c = b /\ (ListSrc(b) \/ ListNet(b))
    BY <2>3, ToClearIsStale DEF ListSrc, ListNet, TreeTypeOK, OwnInv
  <2> QED
    BY <2>1, <2>2, <2>3 DEF Step, disks, Look, LookIn, MkSrc, Mark, CheckNet, RmNet, Compare, WriteTmp,
       Rename, WriteToml, SyncLock, Cargo, RunExe, Ours, OursIn, Sweep, ClearAll, MkDest, Extras
<1>3. ASSUME NEW c \in Builds, pc'[c] \in {"write", "rename"}
      PROVE  pos'[c] <= Len(Files) /\ Wants(prog[c], Files[pos'[c]])
  <2>1. CASE c # b
    BY <1>1, <1>3, <2>1 DEF OwnInv
  <2>2. CASE c = b /\ Compare(b)
    BY <1>3, <2>2, FileNames DEF Compare, At, Goto, TreeTypeOK
  <2>3. CASE c = b /\ WriteTmp(b)
    BY <1>3, <2>3 DEF WriteTmp, At, Goto, OwnInv, TreeTypeOK
  <2>4. CASE c = b /\ Rename(b)
    BY <1>3, <2>4 DEF Rename, At, Goto, TreeTypeOK
  <2>5. CASE c = b /\ ~Compare(b) /\ ~WriteTmp(b) /\ ~Rename(b)
    BY <1>3, <2>5 DEF Step, At, Goto, TreeTypeOK, Look, LookIn, MkSrc, Mark, ListSrc, Clear, ListNet,
       ClearNet, CheckNet, RmNet, WriteToml, SyncLock, Cargo, RunExe, Ours, OursIn, Sweep, ClearAll, MkDest, Extras
  <2> QED
    BY <2>1, <2>2, <2>3, <2>4, <2>5
<1>4. ASSUME NEW c \in Builds, NEW f \in Sources, disk'[<<f, c>>] # Absent
      PROVE  pc'[c] = "rename" /\ f = Files[pos'[c]] /\ disk'[<<f, c>>] = Text[prog[c]][f]
  <2>0. <<f, c>> \in DiskNames /\ <<f, c>>[2] = c /\ c # None
    BY Names, ProgramsAssumption
  <2>1. CASE Rename(b) /\ c = b
    BY <1>4, <2>1, RenamedAway
  <2>2. CASE WriteTmp(b) /\ c = b /\ disk'[<<f, c>>] # disk[<<f, c>>]
    BY <1>4, <2>0, <2>2, FileSteps DEF WriteTmp, At, Final
  <2>3. CASE disk'[<<f, c>>] = disk[<<f, c>>] /\ c # b
    BY <1>1, <1>4, <2>3 DEF OwnInv
  <2>4. CASE disk'[<<f, c>>] # disk[<<f, c>>] /\ c # b
    BY <1>4, <2>0, <2>4, FileSteps DEF Final
  <2>5. CASE c = b /\ ~Rename(b) /\ disk'[<<f, c>>] = disk[<<f, c>>]
    <3>1. pc[b] = "rename"
      BY <1>4, <2>5 DEF OwnInv
    <3>2. ~Step(b)
      BY <2>5, <3>1 DEF Step, At, Look, LookIn, MkSrc, Mark, ListSrc, Clear, ListNet, ClearNet, CheckNet,
         RmNet, Compare, WriteTmp, WriteToml, SyncLock, Cargo, RunExe, Ours, OursIn, Sweep, ClearAll, MkDest, Extras
    <3> QED
      BY <3>2
  <2>6. CASE c = b /\ ~Rename(b) /\ ~WriteTmp(b) /\ disk'[<<f, c>>] # disk[<<f, c>>]
    <3>1. pc[b] \notin {"write", "rename"}
      BY <2>6 DEF Step, At, Look, LookIn, MkSrc, Mark, ListSrc, Clear, ListNet, ClearNet, CheckNet,
         RmNet, Compare, WriteToml, SyncLock, Cargo, RunExe, Ours, OursIn, Sweep, ClearAll, MkDest, Extras
    <3> QED
      BY <1>4, <2>0, <2>6, <3>1, FileSteps
  <2> QED
    BY <2>1, <2>2, <2>3, <2>4, <2>5, <2>6
<1>5. ASSUME NEW c \in Builds, pc'[c] \notin Writing \cup {"extras"} \cup Ended PROVE pos'[c] = 1
  <2>1. CASE c # b
    BY <1>1, <1>5, <2>1 DEF OwnInv
  <2>2. CASE c = b
    <3>1. pc'[b] \notin {"compare", "write", "rename", "toml", "lock", "cargo", "run", "extras",
                         "done", "failed", "refused", "noreadme"}
      BY <1>5, <2>2 DEF Writing, Ended
    <3>2. ~Compare(b) /\ ~Rename(b) /\ ~WriteTmp(b)
      BY <3>1 DEF Compare, Rename, WriteTmp, At, Goto, TreeTypeOK
    <3>3. pos' = pos
      BY <3>2 DEF Step, disks, Look, LookIn, MkSrc, Mark, ListSrc, Clear, ListNet, ClearNet, CheckNet, RmNet,
         WriteToml, SyncLock, Cargo, RunExe, Ours, OursIn, Sweep, ClearAll, MkDest, Extras
    <3>4. pc[b] \notin Writing \cup {"extras"} \cup Ended
      BY <3>1, <3>2 DEF Writing, Ended, TreeTypeOK, Step, At, Goto, Look, LookIn, MkSrc, Mark, ListSrc,
         Clear, ListNet, ClearNet, CheckNet, RmNet, WriteToml, SyncLock, Cargo, RunExe, Ours, OursIn, Sweep, ClearAll,
         MkDest, Extras
    <3> QED
      BY <2>2, <3>3, <3>4 DEF OwnInv
  <2> QED
    BY <2>1, <2>2
<1> QED
  BY <1>1, <1>2, <1>3, <1>4, <1>5 DEF OwnInv, Wants, UnderNet

(* No step begins again. *)
LEMMA NeverIdle ==
  ASSUME TreeTypeOK, NEW b \in Builds, Step(b)
  PROVE  pc'[b] # "idle"
  BY DEF Step, At, Goto, TreeTypeOK, Look, LookIn, MkSrc, Mark, ListSrc, Clear, ListNet, ClearNet, CheckNet,
     RmNet, Compare, WriteTmp, Rename, WriteToml, SyncLock, Cargo, RunExe, Ours, OursIn, Sweep, ClearAll, MkDest, Extras

(* Running together is meeting, and a step ends at most one run. *)
LEMMA MetStep ==
  ASSUME TreeTypeOK, MetInv, NEW b \in Builds, Step(b)
  PROVE  MetInv'
<1>1. UNCHANGED <<met, dead>> /\ Active(b) /\ \A c \in Builds : c # b => pc'[c] = pc[c]
  BY Frame
<1>2. \A c \in Builds : Active(c)' => Active(c)
  BY <1>1 DEF Active, Ended
<1>3. \A c \in Builds : pc'[c] = "idle" => pc[c] = "idle"
  BY <1>1, NeverIdle
<1> QED
  BY <1>1, <1>2, <1>3 DEF MetInv

(* Only publishing removes a marker. *)
LEMMA MarkerStays ==
  ASSUME NEW b \in Builds, Step(b), ~ClearAll(b), TreeTypeOK
  PROVE  marker => marker'
  BY DEF TreeTypeOK, Step, disks, Look, LookIn, MkSrc, Mark, ListSrc, Clear, ListNet, ClearNet, CheckNet, RmNet,
     Compare, WriteTmp, Rename, WriteToml, SyncLock, Cargo, RunExe, Ours, OursIn, Sweep, MkDest, Extras

(* Nor does anything else remove the directory. *)
LEMMA MadeStays ==
  ASSUME NEW b \in Builds, Step(b), ~ClearAll(b), TreeTypeOK
  PROVE  made => made'
  BY DEF TreeTypeOK, Step, disks, Look, LookIn, MkSrc, Mark, ListSrc, Clear, ListNet, ClearNet, CheckNet, RmNet,
     Compare, WriteTmp, Rename, WriteToml, SyncLock, Cargo, RunExe, Ours, OursIn, Sweep, MkDest, Extras

(* A link, a directory of somebody's files, and one of each kind of place  *)
(* send the commands the way they should go.                               *)
LEMMA PlaceStep ==
  ASSUME TreeTypeOK, OwnInv, PlaceInv, NEW b \in Builds, Step(b)
  PROVE  PlaceInv'
<1>1. /\ UNCHANGED <<place, linked, theirs>> /\ Active(b)
      /\ \A c \in Builds : c # b => pc'[c] = pc[c]
  BY Frame
<1>2. ~linked
  BY <1>1 DEF PlaceInv, Active, Ended
<1>3. CASE theirs /\ place # "build"
  <2>1. pc[b] \in {"look", "lookin", "ours", "oursin"} /\ made /\ ~marker
    BY <1>1, <1>3 DEF PlaceInv, Active, Ended
  <2>2. Look(b) \/ LookIn(b) \/ Ours(b) \/ OursIn(b)
    BY <2>1 DEF Step, At, MkSrc, Mark, ListSrc, Clear, ListNet, ClearNet, CheckNet, RmNet, Compare, WriteTmp,
       Rename, WriteToml, SyncLock, Cargo, RunExe, Sweep, ClearAll, MkDest, Extras
  <2>3. UNCHANGED <<disks>> /\ pc'[b] \in {"lookin", "oursin", "refused"}
        /\ (place # "publish" => pc'[b] # "oursin")
    BY <1>3, <2>1, <2>2 DEF Look, LookIn, Ours, OursIn, At, Goto, Owned, HasEntries, TreeTypeOK, PlaceInv
  <2> QED
    BY <1>1, <1>2, <1>3, <2>3 DEF PlaceInv, disks, Marked, Clearing, Writing
<1>4. CASE ~(theirs /\ place # "build")
  <2>1. ASSUME place # "publish"
        PROVE  /\ pc'[b] \notin {"ours", "oursin", "sweep", "clearall", "mkdest", "extras", "noreadme"}
               /\ ~ClearAll(b)
               /\ pc'[b] = "mark" => made'
    <3>1. pc[b] \notin {"ours", "oursin", "sweep", "clearall", "mkdest", "extras", "noreadme"}
      BY <2>1 DEF PlaceInv
    <3> QED
      BY <1>1, <2>1, <3>1 DEF TreeTypeOK, Step, At, Goto, Look, LookIn, MkSrc, Mark, ListSrc, Clear, ListNet,
         ClearNet, CheckNet, RmNet, Compare, WriteTmp, Rename, WriteToml, SyncLock, Cargo, RunExe, Ours, OursIn, Sweep,
         ClearAll, MkDest, Extras
  <2>2. ASSUME place # "publish", pc'[b] \in Marked PROVE marker'
    <3>1. CASE pc[b] \in Marked
      BY <2>1, <2>2, <3>1, MarkerStays DEF PlaceInv
    <3>2. CASE pc[b] \notin Marked
      BY <2>2, <3>2, <2>1, <1>1 DEF PlaceInv, TreeTypeOK, Step, At, Goto, Look, LookIn, MkSrc, Mark, ListSrc, Clear, ListNet,
         ClearNet, CheckNet, RmNet, Compare, WriteTmp, Rename, WriteToml, SyncLock, Cargo, RunExe, Ours, OursIn, Sweep,
         ClearAll, MkDest, Extras, Marked, Clearing, Writing
    <3> QED
      BY <3>1, <3>2
  <2>3. place = "publish" => pc'[b] \notin {"cargo", "run"}
    BY DEF PlaceInv, TreeTypeOK, Step, At, Goto, Look, LookIn, MkSrc, Mark, ListSrc, Clear, ListNet,
       ClearNet, CheckNet, RmNet, Compare, WriteTmp, Rename, WriteToml, SyncLock, Cargo, RunExe, Ours, OursIn, Sweep,
       ClearAll, MkDest, Extras
  <2>4. place = "build" => pc'[b] \notin {"lookin", "oursin"}
    BY DEF Owned, PlaceInv, TreeTypeOK, Step, At, Goto, Look, LookIn, MkSrc, Mark, ListSrc, Clear, ListNet,
       ClearNet, CheckNet, RmNet, Compare, WriteTmp, Rename, WriteToml, SyncLock, Cargo, RunExe, Ours, OursIn, Sweep,
       ClearAll, MkDest, Extras
  <2>5. ASSUME place # "publish", NEW e \in DiskNames, disk'[e] # Absent PROVE marker'
    <3>1. disk[e] # Absent \/ pc[b] \in Marked
      BY <2>5, FileSteps DEF Marked, Writing
    <3>2. marker
      BY <2>5, <3>1 DEF PlaceInv
    <3> QED
      BY <2>1, <2>5, <3>2, MarkerStays
  <2>6. ASSUME place # "publish", NEW c \in Builds, c # b
        PROVE  /\ pc'[c] \notin {"ours", "oursin", "sweep", "clearall", "mkdest", "extras", "noreadme"}
               /\ pc'[c] \in Marked => marker'
               /\ pc'[c] = "mark" => made'
    BY <1>1, <2>1, <2>6, MarkerStays, MadeStays DEF PlaceInv
  <2>7. ASSUME NEW c \in Builds, c # b
        PROVE  /\ place = "publish" => pc'[c] \notin {"cargo", "run"}
               /\ place = "build" => pc'[c] \notin {"lookin", "oursin"}
    BY <1>1, <2>7 DEF PlaceInv
  <2> HIDE DEF Marked
  <2> QED
    BY <1>1, <1>2, <1>4, <2>1, <2>2, <2>3, <2>4, <2>5, <2>6, <2>7 DEF PlaceInv
<1> QED
  BY <1>3, <1>4

-----------------------------------------------------------------------------
(* The beginning of a run changes nothing on disk. *)
LEMMA BeginBasics ==
  ASSUME TreeTypeOK, DirInv, MetInv, OwnInv, PlaceInv, NEW b \in Builds, Begin(b)
  PROVE  TreeTypeOK' /\ DirInv' /\ MetInv' /\ OwnInv' /\ PlaceInv'
<1>1. /\ UNCHANGED <<disks, prog, pos, listed, sub, tops, swept, ran, dead>>
      /\ pc[b] = "idle" /\ b \notin dead
      /\ pc' = [pc EXCEPT ![b] = IF linked THEN "refused" ELSE IF place = "publish" THEN "ours" ELSE "look"]
      /\ fresh' \in [Builds -> BOOLEAN]
  BY DEF Begin, Goto, TreeTypeOK, Tidy, Undisturbed
<1>2. met' = [c \in Builds |-> IF c = b THEN {d \in Builds : Active(d)}
                               ELSE IF Active(c) THEN met[c] \cup {b} ELSE met[c]]
  BY DEF Begin
<1>3. TreeTypeOK'
  <2>1. met' \in [Builds -> SUBSET Builds]
    BY <1>2 DEF TreeTypeOK
  <2>2. pc' \in [Builds -> Labels]
    BY <1>1 DEF TreeTypeOK, Labels, Ended
  <2> QED
    BY <1>1, <2>1, <2>2 DEF TreeTypeOK, disks
<1>4. DirInv'
  BY <1>1 DEF DirInv, disks, UnderNet
<1>5. ~Active(b) /\ \A c \in Builds : c # b => (Active(c)' <=> Active(c))
  BY <1>1 DEF Active, TreeTypeOK
<1>6. MetInv'
  <2>1. \A c \in Builds : pc'[c] = "idle" => c # b /\ pc[c] = "idle" /\ ~Active(c)
    BY <1>1 DEF TreeTypeOK, Active
  <2>2. \A c \in Builds : met'[c] \subseteq met[c] \cup {b} \cup {d \in Builds : Active(d)}
    BY <1>2
  <2>3. ASSUME NEW c \in Builds, NEW d \in Builds
        PROVE  /\ c \notin met'[c]
               /\ pc'[c] = "idle" => met'[c] = {} /\ c \notin met'[d]
    BY <1>2, <1>5, <2>1, <2>2 DEF MetInv
  <2>4. ASSUME NEW c \in Builds, NEW d \in Builds, Active(c)', Active(d)', c # d
        PROVE  d \in met'[c]
    BY <1>2, <1>5, <2>4 DEF MetInv
  <2> QED
    BY <2>3, <2>4 DEF MetInv
<1>7. OwnInv'
  <2>1. ASSUME NEW c \in Builds, NEW f \in Sources, disk[<<f, c>>] # Absent
        PROVE  pc'[c] = "rename"
    BY <1>1, <2>1 DEF OwnInv, TreeTypeOK
  <2>2. \A c \in Builds : pc'[c] \in {"write", "rename"} => pc[c] = pc'[c]
    BY <1>1 DEF TreeTypeOK
  <2>3. ASSUME NEW c \in Builds, pc'[c] \notin Writing \cup {"extras"} \cup Ended PROVE pos[c] = 1
    BY <1>1, <2>3 DEF OwnInv, TreeTypeOK, Writing, Ended
  <2> QED
    BY <1>1, <2>1, <2>2, <2>3 DEF OwnInv, disks, Wants, UnderNet
<1>8. PlaceInv'
  <2>1. pc'[b] \in {"refused", "ours", "look"} /\ (linked => pc'[b] = "refused")
        /\ (place # "publish" => pc'[b] # "ours")
    BY <1>1 DEF TreeTypeOK
  <2>2. \A c \in Builds : c # b => pc'[c] = pc[c]
    BY <1>1 DEF TreeTypeOK
  <2>3. "refused" \notin Marked /\ "ours" \notin Marked /\ "look" \notin Marked
    BY DEF Marked, Clearing, Writing
  <2> QED
    BY <1>1, <2>1, <2>2, <2>3 DEF PlaceInv, disks
<1> QED
  BY <1>3, <1>4, <1>6, <1>7, <1>8

(* Nor does the end of a process by force. *)
LEMMA StopBasics ==
  ASSUME TreeTypeOK, DirInv, MetInv, OwnInv, PlaceInv, NEW b \in Builds, Stop(b)
  PROVE  TreeTypeOK' /\ DirInv' /\ MetInv' /\ OwnInv' /\ PlaceInv'
<1>1. UNCHANGED <<disks, pc, prog, pos, listed, sub, tops, swept, met, fresh, ran>> /\ dead' = dead \cup {b}
  BY DEF Stop
<1>2. TreeTypeOK'
  BY <1>1 DEF TreeTypeOK, disks
<1>3. DirInv' /\ OwnInv' /\ PlaceInv'
  BY <1>1 DEF DirInv, OwnInv, PlaceInv, disks, UnderNet, Wants
<1>4. MetInv'
  BY <1>1 DEF MetInv, Active
<1> QED
  BY <1>2, <1>3, <1>4

-----------------------------------------------------------------------------
(* The manifest, the lock and the executable are written whole, as the     *)
(* process that writes them would have them.                               *)
LEMMA OtherSteps ==
  ASSUME NEW b \in Builds, Step(b), ~ClearAll(b)
  PROVE  /\ toml' = toml \/ (toml' = prog[b] /\ pc[b] = "toml")
         /\ lock' = lock \/ (lock' = Lock[prog[b]] /\ pc[b] = "lock")
         /\ exe' = exe \/ (exe' = Tree /\ pc[b] = "cargo")
  BY DEF Step, disks, At, Mirror, CopyLock, Look, LookIn, MkSrc, Mark, ListSrc, Clear, ListNet, ClearNet, CheckNet, RmNet,
     Compare, WriteTmp, Rename, WriteToml, SyncLock, Cargo, RunExe, Ours, OursIn, Sweep, MkDest, Extras

(* When all files are written the tree is the program's. *)
LEMMA TreeIsWhole ==
  ASSUME TreeTypeOK, NEW b \in Builds, SourceInv(b), pc[b] \in {"toml", "lock", "cargo", "run"}
  PROVE  Tree = Built(prog[b])
<1>1. ASSUME NEW f \in Sources PROVE disk[Final(f)] = Text[prog[b]][f]
  <2>1. PICK i \in 1 .. Len(Files) : f = Files[i]
    BY FileNames
  <2>2. i < pos[b]
    BY <2>1, FileNames DEF SourceInv, TreeTypeOK
  <2>3. Final(f) \in DiskNames /\ Final(f)[1] = f /\ Final(f)[2] = None
    BY Names DEF Final
  <2>4. ~Stale(b, Final(f))
    BY <2>3 DEF SourceInv, Writing
  <2>5. CASE Wants(prog[b], f)
    BY <2>1, <2>2, <2>5 DEF SourceInv, Writing
  <2>6. CASE ~Wants(prog[b], f)
    BY <2>3, <2>4, <2>6 DEF Stale, Wants
  <2> QED
    BY <2>5, <2>6
<1> QED
  BY <1>1 DEF Tree, Built

(* A step of a build of the same program that it met does a build no harm. *)
LEMMA NeighbourStep ==
  ASSUME TreeTypeOK, OwnInv, PlaceInv, place # "publish",
         NEW b \in Builds, SourceInv(b), NEW c \in met[b], c # b, prog[c] = prog[b], Step(c)
  PROVE  SourceInv(b)'
<1>0. c \in Builds /\ pc[c] # "clearall" /\ ~ClearAll(c)
  BY DEF TreeTypeOK, PlaceInv, ClearAll, At
<1>1. UNCHANGED <<place, prog, met>> /\ pc'[b] = pc[b] /\ pos'[b] = pos[b] /\ listed'[b] = listed[b]
      /\ sub'[b] = sub[b]
  BY <1>0, Frame
<1>2. ASSUME NEW e \in DiskNames
      PROVE  \/ disk'[e] = disk[e]
             \/ disk'[e] = Absent /\ (e[2] # None \/ ~Wants(prog[b], e[1]))
             \/ e[2] = c
             \/ e[2] = None /\ Wants(prog[b], e[1]) /\ disk'[e] = Text[prog[b]][e[1]]
  <2>1. CASE pc[c] = "write" /\ e = <<Files[pos[c]], c>>
    BY <2>1
  <2>2. CASE pc[c] = "rename" /\ e = Final(Files[pos[c]]) /\ disk'[e] = Text[prog[c]][Files[pos[c]]]
    BY <1>0, <2>2 DEF OwnInv, Final
  <2> QED
    BY <1>0, <2>1, <2>2, FileSteps
<1>3. ASSUME NEW e \in DiskNames, Stale(b, e)' PROVE Stale(b, e)
  <2>1. disk'[e] # Absent /\ IF e[2] = None THEN ~Wants(prog[b], e[1]) ELSE e[2] \notin met[b] \cup {b}
    BY <1>1, <1>3 DEF Stale, Wants
  <2>2. c # None /\ c \in met[b]
    BY <1>0, ProgramsAssumption
  <2>3. disk'[e] = disk[e] /\ (e[2] = None => ~Wants(prog[b], e[1]))
    BY <1>2, <2>1, <2>2
  <2> QED
    BY <2>1, <2>3 DEF Stale
<1>4. ASSUME NEW i \in 1 .. Len(Files), Wants(prog[b], Files[i]),
             disk[Final(Files[i])] = Text[prog[b]][Files[i]]
      PROVE  disk'[Final(Files[i])] = Text[prog[b]][Files[i]]
  <2>1. Files[i] \in Sources
    BY FileNames
  <2>2. Final(Files[i]) \in DiskNames /\ Final(Files[i])[1] = Files[i] /\ Final(Files[i])[2] = None /\ c # None
    BY <1>0, <2>1, Names, ProgramsAssumption DEF Final
  <2> QED
    BY <1>2, <1>4, <2>2
<1>5. pc[b] \in {"lock", "cargo", "run"} => toml' = prog[b]
  BY <1>0, OtherSteps DEF SourceInv
<1>6. pc[b] \in {"cargo", "run"} /\ place = "build" => lock' = Lock[prog[b]]
  BY <1>0, OtherSteps DEF SourceInv
<1>7. pc[b] = "run" => exe' = Built(prog[b])
  BY <1>0, OtherSteps, TreeIsWhole DEF SourceInv
<1>8. \A e \in DiskNames : UnderNet(e)' = UnderNet(e)
  BY DEF UnderNet
<1>9. SourceInv(b)
  OBVIOUS
<1>10. \A i \in 1 .. Len(Files) : Final(Files[i])' = Final(Files[i])
                                  /\ Wants(prog[b], Files[i])' = Wants(prog[b], Files[i])
  BY <1>1 DEF Final, Wants
<1>11. Built(prog[b])' = Built(prog[b])
  BY <1>1 DEF Built
<1> QED
  BY <1>1, <1>3, <1>4, <1>5, <1>6, <1>7, <1>8, <1>10, <1>11 DEF SourceInv

(* What a build does itself leaves nothing more stale, and keeps the files *)
(* of its program that are written.                                        *)
LEMMA OwnFiles ==
  ASSUME TreeTypeOK, OwnInv, PlaceInv, place # "publish", NEW b \in Builds, Step(b)
  PROVE  /\ pc[b] # "clearall"
         /\ \A e \in DiskNames : Stale(b, e)' => Stale(b, e)
         /\ \A i \in 1 .. Len(Files) :
              Wants(prog[b], Files[i]) /\ disk[Final(Files[i])] = Text[prog[b]][Files[i]] =>
                disk'[Final(Files[i])] = Text[prog[b]][Files[i]]
<1>1. UNCHANGED <<prog, met>> /\ pc[b] # "clearall"
  BY Frame DEF PlaceInv
<1>2. b # None
  BY ProgramsAssumption
<1>3. ASSUME NEW e \in DiskNames, Stale(b, e)' PROVE Stale(b, e)
  <2>1. disk'[e] # Absent /\ IF e[2] = None THEN ~Wants(prog[b], e[1]) ELSE e[2] \notin met[b] \cup {b}
    BY <1>1, <1>3 DEF Stale, Wants
  <2>2. e # <<Files[pos[b]], b>>
    BY <2>1, <1>2
  <2>3. pc[b] = "rename" => e # Final(Files[pos[b]])
    BY <2>1 DEF Final, OwnInv
  <2> QED
    BY <2>1, <2>2, <2>3, FileSteps DEF Stale
<1>4. ASSUME NEW i \in 1 .. Len(Files), Wants(prog[b], Files[i]),
             disk[Final(Files[i])] = Text[prog[b]][Files[i]]
      PROVE  disk'[Final(Files[i])] = Text[prog[b]][Files[i]]
  <2>1. Final(Files[i]) \in DiskNames /\ Final(Files[i])[1] = Files[i] /\ Final(Files[i])[2] = None
    BY FileNames, Names DEF Final
  <2>2. Final(Files[i]) # <<Files[pos[b]], b>>
    BY <2>1, <1>2
  <2>3. pc[b] = "rename" /\ Final(Files[i]) = Final(Files[pos[b]]) => Files[i] = Files[pos[b]]
    BY DEF Final
  <2> QED
    BY <1>1, <1>4, <2>1, <2>2, <2>3, FileSteps
<1> QED
  BY <1>1, <1>3, <1>4

(* Nor do its own steps: a build clears what it listed, compares and       *)
(* writes every file in turn, and hands cargo what it wrote.               *)
LEMMA OwnSourceStep ==
  ASSUME TreeTypeOK, DirInv, OwnInv, PlaceInv, place # "publish",
         NEW b \in Builds, SourceInv(b), Step(b)
  PROVE  SourceInv(b)' /\ (pc'[b] = "done" => ran'[b] = Built(prog[b]))
<1>0. UNCHANGED <<place, prog, met>> /\ b # None
      /\ pc[b] \notin {"ours", "oursin", "sweep", "clearall", "mkdest", "extras", "noreadme"}
  BY Frame, ProgramsAssumption DEF PlaceInv
<1>1. \A e \in DiskNames : UnderNet(e)' = UnderNet(e) /\ (Stale(b, e)' => Stale(b, e))
  BY OwnFiles DEF UnderNet
<1>2. \A i \in 1 .. Len(Files) :
        /\ Final(Files[i])' = Final(Files[i]) /\ Wants(prog[b], Files[i])' = Wants(prog[b], Files[i])
        /\ Wants(prog[b], Files[i]) /\ disk[Final(Files[i])] = Text[prog[b]][Files[i]] =>
             disk'[Final(Files[i])] = Text[prog[b]][Files[i]]
  BY <1>0, OwnFiles DEF Final, Wants
<1>3. Built(prog[b])' = Built(prog[b])
  BY <1>0 DEF Built
<1>4. Len(Files) \in Nat /\ Len(Files) >= 1 /\ pos[b] \in Nat /\ pos[b] >= 1
  BY FileNames DEF TreeTypeOK
<1>5. CASE Look(b) \/ LookIn(b) \/ MkSrc(b) \/ Mark(b)
  <2>1. pc'[b] \in {"mksrc", "lookin", "refused", "mark", "list", "failed"}
    BY <1>5 DEF Look, LookIn, MkSrc, Mark, At, Goto, TreeTypeOK
  <2> QED
    BY <2>1 DEF SourceInv, Clearing, Writing
<1>6. CASE ListSrc(b)
  <2>1. \A e \in DiskNames : Stale(b, e)' /\ ~UnderNet(e) => e \in listed'[b]
    BY <1>0, <1>1, <1>6 DEF ListSrc, ToClear, Present, Stale, TreeTypeOK
  <2>2. pc'[b] = IF srcDir THEN IF netDir THEN "listnet" ELSE "clear" ELSE "compare"
    BY <1>6 DEF ListSrc, Goto, TreeTypeOK
  <2>3. ~netDir => \A e \in DiskNames : Stale(b, e) => ~UnderNet(e)
    BY DEF DirInv, Stale
  <2>4. ~srcDir => \A e \in DiskNames : ~Stale(b, e)
    BY DEF DirInv, Stale
  <2>5. pos'[b] = 1
    BY <1>6 DEF ListSrc, At, OwnInv, Writing, Ended
  <2> QED
    BY <1>1, <1>4, <2>1, <2>2, <2>3, <2>4, <2>5 DEF SourceInv, Clearing, Writing
<1>7. CASE ListNet(b)
  <2>1. \A e \in DiskNames : Stale(b, e)' /\ UnderNet(e) => e \in sub'[b]
    BY <1>0, <1>1, <1>7 DEF ListNet, ToClear, Present, Stale, TreeTypeOK
  <2>2. pc'[b] \in {"clearnet", "failed"} /\ pc[b] = "listnet" /\ listed' = listed
    BY <1>7 DEF ListNet, Goto, At, TreeTypeOK
  <2> QED
    BY <1>1, <2>1, <2>2 DEF SourceInv, Clearing, Writing
<1>8. CASE ClearNet(b)
  <2>1. pc[b] = "clearnet" /\ listed' = listed /\ pc'[b] \in {"checknet", "clearnet", "failed"}
        /\ (pc'[b] = "checknet" => sub[b] = {})
    BY <1>8 DEF ClearNet, At, Goto, TreeTypeOK
  <2>2. \A e \in DiskNames : Stale(b, e)' /\ UnderNet(e) => e \in sub[b]
    BY <1>1, <2>1 DEF SourceInv
  <2>3. \A e \in DiskNames : Stale(b, e)' /\ e \in sub[b] /\ pc'[b] = "clearnet" => e \in sub'[b]
    BY <1>8, <2>1 DEF ClearNet, TreeTypeOK, Stale, Goto
  <2> QED
    BY <1>1, <2>1, <2>2, <2>3 DEF SourceInv, Clearing, Writing
<1>9. CASE CheckNet(b) \/ RmNet(b)
  <2>1. pc[b] \in {"checknet", "rmnet"} /\ listed' = listed /\ pc'[b] \in {"rmnet", "clear", "failed"}
    BY <1>9 DEF CheckNet, RmNet, At, Goto, TreeTypeOK
  <2> QED
    BY <1>1, <2>1 DEF SourceInv, Clearing, Writing
<1>10. CASE Clear(b)
  <2>1. pc[b] = "clear" /\ pc'[b] \in {"compare", "clear", "failed"} /\ (pc'[b] = "compare" => listed[b] = {})
        /\ pos' = pos
    BY <1>10 DEF Clear, At, Goto, TreeTypeOK
  <2>2. \A e \in DiskNames : Stale(b, e)' => e \in listed[b] /\ ~UnderNet(e)
    BY <1>1, <2>1 DEF SourceInv, Clearing
  <2>3. \A e \in DiskNames : Stale(b, e)' /\ e \in listed[b] /\ pc'[b] = "clear" => e \in listed'[b]
    BY <1>10, <2>1 DEF Clear, TreeTypeOK, Stale, Goto
  <2>4. pos'[b] = 1
    BY <2>1 DEF OwnInv, Writing, Ended
  <2> QED
    BY <1>1, <1>4, <2>1, <2>2, <2>3, <2>4 DEF SourceInv, Clearing, Writing
<1>11. CASE Compare(b)
  <2>1. pc[b] = "compare" /\ pc'[b] \in {"compare", "toml", "write"} /\ disk' = disk
        /\ (pc'[b] = "toml" => pos[b] > Len(Files)) /\ (pc'[b] # "compare" => pos' = pos)
    BY <1>11 DEF Compare, At, Goto, TreeTypeOK
  <2>2. pc'[b] = "compare" =>
          /\ pos'[b] = pos[b] + 1
          /\ Wants(prog[b], Files[pos[b]]) => disk[Final(Files[pos[b]])] = Text[prog[b]][Files[pos[b]]]
    BY <1>11 DEF Compare, At, Goto, OnDisk, TreeTypeOK
  <2>3. \A i \in 1 .. Len(Files) : i < pos'[b] /\ Wants(prog[b], Files[i]) =>
            disk[Final(Files[i])] = Text[prog[b]][Files[i]]
    <3>1. ASSUME NEW i \in 1 .. Len(Files), i < pos'[b], Wants(prog[b], Files[i])
          PROVE  disk[Final(Files[i])] = Text[prog[b]][Files[i]]
      <4>1. i < pos[b] \/ (i = pos[b] /\ pc'[b] = "compare")
        BY <1>4, <2>1, <2>2, <3>1
      <4> QED
        BY <2>1, <2>2, <3>1, <4>1 DEF SourceInv, Writing
    <3> QED
      BY <3>1
  <2>4. \A e \in DiskNames : ~Stale(b, e)'
    BY <1>1, <2>1 DEF SourceInv, Writing
  <2> QED
    BY <1>0, <1>2, <2>1, <2>3, <2>4 DEF SourceInv, Clearing, Writing
<1>12. CASE WriteTmp(b)
  <2>1. pc[b] = "write" /\ pc'[b] \in {"rename", "failed"} /\ pos' = pos
    BY <1>12 DEF WriteTmp, At, Goto, TreeTypeOK
  <2> QED
    BY <1>0, <1>1, <1>2, <2>1 DEF SourceInv, Clearing, Writing
<1>13. CASE Rename(b)
  <2>1. pc[b] = "rename" /\ pc'[b] \in {"compare", "failed"}
    BY <1>13 DEF Rename, At, Goto, TreeTypeOK
  <2>2. pc'[b] = "compare" => pos'[b] = pos[b] + 1 /\ disk'[Final(Files[pos[b]])] = Text[prog[b]][Files[pos[b]]]
    <3>1. Files[pos[b]] \in Sources /\ <<Files[pos[b]], b>> \in DiskNames /\ Final(Files[pos[b]]) \in DiskNames
          /\ Final(Files[pos[b]]) # <<Files[pos[b]], b>>
      BY <1>0, <2>1, OwnFile DEF Final
    <3>2. disk[<<Files[pos[b]], b>>] # Absent => disk[<<Files[pos[b]], b>>] = Text[prog[b]][Files[pos[b]]]
      BY <3>1 DEF OwnInv
    <3> QED
      BY <1>13, <3>1, <3>2 DEF Rename, Goto, TreeTypeOK
  <2>3. pc'[b] = "compare" => \A i \in 1 .. Len(Files) : i < pos'[b] /\ Wants(prog[b], Files[i]) =>
            disk'[Final(Files[i])] = Text[prog[b]][Files[i]]
    <3>1. ASSUME NEW i \in 1 .. Len(Files), i < pos'[b], Wants(prog[b], Files[i]), pc'[b] = "compare"
          PROVE  disk'[Final(Files[i])] = Text[prog[b]][Files[i]]
      <4>1. i < pos[b] \/ i = pos[b]
        BY <1>4, <2>2, <3>1
      <4> QED
        BY <1>2, <2>1, <2>2, <3>1, <4>1 DEF SourceInv, Writing
    <3> QED
      BY <3>1
  <2>4. \A e \in DiskNames : ~Stale(b, e)'
    BY <1>1, <2>1 DEF SourceInv, Writing
  <2> QED
    BY <1>0, <1>2, <2>1, <2>3, <2>4 DEF SourceInv, Clearing, Writing
<1>14. CASE WriteToml(b) \/ SyncLock(b)
  <2>1. pc[b] \in {"toml", "lock"} /\ pc'[b] \in {"cargo", "lock", "failed"} /\ pos' = pos /\ disk' = disk
        /\ (pc'[b] = "lock" => pc[b] = "toml") /\ (pc'[b] # "failed" => toml' = prog[b])
        /\ (pc'[b] = "cargo" /\ place = "build" => lock' = Lock[prog[b]])
    BY <1>0, <1>14 DEF WriteToml, SyncLock, Mirror, CopyLock, At, Goto, TreeTypeOK, SourceInv
  <2> QED
    BY <1>0, <1>1, <1>2, <2>1 DEF SourceInv, Clearing, Writing
<1>15. CASE Cargo(b)
  <2>1. pc[b] = "cargo" /\ pc'[b] \in {"run", "failed"} /\ UNCHANGED <<pos, disk, toml, lock>>
        /\ (pc'[b] = "run" => exe' = Tree)
    BY <1>15 DEF Cargo, At, Goto, TreeTypeOK
  <2>2. Tree = Built(prog[b])
    BY <2>1, TreeIsWhole
  <2> QED
    BY <1>0, <1>1, <1>2, <1>3, <2>1, <2>2 DEF SourceInv, Clearing, Writing
<1>16. CASE RunExe(b)
  <2>1. pc[b] = "run" /\ pc'[b] = "done" /\ ran'[b] = exe
    BY <1>16 DEF RunExe, At, Goto, TreeTypeOK
  <2> QED
    BY <2>1 DEF SourceInv, Clearing, Writing
<1>17. pc'[b] = "done" => RunExe(b)
  BY <1>0 DEF Step, At, Goto, TreeTypeOK, Look, LookIn, MkSrc, Mark, ListSrc, Clear, ListNet,
     ClearNet, CheckNet, RmNet, Compare, WriteTmp, Rename, WriteToml, SyncLock, Cargo, Ours, OursIn, Sweep,
     ClearAll, MkDest, Extras
<1>18. pc'[b] = "done" => ran'[b] = Built(prog[b])
  BY <1>17 DEF RunExe, At, TreeTypeOK, SourceInv
<1>19. ~(Ours(b) \/ OursIn(b) \/ Sweep(b) \/ ClearAll(b) \/ MkDest(b) \/ Extras(b))
  BY <1>0 DEF Ours, OursIn, Sweep, ClearAll, MkDest, Extras, At
<1>20. SourceInv(b)'
  BY <1>5, <1>6, <1>7, <1>8, <1>9, <1>10, <1>11, <1>12, <1>13, <1>14, <1>15, <1>16, <1>19 DEF Step
<1> QED
  BY <1>18, <1>20

(* A build that met only builds of its program stays on the way to it,     *)
(* whoever takes a step.                                                   *)
LEMMA BuiltStep ==
  ASSUME TreeTypeOK, DirInv, MetInv, OwnInv, PlaceInv, BuiltInv, NEW c \in Builds, Step(c)
  PROVE  BuiltInv'
<1>1. UNCHANGED <<place, prog, met, dead>> /\ Active(c) /\ \A b \in Builds : b # c => pc'[b] = pc[b] /\ ran'[b] = ran[b]
  BY Frame
<1>2. ASSUME place # "publish", NEW b \in Builds, AmongItsOwn(b)
      PROVE  (Active(b)' => SourceInv(b)') /\ (pc'[b] = "done" => ran'[b] = Built(prog[b]))
  <2>1. CASE b = c
    BY <1>1, <1>2, <2>1, OwnSourceStep DEF BuiltInv
  <2>2. CASE b # c
    <3>1. Active(b)' => SourceInv(b)'
      <4>1. SUFFICES ASSUME Active(b)' PROVE SourceInv(b)'
        OBVIOUS
      <4>2. Active(b)
        BY <1>1, <2>2, <4>1 DEF Active, Ended
      <4>3. c \in met[b] /\ prog[c] = prog[b] /\ SourceInv(b)
        BY <1>1, <1>2, <2>2, <4>2 DEF MetInv, AmongItsOwn, BuiltInv
      <4> QED
        BY <1>2, <2>2, <4>3, NeighbourStep
    <3> QED
      BY <1>1, <1>2, <2>2, <3>1 DEF BuiltInv
  <2> QED
    BY <2>1, <2>2
<1>3. \A b \in Builds : AmongItsOwn(b)' = AmongItsOwn(b) /\ Built(prog[b])' = Built(prog[b])
  BY <1>1 DEF AmongItsOwn, Built
<1> QED
  BY <1>1, <1>2, <1>3 DEF BuiltInv

(* To begin, or to be stopped, leaves no other build worse off: it has met *)
(* one more, and what that one has yet to write is not stale.              *)
LEMMA BuiltEnds ==
  ASSUME TreeTypeOK, BuiltInv, NEW c \in Builds, Begin(c) \/ Stop(c)
  PROVE  BuiltInv'
<1>1. UNCHANGED <<disks, prog, pos, listed, sub, ran>>
  BY DEF Begin, Stop
<1>2. \A b \in Builds : met[b] \subseteq met'[b] \/ (b = c /\ Begin(c))
  BY DEF Begin, Stop, TreeTypeOK
<1>3. ASSUME NEW b \in Builds, Begin(c), b = c
      PROVE  pc'[b] \in {"refused", "ours", "look"}
  BY <1>3 DEF Begin, Goto, TreeTypeOK
<1>4. \A b \in Builds : b # c \/ Stop(c) => pc'[b] = pc[b] /\ (Active(b)' => Active(b))
  BY DEF Begin, Stop, Goto, TreeTypeOK, Active
<1>5. ASSUME NEW b \in Builds, SourceInv(b), met[b] \subseteq met'[b], pc'[b] = pc[b] PROVE SourceInv(b)'
  <2>1. \A e \in DiskNames : Stale(b, e)' => Stale(b, e)
    BY <1>1, <1>5 DEF Stale, disks, Wants
  <2> QED
    BY <1>1, <1>5, <2>1 DEF SourceInv, disks, UnderNet, Wants, Final, Built
<1>6. ASSUME NEW b \in Builds, pc'[b] \in {"refused", "ours", "look"} PROVE SourceInv(b)' /\ pc'[b] # "done"
  BY <1>6 DEF SourceInv, Clearing, Writing
<1>7. \A b \in Builds : met[b] \subseteq met'[b] /\ AmongItsOwn(b)' => AmongItsOwn(b)
  BY <1>1 DEF AmongItsOwn
<1>8. \A b \in Builds : Built(prog[b])' = Built(prog[b])
  BY <1>1 DEF Built
<1>9. ASSUME place # "publish", NEW b \in Builds, AmongItsOwn(b)'
      PROVE  (Active(b)' => SourceInv(b)') /\ (pc'[b] = "done" => ran'[b] = Built(prog[b]))
  <2>1. CASE b = c /\ Begin(c)
    BY <1>3, <1>6, <2>1
  <2>2. CASE ~(b = c /\ Begin(c))
    BY <1>1, <1>2, <1>4, <1>5, <1>7, <1>9, <2>2 DEF BuiltInv
  <2> QED
    BY <2>1, <2>2
<1> QED
  BY <1>1, <1>8, <1>9 DEF BuiltInv, disks

-----------------------------------------------------------------------------
(* A build that met nobody finds what it left, and no call fails.          *)
LEMMA OwnAloneStep ==
  ASSUME TreeTypeOK, DirInv, OwnInv, PlaceInv, BuiltInv, NEW b \in Builds, met[b] = {}, Alone(b), Step(b)
  PROVE  Alone(b)' /\ pc'[b] # "failed"
<1> USE DEF Marked, Clearing, Writing
<1>1. CASE Look(b) \/ LookIn(b) \/ MkSrc(b) \/ Ours(b) \/ OursIn(b) \/ MkDest(b) \/ Extras(b)
  BY <1>1 DEF Look, LookIn, MkSrc, Ours, OursIn, MkDest, Extras, At, Goto, TreeTypeOK, Alone, disks, Owned
<1>2. CASE Mark(b)
  BY <1>2 DEF Mark, At, Goto, TreeTypeOK, Alone, DirInv
<1>3. CASE ListSrc(b)
  <2>1. /\ pc[b] = "list" /\ pc'[b] \in {"listnet", "clear", "compare"} /\ (pc'[b] = "listnet" => netDir')
        /\ srcDir' /\ marker'
    BY <1>3 DEF ListSrc, At, Goto, TreeTypeOK, Alone, disks
  <2>2. listed'[b] \subseteq Present(DiskNames)'
    BY <1>3 DEF ListSrc, ToClear, Present, TreeTypeOK, disks
  <2> QED
    BY <2>1, <2>2 DEF Alone
<1>4. CASE ListNet(b)
  <2>1. /\ pc[b] = "listnet" /\ pc'[b] = "clearnet" /\ netDir' /\ srcDir' /\ marker' /\ listed' = listed
    BY <1>4 DEF ListNet, At, Goto, TreeTypeOK, Alone, disks
  <2>2. sub'[b] \subseteq Present(DiskNames)'
    BY <1>4 DEF ListNet, ToClear, Present, TreeTypeOK, disks
  <2>3. listed[b] \subseteq Present(DiskNames)'
    BY <1>4, <2>1 DEF Alone, Present, ListNet, disks
  <2> QED
    BY <2>1, <2>2, <2>3 DEF Alone
<1>5. CASE Clear(b)
  <2>1. /\ pc[b] = "clear" /\ srcDir' /\ marker' /\ listed[b] \subseteq Present(DiskNames)
    BY <1>5 DEF Clear, At, Alone
  <2>2. pc'[b] \in {"clear", "compare"} /\ listed'[b] \subseteq Present(DiskNames)'
    BY <1>5, <2>1 DEF Clear, Goto, Present, TreeTypeOK
  <2> QED
    BY <2>1, <2>2 DEF Alone
<1>6. CASE ClearNet(b)
  <2>1. /\ pc[b] = "clearnet" /\ srcDir' /\ marker' /\ netDir' /\ listed' = listed
        /\ listed[b] \subseteq Present(DiskNames) /\ sub[b] \subseteq Present(DiskNames)
    BY <1>6 DEF ClearNet, At, Alone
  <2>2. \A e \in sub[b] : e \notin listed[b]
    BY DEF OwnInv
  <2>3. pc'[b] \in {"clearnet", "checknet"} /\ sub'[b] \subseteq Present(DiskNames)'
    BY <1>6, <2>1 DEF ClearNet, Goto, Present, TreeTypeOK
  <2>4. listed[b] \subseteq Present(DiskNames)'
    BY <1>6, <2>1, <2>2 DEF ClearNet, Present, TreeTypeOK
  <2> QED
    BY <2>1, <2>3, <2>4 DEF Alone
<1>7. CASE CheckNet(b) \/ RmNet(b)
  <2>1. /\ pc[b] \in {"checknet", "rmnet"} /\ UNCHANGED <<srcDir, marker, listed, disk>> /\ netDir
        /\ srcDir /\ marker /\ listed[b] \subseteq Present(DiskNames)
    BY <1>7 DEF CheckNet, RmNet, At, Alone, disks
  <2>2. \/ pc'[b] = "clear"
        \/ pc'[b] = "rmnet" /\ NetEmpty /\ netDir' = netDir
    BY <1>7, <2>1 DEF CheckNet, RmNet, At, Alone, Goto, TreeTypeOK, disks
  <2>3. Present(DiskNames)' = Present(DiskNames) /\ NetEmpty' = NetEmpty
    BY <2>1 DEF Present, NetEmpty, UnderNet
  <2> QED
    BY <2>1, <2>2, <2>3 DEF Alone
<1>8. CASE Compare(b)
  <2>1. /\ pc[b] = "compare" /\ srcDir' /\ marker' /\ pc'[b] \in {"compare", "toml", "write"}
    BY <1>8 DEF Compare, At, Goto, Alone, TreeTypeOK
  <2>2. pc'[b] = "write" => InPlace(Files[pos[b]])' /\ pos'[b] = pos[b]
    BY <1>8 DEF Compare, At, Goto, TreeTypeOK, InPlace
  <2> QED
    BY <2>1, <2>2 DEF Alone, InPlace
<1>9. CASE WriteTmp(b)
  <2>1. pc[b] = "write" /\ srcDir' /\ marker' /\ InPlace(Files[pos[b]]) /\ pos' = pos
    BY <1>9 DEF WriteTmp, At, Alone
  <2>2. Text[prog[b]][Files[pos[b]]] # Absent /\ <<Files[pos[b]], b>> \in DiskNames
    BY <2>1, OwnFile DEF OwnInv, Wants
  <2>3. pc'[b] = "rename" /\ disk'[<<Files[pos[b]], b>>] # Absent
    BY <1>9, <2>1, <2>2 DEF WriteTmp, Goto, TreeTypeOK
  <2> QED
    BY <2>1, <2>3 DEF Alone
<1>10. CASE Rename(b)
  <2>1. pc[b] = "rename" /\ srcDir' /\ marker' /\ pc'[b] = "compare"
    BY <1>10 DEF Rename, At, Goto, TreeTypeOK, Alone
  <2> QED
    BY <2>1 DEF Alone
<1>11. CASE WriteToml(b) \/ SyncLock(b)
  BY <1>11 DEF WriteToml, SyncLock, At, Goto, TreeTypeOK, Alone, DirInv
<1>12. CASE Cargo(b)
  <2>1. place # "publish" /\ pc[b] = "cargo" /\ Active(b) /\ AmongItsOwn(b) /\ srcDir' /\ marker'
    BY <1>12 DEF PlaceInv, Cargo, At, Active, Ended, AmongItsOwn, Alone
  <2>2. Tree = Built(prog[b])
    BY <2>1, TreeIsWhole DEF BuiltInv
  <2>3. Tree[Files[1]] # Absent
    <3>1. prog[b] \in Programs /\ Files[1] \in Sources
      BY FileNames DEF TreeTypeOK
    <3> QED
      BY <2>2, <3>1, FileNames DEF Built, Wants
  <2>4. pc'[b] = "run"
    BY <1>12, <2>3 DEF Cargo, Goto, TreeTypeOK
  <2> QED
    BY <2>1, <2>4 DEF Alone
<1>13. CASE RunExe(b)
  BY <1>13 DEF RunExe, At, Goto, TreeTypeOK, Alone
<1>14. CASE Sweep(b)
  <2>1. pc[b] = "sweep" /\ UNCHANGED disks /\ made
    BY <1>14 DEF Sweep, At, Alone
  <2>2. pc'[b] = "clearall" /\ Entries' = Entries /\ Present(DiskNames)' = Present(DiskNames)
    BY <1>14, <2>1 DEF Sweep, Goto, TreeTypeOK, Entries, Present, disks
  <2>3. tops'[b] = Entries /\ swept'[b] = Present(DiskNames)
    BY <1>14 DEF Sweep, TreeTypeOK
  <2> QED
    BY <2>2, <2>3 DEF Alone
<1>15. CASE ClearAll(b)
  <2>1. pc[b] = "clearall" /\ Entries \subseteq tops[b] /\ Present(DiskNames) \subseteq swept[b]
    BY <1>15 DEF ClearAll, At, Alone
  <2>2. ~theirs
    BY <2>1 DEF PlaceInv
  <2>3. pc'[b] \in {"clearall", "mkdest"}
    <3>1. pc \in [Builds -> Labels]
      BY DEF TreeTypeOK
    <3>2. (\A e \in swept[b] : ~UnderNet(e)) => NetEmpty
      BY <2>1 DEF Present, NetEmpty
    <3>3. tops[b] = {} /\ swept[b] = {} => ~HasEntries
      BY <2>1, <2>2 DEF Entries, HasEntries
    <3>4. /\ "net" \notin tops[b] => ~netDir
          /\ swept[b] = {} => Present(DiskNames) = {}
      BY <2>1 DEF Entries
    <3> QED
      BY <1>15, <2>1, <3>1, <3>2, <3>3, <3>4 DEF ClearAll, Goto
  <2>4. /\ tops \in [Builds -> SUBSET {"marker", "toml", "lock", "src", "net"}]
        /\ swept \in [Builds -> SUBSET DiskNames] /\ disk \in [DiskNames -> Content]
        /\ pc \in [Builds -> Labels]
    BY DEF TreeTypeOK
  <2>5. /\ marker' => "marker" \in tops'[b]
        /\ toml' # Absent => "toml" \in tops'[b]
        /\ lock' # Absent => "lock" \in tops'[b]
    <3>1. /\ marker => "marker" \in tops[b]
          /\ toml # Absent => "toml" \in tops[b]
          /\ lock # Absent => "lock" \in tops[b]
      BY <2>1 DEF Entries
    <3>2. CASE \E n \in (tops[b] \cup Entries) \ {"src", "net"} :
                 /\ tops' = [tops EXCEPT ![b] = @ \ {n}]
                 /\ marker' = (marker /\ n # "marker")
                 /\ toml' = IF n = "toml" THEN Absent ELSE toml
                 /\ lock' = IF n = "lock" THEN Absent ELSE lock
      <4>1. PICK n \in (tops[b] \cup Entries) \ {"src", "net"} :
                 /\ tops' = [tops EXCEPT ![b] = @ \ {n}]
                 /\ marker' = (marker /\ n # "marker")
                 /\ toml' = IF n = "toml" THEN Absent ELSE toml
                 /\ lock' = IF n = "lock" THEN Absent ELSE lock
        BY <3>2
      <4>2. tops'[b] = tops[b] \ {n}
        BY <2>4, <4>1
      <4>3. marker' => marker /\ n # "marker"
        BY <4>1
      <4>4. /\ toml' # Absent => toml # Absent /\ n # "toml"
            /\ lock' # Absent => lock # Absent /\ n # "lock"
        BY <4>1
      <4> QED
        BY <3>1, <4>2, <4>3, <4>4
    <3>3. CASE /\ UNCHANGED <<marker, toml, lock>>
               /\ tops' = tops \/ \E n \in {"net", "src"} : tops' = [tops EXCEPT ![b] = @ \ {n}]
      BY <2>4, <3>1, <3>3
    <3> QED
      BY <1>15, <3>2, <3>3 DEF ClearAll
  <2>6. /\ srcDir' => "src" \in tops'[b]
        /\ netDir' => "net" \in tops'[b]
    <3>1. /\ srcDir => "src" \in tops[b]
          /\ netDir => "net" \in tops[b]
      BY <2>1 DEF Entries
    <3> QED
      BY <1>15, <2>3, <2>4, <3>1 DEF ClearAll, Goto
  <2>7. Entries' \subseteq tops'[b]
    BY <2>5, <2>6 DEF Entries
  <2>8. Present(DiskNames)' \subseteq swept'[b]
    BY <1>15, <2>1, <2>4 DEF ClearAll, Present
  <2> QED
    BY <2>3, <2>7, <2>8 DEF Alone
<1> QED
  BY <1>1, <1>2, <1>3, <1>4, <1>5, <1>6, <1>7, <1>8, <1>9, <1>10, <1>11, <1>12, <1>13, <1>14, <1>15 DEF Step

(* No other build moves while a build that met nobody runs.                *)
LEMMA AloneStep ==
  ASSUME TreeTypeOK, DirInv, MetInv, OwnInv, PlaceInv, BuiltInv, AloneInv, NEW c \in Builds,
         Step(c) \/ Begin(c) \/ Stop(c)
  PROVE  AloneInv'
<1> SUFFICES ASSUME NEW b \in Builds, met'[b] = {} PROVE (Active(b)' => Alone(b)') /\ pc'[b] # "failed"
  BY DEF AloneInv
<1>1. CASE Step(c)
  <2>1. UNCHANGED <<met, dead>> /\ Active(c) /\ (b # c => pc'[b] = pc[b])
    BY <1>1, Frame
  <2>2. CASE b = c
    BY <1>1, <2>1, <2>2, OwnAloneStep DEF AloneInv
  <2>3. CASE b # c
    <3>1. ~Active(b)
      BY <2>1, <2>3 DEF MetInv
    <3> QED
      BY <2>1, <2>3, <3>1 DEF Active, AloneInv
  <2> QED
    BY <2>2, <2>3
<1>2. CASE Begin(c)
  <2>1. CASE b = c
    <3>1. pc'[b] \in {"refused", "ours", "look"}
      BY <1>2, <2>1 DEF Begin, Goto, TreeTypeOK
    <3> QED
      BY <3>1 DEF Alone, Marked, Clearing, Writing
  <2>2. CASE b # c
    <3>1. ~Active(b) /\ met[b] = {} /\ pc'[b] = pc[b] /\ dead' = dead
      BY <1>2, <2>2 DEF Begin, Goto, TreeTypeOK
    <3> QED
      BY <3>1 DEF AloneInv, Active
  <2> QED
    BY <2>1, <2>2
<1>3. CASE Stop(c)
  <2>1. UNCHANGED <<disks, pc, pos, listed, sub, tops, swept, met>> /\ (Active(b)' => Active(b))
    BY <1>3 DEF Stop, Active
  <2> QED
    BY <2>1 DEF AloneInv, Alone, disks, Entries, Owned, NetEmpty, UnderNet, InPlace, Present
<1> QED
  BY <1>1, <1>2, <1>3

(* A directory without its marker holds something only while, or because,  *)
(* a process is on its way between the two.                                *)
LEMMA MarkerStep ==
  ASSUME TreeTypeOK, DirInv, MetInv, OwnInv, PlaceInv, BuiltInv, AloneInv, MarkerInv, NEW c \in Builds,
         Step(c) \/ Begin(c) \/ Stop(c)
  PROVE  MarkerInv'
<1> SUFFICES ASSUME Calm', ~marker', srcDir' \/ toml' # Absent \/ lock' # Absent
             PROVE  \E b \in Builds : pc'[b] \in {"mark", "clearall"}
  BY DEF MarkerInv
<1>1. CASE Step(c)
  <2>1. /\ UNCHANGED <<place, met, dead>> /\ Active(c) /\ pc' = [pc EXCEPT ![c] = pc'[c]]
        /\ \A b \in Builds : b # c => pc'[b] = pc[b]
    BY <1>1, Frame
  <2>2. Calm
    BY <2>1 DEF Calm
  <2>3. /\ pc[c] \in Marked => marker
        /\ pc[c] = "mark" => made
    BY <2>1, <2>2 DEF Calm, AloneInv, Alone, PlaceInv, DirInv
  <2>4. CASE pc'[c] \in {"mark", "clearall"}
    BY <2>4
  <2>5. CASE pc'[c] \notin {"mark", "clearall"}
    <3>1. ~MkSrc(c)
      BY <2>1, <2>5 DEF MkSrc, Goto, TreeTypeOK
    <3>2. ~Mark(c)
      BY <2>3 DEF Mark, At
    <3>3. ~ClearAll(c)
      <4>1. SUFFICES ASSUME ClearAll(c) PROVE FALSE
        OBVIOUS
      <4>2. pc[c] = "clearall" /\ pc' # pc
        BY <2>5, <4>1 DEF ClearAll, At
      <4>3. place = "publish"
        BY <4>2 DEF PlaceInv
      <4>4. pc'[c] # "failed"
        BY <1>1, <2>1, <2>2, <4>3, OwnAloneStep DEF Calm, AloneInv
      <4>5. ~HasEntries /\ UNCHANGED <<srcDir, toml, lock>>
        BY <4>1, <4>2, <4>4 DEF ClearAll, Goto, TreeTypeOK
      <4> QED
        BY <4>5 DEF HasEntries
    <3>4. ~marker
      BY <1>1, <3>3, MarkerStays
    <3>5. pc[c] \notin Marked
      BY <2>3, <3>4
    <3>6. Look(c) \/ LookIn(c) \/ Ours(c) \/ OursIn(c) \/ Sweep(c) \/ MkDest(c)
      BY <1>1, <3>1, <3>2, <3>3, <3>5 DEF Marked, Clearing, Writing, Step, At, ListSrc, Clear, ListNet,
         ClearNet, CheckNet, RmNet, Compare, WriteTmp, Rename, WriteToml, SyncLock, Cargo, RunExe, Extras
    <3>7. UNCHANGED <<srcDir, toml, lock>> /\ pc[c] \notin {"mark", "clearall"}
      BY <3>6 DEF Look, LookIn, Ours, OursIn, Sweep, MkDest, At, disks
    <3>8. PICK b \in Builds : pc[b] \in {"mark", "clearall"}
      BY <2>2, <3>4, <3>7 DEF MarkerInv
    <3> QED
      BY <2>1, <3>7, <3>8
  <2> QED
    BY <2>4, <2>5
<1>2. CASE Begin(c)
  <2>1. UNCHANGED disks /\ pc[c] = "idle" /\ \A b \in Builds : b # c => pc'[b] = pc[b] /\ met[b] \subseteq met'[b]
    BY <1>2 DEF Begin, Goto, TreeTypeOK
  <2>2. Calm
    BY <2>1 DEF Calm, disks, MetInv
  <2> QED
    BY <2>1, <2>2 DEF MarkerInv, disks
<1>3. CASE Stop(c)
  BY <1>3 DEF Stop, MarkerInv, disks, Calm
<1> QED
  BY <1>1, <1>2, <1>3

(* So a directory is refused only for the reasons that are listed. *)
LEMMA RefusedStep ==
  ASSUME TreeTypeOK, MetInv, PlaceInv, AloneInv, MarkerInv, RefusedOnlyForOthers, NEW c \in Builds,
         Step(c) \/ Begin(c) \/ Stop(c)
  PROVE  RefusedOnlyForOthers'
<1> SUFFICES ASSUME NEW b \in Builds, pc'[b] = "refused"
             PROVE  \/ linked'
                    \/ place' # "build" /\ theirs'
                    \/ place' # "build" /\ \E d \in Builds \ {b} :
                         \/ d \in met'[b]
                         \/ d \in dead' /\ pc'[d] \in {"mark", "clearall"}
                         \/ place' = "publish" /\ met'[d] # {}
  BY DEF RefusedOnlyForOthers
<1>1. /\ c \notin dead /\ pc[c] # "refused" /\ (~Begin(c) => Active(c))
      /\ \A d \in Builds : d # c => pc'[d] = pc[d] /\ met[d] \subseteq met'[d]
      /\ dead \subseteq dead' /\ (Stop(c) => UNCHANGED <<pc, met>>)
  <2>1. CASE Step(c)
    <3>1. /\ UNCHANGED <<met, dead>> /\ Active(c)
          /\ \A d \in Builds : d # c => pc'[d] = pc[d]
      BY <2>1, Frame
    <3>2. ~Stop(c) \/ UNCHANGED <<pc, met>>
      BY DEF Stop
    <3> QED
      BY <3>1, <3>2 DEF Active, Ended
  <2>2. CASE Begin(c)
    <3>1. /\ pc[c] = "idle" /\ c \notin dead /\ dead' = dead
          /\ \A d \in Builds : d # c => pc'[d] = pc[d] /\ met[d] \subseteq met'[d]
      BY <2>2 DEF Begin, Goto, TreeTypeOK
    <3> QED
      BY <2>2, <3>1 DEF Stop, Active
  <2>3. CASE Stop(c)
    BY <2>3 DEF Stop, Active, Ended
  <2> QED
    BY <2>1, <2>2, <2>3
<1>2. CASE pc[b] = "refused"
  <2>1. b # c
    BY <1>1, <1>2
  <2>2. UNCHANGED <<place, linked, theirs>>
    BY Frame DEF Begin, Stop, disks
  <2>3. \A d \in Builds : met[d] # {} => met'[d] # {}
    BY <1>1, Frame DEF Begin, Stop, MetInv
  <2>4. \A d \in dead : d \in Builds => d \in dead' /\ pc'[d] = pc[d]
    BY <1>1
  <2> QED
    BY <1>1, <1>2, <2>1, <2>2, <2>3, <2>4 DEF RefusedOnlyForOthers
<1>3. CASE pc[b] # "refused" /\ Begin(c)
  BY <1>1, <1>3 DEF Begin, Goto, TreeTypeOK, disks
<1>4. CASE pc[b] # "refused" /\ Step(c)
  <2>1. b = c
    BY <1>1, <1>4
  <2>2. LookIn(b) \/ OursIn(b)
    BY <1>4, <2>1 DEF Step, At, Goto, TreeTypeOK, Look, MkSrc, Mark, ListSrc, Clear, ListNet, ClearNet, CheckNet,
       RmNet, Compare, WriteTmp, Rename, WriteToml, SyncLock, Cargo, RunExe, Ours, Sweep, ClearAll, MkDest, Extras
  <2>3. UNCHANGED <<place, theirs, met, dead>> /\ HasEntries /\ pc[b] \in {"lookin", "oursin"} /\ Active(b)
        /\ place # "build"
    BY <2>2 DEF LookIn, OursIn, At, Goto, TreeTypeOK, disks, Keep, Active, Ended, PlaceInv
  <2>4. CASE met[b] # {}
    <3>1. PICK d \in met[b] : d \in Builds \ {b}
      BY <2>4 DEF TreeTypeOK, MetInv
    <3> QED
      BY <2>3, <3>1
  <2>5. CASE met[b] = {} /\ ~theirs
    <3>1. ~marker /\ (srcDir \/ toml # Absent \/ lock # Absent)
      BY <2>3, <2>5 DEF AloneInv, Alone, Owned, HasEntries
    <3>2. CASE Calm
      <4>1. PICK d \in Builds : pc[d] \in {"mark", "clearall"}
        BY <3>1, <3>2 DEF MarkerInv
      <4>2. d # b /\ d \in dead
        BY <2>3, <2>5, <4>1 DEF MetInv, Active, Ended
      <4> QED
        BY <1>1, <2>1, <2>3, <4>1, <4>2
    <3>3. CASE ~Calm
      <4>1. PICK d \in Builds : met[d] # {}
        BY <3>3 DEF Calm
      <4> QED
        BY <2>3, <2>5, <3>3, <4>1 DEF Calm
    <3> QED
      BY <3>2, <3>3
  <2> QED
    BY <2>3, <2>4, <2>5
<1> QED
  BY <1>1, <1>2, <1>3, <1>4 DEF Stop

-----------------------------------------------------------------------------
(* A build whose tree is on disk, beside none but such builds, goes from   *)
(* look to look: no step of its changes what is on disk.                   *)
LEMMA CalmStep ==
  ASSUME TreeTypeOK, DirInv, OwnInv, PlaceInv, FreshInv, place # "publish",
         NEW b \in Builds, Undisturbed(b), Step(b)
  PROVE  /\ UNCHANGED <<theirs, srcDir, netDir, disk, toml>>
         /\ place = "build" => lock' = lock
         /\ pc'[b] \notin {"idle", "lookin", "rmnet", "write", "rename", "failed", "refused"}
         /\ pc'[b] \in Clearing => listed'[b] = {}
         /\ pc'[b] = "clearnet" => sub'[b] = {}
         /\ pc'[b] \in {"listnet", "clearnet", "checknet"} => netDir
<1>1. /\ Active(b) /\ Tidy(prog[b]) /\ prog[b] \in Programs
      /\ pc[b] \notin {"idle", "lookin", "rmnet", "write", "rename", "failed", "refused",
                       "ours", "oursin", "sweep", "clearall", "mkdest", "extras", "noreadme"}
      /\ pc[b] \in Clearing => listed[b] = {}
      /\ pc[b] = "clearnet" => sub[b] = {}
      /\ pc[b] \in {"listnet", "clearnet", "checknet"} => netDir
  BY Frame DEF FreshInv, PlaceInv, TreeTypeOK
<1>2. /\ \A f \in Sources : disk[Final(f)] = Text[prog[b]][f]
      /\ toml = prog[b] /\ (place = "build" => lock = Lock[prog[b]])
      /\ \A e \in DiskNames : disk[e] # Absent => e[2] = None
      /\ netDir => ~NetEmpty
  BY <1>1 DEF Tidy, Holds, Tree, Present
<1>3. /\ Files[1] \in Sources /\ Final(Files[1]) \in DiskNames /\ disk[Final(Files[1])] # Absent
      /\ Tree[Files[1]] # Absent
  BY <1>1, <1>2, FileNames, Names DEF Final, Wants, Tree
<1>4. srcDir /\ made /\ marker
  BY <1>3 DEF DirInv, PlaceInv
<1>5. \A S \in SUBSET Present(DiskNames) : ToClear(b, S) = {}
  <2>1. ASSUME NEW e \in DiskNames, disk[e] # Absent PROVE e[2] = None /\ Wants(prog[b], e[1])
    <3>1. e[2] = None /\ e[1] \in Sources /\ e = <<e[1], e[2]>>
      BY <1>2, <2>1, Names
    <3>2. disk[Final(e[1])] = Text[prog[b]][e[1]] /\ e = Final(e[1])
      BY <1>2, <3>1 DEF Final
    <3> QED
      BY <2>1, <3>1, <3>2 DEF Wants
  <2> QED
    BY <2>1 DEF ToClear, Present
<1>6. CASE Look(b) \/ MkSrc(b) \/ Mark(b) \/ CheckNet(b) \/ Cargo(b) \/ RunExe(b)
  <2>1. CASE Look(b)
    BY <1>4, <2>1 DEF Look, At, Goto, TreeTypeOK, Owned, disks, Clearing
  <2>2. CASE MkSrc(b)
    BY <1>4, <2>2 DEF MkSrc, At, Goto, TreeTypeOK, Clearing
  <2>3. CASE Mark(b)
    BY <1>4, <2>3 DEF Mark, At, Goto, TreeTypeOK, Clearing
  <2>4. CASE CheckNet(b)
    BY <1>1, <1>2, <2>4 DEF CheckNet, At, Goto, TreeTypeOK, disks, Clearing
  <2>5. CASE Cargo(b)
    BY <1>3, <2>5 DEF Cargo, At, Goto, TreeTypeOK, Clearing
  <2>6. CASE RunExe(b)
    BY <2>6 DEF RunExe, At, Goto, TreeTypeOK, disks, Clearing
  <2> QED
    BY <1>6, <2>1, <2>2, <2>3, <2>4, <2>5, <2>6
<1>7. CASE ListSrc(b)
  <2>1. listed'[b] = {}
    BY <1>5, <1>7 DEF ListSrc, TreeTypeOK
  <2> QED
    BY <1>4, <1>7, <2>1 DEF ListSrc, At, Goto, TreeTypeOK, disks
<1>8. CASE ListNet(b)
  <2>1. sub'[b] = {}
    BY <1>5, <1>8 DEF ListNet, TreeTypeOK
  <2> QED
    BY <1>1, <1>8, <2>1 DEF ListNet, At, Goto, TreeTypeOK, disks, Clearing
<1>9. CASE Clear(b)
  BY <1>1, <1>9 DEF Clear, At, Goto, TreeTypeOK, Clearing
<1>10. CASE ClearNet(b)
  BY <1>1, <1>10 DEF ClearNet, At, Goto, TreeTypeOK, Clearing
<1>11. CASE Compare(b)
  <2>1. pos[b] \in Nat \ {0} /\ Len(Files) \in Nat
    BY FileNames DEF TreeTypeOK
  <2>2. ~(pos[b] > Len(Files)) => OnDisk(b, Files[pos[b]])
    BY <1>2, <2>1, FileNames DEF OnDisk
  <2> QED
    BY <1>1, <1>11, <2>2 DEF Compare, At, Goto, TreeTypeOK, Clearing
<1>12. CASE WriteToml(b) \/ SyncLock(b)
  BY <1>2, <1>4, <1>12 DEF WriteToml, SyncLock, Mirror, At, Goto, TreeTypeOK, Clearing
<1>13. ~(LookIn(b) \/ RmNet(b) \/ WriteTmp(b) \/ Rename(b) \/ Ours(b) \/ OursIn(b) \/ Sweep(b) \/ ClearAll(b) \/ MkDest(b)
         \/ Extras(b))
  BY <1>1 DEF LookIn, RmNet, WriteTmp, Rename, Ours, OursIn, Sweep, ClearAll, MkDest, Extras, At
<1>14. UNCHANGED theirs
  BY Frame
<1> QED
  BY <1>6, <1>7, <1>8, <1>9, <1>10, <1>11, <1>12, <1>13, <1>14 DEF Step

(* So it is for all of them, whoever takes a step, begins or is stopped. *)
LEMMA FreshStep ==
  ASSUME TreeTypeOK, DirInv, MetInv, OwnInv, PlaceInv, FreshInv, NEW c \in Builds,
         Step(c) \/ Begin(c) \/ Stop(c)
  PROVE  FreshInv'
<1>0. UNCHANGED <<place, prog>>
  BY Frame DEF Begin, Stop, disks
<1> SUFFICES ASSUME place # "publish", NEW b \in Builds, Undisturbed(b)'
             PROVE  /\ pc'[b] \notin {"idle", "lookin", "rmnet", "write", "rename", "failed", "refused"}
                    /\ Active(b)' =>
                         /\ Tidy(prog[b])'
                         /\ pc'[b] \in Clearing => listed'[b] = {}
                         /\ pc'[b] = "clearnet" => sub'[b] = {}
                         /\ pc'[b] \in {"listnet", "clearnet", "checknet"} => netDir'
                         /\ \A d \in Builds : Active(d)' => Undisturbed(d)'
  BY <1>0 DEF FreshInv
<1>1. ASSUME NEW g, Tidy(g), UNCHANGED <<place, theirs, netDir, disk, toml>>, place = "build" => lock' = lock
      PROVE  Tidy(g)'
  <2>1. Tree' = Tree /\ Present(DiskNames)' = Present(DiskNames) /\ NetEmpty' = NetEmpty
    BY <1>1 DEF Tree, Present, NetEmpty, Final, UnderNet
  <2> QED
    BY <1>1, <2>1 DEF Tidy, Holds
<1>2. CASE Step(c)
  <2>1. /\ UNCHANGED <<met, fresh, dead>> /\ Active(c)
        /\ \A d \in Builds : d # c => pc'[d] = pc[d] /\ listed'[d] = listed[d] /\ sub'[d] = sub[d]
    BY <1>2, Frame
  <2>2. \A d \in Builds : (Undisturbed(d)' <=> Undisturbed(d)) /\ (Active(d)' => Active(d))
    BY <2>1 DEF Undisturbed, Active, Ended
  <2>3. CASE ~Active(b)
    <3>1. b # c /\ ~Active(b)'
      BY <2>1, <2>2, <2>3
    <3> QED
      BY <2>1, <2>2, <2>3, <3>1 DEF FreshInv
  <2>4. CASE Active(b)
    <3>1. Undisturbed(c) /\ Tidy(prog[b]) /\ Tidy(prog[c])
      BY <2>1, <2>2, <2>4 DEF FreshInv
    <3>2. /\ UNCHANGED <<theirs, netDir, disk, toml>>
          /\ place = "build" => lock' = lock
          /\ pc'[c] \notin {"idle", "lookin", "rmnet", "write", "rename", "failed", "refused"}
          /\ pc'[c] \in Clearing => listed'[c] = {}
          /\ pc'[c] = "clearnet" => sub'[c] = {}
          /\ pc'[c] \in {"listnet", "clearnet", "checknet"} => netDir
      BY <1>2, <3>1, CalmStep
    <3>3. Tidy(prog[b])'
      BY <1>0, <1>1, <3>1, <3>2 DEF Tidy, Holds, Tree, Present, NetEmpty, Final, UnderNet
    <3>4. \A d \in Builds : Active(d)' => Undisturbed(d)'
      BY <2>2, <2>4 DEF FreshInv
    <3>5. b = c \/ b # c
      OBVIOUS
    <3> QED
      BY <2>1, <2>2, <2>4, <3>2, <3>3, <3>4, <3>5 DEF FreshInv
  <2> QED
    BY <2>3, <2>4
<1>3. CASE Begin(c)
  <2>1. /\ UNCHANGED <<disks, listed, sub, dead>> /\ pc[c] = "idle" /\ c \notin dead
        /\ pc' = [pc EXCEPT ![c] = IF linked THEN "refused" ELSE IF place = "publish" THEN "ours" ELSE "look"]
        /\ fresh' = [fresh EXCEPT ![c] = Tidy(prog[c]) /\ \A d \in {a \in Builds : Active(a)} : Undisturbed(d)]
        /\ met' = [d \in Builds |-> IF d = c THEN {a \in Builds : Active(a)}
                                    ELSE IF Active(d) THEN met[d] \cup {c} ELSE met[d]]
    BY <1>3 DEF Begin, Goto
  <2>2. /\ \A d \in Builds : d # c => pc'[d] = pc[d] /\ fresh'[d] = fresh[d]
        /\ fresh'[c] => Tidy(prog[c]) /\ \A d \in Builds : Active(d) => Undisturbed(d)
        /\ ~Active(c) /\ \A d \in Builds : c \notin met[d]
        /\ met'[c] = {a \in Builds : Active(a)}
        /\ \A d \in Builds : d # c => met'[d] = IF Active(d) THEN met[d] \cup {c} ELSE met[d]
        /\ \A d \in Builds : d # c => (Active(d)' <=> Active(d))
    BY <2>1 DEF TreeTypeOK, MetInv, Active
  <2>3. \A d \in Builds : d # c /\ Undisturbed(d)' => Undisturbed(d)
    <3>1. SUFFICES ASSUME NEW d \in Builds, d # c, Undisturbed(d)' PROVE Undisturbed(d)
      OBVIOUS
    <3>2. fresh[d] /\ met[d] \subseteq met'[d] /\ \A a \in met'[d] : fresh'[a]
      BY <2>2, <3>1 DEF Undisturbed
    <3>3. \A a \in met[d] : a \in Builds /\ a # c
      BY <2>2 DEF TreeTypeOK
    <3>4. \A a \in met[d] : fresh[a]
      BY <2>2, <3>2, <3>3
    <3> QED
      BY <3>2, <3>4 DEF Undisturbed
  <2>4. ASSUME NEW d \in Builds, Active(d), Undisturbed(d), fresh'[c] PROVE Undisturbed(d)'
    <3>1. d # c /\ met'[d] = met[d] \cup {c} /\ fresh'[d]
      BY <2>2, <2>4 DEF Undisturbed
    <3>2. \A a \in met[d] : fresh'[a]
      BY <2>2, <2>4 DEF Undisturbed, TreeTypeOK
    <3> QED
      BY <2>4, <3>1, <3>2 DEF Undisturbed
  <2>5. fresh'[c] => Undisturbed(c)'
    <3>1. SUFFICES ASSUME fresh'[c], NEW a \in met'[c] PROVE fresh'[a]
      BY DEF Undisturbed
    <3>2. a \in Builds /\ Active(a) /\ a # c /\ Undisturbed(a)
      BY <2>2, <3>1
    <3> QED
      BY <2>2, <3>2 DEF Undisturbed
  <2>6. CASE b = c
    <3>1. fresh'[c] /\ Tidy(prog[c])
      BY <2>2, <2>6 DEF Undisturbed
    <3>2. ~linked
      <4>0. prog[c] \in Programs
        BY DEF TreeTypeOK
      <4>1. Final(Files[1]) \in DiskNames /\ Files[1] \in Sources /\ prog[c] \in Programs
        BY <4>0, FileNames, Names DEF Final
      <4>2. disk[Final(Files[1])] # Absent
        BY <3>1, <4>1, FileNames DEF Tidy, Holds, Tree, Wants
      <4> QED
        BY <4>1, <4>2 DEF PlaceInv
    <3>3. pc'[c] = "look"
      BY <2>1, <3>2 DEF TreeTypeOK
    <3>4. \A d \in Builds : Active(d)' => Undisturbed(d)'
      BY <2>2, <2>4, <2>5, <3>1
    <3>5. Tidy(prog[c])'
      BY <1>0, <1>1, <2>1, <3>1 DEF disks, Tidy, Holds, Tree, Present, NetEmpty, Final, UnderNet
    <3> QED
      BY <2>6, <3>3, <3>4, <3>5 DEF Clearing
  <2>7. CASE b # c
    <3>1. Undisturbed(b) /\ pc'[b] = pc[b] /\ (Active(b)' <=> Active(b))
      BY <2>2, <2>3, <2>7
    <3>2. CASE ~Active(b)
      BY <3>1, <3>2 DEF FreshInv
    <3>3. CASE Active(b)
      <4>1. fresh'[c]
        BY <2>2, <2>7, <3>3 DEF Undisturbed
      <4>2. \A d \in Builds : Active(d)' => Undisturbed(d)'
        BY <2>2, <2>4, <2>5, <4>1
      <4>3. Tidy(prog[b])
        BY <3>1, <3>3 DEF FreshInv
      <4>4. Tidy(prog[b])'
        BY <1>0, <1>1, <2>1, <4>3 DEF disks, Tidy, Holds, Tree, Present, NetEmpty, Final, UnderNet
      <4> QED
        BY <2>1, <3>1, <3>3, <4>2, <4>4 DEF FreshInv, disks
    <3> QED
      BY <3>2, <3>3
  <2> QED
    BY <2>6, <2>7
<1>4. CASE Stop(c)
  <2>1. UNCHANGED <<disks, pc, listed, sub, met, fresh>> /\ \A d \in Builds : Active(d)' => Active(d)
    BY <1>4 DEF Stop, Active
  <2>2. \A d \in Builds : Undisturbed(d)' <=> Undisturbed(d)
    BY <2>1 DEF Undisturbed
  <2>3. Tidy(prog[b]) => Tidy(prog[b])'
    BY <1>0, <1>1, <2>1 DEF disks, Tidy, Holds, Tree, Present, NetEmpty, Final, UnderNet
  <2> QED
    BY <2>1, <2>2, <2>3 DEF FreshInv, disks
<1> QED
  BY <1>2, <1>3, <1>4

-----------------------------------------------------------------------------
(* Every initial state has all this. *)
LEMMA TreeInit == InitTree => TreeInv
<1> SUFFICES ASSUME InitTree PROVE TreeInv
  OBVIOUS
<1>1. Unstarted /\ prog \in [Builds -> Programs] /\ place \in {"build", "crate", "publish"}
      /\ (linked \/ theirs => made) /\ linked \in BOOLEAN /\ theirs \in BOOLEAN /\ made \in BOOLEAN
      /\ srcDir \in BOOLEAN /\ netDir \in BOOLEAN /\ marker \in BOOLEAN
  BY DEF InitTree
<1>2. \A b \in Builds : pc[b] = "idle" /\ ~Active(b) /\ met[b] = {} /\ ~fresh[b] /\ pos[b] = 1
                        /\ listed[b] = {} /\ sub[b] = {}
  BY <1>1 DEF Unstarted, Active
<1>3. Untouched \/ \E g \in Programs : Finished(g)
  BY DEF InitTree
<1>4. disk \in [DiskNames -> Content]
  <2>1. Absent \in Content /\ \A g \in Programs, e \in DiskNames : Text[g][e[1]] \in Content
    BY Names DEF Content
  <2> QED
    BY <1>3, <2>1 DEF Untouched, Finished
<1>5. TreeTypeOK
  <2>1. Absent \in Content /\ "idle" \in Labels
    BY DEF Content, Labels
  <2> QED
    BY <1>1, <1>4, <2>1 DEF TreeTypeOK, Unstarted
<1> DEFINE Ordered ==
             /\ \A e \in DiskNames : disk[e] # Absent =>
                  srcDir /\ marker /\ ~linked /\ e[2] = None /\ (UnderNet(e) => netDir)
             /\ srcDir => made /\ ~theirs /\ ~linked /\ marker
             /\ netDir => srcDir
             /\ marker => ~theirs
             /\ ~marker => ~srcDir /\ toml = Absent /\ lock = Absent
<1>6. Ordered
  <2>1. CASE Untouched
    BY <2>1 DEF Untouched
  <2>2. ASSUME NEW g \in Programs, Finished(g) PROVE Ordered
    <3>1. srcDir /\ made /\ ~theirs /\ ~linked /\ marker
      BY <2>2 DEF Finished
    <3>2. ASSUME NEW e \in DiskNames, disk[e] # Absent
          PROVE  e[2] = None /\ (UnderNet(e) => netDir)
      <4>1. e[2] = None /\ Text[g][e[1]] # Absent
        BY <2>2, <3>2 DEF Finished
      <4> QED
        BY <2>2, <4>1 DEF Finished, UnderNet, Wants
    <3> QED
      BY <3>1, <3>2
  <2> QED
    BY <1>3, <2>1, <2>2
<1>7. DirInv /\ MetInv
  BY <1>2, <1>6 DEF DirInv, MetInv
<1>8. OwnInv
  <2>1. \A b \in Builds, f \in Sources : disk[<<f, b>>] = Absent
    BY <1>6, Names, ProgramsAssumption
  <2> QED
    BY <1>2, <2>1 DEF OwnInv
<1>9. PlaceInv
  BY <1>1, <1>2, <1>6 DEF PlaceInv, Marked, Clearing, Writing
<1>10. BuiltInv /\ AloneInv /\ RefusedOnlyForOthers /\ FreshInv
  BY <1>2 DEF BuiltInv, AloneInv, RefusedOnlyForOthers, FreshInv, Undisturbed
<1>11. MarkerInv
  BY <1>6 DEF MarkerInv
<1> QED
  BY <1>5, <1>7, <1>8, <1>9, <1>10, <1>11 DEF TreeInv

(* And every step keeps it. *)
LEMMA TreeInductive == TreeInv /\ [TreeNext]_treevars => TreeInv'
<1> SUFFICES ASSUME TreeInv, [TreeNext]_treevars PROVE TreeInv'
  OBVIOUS
<1>0. /\ TreeTypeOK /\ DirInv /\ MetInv /\ OwnInv /\ PlaceInv /\ BuiltInv /\ AloneInv /\ MarkerInv
      /\ RefusedOnlyForOthers /\ FreshInv
  BY DEF TreeInv
<1>1. ASSUME NEW b \in Builds, Step(b) PROVE TreeInv'
  BY <1>0, <1>1, StepType, DirStep, MetStep, OwnStep, PlaceStep, BuiltStep, AloneStep, MarkerStep, RefusedStep,
     FreshStep DEF TreeInv
<1>2. ASSUME NEW b \in Builds, Begin(b) PROVE TreeInv'
  BY <1>0, <1>2, BeginBasics, BuiltEnds, AloneStep, MarkerStep, RefusedStep, FreshStep DEF TreeInv
<1>3. ASSUME NEW b \in Builds, Stop(b) PROVE TreeInv'
  BY <1>0, <1>3, StopBasics, BuiltEnds, AloneStep, MarkerStep, RefusedStep, FreshStep DEF TreeInv
<1>4. CASE UNCHANGED treevars
  BY <1>0, <1>4 DEF treevars, disks, procs, TreeInv, TreeTypeOK, DirInv, MetInv, OwnInv, PlaceInv, BuiltInv,
     AloneInv, MarkerInv, RefusedOnlyForOthers, FreshInv, UnderNet, Active, Wants, AmongItsOwn, SourceInv, Stale,
     Built, Final, Alone, Entries, Owned, NetEmpty, Present, InPlace, Calm, Undisturbed, Tidy, Holds, Tree
<1> QED
  BY <1>1, <1>2, <1>3, <1>4 DEF TreeNext, Step

(* All of it holds in every reachable state. *)
THEOREM TreeAlways == SpecTree => []TreeInv
<1> QED
  BY TreeInit, TreeInductive, PTL DEF SpecTree

(* Every variable keeps its type: whatever a process sees of the disk is   *)
(* what some build of some program puts there.                             *)
THEOREM TypeCorrect == SpecTree => []TreeTypeOK
<1>1. TreeInv => TreeTypeOK
  BY DEF TreeInv
<1> QED
  BY <1>1, TreeAlways, PTL

(* What cargo compiles is the program, whatever was there before and       *)
(* whichever builds of the program run at once.                            *)
THEOREM CargoGetsTheProgram == SpecTree => []TreeIsBuilt
<1>1. TreeInv => TreeIsBuilt
  <2>1. SUFFICES ASSUME TreeInv, NEW b \in Builds, At(b, "cargo"), AmongItsOwn(b)
                 PROVE  Holds(prog[b]) /\ \A e \in Present(DiskNames) : e[2] \in met[b] \cup {None}
    BY DEF TreeIsBuilt
  <2>2. Active(b) /\ place # "publish" /\ SourceInv(b) /\ pc[b] = "cargo"
    BY <2>1 DEF TreeInv, At, Active, Ended, PlaceInv, BuiltInv
  <2>3. Tree = Built(prog[b])
    BY <2>1, <2>2, TreeIsWhole DEF TreeInv
  <2>4. Holds(prog[b])
    BY <2>2, <2>3 DEF Holds, Built, SourceInv
  <2>5. ASSUME NEW e \in Present(DiskNames) PROVE e[2] \in met[b] \cup {None}
    <3>1. e \in DiskNames /\ disk[e] # Absent /\ ~Stale(b, e)
      BY <2>2 DEF SourceInv, Writing, Present
    <3>2. e[2] # b
      BY <2>1, <2>2, <3>1, Names DEF TreeInv, OwnInv
    <3> QED
      BY <3>1, <3>2 DEF Stale
  <2> QED
    BY <2>4, <2>5
<1> QED
  BY <1>1, TreeAlways, PTL

(* What runs is the program that was asked for, unless a build of another  *)
(* one ran at the same time.                                               *)
THEOREM WhatRunsIsBuilt == SpecTree => []RunsItsProgram
<1>1. TreeInv => RunsItsProgram
  BY DEF TreeInv, BuiltInv, RunsItsProgram, Built
<1> QED
  BY <1>1, TreeAlways, PTL

(* A build fails, or is refused its directory, only because of others.     *)
THEOREM OnlyOthersStopIt == SpecTree => []GivesUpForCause
<1>1. TreeInv => GivesUpForCause
  BY DEF TreeInv, AloneInv, GivesUpForCause, FailsOnlyContended
<1> QED
  BY <1>1, TreeAlways, PTL

(* Builds of what is on disk write nothing, and none of them gives up.     *)
THEOREM NothingToWrite == SpecTree => []FreshWritesNothing
<1>1. TreeInv => FreshWritesNothing
  BY DEF TreeInv, FreshInv, FreshWritesNothing
<1> QED
  BY <1>1, TreeAlways, PTL

(* In a directory of somebody's files the commands only look. *)
LEMMA OnlyLooks ==
  ASSUME TreeTypeOK, PlaceInv, linked \/ (theirs /\ ~Owned), [TreeNext]_treevars
  PROVE  UNCHANGED <<theirs, srcDir, netDir, marker, disk, toml, lock>>
<1>1. ASSUME NEW b \in Builds, Step(b)
      PROVE  UNCHANGED <<theirs, srcDir, netDir, marker, disk, toml, lock>>
  <2>1. Active(b)
    BY <1>1, Frame
  <2>2. pc[b] \in {"look", "lookin", "ours", "oursin"} /\ made
    BY <2>1 DEF PlaceInv, Owned, Active, Ended
  <2>3. Look(b) \/ LookIn(b) \/ Ours(b) \/ OursIn(b)
    BY <1>1, <2>2 DEF Step, At, MkSrc, Mark, ListSrc, Clear, ListNet, ClearNet, CheckNet, RmNet, Compare, WriteTmp,
       Rename, WriteToml, SyncLock, Cargo, RunExe, Sweep, ClearAll, MkDest, Extras
  <2> QED
    BY <2>3 DEF Look, LookIn, Ours, OursIn, disks
<1>2. ASSUME NEW b \in Builds, Begin(b) \/ Stop(b)
      PROVE  UNCHANGED <<theirs, srcDir, netDir, marker, disk, toml, lock>>
  BY <1>2 DEF Begin, Stop, disks
<1>3. CASE UNCHANGED treevars
  BY <1>3 DEF treevars, disks
<1> QED
  BY <1>1, <1>2, <1>3 DEF TreeNext, Step

(* A directory that is not Varyk's stays as it is. *)
THEOREM NotOursStays == SpecTree => OthersKept
<1>1. TreeInv /\ [TreeNext]_treevars =>
        [linked \/ (theirs /\ ~Owned) =>
           UNCHANGED <<theirs, srcDir, netDir, marker, disk, toml, lock>>]_treevars
  BY OnlyLooks DEF TreeInv
<1> QED
  BY <1>1, TreeAlways, PTL DEF SpecTree, OthersKept
=============================================================================
