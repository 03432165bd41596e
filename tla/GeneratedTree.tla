--------------------------- MODULE GeneratedTree ---------------------------
(***************************************************************************)
(* The directory a build writes, and the processes that write it: what     *)
(* `varyk build`, `varyk run` and `varyk publish` do to the tree of a      *)
(* generated crate (driver/generate.rs, driver/mod.rs, driver/publish.rs), *)
(* one call of the file system at a time, with any number of them running  *)
(* together and any of them stopped between two calls.                     *)
(***************************************************************************)
EXTENDS Naturals, Sequences, FiniteSets

CONSTANTS
  Builds,      \* the processes, each of which runs one command
  Programs,    \* the programs that are built in this directory
  Files,       \* the .rs files a program may have, in the order they are written
  Nested,      \* the ones of them under a directory of src/
  Text,        \* Text[g][f]: what program g has in f
  Lock,        \* Lock[g]: the Cargo.lock a build of g mirrors
  Absent,      \* no such file
  None         \* the author of a finished file: no process

Sources == {Files[i] : i \in 1 .. Len(Files)}

ASSUME ProgramsAssumption ==
  /\ Files \in Seq(Sources) /\ Files # <<>> /\ Nested \subseteq Sources
  /\ \A g \in Programs : Text[g][Files[1]] # Absent
  /\ None \notin Builds

VARIABLES
  place,       \* where the directory is, which decides who owns it
  linked,      \* it is itself a symbolic link
  theirs,      \* it holds a file Varyk did not write
  made,        \* the directory exists
  srcDir,      \* its src/ exists
  netDir,      \* the directory under src/ exists
  marker,      \* its .varyk-generated exists
  disk,        \* what each file under src/ holds, temporary files included
  toml, lock,  \* its Cargo.toml and Cargo.lock
  exe,         \* the files the executable was compiled from
  pc,          \* what each process does next
  prog,        \* the program it builds
  pos,         \* the file it compares or writes
  listed, sub,   \* what it has still to clear of its listings of src/ and below
  tops, swept,   \* ... of the directory and of src/, where it removes them all
  met,         \* the processes that ran while it did
  fresh,       \* history: it began on its own tree, beside none but such builds
  ran,         \* what it ran
  dead         \* the processes that were stopped

disks == <<place, linked, theirs, made, srcDir, netDir, marker, disk, toml, lock, exe>>
procs == <<pc, prog, pos, listed, sub, tops, swept, met, fresh, ran, dead>>
treevars == <<disks, procs>>

DiskNames == Sources \X (Builds \cup {None})
Final(f) == <<f, None>>
Ended == {"done", "failed", "refused", "noreadme"}
Active(b) == pc[b] \notin Ended \cup {"idle"} /\ b \notin dead

Wants(g, f) == Text[g][f] # Absent
UnderNet(e) == e[1] \in Nested
Present(S) == {e \in S : disk[e] # Absent}
NetEmpty == \A e \in DiskNames : UnderNet(e) => disk[e] = Absent
Tree == [f \in Sources |-> disk[Final(f)]]

(* `owned`: the marker, or a direct child of target/varyk. *)
Owned == marker \/ place = "build"
(* `has_entries`. *)
HasEntries == theirs \/ marker \/ srcDir \/ toml # Absent \/ lock # Absent

(* The tree is exactly what a build of g writes, temporary files apart. *)
Holds(g) ==
  /\ Tree = [f \in Sources |-> Text[g][f]]
  /\ toml = g
  /\ place = "build" => lock = Lock[g]

(* So it is, and nothing else is there: no temporary file of a build that  *)
(* was stopped, no directory that it left empty.                           *)
Tidy(g) ==
  /\ Holds(g) /\ ~theirs
  /\ \A e \in Present(DiskNames) : e[2] = None
  /\ netDir => ~NetEmpty

(* A build and everyone it met began on their own tree. *)
Undisturbed(b) == fresh[b] /\ \A c \in met[b] : fresh[c]

(***************************************************************************)
(* The initial states: nothing there yet; an empty directory; somebody's   *)
(* files; a link; or the tree of a build that finished.                    *)
(***************************************************************************)
Untouched ==
  /\ srcDir = FALSE /\ netDir = FALSE /\ marker = FALSE
  /\ disk = [e \in DiskNames |-> Absent] /\ toml = Absent /\ lock = Absent

Finished(g) ==
  /\ made /\ ~theirs /\ ~linked /\ srcDir /\ marker
  /\ netDir = (\E f \in Nested : Wants(g, f))
  /\ disk = [e \in DiskNames |-> IF e[2] = None THEN Text[g][e[1]] ELSE Absent]
  /\ toml = g /\ lock = IF place = "crate" THEN Absent ELSE Lock[g]

Unstarted ==
  /\ exe = [f \in Sources |-> Absent]
  /\ pc = [b \in Builds |-> "idle"]
  /\ pos = [b \in Builds |-> 1]
  /\ listed = [b \in Builds |-> {}] /\ sub = [b \in Builds |-> {}]
  /\ tops = [b \in Builds |-> {}] /\ swept = [b \in Builds |-> {}]
  /\ met = [b \in Builds |-> {}]
  /\ fresh = [b \in Builds |-> FALSE]
  /\ ran = [b \in Builds |-> [f \in Sources |-> Absent]]
  /\ dead = {}

InitTree ==
  /\ place \in {"build", "crate", "publish"}
  /\ linked \in BOOLEAN /\ theirs \in BOOLEAN /\ made \in BOOLEAN
  /\ linked \/ theirs => made
  /\ srcDir \in BOOLEAN /\ netDir \in BOOLEAN /\ marker \in BOOLEAN
  /\ Untouched \/ \E g \in Programs : Finished(g)
  /\ Unstarted /\ prog \in [Builds -> Programs]

(***************************************************************************)
(* The steps of one process.  Each is one call of the file system; what a  *)
(* call finds may have changed since the last one looked.                  *)
(***************************************************************************)
At(b, l) == pc[b] = l /\ b \notin dead
Goto(b, l) == pc' = [pc EXCEPT ![b] = l]
Keep(b) == UNCHANGED <<tops, swept, prog, met, fresh, ran, dead>>

(* A command starts: it generates its program in memory, and refuses a     *)
(* directory that is a link.                                               *)
Begin(b) ==
  /\ pc[b] = "idle" /\ b \notin dead
  /\ LET others == {c \in Builds : Active(c)}
     IN /\ met' = [c \in Builds |-> IF c = b THEN others
                                   ELSE IF c \in others THEN met[c] \cup {b} ELSE met[c]]
        /\ fresh' = [fresh EXCEPT ![b] = Tidy(prog[b]) /\ \A c \in others : Undisturbed(c)]
  /\ Goto(b, IF linked THEN "refused" ELSE IF place = "publish" THEN "ours" ELSE "look")
  /\ UNCHANGED <<disks, prog, pos, listed, sub, tops, swept, ran, dead>>

(* Mutant: the next build does not recognise its own directory. *)
LookWithoutOwner(b) ==
  /\ At(b, "look") /\ Goto(b, "lookin")
  /\ UNCHANGED <<disks, pos, listed, sub>> /\ Keep(b)

(* `!owned(dir) && has_entries(dir)`: two looks at the directory. *)
Look(b) ==
  /\ At(b, "look") /\ Goto(b, IF Owned THEN "mksrc" ELSE "lookin")
  /\ UNCHANGED <<disks, pos, listed, sub>> /\ Keep(b)

(* Mutant: a directory that holds anything is taken over. *)
LookInAnyway(b) ==
  /\ At(b, "lookin") /\ Goto(b, "mksrc")
  /\ UNCHANGED <<disks, pos, listed, sub>> /\ Keep(b)

LookIn(b) ==
  /\ At(b, "lookin") /\ Goto(b, IF HasEntries THEN "refused" ELSE "mksrc")
  /\ UNCHANGED <<disks, pos, listed, sub>> /\ Keep(b)

(* `create_dir_all(src)`. *)
MkSrc(b) ==
  /\ At(b, "mksrc") /\ made' = TRUE /\ srcDir' = TRUE /\ Goto(b, "mark")
  /\ UNCHANGED <<place, linked, theirs, netDir, marker, disk, toml, lock, exe, pos, listed, sub>>
  /\ Keep(b)

(* The marker is written when it is not there. *)
Mark(b) ==
  /\ At(b, "mark")
  /\ \/ made /\ marker' = TRUE /\ Goto(b, "list")
     \/ ~made /\ marker' = marker /\ Goto(b, "failed")
  /\ UNCHANGED <<place, linked, theirs, made, srcDir, netDir, disk, toml, lock, exe, pos, listed, sub>>
  /\ Keep(b)

(* What `remove_stale` removes of a listing: what is not in `wanted`. *)
ToClear(b, S) == {e \in S : e[2] # None \/ ~Wants(prog[b], e[1])}

(* `remove_stale` of src/: the listing, or nothing when it is no directory. *)
ListSrc(b) ==
  /\ At(b, "list")
  /\ listed' = [listed EXCEPT ![b] = ToClear(b, {e \in Present(DiskNames) : ~UnderNet(e)})]
  /\ Goto(b, IF srcDir THEN IF netDir THEN "listnet" ELSE "clear" ELSE "compare")
  /\ UNCHANGED <<disks, pos, sub>> /\ Keep(b)

(* One entry of src/ is removed; an entry that is gone is an error. *)
Clear(b) ==
  /\ At(b, "clear")
  /\ \/ listed[b] = {} /\ Goto(b, "compare") /\ UNCHANGED <<disk, listed>>
     \/ \E e \in listed[b] :
          /\ listed' = [listed EXCEPT ![b] = @ \ {e}]
          /\ disk' = [disk EXCEPT ![e] = Absent]
          /\ IF disk[e] = Absent THEN Goto(b, "failed") ELSE UNCHANGED pc
  /\ UNCHANGED <<place, linked, theirs, made, srcDir, netDir, marker, toml, lock, exe, pos, sub>>
  /\ Keep(b)

(* The same below src/: the directory is listed, cleared, looked into      *)
(* again, and removed when nothing is left.  Each call fails when the      *)
(* directory is gone, the removal also when it is not empty.               *)
ListNet(b) ==
  /\ At(b, "listnet")
  /\ sub' = [sub EXCEPT ![b] = ToClear(b, {e \in Present(DiskNames) : UnderNet(e)})]
  /\ Goto(b, IF netDir THEN "clearnet" ELSE "failed")
  /\ UNCHANGED <<disks, pos, listed>> /\ Keep(b)

ClearNet(b) ==
  /\ At(b, "clearnet")
  /\ \/ sub[b] = {} /\ Goto(b, "checknet") /\ UNCHANGED <<disk, sub>>
     \/ \E e \in sub[b] :
          /\ sub' = [sub EXCEPT ![b] = @ \ {e}]
          /\ disk' = [disk EXCEPT ![e] = Absent]
          /\ IF disk[e] = Absent THEN Goto(b, "failed") ELSE UNCHANGED pc
  /\ UNCHANGED <<place, linked, theirs, made, srcDir, netDir, marker, toml, lock, exe, pos, listed>>
  /\ Keep(b)

(* Mutant: the directory is removed whether or not anything is left in it. *)
CheckNothing(b) ==
  /\ At(b, "checknet") /\ Goto(b, "rmnet")
  /\ UNCHANGED <<disks, pos, listed, sub>> /\ Keep(b)

CheckNet(b) ==
  /\ At(b, "checknet")
  /\ Goto(b, IF ~netDir THEN "failed" ELSE IF NetEmpty THEN "rmnet" ELSE "clear")
  /\ UNCHANGED <<disks, pos, listed, sub>> /\ Keep(b)

RmNet(b) ==
  /\ At(b, "rmnet")
  /\ IF netDir /\ NetEmpty THEN netDir' = FALSE /\ Goto(b, "clear")
                           ELSE netDir' = netDir /\ Goto(b, "failed")
  /\ UNCHANGED <<place, linked, theirs, made, srcDir, marker, disk, toml, lock, exe, pos, listed, sub>>
  /\ Keep(b)

(* `write_if_changed` and `copy_if_changed`: the file is compared, its     *)
(* directory made, the text written to a temporary file named after the    *)
(* process, and that one renamed.                                          *)
(* Mutant: every file is written again. *)
NeverSame(b, f) == FALSE

(* Mutant: a file that is there is taken for the same. *)
ThereIsSame(b, f) == disk[Final(f)] # Absent

OnDisk(b, f) == disk[Final(f)] = Text[prog[b]][f]

Compare(b) ==
  /\ At(b, "compare")
  /\ IF pos[b] > Len(Files)
     THEN Goto(b, "toml") /\ UNCHANGED <<pos, srcDir, netDir, made>>
     ELSE LET f == Files[pos[b]]
          IN IF ~Wants(prog[b], f) \/ OnDisk(b, f)
             THEN /\ pos' = [pos EXCEPT ![b] = @ + 1]
                  /\ UNCHANGED <<pc, srcDir, netDir, made>>
             ELSE /\ made' = TRUE /\ srcDir' = TRUE /\ netDir' = (netDir \/ f \in Nested)
                  /\ Goto(b, "write") /\ UNCHANGED pos
  /\ UNCHANGED <<place, linked, theirs, marker, disk, toml, lock, exe, listed, sub>> /\ Keep(b)

InPlace(f) == srcDir /\ (f \in Nested => netDir)

WriteTmp(b) ==
  /\ At(b, "write")
  /\ LET f == Files[pos[b]]
     IN IF InPlace(f)
        THEN disk' = [disk EXCEPT ![<<f, b>>] = Text[prog[b]][f]] /\ Goto(b, "rename")
        ELSE disk' = disk /\ Goto(b, "failed")
  /\ UNCHANGED <<place, linked, theirs, made, srcDir, netDir, marker, toml, lock, exe, pos, listed, sub>>
  /\ Keep(b)

Rename(b) ==
  /\ At(b, "rename")
  /\ LET f == Files[pos[b]]
     IN IF disk[<<f, b>>] # Absent
        THEN /\ disk' = [disk EXCEPT ![Final(f)] = disk[<<f, b>>], ![<<f, b>>] = Absent]
             /\ pos' = [pos EXCEPT ![b] = @ + 1] /\ Goto(b, "compare")
        ELSE disk' = disk /\ pos' = pos /\ Goto(b, "failed")
  /\ UNCHANGED <<place, linked, theirs, made, srcDir, netDir, marker, toml, lock, exe, listed, sub>>
  /\ Keep(b)

(* The manifest; its temporary file is beside src/, where nothing clears. *)
WriteToml(b) ==
  /\ At(b, "toml")
  /\ IF made THEN toml' = prog[b] /\ Goto(b, IF place = "crate" THEN "cargo" ELSE "lock")
             ELSE toml' = toml /\ Goto(b, "failed")
  /\ UNCHANGED <<place, linked, theirs, made, srcDir, netDir, marker, disk, lock, exe, pos, listed, sub>>
  /\ Keep(b)

(* Publishing copies the lock there is, and otherwise leaves what it finds. *)
CopyLock(b) == IF Lock[prog[b]] = Absent THEN lock ELSE Lock[prog[b]]

(* `sync_lock`: a copy, or no file. *)
Mirror(b) == Lock[prog[b]]

SyncLock(b) ==
  /\ At(b, "lock")
  /\ \/ /\ made /\ place = "publish"
        /\ lock' = CopyLock(b) /\ Goto(b, "extras")
     \/ /\ made /\ place # "publish"
        /\ lock' = Mirror(b) /\ Goto(b, "cargo")
     \/ ~made /\ lock' = lock /\ Goto(b, "failed")
  /\ UNCHANGED <<place, linked, theirs, made, srcDir, netDir, marker, disk, toml, exe, pos, listed, sub>>
  /\ Keep(b)

(* Cargo compiles the tree as it finds it: without the root file it fails. *)
Cargo(b) ==
  /\ At(b, "cargo")
  /\ IF Tree[Files[1]] # Absent THEN exe' = Tree /\ Goto(b, "run")
                               ELSE exe' = exe /\ Goto(b, "failed")
  /\ UNCHANGED <<place, linked, theirs, made, srcDir, netDir, marker, disk, toml, lock, pos, listed, sub>>
  /\ Keep(b)

(* `run` starts whatever is at the path cargo named. *)
RunExe(b) ==
  /\ At(b, "run") /\ ran' = [ran EXCEPT ![b] = exe] /\ Goto(b, "done")
  /\ UNCHANGED <<disks, prog, pos, listed, sub, tops, swept, met, fresh, dead>>

(***************************************************************************)
(* Publishing first removes the whole directory, by the same rule of       *)
(* ownership.                                                              *)
(***************************************************************************)
Ours(b) ==
  /\ At(b, "ours")
  /\ Goto(b, IF ~made THEN "mkdest" ELSE IF Owned THEN "sweep" ELSE "oursin")
  /\ UNCHANGED <<disks, pos, listed, sub>> /\ Keep(b)

OursIn(b) ==
  /\ At(b, "oursin") /\ Goto(b, IF HasEntries THEN "refused" ELSE "sweep")
  /\ UNCHANGED <<disks, pos, listed, sub>> /\ Keep(b)

(* `remove_dir_all`: the directory, which must be there, and src/ are read. *)
Entries == {n \in {"marker", "toml", "lock", "src", "net"} :
              \/ n = "marker" /\ marker
              \/ n = "toml" /\ toml # Absent
              \/ n = "lock" /\ lock # Absent
              \/ n = "src" /\ srcDir
              \/ n = "net" /\ netDir}

Sweep(b) ==
  /\ At(b, "sweep")
  /\ tops' = [tops EXCEPT ![b] = Entries]
  /\ swept' = [swept EXCEPT ![b] = Present(DiskNames)]
  /\ Goto(b, IF made THEN "clearall" ELSE "failed")
  /\ UNCHANGED <<disks, prog, pos, listed, sub, met, fresh, ran, dead>>

(* What was read goes, in any order, and so may what has come since; what  *)
(* is gone already is passed over.  A directory goes after what was read   *)
(* of it: that something has come since is an error.                       *)
ClearAll(b) ==
  /\ At(b, "clearall")
  /\ \/ \E n \in (tops[b] \cup Entries) \ {"src", "net"} :
          /\ tops' = [tops EXCEPT ![b] = @ \ {n}]
          /\ marker' = (marker /\ n # "marker")
          /\ toml' = IF n = "toml" THEN Absent ELSE toml
          /\ lock' = IF n = "lock" THEN Absent ELSE lock
          /\ UNCHANGED <<made, srcDir, netDir, disk, swept, pc>>
     \/ \E e \in swept[b] \cup Present(DiskNames) :
          /\ swept' = [swept EXCEPT ![b] = @ \ {e}]
          /\ disk' = [disk EXCEPT ![e] = Absent]
          /\ UNCHANGED <<made, srcDir, netDir, marker, toml, lock, tops, pc>>
     \/ /\ "net" \in tops[b] \cup Entries /\ \A e \in swept[b] : ~UnderNet(e)
        /\ tops' = [tops EXCEPT ![b] = @ \ {"net"}]
        /\ IF NetEmpty THEN netDir' = FALSE /\ pc' = pc ELSE netDir' = netDir /\ Goto(b, "failed")
        /\ UNCHANGED <<made, srcDir, marker, disk, toml, lock, swept>>
     \/ /\ "src" \in tops[b] \cup Entries /\ "net" \notin tops[b] /\ swept[b] = {}
        /\ tops' = [tops EXCEPT ![b] = @ \ {"src"}]
        /\ IF ~netDir /\ Present(DiskNames) = {} THEN srcDir' = FALSE /\ pc' = pc
                                               ELSE srcDir' = srcDir /\ Goto(b, "failed")
        /\ UNCHANGED <<made, netDir, marker, disk, toml, lock, swept>>
     \/ /\ tops[b] = {} /\ swept[b] = {}
        /\ IF HasEntries THEN made' = made /\ Goto(b, "failed") ELSE made' = FALSE /\ Goto(b, "mkdest")
        /\ UNCHANGED <<srcDir, netDir, marker, disk, toml, lock, tops, swept>>
  /\ UNCHANGED <<place, linked, theirs, exe, prog, pos, listed, sub, met, fresh, ran, dead>>

MkDest(b) ==
  /\ At(b, "mkdest") /\ made' = TRUE /\ Goto(b, "look")
  /\ UNCHANGED <<place, linked, theirs, srcDir, netDir, marker, disk, toml, lock, exe, pos, listed, sub>>
  /\ Keep(b)

(* The sources, the readme and the license: a file the manifest names and  *)
(* that is missing, or lies outside, is an error after the rest is there.  *)
Extras(b) ==
  /\ At(b, "extras")
  /\ \E l \in {"done", "noreadme"} : Goto(b, l)
  /\ UNCHANGED <<disks, pos, listed, sub>> /\ Keep(b)

(* A process is stopped. *)
Stop(b) ==
  /\ Active(b) /\ dead' = dead \cup {b}
  /\ UNCHANGED <<disks, pc, prog, pos, listed, sub, tops, swept, met, fresh, ran>>

TreeNext == \E b \in Builds :
  \/ Begin(b) \/ Look(b) \/ LookIn(b) \/ MkSrc(b) \/ Mark(b) \/ ListSrc(b) \/ Clear(b)
  \/ ListNet(b) \/ ClearNet(b) \/ CheckNet(b) \/ RmNet(b)
  \/ Compare(b) \/ WriteTmp(b) \/ Rename(b) \/ WriteToml(b) \/ SyncLock(b)
  \/ Cargo(b) \/ RunExe(b)
  \/ Ours(b) \/ OursIn(b) \/ Sweep(b) \/ ClearAll(b) \/ MkDest(b) \/ Extras(b)
  \/ Stop(b)

SpecTree == InitTree /\ [][TreeNext]_treevars
-----------------------------------------------------------------------------
(* Everyone the process met builds the same program. *)
AmongItsOwn(b) == \A c \in met[b] : prog[c] = prog[b]

(* What cargo compiles is the program: when a build that met only builds   *)
(* of the same program hands its directory to cargo, the tree holds        *)
(* exactly that program, the manifest and the lock too, whatever earlier   *)
(* builds, finished or stopped, left there; no temporary file is left but  *)
(* of those it met.                                                        *)
TreeIsBuilt == \A b \in Builds :
  At(b, "cargo") /\ AmongItsOwn(b) =>
    /\ Holds(prog[b])
    /\ \A e \in Present(DiskNames) : e[2] \in met[b] \cup {None}

(* `varyk run` runs the program it was asked to run: the executable is     *)
(* shared, and another build may have replaced it in between, but only a   *)
(* build of another program that ran at the same time.                     *)
RunsItsProgram == \A b \in Builds :
  pc[b] = "done" /\ place # "publish" /\ AmongItsOwn(b) =>
    ran[b] = [f \in Sources |-> Text[prog[b]][f]]

(* A build alone never fails on the file system: what a stopped build left *)
(* does not make the next one fail.                                        *)
FailsOnlyContended == \A b \in Builds : pc[b] = "failed" => met[b] # {}

(* A directory is refused only when it holds somebody's files or is a      *)
(* link; when a process that was stopped between making or clearing the    *)
(* directory and marking it, or one still at it, left it without its       *)
(* marker; or when two that published into it ran together, one clearing   *)
(* what the other had marked.  Never where builds are owned by their       *)
(* location.                                                               *)
RefusedOnlyForOthers == \A b \in Builds : pc[b] = "refused" =>
  \/ linked
  \/ place # "build" /\ theirs
  \/ place # "build" /\ \E c \in Builds \ {b} :
       \/ c \in met[b]
       \/ c \in dead /\ pc[c] \in {"mark", "clearall"}
       \/ place = "publish" /\ met[c] # {}

(* A build gives up, on the file system or by refusing the directory, only *)
(* when others are in its way.                                             *)
GivesUpForCause == FailsOnlyContended /\ RefusedOnlyForOthers

(* A build of a program that is already on disk writes nothing and never   *)
(* fails, however many of them run together and whatever is stopped.       *)
FreshWritesNothing == \A b \in Builds : Undisturbed(b) =>
    \/ place = "publish"
    \/ pc[b] \notin {"write", "rename", "failed", "refused"}

(* A directory that is not Varyk's is left as it is: no step changes       *)
(* anything in a link, or in a directory of somebody's files that neither  *)
(* carries the marker nor lies where builds are.                           *)
OthersKept ==
  [][linked \/ (theirs /\ ~Owned) =>
       UNCHANGED <<theirs, srcDir, netDir, marker, disk, toml, lock>>]_treevars
=============================================================================
