-------------------------- MODULE PackageManifest --------------------------
(***************************************************************************)
(* What a Cargo.toml may say (package.rs), and which varyk-std a build     *)
(* gets for it.  The manifest of the package that is built, or of one it   *)
(* depends on, is accepted or refused as a whole; from an accepted one the *)
(* manifests of the crates Varyk writes are made.  A manifest is the set   *)
(* of the things in it that the rules tell apart.                          *)
(*                                                                         *)
(* m.read      "ok", "unreadable" or "malformed"                           *)
(* m.top       among the top-level tables: "unknown", "test" (a target     *)
(*             table but the root's), "nottable", "lints", "override",     *)
(*             "workspace", "profile"                                      *)
(* m.deps      "inherited", "std" (a dependency of that name), "platform"  *)
(*             (only for some platforms), "relative" (by a relative path)  *)
(* m.pkg       under [package]: "missing" (no such table), "unknown",      *)
(*             "autofalse", "autotrue", "shape", "inherited", "badrust",   *)
(*             "links", "script", "nobuild", "filter" (include, exclude),  *)
(*             "root" (workspace = ..), "resolver"                         *)
(* m.name      "plain", "dashed", "bad" or "deps"                          *)
(* m.version, m.edition   "ok", "bad" or "none"                            *)
(* m.bin, m.lib  a target table: a set of what is in it, or NoTable        *)
(* m.files     the files and directories of the package                    *)
(* m.around    the workspace found above: "none", "plain", "override",     *)
(*             "nottable" or "nomanifest"                                  *)
(***************************************************************************)
EXTENDS Naturals, Sequences, FiniteSets

CONSTANTS
  NoTable,    \* no [[bin]] or [lib] in the manifest
  Compiler,   \* the compiler's version
  Versions,   \* the versions of varyk-std on crates.io, the compiler's among them
  NoLine, Odd \* no varyk-std line in the manifest, or not a plain version

(* What a target table holds: see `check_target` below. *)
TargetTable == SUBSET {"list", "name", "crate", "other", "vr", "rs", "elsewhere", "extra"}
ASSUME TableAssumption == NoTable \notin TargetTable
ASSUME StdAssumption ==
  /\ Compiler \in Versions /\ Versions \subseteq Nat \X Nat /\ IsFiniteSet(Versions)
  /\ NoLine \notin Nat \X Nat /\ Odd \notin Nat \X Nat

Manifest ==
  [read : {"ok", "unreadable", "malformed"},
   top : SUBSET {"unknown", "test", "nottable", "lints", "override", "workspace", "profile"},
   deps : SUBSET {"inherited", "std", "platform", "relative"},
   pkg : SUBSET {"missing", "unknown", "autofalse", "autotrue", "shape", "inherited", "badrust",
                 "links", "script", "nobuild", "filter", "root", "resolver"},
   name : {"plain", "dashed", "bad", "deps"},
   version : {"ok", "bad", "none"}, edition : {"ok", "bad", "none"},
   bin : TargetTable \cup {NoTable}, lib : TargetTable \cup {NoTable},
   files : SUBSET {"main.vr", "lib.vr", "main.rs", "lib.rs", "tests", "examples", "src/bin"},
   around : {"none", "plain", "override", "nottable", "nomanifest"}]

Modes == {"program", "dependency"}

(* The keys `check` knows, at the top and under [package]; a published     *)
(* manifest sets each automatic target to false.                           *)
KeysProblem(m, mode) ==
  \/ {"unknown", "test", "nottable"} \cap m.top # {}
  \/ {"unknown", "shape", "inherited", "badrust", "links", "autotrue"} \cap m.pkg # {}
  \/ mode = "program" /\ "autofalse" \in m.pkg

(* `name_problem` and `program_name_problem`: cargo's rule and Varyk's own *)
(* directories, and, for a program, cargo's.                               *)
NameProblem(m) == m.name = "bad"
ProgramNameProblem(m) == m.name = "deps" /\ "main.vr" \in m.files /\ "lib.vr" \notin m.files

(* Cargo takes a missing version for 0.0.0; the edition must be written.   *)
VersionProblem(m) == m.version = "bad" \/ m.edition # "ok"

(* What would not reach the crates Varyk writes, or would change them.     *)
LinkedProblem(m) ==
  \/ {"lints", "override"} \cap m.top # {}
  \/ "script" \in m.pkg
  \/ {"inherited", "std", "platform"} \cap m.deps # {}

(* The workspace: the one the package names, its own, or the nearest above *)
(* that does not exclude it.                                               *)
WorkspaceOf(m) ==
  IF "root" \in m.pkg THEN m.around
  ELSE IF "workspace" \in m.top \/ m.around = "nomanifest" THEN "none" ELSE m.around

WorkspaceProblem(m) ==
  \/ WorkspaceOf(m) \in {"override", "nottable"}
  \/ "root" \in m.pkg /\ m.around \in {"none", "nomanifest"}

(* One root, and nothing cargo would build by convention beside it.        *)
RootProblem(m) ==
  \/ ("main.vr" \in m.files) = ("lib.vr" \in m.files)
  \/ {"tests", "examples", "src/bin"} \cap m.files # {}
  \/ "main.vr" \in m.files /\ "lib.rs" \in m.files
  \/ "lib.vr" \in m.files /\ "main.vr" \notin m.files /\ "main.rs" \in m.files

KindOf(m) == IF "main.vr" \in m.files THEN "bin" ELSE "lib"

(* `check_target`: the only target table is the one of the package's root, *)
(* with its name and path.  A target table is "list" (not one table) or    *)
(* holds "name" (the package's), "crate" (its name with - as _), "other",  *)
(* "vr", "rs" (a path), "elsewhere", "extra" (any further key).            *)
Wanted(m) == IF KindOf(m) = "bin" THEN m.bin ELSE m.lib
Unwanted(m) == IF KindOf(m) = "bin" THEN m.lib ELSE m.bin

NamesRoot(m, t) ==
  IF KindOf(m) = "bin"
  THEN "name" \in t \/ (m.name # "dashed" /\ "crate" \in t)
  ELSE "crate" \in t \/ (m.name # "dashed" /\ "name" \in t) \/ t \cap {"name", "crate"} = {}

(* A published manifest may name the generated root. *)
Paths(mode) == IF mode = "program" THEN {"vr"} ELSE {"vr", "rs"}

TargetProblem(m, mode) ==
  \/ Unwanted(m) # NoTable
  \/ Wanted(m) = NoTable       \* V0406, reported when nothing else is wrong
  \/ LET t == Wanted(m)
     IN t # NoTable /\ \/ t \cap {"list", "other", "elsewhere", "extra"} # {}
                       \/ ~NamesRoot(m, t)
                       \/ t \cap Paths(mode) = {} \/ t \cap ({"vr", "rs"} \ Paths(mode)) # {}

Accepted(m, mode) ==
  /\ m.read = "ok" /\ "missing" \notin m.pkg
  /\ ~KeysProblem(m, mode) /\ ~NameProblem(m) /\ ~VersionProblem(m) /\ ~LinkedProblem(m)
  /\ ~WorkspaceProblem(m) /\ ~RootProblem(m) /\ ~ProgramNameProblem(m)
  /\ ~TargetProblem(m, mode)

(* `isolated_manifest`: no build script, no layout keys, a workspace of    *)
(* its own, absolute paths, and the profile of the workspace's root.       *)
Isolated(m) ==
  [m EXCEPT
     !.pkg = (@ \ {"filter", "root", "script"}) \cup {"nobuild"},
     !.deps = @ \ {"relative"},
     !.top = (@ \ {"profile"}) \cup {"workspace"} \cup
             (IF WorkspaceOf(m) = "none" THEN @ \cap {"profile"} ELSE {"profile"})]

(* `generated_manifest`: and the target that names a .vr root names the    *)
(* generated one.                                                          *)
Generated(m) ==
  LET root(t) == IF t = NoTable \/ "vr" \notin t THEN t ELSE (t \ {"vr"}) \cup {"rs"}
  IN IF KindOf(m) = "bin" THEN [Isolated(m) EXCEPT !.bin = root(@)]
                          ELSE [Isolated(m) EXCEPT !.lib = root(@)]

(* What cargo makes of the assembled crate when it is published: it drops  *)
(* what only a workspace's root means, writes every automatic target as    *)
(* false and the target with its name; the files are those `assemble` put  *)
(* there, unpacked outside any workspace.                                  *)
Published(m) ==
  LET g == Generated(m)
      named(t) == IF t = NoTable THEN t
                  ELSE t \cup (IF KindOf(m) = "bin" THEN {"name"} ELSE {"crate"})
  IN [g EXCEPT !.top = @ \ {"workspace"}, !.pkg = @ \cup {"autofalse"},
               !.bin = named(@), !.lib = named(@), !.around = "none",
               !.files = IF KindOf(m) = "bin" THEN {"main.vr", "main.rs"} ELSE {"lib.vr", "lib.rs"}]
-----------------------------------------------------------------------------
(***************************************************************************)
(* Which varyk-std a build gets (package.rs, lib.rs, cli.rs).  Every       *)
(* command but publishing builds with the compiler's own; a published      *)
(* package is built by plain cargo with what its manifests and its lock    *)
(* name, so publishing asks more.  A version is <<minor, patch>> under     *)
(* major 0, where a requirement admits its own minor only.                 *)
(***************************************************************************)
Older(v, w) == v[1] < w[1] \/ (v[1] = w[1] /\ v[2] < w[2])
Oldest(S) == CHOOSE v \in S : \A w \in S : ~Older(w, v)
Newest(S) == CHOOSE v \in S : \A w \in S : ~Older(v, w)

(* b.uses, b.line: whether the program uses varyk-std, and its line (NoLine,*)
(* Odd or a version); b.packages: the same, and whether they log, for the  *)
(* Varyk packages of the build; b.locked: the versions Cargo.lock holds;   *)
(* b.binary: a program.                                                    *)

(* A program's `main` sets up logging for every package, so one that logs  *)
(* makes the program use varyk-std.                                        *)
ProgramUses(b) == b.uses \/ (b.binary /\ \E p \in b.packages : p.logs)

(* Mutant: any older one in the lock will do, or none at all. *)
LockedOlderNever(b) == FALSE

(* `locked_older`: the lock holds one on the compiler's minor that is      *)
(* older than the compiler.                                                *)
LockedOlder(b) == \E v \in b.locked : v[1] = Compiler[1] /\ Older(v, Compiler)

(* `check_std_dependency`: refused. *)
LineProblem(uses, line, publish, b) ==
  /\ uses
  /\ \/ line \in {NoLine, Odd}
     \/ line \in Nat \X Nat /\ Older(Compiler, line)
     \/ publish /\ (line[1] # Compiler[1] \/ LockedOlder(b))

(* Cargo, on a manifest with its requirement: what the lock holds when it  *)
(* is compatible, else the newest there is.                                *)
Fitting(line, S) == {v \in S : v[1] = line[1] /\ ~Older(v, line)}
Resolves(line, b) ==
  Newest(Fitting(line, IF Fitting(line, b.locked) # {} THEN b.locked ELSE Versions))

(* Only a crate that has the line gets one. *)
Lines(b) == ({b.line} \cup {p.line : p \in b.packages}) \cap (Nat \X Nat)
Resolved(b) == {Resolves(l, b) : l \in Lines(b)}

(* What a build may ask: there is a version for each line, or cargo would  *)
(* have answered nothing.                                                  *)
Line == (Nat \X Nat) \cup {NoLine, Odd}
StdAsked(b) ==
  /\ b \in [uses : BOOLEAN, line : Line, locked : SUBSET (Nat \X Nat), binary : BOOLEAN,
            packages : SUBSET [uses : BOOLEAN, logs : BOOLEAN, line : Line]]
  /\ IsFiniteSet(b.locked) /\ \A l \in Lines(b) : Fitting(l, Versions) # {}

BuildUses(b) == ProgramUses(b) \/ \E p \in b.packages : p.uses

(* The graph is read only when there is a package besides varyk-std. *)
ResolvedOlder(b) == b.packages # {} /\ Resolved(b) # {} /\ Older(Oldest(Resolved(b)), Compiler)

(* `check_dependency` for each package, then `check_build_std`. *)
Passes(b, publish) ==
  /\ \A p \in b.packages : ~LineProblem(p.uses, p.line, FALSE, b)
  /\ ~LineProblem(ProgramUses(b), b.line, publish, b)
  /\ publish /\ BuildUses(b) => ~ResolvedOlder(b)
=============================================================================
