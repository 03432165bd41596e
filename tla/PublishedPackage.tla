-------------------------- MODULE PublishedPackage --------------------------
(***************************************************************************)
(* A package from its author to its user: `varyk publish` reads the        *)
(* manifest, the packages it depends on and the module tree, and hands the *)
(* assembled crate to cargo; a build that lists it then reads what cargo   *)
(* published, by the rules for a dependency.  Composes PackageManifest,    *)
(* PackageGraph and ModuleTree in the order the commands run them.         *)
(***************************************************************************)
EXTENDS PackageManifest, PackageGraph, ModuleTree

VARIABLES
  manifest,  \* the package's Cargo.toml
  std,       \* what it and its packages ask of varyk-std
  tree,      \* the modules as the author loaded them
  stage      \* the next thing read, "refused", or "done"; a user's start with "use"

pvars == <<gvars, mvars, manifest, std, tree, stage>>

Same == UNCHANGED <<manifest, std, tree>>
GraphSame == UNCHANGED gvars
TreeSame == UNCHANGED mvars
IdleElse(next) == stage' = next /\ Same

(* `target_for_file` and `Package::load`: the manifest, as a whole. *)
ReadManifest ==
  /\ stage = "manifest"
  /\ IdleElse(IF Accepted(manifest, "program") THEN "graph" ELSE "refused")
  /\ GraphSame /\ TreeSame

(* `Graph::read`: one step of it. *)
ReadGraph ==
  /\ stage = "graph" /\ GraphNext
  /\ IdleElse(IF verdict' = "refused" THEN "refused" ELSE stage)
  /\ TreeSame

(* `check_package`: the program's modules, one declaration at a time. *)
Load ==
  /\ stage = "graph" /\ verdict \in {"none", "accepted"}
  /\ NextModule \/ LoadOne(FALSE)
  /\ IdleElse(stage) /\ GraphSame

(* `check_std_dependency` and `check_build_std`, once what uses varyk-std  *)
(* is known; nothing is handed to cargo when anything was reported.        *)
Publish ==
  /\ stage = "graph" /\ verdict \in {"none", "accepted"} /\ ~Loading
  /\ IF reports = {} /\ Passes(std, TRUE)
     THEN /\ stage' = "use" /\ tree' = modules /\ UNCHANGED <<manifest, std>>
     ELSE IdleElse("refused")
  /\ GraphSame /\ TreeSame

(* A build lists the crate: its manifest is read as a dependency's.        *)
Use ==
  /\ stage = "use" /\ KindOf(manifest) = "lib"
  /\ manifest' = Published(manifest)
  /\ stage' = IF Accepted(Published(manifest), "dependency") THEN "load" ELSE "unusable"
  /\ files' = Assembled /\ modules' = <<Entry(modules[1].decls)>> /\ at' = <<1, 1>>
  /\ UNCHANGED <<syntaxOk, reports, std, tree>> /\ GraphSame

(* And so are its modules. *)
LoadUsed ==
  /\ stage = "load"
  /\ NextModule \/ LoadOne(TRUE)
  /\ IdleElse(stage) /\ GraphSame

PackagesNext == ReadManifest \/ ReadGraph \/ Load \/ Publish \/ Use \/ LoadUsed

(* A package and what is around it, before it is read. *)
PackagesStart ==
  /\ manifest \in Manifest /\ StdAsked(std) /\ CargoAnswer /\ FilesType
  /\ modules[1].decls \in Seq(ModuleNames) /\ LoadStart(modules[1].decls)
  /\ GraphStart /\ tree = <<>> /\ stage = "manifest"

PackagesSpec == PackagesStart /\ [][PackagesNext]_pvars

(* A library that `varyk publish` accepts can be used: the manifest cargo  *)
(* makes of the assembled crate is accepted as a dependency's; it builds   *)
(* the generated root, runs no script, and leads neither to a workspace    *)
(* nor to anything left behind; and from the assembled files the same      *)
(* modules are loaded, from the same sources, with nothing to report.      *)
PublishedIsUsable ==
  /\ stage # "unusable"
  /\ stage = "load" =>
       /\ Wanted(manifest) \cap {"vr", "rs"} = {"rs"}
       /\ {"script", "filter", "root"} \cap manifest.pkg = {}
       /\ "relative" \notin manifest.deps /\ WorkspaceOf(manifest) = "none"
       /\ reports = {} /\ (~Loading => modules = tree)

(* What is published is built with a varyk-std as new as the compiler that *)
(* accepted it: every crate of the build that uses it gets the compiler's  *)
(* version or a newer one, the package's own on the compiler's minor; and  *)
(* what may be published also builds.                                      *)
PublishedStdIsOwn == stage \in {"use", "load"} =>
  /\ Passes(std, FALSE)
  /\ \A p \in std.packages : p.uses => ~Older(Resolves(p.line, std), Compiler)
  /\ ProgramUses(std) =>
       /\ Resolves(std.line, std)[1] = Compiler[1]
       /\ ~Older(Resolves(std.line, std), Compiler)
=============================================================================
