----------------------------- MODULE ModuleTree -----------------------------
(***************************************************************************)
(* The module tree of a package (resolve/modules.rs): from the entry file, *)
(* every `mod` of a .vr module is found, read, and parsed or imported,     *)
(* breadth first, each step taking one declaration.  A place is            *)
(* <<directory, name, form>>: form "vr" is name.vr, "rs" name.rs and "mod" *)
(* name/mod.vr; a directory is the sequence of module names that leads to  *)
(* it.                                                                     *)
(***************************************************************************)
EXTENDS Naturals, Sequences, FiniteSets

CONSTANTS
  ModuleNames,  \* the names a module may be declared by
  CargoNames,   \* module names that would be a target of cargo's, in any capitals
  RootOnly,     \* such names, but only directly in src/ (bin)
  Reserved      \* names of standard types and modules, or starting with varyk

(* A file: its kind, "varyk", "syntax" (a .vr that does not parse),        *)
(* "rust", "odd" (a .rs that cannot be imported) or "unreadable", and the  *)
(* modules it declares.                                                    *)
FileKinds == {"varyk", "syntax", "rust", "odd", "unreadable"}
File == [kind : FileKinds, decls : Seq(ModuleNames)]

VARIABLES
  files,     \* the files of src/: places to files
  modules,   \* the modules loaded, the entry file's first
  at,        \* the module whose declarations are read, and the next of them
  syntaxOk,  \* no module file had syntax errors
  reports    \* the declarations reported: <<module, declaration>>

mvars == <<files, modules, at, syntaxOk, reports>>

Forms == {"vr", "rs", "mod"}
FilesType ==
  /\ DOMAIN files \subseteq Seq(ModuleNames) \X ModuleNames \X Forms
  /\ files \in [DOMAIN files -> File]

(* The declaration that is read next: its module's directory and its name. *)
Parent == modules[at[1]]
Name == Parent.decls[at[2]]

(* `check_name`: a name cargo, the language or an earlier declaration has. *)
NameTaken ==
  \/ Name \in CargoNames \cup Reserved
  \/ at[1] = 1 /\ Name \in RootOnly
  \/ \E k \in 1 .. at[2] - 1 : Parent.decls[k] = Name

(* Mutant: a generated file beside its source makes the module ambiguous.  *)
FoundAll(dir, name, dependency) == {f \in Forms : <<dir, name, f>> \in DOMAIN files}

(* `find_file`: the files there are for the module; in a dependency a .vr  *)
(* file wins over name.rs, which is what publishing put beside it.         *)
Found(dir, name, dependency) ==
  LET there == {f \in Forms : <<dir, name, f>> \in DOMAIN files}
  IN IF dependency /\ there \cap {"vr", "mod"} # {} THEN there \ {"rs"} ELSE there

Loading == at[1] <= Len(modules)

(* No declaration is left in this module. *)
NextModule ==
  /\ Loading /\ at[2] > Len(Parent.decls)
  /\ at' = <<at[1] + 1, 1>>
  /\ UNCHANGED <<files, modules, syntaxOk, reports>>

Refuse ==
  /\ reports' = reports \cup {at}
  /\ UNCHANGED <<modules, syntaxOk>>

(* One declaration: its name, its file, and what the file holds. *)
LoadOne(dependency) ==
  /\ Loading /\ at[2] <= Len(Parent.decls)
  /\ at' = <<at[1], at[2] + 1>> /\ files' = files
  /\ LET found == Found(Parent.dir, Name, dependency)
         form == CHOOSE f \in found : TRUE
         file == files[<<Parent.dir, Name, form>>]
     IN IF NameTaken \/ Cardinality(found) # 1 THEN Refuse
        ELSE CASE file.kind \in {"odd", "unreadable"} -> Refuse
               [] file.kind = "syntax" ->
                    /\ syntaxOk' = FALSE /\ reports' = reports \cup {at}
                    /\ modules' = modules
               [] file.kind \in {"varyk", "rust"} ->
                    /\ modules' = Append(modules,
                         [parent |-> at[1], name |-> Name, form |-> form,
                          decls |-> IF file.kind = "rust" THEN <<>> ELSE file.decls,
                          dir |-> Append(Parent.dir, Name)])
                    /\ UNCHANGED <<syntaxOk, reports>>

(* The entry file. *)
Entry(decls) == [parent |-> 0, name |-> "root", form |-> "vr", decls |-> decls, dir |-> <<>>]

LoadStart(decls) ==
  /\ modules = <<Entry(decls)>> /\ at = <<1, 1>>
  /\ syntaxOk = TRUE /\ reports = {}

(* Every module has its file at its place in the tree: a .vr module as the *)
(* file that is generated, a .rs module as a copy.                         *)
WrittenAt(i) == <<modules[modules[i].parent].dir, modules[i].name, "rs">>
Written == {WrittenAt(i) : i \in 2 .. Len(modules)}

(* `publish`'s assembly: every .vr file at its place, used or not, and the *)
(* files of the generated crate.                                           *)
Assembled ==
  [p \in {q \in DOMAIN files : q[3] # "rs"} \cup Written |->
     IF p \in DOMAIN files THEN files[p] ELSE [kind |-> "rust", decls |-> <<>>]]
=============================================================================
