---------------------------- MODULE SourceTree ----------------------------
(***************************************************************************)
(* What static_eval.py reads out of Python sources without importing them: *)
(* package layout, imports, classes, the inheritance index, and the        *)
(* ALL-CAPS constants along a directory's ancestry.                        *)
(*                                                                         *)
(* A path is the sequence of its names, a file's without ".py"; a dotted   *)
(* name is the sequence of its parts.  `tree` maps every file to its text, *)
(* [parses, body]: the body lists the statements in order, each with the   *)
(* class bodies (scope) and the other blocks it is nested in.  `pkgs` is   *)
(* the set of directories known to hold an __init__ file.                  *)
(***************************************************************************)
EXTENDS Integers, Sequences, FiniteSets, SequencesExt

IsFile(tree, path) == path \in DOMAIN tree
Up(dir, n) == SubSeq(dir, 1, n)     \* the ancestor of dir that has n names

-----------------------------------------------------------------------------
(* Packages and ancestry.                                                  *)

\* How many names of dir lie outside its chain of packages.
Outside(pkgs, dir) ==
  Min({n \in 0..Len(dir) : \A k \in (n + 1)..Len(dir) : Up(dir, k) \in pkgs})

\* _module_qualname
ModuleOf(pkgs, path) ==
  SubSeq(Front(path), Outside(pkgs, Front(path)) + 1, Len(path) - 1)
    \o (IF Last(path) = "__init__" THEN <<>> ELSE <<Last(path)>>)

\* _package_climb_step allows the step from dir to its parent.
Climbs(pkgs, dir) == dir # <<>> /\ {dir, Front(dir)} \subseteq pkgs

InstallDirs == {"site-packages", "dist-packages"}

\* get_package_root: of an installed file, its top-level package or module.
PackageRoot(pkgs, path) ==
  IF \E i \in 1..Len(path) : path[i] \in InstallDirs
  THEN Up(path, 1 + Min({i \in 1..Len(path) : path[i] \in InstallDirs}))
  ELSE Up(path, Min({n \in 0..(Len(path) - 1) :
                       \A k \in (n + 1)..(Len(path) - 1) : Climbs(pkgs, Up(path, k))}))

\* _walk_ancestry: the directories from start up to the ceiling, or up to the
\* top of the packages where the ceiling is no ancestor.
Ancestry(pkgs, start, ceiling) ==
  LET Walked(n) == \A k \in (n + 1)..Len(start) : Up(start, k) # ceiling /\ Climbs(pkgs, Up(start, k))
      top == Min({n \in 0..Len(start) : Walked(n)})
  IN  [i \in 1..(Len(start) - top + 1) |-> Up(start, Len(start) - i + 1)]

-----------------------------------------------------------------------------
(* Constants.                                                              *)

\* _yield_constant_assignments: the module's own statements and those of its
\* `if __name__ == "__main__":` blocks.
Assignments(text, name) ==
  SelectSeq(text.body, LAMBDA s : s.kind = "assign" /\ s.name = name
                                    /\ s.scope = <<>> /\ s.blocks \subseteq {"main"})

ConfigFiles(dir) == <<Append(dir, "__main__"), Append(dir, "__init__")>>

\* A file that does not parse raises out of the search of constants.
Readable(tree, files) == \A f \in Range(files) : IsFile(tree, f) => tree[f].parses

\* __parse_and_grab_constants: the last value seen wins.
Grabbed(tree, files, name) ==
  LET seen == FlattenSeq([i \in 1..Len(files) |->
                IF IsFile(tree, files[i]) THEN Assignments(tree[files[i]], name) ELSE <<>>])
  IN  IF seen = <<>> THEN "absent" ELSE Last(seen).value

FlagIsSet(tree, dir, name) == Grabbed(tree, ConfigFiles(dir), name) = "True"

\* _collect_ancestry_config_files: farthest first; a ceiling off the walk is
\* farther than anything on it.
FarthestFirst_Nearest(levels) == levels
FarthestFirst(levels) == Reverse(levels)
ConfigSearch(levels, ceiling, skipping) ==
  LET far == FarthestFirst(levels)
      kept == SelectSeq(far, LAMBDA d : d = ceiling \/ d \notin skipping)
  IN  FlattenSeq([i \in 1..Len(kept) |-> ConfigFiles(kept[i])])
ConfigSearchFrom(levels, ceiling, skipping) ==
  (IF Last(levels) = ceiling THEN <<>> ELSE ConfigFiles(ceiling)) \o ConfigSearch(levels, ceiling, skipping)

-----------------------------------------------------------------------------
(* Parsing one file.                                                       *)

\* Conditional imports and classes count; a function's body is skipped.
Reached(s) == s.blocks \subseteq {"if", "try", "main"}

\* _resolve_from; `package` is the file's own module if it is an __init__.
FromTarget_OneTooFar(s, package) ==
  LET ascend == Min({s.level, Len(package)}) IN Up(package, Len(package) - ascend) \o s.of
FromTarget(s, package) ==
  LET ascend == Max({0, s.level - 1})
  IN  (IF s.level = 0 \/ ascend > Len(package) THEN <<>> ELSE Up(package, Len(package) - ascend)) \o s.of

\* The absolute dotted name an import statement binds s.as to.
Target(s, package) == CASE s.kind = "import" -> <<Head(s.of)>>
                        [] s.kind = "import_as" -> s.of
                        [] s.kind = "from" -> Append(FromTarget(s, package), s.name)

\* _collect_imports: a later binding of a name replaces an earlier one.
Imports(body, package) ==
  LET bound == SelectSeq(body, LAMBDA s : s.kind \in {"import", "import_as", "from"}
                                             /\ s.scope = <<>> /\ Reached(s))
  IN  [n \in {s.as : s \in Range(bound)} |->
         Target(bound[SelectLastInSeq(bound, LAMBDA s : s.as = n)], package)]

\* _collect_classes: nested classes too.
ClassesIn(body, module) ==
  {[qual |-> Append(module \o s.scope, s.name), name |-> s.name, bases |-> s.bases] :
     s \in {c \in Range(body) : c.kind = "class" /\ Reached(c)}}

\* The record of a file that cannot be read or parsed holds no class, nor
\* does that of a file without one.
NoRecord == [module |-> <<>>, imports |-> <<>>, classes |-> {}, top |-> {}]

\* _do_parse_file
Parsed(pkgs, path, text) ==
  LET module == ModuleOf(pkgs, path)
      package == IF Last(path) = "__init__" THEN module ELSE Front(module)
      classes == ClassesIn(text.body, module)
  IN  IF ~text.parses \/ classes = {} THEN NoRecord
      ELSE [module |-> module, imports |-> Imports(text.body, package), classes |-> classes,
            top |-> {c.name : c \in {d \in classes : Front(d.qual) = module}}]

\* _resolve_base.  The names of an import table have one part, so no longer
\* prefix of the base ever matches.
ResolveBase(dotted, record) ==
  IF Head(dotted) \in DOMAIN record.imports THEN record.imports[Head(dotted)] \o Tail(dotted)
  ELSE IF Head(dotted) \in record.top THEN record.module \o dotted
  ELSE dotted

\* _compute_edges
Edges(path, record) ==
  {[qual |-> c.qual, file |-> path, quals |-> {ResolveBase(b, record) : b \in c.bases},
    names |-> {Last(b) : b \in c.bases}] : c \in record.classes}

-----------------------------------------------------------------------------
(* The index.                                                              *)

\* _SubclassIndex.__add_children
ChildrenOf(index, parents) ==
  {e.qual : e \in {d \in index : \E p \in parents : p \in d.quals /\ p # d.qual}}

Seeds(index, q) ==
  {e.qual : e \in {d \in index : q.base \in d.quals
                                    \/ (q.fallback /\ Last(q.base) \in d.names)}} \ {q.base}

\* descendants: level by level, so that a class has its shallowest depth.
Descendants(index, q) ==
  LET deepest == Cardinality(index)
      found[n \in 0..deepest] ==
        IF n = 0 THEN {} ELSE IF n = 1 THEN Seeds(index, q)
        ELSE LET above == found[n - 1] IN above \cup ChildrenOf(index, above)
      Depth(qual) == Min({n \in 1..deepest : qual \in found[n]})
  IN  {[qual |-> e.qual, file |-> e.file, depth |-> Depth(e.qual)] :
         e \in {d \in index : d.qual \in found[deepest] /\ (q.unlimited \/ Depth(d.qual) <= q.limit)}}
=============================================================================
