--------------------------- MODULE SubclassScan ---------------------------
(***************************************************************************)
(* Threads that search a source tree through static_eval.py's caches: the  *)
(* subclasses near a file (find_subclasses_local), the subclasses below a  *)
(* directory (find_subclasses), and a constant near a file                 *)
(* (parse_and_grab_constants).                                             *)
(*                                                                         *)
(* Seven _OnceCaches are one function here, from tagged keys to values.  A *)
(* computation consults caches of the layers below while it holds its own  *)
(* key's lock, so a thread owns a stack of keys.                           *)
(***************************************************************************)
EXTENDS SourceTree

CONSTANTS Threads,
          Projects,     \* the trees that may be on disk
          Requests,     \* the searches a thread may ask for
          MaxCalls,     \* bound on the searches of a thread between two resets
          MaxResets     \* bound on the rewrites of the tree

ASSUME ScanAssumption ==
  /\ MaxCalls \in Nat /\ MaxResets \in Nat
  /\ \A tree \in Projects : DOMAIN tree \subseteq Seq(STRING) \ {<<>>}
  /\ \A q \in Requests : /\ q.kind \in {"below", "local", "constant"}
                         /\ {q.caller, q.main} \subseteq Seq(STRING) \ {<<>>}

VARIABLES
  disk,       \* the source tree
  cache,      \* what the caches hold
  computed,   \* how often each key's value was computed since the last reset
  asked,      \* per thread: the search it runs
  stack,      \* per thread: the keys it computes, or waits for, innermost last
  answer,     \* per thread: the outcome of its last search
  calls,      \* per thread: searches begun since the last reset
  resets

vars == <<disk, cache, computed, asked, stack, answer, calls, resets>>

Layers == {"walk", "pkg", "record", "edges", "flag", "list", "index"}
Cached(key) == key \in DOMAIN cache
Packages == {k[2] : k \in {c \in DOMAIN cache : c[1] = "pkg" /\ cache[c]}}
Flagged(name) == {k[2] : k \in {c \in DOMAIN cache : c[1] = "flag" /\ c[3] = name /\ cache[c]}}

NoRequest == [kind |-> "none"]
NoAnswer == [kind |-> "none"]
Raised == [kind |-> "raised"]
Running(t) == asked[t].kind # "none"

-----------------------------------------------------------------------------
(* What a search consults, as far as the values seen so far tell.          *)

\* The climb through successive packages: each parent is asked for only when
\* everything below it is a package.
PackageProbes(dir) ==
  {<<"pkg", Up(dir, n)>> : n \in {m \in 0..Len(dir) : \A k \in (m + 1)..Len(dir) : Up(dir, k) \in Packages}}

\* get_entrypoint_root: the climb also ends at a directory that can be run,
\* unless its flag says to go on.
Boundary(dir) == IsFile(disk, Append(dir, "__main__")) /\ dir \notin Flagged("SKIP_ENTRYPOINT_MARKER")
EntryClimb(main) ==
  {n \in 0..Len(Front(main)) : \A k \in (n + 1)..Len(Front(main)) :
     Climbs(Packages, Up(main, k)) /\ ~Boundary(Up(main, k))}
EntryRoot(main) == Up(main, Min(EntryClimb(main)))
EntryProbes(main) ==
  LET FlagOf(dir) == <<"flag", dir, "SKIP_ENTRYPOINT_MARKER">>
      Runs(dir) == dir \in Packages /\ IsFile(disk, Append(dir, "__main__"))
      dirs == {Up(main, n) : n \in EntryClimb(main)}
  IN  {<<"pkg", d>> : d \in dirs} \cup {FlagOf(d) : d \in {e \in dirs : Runs(e)}}
        \cup {<<"pkg", Front(d)>> : d \in {e \in dirs : e # <<>> /\ e \in Packages
                                              /\ (Runs(e) => Cached(FlagOf(e)) /\ cache[FlagOf(e)])}}

Ceiling(q) == IF q.kind = "constant" THEN EntryRoot(q.main) ELSE PackageRoot(Packages, q.caller)
Levels(q) == Ancestry(Packages, Front(q.caller), Ceiling(q))
SkipFlag(q) == IF q.kind = "constant" THEN "SKIP_CONSTANT_SEARCH" ELSE "SKIP_SUBCLASS_SEARCH"
Skipping(q) == {d \in Range(Levels(q)) : d # Ceiling(q) /\ d \in Flagged(SkipFlag(q))}
Kept(q) == Range(Levels(q)) \ Skipping(q)
AllCached(keys) == keys \subseteq DOMAIN cache

\* _collect_ancestry_config_files: the flags of every level but the ceiling.
FlagProbes(q) == {<<"flag", d, SkipFlag(q)>> : d \in Range(Levels(q)) \ {Ceiling(q)}}

\* _collect_ancestry_files: level by level, the flag before the listing.
LevelProbes(q, d) ==
  IF d # Ceiling(q) /\ ~Cached(<<"flag", d, SkipFlag(q)>>) THEN {<<"flag", d, SkipFlag(q)>>}
  ELSE IF d \in Kept(q) THEN {<<"list", d>>} ELSE {}
OpenLevels(q) == {i \in DOMAIN Levels(q) : ~AllCached(LevelProbes(q, Levels(q)[i]))}

\* _iter_python_files: everything below the root.
Window(q) == IF q.kind = "below" THEN cache[<<"walk", q.root>>]
             ELSE UNION {cache[<<"list", d>>] : d \in Kept(q)}

\* The keys a search looks up next; none when it knows its answer.
RequestNeeds(q) ==
  CASE q.kind = "below" ->
         IF Cached(<<"walk", q.root>>) THEN {<<"index", Window(q)>>} ELSE {<<"walk", q.root>>}
    [] q.kind = "constant" ->
         IF ~AllCached(EntryProbes(q.main)) THEN EntryProbes(q.main)
         ELSE IF ~AllCached(PackageProbes(Front(q.caller))) THEN PackageProbes(Front(q.caller))
         ELSE FlagProbes(q)
    [] q.kind = "local" ->
         IF ~AllCached(PackageProbes(Front(q.caller))) THEN PackageProbes(Front(q.caller))
         ELSE IF OpenLevels(q) # {} THEN LevelProbes(q, Levels(q)[Min(OpenLevels(q))])
         ELSE {<<"index", Window(q)>>}

\* The keys the computation of a key looks up.
KeyNeeds(key) ==
  CASE key[1] = "index" -> {<<"edges", f>> : f \in key[2]}
    [] key[1] = "edges" -> {<<"record", key[2]>>}
    [] key[1] = "record" -> IF disk[key[2]].parses /\ \E s \in Range(disk[key[2]].body) : s.kind = "class"
                            THEN PackageProbes(Front(key[2])) ELSE {}
    [] OTHER -> {}

Needs(t) == IF stack[t] = <<>> THEN RequestNeeds(asked[t]) ELSE KeyNeeds(Last(stack[t]).key)
Missing(t) == {k \in Needs(t) : ~Cached(k)}

-----------------------------------------------------------------------------
(* The values.                                                             *)

Under(root, path) == IsPrefix(root, path)
IgnoredDirs == {".venv", "build", "site-packages"}

\* __scandir_walk, __scandir_direct: links to directories are not followed.
WalkOf(root) == {f \in DOMAIN disk : Under(root, Front(f))
                   /\ \A i \in (Len(root) + 1)..(Len(f) - 1) : f[i] \notin IgnoredDirs}
ListOf(dir) == {f \in DOMAIN disk : Front(f) = dir}

Value(key) ==
  CASE key[1] = "walk" -> WalkOf(key[2])
    [] key[1] = "list" -> ListOf(key[2])
    [] key[1] = "pkg" -> IsFile(disk, Append(key[2], "__init__"))
    [] key[1] = "flag" -> FlagIsSet(disk, key[2], key[3])
    [] key[1] = "record" -> Parsed(Packages, key[2], disk[key[2]])
    [] key[1] = "edges" -> Edges(key[2], cache[<<"record", key[2]>>])
    [] key[1] = "index" -> UNION {cache[<<"edges", f>>] : f \in key[2]}

\* The flag of a directory is read with ast.parse, whose SyntaxError leaves
\* the search; every other computation copes with a bad file.
Fails(key) == key[1] = "flag" /\ ~Readable(disk, ConfigFiles(key[2]))

Locality(q, file) == IF q.kind = "below" THEN 0
                     ELSE CHOOSE n \in 0..Len(file) : Levels(q)[n + 1] = Front(file)

\* find_subclasses, find_subclasses_local
Found(q) == {[qual |-> c.qual, depth |-> c.depth, locality |-> Locality(q, c.file)] :
               c \in Descendants(cache[<<"index", Window(q)>>], q)}

Searched(q) == ConfigSearchFrom(Levels(q), Ceiling(q), Skipping(q))
Outcome(q) ==
  CASE q.kind # "constant" -> [kind |-> "found", request |-> q, classes |-> Found(q)]
    [] q.kind = "constant" /\ ~Readable(disk, Searched(q)) -> Raised
    [] OTHER -> [kind |-> "grabbed", request |-> q, value |-> Grabbed(disk, Searched(q), q.name)]

-----------------------------------------------------------------------------
Init ==
  /\ disk \in Projects
  /\ cache = <<>> /\ computed = <<>>
  /\ asked = [t \in Threads |-> NoRequest]
  /\ stack = [t \in Threads |-> <<>>]
  /\ answer = [t \in Threads |-> NoAnswer]
  /\ calls = [t \in Threads |-> 0]
  /\ resets = 0

Call(t) ==
  /\ ~Running(t) /\ calls[t] < MaxCalls
  /\ \E q \in Requests : asked' = [asked EXCEPT ![t] = q]
  /\ calls' = [calls EXCEPT ![t] = @ + 1]
  /\ answer' = [answer EXCEPT ![t] = NoAnswer]
  /\ UNCHANGED <<disk, cache, computed, stack, resets>>

Holds(t, key) == \E i \in DOMAIN stack[t] : stack[t][i] = [key |-> key, at |-> "compute"]
Computing(t) == stack[t] # <<>> => Last(stack[t]).at = "compute"
Return(t) == stack' = [stack EXCEPT ![t] = Front(@)]

\* get_or_compute on a key that is not cached: the fast path fails.
LookUp(t) ==
  /\ Running(t) /\ Computing(t)
  /\ \E key \in Missing(t) : stack' = [stack EXCEPT ![t] = Append(@, [key |-> key, at |-> "lock"])]
  /\ UNCHANGED <<disk, cache, computed, asked, answer, calls, resets>>

\* With the key's lock: a prior holder may have just stored the value.
Recheck_None(key) == FALSE
Recheck(key) == Cached(key)
TakeLock(t) ==
  /\ ~Computing(t)
  /\ LET key == Last(stack[t]).key
     IN  /\ \A u \in Threads : ~Holds(u, key)
         /\ IF Recheck(key) THEN Return(t)
            ELSE stack' = [stack EXCEPT ![t] = Append(Front(@), [key |-> key, at |-> "compute"])]
  /\ UNCHANGED <<disk, cache, computed, asked, answer, calls, resets>>

Store(t) ==
  /\ stack[t] # <<>> /\ Computing(t) /\ Missing(t) = {}
  /\ LET key == Last(stack[t]).key
     IN  /\ ~Fails(key)
         /\ cache' = [k \in DOMAIN cache \cup {key} |-> IF k = key THEN Value(key) ELSE cache[k]]
         /\ computed' = [k \in DOMAIN computed \cup {key} |->
              IF k # key THEN computed[k] ELSE IF k \in DOMAIN computed THEN computed[k] + 1 ELSE 1]
  /\ Return(t)
  /\ UNCHANGED <<disk, asked, answer, calls, resets>>

\* An exception releases every lock on its way and leaves no value behind.
Unwound_KeepsLocks(t) == stack[t]
Unwound(t) == <<>>
Finish(t, outcome) ==
  /\ asked' = [asked EXCEPT ![t] = NoRequest]
  /\ stack' = [stack EXCEPT ![t] = Unwound(t)]
  /\ answer' = [answer EXCEPT ![t] = outcome]
  /\ UNCHANGED <<disk, cache, computed, calls, resets>>

Raise(t) ==
  /\ stack[t] # <<>> /\ Computing(t) /\ Missing(t) = {} /\ Fails(Last(stack[t]).key)
  /\ Finish(t, Raised)

Answer(t) ==
  /\ Running(t) /\ stack[t] = <<>> /\ Missing(t) = {}
  /\ Finish(t, Outcome(asked[t]))

\* The sources change, and reset_subclass_caches() follows before the next
\* search: it is not meant to race with live ones.
Forgotten == Layers
Reset ==
  /\ resets < MaxResets /\ \A t \in Threads : ~Running(t)
  /\ disk' \in Projects \ {disk}
  /\ cache' = [k \in {c \in DOMAIN cache : c[1] \notin Forgotten} |-> cache[k]]
  /\ computed' = <<>>
  /\ calls' = [t \in Threads |-> 0]
  /\ answer' = [t \in Threads |-> NoAnswer]
  /\ resets' = resets + 1
  /\ UNCHANGED <<asked, stack>>

Step(t) == LookUp(t) \/ TakeLock(t) \/ Store(t) \/ Raise(t) \/ Answer(t)
Next == Reset \/ \E t \in Threads : Call(t) \/ Step(t)

Spec == Init /\ [][Next]_vars

-----------------------------------------------------------------------------
(* Properties.                                                             *)

\* What Python makes of the sources on disk, without caches.
PackagesOnDisk == {Front(f) : f \in {g \in DOMAIN disk : Last(g) = "__init__"}}
ModuleOnDisk(f) == ModuleOf(PackagesOnDisk, f)
ClassesOnDisk(f) ==
  IF ~disk[f].parses THEN {}
  ELSE {s \in Range(disk[f].body) : s.kind = "class" /\ s.blocks \cap {"def"} = {}}
QualOnDisk(f, c) == ModuleOnDisk(f) \o Append(c.scope, c.name)

\* A relative import counts its dots from the file itself.
ImportedOnDisk(f, s) ==
  CASE s.kind = "import" -> <<Head(s.of)>>
    [] s.kind = "import_as" -> s.of
    [] s.kind = "from" ->
         LET top == Outside(PackagesOnDisk, Front(f))
         IN  Append((IF s.level = 0 THEN <<>> ELSE SubSeq(f, top + 1, Len(f) - s.level)) \o s.of, s.name)

\* The statements of a body that bind a name; Projects bind none twice.
ImportKinds == {"import", "import_as", "from"}
Binding(f, scope, name) ==
  {s \in Range(disk[f].body) :
     /\ s.scope = scope /\ "def" \notin s.blocks
     /\ (s.kind = "class" /\ s.name = name) \/ (s.kind \in ImportKinds /\ s.as = name)}
Meant(f, scope, dotted) ==
  LET s == CHOOSE b \in Binding(f, scope, Head(dotted)) : TRUE
  IN  IF s.kind = "class" THEN ModuleOnDisk(f) \o scope \o dotted ELSE ImportedOnDisk(f, s) \o Tail(dotted)

\* What the bindings of a module alone make of a base.
NamedOnDisk(f, dotted) == IF Binding(f, <<>>, Head(dotted)) = {} THEN dotted ELSE Meant(f, <<>>, dotted)

\* What a base is: its first name is looked up in the body that the class
\* statement is in, then in the module; and while the name leads to an import
\* statement of another module, that statement is followed.
Passed == {e \in UNION {{<<f, s>> : s \in Range(disk[f].body)} : f \in DOMAIN disk} :
             e[2].kind \in ImportKinds /\ e[2].scope = <<>> /\ "def" \notin e[2].blocks}
PassedAs(e) == Append(ModuleOnDisk(e[1]), e[2].as)
Followed(dotted) ==
  IF \A e \in Passed : ~IsPrefix(PassedAs(e), dotted) THEN dotted
  ELSE LET e == CHOOSE x \in Passed : IsPrefix(PassedAs(x), dotted)
       IN  ImportedOnDisk(e[1], e[2]) \o SubSeq(dotted, Len(PassedAs(e)) + 1, Len(dotted))
BaseOnDisk(f, c, dotted) ==
  LET hop[n \in 0..Cardinality(Passed)] ==
        IF n > 0 THEN Followed(hop[n - 1])
        ELSE IF Binding(f, c.scope, Head(dotted)) # {} THEN Meant(f, c.scope, dotted)
        ELSE NamedOnDisk(f, dotted)
  IN  hop[Cardinality(Passed)]

\* The chain of packages above a file, as directories.
Chain(f) == {Up(f, n) : n \in {m \in 0..(Len(f) - 1) :
               m = Len(f) - 1 \/ \A k \in m..(Len(f) - 1) : Up(f, k) \in PackagesOnDisk}}
Skips(dir, flag) == FlagIsSet(disk, dir, flag)
InWindow(q, f) ==
  IF q.kind = "below" THEN f \in WalkOf(q.root)
  ELSE Front(f) \in Chain(q.caller)
         /\ (Skips(Front(f), "SKIP_SUBCLASS_SEARCH") => \A d \in Chain(q.caller) : Len(Front(f)) <= Len(d))

\* The classes n steps of inheritance below the base, by the files in sight and
\* the bases that each class statement of theirs has.
ClassesInSight(q) == UNION {{<<f, c>> : c \in ClassesOnDisk(f)} : f \in {g \in DOMAIN disk : InWindow(q, g)}}
Below(q, bases) ==
  LET defs == DOMAIN bases
      Qual(d) == QualOnDisk(d[1], d[2])
      steps[n \in 1..Cardinality(defs)] ==
        IF n = 1 THEN {d \in defs : q.base \in bases[d] \/ (q.fallback /\ \E b \in d[2].bases : Last(b) = Last(q.base))}
        ELSE LET above == {Qual(e) : e \in steps[n - 1]} IN {d \in defs : bases[d] \cap above # {}}
      Far(d) == Min({n \in 1..Cardinality(defs) : d \in steps[n]})
  IN  {[qual |-> Qual(d), depth |-> Far(d),
        locality |-> IF q.kind = "below" THEN 0 ELSE Len(q.caller) - Len(d[1])] :
         d \in {e \in defs : (\E n \in 1..Cardinality(defs) : e \in steps[n])
                               /\ (q.unlimited \/ Far(e) <= q.limit)}}

\* A base that its module names directly, not through what another module
\* imports, nor as a name of the class body that it stands in.
Direct(f, c, b) == BaseOnDisk(f, c, b) = NamedOnDisk(f, b)

\* Whatever the threads shared and whichever trees came before, a search
\* finds the classes that derive from its base through bases named directly, in
\* the files it may see, each at its shortest distance.  A file that does not
\* parse only hides its own classes, unless it is asked for a flag
\* (_do_parse_file, reset_subclass_caches).
SearchIsRight == \A t \in Threads :
  /\ answer[t].kind = "found" =>
       LET q == answer[t].request
       IN  answer[t].classes = Below(q, [d \in ClassesInSight(q) |->
             {BaseOnDisk(d[1], d[2], b) : b \in {x \in d[2].bases : Direct(d[1], d[2], x)}}])
  /\ answer[t].kind = "raised" =>
       \E f \in DOMAIN disk : Last(f) \in {"__init__", "__main__"} /\ ~disk[f].parses

\* And so it does through every base: the search follows each class by its
\* qualified name because "in-tree subclasses always resolve their bases to a
\* known qualified name" (descendants), and the order in which it resolves one
\* "mirrors Python's own name lookup" (_resolve_base).
DescendantsFound == \A t \in Threads :
  answer[t].kind = "found" =>
    LET q == answer[t].request
    IN  answer[t].classes = Below(q, [d \in ClassesInSight(q) |->
          {BaseOnDisk(d[1], d[2], b) : b \in d[2].bases}])

\* No value is computed twice, however the threads meet (_OnceCache).
ComputedOnce == \A key \in DOMAIN computed : computed[key] = 1

\* A constant has the value of the nearest directory that defines it and does
\* not opt out, its __init__ before its __main__; the entry point's directory
\* never opts out and is asked last when it is no ancestor
\* (_collect_ancestry_config_files).
NearestConstantWins == \A t \in Threads : answer[t].kind = "grabbed" =>
  LET q == answer[t].request
      entry == EntryRoot(q.main)
      dirs == {d \in Chain(q.caller) : entry \in Chain(q.caller) => Len(d) >= Len(entry)}
      open == {d \in dirs : d = entry \/ ~Skips(d, "SKIP_CONSTANT_SEARCH")}
      Defines(d, file) == Grabbed(disk, <<Append(d, file)>>, q.name) # "absent"
      Said(d) == Grabbed(disk, <<Append(d, IF Defines(d, "__init__") THEN "__init__" ELSE "__main__")>>, q.name)
      near == {d \in open : Defines(d, "__init__") \/ Defines(d, "__main__")}
  IN  answer[t].value = IF near = {} THEN Said(entry)
                        ELSE Said(CHOOSE d \in near : \A e \in near : Len(e) <= Len(d))

\* Threads never all wait for keys that the others hold, those of a search
\* that raised included: locks are taken from the index down to the packages,
\* and no exception leaves one behind (get_or_compute).
SomeSearchMoves ==
  (\E t \in Threads : Running(t)) =>
    \E t \in Threads : Running(t) /\ (~Computing(t) => \A u \in Threads : ~Holds(u, Last(stack[t]).key))
=============================================================================
