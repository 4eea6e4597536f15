------------------------------- MODULE Packing -------------------------------
(***************************************************************************)
(* What goes into an agent's executable: the staging tree of `hawcx        *)
(* bundle` (bundle.py) and the members accepted from an uploaded ZIP       *)
(* (source_bundle.py).                                                     *)
(*                                                                         *)
(* A tree is a function from paths to files; a path is the sequence of its *)
(* segments.  A file is a record: its kind, where it comes from, a stamp   *)
(* for whatever the clock puts into its bytes, and for a RECORD the rows.  *)
(***************************************************************************)
EXTENDS Integers, Sequences, SequencesExt

Main == <<"__main__.py">>
LauncherDirs == {"bin", "Scripts"}

File(kind, from) == [kind |-> kind, from |-> from, stamp |-> 0, mtime |-> 0, rows |-> {}]

Without(tree, paths) == [p \in DOMAIN tree \ paths |-> tree[p]]
\* A tree with the files of another put over it.
Over(new, tree) ==
    [p \in DOMAIN new \cup DOMAIN tree |-> IF p \in DOMAIN new THEN new[p] ELSE tree[p]]

-----------------------------------------------------------------------------
(* build_bundle                                                            *)

\* copytree with _STAGE_IGNORE: caches, archives and virtual environments stay out.
Stage(project) == Without(project, {p \in DOMAIN project : project[p].kind \in {"cache", "pyz"}})

\* _write_entry_point
EntryRefused(staging, main) ==
    main = "malformed" \/ (main # "none" /\ Main \in DOMAIN staging)
WriteEntryPoint(staging, main) ==
    IF main = "none" THEN staging
    ELSE Over([p \in {Main} |-> [File("py", "--main") EXCEPT !.mtime = 1]], staging)

Dist(d) == <<d \o ".dist-info", "RECORD">>
Launcher(d) == <<"bin", d>>

\* pip install --target --upgrade, external: each distribution brings its module and
\* what `dists` says besides: a launcher whose bytes hold the time `now`, an extension
\* module.  Its RECORD has the hash of each (a launcher is named from RECORD's own
\* directory).  Whatever has the name of a top-level file or directory that pip
\* installs is replaced as a whole.
WheelPaths(d, brings) ==
    {<<d \o ".py">>, Dist(d)} \cup (IF "script" \in brings THEN {Launcher(d)} ELSE {})
                              \cup (IF "native" \in brings THEN {<<d, "ext.so">>} ELSE {})
Wheel(d, brings, now) ==
    LET Row(p, stamp, up) == [path |-> p, up |-> up, hash |-> stamp]
        rows == {Row(<<d \o ".py">>, 0, 0)} \cup
                (IF "script" \in brings THEN {Row(Launcher(d), now, 2)} ELSE {})
    IN  [p \in WheelPaths(d, brings) |->
            CASE p = <<d \o ".py">> -> [File("py", d) EXCEPT !.mtime = now]
              [] p = Dist(d)        -> [File("record", d) EXCEPT !.mtime = now, !.rows = rows]
              [] p = Launcher(d)    -> [File("script", d) EXCEPT !.stamp = now, !.mtime = now]
              [] OTHER              -> File("native", d)]

Installed(requirement, dists, now) ==
    LET wheel == [d \in requirement |-> Wheel(d, dists[d], now)]
    IN  [p \in UNION {DOMAIN wheel[d] : d \in requirement} |->
            wheel[CHOOSE d \in requirement : p \in DOMAIN wheel[d]][p]]

StageDependencies(staging, requirement, dists, now) ==
    LET new   == Installed(requirement, dists, now)
        items == {p[1] : p \in DOMAIN new}
    IN  Over(new, Without(staging, {p \in DOMAIN staging : p[1] \in items}))

\* The path a row of RECORD refers to: the climb out of .dist-info is dropped.
RecordRowTarget(row) == row.path

\* Mutant: the launchers go and the rows that hash them stay.
DropLaunchersOnly(staging, preExisting) ==
    Without(staging, {p \in DOMAIN staging : p[1] \in LauncherDirs /\ Len(p) > 1} \ preExisting)

\* _drop_generated_launchers: files of the launcher directories that were not there
\* before pip ran, and the rows that hash them.
DropGeneratedLaunchers(staging, preExisting) ==
    LET gone == {p \in DOMAIN staging : p[1] \in LauncherDirs /\ Len(p) > 1} \ preExisting
    IN  [p \in DOMAIN staging \ gone |->
            IF staging[p].kind # "record" THEN staging[p]
            ELSE [staging[p] EXCEPT !.rows = {r \in @ : RecordRowTarget(r) \notin gone}]]

RefuseNativeExtensions(staging) == \E p \in DOMAIN staging : staging[p].kind = "native"

NormalizeMtimes(staging) == [p \in DOMAIN staging |-> [staging[p] EXCEPT !.mtime = 0]]

\* The staged tree of one build, up to the native check.
Staged(project, main, requirement, dists, now) ==
    LET copied == WriteEntryPoint(Stage(project), main)
    IN  IF requirement = {} THEN copied
        ELSE DropGeneratedLaunchers(StageDependencies(copied, requirement, dists, now), DOMAIN copied)

\* Why build_bundle refuses: no entry point or two of them, a bundled extension module.
BundleRefuses(project, main, requirement, dists, now) ==
    \/ main = "none" /\ Main \notin DOMAIN project
    \/ EntryRefused(Stage(project), main)
    \/ RefuseNativeExtensions(Staged(project, main, requirement, dists, now))

Archive(project, main, requirement, dists, now) ==
    NormalizeMtimes(Staged(project, main, requirement, dists, now))

-----------------------------------------------------------------------------
(* build_source_bundle                                                     *)
(* An entry: its path (in one case: the rules compare paths without case), *)
(* whether it is a directory or a link, its suffix and size, the function  *)
(* it defines and the modules it imports.                                  *)

MaxEntries == 3      \* MAX_ENTRIES
MaxMember == 1       \* MAX_MEMBER_BYTES, in units that a small archive can exceed
MaxTotal  == 2       \* MAX_SOURCE_BYTES

SdkFiles == {"__init__.py", "agent.py", "ipc.py"}
Stdlib   == {"json"}
Reserved == Stdlib \cup {"hawcx_haap", "hawcx_haap.dist-info", "_hawcx_build.json"}

\* _member_name: the rules on one entry's path and on its kind.
BadName(e) == e.path = <<>> \/ ToSet(e.path) \cap {"", ".", ".."} # {} \/ Head(e.path) \in Reserved
BadMember(e) ==
    \/ BadName(e)
    \/ e.link
    \/ e.dir /\ e.size > 0
    \/ ~e.dir /\ e.suffix \notin {".py", ".txt"}
    \/ ~e.dir /\ e.size > MaxMember

\* The loop of _read_sources over the entries: `seen` remembers, by path without
\* case, whether it is a directory; then every path is looked up by its prefixes.
Size(e) == IF e.dir THEN 0 ELSE e.size
Visit(acc, e) ==
    LET total == acc.total + Size(e)
    IN  IF ~acc.ok \/ BadMember(e) \/ e.path \in DOMAIN acc.seen \/ total > MaxTotal
        THEN [acc EXCEPT !.ok = FALSE]
        ELSE [acc EXCEPT !.total = total, !.seen = Over([p \in {e.path} |-> e.dir], @)]
Loop(entries) ==
    LET after[n \in 0 .. Len(entries)] ==
            IF n = 0 THEN [ok |-> TRUE, seen |-> [p \in {} |-> TRUE], total |-> 0]
            ELSE Visit(after[n - 1], entries[n])
    IN  after[Len(entries)]
ParentIsFile(seen) ==   \* mutant: only the last step of a path is looked up
    \E p \in DOMAIN seen : Len(p) > 1 /\ Front(p) \in DOMAIN seen /\ ~seen[Front(p)]
FileAndDirectory(seen) ==
    \E p \in DOMAIN seen : \E i \in 1 .. Len(p) - 1 :
        SubSeq(p, 1, i) \in DOMAIN seen /\ ~seen[SubSeq(p, 1, i)]
ReadSources(zip) ==
    /\ zip.regular            \* a regular file, no symlink
    /\ zip.bounded            \* its size and its end record, read before any entry
    /\ Len(zip.entries) <= MaxEntries
    /\ Loop(zip.entries).ok
    /\ ~FileAndDirectory(Loop(zip.entries).seen)

Members(entries) == {e \in ToSet(entries) : ~e.dir}
Paths(entries) == {e.path : e \in Members(entries)}

\* _entrypoint: __main__.py, or --main naming a function of an uploaded module that
\* needs no argument, and never both.
Callable(entries, main) ==
    \E e \in Members(entries) : e.path = <<main \o ".py">> /\ e.function = "no_arguments"
Entrypoint(entries, main) ==
    IF main = "none" THEN Main \in Paths(entries)
    ELSE Main \notin Paths(entries) /\ Callable(entries, main)

\* _check_sources: every import is of the standard library, of an uploaded top-level
\* name, or of the SDK; a dotted import of the SDK must be a file that is packed.
Local(entries, top) == \E e \in Members(entries) : Head(e.path) \in {top, top \o ".py"}
ImportRefused(entries, i) ==
    \/ i.dotted /\ i.top = "hawcx_haap" /\ i.sub \o ".py" \notin SdkFiles
    \/ i.top \notin Stdlib \cup {"hawcx_haap"} /\ ~Local(entries, i.top)
CheckSources(entries) ==
    \A e \in Members(entries) : e.suffix = ".py" => \A i \in e.imports : ~ImportRefused(entries, i)

\* _runtime_sources and the build record, added to what was uploaded.
RuntimeSources == [p \in {<<"hawcx_haap", f>> : f \in SdkFiles} \cup
                         {<<"hawcx_haap.dist-info", "METADATA">>, <<"_hawcx_build.json">>} |->
                      File("py", "sdk")]

SourceRefuses(zip, main) ==
    ~ReadSources(zip) \/ ~Entrypoint(zip.entries, main) \/ ~CheckSources(zip.entries)

\* The archive: the runtime over the upload, with the entry point made from --main.
SourceArchive(entries, main) ==
    Over(RuntimeSources, [p \in Paths(entries) \cup {Main} |->
                             File("py", IF p = Main /\ main # "none" THEN "--main" ELSE "app")])
=============================================================================
