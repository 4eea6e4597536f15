------------------------------ MODULE Toolchain ------------------------------
(***************************************************************************)
(* The developer's commands (cli.py: extract, validate, init, wrap,        *)
(* submit, bundle; source_bundle.py's build) over the files they share     *)
(* with the developer and with each other.  A command may be killed, or    *)
(* leave by an exception nothing catches, between any two of its steps.    *)
(***************************************************************************)
EXTENDS Template, Packing

CONSTANTS
    Procs,          \* processes, each of which runs a command at a time
    Templates,      \* documents the developer may save as the template
    NameLists,      \* tool names `extract` may be given
    Options,        \* its name, version and framework
    Projects,       \* trees of the agent's project
    Requirements,   \* sets of distributions requirements.txt may list
    Dists,          \* what each distribution brings: "script", "native"
    Zips,           \* uploads
    Mains,          \* values of --main
    MaxCommands, MaxSaves, MaxStops   \* bounds

IsSeq(s) == s \in Seq(ToSet(s))

\* What is listed is a sequence; a file of a project is of the project, and its entry
\* point is Python; the directory of a distribution's metadata (name-version.dist-info)
\* is none of pip's directories of launchers and not __main__.py.
ASSUME ToolchainAssumption ==
    /\ \A d \in Templates : IsSeq(d.tools)
    /\ \A names \in NameLists : IsSeq(names)
    /\ \A t \in Projects : /\ \A x \in DOMAIN t : t[x] = File(t[x].kind, "app")
                           /\ Main \in DOMAIN t => t[Main].kind = "py"
    /\ \A r \in Requirements : \A d \in r : Dist(d)[1] \notin LauncherDirs \cup {Main[1]}
    /\ \A z \in Zips : IsSeq(z.entries) /\ \A e \in ToSet(z.entries) :
                           IsSeq(e.path) /\ e.dir \in BOOLEAN /\ e.size \in Nat

VARIABLES
    file,           \* the shared files
    project,        \* the agent's project directory
    proc,           \* what each process runs and where it is
    console,        \* the documents the console has stored
    settled,        \* history: outputs in place while no command was past its test of them
    commands, saves, stops

vars == <<file, project, proc, console, settled, commands, saves, stops>>

Commands == {"extract", "validate", "init", "wrap", "submit", "bundle", "source"}
Outputs  == {"tools", "config", "pyz", "source"}

Absent == [is |-> "absent"]
Torn   == [is |-> "torn"]
Whole(what) == [is |-> "whole", what |-> what]
Exists(f) == file[f] # Absent

Idle == [cmd |-> "none", at |-> "idle", force |-> FALSE, input |-> Absent, data |-> Absent, told |-> "none"]

-----------------------------------------------------------------------------
Init ==
    /\ file = [f \in Outputs \cup {"template"} |-> Absent]
    /\ project \in Projects
    /\ proc = [p \in Procs |-> Idle]
    /\ console = {}
    /\ settled = {}
    /\ commands = 0 /\ saves = 0 /\ stops = 0

At(p, c, at) == proc[p].cmd \in c /\ proc[p].at = at
Goto(p, at) == proc' = [proc EXCEPT ![p].at = at]
End(p, told) == proc' = [proc EXCEPT ![p].at = "done", ![p].told = told]
Put(f, content) == file' = [file EXCEPT ![f] = content]

\* main(): the command line.  The shell has opened extract's redirection before.
Inputs(c) ==
    CASE c = "extract" -> [names : NameLists, options : Options]
      [] c = "bundle"  -> [requirement : Requirements, main : Mains]
      [] c = "source"  -> [zip : Zips, main : Mains]
      [] OTHER         -> {Absent}

FirstStep(c) ==
    CASE c = "extract" -> "print" [] c = "bundle" -> "test" [] OTHER -> "read"

Start(p, c, force, input) ==
    /\ proc[p].at \in {"idle", "done", "stopped"}
    /\ commands < MaxCommands
    /\ force => c \in {"init", "wrap", "bundle"}
    /\ input \in Inputs(c)
    /\ commands' = commands + 1
    /\ proc' = [proc EXCEPT ![p] = [Idle EXCEPT !.cmd = c, !.at = FirstStep(c),
                                        !.force = force, !.input = input]]
    /\ file' = IF c = "extract" THEN [file EXCEPT !["template"] = Torn] ELSE file
    /\ UNCHANGED <<project, console>>

\* _cmd_extract; an extracted document that does not validate is called a bug.
Extract(p) ==
    LET in    == proc[p].input
        draft == Draft(in.names, <<"ns">>, in.options)
    IN  /\ At(p, {"extract"}, "print")
        /\ IF ExtractRefuses(in.names, <<"ns">>, in.options)
           THEN End(p, "refused") /\ UNCHANGED file
           ELSE IF ValidateV1(draft) # {}
           THEN End(p, "bug in the extractor") /\ UNCHANGED file
           ELSE End(p, "draft") /\ Put("template", Whole(draft))
        /\ UNCHANGED <<project, console, commands>>

\* _read and load_template: nothing there, or not all of it, does not parse.
Loads == file["template"].is = "whole" /\ ValidateV1(file["template"].what) = {}

ReadTemplate(p) ==
    /\ At(p, {"validate", "init", "wrap", "submit"}, "read")
    /\ IF Loads /\ (proc[p].cmd \in {"init", "wrap"} => CanGenerate(file["template"].what))
       THEN proc' = [proc EXCEPT
                ![p].data = file["template"],
                ![p].at = CASE @ = "read" /\ proc[p].cmd = "submit" -> "post"
                            [] proc[p].cmd = "validate" -> "done"
                            [] OTHER -> "test"]
       ELSE End(p, "refused")
    /\ UNCHANGED <<file, project, console, commands>>

\* _cmd_submit after the local check: the credentials for the org, then the POST.
\* The console, external, stores the document or refuses it; its answer may be lost.
Credentials == [url : {"none", "http", "localhost", "https"}, key : {"none", "hx", "other"}]

Usable(c) == c.url \notin {"none", "http"} /\ c.key = "hx"

SubmitRefused(p) ==
    /\ At(p, {"submit"}, "post")
    /\ \E c \in Credentials : ~Usable(c)
    /\ End(p, "refused")
    /\ UNCHANGED <<file, project, console, commands>>

Post(p) ==
    /\ At(p, {"submit"}, "post")
    /\ \E c \in Credentials : Usable(c)
    /\ \/ End(p, "refused") /\ UNCHANGED console
       \/ \E told \in {"submitted", "unreachable"} :
            End(p, told) /\ console' = console \cup {proc[p].data.what}
    /\ UNCHANGED <<file, project, commands>>

-----------------------------------------------------------------------------
(* Files written by init, wrap and bundle: the test for an existing file,  *)
(* then open() truncates it, then the write.                               *)

Target(p) == IF proc[p].cmd = "bundle" THEN "pyz" ELSE "tools"

Test(p) ==
    /\ At(p, {"init", "wrap", "bundle"}, "test")
    /\ IF Exists(Target(p)) /\ ~proc[p].force THEN End(p, "exists")
       ELSE Goto(p, IF proc[p].cmd = "bundle" THEN "stage" ELSE "open")
    /\ UNCHANGED <<file, project, console, commands>>

\* build_bundle up to the archive: nothing is written before the last check.
\* The clock is the number of commands begun: no two builds read the same.
BuildStage(p) ==
    LET in == proc[p].input
    IN  /\ At(p, {"bundle"}, "stage")
        /\ IF BundleRefuses(project, in.main, in.requirement, Dists, commands)
           THEN End(p, "refused")
           ELSE proc' = [proc EXCEPT ![p].at = "open", ![p].data =
                    Whole([project |-> project,
                           tree |-> Archive(project, in.main, in.requirement, Dists, commands)])]
        /\ UNCHANGED <<file, project, console, commands>>

OpenBeforeTest(p) ==   \* mutant: the output is opened before anything is built
    /\ At(p, {"init", "wrap", "bundle"}, "test")
    /\ Put(Target(p), Torn)
    /\ Goto(p, "write")
    /\ UNCHANGED <<project, console, commands>>

Open(p) ==
    /\ At(p, {"init", "wrap", "bundle"}, "open")
    /\ Put(Target(p), Torn)
    /\ Goto(p, "write")
    /\ UNCHANGED <<project, console, commands>>

Module(doc) == [classes |-> GenerateModule(doc), table |-> Table(doc)]

Write(p) ==
    /\ At(p, {"init", "wrap", "bundle"}, "write")
    /\ Put(Target(p), IF proc[p].cmd = "bundle" THEN proc[p].data
                      ELSE Whole(Module(proc[p].data.what)))
    /\ Goto(p, CASE proc[p].cmd = "init"   -> "testConfig"
                 [] proc[p].cmd = "bundle" -> "digest"
                 [] OTHER -> "done")
    /\ UNCHANGED <<project, console, commands>>

\* sha256_file reads the output again, whatever is there by now.
Digest(p) ==
    /\ At(p, {"bundle"}, "digest")
    /\ End(p, IF file["pyz"] = proc[p].data THEN "digest of its archive"
              ELSE IF Exists("pyz") THEN "digest of other bytes" ELSE "traceback")
    /\ UNCHANGED <<file, project, console, commands>>

TestConfigForced(p) ==   \* mutant: --force governs both files
    /\ At(p, {"init"}, "testConfig")
    /\ IF Exists("config") /\ ~proc[p].force THEN End(p, "kept") ELSE Goto(p, "openConfig")
    /\ UNCHANGED <<file, project, console, commands>>

\* The second half of _cmd_init: the config, written when absent and kept otherwise.
TestConfig(p) ==
    /\ At(p, {"init"}, "testConfig")
    /\ IF Exists("config") THEN End(p, "kept") ELSE Goto(p, "openConfig")
    /\ UNCHANGED <<file, project, console, commands>>

OpenConfig(p) ==
    /\ At(p, {"init"}, "openConfig")
    /\ Put("config", Torn)
    /\ Goto(p, "writeConfig")
    /\ UNCHANGED <<project, console, commands>>

WriteConfig(p) ==
    /\ At(p, {"init"}, "writeConfig")
    /\ Put("config", Whole([by |-> "init", entries |-> GenerateConfig(proc[p].data.what)]))
    /\ End(p, "wrote")
    /\ UNCHANGED <<project, console, commands>>

-----------------------------------------------------------------------------
(* build_source_bundle: the archive is made in memory, the output created  *)
(* exclusively, and removed again if it cannot be completed.               *)

ReadUpload(p) ==
    LET in == proc[p].input
    IN  /\ At(p, {"source"}, "read")
        /\ IF SourceRefuses(in.zip, in.main) THEN End(p, "refused")
           ELSE proc' = [proc EXCEPT ![p].at = "create",
                            ![p].data = Whole(SourceArchive(in.zip.entries, in.main))]
        /\ UNCHANGED <<file, project, console, commands>>

Create(p) ==
    /\ At(p, {"source"}, "create")
    /\ IF Exists("source") THEN End(p, "refused") /\ UNCHANGED file
       ELSE Put("source", Torn) /\ Goto(p, "fill")
    /\ UNCHANGED <<project, console, commands>>

Fill(p) ==
    /\ At(p, {"source"}, "fill")
    /\ Put("source", proc[p].data)
    /\ End(p, "digest of its archive")
    /\ UNCHANGED <<project, console, commands>>

FillFails(p) ==
    /\ At(p, {"source"}, "fill")
    /\ Put("source", Absent)
    /\ End(p, "refused")
    /\ UNCHANGED <<project, console, commands>>

-----------------------------------------------------------------------------
Running(p) == proc[p].at \notin {"idle", "done", "stopped"}

\* The process is killed, the disk is full, a reply is not JSON: no handler.
Stop(p) ==
    /\ Running(p)
    /\ stops < MaxStops
    /\ stops' = stops + 1
    /\ Goto(p, "stopped")
    /\ UNCHANGED <<file, project, console, commands>>

Command(p) ==
    \/ \E c \in Commands, force \in BOOLEAN : \E input \in Inputs(c) : Start(p, c, force, input)
    \/ Extract(p) \/ ReadTemplate(p) \/ SubmitRefused(p) \/ Post(p)
    \/ Test(p) \/ BuildStage(p) \/ Open(p) \/ Write(p) \/ Digest(p)
    \/ TestConfig(p) \/ OpenConfig(p) \/ WriteConfig(p)
    \/ ReadUpload(p) \/ Create(p) \/ Fill(p) \/ FillFails(p)

\* The developer saves a template, fills in the config, changes the project, or
\* removes an output to have it made anew.
SaveTemplate == \E d \in Templates : Put("template", Whole(d)) /\ UNCHANGED project
SaveConfig ==
    /\ file["config"].is = "whole"
    /\ Put("config", [file["config"] EXCEPT !.what.by = "developer"])
    /\ UNCHANGED project
SaveProject == \E t \in Projects \ {project} : project' = t /\ UNCHANGED file
Discard == \E f \in {g \in settled : Exists(g)} : Put(f, Absent) /\ UNCHANGED project

Developer ==
    /\ saves < MaxSaves
    /\ saves' = saves + 1
    /\ SaveTemplate \/ SaveConfig \/ SaveProject \/ Discard
    /\ UNCHANGED <<proc, console, commands, stops>>

\* A command past its test of output f will write it whatever is there.
Past(p, f) ==
    CASE f = "tools"  -> At(p, {"init", "wrap"}, "open") \/ At(p, {"init", "wrap"}, "write")
      [] f = "pyz"    -> At(p, {"bundle"}, "stage") \/ At(p, {"bundle"}, "open")
                         \/ At(p, {"bundle"}, "write")
      [] f = "config" -> At(p, {"init"}, "openConfig") \/ At(p, {"init"}, "writeConfig")
      [] f = "source" -> At(p, {"source"}, "fill")

InPlace == {f \in Outputs : Exists(f) /\ \A p \in Procs : ~Past(p, f)}
Settle == settled' = InPlace' \cup {f \in settled : (Exists(f))'}

Next ==
    /\ \/ \E p \in Procs : Command(p) /\ UNCHANGED <<saves, stops>>
       \/ \E p \in Procs : Stop(p) /\ UNCHANGED saves
       \/ Developer
    /\ Settle

Spec == Init /\ [][Next]_vars

-----------------------------------------------------------------------------
(* Type.                                                                   *)

\* Every process is at a step of its command; an output is absent, torn or whole.
Steps == {"idle", "print", "read", "test", "stage", "post", "open", "write", "digest",
          "testConfig", "openConfig", "writeConfig", "create", "fill", "done", "stopped"}
TypeOK ==
    /\ \A f \in Outputs \cup {"template"} : file[f].is \in {"absent", "torn", "whole"}
    /\ \A p \in Procs : /\ proc[p].cmd \in Commands \cup {"none"}
                        /\ proc[p].at \in Steps
                        /\ proc[p].force \in BOOLEAN
                        /\ Running(p) /\ proc[p].at \in {"open", "write", "post", "fill"}
                             => proc[p].data.is = "whole"
    /\ project \in Projects
    /\ settled \subseteq {f \in Outputs : Exists(f)}

-----------------------------------------------------------------------------
(* Properties.                                                             *)

\* What is in place is not overwritten behind the developer's back: a command changes
\* an output that was there while no command was between its test and its write only
\* under --force, and never the config or the output of a source build (cli.py:84-90,
\* 98-111; source_bundle.py:316).  This covers commands killed half-way and the clean-up
\* of one build finding the file of another.
EditsKept ==
    [][\A p \in Procs, f \in Outputs :
          proc'[p] # proc[p] /\ f \in settled /\ file'[f] # file[f]
              => f \in {"tools", "pyz"} /\ proc[p].force]_vars

\* A call made through the generated table carries the id it was asked for: no class of
\* a module on disk serves two ids (wrap.py:81-99).
OwnClass ==
    file["tools"].is = "whole" =>
        LET m == file["tools"].what
        IN  \A id \in DOMAIN m.table : m.classes[m.table[id]].id = id

\* No document the console has stored moves money unannounced: the last segment of an
\* id may be a privileged word only with the risk that says so and with both limits, and
\* a limit is one of a tool that the document declares (template.py, rules V11-V16).
MoneyGuarded ==
    \A doc \in console :
        /\ \A t \in ToSet(doc.tools) :
              /\ PrivilegedId(t.id) => t.risk = "move_money"
              /\ t.risk = "move_money" => {"max_", "ciba_"} \subseteq Ceilings(doc, t.id)
        /\ \A i, j \in DOMAIN doc.tools : doc.tools[i].id = doc.tools[j].id => i = j

\* Names alone never make an invalid draft: with a name and a version that are valid,
\* what extract prints is accepted by validate, and no tool of it holds a privileged
\* word anywhere (extract.py:136-202, 264-272).
DraftValid ==
    \A p \in Procs :
        LET in == proc[p].input
        IN  proc[p].cmd = "extract" /\ proc[p].at = "done" /\ in.options.name = "ok"
                /\ in.options.version = "ok"
            => /\ proc[p].told \in {"draft", "refused"}
               /\ proc[p].told = "draft" =>
                     \A t \in ToSet(Extracted(in.names, <<"ns">>)) :
                         \A k \in 2 .. Len(t.id) : ToSet(t.id[k]) \cap Privileged = {}

\* The archive of a bundle has one entry point, no extension module, nothing that pip
\* generated to be run from a directory, and every file of the project but those under
\* a top-level name that a distribution brings as well (bundle.py:182-266). Two builds
\* that saw the same project and requirements made the same archive, whenever they ran.
\* A project with a file of its own under the name of a generated launcher is the
\* exception to both (bundle.py:32-41).
Staging(p) == proc[p].cmd = "bundle" /\ proc[p].data.is = "whole"
OwnLauncher(p) == \E d \in proc[p].input.requirement : Launcher(d) \in DOMAIN proc[p].data.what.project
Shadowed(p, path) ==
    path[1] \in {x[1] : x \in DOMAIN Installed(proc[p].input.requirement, Dists, 0)}
SameInput(p, q) == /\ proc[p].input = proc[q].input
                   /\ proc[p].data.what.project = proc[q].data.what.project
ArchiveRight ==
    \A p \in Procs : Staging(p) =>
        LET tree == proc[p].data.what.tree
            app  == Stage(proc[p].data.what.project)
        IN  /\ Main \in DOMAIN tree
            /\ \A x \in DOMAIN tree : tree[x].kind # "native"
            /\ \A x \in DOMAIN app : ~Shadowed(p, x) => x \in DOMAIN tree /\ tree[x].from = "app"
            /\ ~OwnLauncher(p) =>
                 /\ \A x \in DOMAIN tree : tree[x].kind = "script" => tree[x].from = "app"
                 /\ \A q \in Procs : Staging(q) /\ SameInput(p, q) => tree = proc[q].data.what.tree

\* What the rules of an upload say, entry by entry and pair by pair: the paths are
\* distinct, no file is above another path, and every limit is kept.
TotalSize(entries) ==
    LET upTo[n \in 0 .. Len(entries)] == IF n = 0 THEN 0 ELSE upTo[n - 1] + Size(entries[n])
    IN  upTo[Len(entries)]
WellFormed(zip) ==
    LET n == Len(zip.entries)
        e == zip.entries
    IN  /\ zip.regular /\ zip.bounded /\ n <= MaxEntries
        /\ \A i \in 1 .. n : ~BadMember(e[i])
        /\ \A i, j \in 1 .. n : i # j =>
              ~ (IsPrefix(e[i].path, e[j].path) /\ (~e[i].dir \/ e[i].path = e[j].path))
        /\ TotalSize(e) <= MaxTotal

\* The loop over a ZIP accepts the uploads the rules say, in whatever order the entries
\* come (source_bundle.py:133-181); the build loses nothing of the upload and nothing of
\* the SDK, has one entry point, and every module it imports from outside the SDK is in
\* it or in the standard library (source_bundle.py:185-313).
UploadIntact ==
    \A p \in Procs : proc[p].cmd = "source" =>
        LET in   == proc[p].input
            tree == proc[p].data.what
        IN  /\ ReadSources(in.zip) = WellFormed(in.zip)
            /\ proc[p].data.is = "whole" =>
                 /\ \A x \in Paths(in.zip.entries) : tree[x].from = "app"
                 /\ \A f \in SdkFiles : tree[<<"hawcx_haap", f>>].from = "sdk"
                 /\ Main \in DOMAIN tree
                 /\ \A e \in Members(in.zip.entries) : \A i \in e.imports :
                       e.suffix = ".py" /\ i.top \notin Stdlib \cup {"hawcx_haap"} =>
                           \E x \in DOMAIN tree : x[1] \in {i.top, i.top \o ".py"}
=============================================================================
