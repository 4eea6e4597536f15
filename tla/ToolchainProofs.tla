-------------------------- MODULE ToolchainProofs --------------------------
(***************************************************************************)
(* Proofs about Toolchain: what the commands leave in the shared files,    *)
(* for any number of commands, saves and stops, and for any templates,     *)
(* names, projects, requirements and uploads.                              *)
(***************************************************************************)
EXTENDS Toolchain, FiniteSetTheorems, WellFoundedInduction, TLAPS

-----------------------------------------------------------------------------
(* The inductive invariant.                                                *)

Fields == {"cmd", "at", "force", "input", "data", "told"}

InStep(c, at) ==
    \/ c = "none" /\ at = "idle"
    \/ c # "none" /\ at \in {"done", "stopped"}
    \/ c = "extract" /\ at = "print"
    \/ c \in {"validate", "init", "wrap", "submit", "source"} /\ at = "read"
    \/ c \in {"init", "wrap", "bundle"} /\ at \in {"test", "open", "write"}
    \/ c = "submit" /\ at = "post"
    \/ c = "bundle" /\ at \in {"stage", "digest"}
    \/ c = "init" /\ at \in {"testConfig", "openConfig", "writeConfig"}
    \/ c = "source" /\ at \in {"create", "fill"}

\* A process is at a step of its command, which has the arguments of that command.
Typed(r) ==
    /\ DOMAIN r = Fields
    /\ r.cmd \in Commands \cup {"none"}
    /\ InStep(r.cmd, r.at)
    /\ r.force \in BOOLEAN
    /\ r.cmd # "none" => r.input \in Inputs(r.cmd)

Valid(doc) == IsSeq(doc.tools) /\ ValidateV1(doc) = {}

\* A command past its reading of the template holds a document that was valid then.
HoldsTemplate(r) ==
    /\ r.cmd \in {"init", "wrap"}
           /\ r.at \in {"test", "open", "write", "testConfig", "openConfig", "writeConfig"}
         => r.data = Whole(r.data.what) /\ Valid(r.data.what) /\ CanGenerate(r.data.what)
    /\ r.cmd = "submit" /\ r.at = "post"
         => r.data = Whole(r.data.what) /\ Valid(r.data.what)

\* What extract said of its names.
HoldsDraft(r) ==
    r.cmd = "extract" /\ r.at = "done" =>
        LET in == r.input
            draft == Draft(in.names, <<"ns">>, in.options)
        IN  IF ExtractRefuses(in.names, <<"ns">>, in.options) THEN r.told = "refused"
            ELSE IF ValidateV1(draft) # {} THEN r.told = "bug in the extractor"
            ELSE r.told = "draft"

Built(in, what) ==
    \E t \in Projects, now \in Nat :
        /\ ~BundleRefuses(t, in.main, in.requirement, Dists, now)
        /\ what = [project |-> t, tree |-> Archive(t, in.main, in.requirement, Dists, now)]

\* An archive in memory is the one its build made.
HoldsArchive(r) ==
    /\ r.cmd = "bundle" =>
         /\ r.data.is = "whole" => Built(r.input, r.data.what)
         /\ r.at \in {"open", "write", "digest"} => r.data = Whole(r.data.what)
    /\ r.cmd = "source" =>
         /\ r.data.is = "whole" =>
              /\ ~SourceRefuses(r.input.zip, r.input.main)
              /\ r.data.what = SourceArchive(r.input.zip.entries, r.input.main)
         /\ r.at \in {"create", "fill"} => r.data = Whole(r.data.what)

Holds(r) == Typed(r) /\ HoldsTemplate(r) /\ HoldsDraft(r) /\ HoldsArchive(r)

ProcInv == DOMAIN proc = Procs /\ \A p \in Procs : Holds(proc[p])

\* The template lists tools; a module on disk was generated from a document in which no
\* two ids share a class.
Generated(what) == \E doc : IsSeq(doc.tools) /\ CanGenerate(doc) /\ what = Module(doc)
Content(f, x) ==
    \/ x = Absent
    \/ x = Torn
    \/ /\ x = Whole(x.what)
       /\ f = "template" => IsSeq(x.what.tools)
       /\ f = "tools" => Generated(x.what)
FileInv ==
    /\ DOMAIN file = Outputs \cup {"template"}
    /\ \A f \in DOMAIN file : Content(f, file[f])

\* A command past its test of an output that was in place is one that --force let by.
PastInv ==
    /\ settled \subseteq {f \in Outputs : Exists(f)}
    /\ \A p \in Procs : \A f \in settled : Past(p, f) => f \in {"tools", "pyz"} /\ proc[p].force

ConsoleInv == \A doc \in console : Valid(doc)

ToolchainInv ==
    /\ ProcInv
    /\ FileInv
    /\ PastInv
    /\ ConsoleInv
    /\ project \in Projects
    /\ commands \in Nat

-----------------------------------------------------------------------------
LEMMA ToolchainInit == Init => ToolchainInv
<1> SUFFICES ASSUME Init PROVE ToolchainInv
  OBVIOUS
<1>1. Holds(Idle)
  BY DEF Holds, Typed, HoldsTemplate, HoldsDraft, HoldsArchive, Idle, Fields, InStep
<1>2. ProcInv
  BY <1>1 DEF Init, ProcInv
<1>3. FileInv
  BY DEF Init, FileInv, Content
<1> QED BY <1>2, <1>3 DEF Init, ToolchainInv, PastInv, ConsoleInv

-----------------------------------------------------------------------------
(* One process moves.                                                      *)

Elsewhere(p) == DOMAIN proc' = Procs /\ \A q \in Procs \ {p} : proc'[q] = proc[q]

Keeps(r, s) ==
    DOMAIN s = Fields /\ s.cmd = r.cmd /\ s.force = r.force /\ s.input = r.input

LEMMA GotoMoves ==
    ASSUME ProcInv, NEW p \in Procs, NEW at, Goto(p, at)
    PROVE  /\ Elsewhere(p)
           /\ Keeps(proc[p], proc'[p])
           /\ proc'[p].at = at /\ proc'[p].data = proc[p].data /\ proc'[p].told = proc[p].told
<1>1. DOMAIN proc = Procs /\ DOMAIN proc[p] = Fields
  BY DEF ProcInv, Holds, Typed
<1>2. proc' = [proc EXCEPT ![p] = [proc[p] EXCEPT !.at = at]]
  BY <1>1 DEF Goto
<1> QED BY <1>1, <1>2 DEF Elsewhere, Keeps, Fields

LEMMA EndMoves ==
    ASSUME ProcInv, NEW p \in Procs, NEW told, End(p, told)
    PROVE  /\ Elsewhere(p)
           /\ Keeps(proc[p], proc'[p])
           /\ proc'[p].at = "done" /\ proc'[p].data = proc[p].data /\ proc'[p].told = told
<1>1. DOMAIN proc = Procs /\ DOMAIN proc[p] = Fields
  BY DEF ProcInv, Holds, Typed
<1>2. proc' = [proc EXCEPT ![p] = [proc[p] EXCEPT !.at = "done", !.told = told]]
  BY <1>1 DEF End
<1> QED BY <1>1, <1>2 DEF Elsewhere, Keeps, Fields

LEMMA ProcStep ==
    ASSUME ProcInv, NEW p \in Procs, Elsewhere(p), Holds(proc'[p])
    PROVE  ProcInv'
<1>1. ASSUME NEW q \in Procs PROVE Holds(proc'[q])
  <2>1. CASE q = p
    BY <2>1
  <2>2. CASE q # p
    BY <2>2 DEF Elsewhere, ProcInv
  <2> QED BY <2>1, <2>2
<1> QED BY <1>1 DEF ProcInv, Elsewhere, Holds, Typed, HoldsTemplate, HoldsDraft, HoldsArchive

-----------------------------------------------------------------------------
(* What a step of a command does to the outputs.                           *)

\* It changes an output only past its test of it, or a source build where there is none.
WriteRule(p) ==
    \A f \in Outputs : file'[f] # file[f] => Past(p, f) \/ (f = "source" /\ ~Exists(f))

\* It comes past its test of an output when that is not there, or under --force.
PastRule(p) ==
    \A f \in Outputs : Past(p, f)' =>
        \/ Past(p, f) /\ proc'[p].force = proc[p].force
        \/ ~Exists(f)
        \/ f \in {"tools", "pyz"} /\ proc'[p].force

StepRule(p) ==
    /\ Elsewhere(p) /\ Holds(proc'[p])
    /\ WriteRule(p) /\ PastRule(p)
    /\ FileInv' /\ ConsoleInv' /\ project' \in Projects /\ commands' \in Nat

LEMMA PutKeeps ==
    ASSUME FileInv, NEW f \in Outputs \cup {"template"}, NEW x, Put(f, x), Content(f, x)
    PROVE  FileInv' /\ \A g \in Outputs : file'[g] # file[g] => g = f
<1>1. DOMAIN file' = Outputs \cup {"template"} /\ file'[f] = x
       /\ \A g \in DOMAIN file : g # f => file'[g] = file[g]
  BY DEF FileInv, Put
<1>2. ASSUME NEW g \in DOMAIN file' PROVE Content(g, file'[g])
  BY <1>1, <1>2 DEF FileInv
<1>3. FileInv'
  BY <1>1, <1>2 DEF FileInv, Content
<1> QED BY <1>1, <1>3 DEF FileInv

LEMMA SameFiles ==
    ASSUME FileInv, UNCHANGED file
    PROVE  FileInv' /\ \A g \in Outputs : file'[g] = file[g]
BY DEF FileInv, Content

LEMMA ConsoleSame == ConsoleInv /\ UNCHANGED console => ConsoleInv'
BY DEF ConsoleInv

\* Nobody past a test: nothing to show of PastRule.
LEMMA NotPast ==
    ASSUME NEW p \in Procs,
           proc'[p].at \notin {"stage", "open", "write", "openConfig", "writeConfig", "fill"}
    PROVE  PastRule(p)
BY DEF PastRule, Past, At, Outputs

LEMMA StartStep ==
    ASSUME ToolchainInv, NEW p \in Procs, NEW c \in Commands, NEW force \in BOOLEAN,
           NEW input \in Inputs(c), Start(p, c, force, input)
    PROVE  StepRule(p)
<1> DEFINE new == [Idle EXCEPT !.cmd = c, !.at = FirstStep(c), !.force = force, !.input = input]
<1>1. DOMAIN proc = Procs /\ proc' = [proc EXCEPT ![p] = new]
  BY DEF Start, ToolchainInv, ProcInv
<1>2. /\ DOMAIN new = Fields /\ new.cmd = c /\ new.at = FirstStep(c) /\ new.force = force
      /\ new.input = input /\ new.data = Absent
  BY DEF Idle, Fields
<1> HIDE DEF new
<1>3. Elsewhere(p) /\ proc'[p] = new
  BY <1>1 DEF Elsewhere
<1>4. InStep(c, FirstStep(c)) /\ FirstStep(c) \in {"print", "test", "read"}
  BY DEF InStep, FirstStep, Commands
<1>4a. FirstStep(c) = "test" => c = "bundle"
  BY DEF FirstStep, Commands
<1>5. Holds(proc'[p])
  <2>1. Typed(new)
    BY <1>2, <1>4 DEF Typed
  <2>2. HoldsTemplate(new)
    BY <1>2, <1>4, <1>4a DEF HoldsTemplate
  <2>3. HoldsDraft(new)
    BY <1>2, <1>4 DEF HoldsDraft
  <2>4. HoldsArchive(new)
    BY <1>2, <1>4 DEF HoldsArchive, Absent
  <2> QED BY <1>3, <2>1, <2>2, <2>3, <2>4 DEF Holds
<1>6. PastRule(p)
  BY <1>2, <1>3, <1>4, NotPast
<1>7. FileInv' /\ \A f \in Outputs : file'[f] = file[f]
  <2>1. CASE c = "extract"
    <3>1. Put("template", Torn)
      BY <2>1 DEF Start, Put
    <3> QED BY <3>1, PutKeeps DEF ToolchainInv, Content, Outputs
  <2>2. CASE c # "extract"
    BY <2>2, SameFiles DEF Start, ToolchainInv
  <2> QED BY <2>1, <2>2
<1>8. ConsoleInv' /\ project' \in Projects /\ commands' \in Nat
  BY ConsoleSame DEF Start, ToolchainInv
<1> QED BY <1>3, <1>5, <1>6, <1>7, <1>8 DEF StepRule, WriteRule

LEMMA ExtractStep ==
    ASSUME ToolchainInv, NEW p \in Procs, Extract(p),
           IsSeq(Extracted(proc[p].input.names, <<"ns">>))
    PROVE  StepRule(p)
<1> DEFINE in    == proc[p].input
           draft == Draft(in.names, <<"ns">>, in.options)
           told  == IF ExtractRefuses(in.names, <<"ns">>, in.options) THEN "refused"
                    ELSE IF ValidateV1(draft) # {} THEN "bug in the extractor" ELSE "draft"
<1>1. draft.tools = Extracted(in.names, <<"ns">>)
  BY DEF Draft
<1>2. /\ proc[p].cmd = "extract" /\ proc[p].at = "print"
      /\ End(p, told) /\ UNCHANGED <<project, console, commands>>
      /\ UNCHANGED file \/ Put("template", Whole(draft))
  BY DEF Extract, At
<1>3. /\ Elsewhere(p) /\ Keeps(proc[p], proc'[p])
      /\ proc'[p].at = "done" /\ proc'[p].told = told
  BY <1>2, EndMoves DEF ToolchainInv
<1>4. Typed(proc'[p]) /\ HoldsTemplate(proc'[p]) /\ HoldsArchive(proc'[p])
  BY <1>2, <1>3 DEF ToolchainInv, ProcInv, Holds, Typed, HoldsTemplate, HoldsArchive, Keeps, InStep
<1>5. HoldsDraft(proc'[p])
  BY <1>2, <1>3 DEF HoldsDraft, Keeps
<1>6. FileInv' /\ \A f \in Outputs : file'[f] = file[f]
  <2>1. CASE UNCHANGED file
    BY <2>1, SameFiles DEF ToolchainInv
  <2>2. CASE Put("template", Whole(draft))
    <3> HIDE DEF draft
    <3>1. Whole(draft).what = draft
      BY DEF Whole
    <3>2. IsSeq(draft.tools)
      BY <1>1
    <3>3. Content("template", Whole(draft))
      BY <3>1, <3>2 DEF Content
    <3> QED BY <2>2, <3>3, PutKeeps DEF ToolchainInv, Outputs
  <2> QED BY <1>2, <2>1, <2>2
<1>7. PastRule(p)
  BY <1>3, NotPast
<1> QED BY <1>2, <1>3, <1>4, <1>5, <1>6, <1>7, ConsoleSame DEF StepRule, WriteRule, Holds, ToolchainInv

LEMMA ReadTemplateStep ==
    ASSUME ToolchainInv, NEW p \in Procs, ReadTemplate(p)
    PROVE  StepRule(p)
<1>1. /\ proc[p].cmd \in {"validate", "init", "wrap", "submit"} /\ proc[p].at = "read"
      /\ UNCHANGED <<file, project, console, commands>>
  BY DEF ReadTemplate, At
<1> DEFINE reads == Loads /\ (proc[p].cmd \in {"init", "wrap"} => CanGenerate(file["template"].what))
           at == CASE proc[p].cmd = "submit" -> "post" [] proc[p].cmd = "validate" -> "done"
                   [] OTHER -> "test"
<1>2. CASE reads
  <2>1. DOMAIN proc = Procs /\ DOMAIN proc[p] = Fields
    BY DEF ToolchainInv, ProcInv, Holds, Typed
  <2>2. proc' = [proc EXCEPT ![p] = [proc[p] EXCEPT !.data = file["template"], !.at = at]]
    BY <1>1, <1>2, <2>1 DEF ReadTemplate, Fields
  <2>3. /\ Elsewhere(p) /\ Keeps(proc[p], proc'[p])
        /\ proc'[p].at = at /\ proc'[p].data = file["template"]
    <3> HIDE DEF at, reads
    <3> QED BY <2>1, <2>2 DEF Elsewhere, Keeps, Fields
  <2>4. file["template"] = Whole(file["template"].what) /\ Valid(file["template"].what)
    BY <1>2 DEF ToolchainInv, FileInv, Content, Loads, Valid, Outputs, Absent, Torn
  <2>5. at \in {"post", "done", "test"} /\ (at = "post" <=> proc[p].cmd = "submit")
        /\ (at = "done" <=> proc[p].cmd = "validate")
    OBVIOUS
  <2>6. Typed(proc'[p])
    BY <1>1, <2>3, <2>5 DEF ToolchainInv, ProcInv, Holds, Typed, Keeps, InStep
  <2>7. HoldsTemplate(proc'[p])
    <3>1. proc[p].cmd \in {"init", "wrap"} => CanGenerate(file["template"].what)
      BY <1>2
    <3> HIDE DEF reads, at
    <3> QED BY <1>1, <2>3, <2>4, <2>5, <3>1 DEF HoldsTemplate, Keeps
  <2>8. HoldsDraft(proc'[p]) /\ HoldsArchive(proc'[p])
    BY <1>1, <2>3 DEF HoldsDraft, HoldsArchive, Keeps
  <2>9. PastRule(p)
    BY <2>3, <2>5, NotPast
  <2> QED BY <1>1, <2>3, <2>6, <2>7, <2>8, <2>9, ConsoleSame, SameFiles
          DEF StepRule, WriteRule, Holds, ToolchainInv
<1>3. CASE ~reads
  <2>1. /\ Elsewhere(p) /\ Keeps(proc[p], proc'[p]) /\ proc'[p].at = "done"
    BY <1>3, EndMoves DEF ToolchainInv, ReadTemplate
  <2>2. Holds(proc'[p])
    BY <1>1, <2>1 DEF ToolchainInv, ProcInv, Holds, Typed, HoldsTemplate, HoldsDraft,
                      HoldsArchive, Keeps, InStep
  <2> QED BY <1>1, <2>1, <2>2, NotPast, ConsoleSame, SameFiles DEF StepRule, WriteRule, ToolchainInv
<1> QED BY <1>2, <1>3

\* A command that ends.
LEMMA EndStep ==
    ASSUME ToolchainInv, NEW p \in Procs, NEW told, End(p, told),
           proc[p].cmd \notin {"extract", "none"}
    PROVE  Elsewhere(p) /\ Holds(proc'[p]) /\ PastRule(p)
<1>1. ProcInv
  BY DEF ToolchainInv
<1>2. /\ Elsewhere(p) /\ Keeps(proc[p], proc'[p]) /\ proc'[p].at = "done"
      /\ proc'[p].data = proc[p].data
  BY <1>1, EndMoves
<1>3. Typed(proc'[p]) /\ HoldsTemplate(proc'[p]) /\ HoldsDraft(proc'[p])
  BY <1>1, <1>2 DEF ProcInv, Holds, Typed, HoldsTemplate, HoldsDraft, Keeps, InStep
<1>4. HoldsArchive(proc'[p])
  BY <1>1, <1>2 DEF ProcInv, Holds, HoldsArchive, Keeps
<1> QED BY <1>2, <1>3, <1>4, NotPast DEF Holds

\* A command that goes on with what it holds.
LEMMA GotoStep ==
    ASSUME ToolchainInv, NEW p \in Procs, NEW at, Goto(p, at), Running(p),
           InStep(proc[p].cmd, at),
           proc[p].cmd = "extract" => at # "done",
           proc[p].cmd = "init" => proc[p].at # "read",
           proc[p].cmd \in {"bundle", "source"} /\
               at \in {"open", "write", "digest", "create", "fill"} =>
                   proc[p].at \in {"open", "write", "digest", "create", "fill"},
           proc[p].cmd = "wrap" => proc[p].at # "read",
           proc[p].cmd = "submit" => at # "post"
    PROVE  /\ Elsewhere(p) /\ Holds(proc'[p])
           /\ proc'[p].at = at /\ Keeps(proc[p], proc'[p])
<1>1. ProcInv
  BY DEF ToolchainInv
<1>2. /\ Elsewhere(p) /\ Keeps(proc[p], proc'[p]) /\ proc'[p].at = at
      /\ proc'[p].data = proc[p].data
  BY <1>1, GotoMoves
<1>3. Holds(proc[p])
  BY <1>1 DEF ProcInv
<1>4. Typed(proc'[p])
  BY <1>2, <1>3 DEF Holds, Typed, Keeps
<1>5. HoldsTemplate(proc'[p])
  BY <1>2, <1>3 DEF Holds, Typed, InStep, HoldsTemplate, Keeps, Running
<1>6. HoldsDraft(proc'[p])
  BY <1>2 DEF HoldsDraft, Keeps
<1>7. HoldsArchive(proc'[p])
  BY <1>2, <1>3 DEF Holds, Typed, InStep, HoldsArchive, Keeps
<1> QED BY <1>2, <1>4, <1>5, <1>6, <1>7 DEF Holds

LEMMA SubmitStep ==
    ASSUME ToolchainInv, NEW p \in Procs, SubmitRefused(p) \/ Post(p)
    PROVE  StepRule(p)
<1>1. /\ proc[p].cmd = "submit" /\ proc[p].at = "post"
      /\ \E told : End(p, told)
      /\ UNCHANGED <<file, project, commands>>
      /\ console' \in {console, console \cup {proc[p].data.what}}
  BY DEF SubmitRefused, Post, At
<1>2. Valid(proc[p].data.what)
  BY <1>1 DEF ToolchainInv, ProcInv, Holds, HoldsTemplate
<1>3. ConsoleInv'
  BY <1>1, <1>2 DEF ToolchainInv, ConsoleInv
<1> QED BY <1>1, <1>3, EndStep, SameFiles DEF StepRule, WriteRule, ToolchainInv

LEMMA TestStep ==
    ASSUME ToolchainInv, NEW p \in Procs, Test(p)
    PROVE  StepRule(p)
<1>1. /\ proc[p].cmd \in {"init", "wrap", "bundle"} /\ proc[p].at = "test"
      /\ UNCHANGED <<file, project, console, commands>>
  BY DEF Test, At
<1>2. CASE Exists(Target(p)) /\ ~proc[p].force
  BY <1>1, <1>2, EndStep, SameFiles, ConsoleSame DEF Test, StepRule, WriteRule, ToolchainInv
<1>3. CASE ~ (Exists(Target(p)) /\ ~proc[p].force)
  <2> DEFINE at == IF proc[p].cmd = "bundle" THEN "stage" ELSE "open"
  <2>1. Goto(p, at)
    BY <1>3 DEF Test
  <2>2. InStep(proc[p].cmd, at)
    BY <1>1 DEF InStep
  <2>3. /\ Elsewhere(p) /\ Holds(proc'[p])
        /\ proc'[p].at = at /\ Keeps(proc[p], proc'[p])
    BY <1>1, <2>1, <2>2, GotoStep DEF Running
  <2>4. PastRule(p)
    BY <1>1, <1>3, <2>3 DEF PastRule, Past, At, Keeps, Target, Outputs
  <2> QED BY <1>1, <2>3, <2>4, SameFiles, ConsoleSame DEF StepRule, WriteRule, ToolchainInv
<1> QED BY <1>2, <1>3

LEMMA BuildStageStep ==
    ASSUME ToolchainInv, NEW p \in Procs, BuildStage(p)
    PROVE  StepRule(p)
<1> DEFINE in == proc[p].input
           what == [project |-> project,
                    tree |-> Archive(project, in.main, in.requirement, Dists, commands)]
<1>1. /\ proc[p].cmd = "bundle" /\ proc[p].at = "stage"
      /\ UNCHANGED <<file, project, console, commands>>
  BY DEF BuildStage, At
<1>2. CASE BundleRefuses(project, in.main, in.requirement, Dists, commands)
  <2>1. End(p, "refused")
    BY <1>2 DEF BuildStage
  <2> QED BY <1>1, <2>1, EndStep, SameFiles, ConsoleSame DEF StepRule, WriteRule, ToolchainInv
<1>3. CASE ~BundleRefuses(project, in.main, in.requirement, Dists, commands)
  <2>1. Built(in, what)
    BY <1>3 DEF Built, ToolchainInv
  <2>2. DOMAIN proc = Procs /\ DOMAIN proc[p] = Fields /\ Holds(proc[p])
    BY DEF ToolchainInv, ProcInv, Holds, Typed
  <2>3. proc' = [proc EXCEPT ![p] = [proc[p] EXCEPT !.at = "open", !.data = Whole(what)]]
    BY <1>3, <2>2 DEF BuildStage
  <2> HIDE DEF what
  <2>4. /\ Elsewhere(p) /\ Keeps(proc[p], proc'[p])
        /\ proc'[p].at = "open" /\ proc'[p].data = Whole(what)
    BY <2>2, <2>3 DEF Elsewhere, Keeps, Fields
  <2>5. proc'[p].data.what = what
    BY <2>4 DEF Whole
  <2>6. Typed(proc'[p]) /\ HoldsTemplate(proc'[p]) /\ HoldsDraft(proc'[p])
    BY <1>1, <2>2, <2>4 DEF Holds, Typed, HoldsTemplate, HoldsDraft, Keeps, InStep
  <2>7. HoldsArchive(proc'[p])
    BY <1>1, <2>1, <2>4, <2>5 DEF HoldsArchive, Keeps
  <2>8. PastRule(p)
    BY <1>1, <2>4 DEF PastRule, Past, At, Keeps, Outputs
  <2> QED BY <1>1, <2>4, <2>6, <2>7, <2>8, SameFiles, ConsoleSame
          DEF Holds, StepRule, WriteRule, ToolchainInv
<1> QED BY <1>2, <1>3

LEMMA OpenStep ==
    ASSUME ToolchainInv, NEW p \in Procs, Open(p)
    PROVE  StepRule(p)
<1>1. /\ proc[p].cmd \in {"init", "wrap", "bundle"} /\ proc[p].at = "open"
      /\ Put(Target(p), Torn) /\ Goto(p, "write")
      /\ UNCHANGED <<project, console, commands>>
  BY DEF Open, At
<1>2. InStep(proc[p].cmd, "write")
  BY <1>1 DEF InStep
<1>3. /\ Elsewhere(p) /\ Holds(proc'[p])
      /\ proc'[p].at = "write" /\ Keeps(proc[p], proc'[p])
  BY <1>1, <1>2, GotoStep DEF Running
<1>4. FileInv' /\ \A g \in Outputs : file'[g] # file[g] => g = Target(p)
  BY <1>1, PutKeeps DEF ToolchainInv, Content, Target, Outputs
<1>5. PastRule(p)
  BY <1>1, <1>3 DEF PastRule, Past, At, Keeps, Outputs
<1>6. WriteRule(p)
  BY <1>1, <1>4 DEF WriteRule, Past, At, Target
<1> QED BY <1>1, <1>3, <1>4, <1>5, <1>6, ConsoleSame DEF StepRule, ToolchainInv

LEMMA WriteStep ==
    ASSUME ToolchainInv, NEW p \in Procs, Write(p)
    PROVE  StepRule(p)
<1> DEFINE x == IF proc[p].cmd = "bundle" THEN proc[p].data ELSE Whole(Module(proc[p].data.what))
           at == IF proc[p].cmd = "init" THEN "testConfig"
                 ELSE IF proc[p].cmd = "bundle" THEN "digest" ELSE "done"
<1>1. /\ proc[p].cmd \in {"init", "wrap", "bundle"} /\ proc[p].at = "write"
      /\ Put(Target(p), x) /\ Goto(p, at)
      /\ UNCHANGED <<project, console, commands>>
  BY DEF Write, At
<1>2. InStep(proc[p].cmd, at)
  BY <1>1 DEF InStep
<1>3. /\ Elsewhere(p) /\ Holds(proc'[p])
      /\ proc'[p].at = at /\ Keeps(proc[p], proc'[p])
  BY <1>1, <1>2, GotoStep DEF Running
<1>4. Content(Target(p), x)
  <2>1. Holds(proc[p])
    BY DEF ToolchainInv, ProcInv
  <2>2. CASE proc[p].cmd = "bundle"
    BY <1>1, <2>1, <2>2 DEF Holds, HoldsArchive, Content, Target
  <2>3. CASE proc[p].cmd # "bundle"
    <3>1. Valid(proc[p].data.what) /\ CanGenerate(proc[p].data.what)
      BY <1>1, <2>1, <2>3 DEF Holds, HoldsTemplate
    <3>2. x.what = Module(proc[p].data.what) /\ x = Whole(x.what)
      BY <2>3 DEF Whole
    <3>3. Generated(x.what)
      BY <3>1, <3>2 DEF Generated, Valid
    <3> HIDE DEF x
    <3> QED BY <2>3, <3>2, <3>3 DEF Content, Target
  <2> QED BY <2>2, <2>3
<1> HIDE DEF x
<1>5. FileInv' /\ \A g \in Outputs : file'[g] # file[g] => g = Target(p)
  BY <1>1, <1>4, PutKeeps DEF ToolchainInv, Target, Outputs
<1>6. PastRule(p)
  BY <1>1, <1>3, NotPast
<1>7. WriteRule(p)
  BY <1>1, <1>5 DEF WriteRule, Past, At, Target
<1> QED BY <1>1, <1>3, <1>5, <1>6, <1>7, ConsoleSame DEF StepRule, ToolchainInv

LEMMA DigestStep ==
    ASSUME ToolchainInv, NEW p \in Procs, Digest(p)
    PROVE  StepRule(p)
<1>1. /\ proc[p].cmd = "bundle" /\ \E told : End(p, told)
      /\ UNCHANGED <<file, project, console, commands>>
  BY DEF Digest, At
<1> QED BY <1>1, EndStep, SameFiles, ConsoleSame DEF StepRule, WriteRule, ToolchainInv

LEMMA ConfigStep ==
    ASSUME ToolchainInv, NEW p \in Procs, TestConfig(p) \/ OpenConfig(p) \/ WriteConfig(p)
    PROVE  StepRule(p)
<1>1. /\ proc[p].cmd = "init" /\ proc[p].at \in {"testConfig", "openConfig", "writeConfig"}
      /\ UNCHANGED <<project, console, commands>>
  BY DEF TestConfig, OpenConfig, WriteConfig, At
<1>2. ConsoleInv' /\ project' \in Projects /\ commands' \in Nat
  BY <1>1, ConsoleSame DEF ToolchainInv
<1>3. ASSUME NEW at \in {"openConfig", "writeConfig"}, Goto(p, at)
      PROVE  Elsewhere(p) /\ Holds(proc'[p]) /\ proc'[p].at = at /\ Keeps(proc[p], proc'[p])
  <2>1. InStep(proc[p].cmd, at)
    BY <1>1, <1>3 DEF InStep
  <2> QED BY <1>1, <1>3, <2>1, GotoStep DEF Running
<1>4. CASE TestConfig(p)
  <2>1. CASE Exists("config")
    BY <1>1, <1>2, <1>4, <2>1, EndStep, SameFiles DEF TestConfig, StepRule, WriteRule, ToolchainInv
  <2>2. CASE ~Exists("config")
    <3>1. /\ Elsewhere(p) /\ Holds(proc'[p]) /\ proc'[p].at = "openConfig"
          /\ Keeps(proc[p], proc'[p])
      BY <1>3, <1>4, <2>2 DEF TestConfig
    <3>2. PastRule(p)
      BY <1>1, <2>2, <3>1 DEF PastRule, Past, At, Keeps, Outputs
    <3> QED BY <1>2, <1>4, <3>1, <3>2, SameFiles DEF TestConfig, StepRule, WriteRule, ToolchainInv
  <2> QED BY <2>1, <2>2
<1>5. CASE OpenConfig(p)
  <2>1. proc[p].at = "openConfig" /\ Goto(p, "writeConfig") /\ Put("config", Torn)
    BY <1>5 DEF OpenConfig, At
  <2>2. /\ Elsewhere(p) /\ Holds(proc'[p]) /\ proc'[p].at = "writeConfig"
        /\ Keeps(proc[p], proc'[p])
    BY <1>3, <2>1
  <2>3. FileInv' /\ \A g \in Outputs : file'[g] # file[g] => g = "config"
    BY <2>1, PutKeeps DEF ToolchainInv, Content, Outputs
  <2>4. PastRule(p)
    BY <1>1, <2>1, <2>2 DEF PastRule, Past, At, Keeps, Outputs
  <2>5. WriteRule(p)
    BY <1>1, <2>1, <2>3 DEF WriteRule, Past, At
  <2> QED BY <1>2, <2>2, <2>3, <2>4, <2>5 DEF StepRule
<1>6. CASE WriteConfig(p)
  <2> DEFINE x == Whole([by |-> "init", entries |-> GenerateConfig(proc[p].data.what)])
  <2>1. proc[p].at = "writeConfig" /\ End(p, "wrote") /\ Put("config", x)
    BY <1>6 DEF WriteConfig, At
  <2>2. Content("config", x)
    BY DEF Content, Whole
  <2> HIDE DEF x
  <2>3. Elsewhere(p) /\ Holds(proc'[p]) /\ PastRule(p)
    BY <1>1, <2>1, EndStep
  <2>4. FileInv' /\ \A g \in Outputs : file'[g] # file[g] => g = "config"
    BY <2>1, <2>2, PutKeeps DEF ToolchainInv, Outputs
  <2>5. WriteRule(p)
    BY <1>1, <2>1, <2>4 DEF WriteRule, Past, At
  <2> QED BY <1>2, <2>3, <2>4, <2>5 DEF StepRule
<1> QED BY <1>4, <1>5, <1>6

LEMMA ReadUploadStep ==
    ASSUME ToolchainInv, NEW p \in Procs, ReadUpload(p)
    PROVE  StepRule(p)
<1> DEFINE in == proc[p].input
           what == SourceArchive(in.zip.entries, in.main)
<1>1. /\ proc[p].cmd = "source" /\ proc[p].at = "read"
      /\ UNCHANGED <<file, project, console, commands>>
  BY DEF ReadUpload, At
<1>2. CASE SourceRefuses(in.zip, in.main)
  <2>1. End(p, "refused")
    BY <1>2 DEF ReadUpload
  <2> QED BY <1>1, <2>1, EndStep, SameFiles, ConsoleSame DEF StepRule, WriteRule, ToolchainInv
<1>3. CASE ~SourceRefuses(in.zip, in.main)
  <2>1. DOMAIN proc = Procs /\ DOMAIN proc[p] = Fields /\ Holds(proc[p])
    BY DEF ToolchainInv, ProcInv, Holds, Typed
  <2>2. proc' = [proc EXCEPT ![p] = [proc[p] EXCEPT !.at = "create", !.data = Whole(what)]]
    BY <1>3, <2>1 DEF ReadUpload
  <2>3. /\ Elsewhere(p) /\ Keeps(proc[p], proc'[p])
        /\ proc'[p].at = "create" /\ proc'[p].data = Whole(what)
    <3> HIDE DEF what
    <3> QED BY <2>1, <2>2 DEF Elsewhere, Keeps, Fields
  <2>4. proc'[p].data.what = what
    BY <2>3 DEF Whole
  <2>5. Typed(proc'[p]) /\ HoldsTemplate(proc'[p]) /\ HoldsDraft(proc'[p])
    BY <1>1, <2>1, <2>3 DEF Holds, Typed, HoldsTemplate, HoldsDraft, Keeps, InStep
  <2>6. HoldsArchive(proc'[p])
    BY <1>1, <1>3, <2>3, <2>4 DEF HoldsArchive, Keeps
  <2>7. PastRule(p)
    BY <2>3, NotPast
  <2> QED BY <1>1, <2>3, <2>5, <2>6, <2>7, SameFiles, ConsoleSame
          DEF Holds, StepRule, WriteRule, ToolchainInv
<1> QED BY <1>2, <1>3

LEMMA CreateStep ==
    ASSUME ToolchainInv, NEW p \in Procs, Create(p)
    PROVE  StepRule(p)
<1>1. /\ proc[p].cmd = "source" /\ proc[p].at = "create"
      /\ UNCHANGED <<project, console, commands>>
  BY DEF Create, At
<1>2. CASE Exists("source")
  BY <1>1, <1>2, EndStep, SameFiles, ConsoleSame DEF Create, StepRule, WriteRule, ToolchainInv
<1>3. CASE ~Exists("source")
  <2>1. Put("source", Torn) /\ Goto(p, "fill")
    BY <1>3 DEF Create
  <2>2. InStep(proc[p].cmd, "fill")
    BY <1>1 DEF InStep
  <2>3. /\ Elsewhere(p) /\ Holds(proc'[p]) /\ proc'[p].at = "fill" /\ Keeps(proc[p], proc'[p])
    BY <1>1, <2>1, <2>2, GotoStep DEF Running
  <2>4. FileInv' /\ \A g \in Outputs : file'[g] # file[g] => g = "source"
    BY <2>1, PutKeeps DEF ToolchainInv, Content, Outputs
  <2>5. PastRule(p)
    BY <1>1, <1>3, <2>3 DEF PastRule, Past, At, Keeps, Outputs
  <2>6. WriteRule(p)
    BY <1>3, <2>4 DEF WriteRule
  <2> QED BY <1>1, <2>3, <2>4, <2>5, <2>6, ConsoleSame DEF StepRule, ToolchainInv
<1> QED BY <1>2, <1>3

LEMMA FillStep ==
    ASSUME ToolchainInv, NEW p \in Procs, Fill(p) \/ FillFails(p)
    PROVE  StepRule(p)
<1>1. /\ proc[p].cmd = "source" /\ proc[p].at = "fill"
      /\ \E told : End(p, told)
      /\ Put("source", proc[p].data) \/ Put("source", Absent)
      /\ UNCHANGED <<project, console, commands>>
  BY DEF Fill, FillFails, At
<1>2. Content("source", proc[p].data) /\ Content("source", Absent)
  BY <1>1 DEF ToolchainInv, ProcInv, Holds, HoldsArchive, Content
<1>3. FileInv' /\ \A g \in Outputs : file'[g] # file[g] => g = "source"
  BY <1>1, <1>2, PutKeeps DEF ToolchainInv, Outputs
<1>4. WriteRule(p)
  BY <1>1, <1>3 DEF WriteRule, Past, At
<1> QED BY <1>1, <1>3, <1>4, EndStep, ConsoleSame DEF StepRule, ToolchainInv

LEMMA StopStep ==
    ASSUME ToolchainInv, NEW p \in Procs, Stop(p)
    PROVE  StepRule(p)
<1>1. /\ Running(p) /\ Goto(p, "stopped")
      /\ UNCHANGED <<file, project, console, commands>>
  BY DEF Stop
<1>2. Holds(proc[p])
  BY DEF ToolchainInv, ProcInv
<1>3. InStep(proc[p].cmd, "stopped")
  BY <1>1, <1>2 DEF Holds, Typed, InStep, Running
<1>4. /\ Elsewhere(p) /\ Keeps(proc[p], proc'[p]) /\ proc'[p].at = "stopped"
      /\ proc'[p].data = proc[p].data
  BY <1>1, GotoMoves DEF ToolchainInv
<1>5. Typed(proc'[p]) /\ HoldsTemplate(proc'[p]) /\ HoldsDraft(proc'[p])
  BY <1>2, <1>3, <1>4 DEF Holds, Typed, HoldsTemplate, HoldsDraft, Keeps
<1>6. HoldsArchive(proc'[p])
  BY <1>2, <1>4 DEF Holds, HoldsArchive, Keeps
<1> QED BY <1>1, <1>4, <1>5, <1>6, NotPast, SameFiles, ConsoleSame
        DEF Holds, StepRule, WriteRule, ToolchainInv

-----------------------------------------------------------------------------
(* Sequences of tools.                                                     *)

LEMMA SeqFacts ==
    ASSUME NEW s, IsSeq(s)
    PROVE  /\ Len(s) \in Nat /\ DOMAIN s = 1 .. Len(s)
           /\ s \in [1 .. Len(s) -> ToSet(s)]
           /\ ToSet(s) = {s[i] : i \in 1 .. Len(s)}
<1> DEFINE T == ToSet(s)
<1>1. s \in Seq(T)
  BY DEF IsSeq
<1>2. T = {s[i] : i \in DOMAIN s}
  BY DEF ToSet
<1> HIDE DEF T
<1>3. Len(s) \in Nat /\ DOMAIN s = 1 .. Len(s) /\ s \in [1 .. Len(s) -> T]
  BY <1>1
<1> QED BY <1>2, <1>3 DEF T

LEMMA FunctionIsSeq ==
    ASSUME NEW n \in Nat, NEW s, s = [k \in 1 .. n |-> s[k]]
    PROVE  IsSeq(s) /\ Len(s) = n
<1> DEFINE T == ToSet(s)
<1>1. DOMAIN s = 1 .. n /\ T = {s[i] : i \in 1 .. n}
  BY DEF ToSet
<1> HIDE DEF T
<1>2. s \in [1 .. n -> T]
  BY <1>1
<1>3. s \in Seq(T) /\ Len(s) = n
  BY <1>2
<1> QED BY <1>3 DEF T, IsSeq

\* The names that extract keeps, by their place.
KeptPlaces(names) == {i \in DOMAIN names : Kept(names, i)}

LEMMA KeptFinite ==
    ASSUME NEW names, IsSeq(names)
    PROVE  /\ IsFiniteSet(KeptPlaces(names)) /\ Cardinality(KeptPlaces(names)) \in Nat
           /\ KeptPlaces(names) \subseteq 1 .. Len(names) /\ Len(names) \in Nat
<1>1. Len(names) \in Nat /\ KeptPlaces(names) \in SUBSET (1 .. Len(names))
  BY SeqFacts DEF KeptPlaces
<1>2. IsFiniteSet(1 .. Len(names))
  BY <1>1, FS_Interval
<1> QED BY <1>1, <1>2, FS_Subset, FS_CardinalityType

EntryFor(n, ns) ==
    [id |-> <<ns, n.words>>, actions |-> InferActions(n.words),
     risk |-> RiskForAction(InferActions(n.words))]

LEMMA ExtractedSeq ==
    ASSUME NEW names, IsSeq(names), NEW ns
    PROVE  LET tools == Extracted(names, ns)
               kept  == KeptPlaces(names)
           IN  /\ IsSeq(tools)
               /\ Len(tools) = Cardinality(kept)
               /\ \A k \in 1 .. Len(tools) : tools[k] = EntryFor(names[Nth(kept, k)], ns)
<1> DEFINE kept == KeptPlaces(names)
           tools == Extracted(names, ns)
           n == Cardinality(kept)
<1>1. n \in Nat
  BY KeptFinite
<1>2. tools = [k \in 1 .. n |-> EntryFor(names[Nth(kept, k)], ns)]
  BY DEF Extracted, KeptPlaces, EntryFor
<1> HIDE DEF tools, n, kept
<1>3. tools = [k \in 1 .. n |-> tools[k]]
  BY <1>2
<1>4. IsSeq(tools) /\ Len(tools) = n
  BY <1>1, <1>3, FunctionIsSeq
<1>5. \A k \in 1 .. n : tools[k] = EntryFor(names[Nth(kept, k)], ns)
  BY <1>2
<1> QED BY <1>4, <1>5 DEF tools, n, kept

-----------------------------------------------------------------------------
(* Every step.                                                             *)

LEMMA CommandStep ==
    ASSUME ToolchainInv, NEW p \in Procs, Command(p)
    PROVE  StepRule(p)
<1>1. CASE \E c \in Commands, force \in BOOLEAN : \E input \in Inputs(c) : Start(p, c, force, input)
  BY <1>1, StartStep
<1>2. CASE Extract(p)
  <2>1. proc[p].cmd = "extract" /\ proc[p].input \in Inputs(proc[p].cmd)
    BY <1>2 DEF Extract, At, ToolchainInv, ProcInv, Holds, Typed
  <2>2. proc[p].input \in [names : NameLists, options : Options]
    BY <2>1 DEF Inputs
  <2>3. IsSeq(proc[p].input.names)
    BY <2>2, ToolchainAssumption
  <2>4. IsSeq(Extracted(proc[p].input.names, <<"ns">>))
    BY <2>3, ExtractedSeq
  <2> QED BY <1>2, <2>4, ExtractStep
<1> QED BY <1>1, <1>2, ReadTemplateStep, SubmitStep, TestStep, BuildStageStep, OpenStep, WriteStep,
           DigestStep, ConfigStep, ReadUploadStep, CreateStep, FillStep DEF Command

\* Every step also settles the outputs that no command is past its test of.
LEMMA PastStep ==
    ASSUME ToolchainInv, NEW p \in Procs, StepRule(p), Settle
    PROVE  PastInv'
<1>1. settled' \subseteq {f \in Outputs : (Exists(f))'}
  BY DEF Settle, InPlace, ToolchainInv, PastInv
<1>2. ASSUME NEW q \in Procs, NEW f \in settled', Past(q, f)'
      PROVE  f \in {"tools", "pyz"} /\ proc'[q].force
  <2>1. f \in settled /\ f \in Outputs /\ Exists(f)
    BY <1>2 DEF Settle, InPlace, ToolchainInv, PastInv
  <2>2. CASE q = p
    BY <1>2, <2>1, <2>2 DEF StepRule, PastRule, ToolchainInv, PastInv
  <2>3. CASE q # p
    <3>1. proc'[q] = proc[q]
      BY <2>3 DEF StepRule, Elsewhere
    <3>2. Past(q, f)
      BY <1>2, <2>1, <3>1 DEF Past, At, Outputs
    <3> QED BY <2>1, <3>1, <3>2 DEF ToolchainInv, PastInv
  <2> QED BY <2>2, <2>3
<1>3. \A q \in Procs : \A f \in settled' : Past(q, f)' => f \in {"tools", "pyz"} /\ proc'[q].force
  BY <1>2
<1> QED BY <1>1, <1>3 DEF PastInv, Exists

LEMMA ProcSame == ProcInv /\ UNCHANGED proc => ProcInv'
<1> SUFFICES ASSUME ProcInv, UNCHANGED proc PROVE ProcInv'
  OBVIOUS
<1>1. ASSUME NEW p \in Procs PROVE (Holds(proc[p]))'
  <2>1. (Typed(proc[p]))'
    BY DEF ProcInv, Holds, Typed
  <2>2. (HoldsTemplate(proc[p]))'
    BY DEF ProcInv, Holds, HoldsTemplate
  <2>3. (HoldsDraft(proc[p]))'
    BY DEF ProcInv, Holds, HoldsDraft
  <2>4. (HoldsArchive(proc[p]))'
    BY DEF ProcInv, Holds, HoldsArchive
  <2> QED BY <2>1, <2>2, <2>3, <2>4 DEF Holds
<1> QED BY <1>1 DEF ProcInv

LEMMA DeveloperStep ==
    ASSUME ToolchainInv, Developer, Settle
    PROVE  ToolchainInv'
<1>1. UNCHANGED <<proc, console, commands>>
  BY DEF Developer
<1>2. ProcInv' /\ ConsoleInv' /\ commands' \in Nat
  <2>1. ProcInv'
    BY <1>1, ProcSame DEF ToolchainInv
  <2> QED BY <1>1, <2>1 DEF ToolchainInv, ConsoleInv
<1>3. FileInv' /\ project' \in Projects
  <2>1. CASE SaveTemplate
    <3>1. PICK d \in Templates : Put("template", Whole(d)) /\ UNCHANGED project
      BY <2>1 DEF SaveTemplate
    <3>2. Whole(d).what = d /\ IsSeq(d.tools)
      BY ToolchainAssumption DEF Whole
    <3>3. Content("template", Whole(d))
      BY <3>2 DEF Content
    <3> QED BY <3>1, <3>3, PutKeeps DEF ToolchainInv
  <2>2. CASE SaveConfig
    <3> DEFINE x == [file["config"] EXCEPT !.what.by = "developer"]
    <3>1. file["config"] = Whole(file["config"].what)
      BY <2>2 DEF SaveConfig, ToolchainInv, FileInv, Content, Outputs, Absent, Torn
    <3>2. x = Whole([file["config"].what EXCEPT !.by = "developer"])
      BY <3>1 DEF Whole
    <3>3. x.what = [file["config"].what EXCEPT !.by = "developer"]
      BY <3>2 DEF Whole
    <3>4. Content("config", x)
      BY <3>2, <3>3 DEF Content
    <3>5. Put("config", x) /\ UNCHANGED project
      BY <2>2 DEF SaveConfig
    <3> HIDE DEF x
    <3> QED BY <3>4, <3>5, PutKeeps DEF ToolchainInv, Outputs
  <2>3. CASE SaveProject
    BY <2>3, SameFiles DEF SaveProject, ToolchainInv
  <2>4. CASE Discard
    <3>1. PICK f \in settled : Put(f, Absent) /\ UNCHANGED project
      BY <2>4 DEF Discard
    <3>2. f \in Outputs
      BY <3>1 DEF ToolchainInv, PastInv
    <3> QED BY <3>1, <3>2, PutKeeps DEF ToolchainInv, Content
  <2> QED BY <2>1, <2>2, <2>3, <2>4 DEF Developer
<1>4. PastInv'
  <2>1. settled' \subseteq {f \in Outputs : (Exists(f))'}
    BY DEF Settle, InPlace, ToolchainInv, PastInv
  <2>2. ASSUME NEW q \in Procs, NEW f \in settled', Past(q, f)'
        PROVE  f \in {"tools", "pyz"} /\ proc'[q].force
    <3>1. f \in settled /\ f \in Outputs
      BY <2>2 DEF Settle, InPlace, ToolchainInv, PastInv
    <3>2. Past(q, f)
      BY <1>1, <2>2, <3>1 DEF Past, At, Outputs
    <3> QED BY <1>1, <3>1, <3>2 DEF ToolchainInv, PastInv
  <2>3. \A q \in Procs : \A f \in settled' : Past(q, f)' => f \in {"tools", "pyz"} /\ proc'[q].force
    BY <2>2
  <2> QED BY <2>1, <2>3 DEF PastInv, Exists
<1> QED BY <1>2, <1>3, <1>4 DEF ToolchainInv

LEMMA ToolchainStep == ToolchainInv /\ [Next]_vars => ToolchainInv'
<1> SUFFICES ASSUME ToolchainInv, [Next]_vars PROVE ToolchainInv'
  OBVIOUS
<1>1. ASSUME NEW p \in Procs, Command(p) \/ Stop(p), Settle PROVE ToolchainInv'
  <2>1. StepRule(p)
    BY <1>1, CommandStep, StopStep
  <2>2. ProcInv'
    BY <2>1, ProcStep DEF StepRule, ToolchainInv
  <2>3. PastInv'
    BY <1>1, <2>1, PastStep
  <2> QED BY <2>1, <2>2, <2>3 DEF StepRule, ToolchainInv
<1>2. CASE UNCHANGED vars
  <2>1. ProcInv' /\ ConsoleInv' /\ project' \in Projects /\ commands' \in Nat
    BY <1>2, ProcSame DEF vars, ToolchainInv, ConsoleInv
  <2>2. FileInv'
    BY <1>2, SameFiles DEF vars, ToolchainInv
  <2>3. PastInv'
    BY <1>2 DEF vars, ToolchainInv, PastInv, Exists, Past, At
  <2> QED BY <2>1, <2>2, <2>3 DEF ToolchainInv
<1> QED BY <1>1, <1>2, DeveloperStep DEF Next

\* In every run the invariant holds.
THEOREM ToolchainCorrect == Spec => []ToolchainInv
BY ToolchainInit, ToolchainStep, PTL DEF Spec

-----------------------------------------------------------------------------
(* The properties.                                                         *)

\* Every process is at a step of its command and a process that is to write holds what it
\* will write; every shared file is absent, torn or whole (TypeOK).
THEOREM TypeCorrect == Spec => []TypeOK
<1>1. ToolchainInv => TypeOK
  <2> SUFFICES ASSUME ToolchainInv PROVE TypeOK
    OBVIOUS
  <2>1. \A f \in Outputs \cup {"template"} : file[f].is \in {"absent", "torn", "whole"}
    <3> SUFFICES ASSUME NEW f \in Outputs \cup {"template"}
                 PROVE  file[f].is \in {"absent", "torn", "whole"}
      OBVIOUS
    <3>1. Content(f, file[f])
      BY DEF ToolchainInv, FileInv
    <3> QED BY <3>1 DEF Content, Absent, Torn, Whole
  <2>2. ASSUME NEW p \in Procs
        PROVE  /\ proc[p].cmd \in Commands \cup {"none"}
               /\ proc[p].at \in Steps
               /\ proc[p].force \in BOOLEAN
               /\ Running(p) /\ proc[p].at \in {"open", "write", "post", "fill"}
                    => proc[p].data.is = "whole"
    <3>1. Holds(proc[p])
      BY DEF ToolchainInv, ProcInv
    <3>2. proc[p].at \in Steps
      BY <3>1 DEF Holds, Typed, InStep, Steps
    <3>3. proc[p].at \in {"open", "write", "post", "fill"} => proc[p].data.is = "whole"
      <4>1. proc[p].at \in {"open", "write", "post", "fill"} => proc[p].data = Whole(proc[p].data.what)
        BY <3>1 DEF Holds, Typed, InStep, HoldsTemplate, HoldsArchive
      <4>2. Whole(proc[p].data.what).is = "whole"
        BY DEF Whole
      <4> QED BY <4>1, <4>2
    <3> QED BY <3>1, <3>2, <3>3 DEF Holds, Typed
  <2> QED BY <2>1, <2>2 DEF TypeOK, ToolchainInv, PastInv
<1> QED BY <1>1, ToolchainCorrect, PTL

\* A command changes an output that was in place only under --force, and never the
\* config or the output of a source build (EditsKept).
THEOREM EditsKeptCorrect == Spec => EditsKept
<1> DEFINE Keep == \A p \in Procs, f \in Outputs :
          proc'[p] # proc[p] /\ f \in settled /\ file'[f] # file[f]
              => f \in {"tools", "pyz"} /\ proc[p].force
<1>1. ToolchainInv /\ [Next]_vars => [Keep]_vars
  <2> SUFFICES ASSUME ToolchainInv, Next, NEW p \in Procs, NEW f \in Outputs,
                      proc'[p] # proc[p], f \in settled, file'[f] # file[f]
               PROVE  f \in {"tools", "pyz"} /\ proc[p].force
    OBVIOUS
  <2>1. PICK q \in Procs : Command(q) \/ Stop(q)
    BY DEF Next, Developer
  <2>2. StepRule(q)
    BY <2>1, CommandStep, StopStep
  <2>3. q = p
    BY <2>2 DEF StepRule, Elsewhere
  <2>4. Past(p, f)
    BY <2>2, <2>3 DEF StepRule, WriteRule, ToolchainInv, PastInv
  <2> QED BY <2>4 DEF ToolchainInv, PastInv
<1> QED BY <1>1, ToolchainCorrect, PTL DEF Spec, EditsKept

\* What the rules on one tool say of a document in which no rule finds an error.
LEMMA NoToolError ==
    ASSUME NEW doc, NEW i, ToolErrors(doc, i) = {}
    PROVE  /\ IsToolId(doc.tools[i].id)
           /\ \A j \in 1 .. i - 1 : doc.tools[j].id # doc.tools[i].id
           /\ PrivilegedId(doc.tools[i].id) => doc.tools[i].risk = "move_money"
           /\ doc.tools[i].risk = "move_money" => {"max_", "ciba_"} \subseteq Ceilings(doc, doc.tools[i].id)
<1> DEFINE t == doc.tools[i]
<1>1. IsToolId(t.id)
  BY DEF ToolErrors
<1>2. \A j \in 1 .. i - 1 : doc.tools[j].id # t.id
  <2>1. "E_DUP_TOOL_ID" \notin ToolErrors(doc, i)
    OBVIOUS
  <2> QED BY <1>1, <2>1 DEF ToolErrors
<1>3. PrivilegedId(t.id) => t.risk = "move_money"
  <2>1. "E_RISK_SMUGGLE" \notin ToolErrors(doc, i)
    OBVIOUS
  <2> QED BY <1>1, <2>1 DEF ToolErrors
<1>4. t.risk = "move_money" => "max_" \in Ceilings(doc, t.id)
  <2>1. "E_MISSING_CEILING" \notin ToolErrors(doc, i)
    OBVIOUS
  <2> QED BY <1>1, <2>1 DEF ToolErrors
<1>5. t.risk = "move_money" => "ciba_" \in Ceilings(doc, t.id)
  <2>1. "E_MISSING_CIBA" \notin ToolErrors(doc, i)
    OBVIOUS
  <2> QED BY <1>1, <2>1 DEF ToolErrors
<1> QED BY <1>1, <1>2, <1>3, <1>4, <1>5

LEMMA NoError ==
    ASSUME NEW doc, ValidateV1(doc) = {}, NEW i \in DOMAIN doc.tools
    PROVE  ToolErrors(doc, i) = {}
BY DEF ValidateV1

\* No document the console has stored moves money unannounced (MoneyGuarded).
THEOREM MoneyGuardedCorrect == Spec => []MoneyGuarded
<1>1. ToolchainInv => MoneyGuarded
  <2> SUFFICES ASSUME ToolchainInv, NEW doc \in console
               PROVE  /\ \A t \in ToSet(doc.tools) :
                           /\ PrivilegedId(t.id) => t.risk = "move_money"
                           /\ t.risk = "move_money" => {"max_", "ciba_"} \subseteq Ceilings(doc, t.id)
                      /\ \A i, j \in DOMAIN doc.tools : doc.tools[i].id = doc.tools[j].id => i = j
    BY DEF MoneyGuarded
  <2>1. IsSeq(doc.tools) /\ ValidateV1(doc) = {}
    BY DEF ToolchainInv, ConsoleInv, Valid
  <2>2. /\ Len(doc.tools) \in Nat /\ DOMAIN doc.tools = 1 .. Len(doc.tools)
        /\ ToSet(doc.tools) = {doc.tools[i] : i \in 1 .. Len(doc.tools)}
    BY <2>1, SeqFacts
  <2>3. ASSUME NEW i \in 1 .. Len(doc.tools)
        PROVE  /\ \A j \in 1 .. i - 1 : doc.tools[j].id # doc.tools[i].id
               /\ PrivilegedId(doc.tools[i].id) => doc.tools[i].risk = "move_money"
               /\ doc.tools[i].risk = "move_money" => {"max_", "ciba_"} \subseteq Ceilings(doc, doc.tools[i].id)
    BY <2>1, <2>2, NoError, NoToolError
  <2>4. \A t \in ToSet(doc.tools) :
              /\ PrivilegedId(t.id) => t.risk = "move_money"
              /\ t.risk = "move_money" => {"max_", "ciba_"} \subseteq Ceilings(doc, t.id)
    BY <2>2, <2>3
  <2>5. ASSUME NEW i \in 1 .. Len(doc.tools), NEW j \in 1 .. Len(doc.tools),
               doc.tools[i].id = doc.tools[j].id
        PROVE  i = j
    <3>1. ~ (i < j)
      BY <2>3, <2>2, <2>5
    <3>2. ~ (j < i)
      BY <2>3, <2>2, <2>5
    <3> QED BY <2>2, <3>1, <3>2
  <2> QED BY <2>2, <2>4, <2>5
<1> QED BY <1>1, ToolchainCorrect, PTL

-----------------------------------------------------------------------------
(* The generated module.                                                   *)

\* A set of numbers up to a bound has a greatest member.
LEMMA Greatest ==
    ASSUME NEW n \in Nat, NEW S \in SUBSET (1 .. n), S # {}
    PROVE  \E i \in S : \A k \in S : k <= i
<1> DEFINE Less == {ss \in Nat \X Nat : ss[1] < ss[2]}
           T == {m \in Nat : n - m \in S}
<1>1. IsWellFoundedOn(Less, Nat)
  BY NatLessThanWellFounded DEF OpToRel
<1>2. T \subseteq Nat /\ T # {}
  <2>1. PICK k \in S : TRUE
    OBVIOUS
  <2>2. n - k \in Nat /\ n - (n - k) = k
    BY <2>1
  <2> QED BY <2>1, <2>2
<1> HIDE DEF T
<1>3. PICK m \in T : \A y \in T : ~ (<<y, m>> \in Less)
  BY <1>1, <1>2, WFMin
<1> USE DEF T
<1>4. n - m \in S /\ m \in Nat
  BY <1>3
<1>5. ASSUME NEW k \in S PROVE k <= n - m
  <2>1. n - k \in Nat /\ n - (n - k) = k
    OBVIOUS
  <2>2. n - k \in T
    BY <2>1
  <2>3. ~ (n - k < m)
    BY <1>3, <1>4, <2>1, <2>2
  <2> QED BY <1>4, <2>1, <2>3
<1> QED BY <1>4, <1>5

LEMMA OwnModule ==
    ASSUME NEW doc, IsSeq(doc.tools), CanGenerate(doc), NEW id \in DOMAIN Table(doc)
    PROVE  GenerateModule(doc)[Table(doc)[id]].id = id
<1> DEFINE n == Len(doc.tools)
           c == ClassNameFor(id)
           Same == {k \in 1 .. n : ClassNameFor(doc.tools[k].id) = c}
           Last1(k) == /\ ClassNameFor(doc.tools[k].id) = c
                       /\ \A l \in DOMAIN doc.tools : ClassNameFor(doc.tools[l].id) = c => l <= k
           i == CHOOSE k \in DOMAIN doc.tools : Last1(k)
<1>1. n \in Nat /\ DOMAIN doc.tools = 1 .. n /\ ToSet(doc.tools) = {doc.tools[k] : k \in 1 .. n}
  BY SeqFacts
<1>2. PICK j \in 1 .. n : doc.tools[j].id = id
  BY <1>1 DEF Table
<1>3. Table(doc)[id] = c /\ c \in {ClassNameFor(t.id) : t \in ToSet(doc.tools)}
  BY <1>1, <1>2 DEF Table
<1>4. \E k \in DOMAIN doc.tools : Last1(k)
  <2>1. Same \in SUBSET (1 .. n) /\ Same # {}
    BY <1>2
  <2>2. PICK k \in Same : \A l \in Same : l <= k
    BY <1>1, <2>1, Greatest
  <2> QED BY <1>1, <2>2
<1>5. i \in DOMAIN doc.tools /\ Last1(i)
  BY <1>4
<1>6. GenerateModule(doc)[c].id = doc.tools[i].id
  BY <1>3 DEF GenerateModule
<1> HIDE DEF i
<1>7. doc.tools[i].id = id
  BY <1>1, <1>2, <1>5 DEF CanGenerate, Collide
<1> QED BY <1>3, <1>6, <1>7

\* No class of a module on disk serves two ids (OwnClass).
THEOREM OwnClassCorrect == Spec => []OwnClass
<1>1. ToolchainInv => OwnClass
  <2> SUFFICES ASSUME ToolchainInv, file["tools"].is = "whole",
                      NEW id \in DOMAIN file["tools"].what.table
               PROVE  file["tools"].what.classes[file["tools"].what.table[id]].id = id
    BY DEF OwnClass
  <2>1. Generated(file["tools"].what)
    BY DEF ToolchainInv, FileInv, Content, Outputs, Absent, Torn
  <2>2. PICK doc : IsSeq(doc.tools) /\ CanGenerate(doc) /\ file["tools"].what = Module(doc)
    BY <2>1 DEF Generated
  <2>3. file["tools"].what.classes = GenerateModule(doc) /\ file["tools"].what.table = Table(doc)
    BY <2>2 DEF Module
  <2> QED BY <2>2, <2>3, OwnModule
<1> QED BY <1>1, ToolchainCorrect, PTL

-----------------------------------------------------------------------------
(* The draft.                                                              *)

UpTo(S, i) == {j \in S : j <= i}

\* The ranks of the members of a set are different, so every rank is that of a member.
LEMMA NthRank ==
    ASSUME NEW n \in Nat, NEW S \in SUBSET (1 .. n), NEW k \in 1 .. Cardinality(S)
    PROVE  Nth(S, k) \in S /\ Cardinality(UpTo(S, Nth(S, k))) = k
<1> DEFINE m == Cardinality(S)
           rank == [i \in S |-> Cardinality(UpTo(S, i))]
<1>1. IsFiniteSet(S) /\ m \in Nat
  <2>1. IsFiniteSet(1 .. n)
    BY FS_Interval
  <2> QED BY <2>1, FS_Subset, FS_CardinalityType
<1>2. IsFiniteSet(1 .. m) /\ Cardinality(1 .. m) = m
  BY <1>1, FS_Interval
<1>3. ASSUME NEW i \in S PROVE IsFiniteSet(UpTo(S, i)) /\ Cardinality(UpTo(S, i)) \in 1 .. m
  <2>1. UpTo(S, i) \in SUBSET S /\ UpTo(S, i) # {}
    BY DEF UpTo
  <2>2. IsFiniteSet(UpTo(S, i)) /\ Cardinality(UpTo(S, i)) <= m /\ Cardinality(UpTo(S, i)) \in Nat
    BY <1>1, <2>1, FS_Subset, FS_CardinalityType
  <2>3. Cardinality(UpTo(S, i)) # 0
    BY <2>1, <2>2, FS_EmptySet
  <2> QED BY <1>1, <2>2, <2>3
<1>4. ASSUME NEW i \in S, NEW j \in S, i < j PROVE Cardinality(UpTo(S, i)) # Cardinality(UpTo(S, j))
  <2>1. UpTo(S, i) \in SUBSET UpTo(S, j) /\ j \in UpTo(S, j) /\ j \notin UpTo(S, i)
    <3>1. i \in Int /\ j \in Int /\ \A x \in S : x \in Int
      OBVIOUS
    <3>2. ASSUME NEW x \in UpTo(S, i) PROVE x \in UpTo(S, j)
      <4>1. x \in S /\ x <= i
        BY DEF UpTo
      <4>2. x \in Int
        BY <3>1, <4>1
      <4>3. x <= j
        BY <1>4, <3>1, <4>1, <4>2
      <4> QED BY <4>1, <4>3 DEF UpTo
    <3>3. j \in UpTo(S, j)
      BY <3>1 DEF UpTo
    <3>4. j \notin UpTo(S, i)
      BY <1>4, <3>1 DEF UpTo
    <3> QED BY <3>2, <3>3, <3>4
  <2>2. UpTo(S, i) # UpTo(S, j) /\ IsFiniteSet(UpTo(S, j))
    BY <1>3, <2>1
  <2> DEFINE A == UpTo(S, i)
             B == UpTo(S, j)
  <2>3. IsFiniteSet(B) /\ A \in SUBSET B /\ A # B
    BY <2>1, <2>2
  <2> HIDE DEF A, B
  <2>4. Cardinality(A) # Cardinality(B)
    BY <2>3, FS_Subset
  <2> QED BY <2>4 DEF A, B
<1>5. ASSUME NEW i \in S, NEW j \in S, rank[i] = rank[j] PROVE i = j
  <2>1. i \in Int /\ j \in Int
    OBVIOUS
  <2> QED BY <1>4, <1>5, <2>1
<1>6. rank \in Injection(S, 1 .. m)
  <2>1. rank \in [S -> 1 .. m]
    BY <1>3
  <2> HIDE DEF rank
  <2> QED BY <1>5, <2>1 DEF Injection, IsInjective
<1>7. rank \in Surjection(S, 1 .. m)
  BY <1>2, <1>6, FS_Injection
<1>8. \E i \in S : Cardinality({j \in S : j <= i}) = k
  <2>1. PICK i \in S : rank[i] = k
    <3> HIDE DEF rank
    <3> QED BY <1>7 DEF Surjection
  <2> QED BY <2>1 DEF UpTo
<1> QED BY <1>8 DEF Nth, UpTo

LEMMA ExtractedTool ==
    ASSUME NEW names, IsSeq(names), NEW ns,
           NEW k \in 1 .. Len(Extracted(names, ns))
    PROVE  LET i == Nth(KeptPlaces(names), k)
           IN  /\ i \in DOMAIN names /\ Kept(names, i)
               /\ Cardinality(UpTo(KeptPlaces(names), i)) = k
               /\ Extracted(names, ns)[k] = EntryFor(names[i], ns)
<1>1. Len(names) \in Nat /\ KeptPlaces(names) \in SUBSET (1 .. Len(names))
  BY KeptFinite
<1>2. k \in 1 .. Cardinality(KeptPlaces(names))
       /\ Extracted(names, ns)[k] = EntryFor(names[Nth(KeptPlaces(names), k)], ns)
  BY ExtractedSeq
<1>3. Nth(KeptPlaces(names), k) \in KeptPlaces(names)
       /\ Cardinality(UpTo(KeptPlaces(names), Nth(KeptPlaces(names), k))) = k
  BY <1>1, <1>2, NthRank
<1> QED BY <1>2, <1>3 DEF KeptPlaces

\* Two extracted tools come from names with different words.
LEMMA ExtractedOnce ==
    ASSUME NEW names, IsSeq(names), NEW ns,
           NEW k \in 1 .. Len(Extracted(names, ns)), NEW l \in 1 .. Len(Extracted(names, ns)),
           Extracted(names, ns)[k].id = Extracted(names, ns)[l].id
    PROVE  k = l
<1> DEFINE i == Nth(KeptPlaces(names), k)
           j == Nth(KeptPlaces(names), l)
<1>1. /\ i \in DOMAIN names /\ Kept(names, i) /\ Extracted(names, ns)[k] = EntryFor(names[i], ns)
      /\ Cardinality(UpTo(KeptPlaces(names), i)) = k
  BY ExtractedTool
<1>2. /\ j \in DOMAIN names /\ Kept(names, j) /\ Extracted(names, ns)[l] = EntryFor(names[j], ns)
      /\ Cardinality(UpTo(KeptPlaces(names), j)) = l
  BY ExtractedTool
<1> HIDE DEF i, j
<1>3. names[i].words = names[j].words
  <2>1. <<ns, names[i].words>> = <<ns, names[j].words>>
    BY <1>1, <1>2 DEF EntryFor
  <2> QED BY <2>1
<1>4. DOMAIN names = 1 .. Len(names) /\ Len(names) \in Nat
  BY SeqFacts
<1>5. i = j
  <2>1. ~ (i < j)
    BY <1>1, <1>2, <1>3, <1>4 DEF Kept, Repeats
  <2>2. ~ (j < i)
    BY <1>1, <1>2, <1>3, <1>4 DEF Kept, Repeats
  <2> QED BY <1>1, <1>2, <1>4, <2>1, <2>2
<1> QED BY <1>1, <1>2, <1>5

LEMMA EntryValid ==
    ASSUME NEW n, NEW ns, ns # <<>>, ~Nameless(n), ~Smuggles(n)
    PROVE  LET e == EntryFor(n, ns)
           IN  /\ IsToolId(e.id) /\ ~PrivilegedId(e.id)
               /\ e.actions # {} /\ e.actions \subseteq Actions
               /\ e.risk \in Risks /\ e.risk # "move_money"
               /\ \A k \in 2 .. Len(e.id) : ToSet(e.id[k]) \cap Privileged = {}
<1> DEFINE e == EntryFor(n, ns)
<1>1. e.id = <<ns, n.words>> /\ e.actions = InferActions(n.words)
       /\ e.risk = RiskForAction(InferActions(n.words))
  BY DEF EntryFor
<1> HIDE DEF e
<1>2. Len(e.id) = 2 /\ DOMAIN e.id = 1 .. 2 /\ e.id[1] = ns /\ e.id[2] = n.words
  BY <1>1
<1>3. IsToolId(e.id)
  BY <1>2 DEF IsToolId, Nameless
<1>4. ~PrivilegedId(e.id)
  <2> SUFFICES ASSUME NEW w \in Privileged, Last(e.id) = <<w>> PROVE FALSE
    BY DEF PrivilegedId
  <2>1. n.words = <<w>>
    BY <1>2 DEF Last
  <2>2. w \in ToSet(n.words)
    BY <2>1 DEF ToSet
  <2> QED BY <2>2 DEF Smuggles
<1>5. InferActions(n.words) \in {{"write"}, {"execute"}, {"read"}}
  BY DEF InferActions
<1>6. e.actions # {} /\ e.actions \subseteq Actions
  BY <1>1, <1>5 DEF Actions
<1>7. e.risk \in Risks /\ e.risk # "move_money"
  BY <1>1 DEF RiskForAction, Risks
<1>8. \A k \in 2 .. Len(e.id) : ToSet(e.id[k]) \cap Privileged = {}
  BY <1>2 DEF Smuggles
<1> QED BY <1>3, <1>4, <1>6, <1>7, <1>8 DEF e

\* A draft has no error of its own: only its options can be wrong.
LEMMA DraftIsValid ==
    ASSUME NEW names, IsSeq(names), NEW ns, NEW options, ~ExtractRefuses(names, ns, options),
           options.name = "ok", options.version = "ok"
    PROVE  ValidateV1(Draft(names, ns, options)) = {}
<1> DEFINE doc == Draft(names, ns, options)
           tools == Extracted(names, ns)
<1>1. /\ doc.name = "ok" /\ doc.version = "ok" /\ doc.framework = options.framework
      /\ doc.tools = tools /\ doc.constraints = <<>> /\ doc.keys = {}
  BY DEF Draft
<1>2. ns # <<>> /\ tools # <<>> /\ options.framework \in Frameworks
  BY DEF ExtractRefuses
<1>3. IsSeq(tools) /\ DOMAIN tools = 1 .. Len(tools) /\ Len(tools) \in Nat
  BY ExtractedSeq, SeqFacts
<1> HIDE DEF doc, tools
<1>4. ASSUME NEW i \in DOMAIN doc.tools PROVE ToolErrors(doc, i) = {}
  <2> DEFINE t == doc.tools[i]
  <2>1. i \in 1 .. Len(tools) /\ t = tools[i]
    BY <1>1, <1>3, <1>4
  <2>2. /\ IsToolId(t.id) /\ ~PrivilegedId(t.id)
        /\ t.actions # {} /\ t.actions \subseteq Actions
        /\ t.risk \in Risks /\ t.risk # "move_money"
    BY <1>2, <2>1, ExtractedTool, EntryValid DEF tools, Kept
  <2>3. ~ \E j \in 1 .. i - 1 : doc.tools[j].id = t.id
    BY <1>1, <1>3, <2>1, ExtractedOnce DEF tools
  <2> QED BY <2>2, <2>3 DEF ToolErrors
<1>5. UNION {ToolErrors(doc, i) : i \in DOMAIN doc.tools} = {}
  BY <1>4
<1>6. Claims(doc) = {} /\ Unknown(doc) = {}
  BY <1>1 DEF Claims, Unknown
<1>7. DOMAIN doc.constraints = {}
  BY <1>1
<1>8. DOMAIN doc.constraints \subseteq {t.id : t \in {u \in ToSet(doc.tools) : IsToolId(u.id)}}
  BY <1>7
<1>9. ValidateV1(doc) = {}
  <2>1. ASSUME NEW e \in ValidateV1(doc) PROVE FALSE
    BY <1>1, <1>2, <1>5, <1>6, <1>8, <2>1 DEF ValidateV1
  <2> QED BY <2>1
<1> QED BY <1>9 DEF doc

\* What extract prints is accepted by validate, and holds no privileged word (DraftValid).
THEOREM DraftValidCorrect == Spec => []DraftValid
<1>1. ToolchainInv => DraftValid
  <2> SUFFICES ASSUME ToolchainInv, NEW p \in Procs,
                      proc[p].cmd = "extract", proc[p].at = "done",
                      proc[p].input.options.name = "ok", proc[p].input.options.version = "ok"
               PROVE  /\ proc[p].told \in {"draft", "refused"}
                      /\ proc[p].told = "draft" =>
                            \A t \in ToSet(Extracted(proc[p].input.names, <<"ns">>)) :
                                \A k \in 2 .. Len(t.id) : ToSet(t.id[k]) \cap Privileged = {}
    BY DEF DraftValid
  <2> DEFINE in == proc[p].input
             tools == Extracted(in.names, <<"ns">>)
  <2>1. Holds(proc[p])
    BY DEF ToolchainInv, ProcInv
  <2>2. in \in [names : NameLists, options : Options]
    BY <2>1 DEF Holds, Typed, Inputs
  <2>3. IsSeq(in.names)
    BY <2>2, ToolchainAssumption
  <2>4. proc[p].told \in {"draft", "refused"}
    <3>1. ~ExtractRefuses(in.names, <<"ns">>, in.options) =>
              ValidateV1(Draft(in.names, <<"ns">>, in.options)) = {}
      BY <2>3, DraftIsValid
    <3> QED BY <2>1, <3>1 DEF Holds, HoldsDraft
  <2>5. ASSUME NEW t \in ToSet(tools), NEW k \in 2 .. Len(t.id)
        PROVE  ToSet(t.id[k]) \cap Privileged = {}
    <3>1. PICK i \in 1 .. Len(tools) : t = tools[i]
      BY <2>3, ExtractedSeq, SeqFacts
    <3>2. <<"ns">> # <<>>
      OBVIOUS
    <3> DEFINE j == Nth(KeptPlaces(in.names), i)
               n == in.names[j]
    <3>3. ~Nameless(n) /\ ~Smuggles(n) /\ t = EntryFor(n, <<"ns">>)
      BY <2>3, <3>1, ExtractedTool DEF Kept
    <3> HIDE DEF n
    <3>4. \A l \in 2 .. Len(t.id) : ToSet(t.id[l]) \cap Privileged = {}
      BY <3>2, <3>3, EntryValid
    <3> QED BY <2>5, <3>4
  <2> QED BY <2>4, <2>5
<1> QED BY <1>1, ToolchainCorrect, PTL

-----------------------------------------------------------------------------
(* The archive of a bundle.                                                *)

FileFields == {"kind", "from", "stamp", "mtime", "rows"}
IsTree(tree) == \A x \in DOMAIN tree : DOMAIN tree[x] = FileFields

LEMMA FileFacts ==
    ASSUME NEW kind, NEW from
    PROVE  LET f == File(kind, from)
           IN  /\ DOMAIN f = FileFields
               /\ f.kind = kind /\ f.from = from /\ f.stamp = 0 /\ f.mtime = 0 /\ f.rows = {}
BY DEF File, FileFields

\* What pip writes for a distribution: its launcher, and the row of its launcher, are
\* all that depends on the time beside the modification times.
RowsOf(d, brings, now) ==
    {[path |-> <<d \o ".py">>, up |-> 0, hash |-> 0]} \cup
        (IF "script" \in brings THEN {[path |-> Launcher(d), up |-> 2, hash |-> now]} ELSE {})

LEMMA WheelFacts ==
    ASSUME NEW d, Dist(d)[1] \notin LauncherDirs, NEW brings, NEW now,
           NEW x \in WheelPaths(d, brings)
    PROVE  LET f == Wheel(d, brings, now)[x]
           IN  /\ DOMAIN Wheel(d, brings, now) = WheelPaths(d, brings)
               /\ DOMAIN f = FileFields /\ f.from = d
               /\ \/ x = <<d \o ".py">> /\ f.kind = "py" /\ f.stamp = 0 /\ f.rows = {}
                  \/ /\ x # <<d \o ".py">> /\ x = Dist(d)
                     /\ f.kind = "record" /\ f.stamp = 0 /\ f.rows = RowsOf(d, brings, now)
                  \/ x # <<d \o ".py">> /\ x # Dist(d) /\ x = Launcher(d) /\ f.kind = "script"
                  \/ /\ x # <<d \o ".py">> /\ x # Dist(d) /\ x # Launcher(d)
                     /\ f.kind = "native" /\ f.stamp = 0 /\ f.rows = {}
<1> DEFINE W == Wheel(d, brings, now)
<1>1. /\ DOMAIN W = WheelPaths(d, brings)
      /\ W[x] = CASE x = <<d \o ".py">> -> [File("py", d) EXCEPT !.mtime = now]
              [] x = Dist(d)        -> [File("record", d) EXCEPT !.mtime = now, !.rows = RowsOf(d, brings, now)]
              [] x = Launcher(d)    -> [File("script", d) EXCEPT !.stamp = now, !.mtime = now]
              [] OTHER              -> File("native", d)
  BY DEF Wheel, RowsOf
<1> HIDE DEF W
<1>2. CASE x = <<d \o ".py">>
  <2>1. W[x] = [File("py", d) EXCEPT !.mtime = now]
    BY <1>1, <1>2 DEF Dist, Launcher
  <2> QED BY <1>1, <1>2, <2>1 DEF File, FileFields, W
<1>3. CASE x # <<d \o ".py">> /\ x = Dist(d)
  <2>1. W[x] = [File("record", d) EXCEPT !.mtime = now, !.rows = RowsOf(d, brings, now)]
    <3>1. x # Launcher(d)
      BY <1>3 DEF Dist, Launcher, LauncherDirs
    <3> QED BY <1>1, <1>3, <3>1
  <2> QED BY <1>1, <1>3, <2>1 DEF File, FileFields, W
<1>4. CASE x # <<d \o ".py">> /\ x # Dist(d) /\ x = Launcher(d)
  <2>1. W[x] = [File("script", d) EXCEPT !.stamp = now, !.mtime = now]
    BY <1>1, <1>4
  <2> QED BY <1>1, <1>4, <2>1 DEF File, FileFields, W
<1>5. CASE x # <<d \o ".py">> /\ x # Dist(d) /\ x # Launcher(d)
  <2>1. W[x] = File("native", d)
    BY <1>1, <1>5
  <2> QED BY <1>1, <1>5, <2>1 DEF File, FileFields, W
<1> QED BY <1>2, <1>3, <1>4, <1>5

\* Which files pip installs, and whose each is, does not depend on the time.
NewPaths(req) == UNION {WheelPaths(d, Dists[d]) : d \in req}
Owner(req, x) == CHOOSE d \in req : x \in WheelPaths(d, Dists[d])

LEMMA WheelDomain ==
    ASSUME NEW d, NEW brings, NEW now
    PROVE  DOMAIN Wheel(d, brings, now) = WheelPaths(d, brings)
BY DEF Wheel

LEMMA InstalledFacts ==
    ASSUME NEW req, NEW now
    PROVE  /\ DOMAIN Installed(req, Dists, now) = NewPaths(req)
           /\ \A x \in NewPaths(req) :
                 /\ Owner(req, x) \in req
                 /\ x \in WheelPaths(Owner(req, x), Dists[Owner(req, x)])
                 /\ Installed(req, Dists, now)[x] = Wheel(Owner(req, x), Dists[Owner(req, x)], now)[x]
<1> DEFINE wheel == [d \in req |-> Wheel(d, Dists[d], now)]
           I == Installed(req, Dists, now)
<1>1. \A d \in req : wheel[d] = Wheel(d, Dists[d], now) /\ DOMAIN wheel[d] = WheelPaths(d, Dists[d])
  BY WheelDomain
<1>2. I = [x \in UNION {DOMAIN wheel[d] : d \in req} |-> wheel[CHOOSE d \in req : x \in DOMAIN wheel[d]][x]]
  BY DEF Installed
<1> HIDE DEF wheel, I
<1>3. UNION {DOMAIN wheel[d] : d \in req} = NewPaths(req)
  BY <1>1 DEF NewPaths
<1>4. ASSUME NEW x \in NewPaths(req)
      PROVE  /\ Owner(req, x) \in req
             /\ x \in WheelPaths(Owner(req, x), Dists[Owner(req, x)])
             /\ I[x] = Wheel(Owner(req, x), Dists[Owner(req, x)], now)[x]
  <2>1. \E d \in req : x \in WheelPaths(d, Dists[d])
    BY DEF NewPaths
  <2>2. Owner(req, x) \in req /\ x \in WheelPaths(Owner(req, x), Dists[Owner(req, x)])
    BY <2>1 DEF Owner
  <2>3. (CHOOSE d \in req : x \in DOMAIN wheel[d]) = Owner(req, x)
    BY <1>1 DEF Owner
  <2>4. I[x] = wheel[CHOOSE d \in req : x \in DOMAIN wheel[d]][x]
    BY <1>2, <1>3
  <2>5. I[x] = wheel[Owner(req, x)][x]
    BY <2>3, <2>4
  <2> QED BY <1>1, <2>2, <2>5
<1> QED BY <1>2, <1>3, <1>4 DEF I

\* The staged project with its entry point.
Copied(t, main) == WriteEntryPoint(Stage(t), main)

CopyOf(c, t) ==
    /\ DOMAIN Stage(t) \subseteq DOMAIN t
    /\ DOMAIN c = DOMAIN Stage(t) \cup {Main}
    /\ IsTree(c)
    /\ \A x \in DOMAIN Stage(t) : c[x] = t[x] /\ c[x].from = "app"
    /\ \A x \in DOMAIN c : c[x].kind = "script" => c[x].from = "app"

LEMMA CopiedFacts ==
    ASSUME NEW t \in Projects, NEW main,
           main = "none" => Main \in DOMAIN t, ~EntryRefused(Stage(t), main)
    PROVE  CopyOf(Copied(t, main), t)
<1> DEFINE s == Stage(t)
           c == Copied(t, main)
           e == [File("py", "--main") EXCEPT !.mtime = 1]
<1>1. /\ DOMAIN s = {x \in DOMAIN t : t[x].kind \notin {"cache", "pyz"}}
      /\ \A x \in DOMAIN s : s[x] = t[x]
  BY DEF Stage, Without
<1>2. \A x \in DOMAIN t : DOMAIN t[x] = FileFields /\ t[x].from = "app"
  BY ToolchainAssumption, FileFacts
<1>3. DOMAIN e = FileFields /\ e.kind = "py"
  BY DEF File, FileFields
<1> HIDE DEF s, e
<1>4. CASE main = "none"
  <2>1. c = s
    BY <1>4 DEF Copied, WriteEntryPoint, s
  <2>2. Main \in DOMAIN s
    BY <1>1, <1>4, ToolchainAssumption
  <2> QED BY <1>1, <1>2, <2>1, <2>2 DEF CopyOf, IsTree, s
<1>5. CASE main # "none"
  <2>1. Main \notin DOMAIN s
    BY <1>5 DEF EntryRefused, s
  <2>2. c = Over([p \in {Main} |-> e], s)
    BY <1>5 DEF Copied, WriteEntryPoint, s, e
  <2>3. DOMAIN c = DOMAIN s \cup {Main} /\ c[Main] = e /\ \A x \in DOMAIN s : c[x] = s[x]
    <3> HIDE DEF c
    <3> QED BY <2>1, <2>2 DEF Over
  <2>4. \A x \in DOMAIN c : (x \in DOMAIN s /\ c[x] = t[x]) \/ (x = Main /\ c[x] = e)
    BY <1>1, <2>3
  <2> HIDE DEF c
  <2> QED BY <1>1, <1>2, <1>3, <2>3, <2>4 DEF CopyOf, IsTree, s, c
<1> QED BY <1>4, <1>5

\* What pip replaces, and what of the copy is still there after it.
Items(req) == {x[1] : x \in NewPaths(req)}
Survivors(copied, req) == {x \in DOMAIN copied : x[1] \notin Items(req)}

Merges(m, copied, req, now) ==
    /\ DOMAIN m = NewPaths(req) \cup Survivors(copied, req)
    /\ \A x \in NewPaths(req) : m[x] = Installed(req, Dists, now)[x]
    /\ \A x \in Survivors(copied, req) : x \notin NewPaths(req) /\ m[x] = copied[x]

LEMMA MergedFacts ==
    ASSUME NEW copied, NEW req, NEW now
    PROVE  Merges(StageDependencies(copied, req, Dists, now), copied, req, now)
<1> DEFINE new == Installed(req, Dists, now)
           old == Without(copied, {x \in DOMAIN copied : x[1] \in Items(req)})
           m == StageDependencies(copied, req, Dists, now)
<1>1. DOMAIN new = NewPaths(req)
  BY InstalledFacts
<1>2. m = Over(new, old)
  BY <1>1 DEF StageDependencies, Items
<1>3. DOMAIN old = Survivors(copied, req) /\ \A x \in DOMAIN old : old[x] = copied[x]
  BY DEF Without, Survivors
<1>4. \A x \in Survivors(copied, req) : x \notin NewPaths(req)
  BY DEF Survivors, Items
<1> HIDE DEF new, old, m
<1>5. /\ DOMAIN m = DOMAIN new \cup DOMAIN old
      /\ \A x \in DOMAIN new : m[x] = new[x]
      /\ \A x \in DOMAIN old : x \notin DOMAIN new => m[x] = old[x]
  BY <1>2 DEF Over
<1> QED BY <1>1, <1>3, <1>4, <1>5 DEF m, new, Merges

\* The launchers that go, and a file of the archive made from one of the staging tree.
Gone(copied, req) ==
    {x \in NewPaths(req) \cup Survivors(copied, req) : x[1] \in LauncherDirs /\ Len(x) > 1}
        \ DOMAIN copied
Cleaned(f, gone) == IF f.kind # "record" THEN f ELSE [f EXCEPT !.rows = {r \in @ : r.path \notin gone}]
Packed(f, gone) == [Cleaned(f, gone) EXCEPT !.mtime = 0]

PackedFrom(g, f, gone) ==
    /\ DOMAIN g = FileFields
    /\ g.kind = f.kind /\ g.from = f.from /\ g.stamp = f.stamp /\ g.mtime = 0
    /\ g.rows = IF f.kind # "record" THEN f.rows ELSE {r \in f.rows : r.path \notin gone}

LEMMA PackedFacts ==
    ASSUME NEW f, DOMAIN f = FileFields, NEW gone
    PROVE  PackedFrom(Packed(f, gone), f, gone) /\ Cleaned(f, gone).kind = f.kind
<1> DEFINE c == Cleaned(f, gone)
<1>1. /\ DOMAIN c = FileFields
      /\ c.kind = f.kind /\ c.from = f.from /\ c.stamp = f.stamp
      /\ c.rows = IF f.kind # "record" THEN f.rows ELSE {r \in f.rows : r.path \notin gone}
  <2>1. CASE f.kind # "record"
    BY <2>1 DEF Cleaned
  <2>2. CASE f.kind = "record"
    <3>1. c = [f EXCEPT !.rows = {r \in f.rows : r.path \notin gone}]
      BY <2>2 DEF Cleaned, FileFields
    <3> QED BY <2>2, <3>1 DEF FileFields
  <2> QED BY <2>1, <2>2
<1> HIDE DEF c
<1>2. Packed(f, gone) = [c EXCEPT !.mtime = 0]
  BY DEF Packed, c
<1> QED BY <1>1, <1>2 DEF FileFields, PackedFrom, c

LEMMA SameFile ==
    ASSUME NEW f, NEW g, DOMAIN f = FileFields, DOMAIN g = FileFields,
           f = [x \in DOMAIN f |-> f[x]], g = [x \in DOMAIN g |-> g[x]],
           f.kind = g.kind, f.from = g.from, f.stamp = g.stamp, f.mtime = g.mtime, f.rows = g.rows
    PROVE  f = g
<1>1. \A x \in FileFields : f[x] = g[x]
  BY DEF FileFields
<1> QED BY <1>1

\* The archive, file by file.
PackedTree(a, s, c, req, now) ==
    /\ DOMAIN a = (NewPaths(req) \cup Survivors(c, req)) \ Gone(c, req)
    /\ DOMAIN s = DOMAIN a
    /\ \A x \in DOMAIN a :
          \/ /\ x \in NewPaths(req) /\ x \notin Survivors(c, req)
             /\ a[x] = Packed(Installed(req, Dists, now)[x], Gone(c, req))
             /\ s[x] = Cleaned(Installed(req, Dists, now)[x], Gone(c, req))
          \/ /\ x \in Survivors(c, req) /\ x \notin NewPaths(req)
             /\ a[x] = Packed(c[x], Gone(c, req))
             /\ s[x] = Cleaned(c[x], Gone(c, req))

LEMMA ArchiveFacts ==
    ASSUME NEW t \in Projects, NEW main, NEW req \in Requirements, req # {}, NEW now
    PROVE  PackedTree(Archive(t, main, req, Dists, now), Staged(t, main, req, Dists, now),
                      Copied(t, main), req, now)
<1> DEFINE c == Copied(t, main)
           gone == Gone(c, req)
           m == StageDependencies(c, req, Dists, now)
           s == Staged(t, main, req, Dists, now)
           a == Archive(t, main, req, Dists, now)
<1>1. /\ DOMAIN m = NewPaths(req) \cup Survivors(c, req)
      /\ \A x \in NewPaths(req) : m[x] = Installed(req, Dists, now)[x]
      /\ \A x \in Survivors(c, req) : x \notin NewPaths(req) /\ m[x] = c[x]
  <2>1. Merges(m, c, req, now)
    BY MergedFacts
  <2> QED BY <2>1 DEF Merges
<1>2. s = DropGeneratedLaunchers(m, DOMAIN c)
  BY DEF Staged, Copied
<1>3. gone = {x \in DOMAIN m : x[1] \in LauncherDirs /\ Len(x) > 1} \ DOMAIN c
  BY <1>1 DEF Gone
<1>4. s = [x \in DOMAIN m \ gone |-> Cleaned(m[x], gone)]
  BY <1>2, <1>3 DEF DropGeneratedLaunchers, Cleaned, RecordRowTarget
<1>5. a = [x \in DOMAIN s |-> [s[x] EXCEPT !.mtime = 0]]
  BY DEF Archive, NormalizeMtimes
<1> HIDE DEF c, gone, m, s, a
<1>6. DOMAIN s = DOMAIN m \ gone /\ DOMAIN a = DOMAIN s
  BY <1>4, <1>5
<1>7. \A x \in DOMAIN a : s[x] = Cleaned(m[x], gone) /\ a[x] = Packed(m[x], gone)
  BY <1>4, <1>5, <1>6 DEF Packed
<1>8. PackedTree(a, s, c, req, now)
  BY <1>1, <1>6, <1>7 DEF PackedTree, gone
<1> QED BY <1>8 DEF c, m, s, a

BroughtBy(f, x, d, now) ==
    /\ DOMAIN f = FileFields /\ f.from = d
    /\ \/ x = <<d \o ".py">> /\ f.kind = "py" /\ f.stamp = 0 /\ f.rows = {}
       \/ /\ x # <<d \o ".py">> /\ x = Dist(d)
          /\ f.kind = "record" /\ f.stamp = 0 /\ f.rows = RowsOf(d, Dists[d], now)
       \/ x # <<d \o ".py">> /\ x # Dist(d) /\ x = Launcher(d) /\ f.kind = "script"
       \/ /\ x # <<d \o ".py">> /\ x # Dist(d) /\ x # Launcher(d)
          /\ f.kind = "native" /\ f.stamp = 0 /\ f.rows = {}

LEMMA NewFile ==
    ASSUME NEW req \in Requirements, NEW now, NEW x \in NewPaths(req)
    PROVE  /\ Owner(req, x) \in req /\ x \in WheelPaths(Owner(req, x), Dists[Owner(req, x)])
           /\ BroughtBy(Installed(req, Dists, now)[x], x, Owner(req, x), now)
<1> DEFINE d == Owner(req, x)
<1>1. /\ d \in req /\ x \in WheelPaths(d, Dists[d])
      /\ Installed(req, Dists, now)[x] = Wheel(d, Dists[d], now)[x]
  BY InstalledFacts
<1>2. Dist(d)[1] \notin LauncherDirs
  BY <1>1, ToolchainAssumption
<1> HIDE DEF d
<1>3. BroughtBy(Installed(req, Dists, now)[x], x, d, now)
  BY <1>1, <1>2, WheelFacts DEF BroughtBy
<1> QED BY <1>1, <1>3 DEF d

\* No file that is a launcher by its place and was not copied is in the archive.
LEMMA LauncherGone ==
    ASSUME NEW copied, NEW req, NEW d \in req, Launcher(d) \in NewPaths(req),
           Launcher(d) \notin DOMAIN copied
    PROVE  Launcher(d) \in Gone(copied, req)
<1>1. Launcher(d)[1] \in LauncherDirs /\ Len(Launcher(d)) > 1
  BY DEF Launcher, LauncherDirs
<1> QED BY <1>1 DEF Gone

\* The entry point is there: what pip would put in its place is refused.
LEMMA MainPacked ==
    ASSUME NEW t \in Projects, NEW main, NEW req \in Requirements, req # {}, NEW now,
           ~BundleRefuses(t, main, req, Dists, now)
    PROVE  Main \in DOMAIN Archive(t, main, req, Dists, now)
<1> DEFINE c == Copied(t, main)
           a == Archive(t, main, req, Dists, now)
           s == Staged(t, main, req, Dists, now)
           gone == Gone(c, req)
           new == Installed(req, Dists, now)
<1>1. CopyOf(c, t)
  BY CopiedFacts DEF BundleRefuses
<1>2. PackedTree(a, s, c, req, now)
  BY ArchiveFacts
<1>3. \A x \in DOMAIN s : s[x].kind # "native"
  BY DEF BundleRefuses, RefuseNativeExtensions
<1> HIDE DEF c, a, s, new
<1>4. Main \in DOMAIN c /\ Main \notin gone
  BY <1>1 DEF CopyOf, Gone
<1>5. DOMAIN a = (NewPaths(req) \cup Survivors(c, req)) \ gone /\ DOMAIN s = DOMAIN a
  BY <1>2 DEF PackedTree
<1>6. CASE Main[1] \notin Items(req)
  BY <1>4, <1>5, <1>6 DEF Survivors, a
<1>7. CASE Main[1] \in Items(req)
  <2>1. PICK d \in req : \E x \in WheelPaths(d, Dists[d]) : x[1] = Main[1]
    BY <1>7 DEF Items, NewPaths
  <2>2. PICK y \in WheelPaths(d, Dists[d]) : y[1] = Main[1]
    BY <2>1
  <2>3. y \in NewPaths(req)
    BY <2>2 DEF NewPaths
  <2>4. y # Dist(d) /\ y # Launcher(d)
    <3>1. Dist(d)[1] # Main[1]
      BY ToolchainAssumption
    <3>2. Launcher(d)[1] # Main[1]
      BY DEF Launcher, Main
    <3> QED BY <2>2, <3>1, <3>2
  <2>5. CASE y = <<d \o ".py">>
    <3>1. y = Main
      BY <2>2, <2>5 DEF Main
    <3> QED BY <1>4, <1>5, <2>3, <3>1 DEF a
  <2>6. CASE y # <<d \o ".py">>
    <3> DEFINE o == Owner(req, y)
    <3>1. y = <<d, "ext.so">>
      BY <2>2, <2>4, <2>6 DEF WheelPaths
    <3>2. o \in req /\ BroughtBy(new[y], y, o, now)
      BY <2>3, NewFile DEF new
    <3>3. y # <<o \o ".py">> /\ y # Launcher(o)
      BY <2>2, <3>1 DEF Launcher, Main
    <3>4. y # Dist(o)
      <4>1. Dist(o)[1] # Main[1]
        BY <3>2, ToolchainAssumption
      <4> QED BY <2>2, <4>1
    <3>5. DOMAIN new[y] = FileFields /\ new[y].kind = "native"
      BY <3>2, <3>3, <3>4 DEF BroughtBy
    <3>6. y \notin gone
      BY <2>2 DEF Gone, LauncherDirs, Main
    <3>7. y \in DOMAIN s /\ s[y] = Cleaned(new[y], gone)
      BY <1>2, <1>5, <2>3, <3>6 DEF PackedTree, new
    <3>8. s[y].kind = "native"
      <4> HIDE DEF gone
      <4> QED BY <3>5, <3>7, PackedFacts
    <3> QED BY <1>3, <3>7, <3>8
  <2> QED BY <2>5, <2>6
<1> QED BY <1>6, <1>7

\* Where a file of the archive comes from.
LEMMA ArchiveFrom ==
    ASSUME NEW t \in Projects, NEW main, NEW req \in Requirements, req # {}, NEW now,
           ~BundleRefuses(t, main, req, Dists, now)
    PROVE  LET a == Archive(t, main, req, Dists, now)
           IN  /\ \A x \in DOMAIN a : a[x].kind # "native"
               /\ \A x \in DOMAIN Stage(t) : x[1] \notin Items(req) => x \in DOMAIN a /\ a[x].from = "app"
               /\ (\A d \in req : Launcher(d) \notin DOMAIN t) =>
                     \A x \in DOMAIN a : a[x].kind = "script" => a[x].from = "app"
<1> DEFINE c == Copied(t, main)
           a == Archive(t, main, req, Dists, now)
           s == Staged(t, main, req, Dists, now)
           gone == Gone(c, req)
           new == Installed(req, Dists, now)
<1>1. CopyOf(c, t)
  BY CopiedFacts DEF BundleRefuses
<1>2. PackedTree(a, s, c, req, now)
  BY ArchiveFacts
<1>3. \A x \in DOMAIN s : s[x].kind # "native"
  BY DEF BundleRefuses, RefuseNativeExtensions
<1>4. ASSUME NEW x \in NewPaths(req) PROVE BroughtBy(new[x], x, Owner(req, x), now)
  BY NewFile
<1> HIDE DEF c, a, s
<1>5. ASSUME NEW x \in NewPaths(req), x \in DOMAIN a
      PROVE  PackedFrom(a[x], new[x], gone) /\ s[x].kind = new[x].kind
  <2>1. a[x] = Packed(new[x], gone) /\ s[x] = Cleaned(new[x], gone)
    BY <1>2, <1>5 DEF PackedTree
  <2>2. DOMAIN new[x] = FileFields
    BY <1>4 DEF BroughtBy
  <2> HIDE DEF new, gone
  <2> QED BY <2>1, <2>2, PackedFacts
<1>6. ASSUME NEW x \in Survivors(c, req), x \in DOMAIN a
      PROVE  PackedFrom(a[x], c[x], gone) /\ s[x].kind = c[x].kind
  <2>1. a[x] = Packed(c[x], gone) /\ s[x] = Cleaned(c[x], gone)
    BY <1>2, <1>6 DEF PackedTree
  <2>2. DOMAIN c[x] = FileFields
    BY <1>1 DEF CopyOf, IsTree, Survivors
  <2> HIDE DEF gone
  <2> QED BY <2>1, <2>2, PackedFacts
<1>7. ASSUME NEW x \in DOMAIN a
      PROVE  x \in NewPaths(req) \/ x \in Survivors(c, req)
  BY <1>2 DEF PackedTree
<1>8. ASSUME NEW x \in DOMAIN a PROVE a[x].kind # "native"
  <2>1. s[x].kind # "native"
    BY <1>2, <1>3 DEF PackedTree
  <2> QED BY <1>5, <1>6, <1>7, <2>1 DEF PackedFrom
<1>9. ASSUME NEW x \in DOMAIN Stage(t), x[1] \notin Items(req)
      PROVE  x \in DOMAIN a /\ a[x].from = "app"
  <2>1. x \in DOMAIN c /\ c[x].from = "app"
    BY <1>1 DEF CopyOf
  <2>2. x \in Survivors(c, req) /\ x \notin gone
    BY <1>9, <2>1 DEF Survivors, Gone
  <2>3. x \in DOMAIN a
    BY <1>2, <2>2 DEF PackedTree
  <2> QED BY <1>6, <2>1, <2>2, <2>3 DEF PackedFrom
<1>10. ASSUME \A d \in req : Launcher(d) \notin DOMAIN t,
              NEW x \in DOMAIN a, a[x].kind = "script"
       PROVE  a[x].from = "app"
  <2>1. CASE x \in NewPaths(req)
    <3> DEFINE d == Owner(req, x)
    <3>1. new[x].kind = "script"
      BY <1>5, <1>10, <2>1 DEF PackedFrom
    <3>2. x = Launcher(d) /\ d \in req
      BY <1>4, <2>1, <3>1, NewFile DEF BroughtBy
    <3>3. x \notin DOMAIN c
      BY <1>1, <1>10, <3>2 DEF CopyOf, Launcher, Main
    <3>4. x \in gone
      BY <2>1, <3>2, <3>3, LauncherGone
    <3> QED BY <1>2, <3>4 DEF PackedTree
  <2>2. CASE x \in Survivors(c, req)
    <3>1. a[x].kind = c[x].kind /\ a[x].from = c[x].from /\ x \in DOMAIN c
      BY <1>6, <2>2 DEF PackedFrom, Survivors
    <3> QED BY <1>1, <1>10, <3>1 DEF CopyOf
  <2> QED BY <1>7, <2>1, <2>2
<1> QED BY <1>8, <1>9, <1>10 DEF a

\* The archive does not depend on when it was made.
LEMMA ArchiveAnyTime ==
    ASSUME NEW t \in Projects, NEW main, NEW req \in Requirements, req # {},
           NEW now1, NEW now2,
           ~BundleRefuses(t, main, req, Dists, now1),
           \A d \in req : Launcher(d) \notin DOMAIN t
    PROVE  Archive(t, main, req, Dists, now1) = Archive(t, main, req, Dists, now2)
<1> DEFINE c == Copied(t, main)
           a1 == Archive(t, main, req, Dists, now1)
           a2 == Archive(t, main, req, Dists, now2)
           s1 == Staged(t, main, req, Dists, now1)
           s2 == Staged(t, main, req, Dists, now2)
           gone == Gone(c, req)
           new1 == Installed(req, Dists, now1)
           new2 == Installed(req, Dists, now2)
<1>1. CopyOf(c, t)
  BY CopiedFacts DEF BundleRefuses
<1>2. PackedTree(a1, s1, c, req, now1) /\ PackedTree(a2, s2, c, req, now2)
  BY ArchiveFacts
<1>3. /\ a1 = [x \in DOMAIN a1 |-> a1[x]]
      /\ a2 = [x \in DOMAIN a2 |-> a2[x]]
  BY DEF Archive, NormalizeMtimes
<1>4. \A d \in req : Launcher(d) \notin DOMAIN c
  BY <1>1 DEF CopyOf, Launcher, Main
<1> HIDE DEF c, a1, a2, s1, s2
<1>5. DOMAIN a1 = DOMAIN a2
  BY <1>2 DEF PackedTree
<1>6. ASSUME NEW x \in DOMAIN a1 PROVE a1[x] = a2[x]
  <2>1. CASE x \notin NewPaths(req)
    <3>1. a1[x] = Packed(c[x], gone) /\ a2[x] = Packed(c[x], gone)
      BY <1>2, <1>5, <2>1 DEF PackedTree
    <3> QED BY <3>1
  <2>2. CASE x \in NewPaths(req)
    <3> DEFINE d == Owner(req, x)
               f == new1[x]
               g == new2[x]
    <3>1. a1[x] = Packed(f, gone) /\ a2[x] = Packed(g, gone)
      BY <1>2, <1>5, <2>2 DEF PackedTree
    <3>2. d \in req /\ x \in WheelPaths(d, Dists[d]) /\ BroughtBy(f, x, d, now1) /\ BroughtBy(g, x, d, now2)
      BY <2>2, NewFile
    <3>3. x # Launcher(d)
      <4> SUFFICES ASSUME x = Launcher(d) PROVE FALSE
        OBVIOUS
      <4>1. x \in gone
        BY <1>4, <2>2, <3>2, LauncherGone
      <4> QED BY <1>2, <4>1 DEF PackedTree
    <3>4. {r \in RowsOf(d, Dists[d], now1) : r.path \notin gone}
            = {r \in RowsOf(d, Dists[d], now2) : r.path \notin gone}
      <4>1. CASE "script" \in Dists[d]
        <5>1. Launcher(d) \in NewPaths(req)
          BY <3>2, <4>1 DEF NewPaths, WheelPaths
        <5>2. Launcher(d) \in gone
          BY <1>4, <3>2, <5>1, LauncherGone
        <5> HIDE DEF gone, d
        <5> QED BY <4>1, <5>2 DEF RowsOf
      <4>2. CASE "script" \notin Dists[d]
        BY <4>2 DEF RowsOf
      <4> QED BY <4>1, <4>2
    <3> HIDE DEF f, g, gone, d
    <3>5. DOMAIN f = FileFields /\ DOMAIN g = FileFields /\ f.from = g.from
          /\ f.kind = g.kind /\ f.stamp = g.stamp
      BY <3>2, <3>3 DEF BroughtBy
    <3>6. (f.kind # "record" => f.rows = g.rows)
          /\ (f.kind = "record" => f.rows = RowsOf(d, Dists[d], now1) /\ g.rows = RowsOf(d, Dists[d], now2))
      BY <3>2, <3>3 DEF BroughtBy
    <3> DEFINE pf == Packed(f, gone)
               pg == Packed(g, gone)
    <3>7. PackedFrom(pf, f, gone) /\ PackedFrom(pg, g, gone)
      BY <3>5, PackedFacts
    <3>8. pf = [y \in DOMAIN pf |-> pf[y]] /\ pg = [y \in DOMAIN pg |-> pg[y]]
      BY DEF Packed
    <3> HIDE DEF pf, pg
    <3>9. /\ DOMAIN pf = FileFields /\ DOMAIN pg = FileFields
          /\ pf.kind = pg.kind /\ pf.from = pg.from /\ pf.stamp = pg.stamp /\ pf.mtime = pg.mtime
      BY <3>5, <3>7 DEF PackedFrom
    <3>10. pf.rows = pg.rows
      <4>1. CASE f.kind # "record"
        BY <3>5, <3>6, <3>7, <4>1 DEF PackedFrom
      <4>2. CASE f.kind = "record"
        <5>1. pf.rows = {r \in RowsOf(d, Dists[d], now1) : r.path \notin gone}
          BY <3>6, <3>7, <4>2 DEF PackedFrom
        <5>2. pg.rows = {r \in RowsOf(d, Dists[d], now2) : r.path \notin gone}
          BY <3>5, <3>6, <3>7, <4>2 DEF PackedFrom
        <5> QED BY <3>4, <5>1, <5>2
      <4> QED BY <4>1, <4>2
    <3>11. pf = pg
      BY <3>8, <3>9, <3>10, SameFile
    <3> QED BY <3>1, <3>11 DEF pf, pg
  <2> QED BY <2>1, <2>2
<1>7. a1 = a2
  BY <1>3, <1>5, <1>6
<1> QED BY <1>7 DEF a1, a2

RightArchive(a, t, req) ==
    /\ Main \in DOMAIN a
    /\ \A x \in DOMAIN a : a[x].kind # "native"
    /\ \A x \in DOMAIN Stage(t) : x[1] \notin Items(req) => x \in DOMAIN a /\ a[x].from = "app"
    /\ (\A d \in req : Launcher(d) \notin DOMAIN t) =>
          \A x \in DOMAIN a : a[x].kind = "script" => a[x].from = "app"

\* Nothing to install: the archive is the copy.
LEMMA PlainArchive ==
    ASSUME NEW t \in Projects, NEW main, NEW now, ~BundleRefuses(t, main, {}, Dists, now)
    PROVE  /\ RightArchive(Archive(t, main, {}, Dists, now), t, {})
           /\ Archive(t, main, {}, Dists, now) = NormalizeMtimes(Copied(t, main))
<1> DEFINE c == Copied(t, main)
           a == Archive(t, main, {}, Dists, now)
<1>1. CopyOf(c, t)
  BY CopiedFacts DEF BundleRefuses
<1>2. Staged(t, main, {}, Dists, now) = c
  BY DEF Staged, Copied
<1>3. a = NormalizeMtimes(c)
  BY <1>2 DEF Archive
<1>4. \A x \in DOMAIN c : c[x].kind # "native"
  BY <1>2 DEF BundleRefuses, RefuseNativeExtensions
<1> HIDE DEF a, c
<1>5. DOMAIN a = DOMAIN c /\ \A x \in DOMAIN c : a[x] = [c[x] EXCEPT !.mtime = 0]
  BY <1>3 DEF NormalizeMtimes
<1>6. ASSUME NEW x \in DOMAIN c PROVE a[x].kind = c[x].kind /\ a[x].from = c[x].from
  <2>1. DOMAIN c[x] = FileFields
    BY <1>1 DEF CopyOf, IsTree
  <2>2. a[x] = [c[x] EXCEPT !.mtime = 0]
    BY <1>5
  <2> QED BY <2>1, <2>2 DEF FileFields
<1>7. RightArchive(a, t, {})
  BY <1>1, <1>4, <1>5, <1>6 DEF RightArchive, CopyOf
<1> QED BY <1>3, <1>7 DEF a, c

LEMMA ArchiveIsRight ==
    ASSUME NEW t \in Projects, NEW main, NEW req \in Requirements, NEW now,
           ~BundleRefuses(t, main, req, Dists, now)
    PROVE  RightArchive(Archive(t, main, req, Dists, now), t, req)
<1>1. CASE req = {}
  BY <1>1, PlainArchive
<1>2. CASE req # {}
  BY <1>2, MainPacked, ArchiveFrom DEF RightArchive
<1> QED BY <1>1, <1>2

LEMMA ArchiveSame ==
    ASSUME NEW t \in Projects, NEW main, NEW req \in Requirements, NEW now1, NEW now2,
           ~BundleRefuses(t, main, req, Dists, now1), ~BundleRefuses(t, main, req, Dists, now2),
           \A d \in req : Launcher(d) \notin DOMAIN t
    PROVE  Archive(t, main, req, Dists, now1) = Archive(t, main, req, Dists, now2)
<1>1. CASE req = {}
  <2>1. Archive(t, main, {}, Dists, now1) = NormalizeMtimes(Copied(t, main))
    BY <1>1, PlainArchive
  <2>2. Archive(t, main, {}, Dists, now2) = NormalizeMtimes(Copied(t, main))
    BY <1>1, PlainArchive
  <2> QED BY <1>1, <2>1, <2>2
<1>2. CASE req # {}
  BY <1>2, ArchiveAnyTime
<1> QED BY <1>1, <1>2

\* A bundle has one entry point, no extension module, no launcher, every file of the
\* project that no distribution replaces, and does not depend on the time (ArchiveRight).
THEOREM ArchiveRightCorrect == Spec => []ArchiveRight
<1>1. ToolchainInv => ArchiveRight
  <2> SUFFICES ASSUME ToolchainInv, NEW p \in Procs, Staging(p)
               PROVE  LET tree == proc[p].data.what.tree
                          app  == Stage(proc[p].data.what.project)
                      IN  /\ Main \in DOMAIN tree
                          /\ \A x \in DOMAIN tree : tree[x].kind # "native"
                          /\ \A x \in DOMAIN app : ~Shadowed(p, x) => x \in DOMAIN tree /\ tree[x].from = "app"
                          /\ ~OwnLauncher(p) =>
                               /\ \A x \in DOMAIN tree : tree[x].kind = "script" => tree[x].from = "app"
                               /\ \A q \in Procs : Staging(q) /\ SameInput(p, q) => tree = proc[q].data.what.tree
    BY DEF ArchiveRight
  <2> DEFINE Of(q, t, now) ==
               /\ ~BundleRefuses(t, proc[q].input.main, proc[q].input.requirement, Dists, now)
               /\ proc[q].data.what.project = t
               /\ proc[q].data.what.tree =
                    Archive(t, proc[q].input.main, proc[q].input.requirement, Dists, now)
  <2>1. ASSUME NEW q \in Procs, Staging(q)
        PROVE  /\ proc[q].input.requirement \in Requirements
               /\ \E t \in Projects, now \in Nat : Of(q, t, now)
    <3>1. Holds(proc[q]) /\ proc[q].cmd = "bundle" /\ proc[q].data.is = "whole"
      BY <2>1 DEF ToolchainInv, ProcInv, Staging
    <3>2. proc[q].input \in [requirement : Requirements, main : Mains]
      BY <3>1 DEF Holds, Typed, Inputs
    <3>3. Built(proc[q].input, proc[q].data.what)
      BY <3>1 DEF Holds, HoldsArchive
    <3>4. PICK t \in Projects, now \in Nat :
              /\ ~BundleRefuses(t, proc[q].input.main, proc[q].input.requirement, Dists, now)
              /\ proc[q].data.what =
                   [project |-> t,
                    tree |-> Archive(t, proc[q].input.main, proc[q].input.requirement, Dists, now)]
      BY <3>3 DEF Built
    <3>5. Of(q, t, now)
      BY <3>4
    <3> QED BY <3>2, <3>5
  <2> DEFINE req == proc[p].input.requirement
             main == proc[p].input.main
  <2>2. req \in Requirements
    BY <2>1
  <2>3. PICK t \in Projects, now \in Nat : Of(p, t, now)
    BY <2>1
  <2>4. RightArchive(proc[p].data.what.tree, t, req)
    BY <2>2, <2>3, ArchiveIsRight
  <2>5. \A x : Shadowed(p, x) <=> x[1] \in Items(req)
    BY InstalledFacts DEF Shadowed, Items
  <2>6. OwnLauncher(p) <=> \E d \in req : Launcher(d) \in DOMAIN t
    BY <2>3 DEF OwnLauncher
  <2>7. ASSUME NEW q \in Procs, Staging(q), SameInput(p, q), ~OwnLauncher(p)
        PROVE  proc[p].data.what.tree = proc[q].data.what.tree
    <3>1. PICK u \in Projects, then \in Nat : Of(q, u, then)
      BY <2>1, <2>7
    <3>2. u = t /\ proc[q].input = proc[p].input
      BY <2>3, <2>7, <3>1 DEF SameInput
    <3>3. ~BundleRefuses(t, main, req, Dists, then)
          /\ proc[q].data.what.tree = Archive(t, main, req, Dists, then)
      BY <3>1, <3>2
    <3>4. Archive(t, main, req, Dists, now) = Archive(t, main, req, Dists, then)
      BY <2>2, <2>3, <2>6, <2>7, <3>3, ArchiveSame
    <3> QED BY <2>3, <3>3, <3>4
  <2> HIDE DEF Of
  <2>8. proc[p].data.what.project = t
    BY <2>3 DEF Of
  <2> QED BY <2>4, <2>5, <2>6, <2>7, <2>8 DEF RightArchive
<1> QED BY <1>1, ToolchainCorrect, PTL

-----------------------------------------------------------------------------
(* The loop over an upload.                                                *)

\* What holds of 0 and goes from each number to the next holds up to the last.
LEMMA UpInduction ==
    ASSUME NEW n \in Nat, NEW S, 0 \in S, \A k \in 1 .. n : k - 1 \in S => k \in S
    PROVE  \A k \in 0 .. n : k \in S
<1> DEFINE Less == {ss \in Nat \X Nat : ss[1] < ss[2]}
           T == {k \in 0 .. n : k \notin S}
<1>1. IsWellFoundedOn(Less, Nat)
  BY NatLessThanWellFounded DEF OpToRel
<1> SUFFICES ASSUME T # {} PROVE FALSE
  OBVIOUS
<1>2. T \subseteq Nat
  OBVIOUS
<1> HIDE DEF T
<1>3. PICK m \in T : \A y \in T : ~ (<<y, m>> \in Less)
  BY <1>1, <1>2, WFMin
<1> USE DEF T
<1>4. m \in 1 .. n /\ m - 1 \in 0 .. n /\ m - 1 < m
  BY <1>3
<1>5. <<m - 1, m>> \in Less
  BY <1>4
<1>6. m - 1 \notin T
  <2> HIDE DEF T, Less
  <2> QED BY <1>3, <1>5
<1> QED BY <1>3, <1>4, <1>6

NothingSeen == [ok |-> TRUE, seen |-> [p \in {} |-> TRUE], total |-> 0]
Follows(after, entries, n) ==
    after = [k \in 0 .. n |-> IF k = 0 THEN NothingSeen ELSE Visit(after[k - 1], entries[k])]

LEMMA LoopExists ==
    ASSUME NEW entries, NEW n \in Nat
    PROVE  \E after : Follows(after, entries, n)
<1> DEFINE S == {k \in 0 .. n : \E after : Follows(after, entries, k)}
<1>1. 0 \in S
  <2> DEFINE f == [k \in 0 .. 0 |-> NothingSeen]
  <2>1. Follows(f, entries, 0)
    <3>1. f = [k \in 0 .. 0 |-> IF k = 0 THEN NothingSeen ELSE Visit(f[k - 1], entries[k])]
      BY \A k \in 0 .. 0 : k = 0
    <3> QED BY <3>1 DEF Follows
  <2> QED BY <2>1
<1>2. ASSUME NEW m \in 1 .. n, m - 1 \in S PROVE m \in S
  <2>1. PICK g : Follows(g, entries, m - 1)
    BY <1>2
  <2> DEFINE f == [k \in 0 .. m |-> IF k = m THEN Visit(g[m - 1], entries[m]) ELSE g[k]]
  <2>2. ASSUME NEW k \in 0 .. m
        PROVE  f[k] = IF k = 0 THEN NothingSeen ELSE Visit(f[k - 1], entries[k])
    <3>1. CASE k = m
      <4>1. f[k - 1] = g[m - 1]
        BY <3>1
      <4> QED BY <3>1, <4>1
    <3>2. CASE k # m
      <4>1. k \in 0 .. m - 1 /\ f[k] = g[k]
        BY <3>2
      <4>2. k # 0 => f[k - 1] = g[k - 1]
        BY <4>1
      <4>3. g[k] = IF k = 0 THEN NothingSeen ELSE Visit(g[k - 1], entries[k])
        BY <2>1, <4>1 DEF Follows
      <4> QED BY <4>1, <4>2, <4>3
    <3> QED BY <3>1, <3>2
  <2>3. DOMAIN f = 0 .. m
    OBVIOUS
  <2>4. f = [k \in 0 .. m |-> f[k]]
    OBVIOUS
  <2> HIDE DEF f
  <2>5. f = [k \in 0 .. m |-> IF k = 0 THEN NothingSeen ELSE Visit(f[k - 1], entries[k])]
    BY <2>2, <2>4
  <2>6. Follows(f, entries, m)
    BY <2>5 DEF Follows
  <2> QED BY <2>6
<1> HIDE DEF S
<1>3. n \in S
  BY <1>1, <1>2, UpInduction
<1> QED BY <1>3 DEF S

LEMMA LoopIs ==
    ASSUME NEW entries, Len(entries) \in Nat
    PROVE  \E after : Follows(after, entries, Len(entries)) /\ Loop(entries) = after[Len(entries)]
<1> DEFINE n == Len(entries)
           Is(after) == after = [k \in 0 .. n |->
                IF k = 0 THEN [ok |-> TRUE, seen |-> [p \in {} |-> TRUE], total |-> 0]
                ELSE Visit(after[k - 1], entries[k])]
           f == CHOOSE after : Is(after)
<1>1. \E after : Is(after)
  BY LoopExists DEF Follows, NothingSeen
<1>2. Is(f)
  BY <1>1
<1>3. Loop(entries) = f[n]
  BY DEF Loop
<1> HIDE DEF f
<1> QED BY <1>2, <1>3 DEF Follows, NothingSeen

SumsTo(upTo, entries, n) ==
    upTo = [k \in 0 .. n |-> IF k = 0 THEN 0 ELSE upTo[k - 1] + Size(entries[k])]

LEMMA SumExists ==
    ASSUME NEW entries, NEW n \in Nat
    PROVE  \E upTo : SumsTo(upTo, entries, n)
<1> DEFINE S == {k \in 0 .. n : \E upTo : SumsTo(upTo, entries, k)}
<1>1. 0 \in S
  <2> DEFINE f == [k \in 0 .. 0 |-> 0]
  <2>1. SumsTo(f, entries, 0)
    <3>1. f = [k \in 0 .. 0 |-> IF k = 0 THEN 0 ELSE f[k - 1] + Size(entries[k])]
      BY \A k \in 0 .. 0 : k = 0
    <3> QED BY <3>1 DEF SumsTo
  <2> QED BY <2>1
<1>2. ASSUME NEW m \in 1 .. n, m - 1 \in S PROVE m \in S
  <2>1. PICK g : SumsTo(g, entries, m - 1)
    BY <1>2
  <2> DEFINE f == [k \in 0 .. m |-> IF k = m THEN g[m - 1] + Size(entries[m]) ELSE g[k]]
  <2>2. ASSUME NEW k \in 0 .. m
        PROVE  f[k] = IF k = 0 THEN 0 ELSE f[k - 1] + Size(entries[k])
    <3>1. CASE k = m
      <4>1. f[k - 1] = g[m - 1]
        BY <3>1
      <4> QED BY <3>1, <4>1
    <3>2. CASE k # m
      <4>1. k \in 0 .. m - 1 /\ f[k] = g[k]
        BY <3>2
      <4>2. k # 0 => f[k - 1] = g[k - 1]
        BY <4>1
      <4>3. g[k] = IF k = 0 THEN 0 ELSE g[k - 1] + Size(entries[k])
        BY <2>1, <4>1 DEF SumsTo
      <4> QED BY <4>1, <4>2, <4>3
    <3> QED BY <3>1, <3>2
  <2>3. f = [k \in 0 .. m |-> f[k]]
    OBVIOUS
  <2> HIDE DEF f
  <2>4. f = [k \in 0 .. m |-> IF k = 0 THEN 0 ELSE f[k - 1] + Size(entries[k])]
    BY <2>2, <2>3
  <2>5. SumsTo(f, entries, m)
    BY <2>4 DEF SumsTo
  <2> QED BY <2>5
<1> HIDE DEF S
<1>3. n \in S
  BY <1>1, <1>2, UpInduction
<1> QED BY <1>3 DEF S

LEMMA TotalSizeIs ==
    ASSUME NEW entries, Len(entries) \in Nat
    PROVE  \E upTo : SumsTo(upTo, entries, Len(entries)) /\ TotalSize(entries) = upTo[Len(entries)]
<1> DEFINE n == Len(entries)
           Is(upTo) == upTo = [k \in 0 .. n |-> IF k = 0 THEN 0 ELSE upTo[k - 1] + Size(entries[k])]
           f == CHOOSE upTo : Is(upTo)
<1>1. \E upTo : Is(upTo)
  BY SumExists DEF SumsTo
<1>2. Is(f)
  BY <1>1
<1>3. TotalSize(entries) = f[n]
  BY DEF TotalSize
<1> HIDE DEF f
<1> QED BY <1>2, <1>3 DEF SumsTo

AccFields == {"ok", "seen", "total"}
Accepts(acc, e) ==
    acc.ok /\ ~BadMember(e) /\ e.path \notin DOMAIN acc.seen /\ ~ (acc.total + Size(e) > MaxTotal)
Visits(v, acc, e) ==
    /\ DOMAIN v = AccFields /\ v.ok \in BOOLEAN
    /\ v.ok <=> Accepts(acc, e)
    /\ v.ok => /\ v.total = acc.total + Size(e)
               /\ DOMAIN v.seen = DOMAIN acc.seen \cup {e.path}
               /\ v.seen[e.path] = e.dir
               /\ \A x \in DOMAIN acc.seen : x # e.path => v.seen[x] = acc.seen[x]

LEMMA VisitFacts ==
    ASSUME NEW acc, DOMAIN acc = AccFields, acc.ok \in BOOLEAN, NEW e
    PROVE  Visits(Visit(acc, e), acc, e)
<1> DEFINE v == Visit(acc, e)
           seen == Over([p \in {e.path} |-> e.dir], acc.seen)
<1>1. CASE ~Accepts(acc, e)
  <2>1. v = [acc EXCEPT !.ok = FALSE]
    BY <1>1 DEF Visit, Accepts
  <2> QED BY <1>1, <2>1 DEF Visits, AccFields
<1>2. CASE Accepts(acc, e)
  <2>1. v = [acc EXCEPT !.total = acc.total + Size(e), !.seen = seen]
    BY <1>2 DEF Visit, Accepts, AccFields
  <2>2. /\ DOMAIN seen = DOMAIN acc.seen \cup {e.path} /\ seen[e.path] = e.dir
        /\ \A x \in DOMAIN acc.seen : x # e.path => seen[x] = acc.seen[x]
    BY DEF Over
  <2> HIDE DEF seen, v
  <2>3. DOMAIN v = AccFields /\ v.ok = acc.ok /\ v.total = acc.total + Size(e) /\ v.seen = seen
    BY <2>1 DEF AccFields
  <2>4. v.ok
    BY <1>2, <2>3 DEF Accepts
  <2>5. Visits(v, acc, e)
    BY <1>2, <2>2, <2>3, <2>4 DEF Visits
  <2> QED BY <2>5 DEF v
<1> QED BY <1>1, <1>2

\* The first n entries keep the rules that the loop looks at.
Fine(e, upTo, n) ==
    /\ \A i \in 1 .. n : ~BadMember(e[i])
    /\ \A i, j \in 1 .. n : e[i].path = e[j].path => i = j
    /\ upTo[n] <= MaxTotal
Seen(acc, e, upTo, n) ==
    /\ acc.total = upTo[n]
    /\ DOMAIN acc.seen = {e[i].path : i \in 1 .. n}
    /\ \A i \in 1 .. n : acc.seen[e[i].path] = e[i].dir
LoopInv(acc, e, upTo, n) ==
    /\ DOMAIN acc = AccFields /\ acc.ok \in BOOLEAN /\ upTo[n] \in Nat
    /\ acc.ok <=> Fine(e, upTo, n)
    /\ acc.ok => Seen(acc, e, upTo, n)

LEMMA LoopStep ==
    ASSUME NEW e, NEW upTo, NEW n \in Nat, NEW acc, LoopInv(acc, e, upTo, n),
           Size(e[n + 1]) \in Nat, upTo[n + 1] = upTo[n] + Size(e[n + 1]), NEW v,
           Visits(v, acc, e[n + 1])
    PROVE  LoopInv(v, e, upTo, n + 1)
<1> DEFINE x == e[n + 1]
<1>1. upTo[n] \in Nat /\ upTo[n + 1] \in Nat /\ upTo[n] <= upTo[n + 1]
  BY DEF LoopInv
<1>2. n + 1 \in 1 .. n + 1 /\ \A i \in 1 .. n + 1 : i \in 1 .. n \/ i = n + 1
  OBVIOUS
<1>2a. \A i \in 1 .. n : i \in 1 .. n + 1 /\ i # n + 1
  OBVIOUS
<1>3. ASSUME Fine(e, upTo, n + 1) PROVE v.ok
  <2>1. Fine(e, upTo, n)
    <3>1. upTo[n] <= MaxTotal
      BY <1>1, <1>3 DEF Fine, MaxTotal
    <3> QED BY <1>2a, <1>3, <3>1 DEF Fine
  <2>2. acc.ok /\ Seen(acc, e, upTo, n)
    BY <2>1 DEF LoopInv
  <2>3. ~BadMember(x)
    BY <1>2, <1>3 DEF Fine
  <2>4. x.path \notin DOMAIN acc.seen
    <3> SUFFICES ASSUME NEW i \in 1 .. n, e[i].path = x.path PROVE FALSE
      BY <2>2 DEF Seen
    <3> QED BY <1>2, <1>2a, <1>3 DEF Fine
  <2>5. ~ (acc.total + Size(x) > MaxTotal)
    BY <1>1, <1>3, <2>2 DEF Fine, Seen, MaxTotal
  <2> QED BY <2>2, <2>3, <2>4, <2>5 DEF Visits, Accepts
<1>4. ASSUME v.ok PROVE Fine(e, upTo, n + 1) /\ Seen(v, e, upTo, n + 1)
  <2>1. Accepts(acc, x)
    BY <1>4 DEF Visits
  <2>2. Fine(e, upTo, n) /\ Seen(acc, e, upTo, n)
    BY <2>1 DEF Accepts, LoopInv
  <2>3. /\ v.total = acc.total + Size(x)
        /\ DOMAIN v.seen = DOMAIN acc.seen \cup {x.path}
        /\ v.seen[x.path] = x.dir
        /\ \A y \in DOMAIN acc.seen : y # x.path => v.seen[y] = acc.seen[y]
    BY <1>4 DEF Visits
  <2>4. ASSUME NEW i \in 1 .. n PROVE e[i].path # x.path /\ e[i].path \in DOMAIN acc.seen
    BY <2>1, <2>2 DEF Accepts, Seen
  <2>5. \A i \in 1 .. n + 1 : ~BadMember(e[i])
    BY <1>2, <2>1, <2>2 DEF Fine, Accepts
  <2>6. ASSUME NEW i \in 1 .. n + 1, NEW j \in 1 .. n + 1, e[i].path = e[j].path PROVE i = j
    <3>1. CASE i \in 1 .. n /\ j \in 1 .. n
      BY <2>2, <2>6, <3>1 DEF Fine
    <3>2. CASE i \in 1 .. n /\ j = n + 1
      BY <2>4, <2>6, <3>2
    <3>3. CASE i = n + 1 /\ j \in 1 .. n
      BY <2>4, <2>6, <3>3
    <3> QED BY <1>2, <3>1, <3>2, <3>3
  <2>7. upTo[n + 1] <= MaxTotal
    BY <1>1, <2>1, <2>2 DEF Accepts, Seen, MaxTotal
  <2>8. Fine(e, upTo, n + 1)
    BY <2>5, <2>6, <2>7 DEF Fine
  <2>9. v.total = upTo[n + 1]
    BY <2>2, <2>3 DEF Seen
  <2>10. DOMAIN v.seen = {e[i].path : i \in 1 .. n + 1}
    <3>1. DOMAIN v.seen = {e[i].path : i \in 1 .. n} \cup {x.path}
      BY <2>2, <2>3 DEF Seen
    <3> QED BY <1>2, <1>2a, <3>1
  <2>11. ASSUME NEW i \in 1 .. n + 1 PROVE v.seen[e[i].path] = e[i].dir
    <3>1. CASE i \in 1 .. n
      BY <2>2, <2>3, <2>4, <3>1 DEF Seen
    <3>2. CASE i = n + 1
      BY <2>3, <3>2
    <3> QED BY <1>2, <3>1, <3>2
  <2> QED BY <2>8, <2>9, <2>10, <2>11 DEF Seen
<1> QED BY <1>1, <1>3, <1>4 DEF LoopInv, Visits

Listed(e) ==
    /\ IsSeq(e)
    /\ \A x \in ToSet(e) : IsSeq(x.path) /\ x.dir \in BOOLEAN /\ x.size \in Nat

LEMMA LoopSays ==
    ASSUME NEW e, Listed(e)
    PROVE  \E upTo : TotalSize(e) = upTo[Len(e)] /\ LoopInv(Loop(e), e, upTo, Len(e))
<1> DEFINE n == Len(e)
<1>1. n \in Nat /\ \A i \in 1 .. n : e[i] \in ToSet(e)
  BY SeqFacts DEF Listed
<1>2. \A i \in 1 .. n : Size(e[i]) \in Nat
  BY <1>1 DEF Listed, Size
<1> HIDE DEF n
<1>3. PICK after : Follows(after, e, n) /\ Loop(e) = after[n]
  BY <1>1, LoopIs DEF n
<1>4. PICK upTo : SumsTo(upTo, e, n) /\ TotalSize(e) = upTo[n]
  BY <1>1, TotalSizeIs DEF n
<1>5. /\ after[0] = NothingSeen /\ upTo[0] = 0
      /\ \A k \in 1 .. n : after[k] = Visit(after[k - 1], e[k]) /\ upTo[k] = upTo[k - 1] + Size(e[k])
  BY <1>1, <1>3, <1>4 DEF Follows, SumsTo
<1> DEFINE S == {k \in 0 .. n : LoopInv(after[k], e, upTo, k)}
<1>6. 0 \in S
  <2>1. LoopInv(NothingSeen, e, upTo, 0)
    BY <1>5 DEF LoopInv, NothingSeen, AccFields, Fine, Seen, MaxTotal
  <2> QED BY <1>1, <1>5, <2>1
<1>7. ASSUME NEW k \in 1 .. n, k - 1 \in S PROVE k \in S
  <2> DEFINE m == k - 1
  <2>1. m \in Nat /\ m + 1 = k
    BY <1>1
  <2>2. LoopInv(after[m], e, upTo, m)
    BY <1>7
  <2>3. Visits(after[k], after[m], e[k])
    <3>1. DOMAIN after[m] = AccFields /\ after[m].ok \in BOOLEAN
      BY <2>2 DEF LoopInv
    <3>2. after[k] = Visit(after[m], e[k])
      BY <1>5
    <3> HIDE DEF m
    <3> QED BY <3>1, <3>2, VisitFacts
  <2>4. upTo[k] = upTo[m] + Size(e[k]) /\ Size(e[k]) \in Nat
    BY <1>2, <1>5
  <2>5. LoopInv(after[m + 1], e, upTo, m + 1)
    <3>1. Visits(after[m + 1], after[m], e[m + 1]) /\ upTo[m + 1] = upTo[m] + Size(e[m + 1])
          /\ Size(e[m + 1]) \in Nat
      BY <2>1, <2>3, <2>4
    <3> HIDE DEF m
    <3> QED BY <2>1, <2>2, <3>1, LoopStep
  <2> QED BY <2>1, <2>5
<1> HIDE DEF S
<1>8. n \in S
  BY <1>1, <1>6, <1>7, UpInduction
<1>9. LoopInv(Loop(e), e, upTo, n)
  BY <1>3, <1>8 DEF S
<1> QED BY <1>4, <1>9 DEF n

\* A path above another is a prefix of it.
LEMMA PrefixFacts ==
    ASSUME NEW p, NEW q, IsSeq(p), IsSeq(q), p # <<>>
    PROVE  /\ IsPrefix(p, p)
           /\ (IsPrefix(p, q) /\ p # q) <=> \E k \in 1 .. Len(q) - 1 : SubSeq(q, 1, k) = p
<1> DEFINE A == ToSet(p)
           B == ToSet(q)
<1>1. p \in Seq(A) /\ q \in Seq(B)
  BY DEF IsSeq
<1> HIDE DEF A, B
<1>2. Len(p) \in Nat /\ Len(q) \in Nat /\ Len(p) > 0
  BY <1>1
<1>3. SubSeq(p, 1, Len(p)) = p /\ SubSeq(q, 1, Len(q)) = q
  BY <1>1
<1>4. ASSUME IsPrefix(p, q), p # q PROVE \E k \in 1 .. Len(q) - 1 : SubSeq(q, 1, k) = p
  <2>1. Len(p) <= Len(q) /\ p = SubSeq(q, 1, Len(p))
    BY <1>3, <1>4 DEF IsPrefix
  <2>2. Len(p) # Len(q)
    BY <1>3, <1>4, <2>1
  <2>3. Len(p) \in 1 .. Len(q) - 1
    BY <1>2, <2>1, <2>2
  <2> QED BY <2>1, <2>3
<1>5. ASSUME NEW k \in 1 .. Len(q) - 1, SubSeq(q, 1, k) = p PROVE IsPrefix(p, q) /\ p # q
  <2>1. Len(SubSeq(q, 1, k)) = k
    BY <1>1, <1>2
  <2>2. Len(p) = k
    BY <1>5, <2>1
  <2> QED BY <1>2, <1>3, <1>5, <2>2 DEF IsPrefix
<1> QED BY <1>2, <1>4, <1>5 DEF IsPrefix

\* The loop and the look-up of the prefixes accept what the rules say.
LEMMA ReadSourcesSays ==
    ASSUME NEW zip, Listed(zip.entries)
    PROVE  ReadSources(zip) <=> WellFormed(zip)
<1> DEFINE e == zip.entries
           n == Len(e)
           acc == Loop(e)
           Apart == \A i, j \in 1 .. n : i # j =>
                      ~ (IsPrefix(e[i].path, e[j].path) /\ (~e[i].dir \/ e[i].path = e[j].path))
<1>1. n \in Nat /\ \A i \in 1 .. n : IsSeq(e[i].path) /\ e[i].dir \in BOOLEAN
  BY SeqFacts DEF Listed
<1>2. PICK upTo : TotalSize(e) = upTo[n] /\ LoopInv(acc, e, upTo, n)
  BY LoopSays
<1> HIDE DEF n, acc, e
<1>3. ASSUME Apart, \A i \in 1 .. n : ~BadMember(e[i])
      PROVE  \A i, j \in 1 .. n : e[i].path = e[j].path => i = j
  <2> SUFFICES ASSUME NEW i \in 1 .. n, NEW j \in 1 .. n, e[i].path = e[j].path, i # j PROVE FALSE
    OBVIOUS
  <2>1. IsPrefix(e[i].path, e[i].path)
    <3>1. e[i].path # <<>>
      BY <1>3 DEF BadMember, BadName
    <3> QED BY <1>1, <3>1, PrefixFacts
  <2> QED BY <1>3, <2>1
<1>4. ASSUME Fine(e, upTo, n) PROVE FileAndDirectory(acc.seen) <=> ~Apart
  <2>1. Seen(acc, e, upTo, n)
    BY <1>2, <1>4 DEF LoopInv
  <2>2. ASSUME NEW i \in 1 .. n, NEW j \in 1 .. n
        PROVE  (IsPrefix(e[i].path, e[j].path) /\ e[i].path # e[j].path)
                 <=> \E k \in 1 .. Len(e[j].path) - 1 : SubSeq(e[j].path, 1, k) = e[i].path
    <3>1. e[i].path # <<>>
      BY <1>4 DEF Fine, BadMember, BadName
    <3> QED BY <1>1, <3>1, PrefixFacts
  <2>3. ASSUME FileAndDirectory(acc.seen) PROVE ~Apart
    <3>1. PICK p \in DOMAIN acc.seen : \E k \in 1 .. Len(p) - 1 :
              SubSeq(p, 1, k) \in DOMAIN acc.seen /\ ~acc.seen[SubSeq(p, 1, k)]
      BY <2>3 DEF FileAndDirectory
    <3>2. PICK k \in 1 .. Len(p) - 1 : SubSeq(p, 1, k) \in DOMAIN acc.seen /\ ~acc.seen[SubSeq(p, 1, k)]
      BY <3>1
    <3>3. PICK j \in 1 .. n : p = e[j].path
      BY <2>1 DEF Seen
    <3>4. PICK i \in 1 .. n : SubSeq(p, 1, k) = e[i].path
      BY <2>1, <3>2 DEF Seen
    <3>5. IsPrefix(e[i].path, e[j].path) /\ e[i].path # e[j].path
      BY <2>2, <3>3, <3>4
    <3>6. ~e[i].dir /\ i # j
      BY <2>1, <3>2, <3>4, <3>5 DEF Seen
    <3> QED BY <3>5, <3>6
  <2>4. ASSUME ~Apart PROVE FileAndDirectory(acc.seen)
    <3>1. PICK i \in 1 .. n : \E j \in 1 .. n : i # j /\ IsPrefix(e[i].path, e[j].path)
                                 /\ (~e[i].dir \/ e[i].path = e[j].path)
      BY <2>4
    <3>2. PICK j \in 1 .. n : i # j /\ IsPrefix(e[i].path, e[j].path)
                                 /\ (~e[i].dir \/ e[i].path = e[j].path)
      BY <3>1
    <3>3. e[i].path # e[j].path
      BY <1>4, <3>2 DEF Fine
    <3>4. PICK k \in 1 .. Len(e[j].path) - 1 : SubSeq(e[j].path, 1, k) = e[i].path
      BY <2>2, <3>2, <3>3
    <3>5. e[i].path \in DOMAIN acc.seen /\ e[j].path \in DOMAIN acc.seen /\ acc.seen[e[i].path] = e[i].dir
      BY <2>1 DEF Seen
    <3>6. SubSeq(e[j].path, 1, k) \in DOMAIN acc.seen /\ ~acc.seen[SubSeq(e[j].path, 1, k)]
      BY <3>2, <3>3, <3>4, <3>5
    <3> QED BY <3>4, <3>5, <3>6 DEF FileAndDirectory
  <2> QED BY <2>3, <2>4
<1>5. (acc.ok /\ ~FileAndDirectory(acc.seen))
        <=> ((\A i \in 1 .. n : ~BadMember(e[i])) /\ Apart /\ TotalSize(e) <= MaxTotal)
  <2> HIDE DEF Apart
  <2>1. acc.ok <=> Fine(e, upTo, n)
    BY <1>2 DEF LoopInv
  <2>2. (\A i \in 1 .. n : ~BadMember(e[i])) /\ Apart /\ TotalSize(e) <= MaxTotal => Fine(e, upTo, n)
    BY <1>2, <1>3 DEF Fine
  <2>3. Fine(e, upTo, n) => (\A i \in 1 .. n : ~BadMember(e[i])) /\ TotalSize(e) <= MaxTotal
    BY <1>2 DEF Fine
  <2> QED BY <1>4, <2>1, <2>2, <2>3
<1>6. ReadSources(zip) <=> /\ zip.regular /\ zip.bounded /\ n <= MaxEntries
                           /\ acc.ok /\ ~FileAndDirectory(acc.seen)
  BY DEF ReadSources, n, acc, e
<1>7. WellFormed(zip) <=> /\ zip.regular /\ zip.bounded /\ n <= MaxEntries
                          /\ \A i \in 1 .. n : ~BadMember(e[i])
                          /\ Apart /\ TotalSize(e) <= MaxTotal
  BY DEF WellFormed, n, e
<1> HIDE DEF Apart
<1> QED BY <1>5, <1>6, <1>7

\* tree holds the upload's own files and the runtime's as they are, an entry
\* point, and whatever its Python files import.
Uploaded(es, tree) ==
    /\ \A x \in Paths(es) : tree[x].from = "app"
    /\ \A f \in SdkFiles : tree[<<"hawcx_haap", f>>].from = "sdk"
    /\ Main \in DOMAIN tree
    /\ \A e \in Members(es) : \A i \in e.imports :
          e.suffix = ".py" /\ i.top \notin Stdlib \cup {"hawcx_haap"} =>
              \E x \in DOMAIN tree : x[1] \in {i.top, i.top \o ".py"}

\* What the archive of an accepted upload holds.
LEMMA UploadKept ==
    ASSUME NEW zip, Listed(zip.entries), NEW main, ~SourceRefuses(zip, main)
    PROVE  Uploaded(zip.entries, SourceArchive(zip.entries, main))
<1> DEFINE es == zip.entries
           paths == Paths(es)
           sdk == DOMAIN RuntimeSources
           app == [p \in paths \cup {Main} |-> File("py", IF p = Main /\ main # "none" THEN "--main" ELSE "app")]
           tree == SourceArchive(es, main)
<1>1. Entrypoint(es, main) /\ CheckSources(es) /\ WellFormed(zip)
  BY ReadSourcesSays DEF SourceRefuses
<1>2. \A x \in paths : x # <<>> /\ Head(x) \notin Reserved /\ IsSeq(x)
  <2> SUFFICES ASSUME NEW x \in paths PROVE x # <<>> /\ Head(x) \notin Reserved /\ IsSeq(x)
    OBVIOUS
  <2>1. PICK e \in ToSet(es) : e.path = x
    BY DEF Paths, Members
  <2>2. PICK i \in 1 .. Len(es) : es[i] = e
    BY <2>1, SeqFacts DEF Listed
  <2>3. ~BadMember(e)
    BY <1>1, <2>2 DEF WellFormed
  <2> QED BY <2>1, <2>3 DEF BadMember, BadName, Listed
<1>3. \A x \in paths : x[1] = Head(x)
  <2> SUFFICES ASSUME NEW x \in paths PROVE x[1] = Head(x)
    OBVIOUS
  <2> DEFINE A == ToSet(x)
  <2>1. x \in Seq(A) /\ x # <<>>
    BY <1>2 DEF IsSeq
  <2> HIDE DEF A
  <2> QED BY <2>1
<1>4. sdk = {<<"hawcx_haap", f>> : f \in SdkFiles} \cup
                {<<"hawcx_haap.dist-info", "METADATA">>, <<"_hawcx_build.json">>}
  BY DEF RuntimeSources
<1>5. \A x \in sdk : x[1] \in Reserved /\ RuntimeSources[x].from = "sdk"
  BY <1>4 DEF RuntimeSources, Reserved, File
<1>6. \A x \in paths : x \notin sdk
  BY <1>2, <1>3, <1>5
<1>7. tree = Over(RuntimeSources, app)
  BY DEF SourceArchive
<1>8. \A x \in paths : app[x] = File("py", IF x = Main /\ main # "none" THEN "--main" ELSE "app")
  OBVIOUS
<1>9. DOMAIN app = paths \cup {Main}
  OBVIOUS
<1> HIDE DEF app, sdk, tree, paths, es
<1>10. /\ DOMAIN tree = sdk \cup paths \cup {Main}
       /\ \A x \in sdk : tree[x] = RuntimeSources[x]
       /\ \A x \in paths : tree[x] = app[x]
  BY <1>6, <1>7, <1>9 DEF Over, sdk
<1>11. ASSUME NEW x \in paths PROVE tree[x].from = "app"
  <2>1. ~ (x = Main /\ main # "none")
    BY <1>1 DEF Entrypoint, paths
  <2>2. tree[x] = File("py", "app")
    BY <1>8, <1>10, <2>1
  <2> QED BY <2>2, FileFacts
<1>12. \A f \in SdkFiles : tree[<<"hawcx_haap", f>>].from = "sdk"
  BY <1>4, <1>5, <1>10
<1>13. ASSUME NEW e \in Members(es), NEW i \in e.imports,
              e.suffix = ".py", i.top \notin Stdlib \cup {"hawcx_haap"}
       PROVE  \E x \in DOMAIN tree : x[1] \in {i.top, i.top \o ".py"}
  <2>1. Local(es, i.top)
    BY <1>1, <1>13 DEF CheckSources, ImportRefused
  <2>2. PICK d \in Members(es) : Head(d.path) \in {i.top, i.top \o ".py"}
    BY <2>1 DEF Local
  <2>3. d.path \in paths
    BY DEF paths, Paths
  <2> QED BY <1>3, <1>10, <2>2, <2>3
<1> QED BY <1>10, <1>11, <1>12, <1>13 DEF tree, paths, es, Uploaded

\* An upload is accepted as the rules say, and what is built of it loses nothing of the
\* upload and nothing of the SDK (UploadIntact).
THEOREM UploadIntactCorrect == Spec => []UploadIntact
<1>1. ToolchainInv => UploadIntact
  <2> SUFFICES ASSUME ToolchainInv, NEW p \in Procs, proc[p].cmd = "source"
               PROVE  LET in   == proc[p].input
                          tree == proc[p].data.what
                      IN  /\ ReadSources(in.zip) = WellFormed(in.zip)
                          /\ proc[p].data.is = "whole" =>
                               /\ \A x \in Paths(in.zip.entries) : tree[x].from = "app"
                               /\ \A f \in SdkFiles : tree[<<"hawcx_haap", f>>].from = "sdk"
                               /\ Main \in DOMAIN tree
                               /\ \A e \in Members(in.zip.entries) : \A i \in e.imports :
                                     e.suffix = ".py" /\ i.top \notin Stdlib \cup {"hawcx_haap"} =>
                                         \E x \in DOMAIN tree : x[1] \in {i.top, i.top \o ".py"}
    BY DEF UploadIntact
  <2>1. Holds(proc[p])
    BY DEF ToolchainInv, ProcInv
  <2>2. proc[p].input \in [zip : Zips, main : Mains]
    BY <2>1 DEF Holds, Typed, Inputs
  <2>3. Listed(proc[p].input.zip.entries)
    BY <2>2, ToolchainAssumption DEF Listed
  <2>4. ReadSources(proc[p].input.zip) = WellFormed(proc[p].input.zip)
    <3>1. ReadSources(proc[p].input.zip) <=> WellFormed(proc[p].input.zip)
      BY <2>3, ReadSourcesSays
    <3> QED BY <3>1 DEF ReadSources, WellFormed
  <2>5. proc[p].data.is = "whole" =>
             /\ ~SourceRefuses(proc[p].input.zip, proc[p].input.main)
             /\ proc[p].data.what = SourceArchive(proc[p].input.zip.entries, proc[p].input.main)
    BY <2>1 DEF Holds, HoldsArchive
  <2>6. proc[p].data.is = "whole" => Uploaded(proc[p].input.zip.entries, proc[p].data.what)
    BY <2>3, <2>5, UploadKept
  <2> QED BY <2>4, <2>6 DEF Uploaded
<1> QED BY <1>1, ToolchainCorrect, PTL
=============================================================================
