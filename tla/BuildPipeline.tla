---------------------------- MODULE BuildPipeline ----------------------------
(***************************************************************************)
(* The Builder (src/cli/src/bcs/builder): BuildPipeline.run driving its    *)
(* registered stages over a BuildContext, and the four concrete stages     *)
(* working on a workspace directory.                                       *)
(*                                                                         *)
(* A build is one BuildContext driven by a process of its own.  Inside a   *)
(* build everything is sequential; what interleaves is the file system,    *)
(* which builds share, so every action below makes at most one call that   *)
(* reads or changes it (one probe, one mkdir, one write, one entry that    *)
(* rmtree removes).  Each such call may raise OSError when the run's       *)
(* constant Faulty says so, and a process may be interrupted between (or   *)
(* in the middle of) any two calls.                                        *)
(***************************************************************************)
EXTENDS Integers, Sequences, FiniteSets

CONSTANTS
  Builds,       \* the BuildContexts
  Roots,        \* the directories that can be a workspace root
  NoRoot,       \* None, for plan.workspace_root and context.workspace
  AutoRoot,     \* AutoRoot[s]: Path.cwd() / ".bcs-build-<second s>"
  LastSecond,   \* bound: the wall clock stops at this second
  Found,        \* what a root may hold before any build chooses it
  Registered,   \* the stages the BuildPipeline was constructed with
  Plans,        \* the BuildPlans that callers make
  Faulty,       \* the file-system calls that can raise OSError
  Overlap,      \* may a build start while another one is running?
  MaxRuns       \* bound: pipeline.run calls on one context

StageNames == {"validate-config", "prepare-workspace", "generate-manifest", "finalize"}

Configs == {"good", "missing", "directory", "unreadable", "extension", "denied"}

Calls == {"stat", "mkdir", "write", "rmtree"}

\* BuildPlan; an empty stages selects every registered stage, and the names
\* are not checked, so a plan may name stages nobody registered.
IsPlan(p) ==
  /\ p.root \in Roots \union {NoRoot}
  /\ p.keep \in BOOLEAN
  /\ p.config \in Configs

ASSUME PlansAreTyped == \A p \in Plans : IsPlan(p)
ASSUME RegisteredIsNonEmpty == Registered \in Seq(StageNames) /\ Len(Registered) > 0
ASSUME RootsAreTyped ==
  /\ NoRoot \notin Roots
  /\ LastSecond \in Nat
  /\ AutoRoot \in [0 .. LastSecond -> Roots]
ASSUME FoundIsTyped == Found \subseteq {{}, {"."}, {".", "foreign"}}
ASSUME BoundsAreTyped == Faulty \subseteq Calls /\ Overlap \in BOOLEAN /\ MaxRuns \in Nat

VARIABLES
  second,     \* the wall clock, at the resolution of the default root's name
  plan,       \* context.plan
  pc,         \* where the build's process is
  at,         \* index in Registered of the stage that runs or ran last
  ok,         \* overall_success, local to one run
  base,       \* Len(context.stage_results) when the current run started
  runs,       \* pipeline.run calls made on the context
  results,    \* context.stage_results
  artifacts,  \* context.artifacts
  workspace,  \* context.workspace (its root), NoRoot for None
  metadata,   \* context.metadata is set
  summary,    \* success of the last BuildSummary returned, "none" before
  target,     \* the root the build's last PrepareWorkspaceStage chose
  todo,       \* directories left to make (mkdir) or to remove (rmtree)
  dirs,       \* dirs[r]: what is directly in root r; "." is r itself
  files       \* files[r]: the files the stages wrote below root r

context == <<plan, results, artifacts, workspace, metadata>>
loop    == <<at, ok, base, runs, summary>>
disk    == <<dirs, files>>
vars    == <<second, context, loop, pc, target, todo, disk>>

-----------------------------------------------------------------------------
(* The workspace directory *)

Layout == <<"artifacts", "logs", "metadata", "cache">>

LayoutDirs == {Layout[i] : i \in 1 .. 4}

\* "foreign" stands for anything in the root that no build put there.
Entries == LayoutDirs \union {".", "foreign"}

FileNames == {"manifest", "provenance", "log"}

DirOf == [manifest |-> "metadata", provenance |-> "metadata", log |-> "logs"]

Result == [stage : StageNames, code : {0, 1, 10, 30, 70, 99}]

Artifact == [path : FileNames, summed : BOOLEAN]

\* What a stage wrote: by whom, the results it had then, and whether the
\* write got through (an OSError or an interrupt leaves a truncated file).
File == [name : FileNames, by : Builds, seen : Seq(Result), whole : BOOLEAN]

\* Mutants: only a build's own directories count, or the first of them does.
MutantOccupiedByBuild(r) == dirs[r] \intersect LayoutDirs # {}
MutantOccupiedByArtifacts(r) == "artifacts" \in dirs[r]

Occupied(r) == dirs[r] \ {"."} # {}

\* The fault case of mkdir(parents=True): the root may have been made.
MkdirFails(r) ==
  /\ "mkdir" \in Faulty
  /\ \/ dirs' = dirs
     \/ dirs' = [dirs EXCEPT ![r] = @ \union {"."}]

Without(r, d) == {f \in files[r] : DirOf[f.name] # d}

Put(b, r, name, whole) ==
  files' = [files EXCEPT ![r] = {f \in @ : f.name # name} \union
              {[name |-> name, by |-> b, seen |-> results[b], whole |-> whole]}]

-----------------------------------------------------------------------------
(* BuildPipeline.run *)

Resting == {"idle", "done", "interrupted"}

Chosen(b) ==
  {i \in 1 .. Len(Registered) :
     plan[b].stages = {} \/ Registered[i] \in plan[b].stages}

\* Mutant: the stages that the plan leaves out are run too.
MutantRunEverything(b) == {i \in 1 .. Len(Registered) : i > at[b]}

Ahead(b) == {i \in Chosen(b) : i > at[b]}

Init ==
  /\ second = 0
  /\ plan \in [Builds -> Plans]
  /\ pc = [b \in Builds |-> "idle"]
  /\ at = [b \in Builds |-> 0]
  /\ ok = [b \in Builds |-> TRUE]
  /\ base = [b \in Builds |-> 0]
  /\ runs = [b \in Builds |-> 0]
  /\ results = [b \in Builds |-> <<>>]
  /\ artifacts = [b \in Builds |-> <<>>]
  /\ workspace = [b \in Builds |-> NoRoot]
  /\ metadata = [b \in Builds |-> FALSE]
  /\ summary = [b \in Builds |-> "none"]
  /\ target = [b \in Builds |-> NoRoot]
  /\ todo = [b \in Builds |-> {}]
  /\ dirs \in [Roots -> Found]
  /\ files = [r \in Roots |-> {}]

Tick ==
  /\ second < LastSecond
  /\ second' = second + 1
  /\ UNCHANGED <<context, loop, pc, target, todo, disk>>

\* Mutant: overall_success survives from the context's earlier run.
MutantStartKeepsVerdict(b) ==
  /\ pc[b] \in {"idle", "done"}
  /\ runs[b] < MaxRuns
  /\ Overlap \/ \A c \in Builds : pc[c] \in Resting
  /\ runs' = [runs EXCEPT ![b] = @ + 1]
  /\ base' = [base EXCEPT ![b] = Len(results[b])]
  /\ at' = [at EXCEPT ![b] = 0]
  /\ pc' = [pc EXCEPT ![b] = "loop"]
  /\ UNCHANGED <<second, context, ok, summary, target, todo, disk>>

Start(b) ==
  /\ pc[b] \in {"idle", "done"}
  /\ runs[b] < MaxRuns
  /\ Overlap \/ \A c \in Builds : pc[c] \in Resting
  /\ runs' = [runs EXCEPT ![b] = @ + 1]
  /\ base' = [base EXCEPT ![b] = Len(results[b])]
  /\ at' = [at EXCEPT ![b] = 0]
  /\ ok' = [ok EXCEPT ![b] = TRUE]
  /\ pc' = [pc EXCEPT ![b] = "loop"]
  /\ UNCHANGED <<second, context, summary, target, todo, disk>>

\* The loop goes to the next registered stage the plan selects; a stage's
\* first action is the one whose pc is the stage's name.
Dispatch(b) ==
  /\ pc[b] = "loop"
  /\ \E i \in Ahead(b) :
       /\ \A j \in Ahead(b) : i <= j
       /\ at' = [at EXCEPT ![b] = i]
       /\ pc' = [pc EXCEPT ![b] = Registered[i]]
  /\ UNCHANGED <<second, context, ok, base, runs, summary, target, todo, disk>>

\* Mutant: the last stage decides.
MutantFinishLastWins(b, code) ==
  /\ results' = [results EXCEPT ![b] =
       Append(@, [stage |-> Registered[at[b]], code |-> code])]
  /\ ok' = [ok EXCEPT ![b] = code = 0]
  /\ pc' = [pc EXCEPT ![b] = "loop"]
  /\ UNCHANGED <<second, plan, at, base, runs, summary>>

\* A stage returns its result (or raises: code 99), and the loop appends it.
\* A failure never ends the loop.
Finish(b, code) ==
  /\ results' = [results EXCEPT ![b] =
       Append(@, [stage |-> Registered[at[b]], code |-> code])]
  /\ ok' = [ok EXCEPT ![b] = @ /\ code = 0]
  /\ pc' = [pc EXCEPT ![b] = "loop"]
  /\ UNCHANGED <<second, plan, at, base, runs, summary>>

\* Mutant: the loop only ends after the last registered stage has run.
MutantReturnAfterLast(b) ==
  /\ pc[b] = "loop"
  /\ at[b] = Len(Registered)
  /\ summary' = [summary EXCEPT ![b] = IF ok[b] THEN "success" ELSE "failure"]
  /\ pc' = [pc EXCEPT ![b] = "done"]
  /\ UNCHANGED <<second, context, at, ok, base, runs, target, todo, disk>>

Return(b) ==
  /\ pc[b] = "loop"
  /\ Ahead(b) = {}
  /\ summary' = [summary EXCEPT ![b] = IF ok[b] THEN "success" ELSE "failure"]
  /\ pc' = [pc EXCEPT ![b] = "done"]
  /\ UNCHANGED <<second, context, at, ok, base, runs, target, todo, disk>>

Goto(b, p) ==
  /\ pc' = [pc EXCEPT ![b] = p]
  /\ UNCHANGED <<second, plan, results, loop>>

-----------------------------------------------------------------------------
(* ValidateConfigStage *)

\* Mutant: the exit code of the document's table.
MutantValidateCode(config) == IF config = "good" THEN 0 ELSE 4

\* Path.exists raises on a parent that may not be searched ("denied").
ValidateCode(config) ==
  CASE config = "good"   -> 0
    [] config = "denied" -> 99
    [] OTHER             -> 1

ValidateConfig(b) ==
  /\ pc[b] = "validate-config"
  /\ Finish(b, ValidateCode(plan[b].config))
  /\ UNCHANGED <<artifacts, workspace, metadata, target, todo, disk>>

-----------------------------------------------------------------------------
(* PrepareWorkspaceStage and BuildWorkspaceManager.create *)

ChosenRoot(b) == IF plan[b].root # NoRoot THEN plan[b].root ELSE AutoRoot[second]

\* The only check that the root is free; nothing holds it afterwards.
ProbeWorkspace(b) ==
  /\ pc[b] = "prepare-workspace"
  /\ target' = [target EXCEPT ![b] = ChosenRoot(b)]
  /\ \/ /\ ~Occupied(ChosenRoot(b))
        /\ todo' = [todo EXCEPT ![b] = LayoutDirs]
        /\ Goto(b, "mkdir")
     \/ /\ Occupied(ChosenRoot(b)) \/ "stat" \in Faulty
        /\ Finish(b, 10)
        /\ UNCHANGED todo
  /\ UNCHANGED <<artifacts, workspace, metadata, disk>>

\* Mutant: context.workspace is set although a mkdir failed.
MutantMakeDirectoryKeepsRoot(b) ==
  /\ pc[b] = "mkdir"
  /\ workspace' = [workspace EXCEPT ![b] = target[b]]
  /\ \/ /\ dirs' = [dirs EXCEPT ![target[b]] = @ \union {"."} \union LayoutDirs]
        /\ Finish(b, 0)
     \/ /\ MkdirFails(target[b])
        /\ Finish(b, 10)
  /\ UNCHANGED <<artifacts, metadata, target, todo, files>>

\* One of the four ensure_directory calls, in the order of Layout.
MakeDirectory(b) ==
  /\ pc[b] = "mkdir"
  /\ \/ \E i \in 1 .. 4 :
          /\ Layout[i] \in todo[b]
          /\ \A j \in 1 .. (i - 1) : Layout[j] \notin todo[b]
          /\ todo' = [todo EXCEPT ![b] = @ \ {Layout[i]}]
          /\ dirs' = [dirs EXCEPT ![target[b]] = @ \union {".", Layout[i]}]
          /\ IF todo'[b] = {}
             THEN /\ workspace' = [workspace EXCEPT ![b] = target[b]]
                  /\ Finish(b, 0)
             ELSE Goto(b, "mkdir") /\ UNCHANGED workspace
     \/ /\ MkdirFails(target[b])
        /\ Finish(b, 10)
        /\ UNCHANGED <<todo, workspace>>
  /\ UNCHANGED <<artifacts, metadata, target, files>>

-----------------------------------------------------------------------------
(* write_json and _write_build_log: mkdir the parent, then write_text *)

\* The directory the file belongs in is made again when it is gone.
EnsureParent(b, name, writing, code) ==
  /\ \/ /\ dirs' = [dirs EXCEPT ![workspace[b]] = @ \union {".", DirOf[name]}]
        /\ Goto(b, writing)
     \/ MkdirFails(workspace[b]) /\ Finish(b, code)
  /\ UNCHANGED <<artifacts, workspace, metadata, target, todo, files>>

\* The write raises when the directory has gone since, or on a fault, which
\* leaves the old file or a truncated one.
WriteFails(b, name) ==
  \/ DirOf[name] \notin dirs[workspace[b]] /\ UNCHANGED files
  \/ "write" \in Faulty /\ UNCHANGED files
  \/ /\ "write" \in Faulty
     /\ DirOf[name] \in dirs[workspace[b]]
     /\ Put(b, workspace[b], name, FALSE)

WriteSucceeds(b, name) ==
  /\ DirOf[name] \in dirs[workspace[b]]
  /\ Put(b, workspace[b], name, TRUE)

-----------------------------------------------------------------------------
(* GenerateManifestStage *)

\* The manifest is built from the results and artifacts the context has now.
GenerateManifest(b) ==
  /\ pc[b] = "generate-manifest"
  /\ \/ /\ workspace[b] = NoRoot
        /\ Finish(b, 30)
        /\ UNCHANGED <<artifacts, workspace, metadata, target, todo, disk>>
     \/ /\ workspace[b] # NoRoot
        /\ EnsureParent(b, "manifest", "write-manifest", 30)

\* Mutant: the OSError of save_manifest is swallowed.
MutantWriteManifestIgnoresError(b) ==
  /\ pc[b] = "write-manifest"
  /\ WriteSucceeds(b, "manifest") \/ WriteFails(b, "manifest")
  /\ artifacts' = [artifacts EXCEPT ![b] =
       Append(@, [path |-> "manifest", summed |-> FALSE])]
  /\ Finish(b, 0)
  /\ UNCHANGED <<workspace, metadata, target, todo, dirs>>

WriteManifest(b) ==
  /\ pc[b] = "write-manifest"
  /\ \/ /\ WriteSucceeds(b, "manifest")
        /\ artifacts' = [artifacts EXCEPT ![b] =
             Append(@, [path |-> "manifest", summed |-> FALSE])]
        /\ Finish(b, 0)
     \/ /\ WriteFails(b, "manifest")
        /\ Finish(b, 30)
        /\ UNCHANGED artifacts
  /\ UNCHANGED <<workspace, metadata, target, todo, dirs>>

-----------------------------------------------------------------------------
(* FinalizeStage *)

\* The checksums go to a list of its own that is dropped: context.artifacts
\* stays as it is.  artifact_path.exists() is outside the try.
Finalize(b) ==
  /\ pc[b] = "finalize"
  /\ \/ workspace[b] = NoRoot /\ Finish(b, 70) /\ UNCHANGED metadata
     \/ /\ workspace[b] # NoRoot
        /\ artifacts[b] # <<>> /\ "stat" \in Faulty
        /\ Finish(b, 99)
        /\ UNCHANGED metadata
     \/ /\ workspace[b] # NoRoot
        /\ metadata' = [metadata EXCEPT ![b] = TRUE]
        /\ Goto(b, "provenance")
  /\ UNCHANGED <<artifacts, workspace, target, todo, disk>>

Provenance(b) ==
  /\ pc[b] = "provenance"
  /\ EnsureParent(b, "provenance", "write-provenance", 70)

WriteProvenance(b) ==
  /\ pc[b] = "write-provenance"
  /\ \/ WriteSucceeds(b, "provenance") /\ Goto(b, "log")
     \/ WriteFails(b, "provenance") /\ Finish(b, 70)
  /\ UNCHANGED <<artifacts, workspace, metadata, target, todo, dirs>>

\* _write_build_log is not in a try: its OSError is the pipeline's 99.
BuildLog(b) ==
  /\ pc[b] = "log"
  /\ EnsureParent(b, "log", "write-log", 99)

WriteLog(b) ==
  /\ pc[b] = "write-log"
  /\ \/ /\ WriteSucceeds(b, "log")
        /\ IF plan[b].keep THEN Finish(b, 0) ELSE Goto(b, "clean")
     \/ WriteFails(b, "log") /\ Finish(b, 99)
  /\ UNCHANGED <<artifacts, workspace, metadata, target, todo, dirs>>

-----------------------------------------------------------------------------
(* BuildWorkspaceManager.clean, called by FinalizeStage *)

\* rmtree lists the root once; exists() is outside clean's try.
Clean(b) ==
  /\ pc[b] = "clean"
  /\ \/ /\ "." \notin dirs[workspace[b]]
        /\ Finish(b, 0)
        /\ UNCHANGED todo
     \/ /\ "." \in dirs[workspace[b]]
        /\ todo' = [todo EXCEPT ![b] = dirs[workspace[b]] \ {"."}]
        /\ Goto(b, "rmtree")
     \/ "stat" \in Faulty /\ Finish(b, 99) /\ UNCHANGED todo
  /\ UNCHANGED <<artifacts, workspace, metadata, target, disk>>

\* One listed entry goes, with what is in it.  One that somebody else removed
\* since is an error or not, depending on the Python version.
RemoveEntry(b) ==
  LET r == workspace[b] IN
  /\ pc[b] = "rmtree"
  /\ \E d \in todo[b] :
       /\ todo' = [todo EXCEPT ![b] = @ \ {d}]
       /\ \/ /\ dirs' = [dirs EXCEPT ![r] = @ \ {d}]
             /\ files' = [files EXCEPT ![r] = Without(r, d)]
             /\ Goto(b, "rmtree")
          \/ /\ d \notin dirs[r] \/ "rmtree" \in Faulty
             /\ \E left \in SUBSET (files[r] \ Without(r, d)) :
                  files' = [files EXCEPT ![r] = Without(r, d) \union left]
             /\ Finish(b, 70)
             /\ UNCHANGED dirs
  /\ UNCHANGED <<artifacts, workspace, metadata, target>>

\* Mutant: rmtree(ignore_errors=True).
MutantRemoveRootIgnoresError(b) ==
  LET r == workspace[b] IN
  /\ pc[b] = "rmtree"
  /\ todo[b] = {}
  /\ dirs' = [dirs EXCEPT ![r] = IF Occupied(r) THEN @ ELSE {}]
  /\ Finish(b, 0)
  /\ UNCHANGED <<artifacts, workspace, metadata, target, todo, files>>

\* The final rmdir fails on a root that is not empty any more.
RemoveRoot(b) ==
  LET r == workspace[b] IN
  /\ pc[b] = "rmtree"
  /\ todo[b] = {}
  /\ \/ /\ ~Occupied(r)
        /\ dirs' = [dirs EXCEPT ![r] = {}]
        /\ Finish(b, 0)
     \/ /\ Occupied(r) \/ "." \notin dirs[r] \/ "rmtree" \in Faulty
        /\ Finish(b, 70)
        /\ UNCHANGED dirs
  /\ UNCHANGED <<artifacts, workspace, metadata, target, todo, files>>

-----------------------------------------------------------------------------
(* A KeyboardInterrupt or a kill: no result, no clean-up *)

Written == [p \in {"write-manifest", "write-provenance", "write-log"} |->
  CASE p = "write-manifest"   -> "manifest"
    [] p = "write-provenance" -> "provenance"
    [] OTHER                  -> "log"]

Interrupt(b) ==
  /\ pc[b] \notin Resting
  /\ pc' = [pc EXCEPT ![b] = "interrupted"]
  /\ \/ UNCHANGED files
     \/ /\ pc[b] \in DOMAIN Written
        /\ DirOf[Written[pc[b]]] \in dirs[workspace[b]]
        /\ Put(b, workspace[b], Written[pc[b]], FALSE)
  /\ UNCHANGED <<second, context, loop, target, todo, dirs>>

-----------------------------------------------------------------------------
\* Everything a running build does by itself.
Work(b) ==
  \/ Dispatch(b)
  \/ Return(b)
  \/ ValidateConfig(b)
  \/ ProbeWorkspace(b)
  \/ MakeDirectory(b)
  \/ GenerateManifest(b)
  \/ WriteManifest(b)
  \/ Finalize(b)
  \/ Provenance(b)
  \/ WriteProvenance(b)
  \/ BuildLog(b)
  \/ WriteLog(b)
  \/ Clean(b)
  \/ RemoveEntry(b)
  \/ RemoveRoot(b)

Next ==
  \/ Tick
  \/ \E b \in Builds : Start(b) \/ Work(b) \/ Interrupt(b)

\* A running process is scheduled until it returns; nobody has to start one,
\* and none of the file-system calls waits for another process.
Fairness == \A b \in Builds : WF_vars(Work(b))

Spec == Init /\ [][Next]_vars

FairSpec == Spec /\ Fairness

-----------------------------------------------------------------------------
(* Properties *)

Where == Resting \union StageNames \union DOMAIN Written \union
           {"loop", "mkdir", "provenance", "log", "clean", "rmtree"}

\* Every variable of the Builder's state has the shape the models in
\* builder/models.py and builder/context.py give it.
TypeOK ==
  /\ second \in 0 .. LastSecond
  /\ plan \in [Builds -> Plans]
  /\ pc \in [Builds -> Where]
  /\ at \in [Builds -> 0 .. Len(Registered)]
  /\ ok \in [Builds -> BOOLEAN]
  /\ base \in [Builds -> Nat]
  /\ runs \in [Builds -> Nat]
  /\ results \in [Builds -> Seq(Result)]
  /\ artifacts \in [Builds -> Seq(Artifact)]
  /\ workspace \in [Builds -> Roots \union {NoRoot}]
  /\ metadata \in [Builds -> BOOLEAN]
  /\ summary \in [Builds -> {"none", "success", "failure"}]
  /\ target \in [Builds -> Roots \union {NoRoot}]
  /\ todo \in [Builds -> SUBSET Entries]
  /\ dirs \in [Roots -> SUBSET Entries]
  /\ files \in [Roots -> SUBSET File]

\* The results this run of the pipeline has appended.
ThisRun(b) == (base[b] + 1) .. Len(results[b])

\* BuildSummary.success of a run tells the truth about that run: it is true
\* exactly when none of the stages the run executed failed or raised.  That is
\* what pipeline.run computes, of finalize's 70 as of any other code.
\* docs/BUILDER_PIPELINE.md disagrees about that one: a failed clean-up is to
\* "Print warning, exit 0" (322) and "never fails the build" (337).
SummaryHonest ==
  \A b \in Builds : pc[b] = "done" =>
    (summary[b] = "success" <=> \A i \in ThisRun(b) : results[b][i].code = 0)

\* No stage can claim to have written into a workspace that was never
\* prepared: a manifest or finalize success comes after a prepare success of
\* the same context, whatever stages the plan selects.
NeedsWorkspace ==
  \A b \in Builds : \A i \in 1 .. Len(results[b]) :
    results[b][i].stage \in {"generate-manifest", "finalize"} /\ results[b][i].code = 0
      => \E j \in 1 .. (i - 1) :
           results[b][j] = [stage |-> "prepare-workspace", code |-> 0]

\* The workspaces that b has been given, one after the other.
Prepared(b) ==
  {i \in 1 .. Len(results[b]) : results[b][i] = [stage |-> "prepare-workspace", code |-> 0]}

\* No other context holds the root r, or may have given it up.
Untouched(b, r) ==
  \A c \in Builds \ {b} : workspace[c] # r /\ \A i, j \in Prepared(c) : i = j

Finalizing(b) ==
  \/ at[b] > 0 /\ Registered[at[b]] = "finalize"
  \/ \E i \in 1 .. Len(results[b]) : results[b][i].stage = "finalize"

\* i is b's latest generate-manifest result, in the workspace it still has, and
\* no write is under way.
LatestManifest(b, i) ==
  /\ results[b][i].stage = "generate-manifest"
  /\ \A j \in Prepared(b) : j < i
  /\ \A j \in (i + 1) .. Len(results[b]) : results[b][j].stage # "generate-manifest"
  /\ pc[b] \notin {"write-manifest", "interrupted"}

\* What a build that has its workspace to itself can rely on until it
\* finalizes: the four directories are there, and if its latest
\* generate-manifest succeeded then metadata/manifest.json is whole, its own,
\* and records exactly the results that preceded that stage.
PrivateWorkspace ==
  \A b \in Builds : workspace[b] # NoRoot /\ Untouched(b, workspace[b]) /\ ~Finalizing(b) =>
    /\ LayoutDirs \subseteq dirs[workspace[b]]
    /\ \A i \in 1 .. Len(results[b]) :
         LatestManifest(b, i) /\ results[b][i].code = 0 =>
           \E f \in files[workspace[b]] :
             /\ f.name = "manifest" /\ f.by = b /\ f.whole
             /\ f.seen = SubSeq(results[b], 1, i - 1)

\* A finalize that reports success with keep_workspace unset leaves nothing
\* of the workspace behind, even when other builds write to the same root.
CleanedUp ==
  [][\A b \in Builds :
       /\ pc[b] \in {"clean", "rmtree"}
       /\ results'[b] = Append(results[b], [stage |-> "finalize", code |-> 0])
       => dirs'[workspace[b]] = {} /\ files'[workspace[b]] = {}]_vars

\* Whatever was in a directory before any build chose it as its root is never
\* deleted: the emptiness check of create() protects it through every later
\* clean(), however builds overlap, fail or are interrupted.
ForeignSurvives ==
  [][\A r \in Roots : "foreign" \in dirs[r] => "foreign" \in dirs'[r]]_vars

\* A run that was started returns a summary, or is interrupted.
Returns ==
  \A b \in Builds : (pc[b] = "loop") ~> (pc[b] \in {"done", "interrupted"})

\* When builds do not overlap, a context in its first run never overwrites or
\* removes a file another build wrote, in any of its steps (a step of rmtree
\* that goes on shows in todo): create() refuses what an earlier build has
\* left, or left half removed.  docs/BUILDER_PIPELINE.md:116 has it otherwise:
\* "Workspace exists and is not empty | 0 | Warn and reuse".
NoTrespass ==
  [][\A b \in Builds : <<pc[b], todo[b]>>' # <<pc[b], todo[b]>> /\ runs[b] <= 1 =>
       \A r \in Roots : \A f \in files[r] : f.by # b => f \in files'[r]]_vars

\* docs/BUILDER_PIPELINE.md: "If any stage produced a non-zero exit code, the
\* workspace is **always** kept for debugging".
KeptOnFailure ==
  \A b \in Builds :
    (/\ pc[b] = "done" /\ workspace[b] # NoRoot
     /\ \E i \in 1 .. Len(results[b]) : results[b][i].code # 0)
    => dirs[workspace[b]] # {}

\* builder/protocols.py: "Stages should be **idempotent** when called with the
\* same context: running the same stage twice on the same workspace should
\* produce the same files and results."
StagesIdempotent ==
  \A b \in Builds : \A i, j \in 1 .. Len(results[b]) :
    results[b][i].stage = results[b][j].stage => results[b][i].code = results[b][j].code

-----------------------------------------------------------------------------
(* What a build promises its caller, whatever its stages do *)

\* The i-th registered stage is the Turn(b, i)-th that the plan selects.
Turn(b, i) == Cardinality({j \in Chosen(b) : j <= i})

Agenda ==
  [b \in Builds |->
     [k \in 1 .. Cardinality(Chosen(b)) |->
        Registered[CHOOSE i \in Chosen(b) : Turn(b, i) = k]]]

Phase ==
  [b \in Builds |-> IF pc[b] \in Resting THEN pc[b] ELSE "running"]

Reported ==
  [b \in Builds |-> SubSeq(results[b], base[b] + 1, Len(results[b]))]

Promise == INSTANCE BuildPromise WITH
  agenda <- Agenda, phase <- Phase, reported <- Reported, verdict <- summary

\* The pipeline implements its promise: one result per selected stage, in
\* registration order, none after an interrupt, and a verdict at the end.  A
\* stage that fails or raises is reported and the next one runs, as the
\* docstring of run has it for failures; of other exceptions the same docstring
\* says that they "terminate the pipeline" (pipeline.py:73-75), which the
\* `except Exception` does not do, and docs/BUILDER_PIPELINE.md:330-331 that a
\* failed stage is to "Stop immediately".
KeepsPromise == Promise!Spec
=============================================================================
