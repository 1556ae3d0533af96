# A TLA+ model of the Batoi Classroom Suite

The repository's program is `bcs`, a Python command line (`src/cli/src/bcs`), with the shell scripts
that build, release and validate it (`src/scripts`). This directory holds TLA+ modules of its core,
TLC configurations that check them on small instances, and TLAPS proofs of the theorems that hold
for every value of the constants. `PROJECT.json` ties every definition to the lines it models.

    tlc -workers 2 -config HostSweep.cfg MCHostDiscovery.tla
    tlapm BuildPipelineProofs.tla

## Inventory

| Component | State | Operations | What is hard, and what makes it correct |
|---|---|---|---|
| Builder pipeline (`builder/pipeline.py`) | the stages; per run `overall_success`; the caller's `BuildContext` | `run` | A stage that raises, a context run twice, plans that skip stages. Every selected stage is reported once and the summary tells the truth. |
| Builder stages (`builder/stages.py`) | `context.workspace`, `artifacts`, `metadata` | validate-config, prepare-workspace, generate-manifest, finalize | Half-done file operations, finalize after failures. No success without a prepared workspace. |
| Builder workspace and files (`workspace.py`, `execution.py`, `manifest.py`) | a directory tree | create, clean, write | A check-then-act on the root that other builds share. Nothing foreign is deleted; a sole owner finds what it wrote. |
| Command runner (`platform/execution.py`) | one child process, two wall-clock times | `run` | Timeouts, kills, clocks set back. One typed answer per call, no child left. |
| Platform adapters and parsers (`platform/adapters`) | none | read efi, storage, Secure Boot, filesystem, network | Tools that are missing, refused, half successful, or print the unexpected. |
| Host discovery and inventory (`inventory`) | the snapshot and its caveats | `discover`, `collect_host_inventory`, the collectors | One bad tool costs one domain; absence is explained. |
| Doctor (`commands/doctor.py`) | the check results | nine checks, `--check`, `--strict` | Fall-backs of its own: agrees with the inventory, checks independent. |
| Storage parser (`adapters/storage`) | the devices as they are annotated | parse lsblk, merge blkid, merge findmnt | Three outputs of different moments. No fact that never was; nothing lost without cause. |
| Other parsers (`adapters/efi`, `secureboot`, `filesystem`, `network`) | the model as it is filled | one item after the other | Repeated, empty, half numeric lines. No row dropped in silence. |
| Configuration (`config`) | the document, `--set`, `BCS_CFG_*`, files others edit | resolve, load, override, validate | Precedence, overlapping overrides, which error class leads to which exit code. |
| CLI entry (`app.py`, `argv_normalize.py`, `__main__.py`, `plugins.py`) | argv | hoist global options, dispatch, exit codes | Option values taken for subcommands. The line means what was typed. |
| Release scripts (`scripts/release`) | `dist/` | build, verify, check | Stale artifacts, an exit status lost in a pipeline. |
| Builder, validation and dashboard scripts | result directories | capture, compare, summarise | Partial captures that count as complete. |
| Logging (`logging_setup.py`) | the log level | `resolve_log_level` | Several options that say how loud, on both sides of the command. |
| Output, colour, ulid | none others read | formatting | Nothing worth a model. |

**How they interact.** `app.main` builds one runner, binds it to the five adapters, and puts both in
the context that the commands get. `inventory` calls the orchestrator, which calls the adapters,
which call the runner, which starts a child process and waits. `doctor` calls three of the adapters
directly. `normalize_argv` rewrites the line before Click sees it; the group looks up the command, and
runs a plugin, before the callback builds the context. `validate` and `version` get the loader from
the context; files, variables and preferences belong to everybody. Everything is one thread per process; what happens *around* it is concurrent: children,
the wall clock, Ctrl-C. The Builder has no command yet: callers construct the pipeline and the
contexts, and builds in different processes share the file system.

## Modules

| Module | Models |
|---|---|
| `BuildPipeline` | the Builder, one action per file-system call, any number of builds |
| `BuildPromise` | what a run promises its caller, stages left out: the abstract specification |
| `CommandExecution` | `SubprocessCommandRunner.run`: one child, its timeout, the wall clock |
| `HostAdapters` | the five adapters: which tool next, which error out; extends `CommandExecution` |
| `HostDiscovery` | `bcs inventory` and `bcs doctor` at one terminal; extends `HostAdapters` |
| `StorageTopology` | lsblk, blkid and findmnt on a machine that changes, and their merge |
| `ToolOutput` | the parsers of df, efibootmgr, mokutil and ip, item by item |
| `CommandLine` | one invocation from the words typed to the exit status |
| `ConfigRules` | documents, fields, what pydantic and the semantic rules find in a document |
| `ConfigSchema` | the models of `config/models.py` as tables of fields; extends `ConfigRules` |
| `ConfigLoading` | `bcs validate` and `bcs version`; extends `ConfigRules` |
| `BuildPipelineProofs`, `BuildWorkspaceProofs`, `BuildIsolationProofs`, `BuildPromiseProofs` | theorems about `BuildPipeline`, and that it implements `BuildPromise` |
| `HostDiscoveryProofs`, `ParserProofs`, `CommandLineProofs`, `ConfigLoadingProofs` | theorems about the module of that name, `ParserProofs` about `StorageTopology` and `ToolOutput` |
| `MCBuildPipeline`, `MCHostDiscovery`, `MCCommandLine`, `MCConfigLoading`, `MCAdapterOutput` | the instances TLC checks |

### BuildPipeline

A build is a `BuildContext` driven by a process of its own. `pc` is where the process is: `"loop"`
between stages, a stage's name when the stage is about to start, and one value per later
file-system call of a stage. `at`, `ok`, `base`, `runs` are the locals of `run`; `results`,
`artifacts`, `workspace`, `metadata` the fields of the context. `dirs[r]` says which directories
exist below a root (`"."` is the root itself, `"foreign"` anything that no build put there),
`files[r]` which files, each with who wrote it, the results known to the writer, and whether the
write got through. `Start`, `Dispatch`, `Finish`, `Return` are `run`; the other actions are the
calls of the four stages in their order. `Faulty` names the calls that may raise `OSError`;
`Interrupt` is a Ctrl-C or a kill, possibly in the middle of a write. The instances cover each
error path: the results 1, 10, 30, 70 and the pipeline's own 99.

Left out: contents of files other than who wrote what, the git commit and tool version, durations.

### CommandExecution, HostAdapters, HostDiscovery

`mood[t]` is what running tool `t` comes to on the machine: it works, is missing, cannot be started
for another reason, is refused access, fails, prints rows and fails, prints garbage that a parser
rejects (`garbled`) or trips over (`odd`), prints nothing it recognises, is slow (answers or times
out), hangs, or is stuck in a call that not even a kill ends. `child` is the process, `answer` what
`run` returned or raised, `reply` what the adapter made of it. `CommandResult` rejects a
`finished_at` before `started_at`, so `wall` may be set back (`SetBack`) at any time.

`HostDiscovery` adds the two commands: `ahead` holds the domains or checks still to look at;
`Isolate` and `Keep` are `_call_adapter`; `Report` is `collect_host_inventory` with its fall-backs;
`CheckAnswer`, `CheckLocally` and `RefuseConfig` are the checks. `End` is the process's exit; `log`
keeps what each command of the session ended with, for the properties to compare: what was asked for,
what came of it, and the child it has left behind (`Survivor`), if any. After a timeout `run` waits for
the killed child without a bound; on Ctrl-C `subprocess.run` waits a quarter of a second only.

Left out: what the collectors report that no fall-back or check looks at, the text of messages, and
what the output says (the next two modules have that).

### StorageTopology, ToolOutput

`machine` is what the disks and mounts are, `seen` what each tool found when it ran; `Change` may fall
between any two tools. Reading `seen` is reading a tool's output: `Points`, `Probed` and `Listed`
say what lsblk, blkid and findmnt print of a machine, and `ParseLsblk`, `WithFacts`, `WithMount` are
the parser's functions. A device has a node in `/dev` or in `/dev/mapper`, and the tools call it by the
path of that node (`Path`), while the parser puts `/dev/` before each name (`DevPath`). `below` is what
stands on a partition, `swaps` the swap spaces in use, for which lsblk prints `[SWAP]`. `IsAcceptable`
has every reason for which the parser or a model gives up: `GoodDevice` and `GoodMount` for values that
a machine may lack, and `garbled` for an output that is not what the tool prints by rights (no JSON, no
array in it, an entry without a name, children that are no list, a value of a wrong type).
`ToolOutput` is the loop of the other four parsers: `items` is the output, `number` the item that is
next, `result` the model so far. Each branch of a loop is an action.

### CommandLine

A token is a name and an inline value. `HoistOption`, `KeepToken` and `StopAtSeparator` are the turns
of `normalize_argv`'s loop; `Parse` is Click on the result; then the look-up, the callback, the
command's own words and its end. Click is external: modelled is what `app.py` relies on. `Meant` is
no code but the reference the properties compare with: what the line says if only the table of
global options is known (`Sorted` takes them out of the words behind the command).

### ConfigRules, ConfigSchema, ConfigLoading

A document is a function from paths to values, closed under prefixes; a list is one value, since no
override can reach into it (`set_by_path` refuses). `Sections` gives each path at which a model stands
its fields, and `ConfigSchema` computes it from the models. `Fits` is pydantic's lax mode (`Truths` are
the texts it takes for a Boolean, and a float that is whole is an integer), `Early` and `Late` the two
passes in which it finds fields and unexpected keys, keys that are no strings among them (`Misnamed`).
`Coerced` is `_coerce_scalar`: `Plain` is what `strip().lower()` makes of a value, `Numerals` and
`Decimals` say what `int()` and `float()` take. A text may be impossible: YAML with a date that does not
exist, over which `safe_load` raises a plain ValueError. In `ConfigLoading` the files may be changed by
others between any two steps (`ChangeFile`); `seen` keeps what was read. `Overridden` and `Outcome` are
references for the properties: what a text comes to when nothing intervenes.

Left out: Python names of fields (pydantic takes them too), keys of a map that differ in case only,
paths through a symbolic link, what the report looks like.

## Runs

| Run | Instance | Shows |
|---|---|---|
| `BuildContention` | two builds, one root, all faults, interrupts, one run each | types; the summary is honest; no success without a prepared workspace; a sole owner's workspace is complete; a reported clean-up is complete; foreign files survive |
| `BuildSequence` | two builds that do not overlap, two roots, two seconds, two runs each | the summary across re-runs; no build touches another one's files in its first run; every run returns; `BuildPipeline` implements `BuildPromise` |
| `HostSweep` | two commands, three machines, sixteen conditions of the tools, three of the rest of the host, one clock step back | types; no crash without a named cause; caveats explain absences; one bad tool costs one domain; doctor agrees with the inventory; checks are independent, and what one costs the others is accounted for; no child is left but by Ctrl-C while a kill does not end it; every command ends |
| `KeptOnFailure` | one failing build | *violated*: finalize removes the workspace of a failed build |
| `StagesIdempotent` | one build run twice | *violated*: prepare-workspace refuses its own workspace |
| `TimeoutIsLoud` | as `HostSweep` | *violated*: a timeout turns into `ValidationError` when the clock is set back |
| `BudgetIsKept` | all tools hang, `--timeout 30s` | *violated*: nothing reads the budget |
| `ArgvSweep` | every line of up to 3 of 17 tokens, and of up to 5 of the 6 tokens whose places matter | the normaliser loses nothing; a line means what was typed but for exactly the known exceptions; the log level; every invocation ends |
| `GlobalOptionsAnywhere` | lines of up to 4 tokens without `--` and empty values | *violated*: `--config build -v` is turned into `--config -v build` |
| `ConfigSession` | fifteen texts, four files, up to two overrides from one side with one from the other, up to three files in one call, up to two edits meanwhile | types; the last override wins; none is lost; the verdict depends on the text alone, and the status on the verdict; no file is guessed |
| `PreferenceIsFallback` | as `ConfigSession` | *violated*: `defaultConfig` comes before `$BCS_CONFIG` and the directory |
| `ParserSweep` | twelve machines, two changes, two versions of lsblk, any of the three outputs garbled; outputs of up to three items | types; every fact was true; a quiet read is the machine, as far as the parser goes; mounts agree; parents come first; nothing is lost without cause; no row is dropped; the last line counts |

**Bounds.** `MaxRuns`: what a second run can find is what the first left, and a third finds nothing
new. `LastSecond`: two seconds tell equal default roots from different ones. Two builds suffice for a
race over a root, as the root has no queue. `MaxCommands`: the properties compare pairs of commands.
`LastTick` and `MaxBacks`: one tick and one step back make a clock earlier than `started`. Tools are
bad one at a time, and two at a time on chosen machines, since adapters share nothing but the runner.
Those two runs do not check deadlock: every build returns and the terminal may stay idle.
`Lines`: a wrong move needs an option, its value, a command and an option behind it; the longer lines
leave room for a second of each. `Scenes`: two overrides suffice for an overlap, and three for one
between the layers; two files with a third that is the first again show whether something is carried
over. `call.edits`: one edit makes two reads of a file differ, two make both probes stale.
`MaxChanges`: one change between each two of three tools. `MaxItems`: two items of a kind, and a third
between or after them. `ConfigSession` checks deadlock, with `Gone` for the process that has ended;
in `ArgvSweep` and `ParserSweep` a process that is done stops.

**Fairness.** A running process is scheduled until it returns (`WF(Work(b))`, `WF(Process)`): there
are no locks and nothing waits for another build. A child exits or its timeout passes (`WF(Run)`),
which the kernel's timer guarantees. In `CommandLine` the one thread goes on (`WF(Work)`), and a
command or plugin that was started returns. `ConfigLoading`, `StorageTopology` and `ToolOutput` state
no fairness, as no property needs it. Nothing makes anyone start a command, move the clock or press
Ctrl-C. `Ends` excepts a machine with a stuck tool: after the kill the wait has no timeout.

**Findings.** The six violated properties quote the documents and docstrings that disagree with the
code; `PROJECT.json` names both lines. Seen while modelling, and stated as the model has it:

- A plugin is run before the callback, so that `_plugin_env` finds no context and exports nothing,
  where `docs/CLI.md:567` lists five variables; it does not get the words that look like global
  options either. An unknown command ends with 8.
- `FinalizeStage` is to "Compute checksums for all artifacts that lack them" (`stages.py:273`); they go
  to a list that nothing reads, and `context.artifacts` stay without.
- A variable that names a camelCase field which the file does not spell is guessed in lower case and
  ends with 3: the example of `docs/CLI.md:240` works on files that have `secureBoot`. An index into
  a list, as in line 245, is refused. `distroVersion=23` becomes a number, which is no text.
- `finalize` returns 70 when a directory cannot be removed, and the build has failed
  (`SummaryHonest`); `docs/BUILDER_PIPELINE.md:322` and `337` say that a failed clean-up warns and exits 0.
- A root that is not empty is refused (`NoTrespass`); `docs/BUILDER_PIPELINE.md:116` says "Warn and
  reuse", with exit 0.
- The pipeline catches whatever a stage raises and goes on after every failure (`KeepsPromise`);
  `pipeline.py:73-75` says another exception terminates it and `docs/BUILDER_PIPELINE.md:330-331` "Stop
  immediately".
- Any `-v` beats any `-q` (`AskedLevel`); `docs/CLI.md:121`, `183` and `logging_setup.py:88` say the last
  one wins, and `-vvv` traces no shell.
- One check of doctor that raises leaves nothing of the others (`ChecksIndependent`): a refused override,
  a config that is not UTF-8, a tool that cannot be started; `doctor.py:3-7` and `106-108` promise that
  checks are independent of one another and of whether a config resolves. inventory "never fails"
  (`docs/CLI.md:349`) but by the causes of `NoNeedlessCrash`.
- Ctrl-C leaves a child behind that a kill does not end (`NoOrphan`).
- Four kinds of files end validate and version with 1 (`StatusIsTheVerdict`): one that is not UTF-8, one
  with a date that does not exist, an `apiVersion` or `kind` that is a list or a map, and perhaps one with
  keys that are no strings; `docs/CLI.md:152` says content "is always 3". version ends with 1 over these and
  with 2 on a refused override, though it "always exits 0" (`version.py:3`, `docs/CLI.md:526`).
- Unexpected keys of `spec` and of the root are reported only when nothing else is wrong, schema errors
  hide semantic ones, and the envelope hides both, although validate is to "report every problem at
  once" (`validator.py:125`).
- `_annotate_partition_with_mount` knows a mount by its bare source: for subvolumes and bind mounts
  `partition.mount_point` comes from lsblk and `filesystem.mount_point` stays empty. A partition whose
  disk was replaced between two tools combines facts of both disks. `parent` is set for every mount
  inside another one, not for bind mounts only (`storage/models.py:223`).
- The topology is to have "every device/partition lsblk reported, annotated with" blkid's facts
  (`storage/parser.py:139`). What the device mapper makes is listed without a file system and with a path
  that does not exist, what stands on a partition is not listed (`QuietReadIsTrue`), and a swap space in
  use has the mount point `[SWAP]` (`MountsAgree`).
- A boot entry without a label is no entry to the parser, and passed over.

## Proofs

Each safety property of the passing runs is a theorem: it holds for every value of the constants
that the named ASSUMEs of the modules allow, and TLC evaluates those on each run. `tlapm` checks every leaf with Z3, Zenon or LS4.

A property of a finished run, command or file is not inductive, as it says nothing on the way there.
Each module of proofs therefore has an invariant that speaks of every moment:

| Module | Invariant | What it adds, and why it is needed |
|---|---|---|
| `BuildPipelineProofs` | `TypeInv`, `Tally`, `Claim` | Inside a stage `at` is an index in `Registered`, so that a result has a stage; a build about to make, write or remove has the root to do it in. `ok` is TRUE exactly if every result after `base` is 0. A root that a build is making or holds has nothing foreign in it, since the build saw it empty and no build creates a foreign entry. |
| `BuildWorkspaceProofs` | `AtItsStage`, `Given`, `Standing` | A result belongs to the stage that `pc` is in, so that a context has a workspace exactly if it reported a prepare success, and a manifest only after one. What is left of a root while it is cleaned is named in `todo` and stands below directories. |
| `BuildIsolationProofs` | `BuildInv`, `Private`, `OwnFiles`, `Alone` | While a build makes its root, what it has made is there; once made, until finalize, nothing is missing; the latest manifest success has its file, with the results before it. Roots of running builds differ from roots where others wrote. |
| `BuildPromiseProofs` | `Progress` | The number of results says how far the loop has come: `Cardinality` of the selected stages up to `at`. |
| `HostDiscoveryProofs` | `Session` | A conjunct for each layer: the clock, the machine, the call of a tool (what an answer says of the tool that gave it), the exchange with an adapter, inventory's sweep, doctor's checks and the log. `InTurn`: the results so far are those of the selected checks, in order and none twice; `EntryIsTrue`: what an entry of the log says of a command that has ended. What a snapshot has on a domain is a function of the tools' moods, as long as the host stays as it is: that is what makes two commands agree. |
| `ParserProofs` | `OutputInv`, `StorageInv` | The rows so far are those of the items so far; of each kind, the last so far is in the model. The topology is `Merged` of what the three tools saw, and there is one exactly if `Accepted`: no output was garbled and what each tool printed is acceptable. |
| `ConfigLoadingProofs` | `LoadingInv` | Which names were found missing before each `pc`; that the document is the text read with the overrides so far, which may be none, one side's or both; each report a function of its text (`OutcomeFor`), until an override ends the call. |
| `CommandLineProofs` | `LineInv`, `MeansInv` | `after` is the rest of what was typed behind the command, and the tokens before it are shared out; the level is that of the options parsed. In the loop (`LoopMeans`) what was hoisted reads as options, and these with what is kept and what the rest sorts into are what the whole line sorts into (`Sound`); if the line has an option that can be moved, one was hoisted or is still ahead. |

**Refinement.** `PipelineKeepsItsPromise`: the initial state maps to an initial state, `Start` to
`Begin`, `Finish` to `Report`, `Return` to `Conclude`, `Interrupt` to `Abandon`, and every other step to
a stutter. `Agenda` is written with `Turn`, the number of selected stages up to an index, and not with
`SelectSeq`, which is defined by recursion and says nothing to the provers; that the stage reported
next is the next of the agenda is `OnTheAgenda`, about cardinalities of finite sets.

**What a line means.** `WhatIsReadIsWhatWasTyped` compares Click's reading of the rewritten line with
that of the typed one. Its steps are equations of `ParseRoot`: an option in front of a line is read and
the rest is read as it would be alone (`OptionReads`), and the words before the command read the same
whatever follows the command (`FrontOfLine`, `OptionsThenCommand`). Where a leading option takes the
command for its value, the rewritten line is read differently as soon as anything was hoisted
(`OptionTakesCommand`): the exceptions of `MeansWhatWasTyped` are exact, not only sufficient.

**Hypotheses.** `NobodyTrespasses` assumes `~Overlap`, as `BuildSequence` does: with overlapping builds
two contexts may both see an empty root, and the property is false. All else is unconditional.

**Recursion.** `ParseRoot` and `Sorted` are recursive functions over the positions of a line. What is
proved of them goes by induction in the form of a set of positions (`Backwards`: a set that has the two
positions behind the end, and each position whose two successors it has, has them all), which needs
no operator as a parameter. Likewise `LeastNumber` and `GreatestOf` replace the induction over numbers.
The order of findmnt's text is a rank: an address comes after as many as precede it (`Listed`);
`ListedIsTheOrder` shows that this lists each once and in order, because `Preceded` is a strict total
order (`PrecededIsTransitive`, `PrecededIsTotal`). Tables that proofs look into are explicit functions,
not `:>` and `@@`.

**Assumptions.** Those on constants say what the code takes for granted. Of the machine
(`MachinesAreTyped`): a mount table is a tree, findmnt gives every mount a target (`_require_str`), lsblk
numbers partitions from 1, a name stands for one node, and a device that stands below two disks, as a RAID
does, has one content; what is mounted from `/dev/<name>` is the device whose node that is.
Of the host (`ToolsAreInstalledOrMissing`, `SettingsAreTyped`, `DoctorsAreTyped`): which tools can be
missing together, which settings doctor reads. Of texts (`TextsAreTyped`, `NumeralsAreNoWords`,
`OnlySpecIsExtensible`, `DefaultsAreFiles`, `CallsAreTyped`): documents are closed under prefixes, a YAML
word is no number, and an override's value is not both an integer and a float. Of a line
(`WordsHaveNoDash`): no option is a plain word. `AbsentIsNoValue`, `NoneIsNoFileSystem`, `NoFileIsNone`
and `NoTokenIsNone` set the marks of absence apart from values. The rest are types and bounds.

**What the proofs found.**

- `NoOverrideIsLost` was wrong as first stated. A first file may get a good report while an override of
  the second file is refused; the property has to tie the report to the file it is about.
- The CASE guards of `ReadUsage` and `LogLevel` overlapped: TLC takes the first that holds, the
  language allows any. They are disjoint now, as the code's `elif` is.
- A topology is `Merged` or `NoTopology`, with nothing in between, and `GoodDevice` survives any merge:
  the models' checks on numbers need not be repeated after blkid and findmnt, and the code does not.
- `MountsAgree` needs no condition on what happens between the tools; `QuietReadIsTrue` needs that a
  name stands for one node and one content, since blkid's entries are looked up by the path made of it, and
  that a node of the device mapper is never found by that path.
- `ChecksAreIndependent` holds of every pair of commands, refused and crashed ones included, once it says
  what happens to the others: either every check asked for has a result, or none has and one of those
  asked for is to blame.

**Only model-checked.** `Returns`, `Ends` and `Exits` are liveness, which the provers do not reach.

## Plan

1. *Done*: the Builder, its abstract specification, the first theorems.
2. *Done*: the command runner, the adapters, discovery, inventory and doctor.
3. *Done*: the command line, configuration, validate and version.
4. *Done*: the parsers of the five adapters.
5. *Done*: the safety properties of all of these, and the refinement, as theorems.
6. *Done*: `MeansWhatWasTyped`, how `ParseRoot` reads a line whose options were moved.

## Not modelled

- The shell scripts. The release scripts build, verify and check one `dist` directory in sequence and
  by one person; the builder, validation and dashboard scripts read result directories and render
  reports. They keep no state between runs that a second actor changes, and most of each is text.
- Output, colour and identifiers: formatting. Of logging the formatters, which redact by key words.
- The Builder's `contains`, `copy_file`, `read_json` and `load_manifest`, and the loader's
  `get_by_path`: nothing calls them.
- Collectors that cannot fail and that nothing compares (identity, OS, CPU, memory).
