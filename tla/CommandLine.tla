----------------------------- MODULE CommandLine -----------------------------
(***************************************************************************)
(* One invocation of bcs, from the words the user typed to the exit        *)
(* status: normalize_argv() moves global options in front of the command,  *)
(* Click parses what comes out, BcsGroup.resolve_command() finds a         *)
(* built-in command or a plugin, the root callback builds the context, and *)
(* main() translates what was raised into a status.                        *)
(*                                                                         *)
(* Click is not in the repository: it is modelled as app.py and            *)
(* argv_normalize.py rely on it (global options only before the command;   *)
(* "--" ends them; a valued option takes the next word whatever it is; a   *)
(* group resolves its command before it runs its callback).                *)
(*                                                                         *)
(* Simplifications: a token keeps its name and its inline value; what a    *)
(* built-in command does is one of the ways it can end (ConfigLoading and  *)
(* HostDiscovery have the detail); colours and log lines are left out.     *)
(***************************************************************************)
EXTENDS Integers, Sequences, FiniteSets, SequencesExt

CONSTANTS
  Lines,       \* the argument lists that may be typed: sequences of Token
  Words,       \* the texts among them that do not start with "-"
  Accepted,     \* per option with fixed values, the texts it takes
  Plugins,     \* names n for which bcs-<n> is an executable on PATH
  PluginCodes, \* return codes of plugins; -n if killed by signal n
  NoToken      \* the command of a line that has none

Token == [name : STRING, inline : STRING]

ASSUME LinesAreTyped == \A l \in Lines : l \in Seq(Token)
ASSUME CodesAreIntegers == PluginCodes \subseteq Int
ASSUME NoTokenIsNone == NoToken \notin Token

VARIABLES
  typed,       \* sys.argv[1:]
  pc,          \* "find", "scan", "parse", "resolve", "callback", "arguments", "run", "done"
  before, subcommand, after,    \* normalize_argv: the line as it was split
  hoisted, remaining,           \* normalize_argv: where the tokens of after go
  argv,        \* what normalize_argv returned
  parsed,      \* Click: the root's options and the words after them
  context,     \* ctx.obj: the log level in effect, or "none"
  answered,    \* who answered: "nobody", "help", "builtin", "plugin"
  status       \* the exit status, -1 while the process runs

split == <<before, subcommand, after, hoisted, remaining>>
vars == <<typed, pc, split, argv, parsed, context, answered, status>>

-----------------------------------------------------------------------------
(* The tables of argv_normalize.py and app.py *)

Valued == {"--config", "-c", "--set", "--output", "-o", "--color", "--log-level",
           "--log-format", "--log-file", "--timeout"}
Flags == {"--verbose", "-v", "--quiet", "-q", "--no-input", "--yes", "-y", "--dry-run"}

\* -vv, -vvv: a flag for Click and for _is_repeated_short_verbose
Clusters == {"-vv", "-vvv"}

\* Short options glued to others or to a value, which only Click understands
Glued == {"-qy", "-ojson"}

\* No option of the tables is a plain word, nor is the separator.
ASSUME WordsHaveNoDash == Words \intersect (Valued \union Flags \union Clusters \union {"--"}) = {}

\* --help and --version answer before anything else is looked at.
Eager == {"--help", "-h", "--version"}

Stubs == {"build", "install", "deploy", "backup", "restore", "update", "config"}
Builtins == {"doctor", "validate", "version", "inventory"} \union Stubs

ExitCode == [SUCCESS |-> 0, GENERAL_ERROR |-> 1, USAGE_ERROR |-> 2, CONFIG_INVALID |-> 3,
             PRECONDITION_FAILED |-> 4, PLUGIN_ERROR |-> 8, INTERRUPTED |-> 130]

\* The status main() gives an exception; everything unexpected is the first
ErrorStatus(error) ==
  CASE error = "UsageError"              -> ExitCode.USAGE_ERROR
    [] error = "ConfigInvalidError"      -> ExitCode.CONFIG_INVALID
    [] error = "PreconditionFailedError" -> ExitCode.PRECONDITION_FAILED
    [] OTHER                             -> ExitCode.GENERAL_ERROR

-----------------------------------------------------------------------------
(* Tokens *)

IsWord(t) == t.name \in Words
IsSeparator(t) == t.name = "--"
NoInline(t) == t.inline = "none"
EmptyInline(t) == t.inline = ""

\* A valued option that must take the next token
Asks(t) == t.name \in Valued /\ NoInline(t)

\* The first token that is a word, 0 if "--" or the end comes first
FirstWord(line) ==
  LET Plain(t) == IsWord(t) \/ IsSeparator(t)
      first == SelectInSeq(line, Plain)
  IN IF first # 0 /\ IsSeparator(line[first]) THEN 0 ELSE first

\* How many tokens an option takes with it in normalize_argv, where an empty
\* inline value counts as none
Consumed(tokens) ==
  IF /\ Head(tokens).name \in Valued
     /\ NoInline(Head(tokens)) \/ EmptyInline(Head(tokens))
     /\ Len(tokens) > 1
  THEN 2 ELSE 1

\* --help hoisted as well
MutantIsGlobal(tokens) == Head(tokens).name \in Valued \union Flags \union Clusters \union Eager

\* The token is a global option that may be moved; one that asks for a value
\* at the end of the line is left for Click to complain about.
IsGlobal(tokens) ==
  LET t == Head(tokens)
  IN \/ t.name \in Flags \union Clusters
     \/ t.name \in Valued /\ (Consumed(tokens) = 2 \/ ~(NoInline(t) \/ EmptyInline(t)))

-----------------------------------------------------------------------------
(* Click: the options in front of the first word, each with its value *)

\* ended: "--" stood before the command.
Parsed(opts, rest, ended) == [opts |-> opts, rest |-> rest, ended |-> ended]
NothingParsed == Parsed(<<>>, <<>>, FALSE)

ParseRoot(line) ==
  LET from[i \in 1 .. Len(line) + 2] ==
        IF i > Len(line) THEN NothingParsed
        ELSE IF IsWord(line[i]) THEN Parsed(<<>>, SubSeq(line, i, Len(line)), FALSE)
        ELSE IF IsSeparator(line[i]) THEN Parsed(<<>>, SubSeq(line, i + 1, Len(line)), TRUE)
        ELSE LET width == IF Asks(line[i]) THEN 2 ELSE 1
                 last  == IF i + width - 1 <= Len(line) THEN i + width - 1 ELSE i
             IN [from[i + width] EXCEPT !.opts = <<SubSeq(line, i, last)>> \o @]
  IN from[1]

\* An option as parsed is the token and, if it asked for one, its value.
ValueOf(o) == IF Len(o) = 2 THEN o[2].name ELSE o[1].inline

BadOption(o) ==
  \/ o[1].name \notin Valued \union Flags \union Clusters \union Glued \union Eager
  \/ o[1].name \notin Valued /\ ~NoInline(o[1])
  \/ Asks(o[1]) /\ Len(o) = 1

BadValue(o) == o[1].name \in DOMAIN Accepted /\ ValueOf(o) \notin Accepted[o[1].name]

Has(opts, Test(_)) == \E i \in DOMAIN opts : Test(opts[i])
IsEager(o) == o[1].name \in Eager

\* resolve_log_level: an explicit level wins, the last of several; one step
\* louder than INFO for every -v; -q only if there is no -v, wherever they stand.
Verbosity(opts) ==
  LET Times(names) == Cardinality({i \in DOMAIN opts : opts[i][1].name \in names})
  IN Times({"-v", "--verbose"}) + 2 * Times({"-vv"}) + 3 * Times({"-vvv"})

\* Mutant: -q is looked at before the two are compared.
MutantLogLevel(opts) ==
  LET Explicit(o) == o[1].name = "--log-level"
      Quiet(o)    == o[1].name \in {"-q", "--quiet", "-qy"}
      last        == SelectLastInSeq(opts, Explicit)
  IN CASE last # 0                                         -> ValueOf(opts[last])
       [] last = 0 /\ Has(opts, Quiet)                     -> "error"
       [] last = 0 /\ ~Has(opts, Quiet) /\ Verbosity(opts) = 0 -> "info"
       [] last = 0 /\ ~Has(opts, Quiet) /\ Verbosity(opts) = 1 -> "debug"
       [] OTHER                                            -> "trace"

LogLevel(opts) ==
  LET Explicit(o) == o[1].name = "--log-level"
      Quiet(o)    == o[1].name \in {"-q", "--quiet", "-qy"}
      last        == SelectLastInSeq(opts, Explicit)
  IN CASE last # 0              -> ValueOf(opts[last])
       [] last = 0 /\ Verbosity(opts) = 0 -> IF Has(opts, Quiet) THEN "error" ELSE "info"
       [] last = 0 /\ Verbosity(opts) = 1 -> "debug"
       [] OTHER                 -> "trace"

-----------------------------------------------------------------------------
(* Click: the words after the command, for a built-in command *)

OwnFlags(name) == IF name \in {"doctor", "validate"} THEN {"--strict"} ELSE {}
OwnValued(name) == IF name = "doctor" THEN {"--check"} ELSE {}
TakesFiles(name) == name = "validate"

\* What becomes of a command's own words: "help", "bad" or "fine"
Arguments(name, args) ==
  LET from[i \in 1 .. Len(args) + 2] ==
        IF i > Len(args) THEN [bad |-> FALSE, help |-> FALSE, words |-> 0]
        ELSE IF IsSeparator(args[i])
        THEN [bad |-> FALSE, help |-> FALSE, words |-> Len(args) - i]
        ELSE IF IsWord(args[i]) THEN [from[i + 1] EXCEPT !.words = @ + 1]
        ELSE IF args[i].name \in OwnFlags(name) /\ NoInline(args[i]) THEN from[i + 1]
        ELSE IF args[i].name \in {"-h", "--help"} /\ NoInline(args[i])
        THEN [from[i + 1] EXCEPT !.help = TRUE]
        ELSE IF args[i].name \in OwnValued(name) /\ ~(NoInline(args[i]) /\ i = Len(args))
        THEN from[i + IF NoInline(args[i]) THEN 2 ELSE 1]
        ELSE [bad |-> TRUE, help |-> FALSE, words |-> 0]
      all == from[1]
  IN IF all.bad THEN "bad"
     ELSE IF all.help THEN "help"
     ELSE IF all.words > 0 /\ ~TakesFiles(name) THEN "bad" ELSE "fine"

\* How a built-in command may end; a stub only says that it is one.
Endings(name) ==
  CASE name \in Stubs       -> {"NotImplementedInPhaseError"}
    [] name = "inventory"   -> {"ok", "unexpected"}
    [] name = "version"     -> {"ok", "UsageError", "unexpected"}
    [] name = "validate"    -> {"ok", "UsageError", "ConfigInvalidError", "unexpected"}
    [] name = "doctor"      -> {"ok", "UsageError", "ConfigInvalidError",
                                "PreconditionFailedError", "unexpected"}

StatusOf(ending) == IF ending = "ok" THEN ExitCode.SUCCESS ELSE ErrorStatus(ending)

\* The kernel keeps eight bits of what SystemExit is given.
MutantExitStatus(code) == code

ExitStatus(code) == code % 256

-----------------------------------------------------------------------------
Init ==
  /\ typed \in Lines
  /\ pc = "find"
  /\ before = <<>> /\ subcommand = NoToken /\ after = <<>>
  /\ hoisted = <<>> /\ remaining = <<>>
  /\ argv = <<>>
  /\ parsed = NothingParsed
  /\ context = "none"
  /\ answered = "nobody"
  /\ status = -1

Exit(code) == pc' = "done" /\ status' = ExitStatus(code)

\* normalize_argv without a command leaves the line alone.
NothingToMove ==
  /\ pc = "find"
  /\ FirstWord(typed) = 0
  /\ argv' = typed
  /\ pc' = "parse"
  /\ UNCHANGED <<typed, split, parsed, context, answered, status>>

FindSubcommand ==
  /\ pc = "find"
  /\ LET i == FirstWord(typed)
     IN /\ i # 0
        /\ before' = SubSeq(typed, 1, i - 1)
        /\ subcommand' = typed[i]
        /\ after' = SubSeq(typed, i + 1, Len(typed))
  /\ pc' = "scan"
  /\ UNCHANGED <<typed, hoisted, remaining, argv, parsed, context, answered, status>>

Scanning == pc = "scan" /\ after # <<>>

Take(n) == after' = SubSeq(after, n + 1, Len(after))

HoistOption ==
  /\ Scanning
  /\ ~IsSeparator(Head(after))
  /\ IsGlobal(after)
  /\ hoisted' = hoisted \o SubSeq(after, 1, Consumed(after))
  /\ Take(Consumed(after))
  /\ UNCHANGED <<typed, pc, before, subcommand, remaining, argv, parsed, context, answered,
                 status>>

\* The index is not moved on.
MutantKeepToken ==
  /\ Scanning
  /\ ~IsSeparator(Head(after))
  /\ ~IsGlobal(after)
  /\ remaining' = IF Len(after) = 1 THEN remaining ELSE Append(remaining, Head(after))
  /\ Take(IF Len(after) = 1 THEN 0 ELSE 1)
  /\ UNCHANGED <<typed, pc, before, subcommand, hoisted, argv, parsed, context, answered,
                 status>>

KeepToken ==
  /\ Scanning
  /\ ~IsSeparator(Head(after))
  /\ ~IsGlobal(after)
  /\ remaining' = Append(remaining, Head(after))
  /\ Take(1)
  /\ UNCHANGED <<typed, pc, before, subcommand, hoisted, argv, parsed, context, answered,
                 status>>

MutantStopAtSeparator ==
  /\ Scanning
  /\ IsSeparator(Head(after))
  /\ remaining' = remaining \o Tail(after)
  /\ after' = <<>>
  /\ UNCHANGED <<typed, pc, before, subcommand, hoisted, argv, parsed, context, answered,
                 status>>

StopAtSeparator ==
  /\ Scanning
  /\ IsSeparator(Head(after))
  /\ remaining' = remaining \o after
  /\ after' = <<>>
  /\ UNCHANGED <<typed, pc, before, subcommand, hoisted, argv, parsed, context, answered,
                 status>>

Assemble ==
  /\ pc = "scan"
  /\ after = <<>>
  /\ argv' = before \o hoisted \o <<subcommand>> \o remaining
  /\ pc' = "parse"
  /\ UNCHANGED <<typed, split, parsed, context, answered, status>>

\* Click rejects a line before it looks at --help, and values after it.
Parse ==
  /\ pc = "parse"
  /\ parsed' = ParseRoot(argv)
  /\ LET opts == parsed'.opts
     IN \/ /\ Has(opts, BadOption)
           /\ Exit(ExitCode.USAGE_ERROR)
           /\ UNCHANGED answered
        \/ /\ ~Has(opts, BadOption) /\ Has(opts, IsEager)
           /\ Exit(ExitCode.SUCCESS)
           /\ answered' = "help"
        \/ /\ ~Has(opts, BadOption) /\ ~Has(opts, IsEager) /\ Has(opts, BadValue)
           /\ Exit(ExitCode.USAGE_ERROR)
           /\ UNCHANGED answered
        \/ /\ ~Has(opts, BadOption) /\ ~Has(opts, IsEager) /\ ~Has(opts, BadValue)
           /\ pc' = IF parsed'.rest = <<>> THEN "callback" ELSE "resolve"
           /\ UNCHANGED <<answered, status>>
  /\ UNCHANGED <<typed, split, argv, context>>

Command == Head(parsed.rest).name

ResolveBuiltin ==
  /\ pc = "resolve"
  /\ Command \in Builtins
  /\ pc' = "callback"
  /\ UNCHANGED <<typed, split, argv, parsed, context, answered, status>>

\* Before the callback has run: the plugin gets no BCS_ variable.
ResolvePlugin ==
  /\ pc = "resolve"
  /\ Command \notin Builtins
  /\ Command \in Plugins
  /\ answered' = "plugin"
  /\ pc' = "run"
  /\ UNCHANGED <<typed, split, argv, parsed, context, status>>

UnknownCommand ==
  /\ pc = "resolve"
  /\ Command \notin Builtins \union Plugins
  /\ Exit(ExitCode.PLUGIN_ERROR)
  /\ UNCHANGED <<typed, split, argv, parsed, context, answered>>

\* The root callback: preferences, logging, the loader and the runner
BuildContext ==
  /\ pc = "callback"
  /\ context' = LogLevel(parsed.opts)
  /\ IF parsed.rest = <<>>
     THEN Exit(ExitCode.SUCCESS) /\ answered' = "help"
     ELSE pc' = "arguments" /\ UNCHANGED <<answered, status>>
  /\ UNCHANGED <<typed, split, argv, parsed>>

\* A preferences file that is not YAML or not UTF-8 or has a wrong value, or a
\* log file that cannot be opened, ends any command.
CallbackFails ==
  /\ pc = "callback"
  /\ Exit(ErrorStatus("unexpected"))
  /\ UNCHANGED <<typed, split, argv, parsed, context, answered>>

ParseArguments ==
  /\ pc = "arguments"
  /\ LET how == Arguments(Command, Tail(parsed.rest))
     IN \/ how = "bad" /\ Exit(ExitCode.USAGE_ERROR) /\ UNCHANGED answered
        \/ how = "help" /\ Exit(ExitCode.SUCCESS) /\ answered' = "help"
        \/ how = "fine" /\ pc' = "run" /\ answered' = "builtin" /\ UNCHANGED status
  /\ UNCHANGED <<typed, split, argv, parsed, context>>

RunBuiltin ==
  /\ pc = "run"
  /\ answered = "builtin"
  /\ \E ending \in Endings(Command) : Exit(StatusOf(ending))
  /\ UNCHANGED <<typed, split, argv, parsed, context, answered>>

\* Its own code, or an OSError if it cannot be executed
RunPlugin ==
  /\ pc = "run"
  /\ answered = "plugin"
  /\ \/ \E code \in PluginCodes : Exit(code)
     \/ Exit(ErrorStatus("unexpected"))
  /\ UNCHANGED <<typed, split, argv, parsed, context, answered>>

Interrupt ==
  /\ pc # "done"
  /\ Exit(ExitCode.INTERRUPTED)
  /\ UNCHANGED <<typed, split, argv, parsed, context, answered>>

Work ==
  \/ NothingToMove \/ FindSubcommand \/ HoistOption \/ KeepToken \/ StopAtSeparator \/ Assemble
  \/ Parse \/ ResolveBuiltin \/ ResolvePlugin \/ UnknownCommand
  \/ BuildContext \/ CallbackFails \/ ParseArguments \/ RunBuiltin \/ RunPlugin

Next == Work \/ Interrupt

Spec == Init /\ [][Next]_vars

\* One thread that nothing blocks; a command or plugin that runs returns.
FairSpec == Spec /\ WF_vars(Work)

-----------------------------------------------------------------------------
(* What the line says, read from the table of global options alone: options *)
(* up to the command, the command, then its words with the global options   *)
(* taken out, until "--".                                                   *)

Sorted(words) ==
  LET from[i \in 1 .. Len(words) + 2] ==
        IF i > Len(words) THEN NothingParsed
        ELSE LET t == words[i]
             IN IF IsSeparator(t) THEN Parsed(<<>>, SubSeq(words, i, Len(words)), FALSE)
                ELSE IF Asks(t) /\ i < Len(words)
                THEN [from[i + 2] EXCEPT !.opts = <<SubSeq(words, i, i + 1)>> \o @]
                ELSE IF t.name \in Valued \union Flags \union Clusters /\ ~Asks(t)
                THEN [from[i + 1] EXCEPT !.opts = <<<<t>>>> \o @]
                ELSE [from[i + 1] EXCEPT !.rest = <<t>> \o @]
  IN from[1]

Meant(line) ==
  LET lead == ParseRoot(line)
      own  == Sorted(Tail(lead.rest))
  IN IF lead.ended \/ lead.rest = <<>> THEN lead
     ELSE Parsed(lead.opts \o own.opts, <<Head(lead.rest)>> \o own.rest, FALSE)

IsMovable(t, isLast) ==
  \/ t.name \in Flags \union Clusters
  \/ t.name \in Valued /\ (t.inline \notin {"none", ""} \/ ~isLast)

MovesSomething(tail) ==
  \E i \in DOMAIN tail :
    /\ IsMovable(tail[i], i = Len(tail))
    /\ \A j \in 1 .. i : ~IsSeparator(tail[j])

\* The first word of the line is the value of an option, and a global option
\* that can be moved comes after it.
ValueTakenForCommand(line) ==
  LET first == FirstWord(line)
  IN /\ first # 0 /\ Len(ParseRoot(line).rest) <= Len(line) - first
     /\ MovesSomething(SubSeq(line, first + 1, Len(line)))

\* The value of an option is "--", so that nothing is moved that should be.
ValueTakenForSeparator(line) ==
  LET lead == ParseRoot(line)
  IN /\ FirstWord(line) = 0 /\ lead.rest # <<>> /\ ~lead.ended
     /\ MovesSomething(Tail(lead.rest))

HasEmptyValue(line) == \E i \in DOMAIN line : line[i].name \in Valued /\ EmptyInline(line[i])

IsParsed == pc \notin {"find", "scan", "parse"} /\ parsed # NothingParsed

-----------------------------------------------------------------------------
(* Properties *)

TypeOK ==
  /\ typed \in Lines
  /\ pc \in {"find", "scan", "parse", "resolve", "callback", "arguments", "run", "done"}
  /\ before \in Seq(Token) /\ after \in Seq(Token) /\ subcommand \in Token \union {NoToken}
  /\ hoisted \in Seq(Token) /\ remaining \in Seq(Token)
  /\ argv \in Seq(Token)
  /\ parsed.opts \in Seq(Seq(Token)) /\ parsed.rest \in Seq(Token)
  /\ answered \in {"nobody", "help", "builtin", "plugin"}
  /\ status \in -1 .. 255

\* normalize_argv (argv_normalize.py:97) only moves: at every turn of its loop
\* the tokens seen so far are shared out between hoisted and remaining, each in
\* the order in which they were typed, and none is dropped or doubled.
NothingLost ==
  pc = "scan" =>
    LET tail == SubSeq(typed, Len(before) + 2, Len(typed))
        seen == 1 .. Len(tail) - Len(after)
        Picked(S) == [i \in 1 .. Cardinality(S) |->
                        tail[CHOOSE p \in S : Cardinality({q \in S : q < p}) = i - 1]]
    IN \E S \in SUBSET seen : hoisted = Picked(S) /\ remaining = Picked(seen \ S)

\* Global options mean the same on either side of the command
\* (argv_normalize.py:1, docs/CLI.md:104), and what follows "--" is the
\* command's own - except for exactly the lines where the value of a leading
\* option is taken for the command or for "--", and some with an empty --option=.
MeansWhatWasTyped ==
  IsParsed =>
    /\ \/ parsed = Meant(typed)
       \/ ValueTakenForCommand(typed) \/ ValueTakenForSeparator(typed)
       \/ HasEmptyValue(typed)
    /\ ValueTakenForCommand(typed) \/ ValueTakenForSeparator(typed) => parsed # Meant(typed)

\* resolve_log_level: the level of a command does not depend on where the
\* options stand. --log-level beats the others, any -v beats -q, and nothing
\* but -q makes bcs quieter than usual.  This is what the code does, and what its
\* warning says ("last-wins is not tracked positionally"); docs/CLI.md:121,183
\* and the docstring of resolve_log_level (logging_setup.py:88) promise that the
\* last of -v and -q wins.
AskedLevel ==
  LET opts == {o[1].name : o \in ToSet(Meant(typed).opts)}
      loud == opts \intersect ({"-v", "--verbose"} \union Clusters) # {}
      levels == {i \in DOMAIN Meant(typed).opts : Meant(typed).opts[i][1].name = "--log-level"}
  IN context # "none" /\ parsed = Meant(typed) =>
       IF levels # {}
       THEN \E i \in levels : context = ValueOf(Meant(typed).opts[i]) /\ \A j \in levels : j <= i
       ELSE /\ loud => context \in {"debug", "trace"}
            /\ context = "error" => ~loud /\ opts \intersect {"-q", "--quiet", "-qy"} # {}

\* docs/CLI.md:104: "Global options may appear before or after the command
\* name" and argv_normalize.py:3 "must be equivalent": what Click gets says
\* what the line says.
GlobalOptionsAnywhere == IsParsed => parsed = Meant(typed)

\* Every invocation ends: the loop of normalize_argv always moves on, and each
\* step leads to an exit status.
Exits == <>(pc = "done")
=============================================================================
