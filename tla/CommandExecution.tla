--------------------------- MODULE CommandExecution ---------------------------
(***************************************************************************)
(* SubprocessCommandRunner.run (src/cli/src/bcs/platform/execution.py):    *)
(* one external command at a time, with a timeout of its own, whose        *)
(* outcome is a CommandResult or an exception.  subprocess.run itself is   *)
(* modelled by what it does: spawn, wait, and after the timeout kill the   *)
(* child and wait for it again.                                            *)
(*                                                                         *)
(* Timeouts run on the monotonic clock; started_at and finished_at are     *)
(* wall-clock times, and the wall clock may be set back at any moment.     *)
(***************************************************************************)
EXTENDS Integers

CONSTANTS
  Tools,       \* the executables a caller may run
  NoTool,      \* no child process
  Timeout,     \* Timeout[t]: timeout_seconds passed when t is run
  ToolSets,    \* what running each tool may come to, on the hosts considered
  LastTick,    \* bound: the last wall-clock time
  MaxBacks     \* bound: how often the wall clock is set back

Moods ==
  {"works", "missing", "broken", "refused", "fails", "partial", "garbled",
   "odd", "nothing", "slow", "hangs", "stuck"}

ASSUME ToolsAreTyped ==
  /\ NoTool \notin Tools
  /\ Timeout \in [Tools -> Nat]
  /\ ToolSets \subseteq [Tools -> Moods]
ASSUME ClockIsBounded == LastTick \in Nat /\ MaxBacks \in Nat

VARIABLES
  wall,     \* datetime.now(UTC)
  backs,    \* how often the wall clock was set back
  mood,     \* what running each tool comes to on this host
  child,    \* the child process: its tool and where it is
  started,  \* started_at of the current call
  spent,    \* seconds the command has spent in calls that timed out
  answer    \* what the last call returned or raised, until its caller looks

runner == <<wall, backs, mood, child, started, spent, answer>>

-----------------------------------------------------------------------------
Nothing == [code |-> 0, stdout |-> "nothing", refused |-> FALSE]

\* What a completed tool leaves: its exit code, what the caller's parser will
\* make of its stdout, and whether _is_unavailable recognises its stderr.
Output(t) ==
  [code    |-> IF mood[t] \in {"refused", "fails", "partial"} THEN 1 ELSE 0,
   stdout  |-> CASE mood[t] \in {"garbled", "odd"} -> mood[t]
                 [] mood[t] \in {"nothing", "refused", "fails"} -> "nothing"
                 [] OTHER -> "good",
   refused |-> mood[t] \in {"refused", "partial"}]

\* PlatformError and its subclasses, the adapters' own ones included.
PlatformErrors ==
  {"CommandNotFoundError", "CommandTimeoutError", "UnavailableError", "ParseError",
   "AdapterError"}

Errors == PlatformErrors \union {"OSError", "ValidationError", "AttributeError"}

NoAnswer == [error |-> "pending", out |-> Nothing]

Completed(t) == [error |-> "none", out |-> Output(t)]

Raised(e) == [error |-> e, out |-> Nothing]

NoChild == [tool |-> NoTool, state |-> "none"]

InitRunner ==
  /\ wall = 0
  /\ backs = 0
  /\ mood \in ToolSets
  /\ child = NoChild
  /\ started = 0
  /\ spent = 0
  /\ answer = NoAnswer

\* Popen raises for a tool that is missing, may not be executed or cannot be
\* started; only the first two are FileNotFoundError or PermissionError.
Spawn(t) ==
  /\ child = NoChild
  /\ \/ /\ mood[t] \in {"missing", "broken"}
        /\ answer' = Raised(IF mood[t] = "missing" THEN "CommandNotFoundError" ELSE "OSError")
        /\ UNCHANGED <<child, started>>
     \/ /\ mood[t] \notin {"missing", "broken"}
        /\ child' = [tool |-> t, state |-> "running"]
        /\ started' = wall
        /\ answer' = NoAnswer
  /\ UNCHANGED <<wall, backs, mood, spent>>

Exit ==
  /\ child.state = "running"
  /\ mood[child.tool] \notin {"hangs", "stuck"}
  /\ child' = [child EXCEPT !.state = "exited"]
  /\ UNCHANGED <<wall, backs, mood, started, spent, answer>>

\* Mutant: the child is left running when the timeout has passed.
MutantExpireWithoutKill ==
  /\ child.state = "running"
  /\ mood[child.tool] \in {"slow", "hangs", "stuck"}
  /\ spent' = spent + Timeout[child.tool]
  /\ answer' = Raised("CommandTimeoutError")
  /\ UNCHANGED <<wall, backs, mood, started, child>>

\* Mutant: no timeout is passed to subprocess.run.
MutantExpireNever == FALSE /\ UNCHANGED runner

\* The timeout passes first: the child is killed, and waited for.
Expire ==
  /\ child.state = "running"
  /\ mood[child.tool] \in {"slow", "hangs", "stuck"}
  /\ child' = [child EXCEPT !.state = "killed"]
  /\ spent' = spent + Timeout[child.tool]
  /\ UNCHANGED <<wall, backs, mood, started, answer>>

\* CommandResult refuses a finished_at before started_at (and a negative
\* duration) with pydantic's ValidationError.
Timed(a) == IF wall < started THEN Raised("ValidationError") ELSE a

Collect ==
  /\ child.state = "exited"
  /\ child' = NoChild
  /\ answer' = Timed(Completed(child.tool))
  /\ UNCHANGED <<wall, backs, mood, started, spent>>

\* The partial_result is built before CommandTimeoutError is raised.  A child
\* in an uninterruptible call cannot be killed, and wait() has no timeout.
Reap ==
  /\ child.state = "killed"
  /\ mood[child.tool] # "stuck"
  /\ child' = NoChild
  /\ answer' = Timed(Raised("CommandTimeoutError"))
  /\ UNCHANGED <<wall, backs, mood, started, spent>>

\* The caller has looked at the answer.
Taken == answer' = NoAnswer /\ UNCHANGED <<wall, backs, mood, child, started, spent>>

Tick ==
  /\ wall < LastTick
  /\ wall' = wall + 1
  /\ UNCHANGED <<backs, mood, child, started, spent, answer>>

SetBack ==
  /\ backs < MaxBacks
  /\ backs' = backs + 1
  /\ wall' \in 0 .. (wall - 1)
  /\ UNCHANGED <<mood, child, started, spent, answer>>
=============================================================================
