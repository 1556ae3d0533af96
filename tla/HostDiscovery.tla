---------------------------- MODULE HostDiscovery ----------------------------
(***************************************************************************)
(* Two commands that look at the host through the platform adapters, run   *)
(* at one terminal one after the other, each in a process of its own:      *)
(*                                                                         *)
(*  - bcs inventory: HostDiscoveryOrchestrator.discover() asks every       *)
(*    adapter in a fixed order and isolates a PlatformError as a caveat;   *)
(*    collect_host_inventory() falls back to the old collectors wherever   *)
(*    the snapshot is absent;                                              *)
(*  - bcs doctor: the selected checks, three of which call an adapter of   *)
(*    their own and fall back by themselves.                               *)
(*                                                                         *)
(* log keeps what every command of the session ended with; no code reads   *)
(* it, the properties compare its entries.                                 *)
(***************************************************************************)
EXTENDS HostAdapters, SequencesExt

CONSTANTS
  Settings,    \* what the checks that run no tool find: see SettingsAreTyped
  Doctors,     \* how doctor may be called: [checks, strict]
  Budgets,     \* what --timeout may say, in seconds
  MaxCommands  \* bound: commands given at the terminal

Configs == {"none", "override", "undecodable", "errors", "warnings", "valid"}

\* The ESP is mounted at /boot/efi; a USB device; every tool on PATH; root;
\* what resolve_path and validate_document make of the config ("override":
\* an override is refused with a UsageError; "undecodable": not UTF-8, or it
\* names a date that does not exist).
ASSUME SettingsAreTyped ==
  Settings \subseteq [esp : BOOLEAN, usb : BOOLEAN, tooling : BOOLEAN, root : BOOLEAN,
                      config : Configs]
ASSUME ToolsAreInstalledOrMissing ==
  \A d \in Adapters : \A i \in 1 .. Len(Commands[d]) : Commands[d][i] \in Tools
ASSUME DoctorsAreTyped ==
  \A doctor \in Doctors : doctor.checks \in Seq(STRING) /\ doctor.strict \in BOOLEAN
ASSUME CommandsAreBounded == MaxCommands \in Nat /\ Budgets \subseteq Nat

VARIABLES
  setting,   \* the machine and the config, for the checks that run no tool
  command,   \* the command that is running, "none"
  ahead,     \* the domains or checks it has not looked at yet
  snapshot,  \* inventory: the snapshot's fields so far
  caveats,   \* inventory: the snapshot's caveats so far
  results,   \* doctor: the CheckResults so far
  options,   \* --check, --strict, --timeout
  log        \* what each command ended with

work == <<snapshot, caveats, results>>
vars == <<runner, host, reading, outputs, reply, setting, command, ahead, work, options, log>>

-----------------------------------------------------------------------------
Domains ==
  <<"efi", "storage", "secure_boot", "filesystem", "network", "cpu", "memory", "tpm">>

AllChecks ==
  <<"firmware", "secure-boot", "esp", "storage", "usb-storage", "network", "tooling",
    "permissions", "config">>

Absent == {"absent"}

EmptySnapshot == [d \in ToSet(Domains) |-> Absent]

NoOptions == [checks |-> <<>>, strict |-> FALSE, timeout |-> 0]

NoReport == [storage |-> Absent, network |-> Absent, secureBoot |-> "unsupported"]

Init ==
  /\ InitAdapters
  /\ setting \in Settings
  /\ command = "none"
  /\ ahead = <<>>
  /\ snapshot = EmptySnapshot
  /\ caveats = <<>>
  /\ results = <<>>
  /\ options = NoOptions
  /\ log = <<>>

\* run_doctor: the checks that --check names, or all of them.
Selected(checks) == IF checks = <<>> THEN AllChecks ELSE checks

\* A new process: its objects are fresh, and --timeout is stored, not used.
Begin(name, domains, opts) ==
  /\ command = "none"
  /\ Len(log) < MaxCommands
  /\ command' = name
  /\ ahead' = domains
  /\ snapshot' = EmptySnapshot
  /\ caveats' = <<>>
  /\ results' = <<>>
  /\ options' = opts
  /\ spent' = 0
  /\ UNCHANGED <<wall, backs, mood, child, started, answer, host, reading, outputs, reply,
                 setting, log>>

StartInventory ==
  \E budget \in Budgets :
    Begin("inventory", Domains, [NoOptions EXCEPT !.timeout = budget])

StartDoctor ==
  \E doctor \in Doctors, budget \in Budgets :
    Begin("doctor", Selected(doctor.checks),
          [checks |-> doctor.checks, strict |-> doctor.strict, timeout |-> budget])

-----------------------------------------------------------------------------
\* The process ends: nothing of it but its exit code and what it printed
\* (the check results, or an inventory) is left, and the child that it leaves
\* behind, if any.
End(code, found, report, orphan) ==
  /\ log' = Append(log, [command |-> command, asked |-> options.checks, exit |-> code,
                         results |-> found, report |-> report, left |-> orphan])
  /\ command' = "none"
  /\ ahead' = <<>>
  /\ options' = NoOptions
  /\ reply' = NoReply
  /\ reading' = "none"
  /\ outputs' = <<>>
  /\ UNCHANGED <<host, setting>>

\* bcs.__main__: a BcsError has a code of its own, anything else is 1.
Fail(code) == End(code, <<>>, NoReport, child.tool) /\ UNCHANGED <<runner, work>>

Replied == reply.error # "pending"

\* Neither _call_adapter nor a check of doctor catches it.
Crash ==
  /\ command # "none"
  /\ Replied /\ reply.error \notin PlatformErrors \union {"none"}
  /\ Fail(1)

\* Ctrl-C: subprocess.run kills the child on the way out, but waits for it a
\* quarter of a second at most: a child that cannot die is left behind.
Survivor == IF child # NoChild /\ mood[child.tool] = "stuck" THEN child.tool ELSE NoTool

Interrupt ==
  /\ command # "none"
  /\ child' = NoChild
  /\ answer' = NoAnswer
  /\ End(130, <<>>, NoReport, Survivor)
  /\ UNCHANGED <<wall, backs, mood, started, spent, work>>

\* The process's own steps between two ends.
Ask(domain) ==
  /\ ~ Replied
  /\ CallAdapter(domain)
  /\ UNCHANGED <<setting, command, ahead, work, options, log>>

Read ==
  /\ command # "none"
  /\ Adapt
  /\ UNCHANGED <<setting, command, ahead, work, options, log>>

\* The rest of a step that has looked at the reply, or needed none.
Onward ==
  /\ ahead' = Tail(ahead)
  /\ reply' = NoReply
  /\ UNCHANGED <<runner, host, reading, outputs, setting, command, options, log>>

-----------------------------------------------------------------------------
\* The old collectors: /dev/nvme*, operstate, and a Secure Boot placeholder.
CollectedDisks == host.devices \intersect {"nvme"}
CollectedUp == host.nics \intersect {"up"}
CollectedSecureBoot == IF host.uefi THEN "unknown" ELSE "unsupported"

\* What the adapters' models say of the same: UP and LOWER_UP, whole disks.
Up(nics) == nics \ {"down"}

\* The inventory and doctor filter the disks each for itself.
Disks == {"nvme", "sata"}
TranslatedDisks(devices) == devices \intersect Disks

\* Mutant: doctor counts every block device.
MutantCountEverything(devices) == devices

CountedDisks(devices) == devices \intersect Disks

Inventorying == command = "inventory" /\ ahead # <<>>

Consult == Inventorying /\ Head(ahead) \in Adapters /\ Ask(Head(ahead))

\* Mutant: only what PATH lacks is noted as a caveat.
MutantIsolateQuietly ==
  /\ Inventorying
  /\ reply.error \in PlatformErrors
  /\ caveats' = IF reply.error = "CommandNotFoundError"
                THEN Append(caveats, Head(ahead)) ELSE caveats
  /\ UNCHANGED <<snapshot, results>>
  /\ Onward

\* Mutant: the sweep stops at the first adapter that fails.
MutantIsolateNothing ==
  /\ Inventorying
  /\ reply.error \in PlatformErrors
  /\ caveats' = Append(caveats, Head(ahead))
  /\ ahead' = <<>>
  /\ reply' = NoReply
  /\ UNCHANGED <<runner, host, reading, outputs, setting, command, options, log,
                 snapshot, results>>

Isolate ==
  /\ Inventorying
  /\ reply.error \in PlatformErrors
  /\ caveats' = Append(caveats, Head(ahead))
  /\ UNCHANGED <<snapshot, results>>
  /\ Onward

Keep ==
  /\ Inventorying
  /\ reply.error = "none"
  /\ snapshot' = [snapshot EXCEPT ![Head(ahead)] = reply.facts]
  /\ UNCHANGED <<caveats, results>>
  /\ Onward

\* cpu and memory are wired to collectors, which always answer; tpm is not
\* wired, which is no caveat.
CallLocally ==
  /\ Inventorying
  /\ Head(ahead) \notin Adapters
  /\ snapshot' = IF Head(ahead) = "tpm" THEN snapshot
                 ELSE [snapshot EXCEPT ![Head(ahead)] = {}]
  /\ UNCHANGED <<caveats, results>>
  /\ Onward

Present(d) == snapshot[d] # Absent

\* collect_host_inventory: storage, network and Secure Boot from the snapshot
\* where it has them, whole disks and interfaces with a carrier only.
Inventory ==
  [storage    |-> IF Present("storage")
                  THEN TranslatedDisks(snapshot["storage"]) ELSE CollectedDisks,
   network    |-> IF Present("network") THEN Up(snapshot["network"]) ELSE CollectedUp,
   secureBoot |-> IF Present("secure_boot")
                  THEN CHOOSE state \in snapshot["secure_boot"] : TRUE
                  ELSE CollectedSecureBoot]

Report ==
  /\ command = "inventory" /\ ahead = <<>>
  /\ End(0, <<>>, Inventory, child.tool)
  /\ UNCHANGED <<runner, work>>

-----------------------------------------------------------------------------
\* doctor: what a check makes of the reply of its adapter.  The fallback of
\* the network check lists every interface, that of Secure Boot is "warn".
SecureBootStatus(r) == IF r.error = "none" /\ r.facts = {"enabled"} THEN "ok" ELSE "warn"

StorageStatus(r) ==
  LET names == IF r.error = "none" THEN CountedDisks(r.facts) ELSE CollectedDisks IN
  IF names # {} THEN "ok" ELSE "fail"

\* Mutant: the state of the interfaces is passed on as the check's status.
MutantNetworkFails(r) ==
  LET up == IF r.error = "none" THEN Up(r.facts) ELSE CollectedUp IN
  IF host.nics = {} THEN "skip" ELSE IF up # {} THEN "ok" ELSE "down"

NetworkStatus(r) ==
  LET up == IF r.error = "none" THEN Up(r.facts) ELSE CollectedUp IN
  IF host.nics = {} THEN "skip" ELSE IF up # {} THEN "ok" ELSE "warn"

AskingChecks == {"secure-boot", "storage", "network"}

\* Mutant: the gate is the result of the firmware check, not the firmware.
MutantAskingByResult(check) ==
  /\ check \in AskingChecks
  /\ check = "secure-boot" => [check |-> "firmware", status |-> "ok"] \in ToSet(results)

Asking(check) == check \in AskingChecks /\ (check = "secure-boot" => host.uefi)

AdapterOf(check) == IF check = "secure-boot" THEN "secure_boot" ELSE check

AskedStatus(check, r) ==
  CASE check = "secure-boot" -> SecureBootStatus(r)
    [] check = "storage"     -> StorageStatus(r)
    [] check = "network"     -> NetworkStatus(r)

\* The checks that run no tool.  collect_efi_system_partition never reports
\* an ESP that is present and not mounted.
LocalStatus(check) ==
  CASE check = "firmware"    -> IF host.uefi THEN "ok" ELSE "fail"
    [] check = "secure-boot" -> "skip"
    [] check = "esp"         -> IF setting.esp THEN "ok" ELSE "fail"
    [] check = "usb-storage" -> IF setting.usb THEN "ok" ELSE "skip"
    [] check = "tooling"     -> IF setting.tooling THEN "ok" ELSE "fail"
    [] check = "permissions" -> IF setting.root THEN "ok" ELSE "warn"
    [] check = "config"      -> CASE setting.config = "valid"  -> "ok"
                                  [] setting.config = "errors" -> "fail"
                                  [] OTHER                     -> "warn"

Known == ToSet(options.checks) \subseteq ToSet(AllChecks)

Checking == command = "doctor" /\ Known /\ ahead # <<>>

RefuseSelection == command = "doctor" /\ ~ Known /\ Fail(2)

AskForCheck ==
  Checking /\ Asking(Head(ahead)) /\ Ask(AdapterOf(Head(ahead)))

Found(status) ==
  /\ results' = Append(results, [check |-> Head(ahead), status |-> status])
  /\ UNCHANGED <<snapshot, caveats>>
  /\ Onward

CheckAnswer ==
  /\ Checking
  /\ reply.error \in PlatformErrors \union {"none"}
  /\ Found(AskedStatus(Head(ahead), reply))

CheckLocally ==
  /\ Checking
  /\ ~ Asking(Head(ahead))
  /\ Head(ahead) = "config" => setting.config \notin {"override", "undecodable"}
  /\ Found(LocalStatus(Head(ahead)))

\* validate_document catches ConfigInvalidError alone: the UsageError of an
\* override, the UnicodeDecodeError of read_text and the ValueError that
\* yaml.safe_load has for an impossible date go past it.
RefuseConfig ==
  /\ Checking /\ Head(ahead) = "config"
  /\ \/ setting.config = "override" /\ Fail(2)
     \/ setting.config = "undecodable" /\ Fail(1)

Statuses == {results[i].status : i \in DOMAIN results}

Failing == "fail" \in Statuses \/ (options.strict /\ "warn" \in Statuses)

Verdict ==
  /\ command = "doctor" /\ Known /\ ahead = <<>>
  /\ End(IF Failing THEN 4 ELSE 0, results, NoReport, child.tool)
  /\ UNCHANGED <<runner, work>>

-----------------------------------------------------------------------------
Elsewhere == UNCHANGED <<host, reading, outputs, reply, setting, command, ahead, work,
                         options, log>>

\* What bcs does by itself once started, and what its children do.
Process ==
  \/ Consult \/ Isolate \/ Keep \/ CallLocally \/ Report
  \/ RefuseSelection \/ AskForCheck \/ CheckAnswer \/ CheckLocally \/ RefuseConfig
  \/ Verdict \/ Read \/ Crash
  \/ Collect /\ Elsewhere
  \/ Reap /\ Elsewhere

Run == (Exit \/ Expire) /\ Elsewhere

Next ==
  \/ StartInventory
  \/ StartDoctor
  \/ Interrupt
  \/ Process
  \/ Exit /\ Elsewhere
  \/ Expire /\ Elsewhere
  \/ Tick /\ Elsewhere
  \/ SetBack /\ Elsewhere

Spec == Init /\ [][Next]_vars

\* bcs is scheduled, and a child exits or its timeout passes.
FairSpec == Spec /\ WF_vars(Process) /\ WF_vars(Run)

-----------------------------------------------------------------------------
\* Types.  A tool runs on behalf of an adapter, and an adapter on behalf of
\* a command; nothing is left ahead at the prompt.
TypeOK ==
  /\ wall \in 0 .. LastTick /\ started \in 0 .. LastTick /\ backs \in 0 .. MaxBacks
  /\ spent \in Nat
  /\ child.tool \in Tools \union {NoTool}
  /\ child.state \in {"none", "running", "exited", "killed"}
  /\ answer.error \in Errors \union {"pending", "none"}
  /\ reply.error \in Errors \union {"pending", "none"}
  /\ reading \in Adapters \union {"none"}
  /\ command \in {"none", "inventory", "doctor"}
  /\ \A i \in DOMAIN results :
       /\ results[i].check \in ToSet(AllChecks)
       /\ results[i].status \in {"ok", "warn", "fail", "skip"}
  /\ child # NoChild => reading # "none"
  /\ reading # "none" => command # "none"
  /\ command = "none" => ahead = <<>>

\* Nobody is left in doubt: a command that dies with the catch-all's code 1
\* does so because the clock was set back, or a tool could not be started
\* for another reason than a missing file or permission, or its output has
\* a shape the parsers never expect, or the config is not text (doctor.py: "bcs doctor never crashes
\* because a tool is missing").
NoNeedlessCrash ==
  \A i \in DOMAIN log :
    log[i].exit = 1 =>
      \/ backs > 0
      \/ log[i].command = "doctor" /\ setting.config = "undecodable"
      \/ \E t \in Tools : mood[t] \in {"broken", "odd"}

Swept == command = "inventory" /\ ahead = <<>>

CalledBefore(d, e) ==
  \E m, n \in 1 .. Len(Domains) : m < n /\ Domains[m] = d /\ Domains[n] = e

\* A domain is absent from a finished snapshot exactly if it has a caveat,
\* except tpm, which nobody wired; the caveats are in the order of the calls,
\* and so no domain has two.
CaveatsExplain ==
  Swept =>
    /\ ToSet(caveats) = {d \in ToSet(Domains) : d # "tpm" /\ ~ Present(d)}
    /\ \A i, j \in DOMAIN caveats : i < j => CalledBefore(caveats[i], caveats[j])

\* One bad tool costs one domain: a domain is absent from a finished snapshot
\* only if one of its own tools is not in order.
OneBadTool ==
  Swept =>
    \A d \in Adapters :
      ~ Present(d) => \E t \in ToSet(Commands[d]) : mood[t] # "works"

\* The runs of a session that printed something.
Inventories == {log[i] : i \in {j \in DOMAIN log : log[j].command = "inventory" /\ log[j].exit = 0}}
Diagnoses == {log[i] : i \in {j \in DOMAIN log : log[j].command = "doctor" /\ log[j].exit \in {0, 4}}}

\* A slow tool may answer one command and not the other.
Predictable == \A t \in Tools : mood[t] # "slow"

\* doctor and inventory, each with an adapter call and a fallback of its own,
\* agree on the same machine about storage, network and Secure Boot.
DoctorAgrees ==
  Predictable =>
    \A i \in Inventories, d \in Diagnoses : \A r \in ToSet(d.results) :
      /\ r.check = "storage" => (r.status = "ok" <=> i.report.storage # {})
      /\ r.check = "network" => (r.status = "ok" <=> i.report.network # {})
      /\ r.check = "secure-boot" => (r.status = "ok" <=> i.report.secureBoot = "enabled")

\* The checks that cannot be made on this machine: what they raise goes past
\* run_doctor's list of results.
Raises(check) ==
  \/ check = "config" /\ setting.config = "undecodable"
  \/ /\ check \in AskingChecks
     /\ \/ backs > 0
        \/ \E t \in ToSet(Commands[AdapterOf(check)]) : mood[t] \in {"broken", "odd"}

\* What a doctor run e has for each check that was asked for: all results or
\* none, and none only because of a name it does not know or of one of these
\* checks itself.
Accounted(e) ==
  LET asked   == ToSet(Selected(e.asked))
      Refused == "config" \in asked /\ setting.config = "override"
  IN
  /\ e.exit \in {0, 4} =>
       /\ Len(e.results) = Len(Selected(e.asked))
       /\ \A i \in 1 .. Len(e.results) : e.results[i].check = Selected(e.asked)[i]
       /\ ~ Refused /\ ("config" \in asked => setting.config # "undecodable")
  /\ e.exit = 2 => Refused \/ ~ asked \subseteq ToSet(AllChecks)
  /\ e.exit = 1 => \E check \in asked : Raises(check)

\* What a check says depends neither on the checks selected with it nor on what
\* ran before, and no check costs a run that does not ask for it.  Of those that
\* a run asks for, one that raises costs all: run_doctor builds its results in
\* one list (doctor.py:280), so that a config whose override is refused, or that
\* is not UTF-8, leaves nothing of the other eight.  The docstrings promise more:
\* "Checks are independent of one another and of whether a ClassroomConfig
\* resolves at all" (doctor.py:3-7), no check to "be blocked by" another
\* (doctor.py:106-108).
ChecksIndependent ==
  /\ \A i \in DOMAIN log : log[i].command = "doctor" => Accounted(log[i])
  /\ Predictable =>
       \A c \in Diagnoses, d \in Diagnoses :
         \A r \in ToSet(c.results), s \in ToSet(d.results) :
           r.check = s.check => r.status = s.status

\* A child outlives the command that started it only if a kill does not end it
\* and Ctrl-C ended the command: in every other case bcs waits for it.
NoOrphan ==
  /\ command = "none" => child = NoChild
  /\ \A i \in DOMAIN log :
       log[i].left # NoTool => log[i].exit = 130 /\ mood[log[i].left] = "stuck"

\* Every command ends, unless a killed tool cannot die: after the timeout
\* nothing bounds the wait for it, and only Ctrl-C ends the command.
Ends ==
  command # "none" /\ (\A t \in Tools : mood[t] # "stuck") ~> command = "none"

\* errors.py on CommandTimeoutError: "Always raised".
TimeoutIsLoud ==
  [][child.state = "killed" /\ reading' # "none" /\ child' = NoChild
       => answer'.error = "CommandTimeoutError"]_vars

\* docs/CLI.md on --timeout: "Overall wall-clock budget for the invocation".
BudgetIsKept == command # "none" => spent <= options.timeout
=============================================================================
