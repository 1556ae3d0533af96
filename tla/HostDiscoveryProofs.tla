------------------------- MODULE HostDiscoveryProofs -------------------------
(* What holds of bcs inventory and bcs doctor on every host, whatever its     *)
(* tools do, however many commands are given and whenever they are stopped.   *)
EXTENDS HostDiscovery, SequenceTheorems, TLAPS

Stdouts == {"good", "garbled", "odd", "nothing"}

CheckResult == [check : ToSet(AllChecks), status : {"ok", "warn", "fail", "skip"}]

\* Everything that a model of an adapter can hold, and the mark of none.
DiskKinds == {"nvme", "sata", "loop"}
NicStates == {"up", "down", "tun"}
BootStates == {"enabled", "disabled", "unknown"}
Contents == DiskKinds \union NicStates \union BootStates \union Absent

Printed == [storage : SUBSET Contents, network : SUBSET Contents,
            secureBoot : BootStates \union {"unsupported"}]

\* What a command may have ahead: domains, checks, and what --check names.
Words == STRING \union ToSet(AllChecks) \union ToSet(Domains)

LogEntry ==
  [command : {"inventory", "doctor"}, asked : Seq(STRING), exit : {0, 1, 2, 4, 130},
   results : Seq(CheckResult), report : Printed, left : Tools \union {NoTool}]

-----------------------------------------------------------------------------
(* The inductive invariant *)

Clock ==
  /\ wall \in 0 .. LastTick /\ started \in 0 .. LastTick /\ backs \in 0 .. MaxBacks
  /\ spent \in Nat
  /\ backs = 0 => started <= wall

\* Nothing of it changes while the session lasts.
ThisMachine ==
  /\ mood \in [Tools -> Moods] /\ host \in Hosts /\ setting \in Settings
  /\ host.uefi \/ mood["mokutil"] \in {"refused", "missing"}

\* The tool that the adapter is waiting for, or has just heard of.
Current == Commands[reading][Len(outputs) + 1]

\* A tool that ended by itself with code 0, or only could have been slow.
Answers(t) == mood[t] \in {"works", "nothing", "garbled", "odd", "slow"}

Waiting ==
  /\ child \in [tool : {Current}, state : {"running", "exited", "killed"}]
  /\ answer = NoAnswer
  /\ mood[Current] \notin {"missing", "broken"}
  /\ child.state = "exited" => mood[Current] \notin {"hangs", "stuck"}
  /\ child.state = "killed" => mood[Current] \in {"slow", "hangs", "stuck"}

\* What an answer says of the tool that gave it.
Heard ==
  /\ child = NoChild
  /\ \/ /\ answer = Completed(Current)
        /\ mood[Current] \notin {"missing", "broken", "hangs", "stuck"}
     \/ answer = Raised("CommandNotFoundError") /\ mood[Current] = "missing"
     \/ answer = Raised("CommandTimeoutError") /\ mood[Current] \in {"slow", "hangs"}
     \/ answer = Raised("OSError") /\ mood[Current] = "broken"
     \/ answer = Raised("ValidationError") /\ backs > 0

Idle == child = NoChild /\ answer = NoAnswer /\ outputs = <<>>

Call ==
  IF reading = "none" THEN Idle
  ELSE /\ reading \in Adapters
       /\ outputs \in Seq(Stdouts) /\ Len(outputs) < Len(Commands[reading])
       /\ \A i \in 1 .. Len(outputs) :
            /\ outputs[i] = Output(Commands[reading][i]).stdout
            /\ Answers(Commands[reading][i])
       /\ Waiting \/ Heard

\* The adapter that a running command has to ask next.
Asked == IF command = "inventory" THEN Head(ahead) ELSE AdapterOf(Head(ahead))

Wanted ==
  /\ ahead # <<>>
  /\ Asked \in Adapters
  /\ \/ command = "inventory"
     \/ command = "doctor" /\ Known /\ Asking(Head(ahead))

\* An adapter succeeds only if its tools let it, and fails only if one of them
\* did not work; slow tools may go either way.
Sound(d) ==
  d # "filesystem" =>
    /\ \A i \in 1 .. Len(Commands[d]) : mood[Commands[d][i]] \in {"works", "nothing", "slow"}
    /\ d = "secure_boot" => mood["mokutil"] # "nothing"

Faulted(d) ==
  /\ \E i \in 1 .. Len(Commands[d]) : mood[Commands[d][i]] # "works"
  /\ d # "filesystem" /\ Predictable => ~ Sound(d)

Excused == backs > 0 \/ \E t \in Tools : mood[t] \in {"broken", "odd"}

\* What makes an adapter raise something else than a PlatformError.
ExcusedBy(d) ==
  backs > 0 \/ \E i \in 1 .. Len(Commands[d]) : mood[Commands[d][i]] \in {"broken", "odd"}

ReplyIs(d) ==
  \/ reply = [error |-> "none", facts |-> Facts(d)] /\ Sound(d)
  \/ reply.error \in PlatformErrors /\ Faulted(d)
  \/ reply.error \in Errors \ PlatformErrors /\ ExcusedBy(d)

Exchange ==
  /\ command \in {"none", "inventory", "doctor"}
  /\ command = "none" => ahead = <<>> /\ reading = "none" /\ reply = NoReply
  /\ reading # "none" => Wanted /\ reading = Asked /\ reply = NoReply
  /\ reply = NoReply \/ (Wanted /\ ReplyIs(Asked))
  /\ reply.error \in Errors \union {"pending", "none"}
  /\ reply.error = "pending" <=> reply = NoReply

\* The first k domains are behind the sweep.
Rest(k) == SubSeq(Domains, k + 1, 8)

Behind(k) ==
  /\ \A i \in 1 .. 5 :
       LET d == Domains[i] IN
       \/ i <= k /\ snapshot[d] = Facts(d) /\ Sound(d)
       \/ i <= k /\ snapshot[d] = Absent /\ Faulted(d)
       \/ i > k /\ snapshot[d] = Absent
  /\ \A i \in {6, 7} : snapshot[Domains[i]] = IF i <= k THEN {} ELSE Absent
  /\ snapshot["tpm"] = Absent

Noted(k) ==
  /\ caveats \in Seq(Adapters)
  /\ ToSet(caveats) = {Domains[i] : i \in {j \in 1 .. 5 : j <= k /\ snapshot[Domains[j]] = Absent}}
  /\ \A i, j \in DOMAIN caveats : i < j => CalledBefore(caveats[i], caveats[j])

Sweeping ==
  /\ snapshot \in [ToSet(Domains) -> SUBSET Contents]
  /\ command = "inventory" =>
       \E k \in 0 .. 8 : ahead = Rest(k) /\ Behind(k) /\ Noted(k)

\* What a check finds on this machine, when nothing is slow.
Told(d) ==
  IF Sound(d) THEN [error |-> "none", facts |-> Facts(d)]
  ELSE [error |-> "AdapterError", facts |-> {}]

Expected(check) ==
  IF Asking(check) THEN AskedStatus(check, Told(AdapterOf(check))) ELSE LocalStatus(check)

AsExpected(found) ==
  Predictable => \A i \in 1 .. Len(found) : found[i].status = Expected(found[i].check)

\* The checks that were asked for are those with a result and those ahead.
InTurn ==
  LET sel == Selected(options.checks) IN
  /\ Len(sel) = Len(results) + Len(ahead)
  /\ \A i \in 1 .. Len(results) :
       /\ results[i].check = sel[i]
       /\ results[i].check = "config" => setting.config \notin {"override", "undecodable"}
  /\ \A i \in 1 .. Len(ahead) : ahead[i] = sel[Len(results) + i]

Diagnosing ==
  /\ options.checks \in Seq(STRING)
  /\ command = "doctor" => InTurn
  /\ results \in Seq(CheckResult) /\ AsExpected(results)
  /\ ahead \in Seq(Words)
  /\ command = "doctor" /\ Known => \A i \in 1 .. Len(ahead) : ahead[i] \in ToSet(AllChecks)

\* What an inventory says of this machine, when nothing is slow.
ExpectedReport ==
  [storage    |-> IF Sound("storage") THEN TranslatedDisks(host.devices) ELSE CollectedDisks,
   network    |-> IF Sound("network") THEN Up(host.nics) ELSE CollectedUp,
   secureBoot |-> IF Sound("secure_boot") THEN host.secureBoot ELSE CollectedSecureBoot]

EntryIsTrue(e) ==
  /\ e.exit = 1 => Excused \/ (e.command = "doctor" /\ setting.config = "undecodable")
  /\ e.exit = 0 /\ e.command = "inventory" /\ Predictable => e.report = ExpectedReport
  /\ AsExpected(e.results)
  /\ e.command = "doctor" => Accounted(e)
  /\ e.left # NoTool => e.exit = 130 /\ mood[e.left] = "stuck"

Logged == log \in Seq(LogEntry) /\ \A i \in 1 .. Len(log) : EntryIsTrue(log[i])

Session == Clock /\ ThisMachine /\ Call /\ Exchange /\ Sweeping /\ Diagnosing /\ Logged

-----------------------------------------------------------------------------
(* The tables *)

\* The five adapters and what they run.
LEMMA TheAdapters ==
  /\ Adapters = {"efi", "storage", "secure_boot", "filesystem", "network"}
  /\ Commands["efi"] = <<"efibootmgr">>
  /\ Commands["storage"] = <<"lsblk", "blkid", "findmnt">>
  /\ Commands["secure_boot"] = <<"mokutil">>
  /\ Commands["filesystem"] = <<"df">>
  /\ Commands["network"] = <<"ip">>
BY DEF Adapters, Commands

\* Every adapter runs one to three tools, all of them known to the runner.
LEMMA TheTools ==
  ASSUME NEW d \in Adapters
  PROVE  /\ Len(Commands[d]) \in 1 .. 3
         /\ \A i \in 1 .. Len(Commands[d]) : Commands[d][i] \in Tools
<1>1. /\ Len(Commands["efi"]) = 1 /\ Len(Commands["storage"]) = 3
      /\ Len(Commands["secure_boot"]) = 1 /\ Len(Commands["filesystem"]) = 1
      /\ Len(Commands["network"]) = 1
  BY TheAdapters
<1>2. Len(Commands[d]) = 1 \/ Len(Commands[d]) = 3 BY <1>1, TheAdapters
<1>3. \A i \in 1 .. Len(Commands[d]) : Commands[d][i] \in Tools
  BY ToolsAreInstalledOrMissing
<1> QED BY <1>2, <1>3

\* The order of the sweep: five adapters, two collectors, and tpm.
LEMMA TheDomains ==
  /\ Domains \in Seq(ToSet(Domains)) /\ Len(Domains) = 8
  /\ Domains[1] = "efi" /\ Domains[2] = "storage" /\ Domains[3] = "secure_boot"
  /\ Domains[4] = "filesystem" /\ Domains[5] = "network" /\ Domains[6] = "cpu"
  /\ Domains[7] = "memory" /\ Domains[8] = "tpm"
  /\ ToSet(Domains) = Adapters \union {"cpu", "memory", "tpm"}
<1>1. Len(Domains) = 8 BY DEF Domains
<1>2. /\ Domains[1] = "efi" /\ Domains[2] = "storage" /\ Domains[3] = "secure_boot"
      /\ Domains[4] = "filesystem"
  BY DEF Domains
<1>3. /\ Domains[5] = "network" /\ Domains[6] = "cpu" /\ Domains[7] = "memory"
      /\ Domains[8] = "tpm"
  BY DEF Domains
<1>4. DOMAIN Domains = 1 .. 8 BY DEF Domains
<1>5. 1 .. 8 = {1, 2, 3, 4, 5, 6, 7, 8} OBVIOUS
<1>6. ToSet(Domains) = {Domains[i] : i \in {1, 2, 3, 4, 5, 6, 7, 8}}
  BY <1>4, <1>5 DEF ToSet
<1>7. ToSet(Domains) = {Domains[1], Domains[2], Domains[3], Domains[4], Domains[5],
                        Domains[6], Domains[7], Domains[8]}
  BY <1>6
<1>8. Domains \in Seq(ToSet(Domains))
  <2>1. /\ "efi" \in ToSet(Domains) /\ "storage" \in ToSet(Domains)
        /\ "secure_boot" \in ToSet(Domains) /\ "filesystem" \in ToSet(Domains)
        /\ "network" \in ToSet(Domains) /\ "cpu" \in ToSet(Domains)
        /\ "memory" \in ToSet(Domains) /\ "tpm" \in ToSet(Domains)
    BY <1>2, <1>3, <1>7
  <2> DEFINE S == ToSet(Domains)
  <2>2. <<"efi", "storage", "secure_boot", "filesystem", "network", "cpu", "memory", "tpm">>
          \in Seq(S)
    <3> HIDE DEF S
    <3> QED BY <2>1 DEF S
  <2> QED BY <2>2 DEF Domains
<1> QED BY <1>1, <1>2, <1>3, <1>7, <1>8, TheAdapters

\* The same by place: adapters come first, and no domain comes twice.
LEMMA ByPlace ==
  /\ \A i \in 1 .. 8 : Domains[i] \in ToSet(Domains) /\ (Domains[i] \in Adapters <=> i <= 5)
  /\ \A i \in 1 .. 8 : Domains[i] = "tpm" <=> i = 8
  /\ \A i, j \in 1 .. 8 : Domains[i] = Domains[j] => i = j
  /\ \A d \in Adapters : \E i \in 1 .. 5 : d = Domains[i]
<1>1. \A i \in 1 .. 8 : \/ i = 1 \/ i = 2 \/ i = 3 \/ i = 4 \/ i = 5 \/ i = 6 \/ i = 7 \/ i = 8
  OBVIOUS
<1> QED BY <1>1, TheDomains, TheAdapters

\* What is left of the sweep after k domains.
LEMMA RestShape ==
  ASSUME NEW k \in 0 .. 8
  PROVE  /\ Rest(k) \in Seq(ToSet(Domains))
         /\ Rest(k) = <<>> <=> k = 8
         /\ k < 8 => Head(Rest(k)) = Domains[k + 1] /\ Tail(Rest(k)) = Rest(k + 1)
<1>1. CASE k < 8
  <2>1. /\ Rest(k) \in Seq(ToSet(Domains)) /\ Len(Rest(k)) = 8 - k
    <3>1. \A i \in k + 1 .. 8 : Domains[i] \in ToSet(Domains) BY ByPlace
    <3> QED BY <1>1, <3>1, SubSeqProperties DEF Rest
  <2>2. Head(Rest(k)) = Domains[k + 1] /\ Tail(Rest(k)) = SubSeq(Domains, k + 2, 8)
    BY <1>1, TheDomains, HeadTailOfSubSeq DEF Rest
  <2>3. Rest(k + 1) = SubSeq(Domains, k + 2, 8) BY DEF Rest
  <2>4. Rest(k) # <<>> BY <1>1, <2>1
  <2>5. ~ (k = 8) BY <1>1
  <2> QED BY <2>1, <2>2, <2>3, <2>4, <2>5
<1>2. CASE k = 8
  BY <1>2, SubSeqEmpty, EmptySeq DEF Rest
<1> QED BY <1>1, <1>2

\* The sweep begins with all domains ahead.
LEMMA RestAtFirst == Rest(0) = Domains
BY TheDomains, SubSeqFull DEF Rest

\* What the machine is made of.
LEMMA TheHost ==
  ASSUME host \in Hosts
  PROVE  /\ host.devices \in SUBSET DiskKinds /\ host.nics \in SUBSET NicStates
         /\ host.secureBoot \in BootStates /\ host.uefi \in BOOLEAN
BY HostsAreTyped DEF DiskKinds, NicStates, BootStates

\* The model of an adapter is never the mark of an absent one.
LEMMA FactsAreFacts ==
  ASSUME host \in Hosts, NEW d \in Adapters
  PROVE  Facts(d) \in SUBSET Contents /\ Facts(d) # Absent
<1>1. /\ Facts("storage") = host.devices /\ Facts("network") = host.nics
      /\ Facts("secure_boot") = {host.secureBoot}
      /\ d \notin {"storage", "network", "secure_boot"} => Facts(d) = {}
  BY DEF Facts
<1>2. "absent" \notin Facts(d)
  BY <1>1, TheHost DEF DiskKinds, NicStates, BootStates
<1>3. Facts(d) \in SUBSET Contents
  BY <1>1, TheHost DEF Contents
<1> QED BY <1>2, <1>3 DEF Absent

\* The machine stays what it is.
LEMMA SameMachine ==
  ASSUME mood' = mood, host' = host, setting' = setting
  PROVE  /\ \A d : Sound(d)' <=> Sound(d)
         /\ \A d : Faulted(d)' <=> Faulted(d)
         /\ \A d : Facts(d)' = Facts(d)
         /\ \A c : Expected(c)' = Expected(c)
         /\ ExpectedReport' = ExpectedReport
         /\ Predictable' <=> Predictable
         /\ ThisMachine => ThisMachine'
<1>1. \A d : Sound(d)' <=> Sound(d) BY DEF Sound
<1>2. Predictable' <=> Predictable BY DEF Predictable
<1>3. \A d : Faulted(d)' <=> Faulted(d) BY <1>1, <1>2 DEF Faulted
<1>4. \A d : Facts(d)' = Facts(d) BY DEF Facts
<1>5. \A d : Told(d)' = Told(d) BY <1>1, <1>4 DEF Told
<1>6. \A c : Expected(c)' = Expected(c)
  <2>1. \A c, r : SecureBootStatus(r)' = SecureBootStatus(r) BY DEF SecureBootStatus
  <2>2. \A r : StorageStatus(r)' = StorageStatus(r)
    BY DEF StorageStatus, CountedDisks, CollectedDisks
  <2>3. \A r : NetworkStatus(r)' = NetworkStatus(r) BY DEF NetworkStatus, CollectedUp, Up
  <2>4. \A c, r : AskedStatus(c, r)' = AskedStatus(c, r)
    BY <2>1, <2>2, <2>3 DEF AskedStatus
  <2>5. \A c : LocalStatus(c)' = LocalStatus(c) BY DEF LocalStatus
  <2>6. \A c : Asking(c)' <=> Asking(c) BY DEF Asking
  <2> QED BY <1>5, <2>4, <2>5, <2>6 DEF Expected
<1>7. ExpectedReport' = ExpectedReport
  BY <1>1 DEF ExpectedReport, TranslatedDisks, CollectedDisks, CollectedUp, Up, CollectedSecureBoot
<1>8. ThisMachine => ThisMachine' BY DEF ThisMachine
<1> QED BY <1>1, <1>2, <1>3, <1>4, <1>6, <1>7, <1>8

-----------------------------------------------------------------------------
(* What a step leaves alone *)

\* The machine and the config stay; a clock that was set back once was set back.
Steady ==
  /\ mood' = mood /\ host' = host /\ setting' = setting
  /\ backs > 0 => backs' > 0

\* An excuse lasts.
LEMMA ExcusesLast ==
  ASSUME Steady
  PROVE  /\ Excused => Excused'
         /\ \A d : ExcusedBy(d) => ExcusedBy(d)'
         /\ \A check : Raises(check) => Raises(check)'
BY DEF Steady, Excused, ExcusedBy, Raises, AdapterOf

\* The exchange between a command and its adapter is left alone.
LEMMA ExchangeStays ==
  ASSUME Exchange, Steady, UNCHANGED <<command, ahead, reading, reply, options>>
  PROVE  Exchange'
<1>1. Wanted' <=> Wanted BY DEF Wanted, Asked, AdapterOf, Asking, Known, Steady
<1>2. Asked' = Asked BY DEF Asked, AdapterOf
<1>3. ASSUME NEW d, ReplyIs(d)
      PROVE  ReplyIs(d)'
  BY <1>3, SameMachine, ExcusesLast DEF ReplyIs, Steady
<1> QED BY <1>1, <1>2, <1>3 DEF Exchange

\* The sweep is left alone.
LEMMA SweepStays ==
  ASSUME Sweeping, Steady, UNCHANGED <<command, ahead, snapshot, caveats>>
  PROVE  Sweeping'
<1>1. ASSUME NEW k \in 0 .. 8, Behind(k)
      PROVE  Behind(k)'
  BY <1>1, SameMachine DEF Behind, Steady
<1>2. ASSUME NEW k \in 0 .. 8, Noted(k)
      PROVE  Noted(k)'
  BY <1>2 DEF Noted
<1> QED BY <1>1, <1>2 DEF Sweeping

\* Results that were as expected still are.
LEMMA ResultsStay == Steady => \A found : AsExpected(found) => AsExpected(found)'
BY SameMachine DEF AsExpected, Steady

\* The checks are left alone.
LEMMA ChecksStay ==
  ASSUME Diagnosing, Steady, UNCHANGED <<results, ahead, command, options>>
  PROVE  Diagnosing'
BY ResultsStay DEF Diagnosing, InTurn, Selected, Known, Steady

\* What an entry of the log says stays true.
LEMMA EntriesStay ==
  ASSUME Steady, NEW e, EntryIsTrue(e)
  PROVE  EntryIsTrue(e)'
<1>1. Accounted(e) => Accounted(e)' BY ExcusesLast DEF Accounted, Selected, Steady
<1> QED BY <1>1, SameMachine, ExcusesLast, ResultsStay DEF EntryIsTrue, Steady

\* The log is left alone.
LEMMA LogStays == Logged /\ Steady /\ UNCHANGED log => Logged'
BY EntriesStay DEF Logged

\* The runner and the adapter are left alone.
LEMMA CallStays ==
  ASSUME Call, Steady, UNCHANGED <<reading, outputs, child, answer>>
  PROVE  Call'
<1>1. Current' = Current BY DEF Current
<1>2. \A t : /\ Output(t)' = Output(t) /\ (Answers(t)' <=> Answers(t))
             /\ Completed(t)' = Completed(t)
  BY DEF Output, Answers, Completed, Steady
<1>3. Waiting => Waiting' BY <1>1 DEF Waiting, Steady
<1>4. Heard => Heard' BY <1>1, <1>2 DEF Heard, Steady
<1> QED BY <1>2, <1>3, <1>4 DEF Call, Idle

\* The tool in question is one of the runner's.
LEMMA CurrentIsATool ==
  ASSUME Call, reading # "none"
  PROVE  reading \in Adapters /\ Current \in Tools /\ Len(outputs) \in Nat
<1>1. Len(outputs) \in Nat /\ Len(outputs) + 1 \in 1 .. Len(Commands[reading])
  BY TheTools DEF Call
<1> QED BY <1>1, TheTools DEF Call, Current

-----------------------------------------------------------------------------
(* The steps *)

\* At the start nothing has happened.
LEMMA SessionStarts == Init => Session
<1> SUFFICES ASSUME Init PROVE Session OBVIOUS
<1> USE DEF Init, InitAdapters, InitRunner
<1>1. Clock BY ClockIsBounded DEF Clock
<1>2. ThisMachine BY ToolsAreTyped DEF ThisMachine
<1>3. Call BY DEF Call, Idle
<1>4. Exchange BY DEF Exchange, NoReply, Errors, PlatformErrors
<1>5. Sweeping
  <2>1. Absent \in SUBSET Contents BY DEF Absent, Contents
  <2> QED BY <2>1 DEF Sweeping, EmptySnapshot
<1>6. Diagnosing BY DEF Diagnosing, AsExpected, NoOptions
<1>7. Logged BY DEF Logged
<1> QED BY <1>1, <1>2, <1>3, <1>4, <1>5, <1>6, <1>7 DEF Session

\* A child ends, its end is heard of, or time passes.
RunnerStep == (Exit \/ Expire \/ Collect \/ Reap \/ Tick \/ SetBack) /\ Elsewhere

LEMMA RunnerKeepsSession ==
  ASSUME Session, RunnerStep
  PROVE  Session'
<1> USE DEF RunnerStep, Elsewhere, Session
<1>1. Steady
  BY ClockIsBounded DEF Steady, Clock, Exit, Expire, Collect, Reap, Tick, SetBack
<1>2. child.state \in {"running", "exited", "killed"} => reading # "none" /\ Waiting
  BY DEF Call, Idle, Heard, NoChild
<1>3. child.state \in {"running", "exited", "killed"} => child.tool \in Tools
  BY <1>2, CurrentIsATool DEF Waiting
<1>4. Clock'
  <2>1. CASE Exit \/ Collect \/ Reap
    BY <2>1 DEF Clock, Exit, Collect, Reap
  <2>2. CASE Expire
    <3>1. spent' \in Nat BY <1>3, <2>2, ToolsAreTyped DEF Clock, Expire
    <3> QED BY <2>2, <3>1 DEF Clock, Expire
  <2>3. CASE Tick
    BY <2>3, ClockIsBounded DEF Clock, Tick
  <2>4. CASE SetBack
    BY <2>4, ClockIsBounded DEF Clock, SetBack
  <2> QED BY <2>1, <2>2, <2>3, <2>4
<1>5. Call'
  <2>1. /\ Current' = Current
        /\ \A t : /\ Output(t)' = Output(t) /\ (Answers(t)' <=> Answers(t))
                  /\ Completed(t)' = Completed(t)
    BY <1>1 DEF Current, Output, Answers, Completed, Steady
  <2>call. ASSUME reading # "none", Waiting' \/ Heard'
        PROVE  Call'
    BY <2>1, <2>call DEF Call
  <2>2. CASE Exit
    <3>1. Waiting' BY <1>2, <2>1, <2>2 DEF Waiting, Exit
    <3> QED BY <1>2, <2>1, <2>2, <2>call, <3>1 DEF Exit
  <2>3. CASE Expire
    <3>1. Waiting' BY <1>2, <2>1, <2>3 DEF Waiting, Expire
    <3> QED BY <1>2, <2>1, <2>3, <2>call, <3>1 DEF Expire
  <2>4. CASE Collect
    <3>1. child.tool = Current BY <1>2, <2>4 DEF Waiting, Collect
    <3>2. Heard'
      BY <1>2, <2>1, <2>4, <3>1 DEF Waiting, Heard, Collect, Timed, Clock
    <3> QED BY <1>2, <2>1, <2>4, <2>call, <3>2 DEF Collect
  <2>5. CASE Reap
    <3>1. child.tool = Current BY <1>2, <2>5 DEF Waiting, Reap
    <3>2. Heard'
      BY <1>2, <2>1, <2>5, <3>1 DEF Waiting, Heard, Reap, Timed, Clock
    <3> QED BY <1>2, <2>1, <2>5, <2>call, <3>2 DEF Reap
  <2>6. CASE Tick \/ SetBack
    BY <1>1, <2>6, CallStays DEF Tick, SetBack
  <2> QED BY <2>2, <2>3, <2>4, <2>5, <2>6
<1>6. ThisMachine' BY <1>1, SameMachine DEF Steady
<1>7. Exchange' BY <1>1, ExchangeStays
<1>8. Sweeping' BY <1>1, SweepStays DEF work
<1>9. Diagnosing' BY <1>1, ChecksStay DEF work
<1>10. Logged' BY <1>1, LogStays
<1> QED BY <1>4, <1>5, <1>6, <1>7, <1>8, <1>9, <1>10

\* What the stdout of a tool that answers says of it.
LEMMA StdoutTells ==
  ASSUME NEW t \in Tools, mood \in [Tools -> Moods]
  PROVE  /\ Output(t).stdout \in Stdouts /\ Output(t).code \in {0, 1}
         /\ Output(t).refused \in BOOLEAN
         /\ Output(t).stdout = "odd" <=> mood[t] = "odd"
         /\ Output(t).stdout = "garbled" <=> mood[t] = "garbled"
         /\ Output(t).stdout = "nothing" <=> mood[t] \in {"nothing", "refused", "fails"}
         /\ Output(t).code = 0 <=> mood[t] \notin {"refused", "fails", "partial"}
BY DEF Output, Stdouts, Moods

\* A call of an adapter ends with a reply about the domain that was asked.
LEMMA RespondKeepsSession ==
  ASSUME Session, Read, NEW error \in Errors \union {"none"}, Respond(error),
         \/ error = "none" /\ Sound(reading)
         \/ error \in PlatformErrors /\ Faulted(reading)
         \/ error \in Errors \ PlatformErrors /\ ExcusedBy(reading),
         Answered
  PROVE  Session'
<1> USE DEF Session
<1>1. Steady BY DEF Steady, Respond, Taken, Read
<1>2. Clock' BY DEF Clock, Respond, Taken
<1>3. ThisMachine' BY <1>1, SameMachine DEF Steady
<1>4. Call'
  <2>1. child = NoChild BY DEF Call, Waiting, Heard, Answered, NoAnswer
  <2> QED BY <2>1 DEF Call, Idle, Respond, Taken
<1>5. Exchange'
  <2>1. Wanted /\ reading = Asked /\ command # "none" BY DEF Exchange, Answered
  <2>2. Wanted' /\ Asked' = Asked
    BY <1>1, <2>1 DEF Read, Wanted, Asked, AdapterOf, Asking, Known, Steady
  <2>3. ReplyIs(Asked)'
    BY <1>1, <2>1, <2>2, SameMachine, ExcusesLast DEF ReplyIs, Respond, Steady
  <2>4. /\ reply'.error = error /\ error # "pending" /\ reply' # NoReply /\ reading' = "none"
        /\ command' = command
    BY DEF Respond, NoReply, Read, Errors, PlatformErrors
  <2>5. command \in {"inventory", "doctor"} BY <2>1 DEF Exchange
  <2> QED BY <2>1, <2>2, <2>3, <2>4, <2>5 DEF Exchange
<1>6. Sweeping' BY <1>1, SweepStays DEF Read, work
<1>7. Diagnosing' BY <1>1, ChecksStay DEF Read, work
<1>8. Logged' BY <1>1, LogStays DEF Read
<1> QED BY <1>2, <1>3, <1>4, <1>5, <1>6, <1>7, <1>8

\* A tool in disorder is enough to excuse the failure of its adapter.
LEMMA OneToolIsEnough ==
  ASSUME NEW d \in Adapters, NEW i \in 1 .. Len(Commands[d]),
         mood[Commands[d][i]] # "works",
         d = "filesystem" \/ mood[Commands[d][i]] \notin {"nothing", "slow"}
  PROVE  Faulted(d)
BY DEF Faulted, Sound

\* The adapter looks at the answer of its tool.
LEMMA ReadKeepsSession ==
  ASSUME Session, Read
  PROVE  Session'
<1> USE DEF Session
<1> DEFINE n == Len(outputs)
           C == Commands[reading]
<1>1. /\ Answered /\ reading \in Adapters /\ Current \in Tools /\ n \in Nat
      /\ Len(C) \in 1 .. 3 /\ n < Len(C) /\ Current = C[n + 1] /\ Heard
      /\ mood \in [Tools -> Moods]
  <2>1. Answered
    BY DEF Read, Adapt, Propagate, Refuse, NextTool, Parse, ReadUsage
  <2>2. reading # "none" /\ ~ Waiting BY <2>1 DEF Answered, Waiting, NoAnswer
  <2> QED BY <2>1, <2>2, CurrentIsATool, TheTools DEF Call, Current, ThisMachine
<1>2. CASE Propagate
  <2>1. Respond(answer.error) /\ answer.error # "none" BY <1>2 DEF Propagate
  <2>2. CASE answer = Raised("CommandNotFoundError") \/ answer = Raised("CommandTimeoutError")
    <3>1. answer.error \in PlatformErrors BY <2>2 DEF Raised, PlatformErrors
    <3>2. mood[Current] \in {"missing", "slow", "hangs"}
      BY <1>1, <2>2 DEF Heard, Raised, Completed
    <3>3. Faulted(reading)
      BY <1>1, <3>2 DEF Faulted, Sound, Predictable
    <3> QED BY <1>1, <2>1, <3>1, <3>3, RespondKeepsSession DEF Errors
  <2>3. CASE answer = Raised("OSError") \/ answer = Raised("ValidationError")
    <3>1. answer.error \in Errors \ PlatformErrors BY <2>3 DEF Raised, PlatformErrors, Errors
    <3>2. ExcusedBy(reading)
      <4>1. n + 1 \in 1 .. Len(C) BY <1>1
      <4> QED BY <1>1, <2>3, <4>1 DEF Heard, Raised, Completed, ExcusedBy
    <3> QED BY <1>1, <2>1, <3>1, <3>2, RespondKeepsSession
  <2> QED BY <1>1, <2>1, <2>2, <2>3 DEF Heard, Completed
<1>3. ASSUME answer.error = "none"
      PROVE  /\ answer.out = Output(Current)
             /\ mood[Current] \notin {"missing", "broken", "hangs", "stuck"}
  BY <1>1, <1>3 DEF Heard, Raised, Completed
<1>4. CASE Refuse
  <2>1. answer.out = Output(Current) BY <1>3, <1>4 DEF Refuse
  <2>2. mood[Current] \in {"refused", "fails", "partial"} /\ reading # "filesystem"
    BY <1>1, <1>4, <2>1, StdoutTells DEF Refuse
  <2>3. Faulted(reading)
    <3>1. n + 1 \in 1 .. Len(C) BY <1>1
    <3> QED BY <1>1, <2>2, <3>1, OneToolIsEnough
  <2>4. \E e \in {"UnavailableError", "AdapterError"} : Respond(e)
    BY <1>4 DEF Refuse
  <2> QED BY <1>1, <2>3, <2>4, RespondKeepsSession DEF Errors, PlatformErrors
<1>5. CASE ReadUsage
  <2>1. answer.out = Output(Current) /\ reading = "filesystem" BY <1>3, <1>5 DEF ReadUsage
  <2>2. CASE answer.out.stdout = "good"
    <3>1. Respond("none") BY <1>5, <2>2 DEF ReadUsage
    <3>2. Sound(reading) BY <2>1 DEF Sound
    <3> QED BY <1>1, <3>1, <3>2, RespondKeepsSession
  <2>3. CASE answer.out.stdout # "good"
    <3>1. Output(Current).stdout \in Stdouts BY <1>1, StdoutTells
    <3>2. mood[Current] # "works" BY <1>1, <2>1, <2>3 DEF Output
    <3>3. Faulted(reading) BY <1>1, <2>1, <3>2, OneToolIsEnough
    <3>4. \E e \in {"ParseError", "UnavailableError", "AdapterError"} : Respond(e)
      BY <1>5, <2>3 DEF ReadUsage
    <3> QED BY <1>1, <3>3, <3>4, RespondKeepsSession DEF Errors, PlatformErrors
  <2> QED BY <2>2, <2>3
<1>6. CASE NextTool
  <2>1. /\ answer.out = Output(Current) /\ outputs' = Append(outputs, answer.out.stdout)
        /\ Spawn(C[n + 2]) /\ n + 1 < Len(C) /\ answer.out.code = 0
        /\ UNCHANGED <<host, reading, reply>>
    BY <1>1, <1>3, <1>6 DEF NextTool, Position
  <2>2. Answers(Current) /\ answer.out.stdout \in Stdouts
    <3>1. mood[Current] \notin {"missing", "broken", "hangs", "stuck"}
      BY <1>3, <1>6 DEF NextTool
    <3> QED BY <1>1, <2>1, <3>1, StdoutTells DEF Answers, Moods
  <2>3. Steady BY <2>1 DEF Steady, Read, Spawn
  <2>4. Clock' BY <2>1, ClockIsBounded DEF Clock, Spawn
  <2>5. ThisMachine' BY <2>3, SameMachine DEF Steady
  <2>6. Call'
    <3>1. /\ outputs' \in Seq(Stdouts) /\ Len(outputs') = n + 1
          /\ \A i \in 1 .. n : outputs'[i] = outputs[i]
          /\ outputs'[n + 1] = answer.out.stdout
      BY <2>1, <2>2, <1>1, AppendProperties DEF Call, Answered
    <3>2. \A t : /\ Output(t)' = Output(t) /\ (Answers(t)' <=> Answers(t))
                 /\ Completed(t)' = Completed(t)
      BY <2>3 DEF Output, Answers, Completed, Steady
    <3>3. \A i \in 1 .. n + 1 : outputs'[i] = Output(C[i]).stdout /\ Answers(C[i])
      <4>1. \A i \in 1 .. n : outputs[i] = Output(C[i]).stdout /\ Answers(C[i])
        BY <1>1 DEF Call, Answered
      <4>2. outputs'[n + 1] = Output(C[n + 1]).stdout /\ Answers(C[n + 1])
        BY <1>1, <2>1, <2>2, <3>1
      <4> QED BY <1>1, <3>1, <4>1, <4>2
    <3>4. Current' = C[n + 2]
      <4>1. Len(outputs') + 1 = n + 2 BY <1>1, <3>1
      <4> QED BY <2>1, <4>1 DEF Current
    <3>5. child = NoChild BY <1>1 DEF Heard
    <3>6. Waiting' \/ Heard'
      <4>1. CASE mood[C[n + 2]] \in {"missing", "broken"}
        BY <2>1, <3>4, <3>5, <4>1 DEF Spawn, Heard
      <4>2. CASE mood[C[n + 2]] \notin {"missing", "broken"}
        BY <2>1, <3>4, <4>2 DEF Spawn, Waiting
      <4> QED BY <4>1, <4>2
    <3>7. reading' = reading /\ reading # "none" /\ Len(outputs') < Len(C)
      BY <1>1, <2>1, <3>1 DEF Answered
    <3> QED BY <1>1, <3>1, <3>2, <3>3, <3>6, <3>7 DEF Call
  <2>7. Exchange' BY <2>1, <2>3, ExchangeStays DEF Read
  <2>8. Sweeping' BY <2>3, SweepStays DEF Read, work
  <2>9. Diagnosing' BY <2>3, ChecksStay DEF Read, work
  <2>10. Logged' BY <2>3, LogStays DEF Read
  <2> QED BY <2>4, <2>5, <2>6, <2>7, <2>8, <2>9, <2>10
<1>7. CASE Parse
  <2> DEFINE texts == Append(outputs, answer.out.stdout)
  <2>1. /\ answer.out = Output(Current) /\ reading # "filesystem" /\ n + 1 = Len(C)
        /\ answer.out.code = 0 /\ Respond(Parsed(reading, texts))
    BY <1>3, <1>7 DEF Parse, Position
  <2>2. Answers(Current) /\ answer.out.stdout \in Stdouts
    <3>1. mood[Current] \notin {"missing", "broken", "hangs", "stuck"}
      BY <1>3, <1>7 DEF Parse
    <3> QED BY <1>1, <2>1, <3>1, StdoutTells DEF Answers, Moods
  <2>3. /\ texts \in Seq(Stdouts) /\ Len(texts) = Len(C)
        /\ \A i \in 1 .. Len(C) : texts[i] = Output(C[i]).stdout /\ Answers(C[i])
    <3>1. /\ texts \in Seq(Stdouts) /\ Len(texts) = n + 1
          /\ \A i \in 1 .. n : texts[i] = outputs[i]
          /\ texts[n + 1] = answer.out.stdout
      BY <2>2, <1>1, AppendProperties DEF Call, Answered
    <3>2. \A i \in 1 .. n : outputs[i] = Output(C[i]).stdout /\ Answers(C[i])
      BY <1>1 DEF Call, Answered
    <3>3. texts[n + 1] = Output(C[n + 1]).stdout /\ Answers(C[n + 1])
      BY <1>1, <2>1, <2>2, <3>1
    <3> HIDE DEF texts
    <3> QED BY <1>1, <2>1, <3>1, <3>2, <3>3
  <2>4. \A i \in 1 .. Len(C) : C[i] \in Tools BY <1>1, TheTools
  <2> HIDE DEF texts
  <2>5. CASE \E i \in 1 .. Len(C) : texts[i] = "odd"
    <3>1. ExcusedBy(reading) BY <1>1, <2>3, <2>4, <2>5, StdoutTells DEF ExcusedBy
    <3>2. Faulted(reading)
      <4>1. PICK i \in 1 .. Len(C) : texts[i] = "odd" BY <2>5
      <4>2. mood[C[i]] = "odd" BY <1>1, <2>3, <2>4, <4>1, StdoutTells
      <4> QED BY <1>1, <4>2, OneToolIsEnough
    <3>3. Parsed(reading, texts) \in {"AttributeError", "ParseError"}
      BY <2>3, <2>5 DEF Parsed
    <3> QED BY <1>1, <2>1, <3>1, <3>2, <3>3, RespondKeepsSession DEF Errors, PlatformErrors
  <2>6. CASE (\E i \in 1 .. Len(C) : texts[i] = "garbled")
             /\ ~ (\E i \in 1 .. Len(C) : texts[i] = "odd")
    <3>1. Faulted(reading)
      <4>1. PICK i \in 1 .. Len(C) : texts[i] = "garbled" BY <2>6
      <4>2. mood[C[i]] = "garbled" BY <1>1, <2>3, <2>4, <4>1, StdoutTells
      <4> QED BY <1>1, <4>2, OneToolIsEnough
    <3>2. Parsed(reading, texts) = "ParseError"
      BY <2>3, <2>6 DEF Parsed
    <3> QED BY <1>1, <2>1, <3>1, <3>2, RespondKeepsSession DEF Errors, PlatformErrors
  <2>7. CASE ~ (\E i \in 1 .. Len(C) : texts[i] \in {"garbled", "odd"})
    <3>1. \A i \in 1 .. Len(C) : mood[C[i]] \in {"works", "nothing", "slow"}
      BY <1>1, <2>3, <2>4, <2>7, StdoutTells DEF Answers
    <3>2. CASE reading = "secure_boot" /\ texts = <<"nothing">>
      <4>1. C = <<"mokutil">> /\ Len(C) = 1 /\ C[1] = "mokutil" BY <3>2, TheAdapters
      <4>2. mood["mokutil"] = "nothing"
        <5>1. texts[1] = "nothing" BY <3>2
        <5>2. Output("mokutil").stdout = "nothing" /\ Answers("mokutil") /\ "mokutil" \in Tools
          BY <2>3, <2>4, <4>1, <5>1
        <5> QED BY <1>1, <5>2, StdoutTells DEF Answers
      <4>3. Faulted(reading) BY <1>1, <3>2, <4>1, <4>2 DEF Faulted, Sound
      <4>4. Parsed(reading, texts) = "ParseError"
        BY <2>3, <2>7, <3>2 DEF Parsed
      <4> QED BY <1>1, <2>1, <4>3, <4>4, RespondKeepsSession DEF Errors, PlatformErrors
    <3>3. CASE ~ (reading = "secure_boot" /\ texts = <<"nothing">>)
      <4>1. Parsed(reading, texts) = "none"
        BY <2>3, <2>7, <3>3 DEF Parsed
      <4>2. reading = "secure_boot" => mood["mokutil"] # "nothing"
        <5>1. SUFFICES ASSUME reading = "secure_boot", mood["mokutil"] = "nothing" PROVE FALSE
          OBVIOUS
        <5>2. Len(C) = 1 /\ C[1] = "mokutil" BY <5>1, TheAdapters
        <5>3. texts[1] = "nothing" BY <2>3, <5>1, <5>2 DEF Output
        <5>4. texts = <<"nothing">> BY <2>3, <5>2, <5>3
        <5> QED BY <3>3, <5>1, <5>4
      <4>3. Sound(reading) BY <3>1, <4>2 DEF Sound
      <4> QED BY <1>1, <2>1, <4>1, <4>3, RespondKeepsSession
    <3> QED BY <3>2, <3>3
  <2> QED BY <2>5, <2>6, <2>7
<1> QED BY <1>2, <1>4, <1>5, <1>6, <1>7 DEF Read, Adapt

\* While no adapter is wanted, none is being called and none has replied.
LEMMA NothingPending ==
  ASSUME Exchange, Call, ~ Wanted \/ reply # NoReply
  PROVE  reading = "none" /\ Idle /\ (~ Wanted => reply = NoReply)
BY DEF Exchange, Call

\* A command asks the next adapter.
LEMMA AskKeepsSession ==
  ASSUME Session, NEW d, Ask(d), Wanted, d = Asked, command # "none"
  PROVE  Session'
<1> USE DEF Session
<1>1. /\ reading = "none" /\ reading' = d /\ outputs' = <<>> /\ reply' = NoReply
      /\ reply = NoReply /\ Spawn(Commands[d][1]) /\ d \in Adapters /\ child = NoChild
      /\ UNCHANGED <<host, setting, command, ahead, work, options, log>>
  BY DEF Ask, Replied, CallAdapter, Exchange, Wanted, Spawn
<1>2. Steady BY <1>1 DEF Steady, Spawn
<1>3. Clock' BY <1>1, ClockIsBounded DEF Clock, Spawn
<1>4. ThisMachine' BY <1>2, SameMachine DEF Steady
<1>5. Call'
  <2>1. Current' = Commands[d][1] BY <1>1 DEF Current
  <2>2. Waiting' \/ Heard'
    <3>1. CASE mood[Commands[d][1]] \in {"missing", "broken"}
      BY <1>1, <2>1, <3>1 DEF Spawn, Heard
    <3>2. CASE mood[Commands[d][1]] \notin {"missing", "broken"}
      BY <1>1, <2>1, <3>2 DEF Spawn, Waiting
    <3> QED BY <3>1, <3>2
  <2>3. Len(outputs') = 0 /\ outputs' \in Seq(Stdouts) BY <1>1
  <2>4. d # "none" /\ Len(Commands[d]) \in 1 .. 3 BY <1>1, TheTools, TheAdapters
  <2> QED BY <1>1, <2>2, <2>3, <2>4 DEF Call
<1>6. Exchange'
  <2>1. Wanted' /\ Asked' = Asked
    BY <1>1, <1>2 DEF Wanted, Asked, AdapterOf, Asking, Known, Steady
  <2> QED BY <1>1, <2>1 DEF Exchange
<1>7. Sweeping' BY <1>1, <1>2, SweepStays DEF work
<1>8. Diagnosing' BY <1>1, <1>2, ChecksStay DEF work
<1>9. Logged' BY <1>1, <1>2, LogStays
<1> QED BY <1>3, <1>4, <1>5, <1>6, <1>7, <1>8, <1>9

LEMMA ConsultKeepsSession ==
  ASSUME Session, Consult \/ AskForCheck
  PROVE  Session'
<1>1. CASE Consult
  <2>1. Wanted /\ Asked = Head(ahead) /\ command # "none" /\ Ask(Head(ahead))
    BY <1>1 DEF Consult, Inventorying, Wanted, Asked
  <2> QED BY <2>1, AskKeepsSession
<1>2. CASE AskForCheck
  <2>1. /\ Asking(Head(ahead)) /\ Asked = AdapterOf(Head(ahead)) /\ command = "doctor"
        /\ Known /\ ahead # <<>> /\ Ask(AdapterOf(Head(ahead)))
    BY <1>2 DEF AskForCheck, Checking, Asked
  <2>2. Asked \in Adapters BY <2>1, TheAdapters DEF Asking, AskingChecks, AdapterOf
  <2>3. Wanted BY <2>1, <2>2 DEF Wanted
  <2> QED BY <2>1, <2>3, AskKeepsSession
<1> QED BY <1>1, <1>2

\* A step that ends the look at one domain or check leaves nothing pending.
LEMMA OnwardBasics ==
  ASSUME Session, Onward, command # "none", ~ Wanted \/ reply # NoReply
  PROVE  Steady /\ Clock' /\ ThisMachine' /\ Call' /\ Exchange' /\ Logged'
<1> USE DEF Session
<1>1. /\ reading = "none" /\ Idle /\ reply' = NoReply
      /\ UNCHANGED <<runner, host, reading, outputs, setting, command, options, log>>
  BY NothingPending DEF Onward
<1>2. Steady BY <1>1 DEF Steady, runner
<1>3. Clock' BY <1>1 DEF Clock, runner
<1>4. ThisMachine' BY <1>2, SameMachine DEF Steady
<1>5. Call' BY <1>1, <1>2, CallStays DEF runner
<1>6. Exchange' BY <1>1 DEF Exchange, NoReply
<1>7. Logged' BY <1>1, <1>2, LogStays
<1> QED BY <1>2, <1>3, <1>4, <1>5, <1>6, <1>7

\* One domain of the sweep is done with: its model is in the snapshot or its
\* name among the caveats.
LEMMA SweepKeepsSession ==
  ASSUME Session, Isolate \/ Keep \/ CallLocally
  PROVE  Session'
<1> USE DEF Session
<1>1. /\ Inventorying /\ Onward /\ command = "inventory" /\ ahead # <<>>
      /\ results' = results /\ command' = command /\ ahead' = Tail(ahead)
  BY DEF Isolate, Keep, CallLocally, Inventorying, Onward
<1>2. Asked = Head(ahead) BY <1>1 DEF Asked
<1>3. ~ Wanted \/ reply # NoReply
  BY <1>2 DEF Isolate, Keep, CallLocally, Wanted, NoReply, PlatformErrors
<1>4. Steady /\ Clock' /\ ThisMachine' /\ Call' /\ Exchange' /\ Logged'
  BY <1>1, <1>3, OnwardBasics
<1>5. PICK k \in 0 .. 8 : ahead = Rest(k) /\ Behind(k) /\ Noted(k)
  BY <1>1 DEF Sweeping
<1>6. k \in 0 .. 7 /\ k + 1 \in 1 .. 8 /\ Head(ahead) = Domains[k + 1] /\ ahead' = Rest(k + 1)
  <2>1. k # 8 BY <1>1, <1>5, RestShape
  <2>2. k \in 0 .. 7 /\ k + 1 \in 1 .. 8 BY <2>1
  <2>3. k \in 0 .. 8 /\ k < 8 BY <2>2
  <2>4. Head(Rest(k)) = Domains[k + 1] /\ Tail(Rest(k)) = Rest(k + 1) BY <2>3, Zenon, RestShape
  <2> QED BY <1>1, <1>5, <2>2, <2>4
<1>7. \A d : /\ Sound(d)' <=> Sound(d)
             /\ Faulted(d)' <=> Faulted(d)
             /\ Facts(d)' = Facts(d)
  BY <1>4, SameMachine DEF Steady
<1>8. host \in Hosts /\ Absent \in SUBSET Contents /\ {} \in SUBSET Contents
  BY DEF ThisMachine, Absent, Contents
<1>9. Sweeping'
  <2>1. CASE Isolate
    <3>1. /\ reply.error \in PlatformErrors /\ snapshot' = snapshot
          /\ caveats' = Append(caveats, Domains[k + 1])
      BY <1>6, <2>1 DEF Isolate
    <3>2. Wanted /\ ReplyIs(Domains[k + 1])
      BY <1>2, <1>6, <3>1 DEF Exchange, NoReply, PlatformErrors
    <3>3. k + 1 <= 5 /\ Domains[k + 1] \in Adapters
      BY <1>2, <1>6, <3>2, ByPlace DEF Wanted
    <3>4. Faulted(Domains[k + 1])
      BY <3>1, <3>2 DEF ReplyIs, PlatformErrors, Errors
    <3>5. snapshot[Domains[k + 1]] = Absent BY <1>5, <1>6, <3>3 DEF Behind
    <3>6. Behind(k + 1)'
      BY <1>5, <1>6, <1>7, <3>1, <3>3, <3>4, <3>5 DEF Behind
    <3>7. Noted(k + 1)'
      <4>1. /\ caveats' \in Seq(Adapters) /\ Len(caveats') = Len(caveats) + 1
            /\ \A i \in 1 .. Len(caveats) : caveats'[i] = caveats[i]
            /\ caveats'[Len(caveats) + 1] = Domains[k + 1]
            /\ Len(caveats) \in Nat /\ DOMAIN caveats = 1 .. Len(caveats)
            /\ DOMAIN caveats' = 1 .. Len(caveats) + 1
        BY <1>5, <3>1, <3>3, AppendProperties DEF Noted
      <4>2. ToSet(caveats') = ToSet(caveats) \union {Domains[k + 1]}
        BY <4>1 DEF ToSet
      <4>3. {Domains[i] : i \in {j \in 1 .. 5 : j <= k + 1 /\ snapshot[Domains[j]] = Absent}}
              = {Domains[i] : i \in {j \in 1 .. 5 : j <= k /\ snapshot[Domains[j]] = Absent}}
                  \union {Domains[k + 1]}
        BY <1>6, <3>3, <3>5
      <4>4. ASSUME NEW i \in DOMAIN caveats
            PROVE  CalledBefore(caveats[i], Domains[k + 1])
        <5>1. caveats[i] \in ToSet(caveats) BY DEF ToSet
        <5>2. PICK j \in 1 .. 5 : j <= k /\ caveats[i] = Domains[j]
          BY <1>5, <5>1 DEF Noted
        <5> QED BY <1>6, <5>2, TheDomains DEF CalledBefore
      <4>5. \A i, j \in DOMAIN caveats' : i < j => CalledBefore(caveats'[i], caveats'[j])
        <5>1. SUFFICES ASSUME NEW i \in 1 .. Len(caveats) + 1,
                              NEW j \in 1 .. Len(caveats) + 1, i < j
                       PROVE  CalledBefore(caveats'[i], caveats'[j])
          BY <4>1
        <5>2. i \in 1 .. Len(caveats) BY <4>1, <5>1
        <5>3. CASE j = Len(caveats) + 1 BY <4>1, <4>4, <5>2, <5>3
        <5>4. CASE j \in 1 .. Len(caveats)
          BY <1>5, <4>1, <5>1, <5>2, <5>4 DEF Noted
        <5> QED BY <4>1, <5>3, <5>4
      <4> QED BY <1>5, <3>1, <4>1, <4>2, <4>3, <4>5 DEF Noted, CalledBefore
    <3> QED BY <1>1, <1>6, <3>1, <3>6, <3>7 DEF Sweeping
  <2>2. CASE Keep
    <3>1. /\ reply.error = "none" /\ caveats' = caveats
          /\ snapshot' = [snapshot EXCEPT ![Domains[k + 1]] = reply.facts]
      BY <1>6, <2>2 DEF Keep
    <3>2. Wanted /\ ReplyIs(Domains[k + 1])
      BY <1>2, <1>6, <3>1 DEF Exchange, NoReply
    <3>3. k + 1 <= 5 /\ Domains[k + 1] \in Adapters
      BY <1>2, <1>6, <3>2, ByPlace DEF Wanted
    <3>4. reply.facts = Facts(Domains[k + 1]) /\ Sound(Domains[k + 1])
      BY <3>1, <3>2 DEF ReplyIs, PlatformErrors, Errors
    <3>5. Facts(Domains[k + 1]) \in SUBSET Contents /\ Facts(Domains[k + 1]) # Absent
      BY <1>8, <3>3, FactsAreFacts
    <3>6. /\ snapshot' \in [ToSet(Domains) -> SUBSET Contents]
          /\ snapshot'[Domains[k + 1]] = Facts(Domains[k + 1])
          /\ \A i \in 1 .. 8 : i # k + 1 => snapshot'[Domains[i]] = snapshot[Domains[i]]
      BY <1>6, <3>1, <3>4, <3>5, ByPlace DEF Sweeping
    <3>7. Behind(k + 1)'
      <4>1. ASSUME NEW i \in 1 .. 5
            PROVE  \/ i <= k + 1 /\ snapshot'[Domains[i]] = Facts(Domains[i]) /\ Sound(Domains[i])
                   \/ i <= k + 1 /\ snapshot'[Domains[i]] = Absent /\ Faulted(Domains[i])
                   \/ i > k + 1 /\ snapshot'[Domains[i]] = Absent
        <5>1. CASE i = k + 1 BY <3>4, <3>6, <5>1
        <5>2. CASE i # k + 1 BY <1>5, <1>6, <3>6, <5>2 DEF Behind
        <5> QED BY <5>1, <5>2
      <4>2. \A i \in {6, 7} : snapshot'[Domains[i]] = IF i <= k + 1 THEN {} ELSE Absent
        BY <1>5, <1>6, <3>3, <3>6 DEF Behind
      <4>3. snapshot'["tpm"] = Absent
        BY <1>5, <3>3, <3>6, TheDomains DEF Behind
      <4> QED BY <1>7, <4>1, <4>2, <4>3 DEF Behind
    <3>8. Noted(k + 1)'
      <4>1. {Domains[i] : i \in {j \in 1 .. 5 : j <= k + 1 /\ snapshot'[Domains[j]] = Absent}}
              = {Domains[i] : i \in {j \in 1 .. 5 : j <= k /\ snapshot[Domains[j]] = Absent}}
        BY <1>6, <3>3, <3>5, <3>6
      <4>2. /\ caveats' \in Seq(Adapters)
            /\ \A i, j \in DOMAIN caveats' : i < j => CalledBefore(caveats'[i], caveats'[j])
        BY <1>5, <3>1 DEF Noted
      <4>3. ToSet(caveats') = {Domains[i] : i \in {j \in 1 .. 5 : j <= k + 1 /\ snapshot'[Domains[j]] = Absent}}
        BY <1>5, <3>1, <4>1 DEF Noted
      <4> QED BY <4>2, <4>3 DEF Noted, CalledBefore
    <3> QED BY <1>1, <1>6, <3>6, <3>7, <3>8 DEF Sweeping
  <2>3. CASE CallLocally
    <3>1. /\ Domains[k + 1] \notin Adapters /\ caveats' = caveats
          /\ snapshot' = IF Domains[k + 1] = "tpm" THEN snapshot
                         ELSE [snapshot EXCEPT ![Domains[k + 1]] = {}]
      BY <1>6, <2>3 DEF CallLocally
    <3>2. k + 1 \in 6 .. 8 /\ (Domains[k + 1] = "tpm" <=> k + 1 = 8)
      BY <1>6, <3>1, ByPlace
    <3>3. /\ snapshot' \in [ToSet(Domains) -> SUBSET Contents]
          /\ \A i \in 1 .. 8 : snapshot'[Domains[i]] =
                                 IF i = k + 1 /\ i # 8 THEN {} ELSE snapshot[Domains[i]]
      BY <1>6, <1>8, <3>1, <3>2, ByPlace DEF Sweeping
    <3>4. Behind(k + 1)'
      <4>1. ASSUME NEW i \in 1 .. 5
            PROVE  \/ i <= k + 1 /\ snapshot'[Domains[i]] = Facts(Domains[i]) /\ Sound(Domains[i])
                   \/ i <= k + 1 /\ snapshot'[Domains[i]] = Absent /\ Faulted(Domains[i])
                   \/ i > k + 1 /\ snapshot'[Domains[i]] = Absent
        BY <1>5, <1>6, <3>2, <3>3 DEF Behind
      <4>2. \A i \in {6, 7} : snapshot'[Domains[i]] = IF i <= k + 1 THEN {} ELSE Absent
        BY <1>5, <1>6, <3>2, <3>3 DEF Behind
      <4>3. snapshot'["tpm"] = Absent
        BY <1>5, <3>3, TheDomains DEF Behind
      <4> QED BY <1>7, <4>1, <4>2, <4>3 DEF Behind
    <3>5. Noted(k + 1)'
      <4>1. \A j \in 1 .. 5 : (j <= k + 1 /\ snapshot'[Domains[j]] = Absent)
                                <=> (j <= k /\ snapshot[Domains[j]] = Absent)
        BY <3>2, <3>3
      <4>2. /\ caveats' \in Seq(Adapters)
            /\ \A i, j \in DOMAIN caveats' : i < j => CalledBefore(caveats'[i], caveats'[j])
        BY <1>5, <3>1 DEF Noted
      <4>3. {j \in 1 .. 5 : j <= k + 1 /\ snapshot'[Domains[j]] = Absent}
              = {j \in 1 .. 5 : j <= k /\ snapshot[Domains[j]] = Absent}
        BY <4>1
      <4>4. ToSet(caveats') = {Domains[i] : i \in {j \in 1 .. 5 : j <= k + 1 /\ snapshot'[Domains[j]] = Absent}}
        BY <1>5, <3>1, <4>3 DEF Noted
      <4> QED BY <4>2, <4>4 DEF Noted, CalledBefore
    <3> QED BY <1>1, <1>6, <3>3, <3>4, <3>5 DEF Sweeping
  <2> QED BY <2>1, <2>2, <2>3
<1>10. Diagnosing'
  <2>1. ahead' \in Seq(Words) BY <1>1, HeadTailProperties DEF Diagnosing
  <2>2. options' = options BY <1>1 DEF Onward
  <2>3. command' # "doctor" BY <1>1
  <2>4. AsExpected(results)' BY <1>1, <1>4, ResultsStay DEF Diagnosing
  <2> QED BY <1>1, <2>1, <2>2, <2>3, <2>4 DEF Diagnosing
<1> QED BY <1>4, <1>9, <1>10

\* On a host where nothing is slow, what a check makes of the reply of its
\* adapter does not depend on which reply it is.
LEMMA AnswersAreExpected ==
  ASSUME Predictable, NEW check \in AskingChecks, Asking(check), reply.error \in PlatformErrors \union {"none"},
         ReplyIs(AdapterOf(check))
  PROVE  AskedStatus(check, reply) = Expected(check)
<1> DEFINE d == AdapterOf(check)
<1>1. d # "filesystem" BY DEF AskingChecks, AdapterOf
<1>2. Expected(check) = AskedStatus(check, Told(d)) BY DEF Expected
<1>3. CASE reply.error = "none"
  <2>1. reply = [error |-> "none", facts |-> Facts(d)] /\ Sound(d)
    BY <1>3 DEF ReplyIs, PlatformErrors, Errors
  <2>2. Told(d) = reply BY <2>1 DEF Told
  <2> QED BY <1>2, <2>2
<1>4. CASE reply.error \in PlatformErrors
  <2>1. reply.error # "none" BY <1>4 DEF PlatformErrors
  <2>2. Faulted(d) BY <1>4, <2>1 DEF ReplyIs
  <2>3. ~ Sound(d) BY <1>1, <2>2 DEF Faulted
  <2>4. Told(d).error = "AdapterError" BY <2>3 DEF Told
  <2> QED BY <1>2, <2>1, <2>4 DEF AskedStatus, SecureBootStatus, StorageStatus, NetworkStatus
<1> QED BY <1>3, <1>4

\* The nine checks of doctor.
LEMMA TheChecks ==
  /\ AllChecks \in Seq(ToSet(AllChecks))
  /\ ToSet(AllChecks) = {"firmware", "secure-boot", "esp", "storage", "usb-storage", "network",
                         "tooling", "permissions", "config"}
<1> DEFINE S == {"firmware", "secure-boot", "esp", "storage", "usb-storage", "network",
                 "tooling", "permissions", "config"}
<1>1. Len(AllChecks) = 9 /\ DOMAIN AllChecks = 1 .. 9 BY DEF AllChecks
<1>2. 1 .. 9 = {1, 2, 3, 4, 5, 6, 7, 8, 9} OBVIOUS
<1>3. ToSet(AllChecks) = {AllChecks[i] : i \in {1, 2, 3, 4, 5, 6, 7, 8, 9}}
  BY <1>1, <1>2 DEF ToSet
<1>4. ToSet(AllChecks) = {AllChecks[1], AllChecks[2], AllChecks[3], AllChecks[4], AllChecks[5],
                          AllChecks[6], AllChecks[7], AllChecks[8], AllChecks[9]}
  BY <1>3
<1>5. /\ AllChecks[1] = "firmware" /\ AllChecks[2] = "secure-boot" /\ AllChecks[3] = "esp"
      /\ AllChecks[4] = "storage" /\ AllChecks[5] = "usb-storage"
  BY DEF AllChecks
<1>6. /\ AllChecks[6] = "network" /\ AllChecks[7] = "tooling" /\ AllChecks[8] = "permissions"
      /\ AllChecks[9] = "config"
  BY DEF AllChecks
<1>7. ToSet(AllChecks) = S BY <1>4, <1>5, <1>6
<1>8. AllChecks \in Seq(S)
  <2>1. /\ "firmware" \in S /\ "secure-boot" \in S /\ "esp" \in S /\ "storage" \in S
        /\ "usb-storage" \in S /\ "network" \in S /\ "tooling" \in S /\ "permissions" \in S
        /\ "config" \in S
    OBVIOUS
  <2> HIDE DEF S
  <2> QED BY <2>1 DEF AllChecks
<1> QED BY <1>7, <1>8

\* What a check says is one of four words.
LEMMA StatusIsAWord ==
  ASSUME NEW check \in ToSet(AllChecks), NEW r
  PROVE  /\ Asking(check) => AskedStatus(check, r) \in {"ok", "warn", "fail", "skip"}
         /\ ~ Asking(check) => LocalStatus(check) \in {"ok", "warn", "fail", "skip"}
<1>2. Asking(check) => AskedStatus(check, r) \in {"ok", "warn", "fail", "skip"}
  BY DEF Asking, AskingChecks, AskedStatus, SecureBootStatus, StorageStatus, NetworkStatus
<1>3. ~ Asking(check) => LocalStatus(check) \in {"ok", "warn", "fail", "skip"}
  <2>1. SUFFICES ASSUME ~ Asking(check) PROVE LocalStatus(check) \in {"ok", "warn", "fail", "skip"}
    OBVIOUS
  <2>2. check \in {"firmware", "secure-boot", "esp", "usb-storage", "tooling", "permissions", "config"}
    BY TheChecks, <2>1 DEF Asking, AskingChecks
  <2>3. CASE check = "config" BY <2>3 DEF LocalStatus
  <2>4. CASE check # "config" BY <2>2, <2>4 DEF LocalStatus
  <2> QED BY <2>3, <2>4
<1> QED BY <1>2, <1>3

\* One check is done with: its result is appended.
LEMMA CheckKeepsSession ==
  ASSUME Session, CheckAnswer \/ CheckLocally
  PROVE  Session'
<1> USE DEF Session
<1> DEFINE check == Head(ahead)
<1>1. PICK status :
        /\ Found(status) /\ Checking
        /\ \/ CheckAnswer /\ status = AskedStatus(check, reply)
           \/ CheckLocally /\ status = LocalStatus(check) /\ ~ Asking(check)
  BY DEF CheckAnswer, CheckLocally
<1>2. /\ Onward /\ command = "doctor" /\ Known /\ ahead # <<>>
      /\ results' = Append(results, [check |-> check, status |-> status])
      /\ UNCHANGED <<snapshot, caveats, command, options>> /\ ahead' = Tail(ahead)
  BY <1>1 DEF Found, Checking, Onward
<1>3. Asked = AdapterOf(check) BY <1>2 DEF Asked
<1>4. CheckAnswer => Wanted /\ ReplyIs(AdapterOf(check)) /\ Asking(check)
                     /\ reply.error \in PlatformErrors \union {"none"} /\ reply # NoReply
  BY <1>2, <1>3 DEF CheckAnswer, Exchange, Wanted, NoReply, PlatformErrors
<1>5. ~ Wanted \/ reply # NoReply
  BY <1>1, <1>2, <1>4 DEF Wanted
<1>6. Steady /\ Clock' /\ ThisMachine' /\ Call' /\ Exchange' /\ Logged'
  BY <1>2, <1>5, OnwardBasics
<1>7. Sweeping' BY <1>2 DEF Sweeping
<1>8. ahead \in Seq(Words) /\ Len(ahead) \in Nat \ {0} /\ check = ahead[1]
  BY <1>2, EmptySeq DEF Diagnosing
<1>9. check \in ToSet(AllChecks)
  BY <1>2, <1>8 DEF Diagnosing
<1>10. status \in {"ok", "warn", "fail", "skip"}
  BY <1>1, <1>4, <1>9, StatusIsAWord
<1>11. Predictable => status = Expected(check)
  <2>1. CASE CheckAnswer /\ status = AskedStatus(check, reply)
    BY <1>4, <2>1, AnswersAreExpected DEF Asking
  <2>2. CASE status = LocalStatus(check) /\ ~ Asking(check)
    BY <2>2 DEF Expected
  <2> QED BY <1>1, <2>1, <2>2
<1>12. Diagnosing'
  <2> DEFINE new == [check |-> check, status |-> status]
  <2>1. new \in CheckResult BY <1>9, <1>10 DEF CheckResult
  <2>2. /\ results' \in Seq(CheckResult) /\ Len(results') = Len(results) + 1
        /\ \A i \in 1 .. Len(results) : results'[i] = results[i]
        /\ results'[Len(results) + 1] = new
        /\ Len(results) \in Nat
    BY <1>2, <2>1, AppendProperties DEF Diagnosing
  <2>3. AsExpected(results')
    <3>1. SUFFICES ASSUME Predictable, NEW i \in 1 .. Len(results) + 1
                   PROVE  results'[i].status = Expected(results'[i].check)
      BY <2>2 DEF AsExpected
    <3>2. CASE i = Len(results) + 1 BY <1>11, <2>2, <3>1, <3>2
    <3>3. CASE i \in 1 .. Len(results) BY <2>2, <3>1, <3>3 DEF Diagnosing, AsExpected
    <3> QED BY <2>2, <3>2, <3>3
  <2>4. AsExpected(results)' BY <1>6, <2>3, SameMachine DEF AsExpected, Steady
  <2>5. /\ ahead' \in Seq(Words) /\ Len(ahead') = Len(ahead) - 1
        /\ \A i \in 1 .. Len(ahead') : ahead'[i] = ahead[i + 1]
    BY <1>2, HeadTailProperties DEF Diagnosing
  <2>6. \A i \in 1 .. Len(ahead') : ahead'[i] \in ToSet(AllChecks)
    BY <1>2, <1>8, <2>5 DEF Diagnosing
  <2>7. InTurn'
    <3> DEFINE sel == Selected(options.checks)
    <3>1. /\ Len(sel) = Len(results) + Len(ahead)
          /\ \A i \in 1 .. Len(results) :
               /\ results[i].check = sel[i]
               /\ results[i].check = "config" => setting.config \notin {"override", "undecodable"}
          /\ \A i \in 1 .. Len(ahead) : ahead[i] = sel[Len(results) + i]
      BY <1>2 DEF Diagnosing, InTurn
    <3>2. sel' = sel /\ setting' = setting BY <1>2, <1>6 DEF Steady, Selected
    <3>3. check = "config" => setting.config \notin {"override", "undecodable"}
      <4>1. CASE CheckLocally BY <4>1 DEF CheckLocally
      <4>2. CASE CheckAnswer BY <1>4, <4>2 DEF Asking, AskingChecks
      <4> QED BY <1>1, <4>1, <4>2
    <3> HIDE DEF sel, check
    <3>4. Len(sel) = Len(results') + Len(ahead') BY <1>8, <2>2, <2>5, <3>1
    <3>5. new.check = check /\ check = sel[Len(results) + 1]
      BY <1>8, <3>1
    <3> HIDE DEF new
    <3>6. \A i \in 1 .. Len(results') :
            /\ results'[i].check = sel[i]
            /\ results'[i].check = "config" => setting.config \notin {"override", "undecodable"}
      <4>1. SUFFICES ASSUME NEW i \in 1 .. Len(results) + 1
                     PROVE  /\ results'[i].check = sel[i]
                            /\ results'[i].check = "config"
                                 => setting.config \notin {"override", "undecodable"}
        BY <2>2
      <4>2. CASE i = Len(results) + 1 BY <2>2, <3>3, <3>5, <4>2
      <4>3. CASE i \in 1 .. Len(results) BY <2>2, <3>1, <4>3
      <4> QED BY <2>2, <4>1, <4>2, <4>3
    <3>7. \A i \in 1 .. Len(ahead') : ahead'[i] = sel[Len(results') + i]
      <4>1. SUFFICES ASSUME NEW i \in 1 .. Len(ahead') PROVE ahead'[i] = sel[Len(results') + i]
        OBVIOUS
      <4>2. ahead'[i] = ahead[i + 1] /\ i + 1 \in 1 .. Len(ahead) BY <1>8, <2>5, <4>1
      <4>3. Len(results) + (i + 1) = Len(results') + i BY <2>2, <4>1
      <4> QED BY <3>1, <4>2, <4>3
    <3> QED BY <3>2, <3>4, <3>6, <3>7 DEF InTurn, sel
  <2> QED BY <1>2, <2>2, <2>4, <2>5, <2>6, <2>7 DEF Diagnosing
<1> QED BY <1>6, <1>7, <1>12

\* The entry of the command that ends.
Entry(code, found, report, orphan) ==
  [command |-> command, asked |-> options.checks, exit |-> code, results |-> found,
   report |-> report, left |-> orphan]

\* A command ends, and its entry in the log is true.
LEMMA EndKeepsSession ==
  ASSUME Session, command # "none", NEW code, NEW found, NEW report, NEW orphan,
         End(code, found, report, orphan),
         UNCHANGED work, Clock', Idle', Steady,
         Entry(code, found, report, orphan) \in LogEntry,
         EntryIsTrue(Entry(code, found, report, orphan))
  PROVE  Session'
<1> USE DEF Session
<1>1. ThisMachine' BY SameMachine DEF Steady
<1>2. Call' BY DEF Call, End
<1>3. Exchange' BY DEF Exchange, End, NoReply
<1>4. Sweeping' BY DEF Sweeping, End, work
<1>5. Diagnosing' BY ResultsStay, EmptySeq DEF Diagnosing, End, work, NoOptions
<1>6. Logged'
  <2> DEFINE e == Entry(code, found, report, orphan)
  <2>1. /\ log' \in Seq(LogEntry) /\ Len(log') = Len(log) + 1
        /\ \A i \in 1 .. Len(log) : log'[i] = log[i]
        /\ log'[Len(log) + 1] = e
        /\ Len(log) \in Nat
    BY AppendProperties DEF Logged, End, Entry
  <2>2. \A i \in 1 .. Len(log') : EntryIsTrue(log'[i])
    <3>1. \A i \in 1 .. Len(log) : EntryIsTrue(log[i]) BY DEF Logged
    <3> HIDE DEF e
    <3>2. EntryIsTrue(e) BY DEF e
    <3>3. SUFFICES ASSUME NEW i \in 1 .. Len(log) + 1 PROVE EntryIsTrue(log'[i])
      BY <2>1
    <3>4. CASE i = Len(log) + 1 BY <2>1, <3>2, <3>4
    <3>5. CASE i \in 1 .. Len(log) BY <2>1, <3>1, <3>5
    <3> QED BY <2>1, <3>4, <3>5
  <2>3. \A i \in 1 .. Len(log') : EntryIsTrue(log[i])'
    <3>1. SUFFICES ASSUME NEW i \in 1 .. Len(log') PROVE EntryIsTrue(log[i])' OBVIOUS
    <3>2. EntryIsTrue(log'[i]) BY <2>2
    <3> QED BY <3>2, EntriesStay
  <2> QED BY <2>1, <2>3 DEF Logged
<1> QED BY <1>1, <1>2, <1>3, <1>4, <1>5, <1>6

\* A command fails by itself: it prints nothing.
LEMMA FailKeepsSession ==
  ASSUME Session, command # "none", NEW code \in {1, 2}, Fail(code),
         ~ Wanted \/ reply # NoReply,
         code = 1 /\ command = "inventory" => Excused,
         command = "doctor" => Accounted(Entry(code, <<>>, NoReport, NoTool)),
         code = 1 /\ command = "doctor" => Excused \/ setting.config = "undecodable"
  PROVE  Session'
<1> USE DEF Session
<1>1. Idle /\ reading = "none" BY NothingPending
<1>2. /\ End(code, <<>>, NoReport, NoTool) /\ UNCHANGED <<runner, work>>
  BY <1>1 DEF Fail, Idle, NoChild
<1>3. Steady BY <1>2 DEF Steady, runner, End
<1>4. Clock' BY <1>2 DEF Clock, runner
<1>5. Idle' BY <1>1, <1>2 DEF Idle, runner, End
<1> DEFINE e == Entry(code, <<>>, NoReport, NoTool)
<1>6. NoReport \in Printed BY DEF NoReport, Printed, Contents, Absent
<1>7. e \in LogEntry BY <1>6, EmptySeq DEF LogEntry, Exchange, Diagnosing, Entry
<1>8. EntryIsTrue(e)
  <2>1. /\ e.command = command /\ e.exit = code /\ e.results = <<>> /\ e.left = NoTool
        /\ command \in {"inventory", "doctor"}
    BY DEF Entry, Exchange
  <2> HIDE DEF e
  <2>2. e.command = "doctor" => Accounted(e) BY <2>1 DEF e
  <2> QED BY <2>1, <2>2 DEF EntryIsTrue, AsExpected
<1> QED BY <1>2, <1>3, <1>4, <1>5, <1>7, <1>8, EndKeepsSession

\* What the sweep has found on a host where nothing is slow is what the report
\* of the inventory says.
LEMMA ReportIsExpected ==
  ASSUME ThisMachine, Behind(8)
  PROVE  Inventory \in Printed /\ (Predictable => Inventory = ExpectedReport)
<1>1. /\ host.devices \in SUBSET DiskKinds /\ host.nics \in SUBSET NicStates
      /\ host.secureBoot \in BootStates /\ host.uefi \in BOOLEAN
  BY TheHost DEF ThisMachine
<1>2. /\ Facts("storage") = host.devices /\ Facts("network") = host.nics
      /\ Facts("secure_boot") = {host.secureBoot}
  BY DEF Facts
<1>3. \A d \in {"storage", "secure_boot", "network"} :
        \/ snapshot[d] = Facts(d) /\ Sound(d) /\ Facts(d) # Absent
        \/ snapshot[d] = Absent /\ (Predictable => ~ Sound(d))
  <2>1. \A i \in {2, 3, 5} :
          \/ snapshot[Domains[i]] = Facts(Domains[i]) /\ Sound(Domains[i])
          \/ snapshot[Domains[i]] = Absent /\ Faulted(Domains[i])
    BY DEF Behind
  <2>2. \A d \in {"storage", "secure_boot", "network"} :
          \/ snapshot[d] = Facts(d) /\ Sound(d)
          \/ snapshot[d] = Absent /\ Faulted(d)
    BY <2>1, TheDomains
  <2>3. \A d \in {"storage", "secure_boot", "network"} : Facts(d) # Absent
    BY FactsAreFacts, TheAdapters DEF ThisMachine
  <2> QED BY <2>2, <2>3 DEF Faulted
<1> DEFINE storage == IF Present("storage")
                      THEN TranslatedDisks(snapshot["storage"]) ELSE CollectedDisks
           network == IF Present("network") THEN Up(snapshot["network"]) ELSE CollectedUp
           secureBoot == IF Present("secure_boot")
                         THEN CHOOSE state \in snapshot["secure_boot"] : TRUE
                         ELSE CollectedSecureBoot
<1>4. /\ storage \in SUBSET Contents
      /\ Predictable => storage = IF Sound("storage") THEN TranslatedDisks(host.devices)
                                  ELSE CollectedDisks
  BY <1>1, <1>2, <1>3 DEF Present, TranslatedDisks, CollectedDisks, Contents, DiskKinds
<1>5. /\ network \in SUBSET Contents
      /\ Predictable => network = IF Sound("network") THEN Up(host.nics) ELSE CollectedUp
  BY <1>1, <1>2, <1>3 DEF Present, Up, CollectedUp, Contents, NicStates
<1>6. /\ secureBoot \in BootStates \union {"unsupported"}
      /\ Predictable => secureBoot = IF Sound("secure_boot") THEN host.secureBoot
                                     ELSE CollectedSecureBoot
  <2>1. (CHOOSE state \in {host.secureBoot} : TRUE) = host.secureBoot OBVIOUS
  <2> QED BY <1>1, <1>2, <1>3, <2>1 DEF Present, CollectedSecureBoot, BootStates
<1>7. Inventory = [storage |-> storage, network |-> network, secureBoot |-> secureBoot]
  BY DEF Inventory
<1> HIDE DEF storage, network, secureBoot
<1>8. Inventory \in Printed BY <1>4, <1>5, <1>6, <1>7 DEF Printed
<1>9. Predictable => Inventory = ExpectedReport
  BY <1>4, <1>5, <1>6, <1>7 DEF ExpectedReport
<1> QED BY <1>8, <1>9

\* The selection of checks is a sequence of names.
LEMMA SelectedIsASeq ==
  ASSUME NEW checks \in Seq(STRING)
  PROVE  Selected(checks) \in Seq(Words)
<1>1. AllChecks \in Seq(Words) BY TheChecks, SeqMonotonic DEF Words
<1>2. checks \in Seq(Words) BY SeqMonotonic DEF Words
<1> QED BY <1>1, <1>2 DEF Selected

\* The check that doctor is at is one of those it was asked for.
LEMMA HeadIsSelected ==
  ASSUME Diagnosing, command = "doctor", ahead # <<>>
  PROVE  Head(ahead) \in ToSet(Selected(options.checks))
<1> DEFINE sel == Selected(options.checks)
<1>1. sel \in Seq(Words) BY SelectedIsASeq DEF Diagnosing
<1>2. ahead \in Seq(Words) /\ results \in Seq(CheckResult) BY DEF Diagnosing
<1>3. Len(ahead) \in Nat \ {0} /\ Len(results) \in Nat /\ Head(ahead) = ahead[1]
  BY <1>2, EmptySeq
<1>4. ahead[1] = sel[Len(results) + 1] /\ Len(results) + 1 \in 1 .. Len(sel)
  BY <1>3 DEF Diagnosing, InTurn
<1>5. sel[Len(results) + 1] \in ToSet(sel)
  <2> HIDE DEF sel
  <2> QED BY <1>1, <1>4 DEF ToSet
<1> QED BY <1>3, <1>4, <1>5

\* A command ends in one of the ways it can.
EndStep == Crash \/ Interrupt \/ Report \/ RefuseSelection \/ RefuseConfig \/ Verdict

LEMMA EndStepKeepsSession ==
  ASSUME Session, EndStep
  PROVE  Session'
<1> USE DEF Session
<1>0. Entry(1, <<>>, NoReport, NoTool).exit = 1 /\ Entry(2, <<>>, NoReport, NoTool).exit = 2
      /\ \A code : Entry(code, <<>>, NoReport, NoTool).asked = options.checks
  BY DEF Entry
<1>1. CASE Crash
  <2>1. /\ command # "none" /\ Fail(1) /\ reply.error # "pending"
        /\ reply.error \notin PlatformErrors \union {"none"}
    BY <1>1 DEF Crash, Replied
  <2>2. reply # NoReply BY <2>1 DEF NoReply
  <2>3. Wanted /\ ExcusedBy(Asked) BY <2>1, <2>2 DEF Exchange, ReplyIs
  <2>4. Excused BY <2>3, TheTools DEF Excused, ExcusedBy, Wanted
  <2>5. ASSUME command = "doctor"
        PROVE  Accounted(Entry(1, <<>>, NoReport, NoTool))
    <3> DEFINE check == Head(ahead)
    <3>1. Asking(check) /\ Asked = AdapterOf(check) /\ Known /\ ahead # <<>> /\ Asked \in Adapters
      BY <2>3, <2>5 DEF Wanted, Asked
    <3>2. check \in AskingChecks BY <3>1 DEF Asking
    <3>3. \A i \in 1 .. Len(Commands[Asked]) : Commands[Asked][i] \in ToSet(Commands[Asked])
      BY <3>1, TheAdapters DEF ToSet
    <3>4. Raises(check) BY <2>3, <3>1, <3>2, <3>3 DEF Raises, ExcusedBy
    <3>5. check \in ToSet(Selected(options.checks))
      BY <2>5, <3>1, HeadIsSelected
    <3> HIDE DEF check
    <3> QED BY <1>0, <3>4, <3>5 DEF Accounted
  <2> QED BY <2>1, <2>2, <2>4, <2>5, FailKeepsSession
<1>2. CASE RefuseSelection
  <2>1. command = "doctor" /\ ~ Known /\ Fail(2) BY <1>2 DEF RefuseSelection
  <2>2. ~ Wanted BY <2>1 DEF Wanted
  <2>3. ~ ToSet(Selected(options.checks)) \subseteq ToSet(AllChecks)
    <3>1. ToSet(<<>>) = {} BY DEF ToSet
    <3> QED BY <2>1, <3>1 DEF Known, Selected
  <2>4. Accounted(Entry(2, <<>>, NoReport, NoTool)) BY <1>0, <2>3 DEF Accounted
  <2> QED BY <2>1, <2>2, <2>4, FailKeepsSession
<1>3. CASE RefuseConfig
  <2>1. /\ command = "doctor" /\ Head(ahead) = "config" /\ ahead # <<>>
        /\ \/ setting.config = "override" /\ Fail(2)
           \/ setting.config = "undecodable" /\ Fail(1)
    BY <1>3 DEF RefuseConfig, Checking
  <2>2. ~ Wanted BY <2>1 DEF Wanted, Asking, AskingChecks
  <2>3. "config" \in ToSet(Selected(options.checks)) BY <2>1, HeadIsSelected
  <2>4. CASE setting.config = "override" /\ Fail(2)
    <3>1. Accounted(Entry(2, <<>>, NoReport, NoTool)) BY <1>0, <2>3, <2>4 DEF Accounted
    <3> QED BY <2>1, <2>2, <2>4, <3>1, FailKeepsSession
  <2>5. CASE setting.config = "undecodable" /\ Fail(1)
    <3>1. Accounted(Entry(1, <<>>, NoReport, NoTool)) BY <1>0, <2>3, <2>5 DEF Accounted, Raises
    <3> QED BY <2>1, <2>2, <2>5, <3>1, FailKeepsSession
  <2> QED BY <2>1, <2>4, <2>5
<1>4. NoReport \in Printed BY DEF NoReport, Printed, Contents, Absent
<1>5. CASE Interrupt
  <2>1. /\ command # "none" /\ child' = NoChild /\ answer' = NoAnswer
        /\ End(130, <<>>, NoReport, Survivor)
        /\ UNCHANGED <<wall, backs, mood, started, spent, work>>
    BY <1>5 DEF Interrupt
  <2>2. Steady BY <2>1 DEF Steady, End
  <2>3. Clock' BY <2>1 DEF Clock
  <2>4. Idle' BY <2>1 DEF Idle, End
  <2> DEFINE e == Entry(130, <<>>, NoReport, Survivor)
  <2>5. Survivor \in Tools \union {NoTool} /\ (Survivor # NoTool => mood[Survivor] = "stuck")
    <3>1. child # NoChild => child.tool \in Tools
      <4>1. SUFFICES ASSUME child # NoChild PROVE child.tool \in Tools OBVIOUS
      <4>2. Waiting /\ reading # "none" BY <4>1 DEF Call, Idle, Heard
      <4> QED BY <4>2, CurrentIsATool DEF Waiting
    <3> QED BY <3>1 DEF Survivor
  <2>6. e \in LogEntry BY <1>4, <2>1, <2>5, EmptySeq DEF LogEntry, Exchange, Diagnosing, Entry
  <2>7. EntryIsTrue(e) BY <2>5 DEF EntryIsTrue, AsExpected, Accounted, Entry
  <2> QED BY <2>1, <2>2, <2>3, <2>4, <2>6, <2>7, EndKeepsSession
<1>6. CASE Report
  <2>1. /\ command = "inventory" /\ ahead = <<>> /\ End(0, <<>>, Inventory, child.tool)
        /\ UNCHANGED <<runner, work>>
    BY <1>6 DEF Report
  <2>2. ~ Wanted BY <2>1 DEF Wanted
  <2>3. Idle /\ reading = "none" BY <2>2, NothingPending
  <2>4. Steady BY <2>1 DEF Steady, runner, End
  <2>5. Clock' BY <2>1 DEF Clock, runner
  <2>6. Idle' BY <2>1, <2>3 DEF Idle, runner, End
  <2>7. Behind(8)
    <3>1. PICK k \in 0 .. 8 : ahead = Rest(k) /\ Behind(k) BY <2>1 DEF Sweeping
    <3>2. k = 8 BY <2>1, <3>1, RestShape
    <3> QED BY <3>1, <3>2
  <2>8. Inventory \in Printed /\ (Predictable => Inventory = ExpectedReport)
    BY <2>7, ReportIsExpected
  <2> DEFINE e == Entry(0, <<>>, Inventory, NoTool)
  <2>9. child.tool = NoTool BY <2>3 DEF Idle, NoChild
  <2>10. e \in LogEntry BY <2>1, <2>8, EmptySeq DEF LogEntry, Diagnosing, Entry
  <2>11. EntryIsTrue(e)
    <3>1. /\ e.command = "inventory" /\ e.exit = 0 /\ e.results = <<>> /\ e.left = NoTool
          /\ e.report = Inventory
      BY <2>1 DEF Entry
    <3> HIDE DEF e
    <3> QED BY <2>8, <3>1 DEF EntryIsTrue, AsExpected
  <2> QED BY <2>1, <2>4, <2>5, <2>6, <2>9, <2>10, <2>11, EndKeepsSession
<1>7. CASE Verdict
  <2>1. PICK code \in {0, 4} :
          /\ command = "doctor" /\ ahead = <<>> /\ End(code, results, NoReport, child.tool)
          /\ UNCHANGED <<runner, work>>
    BY <1>7 DEF Verdict
  <2>2. ~ Wanted BY <2>1 DEF Wanted
  <2>3. Idle /\ reading = "none" BY <2>2, NothingPending
  <2>4. Steady BY <2>1 DEF Steady, runner, End
  <2>5. Clock' BY <2>1 DEF Clock, runner
  <2>6. Idle' BY <2>1, <2>3 DEF Idle, runner, End
  <2> DEFINE e == Entry(code, results, NoReport, NoTool)
  <2>7. child.tool = NoTool BY <2>3 DEF Idle, NoChild
  <2>8. e \in LogEntry BY <1>4, <2>1 DEF LogEntry, Diagnosing, Entry
  <2>9. EntryIsTrue(e)
    <3>1. /\ e.command = "doctor" /\ e.exit = code /\ e.results = results /\ e.left = NoTool
          /\ e.asked = options.checks
      BY <2>1 DEF Entry
    <3> DEFINE sel == Selected(options.checks)
    <3>2. /\ Len(sel) = Len(results)
          /\ \A i \in 1 .. Len(results) :
               /\ results[i].check = sel[i]
               /\ results[i].check = "config" => setting.config \notin {"override", "undecodable"}
      BY <2>1, EmptySeq DEF Diagnosing, InTurn
    <3>3. sel \in Seq(Words) BY SelectedIsASeq DEF Diagnosing
    <3>4. "config" \in ToSet(sel) => setting.config \notin {"override", "undecodable"}
      <4>1. SUFFICES ASSUME "config" \in ToSet(sel)
                     PROVE  setting.config \notin {"override", "undecodable"}
        OBVIOUS
      <4> HIDE DEF sel
      <4>2. PICK i \in 1 .. Len(sel) : sel[i] = "config" BY <3>3, <4>1 DEF ToSet
      <4> QED BY <3>2, <4>2
    <3> HIDE DEF e
    <3>5. Accounted(e) BY <3>1, <3>2, <3>4 DEF Accounted
    <3> QED BY <2>1, <3>1, <3>5 DEF EntryIsTrue, Diagnosing
  <2> QED BY <2>1, <2>4, <2>5, <2>6, <2>7, <2>8, <2>9, EndKeepsSession
<1> QED BY <1>1, <1>2, <1>3, <1>5, <1>6, <1>7 DEF EndStep

\* A command is given at the prompt.
LEMMA BeginKeepsSession ==
  ASSUME Session, StartInventory \/ StartDoctor
  PROVE  Session'
<1> USE DEF Session
<1>1. PICK name, todo, opts :
        /\ Begin(name, todo, opts)
        /\ \/ name = "inventory" /\ todo = Domains
           \/ name = "doctor" /\ todo = Selected(opts.checks)
        /\ opts.checks \in Seq(STRING)
  <2>1. CASE StartInventory
    <3>1. PICK budget \in Budgets :
            Begin("inventory", Domains, [NoOptions EXCEPT !.timeout = budget])
      BY <2>1 DEF StartInventory
    <3> DEFINE opts == [NoOptions EXCEPT !.timeout = budget]
    <3>2. opts.checks = <<>> BY DEF NoOptions
    <3> HIDE DEF opts
    <3>3. <<>> \in Seq(STRING) OBVIOUS
    <3>4. opts.checks \in Seq(STRING) BY <3>2, <3>3
    <3> USE DEF opts
    <3> QED BY <3>1, <3>4
  <2>2. CASE StartDoctor
    <3>1. PICK doctor \in Doctors, budget \in Budgets :
            Begin("doctor", Selected(doctor.checks),
                  [checks |-> doctor.checks, strict |-> doctor.strict, timeout |-> budget])
      BY <2>2 DEF StartDoctor
    <3>2. doctor.checks \in Seq(STRING) BY DoctorsAreTyped
    <3> DEFINE opts == [checks |-> doctor.checks, strict |-> doctor.strict, timeout |-> budget]
    <3>3. opts.checks = doctor.checks OBVIOUS
    <3>4. Begin("doctor", Selected(opts.checks), opts) BY <3>1, <3>3
    <3> QED BY <3>2, <3>3, <3>4
  <2> QED BY <2>1, <2>2
<1>2. /\ command = "none" /\ command' = name /\ ahead' = todo /\ snapshot' = EmptySnapshot
      /\ caveats' = <<>> /\ results' = <<>> /\ options' = opts /\ spent' = 0
      /\ UNCHANGED <<wall, backs, mood, child, started, answer, host, reading, outputs, reply,
                     setting, log>>
  BY <1>1 DEF Begin
<1>3. reading = "none" /\ reply = NoReply BY <1>2 DEF Exchange
<1>4. Steady BY <1>2 DEF Steady
<1>5. Clock' BY <1>2 DEF Clock
<1>6. ThisMachine' BY <1>4, SameMachine DEF Steady
<1>7. Call' BY <1>2, <1>4, CallStays
<1>8. Exchange' BY <1>1, <1>2, <1>3 DEF Exchange, NoReply
<1>9. Sweeping'
  <2>1. Absent \in SUBSET Contents BY DEF Absent, Contents
  <2>2. snapshot' \in [ToSet(Domains) -> SUBSET Contents]
    BY <1>2, <2>1 DEF EmptySnapshot
  <2>3. ASSUME command' = "inventory"
        PROVE  ahead' = Rest(0) /\ Behind(0)' /\ Noted(0)'
    <3>1. ahead' = Rest(0) BY <1>1, <1>2, <2>3, RestAtFirst
    <3>2. \A i \in 1 .. 8 : snapshot'[Domains[i]] = Absent
      BY <1>2, ByPlace DEF EmptySnapshot
    <3>3. Behind(0)' BY <3>2, TheDomains DEF Behind
    <3>4. {j \in 1 .. 5 : j <= 0 /\ snapshot'[Domains[j]] = Absent} = {} OBVIOUS
    <3>5. ToSet(caveats') = {} BY <1>2 DEF ToSet
    <3>6. Noted(0)' BY <1>2, <3>4, <3>5 DEF Noted
    <3> QED BY <3>1, <3>3, <3>6
  <2> QED BY <2>2, <2>3 DEF Sweeping
<1>10. Diagnosing'
  <2>1. results' \in Seq(CheckResult) /\ Len(results') = 0 BY <1>2
  <2>2. ahead' \in Seq(Words)
    <3>1. CASE todo = Selected(opts.checks)
      BY <1>1, <1>2, <3>1, SelectedIsASeq, SeqMonotonic DEF Words
    <3>2. CASE todo = Domains BY <1>2, <3>2, TheDomains, SeqMonotonic DEF Words
    <3> QED BY <1>1, <3>1, <3>2
  <2>3. ASSUME command' = "doctor", Known', NEW i \in 1 .. Len(ahead')
        PROVE  ahead'[i] \in ToSet(AllChecks)
    <3>1. ahead' = Selected(opts.checks) BY <1>1, <1>2, <2>3
    <3>2. CASE opts.checks = <<>> BY <2>3, <3>1, <3>2, TheChecks DEF Selected
    <3>3. CASE opts.checks # <<>>
      <4>1. ahead'[i] \in ToSet(opts.checks) BY <1>1, <2>3, <3>1, <3>3 DEF ToSet, Selected
      <4>2. ToSet(opts.checks) \subseteq ToSet(AllChecks) BY <1>2, <2>3 DEF Known
      <4> QED BY <4>1, <4>2
    <3> QED BY <3>2, <3>3
  <2>4. ASSUME command' = "doctor" PROVE InTurn'
    <3>1. ahead' = Selected(options.checks)' BY <1>1, <1>2, <2>4 DEF Selected
    <3>2. Len(ahead') \in Nat BY <2>2
    <3> QED BY <2>1, <3>1, <3>2 DEF InTurn
  <2>5. options'.checks \in Seq(STRING) BY <1>1, <1>2
  <2> QED BY <2>1, <2>2, <2>3, <2>4, <2>5 DEF Diagnosing, AsExpected
<1>11. Logged' BY <1>2, <1>4, LogStays
<1> QED BY <1>5, <1>6, <1>7, <1>8, <1>9, <1>10, <1>11

\* Every step preserves the invariant.
LEMMA SessionLasts == Session /\ [Next]_vars => Session'
<1> SUFFICES ASSUME Session, [Next]_vars PROVE Session' OBVIOUS
<1>1. CASE UNCHANGED vars
  <2> USE DEF Session
  <2>1. Steady BY <1>1 DEF Steady, vars, runner
  <2>2. Clock' BY <1>1 DEF Clock, vars, runner
  <2>3. ThisMachine' BY <2>1, SameMachine DEF Steady
  <2>4. Call' BY <1>1, <2>1, CallStays DEF vars, runner
  <2>5. Exchange' BY <1>1, <2>1, ExchangeStays DEF vars
  <2>6. Sweeping' BY <1>1, <2>1, SweepStays DEF vars, work
  <2>7. Diagnosing' BY <1>1, <2>1, ChecksStay DEF vars, work
  <2>8. Logged' BY <1>1, <2>1, LogStays DEF vars
  <2> QED BY <2>2, <2>3, <2>4, <2>5, <2>6, <2>7, <2>8
<1>2. CASE StartInventory \/ StartDoctor BY <1>2, BeginKeepsSession
<1>3. CASE Consult \/ AskForCheck BY <1>3, ConsultKeepsSession
<1>4. CASE Isolate \/ Keep \/ CallLocally BY <1>4, SweepKeepsSession
<1>5. CASE CheckAnswer \/ CheckLocally BY <1>5, CheckKeepsSession
<1>6. CASE Read BY <1>6, ReadKeepsSession
<1>7. CASE EndStep BY <1>7, EndStepKeepsSession
<1>8. CASE RunnerStep BY <1>8, RunnerKeepsSession
<1> QED
  BY <1>1, <1>2, <1>3, <1>4, <1>5, <1>6, <1>7, <1>8
  DEF Next, Process, EndStep, RunnerStep

\* The inductive invariant holds in every reachable state.
LEMMA SessionHolds == Spec => []Session
BY SessionStarts, SessionLasts, PTL DEF Spec

-----------------------------------------------------------------------------
(* What follows *)

\* The types, and that a tool runs on behalf of an adapter and an adapter on
\* behalf of a command, for every host, every set of moods and every session.
THEOREM HostTypesHold == Spec => []TypeOK
<1>1. Session => TypeOK
  <2> SUFFICES ASSUME Session PROVE TypeOK OBVIOUS
  <2> USE DEF Session
  <2>1. /\ child.tool \in Tools \union {NoTool}
        /\ child.state \in {"none", "running", "exited", "killed"}
        /\ answer.error \in Errors \union {"pending", "none"}
        /\ child # NoChild => reading # "none"
    <3>1. CASE Idle BY <3>1 DEF Idle, NoChild, NoAnswer, Call
    <3>2. CASE ~ Idle
      <4>1. reading # "none" /\ Current \in Tools BY <3>2, CurrentIsATool DEF Call
      <4>2. CASE Waiting BY <4>1, <4>2 DEF Waiting, NoAnswer
      <4>3. CASE Heard
        BY <4>1, <4>3 DEF Heard, NoChild, Completed, Raised, Errors, PlatformErrors
      <4> QED BY <4>1, <4>2, <4>3 DEF Call
    <3> QED BY <3>1, <3>2
  <2>2. \A i \in DOMAIN results : /\ results[i].check \in ToSet(AllChecks)
                                  /\ results[i].status \in {"ok", "warn", "fail", "skip"}
    <3>1. \A i \in DOMAIN results : results[i] \in CheckResult BY DEF Diagnosing
    <3> QED BY <3>1 DEF CheckResult
  <2>3. reading \in Adapters \union {"none"} BY DEF Call
  <2> QED BY <2>1, <2>2, <2>3 DEF TypeOK, Clock, Exchange
<1> QED BY <1>1, SessionHolds, PTL

\* A child process outlives the command that started it only if it cannot be
\* killed and Ctrl-C ended the command: else subprocess.run waits for it, or kills
\* it and waits.  For any tools, moods, hosts and sessions.
THEOREM NoChildIsOrphaned == Spec => []NoOrphan
<1>1. Session => NoOrphan
  <2> SUFFICES ASSUME Session PROVE NoOrphan OBVIOUS
  <2>1. command = "none" => child = NoChild
    BY DEF Session, Exchange, Call, Idle
  <2>2. \A i \in DOMAIN log : EntryIsTrue(log[i]) BY DEF Session, Logged
  <2> QED BY <2>1, <2>2 DEF NoOrphan, EntryIsTrue
<1> QED BY <1>1, SessionHolds, PTL

\* A command that dies with exit code 1 has one of the four reasons: doctor and
\* inventory never crash because a tool is missing, refuses, fails or hangs.
THEOREM NeedlessCrashesAreImpossible == Spec => []NoNeedlessCrash
<1>1. Session => NoNeedlessCrash
  <2> SUFFICES ASSUME Session PROVE NoNeedlessCrash OBVIOUS
  <2>1. \A i \in DOMAIN log : EntryIsTrue(log[i]) BY DEF Session, Logged
  <2> QED BY <2>1 DEF NoNeedlessCrash, EntryIsTrue, Excused
<1> QED BY <1>1, SessionHolds, PTL

\* After a sweep the adapters of all domains have been asked.
LEMMA SweptIsAll == Session /\ Swept => Behind(8) /\ Noted(8)
<1> SUFFICES ASSUME Session, Swept PROVE Behind(8) /\ Noted(8) OBVIOUS
<1>1. PICK k \in 0 .. 8 : ahead = Rest(k) /\ Behind(k) /\ Noted(k)
  BY DEF Swept, Session, Sweeping
<1>2. k = 8 BY <1>1, RestShape DEF Swept
<1> QED BY <1>1, <1>2

\* Whatever the tools do: in a finished snapshot the domains that are absent,
\* tpm aside, are the caveats, in the order of the calls.
THEOREM CaveatsAreTheAbsences == Spec => []CaveatsExplain
<1>1. Session => CaveatsExplain
  <2> SUFFICES ASSUME Session, Swept
               PROVE  /\ ToSet(caveats) = {d \in ToSet(Domains) : d # "tpm" /\ ~ Present(d)}
                      /\ \A i, j \in DOMAIN caveats : i < j => CalledBefore(caveats[i], caveats[j])
    BY DEF CaveatsExplain
  <2>1. Behind(8) /\ Noted(8) BY SweptIsAll
  <2>2. ToSet(caveats) = {Domains[i] : i \in {j \in 1 .. 5 : snapshot[Domains[j]] = Absent}}
    BY <2>1 DEF Noted
  <2>3. snapshot["cpu"] # Absent /\ snapshot["memory"] # Absent
    <3>1. snapshot[Domains[6]] = {} /\ snapshot[Domains[7]] = {} BY <2>1 DEF Behind
    <3> QED BY <3>1, TheDomains DEF Absent
  <2>4. {d \in ToSet(Domains) : d # "tpm" /\ ~ Present(d)} = {d \in Adapters : snapshot[d] = Absent}
    BY <2>3, TheDomains, TheAdapters DEF Present
  <2>5. {Domains[i] : i \in {j \in 1 .. 5 : snapshot[Domains[j]] = Absent}}
          = {d \in Adapters : snapshot[d] = Absent}
    BY ByPlace
  <2> QED BY <2>1, <2>2, <2>4, <2>5 DEF Noted
<1> QED BY <1>1, SessionHolds, PTL

\* Whatever the tools do: a domain is lost only if one of its own tools is not in
\* order, never because of a tool of another domain.
THEOREM BadToolsStayIsolated == Spec => []OneBadTool
<1>1. Session => OneBadTool
  <2> SUFFICES ASSUME Session, Swept, NEW d \in Adapters, ~ Present(d)
               PROVE  \E t \in ToSet(Commands[d]) : mood[t] # "works"
    BY DEF OneBadTool
  <2>1. Behind(8) BY SweptIsAll
  <2>2. PICK i \in 1 .. 5 : d = Domains[i] BY ByPlace
  <2>3. Facts(d) # Absent BY FactsAreFacts DEF Session, ThisMachine
  <2>4. Faulted(d) BY <2>1, <2>2, <2>3 DEF Behind, Present
  <2>5. \A k \in 1 .. Len(Commands[d]) : Commands[d][k] \in ToSet(Commands[d])
    BY TheAdapters DEF ToSet
  <2> QED BY <2>4, <2>5 DEF Faulted
<1> QED BY <1>1, SessionHolds, PTL

\* The results of the session's diagnoses are the expected ones.
LEMMA DiagnosesAreExpected ==
  ASSUME Session, Predictable, NEW d \in Diagnoses, NEW r \in ToSet(d.results)
  PROVE  r.status = Expected(r.check)
<1>1. PICK i \in DOMAIN log : d = log[i] BY DEF Diagnoses
<1>2. EntryIsTrue(d) /\ d \in LogEntry BY <1>1 DEF Session, Logged
<1>3. d.results \in Seq(CheckResult) BY <1>2 DEF LogEntry
<1>4. PICK k \in 1 .. Len(d.results) : r = d.results[k] BY <1>3 DEF ToSet
<1> QED BY <1>2, <1>4 DEF EntryIsTrue, AsExpected

\* On a host whose tools always behave the same, doctor and inventory agree
\* about storage, network and Secure Boot, each with a fallback of its own,
\* whichever of their adapters fail.
THEOREM DoctorAndInventoryAgree == Spec => []DoctorAgrees
<1>1. Session => DoctorAgrees
  <2> SUFFICES ASSUME Session, Predictable, NEW i \in Inventories, NEW d \in Diagnoses,
                      NEW r \in ToSet(d.results)
               PROVE  /\ r.check = "storage" => (r.status = "ok" <=> i.report.storage # {})
                      /\ r.check = "network" => (r.status = "ok" <=> i.report.network # {})
                      /\ r.check = "secure-boot" => (r.status = "ok" <=> i.report.secureBoot = "enabled")
    BY DEF DoctorAgrees
  <2>1. r.status = Expected(r.check) BY DiagnosesAreExpected
  <2>2. i.report = ExpectedReport
    <3>1. PICK k \in DOMAIN log : i = log[k] /\ log[k].command = "inventory" /\ log[k].exit = 0
      BY DEF Inventories
    <3>2. EntryIsTrue(log[k]) BY <3>1 DEF Session, Logged
    <3> QED BY <3>1, <3>2 DEF EntryIsTrue
  <2>3. host \in Hosts /\ (host.uefi \/ ~ Sound("secure_boot"))
    BY TheAdapters DEF Session, ThisMachine, Sound
  <2>4. /\ host.devices \in SUBSET DiskKinds /\ host.nics \in SUBSET NicStates
        /\ host.secureBoot \in BootStates /\ host.uefi \in BOOLEAN
    BY <2>3, TheHost
  <2>5. CASE r.check = "storage"
    <3>1. r.status = StorageStatus(Told("storage"))
      BY <2>1, <2>5 DEF Expected, Asking, AskingChecks, AdapterOf, AskedStatus
    <3>2. /\ Sound("storage") => Told("storage").error = "none"
                                 /\ Told("storage").facts = host.devices
          /\ ~ Sound("storage") => Told("storage").error = "AdapterError"
      BY DEF Told, Facts
    <3>3. i.report.storage = IF Sound("storage") THEN TranslatedDisks(host.devices)
                             ELSE CollectedDisks
      BY <2>2 DEF ExpectedReport
    <3> QED BY <2>5, <3>1, <3>2, <3>3 DEF StorageStatus, CountedDisks, TranslatedDisks
  <2>6. CASE r.check = "network"
    <3>1. r.status = NetworkStatus(Told("network"))
      BY <2>1, <2>6 DEF Expected, Asking, AskingChecks, AdapterOf, AskedStatus
    <3>2. /\ Sound("network") => Told("network").error = "none"
                                 /\ Told("network").facts = host.nics
          /\ ~ Sound("network") => Told("network").error = "AdapterError"
      BY DEF Told, Facts
    <3>3. i.report.network = IF Sound("network") THEN Up(host.nics) ELSE CollectedUp
      BY <2>2 DEF ExpectedReport
    <3> QED BY <2>6, <3>1, <3>2, <3>3 DEF NetworkStatus, Up, CollectedUp
  <2>7. CASE r.check = "secure-boot"
    <3>1. i.report.secureBoot = IF Sound("secure_boot") THEN host.secureBoot
                                ELSE CollectedSecureBoot
      BY <2>2 DEF ExpectedReport
    <3>2. CASE host.uefi
      <4>1. r.status = SecureBootStatus(Told("secure_boot"))
        BY <2>1, <2>7, <3>2 DEF Expected, Asking, AskingChecks, AdapterOf, AskedStatus
      <4>2. /\ Sound("secure_boot") => Told("secure_boot").error = "none"
                                       /\ Told("secure_boot").facts = {host.secureBoot}
            /\ ~ Sound("secure_boot") => Told("secure_boot").error = "AdapterError"
        BY DEF Told, Facts
      <4> QED BY <2>7, <3>1, <3>2, <4>1, <4>2 DEF SecureBootStatus, CollectedSecureBoot
    <3>3. CASE ~ host.uefi
      <4>1. r.status = "skip"
        BY <2>1, <2>7, <3>3 DEF Expected, Asking, LocalStatus
      <4> QED BY <2>3, <2>7, <3>1, <3>3, <4>1 DEF CollectedSecureBoot
    <3> QED BY <2>4, <3>2, <3>3
  <2> QED BY <2>5, <2>6, <2>7
<1> QED BY <1>1, SessionHolds, PTL

\* Every doctor run has a result for each check it was asked for, or none; none
\* only through a name it does not know or one of these checks; and on a host whose
\* tools always behave the same, what a check says depends neither on the other
\* checks selected, nor on --strict, nor on what ran before.
THEOREM ChecksAreIndependent == Spec => []ChecksIndependent
<1>1. Session => ChecksIndependent
  <2> SUFFICES ASSUME Session PROVE ChecksIndependent OBVIOUS
  <2>1. \A i \in DOMAIN log : EntryIsTrue(log[i]) BY DEF Session, Logged
  <2>2. \A i \in DOMAIN log : log[i].command = "doctor" => Accounted(log[i])
    BY <2>1 DEF EntryIsTrue
  <2>3. ASSUME Predictable, NEW c \in Diagnoses, NEW d \in Diagnoses,
               NEW r \in ToSet(c.results), NEW s \in ToSet(d.results), r.check = s.check
        PROVE  r.status = s.status
    <3>1. r.status = Expected(r.check) BY <2>3, DiagnosesAreExpected
    <3>2. s.status = Expected(s.check) BY <2>3, DiagnosesAreExpected
    <3> QED BY <2>3, <3>1, <3>2
  <2> QED BY <2>2, <2>3 DEF ChecksIndependent
<1> QED BY <1>1, SessionHolds, PTL
=============================================================================
