----------------------------- MODULE HostAdapters -----------------------------
(***************************************************************************)
(* The five platform adapters (src/cli/src/bcs/platform/adapters): each    *)
(* runs its tools one after the other through the shared runner and turns  *)
(* what they answer into a model of its own or into a PlatformError.       *)
(*                                                                         *)
(* What a parser makes of a text is abstracted to "good", "garbled" (it    *)
(* raises ValueError), "odd" (it raises something else) and "nothing" (it  *)
(* recognises nothing); a model is the set of facts later code looks at.   *)
(***************************************************************************)
EXTENDS CommandExecution, Sequences

CONSTANTS Hosts  \* what the tools and the collectors find on a machine

\* uefi; the SecureBoot line of mokutil; block devices by kind; interfaces
\* other than lo by state ("tun": UP and LOWER_UP, but operstate "unknown").
ASSUME HostsAreTyped ==
  Hosts \subseteq [uefi : BOOLEAN, secureBoot : {"enabled", "disabled", "unknown"},
                   devices : SUBSET {"nvme", "sata", "loop"},
                   nics : SUBSET {"up", "down", "tun"}]

VARIABLES
  host,     \* the machine bcs runs on
  reading,  \* the domain whose adapter is being called, "none"
  outputs,  \* the stdouts its tools have left so far
  reply     \* what the adapter returned or raised, until its caller looks

Commands ==
  [efi         |-> <<"efibootmgr">>,
   storage     |-> <<"lsblk", "blkid", "findmnt">>,
   secure_boot |-> <<"mokutil">>,
   filesystem  |-> <<"df">>,
   network     |-> <<"ip">>]

Adapters == DOMAIN Commands

\* The facts of the model an adapter returns for this machine.
Facts(d) ==
  CASE d = "storage"     -> host.devices
    [] d = "secure_boot" -> {host.secureBoot}
    [] d = "network"     -> host.nics
    [] OTHER             -> {}

NoReply == [error |-> "pending", facts |-> {}]

InitAdapters ==
  /\ InitRunner
  /\ host \in Hosts
  /\ host.uefi \/ \A t \in {"efibootmgr", "mokutil"} : mood[t] \in {"refused", "missing"}
  /\ reading = "none"
  /\ outputs = <<>>
  /\ reply = NoReply

CallAdapter(d) ==
  /\ reading = "none"
  /\ reading' = d
  /\ outputs' = <<>>
  /\ reply' = NoReply
  /\ Spawn(Commands[d][1])
  /\ UNCHANGED host

Respond(error) ==
  /\ reply' = [error |-> error, facts |-> IF error = "none" THEN Facts(reading) ELSE {}]
  /\ reading' = "none"
  /\ outputs' = <<>>
  /\ Taken
  /\ UNCHANGED host

Answered == reading # "none" /\ answer.error # "pending"

\* Mutant: a missing tool counts as a tool without output.
MutantPropagateNotFound ==
  /\ Answered
  /\ answer.error # "none"
  /\ Respond(IF answer.error = "CommandNotFoundError" THEN "OSError" ELSE answer.error)

\* The runner's exceptions pass through every adapter; the tools after the
\* one that raised are not run.
Propagate ==
  /\ Answered
  /\ answer.error # "none"
  /\ Respond(answer.error)

\* A non-zero exit ends every adapter but the filesystem's, which looks at
\* the output first.
Refuse ==
  /\ Answered
  /\ answer.error = "none" /\ answer.out.code # 0
  /\ reading # "filesystem"
  /\ Respond(IF answer.out.refused THEN "UnavailableError" ELSE "AdapterError")

Position == Len(outputs) + 1

NextTool ==
  /\ Answered
  /\ answer.error = "none" /\ answer.out.code = 0
  /\ Position < Len(Commands[reading])
  /\ outputs' = Append(outputs, answer.out.stdout)
  /\ Spawn(Commands[reading][Position + 1])
  /\ UNCHANGED <<host, reading, reply>>

\* What parsing these texts in order comes to: the first that a parser trips
\* over decides.  A ValueError is wrapped, an AttributeError is not; mokutil
\* output without any recognised line is a ParseError of the adapter.
Parsed(d, texts) ==
  LET bad == {i \in 1 .. Len(texts) : texts[i] \in {"garbled", "odd"}} IN
  IF \E i \in bad : texts[i] = "odd" /\ \A j \in bad : i <= j
  THEN "AttributeError"
  ELSE IF bad # {} \/ (d = "secure_boot" /\ texts = <<"nothing">>)
  THEN "ParseError"
  ELSE "none"

Parse ==
  /\ Answered
  /\ answer.error = "none" /\ answer.out.code = 0
  /\ reading # "filesystem"
  /\ Position = Len(Commands[reading])
  /\ Respond(Parsed(reading, Append(outputs, answer.out.stdout)))

\* df may have printed rows and failed: the rows are what counts.
ReadUsage ==
  /\ Answered
  /\ answer.error = "none"
  /\ reading = "filesystem"
  /\ Respond(IF answer.out.stdout = "good" THEN "none"
             ELSE IF answer.out.stdout = "garbled" \/ answer.out.code = 0 THEN "ParseError"
             ELSE IF answer.out.refused THEN "UnavailableError"
             ELSE "AdapterError")

Adapt == Propagate \/ Refuse \/ NextTool \/ Parse \/ ReadUsage
=============================================================================
