----------------------------- MODULE BuildPromise -----------------------------
(***************************************************************************)
(* What BuildPipeline.run promises its caller, with the workspace and the  *)
(* stages' inner steps left out: every stage of the agenda is reported     *)
(* once, in order, whatever the others did, and then a verdict is given.   *)
(***************************************************************************)
EXTENDS Integers, Sequences

CONSTANTS Builds

VARIABLES
  agenda,    \* the selected stages of each build, in registration order
  phase,     \* "idle", "running", "done" or "interrupted"
  reported,  \* the results of the current run
  verdict    \* success of the last summary

vars == <<agenda, phase, reported, verdict>>

Init ==
  /\ phase = [b \in Builds |-> "idle"]
  /\ reported = [b \in Builds |-> <<>>]
  /\ verdict = [b \in Builds |-> "none"]

Begin(b) ==
  /\ phase[b] \in {"idle", "done"}
  /\ phase' = [phase EXCEPT ![b] = "running"]
  /\ reported' = [reported EXCEPT ![b] = <<>>]
  /\ UNCHANGED <<agenda, verdict>>

Report(b) ==
  /\ phase[b] = "running"
  /\ Len(reported[b]) < Len(agenda[b])
  /\ \E code \in {0, 1, 10, 30, 70, 99} :
       reported' = [reported EXCEPT ![b] =
         Append(@, [stage |-> agenda[b][Len(@) + 1], code |-> code])]
  /\ UNCHANGED <<agenda, phase, verdict>>

Conclude(b) ==
  /\ phase[b] = "running"
  /\ Len(reported[b]) = Len(agenda[b])
  /\ phase' = [phase EXCEPT ![b] = "done"]
  /\ verdict' = [verdict EXCEPT ![b] =
       IF \A i \in 1 .. Len(reported[b]) : reported[b][i].code = 0
       THEN "success" ELSE "failure"]
  /\ UNCHANGED <<agenda, reported>>

Abandon(b) ==
  /\ phase[b] = "running"
  /\ phase' = [phase EXCEPT ![b] = "interrupted"]
  /\ UNCHANGED <<agenda, reported, verdict>>

Next == \E b \in Builds : Begin(b) \/ Report(b) \/ Conclude(b) \/ Abandon(b)

Spec == Init /\ [][Next]_vars
=============================================================================
