-------------------------- MODULE BuildPromiseProofs --------------------------
(* BuildPipeline implements BuildPromise, for every pipeline and every plan.  *)
EXTENDS BuildPipelineProofs, FiniteSetTheorems, SequenceTheorems

Done(b)   == Cardinality({j \in Chosen(b) : j <= at[b]})
Before(b) == Cardinality({j \in Chosen(b) : j < at[b]})

\* How many results a run has reported says how far it has come.
ProgressOf(b) ==
  /\ pc[b] = "loop" => Len(results[b]) - base[b] = Done(b)
  /\ InStage(b) => at[b] \in Chosen(b) /\ Len(results[b]) - base[b] = Before(b)
  /\ pc[b] = "idle" => results[b] = <<>> /\ base[b] = 0

Progress == \A b \in Builds : ProgressOf(b)

-----------------------------------------------------------------------------
(* The agenda *)

LEMMA ChosenIsFinite ==
  ASSUME TypeInv, NEW b \in Builds, NEW T \in SUBSET Chosen(b)
  PROVE  IsFiniteSet(T) /\ Cardinality(T) \in Nat
<1>1. Len(Registered) \in Nat /\ Chosen(b) \subseteq 1 .. Len(Registered)
  BY RegisteredIsNonEmpty DEF Chosen
<1>2. IsFiniteSet(1 .. Len(Registered))
  BY <1>1, FS_Interval
<1>3. IsFiniteSet(T)
  BY <1>1, <1>2, FS_Subset
<1>. QED
  BY <1>3, FS_CardinalityType

\* Two selected stages do not share a turn.
LEMMA TurnsDiffer ==
  ASSUME TypeInv, NEW b \in Builds, NEW i \in Chosen(b), NEW k \in Chosen(b),
         Turn(b, i) = Turn(b, k)
  PROVE  i = k
<1>1. i \in Int /\ k \in Int
  BY RegisteredIsNonEmpty DEF Chosen
<1>2. ASSUME NEW m \in Chosen(b), NEW n \in Chosen(b), m < n, Turn(b, m) = Turn(b, n)
      PROVE  FALSE
  <2>. DEFINE M == {j \in Chosen(b) : j <= m}
              N == {j \in Chosen(b) : j <= n}
  <2>0. Chosen(b) \subseteq Int
    BY RegisteredIsNonEmpty DEF Chosen
  <2>1. M \in SUBSET N /\ n \in N /\ n \notin M
    BY <1>2, <2>0
  <2>2. N \in SUBSET Chosen(b) /\ Cardinality(M) = Cardinality(N)
    BY <1>2 DEF Turn
  <2>. HIDE DEF M, N
  <2>3. IsFiniteSet(N)
    BY <2>2, ChosenIsFinite
  <2>4. M = N
    BY <2>1, <2>2, <2>3, FS_Subset
  <2>. QED
    BY <2>1, <2>4
<1>. QED
  BY <1>1, <1>2

\* What the agenda says of a selected stage.
LEMMA OnTheAgenda ==
  ASSUME TypeInv, NEW b \in Builds, NEW i \in Chosen(b)
  PROVE  /\ Turn(b, i) \in 1 .. Len(Agenda[b])
         /\ Turn(b, i) = Cardinality({j \in Chosen(b) : j < i}) + 1
         /\ Agenda[b][Turn(b, i)] = Registered[i]
<1>. DEFINE M == {j \in Chosen(b) : j < i}
            N == {j \in Chosen(b) : j <= i}
            C == Chosen(b)
<1>0. C \subseteq Int
  BY RegisteredIsNonEmpty DEF Chosen
<1>1. N = M \union {i} /\ i \notin M /\ N \in SUBSET C /\ M \in SUBSET C
  BY <1>0
<1>2. Turn(b, i) = Cardinality(N)
  BY DEF Turn
<1>. HIDE DEF M, N, C
<1>3. IsFiniteSet(M) /\ Cardinality(M) \in Nat /\ IsFiniteSet(C) /\ Cardinality(C) \in Nat
  BY <1>1, ChosenIsFinite DEF C
<1>4. Cardinality(N) = Cardinality(M) + 1
  BY <1>1, <1>3, FS_AddElement
<1>5. Cardinality(N) <= Cardinality(C)
  BY <1>1, <1>3, FS_Subset
<1>6. Turn(b, i) \in 1 .. Cardinality(Chosen(b))
  BY <1>2, <1>3, <1>4, <1>5 DEF C
<1>7. Agenda[b] = [k \in 1 .. Cardinality(Chosen(b)) |->
                     Registered[CHOOSE h \in Chosen(b) : Turn(b, h) = k]]
  BY DEF Agenda
<1>8. Len(Agenda[b]) = Cardinality(Chosen(b))
  BY <1>3, <1>7 DEF C
<1>9. (CHOOSE h \in Chosen(b) : Turn(b, h) = Turn(b, i)) = i
  BY TurnsDiffer
<1>10. Agenda[b][Turn(b, i)] = Registered[i]
  BY <1>6, <1>7, <1>9
<1>. QED
  BY <1>2, <1>4, <1>6, <1>8, <1>10 DEF M

LEMMA AgendaLength ==
  ASSUME TypeInv, NEW b \in Builds
  PROVE  Len(Agenda[b]) = Cardinality(Chosen(b))
<1>1. Cardinality(Chosen(b)) \in Nat
  BY ChosenIsFinite
<1>2. Agenda[b] = [k \in 1 .. Cardinality(Chosen(b)) |->
                     Registered[CHOOSE h \in Chosen(b) : Turn(b, h) = k]]
  BY DEF Agenda
<1>. QED
  BY <1>1, <1>2

-----------------------------------------------------------------------------
(* The progress of a run *)

\* The part of TypeOK about the loop.
LoopShape ==
  /\ pc \in [Builds -> Where] /\ at \in [Builds -> 0 .. Len(Registered)]
  /\ base \in [Builds -> Nat] /\ results \in [Builds -> Seq(Result)]
  /\ ok \in [Builds -> BOOLEAN] /\ summary \in [Builds -> {"none", "success", "failure"}]

LEMMA LoopFacts == TypeInv => LoopShape
  BY DEF TypeInv, TypeOK, LoopShape

\* A build that does not move keeps what its results say.
LEMMA ProgressFrame ==
  ASSUME NEW c \in Builds, ProgressOf(c), plan' = plan, pc'[c] = pc[c], at'[c] = at[c],
         results'[c] = results[c], base'[c] = base[c]
  PROVE  ProgressOf(c)'
  BY DEF ProgressOf, InStage, Done, Before, Chosen

LEMMA OthersLoop ==
  ASSUME TypeInv, NEW b \in Builds, Start(b) \/ Work(b) \/ Interrupt(b), NEW c \in Builds, c # b
  PROVE  /\ plan' = plan /\ pc'[c] = pc[c] /\ at'[c] = at[c]
         /\ results'[c] = results[c] /\ base'[c] = base[c] /\ summary'[c] = summary[c]
<1>. USE DEF LoopShape
<1>0. LoopShape
  BY LoopFacts
<1>1. CASE Start(b)
  BY <1>0, <1>1 DEF Start, context
<1>2. CASE Interrupt(b)
  BY <1>0, <1>2 DEF Interrupt, context, loop
<1>3. CASE Work(b)
  <2>1. CASE Dispatch(b) \/ Return(b)
    BY <1>0, <2>1 DEF Dispatch, Return, context
  <2>2. CASE \E code \in Codes : Finish(b, code)
    BY <1>0, <2>2 DEF Finish
  <2>3. CASE \E p \in HoldsWorkspace \union {"mkdir"} : Goto(b, p)
    BY <1>0, <2>3 DEF Goto, loop
  <2>. QED
    BY <1>3, <2>1, <2>2, <2>3, WorkShape
<1>. QED
  BY <1>1, <1>2, <1>3

LEMMA ProgressDispatch ==
  ASSUME TypeInv, NEW b \in Builds, ProgressOf(b), Dispatch(b)
  PROVE  ProgressOf(b)'
<1>. USE DEF LoopShape
<1>0. LoopShape
  BY LoopFacts
<1>1. PICK i \in Ahead(b) :
        /\ \A j \in Ahead(b) : i <= j
        /\ at' = [at EXCEPT ![b] = i]
        /\ pc' = [pc EXCEPT ![b] = Registered[i]]
  BY DEF Dispatch
<1>2. /\ plan' = plan /\ results' = results /\ base' = base /\ pc[b] = "loop"
      /\ at'[b] = i /\ pc'[b] = Registered[i]
  BY <1>0, <1>1 DEF Dispatch, context
<1>3. i \in Chosen(b) /\ Chosen(b)' = Chosen(b) /\ Chosen(b) \subseteq Int /\ at[b] < i
      /\ at[b] \in Int
  BY <1>0, <1>2, RegisteredIsNonEmpty DEF Ahead, Chosen
<1>4. \A j \in Chosen(b) : j < i <=> j <= at[b]
  BY <1>1, <1>3 DEF Ahead
<1>5. {j \in Chosen(b) : j < i} = {j \in Chosen(b) : j <= at[b]}
  BY <1>4
<1>6. Before(b)' = Done(b)
  BY <1>2, <1>3, <1>5 DEF Before, Done
<1>7. Registered[i] \in StageNames
  BY RegisteredIsNonEmpty DEF Ahead, Chosen
<1>8. InStage(b)' /\ pc'[b] # "idle" /\ pc'[b] # "loop"
  BY <1>2, <1>7 DEF InStage, Resting, StageNames
<1>. QED
  BY <1>2, <1>3, <1>6, <1>8 DEF ProgressOf

LEMMA ProgressFinish ==
  ASSUME TypeInv, NEW b \in Builds, ProgressOf(b), InStage(b), NEW code, Finish(b, code)
  PROVE  ProgressOf(b)'
<1>. USE DEF LoopShape
<1>0. LoopShape
  BY LoopFacts
<1>1. plan' = plan /\ base' = base /\ at' = at /\ pc'[b] = "loop"
  BY <1>0 DEF Finish
<1>2. Len(results'[b]) = Len(results[b]) + 1
  BY <1>0 DEF Finish
<1>3. at[b] \in Chosen(b) /\ Len(results[b]) - base[b] = Before(b)
  BY DEF ProgressOf
<1>4. Done(b) = Before(b) + 1
  BY <1>3, OnTheAgenda DEF Turn, Done, Before
<1>5. Done(b)' = Done(b)
  BY <1>1 DEF Done, Chosen
<1>6. base[b] \in Nat /\ Len(results[b]) \in Nat
  BY <1>0
<1>7. Len(results'[b]) - base'[b] = Done(b)'
  BY <1>1, <1>2, <1>3, <1>4, <1>5, <1>6
<1>. QED
  BY <1>1, <1>7 DEF ProgressOf, InStage

LEMMA ProgressStart ==
  ASSUME TypeInv, NEW b \in Builds, Start(b)
  PROVE  ProgressOf(b)'
<1>. USE DEF LoopShape
<1>0. LoopShape
  BY LoopFacts
<1>1. /\ plan' = plan /\ results' = results /\ base'[b] = Len(results[b]) /\ at'[b] = 0
      /\ pc'[b] = "loop"
  BY <1>0 DEF Start, context
<1>2. {j \in Chosen(b)' : j <= 0} = {}
  BY RegisteredIsNonEmpty DEF Chosen
<1>3. Done(b)' = 0
  BY <1>1, <1>2, FS_EmptySet DEF Done
<1>4. Len(results[b]) - Len(results[b]) = 0
  BY <1>0
<1>. QED
  BY <1>1, <1>3, <1>4 DEF ProgressOf, InStage

LEMMA ProgressNext == TypeInv /\ Progress /\ [Next]_vars => Progress'
<1>. SUFFICES ASSUME TypeInv, Progress, [Next]_vars, NEW b \in Builds PROVE ProgressOf(b)'
  BY DEF Progress
<1>0. ProgressOf(b) /\ pc \in [Builds -> Where]
  BY LoopFacts DEF LoopShape, Progress
<1>1. CASE Tick \/ UNCHANGED vars
  BY <1>0, <1>1, ProgressFrame DEF Tick, vars, context, loop
<1>2. CASE \E c \in Builds \ {b} : Start(c) \/ Work(c) \/ Interrupt(c)
  BY <1>0, <1>2, OthersLoop, ProgressFrame
<1>3. CASE Start(b)
  BY <1>3, ProgressStart
<1>4. CASE Interrupt(b) \/ Return(b)
  <2>1. pc'[b] \in {"interrupted", "done"}
    BY <1>0, <1>4 DEF Interrupt, Return
  <2>. QED
    BY <2>1 DEF ProgressOf, InStage, Resting
<1>5. CASE Dispatch(b)
  BY <1>0, <1>5, ProgressDispatch
<1>6. CASE InStage(b) /\ \E code \in Codes : Finish(b, code)
  BY <1>0, <1>6, ProgressFinish
<1>7. CASE InStage(b) /\ \E p \in HoldsWorkspace \union {"mkdir"} : Goto(b, p)
  <2>1. InStage(b) /\ pc'[b] \notin {"loop", "idle"} /\ plan' = plan /\ results' = results
          /\ base' = base /\ at' = at
    BY <1>0, <1>7 DEF Goto, loop, HoldsWorkspace
  <2>. QED
    BY <1>0, <2>1 DEF ProgressOf, Before, Chosen
<1>. QED
  BY <1>1, <1>2, <1>3, <1>4, <1>5, <1>6, <1>7, WorkShape DEF Next

LEMMA ProgressInit == Init => Progress
  BY DEF Init, Progress, ProgressOf, InStage, Resting

-----------------------------------------------------------------------------
(* Every step is a step of the promise, or none *)

LEMMA OneBuildMoves ==
  ASSUME TypeInv, NEW b \in Builds, Start(b) \/ Work(b) \/ Interrupt(b)
  PROVE  /\ Agenda' = Agenda
         /\ \A c \in Builds \ {b} : Phase'[c] = Phase[c] /\ Reported'[c] = Reported[c]
                                       /\ summary'[c] = summary[c]
<1>1. plan' = plan
  BY WorkShape DEF Start, Interrupt, Dispatch, Return, Finish, Goto, context
<1>2. Agenda' = Agenda
  BY <1>1 DEF Agenda, Chosen, Turn
<1>. QED
  BY <1>2, OthersLoop DEF Phase, Reported

LEMMA TailFacts ==
  ASSUME NEW S, NEW s \in Seq(S), NEW m \in Nat, m <= Len(s)
  PROVE  /\ SubSeq(s, m + 1, Len(s)) \in Seq(S)
         /\ Len(SubSeq(s, m + 1, Len(s))) = Len(s) - m
         /\ \A i \in 1 .. (Len(s) - m) : SubSeq(s, m + 1, Len(s))[i] = s[m + i]
<1>1. Len(s) \in Nat /\ DOMAIN s = 1 .. Len(s)
  OBVIOUS
<1>2. \A i \in (m + 1) .. Len(s) : s[i] \in S
  BY <1>1
<1>. DEFINE n == Len(s)
            z == SubSeq(s, m + 1, n)
<1>3. m + 1 \in Int /\ n \in Int
  BY <1>1
<1>4. /\ z \in Seq(S)
      /\ Len(z) = IF m + 1 <= n THEN n - (m + 1) + 1 ELSE 0
      /\ \A i \in 1 .. n - (m + 1) + 1 : z[i] = s[m + 1 + i - 1]
  BY <1>2, <1>3, SubSeqProperties
<1>. HIDE DEF z
<1>5. n - (m + 1) + 1 = n - m /\ \A i \in Int : m + 1 + i - 1 = m + i
  BY <1>1
<1>6. Len(z) = n - m
  <2>1. CASE m + 1 <= n
    BY <1>4, <1>5, <2>1
  <2>2. CASE ~(m + 1 <= n)
    <3>1. n = m
      BY <1>3, <2>2
    <3>2. n - m = 0
      BY <1>3, <3>1
    <3>. QED
      BY <1>4, <2>2, <3>2
  <2>. QED
    BY <2>1, <2>2
<1>7. ASSUME NEW i \in 1 .. (n - m) PROVE z[i] = s[m + i]
  <2>1. m + 1 + i - 1 = m + i /\ i \in 1 .. n - (m + 1) + 1
    BY <1>5
  <2>2. z[i] = s[m + 1 + i - 1]
    BY <1>4, <2>1
  <2>. QED
    BY <2>1, <2>2
<1>. QED
  BY <1>4, <1>6, <1>7 DEF z

LEMMA AppendToTail ==
  ASSUME NEW S, NEW s \in Seq(S), NEW m \in Nat, m <= Len(s), NEW e \in S
  PROVE  SubSeq(Append(s, e), m + 1, Len(Append(s, e))) = Append(SubSeq(s, m + 1, Len(s)), e)
<1>. DEFINE n == Len(s) - m
            z == SubSeq(s, m + 1, Len(s))
            x == SubSeq(Append(s, e), m + 1, Len(Append(s, e)))
            y == Append(z, e)
<1>1. Append(s, e) \in Seq(S) /\ Len(Append(s, e)) = Len(s) + 1 /\ Len(s) \in Nat
  OBVIOUS
<1>2. n \in Nat /\ Len(s) + 1 - m = n + 1 /\ m <= Len(s) + 1 /\ m + (n + 1) = Len(s) + 1
  BY <1>1
<1>3. x \in Seq(S) /\ Len(x) = n + 1 /\ \A i \in 1 .. (n + 1) : x[i] = Append(s, e)[m + i]
  <2>1. m <= Len(Append(s, e)) /\ Len(Append(s, e)) - m = n + 1
    BY <1>1, <1>2
  <2>. QED
    BY <1>1, <2>1, TailFacts
<1>4. z \in Seq(S) /\ Len(z) = n /\ \A i \in 1 .. n : z[i] = s[m + i]
  BY TailFacts
<1>5. \A i \in 1 .. n : Append(s, e)[m + i] = s[m + i]
  BY <1>1
<1>6. Append(s, e)[m + (n + 1)] = e
  BY <1>1, <1>2
<1>. HIDE DEF n, x, z
<1>7. y \in Seq(S) /\ Len(y) = n + 1 /\ y[n + 1] = e /\ \A i \in 1 .. n : y[i] = z[i]
  BY <1>2, <1>4
<1>8. ASSUME NEW i \in 1 .. n PROVE x[i] = y[i]
  <2>1. i \in 1 .. (n + 1)
    BY <1>2
  <2>2. x[i] = Append(s, e)[m + i]
    BY <1>3, <2>1
  <2>. QED
    BY <1>4, <1>5, <1>7, <2>2
<1>9. x[n + 1] = y[n + 1]
  BY <1>2, <1>3, <1>6, <1>7
<1>. HIDE DEF y
<1>10. x = y
  BY <1>2, <1>3, <1>7, <1>8, <1>9
<1>. QED
  BY <1>10 DEF x, y, z

LEMMA ReportedFacts ==
  ASSUME TypeInv, NEW b \in Builds, TallyOf(b)
  PROVE  /\ Reported[b] \in Seq(Result)
         /\ Len(Reported[b]) = Len(results[b]) - base[b]
         /\ \A i \in 1 .. Len(Reported[b]) : Reported[b][i] = results[b][base[b] + i]
<1>1. results[b] \in Seq(Result) /\ base[b] \in Nat /\ base[b] <= Len(results[b])
  BY LoopFacts DEF LoopShape, TallyOf
<1>2. Reported[b] = SubSeq(results[b], base[b] + 1, Len(results[b]))
  BY DEF Reported
<1>3. /\ Reported[b] \in Seq(Result) /\ Len(Reported[b]) = Len(results[b]) - base[b]
      /\ \A i \in 1 .. (Len(results[b]) - base[b]) : Reported[b][i] = results[b][base[b] + i]
  <2>. DEFINE s == results[b]
              m == base[b]
  <2>1. s \in Seq(Result) /\ m \in Nat /\ m <= Len(s)
    BY <1>1
  <2>. HIDE DEF s, m
  <2>2. /\ SubSeq(s, m + 1, Len(s)) \in Seq(Result)
        /\ Len(SubSeq(s, m + 1, Len(s))) = Len(s) - m
        /\ \A i \in 1 .. (Len(s) - m) : SubSeq(s, m + 1, Len(s))[i] = s[m + i]
    BY <2>1, TailFacts
  <2>. QED
    BY <1>2, <2>2 DEF s, m
<1>. QED
  BY <1>3

\* A function of the builds that changes at b only.
LEMMA ChangeAt ==
  ASSUME NEW b \in Builds, NEW f, NEW g, NEW v,
         f = [c \in Builds |-> f[c]], g = [c \in Builds |-> g[c]],
         g[b] = v, \A c \in Builds \ {b} : g[c] = f[c]
  PROVE  g = [f EXCEPT ![b] = v]
<1>. DEFINE h == [c \in Builds |-> IF c = b THEN v ELSE f[c]]
<1>1. [f EXCEPT ![b] = v] = h
  <2>1. DOMAIN f = Builds
    OBVIOUS
  <2>. QED
    BY <2>1
<1>2. \A c \in Builds : g[c] = IF c = b THEN v ELSE f[c]
  OBVIOUS
<1>3. [c \in Builds |-> g[c]] = h
  BY <1>2
<1>. QED
  BY <1>1, <1>3

LEMMA Mapping ==
  /\ Phase = [b \in Builds |-> Phase[b]]
  /\ Reported = [b \in Builds |-> Reported[b]]
  BY DEF Phase, Reported

LEMMA StartIsBegin ==
  ASSUME TypeInv, NEW b \in Builds, Start(b)
  PROVE  Promise!Begin(b)
<1>1. LoopShape
  BY LoopFacts
<1>2. /\ pc'[b] = "loop" /\ base'[b] = Len(results[b]) /\ results' = results
      /\ summary' = summary /\ pc[b] \in {"idle", "done"}
  BY <1>1 DEF Start, context, LoopShape
<1>3. Agenda' = Agenda /\ \A c \in Builds \ {b} : Phase'[c] = Phase[c] /\ Reported'[c] = Reported[c]
  BY OneBuildMoves
<1>4. Phase[b] \in {"idle", "done"} /\ Phase'[b] = "running"
  BY <1>2 DEF Phase, Resting
<1>5. Reported'[b] = <<>>
  <2>1. Reported'[b] = SubSeq(results[b], Len(results[b]) + 1, Len(results[b]))
    BY <1>2 DEF Reported
  <2>2. results[b] \in Seq(Result)
    BY <1>1 DEF LoopShape
  <2>. QED
    BY <2>1, <2>2
<1>6. Phase' = [Phase EXCEPT ![b] = "running"]
  BY <1>3, <1>4, Mapping, ChangeAt DEF Phase
<1>7. Reported' = [Reported EXCEPT ![b] = <<>>]
  BY <1>3, <1>5, Mapping, ChangeAt DEF Reported
<1>. QED
  BY <1>2, <1>3, <1>4, <1>6, <1>7 DEF Promise!Begin

LEMMA InterruptIsAbandon ==
  ASSUME TypeInv, NEW b \in Builds, Interrupt(b)
  PROVE  Promise!Abandon(b)
<1>1. LoopShape
  BY LoopFacts
<1>2. /\ pc'[b] = "interrupted" /\ base' = base /\ results' = results
      /\ summary' = summary /\ pc[b] \notin Resting
  BY <1>1 DEF Interrupt, context, loop, LoopShape
<1>3. Agenda' = Agenda /\ \A c \in Builds \ {b} : Phase'[c] = Phase[c]
  BY OneBuildMoves
<1>4. Phase[b] = "running" /\ Phase'[b] = "interrupted"
  BY <1>2 DEF Phase, Resting
<1>5. Phase' = [Phase EXCEPT ![b] = "interrupted"]
  BY <1>3, <1>4, Mapping, ChangeAt DEF Phase
<1>6. Reported' = Reported
  BY <1>2 DEF Reported
<1>. QED
  BY <1>2, <1>3, <1>4, <1>5, <1>6 DEF Promise!Abandon

LEMMA FinishIsReport ==
  ASSUME TypeInv, Tally, Progress, NEW b \in Builds, InStage(b), Work(b), NEW code \in Codes,
         Finish(b, code)
  PROVE  Promise!Report(b)
<1>. DEFINE new == [stage |-> Registered[at[b]], code |-> code]
<1>1. LoopShape
  BY LoopFacts
<1>2. /\ pc'[b] = "loop" /\ base' = base /\ results'[b] = Append(results[b], new)
      /\ summary' = summary /\ pc[b] \notin Resting
  BY <1>1 DEF Finish, LoopShape, InStage
<1>3. Agenda' = Agenda /\ \A c \in Builds \ {b} : Phase'[c] = Phase[c] /\ Reported'[c] = Reported[c]
  BY OneBuildMoves
<1>4. Phase[b] = "running" /\ Phase' = Phase
  <2>1. Phase[b] = "running" /\ Phase'[b] = "running"
    BY <1>2 DEF Phase, Resting
  <2>. QED
    BY <1>3, <2>1 DEF Phase
<1>5. at[b] \in Chosen(b) /\ Len(results[b]) - base[b] = Before(b)
  BY DEF Progress, ProgressOf
<1>6. /\ Turn(b, at[b]) \in 1 .. Len(Agenda[b]) /\ Turn(b, at[b]) = Before(b) + 1
      /\ Agenda[b][Turn(b, at[b])] = Registered[at[b]]
  BY <1>5, OnTheAgenda DEF Before
<1>7. /\ Reported[b] \in Seq(Result) /\ Len(Reported[b]) = Before(b)
      /\ Len(Agenda[b]) \in Nat
  <2>1. Len(Agenda[b]) \in Nat
    BY AgendaLength, ChosenIsFinite
  <2>. QED
    BY <1>5, <2>1, ReportedFacts DEF Tally
<1>8. Len(Reported[b]) < Len(Agenda[b]) /\ new.stage = Agenda[b][Len(Reported[b]) + 1]
  BY <1>6, <1>7
<1>9. Reported'[b] = Append(Reported[b], new)
  <2>1. new \in Result
    BY RegisteredIsNonEmpty DEF TypeInv, AtStage, InStage, Result, Codes
  <2>2. results[b] \in Seq(Result) /\ base[b] \in Nat /\ base[b] <= Len(results[b])
    BY <1>1 DEF LoopShape, Tally, TallyOf
  <2>3. Reported[b] = SubSeq(results[b], base[b] + 1, Len(results[b]))
    BY DEF Reported
  <2>4. Reported'[b] = SubSeq(Append(results[b], new), base[b] + 1, Len(Append(results[b], new)))
    BY <1>2 DEF Reported
  <2>. HIDE DEF new
  <2>. QED
    BY <2>1, <2>2, <2>3, <2>4, AppendToTail
<1>10. Reported' = [Reported EXCEPT ![b] = Append(Reported[b], new)]
  BY <1>3, <1>9, Mapping, ChangeAt DEF Reported
<1>. QED
  BY <1>2, <1>3, <1>4, <1>8, <1>10 DEF Promise!Report, Codes

LEMMA ReturnIsConclude ==
  ASSUME TypeInv, Tally, Progress, NEW b \in Builds, Return(b)
  PROVE  Promise!Conclude(b)
<1>1. LoopShape
  BY LoopFacts
<1>2. /\ pc'[b] = "done" /\ base' = base /\ results' = results /\ pc[b] = "loop"
      /\ Ahead(b) = {} /\ Work(b)
      /\ summary' = [summary EXCEPT ![b] = IF ok[b] THEN "success" ELSE "failure"]
  BY <1>1 DEF Return, Work, context, LoopShape
<1>3. Agenda' = Agenda /\ \A c \in Builds \ {b} : Phase'[c] = Phase[c]
  BY <1>2, OneBuildMoves
<1>4. Phase[b] = "running" /\ Phase'[b] = "done"
  BY <1>2 DEF Phase, Resting
<1>5. Phase' = [Phase EXCEPT ![b] = "done"]
  BY <1>3, <1>4, Mapping, ChangeAt DEF Phase
<1>6. Reported' = Reported
  BY <1>2 DEF Reported
<1>7. Len(Reported[b]) = Len(Agenda[b])
  <2>1. Chosen(b) \subseteq Int /\ at[b] \in Int
    BY <1>1, RegisteredIsNonEmpty DEF Chosen, LoopShape
  <2>2. {j \in Chosen(b) : j <= at[b]} = Chosen(b)
    BY <1>2, <2>1 DEF Ahead
  <2>3. Len(results[b]) - base[b] = Cardinality(Chosen(b))
    BY <1>2, <2>2 DEF Progress, ProgressOf, Done
  <2>. QED
    BY <2>3, AgendaLength, ReportedFacts DEF Tally
<1>8. ok[b] <=> \A i \in 1 .. Len(Reported[b]) : Reported[b][i].code = 0
  <2>. DEFINE k == base[b]
              n == Len(results[b])
  <2>1. k \in Nat /\ n \in Nat /\ k <= n
    BY <1>1 DEF LoopShape, Tally, TallyOf
  <2>2. Len(Reported[b]) = n - k /\ \A i \in 1 .. (n - k) : Reported[b][i] = results[b][k + i]
    BY ReportedFacts DEF Tally
  <2>3. ok[b] <=> \A i \in (k + 1) .. n : results[b][i].code = 0
    BY DEF Tally, TallyOf, ThisRun
  <2>. HIDE DEF k, n
  <2>4. ASSUME \A i \in (k + 1) .. n : results[b][i].code = 0, NEW i \in 1 .. (n - k)
        PROVE  Reported[b][i].code = 0
    <3>1. k + i \in (k + 1) .. n
      BY <2>1
    <3>. QED
      BY <2>2, <2>4, <3>1
  <2>5. ASSUME \A i \in 1 .. (n - k) : Reported[b][i].code = 0, NEW i \in (k + 1) .. n
        PROVE  results[b][i].code = 0
    <3>1. i - k \in 1 .. (n - k) /\ k + (i - k) = i
      BY <2>1
    <3>2. Reported[b][i - k] = results[b][i]
      BY <2>2, <3>1
    <3>. QED
      BY <2>5, <3>1, <3>2
  <2>. QED
    BY <2>2, <2>3, <2>4, <2>5
<1>9. summary' = [summary EXCEPT ![b] =
        IF \A i \in 1 .. Len(Reported[b]) : Reported[b][i].code = 0
        THEN "success" ELSE "failure"]
  BY <1>2, <1>8
<1>. QED
  BY <1>3, <1>4, <1>5, <1>6, <1>7, <1>9 DEF Promise!Conclude

\* The steps inside a stage are the pipeline's own business.
LEMMA InnerStep ==
  ASSUME TypeInv, NEW b \in Builds, Work(b),
         \/ Dispatch(b)
         \/ InStage(b) /\ \E p \in HoldsWorkspace \union {"mkdir"} : Goto(b, p)
  PROVE  UNCHANGED Promise!vars
<1>1. LoopShape
  BY LoopFacts
<1>2. base' = base /\ results' = results /\ summary' = summary
  BY DEF Dispatch, Goto, loop, context
<1>3. pc[b] \notin Resting /\ pc'[b] \notin Resting
  <2>1. CASE Dispatch(b)
    <3>1. PICK i \in Ahead(b) : pc' = [pc EXCEPT ![b] = Registered[i]]
      BY <2>1 DEF Dispatch
    <3>2. Registered[i] \in StageNames
      BY RegisteredIsNonEmpty DEF Ahead, Chosen
    <3>. QED
      BY <1>1, <2>1, <3>1, <3>2 DEF LoopShape, StageNames, Dispatch, Resting
  <2>2. CASE InStage(b) /\ \E p \in HoldsWorkspace \union {"mkdir"} : Goto(b, p)
    BY <1>1, <2>2 DEF LoopShape, InStage, Goto, Resting, HoldsWorkspace
  <2>. QED
    BY <2>1, <2>2
<1>4. Agenda' = Agenda /\ \A c \in Builds \ {b} : Phase'[c] = Phase[c]
  BY OneBuildMoves
<1>5. Phase'[b] = Phase[b]
  BY <1>3 DEF Phase
<1>6. Phase' = Phase
  BY <1>4, <1>5 DEF Phase
<1>7. Reported' = Reported
  BY <1>2 DEF Reported
<1>. QED
  BY <1>2, <1>4, <1>6, <1>7 DEF Promise!vars

LEMMA StepIsPromised ==
  TypeInv /\ Tally /\ Progress /\ [Next]_vars => [Promise!Next]_(Promise!vars)
<1>. SUFFICES ASSUME TypeInv, Tally, Progress, [Next]_vars
              PROVE  [Promise!Next]_(Promise!vars)
  OBVIOUS
<1>1. CASE Tick \/ UNCHANGED vars
  <2>1. plan' = plan /\ pc' = pc /\ results' = results /\ base' = base /\ summary' = summary
    BY <1>1 DEF Tick, vars, context, loop
  <2>2. Agenda' = Agenda /\ Phase' = Phase /\ Reported' = Reported
    BY <2>1 DEF Agenda, Turn, Chosen, Phase, Reported
  <2>. QED
    BY <2>1, <2>2 DEF Promise!vars
<1>2. ASSUME NEW b \in Builds, Start(b) PROVE Promise!Next
  BY <1>2, StartIsBegin DEF Promise!Next
<1>3. ASSUME NEW b \in Builds, Interrupt(b) PROVE Promise!Next
  BY <1>3, InterruptIsAbandon DEF Promise!Next
<1>4. ASSUME NEW b \in Builds, Work(b) PROVE [Promise!Next]_(Promise!vars)
  <2>1. CASE Return(b)
    BY <2>1, ReturnIsConclude DEF Promise!Next
  <2>2. CASE InStage(b) /\ \E code \in Codes : Finish(b, code)
    BY <1>4, <2>2, FinishIsReport DEF Promise!Next
  <2>3. CASE \/ Dispatch(b)
             \/ InStage(b) /\ \E p \in HoldsWorkspace \union {"mkdir"} : Goto(b, p)
    BY <1>4, <2>3, InnerStep
  <2>. QED
    BY <1>4, <2>1, <2>2, <2>3, WorkShape
<1>. QED
  BY <1>1, <1>2, <1>3, <1>4 DEF Next

LEMMA InitIsPromised == Init => Promise!Init
<1>. SUFFICES ASSUME Init PROVE Promise!Init
  OBVIOUS
<1>1. Phase = [b \in Builds |-> "idle"]
  BY DEF Init, Phase, Resting
<1>2. Reported = [b \in Builds |-> <<>>]
  BY SubSeqEmpty DEF Init, Reported
<1>. QED
  BY <1>1, <1>2 DEF Init, Promise!Init

\* For every pipeline, plan, number of builds and choice of faults, the pipeline
\* implements its promise: each selected stage reports once, in registration
\* order, whatever the stages before it did, then the verdict is given.
THEOREM PipelineKeepsItsPromise == Spec => KeepsPromise
<1>1. Spec => []TypeInv
  BY InitTypes, NextTypes, PTL DEF Spec
<1>2. Spec => []Tally
  BY <1>1, TallyInit, TallyNext, PTL DEF Spec
<1>3. Spec => []Progress
  BY <1>1, ProgressInit, ProgressNext, PTL DEF Spec
<1>. QED
  BY <1>1, <1>2, <1>3, InitIsPromised, StepIsPromised, PTL
     DEF Spec, KeepsPromise, Promise!Spec
=============================================================================
