------------------------- MODULE BuildIsolationProofs -------------------------
(* What a build of BuildPipeline can rely on in a workspace that it has to    *)
(* itself, and what it leaves alone in the others'.                           *)
EXTENDS BuildWorkspaceProofs

\* Between stages, the result of the stage that ran last is in the list.
Logged ==
  \A b \in Builds : pc[b] \in {"idle", "loop", "done"} /\ at[b] > 0 =>
    \E i \in 1 .. Len(results[b]) : results[b][i].stage = Registered[at[b]]

ManifestRecords(b, i) ==
  \E f \in files[workspace[b]] :
    /\ f.name = "manifest" /\ f.by = b /\ f.whole
    /\ f.seen = SubSeq(results[b], 1, i - 1)

\* While a build makes its workspace, what it has made of it is there.
MakingOf(b) ==
  pc[b] = "mkdir" /\ Untouched(b, target[b]) /\ ~Finalizing(b) =>
    LayoutDirs \ todo[b] \subseteq dirs[target[b]]

\* The two halves of PrivateWorkspace.
MadeOf(b) ==
  workspace[b] # NoRoot /\ Untouched(b, workspace[b]) /\ ~Finalizing(b) =>
    LayoutDirs \subseteq dirs[workspace[b]]

RecordedOf(b) ==
  workspace[b] # NoRoot /\ Untouched(b, workspace[b]) /\ ~Finalizing(b) =>
    \A i \in 1 .. Len(results[b]) :
      LatestManifest(b, i) /\ results[b][i].code = 0 => ManifestRecords(b, i)

PrivateOf(b) == MakingOf(b) /\ MadeOf(b) /\ RecordedOf(b)

Private == \A b \in Builds : PrivateOf(b)

BuildInv == TypeInv /\ AtItsStage /\ Given /\ Logged

-----------------------------------------------------------------------------
(* Finalizing once is finalizing for good *)

LEMMA LoggedFrame ==
  ASSUME NEW c \in Builds, TypeInv, Logged, pc'[c] \in {"idle", "loop", "done"}, at'[c] > 0,
         pc[c] \in {"idle", "loop", "done"}, at'[c] = at[c], results'[c] = results[c]
  PROVE  \E i \in 1 .. Len(results'[c]) : results'[c][i].stage = Registered[at'[c]]
  BY DEF Logged

LEMMA LoggedNext == TypeInv /\ AtItsStage /\ Logged /\ [Next]_vars => Logged'
<1>. SUFFICES ASSUME TypeInv, AtItsStage, Logged, [Next]_vars,
                     NEW c \in Builds, pc'[c] \in {"idle", "loop", "done"}, at'[c] > 0
              PROVE  \E i \in 1 .. Len(results'[c]) : results'[c][i].stage = Registered[at'[c]]
  BY DEF Logged
<1>1. /\ pc \in [Builds -> Where] /\ at \in [Builds -> 0 .. Len(Registered)]
      /\ results \in [Builds -> Seq(Result)]
  BY DEF TypeInv, TypeOK
<1>2. CASE Tick \/ UNCHANGED vars
  BY <1>2, LoggedFrame DEF Tick, vars, context, loop
<1>3. ASSUME NEW b \in Builds, Start(b) \/ Interrupt(b)
      PROVE  \E i \in 1 .. Len(results'[c]) : results'[c][i].stage = Registered[at'[c]]
  <2>1. c # b
    <3>1. CASE Start(b)
      <4>1. at'[b] = 0
        BY <1>1, <3>1 DEF Start
      <4>. QED
        BY <4>1
    <3>2. CASE Interrupt(b)
      <4>1. pc'[b] = "interrupted"
        BY <1>1, <3>2 DEF Interrupt
      <4>. QED
        BY <4>1
    <3>. QED
      BY <1>3, <3>1, <3>2
  <2>2. pc'[c] = pc[c] /\ at'[c] = at[c] /\ results'[c] = results[c]
    BY <1>1, <1>3, <2>1 DEF Start, Interrupt, context, loop
  <2>. QED
    BY <2>2, LoggedFrame
<1>4. ASSUME NEW b \in Builds, Work(b), c # b
      PROVE  \E i \in 1 .. Len(results'[c]) : results'[c][i].stage = Registered[at'[c]]
  BY <1>1, <1>4, WorkShape, LoggedFrame DEF Dispatch, Return, Finish, Goto, context, loop
<1>5. ASSUME Work(c)
      PROVE  \E i \in 1 .. Len(results'[c]) : results'[c][i].stage = Registered[at'[c]]
  <2>1. CASE Dispatch(c)
    <3>1. PICK i \in Ahead(c) : pc' = [pc EXCEPT ![c] = Registered[i]]
      BY <2>1 DEF Dispatch
    <3>2. Registered[i] \in StageNames
      BY RegisteredIsNonEmpty DEF Ahead, Chosen
    <3>. QED
      BY <1>1, <3>1, <3>2 DEF StageNames
  <2>2. CASE Return(c)
    BY <1>1, <2>2, LoggedFrame DEF Return, context
  <2>3. ASSUME InStage(c), NEW code \in Codes, Finish(c, code)
        PROVE  \E i \in 1 .. Len(results'[c]) : results'[c][i].stage = Registered[at'[c]]
    <3>1. /\ Len(results[c]) \in Nat
          /\ Len(results'[c]) = Len(results[c]) + 1
          /\ results'[c][Len(results[c]) + 1] = [stage |-> StageOf(pc[c]), code |-> code]
      BY <2>3, NewResult
    <3>2. at' = at /\ Registered[at[c]] = StageOf(pc[c])
      BY <2>3 DEF Finish, AtItsStage
    <3>3. Len(results[c]) + 1 \in 1 .. Len(results'[c])
      BY <3>1
    <3>. QED
      BY <3>1, <3>2, <3>3
  <2>4. ASSUME NEW p \in HoldsWorkspace \union {"mkdir"}, Goto(c, p) PROVE FALSE
    BY <1>1, <2>4 DEF Goto, HoldsWorkspace
  <2>. QED
    BY <1>5, <2>1, <2>2, <2>3, <2>4, StageSteps
       DEF Codes
<1>. QED
  BY <1>2, <1>3, <1>4, <1>5 DEF Next

\* What another build does leaves b's own variables as they are.
LEMMA OthersStep ==
  ASSUME TypeInv, NEW b \in Builds, NEW c \in Builds, c # b, Start(c) \/ Work(c) \/ Interrupt(c)
  PROVE  /\ pc'[b] = pc[b] /\ at'[b] = at[b] /\ results'[b] = results[b]
         /\ target'[b] = target[b] /\ todo'[b] = todo[b] /\ workspace'[b] = workspace[b]
<1>1. /\ pc \in [Builds -> Where] /\ at \in [Builds -> 0 .. Len(Registered)]
      /\ results \in [Builds -> Seq(Result)] /\ todo \in [Builds -> SUBSET Entries]
      /\ target \in [Builds -> Roots \union {NoRoot}]
      /\ workspace \in [Builds -> Roots \union {NoRoot}]
  BY DEF TypeInv, TypeOK
<1>2. CASE Start(c) \/ Interrupt(c)
  <2>1. target' = target /\ todo' = todo /\ workspace' = workspace /\ results' = results
    BY <1>2 DEF Start, Interrupt, context
  <2>2. pc'[b] = pc[b] /\ at'[b] = at[b]
    BY <1>1, <1>2 DEF Start, Interrupt, loop
  <2>. QED
    BY <2>1, <2>2
<1>3. CASE Work(c)
  <2>1. pc'[b] = pc[b] /\ at'[b] = at[b] /\ results'[b] = results[b]
    BY <1>1, <1>3, WorkShape DEF Dispatch, Return, Finish, Goto, context, loop
  <2>2. target'[b] = target[b] /\ todo'[b] = todo[b] /\ workspace'[b] = workspace[b]
    BY <1>1, <1>3
       DEF Work, Dispatch, Return, ValidateConfig, ProbeWorkspace, MakeDirectory,
           GenerateManifest, WriteManifest, Finalize, Provenance, WriteProvenance,
           BuildLog, WriteLog, Clean, RemoveEntry, RemoveRoot, EnsureParent, context
  <2>. QED
    BY <2>1, <2>2
<1>. QED
  BY <1>2, <1>3

LEMMA FinalizingStays ==
  ASSUME TypeInv, AtItsStage, Logged, [Next]_vars, NEW b \in Builds, Finalizing(b)
  PROVE  Finalizing(b)'
<1>1. /\ pc \in [Builds -> Where] /\ at \in [Builds -> 0 .. Len(Registered)]
      /\ results \in [Builds -> Seq(Result)]
  BY DEF TypeInv, TypeOK
<1>2. ASSUME at'[b] = at[b], results'[b] = results[b] PROVE Finalizing(b)'
  BY <1>2 DEF Finalizing
<1>3. ASSUME results'[b] = results[b],
             \E i \in 1 .. Len(results[b]) : results[b][i].stage = "finalize"
      PROVE  Finalizing(b)'
  BY <1>3 DEF Finalizing
<1>4. CASE Tick \/ UNCHANGED vars
  BY <1>2, <1>4 DEF Tick, vars, context, loop
<1>5. CASE \E c \in Builds \ {b} : Start(c) \/ Work(c) \/ Interrupt(c)
  BY <1>2, <1>5, OthersStep
<1>6. CASE Start(b) \/ Dispatch(b)
  <2>1. pc[b] \in {"idle", "loop", "done"} /\ results' = results
    BY <1>6 DEF Start, Dispatch, context
  <2>2. \E i \in 1 .. Len(results[b]) : results[b][i].stage = "finalize"
    BY <2>1 DEF Logged, Finalizing
  <2>. QED
    BY <1>3, <2>1, <2>2
<1>7. CASE Interrupt(b) \/ Return(b) \/ \E p \in HoldsWorkspace \union {"mkdir"} : Goto(b, p)
  BY <1>2, <1>7 DEF Interrupt, Return, Goto, context, loop
<1>8. ASSUME InStage(b), NEW code \in Codes, Finish(b, code) PROVE Finalizing(b)'
  <2>1. /\ Len(results[b]) \in Nat
        /\ Len(results'[b]) = Len(results[b]) + 1
        /\ \A i \in 1 .. Len(results[b]) : results'[b][i] = results[b][i]
    BY <1>8, NewResult
  <2>2. at' = at
    BY <1>8 DEF Finish
  <2>. QED
    BY <2>1, <2>2 DEF Finalizing
<1>9. CASE Work(b)
  BY <1>6, <1>7, <1>8, <1>9, StageSteps DEF Codes
<1>. QED
  BY <1>4, <1>5, <1>6, <1>7, <1>9 DEF Next

-----------------------------------------------------------------------------
(* A root nobody else ever had *)

\* A build's results and its workspace change together, in a step of its own.
LEMMA ResultSteps ==
  ASSUME TypeInv, [Next]_vars, NEW c \in Builds
  PROVE  \/ results'[c] = results[c] /\ workspace'[c] = workspace[c]
         \/ /\ InStage(c)
            /\ \E code \in Codes : Finish(c, code)
            /\ workspace'[c] = workspace[c]
         \/ InStage(c) /\ pc[c] = "mkdir" /\ Finish(c, 0)
<1>1. CASE Tick \/ UNCHANGED vars
  BY <1>1 DEF Tick, vars, context
<1>2. CASE \E b \in Builds \ {c} : Start(b) \/ Work(b) \/ Interrupt(b)
  BY <1>2, OthersStep
<1>3. CASE Start(c) \/ Interrupt(c)
  BY <1>3 DEF Start, Interrupt, context
<1>4. CASE Work(c)
  BY <1>4, StageSteps DEF Dispatch, Return, Goto, context
<1>. QED
  BY <1>1, <1>2, <1>3, <1>4 DEF Next

\* Who has held a root, or moved on from one, is not forgotten.
LEMMA UntouchedBefore ==
  ASSUME TypeInv, AtItsStage, Given, [Next]_vars, NEW b \in Builds, NEW r \in Roots,
         Untouched(b, r)'
  PROVE  Untouched(b, r)
<1>. SUFFICES ASSUME NEW c \in Builds \ {b}
              PROVE  workspace[c] # r /\ \A i, j \in Prepared(c) : i = j
  BY DEF Untouched
<1>0. workspace'[c] # r /\ \A i, j \in Prepared(c)' : i = j
  BY DEF Untouched
<1>1. CASE results'[c] = results[c] /\ workspace'[c] = workspace[c]
  BY <1>0, <1>1 DEF Prepared
<1>2. CASE InStage(c) /\ (\E code \in Codes : Finish(c, code)) /\ workspace'[c] = workspace[c]
  <2>1. Prepared(c) \subseteq Prepared(c)'
    BY <1>2, PreparedGrows
  <2>. QED
    BY <1>0, <1>2, <2>1
<1>3. CASE InStage(c) /\ pc[c] = "mkdir" /\ Finish(c, 0)
  <2>1. Prepared(c)' = Prepared(c) \union {Len(results[c]) + 1}
    BY <1>3, PreparedGrows DEF Codes, StageOf, HoldsWorkspace
  <2>2. Prepared(c) \subseteq 1 .. Len(results[c]) /\ Len(results[c]) \in Nat
    BY DEF Prepared, TypeInv, TypeOK
  <2>3. Prepared(c) = {}
    <3>. SUFFICES ASSUME NEW i \in Prepared(c) PROVE FALSE
      OBVIOUS
    <3>1. i = Len(results[c]) + 1
      BY <1>0, <2>1
    <3>. QED
      BY <2>2, <3>1
  <2>4. workspace[c] = NoRoot
    BY <2>3 DEF Given, GivenOf
  <2>. QED
    BY <2>3, <2>4, RootsAreTyped
<1>. QED
  BY <1>1, <1>2, <1>3, ResultSteps

-----------------------------------------------------------------------------
(* Who changes what on the disk *)

\* A file is written where the build's workspace is.
LEMMA WriteStays ==
  ASSUME TypeInv, NEW b \in Builds, NEW name \in FileNames, NEW r \in Roots, r # workspace[b],
         WriteSucceeds(b, name) \/ WriteFails(b, name)
  PROVE  files'[r] = files[r]
<1>1. files \in [Roots -> SUBSET File]
  BY DEF TypeInv, TypeOK
<1>. QED
  BY <1>1 DEF WriteSucceeds, WriteFails, Put

LEMMA MakesOnly ==
  ASSUME TypeInv, NEW r \in Roots, NEW q,
         \/ MkdirFails(q)
         \/ \E d \in LayoutDirs : dirs' = [dirs EXCEPT ![q] = @ \union {".", d}]
  PROVE  dirs[r] \subseteq dirs'[r]
<1>1. dirs \in [Roots -> SUBSET Entries]
  BY DEF TypeInv, TypeOK
<1>. QED
  BY <1>1 DEF MkdirFails

\* Outside its workspace a build at most makes directories, and inside it too
\* before it cleans up.
LEMMA WorkOnRoots ==
  ASSUME TypeInv, NEW b \in Builds, Work(b), NEW r \in Roots
  PROVE  /\ \/ r = workspace[b] /\ pc[b] = "rmtree"
            \/ dirs[r] \subseteq dirs'[r]
         /\ \/ r = workspace[b] /\ pc[b] \in HoldsWorkspace
            \/ files'[r] = files[r]
<1>0. /\ dirs \in [Roots -> SUBSET Entries] /\ files \in [Roots -> SUBSET File]
  BY DEF TypeInv, TypeOK
<1>1. ASSUME NEW name \in FileNames, NEW writing, NEW code, EnsureParent(b, name, writing, code)
      PROVE  dirs[r] \subseteq dirs'[r] /\ files' = files
  BY <1>1, MakesOnly, DirOfFacts DEF EnsureParent
<1>2. CASE \/ Dispatch(b) \/ Return(b) \/ ValidateConfig(b) \/ ProbeWorkspace(b)
           \/ Finalize(b) \/ Clean(b)
  BY <1>2 DEF Dispatch, Return, ValidateConfig, ProbeWorkspace, Finalize, Clean, disk
<1>3. CASE MakeDirectory(b)
  BY <1>3, MakesOnly, LayoutFacts DEF MakeDirectory
<1>4. CASE GenerateManifest(b) \/ Provenance(b) \/ BuildLog(b)
  BY <1>1, <1>4 DEF GenerateManifest, Provenance, BuildLog, FileNames, disk
<1>5. CASE WriteManifest(b) \/ WriteProvenance(b) \/ WriteLog(b)
  <2>1. PICK name \in FileNames : WriteSucceeds(b, name) \/ WriteFails(b, name)
    BY <1>5 DEF WriteManifest, WriteProvenance, WriteLog, FileNames
  <2>2. dirs' = dirs /\ pc[b] \in HoldsWorkspace
    BY <1>5 DEF WriteManifest, WriteProvenance, WriteLog, HoldsWorkspace
  <2>. QED
    BY <2>1, <2>2, WriteStays
<1>6. CASE RemoveEntry(b)
  <2>1. pc[b] = "rmtree" /\ pc[b] \in HoldsWorkspace
    BY <1>6 DEF RemoveEntry, HoldsWorkspace
  <2>2. r # workspace[b] => dirs'[r] = dirs[r] /\ files'[r] = files[r]
    BY <1>0, <1>6 DEF RemoveEntry
  <2>. QED
    BY <2>1, <2>2
<1>7. CASE RemoveRoot(b)
  BY <1>0, <1>7 DEF RemoveRoot
<1>. QED
  BY <1>2, <1>3, <1>4, <1>5, <1>6, <1>7 DEF Work

LEMMA InterruptOnRoots ==
  ASSUME TypeInv, NEW b \in Builds, Interrupt(b), NEW r \in Roots
  PROVE  dirs' = dirs /\ (r = workspace[b] \/ files'[r] = files[r])
<1>1. files \in [Roots -> SUBSET File]
  BY DEF TypeInv, TypeOK
<1>. QED
  BY <1>1 DEF Interrupt, Put

-----------------------------------------------------------------------------
(* A build that has its workspace to itself *)

LEMMA PrefixOfAppend ==
  ASSUME NEW S, NEW s \in Seq(S), NEW e \in S, NEW i \in 1 .. (Len(s) + 1)
  PROVE  SubSeq(Append(s, e), 1, i - 1) = SubSeq(s, 1, i - 1)
<1>. DEFINE a == SubSeq(Append(s, e), 1, i - 1)
            z == SubSeq(s, 1, i - 1)
<1>1. Append(s, e) \in Seq(S) /\ Len(Append(s, e)) = Len(s) + 1
  OBVIOUS
<1>2. a \in Seq(S) /\ Len(a) = i - 1 /\ \A k \in 1 .. (i - 1) : a[k] = Append(s, e)[k]
  BY <1>1
<1>3. z \in Seq(S) /\ Len(z) = i - 1 /\ \A k \in 1 .. (i - 1) : z[k] = s[k]
  OBVIOUS
<1>4. \A k \in 1 .. (i - 1) : Append(s, e)[k] = s[k]
  OBVIOUS
<1>. HIDE DEF a, z
<1>5. a = z
  BY <1>2, <1>3, <1>4
<1>. QED
  BY <1>5 DEF a, z

LEMMA WholePrefix ==
  ASSUME NEW S, NEW s \in Seq(S)
  PROVE  SubSeq(s, 1, Len(s)) = s
  OBVIOUS

\* A step without a result of b's, which takes nothing away from it.
LEMMA PrivateFrame ==
  ASSUME BuildInv, [Next]_vars, NEW b \in Builds, PrivateOf(b),
         pc'[b] = "mkdir" =>
           pc[b] = "mkdir" /\ todo'[b] = todo[b] /\ target'[b] = target[b],
         workspace'[b] = workspace[b],
         results'[b] = results[b],
         \A r \in Roots : Untouched(b, r) => dirs[r] \subseteq dirs'[r],
         \/ pc'[b] \in {"write-manifest", "interrupted"}
         \/ /\ pc[b] \notin {"write-manifest", "interrupted"}
            /\ \A r \in Roots : Untouched(b, r) => files'[r] = files[r]
  PROVE  PrivateOf(b)'
<1>1. Finalizing(b)' \/ ~Finalizing(b)
  BY FinalizingStays DEF BuildInv
<1>2. \A r \in Roots : Untouched(b, r)' => Untouched(b, r)
  BY UntouchedBefore DEF BuildInv
<1>3. workspace[b] # NoRoot => workspace[b] \in Roots
  BY DEF BuildInv, TypeInv, TypeOK
<1>4. pc[b] = "mkdir" => target[b] \in Roots
  BY DEF BuildInv, TypeInv, Placed
<1>5. MakingOf(b)'
  BY <1>1, <1>2, <1>4 DEF PrivateOf, MakingOf
<1>6. MadeOf(b)'
  BY <1>1, <1>2, <1>3 DEF PrivateOf, MadeOf
<1>7. RecordedOf(b)'
  <2>1. CASE pc'[b] \in {"write-manifest", "interrupted"}
    BY <2>1 DEF RecordedOf, LatestManifest
  <2>2. CASE /\ pc[b] \notin {"write-manifest", "interrupted"}
             /\ \A r \in Roots : Untouched(b, r) => files'[r] = files[r]
    <3>. SUFFICES ASSUME workspace'[b] # NoRoot, Untouched(b, workspace[b])', ~Finalizing(b)',
                         NEW i \in 1 .. Len(results[b]), LatestManifest(b, i)',
                         results[b][i].code = 0
                  PROVE  ManifestRecords(b, i)'
      BY DEF RecordedOf
    <3>1. Untouched(b, workspace[b]) /\ workspace[b] \in Roots
      BY <1>2, <1>3
    <3>2. LatestManifest(b, i)
      BY <2>2 DEF LatestManifest, Prepared
    <3>3. ManifestRecords(b, i)
      BY <1>1, <3>1, <3>2 DEF PrivateOf, RecordedOf
    <3>. QED
      BY <2>2, <3>1, <3>3 DEF ManifestRecords
  <2>. QED
    BY <2>1, <2>2
<1>. QED
  BY <1>5, <1>6, <1>7 DEF PrivateOf

\* A result that is no manifest's.
LEMMA PrivateFinish ==
  ASSUME BuildInv, [Next]_vars, NEW b \in Builds, PrivateOf(b), NEW code \in Codes,
         InStage(b), Finish(b, code),
         StageOf(pc[b]) = "generate-manifest" => code # 0,
         pc[b] # "write-manifest",
         workspace' = workspace,
         \A r \in Roots : dirs[r] \subseteq dirs'[r] /\ files'[r] = files[r]
  PROVE  PrivateOf(b)'
<1>. DEFINE n == Len(results[b])
<1>0. /\ pc \in [Builds -> Where] /\ results \in [Builds -> Seq(Result)]
      /\ workspace[b] # NoRoot => workspace[b] \in Roots
  BY DEF BuildInv, TypeInv, TypeOK
<1>1. Finalizing(b)' \/ ~Finalizing(b)
  BY FinalizingStays DEF BuildInv
<1>2. \A r \in Roots : Untouched(b, r)' => Untouched(b, r)
  BY UntouchedBefore DEF BuildInv
<1>3. pc'[b] = "loop"
  BY <1>0 DEF Finish
<1>4. /\ n \in Nat
      /\ Len(results'[b]) = n + 1
      /\ \A i \in 1 .. n : results'[b][i] = results[b][i]
      /\ results'[b][n + 1] = [stage |-> StageOf(pc[b]), code |-> code]
  BY NewResult DEF BuildInv
<1>5. Prepared(b) \subseteq Prepared(b)'
  BY PreparedGrows DEF BuildInv
<1>6. MakingOf(b)'
  BY <1>3 DEF MakingOf
<1>7. MadeOf(b)'
  BY <1>0, <1>1, <1>2 DEF PrivateOf, MadeOf
<1>8. RecordedOf(b)'
  <2>. SUFFICES ASSUME workspace'[b] # NoRoot, Untouched(b, workspace[b])', ~Finalizing(b)',
                       NEW i \in 1 .. Len(results'[b]), LatestManifest(b, i)',
                       results'[b][i].code = 0
                PROVE  ManifestRecords(b, i)'
    BY DEF RecordedOf
  <2>1. Untouched(b, workspace[b]) /\ workspace[b] \in Roots
    BY <1>0, <1>2
  <2>2. i # n + 1
    BY <1>4 DEF LatestManifest
  <2>3. i \in 1 .. n
    BY <1>4, <2>2
  <2>4. LatestManifest(b, i)
    <3>1. results[b][i].stage = "generate-manifest" /\ \A j \in Prepared(b) : j < i
      BY <1>4, <1>5, <2>3 DEF LatestManifest
    <3>2. \A j \in (i + 1) .. n : results[b][j].stage # "generate-manifest"
      BY <1>4, <2>3 DEF LatestManifest
    <3>3. pc[b] \notin {"write-manifest", "interrupted"}
      BY DEF InStage, Resting
    <3>. QED
      BY <3>1, <3>2, <3>3 DEF LatestManifest
  <2>5. ManifestRecords(b, i)
    BY <1>1, <1>4, <2>1, <2>3, <2>4 DEF PrivateOf, RecordedOf
  <2>6. results'[b] = Append(results[b], [stage |-> Registered[at[b]], code |-> code])
    BY <1>0 DEF Finish
  <2>7. [stage |-> Registered[at[b]], code |-> code] \in Result
    BY RegisteredIsNonEmpty DEF BuildInv, TypeInv, AtStage, InStage, Result, Codes
  <2>8. SubSeq(results'[b], 1, i - 1) = SubSeq(results[b], 1, i - 1)
    <3>1. results[b] \in Seq(Result) /\ i \in 1 .. (n + 1)
      BY <1>0, <1>4
    <3>. QED
      BY <2>6, <2>7, <3>1, PrefixOfAppend
  <2>. QED
    BY <2>1, <2>5, <2>8 DEF ManifestRecords
<1>. QED
  BY <1>6, <1>7, <1>8 DEF PrivateOf

\* The workspace is given to b when its last directory is made.
LEMMA PrivateMkdir ==
  ASSUME BuildInv, [Next]_vars, NEW b \in Builds, PrivateOf(b), MakeDirectory(b)
  PROVE  PrivateOf(b)'
<1>0. /\ pc \in [Builds -> Where] /\ results \in [Builds -> Seq(Result)]
      /\ workspace \in [Builds -> Roots \union {NoRoot}]
      /\ todo \in [Builds -> SUBSET Entries] /\ dirs \in [Roots -> SUBSET Entries]
      /\ pc[b] = "mkdir" /\ target' = target /\ files' = files /\ target[b] \in Roots
      /\ StageOf(pc[b]) = "prepare-workspace" /\ InStage(b)
  BY DEF BuildInv, TypeInv, TypeOK, MakeDirectory, Placed, StageOf, HoldsWorkspace, InStage,
         Resting
<1>1. Finalizing(b)' \/ ~Finalizing(b)
  BY FinalizingStays DEF BuildInv
<1>2. \A r \in Roots : Untouched(b, r)' => Untouched(b, r)
  BY UntouchedBefore DEF BuildInv
<1>3. \A r \in Roots : dirs[r] \subseteq dirs'[r]
  BY <1>0, MakesOnly, LayoutFacts DEF MakeDirectory, BuildInv
<1>4. CASE MkdirFails(target[b]) /\ Finish(b, 10) /\ UNCHANGED <<todo, workspace>>
  BY <1>0, <1>3, <1>4, PrivateFinish DEF Codes
<1>5. ASSUME NEW d \in LayoutDirs,
             todo' = [todo EXCEPT ![b] = @ \ {d}],
             dirs' = [dirs EXCEPT ![target[b]] = @ \union {".", d}]
      PROVE  LayoutDirs \ todo[b] \subseteq dirs[target[b]]
               => LayoutDirs \ todo'[b] \subseteq dirs'[target[b]]
  BY <1>0, <1>5
<1>6. ASSUME NEW d \in LayoutDirs,
             todo' = [todo EXCEPT ![b] = @ \ {d}],
             dirs' = [dirs EXCEPT ![target[b]] = @ \union {".", d}],
             Goto(b, "mkdir"), workspace' = workspace
      PROVE  PrivateOf(b)'
  <2>1. pc'[b] = "mkdir" /\ results' = results
    BY <1>0, <1>6 DEF Goto
  <2>2. MakingOf(b)'
    BY <1>0, <1>1, <1>2, <1>5, <1>6 DEF PrivateOf, MakingOf
  <2>3. MadeOf(b)'
    BY <1>0, <1>1, <1>2, <1>3, <1>6 DEF PrivateOf, MadeOf
  <2>4. RecordedOf(b)'
    <3>. SUFFICES ASSUME workspace'[b] # NoRoot, Untouched(b, workspace[b])', ~Finalizing(b)',
                         NEW i \in 1 .. Len(results[b]), LatestManifest(b, i)',
                         results[b][i].code = 0
                  PROVE  ManifestRecords(b, i)'
      BY <1>6, <2>1 DEF RecordedOf
    <3>1. Untouched(b, workspace[b]) /\ workspace[b] # NoRoot
      BY <1>0, <1>2, <1>6
    <3>2. LatestManifest(b, i)
      BY <1>0, <2>1 DEF LatestManifest, Prepared
    <3>3. ManifestRecords(b, i)
      BY <1>1, <3>1, <3>2 DEF PrivateOf, RecordedOf
    <3>. QED
      BY <1>0, <1>6, <2>1, <3>3 DEF ManifestRecords
  <2>. QED
    BY <2>2, <2>3, <2>4 DEF PrivateOf
<1>7. ASSUME NEW d \in LayoutDirs,
             todo' = [todo EXCEPT ![b] = @ \ {d}],
             dirs' = [dirs EXCEPT ![target[b]] = @ \union {".", d}],
             todo'[b] = {},
             workspace' = [workspace EXCEPT ![b] = target[b]],
             Finish(b, 0)
      PROVE  PrivateOf(b)'
  <2>1. pc'[b] = "loop" /\ workspace'[b] = target[b]
    BY <1>0, <1>7 DEF Finish
  <2>2. MakingOf(b)'
    BY <2>1 DEF MakingOf
  <2>3. MadeOf(b)'
    BY <1>0, <1>1, <1>2, <1>5, <1>7, <2>1 DEF PrivateOf, MakingOf, MadeOf
  <2>4. Len(results[b]) + 1 \in Prepared(b)'
    BY <1>0, <1>7, PreparedGrows DEF BuildInv, Codes
  <2>5. Len(results'[b]) = Len(results[b]) + 1 /\ Len(results[b]) \in Nat
    BY <1>0, <1>7, NewResult DEF BuildInv, Codes
  <2>6. RecordedOf(b)'
    BY <2>4, <2>5 DEF RecordedOf, LatestManifest
  <2>. QED
    BY <2>2, <2>3, <2>6 DEF PrivateOf
<1>8. CASE \E i \in 1 .. 4 :
             /\ todo' = [todo EXCEPT ![b] = @ \ {Layout[i]}]
             /\ dirs' = [dirs EXCEPT ![target[b]] = @ \union {".", Layout[i]}]
             /\ IF todo'[b] = {}
                THEN /\ workspace' = [workspace EXCEPT ![b] = target[b]]
                     /\ Finish(b, 0)
                ELSE Goto(b, "mkdir") /\ UNCHANGED workspace
  BY <1>6, <1>7, <1>8, LayoutFacts
<1>. QED
  BY <1>4, <1>8 DEF MakeDirectory

\* The manifest that counts is the one written last, with the results before it.
LEMMA PrivateWriteManifest ==
  ASSUME BuildInv, [Next]_vars, NEW b \in Builds, PrivateOf(b), WriteManifest(b)
  PROVE  PrivateOf(b)'
<1>. DEFINE n == Len(results[b])
<1>0. /\ pc \in [Builds -> Where] /\ results \in [Builds -> Seq(Result)]
      /\ files \in [Roots -> SUBSET File]
      /\ pc[b] = "write-manifest" /\ workspace[b] \in Roots
      /\ workspace' = workspace /\ dirs' = dirs
      /\ StageOf(pc[b]) = "generate-manifest" /\ InStage(b)
  BY DEF BuildInv, TypeInv, TypeOK, WriteManifest, Placed, StageOf, HoldsWorkspace, InStage,
         Resting
<1>1. Finalizing(b)' \/ ~Finalizing(b)
  BY FinalizingStays DEF BuildInv
<1>2. \A r \in Roots : Untouched(b, r)' => Untouched(b, r)
  BY UntouchedBefore DEF BuildInv
<1>3. PICK code \in Codes :
        Finish(b, code) /\ (code = 0 => WriteSucceeds(b, "manifest"))
  BY DEF WriteManifest, Codes
<1>4. pc'[b] = "loop"
  BY <1>0, <1>3 DEF Finish
<1>5. /\ n \in Nat
      /\ Len(results'[b]) = n + 1
      /\ results'[b][n + 1] = [stage |-> "generate-manifest", code |-> code]
  BY <1>0, <1>3, NewResult DEF BuildInv
<1>6. MakingOf(b)'
  BY <1>4 DEF MakingOf
<1>7. MadeOf(b)'
  BY <1>0, <1>1, <1>2 DEF PrivateOf, MadeOf
<1>8. RecordedOf(b)'
  <2>. SUFFICES ASSUME NEW i \in 1 .. Len(results'[b]), LatestManifest(b, i)',
                       results'[b][i].code = 0
                PROVE  ManifestRecords(b, i)'
    BY DEF RecordedOf
  <2>1. i = n + 1
    BY <1>5 DEF LatestManifest
  <2>2. code = 0
    BY <1>5, <2>1
  <2>3. PICK f : /\ f = [name |-> "manifest", by |-> b, seen |-> results[b], whole |-> TRUE]
                 /\ f \in files'[workspace[b]]
    BY <1>0, <1>3, <2>2 DEF WriteSucceeds, Put
  <2>4. SubSeq(results'[b], 1, n) = results[b]
    <3>1. results'[b] = Append(results[b], [stage |-> Registered[at[b]], code |-> code])
      BY <1>0, <1>3 DEF Finish
    <3>2. [stage |-> Registered[at[b]], code |-> code] \in Result
      BY <1>0, RegisteredIsNonEmpty DEF BuildInv, TypeInv, AtStage, InStage, Result, Codes
    <3>3. results[b] \in Seq(Result) /\ n + 1 \in 1 .. (n + 1) /\ n + 1 - 1 = n
      BY <1>0, <1>5
    <3>. QED
      BY <3>1, <3>2, <3>3, PrefixOfAppend, WholePrefix
  <2>5. i - 1 = n
    BY <1>5, <2>1
  <2>. QED
    BY <1>0, <2>3, <2>4, <2>5 DEF ManifestRecords
<1>. QED
  BY <1>6, <1>7, <1>8 DEF PrivateOf

LEMMA PrivateWork ==
  ASSUME BuildInv, [Next]_vars, NEW b \in Builds, PrivateOf(b), Work(b)
  PROVE  PrivateOf(b)'
<1>0. /\ pc \in [Builds -> Where] /\ target \in [Builds -> Roots \union {NoRoot}]
      /\ todo \in [Builds -> SUBSET Entries] /\ TypeInv
  BY DEF BuildInv, TypeInv, TypeOK
<1>1. CASE Finalizing(b)'
  BY <1>1 DEF PrivateOf, MakingOf, MadeOf, RecordedOf
<1>2. CASE MakeDirectory(b)
  BY <1>2, PrivateMkdir
<1>3. CASE WriteManifest(b)
  BY <1>3, PrivateWriteManifest
<1>4. CASE ProbeWorkspace(b) /\ ~Finalizing(b)'
  <2>1. /\ workspace' = workspace /\ dirs' = dirs /\ files' = files
        /\ pc[b] = "prepare-workspace" /\ InStage(b)
        /\ StageOf(pc[b]) = "prepare-workspace"
    BY <1>4 DEF ProbeWorkspace, disk, InStage, Resting, StageOf, HoldsWorkspace
  <2>2. CASE Finish(b, 10)
    BY <2>1, <2>2, PrivateFinish DEF Codes
  <2>3. CASE /\ todo' = [todo EXCEPT ![b] = LayoutDirs]
             /\ Goto(b, "mkdir")
    <3>1. results' = results /\ pc'[b] = "mkdir" /\ todo'[b] = LayoutDirs
      BY <1>0, <2>3 DEF Goto
    <3>2. MakingOf(b)'
      BY <3>1 DEF MakingOf
    <3>3. \A r \in Roots : Untouched(b, r)' => Untouched(b, r)
      BY UntouchedBefore DEF BuildInv
    <3>4. workspace[b] # NoRoot => workspace[b] \in Roots
      BY DEF BuildInv, TypeInv, TypeOK
    <3>5. ~Finalizing(b)
      BY <1>4, FinalizingStays DEF BuildInv
    <3>6. MadeOf(b)'
      BY <2>1, <3>3, <3>4, <3>5 DEF PrivateOf, MadeOf
    <3>7. \A i \in 1 .. Len(results[b]) : LatestManifest(b, i)' => LatestManifest(b, i)
      BY <2>1, <3>1 DEF LatestManifest, Prepared
    <3>8. \A i \in 1 .. Len(results[b]) : ManifestRecords(b, i) => ManifestRecords(b, i)'
      BY <2>1, <3>1 DEF ManifestRecords
    <3>9. RecordedOf(b)'
      BY <2>1, <3>1, <3>3, <3>4, <3>5, <3>7, <3>8 DEF PrivateOf, RecordedOf
    <3>. QED
      BY <3>2, <3>6, <3>9 DEF PrivateOf
  <2>. QED
    BY <1>4, <2>2, <2>3 DEF ProbeWorkspace
<1>5. CASE ~ProbeWorkspace(b) /\ ~MakeDirectory(b) /\ ~WriteManifest(b) /\ ~Finalizing(b)'
  <2>1. ~(at[b] > 0 /\ Registered[at[b]] = "finalize")
    BY <1>5, FinalizingStays DEF BuildInv, Finalizing
  <2>2. InStage(b) => StageOf(pc[b]) # "finalize"
    BY <2>1 DEF BuildInv, AtItsStage, TypeInv, AtStage, InStage
  <2>3. pc[b] \notin HoldsWorkspace \ {"write-manifest"}
    BY <2>2 DEF StageOf, HoldsWorkspace, InStage, Resting
  <2>4. pc[b] # "write-manifest" /\ pc[b] # "mkdir"
    <3>1. pc[b] # "finalize"
      BY <2>2 DEF StageOf, HoldsWorkspace, InStage, Resting
    <3>. QED
      BY <1>5, <2>3, <3>1
         DEF Work, Dispatch, Return, ValidateConfig, GenerateManifest, Finalize, Provenance,
             WriteProvenance, BuildLog, WriteLog, Clean, RemoveEntry, RemoveRoot,
             HoldsWorkspace
  <2>5. \A r \in Roots : dirs[r] \subseteq dirs'[r] /\ files'[r] = files[r]
    BY <1>0, <2>3, <2>4, WorkOnRoots DEF HoldsWorkspace
  <2>6. CASE Dispatch(b)
    <3>1. PICK i \in Ahead(b) : pc' = [pc EXCEPT ![b] = Registered[i]]
      BY <2>6 DEF Dispatch
    <3>2. Registered[i] \in StageNames
      BY RegisteredIsNonEmpty DEF Ahead, Chosen
    <3>3. pc'[b] # "mkdir" /\ pc[b] = "loop"
      BY <1>0, <2>6, <3>1, <3>2 DEF StageNames, Dispatch
    <3>4. workspace' = workspace /\ results' = results
      BY <2>6 DEF Dispatch, context
    <3>. QED
      BY <2>5, <3>3, <3>4, PrivateFrame
  <2>7. CASE Return(b)
    <3>1. pc'[b] = "done" /\ pc[b] = "loop" /\ workspace' = workspace /\ results' = results
      BY <1>0, <2>7 DEF Return, context
    <3>. QED
      BY <2>5, <3>1, PrivateFrame
  <2>8. CASE ValidateConfig(b)
    <3>1. PICK code \in Codes : Finish(b, code)
      BY <2>8 DEF ValidateConfig, ValidateCode, Codes
    <3>2. InStage(b) /\ StageOf(pc[b]) = "validate-config" /\ workspace' = workspace
      BY <2>8 DEF ValidateConfig, InStage, Resting, StageOf, HoldsWorkspace
    <3>. QED
      BY <2>4, <2>5, <3>1, <3>2, PrivateFinish
  <2>9. CASE GenerateManifest(b)
    <3>1. /\ workspace' = workspace /\ InStage(b) /\ pc[b] = "generate-manifest"
          /\ Goto(b, "write-manifest") \/ Finish(b, 30)
      BY <2>9 DEF GenerateManifest, EnsureParent, InStage, Resting
    <3>2. CASE Goto(b, "write-manifest")
      <4>1. pc'[b] = "write-manifest" /\ results' = results
        BY <1>0, <3>2 DEF Goto
      <4>. QED
        BY <2>5, <3>1, <4>1, PrivateFrame
    <3>3. CASE Finish(b, 30)
      BY <2>4, <2>5, <3>1, <3>3, PrivateFinish DEF Codes
    <3>. QED
      BY <3>1, <3>2, <3>3
  <2>10. ~(\/ Finalize(b) \/ Provenance(b) \/ WriteProvenance(b) \/ BuildLog(b)
           \/ WriteLog(b) \/ Clean(b) \/ RemoveEntry(b) \/ RemoveRoot(b))
    BY <2>2, <2>3
       DEF Finalize, Provenance, WriteProvenance, BuildLog, WriteLog, Clean, RemoveEntry,
           RemoveRoot, StageOf, HoldsWorkspace, InStage, Resting
  <2>. QED
    BY <1>5, <2>6, <2>7, <2>8, <2>9, <2>10 DEF Work
<1>. QED
  BY <1>1, <1>2, <1>3, <1>4, <1>5

LEMMA PrivateNext == BuildInv /\ Private /\ [Next]_vars => Private'
<1>. SUFFICES ASSUME BuildInv, Private, [Next]_vars, NEW b \in Builds PROVE PrivateOf(b)'
  BY DEF Private
<1>0. PrivateOf(b) /\ TypeInv /\ pc \in [Builds -> Where]
  BY DEF Private, BuildInv, TypeInv, TypeOK
<1>1. CASE Tick \/ UNCHANGED vars
  <2>1. /\ pc' = pc /\ todo' = todo /\ target' = target /\ workspace' = workspace
        /\ results' = results /\ dirs' = dirs /\ files' = files
    BY <1>1 DEF Tick, vars, context, disk
  <2>. QED
    BY <1>0, <2>1, PrivateFrame
<1>2. ASSUME NEW c \in Builds \ {b}, Start(c) \/ Work(c) \/ Interrupt(c) PROVE PrivateOf(b)'
  <2>1. /\ pc'[b] = pc[b] /\ todo'[b] = todo[b] /\ target'[b] = target[b]
        /\ workspace'[b] = workspace[b] /\ results'[b] = results[b]
    BY <1>0, <1>2, OthersStep
  <2>2. \A r \in Roots : Untouched(b, r) => dirs[r] \subseteq dirs'[r] /\ files'[r] = files[r]
    <3>. SUFFICES ASSUME NEW r \in Roots, Untouched(b, r)
                  PROVE  dirs[r] \subseteq dirs'[r] /\ files'[r] = files[r]
      OBVIOUS
    <3>1. workspace[c] # r
      BY DEF Untouched
    <3>2. CASE Start(c)
      BY <3>2 DEF Start, disk
    <3>3. CASE Work(c)
      BY <1>0, <3>1, <3>3, WorkOnRoots
    <3>4. CASE Interrupt(c)
      BY <1>0, <3>1, <3>4, InterruptOnRoots
    <3>. QED
      BY <1>2, <3>2, <3>3, <3>4
  <2>. QED
    BY <1>0, <2>1, <2>2, PrivateFrame
<1>3. CASE Start(b)
  <2>1. /\ pc'[b] = "loop" /\ pc[b] \in {"idle", "done"} /\ workspace' = workspace
        /\ results' = results /\ dirs' = dirs /\ files' = files
    BY <1>0, <1>3 DEF Start, context, disk
  <2>. QED
    BY <1>0, <2>1, PrivateFrame
<1>4. CASE Interrupt(b)
  <2>1. /\ pc'[b] = "interrupted" /\ workspace' = workspace /\ results' = results
        /\ dirs' = dirs
    BY <1>0, <1>4 DEF Interrupt, context
  <2>. QED
    BY <1>0, <2>1, PrivateFrame
<1>. QED
  BY <1>0, <1>1, <1>2, <1>3, <1>4, PrivateWork DEF Next

LEMMA PrivateInit == Init => Logged /\ Private
<1>. SUFFICES ASSUME Init PROVE Logged /\ Private
  OBVIOUS
<1>1. \A b \in Builds : pc[b] = "idle" /\ at[b] = 0 /\ workspace[b] = NoRoot
  BY DEF Init
<1>. QED
  BY <1>1 DEF Logged, Private, PrivateOf, MakingOf, MadeOf, RecordedOf

\* However many builds there are and whatever fails: as long as no other context
\* has had a build's root, the build finds its directories there, and a manifest
\* that it reported is on the disk, whole, with the results that came before it.
THEOREM PrivacyIsRespected == Spec => []PrivateWorkspace
<1>1. Private => PrivateWorkspace
  BY DEF Private, PrivateOf, MadeOf, RecordedOf, ManifestRecords, PrivateWorkspace
<1>2. Spec => []TypeInv
  BY InitTypes, NextTypes, PTL DEF Spec
<1>3. Spec => []AtItsStage
  BY <1>2, AtItsStageInit, AtItsStageNext, PTL DEF Spec
<1>4. Spec => []Given
  BY <1>2, <1>3, GivenInit, GivenNext, PTL DEF Spec
<1>5. Spec => []Logged
  BY <1>2, <1>3, PrivateInit, LoggedNext, PTL DEF Spec
<1>6. Spec => []BuildInv
  BY <1>2, <1>3, <1>4, <1>5, PTL DEF BuildInv
<1>. QED
  BY <1>1, <1>6, PrivateInit, PrivateNext, PTL DEF Spec

-----------------------------------------------------------------------------
(* One build at a time *)

Alone == \A b, c \in Builds : b # c /\ pc[b] \notin Resting => pc[c] \in Resting

\* In its first run a build finds its root empty, so that what is there while it
\* runs is its own.
OwnFilesOf(b) ==
  /\ runs[b] = 0 => pc[b] = "idle" /\ workspace[b] = NoRoot
  /\ pc[b] = "mkdir" => files[target[b]] = {}
  /\ pc[b] \notin Resting /\ runs[b] <= 1 /\ workspace[b] # NoRoot =>
       \A f \in files[workspace[b]] : f.by = b

OwnFiles == \A b \in Builds : OwnFilesOf(b)

LEMMA WorkIsRunning ==
  ASSUME NEW b \in Builds, Work(b) \/ Interrupt(b)
  PROVE  pc[b] \notin Resting
  BY DEF Work, Interrupt, Dispatch, Return, ValidateConfig, ProbeWorkspace, MakeDirectory,
         GenerateManifest, WriteManifest, Finalize, Provenance, WriteProvenance, BuildLog,
         WriteLog, Clean, RemoveEntry, RemoveRoot, Resting

LEMMA AloneNext ==
  ASSUME ~Overlap, TypeInv, Alone, [Next]_vars
  PROVE  Alone'
<1>1. pc \in [Builds -> Where]
  BY DEF TypeInv, TypeOK
<1>2. CASE Tick \/ UNCHANGED vars
  BY <1>2 DEF Tick, vars, Alone
<1>3. ASSUME NEW b \in Builds, Start(b) PROVE Alone'
  BY <1>1, <1>3 DEF Start, Alone
<1>4. ASSUME NEW b \in Builds, Work(b) \/ Interrupt(b) PROVE Alone'
  <2>1. pc[b] \notin Resting
    BY <1>4, WorkIsRunning
  <2>2. \A c \in Builds \ {b} : pc'[c] = pc[c] /\ pc[c] \in Resting
    BY <1>4, <2>1, OthersStep DEF Alone
  <2>. QED
    BY <2>2 DEF Alone
<1>. QED
  BY <1>2, <1>3, <1>4 DEF Next

\* A build writes nothing in anybody else's name.
LEMMA WorkWrites ==
  ASSUME TypeInv, NEW b \in Builds, Work(b), NEW r \in Roots
  PROVE  \A f \in files'[r] : f \in files[r] \/ f.by = b
<1>0. files \in [Roots -> SUBSET File]
  BY DEF TypeInv, TypeOK
<1>1. CASE files' = files
  BY <1>1
<1>2. ASSUME NEW name, NEW whole, Put(b, workspace[b], name, whole)
      PROVE  \A f \in files'[r] : f \in files[r] \/ f.by = b
  BY <1>0, <1>2 DEF Put
<1>3. CASE WriteManifest(b) \/ WriteProvenance(b) \/ WriteLog(b)
  <2>1. PICK name \in FileNames : WriteSucceeds(b, name) \/ WriteFails(b, name)
    BY <1>3 DEF WriteManifest, WriteProvenance, WriteLog, FileNames
  <2>. QED
    BY <1>1, <1>2, <2>1 DEF WriteSucceeds, WriteFails
<1>4. CASE RemoveEntry(b)
  BY <1>0, <1>4 DEF RemoveEntry, Without
<1>. QED
  BY <1>1, <1>3, <1>4
     DEF Work, Dispatch, Return, ValidateConfig, ProbeWorkspace, MakeDirectory,
         GenerateManifest, Finalize, Provenance, BuildLog, Clean, RemoveRoot, EnsureParent,
         disk

\* A root that is not occupied holds no file.
LEMMA FreeIsEmpty ==
  ASSUME TypeInv, Standing, NEW r \in Roots, ~Occupied(r)
  PROVE  files[r] = {}
<1>1. \A f \in files[r] : f.name \in FileNames
  BY DEF TypeInv, TypeOK, File
<1>2. \A f \in files[r] : DirOf[f.name] \in LayoutDirs /\ DirOf[f.name] = "."
  BY <1>1, DirOfFacts DEF Standing, Occupied
<1>. QED
  BY <1>2, LayoutFacts

LEMMA RunsOnlyGrow ==
  ASSUME NEW b \in Builds, Work(b) \/ Interrupt(b)
  PROVE  runs' = runs
  BY DEF Work, Interrupt, Dispatch, Return, ValidateConfig, ProbeWorkspace, MakeDirectory,
         GenerateManifest, WriteManifest, Finalize, Provenance, WriteProvenance, BuildLog,
         WriteLog, Clean, RemoveEntry, RemoveRoot, EnsureParent, Finish, Goto, loop

LEMMA OwnFilesWork ==
  ASSUME TypeInv, Standing, NEW b \in Builds, OwnFilesOf(b), Work(b)
  PROVE  OwnFilesOf(b)'
<1>0. /\ pc \in [Builds -> Where] /\ workspace \in [Builds -> Roots \union {NoRoot}]
      /\ target \in [Builds -> Roots \union {NoRoot}] /\ runs \in [Builds -> Nat]
      /\ pc[b] \notin Resting /\ runs' = runs
  BY WorkIsRunning, RunsOnlyGrow DEF TypeInv, TypeOK
<1>1. runs[b] # 0
  BY <1>0 DEF OwnFilesOf, Resting
<1>2. pc'[b] = "mkdir" => files'[target'[b]] = {}
  <2>1. CASE ProbeWorkspace(b)
    <3>1. files' = files /\ target'[b] = ChosenRoot(b)
      BY <1>0, <2>1 DEF ProbeWorkspace, disk
    <3>2. ChosenRoot(b) \in Roots
      BY PlansAreTyped, RootsAreTyped DEF ChosenRoot, IsPlan, TypeInv, TypeOK
    <3>3. pc'[b] = "mkdir" => ~Occupied(ChosenRoot(b))
      BY <1>0, <2>1 DEF ProbeWorkspace, Finish, Goto
    <3>. QED
      BY <3>1, <3>2, <3>3, FreeIsEmpty
  <2>2. CASE MakeDirectory(b)
    BY <2>2 DEF MakeDirectory, OwnFilesOf
  <2>3. ASSUME ~ProbeWorkspace(b), ~MakeDirectory(b) PROVE pc'[b] # "mkdir"
    <3>1. CASE Dispatch(b)
      <4>1. PICK i \in Ahead(b) : pc' = [pc EXCEPT ![b] = Registered[i]]
        BY <3>1 DEF Dispatch
      <4>2. Registered[i] \in StageNames
        BY RegisteredIsNonEmpty DEF Ahead, Chosen
      <4>. QED
        BY <1>0, <4>1, <4>2 DEF StageNames
    <3>2. CASE Return(b) \/ ValidateConfig(b)
      BY <1>0, <3>2 DEF Return, ValidateConfig, Finish
    <3>3. CASE \/ GenerateManifest(b) \/ WriteManifest(b) \/ Provenance(b)
               \/ WriteProvenance(b) \/ BuildLog(b) \/ WriteLog(b)
      BY <1>0, <3>3 DEF GenerateManifest, WriteManifest, Provenance, WriteProvenance,
                        BuildLog, WriteLog, EnsureParent, Finish, Goto
    <3>4. CASE Finalize(b) \/ Clean(b) \/ RemoveEntry(b) \/ RemoveRoot(b)
      BY <1>0, <3>4 DEF Finalize, Clean, RemoveEntry, RemoveRoot, Finish, Goto
    <3>. QED
      BY <2>3, <3>1, <3>2, <3>3, <3>4 DEF Work
  <2>. QED
    BY <2>1, <2>2, <2>3
<1>3. ASSUME runs[b] <= 1, workspace'[b] # NoRoot, NEW f \in files'[workspace'[b]]
      PROVE  f.by = b
  <2>1. CASE workspace'[b] = workspace[b]
    <3>1. workspace[b] \in Roots
      BY <1>0, <1>3, <2>1
    <3>. QED
      BY <1>0, <1>3, <2>1, <3>1, WorkWrites DEF OwnFilesOf
  <2>2. CASE workspace'[b] # workspace[b]
    <3>1. /\ pc[b] = "mkdir" /\ workspace'[b] = target[b] /\ MakeDirectory(b)
      BY <1>0, <2>2
         DEF Work, Dispatch, Return, ValidateConfig, ProbeWorkspace, MakeDirectory,
             GenerateManifest, WriteManifest, Finalize, Provenance, WriteProvenance, BuildLog,
             WriteLog, Clean, RemoveEntry, RemoveRoot, EnsureParent, context
    <3>2. files' = files /\ files[target[b]] = {}
      BY <3>1 DEF MakeDirectory, OwnFilesOf
    <3>. QED
      BY <1>3, <3>1, <3>2
  <2>. QED
    BY <2>1, <2>2
<1>. QED
  BY <1>0, <1>1, <1>2, <1>3 DEF OwnFilesOf

LEMMA OwnFilesNext ==
  ASSUME TypeInv, Standing, Alone, OwnFiles, [Next]_vars
  PROVE  OwnFiles'
<1>. SUFFICES ASSUME NEW b \in Builds PROVE OwnFilesOf(b)'
  BY DEF OwnFiles
<1>0. OwnFilesOf(b) /\ pc \in [Builds -> Where] /\ runs \in [Builds -> Nat]
  BY DEF OwnFiles, TypeInv, TypeOK
<1>1. CASE Tick \/ UNCHANGED vars
  BY <1>0, <1>1 DEF Tick, vars, context, loop, disk, OwnFilesOf
<1>2. CASE \E c \in Builds \ {b} : Start(c)
  <2>1. PICK c \in Builds \ {b} : Start(c)
    BY <1>2
  <2>2. /\ pc'[b] = pc[b] /\ runs'[b] = runs[b] /\ workspace' = workspace
        /\ target' = target /\ files' = files
    BY <1>0, <2>1 DEF Start, context, disk
  <2>. QED
    BY <1>0, <2>2 DEF OwnFilesOf
<1>3. CASE \E c \in Builds \ {b} : Work(c) \/ Interrupt(c)
  <2>1. PICK c \in Builds \ {b} : Work(c) \/ Interrupt(c)
    BY <1>3
  <2>2. pc'[b] = pc[b] /\ workspace'[b] = workspace[b]
    BY <2>1, OthersStep
  <2>3. runs' = runs /\ pc[b] \in Resting
    BY <2>1, WorkIsRunning, RunsOnlyGrow DEF Alone
  <2>. QED
    BY <1>0, <2>2, <2>3 DEF OwnFilesOf, Resting
<1>4. CASE Start(b)
  <2>1. /\ pc'[b] = "loop" /\ runs'[b] = runs[b] + 1 /\ workspace' = workspace
        /\ runs[b] \in Nat
    BY <1>0, <1>4 DEF Start, context
  <2>. QED
    BY <1>0, <2>1 DEF OwnFilesOf
<1>5. CASE Interrupt(b)
  <2>1. /\ pc'[b] = "interrupted" /\ runs' = runs /\ pc[b] # "idle"
    BY <1>0, <1>5 DEF Interrupt, loop, Resting
  <2>. QED
    BY <1>0, <2>1 DEF OwnFilesOf, Resting
<1>6. CASE Work(b)
  BY <1>0, <1>6, OwnFilesWork
<1>. QED
  BY <1>1, <1>2, <1>3, <1>4, <1>5, <1>6 DEF Next

LEMMA AloneInit == Init => Alone /\ OwnFiles
<1>. SUFFICES ASSUME Init PROVE Alone /\ OwnFiles
  OBVIOUS
<1>1. \A b \in Builds : pc[b] = "idle" /\ workspace[b] = NoRoot
  BY DEF Init
<1>. QED
  BY <1>1 DEF Alone, OwnFiles, OwnFilesOf, Resting

\* When no build starts while another one runs, whoever the builds are and
\* wherever they work: in its first run a context touches no other's file.
THEOREM NobodyTrespasses == ASSUME ~Overlap PROVE Spec => NoTrespass
<1>1. TypeInv /\ OwnFiles /\ [Next]_vars =>
        [\A b \in Builds : <<pc[b], todo[b]>>' # <<pc[b], todo[b]>> /\ runs[b] <= 1 =>
           \A r \in Roots : \A f \in files[r] : f.by # b => f \in files'[r]]_vars
  <2>. SUFFICES ASSUME TypeInv, OwnFiles, [Next]_vars, NEW b \in Builds,
                       <<pc[b], todo[b]>>' # <<pc[b], todo[b]>>, runs[b] <= 1,
                       NEW r \in Roots, NEW f \in files[r], f.by # b
                PROVE  f \in files'[r]
    OBVIOUS
  <2>1. CASE Tick \/ UNCHANGED vars
    BY <2>1 DEF Tick, vars, disk
  <2>2. CASE Start(b)
    BY <2>2 DEF Start, disk
  <2>3. CASE Work(b) \/ Interrupt(b)
    <3>1. r # workspace[b]
      BY <2>3, WorkIsRunning, RootsAreTyped DEF OwnFiles, OwnFilesOf
    <3>2. files'[r] = files[r]
      BY <2>3, <3>1, WorkOnRoots, InterruptOnRoots
    <3>. QED
      BY <3>2
  <2>4. CASE \E c \in Builds \ {b} : Start(c) \/ Work(c) \/ Interrupt(c)
    BY <2>4, OthersStep
  <2>. QED
    BY <2>1, <2>2, <2>3, <2>4 DEF Next
<1>2. Spec => []TypeInv
  BY InitTypes, NextTypes, PTL DEF Spec
<1>3. Spec => []RootIsLast
  BY <1>2, StandingInit, RootIsLastNext, PTL DEF Spec
<1>4. Spec => []Standing
  BY <1>2, <1>3, StandingInit, StandingNext, PTL DEF Spec
<1>5. TypeInv /\ Alone /\ [Next]_vars => Alone'
  BY AloneNext
<1>6. Spec => []Alone
  BY <1>2, <1>5, AloneInit, PTL DEF Spec
<1>7. TypeInv /\ Standing /\ Alone /\ OwnFiles /\ [Next]_vars => OwnFiles'
  BY OwnFilesNext
<1>8. Spec => []OwnFiles
  BY <1>2, <1>4, <1>6, <1>7, AloneInit, PTL DEF Spec
<1>. QED
  BY <1>1, <1>2, <1>8, PTL DEF Spec, NoTrespass
=============================================================================
