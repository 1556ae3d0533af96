------------------------- MODULE BuildWorkspaceProofs -------------------------
(* What holds of the workspaces of BuildPipeline for every set of builds,     *)
(* every pipeline, every plan and every choice of faults.                     *)
EXTENDS BuildPipelineProofs

\* The stage that a process is in at each place where it can be.
StageOf(p) ==
  CASE p = "mkdir"                               -> "prepare-workspace"
    [] p = "write-manifest"                      -> "generate-manifest"
    [] p \in HoldsWorkspace \ {"write-manifest"} -> "finalize"
    [] OTHER                                     -> p

\* A result is attributed to the stage that returns it.
AtItsStage == \A b \in Builds : InStage(b) => Registered[at[b]] = StageOf(pc[b])

PrepareSuccess == [stage |-> "prepare-workspace", code |-> 0]

\* A stage that is about to report that it wrote something has a workspace, and
\* a build gets one exactly when it reports that it prepared one.
GivenOf(b) ==
  /\ workspace[b] # NoRoot <=> Prepared(b) # {}
  /\ \A i \in 1 .. Len(results[b]) :
       results[b][i].stage \in {"generate-manifest", "finalize"} /\ results[b][i].code = 0
         => \E j \in 1 .. (i - 1) : results[b][j] = PrepareSuccess

Given == \A b \in Builds : GivenOf(b)

-----------------------------------------------------------------------------
(* Steps and the stages they belong to *)

\* What a step of a running build can do to pc, results and workspace.
LEMMA StageSteps ==
  ASSUME NEW b \in Builds, Work(b)
  PROVE  \/ Dispatch(b) /\ workspace' = workspace
         \/ Return(b) /\ workspace' = workspace
         \/ /\ InStage(b)
            /\ \E code \in Codes :
                 /\ Finish(b, code)
                 /\ code = 0 => pc[b] \in HoldsWorkspace \union {"validate-config"}
            /\ workspace' = workspace
         \/ /\ InStage(b)
            /\ pc[b] = "mkdir"
            /\ Finish(b, 0)
            /\ workspace' = [workspace EXCEPT ![b] = target[b]]
         \/ /\ InStage(b)
            /\ \E p \in HoldsWorkspace \union {"mkdir"} :
                 Goto(b, p) /\ StageOf(p) = StageOf(pc[b])
            /\ workspace' = workspace
<1>. USE DEF InStage, Resting, StageOf, HoldsWorkspace
<1>1. ValidateCode(plan[b].config) \in Codes
  BY DEF ValidateCode, Codes
<1>2. CASE Dispatch(b) \/ Return(b)
  BY <1>2 DEF Dispatch, Return, context
<1>3. CASE ValidateConfig(b)
  BY <1>1, <1>3 DEF ValidateConfig
<1>4. CASE ProbeWorkspace(b)
  BY <1>4 DEF ProbeWorkspace, Codes
<1>5. CASE MakeDirectory(b)
  BY <1>5 DEF MakeDirectory, Codes
<1>6. CASE GenerateManifest(b)
  BY <1>6 DEF GenerateManifest, EnsureParent, Codes
<1>7. CASE WriteManifest(b)
  BY <1>7 DEF WriteManifest, Codes
<1>8. CASE Provenance(b) \/ WriteProvenance(b)
  BY <1>8 DEF Provenance, WriteProvenance, EnsureParent, Codes
<1>9. CASE BuildLog(b) \/ WriteLog(b)
  BY <1>9 DEF BuildLog, WriteLog, EnsureParent, Codes
<1>10. CASE Finalize(b)
  BY <1>10 DEF Finalize, Codes
<1>11. CASE Clean(b) \/ RemoveEntry(b) \/ RemoveRoot(b)
  BY <1>11 DEF Clean, RemoveEntry, RemoveRoot, Codes
<1>. QED
  BY <1>2, <1>3, <1>4, <1>5, <1>6, <1>7, <1>8, <1>9, <1>10, <1>11 DEF Work

LEMMA AtItsStageNext == TypeInv /\ AtItsStage /\ [Next]_vars => AtItsStage'
<1>. SUFFICES ASSUME TypeInv, AtItsStage, [Next]_vars PROVE AtItsStage'
  OBVIOUS
<1>1. /\ pc \in [Builds -> Where] /\ at \in [Builds -> 0 .. Len(Registered)]
  BY DEF TypeInv, TypeOK
<1>2. CASE Tick \/ UNCHANGED vars
  BY <1>2 DEF Tick, vars, loop, AtItsStage, InStage
<1>3. ASSUME NEW b \in Builds, Start(b) \/ Interrupt(b) PROVE AtItsStage'
  BY <1>1, <1>3 DEF Start, Interrupt, loop, AtItsStage, InStage, Resting
<1>4. ASSUME NEW b \in Builds, Work(b) PROVE AtItsStage'
  <2>1. CASE Dispatch(b)
    <3>1. PICK i \in Ahead(b) :
            at' = [at EXCEPT ![b] = i] /\ pc' = [pc EXCEPT ![b] = Registered[i]]
      BY <2>1 DEF Dispatch
    <3>2. Registered[i] \in StageNames
      BY RegisteredIsNonEmpty DEF Ahead, Chosen
    <3>3. StageOf(Registered[i]) = Registered[i]
      BY <3>2 DEF StageOf, StageNames, HoldsWorkspace
    <3>. QED
      BY <1>1, <3>1, <3>3 DEF AtItsStage, InStage
  <2>2. CASE Return(b)
    BY <1>1, <2>2 DEF Return, AtItsStage, InStage, Resting
  <2>3. CASE \E code \in Codes : Finish(b, code)
    BY <1>1, <2>3 DEF Finish, AtItsStage, InStage
  <2>4. CASE /\ InStage(b)
             /\ \E p \in HoldsWorkspace \union {"mkdir"} : Goto(b, p) /\ StageOf(p) = StageOf(pc[b])
    BY <1>1, <2>4 DEF Goto, loop, AtItsStage, InStage
  <2>5. 0 \in Codes
    BY DEF Codes
  <2>. QED
    BY <1>4, <2>1, <2>2, <2>3, <2>4, <2>5, StageSteps
<1>. QED
  BY <1>2, <1>3, <1>4 DEF Next

LEMMA AtItsStageInit == Init => AtItsStage
  BY DEF Init, AtItsStage, InStage, Resting

-----------------------------------------------------------------------------
(* Nothing is written without a workspace *)

\* What a result adds to those of its build.
LEMMA NewResult ==
  ASSUME TypeInv, AtItsStage, NEW b \in Builds, NEW code \in Codes, InStage(b),
         Finish(b, code)
  PROVE  /\ Len(results[b]) \in Nat
         /\ Len(results'[b]) = Len(results[b]) + 1
         /\ \A i \in 1 .. Len(results[b]) : results'[b][i] = results[b][i]
         /\ results'[b][Len(results[b]) + 1] = [stage |-> StageOf(pc[b]), code |-> code]
         /\ \A c \in Builds \ {b} : results'[c] = results[c]
<1>1. results \in [Builds -> Seq(Result)] /\ results[b] \in Seq(Result)
  BY DEF TypeInv, TypeOK
<1>2. Registered[at[b]] = StageOf(pc[b])
  BY DEF AtItsStage
<1>3. results' = [results EXCEPT ![b] =
                    Append(results[b], [stage |-> StageOf(pc[b]), code |-> code])]
  BY <1>2 DEF Finish
<1>. QED
  BY <1>1, <1>3

\* A build without a new result has been given nothing.
LEMMA GivenFrame ==
  ASSUME NEW c \in Builds, GivenOf(c), results'[c] = results[c], workspace'[c] = workspace[c]
  PROVE  GivenOf(c)' /\ Prepared(c)' = Prepared(c)
  BY DEF GivenOf, Prepared

LEMMA PreparedGrows ==
  ASSUME TypeInv, AtItsStage, NEW b \in Builds, NEW code \in Codes, InStage(b),
         Finish(b, code)
  PROVE  Prepared(b)' = IF StageOf(pc[b]) = "prepare-workspace" /\ code = 0
                        THEN Prepared(b) \union {Len(results[b]) + 1}
                        ELSE Prepared(b)
<1>. DEFINE new == [stage |-> StageOf(pc[b]), code |-> code]
            n == Len(results[b])
<1>1. /\ n \in Nat
      /\ Len(results'[b]) = n + 1
      /\ \A i \in 1 .. n : results'[b][i] = results[b][i]
      /\ results'[b][n + 1] = new
  BY NewResult
<1>2. Prepared(b) \subseteq 1 .. n
  BY DEF Prepared
<1>3. \A i \in 1 .. n : i \in Prepared(b)' <=> i \in Prepared(b)
  BY <1>1 DEF Prepared
<1>4. n + 1 \in Prepared(b)' <=> StageOf(pc[b]) = "prepare-workspace" /\ code = 0
  BY <1>1 DEF Prepared
<1>5. Prepared(b)' \subseteq 1 .. (n + 1)
  BY <1>1 DEF Prepared
<1>. HIDE DEF n, new
<1>6. CASE StageOf(pc[b]) = "prepare-workspace" /\ code = 0
  <2>1. Prepared(b)' = Prepared(b) \union {n + 1}
    BY <1>1, <1>2, <1>3, <1>4, <1>5, <1>6
  <2>. QED
    BY <1>6, <2>1 DEF n
<1>7. CASE ~(StageOf(pc[b]) = "prepare-workspace" /\ code = 0)
  <2>1. Prepared(b)' \subseteq 1 .. n
    BY <1>1, <1>4, <1>5, <1>7
  <2>2. Prepared(b)' = Prepared(b)
    BY <1>2, <1>3, <2>1
  <2>. QED
    BY <1>7, <2>2
<1>. QED
  BY <1>6, <1>7

LEMMA GivenFinish ==
  ASSUME TypeInv, AtItsStage, Given, NEW b \in Builds, NEW code \in Codes, InStage(b),
         Finish(b, code),
         code = 0 => pc[b] \in HoldsWorkspace \union {"validate-config"},
         workspace' = workspace
  PROVE  Given'
<1>. DEFINE n == Len(results[b])
<1>1. ASSUME NEW c \in Builds \ {b} PROVE GivenOf(c)'
  BY NewResult, GivenFrame DEF Given
<1>2. /\ n \in Nat
      /\ Len(results'[b]) = n + 1
      /\ \A i \in 1 .. n : results'[b][i] = results[b][i]
      /\ results'[b][n + 1] = [stage |-> StageOf(pc[b]), code |-> code]
  BY NewResult
<1>3. Prepared(b)' = Prepared(b)
  BY PreparedGrows DEF StageOf, HoldsWorkspace
<1>4. StageOf(pc[b]) \in {"generate-manifest", "finalize"} /\ code = 0 => Prepared(b) # {}
  BY RootsAreTyped DEF Given, GivenOf, TypeInv, Placed, StageOf
<1>5. \A j \in Prepared(b) : j \in 1 .. n /\ results[b][j] = PrepareSuccess
  BY DEF Prepared, PrepareSuccess
<1>6. ASSUME NEW i \in 1 .. (n + 1),
             results'[b][i].stage \in {"generate-manifest", "finalize"},
             results'[b][i].code = 0
      PROVE  \E j \in 1 .. (i - 1) : results'[b][j] = PrepareSuccess
  <2>1. CASE i = n + 1
    <3>1. PICK j \in Prepared(b) : TRUE
      BY <1>2, <1>4, <1>6, <2>1
    <3>. QED
      BY <1>2, <1>5, <2>1, <3>1
  <2>2. CASE i \in 1 .. n
    <3>1. PICK j \in 1 .. (i - 1) : results[b][j] = PrepareSuccess
      BY <1>2, <1>6, <2>2 DEF Given, GivenOf
    <3>. QED
      BY <1>2, <2>2, <3>1
  <2>. QED
    BY <1>2, <2>1, <2>2
<1>7. GivenOf(b)'
  BY <1>2, <1>3, <1>6 DEF Given, GivenOf
<1>. QED
  BY <1>1, <1>7 DEF Given

LEMMA GivenMkdir ==
  ASSUME TypeInv, AtItsStage, Given, NEW b \in Builds, InStage(b), pc[b] = "mkdir",
         Finish(b, 0), workspace' = [workspace EXCEPT ![b] = target[b]]
  PROVE  Given'
<1>. DEFINE n == Len(results[b])
<1>0. 0 \in Codes /\ StageOf(pc[b]) = "prepare-workspace"
  BY DEF Codes, StageOf, HoldsWorkspace
<1>1. ASSUME NEW c \in Builds \ {b} PROVE GivenOf(c)'
  BY <1>0, NewResult, GivenFrame DEF Given, TypeInv, TypeOK
<1>2. /\ n \in Nat
      /\ Len(results'[b]) = n + 1
      /\ \A i \in 1 .. n : results'[b][i] = results[b][i]
      /\ results'[b][n + 1] = [stage |-> "prepare-workspace", code |-> 0]
  BY <1>0, NewResult
<1>3. n + 1 \in Prepared(b)'
  BY <1>0, PreparedGrows
<1>4. workspace'[b] # NoRoot
  BY RootsAreTyped DEF TypeInv, TypeOK, Placed
<1>5. ASSUME NEW i \in 1 .. (n + 1),
             results'[b][i].stage \in {"generate-manifest", "finalize"},
             results'[b][i].code = 0
      PROVE  \E j \in 1 .. (i - 1) : results'[b][j] = PrepareSuccess
  <2>1. i \in 1 .. n
    BY <1>2, <1>5
  <2>2. PICK j \in 1 .. (i - 1) : results[b][j] = PrepareSuccess
    BY <1>2, <1>5, <2>1 DEF Given, GivenOf
  <2>. QED
    BY <1>2, <2>1, <2>2
<1>6. GivenOf(b)'
  BY <1>2, <1>3, <1>4, <1>5 DEF GivenOf
<1>. QED
  BY <1>1, <1>6 DEF Given

LEMMA GivenNext == TypeInv /\ AtItsStage /\ Given /\ [Next]_vars => Given'
<1>. SUFFICES ASSUME TypeInv, AtItsStage, Given, [Next]_vars PROVE Given'
  OBVIOUS
<1>1. ASSUME results' = results, workspace' = workspace PROVE Given'
  BY <1>1, GivenFrame DEF Given
<1>2. CASE Tick \/ UNCHANGED vars
  BY <1>1, <1>2 DEF Tick, vars, context
<1>3. ASSUME NEW b \in Builds, Start(b) \/ Interrupt(b) PROVE Given'
  BY <1>1, <1>3 DEF Start, Interrupt, context
<1>4. ASSUME NEW b \in Builds, Work(b) PROVE Given'
  BY <1>1, <1>4, StageSteps, GivenFinish, GivenMkdir DEF Dispatch, Return, Goto, context
<1>. QED
  BY <1>2, <1>3, <1>4 DEF Next

LEMMA GivenInit == Init => Given
  BY DEF Init, Given, GivenOf, Prepared

\* For every pipeline, plan and fault, however builds overlap: a context whose
\* results claim a manifest or a finalized build has prepared a workspace before.
THEOREM NothingWithoutWorkspace == Spec => []NeedsWorkspace
<1>1. Given => NeedsWorkspace
  BY DEF Given, GivenOf, NeedsWorkspace, PrepareSuccess
<1>2. Spec => []TypeInv
  BY InitTypes, NextTypes, PTL DEF Spec
<1>3. Spec => []AtItsStage
  BY <1>2, AtItsStageInit, AtItsStageNext, PTL DEF Spec
<1>. QED
  BY <1>1, <1>2, <1>3, GivenInit, GivenNext, PTL DEF Spec

-----------------------------------------------------------------------------
(* What a successful clean-up leaves *)

\* Every file is in a directory that is there, and every directory is in a root
\* that is there.
Standing ==
  \A r \in Roots : /\ dirs[r] # {} => "." \in dirs[r]
                   /\ \A f \in files[r] : DirOf[f.name] \in dirs[r]

\* rmtree leaves the root for the end.
RootIsLast == \A b \in Builds : "." \notin todo[b]

LEMMA StandingPut ==
  ASSUME TypeInv, Standing, NEW b \in Builds, NEW r \in Roots, NEW name \in FileNames,
         NEW whole \in BOOLEAN, DirOf[name] \in dirs[r], Put(b, r, name, whole),
         dirs' = dirs
  PROVE  Standing'
<1>1. files \in [Roots -> SUBSET File]
  BY DEF TypeInv, TypeOK
<1>2. \A q \in Roots \ {r} : files'[q] = files[q]
  BY <1>1 DEF Put
<1>3. \A f \in files'[r] : f \in files[r] \/ f.name = name
  BY <1>1 DEF Put
<1>. QED
  BY <1>2, <1>3 DEF Standing

LEMMA StandingMake ==
  ASSUME TypeInv, Standing, NEW r \in Roots, files' = files,
         \/ MkdirFails(r)
         \/ \E d \in LayoutDirs : dirs' = [dirs EXCEPT ![r] = @ \union {".", d}]
  PROVE  Standing'
<1>1. dirs \in [Roots -> SUBSET Entries]
  BY DEF TypeInv, TypeOK
<1>2. \A q \in Roots : dirs[q] \subseteq dirs'[q] /\ (dirs'[q] # dirs[q] => "." \in dirs'[q])
  BY <1>1 DEF MkdirFails
<1>. QED
  BY <1>2 DEF Standing

LEMMA StandingWork ==
  ASSUME TypeInv, Standing, RootIsLast, NEW b \in Builds, Work(b)
  PROVE  Standing'
<1>0. /\ dirs \in [Roots -> SUBSET Entries] /\ files \in [Roots -> SUBSET File]
      /\ todo \in [Builds -> SUBSET Entries]
  BY DEF TypeInv, TypeOK
<1>1. ASSUME dirs' = dirs, files' = files PROVE Standing'
  BY <1>1 DEF Standing
<1>2. CASE \/ Dispatch(b) \/ Return(b) \/ ValidateConfig(b) \/ ProbeWorkspace(b)
           \/ Finalize(b) \/ Clean(b)
  BY <1>1, <1>2 DEF Dispatch, Return, ValidateConfig, ProbeWorkspace, Finalize, Clean, disk
<1>3. CASE MakeDirectory(b)
  BY <1>3, StandingMake, LayoutFacts DEF MakeDirectory, TypeInv, Placed
<1>4. ASSUME NEW name \in FileNames, NEW writing, NEW code, workspace[b] \in Roots,
             EnsureParent(b, name, writing, code)
      PROVE  Standing'
  BY <1>4, StandingMake, DirOfFacts DEF EnsureParent
<1>5. CASE GenerateManifest(b)
  <2>1. CASE workspace[b] = NoRoot
    BY <1>1, <1>5, <2>1, RootsAreTyped DEF GenerateManifest, EnsureParent, disk
  <2>2. CASE workspace[b] # NoRoot
    <3>1. workspace[b] \in Roots
      BY <2>2 DEF TypeInv, TypeOK
    <3>. QED
      BY <1>4, <1>5, <2>2, <3>1 DEF GenerateManifest, FileNames
  <2>. QED
    BY <2>1, <2>2
<1>6. CASE Provenance(b) \/ BuildLog(b)
  BY <1>4, <1>6 DEF Provenance, BuildLog, FileNames, TypeInv, Placed, HoldsWorkspace
<1>7. CASE WriteManifest(b) \/ WriteProvenance(b) \/ WriteLog(b)
  <2>1. PICK name \in FileNames : WriteSucceeds(b, name) \/ WriteFails(b, name)
    BY <1>7 DEF WriteManifest, WriteProvenance, WriteLog, FileNames
  <2>2. dirs' = dirs /\ workspace[b] \in Roots
    BY <1>7 DEF WriteManifest, WriteProvenance, WriteLog, TypeInv, Placed, HoldsWorkspace
  <2>. QED
    BY <1>1, <2>1, <2>2, StandingPut DEF WriteSucceeds, WriteFails
<1>8. CASE RemoveEntry(b)
  <2>1. workspace[b] \in Roots
    BY <1>8 DEF RemoveEntry, TypeInv, Placed, HoldsWorkspace
  <2>2. PICK d \in todo[b] :
          \/ /\ dirs' = [dirs EXCEPT ![workspace[b]] = @ \ {d}]
             /\ files' = [files EXCEPT ![workspace[b]] = Without(workspace[b], d)]
          \/ /\ dirs' = dirs
             /\ \E left \in SUBSET (files[workspace[b]] \ Without(workspace[b], d)) :
                  files' = [files EXCEPT ![workspace[b]] = Without(workspace[b], d) \union left]
    BY <1>8 DEF RemoveEntry
  <2>3. d # "."
    BY DEF RootIsLast
  <2>4. \A r \in Roots : \A f \in files'[r] : f \in files[r]
    BY <1>0, <2>1, <2>2 DEF Without
  <2>5. CASE dirs' = dirs
    BY <2>4, <2>5 DEF Standing
  <2>6. CASE /\ dirs' = [dirs EXCEPT ![workspace[b]] = @ \ {d}]
             /\ files' = [files EXCEPT ![workspace[b]] = Without(workspace[b], d)]
    <3>1. ASSUME NEW r \in Roots PROVE dirs'[r] # {} => "." \in dirs'[r]
      BY <1>0, <2>1, <2>3, <2>6 DEF Standing
    <3>2. ASSUME NEW r \in Roots, NEW f \in files'[r] PROVE DirOf[f.name] \in dirs'[r]
      BY <1>0, <2>1, <2>4, <2>6, <3>2 DEF Standing, Without
    <3>. QED
      BY <3>1, <3>2 DEF Standing
  <2>. QED
    BY <2>2, <2>5, <2>6
<1>9. CASE RemoveRoot(b)
  <2>1. files' = files /\ workspace[b] \in Roots
    BY <1>9 DEF RemoveRoot, TypeInv, Placed, HoldsWorkspace
  <2>2. CASE dirs' = dirs
    BY <1>1, <2>1, <2>2
  <2>3. CASE /\ ~Occupied(workspace[b])
             /\ dirs' = [dirs EXCEPT ![workspace[b]] = {}]
    <3>1. files[workspace[b]] = {}
      BY <1>0, <2>1, <2>3, DirOfFacts, LayoutFacts DEF Standing, Occupied, File
    <3>. QED
      BY <1>0, <2>1, <2>3, <3>1 DEF Standing
  <2>. QED
    BY <1>9, <2>2, <2>3 DEF RemoveRoot
<1>. QED
  BY <1>2, <1>3, <1>5, <1>6, <1>7, <1>8, <1>9 DEF Work

LEMMA RootIsLastNext == TypeInv /\ RootIsLast /\ [Next]_vars => RootIsLast'
<1>. SUFFICES ASSUME TypeInv, RootIsLast, [Next]_vars PROVE RootIsLast'
  OBVIOUS
<1>1. todo \in [Builds -> SUBSET Entries]
  BY DEF TypeInv, TypeOK
<1>2. CASE Tick \/ UNCHANGED vars
  BY <1>2 DEF Tick, vars, RootIsLast
<1>3. ASSUME NEW b \in Builds, Start(b) \/ Interrupt(b) PROVE RootIsLast'
  BY <1>3 DEF Start, Interrupt, RootIsLast
<1>4. ASSUME NEW b \in Builds, Work(b) PROVE RootIsLast'
  <2>1. CASE ProbeWorkspace(b) \/ MakeDirectory(b) \/ Clean(b) \/ RemoveEntry(b)
    BY <1>1, <2>1, LayoutFacts
       DEF ProbeWorkspace, MakeDirectory, Clean, RemoveEntry, RootIsLast
  <2>2. CASE ~(ProbeWorkspace(b) \/ MakeDirectory(b) \/ Clean(b) \/ RemoveEntry(b))
    BY <1>4, <2>2
       DEF Work, Dispatch, Return, ValidateConfig, GenerateManifest, WriteManifest, Finalize,
           Provenance, WriteProvenance, BuildLog, WriteLog, RemoveRoot, EnsureParent, RootIsLast
  <2>. QED
    BY <2>1, <2>2
<1>. QED
  BY <1>2, <1>3, <1>4 DEF Next

LEMMA StandingInit == Init => Standing /\ RootIsLast
  BY FoundIsTyped DEF Init, Standing, RootIsLast

LEMMA StandingNext == TypeInv /\ Standing /\ RootIsLast /\ [Next]_vars => Standing'
<1>. SUFFICES ASSUME TypeInv, Standing, RootIsLast, [Next]_vars PROVE Standing'
  OBVIOUS
<1>1. CASE Tick \/ UNCHANGED vars
  BY <1>1 DEF Tick, vars, disk, Standing
<1>2. ASSUME NEW b \in Builds, Start(b) PROVE Standing'
  BY <1>2 DEF Start, disk, Standing
<1>3. ASSUME NEW b \in Builds, Interrupt(b) PROVE Standing'
  <2>1. CASE files' = files
    BY <1>3, <2>1 DEF Interrupt, Standing
  <2>2. CASE files' # files
    <3>1. pc[b] \in {"write-manifest", "write-provenance", "write-log"}
      BY <1>3, <2>2 DEF Interrupt, Written
    <3>2. Written[pc[b]] \in FileNames /\ workspace[b] \in Roots
      BY <3>1 DEF Written, FileNames, TypeInv, Placed, HoldsWorkspace
    <3>. QED
      BY <1>3, <2>2, <3>2, StandingPut DEF Interrupt
  <2>. QED
    BY <2>1, <2>2
<1>. QED
  BY <1>1, <1>2, <1>3, StandingWork DEF Next

\* Only the end of clean() reports a success from inside it, and what is left
\* then is nothing.
LEMMA CleanSteps ==
  ASSUME TypeInv, Standing, NEW b \in Builds, Work(b), pc[b] \in {"clean", "rmtree"},
         results'[b] = Append(results[b], [stage |-> "finalize", code |-> 0])
  PROVE  dirs'[workspace[b]] = {} /\ files'[workspace[b]] = {}
<1>1. /\ results \in [Builds -> Seq(Result)] /\ dirs \in [Roots -> SUBSET Entries]
      /\ files \in [Roots -> SUBSET File]
  BY DEF TypeInv, TypeOK
<1>2. workspace[b] \in Roots
  BY DEF TypeInv, Placed, HoldsWorkspace
<1>3. \A code \in Codes : Finish(b, code) => code = 0
  <2>. SUFFICES ASSUME NEW code \in Codes, Finish(b, code) PROVE code = 0
    OBVIOUS
  <2>1. results'[b] = Append(results[b], [stage |-> Registered[at[b]], code |-> code])
    BY <1>1 DEF Finish
  <2>2. results'[b][Len(results[b]) + 1].code = code
    BY <1>1, <2>1
  <2>3. results'[b][Len(results[b]) + 1].code = 0
    BY <1>1
  <2>. QED
    BY <2>2, <2>3
<1>4. results'[b] # results[b]
  BY <1>1
<1>5. ASSUME ~Occupied(workspace[b]) \/ "." \notin dirs[workspace[b]]
      PROVE  files[workspace[b]] = {}
  <2>1. dirs[workspace[b]] \subseteq {"."}
    BY <1>2, <1>5 DEF Standing, Occupied
  <2>2. \A f \in files[workspace[b]] : f.name \in FileNames
    BY <1>1, <1>2 DEF File
  <2>3. \A f \in files[workspace[b]] : DirOf[f.name] \in LayoutDirs /\ DirOf[f.name] = "."
    BY <1>2, <2>1, <2>2, DirOfFacts DEF Standing
  <2>. QED
    BY <2>3, LayoutFacts
<1>6. CASE Clean(b)
  <2>1. "." \notin dirs[workspace[b]]
    BY <1>3, <1>4, <1>6 DEF Clean, Goto, Codes
  <2>. QED
    BY <1>2, <1>5, <1>6, <2>1 DEF Clean, Standing, disk
<1>7. CASE RemoveEntry(b)
  BY <1>3, <1>4, <1>7 DEF RemoveEntry, Goto, Codes
<1>8. CASE RemoveRoot(b)
  BY <1>1, <1>2, <1>3, <1>5, <1>8 DEF RemoveRoot, Codes
<1>. QED
  BY <1>6, <1>7, <1>8
     DEF Work, Dispatch, Return, ValidateConfig, ProbeWorkspace, MakeDirectory,
         GenerateManifest, WriteManifest, Finalize, Provenance, WriteProvenance, BuildLog,
         WriteLog

\* For any number of builds in one root, and whatever fails before: a finalize
\* that ran clean() and succeeded leaves no root, no directory and no file.
THEOREM SuccessfulCleanUpIsComplete == Spec => CleanedUp
<1>1. TypeInv /\ Standing /\ [Next]_vars =>
        [\A b \in Builds :
           /\ pc[b] \in {"clean", "rmtree"}
           /\ results'[b] = Append(results[b], [stage |-> "finalize", code |-> 0])
           => dirs'[workspace[b]] = {} /\ files'[workspace[b]] = {}]_vars
  <2>. SUFFICES ASSUME TypeInv, Standing, [Next]_vars, NEW b \in Builds,
                       pc[b] \in {"clean", "rmtree"},
                       results'[b] = Append(results[b], [stage |-> "finalize", code |-> 0])
                PROVE  dirs'[workspace[b]] = {} /\ files'[workspace[b]] = {}
    OBVIOUS
  <2>1. results \in [Builds -> Seq(Result)] /\ results'[b] # results[b]
    BY DEF TypeInv, TypeOK
  <2>2. CASE Tick \/ UNCHANGED vars
    BY <2>1, <2>2 DEF Tick, vars, context
  <2>3. ASSUME NEW c \in Builds, Start(c) \/ Interrupt(c) PROVE FALSE
    BY <2>1, <2>3 DEF Start, Interrupt, context
  <2>4. ASSUME NEW c \in Builds, Work(c), c # b PROVE FALSE
    BY <2>1, <2>4, WorkShape DEF Dispatch, Return, Finish, Goto, context
  <2>. QED
    BY <2>2, <2>3, <2>4, CleanSteps DEF Next
<1>2. Spec => []TypeInv
  BY InitTypes, NextTypes, PTL DEF Spec
<1>3. Spec => []RootIsLast
  BY <1>2, StandingInit, RootIsLastNext, PTL DEF Spec
<1>4. Spec => []Standing
  BY <1>2, <1>3, StandingInit, StandingNext, PTL DEF Spec
<1>. QED
  BY <1>1, <1>2, <1>4, PTL DEF Spec, CleanedUp
=============================================================================
