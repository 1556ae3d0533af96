------------------------- MODULE BuildPipelineProofs -------------------------
(* What holds of BuildPipeline for every set of builds, every pipeline, every *)
(* plan and every choice of faults.                                           *)
EXTENDS BuildPipeline, TLAPS

Codes == {0, 1, 10, 30, 70, 99}

\* A process inside a stage is inside a registered one.
AtStage ==
  \A b \in Builds : pc[b] \notin Resting \union {"loop"} => at[b] \in 1 .. Len(Registered)

HoldsWorkspace ==
  {"write-manifest", "provenance", "write-provenance", "log", "write-log", "clean", "rmtree"}

\* The calls on the disk have a root to work on.
Placed ==
  \A b \in Builds : /\ pc[b] = "mkdir" => target[b] \in Roots
                    /\ pc[b] \in HoldsWorkspace => workspace[b] \in Roots

TypeInv == TypeOK /\ AtStage /\ Placed

\* The part of TypeOK about what stages change besides the loop's variables.
DataTypes ==
  /\ artifacts \in [Builds -> Seq(Artifact)]
  /\ workspace \in [Builds -> Roots \union {NoRoot}]
  /\ metadata \in [Builds -> BOOLEAN]
  /\ target \in [Builds -> Roots \union {NoRoot}]
  /\ todo \in [Builds -> SUBSET Entries]
  /\ dirs \in [Roots -> SUBSET Entries]
  /\ files \in [Roots -> SUBSET File]

\* Nobody but b can have changed b's own roots.
OwnRoots(b) ==
  \A c \in Builds \ {b} : target'[c] = target[c] /\ workspace'[c] = workspace[c]

InStage(b) == pc[b] \notin Resting \union {"loop"}

-----------------------------------------------------------------------------
(* Facts about the helpers *)

LEMMA LayoutFacts ==
  /\ LayoutDirs = {"artifacts", "logs", "metadata", "cache"}
  /\ \A i \in 1 .. 4 : Layout[i] \in LayoutDirs
  /\ LayoutDirs \subseteq Entries
  /\ "foreign" \notin LayoutDirs
  /\ "." \notin LayoutDirs
<1>1. Layout[1] = "artifacts" /\ Layout[2] = "logs" /\ Layout[3] = "metadata"
        /\ Layout[4] = "cache"
  BY DEF Layout
<1>2. 1 .. 4 = {1, 2, 3, 4}
  OBVIOUS
<1>. QED
  BY <1>1, <1>2 DEF LayoutDirs, Entries

LEMMA DirOfFacts ==
  \A name \in FileNames : DirOf[name] \in LayoutDirs
  BY LayoutFacts DEF FileNames, DirOf

LEMMA StageWhere ==
  /\ StageNames \subseteq Where
  /\ HoldsWorkspace \subseteq Where
  /\ {"loop", "done", "interrupted", "mkdir"} \subseteq Where
  BY DEF Where, StageNames, Resting, Written, HoldsWorkspace

\* A stage's result keeps the types, and so does a move inside a stage.
LEMMA FinishTypes ==
  ASSUME TypeInv, NEW b \in Builds, NEW code \in Codes, InStage(b),
         Finish(b, code), DataTypes', OwnRoots(b)
  PROVE  TypeInv'
<1>1. at[b] \in 1 .. Len(Registered)
  BY DEF TypeInv, AtStage, InStage
<1>2. [stage |-> Registered[at[b]], code |-> code] \in Result
  BY <1>1, RegisteredIsNonEmpty DEF Result, Codes
<1>3. results' \in [Builds -> Seq(Result)]
  BY <1>2 DEF Finish, TypeInv, TypeOK
<1>4. pc' = [pc EXCEPT ![b] = "loop"] /\ pc' \in [Builds -> Where]
  BY StageWhere DEF Finish, TypeInv, TypeOK
<1>5. AtStage'
  BY <1>4 DEF Finish, TypeInv, TypeOK, AtStage
<1>6. Placed'
  BY <1>4 DEF OwnRoots, TypeInv, TypeOK, Placed, HoldsWorkspace
<1>7. ok' \in [Builds -> BOOLEAN]
  BY DEF Finish, TypeInv, TypeOK
<1>8. TypeOK'
  BY <1>3, <1>4, <1>7 DEF Finish, TypeInv, TypeOK, DataTypes
<1>. QED
  BY <1>5, <1>6, <1>8 DEF TypeInv

LEMMA GotoTypes ==
  ASSUME TypeInv, NEW b \in Builds, NEW p \in Where, InStage(b),
         Goto(b, p), DataTypes', OwnRoots(b),
         p = "mkdir" => target'[b] \in Roots,
         p \in HoldsWorkspace => workspace'[b] \in Roots
  PROVE  TypeInv'
<1>1. pc' = [pc EXCEPT ![b] = p] /\ pc' \in [Builds -> Where]
  BY DEF Goto, TypeInv, TypeOK
<1>2. AtStage'
  BY <1>1 DEF Goto, loop, TypeInv, TypeOK, AtStage, InStage
<1>3. Placed'
  BY <1>1 DEF OwnRoots, TypeInv, TypeOK, Placed
<1>4. TypeOK'
  BY <1>1 DEF Goto, loop, TypeInv, TypeOK, DataTypes
<1>. QED
  BY <1>2, <1>3, <1>4 DEF TypeInv

\* The disk keeps its types when a file is written or a mkdir fails.
LEMMA PutTypes ==
  ASSUME TypeInv, NEW b \in Builds, NEW r \in Roots, NEW name \in FileNames,
         NEW whole \in BOOLEAN, Put(b, r, name, whole)
  PROVE  files' \in [Roots -> SUBSET File]
<1>1. [name |-> name, by |-> b, seen |-> results[b], whole |-> whole] \in File
  BY DEF TypeInv, TypeOK, File
<1>2. files \in [Roots -> SUBSET File]
  BY DEF TypeInv, TypeOK
<1>. QED
  BY <1>1, <1>2 DEF Put

LEMMA MkdirFailsTypes ==
  ASSUME TypeInv, NEW r \in Roots, MkdirFails(r)
  PROVE  dirs' \in [Roots -> SUBSET Entries]
<1>1. dirs \in [Roots -> SUBSET Entries] /\ "." \in Entries
  BY DEF TypeInv, TypeOK, Entries
<1>. QED
  BY <1>1 DEF MkdirFails

LEMMA WriteTypes ==
  ASSUME TypeInv, NEW b \in Builds, NEW name \in FileNames, workspace[b] \in Roots,
         WriteFails(b, name) \/ WriteSucceeds(b, name)
  PROVE  files' \in [Roots -> SUBSET File]
<1>1. CASE files' = files
  BY <1>1 DEF TypeInv, TypeOK
<1>2. CASE Put(b, workspace[b], name, FALSE)
  BY <1>2, PutTypes
<1>3. CASE Put(b, workspace[b], name, TRUE)
  BY <1>3, PutTypes
<1>. QED
  BY <1>1, <1>2, <1>3 DEF WriteFails, WriteSucceeds

LEMMA EnsureParentTypes ==
  ASSUME TypeInv, NEW b \in Builds, NEW name \in FileNames,
         NEW writing \in HoldsWorkspace, NEW code \in Codes,
         InStage(b), workspace[b] \in Roots, EnsureParent(b, name, writing, code)
  PROVE  TypeInv'
<1>1. DirOf[name] \in Entries /\ "." \in Entries
  BY DirOfFacts DEF Entries
<1>2. CASE dirs' = [dirs EXCEPT ![workspace[b]] = @ \union {".", DirOf[name]}]
             /\ Goto(b, writing)
  <2>1. DataTypes'
    BY <1>1, <1>2 DEF EnsureParent, TypeInv, TypeOK, DataTypes
  <2>2. OwnRoots(b) /\ workspace'[b] \in Roots
    BY DEF EnsureParent, OwnRoots
  <2>3. writing \in Where /\ writing # "mkdir"
    BY StageWhere DEF HoldsWorkspace
  <2>. QED
    BY <1>2, <2>1, <2>2, <2>3, GotoTypes
<1>3. CASE MkdirFails(workspace[b]) /\ Finish(b, code)
  <2>1. DataTypes'
    BY <1>3, MkdirFailsTypes DEF EnsureParent, TypeInv, TypeOK, DataTypes
  <2>2. OwnRoots(b)
    BY DEF EnsureParent, OwnRoots
  <2>. QED
    BY <1>3, <2>1, <2>2, FinishTypes
<1>. QED
  BY <1>2, <1>3 DEF EnsureParent

-----------------------------------------------------------------------------
(* Type correctness *)

LEMMA InitTypes == Init => TypeInv
<1>. SUFFICES ASSUME Init PROVE TypeInv
  OBVIOUS
<1>1. dirs \in [Roots -> SUBSET Entries]
  BY FoundIsTyped DEF Init, Entries
<1>2. AtStage /\ Placed
  BY DEF Init, AtStage, Placed, Resting, HoldsWorkspace
<1>3. second \in 0 .. LastSecond
  BY RootsAreTyped DEF Init
<1>4. at \in [Builds -> 0 .. Len(Registered)]
  BY RegisteredIsNonEmpty DEF Init
<1>5. pc \in [Builds -> Where]
  BY DEF Init, Where, Resting
<1>. QED
  BY <1>1, <1>2, <1>3, <1>4, <1>5 DEF Init, TypeInv, TypeOK

LEMMA LoopTypes ==
  ASSUME TypeInv, NEW b \in Builds, Dispatch(b) \/ Return(b)
  PROVE  TypeInv'
<1>1. CASE Dispatch(b)
  <2>1. PICK i \in Ahead(b) :
          at' = [at EXCEPT ![b] = i] /\ pc' = [pc EXCEPT ![b] = Registered[i]]
    BY <1>1 DEF Dispatch
  <2>2. i \in 1 .. Len(Registered) /\ Registered[i] \in StageNames
    BY RegisteredIsNonEmpty DEF Ahead, Chosen
  <2>3. pc' \in [Builds -> Where] /\ at' \in [Builds -> 0 .. Len(Registered)]
    BY <2>1, <2>2, StageWhere DEF TypeInv, TypeOK
  <2>4. AtStage' /\ Placed'
    BY <1>1, <2>1, <2>2
       DEF Dispatch, context, TypeInv, TypeOK, AtStage, Placed, StageNames, HoldsWorkspace
  <2>. QED
    BY <1>1, <2>3, <2>4 DEF Dispatch, context, disk, TypeInv, TypeOK
<1>2. CASE Return(b)
  <2>1. pc' = [pc EXCEPT ![b] = "done"] /\ pc' \in [Builds -> Where]
    BY <1>2, StageWhere DEF Return, TypeInv, TypeOK
  <2>2. AtStage' /\ Placed'
    BY <1>2, <2>1
       DEF Return, context, TypeInv, TypeOK, AtStage, Placed, Resting, HoldsWorkspace
  <2>. QED
    BY <1>2, <2>1, <2>2 DEF Return, context, disk, TypeInv, TypeOK
<1>. QED
  BY <1>1, <1>2

LEMMA PrepareTypes ==
  ASSUME TypeInv, NEW b \in Builds,
         ValidateConfig(b) \/ ProbeWorkspace(b) \/ MakeDirectory(b)
  PROVE  TypeInv'
<1>1. InStage(b)
  BY DEF ValidateConfig, ProbeWorkspace, MakeDirectory, InStage, Resting
<1>2. CASE ValidateConfig(b)
  <2>1. ValidateCode(plan[b].config) \in Codes
    BY DEF ValidateCode, Codes
  <2>2. DataTypes' /\ OwnRoots(b)
    BY <1>2 DEF ValidateConfig, disk, TypeInv, TypeOK, DataTypes, OwnRoots
  <2>. QED
    BY <1>1, <1>2, <2>1, <2>2, FinishTypes DEF ValidateConfig
<1>3. CASE ProbeWorkspace(b)
  <2>1. ChosenRoot(b) \in Roots
    BY PlansAreTyped, RootsAreTyped DEF ChosenRoot, TypeInv, TypeOK, IsPlan
  <2>2. todo' \in [Builds -> SUBSET Entries]
    <3>1. todo' = todo \/ todo' = [todo EXCEPT ![b] = LayoutDirs]
      BY <1>3 DEF ProbeWorkspace
    <3>2. todo \in [Builds -> SUBSET Entries] /\ LayoutDirs \in SUBSET Entries
      BY LayoutFacts DEF TypeInv, TypeOK
    <3>. QED
      BY <3>1, <3>2
  <2>3. target' \in [Builds -> Roots \union {NoRoot}] /\ target'[b] \in Roots
    BY <1>3, <2>1 DEF ProbeWorkspace, TypeInv, TypeOK
  <2>4. DataTypes' /\ OwnRoots(b)
    BY <1>3, <2>2, <2>3 DEF ProbeWorkspace, disk, TypeInv, TypeOK, DataTypes, OwnRoots
  <2>5. CASE Goto(b, "mkdir")
    BY <1>1, <2>3, <2>4, <2>5, GotoTypes, StageWhere DEF HoldsWorkspace
  <2>6. CASE Finish(b, 10)
    BY <1>1, <2>4, <2>6, FinishTypes DEF Codes
  <2>. QED
    BY <1>3, <2>5, <2>6 DEF ProbeWorkspace
<1>4. CASE MakeDirectory(b)
  <2>1. target[b] \in Roots
    BY <1>4 DEF MakeDirectory, TypeInv, Placed
  <2>2. dirs' \in [Roots -> SUBSET Entries]
    <3>1. CASE MkdirFails(target[b])
      BY <2>1, <3>1, MkdirFailsTypes
    <3>2. CASE \E i \in 1 .. 4 : dirs' = [dirs EXCEPT ![target[b]] = @ \union {".", Layout[i]}]
      BY <2>1, <3>2, LayoutFacts DEF TypeInv, TypeOK, Entries
    <3>. QED
      BY <1>4, <3>1, <3>2 DEF MakeDirectory
  <2>3. workspace' \in [Builds -> Roots \union {NoRoot}] /\ todo' \in [Builds -> SUBSET Entries]
    <3>1. workspace' = workspace \/ workspace' = [workspace EXCEPT ![b] = target[b]]
      BY <1>4 DEF MakeDirectory
    <3>2. todo' = todo \/ \E d : todo' = [todo EXCEPT ![b] = @ \ {d}]
      BY <1>4 DEF MakeDirectory
    <3>3. workspace \in [Builds -> Roots \union {NoRoot}] /\ todo \in [Builds -> SUBSET Entries]
      BY DEF TypeInv, TypeOK
    <3>. QED
      BY <2>1, <3>1, <3>2, <3>3
  <2>4. DataTypes'
    BY <1>4, <2>2, <2>3 DEF MakeDirectory, TypeInv, TypeOK, DataTypes
  <2>5. OwnRoots(b) /\ target'[b] \in Roots
    <3>1. target' = target
      BY <1>4 DEF MakeDirectory
    <3>2. workspace' = workspace \/ workspace' = [workspace EXCEPT ![b] = target[b]]
      BY <1>4 DEF MakeDirectory
    <3>3. \A c \in Builds \ {b} : workspace'[c] = workspace[c]
      BY <3>2 DEF TypeInv, TypeOK
    <3>. QED
      BY <2>1, <3>1, <3>3 DEF OwnRoots
  <2>6. CASE Finish(b, 0) \/ Finish(b, 10)
    BY <1>1, <2>4, <2>5, <2>6, FinishTypes DEF Codes
  <2>7. CASE Goto(b, "mkdir")
    BY <1>1, <2>4, <2>5, <2>7, GotoTypes, StageWhere DEF HoldsWorkspace
  <2>. QED
    BY <1>4, <2>6, <2>7 DEF MakeDirectory
<1>. QED
  BY <1>2, <1>3, <1>4

LEMMA OutputTypes ==
  ASSUME TypeInv, NEW b \in Builds,
         \/ GenerateManifest(b) \/ WriteManifest(b) \/ Provenance(b)
         \/ WriteProvenance(b) \/ BuildLog(b) \/ WriteLog(b)
  PROVE  TypeInv'
<1>1. InStage(b)
  BY DEF GenerateManifest, WriteManifest, Provenance, WriteProvenance, BuildLog, WriteLog,
         InStage, Resting
<1>2. pc[b] \in HoldsWorkspace => workspace[b] \in Roots
  BY DEF TypeInv, Placed
<1>3. workspace[b] \in Roots \union {NoRoot}
  BY DEF TypeInv, TypeOK
<1>4. CASE GenerateManifest(b)
  <2>1. CASE /\ Finish(b, 30)
             /\ UNCHANGED <<artifacts, workspace, metadata, target, todo, disk>>
    <3>1. DataTypes' /\ OwnRoots(b)
      BY <2>1 DEF disk, TypeInv, TypeOK, DataTypes, OwnRoots
    <3>. QED
      BY <1>1, <2>1, <3>1, FinishTypes DEF Codes
  <2>2. CASE workspace[b] # NoRoot /\ EnsureParent(b, "manifest", "write-manifest", 30)
    BY <1>1, <1>3, <2>2, EnsureParentTypes DEF FileNames, Codes, HoldsWorkspace
  <2>. QED
    BY <1>4, <2>1, <2>2 DEF GenerateManifest
<1>5. CASE WriteManifest(b)
  <2>1. files' \in [Roots -> SUBSET File]
    BY <1>2, <1>5, WriteTypes DEF WriteManifest, FileNames, HoldsWorkspace
  <2>2. [path |-> "manifest", summed |-> FALSE] \in Artifact
    BY DEF Artifact, FileNames
  <2>3. artifacts' \in [Builds -> Seq(Artifact)]
    <3>1. artifacts \in [Builds -> Seq(Artifact)]
      BY DEF TypeInv, TypeOK
    <3>2. artifacts' = artifacts
            \/ artifacts' = [artifacts EXCEPT ![b] =
                 Append(@, [path |-> "manifest", summed |-> FALSE])]
      BY <1>5 DEF WriteManifest
    <3>3. Append(artifacts[b], [path |-> "manifest", summed |-> FALSE]) \in Seq(Artifact)
      BY <2>2, <3>1
    <3>. QED
      BY <3>1, <3>2, <3>3
  <2>4. DataTypes' /\ OwnRoots(b)
    BY <1>5, <2>1, <2>3 DEF WriteManifest, TypeInv, TypeOK, DataTypes, OwnRoots
  <2>. QED
    BY <1>1, <1>5, <2>4, FinishTypes DEF WriteManifest, Codes
<1>6. CASE Provenance(b)
  BY <1>1, <1>2, <1>6, EnsureParentTypes DEF Provenance, FileNames, Codes, HoldsWorkspace
<1>7. CASE WriteProvenance(b)
  <2>1. files' \in [Roots -> SUBSET File]
    BY <1>2, <1>7, WriteTypes DEF WriteProvenance, FileNames, HoldsWorkspace
  <2>2. DataTypes' /\ OwnRoots(b)
    BY <1>7, <2>1 DEF WriteProvenance, TypeInv, TypeOK, DataTypes, OwnRoots
  <2>3. workspace'[b] \in Roots
    BY <1>2, <1>7 DEF WriteProvenance, HoldsWorkspace
  <2>4. CASE Goto(b, "log")
    BY <1>1, <2>2, <2>3, <2>4, GotoTypes, StageWhere DEF HoldsWorkspace
  <2>5. CASE Finish(b, 70)
    BY <1>1, <2>2, <2>5, FinishTypes DEF Codes
  <2>. QED
    BY <1>7, <2>4, <2>5 DEF WriteProvenance
<1>8. CASE BuildLog(b)
  BY <1>1, <1>2, <1>8, EnsureParentTypes DEF BuildLog, FileNames, Codes, HoldsWorkspace
<1>9. CASE WriteLog(b)
  <2>1. files' \in [Roots -> SUBSET File]
    BY <1>2, <1>9, WriteTypes DEF WriteLog, FileNames, HoldsWorkspace
  <2>2. DataTypes' /\ OwnRoots(b)
    BY <1>9, <2>1 DEF WriteLog, TypeInv, TypeOK, DataTypes, OwnRoots
  <2>3. workspace'[b] \in Roots
    BY <1>2, <1>9 DEF WriteLog, HoldsWorkspace
  <2>4. CASE Goto(b, "clean")
    BY <1>1, <2>2, <2>3, <2>4, GotoTypes, StageWhere DEF HoldsWorkspace
  <2>5. CASE Finish(b, 0) \/ Finish(b, 99)
    BY <1>1, <2>2, <2>5, FinishTypes DEF Codes
  <2>. QED
    BY <1>9, <2>4, <2>5 DEF WriteLog
<1>. QED
  BY <1>4, <1>5, <1>6, <1>7, <1>8, <1>9

LEMMA FinalizeTypes ==
  ASSUME TypeInv, NEW b \in Builds,
         Finalize(b) \/ Clean(b) \/ RemoveEntry(b) \/ RemoveRoot(b)
  PROVE  TypeInv'
<1>1. InStage(b)
  BY DEF Finalize, Clean, RemoveEntry, RemoveRoot, InStage, Resting
<1>2. pc[b] \in HoldsWorkspace => workspace[b] \in Roots
  BY DEF TypeInv, Placed
<1>3. OwnRoots(b) /\ workspace' = workspace /\ target' = target
  BY DEF Finalize, Clean, RemoveEntry, RemoveRoot, OwnRoots
<1>4. CASE Finalize(b)
  <2>1. DataTypes'
    BY <1>4 DEF Finalize, disk, TypeInv, TypeOK, DataTypes
  <2>2. CASE workspace[b] # NoRoot /\ Goto(b, "provenance")
    <3>1. workspace'[b] \in Roots
      BY <1>3, <2>2 DEF TypeInv, TypeOK
    <3>. QED
      BY <1>1, <1>3, <2>1, <2>2, <3>1, GotoTypes, StageWhere DEF HoldsWorkspace
  <2>3. CASE Finish(b, 70) \/ Finish(b, 99)
    BY <1>1, <1>3, <2>1, <2>3, FinishTypes DEF Codes
  <2>. QED
    BY <1>4, <2>2, <2>3 DEF Finalize
<1>5. CASE Clean(b)
  <2>1. workspace[b] \in Roots
    BY <1>2, <1>5 DEF Clean, HoldsWorkspace
  <2>2. todo' \in [Builds -> SUBSET Entries]
    BY <1>5, <2>1 DEF Clean, TypeInv, TypeOK
  <2>3. DataTypes'
    BY <1>5, <2>2 DEF Clean, disk, TypeInv, TypeOK, DataTypes
  <2>4. CASE Goto(b, "rmtree")
    BY <1>1, <1>3, <2>1, <2>3, <2>4, GotoTypes, StageWhere DEF HoldsWorkspace
  <2>5. CASE Finish(b, 0) \/ Finish(b, 99)
    BY <1>1, <1>3, <2>3, <2>5, FinishTypes DEF Codes
  <2>. QED
    BY <1>5, <2>4, <2>5 DEF Clean
<1>6. CASE RemoveEntry(b)
  <2>1. workspace[b] \in Roots
    BY <1>2, <1>6 DEF RemoveEntry, HoldsWorkspace
  <2>2. dirs' \in [Roots -> SUBSET Entries] /\ todo' \in [Builds -> SUBSET Entries]
    BY <1>6, <2>1 DEF RemoveEntry, TypeInv, TypeOK
  <2>3. files' \in [Roots -> SUBSET File]
    <3>1. \E kept \in SUBSET files[workspace[b]] : files' = [files EXCEPT ![workspace[b]] = kept]
      BY <1>6 DEF RemoveEntry, Without
    <3>. QED
      BY <2>1, <3>1 DEF TypeInv, TypeOK
  <2>4. DataTypes'
    BY <1>6, <2>2, <2>3 DEF RemoveEntry, TypeInv, TypeOK, DataTypes
  <2>5. CASE Goto(b, "rmtree")
    BY <1>1, <1>3, <2>1, <2>4, <2>5, GotoTypes, StageWhere DEF HoldsWorkspace
  <2>6. CASE Finish(b, 70)
    BY <1>1, <1>3, <2>4, <2>6, FinishTypes DEF Codes
  <2>. QED
    BY <1>6, <2>5, <2>6 DEF RemoveEntry
<1>7. CASE RemoveRoot(b)
  <2>1. dirs' \in [Roots -> SUBSET Entries]
    BY <1>7 DEF RemoveRoot, TypeInv, TypeOK
  <2>2. DataTypes'
    BY <1>7, <2>1 DEF RemoveRoot, TypeInv, TypeOK, DataTypes
  <2>. QED
    BY <1>1, <1>3, <1>7, <2>2, FinishTypes DEF RemoveRoot, Codes
<1>. QED
  BY <1>4, <1>5, <1>6, <1>7

LEMMA WorkTypes ==
  ASSUME TypeInv, NEW b \in Builds, Work(b)
  PROVE  TypeInv'
  BY LoopTypes, PrepareTypes, OutputTypes, FinalizeTypes DEF Work

LEMMA InterruptTypes ==
  ASSUME TypeInv, NEW b \in Builds, Interrupt(b)
  PROVE  TypeInv'
<1>1. pc' = [pc EXCEPT ![b] = "interrupted"] /\ pc' \in [Builds -> Where]
  BY StageWhere DEF Interrupt, TypeInv, TypeOK
<1>2. AtStage' /\ Placed'
  BY <1>1 DEF Interrupt, context, loop, TypeInv, TypeOK, AtStage, Placed, Resting, HoldsWorkspace
<1>3. files' \in [Roots -> SUBSET File]
  <2>1. CASE files' = files
    BY <2>1 DEF TypeInv, TypeOK
  <2>2. CASE /\ pc[b] \in DOMAIN Written
             /\ Put(b, workspace[b], Written[pc[b]], FALSE)
    <3>1. pc[b] \in HoldsWorkspace /\ Written[pc[b]] \in FileNames
      BY <2>2 DEF Written, HoldsWorkspace, FileNames
    <3>. QED
      BY <2>2, <3>1, PutTypes DEF TypeInv, Placed
  <2>. QED
    BY <2>1, <2>2 DEF Interrupt
<1>. QED
  BY <1>1, <1>2, <1>3 DEF Interrupt, context, loop, TypeInv, TypeOK

LEMMA NextTypes == TypeInv /\ [Next]_vars => TypeInv'
<1>. SUFFICES ASSUME TypeInv, [Next]_vars PROVE TypeInv'
  OBVIOUS
<1>1. CASE Tick
  BY <1>1, RootsAreTyped
     DEF Tick, context, loop, disk, TypeInv, TypeOK, AtStage, Placed
<1>2. ASSUME NEW b \in Builds, Start(b) PROVE TypeInv'
  <2>1. pc' = [pc EXCEPT ![b] = "loop"] /\ pc' \in [Builds -> Where]
    BY <1>2, StageWhere DEF Start, TypeInv, TypeOK
  <2>2. at' = [at EXCEPT ![b] = 0] /\ at' \in [Builds -> 0 .. Len(Registered)]
    BY <1>2, RegisteredIsNonEmpty DEF Start, TypeInv, TypeOK
  <2>3. AtStage' /\ Placed'
    BY <1>2, <2>1, <2>2 DEF Start, context, TypeInv, TypeOK, AtStage, Placed, HoldsWorkspace
  <2>4. base' \in [Builds -> Nat] /\ runs' \in [Builds -> Nat]
    BY <1>2 DEF Start, TypeInv, TypeOK
  <2>. QED
    BY <1>2, <2>1, <2>2, <2>3, <2>4 DEF Start, context, disk, TypeInv, TypeOK
<1>3. CASE UNCHANGED vars
  BY <1>3 DEF vars, context, loop, disk, TypeInv, TypeOK, AtStage, Placed
<1>. QED
  BY <1>1, <1>2, <1>3, WorkTypes, InterruptTypes DEF Next

\* Every reachable state of the Builder has the types of builder/models.py and
\* builder/context.py, and a call on the disk always has a root to work on.
THEOREM TypeCorrect == Spec => [](TypeOK /\ AtStage /\ Placed)
<1>1. Spec => []TypeInv
  BY InitTypes, NextTypes, PTL DEF Spec
<1>. QED
  BY <1>1, PTL DEF TypeInv

-----------------------------------------------------------------------------
(* The verdict of a run *)

\* What a step of a running build can do to the loop's variables.
LEMMA WorkShape ==
  ASSUME NEW b \in Builds, Work(b)
  PROVE  \/ Dispatch(b)
         \/ Return(b)
         \/ InStage(b) /\ \E code \in Codes : Finish(b, code)
         \/ InStage(b) /\ \E p \in HoldsWorkspace \union {"mkdir"} : Goto(b, p)
<1>. USE DEF InStage, Resting
<1>1. ValidateCode(plan[b].config) \in Codes
  BY DEF ValidateCode, Codes
<1>2. CASE Dispatch(b) \/ Return(b)
  BY <1>2
<1>3. CASE ValidateConfig(b) \/ ProbeWorkspace(b) \/ MakeDirectory(b)
  BY <1>1, <1>3 DEF ValidateConfig, ProbeWorkspace, MakeDirectory, Codes
<1>4. CASE \/ GenerateManifest(b) \/ WriteManifest(b) \/ Provenance(b)
           \/ WriteProvenance(b) \/ BuildLog(b) \/ WriteLog(b)
  BY <1>4 DEF GenerateManifest, WriteManifest, Provenance, WriteProvenance, BuildLog,
              WriteLog, EnsureParent, Codes, HoldsWorkspace
<1>5. CASE Finalize(b) \/ Clean(b) \/ RemoveEntry(b) \/ RemoveRoot(b)
  BY <1>5 DEF Finalize, Clean, RemoveEntry, RemoveRoot, Codes, HoldsWorkspace
<1>. QED
  BY <1>2, <1>3, <1>4, <1>5 DEF Work

\* overall_success is the conjunction of the successes of this run's results,
\* at every moment of the run, and the summary repeats it.
TallyOf(b) ==
  /\ base[b] <= Len(results[b])
  /\ ok[b] <=> \A i \in ThisRun(b) : results[b][i].code = 0
  /\ pc[b] = "done" => (summary[b] = "success" <=> ok[b])

Tally == \A b \in Builds : TallyOf(b)

LEMMA TallyInit == Init => Tally
  BY DEF Init, Tally, TallyOf, ThisRun

LEMMA TallyFrame ==
  ASSUME NEW c \in Builds, TallyOf(c),
         results'[c] = results[c], base'[c] = base[c], ok'[c] = ok[c],
         summary'[c] = summary[c], pc'[c] = "done" => pc[c] = "done"
  PROVE  TallyOf(c)'
  BY DEF TallyOf, ThisRun

LEMMA TallyFinish ==
  ASSUME TypeInv, Tally, NEW b \in Builds, NEW code \in Codes, InStage(b), Finish(b, code)
  PROVE  Tally'
<1>. DEFINE new == [stage |-> Registered[at[b]], code |-> code]
<1>1. /\ results \in [Builds -> Seq(Result)] /\ base \in [Builds -> Nat]
      /\ ok \in [Builds -> BOOLEAN] /\ pc \in [Builds -> Where]
  BY DEF TypeInv, TypeOK
<1>2. new \in Result
  BY RegisteredIsNonEmpty DEF TypeInv, AtStage, InStage, Result, Codes
<1>3. /\ results' = [results EXCEPT ![b] = Append(@, new)]
      /\ base' = base /\ summary' = summary
      /\ ok' = [ok EXCEPT ![b] = @ /\ code = 0] /\ pc' = [pc EXCEPT ![b] = "loop"]
  BY DEF Finish
<1>4. /\ results[b] \in Seq(Result) /\ results'[b] = Append(results[b], new)
      /\ Len(results'[b]) = Len(results[b]) + 1
      /\ \A i \in 1 .. Len(results[b]) : results'[b][i] = results[b][i]
      /\ results'[b][Len(results[b]) + 1] = new
  BY <1>1, <1>2, <1>3
<1>5. ASSUME NEW c \in Builds \ {b} PROVE TallyOf(c)'
  <2>1. /\ results'[c] = results[c] /\ base'[c] = base[c] /\ ok'[c] = ok[c]
        /\ summary'[c] = summary[c] /\ pc'[c] = pc[c]
    BY <1>1, <1>3
  <2>. QED
    BY <2>1, TallyFrame DEF Tally
<1>6. TallyOf(b)'
  <2>. HIDE DEF new
  <2>1. base'[b] = base[b] /\ base[b] \in Nat /\ Len(results[b]) \in Nat
    BY <1>1, <1>3
  <2>2. base[b] <= Len(results[b])
    BY DEF Tally, TallyOf
  <2>3. ThisRun(b)' = ThisRun(b) \union {Len(results[b]) + 1}
    BY <1>4, <2>1, <2>2 DEF ThisRun
  <2>4. \A i \in ThisRun(b) : results'[b][i] = results[b][i]
    BY <1>4, <2>1 DEF ThisRun
  <2>5. new.code = code
    BY DEF new
  <2>6. ok[b] <=> \A i \in ThisRun(b) : results[b][i].code = 0
    BY DEF Tally, TallyOf
  <2>7. (\A i \in ThisRun(b)' : results'[b][i].code = 0)
          <=> (\A i \in ThisRun(b) : results[b][i].code = 0) /\ code = 0
    BY <1>4, <2>3, <2>4, <2>5
  <2>8. ok'[b] <=> ok[b] /\ code = 0
    BY <1>1, <1>3
  <2>9. ok'[b] <=> \A i \in ThisRun(b)' : results'[b][i].code = 0
    BY <2>6, <2>7, <2>8
  <2>10. base'[b] <= Len(results'[b]) /\ pc'[b] # "done"
    BY <1>1, <1>3, <1>4, <2>1, <2>2
  <2>. QED
    BY <2>9, <2>10 DEF TallyOf
<1>. QED
  BY <1>5, <1>6 DEF Tally

LEMMA TallyNext == TypeInv /\ Tally /\ [Next]_vars => Tally'
<1>. SUFFICES ASSUME TypeInv, Tally, [Next]_vars PROVE Tally'
  OBVIOUS
<1>0. /\ results \in [Builds -> Seq(Result)] /\ base \in [Builds -> Nat]
      /\ ok \in [Builds -> BOOLEAN] /\ pc \in [Builds -> Where]
      /\ summary \in [Builds -> {"none", "success", "failure"}]
  BY DEF TypeInv, TypeOK
<1>1. CASE Tick \/ UNCHANGED vars
  BY <1>1, TallyFrame DEF Tick, vars, context, loop, Tally
<1>2. ASSUME NEW b \in Builds, Start(b) PROVE Tally'
  <2>1. /\ results' = results /\ summary' = summary
        /\ base' = [base EXCEPT ![b] = Len(results[b])]
        /\ ok' = [ok EXCEPT ![b] = TRUE] /\ pc' = [pc EXCEPT ![b] = "loop"]
    BY <1>2 DEF Start, context
  <2>2. Len(results[b]) \in Nat
    BY <1>0
  <2>3. base'[b] = Len(results[b]) /\ ok'[b] /\ pc'[b] = "loop"
    BY <1>0, <2>1
  <2>4. ThisRun(b)' = {}
    BY <2>1, <2>2, <2>3 DEF ThisRun
  <2>5. TallyOf(b)'
    BY <2>1, <2>2, <2>3, <2>4 DEF TallyOf
  <2>6. ASSUME NEW c \in Builds \ {b} PROVE TallyOf(c)'
    BY <1>0, <2>1, TallyFrame DEF Tally
  <2>. QED
    BY <2>5, <2>6 DEF Tally
<1>3. ASSUME NEW b \in Builds, Interrupt(b) PROVE Tally'
  <2>1. /\ results' = results /\ summary' = summary /\ base' = base /\ ok' = ok
        /\ pc' = [pc EXCEPT ![b] = "interrupted"]
    BY <1>3 DEF Interrupt, context, loop
  <2>. QED
    BY <1>0, <2>1, TallyFrame DEF Tally
<1>4. ASSUME NEW b \in Builds, Work(b) PROVE Tally'
  <2>1. CASE Dispatch(b)
    <3>1. PICK i \in Ahead(b) : pc' = [pc EXCEPT ![b] = Registered[i]]
      BY <2>1 DEF Dispatch
    <3>2. Registered[i] \in StageNames
      BY RegisteredIsNonEmpty DEF Ahead, Chosen
    <3>3. Registered[i] # "done"
      BY <3>2 DEF StageNames
    <3>. QED
      BY <1>0, <2>1, <3>1, <3>3, TallyFrame DEF Dispatch, context, Tally
  <2>2. CASE Return(b)
    <3>1. /\ results' = results /\ base' = base /\ ok' = ok
          /\ summary' = [summary EXCEPT ![b] = IF ok[b] THEN "success" ELSE "failure"]
          /\ pc' = [pc EXCEPT ![b] = "done"]
      BY <2>2 DEF Return, context
    <3>2. TallyOf(b)'
      <4>1. summary'[b] = "success" <=> ok[b]
        BY <1>0, <3>1
      <4>. QED
        BY <3>1, <4>1 DEF Tally, TallyOf, ThisRun
    <3>3. ASSUME NEW c \in Builds \ {b} PROVE TallyOf(c)'
      BY <1>0, <3>1, TallyFrame DEF Tally
    <3>. QED
      BY <3>2, <3>3 DEF Tally
  <2>3. CASE InStage(b) /\ \E code \in Codes : Finish(b, code)
    BY <2>3, TallyFinish
  <2>4. CASE \E p \in HoldsWorkspace \union {"mkdir"} : Goto(b, p)
    <3>1. PICK p \in HoldsWorkspace \union {"mkdir"} : pc' = [pc EXCEPT ![b] = p]
      BY <2>4 DEF Goto
    <3>2. p # "done"
      BY DEF HoldsWorkspace
    <3>. QED
      BY <1>0, <2>4, <3>1, <3>2, TallyFrame DEF Goto, loop, Tally
  <2>. QED
    BY <1>4, <2>1, <2>2, <2>3, <2>4, WorkShape
<1>. QED
  BY <1>1, <1>2, <1>3, <1>4 DEF Next

\* BuildSummary.success tells the truth about the run it summarises, for every
\* pipeline, every plan and every failure, on a fresh or a reused context.
THEOREM SummaryTellsTheTruth == Spec => []SummaryHonest
<1>1. Tally => SummaryHonest
  BY DEF Tally, TallyOf, SummaryHonest
<1>2. Spec => []TypeInv
  BY InitTypes, NextTypes, PTL DEF Spec
<1>. QED
  BY <1>1, <1>2, TallyInit, TallyNext, PTL DEF Spec

-----------------------------------------------------------------------------
(* What was in a directory before *)

\* A root that a build is making, or has made, its workspace was seen to hold
\* nothing foreign, and nobody puts anything foreign there afterwards.
ClaimOf(b) ==
  /\ pc[b] = "mkdir" => "foreign" \notin dirs[target[b]]
  /\ workspace[b] \in Roots => "foreign" \notin dirs[workspace[b]]

Claim == \A b \in Builds : ClaimOf(b)

LEMMA ClaimInit == Init => Claim
  BY RootsAreTyped DEF Init, Claim, ClaimOf

\* A step that adds nothing foreign keeps the claim of a build that it leaves
\* where it is.
LEMMA ClaimFrame ==
  ASSUME NEW c \in Builds, TypeInv, ClaimOf(c),
         \A r \in Roots : "foreign" \in dirs'[r] => "foreign" \in dirs[r],
         pc'[c] = "mkdir" => pc[c] = "mkdir" /\ target'[c] = target[c],
         workspace'[c] = workspace[c]
  PROVE  ClaimOf(c)'
  BY DEF ClaimOf, TypeInv, Placed

\* Only rmtree takes anything out of a directory, and only out of the root of
\* the build that runs it; no call of a build creates a foreign entry.
LEMMA WorkOnDirs ==
  ASSUME TypeInv, NEW b \in Builds, Work(b)
  PROVE  \A r \in Roots :
           /\ "foreign" \in dirs'[r] => "foreign" \in dirs[r]
           /\ "foreign" \in dirs[r] /\ "foreign" \notin dirs'[r] =>
                workspace[b] = r
<1>. SUFFICES ASSUME NEW r \in Roots
              PROVE  /\ "foreign" \in dirs'[r] => "foreign" \in dirs[r]
                     /\ "foreign" \in dirs[r] /\ "foreign" \notin dirs'[r] =>
                          workspace[b] = r
  OBVIOUS
<1>1. dirs \in [Roots -> SUBSET Entries]
  BY DEF TypeInv, TypeOK
<1>2. CASE \/ Dispatch(b) \/ Return(b) \/ ValidateConfig(b) \/ ProbeWorkspace(b)
           \/ WriteManifest(b) \/ Finalize(b) \/ WriteProvenance(b) \/ WriteLog(b)
           \/ Clean(b)
  BY <1>2 DEF Dispatch, Return, ValidateConfig, ProbeWorkspace, WriteManifest, Finalize,
              WriteProvenance, WriteLog, Clean, disk
<1>3. CASE MakeDirectory(b)
  <2>1. CASE MkdirFails(target[b])
    BY <1>1, <2>1 DEF MkdirFails
  <2>2. CASE \E i \in 1 .. 4 :
               dirs' = [dirs EXCEPT ![target[b]] = @ \union {".", Layout[i]}]
    BY <1>1, <2>2, LayoutFacts
  <2>. QED
    BY <1>3, <2>1, <2>2 DEF MakeDirectory
<1>4. ASSUME NEW name \in FileNames, NEW p, NEW code, EnsureParent(b, name, p, code)
      PROVE  /\ "foreign" \in dirs'[r] => "foreign" \in dirs[r]
             /\ "foreign" \in dirs[r] => "foreign" \in dirs'[r]
  <2>1. CASE MkdirFails(workspace[b])
    BY <1>1, <2>1 DEF MkdirFails
  <2>2. CASE dirs' = [dirs EXCEPT ![workspace[b]] = @ \union {".", DirOf[name]}]
    BY <1>1, <2>2, DirOfFacts, LayoutFacts
  <2>. QED
    BY <1>4, <2>1, <2>2 DEF EnsureParent
<1>5. CASE GenerateManifest(b) \/ Provenance(b) \/ BuildLog(b)
  BY <1>4, <1>5 DEF GenerateManifest, Provenance, BuildLog, FileNames, disk
<1>6. CASE RemoveEntry(b) \/ RemoveRoot(b)
  BY <1>1, <1>6 DEF RemoveEntry, RemoveRoot
<1>. QED
  BY <1>2, <1>3, <1>5, <1>6 DEF Work

LEMMA ClaimWork ==
  ASSUME TypeInv, Claim, NEW b \in Builds, Work(b)
  PROVE  Claim'
<1>1. /\ pc \in [Builds -> Where] /\ workspace \in [Builds -> Roots \union {NoRoot}]
      /\ target \in [Builds -> Roots \union {NoRoot}] /\ dirs \in [Roots -> SUBSET Entries]
  BY DEF TypeInv, TypeOK
<1>2. \A r \in Roots : "foreign" \in dirs'[r] => "foreign" \in dirs[r]
  BY WorkOnDirs
<1>3. ASSUME NEW c \in Builds \ {b} PROVE ClaimOf(c)'
  <2>1. pc'[c] = pc[c]
    BY <1>1, WorkShape DEF Dispatch, Return, Finish, Goto
  <2>2. workspace'[c] = workspace[c] /\ target'[c] = target[c]
    BY <1>1 DEF Work, Dispatch, Return, ValidateConfig, ProbeWorkspace, MakeDirectory,
                GenerateManifest, WriteManifest, Finalize, Provenance, WriteProvenance,
                BuildLog, WriteLog, Clean, RemoveEntry, RemoveRoot, EnsureParent, context
  <2>. QED
    BY <1>2, <2>1, <2>2, ClaimFrame DEF Claim
<1>4. ClaimOf(b)
  BY DEF Claim
<1>5. ASSUME ProbeWorkspace(b) PROVE ClaimOf(b)'
  <2>1. workspace' = workspace /\ dirs' = dirs /\ target'[b] = ChosenRoot(b)
    BY <1>1, <1>5 DEF ProbeWorkspace, disk
  <2>2. pc'[b] = "mkdir" => ~Occupied(ChosenRoot(b))
    BY <1>1, <1>5 DEF ProbeWorkspace, Goto, Finish
  <2>. QED
    BY <1>4, <2>1, <2>2 DEF ClaimOf, Occupied
<1>6. ASSUME MakeDirectory(b) PROVE ClaimOf(b)'
  <2>1. pc[b] = "mkdir" /\ target' = target /\ target[b] \in Roots
    BY <1>6 DEF MakeDirectory, TypeInv, Placed
  <2>2. workspace'[b] \in {workspace[b], target[b]}
    BY <1>1, <1>6 DEF MakeDirectory
  <2>. QED
    BY <1>2, <1>4, <2>1, <2>2 DEF ClaimOf
<1>7. ASSUME ~ProbeWorkspace(b), ~MakeDirectory(b) PROVE ClaimOf(b)'
  <2>1. workspace' = workspace
    BY <1>7 DEF Work, Dispatch, Return, ValidateConfig, GenerateManifest, WriteManifest,
                Finalize, Provenance, WriteProvenance, BuildLog, WriteLog, Clean,
                RemoveEntry, RemoveRoot, EnsureParent, context
  <2>2. pc'[b] # "mkdir"
    <3>1. CASE Dispatch(b)
      <4>1. PICK i \in Ahead(b) : pc' = [pc EXCEPT ![b] = Registered[i]]
        BY <3>1 DEF Dispatch
      <4>2. Registered[i] \in StageNames
        BY RegisteredIsNonEmpty DEF Ahead, Chosen
      <4>. QED
        BY <1>1, <4>1, <4>2 DEF StageNames
    <3>2. CASE Return(b) \/ ValidateConfig(b)
      BY <1>1, <3>2 DEF Return, ValidateConfig, Finish
    <3>3. CASE \/ GenerateManifest(b) \/ WriteManifest(b) \/ Provenance(b)
               \/ WriteProvenance(b) \/ BuildLog(b) \/ WriteLog(b)
      BY <1>1, <3>3 DEF GenerateManifest, WriteManifest, Provenance, WriteProvenance,
                        BuildLog, WriteLog, EnsureParent, Finish, Goto
    <3>4. CASE Finalize(b) \/ Clean(b) \/ RemoveEntry(b) \/ RemoveRoot(b)
      BY <1>1, <3>4 DEF Finalize, Clean, RemoveEntry, RemoveRoot, Finish, Goto
    <3>. QED
      BY <1>7, <3>1, <3>2, <3>3, <3>4 DEF Work
  <2>. QED
    BY <1>2, <1>4, <2>1, <2>2, ClaimFrame
<1>. QED
  BY <1>3, <1>5, <1>6, <1>7 DEF Claim

LEMMA ClaimNext == TypeInv /\ Claim /\ [Next]_vars => Claim'
<1>. SUFFICES ASSUME TypeInv, Claim, [Next]_vars PROVE Claim'
  OBVIOUS
<1>1. pc \in [Builds -> Where]
  BY DEF TypeInv, TypeOK
<1>2. CASE Tick \/ UNCHANGED vars
  BY <1>2, ClaimFrame DEF Tick, vars, context, disk, Claim
<1>3. ASSUME NEW b \in Builds, Start(b) \/ Interrupt(b) PROVE Claim'
  BY <1>1, <1>3, ClaimFrame DEF Start, Interrupt, context, disk, Claim
<1>. QED
  BY <1>2, <1>3, ClaimWork DEF Next

\* For any number of builds and roots, and whatever calls fail: no step of the
\* Builder deletes what a directory held before a build chose it as its root.
THEOREM ForeignIsNeverDeleted == Spec => ForeignSurvives
<1>1. TypeInv /\ Claim /\ [Next]_vars =>
        [\A r \in Roots : "foreign" \in dirs[r] => "foreign" \in dirs'[r]]_vars
  <2>. SUFFICES ASSUME TypeInv, Claim, [Next]_vars, NEW r \in Roots, "foreign" \in dirs[r]
                PROVE  "foreign" \in dirs'[r]
    OBVIOUS
  <2>1. CASE Tick \/ UNCHANGED vars
    BY <2>1 DEF Tick, vars, disk
  <2>2. ASSUME NEW b \in Builds, Start(b) \/ Interrupt(b) PROVE "foreign" \in dirs'[r]
    BY <2>2 DEF Start, Interrupt, disk
  <2>3. ASSUME NEW b \in Builds, Work(b) PROVE "foreign" \in dirs'[r]
    BY <2>3, WorkOnDirs DEF Claim, ClaimOf
  <2>. QED
    BY <2>1, <2>2, <2>3 DEF Next
<1>2. Spec => []TypeInv
  BY InitTypes, NextTypes, PTL DEF Spec
<1>3. Spec => []Claim
  BY <1>2, ClaimInit, ClaimNext, PTL DEF Spec
<1>. QED
  BY <1>1, <1>2, <1>3, PTL DEF Spec, ForeignSurvives
=============================================================================
