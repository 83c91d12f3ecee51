---------------------------- MODULE ProvisionProofs ----------------------------
(***************************************************************************)
(* Proofs about Provision, for every catalog, command line and history of   *)
(* executions: types, the release that is built, what is left behind, what  *)
(* a profile selects, and that the binary is the one metadata.json          *)
(* describes.  The last needs that the caller's tree keeps still while it   *)
(* is read and copied.                                                      *)
(***************************************************************************)
EXTENDS Provision, WellFoundedInduction, TLAPS

-----------------------------------------------------------------------------
(* The tables.                                                             *)

LEMMA MappingsApart ==
  ASSUME NEW m \in ToSet(ReleaseMappings), NEW n \in ToSet(ReleaseMappings),
         m.id = n.id \/ m.core_commit = n.core_commit
  PROVE  m = n
<1>1. PICK i, j \in DOMAIN ReleaseMappings : m = ReleaseMappings[i] /\ n = ReleaseMappings[j]
  BY DEF ToSet
<1>2. i = j
  BY <1>1, CatalogAssumption DEF IsInjective
<1> QED
  BY <1>1, <1>2

\* A release has a commit, and that commit is of this release.
LEMMA ReleaseCommit ==
  ASSUME NEW ref \in Releases
  PROVE  FetchRef(ref) \in MappedCommits /\ FirmwareVersionForSha(FetchRef(ref)) = ref
<1> DEFINE m == CHOOSE x \in ToSet(ReleaseMappings) : x.id = ref
<1>1. m \in ToSet(ReleaseMappings) /\ m.id = ref
  BY DEF Releases
<1>2. FetchRef(ref) = m.core_commit
  BY DEF FetchRef
<1> HIDE DEF m
<1>3. m.core_commit \in MappedCommits
  BY <1>1 DEF MappedCommits
<1> DEFINE n == CHOOSE x \in ToSet(ReleaseMappings) : x.core_commit = m.core_commit
<1>4. n \in ToSet(ReleaseMappings) /\ n.core_commit = m.core_commit
  BY <1>1
<1>5. FirmwareVersionForSha(m.core_commit) = n.id
  BY <1>3 DEF FirmwareVersionForSha
<1> HIDE DEF n
<1> QED
  BY <1>1, <1>2, <1>3, <1>4, <1>5, MappingsApart

LEMMA VersionTyped ==
  ASSUME NEW sha PROVE FirmwareVersionForSha(sha) \in Releases \cup {Unmapped}
<1>1. CASE sha \in MappedCommits
  <2> DEFINE n == CHOOSE x \in ToSet(ReleaseMappings) : x.core_commit = sha
  <2>1. n \in ToSet(ReleaseMappings)
    BY <1>1 DEF MappedCommits
  <2>2. FirmwareVersionForSha(sha) = n.id
    BY <1>1 DEF FirmwareVersionForSha
  <2> QED
    BY <2>1, <2>2 DEF Releases
<1>2. CASE sha \notin MappedCommits
  BY <1>2 DEF FirmwareVersionForSha
<1> QED
  BY <1>1, <1>2

LEMMA PatchesTyped == ASSUME NEW c \in Commits PROVE PatchesOf(c) \subseteq Edits
BY DEF Edits

\* What is fetched is a commit, and the commit of a release if one was asked for.
LEMMA FetchedRight ==
  ASSUME upstream \in [{"master", "1.3"} -> Commits], NEW ref, FetchRef(ref) \in Commits \cup DOMAIN upstream
  PROVE  /\ Fetched(FetchRef(ref)) \in Commits
         /\ ref \in Releases => Fetched(FetchRef(ref)) = FetchRef(ref)
BY ReleaseCommit, ProvisionAssumption DEF Fetched
-----------------------------------------------------------------------------
(* Types, and how far an execution is.                                     *)

Trees == [commit : Commits, edits : SUBSET Edits]
Cores == [sha : Commits \cup {"unknown"}, version : Releases \cup {Unmapped},
          dirty : BOOLEAN, patches : SUBSET Edits]
Builds == [commit : Commits, edits : SUBSET Edits, version : Releases] \cup {NoBuild}

Outside ==
  /\ options \in CommandLines
  /\ upstream \in [{"master", "1.3"} -> Commits]
  /\ tree \in [{"external", "submodule"} -> CallerTrees]
  /\ built \in [BuildDirs -> Builds]

Progress ==
  /\ pc \notin {"device", "final", "record", "remove", "done"} => binary = NoDir
  /\ pc \notin {"final", "record", "remove", "done"} => result = 1
  /\ pc \notin {"idle", "listed", "done"} => workspace
  /\ pc \notin {"idle", "listed"} => options.build_only \/ options.test_command
  /\ pc \in {"idle", "listed", "lock", "resolve"} => core = NoCore
  /\ pc = "copy" => options.source # "ref"
  /\ pc \in {"copy", "patch", "build"} => core.sha \in Commits
  /\ pc \in {"copy", "patch"} => core.version = Unmapped
  /\ pc = "device" => ~options.build_only

\* The commit of a release that was asked for is the one in the workspace.
Asked ==
  pc = "patch" /\ options.source = "ref" /\ options.ref \in Releases => core.sha = FetchRef(options.ref)

\* A successful compat/build has its binary and its tree, and what is removed is
\* what metadata.json does not call preserved.
Kept ==
  /\ pc \in {"final", "record", "remove"} /\ result = 0 /\ options.build_only =>
       built[binary] # NoBuild /\ snapshot # NoTree
  /\ pc = "remove" => metadata.exit = result /\ metadata.preserved = RecordedPreserved(result)

StageInv == TypeOK /\ Outside /\ Progress /\ Asked /\ Kept /\ ReleaseAsAsked /\ LeftAsPromised

LEMMA StageInit == Init => StageInv
<1> SUFFICES ASSUME Init PROVE StageInv
  OBVIOUS
<1>1. options \in CommandLines
  BY CommandLinesAssumption DEF Init
<1>2. Outside
  BY <1>1, ProvisionAssumption DEF Init, Outside, Builds
<1>3. TypeOK
  BY DEF Init, TypeOK, NoCore, NoBuild, BuildDirs, NoDir
<1> QED
  BY <1>2, <1>3 DEF Init, StageInv, Progress, Asked, Kept, ReleaseAsAsked, LeftAsPromised, NoCore

LEMMA OutsideStep == StageInv /\ [Next]_vars => Outside'
<1> SUFFICES ASSUME StageInv, [Next]_vars PROVE Outside'
  OBVIOUS
<1> USE DEF StageInv, Outside, request, outside, files
<1>1. ASSUME List PROVE Outside'
  BY <1>1 DEF List
<1>2. ASSUME Listed PROVE Outside'
  BY <1>2 DEF Listed
<1>3. ASSUME Invoke PROVE Outside'
  BY <1>3 DEF Invoke, Builds
<1>4. ASSUME AcquireLock PROVE Outside'
  BY <1>4 DEF AcquireLock, Fails
<1>5. ASSUME ResolveFails PROVE Outside'
  BY <1>5 DEF ResolveFails, Fails
<1>6. ASSUME ResolveRef PROVE Outside'
  BY <1>6 DEF ResolveRef
<1>7. ASSUME ReadTree PROVE Outside'
  BY <1>7 DEF ReadTree
<1>8. ASSUME CopyTree PROVE Outside'
  BY <1>8 DEF CopyTree
<1>9. ASSUME ApplyPatches PROVE Outside'
  BY <1>9 DEF ApplyPatches
<1>10. ASSUME BuildRefuses PROVE Outside'
  BY <1>10 DEF BuildRefuses, Fails
<1>11. ASSUME BuildFails PROVE Outside'
  BY <1>11 DEF BuildFails, BuiltPartly, Builds
<1>12. ASSUME Build PROVE Outside'
  <2>1. [commit |-> snapshot.commit, edits |-> snapshot.edits, version |-> core.version] \in Builds
    BY <1>12 DEF Build, TypeOK, Builds
  <2> QED
    BY <1>12, <2>1 DEF Build, BuildDir, BuildDirs
<1>13. ASSUME RunDevice PROVE Outside'
  BY <1>13 DEF RunDevice, Fails
<1>14. ASSUME Interrupted PROVE Outside'
  <2>1. built' \in {built, [built EXCEPT ![BuildDir] = NoBuild]}
    BY <1>14 DEF Interrupted, BuiltPartly
  <2> QED
    BY <1>14, <2>1 DEF Interrupted, Builds
<1>15. ASSUME CleanUp PROVE Outside'
  BY <1>15 DEF CleanUp
<1>16. ASSUME Record PROVE Outside'
  BY <1>16 DEF Record
<1>17. ASSUME Escapes PROVE Outside'
  BY <1>17 DEF Escapes
<1>18. ASSUME RemoveWorkspace PROVE Outside'
  <2>1. built' \in {built, [built EXCEPT !["workspace"] = NoBuild]}
    BY <1>18 DEF RemoveWorkspace
  <2>2. UNCHANGED <<options, upstream, tree>>
    BY <1>18 DEF RemoveWorkspace
  <2> QED
    BY <2>1, <2>2 DEF Builds
<1>19. ASSUME UpstreamMoves PROVE Outside'
  BY <1>19, ProvisionAssumption DEF UpstreamMoves
<1>20. ASSUME CallerEdits PROVE Outside'
  BY <1>20 DEF CallerEdits
<1>21. ASSUME UNCHANGED vars PROVE Outside'
  BY <1>21 DEF vars
<1> QED
  BY <1>1, <1>2, <1>3, <1>4, <1>5, <1>6, <1>7, <1>8, <1>9, <1>10, <1>11, <1>12, <1>13, <1>14,
     <1>15, <1>16, <1>17, <1>18, <1>19, <1>20, <1>21
  DEF Next

LEMMA TypeStep == StageInv /\ [Next]_vars => TypeOK'
<1> SUFFICES ASSUME StageInv, [Next]_vars PROVE TypeOK'
  OBVIOUS
<1> USE DEF StageInv, TypeOK, request, outside, files
<1>n. NoCore \in Cores /\ BuildDir \in BuildDirs
  BY DEF NoCore, Cores, BuildDir, BuildDirs
<1>1. ASSUME List PROVE TypeOK'
  BY <1>1, <1>n DEF List
<1>2. ASSUME Listed PROVE TypeOK'
  BY <1>2, <1>n DEF Listed
<1>3. ASSUME Invoke PROVE TypeOK'
  <2>1. /\ pc' = "lock" /\ snapshot' = NoTree /\ core' = NoCore /\ binary' = NoDir /\ phase' = "setup"
        /\ result' = 1 /\ raised' = NoCode /\ workspace' = TRUE
        /\ built' = [built EXCEPT !["workspace"] = NoBuild]
    BY <1>3 DEF Invoke
  <2>2. \A d \in BuildDirs : built'[d] = NoBuild \/ built'[d].version # Unmapped
    BY <2>1 DEF Outside
  <2> QED
    BY <1>n, <2>1, <2>2 DEF Cores
<1>4. ASSUME AcquireLock PROVE TypeOK'
  BY <1>4, <1>n DEF AcquireLock, Fails
<1>5. ASSUME ResolveFails PROVE TypeOK'
  BY <1>5, <1>n DEF ResolveFails, Fails
<1>6. ASSUME ResolveRef PROVE TypeOK'
  <2>1. PICK sha \in Commits : /\ snapshot' = [commit |-> sha, edits |-> {}]
                               /\ core' = [NoCore EXCEPT !.sha = sha]
    BY <1>6, FetchedRight DEF ResolveRef, Outside
  <2>2. snapshot' \in [commit : Commits, edits : SUBSET Edits] /\ snapshot' # NoTree
    BY <2>1, ProvisionAssumption DEF NoTree
  <2>3. core' \in [sha : Commits \cup {"unknown"}, version : Releases \cup {Unmapped},
                   dirty : BOOLEAN, patches : SUBSET Edits]
    BY <2>1 DEF NoCore
  <2> QED
    BY <1>6, <2>2, <2>3 DEF ResolveRef
<1>7. ASSUME ReadTree PROVE TypeOK'
  <2>1. PICK t \in CallerTrees : core' = [NoCore EXCEPT !.sha = t.commit, !.dirty = t.edits # {}]
    BY <1>7, CommandLinesAssumption DEF ReadTree, Outside
  <2>2. t.commit \in Commits
    BY ProvisionAssumption
  <2>3. core' \in [sha : Commits \cup {"unknown"}, version : Releases \cup {Unmapped},
                   dirty : BOOLEAN, patches : SUBSET Edits]
    BY <2>1, <2>2 DEF NoCore
  <2>4. pc' = "copy" /\ UNCHANGED <<snapshot, built, workspace, binary, phase, result, raised>>
    BY <1>7 DEF ReadTree
  <2> QED
    BY <2>3, <2>4, SMTT(60)
<1>8. ASSUME CopyTree PROVE TypeOK'
  <2>1. snapshot' \in CallerTrees
    BY <1>8, CommandLinesAssumption DEF CopyTree, Outside, Progress
  <2>2. snapshot' \in [commit : Commits, edits : SUBSET Edits] /\ snapshot' # NoTree
    BY <2>1, ProvisionAssumption DEF NoTree
  <2> QED
    BY <1>8, <2>2 DEF CopyTree
<1>9. ASSUME ApplyPatches PROVE TypeOK'
  <2>1. PatchesOf(core.sha) \subseteq Edits
    BY <1>9, PatchesTyped DEF ApplyPatches, Progress
  <2> DEFINE applied == PatchesOf(core.sha) \ Skipped
  <2>2. /\ snapshot' = [snapshot EXCEPT !.edits = @ \cup applied]
        /\ core' = [core EXCEPT !.patches = applied, !.version = FirmwareVersionForSha(core.sha)]
        /\ pc = "patch"
    BY <1>9 DEF ApplyPatches
  <2>3. applied \in SUBSET Edits /\ FirmwareVersionForSha(core.sha) \in Releases \cup {Unmapped}
    BY <2>1, VersionTyped
  <2> HIDE DEF applied
  <2>4. snapshot \in [commit : Commits, edits : SUBSET Edits]
    BY <2>2
  <2>5. snapshot' \in [commit : Commits, edits : SUBSET Edits] /\ snapshot' # NoTree
    BY <2>2, <2>3, <2>4, ProvisionAssumption DEF NoTree
  <2>6. core' \in [sha : Commits \cup {"unknown"}, version : Releases \cup {Unmapped},
                   dirty : BOOLEAN, patches : SUBSET Edits]
    BY <2>2, <2>3
  <2> QED
    BY <1>9, <2>5, <2>6 DEF ApplyPatches
<1>10. ASSUME BuildRefuses PROVE TypeOK'
  BY <1>10, <1>n DEF BuildRefuses, Fails
<1>11. ASSUME BuildFails PROVE TypeOK'
  <2>1. \A d \in BuildDirs : built'[d] = NoBuild \/ built'[d].version # Unmapped
    BY <1>11 DEF BuildFails, BuiltPartly, Outside
  <2> QED
    BY <1>11, <2>1 DEF BuildFails, Fails
<1>12. ASSUME Build PROVE TypeOK'
  <2>1. \A d \in BuildDirs : built'[d] = NoBuild \/ built'[d].version # Unmapped
    BY <1>12, <1>n DEF Build, Outside
  <2>2. binary' \in BuildDirs /\ binary' # NoDir
    BY <1>12, <1>n DEF Build, BuildDirs, NoDir
  <2>3. pc' \in {"final", "device"} /\ result' \in {0, 1, 2, 124}
    BY <1>12 DEF Build
  <2>4. pc' = "device" => options.test_command /\ snapshot # NoTree
    BY <1>12, CommandLinesAssumption DEF Build, Progress, Outside
  <2>5. UNCHANGED <<request, snapshot, workspace, core, phase>>
    BY <1>12 DEF Build
  <2> QED
    BY <2>1, <2>2, <2>3, <2>4, <2>5, <1>12 DEF Build
<1>13. ASSUME RunDevice PROVE TypeOK'
  BY <1>13, <1>n DEF RunDevice, Fails
<1>14. ASSUME Interrupted PROVE TypeOK'
  <2>1. built' \in {built, [built EXCEPT ![BuildDir] = NoBuild]}
    BY <1>14 DEF Interrupted, BuiltPartly
  <2>2. \A d \in BuildDirs : built'[d] = NoBuild \/ built'[d].version # Unmapped
    BY <2>1 DEF Outside
  <2>3. /\ pc' = "final" /\ raised' = 130 /\ UNCHANGED <<snapshot, workspace, core, binary, result>>
        /\ phase' \in {"host", "start", "attach", "readiness", "test", phase}
    BY <1>14 DEF Interrupted
  <2> QED
    BY <2>2, <2>3
<1>15. ASSUME CleanUp PROVE TypeOK'
  BY <1>15 DEF CleanUp
<1>16. ASSUME Record PROVE TypeOK'
  BY <1>16 DEF Record
<1>17. ASSUME Escapes PROVE TypeOK'
  BY <1>17 DEF Escapes
<1>18. ASSUME RemoveWorkspace PROVE TypeOK'
  <2>1. built' \in {built, [built EXCEPT !["workspace"] = NoBuild]}
    BY <1>18 DEF RemoveWorkspace
  <2>2. \A d \in BuildDirs : built'[d] = NoBuild \/ built'[d].version # Unmapped
    BY <2>1 DEF Outside
  <2>3. /\ pc' = "done" /\ raised' \in {raised, 130} /\ UNCHANGED <<core, binary, phase, result>>
        /\ workspace' \in BOOLEAN /\ snapshot' \in {snapshot, NoTree}
    BY <1>18 DEF RemoveWorkspace
  <2> QED
    BY <2>2, <2>3
<1>19. ASSUME UpstreamMoves PROVE TypeOK'
  BY <1>19, <1>n DEF UpstreamMoves
<1>20. ASSUME CallerEdits PROVE TypeOK'
  BY <1>20, <1>n DEF CallerEdits
<1>21. ASSUME UNCHANGED vars PROVE TypeOK'
  BY <1>21, <1>n DEF vars
<1> QED
  BY <1>1, <1>2, <1>3, <1>4, <1>5, <1>6, <1>7, <1>8, <1>9, <1>10, <1>11, <1>12, <1>13, <1>14,
     <1>15, <1>16, <1>17, <1>18, <1>19, <1>20, <1>21
  DEF Next

LEMMA ProgressStep == StageInv /\ [Next]_vars => Progress' /\ Asked' /\ Kept'
<1> SUFFICES ASSUME StageInv, [Next]_vars PROVE Progress' /\ Asked' /\ Kept'
  OBVIOUS
<1> USE DEF StageInv, Progress, Asked, Kept, request, outside, files
<1>1. ASSUME List PROVE Progress' /\ Asked' /\ Kept'
  BY <1>1 DEF List
<1>2. ASSUME Listed PROVE Progress' /\ Asked' /\ Kept'
  BY <1>2 DEF Listed
<1>3. ASSUME Invoke PROVE Progress' /\ Asked' /\ Kept'
  BY <1>3 DEF Invoke, ParseArgs
<1>4. ASSUME AcquireLock PROVE Progress' /\ Asked' /\ Kept'
  BY <1>4 DEF AcquireLock, Fails
<1>5. ASSUME ResolveFails PROVE Progress' /\ Asked' /\ Kept'
  BY <1>5 DEF ResolveFails, Fails
<1>6. ASSUME ResolveRef PROVE Progress' /\ Asked' /\ Kept'
  <2>1. /\ core' = [NoCore EXCEPT !.sha = Fetched(FetchRef(options.ref))]
        /\ Fetched(FetchRef(options.ref)) \in Commits
        /\ options.ref \in Releases => Fetched(FetchRef(options.ref)) = FetchRef(options.ref)
    BY <1>6, FetchedRight DEF ResolveRef, Outside
  <2>2. core'.sha = Fetched(FetchRef(options.ref)) /\ core'.version = Unmapped
    BY <2>1 DEF NoCore
  <2> QED
    BY <1>6, <2>1, <2>2 DEF ResolveRef
<1>7. ASSUME ReadTree PROVE Progress' /\ Asked' /\ Kept'
  <2>1. PICK t \in CallerTrees : core' = [NoCore EXCEPT !.sha = t.commit, !.dirty = t.edits # {}]
    BY <1>7, CommandLinesAssumption DEF ReadTree, Outside
  <2>2. core'.sha \in Commits /\ core'.version = Unmapped
    BY <2>1, ProvisionAssumption DEF NoCore
  <2>3. /\ pc = "resolve" /\ pc' = "copy" /\ options.source # "ref"
        /\ UNCHANGED <<options, workspace, binary, result>>
    BY <1>7 DEF ReadTree
  <2> QED
    BY <2>2, <2>3, SMTT(60)
<1>8. ASSUME CopyTree PROVE Progress' /\ Asked' /\ Kept'
  BY <1>8 DEF CopyTree
<1>9. ASSUME ApplyPatches PROVE Progress' /\ Asked' /\ Kept'
  <2>1. pc = "patch" /\ pc' = "build" /\ core'.sha = core.sha
    BY <1>9 DEF ApplyPatches, TypeOK
  <2> QED
    BY <1>9, <2>1 DEF ApplyPatches
<1>10. ASSUME BuildRefuses PROVE Progress' /\ Asked' /\ Kept'
  BY <1>10 DEF BuildRefuses, Fails
<1>11. ASSUME BuildFails PROVE Progress' /\ Asked' /\ Kept'
  BY <1>11 DEF BuildFails, Fails
<1>12. ASSUME Build PROVE Progress' /\ Asked' /\ Kept'
  <2>1. built'[binary'] = [commit |-> snapshot.commit, edits |-> snapshot.edits, version |-> core.version]
    BY <1>12 DEF Build, BuildDir, BuildDirs, Outside
  <2>2. built'[binary'] # NoBuild
    BY <1>12, <2>1 DEF Build, NoBuild
  <2>3. snapshot' # NoTree /\ UNCHANGED options
    BY <1>12 DEF Build, TypeOK
  <2>4. (pc' = "final" /\ options.build_only) \/ (pc' = "device" /\ ~options.build_only /\ result' = result)
    BY <1>12 DEF Build
  <2> QED
    BY <1>12, <2>2, <2>3, <2>4 DEF Build
<1>13. ASSUME RunDevice PROVE Progress' /\ Asked' /\ Kept'
  BY <1>13 DEF RunDevice, Fails
<1>14. ASSUME Interrupted PROVE Progress' /\ Asked' /\ Kept'
  <2>1. /\ pc' = "final" /\ UNCHANGED <<options, snapshot, workspace, binary, result>>
        /\ pc \in {"lock", "resolve", "copy", "patch", "build", "device"} \/ (pc = "final" /\ built' = built)
    BY <1>14 DEF Interrupted
  <2> QED
    BY <2>1
<1>15. ASSUME CleanUp PROVE Progress' /\ Asked' /\ Kept'
  BY <1>15 DEF CleanUp
<1>16. ASSUME Record PROVE Progress' /\ Asked' /\ Kept'
  <2>1. metadata' = [metadata EXCEPT !.phase = phase, !.exit = result, !.preserved = RecordedPreserved(result)]
    BY <1>16 DEF Record
  <2>2. metadata'.exit = result /\ metadata'.preserved = RecordedPreserved(result)
    BY <2>1 DEF TypeOK
  <2>3. pc = "record" /\ pc' = "remove" /\ UNCHANGED <<options, snapshot, built, workspace, binary, result>>
    BY <1>16 DEF Record
  <2>4. RecordedPreserved(result)' = RecordedPreserved(result)
    BY <2>3 DEF RecordedPreserved
  <2> QED
    BY <2>2, <2>3, <2>4
<1>17. ASSUME Escapes PROVE Progress' /\ Asked' /\ Kept'
  <2>1. pc \in {"final", "record"} /\ pc' = "done" /\ UNCHANGED options
    BY <1>17 DEF Escapes
  <2> QED
    BY <2>1
<1>18. ASSUME RemoveWorkspace PROVE Progress' /\ Asked' /\ Kept'
  <2>1. pc = "remove" /\ pc' = "done" /\ UNCHANGED options
    BY <1>18 DEF RemoveWorkspace
  <2> QED
    BY <2>1
<1>19. ASSUME UpstreamMoves PROVE Progress' /\ Asked' /\ Kept'
  <2>1. UNCHANGED <<pc, options, snapshot, built, workspace, core, binary, result, metadata>>
    BY <1>19 DEF UpstreamMoves
  <2>2. RecordedPreserved(result)' = RecordedPreserved(result)
    BY <2>1 DEF RecordedPreserved
  <2> QED
    BY <2>1, <2>2
<1>20. ASSUME CallerEdits PROVE Progress' /\ Asked' /\ Kept'
  <2>1. UNCHANGED <<pc, options, snapshot, built, workspace, core, binary, result, metadata>>
    BY <1>20 DEF CallerEdits
  <2>2. RecordedPreserved(result)' = RecordedPreserved(result)
    BY <2>1 DEF RecordedPreserved
  <2> QED
    BY <2>1, <2>2
<1>21. ASSUME UNCHANGED vars PROVE Progress' /\ Asked' /\ Kept'
  <2>1. UNCHANGED <<pc, options, snapshot, built, workspace, core, binary, result, metadata>>
    BY <1>21 DEF vars
  <2>2. RecordedPreserved(result)' = RecordedPreserved(result)
    BY <2>1 DEF RecordedPreserved
  <2> QED
    BY <2>1, <2>2
<1> QED
  BY <1>1, <1>2, <1>3, <1>4, <1>5, <1>6, <1>7, <1>8, <1>9, <1>10, <1>11, <1>12, <1>13, <1>14,
     <1>15, <1>16, <1>17, <1>18, <1>19, <1>20, <1>21
  DEF Next

LEMMA ReleaseStep == StageInv /\ [Next]_vars => ReleaseAsAsked'
<1> SUFFICES ASSUME StageInv, [Next]_vars PROVE ReleaseAsAsked'
  OBVIOUS
<1> USE DEF StageInv, ReleaseAsAsked, request, outside, files
<1>1. ASSUME List PROVE ReleaseAsAsked'
  BY <1>1 DEF List
<1>2. ASSUME Listed PROVE ReleaseAsAsked'
  BY <1>2 DEF Listed
<1>3. ASSUME Invoke PROVE ReleaseAsAsked'
  BY <1>3 DEF Invoke, NoCore
<1>4. ASSUME AcquireLock PROVE ReleaseAsAsked'
  BY <1>4 DEF AcquireLock, Fails
<1>5. ASSUME ResolveFails PROVE ReleaseAsAsked'
  BY <1>5 DEF ResolveFails, Fails
<1>6. ASSUME ResolveRef PROVE ReleaseAsAsked'
  BY <1>6 DEF ResolveRef, NoCore
<1>7. ASSUME ReadTree PROVE ReleaseAsAsked'
  BY <1>7 DEF ReadTree
<1>8. ASSUME CopyTree PROVE ReleaseAsAsked'
  BY <1>8 DEF CopyTree
<1>9. ASSUME ApplyPatches PROVE ReleaseAsAsked'
  <2>1. pc = "patch" /\ core'.version = FirmwareVersionForSha(core.sha) /\ options' = options
    BY <1>9 DEF ApplyPatches, TypeOK
  <2> QED
    BY <2>1, ReleaseCommit DEF Asked
<1>10. ASSUME BuildRefuses PROVE ReleaseAsAsked'
  BY <1>10 DEF BuildRefuses, Fails
<1>11. ASSUME BuildFails PROVE ReleaseAsAsked'
  BY <1>11 DEF BuildFails, Fails
<1>12. ASSUME Build PROVE ReleaseAsAsked'
  BY <1>12 DEF Build
<1>13. ASSUME RunDevice PROVE ReleaseAsAsked'
  BY <1>13 DEF RunDevice, Fails
<1>14. ASSUME Interrupted PROVE ReleaseAsAsked'
  BY <1>14 DEF Interrupted
<1>15. ASSUME CleanUp PROVE ReleaseAsAsked'
  BY <1>15 DEF CleanUp
<1>16. ASSUME Record PROVE ReleaseAsAsked'
  BY <1>16 DEF Record
<1>17. ASSUME Escapes PROVE ReleaseAsAsked'
  BY <1>17 DEF Escapes
<1>18. ASSUME RemoveWorkspace PROVE ReleaseAsAsked'
  BY <1>18 DEF RemoveWorkspace
<1>19. ASSUME UpstreamMoves PROVE ReleaseAsAsked'
  BY <1>19 DEF UpstreamMoves
<1>20. ASSUME CallerEdits PROVE ReleaseAsAsked'
  BY <1>20 DEF CallerEdits
<1>21. ASSUME UNCHANGED vars PROVE ReleaseAsAsked'
  BY <1>21 DEF vars
<1> QED
  BY <1>1, <1>2, <1>3, <1>4, <1>5, <1>6, <1>7, <1>8, <1>9, <1>10, <1>11, <1>12, <1>13, <1>14,
     <1>15, <1>16, <1>17, <1>18, <1>19, <1>20, <1>21
  DEF Next

LEMMA LeftStep == StageInv /\ [Next]_vars => LeftAsPromised'
<1> SUFFICES ASSUME StageInv, [Next]_vars PROVE LeftAsPromised'
  OBVIOUS
<1> USE DEF StageInv, LeftAsPromised, request, outside, files
<1>1. ASSUME List PROVE LeftAsPromised'
  BY <1>1 DEF List
<1>2. ASSUME Listed PROVE LeftAsPromised'
  BY <1>2 DEF Listed
<1>3. ASSUME Invoke PROVE LeftAsPromised'
  BY <1>3 DEF Invoke
<1>4. ASSUME AcquireLock PROVE LeftAsPromised'
  BY <1>4 DEF AcquireLock, Fails
<1>5. ASSUME ResolveFails PROVE LeftAsPromised'
  BY <1>5 DEF ResolveFails, Fails
<1>6. ASSUME ResolveRef PROVE LeftAsPromised'
  BY <1>6 DEF ResolveRef
<1>7. ASSUME ReadTree PROVE LeftAsPromised'
  BY <1>7 DEF ReadTree
<1>8. ASSUME CopyTree PROVE LeftAsPromised'
  BY <1>8 DEF CopyTree
<1>9. ASSUME ApplyPatches PROVE LeftAsPromised'
  BY <1>9 DEF ApplyPatches
<1>10. ASSUME BuildRefuses PROVE LeftAsPromised'
  BY <1>10 DEF BuildRefuses, Fails
<1>11. ASSUME BuildFails PROVE LeftAsPromised'
  BY <1>11 DEF BuildFails, Fails
<1>12. ASSUME Build PROVE LeftAsPromised'
  BY <1>12 DEF Build
<1>13. ASSUME RunDevice PROVE LeftAsPromised'
  BY <1>13 DEF RunDevice, Fails
<1>14. ASSUME Interrupted PROVE LeftAsPromised'
  <2>1. pc' = "final"
    BY <1>14 DEF Interrupted
  <2> QED
    BY <2>1
<1>15. ASSUME CleanUp PROVE LeftAsPromised'
  <2>1. pc' = "record"
    BY <1>15 DEF CleanUp
  <2> QED
    BY <2>1
<1>16. ASSUME Record PROVE LeftAsPromised'
  <2>1. pc' = "remove"
    BY <1>16 DEF Record
  <2> QED
    BY <2>1
<1>17. ASSUME Escapes PROVE LeftAsPromised'
  <2>1. /\ pc \in {"final", "record"} /\ UNCHANGED <<options, workspace>>
        /\ raised' \in {1, 130}
    BY <1>17 DEF Escapes
  <2>2. workspace' /\ ExitCode' # 0
    BY <2>1 DEF Progress, ExitCode, NoCode
  <2> QED
    BY <2>2
<1>18. ASSUME RemoveWorkspace PROVE LeftAsPromised'
  <2>1. /\ pc = "remove" /\ raised' \in {raised, 130} /\ UNCHANGED <<options, binary, result, metadata>>
        /\ PreserveWorkspace(result) => UNCHANGED <<snapshot, built, workspace>>
    BY <1>18 DEF RemoveWorkspace
  <2>2. ExitCode' = 0 => result = 0
    BY <2>1 DEF ExitCode, NoCode, TypeOK
  <2>3. PreserveWorkspace(result) => workspace'
    BY <2>1 DEF Progress
  <2>4. metadata.exit = result /\ metadata.preserved = PreserveWorkspace(result)
    BY <2>1 DEF Kept, RecordedPreserved, PreserveWorkspace
  <2>5. result = 0 /\ options.build_only => built'[binary] # NoBuild /\ snapshot' # NoTree
    BY <2>1 DEF Kept, PreserveWorkspace
  <2>6. result # 0 /\ options.keep_on_failure => workspace'
    BY <2>3 DEF PreserveWorkspace
  <2> QED
    BY <2>1, <2>2, <2>3, <2>4, <2>5, <2>6
<1>19. ASSUME UpstreamMoves PROVE LeftAsPromised'
  BY <1>19 DEF UpstreamMoves, ExitCode
<1>20. ASSUME CallerEdits PROVE LeftAsPromised'
  BY <1>20 DEF CallerEdits, ExitCode
<1>21. ASSUME UNCHANGED vars PROVE LeftAsPromised'
  BY <1>21 DEF vars, ExitCode
<1> QED
  BY <1>1, <1>2, <1>3, <1>4, <1>5, <1>6, <1>7, <1>8, <1>9, <1>10, <1>11, <1>12, <1>13, <1>14,
     <1>15, <1>16, <1>17, <1>18, <1>19, <1>20, <1>21
  DEF Next

LEMMA StageStep == StageInv /\ [Next]_vars => StageInv'
BY OutsideStep, TypeStep, ProgressStep, ReleaseStep, LeftStep DEF StageInv

LEMMA Staged == Spec => []StageInv
BY StageInit, StageStep, PTL DEF Spec

\* Type correctness, for every catalog and set of command lines: a core is
\* recorded with a release or none, no directory holds a binary of no release, and
\* nothing is run without a binary and a test command.
THEOREM TypeCorrect == Spec => []TypeOK
<1>1. StageInv => TypeOK
  BY DEF StageInv
<1> QED
  BY <1>1, Staged, PTL

\* Asked for a release, the harness builds that release: the commit fetched for it
\* is recorded as that release, wherever branches and tags point.
THEOREM ReleaseBuilt == Spec => []ReleaseAsAsked
<1>1. StageInv => ReleaseAsAsked
  BY DEF StageInv
<1> QED
  BY <1>1, Staged, PTL

\* What an execution leaves is what --keep-on-failure, metadata.json and its exit
\* code promise, whatever failed, escaped or was interrupted on the way.
THEOREM LeftPromised == Spec => []LeftAsPromised
<1>1. StageInv => LeftAsPromised
  BY DEF StageInv
<1> QED
  BY <1>1, Staged, PTL
-----------------------------------------------------------------------------
(* The binary.                                                             *)

\* The workspace and the record of it agree more and more as the stages pass: from
\* the tree that is read to the tree that is built.
Agreement ==
  /\ pc = "copy" =>
       /\ core.sha = tree[options.source].commit
       /\ core.dirty <=> tree[options.source].edits # {}
  /\ pc \in {"patch", "build"} => snapshot.commit = core.sha
  /\ pc = "patch" /\ ~core.dirty => snapshot.edits = {}
  /\ pc = "build" =>
       /\ metadata.core = core
       /\ core.version = FirmwareVersionForSha(core.sha)
       /\ PatchesOf(core.sha) \subseteq snapshot.edits
       /\ ~core.dirty => snapshot.edits = core.patches
  /\ pc # "done" => metadata.phase # "unreadable"

BinaryInv == StageInv /\ Agreement /\ BinaryAsRecorded

LEMMA BinaryInit == Init => BinaryInv
<1> SUFFICES ASSUME Init PROVE BinaryInv
  OBVIOUS
<1> QED
  BY StageInit DEF Init, BinaryInv, Agreement, BinaryAsRecorded, BaseMetadata

LEMMA AgreementStep == ASSUME ~MovesWhileRead PROVE BinaryInv /\ [Next]_vars => Agreement'
<1> SUFFICES ASSUME BinaryInv, [Next]_vars PROVE Agreement'
  OBVIOUS
<1> USE DEF BinaryInv, Agreement, request, outside, files
<1>1. ASSUME List PROVE Agreement'
  BY <1>1 DEF List
<1>2. ASSUME Listed PROVE Agreement'
  BY <1>2 DEF Listed
<1>3. ASSUME Invoke PROVE Agreement'
  BY <1>3 DEF Invoke, BaseMetadata
<1>4. ASSUME AcquireLock PROVE Agreement'
  BY <1>4 DEF AcquireLock, Fails
<1>5. ASSUME ResolveFails PROVE Agreement'
  BY <1>5 DEF ResolveFails, Fails
<1>6. ASSUME ResolveRef PROVE Agreement'
  <2>1. PICK sha : /\ snapshot' = [commit |-> sha, edits |-> {}]
                   /\ core' = [NoCore EXCEPT !.sha = sha]
                   /\ pc = "resolve" /\ pc' = "patch" /\ metadata' = metadata
    BY <1>6 DEF ResolveRef
  <2>2. core'.sha = sha
    BY <2>1 DEF NoCore
  <2> QED
    BY <2>1, <2>2
<1>7. ASSUME ReadTree PROVE Agreement'
  <2> DEFINE source == tree[options.source]
  <2>1. /\ core' = [NoCore EXCEPT !.sha = source.commit, !.dirty = source.edits # {}]
        /\ pc = "resolve" /\ pc' = "copy" /\ UNCHANGED <<tree, options, metadata>>
    BY <1>7 DEF ReadTree
  <2>2. core'.sha = source.commit /\ core'.dirty = (source.edits # {})
    BY <2>1 DEF NoCore
  <2> QED
    BY <2>1, <2>2
<1>8. ASSUME CopyTree PROVE Agreement'
  BY <1>8 DEF CopyTree
<1>9. ASSUME ApplyPatches PROVE Agreement'
  <2> DEFINE applied == PatchesOf(core.sha) \ Skipped
  <2>1. /\ pc = "patch" /\ pc' = "build"
        /\ snapshot' = [snapshot EXCEPT !.edits = @ \cup applied]
        /\ core' = [core EXCEPT !.patches = applied, !.version = FirmwareVersionForSha(core.sha)]
        /\ metadata' = [metadata EXCEPT !.core = core']
    BY <1>9 DEF ApplyPatches
  <2>2. snapshot'.commit = snapshot.commit /\ snapshot'.edits = snapshot.edits \cup applied
    BY <2>1 DEF StageInv, TypeOK
  <2>3. /\ core'.sha = core.sha /\ core'.dirty = core.dirty /\ core'.patches = applied
        /\ core'.version = FirmwareVersionForSha(core.sha)
    BY <2>1 DEF StageInv, TypeOK
  <2>4. metadata'.core = core'
    BY <2>1
  <2>5. PatchesOf(core.sha) \subseteq snapshot.edits \cup applied
    BY DEF Skipped
  <2> HIDE DEF applied
  <2> QED
    BY <2>1, <2>2, <2>3, <2>4, <2>5
<1>10. ASSUME BuildRefuses PROVE Agreement'
  BY <1>10 DEF BuildRefuses, Fails
<1>11. ASSUME BuildFails PROVE Agreement'
  BY <1>11 DEF BuildFails, Fails
<1>12. ASSUME Build PROVE Agreement'
  BY <1>12 DEF Build
<1>13. ASSUME RunDevice PROVE Agreement'
  BY <1>13 DEF RunDevice, Fails
<1>14. ASSUME Interrupted PROVE Agreement'
  BY <1>14 DEF Interrupted
<1>15. ASSUME CleanUp PROVE Agreement'
  BY <1>15 DEF CleanUp
<1>16. ASSUME Record PROVE Agreement'
  <2>1. /\ pc' = "remove"
        /\ metadata' = [metadata EXCEPT !.phase = phase, !.exit = result, !.preserved = RecordedPreserved(result)]
    BY <1>16 DEF Record
  <2>2. metadata'.phase = phase /\ phase # "unreadable"
    BY <2>1 DEF StageInv, TypeOK
  <2> QED
    BY <2>1, <2>2
<1>17. ASSUME Escapes PROVE Agreement'
  BY <1>17 DEF Escapes
<1>18. ASSUME RemoveWorkspace PROVE Agreement'
  BY <1>18 DEF RemoveWorkspace
<1>19. ASSUME UpstreamMoves PROVE Agreement'
  BY <1>19 DEF UpstreamMoves
<1>20. ASSUME CallerEdits PROVE Agreement'
  BY <1>20 DEF CallerEdits
<1>21. ASSUME UNCHANGED vars PROVE Agreement'
  BY <1>21 DEF vars
<1> QED
  BY <1>1, <1>2, <1>3, <1>4, <1>5, <1>6, <1>7, <1>8, <1>9, <1>10, <1>11, <1>12, <1>13, <1>14,
     <1>15, <1>16, <1>17, <1>18, <1>19, <1>20, <1>21
  DEF Next

LEMMA BinaryStep == BinaryInv /\ [Next]_vars => BinaryAsRecorded'
<1> SUFFICES ASSUME BinaryInv, [Next]_vars PROVE BinaryAsRecorded'
  OBVIOUS
<1> USE DEF BinaryInv, BinaryAsRecorded, request, outside, files
<1>1. ASSUME List PROVE BinaryAsRecorded'
  BY <1>1 DEF List
<1>2. ASSUME Listed PROVE BinaryAsRecorded'
  BY <1>2 DEF Listed
<1>3. ASSUME Invoke PROVE BinaryAsRecorded'
  BY <1>3 DEF Invoke, NoDir
<1>4. ASSUME AcquireLock PROVE BinaryAsRecorded'
  BY <1>4 DEF AcquireLock, Fails
<1>5. ASSUME ResolveFails PROVE BinaryAsRecorded'
  BY <1>5 DEF ResolveFails, Fails
<1>6. ASSUME ResolveRef PROVE BinaryAsRecorded'
  BY <1>6 DEF ResolveRef
<1>7. ASSUME ReadTree PROVE BinaryAsRecorded'
  BY <1>7 DEF ReadTree
<1>8. ASSUME CopyTree PROVE BinaryAsRecorded'
  BY <1>8 DEF CopyTree
<1>9. ASSUME ApplyPatches PROVE BinaryAsRecorded'
  BY <1>9 DEF ApplyPatches, StageInv, Progress
<1>10. ASSUME BuildRefuses PROVE BinaryAsRecorded'
  BY <1>10 DEF BuildRefuses, Fails
<1>11. ASSUME BuildFails PROVE BinaryAsRecorded'
  BY <1>11 DEF BuildFails, Fails, StageInv, Progress
<1>12. ASSUME Build PROVE BinaryAsRecorded'
  <2>1. /\ pc = "build" /\ metadata' = metadata
        /\ built' = [built EXCEPT ![BuildDir] =
             [commit |-> snapshot.commit, edits |-> snapshot.edits, version |-> core.version]]
        /\ binary' = BuildDir
    BY <1>12 DEF Build
  <2>2. BuildDir \in DOMAIN built
    BY DEF StageInv, Outside, BuildDir, BuildDirs
  <2>3. built'[binary'] = [commit |-> snapshot.commit, edits |-> snapshot.edits, version |-> core.version]
    BY <2>1, <2>2
  <2>4. metadata'.core = core
    BY <2>1 DEF Agreement
  <2> QED
    BY <2>1, <2>3, <2>4 DEF Agreement
<1>13. ASSUME RunDevice PROVE BinaryAsRecorded'
  BY <1>13 DEF RunDevice, Fails
<1>14. ASSUME Interrupted PROVE BinaryAsRecorded'
  <2>1. UNCHANGED <<binary, metadata>> /\ (pc = "device" => built' = built)
    BY <1>14 DEF Interrupted
  <2>2. pc # "device" => binary = NoDir \/ built' = built
    BY <1>14 DEF Interrupted, StageInv, Progress
  <2> QED
    BY <2>1, <2>2
<1>15. ASSUME CleanUp PROVE BinaryAsRecorded'
  BY <1>15 DEF CleanUp
<1>16. ASSUME Record PROVE BinaryAsRecorded'
  <2>1. /\ pc = "record" /\ UNCHANGED <<built, binary>>
        /\ metadata' = [metadata EXCEPT !.phase = phase, !.exit = result, !.preserved = RecordedPreserved(result)]
    BY <1>16 DEF Record
  <2>2. metadata'.core = metadata.core
    BY <2>1
  <2>3. metadata # Unreadable
    BY <2>1 DEF Agreement, Unreadable, BaseMetadata
  <2> QED
    BY <2>1, <2>2, <2>3
<1>17. ASSUME Escapes PROVE BinaryAsRecorded'
  <2>1. UNCHANGED <<built, binary>> /\ metadata' \in {metadata, Unreadable}
    BY <1>17 DEF Escapes
  <2> QED
    BY <2>1
<1>18. ASSUME RemoveWorkspace PROVE BinaryAsRecorded'
  <2>1. built' \in {built, [built EXCEPT !["workspace"] = NoBuild]} /\ UNCHANGED <<binary, metadata>>
    BY <1>18 DEF RemoveWorkspace
  <2>2. ASSUME binary \in BuildDirs PROVE built'[binary] \in {built[binary], NoBuild}
    BY <2>1, <2>2 DEF StageInv, Outside
  <2> QED
    BY <2>1, <2>2 DEF StageInv, TypeOK
<1>19. ASSUME UpstreamMoves PROVE BinaryAsRecorded'
  BY <1>19 DEF UpstreamMoves
<1>20. ASSUME CallerEdits PROVE BinaryAsRecorded'
  BY <1>20 DEF CallerEdits
<1>21. ASSUME UNCHANGED vars PROVE BinaryAsRecorded'
  BY <1>21 DEF vars
<1> QED
  BY <1>1, <1>2, <1>3, <1>4, <1>5, <1>6, <1>7, <1>8, <1>9, <1>10, <1>11, <1>12, <1>13, <1>14,
     <1>15, <1>16, <1>17, <1>18, <1>19, <1>20, <1>21
  DEF Next

\* The binary that runs, or that compat/build prints, is the one metadata.json
\* describes: its commit, its release, its compatibility patches and nothing else.
\* Assumes that the caller leaves the tree alone between rev-parse and the end of
\* the copy.
THEOREM BinaryRight == ASSUME ~MovesWhileRead PROVE Spec => []BinaryAsRecorded
<1>1. Init => BinaryInv
  BY BinaryInit
<1>2. BinaryInv /\ [Next]_vars => BinaryInv'
  BY AgreementStep, BinaryStep, StageStep DEF BinaryInv
<1>3. BinaryInv => BinaryAsRecorded
  BY DEF BinaryInv
<1> QED
  BY <1>1, <1>2, <1>3, PTL DEF Spec
-----------------------------------------------------------------------------
(* Profiles.  Catalog computes with recursive functions: FoldLeft over sets  *)
(* of places, FlattenSeq over places.  What they compute is shown place by   *)
(* place: a fact about place 0 that each place hands on holds at every one.  *)

Below == {x \in Nat \X Nat : x[1] < x[2]}

LEMMA FirstOne ==
  ASSUME NEW S \in SUBSET Nat, S # {}
  PROVE  \E m \in S : \A q \in S : m <= q
<1>1. IsWellFoundedOn(Below, Nat)
  <2>1. Below = OpToRel(<, Nat)
    BY DEF Below, OpToRel
  <2> QED
    BY <2>1, NatLessThanWellFounded
<1>2. PICK m \in S : \A q \in S : <<q, m>> \notin Below
  BY <1>1, WFMin
<1>3. ASSUME NEW q \in S PROVE m <= q
  <2>1. q \in Nat /\ m \in Nat /\ ~(q < m)
    BY <1>2 DEF Below
  <2> QED
    BY <2>1
<1> QED
  BY <1>3

\* T: the places where the fact holds.
LEMMA HandedOn ==
  ASSUME NEW n \in Nat, NEW T, 0 \in T, \A k \in T : k \in 0..n /\ k < n => k + 1 \in T
  PROVE  \A k \in 0..n : k \in T
<1> DEFINE Missing == (0..n) \ T
<1>1. SUFFICES ASSUME Missing # {} PROVE FALSE
  OBVIOUS
<1>2. PICK m \in Missing : \A q \in Missing : m <= q
  <2>1. Missing \in SUBSET Nat
    OBVIOUS
  <2> HIDE DEF Missing
  <2> QED
    BY <1>1, <2>1, FirstOne
<1>3. m \in 0..n /\ m # 0
  BY <1>2
<1>4. m - 1 \in 0..n /\ ~(m <= m - 1) /\ m - 1 < n /\ m - 1 + 1 = m
  BY <1>3
<1>5. m - 1 \in T
  BY <1>2, <1>4
<1> QED
  BY <1>2, <1>4, <1>5

LEMMA MaxIsMax ==
  ASSUME NEW n \in Nat, NEW S \in SUBSET (1..n), S # {}
  PROVE  Max(S) \in S /\ \A y \in S : y <= Max(S)
<1> DEFINE D == {n - x : x \in S}
<1>1. D \in SUBSET Nat /\ D # {}
  OBVIOUS
<1>2. PICK d \in D : \A q \in D : d <= q
  BY <1>1, FirstOne
<1>3. PICK m \in S : d = n - m
  BY <1>2
<1>4. \A y \in S : m >= y
  <2> SUFFICES ASSUME NEW y \in S PROVE m >= y
    OBVIOUS
  <2>1. d <= n - y
    BY <1>2
  <2>2. m \in 1..n /\ y \in 1..n
    OBVIOUS
  <2>3. m \in Int /\ y \in Int
    BY <2>2
  <2> HIDE DEF D
  <2> QED
    BY <1>3, <2>1, <2>3
<1>5. Max(S) \in S /\ \A y \in S : Max(S) >= y
  BY <1>4 DEF Max
<1> QED
  BY <1>5

\* The two folds of the catalog.
Kinds == {"once", "releases"}

Add(kind, ids, id) == IF kind = "once" THEN SelectOnce(ids, id) ELSE AddRelease(ids, id)

FoldOf(kind, e) == IF kind = "once" THEN FoldLeft(SelectOnce, <<>>, e) ELSE FoldLeft(AddRelease, <<>>, e)

\* What MapThenFoldSet computes for each set of places.
FoldsTo(f, kind, e, n) ==
  f = [s \in SUBSET (1..n) |-> IF s = {} THEN <<>> ELSE Add(kind, f[s \ {Max(s)}], e[Max(s)])]

LEMMA FoldsExist ==
  ASSUME NEW kind \in Kinds, NEW e, NEW n \in Nat
  PROVE  \E f : FoldsTo(f, kind, e, n)
<1> DEFINE T == {k \in 0..n : \E f : FoldsTo(f, kind, e, k)}
<1>1. 0 \in T
  <2> DEFINE f == [s \in SUBSET (1..0) |-> <<>>]
  <2>1. \A s \in SUBSET (1..0) : s = {}
    OBVIOUS
  <2>2. FoldsTo(f, kind, e, 0)
    BY <2>1 DEF FoldsTo
  <2> QED
    BY <2>2
<1>2. ASSUME NEW k \in T, k \in 0..n, k < n PROVE k + 1 \in T
  <2>1. PICK f : FoldsTo(f, kind, e, k)
    OBVIOUS
  <2> DEFINE g == [s \in SUBSET (1..(k + 1)) |->
                     IF k + 1 \in s THEN Add(kind, f[s \ {k + 1}], e[k + 1]) ELSE f[s]]
  <2>2. ASSUME NEW s \in SUBSET (1..(k + 1))
        PROVE  g[s] = IF s = {} THEN <<>> ELSE Add(kind, g[s \ {Max(s)}], e[Max(s)])
    <3>1. CASE k + 1 \in s
      <4>1. Max(s) = k + 1
        <5>1. k + 1 \in Nat /\ k \in Nat
          BY <1>2
        <5>2. Max(s) \in s /\ k + 1 <= Max(s)
          BY <3>1, <5>1, MaxIsMax
        <5>3. Max(s) \in 1..(k + 1)
          BY <5>2
        <5> QED
          BY <5>1, <5>2, <5>3
      <4>2. s \ {k + 1} \in SUBSET (1..(k + 1)) /\ k + 1 \notin s \ {k + 1}
        OBVIOUS
      <4>3. g[s \ {k + 1}] = f[s \ {k + 1}]
        BY <4>2
      <4> QED
        BY <3>1, <4>1, <4>3
    <3>2. CASE k + 1 \notin s
      <4>1. s \in SUBSET (1..k)
        BY <3>2
      <4>2. g[s] = f[s]
        BY <3>2
      <4>3. f[s] = IF s = {} THEN <<>> ELSE Add(kind, f[s \ {Max(s)}], e[Max(s)])
        BY <2>1, <4>1 DEF FoldsTo
      <4>4. s \ {Max(s)} \in SUBSET (1..(k + 1)) /\ k + 1 \notin s \ {Max(s)}
        BY <3>2
      <4>5. g[s \ {Max(s)}] = f[s \ {Max(s)}]
        BY <4>4
      <4> HIDE DEF g
      <4> QED
        BY <4>2, <4>3, <4>5
    <3> QED
      BY <3>1, <3>2
  <2>3. FoldsTo(g, kind, e, k + 1)
    <3>1. g = [s \in SUBSET (1..(k + 1)) |-> g[s]]
      OBVIOUS
    <3> HIDE DEF g
    <3> QED
      BY <2>2, <3>1 DEF FoldsTo
  <2> QED
    BY <1>2, <2>3
<1>3. n \in 0..n
  OBVIOUS
<1> HIDE DEF T
<1>4. n \in T
  BY <1>1, <1>2, <1>3, HandedOn
<1> QED
  BY <1>4 DEF T

\* A fold takes the elements one by one.
LEMMA FoldSteps ==
  ASSUME NEW kind \in Kinds, NEW S, NEW e \in Seq(S)
  PROVE  \E g : /\ g[0] = <<>>
                /\ \A k \in 1..Len(e) : g[k] = Add(kind, g[k - 1], e[k])
                /\ FoldOf(kind, e) = g[Len(e)]
<1> DEFINE n == Len(e)
           f == CHOOSE f : FoldsTo(f, kind, e, n)
           g == [k \in 0..n |-> f[1..k]]
<1>1. n \in Nat /\ DOMAIN e = 1..n
  OBVIOUS
<1>2. FoldOf(kind, e) = f[1..n]
  <2>1. CASE kind = "once"
    BY <1>1, <2>1 DEF FoldOf, FoldsTo, Add, FoldLeft, MapThenFoldSet
  <2>2. CASE kind = "releases"
    BY <1>1, <2>2 DEF FoldOf, FoldsTo, Add, FoldLeft, MapThenFoldSet
  <2> QED
    BY <2>1, <2>2 DEF Kinds
<1> HIDE DEF n
<1>3. FoldsTo(f, kind, e, n)
  BY <1>1, FoldsExist
<1> HIDE DEF f
<1>4. \A s \in SUBSET (1..n) :
        f[s] = IF s = {} THEN <<>> ELSE Add(kind, f[s \ {Max(s)}], e[Max(s)])
  BY <1>3 DEF FoldsTo
<1>5. g[0] = <<>>
  <2>1. 1..0 = {} /\ 0 \in 0..n /\ {} \in SUBSET (1..n)
    BY <1>1
  <2> QED
    BY <1>4, <2>1
<1>6. ASSUME NEW k \in 1..n PROVE g[k] = Add(kind, g[k - 1], e[k])
  <2>1. /\ 1..k \in SUBSET (1..n) /\ k \in 1..k /\ (1..k) \ {k} = 1..(k - 1)
        /\ k \in 0..n /\ k - 1 \in 0..n
    BY <1>1
  <2>2. Max(1..k) = k
    <3>1. k \in Nat
      BY <1>1
    <3>3. 1..k \in SUBSET (1..k) /\ 1..k # {}
      BY <2>1
    <3>2. Max(1..k) \in 1..k /\ k <= Max(1..k)
      BY <2>1, <3>1, <3>3, MaxIsMax
    <3> QED
      BY <3>1, <3>2
  <2>3. f[1..k] = Add(kind, f[(1..k) \ {Max(1..k)}], e[Max(1..k)])
    BY <1>4, <2>1
  <2>4. f[1..k] = Add(kind, f[1..(k - 1)], e[k])
    BY <2>1, <2>2, <2>3
  <2> QED
    BY <2>1, <2>4
<1>7. g[n] = f[1..n]
  BY <1>1
<1> HIDE DEF g
<1> QED
  BY <1>2, <1>5, <1>6, <1>7 DEF n

\* e is what the first m of bs make, one after the other: e[k] is element c[k] of
\* bs[b[k]].
Keyed(e, b, c, bs, m) ==
  /\ \A k \in 1..Len(e) :
       b[k] \in 1..m /\ c[k] \in 1..Len(bs[b[k]]) /\ e[k] = bs[b[k]][c[k]]
  /\ \A k, l \in 1..Len(e) : k < l => b[k] < b[l] \/ (b[k] = b[l] /\ c[k] < c[l])
  /\ \A i \in 1..m : \A j \in 1..Len(bs[i]) : \E k \in 1..Len(e) : b[k] = i /\ c[k] = j

LEMMA KeyedExtend ==
  ASSUME NEW S, NEW bs, NEW m \in Nat, bs[m + 1] \in Seq(S),
         NEW e \in Seq(S), NEW b, NEW c, Keyed(e, b, c, bs, m)
  PROVE  \E b2, c2 : Keyed(e \o bs[m + 1], b2, c2, bs, m + 1)
<1> DEFINE t == bs[m + 1]
           n == Len(e)
           x == e \o t
           b2 == [k \in 1..Len(x) |-> IF k <= n THEN b[k] ELSE m + 1]
           c2 == [k \in 1..Len(x) |-> IF k <= n THEN c[k] ELSE k - n]
<1>1. t \in Seq(S) /\ n \in Nat /\ Len(t) \in Nat
  OBVIOUS
<1> HIDE DEF t
<1>2. /\ Len(x) = n + Len(t)
      /\ \A k \in 1..n : x[k] = e[k]
      /\ \A k \in 1..Len(x) : ~(k <= n) => x[k] = t[k - n]
  BY <1>1
<1> HIDE DEF x, n
<1>3. ASSUME NEW k \in 1..Len(x)
      PROVE  b2[k] \in 1..(m + 1) /\ c2[k] \in 1..Len(bs[b2[k]]) /\ x[k] = bs[b2[k]][c2[k]]
  <2>1. CASE k <= n
    <3>1. k \in 1..n
      BY <1>1, <2>1
    <3>2. b[k] \in 1..m /\ c[k] \in 1..Len(bs[b[k]]) /\ e[k] = bs[b[k]][c[k]]
      BY <3>1 DEF Keyed, n
    <3>3. b2[k] = b[k] /\ c2[k] = c[k]
      BY <2>1
    <3>4. b[k] \in 1..(m + 1)
      BY <3>2
    <3> QED
      BY <1>2, <3>1, <3>2, <3>3, <3>4
  <2>2. CASE ~(k <= n)
    <3>1. b2[k] = m + 1 /\ c2[k] = k - n
      BY <2>2
    <3>2. k - n \in 1..Len(t) /\ m + 1 \in 1..(m + 1)
      BY <1>1, <1>2, <2>2
    <3>3. x[k] = t[k - n]
      BY <1>2, <2>2
    <3> HIDE DEF b2, c2
    <3> QED
      BY <3>1, <3>2, <3>3 DEF t
  <2> QED
    BY <2>1, <2>2
<1>4. ASSUME NEW k \in 1..Len(x), NEW l \in 1..Len(x), k < l
      PROVE  b2[k] < b2[l] \/ (b2[k] = b2[l] /\ c2[k] < c2[l])
  <2>0. k \in Int /\ l \in Int
    BY <1>1, <1>2
  <2>1. CASE l <= n
    <3>1. k \in 1..n /\ l \in 1..n /\ k <= n
      BY <1>1, <2>0, <2>1, <1>4
    <3>2. b2[k] = b[k] /\ c2[k] = c[k] /\ b2[l] = b[l] /\ c2[l] = c[l]
      BY <2>1, <3>1
    <3> HIDE DEF b2, c2
    <3> QED
      BY <1>4, <3>1, <3>2 DEF Keyed, n
  <2>2. CASE k <= n /\ ~(l <= n)
    <3>1. k \in 1..n
      BY <1>1, <2>2
    <3>2. b2[k] = b[k] /\ b2[l] = m + 1
      BY <2>2
    <3>3. b[k] \in 1..m
      BY <3>1 DEF Keyed, n
    <3> HIDE DEF b2, c2
    <3> QED
      BY <3>2, <3>3
  <2>3. CASE ~(k <= n)
    <3>1. ~(l <= n)
      BY <1>1, <1>4, <2>0, <2>3
    <3>2. b2[k] = m + 1 /\ b2[l] = m + 1 /\ c2[k] = k - n /\ c2[l] = l - n
      BY <2>3, <3>1
    <3> HIDE DEF b2, c2
    <3> QED
      BY <1>1, <1>4, <2>0, <3>2
  <2> QED
    BY <2>1, <2>2, <2>3
<1>5. ASSUME NEW i \in 1..(m + 1), NEW j \in 1..Len(bs[i])
      PROVE  \E k \in 1..Len(x) : b2[k] = i /\ c2[k] = j
  <2>1. CASE i # m + 1
    <3>1. i \in 1..m
      BY <2>1
    <3>2. PICK k \in 1..n : b[k] = i /\ c[k] = j
      BY <3>1, ZenonT(60) DEF Keyed, n
    <3>3. k <= n /\ k \in 1..Len(x)
      BY <1>1, <1>2
    <3> QED
      BY <3>2, <3>3
  <2>2. CASE i = m + 1
    <3>1. j \in 1..Len(t)
      BY <2>2 DEF t
    <3>2. n + j \in 1..Len(x)
      BY <1>1, <1>2, <3>1
    <3>3. PICK k \in 1..Len(x) : k = n + j
      BY <3>2
    <3>5. ~(k <= n) /\ k - n = j
      BY <1>1, <3>1, <3>3
    <3>4. b2[k] = m + 1 /\ c2[k] = k - n
      BY <3>5
    <3> HIDE DEF b2, c2
    <3> QED
      BY <2>2, <3>4, <3>5
  <2> QED
    BY <2>1, <2>2
<1>6. Keyed(x, b2, c2, bs, m + 1)
  <2> HIDE DEF b2, c2
  <2> QED
    BY <1>3, <1>4, <1>5 DEF Keyed
<1> QED
  BY <1>6 DEF x, t

Flat(f, bs, n) == f = [i \in 1..n |-> IF i = 1 THEN bs[i] ELSE f[i - 1] \o bs[i]]

LEMMA FlatsExist ==
  ASSUME NEW bs, NEW n \in Nat
  PROVE  \E f : Flat(f, bs, n)
<1> DEFINE T == {k \in 0..n : \E f : Flat(f, bs, k)}
<1>1. 0 \in T
  <2> DEFINE f == [i \in 1..0 |-> bs]
  <2>1. Flat(f, bs, 0)
    BY DEF Flat
  <2> QED
    BY <2>1
<1>2. ASSUME NEW k \in T, k \in 0..n, k < n PROVE k + 1 \in T
  <2>1. PICK f : Flat(f, bs, k)
    OBVIOUS
  <2> DEFINE g == [i \in 1..(k + 1) |->
                     IF i = 1 THEN bs[i] ELSE IF i = k + 1 THEN f[i - 1] \o bs[i] ELSE f[i]]
  <2>2. ASSUME NEW i \in 1..(k + 1)
        PROVE  g[i] = IF i = 1 THEN bs[i] ELSE g[i - 1] \o bs[i]
    <3>0. \A p \in 1..k : f[p] = IF p = 1 THEN bs[p] ELSE f[p - 1] \o bs[p]
      BY <2>1 DEF Flat
    <3>1. \A p \in 1..k : g[p] = f[p]
      <4> SUFFICES ASSUME NEW p \in 1..k PROVE g[p] = f[p]
        OBVIOUS
      <4>1. p \in 1..(k + 1) /\ p # k + 1
        BY <1>2
      <4> QED
        BY <3>0, <4>1
    <3>2. CASE i = 1
      BY <3>2
    <3>3. CASE i # 1
      <4>1. i - 1 \in 1..k
        BY <1>2, <3>3
      <4>2. g[i - 1] = f[i - 1]
        BY <3>1, <4>1
      <4>3. CASE i = k + 1
        BY <3>3, <4>2, <4>3
      <4>4. CASE i # k + 1
        <5>1. i \in 1..k
          BY <1>2, <4>4
        <5>2. g[i] = f[i]
          BY <3>1, <5>1
        <5> HIDE DEF g
        <5> QED
          BY <3>0, <3>3, <4>2, <5>1, <5>2
      <4> QED
        BY <4>3, <4>4
    <3> QED
      BY <3>2, <3>3
  <2>3. Flat(g, bs, k + 1)
    <3>1. g = [i \in 1..(k + 1) |-> g[i]]
      OBVIOUS
    <3> HIDE DEF g
    <3> QED
      BY <2>2, <3>1 DEF Flat
  <2> QED
    BY <1>2, <2>3
<1>3. n \in 0..n
  OBVIOUS
<1> HIDE DEF T
<1>4. n \in T
  BY <1>1, <1>2, <1>3, HandedOn
<1> QED
  BY <1>4 DEF T

LEMMA Flattened ==
  ASSUME NEW S, NEW bs \in Seq(Seq(S))
  PROVE  /\ FlattenSeq(bs) \in Seq(S)
         /\ \E b, c : Keyed(FlattenSeq(bs), b, c, bs, Len(bs))
<1> DEFINE n == Len(bs)
<1>0. n \in Nat /\ \A i \in 1..n : bs[i] \in Seq(S)
  OBVIOUS
<1>1. CASE n = 0
  <2>1. FlattenSeq(bs) = <<>>
    <3>1. bs = <<>>
      BY <1>1
    <3>2. FlattenSeq(bs) = bs
      BY <1>1 DEF FlattenSeq
    <3> QED
      BY <3>1, <3>2
  <2>2. <<>> \in Seq(S) /\ Len(<<>>) = 0 /\ 1..0 = {}
    OBVIOUS
  <2>3. Keyed(<<>>, <<>>, <<>>, bs, 0)
    BY <2>2 DEF Keyed
  <2> QED
    BY <1>1, <2>1, <2>2, <2>3
<1>2. CASE n # 0
  <2> DEFINE f == CHOOSE f : Flat(f, bs, n)
  <2>1. FlattenSeq(bs) = f[n]
    BY <1>2 DEF FlattenSeq, Flat
  <2>2. Flat(f, bs, n)
    BY <1>0, FlatsExist
  <2> HIDE DEF f, n
  <2>3. \A i \in 1..n : f[i] = IF i = 1 THEN bs[i] ELSE f[i - 1] \o bs[i]
    BY <2>2 DEF Flat
  <2> DEFINE Done(k) == f[k] \in Seq(S) /\ \E b, c : Keyed(f[k], b, c, bs, k)
             T == {0} \cup {k \in 1..n : Done(k)}
  <2>4. ASSUME NEW k \in T, k \in 0..n, k < n PROVE k + 1 \in T
    <3>0. k + 1 \in 1..n /\ bs[k + 1] \in Seq(S) /\ k \in Nat
      BY <1>0, <2>4
    <3>1. CASE k = 0
      <4>1. f[1] = bs[1]
        BY <2>3, <3>0, <3>1
      <4>2. Keyed(<<>>, <<>>, <<>>, bs, 0)
        <5>1. Len(<<>>) = 0 /\ 1..0 = {}
          OBVIOUS
        <5> QED
          BY <5>1 DEF Keyed
      <4>3. \E b, c : Keyed(<<>> \o bs[0 + 1], b, c, bs, 0 + 1)
        <5>1. <<>> \in Seq(S) /\ 0 \in Nat /\ bs[0 + 1] \in Seq(S)
          BY <3>0, <3>1
        <5> QED
          BY <4>2, <5>1, KeyedExtend
      <4>4. <<>> \o bs[0 + 1] = bs[1] /\ 0 + 1 = 1
        BY <3>0, <3>1
      <4>5. Done(1)
        BY <3>0, <3>1, <4>1, <4>3, <4>4
      <4> HIDE DEF Done
      <4> QED
        BY <3>0, <3>1, <4>5
    <3>2. CASE k # 0
      <4>1. Done(k)
        BY <3>2
      <4>2. f[k + 1] = f[k] \o bs[k + 1]
        <5>1. k + 1 # 1 /\ k + 1 - 1 = k
          BY <3>0, <3>2
        <5>2. f[k + 1] = IF k + 1 = 1 THEN bs[k + 1] ELSE f[k + 1 - 1] \o bs[k + 1]
          BY <2>3, <3>0
        <5> QED
          BY <5>1, <5>2
      <4>3. \E b, c : Keyed(f[k] \o bs[k + 1], b, c, bs, k + 1)
        BY <3>0, <4>1, KeyedExtend
      <4>4. f[k] \o bs[k + 1] \in Seq(S)
        BY <3>0, <4>1
      <4>5. Done(k + 1)
        BY <4>2, <4>3, <4>4
      <4> HIDE DEF Done
      <4> QED
        BY <3>0, <4>5
    <3> QED
      BY <3>1, <3>2
  <2>5. n \in T
    <3>1. n \in 0..n /\ 0 \in T
      BY <1>0
    <3> HIDE DEF T
    <3> QED
      BY <1>0, <2>4, <3>1, HandedOn
  <2>6. Done(n)
    BY <1>2, <2>5
  <2> QED
    BY <2>1, <2>6 DEF n
<1> QED
  BY <1>1, <1>2

\* s has the elements of the first k of e, in the order in which they first come.
FirstsOf(s, e, k) ==
  /\ \A l \in 1..k : \E i \in 1..Len(s) : s[i] = e[l]
  /\ \A i \in 1..Len(s) : \E l \in 1..k : s[i] = e[l]
  /\ \A i, j \in 1..Len(s) : \A l \in 1..k :
       i < j /\ e[l] = s[j] => \E q \in 1..k : q < l /\ e[q] = s[i]

LEMMA SelectedOnce ==
  ASSUME NEW S, NEW e \in Seq(S)
  PROVE  LET s == FoldLeft(SelectOnce, <<>>, e) IN s \in Seq(S) /\ FirstsOf(s, e, Len(e))
<1> DEFINE n == Len(e)
<1>0. n \in Nat /\ \A k \in 1..n : e[k] \in S
  OBVIOUS
<1>1. PICK g : /\ g[0] = <<>>
               /\ \A k \in 1..n : g[k] = Add("once", g[k - 1], e[k])
               /\ FoldOf("once", e) = g[n]
  BY FoldSteps DEF Kinds
<1> DEFINE T == {k \in 0..n : g[k] \in Seq(S) /\ FirstsOf(g[k], e, k)}
<1>2. 0 \in T
  <2>1. Len(<<>>) = 0 /\ 1..0 = {} /\ <<>> \in Seq(S)
    OBVIOUS
  <2>2. FirstsOf(<<>>, e, 0)
    BY <2>1 DEF FirstsOf
  <2>3. g[0] \in Seq(S) /\ FirstsOf(g[0], e, 0)
    BY <1>1, <2>1, <2>2
  <2>4. 0 \in 0..n
    BY <1>0
  <2> QED
    BY <2>3, <2>4
<1>3. ASSUME NEW k \in T, k \in 0..n, k < n PROVE k + 1 \in T
  <2> DEFINE s == g[k]
             t == g[k + 1]
             id == e[k + 1]
  <2>1. s \in Seq(S) /\ FirstsOf(s, e, k) /\ k \in Nat
    BY <1>3
  <2>2. k + 1 \in 1..n /\ k + 1 \in 0..n /\ k + 1 - 1 = k
    BY <1>0, <1>3
  <2>3. t = SelectOnce(s, id) /\ id \in S
    <3>1. g[k + 1] = Add("once", g[k + 1 - 1], e[k + 1])
      BY <1>1, <2>2
    <3> QED
      BY <1>0, <2>2, <3>1 DEF Add
  <2> HIDE DEF s, t, id, T, n
  <2>4. t \in Seq(S) /\ FirstsOf(t, e, k + 1)
    <3>0. Len(s) \in Nat
      BY <2>1
    <3>1. CASE Contains(s, id)
      <4>1. t = s
        BY <2>3, <3>1 DEF SelectOnce
      <4>2. \A l \in 1..(k + 1) : l \in 1..k \/ (l = k + 1 /\ e[l] = id)
        BY <2>1 DEF id
      <4>3. \A l \in 1..k : l \in 1..(k + 1) /\ l < k + 1 /\ l \in Int
        BY <2>1
      <4>4. \A l \in 1..(k + 1) : \E i \in 1..Len(t) : t[i] = e[l]
        BY <2>1, <3>1, <4>1, <4>2 DEF FirstsOf, Contains
      <4>5. \A i \in 1..Len(t) : \E l \in 1..(k + 1) : t[i] = e[l]
        BY <2>1, <4>1, <4>3 DEF FirstsOf
      <4>6. ASSUME NEW i \in 1..Len(t), NEW j \in 1..Len(t), NEW l \in 1..(k + 1), i < j, e[l] = t[j]
            PROVE  \E q \in 1..(k + 1) : q < l /\ e[q] = t[i]
        <5>1. CASE l \in 1..k
          <6>1. PICK q \in 1..k : q < l /\ e[q] = s[i]
            BY <2>1, <4>1, <4>6, <5>1 DEF FirstsOf
          <6> QED
            BY <4>1, <4>3, <6>1
        <5>2. CASE l = k + 1
          <6>1. PICK m \in 1..k : s[j] = e[m]
            BY <2>1, <4>1 DEF FirstsOf
          <6>2. PICK q \in 1..k : q < m /\ e[q] = s[i]
            BY <2>1, <4>1, <4>6, <6>1 DEF FirstsOf
          <6> QED
            BY <4>1, <4>3, <5>2, <6>2
        <5> QED
          BY <4>2, <5>1, <5>2
      <4> QED
        BY <2>1, <4>1, <4>4, <4>5, <4>6 DEF FirstsOf
    <3>2. CASE ~Contains(s, id)
      <4>1. t = Append(s, id)
        BY <2>3, <3>2 DEF SelectOnce
      <4>2. /\ t \in Seq(S) /\ Len(t) = Len(s) + 1
            /\ \A i \in 1..Len(s) : t[i] = s[i]
            /\ t[Len(s) + 1] = id
        BY <2>1, <2>3, <4>1
      <4>3. /\ \A l \in 1..(k + 1) : l \in 1..k \/ (l = k + 1 /\ e[l] = id)
            /\ k + 1 \in 1..(k + 1) /\ e[k + 1] = id
        BY <2>1 DEF id
      <4>4. \A l \in 1..k : l \in 1..(k + 1) /\ l < k + 1
        BY <2>1
      <4>5. /\ \A i \in 1..Len(t) : i \in 1..Len(s) \/ i = Len(s) + 1
            /\ Len(s) + 1 \in 1..Len(t) /\ \A i \in 1..Len(s) : i \in 1..Len(t)
        BY <3>0, <4>2
      <4>6. \A l \in 1..k : e[l] # id
        BY <2>1, <3>2 DEF FirstsOf, Contains
      <4>7. \A l \in 1..(k + 1) : \E i \in 1..Len(t) : t[i] = e[l]
        <5> SUFFICES ASSUME NEW l \in 1..(k + 1) PROVE \E i \in 1..Len(t) : t[i] = e[l]
          OBVIOUS
        <5>1. CASE l \in 1..k
          <6>1. PICK i \in 1..Len(s) : s[i] = e[l]
            BY <2>1, <5>1 DEF FirstsOf
          <6> QED
            BY <4>2, <4>5, <6>1
        <5>2. CASE l = k + 1
          BY <4>2, <4>3, <4>5, <5>2
        <5> QED
          BY <4>3, <5>1, <5>2
      <4>8. \A i \in 1..Len(t) : \E l \in 1..(k + 1) : t[i] = e[l]
        <5> SUFFICES ASSUME NEW i \in 1..Len(t) PROVE \E l \in 1..(k + 1) : t[i] = e[l]
          OBVIOUS
        <5>1. CASE i \in 1..Len(s)
          <6>1. PICK l \in 1..k : s[i] = e[l]
            BY <2>1, <5>1 DEF FirstsOf
          <6> QED
            BY <4>2, <4>4, <5>1, <6>1
        <5>2. CASE i = Len(s) + 1
          BY <4>2, <4>3, <5>2
        <5> QED
          BY <4>5, <5>1, <5>2
      <4>9. ASSUME NEW i \in 1..Len(t), NEW j \in 1..Len(t), NEW l \in 1..(k + 1), i < j, e[l] = t[j]
            PROVE  \E q \in 1..(k + 1) : q < l /\ e[q] = t[i]
        <5>0. i \in 1..Len(s)
          <6>1. i \in Int /\ j \in Int /\ i <= Len(t) /\ j <= Len(t) /\ 1 <= i
            BY <3>0, <4>2
          <6> QED
            BY <3>0, <4>2, <4>9, <6>1
        <5>1. t[i] = s[i]
          BY <4>2, <5>0
        <5>2. CASE j \in 1..Len(s)
          <6>1. t[j] = s[j] /\ s[j] # id
            <7>1. t[j] = s[j]
              BY <4>2, <5>2
            <7> QED
              BY <3>2, <5>2, <7>1 DEF Contains
          <6>2. l \in 1..k
            BY <4>3, <4>9, <6>1
          <6>3. PICK q \in 1..k : q < l /\ e[q] = s[i]
            BY <2>1, <4>9, <5>0, <5>2, <6>1, <6>2 DEF FirstsOf
          <6> QED
            BY <4>4, <5>1, <6>3
        <5>3. CASE j = Len(s) + 1
          <6>1. l = k + 1
            BY <4>2, <4>3, <4>6, <4>9, <5>3
          <6>2. PICK q \in 1..k : s[i] = e[q]
            BY <2>1, <5>0 DEF FirstsOf
          <6> QED
            BY <4>4, <5>1, <6>1, <6>2
        <5> QED
          BY <4>5, <5>2, <5>3
      <4> QED
        BY <4>2, <4>7, <4>8, <4>9 DEF FirstsOf
    <3> QED
      BY <3>1, <3>2
  <2> QED
    BY <2>2, <2>4 DEF T, t
<1>4. n \in T
  <2>1. n \in 0..n
    BY <1>0
  <2> HIDE DEF T, n
  <2> QED
    BY <1>0, <1>2, <1>3, <2>1, HandedOn
<1> HIDE DEF n
<1>5. FoldLeft(SelectOnce, <<>>, e) = g[n]
  BY <1>1 DEF FoldOf
<1> QED
  BY <1>4, <1>5 DEF n

\* s has the releases among the first k of e, in the order in which they come.
ReleasesOf(s, e, k) ==
  /\ \A l \in 1..k : NotHead(e[l]) => \E i \in 1..Len(s) : s[i] = e[l]
  /\ \A i \in 1..Len(s) : NotHead(s[i]) /\ \E l \in 1..k : s[i] = e[l]
  /\ \A i, j \in 1..Len(s) : \A l, q \in 1..k :
       i < j /\ s[i] = e[l] /\ s[j] = e[q] => l < q

LEMMA ReleasesInOrder ==
  ASSUME NEW S, NEW e \in Seq(S), IsInjective(e)
  PROVE  LET s == FoldLeft(AddRelease, <<>>, e) IN s \in Seq(S) /\ ReleasesOf(s, e, Len(e))
<1> DEFINE n == Len(e)
<1>0. /\ n \in Nat /\ \A k \in 1..n : e[k] \in S
      /\ \A k, l \in 1..n : e[k] = e[l] => k = l
  <2>1. DOMAIN e = 1..n
    OBVIOUS
  <2> QED
    BY <2>1 DEF IsInjective
<1>1. PICK g : /\ g[0] = <<>>
               /\ \A k \in 1..n : g[k] = Add("releases", g[k - 1], e[k])
               /\ FoldOf("releases", e) = g[n]
  BY FoldSteps DEF Kinds
<1> DEFINE T == {k \in 0..n : g[k] \in Seq(S) /\ ReleasesOf(g[k], e, k)}
<1>2. 0 \in T
  <2>1. Len(<<>>) = 0 /\ 1..0 = {} /\ <<>> \in Seq(S)
    OBVIOUS
  <2>2. ReleasesOf(<<>>, e, 0)
    BY <2>1 DEF ReleasesOf
  <2>3. g[0] \in Seq(S) /\ ReleasesOf(g[0], e, 0)
    BY <1>1, <2>1, <2>2
  <2>4. 0 \in 0..n
    BY <1>0
  <2> QED
    BY <2>3, <2>4
<1>3. ASSUME NEW k \in T, k \in 0..n, k < n PROVE k + 1 \in T
  <2> DEFINE s == g[k]
             t == g[k + 1]
             id == e[k + 1]
  <2>1. s \in Seq(S) /\ ReleasesOf(s, e, k) /\ k \in Nat
    BY <1>3
  <2>2. k + 1 \in 1..n /\ k + 1 \in 0..n /\ k + 1 - 1 = k /\ \A l \in 1..k : l \in 1..n
    BY <1>0, <1>3
  <2>3. t = AddRelease(s, id) /\ id \in S
    <3>1. g[k + 1] = Add("releases", g[k + 1 - 1], e[k + 1])
      BY <1>1, <2>2
    <3> QED
      BY <1>0, <2>2, <3>1 DEF Add
  <2>4. \A l \in 1..k : e[l] # id
    <3>1. \A l \in 1..k : l # k + 1
      BY <2>1
    <3> QED
      BY <1>0, <2>2, <3>1
  <2> HIDE DEF s, t, id, T, n
  <2>5. /\ \A l \in 1..(k + 1) : l \in 1..k \/ (l = k + 1 /\ e[l] = id)
        /\ k + 1 \in 1..(k + 1) /\ e[k + 1] = id
    BY <2>1 DEF id
  <2>6. \A l \in 1..k : l \in 1..(k + 1) /\ l < k + 1
    BY <2>1
  <2>7. \A i \in 1..Len(s) : s[i] # id
    BY <2>1, <2>4 DEF ReleasesOf
  <2>8. Len(s) \in Nat
    BY <2>1
  <2>9. t \in Seq(S) /\ ReleasesOf(t, e, k + 1)
    <3>1. CASE ~NotHead(id)
      <4>1. t = s
        BY <2>3, <3>1 DEF AddRelease
      <4>2. \A l \in 1..(k + 1) : NotHead(e[l]) => \E i \in 1..Len(t) : t[i] = e[l]
        BY <2>1, <2>5, <3>1, <4>1 DEF ReleasesOf
      <4>3. \A i \in 1..Len(t) : NotHead(t[i]) /\ \E l \in 1..(k + 1) : t[i] = e[l]
        BY <2>1, <2>6, <4>1 DEF ReleasesOf
      <4>4. \A i, j \in 1..Len(t) : \A l, q \in 1..(k + 1) :
              i < j /\ t[i] = e[l] /\ t[j] = e[q] => l < q
        BY <2>1, <2>5, <2>7, <4>1, SMTT(60) DEF ReleasesOf
      <4> QED
        BY <2>1, <4>1, <4>2, <4>3, <4>4 DEF ReleasesOf
    <3>2. CASE NotHead(id)
      <4>1. t = Append(s, id)
        BY <2>3, <3>2 DEF AddRelease
      <4>2. /\ t \in Seq(S) /\ Len(t) = Len(s) + 1
            /\ \A i \in 1..Len(s) : t[i] = s[i]
            /\ t[Len(s) + 1] = id
        BY <2>1, <2>3, <4>1
      <4>3. /\ \A i \in 1..Len(t) : i \in 1..Len(s) \/ i = Len(s) + 1
            /\ Len(s) + 1 \in 1..Len(t) /\ \A i \in 1..Len(s) : i \in 1..Len(t)
            /\ \A i, j \in 1..Len(t) : i < j => i \in 1..Len(s)
        BY <2>8, <4>2
      <4>4. \A l \in 1..(k + 1) : NotHead(e[l]) => \E i \in 1..Len(t) : t[i] = e[l]
        <5> SUFFICES ASSUME NEW l \in 1..(k + 1), NotHead(e[l]) PROVE \E i \in 1..Len(t) : t[i] = e[l]
          OBVIOUS
        <5>1. CASE l \in 1..k
          <6>1. PICK i \in 1..Len(s) : s[i] = e[l]
            BY <2>1, <5>1 DEF ReleasesOf
          <6> QED
            BY <4>2, <4>3, <6>1
        <5>2. CASE l = k + 1
          BY <2>5, <4>2, <4>3, <5>2
        <5> QED
          BY <2>5, <5>1, <5>2
      <4>5. \A i \in 1..Len(t) : NotHead(t[i]) /\ \E l \in 1..(k + 1) : t[i] = e[l]
        <5> SUFFICES ASSUME NEW i \in 1..Len(t)
                     PROVE  NotHead(t[i]) /\ \E l \in 1..(k + 1) : t[i] = e[l]
          OBVIOUS
        <5>1. CASE i \in 1..Len(s)
          BY <2>1, <2>6, <4>2, <5>1 DEF ReleasesOf
        <5>2. CASE i = Len(s) + 1
          BY <2>5, <3>2, <4>2, <5>2
        <5> QED
          BY <4>3, <5>1, <5>2
      <4>6. ASSUME NEW i \in 1..Len(t), NEW j \in 1..Len(t), NEW l \in 1..(k + 1), NEW q \in 1..(k + 1),
                   i < j, t[i] = e[l], t[j] = e[q]
            PROVE  l < q
        <5>1. i \in 1..Len(s) /\ t[i] = s[i]
          BY <4>2, <4>3, <4>6
        <5>2. l \in 1..k
          BY <2>5, <2>7, <4>6, <5>1
        <5>3. CASE j \in 1..Len(s)
          <6>1. t[j] = s[j]
            BY <4>2, <5>3
          <6>2. q \in 1..k
            BY <2>5, <2>7, <4>6, <5>3, <6>1
          <6> QED
            BY <2>1, <4>6, <5>1, <5>2, <5>3, <6>1, <6>2 DEF ReleasesOf
        <5>4. CASE j = Len(s) + 1
          <6>1. e[q] = id
            BY <4>2, <4>6, <5>4
          <6>2. q = k + 1
            BY <2>4, <2>5, <6>1
          <6> QED
            BY <2>6, <5>2, <6>2
        <5> QED
          BY <4>3, <5>3, <5>4
      <4> QED
        BY <4>2, <4>4, <4>5, <4>6 DEF ReleasesOf
    <3> QED
      BY <3>1, <3>2
  <2> QED
    BY <2>2, <2>9 DEF T, t
<1>4. n \in T
  <2>1. n \in 0..n
    BY <1>0
  <2> HIDE DEF T, n
  <2> QED
    BY <1>0, <1>2, <1>3, <2>1, HandedOn
<1> HIDE DEF n
<1>5. FoldLeft(AddRelease, <<>>, e) = g[n]
  BY <1>1 DEF FoldOf
<1> QED
  BY <1>4, <1>5 DEF n

LEMMA MinIsMin ==
  ASSUME NEW S \in SUBSET Nat, S # {}
  PROVE  Min(S) \in S /\ \A y \in S : Min(S) <= y
BY FirstOne DEF Min

LEMMA IdsTyped == /\ Ids \in Seq(FirmwareIds) /\ IsInjective(Ids)
                  /\ DOMAIN Ids = 1..Len(Ids) /\ Len(Ids) \in Nat
                  /\ \A id \in FirmwareIds : \E l \in 1..Len(Ids) : Ids[l] = id
                  /\ \A k, l \in 1..Len(Ids) : Ids[k] = Ids[l] => k = l
<1>1. Firmwares \in Seq(ToSet(Firmwares)) /\ IsInjective(Ids)
  BY CatalogAssumption
<1>2. DOMAIN Firmwares = 1..Len(Firmwares) /\ Len(Firmwares) \in Nat
  BY <1>1
<1>3. Ids = [i \in 1..Len(Firmwares) |-> Ids[i]] /\ DOMAIN Ids = 1..Len(Firmwares)
  BY <1>2 DEF Ids
<1>4. \A i \in 1..Len(Firmwares) : Ids[i] \in FirmwareIds
  BY <1>3 DEF FirmwareIds, ToSet
<1>5. Ids \in [1..Len(Firmwares) -> FirmwareIds]
  BY <1>3, <1>4
<1>6. Ids \in Seq(FirmwareIds) /\ Len(Ids) = Len(Firmwares)
  BY <1>2, <1>5
<1>7. \A id \in FirmwareIds : \E l \in 1..Len(Ids) : Ids[l] = id
  BY <1>3, <1>6 DEF FirmwareIds, ToSet
<1>8. \A k, l \in 1..Len(Ids) : Ids[k] = Ids[l] => k = l
  BY <1>1, <1>3, <1>6 DEF IsInjective
<1> QED
  BY <1>1, <1>2, <1>3, <1>6, <1>7, <1>8

\* The place of a firmware in the catalog.
Place(x) == SelectInSeq(Ids, LAMBDA id : id = x)

LEMMA PlaceOf ==
  ASSUME NEW l \in 1..Len(Ids)
  PROVE  Place(Ids[l]) = l
<1> DEFINE I == {i \in 1..Len(Ids) : Ids[i] = Ids[l]}
<1>1. I = {l}
  BY IdsTyped
<1>2. l \in Nat /\ {l} # {}
  BY IdsTyped
<1>3. Min({l}) = l
  <2>1. {l} \in SUBSET Nat
    BY <1>2
  <2>2. Min({l}) \in {l}
    BY <1>2, <2>1, MinIsMin
  <2> QED
    BY <2>2
<1>4. Place(Ids[l]) = IF I # {} THEN Min(I) ELSE 0
  BY DEF Place, SelectInSeq
<1> HIDE DEF I
<1> QED
  BY <1>1, <1>2, <1>3, <1>4

AllReleases == FoldLeft(AddRelease, <<>>, Ids)

LEMMA AllReleasesAre ==
  AllReleases \in Seq(FirmwareIds) /\ ReleasesOf(AllReleases, Ids, Len(Ids))
BY IdsTyped, ReleasesInOrder DEF AllReleases

\* What a name stands for is what it asks for, and only the name of all releases
\* stands for more than one firmware, in the order of the catalog.
LEMMA NameStandsFor ==
  ASSUME NEW name
  PROVE  /\ IdsOf(name) \in Seq(FirmwareIds \cup {Resolved(name)})
         /\ \A id \in FirmwareIds : AsksFor(name, id) <=> \E j \in 1..Len(IdsOf(name)) : IdsOf(name)[j] = id
         /\ \A i, j \in 1..Len(IdsOf(name)) : i < j =>
              Place(IdsOf(name)[i]) < Place(IdsOf(name)[j])
<1>1. CASE name = "all-supported-releases"
  <2>1. IdsOf(name) = AllReleases
    BY <1>1 DEF IdsOf, AllReleases
  <2>2. AllReleases \in Seq(FirmwareIds) /\ ReleasesOf(AllReleases, Ids, Len(Ids))
    BY AllReleasesAre
  <2> DEFINE t == AllReleases
  <2> HIDE DEF t
  <2>3. IdsOf(name) \in Seq(FirmwareIds \cup {Resolved(name)})
    <3> DEFINE A == FirmwareIds
               B == A \cup {Resolved(name)}
    <3>1. A \subseteq B
      OBVIOUS
    <3>2. t \in Seq(A)
      BY <2>2 DEF t
    <3> HIDE DEF A, B
    <3>3. t \in Seq(B)
      BY <3>1, <3>2
    <3> QED
      BY <2>1, <3>3 DEF t, A, B
  <2>4. ASSUME NEW id \in FirmwareIds
        PROVE  AsksFor(name, id) <=> \E j \in 1..Len(t) : t[j] = id
    <3>1. AsksFor(name, id) <=> NotHead(id)
      BY <1>1 DEF AsksFor, NotHead
    <3>2. PICK l \in 1..Len(Ids) : Ids[l] = id
      BY IdsTyped
    <3>3. NotHead(id) => \E j \in 1..Len(t) : t[j] = id
      BY <2>2, <3>2 DEF ReleasesOf, t
    <3>4. (\E j \in 1..Len(t) : t[j] = id) => NotHead(id)
      BY <2>2 DEF ReleasesOf, t
    <3> QED
      BY <3>1, <3>3, <3>4
  <2>5. ASSUME NEW i \in 1..Len(t), NEW j \in 1..Len(t), i < j
        PROVE  Place(t[i]) < Place(t[j])
    <3>1. PICK l \in 1..Len(Ids) : t[i] = Ids[l]
      BY <2>2 DEF ReleasesOf, t
    <3>2. PICK q \in 1..Len(Ids) : t[j] = Ids[q]
      BY <2>2 DEF ReleasesOf, t
    <3>3. l < q
      BY <2>2, <2>5, <3>1, <3>2 DEF ReleasesOf, t
    <3>4. Place(t[i]) = l /\ Place(t[j]) = q
      BY <3>1, <3>2, PlaceOf
    <3> QED
      BY <3>3, <3>4
  <2> QED
    BY <2>1, <2>3, <2>4, <2>5 DEF t
<1>2. CASE name # "all-supported-releases"
  <2>1. IdsOf(name) = <<Resolved(name)>>
    BY <1>2 DEF IdsOf
  <2>2. Len(<<Resolved(name)>>) = 1 /\ <<Resolved(name)>>[1] = Resolved(name)
    OBVIOUS
  <2>3. <<Resolved(name)>> \in Seq(FirmwareIds \cup {Resolved(name)})
    OBVIOUS
  <2>4. \A j \in 1..Len(IdsOf(name)) : j = 1
    BY <2>1, <2>2
  <2>5. ASSUME NEW id PROVE AsksFor(name, id) <=> Resolved(name) = id
    BY <1>2 DEF AsksFor, Resolved
  <2>6. \A i, j \in 1..Len(IdsOf(name)) : ~(i < j)
    BY <2>4
  <2>7. \A id : (\E j \in 1..Len(IdsOf(name)) : IdsOf(name)[j] = id) <=> Resolved(name) = id
    <3>1. 1 \in 1..Len(IdsOf(name))
      BY <2>1, <2>2
    <3>2. IdsOf(name)[1] = Resolved(name)
      BY <2>1
    <3> QED
      BY <2>4, <3>1, <3>2
  <2> QED
    BY <2>1, <2>3, <2>5, <2>6, <2>7
<1> QED
  BY <1>1, <1>2

LEMMA AskedFirst ==
  ASSUME NEW profile, profile \in Seq(ToSet(profile)), NEW id
  PROVE  /\ FirstAsked(profile, id) # 0 <=> \E i \in 1..Len(profile) : AsksFor(profile[i], id)
         /\ \A i \in 1..Len(profile) : AsksFor(profile[i], id) =>
              FirstAsked(profile, id) \in 1..Len(profile) /\ FirstAsked(profile, id) <= i
         /\ FirstAsked(profile, id) # 0 => AsksFor(profile[FirstAsked(profile, id)], id)
<1> DEFINE n == Len(profile)
           I == {i \in 1..n : AsksFor(profile[i], id)}
<1>0. n \in Nat
  OBVIOUS
<1>1. FirstAsked(profile, id) = IF I # {} THEN Min(I) ELSE 0
  BY DEF FirstAsked, SelectInSeq
<1>2. I \in SUBSET Nat
  BY <1>0
<1>3. I # {} => Min(I) \in I /\ \A i \in I : Min(I) <= i
  <2> HIDE DEF I
  <2> QED
    BY <1>2, MinIsMin
<1>4. \A i \in 1..n : i # 0
  BY <1>0
<1> HIDE DEF n
<1> QED
  <2>1. CASE I = {}
    BY <1>1, <2>1 DEF n
  <2>2. CASE I # {}
    <3>1. FirstAsked(profile, id) = Min(I)
      BY <1>1, <2>2
    <3>2. Min(I) \in 1..n /\ AsksFor(profile[Min(I)], id) /\ Min(I) # 0
      BY <1>3, <1>4, <2>2
    <3>3. \A i \in 1..n : AsksFor(profile[i], id) => Min(I) <= i
      BY <1>3, <2>2
    <3> HIDE DEF I
    <3> QED
      BY <3>1, <3>2, <3>3 DEF n
  <2> QED
    BY <2>1, <2>2

LEMMA ProfileExpanded ==
  ASSUME NEW profile, profile \in Seq(ToSet(profile))
  PROVE  \E S, b, c :
           /\ Expansion(profile) \in Seq(S)
           /\ Keyed(Expansion(profile), b, c, [i \in DOMAIN profile |-> IdsOf(profile[i])], Len(profile))
<1> DEFINE n == Len(profile)
           S == FirmwareIds \cup {Resolved(profile[i]) : i \in 1..n}
           bs == [i \in DOMAIN profile |-> IdsOf(profile[i])]
<1>1. n \in Nat /\ DOMAIN profile = 1..n
  OBVIOUS
<1>2. ASSUME NEW i \in 1..n PROVE IdsOf(profile[i]) \in Seq(S)
  <2> DEFINE A == FirmwareIds \cup {Resolved(profile[i])}
  <2>1. IdsOf(profile[i]) \in Seq(A)
    BY NameStandsFor
  <2>2. A \subseteq S
    OBVIOUS
  <2> HIDE DEF A, S
  <2> QED
    BY <2>1, <2>2
<1> HIDE DEF S
<1>3. bs \in [1..n -> Seq(S)]
  BY <1>1, <1>2
<1>4. bs \in Seq(Seq(S)) /\ Len(bs) = n
  <2> HIDE DEF bs
  <2> QED
    BY <1>1, <1>3
<1>5. Expansion(profile) = FlattenSeq(bs)
  BY DEF Expansion
<1> HIDE DEF bs, n
<1>6. Expansion(profile) \in Seq(S) /\ \E b, c : Keyed(Expansion(profile), b, c, bs, n)
  BY <1>4, <1>5, Flattened
<1> QED
  BY <1>6 DEF bs, n

\* What list-firmwares answers for a profile.
LEMMA ProfileListed ==
  ASSUME NEW profile, profile \in Seq(ToSet(profile))
  PROVE  LET out == ListFirmwares(profile) IN
           IF \A name \in ToSet(profile) : \A id \in ToSet(IdsOf(name)) : id \in FirmwareIds
             THEN ~out.error /\ IsSelection(profile, out.ids)
             ELSE out.error
<1> DEFINE n == Len(profile)
           bs == [i \in DOMAIN profile |-> IdsOf(profile[i])]
           e == Expansion(profile)
           s == FoldLeft(SelectOnce, <<>>, e)
           First(id) == FirstAsked(profile, id)
           Known == \A name \in ToSet(profile) : \A id \in ToSet(IdsOf(name)) : id \in FirmwareIds
<1>1. n \in Nat /\ DOMAIN profile = 1..n /\ \A i \in 1..n : bs[i] = IdsOf(profile[i])
  OBVIOUS
<1>2. PICK S, b, c : e \in Seq(S) /\ Keyed(e, b, c, bs, n)
  BY ProfileExpanded
<1>3. s \in Seq(S) /\ FirstsOf(s, e, Len(e))
  BY <1>2, SelectedOnce
<1> HIDE DEF bs, e, s, n
<1>4. DOMAIN e = 1..Len(e) /\ DOMAIN s = 1..Len(s)
  BY <1>2, <1>3
<1>5. ASSUME NEW i \in 1..n
      PROVE  /\ IdsOf(profile[i]) \in Seq(FirmwareIds \cup {Resolved(profile[i])})
             /\ ToSet(IdsOf(profile[i])) = {bs[i][j] : j \in 1..Len(bs[i])}
  <2>1. IdsOf(profile[i]) \in Seq(FirmwareIds \cup {Resolved(profile[i])})
    BY NameStandsFor
  <2>2. DOMAIN IdsOf(profile[i]) = 1..Len(IdsOf(profile[i]))
    BY <2>1
  <2> QED
    BY <1>1, <2>1, <2>2 DEF ToSet
<1>6. \A k \in 1..Len(e) : b[k] \in 1..n /\ e[k] \in ToSet(IdsOf(profile[b[k]]))
  <2> SUFFICES ASSUME NEW k \in 1..Len(e)
               PROVE  b[k] \in 1..n /\ e[k] \in ToSet(IdsOf(profile[b[k]]))
    OBVIOUS
  <2>1. b[k] \in 1..n /\ c[k] \in 1..Len(bs[b[k]]) /\ e[k] = bs[b[k]][c[k]]
    BY <1>2 DEF Keyed
  <2>2. ToSet(IdsOf(profile[b[k]])) = {bs[b[k]][j] : j \in 1..Len(bs[b[k]])}
    BY <1>5, <2>1
  <2>3. e[k] \in {bs[b[k]][j] : j \in 1..Len(bs[b[k]])}
    BY <2>1
  <2> QED
    BY <2>1, <2>2, <2>3
<1>7. ToSet(profile) = {profile[i] : i \in 1..n}
  BY <1>1 DEF ToSet
<1>8. Known <=> ToSet(e) \subseteq FirmwareIds
  <2>1. ASSUME Known, NEW k \in 1..Len(e) PROVE e[k] \in FirmwareIds
    BY <1>6, <1>7, <2>1
  <2>2. ASSUME ToSet(e) \subseteq FirmwareIds, NEW i \in 1..n, NEW id \in ToSet(IdsOf(profile[i]))
        PROVE  id \in FirmwareIds
    <3>1. PICK j \in 1..Len(bs[i]) : bs[i][j] = id
      BY <1>5
    <3>2. PICK k \in 1..Len(e) : b[k] = i /\ c[k] = j
      BY <1>2 DEF Keyed
    <3>3. e[k] = id
      BY <1>2, <3>1, <3>2 DEF Keyed
    <3> QED
      BY <1>4, <2>2, <3>2, <3>3 DEF ToSet
  <2>3. ToSet(e) = {e[k] : k \in 1..Len(e)}
    BY <1>4 DEF ToSet
  <2> QED
    BY <1>7, <2>1, <2>2, <2>3
<1>9. ASSUME ToSet(e) \subseteq FirmwareIds PROVE IsSelection(profile, s)
  <2>0. \A k \in 1..Len(e) : e[k] \in FirmwareIds
    BY <1>4, <1>9 DEF ToSet
  <2>1. ASSUME NEW id \in FirmwareIds, NEW i \in 1..n
        PROVE  AsksFor(profile[i], id) <=> \E j \in 1..Len(bs[i]) : bs[i][j] = id
    <3>1. AsksFor(profile[i], id) <=>
            \E j \in 1..Len(IdsOf(profile[i])) : IdsOf(profile[i])[j] = id
      BY NameStandsFor
    <3>2. bs[i] = IdsOf(profile[i])
      BY <1>1
    <3> QED
      BY <3>1, <3>2
  <2>2. ASSUME NEW id
        PROVE  /\ First(id) # 0 <=> \E i \in 1..n : AsksFor(profile[i], id)
               /\ \A i \in 1..n : AsksFor(profile[i], id) => First(id) \in 1..n /\ First(id) <= i
               /\ First(id) # 0 => AsksFor(profile[First(id)], id)
    BY AskedFirst DEF n
  <2> HIDE DEF First
  <2>3. ASSUME NEW k \in 1..Len(e)
        PROVE  /\ b[k] \in 1..n /\ AsksFor(profile[b[k]], e[k])
               /\ First(e[k]) \in 1..n /\ First(e[k]) <= b[k]
    <3>1. b[k] \in 1..n /\ c[k] \in 1..Len(bs[b[k]]) /\ e[k] = bs[b[k]][c[k]]
      BY <1>2 DEF Keyed
    <3>2. AsksFor(profile[b[k]], e[k])
      BY <2>0, <2>1, <3>1
    <3> QED
      BY <2>2, <3>1, <3>2
  <2>4. ToSet(s) = {id \in FirmwareIds : First(id) # 0}
    <3>1. ASSUME NEW i \in 1..Len(s) PROVE s[i] \in FirmwareIds /\ First(s[i]) # 0
      <4>1. PICK k \in 1..Len(e) : s[i] = e[k]
        BY <1>3 DEF FirstsOf
      <4>2. First(e[k]) # 0
        <5>1. \A p \in 1..n : p # 0
          BY <1>1
        <5> QED
          BY <2>3, <5>1
      <4> QED
        BY <2>0, <4>1, <4>2
    <3>2. ASSUME NEW id \in FirmwareIds, First(id) # 0 PROVE \E i \in 1..Len(s) : s[i] = id
      <4>1. PICK p \in 1..n : AsksFor(profile[p], id)
        BY <2>2, <3>2
      <4>2. PICK j \in 1..Len(bs[p]) : bs[p][j] = id
        BY <2>1, <4>1
      <4>3. PICK k \in 1..Len(e) : b[k] = p /\ c[k] = j
        BY <1>2 DEF Keyed
      <4>4. e[k] = id
        BY <1>2, <4>2, <4>3 DEF Keyed
      <4> QED
        BY <1>3, <4>4 DEF FirstsOf
    <3>3. ToSet(s) = {s[i] : i \in 1..Len(s)}
      BY <1>4 DEF ToSet
    <3> QED
      BY <3>1, <3>2, <3>3
  <2>5. ASSUME NEW i \in 1..Len(s), NEW j \in 1..Len(s), i < j
        PROVE  \/ First(s[i]) < First(s[j])
               \/ First(s[i]) = First(s[j]) /\ Place(s[i]) < Place(s[j])
    <3>1. s[j] \in FirmwareIds /\ First(s[j]) \in 1..n /\ AsksFor(profile[First(s[j])], s[j])
      <4>1. PICK k \in 1..Len(e) : s[j] = e[k]
        BY <1>3 DEF FirstsOf
      <4>2. s[j] \in FirmwareIds /\ First(s[j]) \in 1..n
        BY <2>0, <2>3, <4>1
      <4>3. First(s[j]) # 0
        BY <1>1, <4>2
      <4> QED
        BY <2>2, <4>2, <4>3
    <3>2. PICK d \in 1..Len(bs[First(s[j])]) : bs[First(s[j])][d] = s[j]
      BY <2>1, <3>1
    <3>3. PICK l \in 1..Len(e) : b[l] = First(s[j]) /\ c[l] = d
      BY <1>2, <3>1, SMTT(60) DEF Keyed
    <3>4. e[l] = s[j]
      BY <1>2, <3>2, <3>3 DEF Keyed
    <3>5. PICK q \in 1..Len(e) : q < l /\ e[q] = s[i]
      BY <1>3, <2>5, <3>4 DEF FirstsOf
    <3>6. First(s[i]) \in 1..n /\ First(s[i]) <= b[q] /\ b[q] \in 1..n /\ b[l] \in 1..n
      BY <2>3, <3>5
    <3>7. b[q] < b[l] \/ (b[q] = b[l] /\ c[q] < c[l])
      BY <1>2, <3>5 DEF Keyed
    <3>8. CASE b[q] < b[l] \/ First(s[i]) # b[q]
      <4>1. First(s[i]) \in Int /\ b[q] \in Int /\ b[l] \in Int
        BY <1>1, <3>6
      <4> QED
        BY <3>3, <3>6, <3>7, <3>8, <4>1
    <3>9. CASE b[q] = b[l] /\ c[q] < c[l] /\ First(s[i]) = b[q]
      <4> DEFINE t == bs[b[l]]
      <4>1. /\ c[q] \in 1..Len(t) /\ c[l] \in 1..Len(t)
            /\ s[i] = t[c[q]] /\ s[j] = t[c[l]]
        BY <1>2, <3>4, <3>5, <3>9 DEF Keyed
      <4>2. t = IdsOf(profile[b[l]])
        BY <1>1, <3>6
      <4> HIDE DEF t
      <4>3. Place(t[c[q]]) < Place(t[c[l]])
        BY <3>9, <4>1, <4>2, NameStandsFor
      <4> QED
        BY <3>3, <3>9, <4>1, <4>3
    <3> QED
      BY <3>7, <3>8, <3>9
  <2>6. \A i, j \in DOMAIN s : i < j =>
          \/ First(s[i]) < First(s[j])
          \/ First(s[i]) = First(s[j]) /\ Place(s[i]) < Place(s[j])
    BY <1>4, <2>5
  <2> QED
    BY <2>4, <2>6 DEF IsSelection, First, Place
<1>10. ListFirmwares(profile) = IF ToSet(e) \subseteq FirmwareIds THEN [error |-> FALSE, ids |-> s] ELSE NotListed
  BY DEF ListFirmwares, e, s
<1>11. CASE ToSet(e) \subseteq FirmwareIds
  <2>1. ListFirmwares(profile).error = FALSE /\ ListFirmwares(profile).ids = s
    BY <1>10, <1>11
  <2> QED
    BY <1>8, <1>9, <1>11, <2>1
<1>12. CASE ~(ToSet(e) \subseteq FirmwareIds)
  <2>1. ListFirmwares(profile).error = TRUE
    BY <1>10, <1>12 DEF NotListed
  <2> QED
    BY <1>8, <1>12, <2>1
<1> QED
  BY <1>11, <1>12

\* list-firmwares answers a profile with each firmware it names, directly, by alias
\* or as one of all releases, once and in the order first named, or refuses a
\* profile that names an unknown one: for every catalog and profile.
THEOREM ProfilesExpanded == Spec => []ProfileSelection
<1>1. Init => ProfileSelection
  BY DEF Init, ProfileSelection
<1>2. ASSUME ProfileSelection, [Next]_vars PROVE ProfileSelection'
  <2>1. CASE List
    <3>1. PICK profile \in Profiles : listing' = [profile |-> profile, out |-> ListFirmwares(profile)]
      BY <2>1 DEF List
    <3>2. listing'.profile = profile /\ listing'.out = ListFirmwares(profile)
      BY <3>1
    <3>3. profile \in Seq(ToSet(profile))
      BY ProvisionAssumption
    <3> QED
      BY <3>2, <3>3, ProfileListed DEF ProfileSelection
  <2>2. CASE pc' # "listed"
    BY <2>2 DEF ProfileSelection
  <2>3. CASE UNCHANGED <<pc, listing>>
    BY <1>2, <2>3 DEF ProfileSelection
  <2>4. [Next]_vars => List \/ pc' # "listed" \/ UNCHANGED <<pc, listing>>
    BY DEF Next, vars, request, Listed, Invoke, AcquireLock, Fails, ResolveFails, ResolveRef,
           ReadTree, CopyTree, ApplyPatches, BuildRefuses, BuildFails, Build, RunDevice,
           Interrupted, CleanUp, Record, Escapes, RemoveWorkspace, UpstreamMoves, CallerEdits
  <2> QED
    BY <1>2, <2>1, <2>2, <2>3, <2>4
<1> QED
  BY <1>1, <1>2, PTL DEF Spec
=============================================================================
