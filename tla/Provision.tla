----------------------------- MODULE Provision -----------------------------
(***************************************************************************)
(* From a command line to a binary: parse_args of compat/runner/main.py,   *)
(* the catalog, and the parts of Harness.execute (compat/runner/harness.py) *)
(* that resolve, snapshot, patch and build the core and that record and    *)
(* preserve what was done.  Executions follow one another (DeviceRun has   *)
(* the lock); build directories and trees stay from one to the next.       *)
(*                                                                         *)
(* A tree is a commit and the edits made to it, a binary the tree and the  *)
(* release it was built from.  External: upstream, whose branches move, the *)
(* caller's trees, git and CMake.  What runs on the device is one step.    *)
(***************************************************************************)
EXTENDS Catalog

CONSTANTS
  Commits,        \* commits of canokey-core
  Profiles,       \* the lists of names a profile may have
  CommandLines,   \* the command lines compat/run and compat/build are given
  BranchMoves,    \* what a branch of upstream may come to point at
  CallerTrees,    \* what the tree given with --core-dir may become
  MovesWhileRead  \* the caller may change it while it is being read and copied

VARIABLES
  pc,         \* where the execution stands
  listing,    \* what list-firmwares was asked for and what it printed
  options,    \* Harness.options
  upstream,   \* branches and tags of canokey-core
  tree,       \* the caller's trees: --core-dir and the submodule
  snapshot,   \* core in the workspace
  core,       \* Harness.core
  built,      \* the binary in each build directory
  binary,     \* Harness.binary: the directory it is in
  phase,      \* phase of execute
  result,     \* result of execute
  raised,     \* exit code of what ended execute before it returned result, or NoCode
  workspace,  \* the workspace exists
  metadata    \* metadata.json

request == <<listing, options>>
outside == <<upstream, tree>>
files == <<snapshot, built, workspace>>
vars == <<pc, request, outside, files, core, binary, phase, result, raised, metadata>>

NoTree == [commit |-> "none", edits |-> {}]
NoBuild == [commit |-> "none", edits |-> {}, version |-> Unmapped]
NoCore == [sha |-> "unknown", version |-> Unmapped, dirty |-> FALSE, patches |-> {}]
NoDir == "none"
NoCode == -1
NoListing == [profile |-> <<>>, out |-> NotListed]
BuildDirs == {"workspace", "compat", "chosen"}
Edits == {"local"} \cup UNION {PatchesOf(c) : c \in Commits}

\* base_metadata, which says nothing of the end yet, and a file cut short.
BaseMetadata == [core |-> NoCore, phase |-> "setup", exit |-> NoCode, preserved |-> FALSE]
Unreadable == [BaseMetadata EXCEPT !.phase = "unreadable"]

ASSUME ProvisionAssumption ==
  /\ Commits \cap (Releases \cup {"none", "unknown"}) = {}
  /\ MappedCommits \subseteq Commits /\ BranchMoves \subseteq Commits
  /\ CallerTrees \subseteq [commit : Commits, edits : SUBSET Edits]
  /\ MovesWhileRead \in BOOLEAN
  /\ \A profile \in Profiles : profile \in Seq(ToSet(profile))

\* What argparse leaves of a command line.
ASSUME CommandLinesAssumption ==
  /\ CommandLines # {}
  /\ \A o \in CommandLines :
       /\ o.source \in {"ref", "external", "submodule"}
       /\ {o.build_only, o.build_dir, o.keep_on_failure, o.test_command} \subseteq BOOLEAN

TypeOK ==
  /\ pc \in {"idle", "listed", "lock", "resolve", "copy", "patch", "build", "device", "final", "record",
           "remove", "done"}
  /\ snapshot \in [commit : Commits, edits : SUBSET Edits] \cup {NoTree}
  /\ pc \in {"patch", "build", "device"} => snapshot # NoTree
  /\ core \in [sha : Commits \cup {"unknown"}, version : Releases \cup {Unmapped},
               dirty : BOOLEAN, patches : SUBSET Edits]
  /\ \A d \in BuildDirs : built[d] = NoBuild \/ built[d].version # Unmapped
  /\ binary \in BuildDirs \cup {NoDir}
  /\ pc = "device" => binary # NoDir /\ options.test_command
  /\ phase \in {"setup", "lock", "resolve-core", "build", "host", "start", "attach",
                "readiness", "test", "cleanup"}
  /\ result \in {0, 1, 2, 124}
  /\ raised \in {NoCode, 1, 130}
  /\ workspace \in BOOLEAN

\* The first command line is only there to give options a value.
Init ==
  /\ pc = "idle"
  /\ listing = NoListing
  /\ options = CHOOSE o \in CommandLines : TRUE
  /\ upstream \in [{"master", "1.3"} -> BranchMoves]
  /\ tree \in [{"external", "submodule"} -> CallerTrees]
  /\ snapshot = NoTree
  /\ core = NoCore
  /\ built = [d \in BuildDirs |-> NoBuild]
  /\ binary = NoDir
  /\ phase = "setup"
  /\ result = 1
  /\ raised = NoCode
  /\ workspace = FALSE
  /\ metadata = BaseMetadata
-----------------------------------------------------------------------------
(* list-firmwares --profile                                                *)

List ==
  /\ pc = "idle"
  /\ \E profile \in Profiles :
       listing' = [profile |-> profile, out |-> ListFirmwares(profile)]
  /\ pc' = "listed"
  /\ UNCHANGED <<options, outside, files, core, binary, phase, result, raised, metadata>>

Listed ==
  /\ pc = "listed"
  /\ listing' = NoListing
  /\ pc' = "idle"
  /\ UNCHANGED <<options, outside, files, core, binary, phase, result, raised, metadata>>
-----------------------------------------------------------------------------
(* compat/run and compat/build                                             *)

\* Mutant: a run without a test command is accepted.
ParseArgsAny(o) == o.timeout > 0

\* parse_args; anything else is a usage error.
ParseArgs(o) == o.timeout > 0 /\ (o.build_only \/ o.test_command)

Invoke ==
  /\ pc \in {"idle", "done"}
  /\ \E o \in CommandLines : ParseArgs(o) /\ options' = o
  /\ pc' = "lock"
  /\ phase' = "setup"
  /\ result' = 1
  /\ raised' = NoCode
  /\ core' = NoCore
  /\ binary' = NoDir
  /\ workspace' = TRUE
  /\ snapshot' = NoTree
  /\ built' = [built EXCEPT !["workspace"] = NoBuild]
  /\ metadata' = BaseMetadata
  /\ UNCHANGED <<listing, outside>>

\* Any error: on to the clean-up with the phase it happened in.
Fails(in) ==
  /\ pc' = "final"
  /\ phase' = in
  /\ result' = 1

AcquireLock ==
  /\ pc = "lock"
  /\ \/ Fails("lock")
     \/ pc' = "resolve" /\ phase' = "resolve-core" /\ UNCHANGED result
  /\ UNCHANGED <<request, outside, files, core, binary, raised, metadata>>

\* git fetch: commits can be fetched as well as branches and tags.
Fetched(ref) == IF ref \in Commits THEN ref ELSE upstream[ref]

ResolveFails ==
  /\ pc \in {"resolve", "copy", "patch"}
  /\ Fails("resolve-core")
  /\ UNCHANGED <<request, outside, files, core, binary, raised, metadata>>

\* resolve_core with --core-ref; the commit recorded is the one checked out.
ResolveRef ==
  /\ pc = "resolve"
  /\ options.source = "ref"
  /\ FetchRef(options.ref) \in Commits \cup DOMAIN upstream
  /\ LET sha == Fetched(FetchRef(options.ref)) IN
       /\ snapshot' = [commit |-> sha, edits |-> {}]
       /\ core' = [NoCore EXCEPT !.sha = sha]
  /\ pc' = "patch"
  /\ UNCHANGED <<request, outside, built, workspace, binary, phase, result, raised, metadata>>

\* resolve_core without it: rev-parse and status of the caller's tree ...
ReadTree ==
  /\ pc = "resolve"
  /\ options.source # "ref"
  /\ LET source == tree[options.source] IN
       core' = [NoCore EXCEPT !.sha = source.commit, !.dirty = source.edits # {}]
  /\ pc' = "copy"
  /\ UNCHANGED <<request, outside, files, binary, phase, result, raised, metadata>>

\* ... then copy_core_tree.
CopyTree ==
  /\ pc = "copy"
  /\ snapshot' = tree[options.source]
  /\ pc' = "patch"
  /\ UNCHANGED <<request, outside, built, workspace, core, binary, phase, result, raised, metadata>>

\* Mutant: every patch may be skipped.
SkippedAll == PatchesOf(core.sha)

\* A patch that can be skipped is, if its file is there already.
Skipped == PatchesOf(core.sha) \cap SkipIfPresent \cap snapshot.edits

\* apply_core_compatibility; git refuses a patch that is there already, and may
\* refuse any in an edited tree.  Then core_usb_identity and initial_metadata.
ApplyPatches ==
  /\ pc = "patch"
  /\ LET applied == PatchesOf(core.sha) \ Skipped IN
       /\ applied \cap snapshot.edits = {}
       /\ snapshot' = [snapshot EXCEPT !.edits = @ \cup applied]
       /\ core' = [core EXCEPT !.patches = applied, !.version = FirmwareVersionForSha(core.sha)]
  /\ metadata' = [metadata EXCEPT !.core = core']
  /\ pc' = "build"
  /\ phase' = "build"
  /\ UNCHANGED <<request, outside, built, workspace, binary, result, raised>>

BuildDir ==
  IF options.build_dir THEN "chosen" ELSE IF options.build_only THEN "compat" ELSE "workspace"

\* build refuses a core whose commit has no release.
BuildRefuses ==
  /\ pc = "build"
  /\ core.version = Unmapped
  /\ Fails("resolve-core")
  /\ UNCHANGED <<request, outside, files, core, binary, raised, metadata>>

\* A build cut short leaves the directory as it was, or without a binary.
BuiltPartly == {built, [built EXCEPT ![BuildDir] = NoBuild]}

BuildFails ==
  /\ pc = "build"
  /\ core.version # Unmapped
  /\ Fails("build")
  /\ built' \in BuiltPartly
  /\ UNCHANGED <<request, outside, snapshot, workspace, core, binary, raised, metadata>>

Build ==
  /\ pc = "build"
  /\ core.version # Unmapped
  /\ built' = [built EXCEPT ![BuildDir] =
       [commit |-> snapshot.commit, edits |-> snapshot.edits, version |-> core.version]]
  /\ binary' = BuildDir
  /\ IF options.build_only
       THEN pc' = "final" /\ result' = 0
       ELSE pc' = "device" /\ UNCHANGED result
  /\ UNCHANGED <<request, outside, snapshot, workspace, core, phase, raised, metadata>>

\* prepare_host, then everything DeviceRun is about.
RunDevice ==
  /\ pc = "device"
  /\ \/ \E in \in {"host", "start", "attach", "readiness"} : Fails(in)
     \/ pc' = "final" /\ phase' = "test" /\ result' \in {0, 2, 124}
  /\ UNCHANGED <<request, outside, files, core, binary, raised, metadata>>

\* Ctrl-C, which no except clause takes: execute goes through its finally block, but
\* never returns result.
Interrupted ==
  /\ pc \in {"lock", "resolve", "copy", "patch", "build", "device", "final"}
  /\ pc' = "final"
  /\ raised' = 130
  /\ phase' \in IF pc = "device" THEN {"host", "start", "attach", "readiness", "test"} ELSE {phase}
  /\ built' \in IF pc = "build" /\ core.version # Unmapped THEN BuiltPartly ELSE {built}
  /\ UNCHANGED <<request, outside, snapshot, workspace, core, binary, result, metadata>>

\* The first part of the finally block; a detach or stop that fails fails a test
\* that passed.
CleanUp ==
  /\ pc = "final"
  /\ \/ UNCHANGED <<phase, result>>
     \/ phase = "test" /\ result = 0 /\ phase' = "cleanup" /\ result' = 1
  /\ pc' = "record"
  /\ UNCHANGED <<request, outside, files, core, binary, raised, metadata>>

\* workspace_preserved
RecordedPreserved(code) ==
  \/ options.build_only /\ code = 0
  \/ code # 0 /\ options.keep_on_failure

Record ==
  /\ pc = "record"
  /\ metadata' = [metadata EXCEPT !.phase = phase, !.exit = result, !.preserved = RecordedPreserved(result)]
  /\ pc' = "remove"
  /\ UNCHANGED <<request, outside, files, core, binary, phase, result, raised>>

\* An exception out of the finally block: a write that fails (1), also that of
\* metadata.json, or Ctrl-C.
Escapes ==
  /\ pc \in {"final", "record"}
  /\ raised' \in {1, 130}
  /\ pc' = "done"
  /\ metadata' \in IF pc = "record" THEN {metadata, Unreadable} ELSE {metadata}
  /\ UNCHANGED <<request, outside, files, core, binary, phase, result>>

\* Mutant: what failed in the clean-up alone is not kept.
PreserveWorkspaceOfRun(code) ==
  \/ options.build_only /\ code = 0
  \/ code # 0 /\ options.keep_on_failure /\ phase # "cleanup"

\* preserve_workspace
PreserveWorkspace(code) ==
  \/ options.build_only /\ code = 0
  \/ code # 0 /\ options.keep_on_failure

\* rmtree ignores errors: it removes all of it or a part; Ctrl-C may end it too.
RemoveWorkspace ==
  /\ pc = "remove"
  /\ \/ PreserveWorkspace(result) /\ UNCHANGED files
     \/ /\ ~PreserveWorkspace(result)
        /\ workspace' \in BOOLEAN
        /\ snapshot' \in {NoTree} \cup (IF workspace' THEN {snapshot} ELSE {})
        /\ built' \in {[built EXCEPT !["workspace"] = NoBuild]} \cup (IF workspace' THEN {built} ELSE {})
  /\ raised' \in {raised, 130}
  /\ pc' = "done"
  /\ UNCHANGED <<request, outside, core, binary, phase, result, metadata>>

\* The exit code of compat/run and compat/build.
ExitCode == IF raised # NoCode THEN raised ELSE result
-----------------------------------------------------------------------------
(* Meanwhile.                                                              *)

UpstreamMoves ==
  /\ \E branch \in DOMAIN upstream, c \in BranchMoves : upstream' = [upstream EXCEPT ![branch] = c]
  /\ UNCHANGED <<pc, request, tree, files, core, binary, phase, result, raised, metadata>>

CallerEdits ==
  /\ pc = "copy" => MovesWhileRead
  /\ \E t \in CallerTrees : tree' = [tree EXCEPT !["external"] = t]
  /\ UNCHANGED <<pc, request, upstream, files, core, binary, phase, result, raised, metadata>>

Next ==
  \/ List \/ Listed \/ Invoke \/ AcquireLock
  \/ ResolveFails \/ ResolveRef \/ ReadTree \/ CopyTree \/ ApplyPatches
  \/ BuildRefuses \/ BuildFails \/ Build \/ RunDevice \/ Interrupted
  \/ CleanUp \/ Record \/ Escapes \/ RemoveWorkspace
  \/ UpstreamMoves \/ CallerEdits

Spec == Init /\ [][Next]_vars
-----------------------------------------------------------------------------
(* Correctness.                                                            *)

\* A profile selects each firmware it names, directly, by alias or as one of all
\* releases, once and in the order first named, and is refused if it names an
\* unknown one.
ProfileSelection ==
  pc = "listed" =>
    IF \A name \in ToSet(listing.profile) : \A id \in ToSet(IdsOf(name)) : id \in FirmwareIds
      THEN ~listing.out.error /\ IsSelection(listing.profile, listing.out.ids)
      ELSE listing.out.error

\* What runs, or is printed by compat/build, is what metadata.json names: built
\* from that commit as that release with all its compatibility patches, and with
\* nothing else if the tree is not called dirty.  A build directory used before, a
\* branch that moves or a tree patched before make no difference.
BinaryAsRecorded ==
  binary # NoDir /\ built[binary] # NoBuild /\ metadata # Unreadable =>
    LET b == built[binary] IN
      /\ b.commit = metadata.core.sha
      /\ b.version = FirmwareVersionForSha(b.commit)
      /\ b.version = metadata.core.version
      /\ PatchesOf(b.commit) \subseteq b.edits
      /\ ~metadata.core.dirty => b.edits = metadata.core.patches

\* Asked for a release, the harness builds that release, whatever tags and
\* branches upstream has: "firmware and core tag version numbers must not be
\* assumed to match".
ReleaseAsAsked ==
  core.version # Unmapped /\ options.source = "ref" /\ options.ref \in Releases =>
    core.version = options.ref

\* What an execution promises of what it leaves, whatever failed in it or in its
\* clean-up and whenever it was interrupted: "--keep-on-failure preserves the
\* isolated source/build/storage workspace"; a workspace metadata.json calls
\* preserved is there; exit code 0 is also the one recorded, and after compat/build
\* it means that the printed binary is there beside the tree it was built from.
LeftAsPromised ==
  pc = "done" =>
    /\ result # 0 /\ options.keep_on_failure => workspace
    /\ metadata.preserved => workspace
    /\ ExitCode = 0 => metadata.exit = 0
    /\ ExitCode = 0 /\ options.build_only => built[binary] # NoBuild /\ snapshot # NoTree
=============================================================================
