------------------------- MODULE DeviceRunRefinement -------------------------
(***************************************************************************)
(* Proof that the harness, its helpers and the server processes implement  *)
(* ManagedDevice as long as the faults are those the clean-up copes with   *)
(* (Survived), for any number of runs and servers; and what follows: a run  *)
(* leaves nothing behind, and a test has the device of its own run.         *)
(*                                                                         *)
(* OwnerInv is inductive.  OneOwner is its core: a server that is alive     *)
(* belongs to the run that holds the lock, and that run can name it.        *)
(***************************************************************************)
EXTENDS DeviceRunProofs

\* The server run r would stop: the one in the state file, or the one just
\* started by the harness or by a helper and not yet written down.
Current(r) ==
  IF file[r].pid # NoServer THEN file[r].pid
  ELSE IF pc[r] = "record" THEN server[r] ELSE helper[r].server

OneOwner == \A s \in Servers : Alive(s) => lock \in Runs /\ home[s] = lock /\ s = Current(lock)

AttachedAlive == attachedTo # NoServer => Alive(attachedTo)

LockHolds ==
  \A r \in Runs :
    /\ pc[r] \in Phases => lock = r
    /\ lock = r => pc[r] \in Phases \cup CleanUp

HelpersInTest ==
  \A r \in Runs :
    /\ testing[r] => pc[r] = "test"
    /\ pc[r] # "test" => helper[r] = NoHelper

\* What a helper knows of the server, and what it has written down.
HelperKnows(r) ==
  /\ helper[r].op = "attach" => helper[r].pc \in {"attach", "ready"} /\ helper[r].server = NoServer
  /\ helper[r].pc \in {"idle", "detach", "stop", "spawn"} => helper[r].server = NoServer
  /\ helper[r].pc \in {"spawn", "write"} => file[r].pid = NoServer
  /\ helper[r].pc \in {"list", "query", "attach", "ready", "fail"} /\ helper[r].op # "attach" =>
       file[r].pid = helper[r].server

\* What the harness has written down.
Recorded(r) ==
  /\ pc[r] \in {"idle", "prepare", "spawn", "record"} => file[r].pid = NoServer
  /\ pc[r] \in {"list", "query", "attach", "note", "ready"} => file[r].pid = server[r]

Known == \A r \in Runs : HelperKnows(r) /\ Recorded(r)

OwnerInv == NamesInv /\ OneOwner /\ AttachedAlive /\ LockHolds /\ HelpersInTest /\ Known

-----------------------------------------------------------------------------
(* Each run on its own.                                                    *)

Local(r) ==
  /\ pc[r] \in Phases => lock = r
  /\ lock = r => pc[r] \in Phases \cup CleanUp
  /\ testing[r] => pc[r] = "test"
  /\ pc[r] # "test" => helper[r] = NoHelper
  /\ HelperKnows(r)
  /\ Recorded(r)

LEMMA LocalAll == LockHolds /\ HelpersInTest /\ Known <=> \A r \in Runs : Local(r)
BY DEF LockHolds, HelpersInTest, Known, Local

LEMMA LocalAllNext == (\A r \in Runs : Local(r)') => LockHolds' /\ HelpersInTest' /\ Known'
BY DEF LockHolds, HelpersInTest, Known, Local

\* What the helper and the state file of a run are.
Typed(r) ==
  /\ pc \in [Runs -> {"idle", "done"} \cup Phases \cup CleanUp]
  /\ testing \in [Runs -> BOOLEAN]
  /\ server \in [Runs -> Servers \cup {NoServer}]
  /\ helper \in [Runs -> HelperType] /\ helper[r] \in HelperType
  /\ file \in [Runs -> FileType] /\ file[r] \in FileType

LEMMA TypedRun == ASSUME TypeOK, NEW r \in Runs PROVE Typed(r)
<1>1. HarnessTyped
  BY TypesSplit
<1>2. /\ pc \in [Runs -> {"idle", "done"} \cup Phases \cup CleanUp]
      /\ testing \in [Runs -> BOOLEAN]
      /\ server \in [Runs -> Servers \cup {NoServer}]
      /\ helper \in [Runs -> HelperType]
      /\ file \in [Runs -> FileType]
  BY <1>1, Zenon DEF HarnessTyped
<1>3. helper[r] \in HelperType /\ file[r] \in FileType
  BY <1>2
<1> QED
  BY <1>2, <1>3, Zenon DEF Typed

\* The clean-up under these faults: it is not cut short, and it stops the server
\* that the state file names.
LEMMA SurvivedSteps ==
  ASSUME Survived, NEW r \in Runs
  PROVE  /\ ~HarnessKilled(r) /\ ~WriteEscapes(r)
         /\ Interrupt(r) =>
              /\ pc[r] \in Phases \ {"record", "test"} /\ Goto(r, "debug")
              /\ UNCHANGED <<lock, server, owns, testing, file, helper, processes>>
         /\ StopServer(r) =>
              /\ At(r, "stop") /\ Killed(file[r].pid) /\ Goto(r, "done")
              /\ lock' = IF lock = r THEN NoRun ELSE lock
              /\ UNCHANGED <<server, testing, file, helper>>
<1>0. Faults = {}
  BY DEF Survived
<1>1. ~HarnessKilled(r) /\ ~WriteEscapes(r)
  BY <1>0 DEF HarnessKilled, WriteEscapes
<1>2. ASSUME Interrupt(r)
      PROVE  /\ pc[r] \in Phases \ {"record", "test"} /\ Goto(r, "debug")
             /\ UNCHANGED <<lock, server, owns, testing, file, helper, processes>>
  <2>1. pc[r] \in Phases \ {"record", "test"}
    BY <1>2 DEF Interrupt, Survived
  <2>2. pc[r] \notin CleanUp
    BY <2>1 DEF Phases, CleanUp
  <2> QED
    BY <1>2, <2>1, <2>2 DEF Interrupt
<1>3. ASSUME StopServer(r)
      PROVE  /\ At(r, "stop") /\ Killed(file[r].pid) /\ Goto(r, "done")
             /\ lock' = IF lock = r THEN NoRun ELSE lock
             /\ UNCHANGED <<server, testing, file, helper>>
  <2>1. "stop fails" \notin Faults
    BY <1>0
  <2> QED
    BY <1>3, <2>1 DEF StopServer, PidToStop, Leaves
<1> QED
  BY <1>1, <1>2, <1>3

LEMMA LocalOfRun ==
  ASSUME Survived, TypeOK, NEW r \in Runs, Local(r), Harness(r) \/ Helper(r) \/ Chance(r)
  PROVE  Local(r)'
<1>t. Typed(r)
  BY TypedRun
<1>r. Local(r)
  OBVIOUS
<1>s. Survived /\ r # NoRun
  BY RunsAssumption
<1> USE DEF Typed, HelperType, FileType, Local, HelperKnows, Recorded, Phases, CleanUp, HelperSteps, NoFile,
        NoHelper, At, HelperAt, harness, Survived
<1>e. ASSUME Fails(r), pc[r] \in Phases \ {"test"}, file' = file PROVE Local(r)'
  <2>1. /\ lock' = lock /\ server' = server /\ helper' = helper /\ testing' = testing
        /\ helper[r] = NoHelper /\ lock = r /\ ~testing[r]
    BY <1>e, <1>r DEF Fails
  <2>2. pc'[r] = "debug"
    BY <1>e, <1>t DEF Fails, Goto
  <2> QED
    BY <2>1, <2>2, <1>r
<1>1. ASSUME AcquireLock(r) PROVE Local(r)'
  BY <1>1, <1>t, <1>r, <1>s DEF AcquireLock, Goto
<1>2. ASSUME LockHeld(r) PROVE Local(r)'
  BY <1>2, <1>t, <1>r, <1>s DEF LockHeld, Fails, Goto
<1>3. ASSUME Prepare(r) PROVE Local(r)'
  <2>1. CASE Fails(r)
    BY <1>3, <2>1, <1>e DEF Prepare
  <2>2. CASE Proceeds(r, "spawn")
    BY <1>3, <2>2, <1>t, <1>r, <1>s DEF Prepare, Proceeds, Goto
  <2> QED
    BY <1>3, <2>1, <2>2 DEF Prepare
<1>4. ASSUME StartServer(r) PROVE Local(r)'
  <2>1. CASE Fails(r)
    BY <1>4, <2>1, <1>e DEF StartServer
  <2>2. CASE ~Fails(r)
    <3>1. Goto(r, "record") /\ UNCHANGED <<lock, testing, helper, file>> /\ pc[r] = "spawn"
      BY <1>4, <2>2 DEF StartServer
    <3>2. pc'[r] = "record"
      BY <3>1, <1>t DEF Goto
    <3> QED
      BY <3>1, <3>2, <1>t, <1>r
  <2> QED
    BY <2>1, <2>2
<1>5. ASSUME WriteState(r) PROVE Local(r)'
  <2>1. file'[r].pid = server[r]
    BY <1>5, <1>t DEF WriteState
  <2>2. pc'[r] \in {"list", "ready"} /\ pc[r] \in {"record", "note"}
    BY <1>5, <1>t DEF WriteState, Proceeds, Goto
  <2>3. /\ lock' = lock /\ server' = server /\ helper' = helper /\ testing' = testing
        /\ helper[r] = NoHelper
    BY <1>5, <2>2, <1>r DEF WriteState, Proceeds
  <2> QED
    BY <2>1, <2>2, <2>3, <1>r, <1>t
<1>6. ASSUME WriteStateFails(r) PROVE Local(r)'
  BY <1>6, <1>t, <1>r, <1>s DEF WriteStateFails, Fails, Goto
<1>7. ASSUME CheckServer(r) PROVE Local(r)'
  BY <1>7, <1>t, <1>r, <1>s DEF CheckServer, Proceeds, Goto
<1>8. ASSUME StartFails(r) PROVE Local(r)'
  BY <1>8, <1>t, <1>r, <1>s DEF StartFails, Fails, Goto
<1>9. ASSUME ListServer(r) PROVE Local(r)'
  BY <1>9, <1>t, <1>r, <1>s DEF ListServer, Proceeds, Goto
<1>10. ASSUME Attach(r) PROVE Local(r)'
  <2>1. CASE Fails(r)
    BY <1>10, <2>1, <1>e DEF Attach
  <2>2. CASE Proceeds(r, "note")
    BY <1>10, <2>2, <1>t, <1>r, <1>s DEF Attach, Proceeds, Goto
  <2> QED
    BY <1>10, <2>1, <2>2 DEF Attach
<1>11. ASSUME AttachFails(r) PROVE Local(r)'
  BY <1>11, <1>t, <1>r, <1>s DEF AttachFails, Fails, Goto
<1>12. ASSUME WaitReady(r) PROVE Local(r)'
  <2>1. CASE Fails(r)
    BY <1>12, <2>1, <1>e DEF WaitReady
  <2>2. CASE ~Fails(r)
    <3>1. /\ Goto(r, "test") /\ testing' = [testing EXCEPT ![r] = TRUE]
          /\ UNCHANGED <<lock, server, helper, file>> /\ pc[r] = "ready"
      BY <1>12, <2>2 DEF WaitReady
    <3>2. pc'[r] = "test"
      BY <3>1, <1>t DEF Goto
    <3> QED
      BY <3>1, <3>2, <1>t, <1>r
  <2> QED
    BY <2>1, <2>2
<1>13. ASSUME NEW code \in {0, 2}, TestEnds(r, code) PROVE Local(r)'
  BY <1>13, <1>t, <1>r, <1>s DEF TestEnds, Goto
<1>14. ASSUME TestTimesOut(r) PROVE Local(r)'
  BY <1>14, <1>t, <1>r, <1>s DEF TestTimesOut, Goto
<1>15. ASSUME CollectDebug(r) PROVE Local(r)'
  BY <1>15, <1>t, <1>r, <1>s DEF CollectDebug, Proceeds, Goto
<1>16. ASSUME Detach(r) PROVE Local(r)'
  BY <1>16, <1>t, <1>r, <1>s DEF Detach, Goto
<1>17. ASSUME StopServer(r) PROVE Local(r)'
  <2>1. /\ pc[r] = "stop" /\ Goto(r, "done") /\ lock' = IF lock = r THEN NoRun ELSE lock
        /\ UNCHANGED <<server, testing, file, helper>>
    BY <1>17, SurvivedSteps
  <2> QED
    BY <2>1, <1>t, <1>r, <1>s DEF Goto
<1>18. ASSUME Interrupt(r) PROVE Local(r)'
  <2>1. /\ pc[r] \in Phases \ {"record", "test"} /\ Goto(r, "debug")
        /\ UNCHANGED <<lock, server, testing, file, helper>>
    BY <1>18, SurvivedSteps
  <2> QED
    BY <2>1, <1>t, <1>r, <1>s DEF Goto
<1>19. ~HarnessKilled(r) /\ ~WriteEscapes(r)
  BY SurvivedSteps
<1>20. ASSUME HelperGivesUp(r) PROVE Local(r)'
  BY <1>20, <1>t, <1>r, <1>s DEF HelperGivesUp, HelperEnds
<1>21. ASSUME HelperDetach(r) PROVE Local(r)'
  BY <1>21, <1>t, <1>r, <1>s DEF HelperDetach, HelperEnds, HelperGoto
<1>22. ASSUME HelperStop(r) PROVE Local(r)'
  BY <1>22, <1>t, <1>r, <1>s DEF HelperStop, HelperEnds, HelperGoto
<1>23. ASSUME HelperSpawn(r) PROVE Local(r)'
  BY <1>23, <1>t, <1>r, <1>s DEF HelperSpawn
<1>24. ASSUME HelperWrite(r) PROVE Local(r)'
  BY <1>24, <1>t, <1>r, <1>s DEF HelperWrite, HelperGoto
<1>25. ASSUME HelperWriteFails(r) PROVE Local(r)'
  BY <1>25, <1>t, <1>r, <1>s DEF HelperWriteFails, HelperEnds
<1>26. ASSUME HelperCheck(r) PROVE Local(r)'
  BY <1>26, <1>t, <1>r, <1>s DEF HelperCheck, HelperGoto
<1>27. ASSUME HelperList(r) PROVE Local(r)'
  BY <1>27, <1>t, <1>r, <1>s DEF HelperList, HelperGoto
<1>28. ASSUME HelperAttach(r) PROVE Local(r)'
  BY <1>28, <1>t, <1>r, <1>s DEF HelperAttach
<1>29. ASSUME HelperAttachFails(r) PROVE Local(r)'
  BY <1>29, <1>t, <1>r, <1>s DEF HelperAttachFails, HelperEnds, HelperGoto
<1>30. ASSUME HelperReady(r) PROVE Local(r)'
  BY <1>30, <1>t, <1>r, <1>s DEF HelperReady, HelperEnds, HelperGoto
<1>31. ASSUME HelperFails(r) PROVE Local(r)'
  BY <1>31, <1>t, <1>r, <1>s DEF HelperFails, HelperEnds
<1>32. ASSUME HelperTouch(r) PROVE Local(r)'
  BY <1>32, <1>t, <1>r, <1>s DEF HelperTouch
<1>33. ASSUME NEW op \in Ops, CallHelper(r, op) PROVE Local(r)'
  <2>1. /\ pc' = pc /\ lock' = lock /\ server' = server /\ testing' = testing /\ file' = file
        /\ pc[r] = "test" /\ (op = "start" => file[r].pid = NoServer)
    BY <1>33, <1>r, <1>s DEF CallHelper, MayCall
  <2>2. /\ helper'[r].server = NoServer /\ helper'[r].op = op
        /\ helper'[r].pc = CASE op = "start" -> "spawn" [] op = "attach" -> "attach" [] OTHER -> "detach"
    BY <1>33, <1>t DEF CallHelper
  <2>3. HelperKnows(r)'
    BY <2>1, <2>2
  <2> QED
    BY <2>1, <2>3, <1>r
<1> QED
  BY <1>1, <1>2, <1>3, <1>4, <1>5, <1>6, <1>7, <1>8, <1>9, <1>10, <1>11, <1>12, <1>13, <1>14, <1>15,
     <1>16, <1>17, <1>18, <1>19, <1>20, <1>21, <1>22, <1>23, <1>24, <1>25, <1>26, <1>27, <1>28,
     <1>29, <1>30, <1>31, <1>32, <1>33
  DEF Harness, Limited, Helper, Chance

\* The lock changes hands through being free.
LEMMA LockMoves ==
  ASSUME NEW r \in Runs, Harness(r) \/ Helper(r) \/ Chance(r)
  PROVE  lock' = lock \/ (lock = NoRun /\ lock' = r) \/ (lock = r /\ lock' = NoRun)
BY DEF Harness, Limited, Helper, Chance, AcquireLock, LockFree, LockHeld, Prepare, StartServer, WriteState,
   WriteStateFails, CheckServer, StartFails, ListServer, Attach, AttachFails, WaitReady, TestEnds,
   TestTimesOut, CollectDebug, Detach, StopServer, Interrupt, HarnessKilled, WriteEscapes, Leaves,
   Proceeds, Fails, HelperGivesUp, HelperDetach, HelperStop, HelperSpawn, HelperWrite, HelperWriteFails, HelperCheck,
   HelperList, HelperAttach, HelperAttachFails, HelperReady, HelperFails, HelperTouch, CallHelper, harness

LEMMA LocalStep ==
  ASSUME Survived PROVE OwnerInv /\ [Next]_vars => LockHolds' /\ HelpersInTest' /\ Known'
<1> SUFFICES ASSUME OwnerInv, [Next]_vars, NEW q \in Runs PROVE Local(q)'
  BY LocalAllNext
<1>1. TypeOK /\ \A r \in Runs : Local(r)
  BY LocalAll DEF OwnerInv, NamesInv
<1>2. ASSUME UNCHANGED <<harness, file, helper>> PROVE Local(q)'
  BY <1>1, <1>2 DEF Local, HelperKnows, Recorded, harness
<1>3. ASSUME NEW r \in Runs, Harness(r) \/ Helper(r) \/ Chance(r) PROVE Local(q)'
  <2>1. CASE q = r
    BY <1>1, <1>3, <2>1, LocalOfRun
  <2>2. CASE q # r
    <3>1. SameRun(q)
      BY <1>1, <1>3, <2>2, OthersSame
    <3>2. lock' = lock \/ (lock = NoRun /\ lock' = r) \/ (lock = r /\ lock' = NoRun)
      BY <1>3, LockMoves
    <3>3. (lock = q <=> lock' = q) /\ Local(q)
      BY <1>1, <2>2, <3>2, RunsAssumption
    <3> QED
      BY <3>1, <3>3 DEF SameRun, Local, HelperKnows, Recorded
  <2> QED
    BY <2>1, <2>2
<1> QED
  BY <1>2, <1>3 DEF Next, Boot, Dies, vars
-----------------------------------------------------------------------------
(* The servers.                                                            *)

\* Only starting a server makes one alive.
LEMMA NothingBorn ==
  ASSUME TypeOK, NEW r \in Runs, Harness(r) \/ Helper(r) \/ Chance(r), ~StartServer(r), ~HelperSpawn(r),
         NEW s \in Servers, Alive(s)'
  PROVE  Alive(s)
<1> USE DEF TypeOK, Alive, processes
<1>1. ASSUME NEW t \in Servers \cup {NoServer}, Killed(t) PROVE Alive(s)
  BY <1>1 DEF Killed
<1>2. ASSUME proc' = proc PROVE Alive(s)
  BY <1>2
<1>4. CASE Harness(r)
  BY <1>4, <1>1, <1>2
  DEF Harness, Limited, AcquireLock, LockHeld, Prepare, WriteState, WriteStateFails, CheckServer,
      StartFails, ListServer, Attach, AttachFails, WaitReady, TestEnds, TestTimesOut, CollectDebug,
      Detach, StopServer, PidToStop, Attached, DetachedIf
<1>5. CASE Helper(r)
  <2>1. CASE HelperFails(r)
    BY <2>1 DEF HelperFails, ServerToFail
  <2> QED
    BY <1>5, <2>1, <1>1, <1>2
    DEF Helper, HelperGivesUp, HelperDetach, HelperStop, HelperWrite, HelperWriteFails,
        HelperCheck, HelperList, HelperAttach, HelperAttachFails, HelperReady, Attached, DetachedIf
<1>6. CASE Chance(r)
  BY ZenonT(60), <1>6, <1>1, <1>2
  DEF Chance, Interrupt, HarnessKilled, WriteEscapes, DetachedIf, PidToStop, HelperTouch, CallHelper
<1> QED
  BY <1>4, <1>5, <1>6

\* The run that owns the device does not lose sight of a server that stays alive.
LEMMA CurrentKept ==
  ASSUME Survived, TypeOK, NEW r \in Runs, Local(r), Harness(r) \/ Helper(r) \/ Chance(r),
         ~StartServer(r), ~HelperSpawn(r), ~StopServer(r),
         NEW s \in Servers, s = Current(r), Alive(s)'
  PROVE  s = Current(r)'
<1>t. Typed(r) /\ proc \in [Servers -> {"none", "booting", "listening", "dead"}]
  BY TypedRun DEF TypeOK
<1>r. Local(r)
  OBVIOUS
<1>s. Survived /\ s # NoServer /\ s \in Servers /\ s = Current(r) /\ Alive(s)'
  BY RunsAssumption
<1> USE DEF Typed, HelperType, FileType, Local, HelperKnows, Recorded, Phases, CleanUp, HelperSteps, NoFile,
        NoHelper, At, HelperAt, harness, Survived, Current, Alive
<1>1. ASSUME AcquireLock(r) PROVE s = Current(r)'
  BY <1>1, <1>t, <1>r, <1>s DEF AcquireLock, Goto
<1>2. ASSUME LockHeld(r) PROVE s = Current(r)'
  BY <1>2, <1>t, <1>r, <1>s DEF LockHeld, Fails, Goto
<1>3. ASSUME Prepare(r) PROVE s = Current(r)'
  BY <1>3, <1>t, <1>r, <1>s DEF Prepare, Proceeds, Fails, Goto
<1>4. ASSUME WriteState(r) PROVE s = Current(r)'
  BY <1>4, <1>t, <1>r, <1>s DEF WriteState, Proceeds, Goto
<1>5. ASSUME WriteStateFails(r) PROVE s = Current(r)'
  BY <1>5, <1>t, <1>r, <1>s DEF WriteStateFails, Fails, Goto
<1>6. ASSUME CheckServer(r) PROVE s = Current(r)'
  BY <1>6, <1>t, <1>r, <1>s DEF CheckServer, Proceeds, Goto
<1>7. ASSUME StartFails(r) PROVE s = Current(r)'
  BY <1>7, <1>t, <1>r, <1>s DEF StartFails, Fails, Goto
<1>8. ASSUME ListServer(r) PROVE s = Current(r)'
  BY <1>8, <1>t, <1>r, <1>s DEF ListServer, Proceeds, Goto
<1>9. ASSUME Attach(r) PROVE s = Current(r)'
  BY <1>9, <1>t, <1>r, <1>s DEF Attach, Proceeds, Fails, Goto
<1>10. ASSUME AttachFails(r) PROVE s = Current(r)'
  BY <1>10, <1>t, <1>r, <1>s DEF AttachFails, Fails, Goto
<1>11. ASSUME WaitReady(r) PROVE s = Current(r)'
  BY <1>11, <1>t, <1>r, <1>s DEF WaitReady, Fails, Goto
<1>12. ASSUME NEW code \in {0, 2}, TestEnds(r, code) PROVE s = Current(r)'
  BY <1>12, <1>t, <1>r, <1>s DEF TestEnds, Goto
<1>13. ASSUME TestTimesOut(r) PROVE s = Current(r)'
  BY <1>13, <1>t, <1>r, <1>s DEF TestTimesOut, Goto
<1>14. ASSUME CollectDebug(r) PROVE s = Current(r)'
  BY <1>14, <1>t, <1>r, <1>s DEF CollectDebug, Proceeds, Goto
<1>15. ASSUME Detach(r) PROVE s = Current(r)'
  BY <1>15, <1>t, <1>r, <1>s DEF Detach, Goto
<1>16. ASSUME Interrupt(r) PROVE s = Current(r)'
  <2>1. /\ pc[r] \in Phases \ {"record", "test"} /\ Goto(r, "debug")
        /\ UNCHANGED <<server, file, helper>>
    BY <1>16, SurvivedSteps
  <2> QED
    BY <2>1, <1>t, <1>r, <1>s DEF Goto
<1>17. ~HarnessKilled(r) /\ ~WriteEscapes(r)
  BY SurvivedSteps
<1>18. ASSUME HelperGivesUp(r) PROVE s = Current(r)'
  BY <1>18, <1>t, <1>r, <1>s DEF HelperGivesUp, HelperEnds
<1>19. ASSUME HelperDetach(r) PROVE s = Current(r)'
  BY <1>19, <1>t, <1>r, <1>s DEF HelperDetach, HelperEnds, HelperGoto
<1>20. ASSUME HelperStop(r) PROVE s = Current(r)'
  BY <1>20, <1>t, <1>r, <1>s DEF HelperStop, HelperEnds, HelperGoto, Killed
<1>21. ASSUME HelperWrite(r) PROVE s = Current(r)'
  BY <1>21, <1>t, <1>r, <1>s DEF HelperWrite, HelperGoto
<1>22. ASSUME HelperWriteFails(r) PROVE s = Current(r)'
  BY <1>22, <1>t, <1>r, <1>s DEF HelperWriteFails, HelperEnds
<1>23. ASSUME HelperCheck(r) PROVE s = Current(r)'
  BY <1>23, <1>t, <1>r, <1>s DEF HelperCheck, HelperGoto
<1>24. ASSUME HelperList(r) PROVE s = Current(r)'
  BY <1>24, <1>t, <1>r, <1>s DEF HelperList, HelperGoto
<1>25. ASSUME HelperAttach(r) PROVE s = Current(r)'
  BY <1>25, <1>t, <1>r, <1>s DEF HelperAttach
<1>26. ASSUME HelperAttachFails(r) PROVE s = Current(r)'
  BY <1>26, <1>t, <1>r, <1>s DEF HelperAttachFails, HelperEnds, HelperGoto
<1>27. ASSUME HelperReady(r) PROVE s = Current(r)'
  BY <1>27, <1>t, <1>r, <1>s DEF HelperReady, HelperEnds, HelperGoto
<1>28. ASSUME HelperFails(r) PROVE s = Current(r)'
  BY <1>28, <1>t, <1>r, <1>s DEF HelperFails, HelperEnds, ServerToFail
<1>29. ASSUME HelperTouch(r) PROVE s = Current(r)'
  BY <1>29, <1>t, <1>r, <1>s DEF HelperTouch
<1>30. ASSUME NEW op \in Ops, CallHelper(r, op) PROVE s = Current(r)'
  BY <1>30, <1>t, <1>r, <1>s DEF CallHelper
<1> QED
  BY <1>1, <1>2, <1>3, <1>4, <1>5, <1>6, <1>7, <1>8, <1>9, <1>10, <1>11, <1>12, <1>13, <1>14, <1>15,
     <1>16, <1>17, <1>18, <1>19, <1>20, <1>21, <1>22, <1>23, <1>24, <1>25, <1>26, <1>27, <1>28,
     <1>29, <1>30
  DEF Harness, Limited, Helper, Chance

\* With the faults the clean-up copes with, only the clean-up gives the lock back.
LEMMA LockKept ==
  ASSUME Survived, NEW r \in Runs, Local(r), Harness(r) \/ Helper(r) \/ Chance(r),
         ~StopServer(r), lock \in Runs
  PROVE  lock' = lock
<1>1. CASE Harness(r)
  BY <1>1, RunsAssumption, ZenonT(60)
  DEF Harness, Limited, AcquireLock, LockFree, LockHeld, Prepare, StartServer, WriteState, WriteStateFails,
      CheckServer, StartFails, ListServer, Attach, AttachFails, WaitReady, TestEnds, TestTimesOut,
      CollectDebug, Detach, Proceeds, Fails
<1>2. CASE Helper(r)
  BY <1>2
  DEF Helper, HelperGivesUp, HelperDetach, HelperStop, HelperSpawn, HelperWrite, HelperWriteFails,
      HelperCheck, HelperList, HelperAttach, HelperAttachFails, HelperReady, HelperFails, harness
<1>3. CASE Chance(r)
  BY <1>3, SurvivedSteps DEF Chance, HelperTouch, CallHelper, harness
<1> QED
  BY <1>1, <1>2, <1>3

\* A free lock is taken by the first phase only.
LEMMA FreeTaken ==
  ASSUME NEW r \in Runs, Harness(r) \/ Helper(r) \/ Chance(r), ~AcquireLock(r), ~StopServer(r), lock \notin Runs
  PROVE  lock' = lock
BY DEF Harness, Limited, Helper, Chance, LockHeld, Prepare, StartServer, WriteState, WriteStateFails, CheckServer,
   StartFails, ListServer, Attach, AttachFails, WaitReady, TestEnds, TestTimesOut, CollectDebug, Detach,
   Interrupt, HarnessKilled, WriteEscapes, Leaves, Proceeds, Fails, HelperGivesUp, HelperDetach, HelperStop, HelperSpawn,
   HelperWrite, HelperWriteFails, HelperCheck, HelperList, HelperAttach, HelperAttachFails, HelperReady,
   HelperFails, HelperTouch, CallHelper, harness

\* Where a server is started, nobody's is alive, and its run has the lock.
LEMMA SpawnAlone ==
  ASSUME OwnerInv, NEW r \in Runs, StartServer(r) \/ HelperSpawn(r)
  PROVE  lock = r /\ Current(r) = NoServer /\ \A t \in Servers : ~Alive(t)
<1>1. Local(r) /\ Typed(r)
  BY LocalAll, TypedRun DEF OwnerInv, NamesInv
<1>2. CASE StartServer(r)
  <2>1. pc[r] = "spawn" /\ lock = r /\ helper[r].server = NoServer
    BY <1>1, <1>2 DEF StartServer, At, Local, Phases, NoHelper
  <2> QED
    BY <1>1, <2>1, RunsAssumption DEF Local, Recorded, Current, OwnerInv, OneOwner
<1>3. CASE HelperSpawn(r)
  <2>1. helper[r].pc = "spawn"
    BY <1>3 DEF HelperSpawn, HelperAt
  <2>2. pc[r] = "test"
    BY <1>1, <2>1 DEF Local, NoHelper
  <2>3. lock = r
    BY <1>1, <2>2 DEF Local, Phases
  <2> QED
    BY <1>1, <2>1, <2>2, <2>3, RunsAssumption DEF Local, HelperKnows, Current, OwnerInv, OneOwner
<1> QED
  BY <1>2, <1>3

\* The server just started is the one its run can name.
LEMMA SpawnNamed ==
  ASSUME OwnerInv, NEW r \in Runs, NEW s \in Servers, Alive(s)', StartServer(r) \/ HelperSpawn(r)
  PROVE  /\ lock' = r /\ home'[s] = r /\ s = Current(r)'
         /\ Spawned(r, s)
<1>1. Local(r) /\ Typed(r) /\ Current(r) = NoServer /\ lock = r /\ ~Alive(s)
  BY LocalAll, TypedRun, SpawnAlone DEF OwnerInv, NamesInv
<1>2. /\ proc \in [Servers -> {"none", "booting", "listening", "dead"}]
      /\ home \in [Servers -> Runs \cup {NoRun}]
  BY DEF OwnerInv, NamesInv, TypeOK
<1>3. ASSUME NEW t \in Servers, Spawned(r, t) PROVE t = s /\ home'[s] = r
  BY <1>1, <1>2, <1>3 DEF Spawned, Alive
<1>4. CASE StartServer(r)
  <2>1. PICK t \in Servers : Spawned(r, t) /\ server' = [server EXCEPT ![r] = t]
    BY <1>1, <1>4 DEF StartServer, processes, Alive
  <2>2. pc'[r] = "record" /\ lock' = lock /\ file' = file
    BY <1>1, <1>4, <2>1 DEF StartServer, Goto, Typed, Fails, Spawned, Alive, processes
  <2>3. file[r].pid = NoServer
    BY <1>1 DEF Current
  <2> QED
    BY <1>1, <1>3, <2>1, <2>2, <2>3 DEF Current, Typed
<1>5. CASE HelperSpawn(r)
  <2>1. PICK t \in Servers :
          Spawned(r, t) /\ helper' = [helper EXCEPT ![r].pc = "write", ![r].server = t, ![r].owns = FALSE]
    BY <1>5 DEF HelperSpawn
  <2>2. pc' = pc /\ lock' = lock /\ file' = file
    BY <1>5 DEF HelperSpawn, harness
  <2>3. pc[r] = "test" /\ helper'[r].server = t
    <3>1. helper[r].pc = "spawn"
      BY <1>5 DEF HelperSpawn, HelperAt
    <3>2. pc[r] = "test"
      BY <1>1, <3>1 DEF Local, NoHelper
    <3>3. helper'[r].server = t
      BY <1>1, <2>1 DEF Typed, HelperType
    <3> QED
      BY <3>2, <3>3
  <2>4. file[r].pid = NoServer
    BY <1>1 DEF Current
  <2> QED
    BY <1>1, <1>3, <2>1, <2>2, <2>3, <2>4 DEF Current
<1> QED
  BY <1>4, <1>5

\* The clean-up of the owner leaves no server alive.
LEMMA StopKills ==
  ASSUME Survived, OwnerInv, NEW r \in Runs, StopServer(r), NEW s \in Servers, Alive(s)'
  PROVE  Alive(s) /\ lock # r /\ lock' = lock
<1>0. /\ pc[r] = "stop" /\ Killed(file[r].pid)
      /\ lock' = IF lock = r THEN NoRun ELSE lock
  BY SurvivedSteps DEF At
<1>1. Local(r) /\ Typed(r)
  BY LocalAll, TypedRun DEF OwnerInv, NamesInv
<1>2. proc \in [Servers -> {"none", "booting", "listening", "dead"}] /\ s # NoServer
  BY RunsAssumption DEF OwnerInv, NamesInv, TypeOK
<1>3. Alive(s) /\ s # file[r].pid
  BY <1>0, <1>1, <1>2 DEF Killed, Alive, Typed, FileType
<1>4. Current(r) \in {file[r].pid, NoServer}
  BY <1>0, <1>1, <1>2 DEF Current, Local, NoHelper
<1>5. lock # r
  BY <1>2, <1>3, <1>4 DEF OwnerInv, OneOwner
<1> QED
  BY <1>0, <1>3, <1>5

LEMMA OneOwnerOfRun ==
  ASSUME Survived, OwnerInv, NEW r \in Runs, Harness(r) \/ Helper(r) \/ Chance(r),
         NEW s \in Servers, Alive(s)'
  PROVE  lock' \in Runs /\ home'[s] = lock' /\ s = Current(lock)' /\ lock' = lock
<1>0. TypeOK /\ Local(r)
  BY LocalAll DEF OwnerInv, NamesInv
<1>1. CASE StartServer(r) \/ HelperSpawn(r)
  BY <1>1, SpawnAlone, SpawnNamed
<1>2. CASE ~StartServer(r) /\ ~HelperSpawn(r)
  <2>1. Alive(s) /\ home' = home
    BY <1>0, <1>2, NothingBorn, NamesShrink
  <2>2. lock \in Runs /\ home[s] = lock /\ s = Current(lock)
    BY <2>1 DEF OwnerInv, OneOwner
  <2>3. lock' = lock
    BY <1>0, <2>2, StopKills, LockKept
  <2>4. CASE lock # r
    <3>1. SameRun(lock)
      BY <1>0, <2>2, <2>4, OthersSame
    <3>2. Current(lock)' = Current(lock)
      BY <2>3, <3>1 DEF SameRun, Current
    <3> QED
      BY <2>1, <2>2, <2>3, <3>2
  <2>5. CASE lock = r
    <3>1. ~StopServer(r)
      BY <2>5, StopKills
    <3>2. s = Current(r)'
      BY <1>0, <1>2, <2>2, <2>5, <3>1, CurrentKept
    <3> QED
      BY <2>1, <2>2, <2>3, <2>5, <3>2
  <2> QED
    BY <2>4, <2>5
<1> QED
  BY <1>1, <1>2

\* Attaching picks a server that is alive; nothing else attaches.
LEMMA AttachMoves ==
  ASSUME NEW r \in Runs, Harness(r) \/ Helper(r) \/ Chance(r)
  PROVE  attachedTo' \in {attachedTo, NoServer} \/ Attached
<1>1. CASE Harness(r)
  BY <1>1
  DEF Harness, Limited, AcquireLock, LockHeld, Prepare, StartServer, WriteState, WriteStateFails, CheckServer,
      StartFails, ListServer, Attach, AttachFails, WaitReady, TestEnds, TestTimesOut, CollectDebug,
      Detach, StopServer, DetachedIf, Killed, Spawned, processes
<1>2. CASE Helper(r)
  BY <1>2
  DEF Helper, HelperGivesUp, HelperDetach, HelperStop, HelperSpawn, HelperWrite, HelperWriteFails,
      HelperCheck, HelperList, HelperAttach, HelperAttachFails, HelperReady, HelperFails, DetachedIf,
      Killed, Spawned, processes
<1>3. CASE Chance(r)
  BY <1>3
  DEF Chance, Interrupt, HarnessKilled, WriteEscapes, DetachedIf, HelperTouch, CallHelper, Killed, processes
<1> QED
  BY <1>1, <1>2, <1>3

\* A server that stops is not attached afterwards.
LEMMA DeadDetached ==
  ASSUME TypeOK, NEW r \in Runs, Harness(r) \/ Helper(r) \/ Chance(r),
         NEW s \in Servers, Alive(s), ~Alive(s)'
  PROVE  attachedTo' # s
<1> USE DEF TypeOK, Alive
<1>1. ASSUME NEW t \in Servers \cup {NoServer}, Killed(t) PROVE attachedTo' # s
  BY <1>1, RunsAssumption DEF Killed
<1>2. proc' # proc
  OBVIOUS
<1>3. ASSUME NEW t \in Servers, Spawned(r, t) PROVE FALSE
  BY <1>3 DEF Spawned
<1>4. CASE Harness(r)
  BY <1>4, <1>1, <1>2, <1>3
  DEF Harness, Limited, AcquireLock, LockHeld, Prepare, StartServer, WriteState, WriteStateFails, CheckServer,
      StartFails, ListServer, Attach, AttachFails, WaitReady, TestEnds, TestTimesOut, CollectDebug,
      Detach, StopServer, PidToStop, Attached, DetachedIf, processes
<1>5. CASE Helper(r)
  <2>1. CASE HelperFails(r)
    <3>1. s = ServerToFail(r)
      BY <2>1 DEF HelperFails, ServerToFail
    <3> QED
      BY <2>1, <3>1, RunsAssumption DEF HelperFails
  <2> QED
    BY <1>5, <2>1, <1>1, <1>2, <1>3
    DEF Helper, HelperGivesUp, HelperDetach, HelperStop, HelperSpawn, HelperWrite, HelperWriteFails,
        HelperCheck, HelperList, HelperAttach, HelperAttachFails, HelperReady, Attached, DetachedIf,
        processes
<1>6. CASE Chance(r)
  BY <1>6, <1>1, <1>2
  DEF Chance, Interrupt, HarnessKilled, WriteEscapes, DetachedIf, PidToStop, HelperTouch, CallHelper, processes
<1> QED
  BY <1>4, <1>5, <1>6

\* Attaching starts and stops nothing.
LEMMA AttachedAnswers ==
  ASSUME Attached
  PROVE  /\ attachedTo' \in Answering /\ proc' = proc /\ home' = home
         /\ proc'[attachedTo'] \in {"booting", "listening"}
BY DEF Attached, Answering, Bound, Alive

LEMMA AttachedAliveOfRun ==
  ASSUME OwnerInv, NEW r \in Runs, Harness(r) \/ Helper(r) \/ Chance(r) PROVE AttachedAlive'
<1>1. CASE Attached
  BY <1>1, AttachedAnswers DEF AttachedAlive, Alive
<1>2. CASE attachedTo' \in {attachedTo, NoServer}
  <2> SUFFICES ASSUME attachedTo' # NoServer PROVE Alive(attachedTo)'
    BY DEF AttachedAlive
  <2>1. attachedTo' = attachedTo /\ attachedTo \in Servers /\ Alive(attachedTo) /\ TypeOK
    BY <1>2 DEF OwnerInv, NamesInv, AttachedAlive, TypeOK
  <2> DEFINE s == attachedTo
  <2>2. proc'[s] \in {"booting", "listening"}
    BY <2>1, DeadDetached DEF Alive
  <2> QED
    BY <2>1, <2>2 DEF Alive
<1> QED
  BY <1>1, <1>2, AttachMoves

\* A step of a server process: while one is alive nothing else has its port, so
\* it can only come up or die.
LEMMA ServerStep ==
  ASSUME OwnerInv, NEW s \in Servers, Boot(s) \/ Dies(s)
  PROVE  /\ UNCHANGED <<harness, file, helper, home>>
         /\ \A t \in Servers : Alive(t)' => Alive(t)
         /\ attachedTo' \in {attachedTo, NoServer}
         /\ AttachedAlive'
<1>1. proc \in [Servers -> {"none", "booting", "listening", "dead"}] /\ attachedTo \in Servers \cup {NoServer}
  BY DEF OwnerInv, NamesInv, TypeOK
<1>2. CASE Boot(s)
  <2>1. Bound = {}
    <3> SUFFICES ASSUME NEW t \in Servers, proc[t] = "listening" PROVE FALSE
      BY DEF Bound
    <3>1. Alive(s) /\ Alive(t) /\ s # t
      BY <1>2 DEF Boot, Alive
    <3> QED
      BY <3>1 DEF OwnerInv, OneOwner
  <2>2. proc' = [proc EXCEPT ![s] = "listening"]
    BY <1>2, <2>1 DEF Boot
  <2> QED
    BY <1>1, <1>2, <2>2 DEF Boot, Alive, AttachedAlive, OwnerInv
<1>3. CASE Dies(s)
  BY <1>1, <1>3, RunsAssumption DEF Dies, Killed, Alive, AttachedAlive, OwnerInv
<1> QED
  BY <1>2, <1>3

LEMMA OwnerInit == Init => OwnerInv
<1> SUFFICES ASSUME Init PROVE OneOwner /\ AttachedAlive /\ LockHolds /\ HelpersInTest /\ Known
  BY NamesInit DEF OwnerInv
<1>1. OneOwner /\ AttachedAlive
  BY DEF Init, OneOwner, AttachedAlive, Alive
<1>2. ASSUME NEW r \in Runs PROVE Local(r)
  BY RunsAssumption DEF Init, Local, HelperKnows, Recorded, Phases, CleanUp, NoFile, NoHelper
<1> QED
  BY <1>1, <1>2, LocalAll

LEMMA OwnerStep ==
  ASSUME Survived PROVE OwnerInv /\ [Next]_vars => OwnerInv'
<1> SUFFICES ASSUME OwnerInv, [Next]_vars PROVE OneOwner' /\ AttachedAlive'
  BY LocalStep, NamesStep DEF OwnerInv
<1>1. ASSUME NEW r \in Runs, Harness(r) \/ Helper(r) \/ Chance(r) PROVE OneOwner' /\ AttachedAlive'
  <2>1. OneOwner'
    BY <1>1, OneOwnerOfRun DEF OneOwner
  <2> QED
    BY <1>1, <2>1, AttachedAliveOfRun
<1>2. ASSUME NEW s \in Servers, Boot(s) \/ Dies(s) PROVE OneOwner' /\ AttachedAlive'
  <2>1. /\ UNCHANGED <<pc, lock, server, file, helper, home>> /\ AttachedAlive'
        /\ \A t \in Servers : Alive(t)' => Alive(t)
    BY <1>2, ServerStep DEF harness
  <2>2. Current(lock)' = Current(lock)
    BY <2>1 DEF Current
  <2> QED
    BY <2>1, <2>2 DEF OwnerInv, OneOwner
<1>3. CASE UNCHANGED vars
  BY <1>3 DEF vars, harness, processes, OwnerInv, OneOwner, AttachedAlive, Alive, Current
<1> QED
  BY <1>1, <1>2, <1>3 DEF Next
-----------------------------------------------------------------------------
(* What follows for the runs and the tests.                                *)

\* No compat/run that is over has left a server or an attachment of its own behind.
THEOREM LeavesNothing == ASSUME Survived PROVE Spec => []CleanExit
<1>1. OwnerInv => CleanExit
  <2> SUFFICES ASSUME OwnerInv, NEW r \in Runs, At(r, "done"), NEW s \in Servers, home[s] = r
               PROVE  ~Alive(s)
    BY RunsAssumption DEF CleanExit, OwnerInv, AttachedAlive
  <2>1. lock # r
    BY DEF OwnerInv, LockHolds, At, Phases, CleanUp
  <2> QED
    BY <2>1 DEF OwnerInv, OneOwner
<1> QED
  BY <1>1, OwnerInit, OwnerStep, PTL DEF Spec

\* The clean-up and the helpers can trust the state file: it names the server of
\* the run that is alive.
THEOREM StateFileTrue == ASSUME Survived PROVE Spec => []FileNamesServer
<1>1. OwnerInv => FileNamesServer
  <2> SUFFICES ASSUME OwnerInv, NEW r \in Runs, NEW s \in Servers, home[s] = r, Alive(s)
               PROVE  s \in {file[r].pid, helper[r].server} \/ (At(r, "record") /\ s = server[r])
    BY DEF FileNamesServer
  <2>1. s = Current(r)
    BY DEF OwnerInv, OneOwner
  <2> QED
    BY <2>1 DEF Current, At
<1> QED
  BY <1>1, OwnerInit, OwnerStep, PTL DEF Spec

\* A test that talks to a device talks to the one its own run has started.
THEOREM TestsOwnDevice == ASSUME Survived PROVE Spec => []OwnDevice
<1>1. OwnerInv => OwnDevice
  <2> SUFFICES ASSUME OwnerInv, NEW r \in Runs, At(r, "test"), attachedTo # NoServer
               PROVE  home[attachedTo] = r
    BY DEF OwnDevice
  <2>1. attachedTo \in Servers /\ Alive(attachedTo)
    BY DEF OwnerInv, NamesInv, TypeOK, AttachedAlive
  <2>2. lock = r
    BY DEF OwnerInv, LockHolds, At, Phases
  <2> QED
    BY <2>1, <2>2 DEF OwnerInv, OneOwner
<1> QED
  BY <1>1, OwnerInit, OwnerStep, PTL DEF Spec
-----------------------------------------------------------------------------
(* Every step is one of ManagedDevice, or none.                            *)

Powered == {<<s, home[s]>> : s \in {q \in Servers : Alive(q)}}

LEMMA NonePowered == ASSUME \A s \in Servers : ~Alive(s) PROVE Powered = {}
BY DEF Powered

LEMMA OnePowered ==
  ASSUME OneOwner, NEW s \in Servers, Alive(s) PROVE Powered = {<<s, lock>>}
<1>1. \A q \in Servers : Alive(q) <=> q = s
  BY DEF OneOwner
<1>2. home[s] = lock
  BY DEF OneOwner
<1> QED
  BY <1>1, <1>2 DEF Powered

\* A step that starts nothing and attaches nothing leaves the device as it is,
\* detaches it or switches it off.
LEMMA SwitchedOff ==
  ASSUME OwnerInv, OwnerInv', lock' = lock, home' = home,
         \A s \in Servers : Alive(s)' => Alive(s), attachedTo' \in {attachedTo, NoServer}
  PROVE  [Device!Next]_(Device!vars)
<1>1. CASE \A s \in Servers : Alive(s) => Alive(s)'
  <2>1. \A s \in Servers : Alive(s) <=> Alive(s)'
    BY <1>1
  <2>2. Powered' = Powered
    BY <2>1 DEF Powered
  <2> QED
    BY <2>2 DEF Powered, Device!Next, Device!Detach, Device!vars
<1>2. ASSUME NEW s \in Servers, Alive(s), ~Alive(s)' PROVE [Device!Next]_(Device!vars)
  <2>1. Powered = {<<s, lock>>}
    BY <1>2, OnePowered DEF OwnerInv
  <2>2. \A q \in Servers : ~Alive(q)'
    BY <1>2 DEF OwnerInv, OneOwner
  <2>3. Powered' = {}
    BY <2>2 DEF Powered
  <2>4. attachedTo' = NoServer
    BY <2>2 DEF OwnerInv, NamesInv, TypeOK, AttachedAlive
  <2> QED
    BY <2>1, <2>3, <2>4 DEF Powered, Device!Next, Device!PowerOff
<1> QED
  BY <1>1, <1>2

LEMMA RefinesOfRun ==
  ASSUME Survived, OwnerInv, OwnerInv', NEW r \in Runs, Harness(r) \/ Helper(r) \/ Chance(r)
  PROVE  [Device!Next]_(Device!vars)
<1>0. TypeOK /\ Local(r)
  BY LocalAll DEF OwnerInv, NamesInv
<1>1. CASE AcquireLock(r)
  <2>1. lock = NoRun /\ lock' = r /\ UNCHANGED processes
    BY <1>1 DEF AcquireLock, LockFree
  <2>2. Powered' = Powered
    BY <2>1 DEF Powered, processes, Alive
  <2> QED
    BY <2>1, <2>2 DEF Powered, processes, Device!Next, Device!Acquire
<1>2. CASE StopServer(r)
  <2>1. home' = home /\ (\A s \in Servers : Alive(s)' => Alive(s)) /\ attachedTo' \in {attachedTo, NoServer}
    BY <1>2, StopKills, SurvivedSteps DEF Killed
  <2>2. CASE lock' = lock
    BY <2>1, <2>2, SwitchedOff
  <2>3. CASE lock' # lock
    <3>1. lock = r /\ lock' = NoRun /\ \A s \in Servers : ~Alive(s)'
      BY <1>2, <2>3, StopKills, SurvivedSteps
    <3>2. Powered' = {}
      BY <3>1 DEF Powered
    <3>3. attachedTo' = NoServer
      BY <3>1 DEF OwnerInv, NamesInv, TypeOK, AttachedAlive
    <3> QED
      BY <3>1, <3>2, <3>3, RunsAssumption DEF Powered, Device!Next, Device!GiveUp
  <2> QED
    BY <2>2, <2>3
<1>3. ASSUME StartServer(r) \/ HelperSpawn(r), NEW s \in Servers, Alive(s)' PROVE [Device!Next]_(Device!vars)
  <2>1. lock = r /\ lock' = r /\ \A t \in Servers : ~Alive(t)
    BY <1>3, SpawnAlone, SpawnNamed
  <2>2. attachedTo' = attachedTo
    BY <1>3, SpawnNamed DEF Spawned
  <2>3. Powered = {}
    BY <2>1, NonePowered
  <2>4. OneOwner'
    BY DEF OwnerInv
  <2>5. \A q \in Servers : Alive(q)' <=> q = s
    BY <1>3, <2>4 DEF OneOwner
  <2>6. home'[s] = r
    BY <1>3, SpawnNamed
  <2>7. Powered' = {<<s, r>>}
    BY <2>5, <2>6 DEF Powered
  <2> QED
    BY <2>1, <2>2, <2>3, <2>7, RunsAssumption DEF Powered, Device!Next, Device!PowerOn
<1>4. ASSUME StartServer(r) \/ HelperSpawn(r), \A s \in Servers : ~Alive(s)' PROVE [Device!Next]_(Device!vars)
  <2>1. lock' = lock /\ \A t \in Servers : ~Alive(t)
    BY <1>0, <1>4, SpawnAlone, LockMoves DEF StartServer, HelperSpawn, Fails, harness
  <2>2. Powered = {} /\ Powered' = {}
    BY <1>4, <2>1 DEF Powered
  <2>3. attachedTo = NoServer /\ attachedTo' = NoServer
    BY <1>4, <2>1 DEF OwnerInv, NamesInv, TypeOK, AttachedAlive
  <2> QED
    BY <2>1, <2>2, <2>3 DEF Powered, Device!vars
<1>5. ASSUME ~AcquireLock(r), ~StopServer(r), ~StartServer(r), ~HelperSpawn(r) PROVE [Device!Next]_(Device!vars)
  <2>1. home' = home /\ \A s \in Servers : Alive(s)' => Alive(s)
    BY <1>0, <1>5, NothingBorn, NamesShrink
  <2>2. lock' = lock
    BY <1>0, <1>5, LockKept, FreeTaken
  <2>3. CASE attachedTo' \in {attachedTo, NoServer}
    BY <2>1, <2>2, <2>3, SwitchedOff
  <2>4. CASE Attached
    <3>1. PICK s \in Answering : attachedTo' = s /\ proc' = proc
      BY <2>4 DEF Attached
    <3>2. s \in Servers /\ Alive(s) /\ s # attachedTo
      BY <3>1 DEF Answering, Bound, Alive
    <3>3. Powered = {<<s, lock>>}
      BY <3>2, OnePowered DEF OwnerInv
    <3>4. Powered' = Powered
      BY <2>1, <3>1 DEF Powered, Alive
    <3>5. attachedTo = NoServer
      BY <3>2 DEF OwnerInv, NamesInv, TypeOK, AttachedAlive, OneOwner
    <3> QED
      BY <2>2, <3>1, <3>2, <3>3, <3>4, <3>5 DEF Powered, Device!Next, Device!Attach
  <2> QED
    BY <2>3, <2>4, AttachMoves
<1> QED
  BY <1>1, <1>2, <1>3, <1>4, <1>5

LEMMA RefinesStep ==
  ASSUME Survived PROVE OwnerInv /\ OwnerInv' /\ [Next]_vars => [Device!Next]_(Device!vars)
<1> SUFFICES ASSUME OwnerInv, OwnerInv', [Next]_vars PROVE [Device!Next]_(Device!vars)
  OBVIOUS
<1>1. ASSUME NEW s \in Servers, Boot(s) \/ Dies(s) PROVE [Device!Next]_(Device!vars)
  BY <1>1, ServerStep, SwitchedOff DEF harness
<1>2. CASE UNCHANGED vars
  <2>1. Powered' = Powered
    BY <1>2 DEF vars, processes, Powered, Alive
  <2> QED
    BY <1>2, <2>1 DEF vars, processes, harness, Powered, Device!vars
<1> QED
  BY <1>1, <1>2, RefinesOfRun DEF Next

\* The harness, its helpers and the servers keep what ManagedDevice promises to
\* those who share the machine, for any number of runs and servers: one owner, one
\* server at most and it is the owner's, and nothing left when the lock is free.
THEOREM ImplementsManagedDevice == ASSUME Survived PROVE Spec => ManagedDeviceSpec
<1>1. Init => Device!Init
  <2> SUFFICES ASSUME Init PROVE Powered = {}
    BY DEF Init, Powered, Device!Init
  <2> QED
    BY NonePowered DEF Init, Alive
<1> QED
  BY <1>1, OwnerInit, OwnerStep, RefinesStep, PTL DEF Spec, ManagedDeviceSpec, Device!Spec
=============================================================================
