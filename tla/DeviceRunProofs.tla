--------------------------- MODULE DeviceRunProofs ---------------------------
(***************************************************************************)
(* Proofs about DeviceRun, for any runs, servers, helpers and faults.       *)
(*                                                                         *)
(* That types are kept, that a run stops its own servers only and that the  *)
(* exit code is the caller's holds whatever goes wrong.                     *)
(***************************************************************************)
EXTENDS DeviceRun, TLAPS

CodeTypes == {0, 1, 2, 124}

HelperType ==
  [op : Ops \cup {"none"}, pc : {"idle"} \cup HelperSteps,
   server : Servers \cup {NoServer}, owns : BOOLEAN]

FileType == [pid : Servers \cup {NoServer}, port : BOOLEAN]

ProcType == [Servers -> {"none", "booting", "listening", "dead"}]

\* What the actions of the server processes and the kernel leave typed.
ProcessesTyped ==
  /\ proc \in ProcType
  /\ home \in [Servers -> Runs \cup {NoRun}]
  /\ attachedTo \in Servers \cup {NoServer}

LEMMA SpawnedTyped ==
  ASSUME ProcessesTyped, NEW r \in Runs, NEW s \in Servers, Spawned(r, s)
  PROVE  ProcessesTyped'
BY DEF ProcessesTyped, ProcType, Spawned

LEMMA KilledTyped ==
  ASSUME ProcessesTyped, NEW s \in Servers \cup {NoServer}, Killed(s)
  PROVE  ProcessesTyped'
BY DEF ProcessesTyped, ProcType, Killed

LEMMA AttachedTyped ==
  ASSUME ProcessesTyped, Attached PROVE ProcessesTyped'
BY DEF ProcessesTyped, ProcType, Attached, Answering, Bound

LEMMA DetachedTyped ==
  ASSUME ProcessesTyped, NEW mine \in BOOLEAN, DetachedIf(mine) PROVE ProcessesTyped'
BY DEF ProcessesTyped, ProcType, DetachedIf

LEMMA UnchangedTyped ==
  ASSUME ProcessesTyped, UNCHANGED processes PROVE ProcessesTyped'
BY DEF ProcessesTyped, processes

\* What the harness and its helpers leave typed.
HarnessTyped ==
  /\ pc \in [Runs -> {"idle", "done"} \cup Phases \cup CleanUp]
  /\ lock \in Runs \cup {NoRun}
  /\ server \in [Runs -> Servers \cup {NoServer}]
  /\ owns \in [Runs -> BOOLEAN]
  /\ file \in [Runs -> FileType]
  /\ result \in [Runs -> CodeTypes]
  /\ raised \in [Runs -> {NoCode, 1, 130, 137}]
  /\ testCode \in [Runs -> {NoCode, 0, 2, 124}]
  /\ cleanupError \in [Runs -> BOOLEAN]
  /\ testing \in [Runs -> BOOLEAN]
  /\ helper \in [Runs -> HelperType]

LEMMA TypesSplit == TypeOK <=> ProcessesTyped /\ HarnessTyped
BY DEF TypeOK, ProcessesTyped, HarnessTyped, ProcType, HelperType, FileType, CodeTypes

LEMMA TypesJoin == ProcessesTyped' /\ HarnessTyped' => TypeOK'
BY DEF TypeOK, ProcessesTyped, HarnessTyped, ProcType, HelperType, FileType, CodeTypes

LEMMA HarnessUnchanged ==
  ASSUME HarnessTyped, UNCHANGED <<harness, file, helper>> PROVE HarnessTyped'
BY DEF HarnessTyped, harness

LEMMA Updated ==
  ASSUME NEW A, NEW B, NEW f \in [A -> B], NEW a \in A, NEW b \in B
  PROVE  [f EXCEPT ![a] = b] \in [A -> B]
OBVIOUS

\* What a failing command of the clean-up leaves typed.
LEMMA NotedTyped ==
  ASSUME HarnessTyped, NEW r \in Runs, UNCHANGED <<result, cleanupError>> \/ CleanUpFails(r)
  PROVE  result' \in [Runs -> CodeTypes] /\ cleanupError' \in [Runs -> BOOLEAN]
<1>1. result \in [Runs -> CodeTypes] /\ cleanupError \in [Runs -> BOOLEAN]
  BY DEF HarnessTyped
<1>2. CASE UNCHANGED <<result, cleanupError>>
  BY <1>1, <1>2
<1>3. CASE CleanUpFails(r)
  <2>1. result' = [result EXCEPT ![r] = AfterCleanupError(result[r])]
        /\ cleanupError' = [cleanupError EXCEPT ![r] = TRUE]
    BY <1>3 DEF CleanUpFails
  <2>2. AfterCleanupError(result[r]) \in CodeTypes
    BY <1>1 DEF AfterCleanupError, CodeTypes
  <2> QED
    BY <1>1, <2>1, <2>2, Updated
<1> QED
  BY <1>2, <1>3

LEMMA HarnessStepTyped ==
  ASSUME TypeOK, NEW r \in Runs, Harness(r) \/ Interrupt(r) \/ HarnessKilled(r) \/ WriteEscapes(r) PROVE HarnessTyped'
<1>t. HarnessTyped
  BY TypesSplit
<1>s. file \in [Runs -> FileType] /\ result \in [Runs -> CodeTypes] /\ server[r] \in Servers \cup {NoServer}
  BY <1>t DEF HarnessTyped
<1> USE <1>t DEF HarnessTyped, FileType
<1>l. \A label \in {"prepare", "spawn", "record", "list", "query", "attach", "note", "ready", "test",
                    "debug", "detach", "stop", "done"} :
        label \in {"idle", "done"} \cup Phases \cup CleanUp
  BY DEF Phases, CleanUp
<1>p. ASSUME NEW label \in {"idle", "done"} \cup Phases \cup CleanUp, Proceeds(r, label),
             UNCHANGED owns, file' \in [Runs -> FileType]
      PROVE  HarnessTyped'
  BY <1>p DEF Proceeds, Goto
<1>f. ASSUME Fails(r), owns' \in [Runs -> BOOLEAN], file' \in [Runs -> FileType] PROVE HarnessTyped'
  BY <1>f, <1>l DEF Fails, Goto, CodeTypes
<1>1. ASSUME AcquireLock(r) PROVE HarnessTyped'
  BY <1>1, <1>l DEF AcquireLock, Goto
<1>2. ASSUME LockHeld(r) PROVE HarnessTyped'
  BY <1>2, <1>f DEF LockHeld
<1>3. ASSUME Prepare(r) PROVE HarnessTyped'
  BY <1>3, <1>l, <1>f, <1>p DEF Prepare
<1>4. ASSUME StartServer(r) PROVE HarnessTyped'
  <2>1. CASE Fails(r)
    BY <1>4, <2>1, <1>f DEF StartServer
  <2>2. CASE ~Fails(r)
    BY SMTT(60), <1>4, <2>2, <1>l DEF StartServer, Goto
  <2> QED
    BY <2>1, <2>2
<1>5. ASSUME WriteState(r) PROVE HarnessTyped'
  <2> HIDE <1>t DEF HarnessTyped, FileType
  <2>s. \A port \in BOOLEAN : [pid |-> server[r], port |-> port] \in FileType
    BY <1>s DEF FileType
  <2>0. PICK port \in BOOLEAN : file' = [file EXCEPT ![r] = [pid |-> server[r], port |-> port]]
    BY <1>5 DEF WriteState
  <2>1. file' \in [Runs -> FileType]
    BY <2>0, <2>s, <1>s, Updated
  <2>2. Proceeds(r, "list") \/ Proceeds(r, "ready")
    BY <1>5 DEF WriteState
  <2>3. UNCHANGED owns
    BY <1>5 DEF WriteState
  <2> QED
    BY <2>1, <2>2, <2>3, <1>l, <1>p
<1>6. ASSUME WriteStateFails(r) PROVE HarnessTyped'
  BY <1>6, <1>f DEF WriteStateFails, NoFile
<1>7. ASSUME CheckServer(r) PROVE HarnessTyped'
  BY <1>7, <1>l, <1>p DEF CheckServer
<1>8. ASSUME StartFails(r) PROVE HarnessTyped'
  BY <1>8, <1>f DEF StartFails
<1>9. ASSUME ListServer(r) PROVE HarnessTyped'
  BY <1>9, <1>l, <1>p DEF ListServer
<1>10. ASSUME Attach(r) PROVE HarnessTyped'
  <2>1. CASE Fails(r)
    BY <1>10, <2>1, <1>f DEF Attach
  <2>2. CASE Proceeds(r, "note")
    <3>1. owns' \in [Runs -> BOOLEAN] /\ file' = file
      BY <1>10 DEF Attach
    <3> QED
      BY <2>2, <3>1, <1>l DEF Proceeds, Goto
  <2> QED
    BY <1>10, <2>1, <2>2 DEF Attach
<1>11. ASSUME AttachFails(r) PROVE HarnessTyped'
  BY <1>11, <1>f DEF AttachFails
<1>12. ASSUME WaitReady(r) PROVE HarnessTyped'
  <2>1. CASE Fails(r)
    BY <1>12, <2>1, <1>f DEF WaitReady
  <2>2. CASE ~Fails(r)
    <3>1. testing' \in [Runs -> BOOLEAN] /\ pc' = [pc EXCEPT ![r] = "test"]
      BY <1>12, <2>2 DEF WaitReady, Goto
    <3>2. UNCHANGED <<lock, server, owns, file, result, raised, testCode, cleanupError, helper>>
      BY <1>12, <2>2 DEF WaitReady
    <3> QED
      BY <3>1, <3>2, <1>l
  <2> QED
    BY <2>1, <2>2
<1>13. ASSUME NEW code \in {0, 2}, TestEnds(r, code) PROVE HarnessTyped'
  BY <1>13, <1>l DEF TestEnds, Goto, CodeTypes
<1>14. ASSUME TestTimesOut(r) PROVE HarnessTyped'
  BY <1>14, <1>l DEF TestTimesOut, Goto, CodeTypes, NoHelper, HelperType
<1>15. ASSUME CollectDebug(r) PROVE HarnessTyped'
  BY <1>15, <1>l, <1>p DEF CollectDebug
<1>g. ASSUME NEW label \in {"idle", "done"} \cup Phases \cup CleanUp, Goto(r, label)
      PROVE  pc' \in [Runs -> {"idle", "done"} \cup Phases \cup CleanUp]
  BY <1>g, Updated DEF Goto
<1>v. ASSUME Leaves(r)
      PROVE  /\ pc' \in [Runs -> {"idle", "done"} \cup Phases \cup CleanUp]
             /\ lock' \in Runs \cup {NoRun}
  BY <1>v, <1>g DEF Leaves
<1>x. ASSUME NEW code \in {NoCode, 1, 130, 137}, raised' = [raised EXCEPT ![r] = code]
      PROVE  raised' \in [Runs -> {NoCode, 1, 130, 137}]
  BY <1>x, Updated
<1>16. ASSUME Detach(r) PROVE HarnessTyped'
  <2>1. UNCHANGED <<result, cleanupError>> \/ CleanUpFails(r)
    BY <1>16 DEF Detach
  <2>2. owns' = [owns EXCEPT ![r] = FALSE] /\ Goto(r, "stop")
    BY <1>16 DEF Detach
  <2>3. UNCHANGED <<lock, server, raised, testCode, testing, file, helper>>
    BY <1>16 DEF Detach
  <2> QED
    BY <2>1, <2>2, <2>3, <1>g, <1>l, NotedTyped, Updated
<1>17. ASSUME StopServer(r) PROVE HarnessTyped'
  <2>1. UNCHANGED <<result, cleanupError>> \/ CleanUpFails(r)
    BY <1>17 DEF StopServer
  <2>2. Leaves(r) /\ UNCHANGED <<server, owns, raised, testCode, testing, file, helper>>
    BY <1>17 DEF StopServer
  <2> QED
    BY <2>1, <2>2, <1>v, NotedTyped
<1>18. ASSUME Interrupt(r) PROVE HarnessTyped'
  <2>1. raised' \in [Runs -> {NoCode, 1, 130, 137}]
    BY <1>18, <1>x DEF Interrupt
  <2>2. (Goto(r, "debug") /\ UNCHANGED lock) \/ Leaves(r)
    BY <1>18 DEF Interrupt
  <2>3. UNCHANGED <<server, owns, result, testCode, cleanupError, testing, file, helper>>
    BY <1>18 DEF Interrupt
  <2> QED
    BY <2>1, <2>2, <2>3, <1>g, <1>l, <1>v
<1>19. ASSUME HarnessKilled(r) \/ WriteEscapes(r) PROVE HarnessTyped'
  <2>1. raised' \in [Runs -> {NoCode, 1, 130, 137}]
    BY <1>19, <1>x DEF HarnessKilled, WriteEscapes
  <2>2. Leaves(r) /\ UNCHANGED <<server, owns, result, testCode, cleanupError, testing, file, helper>>
    BY <1>19 DEF HarnessKilled, WriteEscapes
  <2> QED
    BY <2>1, <2>2, <1>v
<1> QED
  BY <1>1, <1>2, <1>3, <1>4, <1>5, <1>6, <1>7, <1>8, <1>9, <1>10, <1>11, <1>12, <1>13, <1>14,
     <1>15, <1>16, <1>17, <1>18, <1>19 DEF Harness, Limited

LEMMA HelperStepTyped ==
  ASSUME TypeOK, NEW r \in Runs, Helper(r) \/ HelperTouch(r) \/ \E op \in Ops : CallHelper(r, op)
  PROVE  HarnessTyped'
<1>t. HarnessTyped
  BY TypesSplit
<1>s. file \in [Runs -> FileType]
  BY <1>t DEF HarnessTyped
<1> USE <1>t DEF HarnessTyped
<1>n. NoFile \in FileType /\ NoHelper \in HelperType /\ helper[r] \in HelperType /\ file[r] \in FileType
  BY DEF NoFile, NoHelper, FileType, HelperType
<1>h. ASSUME NEW h \in HelperType, helper' = [helper EXCEPT ![r] = h],
             file' \in [Runs -> FileType], UNCHANGED harness
      PROVE  HarnessTyped'
  BY <1>h DEF harness
<1>e. ASSUME HelperEnds(r), file' \in [Runs -> FileType], UNCHANGED harness PROVE HarnessTyped'
  BY <1>e, <1>n, <1>h DEF HelperEnds
<1>g. ASSUME NEW label \in HelperSteps, HelperGoto(r, label), file' \in [Runs -> FileType], UNCHANGED harness
      PROVE  HarnessTyped'
  <2>1. [helper[r] EXCEPT !.pc = label] \in HelperType
    BY <1>n DEF HelperType
  <2>2. helper' = [helper EXCEPT ![r] = [helper[r] EXCEPT !.pc = label]]
    BY <1>g DEF HelperGoto
  <2> QED
    BY <1>g, <1>h, <2>1, <2>2
<1>l. \A label \in {"detach", "stop", "spawn", "write", "list", "query", "attach", "ready", "fail"} :
        label \in HelperSteps
  BY DEF HelperSteps
<1>f. ASSUME NEW f \in FileType, file' = [file EXCEPT ![r] = f] PROVE file' \in [Runs -> FileType]
  BY <1>f
<1>1. ASSUME HelperGivesUp(r) PROVE HarnessTyped'
  BY <1>1, <1>e DEF HelperGivesUp
<1>2. ASSUME HelperDetach(r) PROVE HarnessTyped'
  <2>0. [file[r] EXCEPT !.port = FALSE] \in FileType
    BY <1>n DEF FileType
  <2>1. file' = file \/ file' = [file EXCEPT ![r] = [file[r] EXCEPT !.port = FALSE]]
    BY <1>2 DEF HelperDetach
  <2>3. file' \in [Runs -> FileType]
    BY <2>0, <2>1, <1>f
  <2> QED
    BY <1>2, <2>3, <1>e, <1>g, <1>l DEF HelperDetach
<1>3. ASSUME HelperStop(r) PROVE HarnessTyped'
  BY <1>3, <1>n, <1>f, <1>e, <1>g, <1>l DEF HelperStop
<1>4. ASSUME HelperSpawn(r) PROVE HarnessTyped'
  <2>1. PICK s \in Servers : helper' = [helper EXCEPT ![r].pc = "write", ![r].server = s, ![r].owns = FALSE]
    BY <1>4 DEF HelperSpawn
  <2>2. [helper[r] EXCEPT !.pc = "write", !.server = s, !.owns = FALSE] \in HelperType
    BY <1>n DEF HelperType, HelperSteps
  <2>3. helper' = [helper EXCEPT ![r] = [helper[r] EXCEPT !.pc = "write", !.server = s, !.owns = FALSE]]
    BY ZenonT(60), <2>1
  <2> QED
    BY <1>4, <2>2, <2>3, <1>h DEF HelperSpawn
<1>5. ASSUME HelperWrite(r) PROVE HarnessTyped'
  <2>1. [pid |-> helper[r].server, port |-> FALSE] \in FileType
    BY <1>n DEF FileType, HelperType
  <2> QED
    BY <1>5, <2>1, <1>f, <1>g, <1>l DEF HelperWrite
<1>6. ASSUME HelperWriteFails(r) PROVE HarnessTyped'
  BY <1>6, <1>n, <1>f, <1>e DEF HelperWriteFails
<1>7. ASSUME HelperCheck(r) PROVE HarnessTyped'
  BY <1>7, <1>g, <1>l DEF HelperCheck
<1>8. ASSUME HelperList(r) PROVE HarnessTyped'
  BY <1>8, <1>g, <1>l DEF HelperList
<1>9. ASSUME HelperAttach(r) PROVE HarnessTyped'
  <2>1. [helper[r] EXCEPT !.pc = "ready", !.owns = TRUE] \in HelperType
    BY <1>n DEF HelperType, HelperSteps
  <2>2. helper' = [helper EXCEPT ![r] = [helper[r] EXCEPT !.pc = "ready", !.owns = TRUE]]
    BY ZenonT(60), <1>9 DEF HelperAttach
  <2> QED
    BY <1>9, <2>1, <2>2, <1>h DEF HelperAttach
<1>10. ASSUME HelperAttachFails(r) PROVE HarnessTyped'
  BY <1>10, <1>e, <1>g, <1>l DEF HelperAttachFails
<1>11. ASSUME HelperReady(r) PROVE HarnessTyped'
  <2>1. file' \in [Runs -> FileType]
    <3> HIDE <1>t DEF HarnessTyped
    <3>1. \A port \in BOOLEAN : [file[r] EXCEPT !.port = port] \in FileType
      BY <1>n DEF FileType
    <3>2. CASE file' = file
      BY <3>2, <1>s
    <3>3. CASE file' # file
      <4>1. PICK port \in BOOLEAN : file' = [file EXCEPT ![r].port = port]
        BY <1>11, <3>3 DEF HelperReady
      <4>2. file' = [file EXCEPT ![r] = [file[r] EXCEPT !.port = port]]
        BY <4>1
      <4> QED
        BY <3>1, <4>2, <1>s, Updated
    <3> QED
      BY <3>2, <3>3
  <2> QED
    BY <1>11, <2>1, <1>e, <1>g, <1>l DEF HelperReady
<1>12. ASSUME HelperFails(r) PROVE HarnessTyped'
  BY <1>12, <1>n, <1>f, <1>e DEF HelperFails
<1>13. ASSUME HelperTouch(r) PROVE HarnessTyped'
  BY <1>13, HarnessUnchanged DEF HelperTouch
<1>14. ASSUME NEW op \in Ops, CallHelper(r, op) PROVE HarnessTyped'
  <2>1. PICK h : helper' = [helper EXCEPT ![r] = h] /\
          h = [op |-> op, server |-> NoServer, owns |-> file[r].port,
               pc |-> CASE op = "start" -> "spawn" [] op = "attach" -> "attach" [] OTHER -> "detach"]
    BY <1>14 DEF CallHelper
  <2>2. (CASE op = "start" -> "spawn" [] op = "attach" -> "attach" [] OTHER -> "detach") \in HelperSteps
    BY DEF HelperSteps
  <2>3. h \in HelperType
    BY <2>1, <2>2, <1>n DEF HelperType, FileType
  <2> QED
    BY <1>14, <2>1, <2>3, <1>h DEF CallHelper
<1> QED
  BY <1>1, <1>2, <1>3, <1>4, <1>5, <1>6, <1>7, <1>8, <1>9, <1>10, <1>11, <1>12, <1>13, <1>14 DEF Helper

LEMMA ProcessesStepTyped == TypeOK /\ [Next]_vars => ProcessesTyped'
<1> SUFFICES ASSUME TypeOK, Next PROVE ProcessesTyped'
  BY TypesSplit, UnchangedTyped DEF vars
<1> USE TypesSplit
<1>1. ASSUME NEW r \in Runs, Harness(r) \/ Interrupt(r) \/ HarnessKilled(r) \/ WriteEscapes(r) PROVE ProcessesTyped'
  <2>1. owns[r] \in BOOLEAN /\ PidToStop(r) \in Servers \cup {NoServer}
    BY DEF HarnessTyped, FileType, PidToStop
  <2>2. CASE StartServer(r)
    BY <2>2, SpawnedTyped, UnchangedTyped DEF StartServer
  <2>3. CASE Attach(r) \/ AttachFails(r)
    BY <2>3, AttachedTyped, UnchangedTyped DEF Attach, AttachFails
  <2>4. CASE Detach(r)
    BY <2>1, <2>4, DetachedTyped, UnchangedTyped DEF Detach
  <2>5. CASE StopServer(r)
    BY <2>1, <2>5, KilledTyped, UnchangedTyped DEF StopServer
  <2>6. CASE WriteEscapes(r)
    BY <2>1, <2>6, DetachedTyped, KilledTyped, UnchangedTyped DEF WriteEscapes
  <2> QED
    BY <1>1, <2>2, <2>3, <2>4, <2>5, <2>6, UnchangedTyped
    DEF Harness, Limited, AcquireLock, LockHeld, Prepare, WriteState, WriteStateFails, CheckServer, StartFails,
        ListServer, WaitReady, TestEnds, TestTimesOut, CollectDebug, Interrupt, HarnessKilled
<1>2. ASSUME NEW r \in Runs, Helper(r) \/ HelperTouch(r) \/ \E op \in Ops : CallHelper(r, op)
      PROVE  ProcessesTyped'
  <2>1. /\ file[r].pid \in Servers \cup {NoServer}
        /\ helper[r].server \in Servers \cup {NoServer}
        /\ helper[r].owns \in BOOLEAN
    BY DEF HarnessTyped, FileType, HelperType
  <2>2. CASE HelperDetach(r)
    BY <2>1, <2>2, DetachedTyped DEF HelperDetach
  <2>3. CASE HelperStop(r) \/ HelperTouch(r)
    BY <2>1, <2>3, KilledTyped, UnchangedTyped DEF HelperStop, HelperTouch
  <2>4. CASE HelperSpawn(r)
    BY <2>4, SpawnedTyped DEF HelperSpawn
  <2>5. CASE HelperAttach(r) \/ HelperAttachFails(r)
    BY <2>5, AttachedTyped, UnchangedTyped DEF HelperAttach, HelperAttachFails
  <2>6. CASE HelperFails(r)
    BY <2>1, <2>6 DEF HelperFails, ServerToFail, ProcessesTyped, ProcType
  <2> QED
    BY <1>2, <2>2, <2>3, <2>4, <2>5, <2>6, UnchangedTyped
    DEF Helper, HelperGivesUp, HelperWrite, HelperWriteFails, HelperCheck, HelperList, HelperReady,
        CallHelper
<1>3. ASSUME NEW s \in Servers, Boot(s) \/ Dies(s) PROVE ProcessesTyped'
  <2>1. CASE Dies(s)
    BY <2>1, KilledTyped DEF Dies
  <2>2. CASE Boot(s)
    BY <2>2 DEF Boot, ProcessesTyped, ProcType
  <2> QED
    BY <1>3, <2>1, <2>2
<1> QED
  BY <1>1, <1>2, <1>3 DEF Next, Chance

LEMMA TypeInit == Init => TypeOK
<1> SUFFICES ASSUME Init PROVE ProcessesTyped /\ HarnessTyped
  BY TypesSplit
<1>1. NoFile \in FileType /\ NoHelper \in HelperType
  BY DEF NoFile, NoHelper, FileType, HelperType
<1> QED
  BY <1>1 DEF Init, ProcessesTyped, ProcType, HarnessTyped, CodeTypes

LEMMA TypeStep == TypeOK /\ [Next]_vars => TypeOK'
<1> SUFFICES ASSUME TypeOK, [Next]_vars PROVE HarnessTyped'
  BY ProcessesStepTyped, TypesJoin
<1>1. ASSUME NEW s \in Servers, Boot(s) \/ Dies(s) PROVE HarnessTyped'
  BY <1>1, TypesSplit, HarnessUnchanged DEF Boot, Dies
<1>2. CASE UNCHANGED vars
  BY <1>2, TypesSplit, HarnessUnchanged DEF vars
<1> QED
  BY <1>1, <1>2, HarnessStepTyped, HelperStepTyped DEF Next, Chance

\* The state of runs, helpers and servers keeps its types under every fault.
THEOREM TypeCorrect == Spec => []TypeOK
BY TypeInit, TypeStep, PTL DEF Spec
-----------------------------------------------------------------------------
(* What a run knows of server processes are processes of its own.          *)

\* A step of run r, its harness or its helper, leaves the others as they are.
SameRun(q) ==
  /\ pc'[q] = pc[q] /\ server'[q] = server[q] /\ owns'[q] = owns[q]
  /\ result'[q] = result[q] /\ raised'[q] = raised[q]
  /\ testCode'[q] = testCode[q] /\ cleanupError'[q] = cleanupError[q]
  /\ testing'[q] = testing[q] /\ file'[q] = file[q] /\ helper'[q] = helper[q]

LEMMA OthersSame ==
  ASSUME TypeOK, NEW r \in Runs, Harness(r) \/ Helper(r) \/ Chance(r), NEW q \in Runs \ {r}
  PROVE  SameRun(q)
<1> USE DEF TypeOK, SameRun, harness
<1>1. ASSUME AcquireLock(r) PROVE SameRun(q)
  BY <1>1 DEF AcquireLock, Goto
<1>2. ASSUME LockHeld(r) PROVE SameRun(q)
  BY <1>2 DEF LockHeld, Fails, Goto
<1>3. ASSUME Prepare(r) PROVE SameRun(q)
  BY <1>3 DEF Prepare, Proceeds, Fails, Goto
<1>4. ASSUME StartServer(r) PROVE SameRun(q)
  BY <1>4 DEF StartServer, Fails, Goto
<1>5. ASSUME WriteState(r) PROVE SameRun(q)
  BY <1>5 DEF WriteState, Proceeds, Goto
<1>6. ASSUME WriteStateFails(r) PROVE SameRun(q)
  <2>1. Fails(r) /\ file' = [file EXCEPT ![r] = NoFile] /\ UNCHANGED owns
    BY <1>6 DEF WriteStateFails
  <2> QED
    BY <2>1 DEF Fails, Goto
<1>7. ASSUME CheckServer(r) PROVE SameRun(q)
  BY <1>7 DEF CheckServer, Proceeds, Goto
<1>8. ASSUME StartFails(r) PROVE SameRun(q)
  BY <1>8 DEF StartFails, Fails, Goto
<1>9. ASSUME ListServer(r) PROVE SameRun(q)
  BY <1>9 DEF ListServer, Proceeds, Goto
<1>10. ASSUME Attach(r) PROVE SameRun(q)
  BY <1>10 DEF Attach, Proceeds, Fails, Goto
<1>11. ASSUME AttachFails(r) PROVE SameRun(q)
  BY <1>11 DEF AttachFails, Fails, Goto
<1>12. ASSUME WaitReady(r) PROVE SameRun(q)
  BY <1>12 DEF WaitReady, Fails, Goto
<1>13. ASSUME NEW code \in {0, 2}, TestEnds(r, code) PROVE SameRun(q)
  <2>1. /\ result' = [result EXCEPT ![r] = code] /\ testCode' = [testCode EXCEPT ![r] = code]
        /\ testing' = [testing EXCEPT ![r] = FALSE] /\ Goto(r, "debug")
        /\ UNCHANGED <<lock, server, owns, raised, cleanupError, file, helper>>
    BY <1>13 DEF TestEnds
  <2> QED
    BY <2>1 DEF Goto
<1>14. ASSUME TestTimesOut(r) PROVE SameRun(q)
  BY <1>14 DEF TestTimesOut, Goto
<1>15. ASSUME CollectDebug(r) PROVE SameRun(q)
  BY <1>15 DEF CollectDebug, Proceeds, Goto
<1>c. UNCHANGED <<result, cleanupError>> \/ CleanUpFails(r) =>
        result'[q] = result[q] /\ cleanupError'[q] = cleanupError[q]
  BY DEF CleanUpFails
<1>16. ASSUME Detach(r) PROVE SameRun(q)
  <2>1. /\ owns' = [owns EXCEPT ![r] = FALSE] /\ Goto(r, "stop")
        /\ UNCHANGED <<lock, server, raised, testCode, testing, file, helper>>
    BY <1>16 DEF Detach
  <2>2. result'[q] = result[q] /\ cleanupError'[q] = cleanupError[q]
    BY <1>16, <1>c DEF Detach
  <2> QED
    BY <2>1, <2>2 DEF Goto
<1>17. ASSUME StopServer(r) PROVE SameRun(q)
  <2>1. Leaves(r) /\ UNCHANGED <<server, owns, raised, testCode, testing, file, helper>>
    BY <1>17 DEF StopServer
  <2>2. result'[q] = result[q] /\ cleanupError'[q] = cleanupError[q]
    BY <1>17, <1>c DEF StopServer
  <2> QED
    BY <2>1, <2>2 DEF Leaves, Goto
<1>18. ASSUME Interrupt(r) PROVE SameRun(q)
  BY <1>18 DEF Interrupt, Leaves, Goto
<1>19. ASSUME HarnessKilled(r) \/ WriteEscapes(r) PROVE SameRun(q)
  <2>1. /\ Leaves(r) /\ UNCHANGED <<server, owns, result, testCode, cleanupError, testing, file, helper>>
        /\ \E code \in {1, 137} : raised' = [raised EXCEPT ![r] = code]
    BY <1>19 DEF HarnessKilled, WriteEscapes
  <2> QED
    BY <2>1 DEF Leaves, Goto
<1>20. ASSUME HelperGivesUp(r) PROVE SameRun(q)
  BY <1>20 DEF HelperGivesUp, HelperEnds
<1>21. ASSUME HelperDetach(r) PROVE SameRun(q)
  BY <1>21 DEF HelperDetach, HelperEnds, HelperGoto
<1>22. ASSUME HelperStop(r) PROVE SameRun(q)
  BY <1>22 DEF HelperStop, HelperEnds, HelperGoto
<1>23. ASSUME HelperSpawn(r) PROVE SameRun(q)
  BY <1>23 DEF HelperSpawn
<1>24. ASSUME HelperWrite(r) PROVE SameRun(q)
  BY <1>24 DEF HelperWrite, HelperGoto
<1>25. ASSUME HelperWriteFails(r) PROVE SameRun(q)
  <2>1. HelperEnds(r) /\ file' = [file EXCEPT ![r] = NoFile] /\ UNCHANGED harness
    BY <1>25 DEF HelperWriteFails
  <2> QED
    BY <2>1 DEF HelperEnds
<1>26. ASSUME HelperCheck(r) PROVE SameRun(q)
  BY <1>26 DEF HelperCheck, HelperGoto
<1>27. ASSUME HelperList(r) PROVE SameRun(q)
  BY <1>27 DEF HelperList, HelperGoto
<1>28. ASSUME HelperAttach(r) PROVE SameRun(q)
  BY <1>28 DEF HelperAttach
<1>29. ASSUME HelperAttachFails(r) PROVE SameRun(q)
  BY <1>29 DEF HelperAttachFails, HelperEnds, HelperGoto
<1>30. ASSUME HelperReady(r) PROVE SameRun(q)
  BY <1>30 DEF HelperReady, HelperEnds, HelperGoto
<1>31. ASSUME HelperFails(r) PROVE SameRun(q)
  BY <1>31 DEF HelperFails, HelperEnds
<1>32. ASSUME HelperTouch(r) PROVE SameRun(q)
  BY <1>32 DEF HelperTouch
<1>33. ASSUME NEW op \in Ops, CallHelper(r, op) PROVE SameRun(q)
  BY SMTT(60), <1>33 DEF CallHelper
<1> QED
  BY <1>1, <1>2, <1>3, <1>4, <1>5, <1>6, <1>7, <1>8, <1>9, <1>10, <1>11, <1>12, <1>13, <1>14, <1>15,
     <1>16, <1>17, <1>18, <1>19, <1>20, <1>21, <1>22, <1>23, <1>24, <1>25, <1>26, <1>27, <1>28,
     <1>29, <1>30, <1>31, <1>32, <1>33
  DEF Harness, Limited, Helper, Chance

Names(r) == {server[r], file[r].pid, helper[r].server, NoServer}

LEMMA NamesShrink ==
  ASSUME TypeOK, NEW r \in Runs, Harness(r) \/ Helper(r) \/ Chance(r), ~StartServer(r), ~HelperSpawn(r)
  PROVE  Names(r)' \subseteq Names(r) /\ home' = home
<1>f. file[r] \in [pid : Servers \cup {NoServer}, port : BOOLEAN]
  BY DEF TypeOK
<1>h. helper[r] \in [op : Ops \cup {"none"}, pc : {"idle"} \cup HelperSteps,
                    server : Servers \cup {NoServer}, owns : BOOLEAN]
  BY DEF TypeOK
<1> DEFINE Shrunk == Names(r)' \subseteq Names(r) /\ home' = home
<1> USE DEF TypeOK, Names, harness, processes, NoFile, NoHelper, Killed, Attached, DetachedIf
<1>1. ASSUME AcquireLock(r) PROVE Shrunk
  BY <1>1, <1>f, <1>h DEF AcquireLock, Goto
<1>2. ASSUME LockHeld(r) PROVE Shrunk
  BY <1>2, <1>f, <1>h DEF LockHeld, Fails, Goto
<1>3. ASSUME Prepare(r) PROVE Shrunk
  BY <1>3, <1>f, <1>h DEF Prepare, Proceeds, Fails, Goto
<1>4. ASSUME WriteState(r) PROVE Shrunk
  BY <1>4, <1>f, <1>h DEF WriteState, Proceeds, Goto
<1>5. ASSUME WriteStateFails(r) PROVE Shrunk
  <2>1. Fails(r) /\ file' = [file EXCEPT ![r] = NoFile] /\ UNCHANGED <<owns, processes>>
    BY <1>5 DEF WriteStateFails
  <2> QED
    BY <2>1, <1>f, <1>h DEF Fails, Goto
<1>6. ASSUME CheckServer(r) PROVE Shrunk
  BY <1>6, <1>f, <1>h DEF CheckServer, Proceeds, Goto
<1>7. ASSUME StartFails(r) PROVE Shrunk
  BY <1>7, <1>f, <1>h DEF StartFails, Fails, Goto
<1>8. ASSUME ListServer(r) PROVE Shrunk
  BY <1>8, <1>f, <1>h DEF ListServer, Proceeds, Goto
<1>9. ASSUME Attach(r) PROVE Shrunk
  BY <1>9, <1>f, <1>h DEF Attach, Proceeds, Fails, Goto
<1>10. ASSUME AttachFails(r) PROVE Shrunk
  BY <1>10, <1>f, <1>h DEF AttachFails, Fails, Goto
<1>11. ASSUME WaitReady(r) PROVE Shrunk
  BY <1>11, <1>f, <1>h DEF WaitReady, Fails, Goto
<1>12. ASSUME NEW code \in {0, 2}, TestEnds(r, code) PROVE Shrunk
  BY <1>12, <1>f, <1>h DEF TestEnds, Goto
<1>13. ASSUME TestTimesOut(r) PROVE Shrunk
  BY <1>13, <1>f, <1>h DEF TestTimesOut, Goto
<1>14. ASSUME CollectDebug(r) PROVE Shrunk
  BY <1>14, <1>f, <1>h DEF CollectDebug, Proceeds, Goto
<1>15. ASSUME Detach(r) PROVE Shrunk
  BY <1>15 DEF Detach
<1>16. ASSUME StopServer(r) PROVE Shrunk
  BY <1>16 DEF StopServer
<1>17. ASSUME Interrupt(r) PROVE Shrunk
  BY <1>17 DEF Interrupt
<1>18. ASSUME HarnessKilled(r) \/ WriteEscapes(r) PROVE Shrunk
  BY <1>18 DEF HarnessKilled, WriteEscapes
<1>19. ASSUME HelperGivesUp(r) PROVE Shrunk
  BY <1>19, <1>f, <1>h DEF HelperGivesUp, HelperEnds
<1>20. ASSUME HelperDetach(r) PROVE Shrunk
  BY <1>20, <1>f, <1>h DEF HelperDetach, HelperEnds, HelperGoto
<1>21. ASSUME HelperStop(r) PROVE Shrunk
  BY <1>21, <1>f, <1>h DEF HelperStop, HelperEnds, HelperGoto
<1>22. ASSUME HelperWrite(r) PROVE Shrunk
  BY <1>22, <1>f, <1>h DEF HelperWrite, HelperGoto
<1>23. ASSUME HelperWriteFails(r) PROVE Shrunk
  <2>1. HelperEnds(r) /\ file' = [file EXCEPT ![r] = NoFile] /\ UNCHANGED <<harness, processes>>
    BY <1>23 DEF HelperWriteFails
  <2> QED
    BY <2>1, <1>f, <1>h DEF HelperEnds
<1>24. ASSUME HelperCheck(r) PROVE Shrunk
  BY <1>24, <1>f, <1>h DEF HelperCheck, HelperGoto
<1>25. ASSUME HelperList(r) PROVE Shrunk
  BY <1>25, <1>f, <1>h DEF HelperList, HelperGoto
<1>26. ASSUME HelperAttach(r) PROVE Shrunk
  BY <1>26, <1>f, <1>h DEF HelperAttach
<1>27. ASSUME HelperAttachFails(r) PROVE Shrunk
  BY <1>27, <1>f, <1>h DEF HelperAttachFails, HelperEnds, HelperGoto
<1>28. ASSUME HelperReady(r) PROVE Shrunk
  BY <1>28, <1>f, <1>h DEF HelperReady, HelperEnds, HelperGoto
<1>29. ASSUME HelperFails(r) PROVE Shrunk
  BY <1>29, <1>f, <1>h DEF HelperFails, HelperEnds
<1>30. ASSUME HelperTouch(r) PROVE Shrunk
  BY <1>30, <1>f, <1>h DEF HelperTouch
<1>31. ASSUME NEW op \in Ops, CallHelper(r, op) PROVE Shrunk
  BY <1>31, <1>f, <1>h DEF CallHelper
<1> QED
  BY <1>1, <1>2, <1>3, <1>4, <1>5, <1>6, <1>7, <1>8, <1>9, <1>10, <1>11, <1>12, <1>13, <1>14, <1>15,
     <1>16, <1>17, <1>18, <1>19, <1>20, <1>21, <1>22, <1>23, <1>24, <1>25, <1>26, <1>27, <1>28,
     <1>29, <1>30, <1>31
  DEF Harness, Limited, Helper, Chance

\* A process that was never started belongs to nobody.
Unborn == \A s \in Servers : proc[s] = "none" => home[s] = NoRun

PidsOwn == \A r \in Runs : \A s \in Names(r) \ {NoServer} : home[s] = r

NamesInv == TypeOK /\ Unborn /\ PidsOwn

LEMMA UnbornStep == TypeOK /\ Unborn /\ [Next]_vars => Unborn'
<1> SUFFICES ASSUME TypeOK, Unborn, Next, NEW s \in Servers, proc'[s] = "none" PROVE home'[s] = NoRun
  BY DEF Unborn, vars, processes
<1>1. ASSUME UNCHANGED processes PROVE home'[s] = NoRun
  BY <1>1 DEF Unborn, processes
<1>2. ASSUME NEW q \in Servers \cup {NoServer}, Killed(q) PROVE home'[s] = NoRun
  BY <1>2 DEF Killed, Unborn, TypeOK
<1>3. ASSUME NEW r \in Runs, NEW q \in Servers, Spawned(r, q) PROVE home'[s] = NoRun
  BY <1>3 DEF Spawned, Unborn, TypeOK
<1>4. ASSUME proc' = proc, home' = home PROVE home'[s] = NoRun
  BY <1>4 DEF Unborn
<1>5. ASSUME NEW r \in Runs, Harness(r) PROVE home'[s] = NoRun
  BY <1>5, <1>1, <1>2, <1>3, <1>4
  DEF Harness, Limited, AcquireLock, LockHeld, Prepare, StartServer, WriteState,
      WriteStateFails, CheckServer, StartFails, ListServer, Attach, AttachFails, WaitReady, TestEnds,
      TestTimesOut, CollectDebug, Detach, StopServer, Attached, DetachedIf, PidToStop, TypeOK
<1>6. ASSUME NEW r \in Runs, Helper(r) PROVE home'[s] = NoRun
  <2>1. CASE HelperFails(r)
    BY <2>1 DEF HelperFails, ServerToFail, Unborn, TypeOK
  <2> QED
    BY <1>6, <2>1, <1>1, <1>2, <1>3, <1>4
    DEF Helper, HelperGivesUp, HelperDetach, HelperStop, HelperSpawn, HelperWrite, HelperWriteFails,
        HelperCheck, HelperList, HelperAttach, HelperAttachFails, HelperReady, Attached,
        DetachedIf, TypeOK
<1>7. ASSUME NEW r \in Runs, Chance(r) PROVE home'[s] = NoRun
  BY <1>7, <1>1, <1>2, <1>4
  DEF Chance, Interrupt, HarnessKilled, WriteEscapes, DetachedIf, PidToStop, HelperTouch, CallHelper, TypeOK
<1>8. ASSUME NEW q \in Servers, Boot(q) \/ Dies(q) PROVE home'[s] = NoRun
  BY <1>8, <1>2 DEF Boot, Dies, Unborn, TypeOK
<1> QED
  BY <1>5, <1>6, <1>7, <1>8 DEF Next

LEMMA ServersSpawn ==
  ASSUME TypeOK, NEW r \in Runs, StartServer(r) \/ HelperSpawn(r)
  PROVE  \/ Names(r)' = Names(r) /\ home' = home
         \/ \E s \in Servers :
              /\ proc[s] = "none"
              /\ Names(r)' \subseteq Names(r) \cup {s}
              /\ home' = [home EXCEPT ![s] = r]
<1>h. helper[r] \in [op : Ops \cup {"none"}, pc : {"idle"} \cup HelperSteps,
                    server : Servers \cup {NoServer}, owns : BOOLEAN]
  BY DEF TypeOK
<1> USE DEF TypeOK, Names, Spawned, harness, processes
<1>1. CASE Fails(r) /\ UNCHANGED processes /\ UNCHANGED file
  BY <1>1 DEF Fails
<1>2. ASSUME NEW s \in Servers, Spawned(r, s), server' = [server EXCEPT ![r] = s], UNCHANGED <<file, helper>>
      PROVE  proc[s] = "none" /\ Names(r)' \subseteq Names(r) \cup {s} /\ home' = [home EXCEPT ![s] = r]
  BY <1>2
<1>3. ASSUME NEW s \in Servers, Spawned(r, s), UNCHANGED <<server, file>>,
             helper' = [helper EXCEPT ![r].pc = "write", ![r].server = s, ![r].owns = FALSE]
      PROVE  proc[s] = "none" /\ Names(r)' \subseteq Names(r) \cup {s} /\ home' = [home EXCEPT ![s] = r]
  <2>1. helper'[r].server = s
    BY <1>3, <1>h
  <2> QED
    BY <1>3, <2>1
<1>4. CASE StartServer(r)
  BY <1>4, <1>1, <1>2 DEF StartServer
<1>5. CASE HelperSpawn(r)
  BY <1>5, <1>3 DEF HelperSpawn
<1> QED
  BY <1>4, <1>5

LEMMA PidsStep == NamesInv /\ [Next]_vars => PidsOwn'
<1> SUFFICES ASSUME NamesInv, [Next]_vars PROVE PidsOwn'
  OBVIOUS
<1> USE DEF NamesInv
<1>1. ASSUME home' = home, \A q \in Runs : Names(q)' \subseteq Names(q) PROVE PidsOwn'
  BY <1>1 DEF PidsOwn
<1>2. ASSUME NEW r \in Runs, Harness(r) \/ Helper(r) \/ Chance(r) PROVE PidsOwn'
  <2>1. \A q \in Runs \ {r} : Names(q)' = Names(q)
    BY <1>2, OthersSame DEF SameRun, Names
  <2>2. CASE Names(r)' \subseteq Names(r) /\ home' = home
    BY <2>1, <2>2, <1>1
  <2>3. CASE \E s \in Servers : /\ proc[s] = "none"
                                /\ Names(r)' \subseteq Names(r) \cup {s}
                                /\ home' = [home EXCEPT ![s] = r]
    <3>1. PICK s \in Servers : /\ proc[s] = "none"
                               /\ Names(r)' \subseteq Names(r) \cup {s}
                               /\ home' = [home EXCEPT ![s] = r]
      BY <2>3
    <3>2. home[s] = NoRun
      BY <3>1 DEF Unborn
    <3>3. \A q \in Runs : s # NoServer /\ (q # r => s \notin Names(q))
      BY <3>2, RunsAssumption DEF PidsOwn
    <3>4. \A q \in Runs : \A t \in Names(q)' \ {NoServer} : t \in Servers
      BY <1>2, TypeStep DEF Names, TypeOK, Next
    <3>5. ASSUME NEW q \in Runs, NEW t \in Names(q)' \ {NoServer} PROVE home'[t] = q
      <4>1. t = s => q = r
        BY <3>3, <2>1
      <4>2. t # s => home[t] = q
        BY <2>1, <3>1 DEF PidsOwn
      <4>3. home \in [Servers -> Runs \cup {NoRun}] /\ t \in Servers
        BY <3>4 DEF TypeOK
      <4> QED
        BY <3>1, <4>1, <4>2, <4>3
    <3> QED
      BY <3>5 DEF PidsOwn, Names
  <2> QED
    BY <1>2, <2>2, <2>3, NamesShrink, ServersSpawn
<1>3. ASSUME NEW s \in Servers, Boot(s) \/ Dies(s) PROVE PidsOwn'
  BY <1>3, <1>1 DEF Boot, Dies, Killed, Names, harness
<1>4. CASE UNCHANGED vars
  BY <1>4, <1>1 DEF vars, Names, harness, processes
<1> QED
  BY <1>2, <1>3, <1>4 DEF Next

LEMMA NamesInit == Init => NamesInv
BY TypeInit DEF Init, NamesInv, Unborn, PidsOwn, Names, NoFile, NoHelper

LEMMA NamesStep == NamesInv /\ [Next]_vars => NamesInv'
BY TypeStep, UnbornStep, PidsStep DEF NamesInv

\* A step of a run kills what the run knows as its own server, if anything.
LEMMA KillsKnown ==
  ASSUME TypeOK, NEW r \in Runs, Harness(r) \/ Helper(r) \/ Chance(r),
         NEW s \in Servers, Alive(s), ~Alive(s)'
  PROVE  s \in Names(r)
<1> USE DEF TypeOK, Names, Alive
<1>1. ASSUME NEW t \in Servers \cup {NoServer}, Killed(t) PROVE s = t
  BY <1>1 DEF Killed
<1>2. proc' # proc
  OBVIOUS
<1>3. ASSUME NEW t \in Servers, Spawned(r, t) PROVE FALSE
  BY <1>3 DEF Spawned
<1>4. CASE Harness(r)
  BY <1>4, <1>1, <1>2, <1>3
  DEF Harness, Limited, AcquireLock, LockHeld, Prepare, StartServer, WriteState, WriteStateFails, CheckServer,
      StartFails, ListServer, Attach, AttachFails, WaitReady, TestEnds, TestTimesOut, CollectDebug,
      Detach, StopServer, PidToStop, Attached, DetachedIf, processes
<1>5. CASE Helper(r)
  <2>1. CASE HelperFails(r)
    BY <2>1 DEF HelperFails, ServerToFail
  <2> QED
    BY <1>5, <2>1, <1>1, <1>2, <1>3
    DEF Helper, HelperGivesUp, HelperDetach, HelperStop, HelperSpawn, HelperWrite, HelperWriteFails,
        HelperCheck, HelperList, HelperAttach, HelperAttachFails, HelperReady, Attached, DetachedIf,
        processes
<1>6. CASE Chance(r)
  BY ZenonT(60), <1>6, <1>1, <1>2
  DEF Chance, Interrupt, HarnessKilled, WriteEscapes, DetachedIf, PidToStop, HelperTouch, CallHelper, processes
<1> QED
  BY <1>4, <1>5, <1>6

\* A run and its helpers never stop a server of another run, for any number of
\* runs and servers and under every fault.
THEOREM StopsItsOwn == Spec => StopsOwn
<1>1. NamesInv /\ [Next]_vars =>
        [\A r \in Runs : Harness(r) \/ Helper(r) \/ Chance(r) =>
           \A s \in Servers : Alive(s) /\ ~Alive(s)' => home[s] = r]_vars
  <2> SUFFICES ASSUME NamesInv, NEW r \in Runs, Harness(r) \/ Helper(r) \/ Chance(r),
                      NEW s \in Servers, Alive(s), ~Alive(s)'
               PROVE  home[s] = r
    OBVIOUS
  <2>1. s \in Names(r) /\ s # NoServer
    BY KillsKnown, RunsAssumption DEF NamesInv
  <2> QED
    BY <2>1 DEF NamesInv, PidsOwn
<1> QED
  BY <1>1, NamesInit, NamesStep, PTL DEF Spec, StopsOwn
-----------------------------------------------------------------------------
(* The exit code.                                                          *)

\* What result is, given how the test and the clean-up went.
Expected(r) ==
  IF testCode[r] = NoCode THEN 1
  ELSE IF cleanupError[r] THEN AfterCleanupError(testCode[r]) ELSE testCode[r]

ResultRight ==
  \A r \in Runs :
    /\ result[r] = Expected(r)
    /\ pc[r] \in {"idle"} \cup Phases => testCode[r] = NoCode
    /\ pc[r] \notin {"stop", "done"} => ~cleanupError[r]

LEMMA ResultOfRun ==
  ASSUME TypeOK, ResultRight, NEW r \in Runs, Harness(r) \/ Helper(r) \/ Chance(r)
  PROVE  /\ result'[r] = Expected(r)'
         /\ pc'[r] \in {"idle"} \cup Phases => testCode'[r] = NoCode
         /\ pc'[r] \notin {"stop", "done"} => ~cleanupError'[r]
<1> DEFINE Right == /\ result'[r] = Expected(r)'
                    /\ pc'[r] \in {"idle"} \cup Phases => testCode'[r] = NoCode
                    /\ pc'[r] \notin {"stop", "done"} => ~cleanupError'[r]
<1>p. /\ pc \in [Runs -> {"idle", "done"} \cup Phases \cup CleanUp]
      /\ result \in [Runs -> {0, 1, 2, 124}]
      /\ testCode \in [Runs -> {NoCode, 0, 2, 124}]
      /\ cleanupError \in [Runs -> BOOLEAN]
  BY DEF TypeOK
<1>r. /\ result[r] = Expected(r)
      /\ pc[r] \in {"idle"} \cup Phases => testCode[r] = NoCode
      /\ pc[r] \notin {"stop", "done"} => ~cleanupError[r]
  BY DEF ResultRight
<1> USE DEF Expected, AfterCleanupError, NoCode, Phases, CleanUp, At, harness
<1>1. ASSUME AcquireLock(r) PROVE Right
  BY <1>1, <1>p, <1>r DEF AcquireLock, Goto
<1>2. ASSUME LockHeld(r) PROVE Right
  BY <1>2, <1>p, <1>r DEF LockHeld, Fails, Goto
<1>3. ASSUME Prepare(r) PROVE Right
  BY <1>3, <1>p, <1>r DEF Prepare, Proceeds, Fails, Goto
<1>4. ASSUME StartServer(r) PROVE Right
  BY <1>4, <1>p, <1>r DEF StartServer, Fails, Goto
<1>5. ASSUME WriteState(r) PROVE Right
  BY <1>5, <1>p, <1>r DEF WriteState, Proceeds, Goto
<1>6. ASSUME WriteStateFails(r) PROVE Right
  BY <1>6, <1>p, <1>r DEF WriteStateFails, Fails, Goto
<1>7. ASSUME CheckServer(r) PROVE Right
  BY <1>7, <1>p, <1>r DEF CheckServer, Proceeds, Goto
<1>8. ASSUME StartFails(r) PROVE Right
  BY <1>8, <1>p, <1>r DEF StartFails, Fails, Goto
<1>9. ASSUME ListServer(r) PROVE Right
  BY <1>9, <1>p, <1>r DEF ListServer, Proceeds, Goto
<1>10. ASSUME Attach(r) PROVE Right
  BY <1>10, <1>p, <1>r DEF Attach, Proceeds, Fails, Goto
<1>11. ASSUME AttachFails(r) PROVE Right
  BY <1>11, <1>p, <1>r DEF AttachFails, Fails, Goto
<1>12. ASSUME WaitReady(r) PROVE Right
  BY <1>12, <1>p, <1>r DEF WaitReady, Fails, Goto
<1>13. ASSUME NEW code \in {0, 2}, TestEnds(r, code) PROVE Right
  <2>1. /\ result'[r] = code /\ testCode'[r] = code
        /\ cleanupError'[r] = cleanupError[r] /\ pc'[r] = "debug" /\ pc[r] = "test"
    <3>1. /\ result' = [result EXCEPT ![r] = code] /\ testCode' = [testCode EXCEPT ![r] = code]
          /\ At(r, "test") /\ Goto(r, "debug") /\ UNCHANGED cleanupError
      BY <1>13 DEF TestEnds
    <3> QED
      BY <3>1, <1>p DEF Goto
  <2>2. ~cleanupError[r] /\ code # NoCode
    BY <2>1, <1>r
  <2> QED
    BY <2>1, <2>2
<1>14. ASSUME TestTimesOut(r) PROVE Right
  BY <1>14, <1>p, <1>r DEF TestTimesOut, Goto
<1>15. ASSUME CollectDebug(r) PROVE Right
  BY <1>15, <1>p, <1>r DEF CollectDebug, Proceeds, Goto
<1>c. ASSUME UNCHANGED <<result, cleanupError>> \/ CleanUpFails(r), testCode' = testCode
      PROVE  result'[r] = Expected(r)'
  <2>1. CASE UNCHANGED <<result, cleanupError>>
    BY <1>c, <1>r, <2>1
  <2>2. CASE CleanUpFails(r)
    <3>1. result'[r] = AfterCleanupError(result[r]) /\ cleanupError'[r] = TRUE
      BY <2>2, <1>p DEF CleanUpFails
    <3> QED
      BY <3>1, <1>c, <1>p, <1>r
  <2> QED
    BY <1>c, <2>1, <2>2
<1>16. ASSUME Detach(r) PROVE Right
  <2>1. (UNCHANGED <<result, cleanupError>> \/ CleanUpFails(r)) /\ UNCHANGED testCode /\ Goto(r, "stop")
    BY <1>16 DEF Detach
  <2>2. pc'[r] = "stop"
    BY <2>1, <1>p DEF Goto
  <2> QED
    BY <2>1, <2>2, <1>c
<1>17. ASSUME StopServer(r) PROVE Right
  <2>1. (UNCHANGED <<result, cleanupError>> \/ CleanUpFails(r)) /\ UNCHANGED testCode /\ Goto(r, "done")
    BY <1>17 DEF StopServer, Leaves
  <2>2. pc'[r] = "done"
    BY <2>1, <1>p DEF Goto
  <2> QED
    BY <2>1, <2>2, <1>c
<1>18. ASSUME Interrupt(r) PROVE Right
  <2>1. UNCHANGED <<result, testCode, cleanupError>>
    BY <1>18 DEF Interrupt
  <2>2. (pc[r] \in Phases /\ Goto(r, "debug")) \/ Goto(r, "done")
    BY <1>18 DEF Interrupt, Leaves
  <2> QED
    BY <2>1, <2>2, <1>p, <1>r DEF Goto
<1>19. ASSUME HarnessKilled(r) \/ WriteEscapes(r) PROVE Right
  <2>1. Goto(r, "done") /\ UNCHANGED <<result, testCode, cleanupError>>
    BY <1>19 DEF HarnessKilled, WriteEscapes, Leaves
  <2> QED
    BY <2>1, <1>p, <1>r DEF Goto
<1>20. ASSUME HelperGivesUp(r) PROVE Right
  BY <1>20, <1>p, <1>r DEF HelperGivesUp, HelperEnds
<1>21. ASSUME HelperDetach(r) PROVE Right
  BY <1>21, <1>p, <1>r DEF HelperDetach, HelperEnds, HelperGoto
<1>22. ASSUME HelperStop(r) PROVE Right
  BY <1>22, <1>p, <1>r DEF HelperStop, HelperEnds, HelperGoto
<1>23. ASSUME HelperSpawn(r) PROVE Right
  BY <1>23, <1>p, <1>r DEF HelperSpawn
<1>24. ASSUME HelperWrite(r) PROVE Right
  BY <1>24, <1>p, <1>r DEF HelperWrite, HelperGoto
<1>25. ASSUME HelperWriteFails(r) PROVE Right
  BY <1>25, <1>p, <1>r DEF HelperWriteFails, HelperEnds
<1>26. ASSUME HelperCheck(r) PROVE Right
  BY <1>26, <1>p, <1>r DEF HelperCheck, HelperGoto
<1>27. ASSUME HelperList(r) PROVE Right
  BY <1>27, <1>p, <1>r DEF HelperList, HelperGoto
<1>28. ASSUME HelperAttach(r) PROVE Right
  BY <1>28, <1>p, <1>r DEF HelperAttach
<1>29. ASSUME HelperAttachFails(r) PROVE Right
  BY <1>29, <1>p, <1>r DEF HelperAttachFails, HelperEnds, HelperGoto
<1>30. ASSUME HelperReady(r) PROVE Right
  BY <1>30, <1>p, <1>r DEF HelperReady, HelperEnds, HelperGoto
<1>31. ASSUME HelperFails(r) PROVE Right
  BY <1>31, <1>p, <1>r DEF HelperFails, HelperEnds
<1>32. ASSUME HelperTouch(r) PROVE Right
  BY <1>32, <1>p, <1>r DEF HelperTouch
<1>33. ASSUME NEW op \in Ops, CallHelper(r, op) PROVE Right
  BY <1>33, <1>p, <1>r DEF CallHelper
<1> QED
  BY <1>1, <1>2, <1>3, <1>4, <1>5, <1>6, <1>7, <1>8, <1>9, <1>10, <1>11, <1>12, <1>13, <1>14, <1>15,
     <1>16, <1>17, <1>18, <1>19, <1>20, <1>21, <1>22, <1>23, <1>24, <1>25, <1>26, <1>27, <1>28,
     <1>29, <1>30, <1>31, <1>32, <1>33
  DEF Harness, Limited, Helper, Chance

LEMMA ResultStep == TypeOK /\ ResultRight /\ [Next]_vars => ResultRight'
<1> SUFFICES ASSUME TypeOK, ResultRight, [Next]_vars PROVE ResultRight'
  OBVIOUS
<1>1. ASSUME NEW r \in Runs, Harness(r) \/ Helper(r) \/ Chance(r) PROVE ResultRight'
  BY <1>1, ResultOfRun, OthersSame DEF ResultRight, SameRun, Expected
<1>2. ASSUME UNCHANGED harness PROVE ResultRight'
  BY <1>2 DEF ResultRight, Expected, harness
<1> QED
  BY <1>1, <1>2 DEF Next, Boot, Dies, vars

\* Under every fault, zero is a success of test and clean-up, and only what ends
\* the harness before it returns takes the place of the test's exit code.
THEOREM ExitCodeNeverLies == Spec => []ExitCodeTrue
<1>1. Init => ResultRight
  BY DEF Init, ResultRight, Expected
<1>2. TypeOK /\ ResultRight => ExitCodeTrue
  BY SMTT(60)
  DEF TypeOK, ResultRight, ExitCodeTrue, ExitCode, Expected, AfterCleanupError, NoCode
<1> QED
  BY <1>1, <1>2, TypeInit, TypeStep, ResultStep, PTL DEF Spec

\* Nothing ends the clean-up before its return: neither Ctrl-C, a signal nor an
\* artifact that cannot be written.
CleanUpReturns ==
  /\ InterruptAt \cap CleanUp = {}
  /\ Faults \cap {"artifact write", "harness killed"} = {}

\* Then only Ctrl-C ends execute early, and it does before the test has its code.
RaisedEarly ==
  \A r \in Runs : raised[r] # NoCode => testCode[r] = NoCode /\ pc[r] \in CleanUp \cup {"done"}

LEMMA RaisedOfRun ==
  ASSUME CleanUpReturns, TypeOK, ResultRight, RaisedEarly,
         NEW r \in Runs, Harness(r) \/ Helper(r) \/ Chance(r), raised'[r] # NoCode
  PROVE  testCode'[r] = NoCode /\ pc'[r] \in CleanUp \cup {"done"}
<1>p. pc \in [Runs -> {"idle", "done"} \cup Phases \cup CleanUp]
  BY DEF TypeOK
<1>r. pc[r] \in {"idle"} \cup Phases => raised[r] = NoCode /\ testCode[r] = NoCode
  BY DEF RaisedEarly, ResultRight, Phases, CleanUp
<1>1. CASE Interrupt(r)
  <2>1. pc[r] \in Phases /\ Goto(r, "debug") /\ UNCHANGED testCode
    BY <1>1 DEF Interrupt, CleanUpReturns
  <2> QED
    BY <2>1, <1>p, <1>r DEF Goto, CleanUp
<1>2. CASE HarnessKilled(r) \/ WriteEscapes(r)
  BY <1>2 DEF HarnessKilled, WriteEscapes, CleanUpReturns
<1>3. CASE Helper(r) \/ HelperTouch(r) \/ \E op \in Ops : CallHelper(r, op)
  <2>1. UNCHANGED harness
    BY <1>3 DEF Helper, HelperGivesUp, HelperDetach, HelperStop, HelperSpawn, HelperWrite,
       HelperWriteFails, HelperCheck, HelperList, HelperAttach, HelperAttachFails, HelperReady,
       HelperFails, HelperTouch, CallHelper
  <2> QED
    BY <2>1 DEF harness, RaisedEarly
<1>4. CASE CollectDebug(r) \/ Detach(r) \/ StopServer(r)
  <2>1. UNCHANGED <<raised, testCode>> /\ (Goto(r, "detach") \/ Goto(r, "stop") \/ Goto(r, "done"))
    BY <1>4 DEF CollectDebug, Proceeds, Detach, StopServer, Leaves
  <2> QED
    BY <2>1, <1>p DEF Goto, CleanUp, RaisedEarly
<1>5. CASE Harness(r) /\ ~CollectDebug(r) /\ ~Detach(r) /\ ~StopServer(r)
  <2>1. UNCHANGED raised
    BY <1>5 DEF Harness, Limited, AcquireLock, LockHeld, Prepare, StartServer, WriteState,
       WriteStateFails, CheckServer, StartFails, ListServer, Attach, AttachFails, WaitReady,
       TestEnds, TestTimesOut, Proceeds, Fails
  <2>2. pc[r] \in {"idle"} \cup Phases
    BY <1>5 DEF Harness, Limited, AcquireLock, LockHeld, Prepare, StartServer, WriteState,
       WriteStateFails, CheckServer, StartFails, ListServer, Attach, AttachFails, WaitReady,
       TestEnds, TestTimesOut, At, Phases
  <2> QED
    BY <2>1, <2>2, <1>r
<1> QED
  BY <1>1, <1>2, <1>3, <1>4, <1>5 DEF Chance

LEMMA RaisedStep ==
  CleanUpReturns => (TypeOK /\ ResultRight /\ RaisedEarly /\ [Next]_vars => RaisedEarly')
<1> SUFFICES ASSUME CleanUpReturns, TypeOK, ResultRight, RaisedEarly, [Next]_vars PROVE RaisedEarly'
  OBVIOUS
<1>1. ASSUME NEW r \in Runs, Harness(r) \/ Helper(r) \/ Chance(r) PROVE RaisedEarly'
  BY <1>1, RaisedOfRun, OthersSame DEF RaisedEarly, SameRun
<1>2. ASSUME UNCHANGED harness PROVE RaisedEarly'
  BY <1>2 DEF RaisedEarly, harness
<1> QED
  BY <1>1, <1>2 DEF Next, Boot, Dies, vars

\* As long as the clean-up gets to its return, compat/run returns the code of the
\* test unchanged, whichever commands fail, the stopping of the server included,
\* and zero exactly if nothing did.
THEOREM ExitCodeFaithful == CleanUpReturns => (Spec => []ResultFaithful)
<1> SUFFICES ASSUME CleanUpReturns PROVE Spec => []ResultFaithful
  OBVIOUS
<1>1. Init => ResultRight /\ RaisedEarly
  BY DEF Init, ResultRight, Expected, RaisedEarly
<1>2. TypeOK /\ ResultRight /\ RaisedEarly => ResultFaithful
  BY DEF TypeOK, ResultRight, RaisedEarly, ResultFaithful, CallerCodeKept, ExitCode, Expected,
         AfterCleanupError, NoCode
<1>3. TypeOK /\ ResultRight /\ RaisedEarly /\ [Next]_vars => RaisedEarly'
  BY RaisedStep
<1> QED
  BY <1>1, <1>2, <1>3, TypeInit, TypeStep, ResultStep, PTL DEF Spec
=============================================================================
