------------------------------ MODULE DeviceRun ------------------------------
(***************************************************************************)
(* The life cycle of the virtual device of a test run: Harness.execute of  *)
(* compat/runner/harness.py, the helper commands of                        *)
(* compat/runner/control.py that the test command may call meanwhile, and  *)
(* the server processes both of them start.                                *)
(*                                                                         *)
(* All servers listen on the same port, and usbip asks whichever answers   *)
(* there.  A server serves one client at a time, so the one attached does  *)
(* not answer.  The state file is all that the harness and the helpers     *)
(* share.  A command may fail at any step; all but git and CMake have a    *)
(* time limit.  A server may die at any time.                              *)
(*                                                                         *)
(* Processes are external; a process killed here is gone in the same step. *)
(* KillAt, InterruptAt and Faults say which faults may happen; Survived are *)
(* those after which the promises below are kept.                          *)
(***************************************************************************)
EXTENDS Integers, FiniteSets

CONSTANTS
  Runs,             \* executions of compat/run on one machine
  Servers,          \* bound: server processes that can be started
  Ops,              \* helper commands the tests use
  KillAt,           \* where a helper stands when the time limit may cut it off
  InterruptAt,      \* where the harness stands when Ctrl-C may reach it
  Faults            \* what else may go wrong

NoRun == "no run"
NoServer == "no server"
NoCode == -1

ASSUME RunsAssumption == NoRun \notin Runs /\ NoServer \notin Servers

HelperSteps == {"detach", "stop", "spawn", "write", "list", "query", "attach", "ready", "fail"}
Phases == {"prepare", "spawn", "record", "list", "query", "attach", "note", "ready", "test"}
CleanUp == {"debug", "detach", "stop"}

AllFaults ==
  {"start twice",        \* a test calls start while its device runs
   "state write",        \* the state file cannot be written: it is left empty
   "background helper",  \* a test ends before a helper it started
   "stop fails",         \* stop_server cannot read the state file or signal the server
   "artifact write",     \* the clean-up cannot write an error file or the metadata
   "harness killed"}     \* SIGTERM or SIGKILL

ASSUME OpsAssumption ==
  /\ Ops \subseteq {"start", "stop", "restart", "attach", "detach", "touch"}
  /\ KillAt \subseteq HelperSteps
  /\ InterruptAt \subseteq Phases \cup CleanUp
  /\ Faults \subseteq AllFaults

\* What the clean-up copes with.
Survived ==
  /\ KillAt \subseteq HelperSteps \ {"write"}
  /\ InterruptAt \subseteq Phases \ {"record", "test"}
  /\ Faults = {}

VARIABLES
  pc,           \* where the harness of each run stands
  lock,         \* the run that holds the lock file
  server,       \* Harness.server
  owns,         \* LinuxPlatform.owns_attachment of the harness
  file,         \* state.json: pid and whether usb_port is set
  result,       \* the local variable result of execute
  raised,       \* exit code of what ended execute before it returned result, or NoCode
  testCode,     \* history: exit code of the test command, NoCode before it ends
  cleanupError, \* history: detaching or stopping failed in the clean-up
  testing,      \* the test command of a run is running
  helper,       \* the helper command a run's test has under way
  proc,         \* what each server process does
  home,         \* the run each server process belongs to
  attachedTo    \* the server the kernel's USB/IP driver is attached to (NoServer: none)

harness == <<pc, lock, server, owns, result, raised, testCode, cleanupError, testing>>
processes == <<proc, home, attachedTo>>
vars == <<harness, file, helper, processes>>

NoFile == [pid |-> NoServer, port |-> FALSE]
NoHelper == [op |-> "none", pc |-> "idle", server |-> NoServer, owns |-> FALSE]

TypeOK ==
  /\ pc \in [Runs -> {"idle", "done"} \cup Phases \cup CleanUp]
  /\ lock \in Runs \cup {NoRun}
  /\ server \in [Runs -> Servers \cup {NoServer}]
  /\ owns \in [Runs -> BOOLEAN]
  /\ file \in [Runs -> [pid : Servers \cup {NoServer}, port : BOOLEAN]]
  /\ result \in [Runs -> {0, 1, 2, 124}]
  /\ raised \in [Runs -> {NoCode, 1, 130, 137}]
  /\ testCode \in [Runs -> {NoCode, 0, 2, 124}]
  /\ cleanupError \in [Runs -> BOOLEAN]
  /\ testing \in [Runs -> BOOLEAN]
  /\ helper \in [Runs -> [op : Ops \cup {"none"},
                          pc : {"idle"} \cup HelperSteps,
                          server : Servers \cup {NoServer}, owns : BOOLEAN]]
  /\ proc \in [Servers -> {"none", "booting", "listening", "dead"}]
  /\ home \in [Servers -> Runs \cup {NoRun}]
  /\ attachedTo \in Servers \cup {NoServer}

Init ==
  /\ pc = [r \in Runs |-> "idle"]
  /\ lock = NoRun
  /\ server = [r \in Runs |-> NoServer]
  /\ owns = [r \in Runs |-> FALSE]
  /\ file = [r \in Runs |-> NoFile]
  /\ result = [r \in Runs |-> 1]
  /\ raised = [r \in Runs |-> NoCode]
  /\ testCode = [r \in Runs |-> NoCode]
  /\ cleanupError = [r \in Runs |-> FALSE]
  /\ testing = [r \in Runs |-> FALSE]
  /\ helper = [r \in Runs |-> NoHelper]
  /\ proc = [s \in Servers |-> "none"]
  /\ home = [s \in Servers |-> NoRun]
  /\ attachedTo = NoServer
-----------------------------------------------------------------------------
(* Server processes and the kernel.                                        *)

Bound == {s \in Servers : proc[s] = "listening"}

\* The server that answers `usbip list` and `usbip attach`.
Answering == {s \in Bound : s # attachedTo}

\* main of usbip.c up to listen(): a second server cannot bind the port.
Boot(s) ==
  /\ proc[s] = "booting"
  /\ proc' = [proc EXCEPT ![s] = IF Bound = {} THEN "listening" ELSE "dead"]
  /\ UNCHANGED <<harness, file, helper, home, attachedTo>>

\* A new process for run r.
Spawned(r, s) ==
  /\ proc[s] = "none"
  /\ proc' = [proc EXCEPT ![s] = "booting"]
  /\ home' = [home EXCEPT ![s] = r]
  /\ UNCHANGED attachedTo

\* The process, if there is one, is terminated; its socket goes with it.
Killed(s) ==
  /\ proc' = IF s = NoServer THEN proc ELSE [proc EXCEPT ![s] = "dead"]
  /\ attachedTo' = IF attachedTo = s THEN NoServer ELSE attachedTo
  /\ UNCHANGED home

\* A server crashes.
Dies(s) ==
  /\ proc[s] \in {"booting", "listening"}
  /\ Killed(s)
  /\ UNCHANGED <<harness, file, helper>>

Attached == \E s \in Answering : attachedTo' = s /\ UNCHANGED <<proc, home>>

\* usbip detach; that it fails, or that the port is not known, goes unnoticed.
DetachedIf(mine) ==
  /\ attachedTo' \in {attachedTo} \cup (IF mine THEN {NoServer} ELSE {})
  /\ UNCHANGED <<proc, home>>
-----------------------------------------------------------------------------
(* Harness.execute.                                                        *)

Goto(r, label) == pc' = [pc EXCEPT ![r] = label]

At(r, label) == pc[r] = label

\* Mutant: the lock is not looked at.
LockFreeAlways == TRUE

LockFree == lock = NoRun

AcquireLock(r) ==
  /\ At(r, "idle")
  /\ LockFree
  /\ lock' = r
  /\ Goto(r, "prepare")
  /\ UNCHANGED <<server, owns, result, raised, testCode, cleanupError, testing, file, helper, processes>>

\* On to another phase, with nothing else of the harness changed.
Proceeds(r, label) ==
  /\ Goto(r, label)
  /\ UNCHANGED <<lock, server, result, raised, testCode, cleanupError, testing, helper>>

\* A failing phase before the test: result 1, and on to the clean-up.
Fails(r) ==
  /\ Goto(r, "debug")
  /\ result' = [result EXCEPT ![r] = 1]
  /\ UNCHANGED <<lock, server, raised, testCode, cleanupError, testing, helper>>

LockHeld(r) == At(r, "idle") /\ ~LockFree /\ Fails(r) /\ UNCHANGED <<owns, file, processes>>

\* resolve_core and build, which Provision has in detail, then prepare_host.  The
\* calls of git and CMake have no time limit: it may never end.
Prepare(r) ==
  /\ At(r, "prepare")
  /\ Proceeds(r, "spawn") \/ Fails(r)
  /\ UNCHANGED <<owns, file, processes>>

StartServer(r) ==
  /\ At(r, "spawn")
  /\ \/ /\ \E s \in Servers : Spawned(r, s) /\ server' = [server EXCEPT ![r] = s]
        /\ Goto(r, "record")
        /\ UNCHANGED <<lock, result, raised, testCode, cleanupError, testing, helper>>
     \/ Fails(r) /\ UNCHANGED processes
  /\ UNCHANGED <<owns, file>>

\* write_state: before the server is asked for, and once it is attached.
WriteState(r) ==
  /\ \/ /\ At(r, "record") /\ Proceeds(r, "list")
        /\ file' = [file EXCEPT ![r] = [pid |-> server[r], port |-> FALSE]]
     \/ /\ At(r, "note") /\ Proceeds(r, "ready")
        /\ \E port \in BOOLEAN : file' = [file EXCEPT ![r] = [pid |-> server[r], port |-> port]]
  /\ UNCHANGED <<owns, processes>>

WriteStateFails(r) ==
  /\ "state write" \in Faults
  /\ At(r, "record") \/ At(r, "note")
  /\ Fails(r)
  /\ file' = [file EXCEPT ![r] = NoFile]
  /\ UNCHANGED <<owns, processes>>

\* poll() of the process started.
CheckServer(r) ==
  /\ At(r, "list")
  /\ proc[server[r]] # "dead"
  /\ Proceeds(r, "query")
  /\ UNCHANGED <<owns, file, processes>>

\* It has exited, or the startup deadline is over.
StartFails(r) ==
  /\ At(r, "list")
  /\ Fails(r)
  /\ UNCHANGED <<owns, file, processes>>

\* Whether the bus id is listed; a time-out counts as no.
ListServer(r) ==
  /\ At(r, "query")
  /\ Proceeds(r, IF Answering # {} THEN "attach" ELSE "list")
  /\ UNCHANGED <<owns, file, processes>>

Attach(r) ==
  /\ At(r, "attach")
  /\ Attached
  /\ owns' = [owns EXCEPT ![r] = TRUE]
  /\ \/ Proceeds(r, "note")
     \/ Fails(r)               \* the device did not show up in time
  /\ UNCHANGED file

\* The command fails or is cut off, before or after the kernel attached.
AttachFails(r) ==
  /\ At(r, "attach")
  /\ Fails(r)
  /\ Attached \/ UNCHANGED processes
  /\ UNCHANGED <<owns, file>>

WaitReady(r) ==
  /\ At(r, "ready")
  /\ \/ /\ Goto(r, "test")
        /\ testing' = [testing EXCEPT ![r] = TRUE]
        /\ UNCHANGED <<lock, server, result, raised, testCode, cleanupError, helper>>
     \/ Fails(r)
  /\ UNCHANGED <<owns, file, processes>>

TestEnds(r, code) ==
  /\ At(r, "test")
  /\ helper[r] = NoHelper \/ "background helper" \in Faults
  /\ result' = [result EXCEPT ![r] = code]
  /\ testCode' = [testCode EXCEPT ![r] = code]
  /\ testing' = [testing EXCEPT ![r] = FALSE]
  /\ Goto(r, "debug")
  /\ UNCHANGED <<lock, server, owns, raised, cleanupError, file, helper, processes>>

\* Mutant: the test has no time limit.
TestUnlimited(r) == FALSE

\* The time limit: SIGTERM to the test's process group, its helper included.
TestTimesOut(r) ==
  /\ At(r, "test")
  /\ helper[r].pc \in KillAt \cup {"idle"}
  /\ helper' = [helper EXCEPT ![r] = NoHelper]
  /\ result' = [result EXCEPT ![r] = 124]
  /\ testCode' = [testCode EXCEPT ![r] = 124]
  /\ testing' = [testing EXCEPT ![r] = FALSE]
  /\ Goto(r, "debug")
  /\ UNCHANGED <<lock, server, owns, raised, cleanupError, file, processes>>

CollectDebug(r) ==
  /\ At(r, "debug")
  /\ Proceeds(r, "detach")
  /\ UNCHANGED <<owns, file, processes>>

\* Mutant: a clean-up error replaces the result.
AfterCleanupErrorAlways(code) == 1

\* Mutant: a clean-up error leaves the result alone.
AfterCleanupErrorKept(code) == code

\* Mutant: a clean-up error adds to the result.
AfterCleanupErrorAdds(code) == code + 1

\* A clean-up error fails an otherwise successful run only.
AfterCleanupError(code) == IF code = 0 THEN 1 ELSE code

\* A failing command of the clean-up is noted.
CleanUpFails(r) ==
  /\ result' = [result EXCEPT ![r] = AfterCleanupError(@)]
  /\ cleanupError' = [cleanupError EXCEPT ![r] = TRUE]

\* It may time out after the kernel has detached.
Detach(r) ==
  /\ At(r, "detach")
  /\ DetachedIf(owns[r])
  /\ owns' = [owns EXCEPT ![r] = FALSE]
  /\ \/ UNCHANGED <<result, cleanupError>>
     \/ owns[r] /\ CleanUpFails(r)
  /\ Goto(r, "stop")
  /\ UNCHANGED <<lock, server, raised, testCode, testing, file, helper>>

\* Mutant: the process the harness started itself is stopped.
PidToStopOwn(r) == server[r]

\* Mutant: whatever has the port is stopped.
PidToStopBound(r) == IF Bound = {} THEN NoServer ELSE CHOOSE s \in Bound : TRUE

\* stop_server trusts the state file, which the helpers keep up to date.
PidToStop(r) == file[r].pid

\* The harness is gone, and its lock with it.
Leaves(r) ==
  /\ Goto(r, "done")
  /\ lock' = IF lock = r THEN NoRun ELSE lock

\* It may fail for want of the pid, or after the kill when the server, if it is
\* the harness's own child, takes its time to go.
StopServer(r) ==
  /\ At(r, "stop")
  /\ \/ Killed(PidToStop(r)) /\ UNCHANGED <<result, cleanupError>>
     \/ /\ PidToStop(r) = server[r] /\ server[r] # NoServer
        /\ Killed(PidToStop(r))
        /\ CleanUpFails(r)
     \/ /\ "stop fails" \in Faults
        /\ CleanUpFails(r)
        /\ UNCHANGED processes
  /\ Leaves(r)
  /\ UNCHANGED <<server, owns, raised, testCode, testing, file, helper>>

\* An error file, for what failed here, or in the end the metadata cannot be
\* written: that error leaves execute, the rest of the clean-up and the return of
\* result are skipped.
WriteEscapes(r) ==
  /\ "artifact write" \in Faults
  /\ \/ At(r, "debug") /\ UNCHANGED processes
     \/ At(r, "detach") /\ owns[r] /\ DetachedIf(owns[r])
     \/ At(r, "stop") /\ Killed(PidToStop(r))
     \/ At(r, "stop") /\ "stop fails" \in Faults /\ UNCHANGED processes
  /\ raised' = [raised EXCEPT ![r] = 1]
  /\ Leaves(r)
  /\ UNCHANGED <<server, owns, result, testCode, cleanupError, testing, file, helper>>

\* KeyboardInterrupt: nothing catches it, but the finally block is run; there it
\* skips what is left.  The test is in a session of its own and runs on.
Interrupt(r) ==
  /\ pc[r] \in InterruptAt
  /\ raised' = [raised EXCEPT ![r] = 130]
  /\ \/ pc[r] \in Phases /\ Goto(r, "debug") /\ UNCHANGED lock
     \/ pc[r] \in CleanUp /\ Leaves(r)
  /\ UNCHANGED <<server, owns, result, testCode, cleanupError, testing, file, helper, processes>>

\* Python handles neither signal; the code is that of SIGKILL.
HarnessKilled(r) ==
  /\ "harness killed" \in Faults
  /\ pc[r] \in Phases \cup CleanUp
  /\ raised' = [raised EXCEPT ![r] = 137]
  /\ Leaves(r)
  /\ UNCHANGED <<server, owns, result, testCode, cleanupError, testing, file, helper, processes>>

\* What the caller sees once the run is over.
ExitCode(r) == IF raised[r] = NoCode THEN result[r] ELSE raised[r]
-----------------------------------------------------------------------------
(* control.py, run by the test command of run r.                           *)

HelperAt(r, label) == helper[r].pc = label

HelperGoto(r, label) == helper' = [helper EXCEPT ![r].pc = label]

HelperEnds(r) == helper' = [helper EXCEPT ![r] = NoHelper]

\* start needs a device that was stopped.
MayCall(r, op) == op = "start" => "start twice" \in Faults \/ file[r].pid = NoServer

CallHelper(r, op) ==
  /\ testing[r]
  /\ HelperAt(r, "idle")
  /\ op \in Ops \ {"touch"}
  /\ MayCall(r, op)
  /\ helper' = [helper EXCEPT ![r] =
       [op |-> op, server |-> NoServer, owns |-> file[r].port,
        pc |-> CASE op = "start" -> "spawn" [] op = "attach" -> "attach" [] OTHER -> "detach"]]
  /\ UNCHANGED <<harness, file, processes>>

\* SIGINT to the pid of the state file.  The server of the C firmware exits if it
\* comes twice within two seconds, and any does before it has installed its handler.
HelperTouch(r) ==
  /\ testing[r]
  /\ HelperAt(r, "idle")
  /\ "touch" \in Ops
  /\ file[r].pid # NoServer
  /\ Killed(file[r].pid) \/ UNCHANGED processes
  /\ UNCHANGED <<harness, file, helper>>

\* Any command of the helper may fail or time out; where nothing catches that,
\* the helper ends and leaves the state file alone.
HelperGivesUp(r) ==
  /\ \/ HelperAt(r, "detach")
     \/ HelperAt(r, "spawn")
     \/ helper[r].op = "attach" /\ HelperAt(r, "ready")
  /\ HelperEnds(r)
  /\ UNCHANGED <<harness, file, processes>>

HelperDetach(r) ==
  /\ HelperAt(r, "detach")
  /\ DetachedIf(helper[r].owns)
  /\ IF helper[r].op = "detach"
       THEN HelperEnds(r) /\ file' = [file EXCEPT ![r].port = FALSE]
       ELSE HelperGoto(r, "stop") /\ UNCHANGED file
  /\ UNCHANGED harness

\* The wait for the reader to go may fail after the device was stopped.
HelperStop(r) ==
  /\ HelperAt(r, "stop")
  /\ Killed(file[r].pid)
  /\ file' = [file EXCEPT ![r] = NoFile]
  /\ \/ HelperEnds(r)
     \/ helper[r].op = "restart" /\ HelperGoto(r, "spawn")
  /\ UNCHANGED harness

HelperSpawn(r) ==
  /\ HelperAt(r, "spawn")
  /\ \E s \in Servers :
       /\ Spawned(r, s)
       /\ helper' = [helper EXCEPT ![r].pc = "write", ![r].server = s, ![r].owns = FALSE]
  /\ UNCHANGED <<harness, file>>

HelperWrite(r) ==
  /\ HelperAt(r, "write")
  /\ file' = [file EXCEPT ![r] = [pid |-> helper[r].server, port |-> FALSE]]
  /\ HelperGoto(r, "list")
  /\ UNCHANGED <<harness, processes>>

HelperWriteFails(r) ==
  /\ "state write" \in Faults
  /\ HelperAt(r, "write")
  /\ file' = [file EXCEPT ![r] = NoFile]
  /\ HelperEnds(r)
  /\ UNCHANGED <<harness, processes>>

HelperCheck(r) ==
  /\ HelperAt(r, "list")
  /\ \/ HelperGoto(r, "fail")
     \/ proc[helper[r].server] # "dead" /\ HelperGoto(r, "query")
  /\ UNCHANGED <<harness, file, processes>>

\* A busy server lets the query time out, which nothing catches here.
HelperList(r) ==
  /\ HelperAt(r, "query")
  /\ HelperGoto(r, IF Answering # {} THEN "attach" ELSE IF Bound # {} THEN "fail" ELSE "list")
  /\ UNCHANGED <<harness, file, processes>>

HelperAttach(r) ==
  /\ HelperAt(r, "attach")
  /\ Attached
  /\ helper' = [helper EXCEPT ![r].pc = "ready", ![r].owns = TRUE]
  /\ UNCHANGED <<harness, file>>

HelperAttachFails(r) ==
  /\ HelperAt(r, "attach")
  /\ IF helper[r].op = "attach" THEN HelperEnds(r) ELSE HelperGoto(r, "fail")
  /\ Attached \/ UNCHANGED processes
  /\ UNCHANGED <<harness, file>>

HelperReady(r) ==
  /\ HelperAt(r, "ready")
  /\ \/ HelperEnds(r) /\ \E port \in BOOLEAN : file' = [file EXCEPT ![r].port = port]
     \/ helper[r].op # "attach" /\ HelperGoto(r, "fail") /\ UNCHANGED file
  /\ UNCHANGED <<harness, processes>>

\* Mutant: a failed restart leaves its server running.
ServerToFailNone(r) == NoServer

ServerToFail(r) == helper[r].server

\* start undoes what it did: detach, stop its server, clear the state file.
HelperFails(r) ==
  /\ HelperAt(r, "fail")
  /\ proc' = IF ServerToFail(r) = NoServer THEN proc ELSE [proc EXCEPT ![ServerToFail(r)] = "dead"]
  /\ \/ attachedTo' = NoServer /\ (helper[r].owns \/ attachedTo = ServerToFail(r))
     \/ UNCHANGED attachedTo /\ attachedTo # ServerToFail(r)
  /\ file' = [file EXCEPT ![r] = NoFile]
  /\ HelperEnds(r)
  /\ UNCHANGED <<harness, home>>
-----------------------------------------------------------------------------
\* Steps of the harness that end: the commands in them have a time limit.
Limited(r) ==
  \/ AcquireLock(r) \/ LockHeld(r)
  \/ StartServer(r) \/ WriteState(r) \/ WriteStateFails(r)
  \/ CheckServer(r) \/ StartFails(r) \/ ListServer(r)
  \/ Attach(r) \/ AttachFails(r) \/ WaitReady(r)
  \/ (\E code \in {0, 2} : TestEnds(r, code)) \/ TestTimesOut(r)
  \/ CollectDebug(r) \/ Detach(r) \/ StopServer(r)

Harness(r) == Prepare(r) \/ Limited(r)

Helper(r) ==
  \/ HelperGivesUp(r) \/ HelperDetach(r) \/ HelperStop(r)
  \/ HelperSpawn(r) \/ HelperWrite(r) \/ HelperWriteFails(r) \/ HelperCheck(r) \/ HelperList(r)
  \/ HelperAttach(r) \/ HelperAttachFails(r) \/ HelperReady(r) \/ HelperFails(r)

\* What nothing makes happen.
Chance(r) ==
  \/ Interrupt(r) \/ HarnessKilled(r) \/ WriteEscapes(r)
  \/ HelperTouch(r) \/ \E op \in Ops : CallHelper(r, op)

Next ==
  \/ \E r \in Runs : Harness(r) \/ Helper(r) \/ Chance(r)
  \/ \E s \in Servers : Boot(s) \/ Dies(s)

Spec == Init /\ [][Next]_vars

\* Processes that can go on do, unless git or CMake holds them up, the startup
\* deadline comes, and the time limit of a test runs out whatever its helpers do.
Fairness ==
  /\ \A r \in Runs :
       /\ WF_vars(Limited(r)) /\ WF_vars(Helper(r))
       /\ SF_vars(StartFails(r)) /\ SF_vars(TestTimesOut(r))
  /\ \A s \in Servers : WF_vars(Boot(s))

FairSpec == Spec /\ Fairness
-----------------------------------------------------------------------------
(* Correctness.                                                            *)

Alive(s) == proc[s] \in {"booting", "listening"}

\* "always detaches and stops the device": when compat/run is over, however its
\* phases and its helpers ended, no server it started is left and the kernel is
\* not attached to one.
CleanExit ==
  \A r \in Runs : At(r, "done") =>
    \A s \in Servers : home[s] = r => ~Alive(s) /\ attachedTo # s

\* What makes that true: the state file names the only server of the run that is
\* alive, save for the moment after it was started.
FileNamesServer ==
  \A r \in Runs : ~At(r, "done") =>
    \A s \in Servers : home[s] = r /\ Alive(s) =>
      s \in {file[r].pid, helper[r].server} \/ (At(r, "record") /\ s = server[r])

\* A test that talks to a device talks to the one built for its run, also after
\* earlier runs failed or were cut short at any point.
OwnDevice ==
  \A r \in Runs : At(r, "test") /\ attachedTo # NoServer => home[attachedTo] = r

\* One owner and one server at a time, from the first phase to the last: the
\* harness, its helpers and the processes together implement ManagedDevice.
Device == INSTANCE ManagedDevice WITH
  owner <- lock,
  powered <- {<<s, home[s]>> : s \in {q \in Servers : Alive(q)}},
  attached <- attachedTo

ManagedDeviceSpec == Device!Spec

\* Whatever goes wrong, a run and its helpers stop no server of another run: not
\* the one that answers on their port, nor one another run has left behind.
StopsOwn ==
  [][\A r \in Runs : Harness(r) \/ Helper(r) \/ Chance(r) =>
       \A s \in Servers : Alive(s) /\ ~Alive(s)' => home[s] = r]_vars

\* "The caller command's nonzero code is otherwise returned unchanged": a failing
\* test keeps its code and a time-out gives 124 whatever the clean-up meets.
CallerCodeKept ==
  \A r \in Runs : At(r, "done") /\ testCode[r] \in {2, 124} => ExitCode(r) = testCode[r]

\* And compat/run succeeds exactly when the test did and the clean-up met no error.
ResultFaithful ==
  /\ CallerCodeKept
  /\ \A r \in Runs : At(r, "done") =>
       (ExitCode(r) = 0 <=> testCode[r] = 0 /\ ~cleanupError[r])

\* Under every fault: no run whose test or clean-up failed looks like a success, and
\* only what ends execute before its return takes the place of the code it returns.
ExitCodeTrue ==
  \A r \in Runs : At(r, "done") =>
    /\ ExitCode(r) = 0 => testCode[r] = 0 /\ ~cleanupError[r]
    /\ raised[r] = NoCode =>
         /\ testCode[r] \in {2, 124} => ExitCode(r) = testCode[r]
         /\ testCode[r] = 0 /\ ~cleanupError[r] => ExitCode(r) = 0

\* A run that has the lock and is past its build gives it back: no later phase,
\* server that dies or helper called over and over can keep it for ever.
RunEnds == \A r \in Runs : (lock = r /\ ~At(r, "prepare")) ~> (lock # r)
=============================================================================
