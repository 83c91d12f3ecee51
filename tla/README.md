# A verification development for canokey-usbip

TLA+ modules of the program in this repository, TLC configurations that check
them on small instances, and TLAPS proofs for all values of the constants.
Source paths below are relative to the repository; `PROJECT.json` maps every
definition to the lines it stands for and lists every hazard at its line.

## 1. Inventory

### The system

`canokey-usbip` is a USB/IP server with a CanoKey firmware linked in, and a test
runner around it. The runner builds the server for one firmware, starts it,
attaches it to the kernel's `vhci_hcd`, waits until device and PC/SC reader are
there, runs the caller's test command, and cleans up.

    caller ── compat/run ── main.py ── harness.py ──spawns──> canokey-usbip
                                  │  state.json                 │ usbip.c
              test command ── control.py ──spawns──>            │ rust_adapter.inc
                                  │                             │ firmware
                    usbip, sysfs, pcscd <── kernel vhci_hcd <───┘ TCP 3240

| Component | State | Operations | Talks to |
| --- | --- | --- | --- |
| Connection loop, `Src/usbip.c` | socket, endpoint table | accept, device list, import, submit, unlink, close | kernel (TCP), firmware (calls) |
| Rust FIFO adapter, `Src/rust_adapter.inc` | one packet per endpoint, parked interrupt requests, halts, open endpoints, attached flag | `rust_submit`, `rust_complete_interrupt`, `rust_attach`, `rust_disconnect`, `ck_usb_dcd_*` callbacks | firmware (calls and callbacks) |
| Timer and touch, `Src/rust_adapter.inc` | callback, deadline, touch flag | `device_set_timeout`, `compat_device_loop`, `sigint_handler` | firmware, signals |
| Legacy USB layer, `Src/usbip.c` | per endpoint a transmit buffer with a position, last request, parked interrupt request | `USBD_LL_Transmit`, submit and unlink handlers | C firmware |
| Admin vendor commands, `Src/admin_vendor.c` | a flag that nothing else reads | one APDU | firmware |
| Harness, `compat/runner/harness.py` | phase, lock file, server process, `state.json`, result | `execute` and its phases | helpers (state file), processes, kernel |
| Helpers, `compat/runner/control.py` | `state.json` | start, stop, restart, attach, detach, touch, collect-debug | harness (state file), processes |
| Attachment and readiness, `LinuxPlatform` | device baseline, reader baseline, device path, port | attach, wait_ready, detach, wait_reader_removed | sysfs, pcscd |
| Core resolution, patches, build, `harness.py` | workspace, build directories, `metadata.json` | `resolve_core`, `copy_core_tree`, `apply_core_compatibility`, `build` | git, cmake, upstream, the caller's tree |
| Catalog, `compat/runner/catalog.py` | none | list firmwares of a profile, release map | data files |
| Command line, `compat/runner/main.py` | none | `parse_args`, `list-firmwares` | catalog, harness |
| Scripts, CI workflows | none | call | harness, helpers |

### What is hard

* The server is single-threaded, but many steps of the firmware, the host and
  signals fall between two of its own: a host cancels a request that was just
  parked or answered, the firmware halts or closes an endpoint inside a transfer,
  the connection breaks at any read or write, and the next client finds the same
  process.
* An IN transfer polls inside the command loop; only its time limit ends it.
* Harness and helpers share nothing but a file and a port; the time limit of the
  test may kill a helper at any point; external commands, detaching, stopping and
  writing a file may fail; Ctrl-C may reach any phase and the clean-up; a server may
  die by itself or by a touch; git and CMake have no time limit.
* Kernel and pcscd follow attach and detach with a delay, layer by layer, and reuse
  names.
* Build directories and the caller's tree outlive a run; branches of upstream move.

### What makes each component correct

* Adapter: each request is answered at most once and only to its own client;
  packets reach the host once, in order, with their boundaries; an OUT request is
  delivered whole or not at all; transfers end.
* Timer and touch: the timer on time across an overflow of the tick, and not
  forgotten; a touch signal not forgotten before the loop has taken it.
* Legacy layer: what the firmware buffers is sent once and in order; the same promise
  about requests as the adapter, as far as reports do not pile up.
* Harness: after a run nothing of it is left, the test talked to its own device,
  the exit code is the caller's, the lock is given back once the build is over.
* Readiness: the device and reader found are the new ones, and are found; no test
  starts before the layers it asked for have come up.
* Core and build: the binary is the one that was asked for and the one that
  `metadata.json` describes; what is left behind is what was promised.
* Catalog: a profile selects what it names, once each and in order.

## 2. Modules

| Module | Models |
| --- | --- |
| `UrbService` | abstract: what a USB/IP server promises the host about its requests on one connection |
| `RustAdapter` | `usbip.c` with `CANOKEY_RUST_USB` and `rust_adapter.inc`: loop, handlers, FIFOs |
| `MCRustAdapter` | request sets for TLC |
| `RustAdapterProofs`, `RustTransferProofs` | proofs about it: types, sessions, `UrbService`; then what happens to the data |
| `DeviceTimer`, `DeviceTimerProofs` | `compat_device_loop`: timer, tick overflow, touch signal |
| `LegacyServer`, `MCLegacyServer` | `usbip.c` for the C firmware |
| `LegacyProofs` | proofs about it |
| `ManagedDevice` | abstract: what `compat/run` promises those who share a machine |
| `DeviceRun` | `Harness.execute`, `control.py`, the server processes, the port, the state file |
| `MCDeviceRun` | its symmetry for TLC |
| `DeviceRunProofs`, `DeviceRunRefinement` | proofs about it |
| `Attachment`, `AttachmentProofs` | device and reader baselines, readiness, detach |
| `Catalog` | firmware catalog: profiles, aliases, release map, refs, patches |
| `Provision`, `MCProvision`, `ProvisionProofs` | command line, core resolution, snapshot, patches, build, metadata, fate of the workspace |

`RustAdapter` implements `UrbService`, and `LegacyServer` does as long as no
interrupt buffer holds two reports and no earlier client left a request parked
(`URB == INSTANCE UrbService WITH ...`): `up` is "the loop runs", `used` the
numbers given out on this connection, `outstanding` the parked requests and the
one being handled, `replies` what was written. `UrbService` itself is a promise
and stands for no line of code. So does `ManagedDevice`: one owner, one server at
most and it is the owner's, nothing else attached, nothing left when ownership is
given up. `DeviceRun` implements it (`Device == INSTANCE ManagedDevice WITH ...`)
with the lock as owner and the live servers as the powered ones.

### How RustAdapter corresponds to the code

`pc` is the place in the server: `accept`; `loop` (top of `usbip_loop`); `scan`
(`rust_complete_interrupt`); `poll` (waiting for a command); `in`, `out`, `reply`
(inside `rust_submit`); `close` (the loop returned, `rust_disconnect` follows).
A handler that loops or writes is one action per turn, so that the firmware, the
clock and a lost connection come in between:

| Code | Actions |
| --- | --- |
| `compat_device_loop`, `rust_complete_interrupt` | `DeviceLoop`, `CompleteInterrupt`, `...Fails`, `...Done` |
| `poll`, `read_exact`, device list | `PollIdle`, `ConnectionLost` |
| `rust_attach`, `rust_disconnect` | `Import`, `Disconnect` |
| `rust_submit`, until a branch is taken | `SubmitRefused`, `SubmitBusy`, `SubmitPark`, `SubmitTransfer` |
| its OUT loop | `OutChunk`, `OutDone` |
| its IN loop | `InHalted`, `InTimeout`, `InFull`, `InWait`, `InOverrun`, `InPacket`, `TimePasses` |
| `send_reply` | `SendReply` |
| `usbip_unlink` | `Unlink` |
| `ck_usb_dcd_write`, `_stall`, `_open`, `_close` | `FwWrite`, `FwHalt`, `FwOpen`, `FwClose` |

The firmware acts only inside a call of the C code: `fw` says what the last step
called. A packet is a length, a serial number and the control request it was
written for; the histories `written`, `setup` and `wire` exist for the
properties. `packet[ep] = NoPacket` stands for `rust_pending[ep] = 0`: nothing
reads a packet that is not pending.

### How the others correspond

* `DeviceTimer`: `LoopStart`, `Touch`, `TouchDone`, `Fire`/`NothingDue`, `CallbackReturns` are
  the statements of `compat_device_loop` between which a signal or the callback
  may act. Ticks are modulo `2 * Half`. The flag is cleared before the file that
  tells the firmware is opened, and `Touch` may fail to open it: `signals`, `taken`
  and `given` count the signals, those the loop has taken, and the touches. Two
  signals before one pass of the loop are one touch, as in the code.
  `Disconnect` makes the two resets of `rust_disconnect` one step.
* `LegacyServer`: `tx`, `txPos`, `zlp` are `tx_buffer` up to `tx_size`, `tx_pos`,
  `tx_zlp_pending`. A handler is one action per write to the client; `fw` is true
  after a step that called the firmware. The histories `written`, `delivered` and
  `first` exist for the properties. Nothing is reset between clients, in the model as
  in the code.
* `DeviceRun`: one label of `pc` per phase of `Harness.execute`, with a failing
  alternative where an external command or a write may fail; `helper[r]` is the
  `control.py` process of run r's test, one label per command it runs. `Answering` is
  whoever answers on port 3240: a bound server that is not attached. Detaching may
  time out after the kernel has detached, and stopping may fail although the server
  is gone; both turn a success into 1 (`CleanUpFails`). `raised` is the exit code of
  an exception or signal that ends `execute` before `return result`; `ExitCode` is
  what the caller sees.
  What may go wrong beyond that and dying servers is a constant: `KillAt` (where a
  helper may stand when the time limit comes), `InterruptAt` (where the harness may
  stand when Ctrl-C comes) and `Faults`: a test that calls start twice, a state file
  that cannot be written, a helper that outlives its test, a server that cannot be
  stopped, an error file or `metadata.json` that cannot be written in the clean-up, a
  harness that is killed. `Survived` names those the code copes with.
* `Attachment`: the steps of `LinuxPlatform.attach`, `wait_ready`, `detach` and
  `wait_reader_removed` against a kernel and a pcscd that follow later, first with
  the device, then its interfaces one by one, the hidraw node after the HID interface
  and the reader after the CCID one. `WaitsForReader` is the `restart` command, which
  waits for the reader to go if the test has one (`AfterDetach`); FALSE is `detach`,
  then `attach`. `required` is what `--require` gave; without it all layers are
  demanded, and a reader if pcsc-lite is installed.
* `Catalog`: operators. `ListFirmwares` translates the expansion of a profile, with
  aliases, `all-supported-releases` and unknown names; `IsSelection` is the
  reference it is checked against.
* `Provision`: one label of `pc` per stage between `parse_args` and the end of
  `execute`; `ReadTree` and `CopyTree` are apart because the caller may change the
  tree in between. A tree is a commit and edits, a patch an edit, a binary the tree
  and release it was built from. `RunDevice` stands for everything `DeviceRun` is
  about. The finally block is `CleanUp`, `Record` (its condition is
  `RecordedPreserved`, line 809) and `RemoveWorkspace` (`PreserveWorkspace`, line
  812; `rmtree` may leave any part); `Escapes` is an exception out of it, `Interrupted`
  Ctrl-C before it.

## 3. Runs

| Run | Asks | Result |
| --- | --- | --- |
| RustRequests | two interrupt endpoints, one of them closed and opened, beside a polling transfer, successive connections: `SessionOwnership`, `UrbServiceSpec`, `AnswerComesFirst`, `TransferEnds`, `ParkedAnswered` | holds |
| RustTransfers | bulk and control transfers, halts, overruns, time-outs, answers left behind: `TypeOK`, `InOrderDelivery`, `RepliesFit`, `ShortPacketFraming`, `OutAllOrNothing`, `ControlReplyFresh` | holds |
| DeviceTimer | `TypeOK`, `TimerExact`, `TimerKept`, `TouchKept` | holds |
| LegacyRequests | two connections: `TypeOK`, `InOrderDelivery`, and `UrbServiceSpec` while reports do not pile up and nothing stale is parked | holds |
| LegacyDuplicate | `AnsweredOnce` with two reports in a buffer | violated |
| DeviceRuns | two runs, all helpers, every survived fault: `TypeOK`, `CleanExit`, `FileNamesServer`, `OwnDevice`, `ResultFaithful`, `RunEnds`, `ManagedDeviceSpec` | holds |
| DeviceRunFaults | two runs, every kind of fault, helpers that start, stop and touch servers: `ExitCodeTrue`, `StopsOwn` | holds |
| DeviceRunTimeout | `CleanExit` when the time limit kills a helper before it wrote the state file | violated |
| DeviceRunExit | `CallerCodeKept` when the clean-up cannot write a file | violated |
| AttachmentRestart | restart: `TypeOK`, `OwnDeviceAndReader`, `ReadyAsDemanded`, and `RestartClean` where a reader is there and demanded | holds |
| AttachmentNoReader | restart without pcsc-lite: `BaselineClean` | violated |
| Provision | profiles, and runs over releases, refs and trees: `TypeOK`, `ProfileSelection`, `BinaryAsRecorded`, `ReleaseAsAsked`, `LeftAsPromised` | holds |

What the violated ones show:

* **LegacyDuplicate.** `usbip_tx_submit` forgets an interrupt request only when
  the buffer is empty. With two reports buffered, the request answered with the
  first stays parked, and the next interrupt OUT transfer answers it again.
* **DeviceRunTimeout.** `control.py` writes the pid of the server it started after
  starting it. Killed in between, nobody knows the server, and it outlives the run.
  DeviceRuns shows that this is the only such point of a helper.
* **DeviceRunExit.** The clean-up writes `collect-debug-error.txt`,
  `cleanup-error.txt` and `metadata.json` where nothing catches an error. One that
  fails (a full disk, say) leaves the finally block, `return result` behind it is not
  reached, and the exit code is 1 although the test exited with another nonzero code,
  which the README of the program says is never replaced. Ctrl-C in the clean-up makes
  it 130 in the same way.
* **AttachmentNoReader.** `restart` waits for the old attachment to go only if the
  test has a reader. Without pcsc-lite it has none: the old device is still in sysfs
  when the baseline is taken, the new one gets its path, and `attach` times out on a
  device that is there. With pcsc-lite and `--require usb` alone the same happens, as
  the test may start before its reader has come up; so `RestartClean` asks for a
  reader that is there and demanded. And with `WaitsForReader = FALSE`, the helpers
  `detach`, then `attach`, it happens with and without pcsc-lite (change the cfg to
  see either).

One disagreement is between documents and has no run: the catalog and the README list
`head` among the verified refs, but its commits are in no release mapping, and
`build` refuses them deliberately, as a test of the harness expects.

Each fault outside `Survived` breaks `CleanExit` when it is switched on alone, so
`Survived` is as weak as it can be: Ctrl-C between the start of the server and its
state file (`record`), during the test, whose helpers run on, or inside the
clean-up, which skips what is left; start twice, which forgets the server that
runs; a full disk, which leaves the state file empty or ends the clean-up; a helper in
the background; a server that cannot be stopped; a killed harness. They disagree with
"always detaches and stops the device" as DeviceRunTimeout does, at faults further
from ordinary use. DeviceRunFaults is about what still holds: another run's server is
never stopped, no run whose test or clean-up failed exits with 0, and the caller's code
is replaced only if something ended `execute` before it returned (`ExitCodeTrue`).

### Bounds, and why they are enough

* *RustAdapter.* `MaxSeq` 2: a parked request and one that races it, or the unlink
  of it; the theorems are about any number. `MaxConn` 2 in RustRequests: two
  numbers, reused in turn, so any number of connections is run through and
  neighbours are told apart. `Mps` 2 with lengths 0, 1, 2 has
  empty, short and full packets; `TxMax` 4 is two full packets, and the host
  asks for 0, less and more than that. In RustTransfers `MaxPackets` 3 fills one
  transfer and leaves a packet for the next; RustRequests, which is about requests
  and not data, has one packet per endpoint and connection. Interrupt endpoints 1
  and 2 as in the code; bulk endpoint 3.
  Each run leaves out the kinds of endpoint its question does not involve;
  the proofs are about all of them together.
* *DeviceTimer.* `Half` 4, so ticks overflow at 8, and time runs to 20: two
  overflows, with a timer of the largest allowed length across each. `MaxSignals` 3:
  signals that merge, one during a touch, and one after. The length
  may not exceed half the range (16 bits against 31 in the code), and a turn of
  the loop comes at least every `MaxGap` while a client is served.
* *LegacyServer.* `Burst` 2 is the least that leaves a report in a buffer, and
  `MaxPackets` 2 lets it. `MaxConn` 2: a client and the one that meets what it left.
  This build resets nothing between clients, so that a request parked by one is
  answered to the next. The repository promises nothing else for it: `UrbServiceSpec`
  is asked only of steps where nothing stale is parked (`NothingStale`) and no buffer
  holds two reports (`OneReportEach`), `InOrderDelivery` of every step. Steps, not
  behaviours: the promise holds again as soon as what was left is gone.
* *DeviceRun.* Two runs compete for one lock; three servers are one each and one
  restart. In DeviceRuns `Ops` are all helpers, in every order and number.
  DeviceRunFaults has two servers, one that is left behind and one that meets it, the
  helpers that change which server there is (`start`, `stop`, and `touch`, which may
  end one), every fault, and one
  point of each kind to be killed or interrupted at: before the state file names a
  server, with an attachment, in the test, in the clean-up. Runs and servers are
  interchangeable there (`MCDeviceRun`), as nothing but safety is asked. The theorems
  about its properties leave none of this open.
* *Attachment.* Three attachments, where each sees what is left of the one before;
  one foreign device and reader; with and without pcsc-lite; no requirements, the
  least, `hid` alone (interface and hidraw node), and a reader without HID.
* *Provision.* A catalog with the shapes of `compat/config`: a release with a patch
  that may be skipped, one with a patch that may not, one without, and `head`
  without a mapping; profiles of up to three names out of six, an unknown one
  included. Command lines for each source of a core and each build directory, and
  one of each kind that `parse_args` refuses. Nothing but the state of trees and
  directories is carried from one run to the next, so any number of runs is
  reached. `MovesWhileRead` is FALSE: TRUE breaks `BinaryAsRecorded`, about
  which the repository says nothing.

### Fairness

* `RustAdapter`: weak fairness of `Server` (the process is never stopped: its loop
  sleeps a millisecond at most) and of `TimePasses` (the clock). None of the
  client or the firmware, which owe nothing.
* `DeviceRun`: weak fairness of each harness, each helper and the start of each
  server process; strong fairness of the startup deadline (`StartFails`), which ends
  the wait for a server however often it is queried, and of the test's time limit,
  which comes whatever the helpers do. From the lock to the end of the build
  (`Prepare`) there is none: git (`harness.py:119`, 432, 479-486) and CMake (543-551)
  run without a time limit, and `RunEnds` promises nothing before they are done. The
  commands after that have one in the code: `modprobe` and `systemctl` 20 s, `usbip
  attach` 30, `port` 10, `list` 3, `detach` 20, those that collect logs 20 each; waiting
  for device and readiness has a deadline, and so has the wait for a stopped process.
  So each such step is taken or fails; which is not assumed, and the test command is not
  assumed to end except by its limit. Assumed of the outside: that the limit of
  `subprocess.run` ends the command also under `sudo`, that calls of pcsc-lite and
  writes of small files return, and that a killed process goes.

## 4. Proofs

All hold for every value of the constants that satisfies the named assumptions,
which TLC evaluates in the runs: `EndpointsAssumption`, `SizesAssumption`,
`BoundsAssumption`, `TimerAssumption`, `RunsAssumption`, `OpsAssumption`,
`AttachmentAssumption`, `CatalogAssumption`, `ProvisionAssumption`,
`CommandLinesAssumption`. A theorem that needs more states it: `Survived`,
`CleanUpReturns`, `WaitsForReader`, `~MovesWhileRead`.

**RustAdapter.**

* *TypeCorrect* `Spec => []TypeOK`. `TypeOK` includes that a transfer never
  exceeds the staging buffer. It is not inductive: `Lengths` bounds a transfer by
  its clipped capacity and that by the buffer, `Counted` says a waiting packet was
  counted, `Quiet` what holds between connections. `TypeInv` is all four.
* *SessionsSeparate* `Spec => []SessionOwnership`. `SessionInv` adds the property
  to `TypeInv`; `Quiet` carries it over `Accept`, where the connection changes
  and nothing is attached, parked or pending.
* *FramingKept*, *OutWhole*, *AnswersFresh*: `ShortPacketFraming`,
  `OutAllOrNothing`, `ControlReplyFresh`. The three speak of replies already
  written; `Moves` (in `TransferInv`) says the same of the transfer under way, at
  each turn of its loop: an IN transfer that still polls has full packets only, a
  control answer has only what was written since its setup, an OUT transfer was
  delivered up to where it stands. `Parks` and `Usable` close the two side doors: a
  parked request is answered with one packet of its endpoint, and no endpoint is
  closed under a polling transfer.
* *ImplementsUrbService* `Spec => UrbServiceSpec`. Initial states map to initial
  states, and each action to one abstract action or a stutter, in one lemma per
  group of actions. It rests on `NumberedInv`: parked requests and the one being
  handled have numbers of their own. Without it, an answer could settle two.
* *AnswersComeFirst* `Spec => []AnswerComesFirst`: what UrbService promises, as the host
  sees it in the replies alone. It needs `SettledIsDone`, that nothing is owed to a
  request the host has heard of. Both are invariants of the abstract actions, so the
  proof goes through the refinement (`RefinesStep`) instead of the adapter's actions.
* *ReplyLengths* `Spec => []RepliesFit` and *DeliveredInOrder*
  `Spec => []InOrderDelivery`, from `DeliveryInv`: `TransferInv`, the two properties, and
  `Carried`, which says of the transfer under way that its length is that of the packets
  it has, within the host's limit. `CountsInTurn` turns `CountsTo`, about a sequence of
  stages, into `InTurn`, about the replies, the transfer and the FIFO; then a packet
  moves from one stage to the next (`OrderedAppend`, `CountsUp`, `CountsDown`).
  `LengthOf` is a recursive function. That it has the value one expects
  (`LengthGrows`) is proved without an induction rule: sums exist for every prefix
  and are unique, for otherwise there were a shortest prefix where they do not or
  are not, as `<` is well-founded (`FirstOne`).

**LegacyServer**, for any number of connections.

* *TypeCorrect* `Spec => []TypeOK` and *DeliveredInOrder* `Spec => []InOrderDelivery`, from
  `ServerInv`. Neither is inductive: that a position stays on a report that is there
  needs `Interrupting`, that an answer sends the buffer and nothing else needs
  `WholeBuffer`, and that it goes to the right endpoint needs `AtOwnEndpoint`.
* *ImplementsUrbService* `Spec => UrbServiceSpec`, from `NumbersInv`: requests have the
  numbers they were given (`Known`), each its own (`Apart`), and one that was answered
  is parked only while two reports are in the buffer (`Piled`). `Piled` is where
  LegacyDuplicate comes from, and why the refinement needs `OneReportEach`.
* *AnswersComeFirst* `Spec /\ []OneReportEach => [](AnswerComesFirst /\ AnsweredOnce)`: two
  reports in one buffer are the only cause of what LegacyDuplicate shows. What earlier
  clients left parked does no harm here, so the theorem does not ask for `NothingStale`.

**DeviceTimer.**

* *TimerRight* `Spec => []TimerExact`, for ticks of any even width. `TimerInv`
  says that deadline and time stay within half a range (`Near`), which needs that
  a turn of the loop is never long ago (`Recent`) and that what it left armed was
  not due then (`Ahead`). The arithmetic is a lemma about remainders.
* *TypeCorrect* from the same invariant; *NoTimerForgotten*: `TimerKept`, which is
  inductive; *NoTouchForgotten*: `TouchKept`, from it and the types. The flag stands for
  the signals the loop has not taken, so none is forgotten by clearing it at the wrong
  moment; that each taken one becomes a touch is not claimed, as the file may fail to
  open.

**DeviceRun**, for any number of runs and servers.

* Under every fault: *TypeCorrect*; *StopsItsOwn* `Spec => StopsOwn`, since every pid
  that a run, its helpers or its state file know of is a server of that run
  (`PidsOwn` in `NamesInv`); *ExitCodeNeverLies* `Spec => []ExitCodeTrue`.
* As long as nothing ends the clean-up before its return (`CleanUpReturns`: no Ctrl-C
  in it, no failing write of its files, no killed harness), and with every other fault:
  *ExitCodeFaithful* `Spec => []ResultFaithful`. Its core is `RaisedEarly`: what was
  raised before comes of a run whose test has not ended.
* Under `Survived`: *LeavesNothing* (`CleanExit`), *StateFileTrue*
  (`FileNamesServer`), *TestsOwnDevice* (`OwnDevice`) and *ImplementsManagedDevice*
  (`Spec => ManagedDeviceSpec`). One invariant, `OwnerInv`, carries all four. Its
  core is `OneOwner`: a server that is alive is that of the run with the lock, and
  the one that `Current` finds, in the state file, in the helper under way or in
  the harness just after it started one. `CleanExit` alone is not inductive: that the
  clean-up stops the right server depends on what each helper has written down
  (`HelperKnows`, `Recorded`), and that no server is there when the next run starts
  depends on the lock (`LockHolds`).

**Attachment**, for any number of attachments and any devices of others.

* *TypeCorrect*: there is always a free path and name, by the pigeonhole principle,
  and a least one, as `<` is well-founded.
* *ReadyInTime* (`ReadyAsDemanded`), also without waiting for the reader: every
  device but the current one is in the baseline (`Follows`), so what is found at the
  path is our own.
* *OwnFound* (`OwnDeviceAndReader`) and *BaselineFree* (`RestartClean`) under
  `WaitsForReader`. `Restarted`: if a reader is demanded, between two attachments
  nothing of ours is left, so the baselines are exactly what belongs to others and the
  reader has the same name each time. AttachmentNoReader shows that `BaselineClean`
  itself, without a reader, does not hold.

**Provision**, for any catalog, command lines and history of runs.

* *TypeCorrect*, *ReleaseBuilt* (`ReleaseAsAsked`), *LeftPromised*
  (`LeftAsPromised`). `StageInv` says how far each stage has come; `Kept` in it is what
  the last one needs: a successful build has its binary and tree until the workspace is
  removed, and what is then removed was not recorded as preserved. `ReleaseCommit`
  is the lemma that both directions of the release mapping agree, from
  `CatalogAssumption`: no id and no commit is mapped twice.
* *BinaryRight* (`BinaryAsRecorded`) if the caller's tree keeps still between
  `rev-parse` and the end of the copy. `Agreement` is the relation between record and
  workspace at each stage.
* *ProfilesExpanded* (`ProfileSelection`), for any catalog and profile. The property
  itself is inductive: `List` establishes it. The work is in the data, as the code
  expands names one after the other and drops what was seen, where the reference
  compares first places. `Flattened` gives each element of the expansion the place of
  its name and its place under that name, `SelectedOnce` says that an element selected
  earlier also comes earlier, `ReleasesInOrder` that all releases are in the order of
  the catalog; `AskedFirst` and `PlaceOf` are about the reference. `FoldSteps` turns a
  fold into the values after each element; that such values exist, and each fact about
  them, goes from place to place by `HandedOn`, again from well-foundedness instead of
  an induction rule. It assumes that ids in the catalog are unique and that catalog
  and profiles are lists.

Only model-checked: liveness (`TransferEnds`, `ParkedAnswered`, `RunEnds`), as fairness
and ENABLED are out of the prover's reach. Every safety property of a passing run is a
theorem.

No module uses a RECURSIVE operator.

## 5. Not modelled, and assumed

* Bytes, descriptors, APDUs, CCID framing: nothing here depends on them. Device
  list and unknown commands (an `assert`) change no state.
* The firmware is nondeterministic but keeps the contracts the code asserts: it
  writes only to an open endpoint with an empty FIFO, and opens and closes
  endpoints in control requests or on reset.
* The host numbers requests in order, imports once per connection, and cancels a
  request once. `LegacyServer` also assumes one waiting IN request per interrupt
  endpoint, as the kernel's HID driver has it.
* `DeviceRun` kills a process in one step. A helper killed while writing the state
  file is the same as one killed before, unless the file is left torn, which is the
  fault "state write". Which port number `usbip port` gives is known or not known.
* `Attachment`: the devices and readers of others stay as they are. One that is
  plugged in while `attach` waits cannot be told from our own. A helper that fails
  ends the behaviour, although the test may call another; a detach that fails is left
  out, as stopping the server takes the device away.
* `LegacyServer` has no capacity of `tx_buffer` (4096 bytes, `usbip.c:94`), which
  line 212 does not check: reports pile up to the bound of the run only.
* `Provision` has git and CMake succeed or fail as a whole. A failed build may or may
  not leave the old binary. A harness that is killed, which leaves workspace and record
  as they are, and a first write of `metadata.json` that fails before the try block
  (`harness.py:735`) are left out.
* The composition of `Attachment` with `DeviceRun` and `Provision` is not checked: a
  readiness that fails is one outcome of a step of `DeviceRun`, and a device phase
  one step of `Provision`; their state spaces only multiply.
* `LegacyServer` leaves out the SIGINT touch toggle, interface tables and storage
  start-up of the C build; the touch helper's effect on the process is in
  `DeviceRun`.
* Admin vendor command (it sets a flag nothing reads), build description, wrapper
  scripts and CI workflows keep no state a property could be about; the tests are
  read as a statement of intent.

## 6. Plan

Done, in this order: `UrbService`, `RustAdapter` with proofs and refinement,
`LegacyServer`, `DeviceRun`, `Attachment`, `DeviceTimer` with proofs; `Catalog` and
`Provision`; faults, Ctrl-C and `ManagedDevice` for `DeviceRun`; layers and
requirements for `Attachment`; proofs about all of these.

Next:

1. The SIGINT toggle of the C build with its two-second exit, against the promise of
   one simulated touch.
2. `find_usbip_port` with several attached devices; the prefix test of
   `_hidraw_ready`.
