----------------------------- MODULE Attachment -----------------------------
(***************************************************************************)
(* How LinuxPlatform (compat/runner/harness.py) finds the device and the   *)
(* PC/SC reader that belong to the attachment it made, and when it calls   *)
(* them ready, beside real CanoKeys and other readers and what is left of  *)
(* earlier attachments.                                                    *)
(*                                                                         *)
(* External: the kernel adds a device to sysfs some time after usbip        *)
(* attached it, then its interfaces, then a hidraw node; pcscd follows.    *)
(* They go some time after the detach.  Kernel and pcscd give out the      *)
(* lowest free path or name, so a new attachment may reuse an old one's.   *)
(***************************************************************************)
EXTENDS Naturals, FiniteSets

CONSTANTS
  MaxGen,          \* bound: attachments
  Foreign,         \* paths and names taken by devices that are not ours
  Requirements,    \* the sets of --require options used
  WaitsForReader   \* between detach and attach the removal of the reader, if the
                   \* test got one, is awaited: TRUE for the restart command,
                   \* FALSE for detach, then attach

Interfaces == {"ccid", "hid", "webusb"}
Layers == Interfaces \cup {"hidraw"}

ASSUME AttachmentAssumption ==
  /\ MaxGen \in Nat
  /\ Foreign \subseteq 1..2
  /\ Requirements \subseteq SUBSET (Interfaces \cup {"usb", "pcsc"})
  /\ WaitsForReader \in BOOLEAN

\* Enough for every device, ours and others, to have one of its own.
Slots == 1..(MaxGen + 2)

VARIABLES
  pc,             \* where the runner stands
  required,       \* readiness_requirements
  pcscLite,       \* pcsc-lite is installed
  gen,            \* number of the current attachment
  linked,         \* usbip is attached
  devices,        \* sysfs: [gen, slot]; the devices of others have gen 0
  layers,         \* what has come up of the device of each attachment
  readers,        \* pcscd: [gen, slot]
  before,         \* argument of attach: matching_usb_devices() at the start
  readersBefore,  \* pcsc_readers_before
  devicePath,     \* device_path (0: None)
  reader          \* CANOKEY_PCSC_READER, set when the test starts (0: unset)

setting == <<required, pcscLite>>
runner == <<before, readersBefore, devicePath, reader>>
host == <<gen, linked, devices, layers, readers>>
vars == <<pc, setting, runner, host>>

Entries == [gen : 0..MaxGen, slot : Slots]
Slot(entries) == {e.slot : e \in entries}
Others == {[gen |-> 0, slot |-> s] : s \in Foreign}
Least(set) == CHOOSE s \in set : \A q \in set : s <= q

TypeOK ==
  /\ pc \in {"start", "baseline", "attach", "device", "ready", "test", "removal", "failed"}
  /\ required \in Requirements
  /\ pcscLite \in BOOLEAN
  /\ gen \in 0..MaxGen
  /\ linked \in BOOLEAN
  /\ devices \subseteq Entries
  /\ layers \in [0..MaxGen -> SUBSET Layers]
  /\ readers \subseteq Entries
  /\ \A x, y \in devices : x.slot = y.slot => x = y
  /\ \A x, y \in readers : x.slot = y.slot => x = y
  /\ before \subseteq Slots
  /\ readersBefore \subseteq Slots
  /\ devicePath \in Slots \cup {0}
  /\ pc \in {"start", "baseline", "attach", "device", "removal"} => devicePath = 0
  /\ reader \in Slots \cup {0}

Init ==
  /\ pc = "start"
  /\ required \in Requirements
  /\ pcscLite \in BOOLEAN
  /\ gen = 0
  /\ linked = FALSE
  /\ devices = Others
  /\ layers = [g \in 0..MaxGen |-> IF g = 0 THEN Layers ELSE {}]
  /\ readers = Others
  /\ before = {}
  /\ readersBefore = {}
  /\ devicePath = 0
  /\ reader = 0
-----------------------------------------------------------------------------
(* The runner.                                                             *)

Goto(from, to) == pc = from /\ pc' = to /\ UNCHANGED setting

\* pcsc_readers, with the empty set for None.
PcscReaders == IF pcscLite THEN Slot(readers) ELSE {}

\* The devices there before the server is started ...
BeforeDevices ==
  /\ Goto("start", "baseline")
  /\ gen < MaxGen
  /\ before' = Slot(devices)
  /\ UNCHANGED <<readersBefore, devicePath, reader, host>>

\* ... and the readers there before usbip attach.
BeforeReaders ==
  /\ Goto("baseline", "attach")
  /\ readersBefore' = PcscReaders
  /\ UNCHANGED <<before, devicePath, reader, host>>

UsbipAttach ==
  /\ Goto("attach", "device")
  /\ gen' = gen + 1
  /\ linked' = TRUE
  /\ UNCHANGED <<devices, layers, readers, runner>>

\* Mutant: any CanoKey will do.
CandidatesAll == Slot(devices)

Candidates == Slot(devices) \ before

FindDevice ==
  /\ Goto("device", "ready")
  /\ Candidates # {}
  /\ devicePath' = Least(Candidates)
  /\ UNCHANGED <<before, readersBefore, reader, host>>

NewReaders == PcscReaders \ readersBefore

\* What is found below device_path.
Probed == UNION {layers[d.gen] : d \in {e \in devices : e.slot = devicePath}}

\* Mutant: the interface is enough for hid.
MetWithoutHidraw(layer) ==
  CASE layer = "usb" -> devicePath \in Slot(devices)
    [] layer = "pcsc" -> NewReaders # {}
    [] OTHER -> layer \in Probed

\* One readiness requirement.
Met(layer) ==
  CASE layer = "usb" -> devicePath \in Slot(devices)
    [] layer = "pcsc" -> NewReaders # {}
    [] layer = "hid" -> {"hid", "hidraw"} \subseteq Probed
    [] OTHER -> layer \in Probed

\* Without requirements all are made, but a reader only if pcsc-lite is installed.
Demanded ==
  IF required # {} THEN required
  ELSE {"usb"} \cup Interfaces \cup (IF pcscLite THEN {"pcsc"} ELSE {})

Ready == \A layer \in Demanded : Met(layer)

\* The first readiness is the harness's, which exports the reader to the test; a
\* helper does not.
WaitReady ==
  /\ Goto("ready", "test")
  /\ Ready
  /\ reader' = IF gen = 1 /\ NewReaders # {} THEN Least(NewReaders) ELSE reader
  /\ UNCHANGED <<before, readersBefore, devicePath, host>>

\* The deadline of attach, wait_ready or wait_reader_removed, or a failing query
\* of the readers.
Fails ==
  /\ pc \in {"baseline", "device", "ready", "removal"}
  /\ pc = "baseline" => pcscLite
  /\ pc' = "failed"
  /\ UNCHANGED <<setting, runner, host>>

AfterDetach == IF WaitsForReader /\ reader # 0 THEN "removal" ELSE "start"

\* Mutant: detach forgets the port only.
UsbipDetachKeepsPath ==
  /\ Goto("test", AfterDetach)
  /\ linked' = FALSE
  /\ UNCHANGED <<before, readersBefore, devicePath, reader, gen, devices, layers, readers>>

\* detach; the next attachment follows.
UsbipDetach ==
  /\ Goto("test", AfterDetach)
  /\ linked' = FALSE
  /\ devicePath' = 0
  /\ UNCHANGED <<before, readersBefore, reader, gen, devices, layers, readers>>

\* Mutant: the wait is over at once.
ReaderRemovedAtOnce == TRUE

ReaderRemoved == pcscLite /\ reader \notin PcscReaders

WaitReaderRemoved ==
  /\ Goto("removal", "start")
  /\ ReaderRemoved
  /\ UNCHANGED <<runner, host>>

\* The last attachment stays, and a failed run is over.
Over ==
  /\ pc = "failed" \/ (gen = MaxGen /\ pc \in {"start", "test"})
  /\ UNCHANGED vars
-----------------------------------------------------------------------------
(* The kernel and pcscd.                                                   *)

Present(e) == e.gen = 0 \/ (e.gen = gen /\ linked)

DeviceAppears ==
  /\ linked
  /\ \A d \in devices : d.gen # gen
  /\ devices' = devices \cup {[gen |-> gen, slot |-> Least(Slots \ Slot(devices))]}
  /\ UNCHANGED <<pc, setting, runner, gen, linked, layers, readers>>

LayerAppears ==
  /\ \E d \in devices : \E layer \in Layers \ layers[d.gen] :
       /\ layer = "hidraw" => "hid" \in layers[d.gen]
       /\ layers' = [layers EXCEPT ![d.gen] = @ \cup {layer}]
  /\ UNCHANGED <<pc, setting, runner, gen, linked, devices, readers>>

DeviceGoes ==
  /\ \E d \in devices :
       /\ ~Present(d)
       /\ devices' = devices \ {d}
       /\ layers' = [layers EXCEPT ![d.gen] = {}]
  /\ UNCHANGED <<pc, setting, runner, gen, linked, readers>>

ReaderAppears ==
  /\ \E d \in devices :
       /\ "ccid" \in layers[d.gen]
       /\ \A r \in readers : r.gen # d.gen
       /\ readers' = readers \cup {[gen |-> d.gen, slot |-> Least(Slots \ Slot(readers))]}
  /\ UNCHANGED <<pc, setting, runner, gen, linked, devices, layers>>

ReaderGoes ==
  /\ \E r \in readers :
       /\ \A d \in devices : d.gen # r.gen
       /\ readers' = readers \ {r}
  /\ UNCHANGED <<pc, setting, runner, gen, linked, devices, layers>>

Next ==
  \/ BeforeDevices \/ BeforeReaders \/ UsbipAttach \/ FindDevice \/ WaitReady
  \/ Fails \/ UsbipDetach \/ WaitReaderRemoved \/ Over
  \/ DeviceAppears \/ LayerAppears \/ DeviceGoes \/ ReaderAppears \/ ReaderGoes

Spec == Init /\ [][Next]_vars
-----------------------------------------------------------------------------
(* Correctness.                                                            *)

\* The test gets the device of this attachment and, if a reader is demanded, "the
\* PC/SC reader added by this attachment", never another CanoKey's and never one
\* from before a restart; CANOKEY_PCSC_READER, set once, is right after restarts.
OwnDeviceAndReader ==
  pc = "test" =>
    /\ [gen |-> gen, slot |-> devicePath] \in devices
    /\ "pcsc" \in Demanded => [gen |-> gen, slot |-> reader] \in readers

\* The test starts on a device of which every layer asked for has come up, "hid
\* requires both the HID interface and its hidraw device", and not on the layers
\* of the device that had the path before.
ReadyAsDemanded ==
  pc = "test" =>
    /\ Demanded \cap Interfaces \subseteq layers[gen]
    /\ "hid" \in Demanded => "hidraw" \in layers[gen]

\* The kernel and pcscd have followed the last attach and detach.
Settled ==
  /\ \A e \in devices \cup readers : Present(e)
  /\ \E d \in devices : d.gen = gen /\ layers[gen] = Layers
  /\ \E r \in readers : r.gen = gen

\* "Reusing the same name before removal would poison the next attachment's
\* baseline": once the host has settled, a runner that waits for its device and its
\* layers sees them, so that it never times out on a device that is there.  (A
\* reader that is demanded without pcsc-lite never comes.)
BaselineClean ==
  Settled /\ ("pcsc" \in Demanded => pcscLite) =>
    /\ pc = "device" => Candidates # {}
    /\ pc = "ready" => Ready

\* It holds, over any number of restarts, where the reader is there and demanded:
\* only then does each test start with the reader up, so that a restart, which
\* waits for it to go, does not take its baseline before the device has gone.
RestartClean == pcscLite /\ "pcsc" \in Demanded => BaselineClean
=============================================================================
