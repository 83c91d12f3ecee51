---------------------------- MODULE AttachmentProofs ----------------------------
(***************************************************************************)
(* Proofs about Attachment, for any number of attachments and any devices  *)
(* of others: types, readiness, and, if the reader's removal is awaited,   *)
(* that device and reader are the right ones and are found.                *)
(***************************************************************************)
EXTENDS Attachment, FiniteSetTheorems, WellFoundedInduction, TLAPS

-----------------------------------------------------------------------------
(* The lowest free path or name.                                           *)

Below == {p \in Nat \X Nat : p[1] < p[2]}

LEMMA BelowWellFounded == IsWellFoundedOn(Below, Nat)
<1>1. Below = OpToRel(<, Nat)
  BY DEF OpToRel, Below
<1> QED
  BY <1>1, NatLessThanWellFounded

LEMMA LeastIsLeast ==
  ASSUME NEW S \in SUBSET Nat, S # {}
  PROVE  Least(S) \in S /\ \A q \in S : Least(S) <= q
<1>1. PICK m \in S : \A q \in S : <<q, m>> \notin Below
  BY BelowWellFounded, WFMin
<1>2. ASSUME NEW q \in S PROVE m <= q
  <2>1. <<q, m>> \notin Below
    BY <1>1
  <2>2. q \in Nat /\ m \in Nat
    OBVIOUS
  <2>3. ~(q < m)
    BY <2>1, <2>2 DEF Below
  <2> QED
    BY <2>2, <2>3
<1> QED
  BY <1>2 DEF Least

\* The entries of others stay, and each attachment has one at most.
Named(entries) ==
  /\ Others \subseteq entries
  /\ \A e \in entries : e.gen = 0 => e.slot \in Foreign
  /\ \A x, y \in entries : x.gen = y.gen /\ x.gen # 0 => x = y
  /\ \A x, y \in entries : x.slot = y.slot => x = y

\* There is always a free one: map a slot to the attachment that has it.
LEMMA FreeSlot ==
  ASSUME NEW entries \in SUBSET Entries, Named(entries),
         NEW g \in 1..MaxGen, \A e \in entries : e.gen # g
  PROVE  Least(Slots \ Slot(entries)) \in Slots \ Slot(entries)
<1> DEFINE At(s) == CHOOSE e \in entries : e.slot = s
           Others2 == (0-1)..MaxGen
           f == [s \in Slots |-> IF At(s).gen = 0 THEN s - 2 ELSE At(s).gen]
<1>1. MaxGen \in Nat /\ Foreign \subseteq 1..2
  BY AttachmentAssumption
<1>2. SUFFICES ASSUME Slots \subseteq Slot(entries) PROVE FALSE
  <2>1. Slots \in SUBSET Nat
    BY <1>1 DEF Slots
  <2> QED
    BY <1>2, <2>1, LeastIsLeast
<1>3. ASSUME NEW s \in Slots PROVE At(s) \in entries /\ At(s).slot = s
  BY <1>2 DEF Slot
<1> HIDE DEF At
<1>4. ASSUME NEW s \in Slots PROVE f[s] \in Others2 \ {g}
  <2>1. At(s).gen \in 0..MaxGen /\ At(s).gen # g
    BY <1>3 DEF Entries
  <2>2. CASE At(s).gen = 0
    <3>1. s \in 1..2 /\ f[s] = s - 2
      BY <1>1, <1>3, <2>2 DEF Named
    <3> QED
      BY <1>1, <3>1
  <2>3. CASE At(s).gen # 0
    <3>1. f[s] = At(s).gen
      BY <2>3
    <3> QED
      BY <1>1, <2>1, <2>3, <3>1
  <2> QED
    BY <2>2, <2>3
<1>5. f \in [Slots -> Others2 \ {g}]
  BY <1>4
<1>6. IsFiniteSet(Slots) /\ Cardinality(Slots) = MaxGen + 2
  BY <1>1, FS_Interval DEF Slots
<1>7. IsFiniteSet(Others2 \ {g}) /\ Cardinality(Others2 \ {g}) = MaxGen + 1
  <2>1. IsFiniteSet(Others2) /\ Cardinality(Others2) = MaxGen + 2
    BY <1>1, FS_Interval
  <2>2. g \in Others2
    BY <1>1
  <2> HIDE DEF Others2
  <2> QED
    BY <1>1, <2>1, <2>2, FS_RemoveElement
<1>8. PICK s, t \in Slots : s # t /\ f[s] = f[t]
  <2> HIDE DEF f, Others2
  <2> QED
    BY <1>1, <1>5, <1>6, <1>7, FS_PigeonHole
<1>9. s \in Nat /\ t \in Nat
  BY <1>1 DEF Slots
<1>10. At(s).gen \in 0..MaxGen /\ At(t).gen \in 0..MaxGen
  BY <1>3 DEF Entries
<1>11. CASE At(s).gen = 0 /\ At(t).gen = 0
  BY <1>8, <1>9, <1>11
<1>12. CASE At(s).gen = 0 /\ At(t).gen # 0
  <2>1. s \in 1..2
    BY <1>1, <1>3, <1>12, ZenonT(60) DEF Named
  <2> QED
    BY <1>1, <1>8, <1>10, <1>12, <2>1
<1>13. CASE At(s).gen # 0 /\ At(t).gen = 0
  <2>1. t \in 1..2
    BY <1>1, <1>3, <1>13 DEF Named
  <2> QED
    BY <1>1, <1>8, <1>10, <1>13, <2>1
<1>14. CASE At(s).gen # 0 /\ At(t).gen # 0
  <2>1. At(s) = At(t)
    BY <1>3, <1>8, <1>14 DEF Named
  <2> QED
    BY <1>3, <1>8, <2>1
<1> QED
  BY <1>11, <1>12, <1>13, <1>14

\* An entry in a free slot for an attachment that has none.
LEMMA NamedAdd ==
  ASSUME NEW entries \in SUBSET Entries, Named(entries), NEW g \in 1..MaxGen,
         \A e \in entries : e.gen # g
  PROVE  LET new == [gen |-> g, slot |-> Least(Slots \ Slot(entries))] IN
           /\ entries \cup {new} \in SUBSET Entries
           /\ Named(entries \cup {new})
<1> DEFINE new == [gen |-> g, slot |-> Least(Slots \ Slot(entries))]
<1>1. new.gen = g /\ g # 0 /\ new.slot \in Slots \ Slot(entries)
  BY FreeSlot, AttachmentAssumption
<1>2. new \in Entries
  BY <1>1, AttachmentAssumption DEF Entries
<1>3. \A e \in entries : e.slot # new.slot /\ e.gen # new.gen
  BY <1>1 DEF Slot
<1> HIDE DEF new
<1> QED
  BY <1>1, <1>2, <1>3 DEF Named, new

LEMMA NamedRemove ==
  ASSUME NEW entries, Named(entries), NEW e \in entries, e.gen # 0
  PROVE  Named(entries \ {e})
<1>1. e \notin Others
  BY DEF Others
<1> QED
  BY <1>1 DEF Named
-----------------------------------------------------------------------------
(* Types, and the device.                                                  *)

Names == Named(devices) /\ Named(readers)

\* Every device but that of the current attachment is in the baseline.
Follows ==
  /\ pc \in {"start", "baseline", "attach", "removal"} => ~linked
  /\ pc \in {"device", "ready", "test"} => linked
  /\ pc \in {"device", "ready", "test", "removal"} => gen # 0
  /\ pc \in {"baseline", "attach"} => gen < MaxGen /\ \A d \in devices : d.slot \in before
  /\ pc = "device" => \A d \in devices : d.gen = gen \/ d.slot \in before
  /\ pc \in {"ready", "test"} => [gen |-> gen, slot |-> devicePath] \in devices
  /\ linked => gen # 0

AttachInv == TypeOK /\ Names /\ Follows /\ ReadyAsDemanded

LEMMA AttachInit == Init => AttachInv
<1> SUFFICES ASSUME Init PROVE AttachInv
  OBVIOUS
<1>1. MaxGen \in Nat /\ Foreign \subseteq 1..2
  BY AttachmentAssumption
<1>2. Others \subseteq Entries
  BY <1>1 DEF Others, Entries, Slots
<1>3. Named(Others)
  BY DEF Named, Others
<1>5. layers \in [0..MaxGen -> SUBSET Layers]
  BY DEF Init
<1>6. TypeOK
  <2>1. \A x, y \in Others : x.slot = y.slot => x = y
    BY <1>3 DEF Named
  <2>2. /\ pc = "start" /\ required \in Requirements /\ pcscLite \in BOOLEAN /\ gen = 0 /\ linked = FALSE
        /\ devices = Others /\ readers = Others /\ before = {} /\ readersBefore = {}
        /\ devicePath = 0 /\ reader = 0
    BY DEF Init
  <2>3. /\ devices \subseteq Entries /\ readers \subseteq Entries
        /\ \A x, y \in devices : x.slot = y.slot => x = y
        /\ \A x, y \in readers : x.slot = y.slot => x = y
    BY <1>2, <2>1, <2>2
  <2>4. gen \in 0..MaxGen /\ before \subseteq Slots /\ readersBefore \subseteq Slots
    BY <1>1, <2>2
  <2>5. /\ required \in Requirements /\ pcscLite \in BOOLEAN /\ linked \in BOOLEAN
        /\ devicePath \in Slots \cup {0} /\ reader \in Slots \cup {0}
        /\ pc \in {"start", "baseline", "attach", "device", "ready", "test", "removal", "failed"}
    BY <2>2
  <2> QED
    BY <1>5, <2>2, <2>3, <2>4, <2>5 DEF TypeOK
<1> QED
  BY <1>3, <1>6 DEF Init, AttachInv, Names, Follows, ReadyAsDemanded

LEMMA NamesStep == AttachInv /\ [Next]_vars => Names' /\ (devices \cup readers \subseteq Entries)'
<1> SUFFICES ASSUME AttachInv, [Next]_vars PROVE Names' /\ (devices \cup readers \subseteq Entries)'
  OBVIOUS
<1> USE DEF AttachInv
<1>0. devices \subseteq Entries /\ readers \subseteq Entries /\ gen \in 0..MaxGen /\ MaxGen \in Nat
  BY AttachmentAssumption DEF TypeOK
<1>n. ASSUME UNCHANGED <<devices, readers>> PROVE Names' /\ (devices \cup readers \subseteq Entries)'
  BY <1>0, <1>n DEF Names, Named
<1>1. ASSUME BeforeDevices PROVE Names' /\ (devices \cup readers \subseteq Entries)'
  BY <1>1, <1>n DEF BeforeDevices, runner, host, Goto, vars
<1>2. ASSUME BeforeReaders PROVE Names' /\ (devices \cup readers \subseteq Entries)'
  BY <1>2, <1>n DEF BeforeReaders, runner, host, Goto, vars
<1>3. ASSUME UsbipAttach PROVE Names' /\ (devices \cup readers \subseteq Entries)'
  BY <1>3, <1>n DEF UsbipAttach, runner, host, Goto, vars
<1>4. ASSUME FindDevice PROVE Names' /\ (devices \cup readers \subseteq Entries)'
  BY <1>4, <1>n DEF FindDevice, runner, host, Goto, vars
<1>5. ASSUME WaitReady PROVE Names' /\ (devices \cup readers \subseteq Entries)'
  BY <1>5, <1>n DEF WaitReady, runner, host, Goto, vars
<1>6. ASSUME Fails PROVE Names' /\ (devices \cup readers \subseteq Entries)'
  BY <1>6, <1>n DEF Fails, runner, host, Goto, vars
<1>7. ASSUME UsbipDetach PROVE Names' /\ (devices \cup readers \subseteq Entries)'
  BY <1>7, <1>n DEF UsbipDetach, runner, host, Goto, vars
<1>8. ASSUME WaitReaderRemoved PROVE Names' /\ (devices \cup readers \subseteq Entries)'
  BY <1>8, <1>n DEF WaitReaderRemoved, runner, host, Goto, vars
<1>9. ASSUME Over PROVE Names' /\ (devices \cup readers \subseteq Entries)'
  BY <1>9, <1>n DEF Over, runner, host, Goto, vars
<1>10. ASSUME DeviceAppears PROVE Names' /\ (devices \cup readers \subseteq Entries)'
  <2>1. gen \in 1..MaxGen /\ \A d \in devices : d.gen # gen
    BY <1>10, <1>0 DEF DeviceAppears, Follows
  <2>2. devices' = devices \cup {[gen |-> gen, slot |-> Least(Slots \ Slot(devices))]} /\ readers' = readers
    BY <1>10 DEF DeviceAppears
  <2>3. Named(devices') /\ devices' \subseteq Entries
    BY <1>0, <2>1, <2>2, NamedAdd DEF Names
  <2> QED
    BY <1>0, <2>2, <2>3 DEF Names
<1>11. ASSUME LayerAppears PROVE Names' /\ (devices \cup readers \subseteq Entries)'
  BY <1>11, <1>n DEF LayerAppears, runner, host, Goto, vars
<1>12. ASSUME DeviceGoes PROVE Names' /\ (devices \cup readers \subseteq Entries)'
  <2>1. PICK d \in devices : ~Present(d) /\ devices' = devices \ {d} /\ readers' = readers
    BY <1>12 DEF DeviceGoes
  <2>2. Named(devices')
    BY <2>1, NamedRemove DEF Present, Names
  <2> QED
    BY <1>0, <2>1, <2>2 DEF Names
<1>13. ASSUME ReaderAppears PROVE Names' /\ (devices \cup readers \subseteq Entries)'
  <2>1. PICK d \in devices :
          /\ \A r \in readers : r.gen # d.gen
          /\ readers' = readers \cup {[gen |-> d.gen, slot |-> Least(Slots \ Slot(readers))]}
          /\ devices' = devices
    BY <1>13 DEF ReaderAppears
  <2>2. d.gen # 0
    <3>1. ASSUME d.gen = 0 PROVE [gen |-> 0, slot |-> d.slot] \in readers
      BY <3>1 DEF Names, Named, Others
    <3> QED
      BY <2>1, <3>1
  <2>3. d.gen \in 1..MaxGen
    BY <1>0, <2>2 DEF Entries
  <2>4. Named(readers') /\ readers' \subseteq Entries
    BY <1>0, <2>1, <2>3, NamedAdd DEF Names
  <2> QED
    BY <1>0, <2>1, <2>4 DEF Names
<1>14. ASSUME ReaderGoes PROVE Names' /\ (devices \cup readers \subseteq Entries)'
  <2>1. PICK r \in readers : /\ \A d \in devices : d.gen # r.gen
                             /\ readers' = readers \ {r} /\ devices' = devices
    BY <1>14 DEF ReaderGoes
  <2>2. r.gen # 0
    <3>1. ASSUME r.gen = 0 PROVE [gen |-> 0, slot |-> r.slot] \in devices
      BY <3>1 DEF Names, Named, Others
    <3> QED
      BY <2>1, <3>1
  <2>3. Named(readers')
    BY <2>1, <2>2, NamedRemove DEF Names
  <2> QED
    BY <1>0, <2>1, <2>3 DEF Names
<1>15. ASSUME UNCHANGED vars PROVE Names' /\ (devices \cup readers \subseteq Entries)'
  BY <1>15, <1>n DEF vars, host
<1> QED
  BY <1>1, <1>2, <1>3, <1>4, <1>5, <1>6, <1>7, <1>8, <1>9, <1>10, <1>11, <1>12, <1>13, <1>14,
     <1>15
  DEF Next

LEMMA TypeStep == AttachInv /\ [Next]_vars => TypeOK'
<1> SUFFICES ASSUME AttachInv, [Next]_vars PROVE TypeOK'
  OBVIOUS
<1>0. /\ devices' \subseteq Entries /\ readers' \subseteq Entries
      /\ \A x, y \in devices' : x.slot = y.slot => x = y
      /\ \A x, y \in readers' : x.slot = y.slot => x = y
  BY NamesStep DEF Names, Named
<1>n. MaxGen \in Nat /\ Slot(devices) \subseteq Slots /\ Slot(readers) \subseteq Slots /\ Slots \subseteq Nat
  BY AttachmentAssumption DEF AttachInv, TypeOK, Entries, Slot, Slots
<1> USE DEF AttachInv, TypeOK, setting, runner, host
<1>1. ASSUME BeforeDevices PROVE TypeOK'
  BY <1>1, <1>0, <1>n DEF BeforeDevices, Goto
<1>2. ASSUME BeforeReaders PROVE TypeOK'
  BY <1>2, <1>0, <1>n DEF BeforeReaders, Goto, PcscReaders
<1>3. ASSUME UsbipAttach PROVE TypeOK'
  BY <1>3, <1>0, <1>n DEF UsbipAttach, Goto, Follows
<1>4. ASSUME FindDevice PROVE TypeOK'
  <2>1. Candidates \in SUBSET Nat /\ Candidates # {} /\ Candidates \subseteq Slots
    BY <1>4, <1>n DEF FindDevice, Candidates
  <2>2. devicePath' \in Slots
    BY <1>4, <2>1, LeastIsLeast DEF FindDevice
  <2> QED
    BY <1>4, <1>0, <2>2 DEF FindDevice, Goto
<1>5. ASSUME WaitReady PROVE TypeOK'
  <2>1. NewReaders \in SUBSET Nat /\ NewReaders \subseteq Slots
    BY <1>n DEF NewReaders, PcscReaders
  <2>2. reader' \in Slots \cup {0}
    BY <1>5, <2>1, LeastIsLeast DEF WaitReady
  <2> QED
    BY <1>5, <1>0, <2>2 DEF WaitReady, Goto
<1>6. ASSUME Fails PROVE TypeOK'
  BY <1>6, <1>0 DEF Fails
<1>7. ASSUME UsbipDetach PROVE TypeOK'
  BY <1>7, <1>0 DEF UsbipDetach, Goto, AfterDetach
<1>8. ASSUME WaitReaderRemoved PROVE TypeOK'
  BY <1>8, <1>0 DEF WaitReaderRemoved, Goto
<1>9. ASSUME Over PROVE TypeOK'
  BY <1>9, <1>0 DEF Over, vars
<1>10. ASSUME DeviceAppears PROVE TypeOK'
  BY <1>10, <1>0 DEF DeviceAppears
<1>11. ASSUME LayerAppears PROVE TypeOK'
  <2>1. PICK d \in devices : \E layer \in Layers : layers' = [layers EXCEPT ![d.gen] = @ \cup {layer}]
    BY <1>11 DEF LayerAppears
  <2>2. PICK layer \in Layers : layers' = [layers EXCEPT ![d.gen] = @ \cup {layer}]
    BY <2>1
  <2>3. layers \in [0..MaxGen -> SUBSET Layers]
    OBVIOUS
  <2>4. layers' \in [0..MaxGen -> SUBSET Layers]
    <3> HIDE DEF AttachInv, TypeOK, Layers
    <3> QED
      BY <2>2, <2>3
  <2> QED
    BY <1>11, <1>0, <2>4 DEF LayerAppears
<1>12. ASSUME DeviceGoes PROVE TypeOK'
  BY <1>12, <1>0 DEF DeviceGoes
<1>13. ASSUME ReaderAppears PROVE TypeOK'
  BY <1>13, <1>0 DEF ReaderAppears
<1>14. ASSUME ReaderGoes PROVE TypeOK'
  BY <1>14, <1>0 DEF ReaderGoes
<1>15. ASSUME UNCHANGED vars PROVE TypeOK'
  BY <1>15, <1>0 DEF vars
<1> QED
  BY <1>1, <1>2, <1>3, <1>4, <1>5, <1>6, <1>7, <1>8, <1>9, <1>10, <1>11, <1>12, <1>13, <1>14,
     <1>15
  DEF Next

LEMMA FollowsStep == AttachInv /\ [Next]_vars => Follows'
<1> SUFFICES ASSUME AttachInv, [Next]_vars PROVE Follows'
  OBVIOUS
<1>n. /\ gen \in 0..MaxGen /\ MaxGen \in Nat
      /\ \A d \in devices : d \in [gen : 0..MaxGen, slot : Slots]
  BY AttachmentAssumption DEF AttachInv, TypeOK, Entries
<1> USE DEF AttachInv, Follows, setting, runner, host
<1>1. ASSUME BeforeDevices PROVE Follows'
  BY <1>1, <1>n DEF BeforeDevices, Goto, Slot
<1>2. ASSUME BeforeReaders PROVE Follows'
  BY <1>2, <1>n DEF BeforeReaders, Goto
<1>3. ASSUME UsbipAttach PROVE Follows'
  BY <1>3, <1>n DEF UsbipAttach, Goto
<1>4. ASSUME FindDevice PROVE Follows'
  <2>1. Candidates \in SUBSET Nat /\ Candidates # {}
    BY <1>4, AttachmentAssumption, <1>n DEF FindDevice, Candidates, Slot, Slots
  <2>2. devicePath' \in Slot(devices) \ before
    BY <1>4, <2>1, LeastIsLeast DEF FindDevice, Candidates
  <2>3. PICK d \in devices : d.slot = devicePath'
    BY <2>2 DEF Slot
  <2>4. d.gen = gen
    BY <1>4, <2>2, <2>3 DEF FindDevice, Goto
  <2>5. d = [gen |-> gen, slot |-> devicePath']
    BY <1>n, <2>3, <2>4
  <2> QED
    BY <1>4, <2>5 DEF FindDevice, Goto
<1>5. ASSUME WaitReady PROVE Follows'
  BY <1>5, <1>n DEF WaitReady, Goto
<1>6. ASSUME Fails PROVE Follows'
  BY <1>6, <1>n DEF Fails
<1>7. ASSUME UsbipDetach PROVE Follows'
  BY <1>7, <1>n DEF UsbipDetach, Goto, AfterDetach
<1>8. ASSUME WaitReaderRemoved PROVE Follows'
  BY <1>8, <1>n DEF WaitReaderRemoved, Goto
<1>9. ASSUME Over PROVE Follows'
  BY <1>9, <1>n DEF Over, vars
<1>10. ASSUME DeviceAppears PROVE Follows'
  BY <1>10, <1>n DEF DeviceAppears
<1>11. ASSUME LayerAppears PROVE Follows'
  BY <1>11, <1>n DEF LayerAppears
<1>12. ASSUME DeviceGoes PROVE Follows'
  <2>1. PICK d \in devices : ~Present(d) /\ devices' = devices \ {d}
    BY <1>12 DEF DeviceGoes
  <2>2. pc \in {"ready", "test"} => [gen |-> gen, slot |-> devicePath] \in devices'
    BY <2>1 DEF Present
  <2> QED
    BY <1>12, <2>1, <2>2 DEF DeviceGoes
<1>13. ASSUME ReaderAppears PROVE Follows'
  BY <1>13, <1>n DEF ReaderAppears
<1>14. ASSUME ReaderGoes PROVE Follows'
  BY <1>14, <1>n DEF ReaderGoes
<1>15. ASSUME UNCHANGED vars PROVE Follows'
  BY <1>15, <1>n DEF vars
<1> QED
  BY <1>1, <1>2, <1>3, <1>4, <1>5, <1>6, <1>7, <1>8, <1>9, <1>10, <1>11, <1>12, <1>13, <1>14,
     <1>15
  DEF Next

\* Only our own device has our path.
LEMMA ProbedOwn == ASSUME AttachInv, pc \in {"ready", "test"} PROVE Probed = layers[gen]
<1> DEFINE own == [gen |-> gen, slot |-> devicePath]
<1>1. own \in devices /\ own.gen = gen /\ own.slot = devicePath
  BY DEF AttachInv, Follows
<1> HIDE DEF own
<1>2. {e \in devices : e.slot = devicePath} = {own}
  BY <1>1 DEF AttachInv, TypeOK
<1>3. Probed = UNION {layers[d.gen] : d \in {own}}
  BY <1>2 DEF Probed
<1> QED
  BY <1>1, <1>3

LEMMA ReadyStep == AttachInv /\ [Next]_vars => ReadyAsDemanded'
<1> SUFFICES ASSUME AttachInv, [Next]_vars PROVE ReadyAsDemanded'
  OBVIOUS
<1>n. gen \in 0..MaxGen /\ layers \in [0..MaxGen -> SUBSET Layers]
  BY DEF AttachInv, TypeOK
<1> USE DEF AttachInv, ReadyAsDemanded, Demanded, setting, runner, host
<1>1. ASSUME BeforeDevices PROVE ReadyAsDemanded'
  BY <1>1, <1>n DEF BeforeDevices, Goto
<1>2. ASSUME BeforeReaders PROVE ReadyAsDemanded'
  BY <1>2, <1>n DEF BeforeReaders, Goto
<1>3. ASSUME UsbipAttach PROVE ReadyAsDemanded'
  BY <1>3, <1>n DEF UsbipAttach, Goto
<1>4. ASSUME FindDevice PROVE ReadyAsDemanded'
  BY <1>4, <1>n DEF FindDevice, Goto
<1>5. ASSUME WaitReady PROVE ReadyAsDemanded'
  <2>3. Probed = layers[gen]
    BY <1>5, ProbedOwn DEF WaitReady, Goto
  <2>4. ASSUME NEW layer \in Demanded, layer \in Interfaces
        PROVE  layer \in layers[gen] /\ (layer = "hid" => "hidraw" \in layers[gen])
    BY <1>5, <2>3, <2>4 DEF WaitReady, Ready, Met, Interfaces
  <2>5. "hid" \in Interfaces
    BY DEF Interfaces
  <2> HIDE DEF Demanded
  <2>6. Demanded' = Demanded /\ layers' = layers /\ gen' = gen
    BY <1>5 DEF WaitReady, Goto, Demanded
  <2> QED
    BY <2>4, <2>5, <2>6
<1>6. ASSUME Fails PROVE ReadyAsDemanded'
  BY <1>6, <1>n DEF Fails
<1>7. ASSUME UsbipDetach PROVE ReadyAsDemanded'
  BY <1>7, <1>n DEF UsbipDetach, Goto, AfterDetach
<1>8. ASSUME WaitReaderRemoved PROVE ReadyAsDemanded'
  BY <1>8, <1>n DEF WaitReaderRemoved, Goto
<1>9. ASSUME Over PROVE ReadyAsDemanded'
  BY <1>9, <1>n DEF Over, vars
<1>10. ASSUME DeviceAppears PROVE ReadyAsDemanded'
  BY <1>10, <1>n DEF DeviceAppears
<1>11. ASSUME LayerAppears PROVE ReadyAsDemanded'
  <2>1. layers[gen] \subseteq layers'[gen] /\ UNCHANGED <<pc, required, pcscLite, gen>>
    BY <1>11, <1>n DEF LayerAppears
  <2> QED
    BY <2>1
<1>12. ASSUME DeviceGoes PROVE ReadyAsDemanded'
  <2>1. PICK d \in devices : ~Present(d) /\ layers' = [layers EXCEPT ![d.gen] = {}]
    BY <1>12 DEF DeviceGoes
  <2>2. pc = "test" => layers'[gen] = layers[gen]
    BY <1>n, <2>1 DEF Present, Follows
  <2> QED
    BY <1>12, <2>2 DEF DeviceGoes
<1>13. ASSUME ReaderAppears PROVE ReadyAsDemanded'
  BY <1>13, <1>n DEF ReaderAppears
<1>14. ASSUME ReaderGoes PROVE ReadyAsDemanded'
  BY <1>14, <1>n DEF ReaderGoes
<1>15. ASSUME UNCHANGED vars PROVE ReadyAsDemanded'
  BY <1>15, <1>n DEF vars
<1> QED
  BY <1>1, <1>2, <1>3, <1>4, <1>5, <1>6, <1>7, <1>8, <1>9, <1>10, <1>11, <1>12, <1>13, <1>14,
     <1>15
  DEF Next

LEMMA AttachStep == AttachInv /\ [Next]_vars => AttachInv'
BY NamesStep, TypeStep, FollowsStep, ReadyStep DEF AttachInv

LEMMA Attached == Spec => []AttachInv
BY AttachInit, AttachStep, PTL DEF Spec

\* Type correctness, for any number of attachments: there is always a free path
\* and name, and no two devices or readers share one.
THEOREM TypeCorrect == Spec => []TypeOK
<1>1. AttachInv => TypeOK
  BY DEF AttachInv
<1> QED
  BY <1>1, Attached, PTL

\* No test starts before every layer it asked for has come up on its own device,
\* for any requirements, and with or without waiting for the reader's removal.
THEOREM ReadyInTime == Spec => []ReadyAsDemanded
<1>1. AttachInv => ReadyAsDemanded
  BY DEF AttachInv
<1> QED
  BY <1>1, Attached, PTL
-----------------------------------------------------------------------------
(* The reader, if its removal is awaited.                                  *)

\* The name the reader of every attachment gets.
Home == Least(Slots \ Foreign)

Awaited == WaitsForReader /\ "pcsc" \in Demanded

\* Between attachments nothing of ours is left, and during one there is nothing of
\* an earlier one; so the baselines are those of others and the name is the same
\* each time.
Restarted ==
  /\ pc \in {"start", "baseline", "attach"} => devices = Others /\ readers = Others
  /\ pc \in {"start", "baseline", "attach"} /\ gen # 0 => reader = Home
  /\ pc \in {"device", "ready"} /\ gen # 1 => reader = Home
  /\ pc \in {"test", "removal"} => reader = Home /\ pcscLite
  /\ pc \in {"baseline", "attach", "device", "ready"} => before = Foreign
  /\ pc \in {"attach", "device", "ready"} => readersBefore = IF pcscLite THEN Foreign ELSE {}
  /\ pc \in {"device", "ready", "test", "removal"} =>
       /\ \A e \in devices \cup readers : e.gen \in {0, gen}
       /\ \A r \in readers : r.gen # 0 => r.slot = Home
  /\ pc \in {"test", "removal"} /\ (\E d \in devices : d.gen = gen) =>
       [gen |-> gen, slot |-> Home] \in readers

RestartInv == AttachInv /\ (Awaited => Restarted)

LEMMA HomeFree == MaxGen # 0 => Home \in Slots \ Foreign /\ Home # 0
<1> SUFFICES ASSUME MaxGen # 0 PROVE Home \in Slots \ Foreign /\ Home # 0
  OBVIOUS
<1>1. 3 \in Slots \ Foreign /\ Slots \ Foreign \in SUBSET Nat /\ 0 \notin Slots
  BY AttachmentAssumption DEF Slots
<1> QED
  BY <1>1, LeastIsLeast DEF Home

LEMMA OthersOnly ==
  ASSUME NEW entries \in SUBSET Entries, Named(entries), \A e \in entries : e.gen = 0
  PROVE  entries = Others
<1>1. ASSUME NEW e \in entries PROVE e \in Others
  <2>1. e = [gen |-> 0, slot |-> e.slot]
    BY DEF Entries
  <2> QED
    BY <2>1 DEF Others, Named
<1> QED
  BY <1>1 DEF Named

LEMMA OthersSlots == Slot(Others) = Foreign /\ \A e \in Others : e.gen = 0
<1>1. \A e \in Others : e.gen = 0 /\ e.slot \in Foreign
  BY DEF Others
<1>2. ASSUME NEW s \in Foreign PROVE s \in Slot(Others)
  <2>1. [gen |-> 0, slot |-> s] \in Others
    BY DEF Others
  <2>2. [gen |-> 0, slot |-> s].slot = s
    OBVIOUS
  <2> QED
    BY <2>1, <2>2 DEF Slot
<1>3. ASSUME NEW s \in Slot(Others) PROVE s \in Foreign
  BY <1>1 DEF Slot
<1> QED
  BY <1>1, <1>2, <1>3

LEMMA RestartInit == Init => RestartInv
BY AttachInit DEF Init, RestartInv, Restarted

LEMMA RestartStep == RestartInv /\ [Next]_vars => (Awaited => Restarted)'
<1> SUFFICES ASSUME RestartInv, [Next]_vars, Awaited' PROVE Restarted'
  OBVIOUS
<1>0. UNCHANGED setting
  BY DEF Next, vars, BeforeDevices, BeforeReaders, UsbipAttach, FindDevice, WaitReady, Fails, UsbipDetach,
     WaitReaderRemoved, Over, DeviceAppears, LayerAppears, DeviceGoes, ReaderAppears, ReaderGoes, Goto
<1>a. Awaited /\ AttachInv /\ Restarted
  BY <1>0 DEF Awaited, Demanded, setting, RestartInv
<1>b. /\ gen \in 0..MaxGen /\ MaxGen \in Nat
      /\ devices \in SUBSET Entries /\ readers \in SUBSET Entries /\ Named(devices) /\ Named(readers)
  BY <1>a, AttachmentAssumption DEF AttachInv, TypeOK, Names
<1>c. gen # 0 => Home \in Slots \ Foreign /\ Home # 0
  BY <1>b, HomeFree
<1>d. /\ pc \in {"start", "baseline", "attach", "removal"} => ~linked
      /\ pc \in {"device", "ready", "test", "removal"} => gen # 0
      /\ pc \in {"ready", "test"} => [gen |-> gen, slot |-> devicePath] \in devices
  BY <1>a DEF AttachInv, Follows
<1>e. \A d \in devices : d.gen = 0 => \E r \in readers : r.gen = 0
  <2>1. ASSUME NEW d \in devices, d.gen = 0 PROVE [gen |-> 0, slot |-> d.slot] \in readers
    BY <1>b, <2>1 DEF Named, Others
  <2> QED
    BY <2>1
<1>f. \A r \in readers : r.gen = 0 => \E d \in devices : d.gen = 0
  <2>1. ASSUME NEW r \in readers, r.gen = 0 PROVE [gen |-> 0, slot |-> r.slot] \in devices
    BY <1>b, <2>1 DEF Named, Others
  <2> QED
    BY <2>1
<1> USE DEF Restarted, setting, runner, host
<1>1. ASSUME BeforeDevices PROVE Restarted'
  <2>1. pc = "start" /\ pc' = "baseline" /\ before' = Slot(devices)
        /\ UNCHANGED <<readersBefore, devicePath, reader, host>>
    BY <1>1 DEF BeforeDevices, Goto
  <2>2. before' = Foreign
    BY <1>a, <2>1, OthersSlots
  <2> QED
    BY <1>a, <2>1, <2>2
<1>2. ASSUME BeforeReaders PROVE Restarted'
  <2>1. pc = "baseline" /\ pc' = "attach" /\ readersBefore' = PcscReaders
        /\ UNCHANGED <<before, devicePath, reader, host>>
    BY <1>2 DEF BeforeReaders, Goto
  <2>2. readersBefore' = IF pcscLite THEN Foreign ELSE {}
    BY <1>a, <2>1, OthersSlots DEF PcscReaders
  <2> QED
    BY <1>0, <1>a, <2>1, <2>2
<1>3. ASSUME UsbipAttach PROVE Restarted'
  <2>1. /\ pc = "attach" /\ pc' = "device" /\ gen' = gen + 1
        /\ UNCHANGED <<devices, layers, readers, runner>>
    BY <1>3 DEF UsbipAttach, Goto
  <2>2. \A e \in devices \cup readers : e.gen = 0
    BY <1>a, <2>1, OthersSlots
  <2> QED
    BY <1>0, <1>a, <1>b, <2>1, <2>2
<1>4. ASSUME FindDevice PROVE Restarted'
  BY <1>4, <1>0, <1>a, <1>b, <1>d DEF FindDevice, Goto
<1>5. ASSUME WaitReady PROVE Restarted'
  <2>1. /\ pc = "ready" /\ pc' = "test" /\ UNCHANGED <<before, readersBefore, devicePath, host>>
        /\ reader' = IF gen = 1 /\ NewReaders # {} THEN Least(NewReaders) ELSE reader
    BY <1>5 DEF WaitReady, Goto
  <2>2. NewReaders # {}
    BY <1>5, <1>a DEF WaitReady, Ready, Met, Awaited
  <2>3. pcscLite /\ NewReaders = Slot(readers) \ Foreign
    BY <1>a, <2>1, <2>2 DEF NewReaders, PcscReaders
  <2>4. ASSUME NEW s \in NewReaders PROVE s = Home /\ [gen |-> gen, slot |-> Home] \in readers
    <3>1. PICK r \in readers : r.slot = s
      BY <2>3, <2>4 DEF Slot
    <3>2. r.gen # 0
      BY <1>b, <2>3, <2>4, <3>1 DEF Named
    <3>3. r.gen = gen /\ r.slot = Home
      BY <1>a, <2>1, <3>2
    <3>4. r = [gen |-> gen, slot |-> Home]
      BY <1>b, <3>3 DEF Entries
    <3> QED
      BY <3>1, <3>3, <3>4
  <2>5. NewReaders = {Home} /\ [gen |-> gen, slot |-> Home] \in readers
    BY <2>2, <2>4
  <2>6. Home \in Nat
    <3>1. Home \in Slots
      BY <1>c, <1>d, <2>1
    <3> QED
      BY <1>b, <3>1 DEF Slots
  <2>7. Least(NewReaders) = Home
    BY <2>5, <2>6, LeastIsLeast
  <2>8. reader' = Home
    BY <1>a, <2>1, <2>5, <2>7
  <2> QED
    BY <1>0, <1>a, <2>1, <2>3, <2>5, <2>8
<1>6. ASSUME Fails PROVE Restarted'
  BY <1>6, <1>0, <1>a, <1>b, <1>d DEF Fails
<1>7. ASSUME UsbipDetach PROVE Restarted'
  <2>1. pc = "test" /\ reader = Home /\ reader' = reader
        /\ UNCHANGED <<before, readersBefore, gen, devices, layers, readers>>
    BY <1>7, <1>a DEF UsbipDetach, Goto
  <2>2. pc' = "removal"
    <3>1. reader # 0
      BY <1>c, <1>d, <2>1
    <3>2. AfterDetach = "removal"
      BY <1>a, <3>1 DEF AfterDetach, Awaited
    <3> QED
      BY <1>7, <3>2 DEF UsbipDetach, Goto
  <2> QED
    BY <1>0, <1>a, <2>1, <2>2
<1>8. ASSUME WaitReaderRemoved PROVE Restarted'
  <2>1. pc = "removal" /\ pc' = "start" /\ UNCHANGED <<runner, host>>
    BY <1>8 DEF WaitReaderRemoved, Goto
  <2>2. Home \notin Slot(readers)
    BY <1>8, <1>a, <2>1 DEF WaitReaderRemoved, ReaderRemoved, PcscReaders
  <2>3. \A r \in readers : r.slot # Home
    BY <2>2 DEF Slot
  <2>4. \A r \in readers : r.gen = 0
    BY <1>a, <2>1, <2>3
  <2>5. \A d \in devices : d.gen = 0
    <3>1. [gen |-> gen, slot |-> Home] \notin readers
      BY <2>3
    <3> QED
      BY <1>a, <2>1, <3>1
  <2>6. devices = Others /\ readers = Others
    BY <1>b, <2>4, <2>5, OthersOnly
  <2> QED
    BY <1>a, <2>1, <2>6
<1>9. ASSUME Over PROVE Restarted'
  BY <1>9, <1>0, <1>a, <1>b, <1>d DEF Over, vars
<1>10. ASSUME DeviceAppears PROVE Restarted'
  <2>1. /\ linked /\ (\A d \in devices : d.gen # gen)
        /\ UNCHANGED <<pc, setting, runner, gen, linked, layers, readers>>
    BY <1>10 DEF DeviceAppears
  <2> DEFINE new == [gen |-> gen, slot |-> Least(Slots \ Slot(devices))]
  <2>2. devices' = devices \cup {new} /\ new.gen = gen
    BY <1>10 DEF DeviceAppears
  <2> HIDE DEF new
  <2>3. pc \notin {"start", "baseline", "attach", "removal", "test"}
    <3>1. pc = "test" => \E d \in devices : d.gen = gen
      BY <1>d
    <3> QED
      BY <1>d, <2>1, <3>1
  <2> QED
    BY <1>a, <2>1, <2>2, <2>3
<1>11. ASSUME LayerAppears PROVE Restarted'
  BY <1>11, <1>0, <1>a, <1>b, <1>d DEF LayerAppears
<1>12. ASSUME DeviceGoes PROVE Restarted'
  <2>1. PICK d \in devices : ~Present(d) /\ devices' = devices \ {d}
    BY <1>12 DEF DeviceGoes
  <2>2. UNCHANGED <<pc, setting, runner, gen, linked, readers>>
    BY <1>12 DEF DeviceGoes
  <2>3. pc \notin {"start", "baseline", "attach"}
    BY <1>a, <2>1, OthersSlots DEF Present
  <2> QED
    BY <1>a, <2>1, <2>2, <2>3
<1>13. ASSUME ReaderAppears PROVE Restarted'
  <2>1. PICK d \in devices :
          /\ \A r \in readers : r.gen # d.gen
          /\ readers' = readers \cup {[gen |-> d.gen, slot |-> Least(Slots \ Slot(readers))]}
    BY <1>13 DEF ReaderAppears
  <2>2. UNCHANGED <<pc, setting, runner, gen, linked, devices, layers>>
    BY <1>13 DEF ReaderAppears
  <2>3. d.gen # 0
    BY <1>e, <2>1
  <2>4. pc \notin {"start", "baseline", "attach"}
    BY <1>a, <2>3, OthersSlots
  <2>5. CASE pc \notin {"device", "ready", "test", "removal"}
    BY <2>2, <2>4, <2>5
  <2>6. CASE pc \in {"device", "ready", "test", "removal"}
    <3>1. d.gen = gen
      BY <1>a, <2>3, <2>6
    <3>2. \A r \in readers : r.gen = 0
      BY <1>a, <2>1, <2>6, <3>1
    <3>3. Slot(readers) = Foreign
      BY <1>b, <3>2, OthersOnly, OthersSlots
    <3>4. readers' = readers \cup {[gen |-> gen, slot |-> Home]}
      BY <2>1, <3>1, <3>3 DEF Home
    <3> QED
      BY <1>a, <2>2, <2>6, <3>4
  <2> QED
    BY <2>5, <2>6
<1>14. ASSUME ReaderGoes PROVE Restarted'
  <2>1. PICK r \in readers : (\A d \in devices : d.gen # r.gen) /\ readers' = readers \ {r}
    BY <1>14 DEF ReaderGoes
  <2>2. UNCHANGED <<pc, setting, runner, gen, linked, devices, layers>>
    BY <1>14 DEF ReaderGoes
  <2>3. r.gen # 0
    BY <1>f, <2>1
  <2>4. pc \notin {"start", "baseline", "attach"}
    BY <1>a, <2>3, OthersSlots
  <2>5. (\E d \in devices : d.gen = gen) => r # [gen |-> gen, slot |-> Home]
    BY <2>1
  <2> QED
    BY <1>a, <2>1, <2>2, <2>4, <2>5
<1>15. ASSUME UNCHANGED vars PROVE Restarted'
  BY <1>15, <1>0, <1>a, <1>b, <1>d DEF vars
<1> QED
  BY <1>1, <1>2, <1>3, <1>4, <1>5, <1>6, <1>7, <1>8, <1>9, <1>10, <1>11, <1>12, <1>13, <1>14,
     <1>15
  DEF Next

LEMMA Restartable == Spec => []RestartInv
<1>1. RestartInv /\ [Next]_vars => RestartInv'
  BY AttachStep, RestartStep DEF RestartInv
<1> QED
  BY <1>1, RestartInit, PTL DEF Spec

\* The test gets its own device and reader, and CANOKEY_PCSC_READER is right after
\* any number of restarts that wait for the reader to go.
THEOREM OwnFound == ASSUME WaitsForReader PROVE Spec => []OwnDeviceAndReader
<1>1. RestartInv => OwnDeviceAndReader
  <2> SUFFICES ASSUME RestartInv, pc = "test"
               PROVE  /\ [gen |-> gen, slot |-> devicePath] \in devices
                      /\ "pcsc" \in Demanded => [gen |-> gen, slot |-> reader] \in readers
    BY DEF OwnDeviceAndReader
  <2>1. [gen |-> gen, slot |-> devicePath] \in devices
    BY DEF RestartInv, AttachInv, Follows
  <2>2. \E d \in devices : d.gen = gen
    BY <2>1
  <2> QED
    BY <2>1, <2>2 DEF RestartInv, Awaited, Restarted
<1> QED
  BY <1>1, Restartable, PTL

\* Where a reader is there and demanded, a runner that awaits its removal between
\* attachments is never kept waiting for a device or reader that is there, once the
\* host has settled.
THEOREM BaselineFree == ASSUME WaitsForReader PROVE Spec => []RestartClean
<1>1. RestartInv => RestartClean
  <2> SUFFICES ASSUME RestartInv, Settled, pcscLite, "pcsc" \in Demanded
               PROVE  /\ pc = "device" => Candidates # {}
                      /\ pc = "ready" => Ready
    BY DEF RestartClean, BaselineClean
  <2>1. AttachInv /\ Restarted /\ Named(devices) /\ Named(readers)
    BY DEF RestartInv, Awaited, AttachInv, Names
  <2>2. PICK d \in devices : d.gen = gen /\ layers[gen] = Layers
    BY DEF Settled
  <2>3. PICK r \in readers : r.gen = gen
    BY DEF Settled
  <2>4. ASSUME gen # 0 PROVE d.slot \notin Foreign /\ r.slot \notin Foreign
    <3>1. d.slot \in Foreign => [gen |-> 0, slot |-> d.slot] \in devices
      BY <2>1 DEF Named, Others
    <3>2. r.slot \in Foreign => [gen |-> 0, slot |-> r.slot] \in readers
      BY <2>1 DEF Named, Others
    <3> QED
      BY <2>1, <2>2, <2>3, <2>4, <3>1, <3>2 DEF Named
  <2>5. ASSUME pc = "device" PROVE Candidates # {}
    <3>1. gen # 0 /\ before = Foreign
      BY <2>1, <2>5 DEF AttachInv, Follows, Restarted
    <3> QED
      BY <2>4, <3>1 DEF Candidates, Slot
  <2>6. ASSUME pc = "ready", NEW layer \in Demanded PROVE Met(layer)
    <3>1. gen # 0 /\ readersBefore = Foreign
      BY <2>1, <2>6 DEF AttachInv, Follows, Restarted
    <3>2. NewReaders # {}
      BY <2>4, <3>1 DEF NewReaders, PcscReaders, Slot
    <3>3. gen \in 0..MaxGen /\ required \in SUBSET (Interfaces \cup {"usb", "pcsc"})
      BY <2>1, AttachmentAssumption DEF AttachInv, TypeOK
    <3>4. Probed = Layers
      <4>1. Probed = layers[gen]
        BY <2>1, <2>6, ProbedOwn
      <4> QED
        BY <2>2, <4>1
    <3>5. [gen |-> gen, slot |-> devicePath] \in devices
      BY <2>1, <2>6 DEF AttachInv, Follows
    <3>6. devicePath \in Slot(devices)
      BY <3>5 DEF Slot
    <3>7. layer \in Interfaces \cup {"usb", "pcsc"}
      BY <2>6, <3>3 DEF Demanded
    <3> QED
      BY <3>2, <3>4, <3>6, <3>7 DEF Met, Interfaces, Layers
  <2> QED
    BY <2>5, <2>6 DEF Ready
<1> QED
  BY <1>1, Restartable, PTL
=============================================================================
