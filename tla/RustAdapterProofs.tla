-------------------------- MODULE RustAdapterProofs --------------------------
(***************************************************************************)
(* Proofs about RustAdapter that hold for every value of its constants:     *)
(* type correctness, SessionOwnership, and that it implements UrbService.  *)
(*                                                                         *)
(* TypeInv and SessionInv are inductive.  TypeOK alone is not: that an IN   *)
(* transfer stays within the staging buffer needs Lengths, and that closing *)
(* an endpoint takes back a packet that was written needs Counted.  Quiet   *)
(* says what a new connection finds; it carries SessionOwnership over.      *)
(* NumberedInv is inductive too.  Numbered is what makes a reply settle     *)
(* exactly one request: without it, answering one request could strike      *)
(* another off the outstanding ones.                                       *)
(***************************************************************************)
EXTENDS RustAdapter, TLAPS

\* A transfer stays within the capacity it was started with, and that within
\* the staging buffer.
Lengths == cur.len <= cur.cap /\ cur.cap <= TxMax

\* A packet that waits in a FIFO was counted.
Counted == \A ep \in Pending : written[ep] >= 1

\* Between connections nothing is parked, buffered or attached.
Quiet == pc = "accept" => ~attached /\ hostReady = {} /\ Pending = {}

TypeInv == TypeOK /\ Lengths /\ Counted /\ Quiet

SessionInv == TypeInv /\ SessionOwnership

-----------------------------------------------------------------------------
(* Typing.                                                                 *)

\* The constants and the values that stand for nothing have their types.
LEMMA ConstantsTyped ==
  /\ 0 \in Eps
  /\ Eps \subseteq Nat
  /\ Configured \subseteq Eps
  /\ NoUrb \in Urb
  /\ NoPacket \in Packet
  /\ NoTransfer \in Transfer
<1>1. 0 \in Eps /\ Eps \subseteq Nat /\ Configured \subseteq Eps
  BY EndpointsAssumption DEF Eps, Configured
<1>2. NoUrb \in Urb
  BY <1>1 DEF NoUrb, Urb, Dirs
<1>3. NoPacket \in Packet
  BY SizesAssumption DEF NoPacket, Packet
<1>4. NoTransfer \in Transfer
  BY <1>2 DEF NoTransfer, Transfer, Statuses
<1> QED
  BY <1>1, <1>2, <1>3, <1>4

\* The invariant holds at first: nothing is parked, buffered or under way.
LEMMA TypeInit == Init => TypeInv
<1> SUFFICES ASSUME Init PROVE TypeInv
  OBVIOUS
<1>1. Pending = {}
  BY DEF Init, Pending
<1>2. TypeOK
  BY ConstantsTyped, SizesAssumption, BoundsAssumption
  DEF Init, TypeOK, NoTransfer
<1>3. Lengths
  BY SizesAssumption DEF Init, Lengths, NoTransfer
<1> QED
  BY <1>1, <1>2, <1>3 DEF Init, TypeInv, Counted, Quiet

\* What the helpers of the actions return.
LEMMA UrbTyped ==
  ASSUME TypeInv, NEW r \in Requests, Submits(r)
  PROVE  UrbOf(r) \in Urb /\ UrbOf(r).seq = nextSeq /\ UrbOf(r).conn = conn
<1>1. r \in [ep : Eps, dir : Dirs, cap : Nat]
  BY SizesAssumption
<1>2. nextSeq \in Nat /\ conn \in Nat
  BY BoundsAssumption DEF TypeInv, TypeOK
<1> QED
  BY <1>1, <1>2 DEF UrbOf, Urb

\* A request that is not refused starts with room within the staging buffer.
LEMMA ClipTyped ==
  ASSUME NEW r \in Requests, ~Refused(r)
  PROVE  Clip(r) \in Nat /\ Clip(r) <= TxMax
BY SizesAssumption DEF Clip, Smaller, Refused, Dirs

\* Replies have their type.
LEMMA ReplyTyped ==
  ASSUME NEW urb \in Urb, NEW len \in Nat, NEW status \in Statuses,
         NEW data \in Seq(Packet), NEW sent \in Nat
  PROVE  SubmitReply(urb, len, status, data, sent) \in Reply
BY DEF SubmitReply, Reply

\* Likewise for RET_UNLINK.
LEMMA UnlinkReplyTyped ==
  ASSUME TypeInv, NEW s \in Nat, NEW kind \in {"unlinked", "completed"}
  PROVE  UnlinkReply(s, kind) \in Reply
<1>1. conn \in Nat
  BY BoundsAssumption DEF TypeInv, TypeOK
<1>2. [NoUrb EXCEPT !.seq = s, !.conn = conn] \in Urb
  BY <1>1, ConstantsTyped DEF Urb
<1> QED
  BY <1>2 DEF UnlinkReply, Reply, Statuses

\* Copying a packet out leaves FIFOs of the right type.
LEMMA FifoTyped ==
  ASSUME TypeInv, NEW ep \in Eps
  PROVE  FifoAfter(ep) \in [Eps -> Packet] /\ FifoAtSetup(ep) \in [Eps -> Packet]
BY ConstantsTyped DEF TypeInv, TypeOK, FifoAfter, FifoAtSetup

\* The transfer a submit starts.
Started(r) ==
  /\ cur' \in Transfer
  /\ cur'.len = 0
  /\ cur'.cap <= TxMax
  /\ cur'.urb = UrbOf(r)
  /\ cur'.data = <<>>

\* A submit that is not parked starts a transfer with nothing read yet.
LEMMA SubmitStarts ==
  ASSUME TypeInv, NEW r \in Requests, SubmitBusy(r) \/ SubmitTransfer(r)
  PROVE  Started(r)
<1>1. PICK status \in Statuses :
        cur' = [NoTransfer EXCEPT !.urb = UrbOf(r), !.cap = Clip(r), !.status = status]
  BY DEF SubmitBusy, SubmitTransfer, StatusAtStart, Statuses
<1>2. UrbOf(r) \in Urb
  BY UrbTyped DEF SubmitBusy, SubmitTransfer
<1>3. Clip(r) \in Nat /\ Clip(r) <= TxMax
  BY ClipTyped DEF SubmitBusy, SubmitTransfer
<1>4. NoTransfer.len = 0 /\ NoTransfer.data = <<>>
  BY DEF NoTransfer
<1> QED
  BY <1>1, <1>2, <1>3, <1>4, ConstantsTyped DEF Started, Transfer

\* The transfer goes on, by n units of the given packets.
Advanced(n, data) ==
  /\ cur' \in Transfer
  /\ cur'.len = cur.len + n
  /\ cur'.len <= cur.cap
  /\ cur'.cap = cur.cap
  /\ cur'.urb = cur.urb
  /\ cur'.data = data

\* A chunk of an OUT transfer stays within the request.
LEMMA OutChunkAdvances ==
  ASSUME TypeInv, OutChunk
  PROVE  \E n \in Nat : Advanced(n, cur.data)
<1> DEFINE n == Smaller(cur.cap - cur.len, PacketSize(cur.urb.ep))
           sent == IF Delivers THEN cur.sent + n ELSE cur.sent
<1>1. cur \in Transfer
  BY DEF TypeInv, TypeOK
<1>2. cur.cap \in Nat /\ cur.len \in Nat /\ cur.sent \in Nat
  BY <1>1 DEF Transfer
<1>3. PacketSize(cur.urb.ep) \in Nat
  BY SizesAssumption DEF PacketSize
<1>4. n \in Nat /\ cur.len + n <= cur.cap
  BY <1>2, <1>3 DEF OutChunk, Smaller
<1>5. sent \in Nat /\ cur.len + n \in Nat
  BY <1>2, <1>4
<1>6. cur' = [cur EXCEPT !.len = cur.len + n, !.sent = sent]
  BY <1>1 DEF OutChunk, Transfer
<1> HIDE DEF n, sent
<1> QED
  BY <1>1, <1>4, <1>5, <1>6 DEF Advanced, Transfer

\* A packet of an IN transfer that is no overrun stays within the capacity.
LEMMA InPacketAdvances ==
  ASSUME TypeInv, InPacket
  PROVE  /\ cur.urb.ep \in Eps
         /\ packet[cur.urb.ep] \in Packet
         /\ Advanced(packet[cur.urb.ep].len, Append(cur.data, packet[cur.urb.ep]))
<1> DEFINE p == packet[cur.urb.ep]
<1>1. cur \in Transfer
  BY DEF TypeInv, TypeOK
<1>2. cur.urb.ep \in Eps /\ p \in Packet
  BY <1>1 DEF TypeInv, TypeOK, Transfer, Urb
<1>3. cur.cap \in Nat /\ cur.len \in Nat /\ cur.data \in Seq(Packet) /\ p.len \in Nat
  BY <1>1, <1>2, SizesAssumption DEF Transfer, Packet
<1>4. ~(p.len > cur.cap - cur.len)
  BY DEF InPacket, Overrun
<1>5. cur' = [cur EXCEPT !.len = cur.len + p.len, !.data = Append(cur.data, p)]
  BY <1>1 DEF InPacket, Transfer
<1> HIDE DEF p
<1>6. cur.len + p.len \in Nat /\ cur.len + p.len <= cur.cap
  BY <1>3, <1>4
<1>7. Append(cur.data, p) \in Seq(Packet)
  BY <1>2, <1>3
<1>8. Advanced(p.len, Append(cur.data, p))
  BY <1>1, <1>5, <1>6, <1>7 DEF Advanced, Transfer
<1> QED
  BY <1>2, <1>8 DEF p

\* TypeOK is kept by every step.
LEMMA TypeStep == TypeInv /\ [Next]_vars => TypeOK'
<1> SUFFICES ASSUME TypeInv, [Next]_vars PROVE TypeOK'
  OBVIOUS
<1> USE ConstantsTyped, EndpointsAssumption, SizesAssumption, BoundsAssumption
<1> USE DEF TypeInv, TypeOK, Serving
<1>1. ASSUME Accept PROVE TypeOK'
  BY <1>1 DEF Accept, link, parked, fifo, eps, transfer
<1>2. ASSUME DeviceLoop PROVE TypeOK'
  BY <1>2 DEF DeviceLoop, link, parked, fifo, eps, transfer
<1>3. ASSUME NEW ep \in Eps, CompleteInterrupt(ep) PROVE TypeOK'
  <2>1. ep \in Eps /\ ep \in Nat /\ intrIn[ep] \in Urb /\ packet[ep] \in Packet
    OBVIOUS
  <2>2. packet[ep].len \in Nat
    BY <2>1 DEF Packet
  <2>3. <<packet[ep]>> \in Seq(Packet) /\ "OK" \in Statuses /\ 0 \in Nat
    BY <2>1 DEF Statuses
  <2>4. SubmitReply(intrIn[ep], packet[ep].len, "OK", <<packet[ep]>>, 0) \in Reply
    BY <2>1, <2>2, <2>3, ReplyTyped
  <2>5. wire' \in Seq(Reply)
    BY <1>3, <2>4 DEF CompleteInterrupt
  <2>6. packet' \in [Eps -> Packet]
    BY <1>3, <2>1, FifoTyped DEF CompleteInterrupt
  <2>7. /\ hostReady' \subseteq Eps /\ scan' \in Nat /\ fw' \in {"none", "data", "control"}
        /\ UNCHANGED <<pc, conn, attached, nextSeq, intrIn, written, open, halted, cur, late, setup>>
    BY <1>3, <2>1 DEF CompleteInterrupt, link, eps, transfer
  <2> QED
    BY <2>5, <2>6, <2>7
<1>4. ASSUME CompleteInterruptFails PROVE TypeOK'
  BY <1>4 DEF CompleteInterruptFails, link, parked, fifo, eps, transfer
<1>5. ASSUME CompleteInterruptDone PROVE TypeOK'
  BY <1>5 DEF CompleteInterruptDone, link, parked, fifo, eps, transfer
<1>6. ASSUME PollIdle PROVE TypeOK'
  BY <1>6 DEF PollIdle, link, parked, fifo, eps, transfer
<1>7. ASSUME ConnectionLost PROVE TypeOK'
  BY <1>7 DEF ConnectionLost, link, parked, fifo, eps, transfer
<1>8. ASSUME Import PROVE TypeOK'
  BY <1>8 DEF Import, BootReset, FifoAfter, link, parked, fifo, eps, transfer
<1>9. ASSUME Disconnect PROVE TypeOK'
  <2>1. [ep \in Eps |-> NoPacket] \in [Eps -> Packet] /\ [ep \in Eps |-> NoUrb] \in [Eps -> Urb]
    OBVIOUS
  <2>2. cur' \in Transfer /\ cur'.len <= TxMax
    BY <1>9 DEF Disconnect, NoTransfer
  <2> QED
    BY <1>9, <2>1, <2>2 DEF Disconnect, BootReset, link, parked, fifo, eps, transfer
<1>10. ASSUME NEW r \in Requests, SubmitRefused(r) PROVE TypeOK'
  BY <1>10 DEF SubmitRefused, Submits, link, parked, fifo, eps, transfer
<1>11. ASSUME NEW r \in Requests, SubmitBusy(r) PROVE TypeOK'
  <2>1. cur' \in Transfer /\ cur'.len <= TxMax
    BY <1>11, SubmitStarts, SMTT(60) DEF Started
  <2>2. nextSeq' \in 1..(MaxSeq + 1)
    BY <1>11, SMTT(60) DEF SubmitBusy, Submits
  <2> QED
    BY <1>11, <2>1, <2>2 DEF SubmitBusy, link, parked, fifo, eps, transfer
<1>12. ASSUME NEW r \in Requests, SubmitPark(r) PROVE TypeOK'
  <2>1. nextSeq' \in 1..(MaxSeq + 1)
    BY <1>12 DEF SubmitPark, Submits
  <2>2. r.ep \in Eps
    OBVIOUS
  <2> QED
    BY <1>12, <2>1, <2>2, UrbTyped DEF SubmitPark, link, parked, fifo, eps, transfer
<1>13. ASSUME NEW r \in Requests, SubmitTransfer(r) PROVE TypeOK'
  <2>1. r.ep \in Eps /\ r.dir \in {"in", "out"}
    BY DEF Dirs
  <2>2. cur' \in Transfer /\ cur'.len <= TxMax
    BY <1>13, SubmitStarts, SMTT(60) DEF Started
  <2>3. nextSeq' \in 1..(MaxSeq + 1) /\ setup' \in 0..MaxSeq
    BY <1>13, SMTT(60) DEF SubmitTransfer, Submits
  <2> QED
    BY <1>13, <2>1, <2>2, <2>3, FifoTyped DEF SubmitTransfer, FwCall, link, parked, fifo, eps, transfer
<1>14. ASSUME OutChunk PROVE TypeOK'
  <2>1. cur' \in Transfer /\ cur'.len <= TxMax
    BY <1>14, OutChunkAdvances, SMTT(60) DEF Advanced, Lengths, Transfer
  <2> QED
    BY <1>14, <2>1 DEF OutChunk, FwCall, link, parked, fifo, eps, transfer
<1>15. ASSUME OutDone PROVE TypeOK'
  BY <1>15 DEF OutDone, FifoAtSetup, link, parked, fifo, eps, transfer
<1>16. ASSUME InHalted PROVE TypeOK'
  BY <1>16 DEF InHalted, InEnds, Transfer, Statuses, link, parked, fifo, eps, transfer
<1>17. ASSUME InTimeout PROVE TypeOK'
  BY <1>17 DEF InTimeout, InEnds, Transfer, Statuses, link, parked, fifo, eps, transfer
<1>18. ASSUME InFull PROVE TypeOK'
  BY <1>18 DEF InFull, InEnds, Transfer, Statuses, link, parked, fifo, eps, transfer
<1>19. ASSUME InWait PROVE TypeOK'
  BY <1>19 DEF InWait, FwCall, link, parked, fifo, eps, transfer
<1>20. ASSUME InOverrun PROVE TypeOK'
  BY <1>20 DEF InOverrun, link, parked, fifo, eps, transfer
<1>21. ASSUME InPacket PROVE TypeOK'
  <2>1. cur' \in Transfer /\ cur'.len <= TxMax
    BY <1>21, InPacketAdvances, SMTT(60) DEF Advanced, Lengths, Transfer
  <2> QED
    BY <1>21, <2>1, InPacketAdvances, FifoTyped DEF InPacket, FwCall, link, parked, fifo, eps, transfer
<1>22. ASSUME TimePasses PROVE TypeOK'
  BY <1>22 DEF TimePasses, link, parked, fifo, eps, transfer
<1>23. ASSUME SendReply PROVE TypeOK'
  <2>1. cur.urb \in Urb /\ ActualLength \in Nat /\ cur.status \in Statuses
         /\ cur.data \in Seq(Packet) /\ cur.sent \in Nat
    BY DEF Transfer, ActualLength
  <2>2. wire' \in Seq(Reply)
    BY <1>23, <2>1, ReplyTyped DEF SendReply
  <2>3. cur' \in Transfer /\ cur'.len <= TxMax
    BY <1>23 DEF SendReply, NoTransfer
  <2> QED
    BY <1>23, <2>2, <2>3 DEF SendReply, link, parked, fifo, eps, transfer
<1>24. ASSUME NEW s \in 1..MaxSeq, Unlink(s) PROVE TypeOK'
  <2>1. UnlinkReply(s, UnlinkKind(s)) \in Reply
    BY UnlinkReplyTyped DEF UnlinkKind
  <2>2. StillReady(s) \subseteq Eps
    BY DEF StillReady
  <2> QED
    BY <1>24, <2>1, <2>2, SMTT(60) DEF Unlink, link, parked, fifo, eps, transfer
<1>25. ASSUME NEW ep \in Eps, NEW len \in Lens, FwWrite(ep, len) PROVE TypeOK'
  <2>1. conn \in Nat /\ setup \in Nat /\ written[ep] \in Nat /\ len \in 0..Mps
    OBVIOUS
  <2>2. [conn |-> conn, n |-> written[ep] + 1, len |-> len, setup |-> setup] \in Packet
    BY <2>1, SMTT(60) DEF Packet
  <2>3. written[ep] + 1 \in 0..MaxPackets
    BY <1>25, <2>1 DEF FwWrite
  <2> QED
    BY <1>25, <2>2, <2>3 DEF FwWrite, link, parked, fifo, eps, transfer
<1>26. ASSUME NEW ep \in Eps, NEW dir \in Dirs, FwHalt(ep, dir) PROVE TypeOK'
  BY <1>26 DEF FwHalt, link, parked, fifo, eps, transfer
<1>27. ASSUME NEW ep \in Eps, NEW dir \in Dirs, FwOpen(ep, dir) PROVE TypeOK'
  BY <1>27 DEF FwOpen, link, parked, fifo, eps, transfer
<1>28. ASSUME NEW ep \in Eps, NEW dir \in Dirs, FwClose(ep, dir) PROVE TypeOK'
  <2>1. ASSUME ep \in Pending PROVE written[ep] - 1 \in 0..MaxPackets
    BY <2>1 DEF Counted
  <2>2. packet' \in [Eps -> Packet]
    BY <1>28, FifoTyped DEF FwClose
  <2>3. written' \in [Eps -> 0..MaxPackets]
    BY <1>28, <2>1 DEF FwClose
  <2> QED
    BY <1>28, <2>2, <2>3 DEF FwClose, link, parked, fifo, eps, transfer
<1>29. CASE UNCHANGED vars
  BY <1>29 DEF vars, link, parked, fifo, eps, transfer
<1> QED
  BY <1>1, <1>2, <1>3, <1>4, <1>5, <1>6, <1>7, <1>8, <1>9, <1>10, <1>11, <1>12, <1>13, <1>14, <1>15, <1>16, <1>17, <1>18, <1>19, <1>20, <1>21, <1>22, <1>23, <1>24, <1>25, <1>26, <1>27, <1>28, <1>29
  DEF Next, Server, Client, Firmware

\* The staging buffer is never overrun.
LEMMA LengthsStep == TypeInv /\ [Next]_vars => Lengths'
<1> SUFFICES ASSUME TypeInv, [Next]_vars PROVE Lengths'
  OBVIOUS
<1> USE DEF TypeInv
<1>a. ASSUME cur' = cur PROVE Lengths'
  BY <1>a DEF Lengths
<1>b. ASSUME cur' = NoTransfer PROVE Lengths'
  BY <1>b, SizesAssumption DEF Lengths, NoTransfer
<1>c. cur.cap \in Nat /\ cur.len \in Nat
  BY DEF TypeOK, Transfer
<1>1. ASSUME Accept PROVE Lengths'
  BY <1>1, <1>a DEF Accept, link, parked, fifo, eps, transfer
<1>2. ASSUME DeviceLoop PROVE Lengths'
  BY <1>2, <1>a DEF DeviceLoop, link, parked, fifo, eps, transfer
<1>3. ASSUME NEW ep \in Eps, CompleteInterrupt(ep) PROVE Lengths'
  BY <1>3, <1>a DEF CompleteInterrupt, link, parked, fifo, eps, transfer
<1>4. ASSUME CompleteInterruptFails PROVE Lengths'
  BY <1>4, <1>a DEF CompleteInterruptFails, link, parked, fifo, eps, transfer
<1>5. ASSUME CompleteInterruptDone PROVE Lengths'
  BY <1>5, <1>a DEF CompleteInterruptDone, link, parked, fifo, eps, transfer
<1>6. ASSUME PollIdle PROVE Lengths'
  BY <1>6, <1>a DEF PollIdle, link, parked, fifo, eps, transfer
<1>7. ASSUME ConnectionLost PROVE Lengths'
  BY <1>7, <1>a DEF ConnectionLost, link, parked, fifo, eps, transfer
<1>8. ASSUME Import PROVE Lengths'
  BY <1>8, <1>a DEF Import, link, parked, fifo, eps, transfer
<1>9. ASSUME Disconnect PROVE Lengths'
  BY <1>9, <1>b DEF Disconnect
<1>10. ASSUME NEW r \in Requests, SubmitRefused(r) PROVE Lengths'
  BY <1>10, <1>a DEF SubmitRefused, link, parked, fifo, eps, transfer
<1>11. ASSUME NEW r \in Requests, SubmitBusy(r) PROVE Lengths'
  BY <1>11, SubmitStarts, ClipTyped DEF Started, Lengths, Transfer
<1>12. ASSUME NEW r \in Requests, SubmitPark(r) PROVE Lengths'
  BY <1>12, <1>a DEF SubmitPark, link, parked, fifo, eps, transfer
<1>13. ASSUME NEW r \in Requests, SubmitTransfer(r) PROVE Lengths'
  BY <1>13, SubmitStarts DEF Started, Lengths, Transfer
<1>14. ASSUME OutChunk PROVE Lengths'
  BY <1>14, OutChunkAdvances DEF Advanced, Lengths
<1>15. ASSUME OutDone PROVE Lengths'
  BY <1>15, <1>a DEF OutDone, link, parked, fifo, eps, transfer
<1>16. ASSUME InHalted PROVE Lengths'
  BY <1>16 DEF InHalted, InEnds, Lengths, TypeOK, Transfer
<1>17. ASSUME InTimeout PROVE Lengths'
  BY <1>17 DEF InTimeout, InEnds, Lengths, TypeOK, Transfer
<1>18. ASSUME InFull PROVE Lengths'
  BY <1>18 DEF InFull, InEnds, Lengths, TypeOK, Transfer
<1>19. ASSUME InWait PROVE Lengths'
  BY <1>19, <1>a DEF InWait, link, parked, fifo, eps, transfer
<1>20. ASSUME InOverrun PROVE Lengths'
  BY <1>20, <1>a DEF InOverrun, link, parked, fifo, eps, transfer
<1>21. ASSUME InPacket PROVE Lengths'
  BY <1>21, InPacketAdvances DEF Advanced, Lengths
<1>22. ASSUME TimePasses PROVE Lengths'
  BY <1>22, <1>a DEF TimePasses, link, parked, fifo, eps, transfer
<1>23. ASSUME SendReply PROVE Lengths'
  BY <1>23, <1>b DEF SendReply
<1>24. ASSUME NEW s \in 1..MaxSeq, Unlink(s) PROVE Lengths'
  BY <1>24, <1>a DEF Unlink, link, parked, fifo, eps, transfer
<1>25. ASSUME NEW ep \in Eps, NEW len \in Lens, FwWrite(ep, len) PROVE Lengths'
  BY <1>25, <1>a DEF FwWrite, link, parked, fifo, eps, transfer
<1>26. ASSUME NEW ep \in Eps, NEW dir \in Dirs, FwHalt(ep, dir) PROVE Lengths'
  BY <1>26, <1>a DEF FwHalt, link, parked, fifo, eps, transfer
<1>27. ASSUME NEW ep \in Eps, NEW dir \in Dirs, FwOpen(ep, dir) PROVE Lengths'
  BY <1>27, <1>a DEF FwOpen, link, parked, fifo, eps, transfer
<1>28. ASSUME NEW ep \in Eps, NEW dir \in Dirs, FwClose(ep, dir) PROVE Lengths'
  BY <1>28, <1>a DEF FwClose, link, parked, fifo, eps, transfer
<1>29. ASSUME UNCHANGED vars PROVE Lengths'
  BY <1>29, <1>a DEF vars, transfer
<1> QED
  BY <1>1, <1>2, <1>3, <1>4, <1>5, <1>6, <1>7, <1>8, <1>9, <1>10, <1>11, <1>12, <1>13, <1>14, <1>15, <1>16, <1>17, <1>18, <1>19, <1>20, <1>21, <1>22, <1>23, <1>24, <1>25, <1>26, <1>27, <1>28, <1>29
  DEF Next, Server, Client, Firmware

\* What becomes of the FIFOs.
LEMMA PendingAfter ==
  ASSUME TypeInv, NEW ep \in Eps
  PROVE  /\ packet' = FifoAfter(ep) =>
              Pending' = Pending \ {ep} /\ \A e \in Pending' : packet'[e] = packet[e]
         /\ packet' = FifoAtSetup(ep) =>
              Pending' \subseteq Pending /\ \A e \in Pending' : packet'[e] = packet[e]
BY DEF TypeInv, TypeOK, Pending, FifoAfter, FifoAtSetup

\* No packet is taken back that was not counted.
LEMMA CountedStep == TypeInv /\ [Next]_vars => Counted'
<1> SUFFICES ASSUME TypeInv, [Next]_vars PROVE Counted'
  OBVIOUS
<1> USE DEF TypeInv
<1>a. ASSUME Pending' \subseteq Pending, written' = written PROVE Counted'
  BY <1>a DEF Counted
<1>b. ASSUME packet' = packet, written' = written PROVE Counted'
  BY <1>b, <1>a DEF Pending
<1>c. ASSUME Pending' = {} PROVE Counted'
  BY <1>c DEF Counted
<1>1. ASSUME Accept PROVE Counted'
  BY <1>1, <1>c DEF Accept, Quiet, Pending
<1>2. ASSUME DeviceLoop PROVE Counted'
  BY <1>2, <1>b DEF DeviceLoop, InEnds, link, parked, fifo, eps, transfer
<1>3. ASSUME NEW ep \in Eps, CompleteInterrupt(ep) PROVE Counted'
  BY <1>3, <1>a, PendingAfter DEF CompleteInterrupt
<1>4. ASSUME CompleteInterruptFails PROVE Counted'
  BY <1>4, <1>b DEF CompleteInterruptFails, InEnds, link, parked, fifo, eps, transfer
<1>5. ASSUME CompleteInterruptDone PROVE Counted'
  BY <1>5, <1>b DEF CompleteInterruptDone, InEnds, link, parked, fifo, eps, transfer
<1>6. ASSUME PollIdle PROVE Counted'
  BY <1>6, <1>b DEF PollIdle, InEnds, link, parked, fifo, eps, transfer
<1>7. ASSUME ConnectionLost PROVE Counted'
  BY <1>7, <1>b DEF ConnectionLost, InEnds, link, parked, fifo, eps, transfer
<1>8. ASSUME Import PROVE Counted'
  BY <1>8, <1>a, PendingAfter, ConstantsTyped DEF Import
<1>9. ASSUME Disconnect PROVE Counted'
  BY <1>9, <1>c DEF Disconnect, Pending
<1>10. ASSUME NEW r \in Requests, SubmitRefused(r) PROVE Counted'
  BY <1>10, <1>b DEF SubmitRefused, InEnds, link, parked, fifo, eps, transfer
<1>11. ASSUME NEW r \in Requests, SubmitBusy(r) PROVE Counted'
  BY <1>11, <1>b DEF SubmitBusy, InEnds, link, parked, fifo, eps, transfer
<1>12. ASSUME NEW r \in Requests, SubmitPark(r) PROVE Counted'
  BY <1>12, <1>b DEF SubmitPark, InEnds, link, parked, fifo, eps, transfer
<1>13. ASSUME NEW r \in Requests, SubmitTransfer(r) PROVE Counted'
  BY <1>13, <1>a, PendingAfter, SizesAssumption DEF SubmitTransfer
<1>14. ASSUME OutChunk PROVE Counted'
  BY <1>14, <1>b DEF OutChunk, InEnds, link, parked, fifo, eps, transfer
<1>15. ASSUME OutDone PROVE Counted'
  <2>1. cur.urb.ep \in Eps
    BY DEF TypeOK, Transfer, Urb
  <2> QED
    BY <1>15, <2>1, <1>a, PendingAfter DEF OutDone
<1>16. ASSUME InHalted PROVE Counted'
  BY <1>16, <1>b DEF InHalted, InEnds, link, parked, fifo, eps, transfer
<1>17. ASSUME InTimeout PROVE Counted'
  BY <1>17, <1>b DEF InTimeout, InEnds, link, parked, fifo, eps, transfer
<1>18. ASSUME InFull PROVE Counted'
  BY <1>18, <1>b DEF InFull, InEnds, link, parked, fifo, eps, transfer
<1>19. ASSUME InWait PROVE Counted'
  BY <1>19, <1>b DEF InWait, InEnds, link, parked, fifo, eps, transfer
<1>20. ASSUME InOverrun PROVE Counted'
  BY <1>20, <1>b DEF InOverrun, InEnds, link, parked, fifo, eps, transfer
<1>21. ASSUME InPacket PROVE Counted'
  BY <1>21, <1>a, PendingAfter, InPacketAdvances DEF InPacket
<1>22. ASSUME TimePasses PROVE Counted'
  BY <1>22, <1>b DEF TimePasses, InEnds, link, parked, fifo, eps, transfer
<1>23. ASSUME SendReply PROVE Counted'
  BY <1>23, <1>b DEF SendReply, InEnds, link, parked, fifo, eps, transfer
<1>24. ASSUME NEW s \in 1..MaxSeq, Unlink(s) PROVE Counted'
  BY <1>24, <1>b DEF Unlink, InEnds, link, parked, fifo, eps, transfer
<1>25. ASSUME NEW ep \in Eps, NEW len \in Lens, FwWrite(ep, len) PROVE Counted'
  <2>1. Pending' \subseteq Pending \cup {ep}
    BY <1>25 DEF FwWrite, Pending, TypeOK
  <2>2. written[ep] \in Nat /\ written' = [written EXCEPT ![ep] = written[ep] + 1]
    BY <1>25 DEF FwWrite, TypeOK
  <2> QED
    BY <2>1, <2>2 DEF Counted, TypeOK
<1>26. ASSUME NEW ep \in Eps, NEW dir \in Dirs, FwHalt(ep, dir) PROVE Counted'
  BY <1>26, <1>b DEF FwHalt, InEnds, link, parked, fifo, eps, transfer
<1>27. ASSUME NEW ep \in Eps, NEW dir \in Dirs, FwOpen(ep, dir) PROVE Counted'
  BY <1>27, <1>b DEF FwOpen, InEnds, link, parked, fifo, eps, transfer
<1>28. ASSUME NEW ep \in Eps, NEW dir \in Dirs, FwClose(ep, dir) PROVE Counted'
  <2>1. CASE dir = "in"
    <3>1. Pending' = Pending \ {ep}
      BY <1>28, <2>1, PendingAfter DEF FwClose
    <3>2. \A e \in Eps \ {ep} : written'[e] = written[e]
      BY <1>28, <2>1 DEF FwClose, TypeOK
    <3> QED
      BY <3>1, <3>2 DEF Counted, Pending
  <2>2. CASE dir # "in"
    BY <1>28, <2>2, <1>b DEF FwClose
  <2> QED
    BY <2>1, <2>2
<1>29. ASSUME UNCHANGED vars PROVE Counted'
  BY <1>29, <1>b DEF vars, fifo
<1> QED
  BY <1>1, <1>2, <1>3, <1>4, <1>5, <1>6, <1>7, <1>8, <1>9, <1>10, <1>11, <1>12, <1>13, <1>14, <1>15, <1>16, <1>17, <1>18, <1>19, <1>20, <1>21, <1>22, <1>23, <1>24, <1>25, <1>26, <1>27, <1>28, <1>29
  DEF Next, Server, Client, Firmware

\* Disconnect leaves nothing behind, and nothing comes before the next client.
LEMMA QuietStep == TypeInv /\ [Next]_vars => Quiet'
<1> SUFFICES ASSUME TypeInv, [Next]_vars PROVE Quiet'
  OBVIOUS
<1> USE DEF TypeInv
<1>a. ASSUME pc' # "accept" PROVE Quiet'
  BY <1>a DEF Quiet
<1>b. ASSUME pc' = pc, attached' = attached, hostReady' = hostReady, packet' = packet
      PROVE  Quiet'
  BY <1>b DEF Quiet, Pending
<1>c. ASSUME attached, pc' = pc PROVE Quiet'
  BY <1>c DEF Quiet
<1>1. ASSUME Accept PROVE Quiet'
  BY <1>1, <1>a DEF Accept, InEnds
<1>2. ASSUME DeviceLoop PROVE Quiet'
  BY <1>2, <1>a DEF DeviceLoop, InEnds
<1>3. ASSUME NEW ep \in Eps, CompleteInterrupt(ep) PROVE Quiet'
  BY <1>3, <1>c DEF CompleteInterrupt
<1>4. ASSUME CompleteInterruptFails PROVE Quiet'
  BY <1>4, <1>a DEF CompleteInterruptFails, InEnds
<1>5. ASSUME CompleteInterruptDone PROVE Quiet'
  BY <1>5, <1>a DEF CompleteInterruptDone, InEnds
<1>6. ASSUME PollIdle PROVE Quiet'
  BY <1>6, <1>a DEF PollIdle, InEnds
<1>7. ASSUME ConnectionLost PROVE Quiet'
  BY <1>7, <1>a DEF ConnectionLost, InEnds
<1>8. ASSUME Import PROVE Quiet'
  BY <1>8, <1>a DEF Import, InEnds
<1>9. ASSUME Disconnect PROVE Quiet'
  BY <1>9 DEF Disconnect, Quiet, Pending
<1>10. ASSUME NEW r \in Requests, SubmitRefused(r) PROVE Quiet'
  BY <1>10, <1>a DEF SubmitRefused, InEnds
<1>11. ASSUME NEW r \in Requests, SubmitBusy(r) PROVE Quiet'
  BY <1>11, <1>a DEF SubmitBusy, InEnds
<1>12. ASSUME NEW r \in Requests, SubmitPark(r) PROVE Quiet'
  BY <1>12, <1>a DEF SubmitPark, InEnds
<1>13. ASSUME NEW r \in Requests, SubmitTransfer(r) PROVE Quiet'
  BY <1>13, <1>a, SizesAssumption DEF SubmitTransfer, Dirs
<1>14. ASSUME OutChunk PROVE Quiet'
  BY <1>14, <1>a DEF OutChunk
<1>15. ASSUME OutDone PROVE Quiet'
  BY <1>15, <1>a DEF OutDone, InEnds
<1>16. ASSUME InHalted PROVE Quiet'
  BY <1>16, <1>a DEF InHalted, InEnds
<1>17. ASSUME InTimeout PROVE Quiet'
  BY <1>17, <1>a DEF InTimeout, InEnds
<1>18. ASSUME InFull PROVE Quiet'
  BY <1>18, <1>a DEF InFull, InEnds
<1>19. ASSUME InWait PROVE Quiet'
  BY <1>19, <1>a DEF InWait, Collecting
<1>20. ASSUME InOverrun PROVE Quiet'
  BY <1>20, <1>a DEF InOverrun, InEnds
<1>21. ASSUME InPacket PROVE Quiet'
  BY <1>21, <1>a DEF InPacket, InEnds
<1>22. ASSUME TimePasses PROVE Quiet'
  BY <1>22, <1>a DEF TimePasses
<1>23. ASSUME SendReply PROVE Quiet'
  BY <1>23, <1>a DEF SendReply, InEnds
<1>24. ASSUME NEW s \in 1..MaxSeq, Unlink(s) PROVE Quiet'
  BY <1>24, <1>a DEF Unlink, InEnds
<1>25. ASSUME NEW ep \in Eps, NEW len \in Lens, FwWrite(ep, len) PROVE Quiet'
  BY <1>25, <1>c DEF FwWrite, FwActs
<1>26. ASSUME NEW ep \in Eps, NEW dir \in Dirs, FwHalt(ep, dir) PROVE Quiet'
  BY <1>26, <1>c DEF FwHalt, FwActs
<1>27. ASSUME NEW ep \in Eps, NEW dir \in Dirs, FwOpen(ep, dir) PROVE Quiet'
  BY <1>27, <1>c DEF FwOpen, FwActs
<1>28. ASSUME NEW ep \in Eps, NEW dir \in Dirs, FwClose(ep, dir) PROVE Quiet'
  BY <1>28, <1>c DEF FwClose, FwActs
<1>29. ASSUME UNCHANGED vars PROVE Quiet'
  BY <1>29, <1>b DEF vars, link, parked, fifo
<1> QED
  BY <1>1, <1>2, <1>3, <1>4, <1>5, <1>6, <1>7, <1>8, <1>9, <1>10, <1>11, <1>12, <1>13, <1>14, <1>15, <1>16, <1>17, <1>18, <1>19, <1>20, <1>21, <1>22, <1>23, <1>24, <1>25, <1>26, <1>27, <1>28, <1>29
  DEF Next, Server, Client, Firmware

\* Type correctness, and with it the bound of the staging buffer of rust_submit,
\* however long the requests, the packets and the runs are.
THEOREM TypeCorrect == Spec => []TypeOK
<1>1. TypeInv /\ [Next]_vars => TypeInv'
  BY TypeStep, LengthsStep, CountedStep, QuietStep DEF TypeInv
<1>2. TypeInv => TypeOK
  BY DEF TypeInv
<1> QED
  BY TypeInit, <1>1, <1>2, PTL DEF Spec
-----------------------------------------------------------------------------
(* SessionOwnership.                                                       *)

\* A parked request was submitted on this connection.
LEMMA OwnParkedStep == SessionInv /\ [Next]_vars => OwnParked'
<1> SUFFICES ASSUME SessionInv, [Next]_vars PROVE OwnParked'
  OBVIOUS
<1> USE DEF SessionInv, SessionOwnership
<1>a. ASSUME hostReady' \subseteq hostReady, intrIn' = intrIn, conn' = conn PROVE OwnParked'
  BY <1>a DEF OwnParked
<1>b. ASSUME hostReady' = {} PROVE OwnParked'
  BY <1>b DEF OwnParked
<1>1. ASSUME Accept PROVE OwnParked'
  BY <1>1, <1>b DEF Accept, parked, TypeInv, Quiet
<1>2. ASSUME DeviceLoop PROVE OwnParked'
  BY <1>2, <1>a DEF DeviceLoop, InEnds, link, parked
<1>3. ASSUME NEW ep \in Eps, CompleteInterrupt(ep) PROVE OwnParked'
  BY <1>3, <1>a DEF CompleteInterrupt, InEnds, link, parked
<1>4. ASSUME CompleteInterruptFails PROVE OwnParked'
  BY <1>4, <1>a DEF CompleteInterruptFails, InEnds, link, parked
<1>5. ASSUME CompleteInterruptDone PROVE OwnParked'
  BY <1>5, <1>a DEF CompleteInterruptDone, InEnds, link, parked
<1>6. ASSUME PollIdle PROVE OwnParked'
  BY <1>6, <1>a DEF PollIdle, InEnds, link, parked
<1>7. ASSUME ConnectionLost PROVE OwnParked'
  BY <1>7, <1>a DEF ConnectionLost, InEnds, link, parked
<1>8. ASSUME Import PROVE OwnParked'
  BY <1>8, <1>a DEF Import, InEnds, link, parked
<1>9. ASSUME Disconnect PROVE OwnParked'
  BY <1>9, <1>b DEF Disconnect
<1>10. ASSUME NEW r \in Requests, SubmitRefused(r) PROVE OwnParked'
  BY <1>10, <1>a DEF SubmitRefused, InEnds, link, parked
<1>11. ASSUME NEW r \in Requests, SubmitBusy(r) PROVE OwnParked'
  BY <1>11, <1>a DEF SubmitBusy, InEnds, link, parked
<1>12. ASSUME NEW r \in Requests, SubmitPark(r) PROVE OwnParked'
  <2>1. UrbOf(r).conn = conn
    BY <1>12, UrbTyped DEF SubmitPark
  <2>2. intrIn' = [intrIn EXCEPT ![r.ep] = UrbOf(r)] /\ conn' = conn
         /\ hostReady' = hostReady \cup {r.ep}
    BY <1>12 DEF SubmitPark
  <2>3. intrIn \in [Eps -> Urb] /\ hostReady \subseteq Eps /\ r.ep \in Eps
    BY SizesAssumption DEF TypeInv, TypeOK
  <2> QED
    BY <2>1, <2>2, <2>3 DEF OwnParked
<1>13. ASSUME NEW r \in Requests, SubmitTransfer(r) PROVE OwnParked'
  BY <1>13, <1>a DEF SubmitTransfer, InEnds, link, parked
<1>14. ASSUME OutChunk PROVE OwnParked'
  BY <1>14, <1>a DEF OutChunk, InEnds, link, parked
<1>15. ASSUME OutDone PROVE OwnParked'
  BY <1>15, <1>a DEF OutDone, InEnds, link, parked
<1>16. ASSUME InHalted PROVE OwnParked'
  BY <1>16, <1>a DEF InHalted, InEnds, link, parked
<1>17. ASSUME InTimeout PROVE OwnParked'
  BY <1>17, <1>a DEF InTimeout, InEnds, link, parked
<1>18. ASSUME InFull PROVE OwnParked'
  BY <1>18, <1>a DEF InFull, InEnds, link, parked
<1>19. ASSUME InWait PROVE OwnParked'
  BY <1>19, <1>a DEF InWait, InEnds, link, parked
<1>20. ASSUME InOverrun PROVE OwnParked'
  BY <1>20, <1>a DEF InOverrun, InEnds, link, parked
<1>21. ASSUME InPacket PROVE OwnParked'
  BY <1>21, <1>a DEF InPacket, InEnds, link, parked
<1>22. ASSUME TimePasses PROVE OwnParked'
  BY <1>22, <1>a DEF TimePasses, InEnds, link, parked
<1>23. ASSUME SendReply PROVE OwnParked'
  BY <1>23, <1>a DEF SendReply, InEnds, link, parked
<1>24. ASSUME NEW s \in 1..MaxSeq, Unlink(s) PROVE OwnParked'
  BY <1>24, <1>a DEF Unlink, StillReady, link, parked
<1>25. ASSUME NEW ep \in Eps, NEW len \in Lens, FwWrite(ep, len) PROVE OwnParked'
  BY <1>25, <1>a DEF FwWrite, InEnds, link, parked
<1>26. ASSUME NEW ep \in Eps, NEW dir \in Dirs, FwHalt(ep, dir) PROVE OwnParked'
  BY <1>26, <1>a DEF FwHalt, InEnds, link, parked
<1>27. ASSUME NEW ep \in Eps, NEW dir \in Dirs, FwOpen(ep, dir) PROVE OwnParked'
  BY <1>27, <1>a DEF FwOpen, InEnds, link, parked
<1>28. ASSUME NEW ep \in Eps, NEW dir \in Dirs, FwClose(ep, dir) PROVE OwnParked'
  BY <1>28, <1>a DEF FwClose, InEnds, link, parked
<1>29. ASSUME UNCHANGED vars PROVE OwnParked'
  BY <1>29, <1>a DEF vars, link, parked
<1> QED
  BY <1>1, <1>2, <1>3, <1>4, <1>5, <1>6, <1>7, <1>8, <1>9, <1>10, <1>11, <1>12, <1>13, <1>14, <1>15, <1>16, <1>17, <1>18, <1>19, <1>20, <1>21, <1>22, <1>23, <1>24, <1>25, <1>26, <1>27, <1>28, <1>29
  DEF Next, Server, Client, Firmware

\* A packet in a FIFO was written during this connection.
LEMMA OwnPacketsStep == SessionInv /\ [Next]_vars => OwnPackets'
<1> SUFFICES ASSUME SessionInv, [Next]_vars PROVE OwnPackets'
  OBVIOUS
<1> USE DEF SessionInv, SessionOwnership
<1>a. ASSUME Pending' \subseteq Pending, \A e \in Pending' : packet'[e] = packet[e], conn' = conn
      PROVE  OwnPackets'
  BY <1>a DEF OwnPackets
<1>b. ASSUME packet' = packet, conn' = conn PROVE OwnPackets'
  BY <1>b DEF OwnPackets, Pending
<1>c. ASSUME Pending' = {} PROVE OwnPackets'
  BY <1>c DEF OwnPackets
<1>1. ASSUME Accept PROVE OwnPackets'
  BY <1>1, <1>c DEF Accept, TypeInv, Quiet, Pending
<1>2. ASSUME DeviceLoop PROVE OwnPackets'
  BY <1>2, <1>b DEF DeviceLoop, InEnds, link, fifo
<1>3. ASSUME NEW ep \in Eps, CompleteInterrupt(ep) PROVE OwnPackets'
  BY <1>3, <1>a, PendingAfter DEF CompleteInterrupt, link
<1>4. ASSUME CompleteInterruptFails PROVE OwnPackets'
  BY <1>4, <1>b DEF CompleteInterruptFails, InEnds, link, fifo
<1>5. ASSUME CompleteInterruptDone PROVE OwnPackets'
  BY <1>5, <1>b DEF CompleteInterruptDone, InEnds, link, fifo
<1>6. ASSUME PollIdle PROVE OwnPackets'
  BY <1>6, <1>b DEF PollIdle, InEnds, link, fifo
<1>7. ASSUME ConnectionLost PROVE OwnPackets'
  BY <1>7, <1>b DEF ConnectionLost, InEnds, link, fifo
<1>8. ASSUME Import PROVE OwnPackets'
  BY <1>8, <1>a, PendingAfter, ConstantsTyped DEF Import, link
<1>9. ASSUME Disconnect PROVE OwnPackets'
  BY <1>9, <1>c DEF Disconnect, Pending
<1>10. ASSUME NEW r \in Requests, SubmitRefused(r) PROVE OwnPackets'
  BY <1>10, <1>b DEF SubmitRefused, InEnds, link, fifo
<1>11. ASSUME NEW r \in Requests, SubmitBusy(r) PROVE OwnPackets'
  BY <1>11, <1>b DEF SubmitBusy, InEnds, link, fifo
<1>12. ASSUME NEW r \in Requests, SubmitPark(r) PROVE OwnPackets'
  BY <1>12, <1>b DEF SubmitPark, InEnds, link, fifo
<1>13. ASSUME NEW r \in Requests, SubmitTransfer(r) PROVE OwnPackets'
  BY <1>13, <1>a, PendingAfter, SizesAssumption DEF SubmitTransfer, link
<1>14. ASSUME OutChunk PROVE OwnPackets'
  BY <1>14, <1>b DEF OutChunk, InEnds, link, fifo
<1>15. ASSUME OutDone PROVE OwnPackets'
  <2>1. cur.urb.ep \in Eps
    BY DEF TypeInv, TypeOK, Transfer, Urb
  <2> QED
    BY <1>15, <2>1, <1>a, PendingAfter DEF OutDone, link
<1>16. ASSUME InHalted PROVE OwnPackets'
  BY <1>16, <1>b DEF InHalted, InEnds, link, fifo
<1>17. ASSUME InTimeout PROVE OwnPackets'
  BY <1>17, <1>b DEF InTimeout, InEnds, link, fifo
<1>18. ASSUME InFull PROVE OwnPackets'
  BY <1>18, <1>b DEF InFull, InEnds, link, fifo
<1>19. ASSUME InWait PROVE OwnPackets'
  BY <1>19, <1>b DEF InWait, InEnds, link, fifo
<1>20. ASSUME InOverrun PROVE OwnPackets'
  BY <1>20, <1>b DEF InOverrun, InEnds, link, fifo
<1>21. ASSUME InPacket PROVE OwnPackets'
  BY <1>21, <1>a, PendingAfter, InPacketAdvances DEF InPacket, link
<1>22. ASSUME TimePasses PROVE OwnPackets'
  BY <1>22, <1>b DEF TimePasses, InEnds, link, fifo
<1>23. ASSUME SendReply PROVE OwnPackets'
  BY <1>23, <1>b DEF SendReply, InEnds, link, fifo
<1>24. ASSUME NEW s \in 1..MaxSeq, Unlink(s) PROVE OwnPackets'
  BY <1>24, <1>b DEF Unlink, InEnds, link, fifo
<1>25. ASSUME NEW ep \in Eps, NEW len \in Lens, FwWrite(ep, len) PROVE OwnPackets'
  <2>1. packet' = [packet EXCEPT ![ep] =
           [conn |-> conn, n |-> written[ep] + 1, len |-> len, setup |-> setup]]
    BY <1>25 DEF FwWrite
  <2>2. packet'[ep].conn = conn /\ \A e \in Eps \ {ep} : packet'[e] = packet[e]
    BY <2>1 DEF TypeInv, TypeOK
  <2> QED
    BY <1>25, <2>2 DEF FwWrite, OwnPackets, Pending, link
<1>26. ASSUME NEW ep \in Eps, NEW dir \in Dirs, FwHalt(ep, dir) PROVE OwnPackets'
  BY <1>26, <1>b DEF FwHalt, InEnds, link, fifo
<1>27. ASSUME NEW ep \in Eps, NEW dir \in Dirs, FwOpen(ep, dir) PROVE OwnPackets'
  BY <1>27, <1>b DEF FwOpen, InEnds, link, fifo
<1>28. ASSUME NEW ep \in Eps, NEW dir \in Dirs, FwClose(ep, dir) PROVE OwnPackets'
  BY <1>28, <1>a, <1>b, PendingAfter DEF FwClose, link
<1>29. ASSUME UNCHANGED vars PROVE OwnPackets'
  BY <1>29, <1>b DEF vars, link, fifo
<1> QED
  BY <1>1, <1>2, <1>3, <1>4, <1>5, <1>6, <1>7, <1>8, <1>9, <1>10, <1>11, <1>12, <1>13, <1>14, <1>15, <1>16, <1>17, <1>18, <1>19, <1>20, <1>21, <1>22, <1>23, <1>24, <1>25, <1>26, <1>27, <1>28, <1>29
  DEF Next, Server, Client, Firmware

\* A transfer handles a request and packets of this connection.
LEMMA OwnTransferStep == SessionInv /\ [Next]_vars => OwnTransfer'
<1> SUFFICES ASSUME SessionInv, [Next]_vars PROVE OwnTransfer'
  OBVIOUS
<1> USE DEF SessionInv, SessionOwnership
<1>a. ASSUME cur'.urb = cur.urb, cur'.data = cur.data, conn' = conn, pc \in Transferring
      PROVE  OwnTransfer'
  BY <1>a DEF OwnTransfer
<1>b. ASSUME pc' \notin Transferring PROVE OwnTransfer'
  BY <1>b DEF OwnTransfer
<1>c. ASSUME pc' = pc, cur' = cur, conn' = conn PROVE OwnTransfer'
  BY <1>c DEF OwnTransfer
<1>d. ASSUME NEW r \in Requests, Submits(r), Started(r), conn' = conn PROVE OwnTransfer'
  BY <1>d, UrbTyped DEF OwnTransfer, Started
<1>e. ASSUME InHalted \/ InTimeout \/ InFull PROVE OwnTransfer'
  <2>1. cur'.urb = cur.urb /\ cur'.data = cur.data
    BY <1>e DEF InHalted, InTimeout, InFull, InEnds, TypeInv, TypeOK, Transfer
  <2> QED
    BY <1>e, <2>1, <1>a DEF InHalted, InTimeout, InFull, Collecting, InEnds, Transferring, link
<1>1. ASSUME Accept PROVE OwnTransfer'
  BY <1>1, <1>b DEF Accept, Transferring
<1>2. ASSUME DeviceLoop PROVE OwnTransfer'
  BY <1>2, <1>b DEF DeviceLoop, Transferring
<1>3. ASSUME NEW ep \in Eps, CompleteInterrupt(ep) PROVE OwnTransfer'
  BY <1>3, <1>c DEF CompleteInterrupt, link, transfer
<1>4. ASSUME CompleteInterruptFails PROVE OwnTransfer'
  BY <1>4, <1>b DEF CompleteInterruptFails, Transferring
<1>5. ASSUME CompleteInterruptDone PROVE OwnTransfer'
  BY <1>5, <1>b DEF CompleteInterruptDone, Transferring
<1>6. ASSUME PollIdle PROVE OwnTransfer'
  BY <1>6, <1>b DEF PollIdle, Transferring
<1>7. ASSUME ConnectionLost PROVE OwnTransfer'
  BY <1>7, <1>b DEF ConnectionLost, Transferring
<1>8. ASSUME Import PROVE OwnTransfer'
  BY <1>8, <1>b DEF Import, Transferring
<1>9. ASSUME Disconnect PROVE OwnTransfer'
  BY <1>9, <1>b DEF Disconnect, Transferring
<1>10. ASSUME NEW r \in Requests, SubmitRefused(r) PROVE OwnTransfer'
  BY <1>10, <1>b DEF SubmitRefused, Transferring
<1>11. ASSUME NEW r \in Requests, SubmitBusy(r) PROVE OwnTransfer'
  BY <1>11, <1>d, SubmitStarts DEF SubmitBusy, link
<1>12. ASSUME NEW r \in Requests, SubmitPark(r) PROVE OwnTransfer'
  BY <1>12, <1>b DEF SubmitPark, Transferring
<1>13. ASSUME NEW r \in Requests, SubmitTransfer(r) PROVE OwnTransfer'
  BY <1>13, <1>d, SubmitStarts DEF SubmitTransfer, link
<1>14. ASSUME OutChunk PROVE OwnTransfer'
  <2>1. cur'.urb = cur.urb /\ cur'.data = cur.data
    BY <1>14, OutChunkAdvances DEF Advanced
  <2> QED
    BY <1>14, <2>1, <1>a DEF OutChunk, Transferring, link
<1>15. ASSUME OutDone PROVE OwnTransfer'
  BY <1>15, <1>a DEF OutDone, Transferring, link, transfer
<1>16. ASSUME InHalted PROVE OwnTransfer'
  BY <1>16, <1>e
<1>17. ASSUME InTimeout PROVE OwnTransfer'
  BY <1>17, <1>e
<1>18. ASSUME InFull PROVE OwnTransfer'
  BY <1>18, <1>e
<1>19. ASSUME InWait PROVE OwnTransfer'
  BY <1>19, <1>c DEF InWait, link, transfer
<1>20. ASSUME InOverrun PROVE OwnTransfer'
  BY <1>20, <1>b DEF InOverrun, Transferring
<1>21. ASSUME InPacket PROVE OwnTransfer'
  <2> DEFINE p == packet[cur.urb.ep]
  <2>1. cur'.urb = cur.urb /\ cur'.data = Append(cur.data, p) /\ cur.data \in Seq(Packet)
    BY <1>21, InPacketAdvances DEF Advanced, TypeInv, TypeOK, Transfer
  <2>2. p.conn = conn
    BY <1>21 DEF InPacket, OwnPackets
  <2>3. pc \in Transferring /\ conn' = conn
    BY <1>21 DEF InPacket, Collecting, Transferring, link
  <2> HIDE DEF p
  <2>4. \A i \in 1..Len(cur.data) : cur.data[i].conn = conn
    BY <2>3 DEF OwnTransfer
  <2>5. \A i \in 1..Len(cur'.data) : cur'.data[i].conn = conn
    BY <2>1, <2>2, <2>4
  <2> QED
    BY <2>1, <2>3, <2>5 DEF OwnTransfer
<1>22. ASSUME TimePasses PROVE OwnTransfer'
  BY <1>22, <1>c DEF TimePasses, link
<1>23. ASSUME SendReply PROVE OwnTransfer'
  BY <1>23, <1>b DEF SendReply, Transferring
<1>24. ASSUME NEW s \in 1..MaxSeq, Unlink(s) PROVE OwnTransfer'
  BY <1>24, <1>b DEF Unlink, Transferring
<1>25. ASSUME NEW ep \in Eps, NEW len \in Lens, FwWrite(ep, len) PROVE OwnTransfer'
  BY <1>25, <1>c DEF FwWrite, link, transfer
<1>26. ASSUME NEW ep \in Eps, NEW dir \in Dirs, FwHalt(ep, dir) PROVE OwnTransfer'
  BY <1>26, <1>c DEF FwHalt, link, transfer
<1>27. ASSUME NEW ep \in Eps, NEW dir \in Dirs, FwOpen(ep, dir) PROVE OwnTransfer'
  BY <1>27, <1>c DEF FwOpen, link, transfer
<1>28. ASSUME NEW ep \in Eps, NEW dir \in Dirs, FwClose(ep, dir) PROVE OwnTransfer'
  BY <1>28, <1>c DEF FwClose, link, transfer
<1>29. ASSUME UNCHANGED vars PROVE OwnTransfer'
  BY <1>29, <1>c DEF vars, link, transfer
<1> QED
  BY <1>1, <1>2, <1>3, <1>4, <1>5, <1>6, <1>7, <1>8, <1>9, <1>10, <1>11, <1>12, <1>13, <1>14, <1>15, <1>16, <1>17, <1>18, <1>19, <1>20, <1>21, <1>22, <1>23, <1>24, <1>25, <1>26, <1>27, <1>28, <1>29
  DEF Next, Server, Client, Firmware

\* A reply is about a request of this connection and carries its packets.
LEMMA OwnRepliesStep == SessionInv /\ [Next]_vars => OwnReplies'
<1> SUFFICES ASSUME SessionInv, [Next]_vars PROVE OwnReplies'
  OBVIOUS
<1> USE DEF SessionInv, SessionOwnership
<1>a. ASSUME wire' = wire, conn' = conn PROVE OwnReplies'
  BY <1>a DEF OwnReplies
<1>b. ASSUME NEW w \in Reply, wire' = Append(wire, w), conn' = conn, w.urb.conn = conn,
             \A j \in 1..Len(w.data) : w.data[j].conn = conn
      PROVE  OwnReplies'
  <2>1. wire \in Seq(Reply)
    BY DEF TypeInv, TypeOK
  <2>2. \A i \in 1..Len(wire') :
          wire'[i] = w \/ (i \in 1..Len(wire) /\ wire'[i] = wire[i])
    BY <1>b, <2>1
  <2> QED
    BY <1>b, <2>2 DEF OwnReplies
<1>1. ASSUME Accept PROVE OwnReplies'
  BY <1>1 DEF Accept, OwnReplies
<1>2. ASSUME DeviceLoop PROVE OwnReplies'
  BY <1>2, <1>a DEF DeviceLoop, InEnds, link
<1>3. ASSUME NEW ep \in Eps, CompleteInterrupt(ep) PROVE OwnReplies'
  <2> DEFINE w == SubmitReply(intrIn[ep], packet[ep].len, "OK", <<packet[ep]>>, 0)
  <2>1. ep \in Eps /\ intrIn[ep] \in Urb /\ packet[ep] \in Packet
    BY DEF TypeInv, TypeOK
  <2>2. packet[ep].len \in Nat /\ <<packet[ep]>> \in Seq(Packet) /\ "OK" \in Statuses /\ 0 \in Nat
    BY <2>1, SizesAssumption DEF Packet, Statuses
  <2>3. w \in Reply
    BY <2>1, <2>2, ReplyTyped
  <2>4. w.urb = intrIn[ep] /\ w.data = <<packet[ep]>>
    BY DEF SubmitReply
  <2>5. wire' = Append(wire, w) /\ conn' = conn /\ ep \in hostReady /\ ep \in Pending
    BY <1>3 DEF CompleteInterrupt, Due, link
  <2> HIDE DEF w
  <2>6. w.urb.conn = conn /\ \A j \in 1..Len(w.data) : w.data[j].conn = conn
    BY <2>4, <2>5 DEF OwnParked, OwnPackets
  <2> QED
    BY <2>3, <2>5, <2>6, <1>b
<1>4. ASSUME CompleteInterruptFails PROVE OwnReplies'
  BY <1>4, <1>a DEF CompleteInterruptFails, InEnds, link
<1>5. ASSUME CompleteInterruptDone PROVE OwnReplies'
  BY <1>5, <1>a DEF CompleteInterruptDone, InEnds, link
<1>6. ASSUME PollIdle PROVE OwnReplies'
  BY <1>6, <1>a DEF PollIdle, InEnds, link
<1>7. ASSUME ConnectionLost PROVE OwnReplies'
  BY <1>7, <1>a DEF ConnectionLost, InEnds, link
<1>8. ASSUME Import PROVE OwnReplies'
  BY <1>8, <1>a DEF Import, InEnds, link
<1>9. ASSUME Disconnect PROVE OwnReplies'
  BY <1>9, <1>a DEF Disconnect, InEnds, link
<1>10. ASSUME NEW r \in Requests, SubmitRefused(r) PROVE OwnReplies'
  BY <1>10, <1>a DEF SubmitRefused, InEnds, link
<1>11. ASSUME NEW r \in Requests, SubmitBusy(r) PROVE OwnReplies'
  BY <1>11, <1>a DEF SubmitBusy, InEnds, link
<1>12. ASSUME NEW r \in Requests, SubmitPark(r) PROVE OwnReplies'
  BY <1>12, <1>a DEF SubmitPark, InEnds, link
<1>13. ASSUME NEW r \in Requests, SubmitTransfer(r) PROVE OwnReplies'
  BY <1>13, <1>a DEF SubmitTransfer, InEnds, link
<1>14. ASSUME OutChunk PROVE OwnReplies'
  BY <1>14, <1>a DEF OutChunk, InEnds, link
<1>15. ASSUME OutDone PROVE OwnReplies'
  BY <1>15, <1>a DEF OutDone, InEnds, link
<1>16. ASSUME InHalted PROVE OwnReplies'
  BY <1>16, <1>a DEF InHalted, InEnds, link
<1>17. ASSUME InTimeout PROVE OwnReplies'
  BY <1>17, <1>a DEF InTimeout, InEnds, link
<1>18. ASSUME InFull PROVE OwnReplies'
  BY <1>18, <1>a DEF InFull, InEnds, link
<1>19. ASSUME InWait PROVE OwnReplies'
  BY <1>19, <1>a DEF InWait, InEnds, link
<1>20. ASSUME InOverrun PROVE OwnReplies'
  BY <1>20, <1>a DEF InOverrun, InEnds, link
<1>21. ASSUME InPacket PROVE OwnReplies'
  BY <1>21, <1>a DEF InPacket, InEnds, link
<1>22. ASSUME TimePasses PROVE OwnReplies'
  BY <1>22, <1>a DEF TimePasses, InEnds, link
<1>23. ASSUME SendReply PROVE OwnReplies'
  <2> DEFINE w == SubmitReply(cur.urb, ActualLength, cur.status, cur.data, cur.sent)
  <2>1. cur.urb \in Urb /\ ActualLength \in Nat /\ cur.status \in Statuses
         /\ cur.data \in Seq(Packet) /\ cur.sent \in Nat
    BY DEF TypeInv, TypeOK, Transfer, ActualLength
  <2>2. w \in Reply
    BY <2>1, ReplyTyped
  <2>3. w.urb = cur.urb /\ w.data = cur.data
    BY DEF SubmitReply
  <2>4. wire' = Append(wire, w) /\ conn' = conn /\ pc \in Transferring
    BY <1>23 DEF SendReply, Transferring, link
  <2> HIDE DEF w
  <2> QED
    BY <2>2, <2>3, <2>4, <1>b DEF OwnTransfer
<1>24. ASSUME NEW s \in 1..MaxSeq, Unlink(s) PROVE OwnReplies'
  <2> DEFINE w == UnlinkReply(s, UnlinkKind(s))
  <2>1. w \in Reply
    BY UnlinkReplyTyped DEF UnlinkKind
  <2>2. w.urb.conn = conn /\ w.data = <<>>
    BY DEF UnlinkReply, NoUrb
  <2>3. wire' = Append(wire, w) /\ conn' = conn
    BY <1>24 DEF Unlink, link
  <2> HIDE DEF w
  <2> QED
    BY <2>1, <2>2, <2>3, <1>b
<1>25. ASSUME NEW ep \in Eps, NEW len \in Lens, FwWrite(ep, len) PROVE OwnReplies'
  BY <1>25, <1>a DEF FwWrite, InEnds, link
<1>26. ASSUME NEW ep \in Eps, NEW dir \in Dirs, FwHalt(ep, dir) PROVE OwnReplies'
  BY <1>26, <1>a DEF FwHalt, InEnds, link
<1>27. ASSUME NEW ep \in Eps, NEW dir \in Dirs, FwOpen(ep, dir) PROVE OwnReplies'
  BY <1>27, <1>a DEF FwOpen, InEnds, link
<1>28. ASSUME NEW ep \in Eps, NEW dir \in Dirs, FwClose(ep, dir) PROVE OwnReplies'
  BY <1>28, <1>a DEF FwClose, InEnds, link
<1>29. ASSUME UNCHANGED vars PROVE OwnReplies'
  BY <1>29, <1>a DEF vars, link
<1> QED
  BY <1>1, <1>2, <1>3, <1>4, <1>5, <1>6, <1>7, <1>8, <1>9, <1>10, <1>11, <1>12, <1>13, <1>14, <1>15, <1>16, <1>17, <1>18, <1>19, <1>20, <1>21, <1>22, <1>23, <1>24, <1>25, <1>26, <1>27, <1>28, <1>29
  DEF Next, Server, Client, Firmware

\* Whatever the connections, requests and packets, nothing of one connection
\* reaches another: the claim of the comment in rust_disconnect.
THEOREM SessionsSeparate == Spec => []SessionOwnership
<1>1. Init => SessionInv
  <2> SUFFICES ASSUME Init PROVE SessionOwnership
    BY TypeInit DEF SessionInv
  <2>1. Pending = {} /\ hostReady = {} /\ pc = "accept" /\ wire = <<>>
    BY DEF Init, Pending
  <2> QED
    BY <2>1 DEF SessionOwnership, OwnParked, OwnPackets, OwnTransfer, OwnReplies, Transferring
<1>2. SessionInv /\ [Next]_vars => SessionInv'
  BY TypeStep, LengthsStep, CountedStep, QuietStep,
     OwnParkedStep, OwnPacketsStep, OwnTransferStep, OwnRepliesStep
  DEF SessionInv, SessionOwnership, TypeInv
<1>3. SessionInv => SessionOwnership
  BY DEF SessionInv
<1> QED
  BY <1>1, <1>2, <1>3, PTL DEF Spec

-----------------------------------------------------------------------------
(* RustAdapter implements UrbService.                                      *)

\* The parked requests and the one being handled have numbers of their own,
\* all of them given out on this connection.
ParkedNumbered == \A ep \in hostReady : intrIn[ep].seq \in 1..(nextSeq - 1)

ParkedApart == \A e, f \in hostReady : intrIn[e].seq = intrIn[f].seq => e = f

TransferNumbered ==
  pc \in Transferring =>
    /\ cur.urb.seq \in 1..(nextSeq - 1)
    /\ \A ep \in hostReady : intrIn[ep].seq # cur.urb.seq

Numbered == ParkedNumbered /\ ParkedApart /\ TransferNumbered

NumberedInv == TypeInv /\ Numbered

\* Parking, answering and unlinking keep the numbers apart.
LEMMA NumberedStep == NumberedInv /\ [Next]_vars => Numbered'
<1> SUFFICES ASSUME NumberedInv, [Next]_vars PROVE Numbered'
  OBVIOUS
<1> USE DEF NumberedInv
<1>n. nextSeq \in Nat /\ nextSeq >= 1
  BY BoundsAssumption DEF TypeInv, TypeOK
<1>a. ASSUME hostReady' \subseteq hostReady, intrIn' = intrIn, nextSeq' = nextSeq,
             cur'.urb = cur.urb \/ pc' \notin Transferring,
             pc' \in Transferring => pc \in Transferring
      PROVE  Numbered'
  BY <1>a DEF Numbered, ParkedNumbered, ParkedApart, TransferNumbered
<1>b. ASSUME hostReady' = {}, pc' \notin Transferring PROVE Numbered'
  BY <1>b DEF Numbered, ParkedNumbered, ParkedApart, TransferNumbered
<1>c. ASSUME NEW r \in Requests, Submits(r), Started(r), nextSeq' = nextSeq + 1,
             hostReady' = hostReady, intrIn' = intrIn
      PROVE  Numbered'
  BY <1>c, <1>n, UrbTyped
  DEF Started, Numbered, ParkedNumbered, ParkedApart, TransferNumbered
<1>d. ASSUME InHalted \/ InTimeout \/ InFull PROVE Numbered'
  <2>1. cur'.urb = cur.urb
    BY <1>d DEF InHalted, InTimeout, InFull, InEnds, TypeInv, TypeOK, Transfer
  <2> QED
    BY <1>d, <2>1, <1>a DEF InHalted, InTimeout, InFull, Collecting, InEnds, Transferring, link, parked
<1>1. ASSUME Accept PROVE Numbered'
  BY <1>1, <1>b DEF Accept, parked, TypeInv, Quiet, Transferring
<1>2. ASSUME DeviceLoop PROVE Numbered'
  BY <1>2, <1>a DEF DeviceLoop, Transferring, link, parked, transfer
<1>3. ASSUME NEW ep \in Eps, CompleteInterrupt(ep) PROVE Numbered'
  BY <1>3, <1>a DEF CompleteInterrupt, Transferring, link, parked, transfer
<1>4. ASSUME CompleteInterruptFails PROVE Numbered'
  BY <1>4, <1>a DEF CompleteInterruptFails, Transferring, link, parked, transfer
<1>5. ASSUME CompleteInterruptDone PROVE Numbered'
  BY <1>5, <1>a DEF CompleteInterruptDone, Transferring, link, parked, transfer
<1>6. ASSUME PollIdle PROVE Numbered'
  BY <1>6, <1>a DEF PollIdle, Transferring, link, parked, transfer
<1>7. ASSUME ConnectionLost PROVE Numbered'
  BY <1>7, <1>a DEF ConnectionLost, Transferring, link, parked, transfer
<1>8. ASSUME Import PROVE Numbered'
  BY <1>8, <1>a DEF Import, Transferring, link, parked, transfer
<1>9. ASSUME Disconnect PROVE Numbered'
  BY <1>9, <1>b DEF Disconnect, Transferring
<1>10. ASSUME NEW r \in Requests, SubmitRefused(r) PROVE Numbered'
  BY <1>10, <1>a DEF SubmitRefused, Transferring, link, parked, transfer
<1>11. ASSUME NEW r \in Requests, SubmitBusy(r) PROVE Numbered'
  BY <1>11, <1>c, SubmitStarts DEF SubmitBusy, parked
<1>12. ASSUME NEW r \in Requests, SubmitPark(r) PROVE Numbered'
  <2>1. UrbOf(r).seq = nextSeq
    BY <1>12, UrbTyped DEF SubmitPark
  <2>2. /\ intrIn' = [intrIn EXCEPT ![r.ep] = UrbOf(r)]
        /\ hostReady' = hostReady \cup {r.ep}
        /\ nextSeq' = nextSeq + 1
        /\ pc' \notin Transferring
        /\ r.ep \notin hostReady
    BY <1>12 DEF SubmitPark, CanPark, Transferring
  <2>3. intrIn \in [Eps -> Urb] /\ hostReady \subseteq Eps /\ r.ep \in Eps
    BY SizesAssumption DEF TypeInv, TypeOK
  <2>4. intrIn'[r.ep].seq = nextSeq /\ \A e \in hostReady : intrIn'[e] = intrIn[e]
    BY <2>1, <2>2, <2>3
  <2>5. \A e \in hostReady : intrIn'[e].seq \in 1..(nextSeq - 1)
    BY <2>4 DEF Numbered, ParkedNumbered
  <2>6. ParkedNumbered'
    BY <1>n, <2>2, <2>4, <2>5 DEF ParkedNumbered
  <2>7. ParkedApart'
    BY <1>n, <2>2, <2>4, <2>5 DEF Numbered, ParkedApart
  <2> QED
    BY <2>2, <2>6, <2>7 DEF Numbered, TransferNumbered
<1>13. ASSUME NEW r \in Requests, SubmitTransfer(r) PROVE Numbered'
  BY <1>13, <1>c, SubmitStarts DEF SubmitTransfer, parked
<1>14. ASSUME OutChunk PROVE Numbered'
  <2>1. cur'.urb = cur.urb
    BY <1>14, OutChunkAdvances DEF Advanced
  <2> QED
    BY <1>14, <2>1, <1>a DEF OutChunk, link, parked
<1>15. ASSUME OutDone PROVE Numbered'
  BY <1>15, <1>a DEF OutDone, Transferring, link, parked, transfer
<1>16. ASSUME InHalted PROVE Numbered'
  BY <1>16, <1>d
<1>17. ASSUME InTimeout PROVE Numbered'
  BY <1>17, <1>d
<1>18. ASSUME InFull PROVE Numbered'
  BY <1>18, <1>d
<1>19. ASSUME InWait PROVE Numbered'
  BY <1>19, <1>a DEF InWait, Transferring, link, parked, transfer
<1>20. ASSUME InOverrun PROVE Numbered'
  BY <1>20, <1>a DEF InOverrun, Transferring, link, parked, transfer
<1>21. ASSUME InPacket PROVE Numbered'
  <2>1. cur'.urb = cur.urb
    BY <1>21, InPacketAdvances DEF Advanced
  <2> QED
    BY <1>21, <2>1, <1>a DEF InPacket, Collecting, Transferring, link, parked
<1>22. ASSUME TimePasses PROVE Numbered'
  BY <1>22, <1>a DEF TimePasses, Transferring, link, parked, transfer
<1>23. ASSUME SendReply PROVE Numbered'
  BY <1>23, <1>a DEF SendReply, Transferring, link, parked, transfer
<1>24. ASSUME NEW s \in 1..MaxSeq, Unlink(s) PROVE Numbered'
  BY <1>24, <1>a DEF Unlink, StillReady, Transferring, link, transfer
<1>25. ASSUME NEW ep \in Eps, NEW len \in Lens, FwWrite(ep, len) PROVE Numbered'
  BY <1>25, <1>a DEF FwWrite, Transferring, link, parked, transfer
<1>26. ASSUME NEW ep \in Eps, NEW dir \in Dirs, FwHalt(ep, dir) PROVE Numbered'
  BY <1>26, <1>a DEF FwHalt, Transferring, link, parked, transfer
<1>27. ASSUME NEW ep \in Eps, NEW dir \in Dirs, FwOpen(ep, dir) PROVE Numbered'
  BY <1>27, <1>a DEF FwOpen, Transferring, link, parked, transfer
<1>28. ASSUME NEW ep \in Eps, NEW dir \in Dirs, FwClose(ep, dir) PROVE Numbered'
  BY <1>28, <1>a DEF FwClose, Transferring, link, parked, transfer
<1>29. ASSUME UNCHANGED vars PROVE Numbered'
  BY <1>29, <1>a DEF vars, link, parked, transfer
<1> QED
  BY <1>1, <1>2, <1>3, <1>4, <1>5, <1>6, <1>7, <1>8, <1>9, <1>10, <1>11, <1>12, <1>13, <1>14, <1>15, <1>16, <1>17, <1>18, <1>19, <1>20, <1>21, <1>22, <1>23, <1>24, <1>25, <1>26, <1>27, <1>28, <1>29
  DEF Next, Server, Client, Firmware

LEMMA NumberedInit == Init => NumberedInv
<1> SUFFICES ASSUME Init PROVE Numbered
  BY TypeInit DEF NumberedInv
<1> QED
  BY DEF Init, Numbered, ParkedNumbered, ParkedApart, TransferNumbered, Transferring

LEMMA NumberedInvStep == NumberedInv /\ [Next]_vars => NumberedInv'
BY TypeStep, LengthsStep, CountedStep, QuietStep, NumberedStep DEF NumberedInv, TypeInv

\* A reply shows up in the log of the host.
LEMMA LogAppends ==
  ASSUME TypeInv, NEW w \in Reply, wire' = Append(wire, w)
  PROVE  Log' = Append(Log, [kind |-> w.kind, seq |-> w.urb.seq])
<1>1. wire \in Seq(Reply)
  BY DEF TypeInv, TypeOK
<1> DEFINE Entry(x) == [kind |-> x.kind, seq |-> x.urb.seq]
           Entries == {Entry(x) : x \in Reply}
<1>2. Log \in Seq(Entries) /\ Len(Log) = Len(wire)
  BY <1>1 DEF Log
<1>3. Log' = [i \in 1..(Len(wire) + 1) |-> Entry(Append(wire, w)[i])]
  BY <1>1 DEF Log
<1>4. \A i \in 1..Len(wire) : Append(wire, w)[i] = wire[i]
  BY <1>1
<1>5. Append(wire, w)[Len(wire) + 1] = w
  BY <1>1
<1> QED
  BY <1>1, <1>2, <1>3, <1>4, <1>5 DEF Log

\* Steps that UrbService does not see.
LEMMA Unseen ==
  ASSUME pc \in Serving <=> pc' \in Serving,
         pc \in Transferring <=> pc' \in Transferring,
         pc \in Transferring => cur'.urb = cur.urb,
         hostReady' = hostReady, intrIn' = intrIn, nextSeq' = nextSeq, wire' = wire
  PROVE  UNCHANGED URB!urbVars
<1>1. (Connected <=> Connected') /\ Outstanding' = Outstanding /\ Log' = Log
  BY DEF Connected, Outstanding, Log
<1> QED
  BY <1>1 DEF URB!urbVars, Connected

\* The connection ends, and what was outstanding with it.
LEMMA Closes ==
  ASSUME pc \in Serving, pc' \notin Serving, nextSeq' = nextSeq, wire' = wire
  PROVE  URB!Close
BY DEF URB!Close, Connected, Outstanding, Log

\* Submitting gives out the next number.
LEMMA SubmitsNext ==
  ASSUME NumberedInv, NEW r \in Requests, Submits(r), nextSeq' = nextSeq + 1, wire' = wire,
         pc' \in Serving, Outstanding' = Outstanding \cup {nextSeq}
  PROVE  URB!Next
<1>1. nextSeq \in 1..MaxSeq
  BY BoundsAssumption DEF NumberedInv, TypeInv, TypeOK, Submits
<1>2. 1..(nextSeq' - 1) = (1..(nextSeq - 1)) \cup {nextSeq}
  BY <1>1
<1>3. Connected /\ Connected' /\ Log' = Log
  BY DEF Submits, Connected, Serving, Log
<1>4. nextSeq \notin 1..(nextSeq - 1)
  BY <1>1
<1>5. URB!Submit(nextSeq)
  BY <1>2, <1>3, <1>4 DEF URB!Submit, Connected
<1> QED
  BY <1>1, <1>5 DEF URB!Next

\* Every step is one of UrbService or leaves what it sees alone.
LEMMA RefinesStep == NumberedInv /\ [Next]_vars => [URB!Next]_(URB!urbVars)
<1> SUFFICES ASSUME NumberedInv, [Next]_vars PROVE [URB!Next]_(URB!urbVars)
  OBVIOUS
<1> USE DEF NumberedInv
<1>n. nextSeq \in 1..(MaxSeq + 1) /\ MaxSeq \in Nat
  BY BoundsAssumption DEF TypeInv, TypeOK
<1>t. intrIn \in [Eps -> Urb] /\ hostReady \subseteq Eps /\ cur.urb.seq \in Nat
  BY DEF TypeInv, TypeOK, Transfer, Urb
<1>s. 1..(nextSeq - 1) \subseteq 1..MaxSeq
  BY <1>n
<1>c. ASSUME pc \in Serving, pc' \notin Serving, nextSeq' = nextSeq, wire' = wire
      PROVE  [URB!Next]_(URB!urbVars)
  BY <1>c, Closes DEF URB!Next
<1>d. ASSUME InHalted \/ InTimeout \/ InFull PROVE [URB!Next]_(URB!urbVars)
  <2>1. cur'.urb = cur.urb
    BY <1>d DEF InHalted, InTimeout, InFull, InEnds, TypeInv, TypeOK, Transfer
  <2> QED
    BY <1>d, <2>1, Unseen
    DEF InHalted, InTimeout, InFull, Collecting, InEnds, Serving, Transferring, link, parked
<1>e. ASSUME NEW r \in Requests, Submits(r), Started(r), nextSeq' = nextSeq + 1,
             hostReady' = hostReady, intrIn' = intrIn, wire' = wire, pc' \in Transferring
      PROVE  [URB!Next]_(URB!urbVars)
  <2>1. cur'.urb.seq = nextSeq
    BY <1>e, UrbTyped DEF Started
  <2>2. pc = "poll" /\ pc \notin Transferring /\ pc' \in Serving
    BY <1>e DEF Submits, Transferring, Serving
  <2>3. Outstanding' = Outstanding \cup {nextSeq}
    BY <1>e, <2>1, <2>2 DEF Outstanding, Connected, Serving
  <2> QED
    BY <1>e, <2>2, <2>3, SubmitsNext
<1>1. ASSUME Accept PROVE [URB!Next]_(URB!urbVars)
  <2>1. ~Connected /\ Connected'
    BY <1>1 DEF Accept, Connected, Serving
  <2>2. Outstanding = {} /\ Outstanding' = {}
    BY <1>1, <2>1 DEF Accept, Outstanding, TypeInv, Quiet, Transferring, parked
  <2>3. 1..(nextSeq' - 1) = {} /\ Log' = <<>>
    BY <1>1 DEF Accept, Log
  <2> QED
    BY <2>1, <2>2, <2>3 DEF URB!Next, URB!Connect, Connected
<1>2. ASSUME DeviceLoop PROVE [URB!Next]_(URB!urbVars)
  BY <1>2, Unseen DEF DeviceLoop, Serving, Transferring, link, parked, transfer
<1>3. ASSUME NEW ep \in Eps, CompleteInterrupt(ep) PROVE [URB!Next]_(URB!urbVars)
  <2> DEFINE n == intrIn[ep].seq
  <2>1. ep \in hostReady /\ pc = "scan" /\ pc' = pc /\ nextSeq' = nextSeq /\ intrIn' = intrIn
         /\ hostReady' = hostReady \ {ep}
    BY <1>3 DEF CompleteInterrupt, Due, link
  <2>2. Outstanding = {intrIn[e].seq : e \in hostReady}
         /\ Outstanding' = {intrIn[e].seq : e \in hostReady \ {ep}}
    BY <2>1 DEF Outstanding, Connected, Serving, Transferring
  <2>3. n \in Outstanding /\ Outstanding' = Outstanding \ {n}
    BY <2>1, <2>2 DEF Numbered, ParkedApart
  <2>4. n \in 1..MaxSeq
    BY <2>1, <1>s DEF Numbered, ParkedNumbered
  <2>5. Log' = Append(Log, [kind |-> "submit", seq |-> n])
    <3> DEFINE w == SubmitReply(intrIn[ep], packet[ep].len, "OK", <<packet[ep]>>, 0)
    <3>1. intrIn[ep] \in Urb /\ packet[ep] \in Packet
      BY DEF TypeInv, TypeOK
    <3>2. packet[ep].len \in Nat /\ <<packet[ep]>> \in Seq(Packet) /\ "OK" \in Statuses /\ 0 \in Nat
      BY <3>1, SizesAssumption DEF Packet, Statuses
    <3>3. w \in Reply
      BY <3>1, <3>2, ReplyTyped
    <3>4. w.kind = "submit" /\ w.urb = intrIn[ep]
      BY DEF SubmitReply
    <3>5. wire' = Append(wire, w)
      BY <1>3 DEF CompleteInterrupt
    <3> HIDE DEF w
    <3> QED
      BY <3>3, <3>4, <3>5, LogAppends
  <2>6. Connected /\ Connected'
    BY <2>1 DEF Connected, Serving
  <2> HIDE DEF n
  <2> QED
    BY <2>1, <2>3, <2>4, <2>5, <2>6 DEF URB!Next, URB!Answer, Connected
<1>4. ASSUME CompleteInterruptFails PROVE [URB!Next]_(URB!urbVars)
  BY <1>4, <1>c DEF CompleteInterruptFails, Submits, Collecting, Serving, link
<1>5. ASSUME CompleteInterruptDone PROVE [URB!Next]_(URB!urbVars)
  BY <1>5, Unseen DEF CompleteInterruptDone, Serving, Transferring, link, parked, transfer
<1>6. ASSUME PollIdle PROVE [URB!Next]_(URB!urbVars)
  BY <1>6, Unseen DEF PollIdle, Serving, Transferring, link, parked, transfer
<1>7. ASSUME ConnectionLost PROVE [URB!Next]_(URB!urbVars)
  BY <1>7, <1>c DEF ConnectionLost, Submits, Collecting, Serving, link
<1>8. ASSUME Import PROVE [URB!Next]_(URB!urbVars)
  BY <1>8, Unseen DEF Import, Serving, Transferring, link, parked, transfer
<1>9. ASSUME Disconnect PROVE [URB!Next]_(URB!urbVars)
  <2>1. ~Connected /\ ~Connected' /\ Log' = Log
    BY <1>9 DEF Disconnect, Connected, Serving, Log
  <2>2. Outstanding' = Outstanding
    BY <2>1 DEF Outstanding
  <2> QED
    BY <1>9, <2>1, <2>2 DEF Disconnect, URB!urbVars, Connected
<1>10. ASSUME NEW r \in Requests, SubmitRefused(r) PROVE [URB!Next]_(URB!urbVars)
  BY <1>10, <1>c DEF SubmitRefused, Submits, Collecting, Serving, link
<1>11. ASSUME NEW r \in Requests, SubmitBusy(r) PROVE [URB!Next]_(URB!urbVars)
  <2>1. Submits(r) /\ Started(r)
    BY <1>11, SubmitStarts DEF SubmitBusy
  <2> QED
    BY <1>11, <2>1, <1>e DEF SubmitBusy, Transferring, parked, Dirs
<1>12. ASSUME NEW r \in Requests, SubmitPark(r) PROVE [URB!Next]_(URB!urbVars)
  <2>1. UrbOf(r).seq = nextSeq
    BY <1>12, UrbTyped DEF SubmitPark
  <2>2. /\ intrIn' = [intrIn EXCEPT ![r.ep] = UrbOf(r)]
        /\ hostReady' = hostReady \cup {r.ep}
        /\ pc = "poll" /\ pc' = "loop"
        /\ r.ep \notin hostReady
    BY <1>12 DEF SubmitPark, CanPark, Submits
  <2>3. r.ep \in Eps
    BY SizesAssumption
  <2>4. intrIn'[r.ep].seq = nextSeq /\ \A e \in hostReady : intrIn'[e] = intrIn[e]
    BY <2>1, <2>2, <2>3, <1>t
  <2>5. Outstanding = {intrIn[e].seq : e \in hostReady}
         /\ Outstanding' = {intrIn'[e].seq : e \in hostReady \cup {r.ep}}
    BY <2>2 DEF Outstanding, Connected, Serving, Transferring
  <2>6. Outstanding' = Outstanding \cup {nextSeq}
    BY <2>4, <2>5
  <2>7. pc' \in Serving
    BY <2>2 DEF Serving
  <2> QED
    BY <1>12, <2>6, <2>7, SubmitsNext DEF SubmitPark
<1>13. ASSUME NEW r \in Requests, SubmitTransfer(r) PROVE [URB!Next]_(URB!urbVars)
  <2>1. Submits(r) /\ Started(r)
    BY <1>13, SubmitStarts DEF SubmitTransfer
  <2>2. pc' \in Transferring
    BY <1>13, SizesAssumption DEF SubmitTransfer, Transferring, Dirs
  <2> QED
    BY <1>13, <2>1, <2>2, <1>e DEF SubmitTransfer, parked
<1>14. ASSUME OutChunk PROVE [URB!Next]_(URB!urbVars)
  <2>1. cur'.urb = cur.urb
    BY <1>14, OutChunkAdvances DEF Advanced
  <2> QED
    BY <1>14, <2>1, Unseen DEF OutChunk, link, parked
<1>15. ASSUME OutDone PROVE [URB!Next]_(URB!urbVars)
  BY <1>15, Unseen DEF OutDone, Serving, Transferring, link, parked, transfer
<1>16. ASSUME InHalted PROVE [URB!Next]_(URB!urbVars)
  BY <1>16, <1>d
<1>17. ASSUME InTimeout PROVE [URB!Next]_(URB!urbVars)
  BY <1>17, <1>d
<1>18. ASSUME InFull PROVE [URB!Next]_(URB!urbVars)
  BY <1>18, <1>d
<1>19. ASSUME InWait PROVE [URB!Next]_(URB!urbVars)
  BY <1>19, Unseen DEF InWait, Serving, Transferring, link, parked, transfer
<1>20. ASSUME InOverrun PROVE [URB!Next]_(URB!urbVars)
  BY <1>20, <1>c DEF InOverrun, Submits, Collecting, Serving, link
<1>21. ASSUME InPacket PROVE [URB!Next]_(URB!urbVars)
  <2>1. cur'.urb = cur.urb
    BY <1>21, InPacketAdvances DEF Advanced
  <2> QED
    BY <1>21, <2>1, Unseen DEF InPacket, Collecting, Serving, Transferring, link, parked
<1>22. ASSUME TimePasses PROVE [URB!Next]_(URB!urbVars)
  BY <1>22, Unseen DEF TimePasses, Serving, Transferring, link, parked, transfer
<1>23. ASSUME SendReply PROVE [URB!Next]_(URB!urbVars)
  <2> DEFINE n == cur.urb.seq
  <2>1. pc = "reply" /\ pc' = "loop" /\ nextSeq' = nextSeq /\ intrIn' = intrIn
         /\ hostReady' = hostReady
    BY <1>23 DEF SendReply, link, parked
  <2>2. Outstanding = {intrIn[e].seq : e \in hostReady} \cup {n}
         /\ Outstanding' = {intrIn[e].seq : e \in hostReady}
    BY <2>1 DEF Outstanding, Connected, Serving, Transferring
  <2>3. n \in Outstanding /\ Outstanding' = Outstanding \ {n}
    BY <2>1, <2>2 DEF Numbered, TransferNumbered, Transferring
  <2>4. n \in 1..MaxSeq
    BY <2>1, <1>s DEF Numbered, TransferNumbered, Transferring
  <2>5. Log' = Append(Log, [kind |-> "submit", seq |-> n])
    <3> DEFINE w == SubmitReply(cur.urb, ActualLength, cur.status, cur.data, cur.sent)
    <3>1. cur.urb \in Urb /\ ActualLength \in Nat /\ cur.status \in Statuses
           /\ cur.data \in Seq(Packet) /\ cur.sent \in Nat
      BY DEF TypeInv, TypeOK, Transfer, ActualLength
    <3>2. w \in Reply
      BY <3>1, ReplyTyped
    <3>3. w.kind = "submit" /\ w.urb = cur.urb
      BY DEF SubmitReply
    <3>4. wire' = Append(wire, w)
      BY <1>23 DEF SendReply
    <3> HIDE DEF w
    <3> QED
      BY <3>2, <3>3, <3>4, LogAppends
  <2>6. Connected /\ Connected'
    BY <2>1 DEF Connected, Serving
  <2> HIDE DEF n
  <2> QED
    BY <2>1, <2>3, <2>4, <2>5, <2>6 DEF URB!Next, URB!Answer, Connected
<1>24. ASSUME NEW s \in 1..MaxSeq, Unlink(s) PROVE [URB!Next]_(URB!urbVars)
  <2>1. pc = "poll" /\ pc' = "loop" /\ nextSeq' = nextSeq /\ intrIn' = intrIn
         /\ hostReady' = hostReady \ Matched(s) /\ s \in 1..(nextSeq - 1)
    BY <1>24 DEF Unlink, StillReady, link
  <2>2. Outstanding = {intrIn[e].seq : e \in hostReady}
         /\ Outstanding' = {intrIn[e].seq : e \in hostReady \ Matched(s)}
    BY <2>1 DEF Outstanding, Connected, Serving, Transferring
  <2>3. Outstanding' = Outstanding \ {s}
    BY <2>2, <1>t DEF Matched
  <2>4. Log' = Append(Log, [kind |-> UnlinkKind(s), seq |-> s])
    <3> DEFINE w == UnlinkReply(s, UnlinkKind(s))
    <3>1. w \in Reply
      BY UnlinkReplyTyped DEF UnlinkKind
    <3>2. w.kind = UnlinkKind(s) /\ w.urb.seq = s
      BY DEF UnlinkReply, NoUrb
    <3>3. wire' = Append(wire, w)
      BY <1>24 DEF Unlink
    <3> HIDE DEF w
    <3> QED
      BY <3>1, <3>2, <3>3, LogAppends
  <2>5. Connected /\ Connected'
    BY <2>1 DEF Connected, Serving
  <2>6. CASE Matched(s) # {}
    <3>1. UnlinkKind(s) = "unlinked"
      BY <2>6 DEF UnlinkKind
    <3> QED
      BY <2>1, <2>3, <2>4, <2>5, <3>1 DEF URB!Next, URB!Cancel, Connected
  <2>7. CASE Matched(s) = {}
    <3>1. UnlinkKind(s) = "completed"
      BY <2>7 DEF UnlinkKind
    <3>2. s \notin Outstanding
      BY <2>2, <2>7, <1>t DEF Matched
    <3>3. Outstanding' = Outstanding
      BY <2>3, <3>2
    <3> QED
      BY <2>1, <2>4, <2>5, <3>1, <3>2, <3>3 DEF URB!Next, URB!NothingToCancel, Connected
  <2> QED
    BY <2>6, <2>7
<1>25. ASSUME NEW ep \in Eps, NEW len \in Lens, FwWrite(ep, len) PROVE [URB!Next]_(URB!urbVars)
  BY <1>25, Unseen DEF FwWrite, Serving, Transferring, link, parked, transfer
<1>26. ASSUME NEW ep \in Eps, NEW dir \in Dirs, FwHalt(ep, dir) PROVE [URB!Next]_(URB!urbVars)
  BY <1>26, Unseen DEF FwHalt, Serving, Transferring, link, parked, transfer
<1>27. ASSUME NEW ep \in Eps, NEW dir \in Dirs, FwOpen(ep, dir) PROVE [URB!Next]_(URB!urbVars)
  BY <1>27, Unseen DEF FwOpen, Serving, Transferring, link, parked, transfer
<1>28. ASSUME NEW ep \in Eps, NEW dir \in Dirs, FwClose(ep, dir) PROVE [URB!Next]_(URB!urbVars)
  <2>1. pc' = pc /\ cur' = cur /\ nextSeq' = nextSeq /\ intrIn' = intrIn /\ wire' = wire
    BY <1>28 DEF FwClose, link, transfer
  <2>2. CASE hostReady' = hostReady
    BY <2>1, <2>2, Unseen
  <2>3. CASE hostReady' # hostReady /\ pc \in Serving
    <3> DEFINE n == intrIn[ep].seq
    <3>1. ep \in hostReady /\ hostReady' = hostReady \ {ep}
      BY <1>28, <2>3 DEF FwClose
    <3>2. n \in Outstanding
      BY <2>3, <3>1 DEF Outstanding, Connected
    <3>3. Outstanding' = Outstanding \ {n}
      BY <2>1, <2>3, <3>1
      DEF Outstanding, Connected, Numbered, ParkedApart, TransferNumbered
    <3>4. n \in 1..MaxSeq
      BY <3>1, <1>s DEF Numbered, ParkedNumbered
    <3>5. Connected /\ Connected' /\ Log' = Log
      BY <2>1, <2>3 DEF Connected, Log
    <3> HIDE DEF n
    <3> QED
      BY <2>1, <3>2, <3>3, <3>4, <3>5 DEF URB!Next, URB!Drop, Connected
  <2>4. CASE pc \notin Serving
    <3>1. Outstanding' = Outstanding /\ Log' = Log
      BY <2>1, <2>4 DEF Outstanding, Connected, Log
    <3> QED
      BY <2>1, <3>1 DEF URB!urbVars, Connected
  <2> QED
    BY <2>2, <2>3, <2>4
<1>29. ASSUME UNCHANGED vars PROVE [URB!Next]_(URB!urbVars)
  BY <1>29, Unseen DEF vars, link, parked, transfer
<1> QED
  BY <1>1, <1>2, <1>3, <1>4, <1>5, <1>6, <1>7, <1>8, <1>9, <1>10, <1>11, <1>12, <1>13, <1>14, <1>15, <1>16, <1>17, <1>18, <1>19, <1>20, <1>21, <1>22, <1>23, <1>24, <1>25, <1>26, <1>27, <1>28, <1>29
  DEF Next, Server, Client, Firmware

\* The adapter keeps the promise of UrbService for any number of endpoints,
\* requests and packets: each request is answered at most once and not after
\* its cancellation was confirmed.
THEOREM ImplementsUrbService == Spec => UrbServiceSpec
<1>1. Init => URB!Init
  BY DEF Init, URB!Init, Connected, Serving, Outstanding, Log
<1> QED
  BY <1>1, NumberedInit, NumberedInvStep, RefinesStep, PTL DEF Spec, UrbServiceSpec, URB!Spec
-----------------------------------------------------------------------------
(* What the host can rely on.                                              *)

\* The requests of this connection that the host has heard of.
Settled == {Log[i].seq : i \in 1..Len(Log)}

\* No answer is owed to one of them.  This makes AnswerComesFirst inductive, and
\* is an invariant of UrbService: which action of the adapter it is does not matter.
SettledIsDone == Settled \subseteq 1..(nextSeq - 1) /\ Settled \cap Outstanding = {}

LogEntry == [kind : {"submit", "unlinked", "completed"}, seq : Nat]

LEMMA LogTyped ==
  ASSUME wire \in Seq(Reply)
  PROVE  Log \in Seq(LogEntry)
<1>1. \A i \in 1..Len(wire) : wire[i].kind \in {"submit", "unlinked", "completed"} /\ wire[i].urb.seq \in Nat
  <2>1. \A i \in 1..Len(wire) : wire[i] \in Reply
    OBVIOUS
  <2>2. \A w \in Reply : w.kind \in {"submit", "unlinked", "completed"} /\ w.urb.seq \in Nat
    BY DEF Reply, Urb
  <2> QED
    BY <2>1, <2>2
<1>2. \A i \in 1..Len(wire) : [kind |-> wire[i].kind, seq |-> wire[i].urb.seq] \in LogEntry
  BY <1>1 DEF LogEntry
<1> QED
  BY <1>2 DEF Log

LEMMA AppendElements ==
  ASSUME NEW S, NEW s \in Seq(S), NEW x \in S
  PROVE  /\ Len(s) \in Nat
         /\ Len(Append(s, x)) = Len(s) + 1
         /\ Append(s, x)[Len(s) + 1] = x
         /\ \A i \in 1..Len(s) : Append(s, x)[i] = s[i]
OBVIOUS

\* A reply settles its request, and keeps the order if an answer is the first reply.
LEMMA ReplySettles ==
  ASSUME Log \in Seq(LogEntry), AnswerComesFirst,
         NEW x \in LogEntry, Log' = Append(Log, x), x.kind = "submit" => x.seq \notin Settled
  PROVE  AnswerComesFirst' /\ Settled' = Settled \cup {x.seq}
<1> DEFINE n == Len(Log)
<1>1. /\ n \in Nat /\ Len(Log') = n + 1 /\ Log'[n + 1] = x
      /\ \A i \in 1..n : Log'[i] = Log[i]
  BY AppendElements
<1>2. AnswerComesFirst'
  <2> SUFFICES ASSUME NEW i \in 1..(n + 1), NEW j \in 1..(n + 1), i < j, Log'[i].seq = Log'[j].seq
               PROVE  Log'[j].kind # "submit"
    BY <1>1 DEF AnswerComesFirst, URB!AnswerFirst
  <2>1. i \in 1..n /\ Log'[i] = Log[i]
    BY <1>1
  <2>2. CASE j = n + 1
    <3>1. x.seq \in Settled
      BY <1>1, <2>1, <2>2 DEF Settled
    <3> QED
      BY <1>1, <2>2, <3>1
  <2>3. CASE j # n + 1
    <3>1. j \in 1..n /\ Log'[j] = Log[j]
      BY <1>1, <2>3
    <3> QED
      BY <2>1, <3>1 DEF AnswerComesFirst, URB!AnswerFirst
  <2> QED
    BY <2>2, <2>3
<1>3. Settled' = {Log'[i].seq : i \in (1..n) \cup {n + 1}}
  <2>1. 1..Len(Log') = (1..n) \cup {n + 1}
    BY <1>1
  <2> QED
    BY <2>1, Zenon DEF Settled
<1>4. {Log'[i].seq : i \in (1..n) \cup {n + 1}} = {Log[i].seq : i \in 1..n} \cup {x.seq}
  BY <1>1, Zenon
<1> QED
  BY <1>2, <1>3, <1>4, Zenon DEF Settled

LEMMA SettledStep ==
  ASSUME NumberedInv, AnswerComesFirst, SettledIsDone, [URB!Next]_(URB!urbVars)
  PROVE  AnswerComesFirst' /\ SettledIsDone'
<1> DEFINE Used == 1..(nextSeq - 1)
           Goal == AnswerComesFirst' /\ SettledIsDone'
<1>t. Log \in Seq(LogEntry)
  BY LogTyped DEF NumberedInv, TypeInv, TypeOK
<1>o. Outstanding \subseteq Used
  BY DEF NumberedInv, Numbered, ParkedNumbered, TransferNumbered, Outstanding
<1>e. \A q \in 1..MaxSeq : \A k \in {"submit", "unlinked", "completed"} :
        [kind |-> k, seq |-> q] \in LogEntry
  BY DEF LogEntry
<1>s. ASSUME Log' = Log PROVE AnswerComesFirst' /\ Settled' = Settled
  BY <1>s DEF Settled, AnswerComesFirst, URB!AnswerFirst
<1>1. ASSUME URB!Connect PROVE Goal
  <2>1. Log' = <<>>
    BY <1>1 DEF URB!Connect
  <2>2. Settled' = {}
    BY <2>1 DEF Settled
  <2> QED
    BY <2>1, <2>2 DEF SettledIsDone, AnswerComesFirst, URB!AnswerFirst
<1>2. ASSUME URB!Close PROVE Goal
  BY <1>2, <1>s DEF URB!Close, SettledIsDone
<1>3. ASSUME NEW q \in 1..MaxSeq, URB!Submit(q) PROVE Goal
  BY <1>3, <1>s DEF URB!Submit, SettledIsDone
<1>4. ASSUME NEW q \in 1..MaxSeq, URB!Answer(q) PROVE Goal
  <2>1. Log' = Append(Log, [kind |-> "submit", seq |-> q]) /\ q \in Outstanding
        /\ Outstanding' = Outstanding \ {q} /\ Used' = Used
    BY <1>4 DEF URB!Answer
  <2>2. q \notin Settled
    BY <2>1 DEF SettledIsDone
  <2>3. AnswerComesFirst' /\ Settled' = Settled \cup {q}
    BY <1>t, <1>e, <2>1, <2>2, ReplySettles
  <2> QED
    BY <1>o, <2>1, <2>3 DEF SettledIsDone
<1>5. ASSUME NEW q \in 1..MaxSeq, URB!Cancel(q) PROVE Goal
  <2>1. Log' = Append(Log, [kind |-> "unlinked", seq |-> q]) /\ q \in Used
        /\ Outstanding' = Outstanding \ {q} /\ Used' = Used
    BY <1>5 DEF URB!Cancel
  <2>2. AnswerComesFirst' /\ Settled' = Settled \cup {q}
    BY <1>t, <1>e, <2>1, ReplySettles
  <2> QED
    BY <2>1, <2>2 DEF SettledIsDone
<1>6. ASSUME NEW q \in 1..MaxSeq, URB!NothingToCancel(q) PROVE Goal
  <2>1. Log' = Append(Log, [kind |-> "completed", seq |-> q]) /\ q \in Used \ Outstanding
        /\ Outstanding' = Outstanding /\ Used' = Used
    BY <1>6 DEF URB!NothingToCancel
  <2>2. AnswerComesFirst' /\ Settled' = Settled \cup {q}
    BY <1>t, <1>e, <2>1, ReplySettles
  <2> QED
    BY <2>1, <2>2 DEF SettledIsDone
<1>7. ASSUME NEW q \in 1..MaxSeq, URB!Drop(q) PROVE Goal
  BY <1>7, <1>s DEF URB!Drop, SettledIsDone
<1>8. ASSUME UNCHANGED URB!urbVars PROVE Goal
  BY <1>8, <1>s DEF URB!urbVars, SettledIsDone
<1> QED
  BY <1>1, <1>2, <1>3, <1>4, <1>5, <1>6, <1>7, <1>8 DEF URB!Next

\* Whatever the firmware does, and from whichever path an answer comes, the host
\* never receives RET_SUBMIT for a request that was answered, unlinked or reported as
\* completed before.
THEOREM AnswersComeFirst == Spec => []AnswerComesFirst
<1> DEFINE Inv == NumberedInv /\ AnswerComesFirst /\ SettledIsDone
<1>1. Init => Inv
  <2> SUFFICES ASSUME Init PROVE AnswerComesFirst /\ SettledIsDone
    BY NumberedInit
  <2>1. wire = <<>>
    BY DEF Init
  <2> QED
    BY <2>1 DEF Log, Settled, AnswerComesFirst, URB!AnswerFirst, SettledIsDone
<1>2. Inv /\ [Next]_vars => Inv'
  BY NumberedInvStep, RefinesStep, SettledStep
<1> QED
  BY <1>1, <1>2, PTL DEF Spec
=============================================================================
