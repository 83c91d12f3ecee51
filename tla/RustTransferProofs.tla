--------------------------- MODULE RustTransferProofs ---------------------------
(***************************************************************************)
(* Proofs about what rust_submit does to the data of a transfer: packet     *)
(* boundaries survive (ShortPacketFraming), OUT data reaches the firmware   *)
(* whole or not at all (OutAllOrNothing) and a control answer belongs to    *)
(* its request (ControlReplyFresh), replies have their lengths (RepliesFit) *)
(* and packets arrive once and in order (InOrderDelivery), for any sizes,   *)
(* halts and interleavings.                                                *)
(*                                                                         *)
(* TransferInv is inductive.  Moves says the same of the transfer under way *)
(* as the properties say of the replies; it needs Parks, as a reply may     *)
(* come from a parked request, and Usable, as the end of an IN transfer is  *)
(* told by the packet size of an endpoint that must not be closed under it. *)
(***************************************************************************)
EXTENDS RustAdapterProofs, WellFoundedInduction

\* Only interrupt IN requests are parked, each at its own endpoint.
Parks == \A ep \in hostReady : ep \in IntrEps /\ intrIn[ep].ep = ep /\ intrIn[ep].dir = "in"

\* While an IN transfer polls, its endpoint stays open: closing one takes a
\* control request.
Usable ==
  /\ Configured \subseteq open
  /\ pc = "in" => cur.urb.ep \in open /\ (cur.urb.ep # 0 => fw # "control")

Full(data, n) == \A j \in 1..n : data[j].len = Mps

Fresh(data, seq) == \A j \in 1..Len(data) : data[j].setup = seq

\* An IN transfer that polls has full packets only; one that ended well has been
\* ended by a short packet or is complete.
InMoves ==
  /\ pc = "in" => /\ cur.urb.dir = "in" /\ cur.status = "OK"
                  /\ cur.cap = Smaller(cur.urb.cap, TxMax)
                  /\ Full(cur.data, Len(cur.data))
  /\ pc = "reply" /\ cur.urb.dir = "in" /\ cur.status = "OK" =>
       /\ Full(cur.data, Len(cur.data) - 1)
       /\ cur.len < Smaller(cur.urb.cap, TxMax) =>
            cur.data # <<>> /\ cur.data[Len(cur.data)].len < Mps

\* A control IN transfer collects what was written since its setup.
ControlMoves ==
  /\ pc = "in" /\ cur.urb.ep = 0 =>
       setup = cur.urb.seq /\ (0 \in Pending => packet[0].setup = cur.urb.seq)
  /\ pc \in {"in", "reply"} /\ cur.urb.dir = "in" /\ cur.urb.ep = 0 => Fresh(cur.data, cur.urb.seq)

\* An OUT transfer is given to the firmware from the first unit on, or not at all.
OutMoves ==
  /\ pc = "out" => cur.urb.dir = "out"
  /\ pc \in {"out", "reply"} /\ cur.urb.dir = "out" =>
       /\ cur.cap = cur.urb.cap
       /\ cur.sent = IF cur.status = "OK" THEN cur.len ELSE 0
       /\ pc = "reply" => cur.len = cur.cap

Moves == InMoves /\ ControlMoves /\ OutMoves

WireRight == ShortPacketFraming /\ OutAllOrNothing /\ ControlReplyFresh

TransferInv == TypeInv /\ Parks /\ Usable /\ Moves /\ WireRight

-----------------------------------------------------------------------------
LEMMA ParksStep == TransferInv /\ [Next]_vars => Parks'
<1> SUFFICES ASSUME TransferInv, [Next]_vars PROVE Parks'
  OBVIOUS
<1> USE DEF TransferInv
<1>a. ASSUME hostReady' \subseteq hostReady, intrIn' = intrIn PROVE Parks'
  BY <1>a DEF Parks
<1>b. ASSUME hostReady' = {} PROVE Parks'
  BY <1>b DEF Parks
<1>1. ASSUME Accept PROVE Parks'
  BY <1>1, <1>a DEF Accept, parked, InEnds, StillReady
<1>2. ASSUME DeviceLoop PROVE Parks'
  BY <1>2, <1>a DEF DeviceLoop, parked, InEnds, StillReady
<1>3. ASSUME NEW ep \in Eps, CompleteInterrupt(ep) PROVE Parks'
  BY <1>3, <1>a DEF CompleteInterrupt, parked, InEnds, StillReady
<1>4. ASSUME CompleteInterruptFails PROVE Parks'
  BY <1>4, <1>a DEF CompleteInterruptFails, parked, InEnds, StillReady
<1>5. ASSUME CompleteInterruptDone PROVE Parks'
  BY <1>5, <1>a DEF CompleteInterruptDone, parked, InEnds, StillReady
<1>6. ASSUME PollIdle PROVE Parks'
  BY <1>6, <1>a DEF PollIdle, parked, InEnds, StillReady
<1>7. ASSUME ConnectionLost PROVE Parks'
  BY <1>7, <1>a DEF ConnectionLost, parked, InEnds, StillReady
<1>8. ASSUME Import PROVE Parks'
  BY <1>8, <1>a DEF Import, parked, InEnds, StillReady
<1>9. ASSUME Disconnect PROVE Parks'
  BY <1>9, <1>b DEF Disconnect
<1>10. ASSUME NEW r \in Requests, SubmitRefused(r) PROVE Parks'
  BY <1>10, <1>a DEF SubmitRefused, parked, InEnds, StillReady
<1>11. ASSUME NEW r \in Requests, SubmitBusy(r) PROVE Parks'
  BY <1>11, <1>a DEF SubmitBusy, parked, InEnds, StillReady
<1>12. ASSUME NEW r \in Requests, SubmitPark(r) PROVE Parks'
  <2>1. UrbOf(r).ep = r.ep /\ UrbOf(r).dir = "in" /\ r.ep \in IntrEps
    BY <1>12 DEF SubmitPark, CanPark, InterruptIn, UrbOf
  <2>2. r.ep \in Eps /\ intrIn \in [Eps -> Urb] /\ hostReady \subseteq Eps
    BY SizesAssumption DEF TypeInv, TypeOK
  <2>3. hostReady' = hostReady \cup {r.ep} /\ intrIn' = [intrIn EXCEPT ![r.ep] = UrbOf(r)]
    BY <1>12 DEF SubmitPark
  <2> QED
    BY <2>1, <2>2, <2>3 DEF Parks
<1>13. ASSUME NEW r \in Requests, SubmitTransfer(r) PROVE Parks'
  BY <1>13, <1>a DEF SubmitTransfer, parked, InEnds, StillReady
<1>14. ASSUME OutChunk PROVE Parks'
  BY <1>14, <1>a DEF OutChunk, parked, InEnds, StillReady
<1>15. ASSUME OutDone PROVE Parks'
  BY <1>15, <1>a DEF OutDone, parked, InEnds, StillReady
<1>16. ASSUME InHalted PROVE Parks'
  BY <1>16, <1>a DEF InHalted, parked, InEnds, StillReady
<1>17. ASSUME InTimeout PROVE Parks'
  BY <1>17, <1>a DEF InTimeout, parked, InEnds, StillReady
<1>18. ASSUME InFull PROVE Parks'
  BY <1>18, <1>a DEF InFull, parked, InEnds, StillReady
<1>19. ASSUME InWait PROVE Parks'
  BY <1>19, <1>a DEF InWait, parked, InEnds, StillReady
<1>20. ASSUME InOverrun PROVE Parks'
  BY <1>20, <1>a DEF InOverrun, parked, InEnds, StillReady
<1>21. ASSUME InPacket PROVE Parks'
  BY <1>21, <1>a DEF InPacket, parked, InEnds, StillReady
<1>22. ASSUME TimePasses PROVE Parks'
  BY <1>22, <1>a DEF TimePasses, parked, InEnds, StillReady
<1>23. ASSUME SendReply PROVE Parks'
  BY <1>23, <1>a DEF SendReply, parked, InEnds, StillReady
<1>24. ASSUME NEW s \in 1..MaxSeq, Unlink(s) PROVE Parks'
  BY <1>24, <1>a DEF Unlink, parked, InEnds, StillReady
<1>25. ASSUME NEW ep \in Eps, NEW len \in Lens, FwWrite(ep, len) PROVE Parks'
  BY <1>25, <1>a DEF FwWrite, parked, InEnds, StillReady
<1>26. ASSUME NEW ep \in Eps, NEW dir \in Dirs, FwHalt(ep, dir) PROVE Parks'
  BY <1>26, <1>a DEF FwHalt, parked, InEnds, StillReady
<1>27. ASSUME NEW ep \in Eps, NEW dir \in Dirs, FwOpen(ep, dir) PROVE Parks'
  BY <1>27, <1>a DEF FwOpen, parked, InEnds, StillReady
<1>28. ASSUME NEW ep \in Eps, NEW dir \in Dirs, FwClose(ep, dir) PROVE Parks'
  BY <1>28, <1>a DEF FwClose, parked, InEnds, StillReady
<1>29. ASSUME UNCHANGED vars PROVE Parks'
  BY <1>29, <1>a DEF vars, parked, InEnds, StillReady
<1> QED
  BY <1>1, <1>2, <1>3, <1>4, <1>5, <1>6, <1>7, <1>8, <1>9, <1>10, <1>11, <1>12, <1>13, <1>14,
     <1>15, <1>16, <1>17, <1>18, <1>19, <1>20, <1>21, <1>22, <1>23, <1>24, <1>25, <1>26, <1>27,
     <1>28, <1>29
  DEF Next, Server, Client, Firmware

\* A transfer keeps its request and its capacity.
LEMMA RequestKept ==
  ASSUME TypeInv, OutChunk \/ InHalted \/ InTimeout \/ InFull \/ InPacket
  PROVE  cur'.urb = cur.urb /\ cur'.cap = cur.cap
<1>1. CASE OutChunk
  BY <1>1, OutChunkAdvances DEF Advanced
<1>2. CASE InPacket
  BY <1>2, InPacketAdvances DEF Advanced
<1>3. CASE InHalted \/ InTimeout \/ InFull
  BY <1>3 DEF InHalted, InTimeout, InFull, InEnds, TypeInv, TypeOK, Transfer
<1> QED
  BY <1>1, <1>2, <1>3

LEMMA UsableStep == TransferInv /\ [Next]_vars => Usable'
<1> SUFFICES ASSUME TransferInv, [Next]_vars PROVE Usable'
  OBVIOUS
<1> USE DEF TransferInv
<1>a. ASSUME open' = open, pc' # "in" PROVE Usable'
  BY <1>a DEF Usable
<1>b. ASSUME open' = open, pc' = pc, cur'.urb = cur.urb, fw' = fw \/ fw' = FwCall(cur.urb.ep) PROVE Usable'
  BY <1>b DEF Usable, FwCall
<1>c. ASSUME BootReset, pc' # "in" PROVE Usable'
  BY <1>c DEF Usable, BootReset, eps
<1>z. 0 \in Configured
  BY EndpointsAssumption, ConstantsTyped DEF Configured
<1>1. ASSUME Accept PROVE Usable'
  BY <1>1, <1>a DEF Accept, eps, InEnds
<1>2. ASSUME DeviceLoop PROVE Usable'
  BY <1>2, <1>a DEF DeviceLoop, eps
<1>3. ASSUME NEW ep \in Eps, CompleteInterrupt(ep) PROVE Usable'
  BY <1>3, <1>a DEF CompleteInterrupt, eps
<1>4. ASSUME CompleteInterruptFails PROVE Usable'
  BY <1>4, <1>a DEF CompleteInterruptFails, eps, InEnds
<1>5. ASSUME CompleteInterruptDone PROVE Usable'
  BY <1>5, <1>a DEF CompleteInterruptDone, eps, InEnds
<1>6. ASSUME PollIdle PROVE Usable'
  BY <1>6, <1>a DEF PollIdle, eps, InEnds
<1>7. ASSUME ConnectionLost PROVE Usable'
  BY <1>7, <1>a DEF ConnectionLost, eps, InEnds
<1>8. ASSUME Import PROVE Usable'
  BY <1>8, <1>c DEF Import
<1>9. ASSUME Disconnect PROVE Usable'
  BY <1>9, <1>c DEF Disconnect
<1>10. ASSUME NEW r \in Requests, SubmitRefused(r) PROVE Usable'
  BY <1>10, <1>a DEF SubmitRefused, eps, InEnds
<1>11. ASSUME NEW r \in Requests, SubmitBusy(r) PROVE Usable'
  BY <1>11, <1>a DEF SubmitBusy, eps, InEnds
<1>12. ASSUME NEW r \in Requests, SubmitPark(r) PROVE Usable'
  BY <1>12, <1>a DEF SubmitPark, eps, InEnds
<1>13. ASSUME NEW r \in Requests, SubmitTransfer(r) PROVE Usable'
  <2>0. Started(r) /\ UrbOf(r).ep = r.ep
    BY <1>13, SubmitStarts DEF UrbOf
  <2>1. cur'.urb.ep = r.ep /\ fw' = FwCall(r.ep) /\ open' = open
    BY <1>13, <2>0 DEF Started, SubmitTransfer, eps
  <2>2. r.ep \in open
    BY <1>13, <1>z DEF SubmitTransfer, Refused, Usable
  <2> QED
    BY <2>1, <2>2 DEF Usable, FwCall
<1>14. ASSUME OutChunk PROVE Usable'
  BY <1>14, <1>a DEF OutChunk, eps, InEnds
<1>15. ASSUME OutDone PROVE Usable'
  BY <1>15, <1>a DEF OutDone, eps, InEnds
<1>16. ASSUME InHalted PROVE Usable'
  BY <1>16, <1>a DEF InHalted, eps, InEnds
<1>17. ASSUME InTimeout PROVE Usable'
  BY <1>17, <1>a DEF InTimeout, eps, InEnds
<1>18. ASSUME InFull PROVE Usable'
  BY <1>18, <1>a DEF InFull, eps, InEnds
<1>19. ASSUME InWait PROVE Usable'
  BY <1>19, <1>b DEF InWait, transfer, eps, Collecting
<1>20. ASSUME InOverrun PROVE Usable'
  BY <1>20, <1>a DEF InOverrun, eps, InEnds
<1>21. ASSUME InPacket PROVE Usable'
  <2>1. cur'.urb = cur.urb
    BY <1>21, RequestKept
  <2>2. open' = open /\ fw' = FwCall(cur.urb.ep) /\ pc = "in"
    BY <1>21 DEF InPacket, Collecting, eps
  <2> QED
    BY <2>1, <2>2 DEF Usable, FwCall
<1>22. ASSUME TimePasses PROVE Usable'
  BY <1>22, <1>b DEF TimePasses, transfer, eps, Collecting
<1>23. ASSUME SendReply PROVE Usable'
  BY <1>23, <1>a DEF SendReply, eps, InEnds
<1>24. ASSUME NEW s \in 1..MaxSeq, Unlink(s) PROVE Usable'
  BY <1>24, <1>a DEF Unlink, eps
<1>25. ASSUME NEW ep \in Eps, NEW len \in Lens, FwWrite(ep, len) PROVE Usable'
  BY <1>25, <1>b DEF FwWrite, transfer, eps, Collecting
<1>26. ASSUME NEW ep \in Eps, NEW dir \in Dirs, FwHalt(ep, dir) PROVE Usable'
  BY <1>26, <1>b DEF FwHalt, transfer, eps, Collecting
<1>27. ASSUME NEW ep \in Eps, NEW dir \in Dirs, FwOpen(ep, dir) PROVE Usable'
  BY <1>27 DEF FwOpen, Usable, transfer
<1>28. ASSUME NEW ep \in Eps, NEW dir \in Dirs, FwClose(ep, dir) PROVE Usable'
  <2>1. open' = open \ {ep} /\ ep \notin Configured /\ fw = "control" /\ fw' = fw /\ pc' = pc /\ cur' = cur
    BY <1>28 DEF FwClose, Configured, transfer
  <2> QED
    BY <2>1, <1>z DEF Usable
<1>29. ASSUME UNCHANGED vars PROVE Usable'
  BY <1>29, <1>b DEF vars, transfer, eps, Collecting
<1> QED
  BY <1>1, <1>2, <1>3, <1>4, <1>5, <1>6, <1>7, <1>8, <1>9, <1>10, <1>11, <1>12, <1>13, <1>14,
     <1>15, <1>16, <1>17, <1>18, <1>19, <1>20, <1>21, <1>22, <1>23, <1>24, <1>25, <1>26, <1>27,
     <1>28, <1>29
  DEF Next, Server, Client, Firmware

\* The start of a transfer.
LEMMA MovesStarted ==
  ASSUME TransferInv, NEW r \in Requests, SubmitTransfer(r) PROVE Moves'
<1>1. r \in [ep : Eps, dir : Dirs, cap : Nat]
  BY SizesAssumption
<1>2. /\ cur' = [NoTransfer EXCEPT !.urb = UrbOf(r), !.cap = Clip(r), !.status = StatusAtStart(r)]
      /\ pc' = r.dir
  BY DEF SubmitTransfer
<1>3. /\ cur'.urb = UrbOf(r) /\ cur'.cap = Clip(r) /\ cur'.status = StatusAtStart(r)
      /\ cur'.len = 0 /\ cur'.sent = 0 /\ cur'.data = <<>>
  BY <1>2 DEF NoTransfer
<1>4. UrbOf(r).dir = r.dir /\ UrbOf(r).cap = r.cap /\ UrbOf(r).ep = r.ep /\ UrbOf(r).seq = nextSeq
  BY DEF UrbOf
<1>5. r.dir \in {"in", "out"}
  BY <1>1 DEF Dirs
<1>6. InMoves'
  BY <1>2, <1>3, <1>4, <1>5 DEF InMoves, Clip, StatusAtStart, Full
<1>7. ControlMoves'
  <2>1. r.ep = 0 => setup' = nextSeq /\ packet' = [packet EXCEPT ![0] = NoPacket]
    BY DEF SubmitTransfer, FifoAtSetup
  <2>2. packet \in [Eps -> Packet] /\ 0 \in Eps
    BY ConstantsTyped DEF TransferInv, TypeInv, TypeOK
  <2>3. r.ep = 0 => 0 \notin Pending'
    BY <2>1, <2>2 DEF Pending
  <2> QED
    BY <1>2, <1>3, <1>4, <1>5, <2>1, <2>3 DEF ControlMoves, Fresh
<1>8. OutMoves'
  BY <1>2, <1>3, <1>4, <1>5 DEF OutMoves, Clip
<1> QED
  BY <1>6, <1>7, <1>8 DEF Moves

\* A packet that is no overrun goes on or ends the transfer.
LEMMA MovesOnIn == ASSUME TransferInv, InPacket PROVE Moves'
<1> DEFINE p == packet[cur.urb.ep]
<1>1. cur.data \in Seq(Packet) /\ p \in Packet /\ cur.urb.ep \in Pending
  BY InPacketAdvances DEF TransferInv, TypeInv, TypeOK, Transfer, InPacket
<1>2. cur' = [cur EXCEPT !.len = cur.len + p.len, !.data = Append(cur.data, p)]
  BY DEF InPacket, TransferInv, TypeInv, TypeOK, Transfer
<1>3. /\ cur'.urb = cur.urb /\ cur'.cap = cur.cap /\ cur'.status = cur.status
      /\ cur'.data = Append(cur.data, p)
  BY <1>2 DEF TransferInv, TypeInv, TypeOK, Transfer
<1>4. /\ pc = "in" /\ setup' = setup
      /\ pc' = IF EndsTransfer(p) THEN "reply" ELSE "in"
  BY DEF InPacket, Collecting
<1>5. PacketSize(cur.urb.ep) = Mps
  BY <1>4 DEF TransferInv, Usable, PacketSize
<1>6. pc' = IF p.len < Mps THEN "reply" ELSE "in"
  BY <1>4, <1>5 DEF EndsTransfer
<1>7. p.len \in 0..Mps /\ Mps \in Nat
  BY <1>1, SizesAssumption DEF Packet
<1>8. packet' = FifoAfter(cur.urb.ep) /\ packet \in [Eps -> Packet]
  BY DEF InPacket, TransferInv, TypeInv, TypeOK
<1> HIDE DEF p
<1>9. /\ Len(cur'.data) = Len(cur.data) + 1 /\ cur'.data[Len(cur'.data)] = p
      /\ cur'.data # <<>> /\ Len(cur.data) \in Nat
      /\ \A j \in 1..Len(cur.data) : cur'.data[j] = cur.data[j]
  BY <1>1, <1>3
<1>10. InMoves'
  <2>1. cur.urb.dir = "in" /\ cur.status = "OK" /\ cur.cap = Smaller(cur.urb.cap, TxMax)
    BY <1>4 DEF TransferInv, Moves, InMoves
  <2>2. Full(cur'.data, Len(cur.data))
    BY <1>4, <1>9 DEF TransferInv, Moves, InMoves, Full
  <2>3. p.len = Mps => Full(cur'.data, Len(cur'.data))
    BY <1>9, <2>2, SMTT(60) DEF Full
  <2> QED
    BY <1>3, <1>6, <1>7, <1>9, <2>1, <2>2, <2>3 DEF InMoves
<1>11. ControlMoves'
  <2> SUFFICES ASSUME cur.urb.ep = 0 PROVE ControlMoves'
    BY <1>3 DEF ControlMoves
  <2>1. setup = cur.urb.seq /\ p.setup = cur.urb.seq /\ Fresh(cur.data, cur.urb.seq)
    BY <1>1, <1>4 DEF p, TransferInv, Moves, ControlMoves, InMoves
  <2>2. Fresh(cur'.data, cur.urb.seq)
    BY <1>9, <2>1, SMTT(60) DEF Fresh
  <2>3. 0 \notin Pending'
    BY <1>8, ConstantsTyped DEF Pending, FifoAfter
  <2> QED
    BY <1>3, <1>4, <2>1, <2>2, <2>3 DEF ControlMoves
<1>12. OutMoves'
  BY <1>3, <1>4, <1>6 DEF TransferInv, Moves, InMoves, OutMoves
<1> QED
  BY <1>10, <1>11, <1>12 DEF Moves

\* A chunk is passed on if the first was.
LEMMA MovesOnOut == ASSUME TransferInv, OutChunk PROVE Moves'
<1> DEFINE n == Smaller(cur.cap - cur.len, PacketSize(cur.urb.ep))
<1>1. cur \in Transfer /\ cur.len \in Nat /\ cur.sent \in Nat /\ cur.cap \in Nat
  BY DEF TransferInv, TypeInv, TypeOK, Transfer
<1>2. n \in Int
  BY <1>1, SizesAssumption DEF Smaller, PacketSize
<1>3. cur' = [cur EXCEPT !.len = cur.len + n, !.sent = IF Delivers THEN cur.sent + n ELSE cur.sent]
  BY <1>1 DEF OutChunk, Transfer
<1>4. pc = "out" /\ pc' = "out"
  BY DEF OutChunk
<1> HIDE DEF n
<1>5. /\ cur'.urb = cur.urb /\ cur'.cap = cur.cap /\ cur'.status = cur.status
      /\ cur'.len = cur.len + n
      /\ cur'.sent = IF cur.status = "OK" THEN cur.sent + n ELSE cur.sent
  BY <1>1, <1>3 DEF Transfer, Delivers
<1> QED
  BY <1>1, <1>2, <1>4, <1>5 DEF TransferInv, Moves, InMoves, ControlMoves, OutMoves

\* An IN transfer that ends without a short packet is complete or has failed.
LEMMA MovesEnd == ASSUME TransferInv, InHalted \/ InTimeout \/ InFull PROVE Moves'
<1>1. PICK status \in Statuses : InEnds(status) /\ (status = "OK" => InFull)
  BY DEF InHalted, InTimeout, InFull, Statuses, TransferInv, TypeInv, TypeOK, Transfer
<1>2. pc = "in" /\ pc' = "reply"
  BY <1>1 DEF InHalted, InTimeout, InFull, Collecting, InEnds
<1>3. /\ cur'.urb = cur.urb /\ cur'.data = cur.data /\ cur'.len = cur.len
      /\ cur'.status = status
  BY <1>1 DEF InEnds, TransferInv, TypeInv, TypeOK, Transfer
<1>4. /\ cur.urb.dir = "in" /\ cur.cap = Smaller(cur.urb.cap, TxMax)
      /\ Full(cur.data, Len(cur.data))
      /\ cur.urb.ep = 0 => Fresh(cur.data, cur.urb.seq)
  BY <1>2 DEF TransferInv, Moves, InMoves, ControlMoves
<1>5. status = "OK" => cur.len = cur.cap /\ cur.len \in Nat
  BY <1>1 DEF InFull, TransferInv, TypeInv, TypeOK, Lengths, Transfer
<1>6. Full(cur.data, Len(cur.data) - 1)
  BY <1>4 DEF Full, TransferInv, TypeInv, TypeOK, Transfer
<1> QED
  BY <1>2, <1>3, <1>4, <1>5, <1>6 DEF Moves, InMoves, ControlMoves, OutMoves

LEMMA MovesStep == TransferInv /\ [Next]_vars => Moves'
<1> SUFFICES ASSUME TransferInv, [Next]_vars PROVE Moves'
  OBVIOUS
<1>a. ASSUME pc' \notin Transferring PROVE Moves'
  BY <1>a DEF Transferring, Moves, InMoves, ControlMoves, OutMoves
<1>b. ASSUME pc' = pc, cur' = cur, setup' = setup,
             0 \in Pending' => packet'[0].setup = setup \/ (0 \in Pending /\ packet'[0] = packet[0])
      PROVE  Moves'
  BY <1>b DEF TransferInv, Moves, InMoves, ControlMoves, OutMoves
<1>1. ASSUME Accept PROVE Moves'
  BY <1>1, <1>a DEF Accept, Transferring
<1>2. ASSUME DeviceLoop PROVE Moves'
  BY <1>2, <1>a DEF DeviceLoop, Transferring
<1>3. ASSUME NEW ep \in Eps, CompleteInterrupt(ep) PROVE Moves'
  BY <1>3, <1>a DEF CompleteInterrupt, Transferring
<1>4. ASSUME CompleteInterruptFails PROVE Moves'
  BY <1>4, <1>a DEF CompleteInterruptFails, Transferring
<1>5. ASSUME CompleteInterruptDone PROVE Moves'
  BY <1>5, <1>a DEF CompleteInterruptDone, Transferring
<1>6. ASSUME PollIdle PROVE Moves'
  BY <1>6, <1>a DEF PollIdle, Transferring
<1>7. ASSUME ConnectionLost PROVE Moves'
  BY <1>7, <1>a DEF ConnectionLost, Transferring
<1>8. ASSUME Import PROVE Moves'
  BY <1>8, <1>a DEF Import, Transferring
<1>9. ASSUME Disconnect PROVE Moves'
  BY <1>9, <1>a DEF Disconnect, Transferring
<1>10. ASSUME NEW r \in Requests, SubmitRefused(r) PROVE Moves'
  BY <1>10, <1>a DEF SubmitRefused, Transferring
<1>11. ASSUME NEW r \in Requests, SubmitBusy(r) PROVE Moves'
  <2>1. /\ cur' = [NoTransfer EXCEPT !.urb = UrbOf(r), !.cap = Clip(r), !.status = "EBUSY"]
        /\ pc' = "reply" /\ r.dir = "in"
    BY <1>11 DEF SubmitBusy, InterruptIn
  <2>2. cur'.urb.dir = "in" /\ cur'.status = "EBUSY" /\ cur'.data = <<>>
    BY <2>1 DEF NoTransfer, UrbOf
  <2> QED
    BY <2>1, <2>2 DEF Moves, InMoves, ControlMoves, OutMoves, Fresh
<1>12. ASSUME NEW r \in Requests, SubmitPark(r) PROVE Moves'
  BY <1>12, <1>a DEF SubmitPark, Transferring
<1>13. ASSUME NEW r \in Requests, SubmitTransfer(r) PROVE Moves'
  BY <1>13, MovesStarted
<1>14. ASSUME OutChunk PROVE Moves'
  BY <1>14, MovesOnOut
<1>15. ASSUME OutDone PROVE Moves'
  <2>1. pc = "out" /\ pc' = "reply" /\ cur' = cur /\ cur.len >= cur.cap
    BY <1>15 DEF OutDone, transfer
  <2>2. cur.len = cur.cap
    BY <2>1 DEF TransferInv, TypeInv, TypeOK, Lengths, Transfer
  <2> QED
    BY <2>1, <2>2 DEF TransferInv, Moves, InMoves, ControlMoves, OutMoves
<1>16. ASSUME InHalted PROVE Moves'
  BY <1>16, MovesEnd
<1>17. ASSUME InTimeout PROVE Moves'
  BY <1>17, MovesEnd
<1>18. ASSUME InFull PROVE Moves'
  BY <1>18, MovesEnd
<1>19. ASSUME InWait PROVE Moves'
  BY <1>19, <1>b DEF InWait, fifo, transfer, Pending
<1>20. ASSUME InOverrun PROVE Moves'
  BY <1>20, <1>a DEF InOverrun, Transferring
<1>21. ASSUME InPacket PROVE Moves'
  BY <1>21, MovesOnIn
<1>22. ASSUME TimePasses PROVE Moves'
  BY <1>22, <1>b DEF TimePasses, fifo, transfer, Pending
<1>23. ASSUME SendReply PROVE Moves'
  BY <1>23, <1>a DEF SendReply, Transferring
<1>24. ASSUME NEW s \in 1..MaxSeq, Unlink(s) PROVE Moves'
  BY <1>24, <1>a DEF Unlink, Transferring
<1>25. ASSUME NEW ep \in Eps, NEW len \in Lens, FwWrite(ep, len) PROVE Moves'
  <2>1. pc' = pc /\ cur' = cur /\ setup' = setup
    BY <1>25 DEF FwWrite, transfer
  <2>2. packet \in [Eps -> Packet] /\ 0 \in Eps
    BY ConstantsTyped DEF TransferInv, TypeInv, TypeOK
  <2>3. packet' = [packet EXCEPT ![ep] = [conn |-> conn, n |-> written[ep] + 1, len |-> len, setup |-> setup]]
    BY <1>25 DEF FwWrite
  <2>4. 0 \in Pending' => packet'[0].setup = setup \/ (0 \in Pending /\ packet'[0] = packet[0])
    BY <2>2, <2>3 DEF Pending
  <2> QED
    BY <2>1, <2>4, <1>b
<1>26. ASSUME NEW ep \in Eps, NEW dir \in Dirs, FwHalt(ep, dir) PROVE Moves'
  BY <1>26, <1>b DEF FwHalt, fifo, transfer, Pending
<1>27. ASSUME NEW ep \in Eps, NEW dir \in Dirs, FwOpen(ep, dir) PROVE Moves'
  BY <1>27, <1>b DEF FwOpen, fifo, transfer, Pending
<1>28. ASSUME NEW ep \in Eps, NEW dir \in Dirs, FwClose(ep, dir) PROVE Moves'
  <2>1. pc' = pc /\ cur' = cur /\ setup' = setup
    BY <1>28 DEF FwClose, transfer
  <2>2. packet \in [Eps -> Packet] /\ 0 \in Eps /\ ep # 0
    BY <1>28, ConstantsTyped, EndpointsAssumption DEF TransferInv, TypeInv, TypeOK, FwClose
  <2>3. packet'[0] = packet[0]
    BY <1>28, <2>2 DEF FwClose, FifoAfter
  <2>4. 0 \in Pending' => 0 \in Pending
    BY <2>3 DEF Pending
  <2> QED
    BY <2>1, <2>3, <2>4, <1>b
<1>29. ASSUME UNCHANGED vars PROVE Moves'
  BY <1>29, <1>b DEF vars, fifo, transfer, Pending
<1> QED
  BY <1>1, <1>2, <1>3, <1>4, <1>5, <1>6, <1>7, <1>8, <1>9, <1>10, <1>11, <1>12, <1>13, <1>14,
     <1>15, <1>16, <1>17, <1>18, <1>19, <1>20, <1>21, <1>22, <1>23, <1>24, <1>25, <1>26, <1>27,
     <1>28, <1>29
  DEF Next, Server, Client, Firmware

-----------------------------------------------------------------------------
(* What is written to the client.                                          *)

LEMMA AnswersGrow ==
  ASSUME TypeInv, NEW w \in Reply, wire' = Append(wire, w), NEW dir \in Dirs
  PROVE  \A x \in Answers(dir)' : x \in Answers(dir) \/ (x = w /\ w.kind = "submit" /\ w.urb.dir = dir)
<1>1. wire \in Seq(Reply)
  BY DEF TypeInv, TypeOK
<1>2. ToSet(wire') \subseteq ToSet(wire) \cup {w}
  BY <1>1 DEF ToSet
<1> QED
  BY <1>2 DEF Answers

LEMMA WireStep == TransferInv /\ [Next]_vars => WireRight'
<1> SUFFICES ASSUME TransferInv, [Next]_vars PROVE WireRight'
  OBVIOUS
<1> USE DEF TransferInv
<1>a. ASSUME wire' = wire PROVE WireRight'
  BY <1>a DEF WireRight, ShortPacketFraming, OutAllOrNothing, ControlReplyFresh, Answers
<1>b. ASSUME wire' = <<>> PROVE WireRight'
  BY <1>b DEF WireRight, ShortPacketFraming, OutAllOrNothing, ControlReplyFresh, Answers, ToSet
<1>1. ASSUME Accept PROVE WireRight'
  BY <1>1, <1>b DEF Accept
<1>2. ASSUME DeviceLoop PROVE WireRight'
  BY <1>2, <1>a DEF DeviceLoop, InEnds
<1>3. ASSUME NEW ep \in Eps, CompleteInterrupt(ep) PROVE WireRight'
  <2> DEFINE w == SubmitReply(intrIn[ep], packet[ep].len, "OK", <<packet[ep]>>, 0)
  <2>1. intrIn[ep] \in Urb /\ packet[ep] \in Packet /\ packet[ep].len \in Nat
    BY SizesAssumption DEF TypeInv, TypeOK, Packet
  <2>2. <<packet[ep]>> \in Seq(Packet) /\ "OK" \in Statuses /\ 0 \in Nat
    BY <2>1 DEF Statuses
  <2>3. w \in Reply
    BY <2>1, <2>2, ReplyTyped
  <2>4. wire' = Append(wire, w) /\ ep \in hostReady
    BY <1>3 DEF CompleteInterrupt, Due
  <2>5. w.urb.dir = "in" /\ w.urb.ep \in IntrEps
    BY <2>4 DEF SubmitReply, Parks
  <2>6. w.urb.ep \notin BulkEps \cup {0}
    BY <2>5, EndpointsAssumption
  <2> HIDE DEF w
  <2>7. (\A x \in Answers("in")' : x \in Answers("in") \/ x = w) /\ (\A x \in Answers("out")' : x \in Answers("out"))
    BY <2>3, <2>4, <2>5, AnswersGrow DEF Dirs
  <2> QED
    BY <2>6, <2>7 DEF WireRight, ShortPacketFraming, OutAllOrNothing, ControlReplyFresh
<1>4. ASSUME CompleteInterruptFails PROVE WireRight'
  BY <1>4, <1>a DEF CompleteInterruptFails, InEnds
<1>5. ASSUME CompleteInterruptDone PROVE WireRight'
  BY <1>5, <1>a DEF CompleteInterruptDone, InEnds
<1>6. ASSUME PollIdle PROVE WireRight'
  BY <1>6, <1>a DEF PollIdle, InEnds
<1>7. ASSUME ConnectionLost PROVE WireRight'
  BY <1>7, <1>a DEF ConnectionLost, InEnds
<1>8. ASSUME Import PROVE WireRight'
  BY <1>8, <1>a DEF Import, InEnds
<1>9. ASSUME Disconnect PROVE WireRight'
  BY <1>9, <1>a DEF Disconnect, InEnds
<1>10. ASSUME NEW r \in Requests, SubmitRefused(r) PROVE WireRight'
  BY <1>10, <1>a DEF SubmitRefused, InEnds
<1>11. ASSUME NEW r \in Requests, SubmitBusy(r) PROVE WireRight'
  BY <1>11, <1>a DEF SubmitBusy, InEnds
<1>12. ASSUME NEW r \in Requests, SubmitPark(r) PROVE WireRight'
  BY <1>12, <1>a DEF SubmitPark, InEnds
<1>13. ASSUME NEW r \in Requests, SubmitTransfer(r) PROVE WireRight'
  BY <1>13, <1>a DEF SubmitTransfer, InEnds
<1>14. ASSUME OutChunk PROVE WireRight'
  BY <1>14, <1>a DEF OutChunk, InEnds
<1>15. ASSUME OutDone PROVE WireRight'
  BY <1>15, <1>a DEF OutDone, InEnds
<1>16. ASSUME InHalted PROVE WireRight'
  BY <1>16, <1>a DEF InHalted, InEnds
<1>17. ASSUME InTimeout PROVE WireRight'
  BY <1>17, <1>a DEF InTimeout, InEnds
<1>18. ASSUME InFull PROVE WireRight'
  BY <1>18, <1>a DEF InFull, InEnds
<1>19. ASSUME InWait PROVE WireRight'
  BY <1>19, <1>a DEF InWait, InEnds
<1>20. ASSUME InOverrun PROVE WireRight'
  BY <1>20, <1>a DEF InOverrun, InEnds
<1>21. ASSUME InPacket PROVE WireRight'
  BY <1>21, <1>a DEF InPacket, InEnds
<1>22. ASSUME TimePasses PROVE WireRight'
  BY <1>22, <1>a DEF TimePasses, InEnds
<1>23. ASSUME SendReply PROVE WireRight'
  <2> DEFINE w == SubmitReply(cur.urb, ActualLength, cur.status, cur.data, cur.sent)
  <2>1. cur.urb \in Urb /\ ActualLength \in Nat /\ cur.status \in Statuses
         /\ cur.data \in Seq(Packet) /\ cur.sent \in Nat
    BY DEF TypeInv, TypeOK, Transfer, ActualLength
  <2>2. w \in Reply
    BY <2>1, ReplyTyped
  <2>3. wire' = Append(wire, w) /\ pc = "reply"
    BY <1>23 DEF SendReply
  <2>4. /\ w.urb = cur.urb /\ w.status = cur.status /\ w.data = cur.data /\ w.sent = cur.sent
        /\ cur.urb.dir = "in" => w.len = cur.len
    BY DEF SubmitReply, ActualLength
  <2> HIDE DEF w
  <2>5. cur.urb.dir \in Dirs
    BY <2>1 DEF Urb
  <2>6. \A dir \in Dirs : \A x \in Answers(dir)' : x \in Answers(dir) \/ (x = w /\ cur.urb.dir = dir)
    BY <2>2, <2>3, <2>4, AnswersGrow
  <2>7. ShortPacketFraming'
    BY <2>3, <2>4, <2>6 DEF WireRight, ShortPacketFraming, Moves, InMoves, Full, Dirs
  <2>8. ControlReplyFresh'
    BY <2>3, <2>4, <2>6 DEF WireRight, ControlReplyFresh, Moves, ControlMoves, Fresh, Dirs
  <2>9. OutAllOrNothing'
    BY <2>3, <2>4, <2>6 DEF WireRight, OutAllOrNothing, Moves, OutMoves, Dirs
  <2> QED
    BY <2>7, <2>8, <2>9 DEF WireRight
<1>24. ASSUME NEW s \in 1..MaxSeq, Unlink(s) PROVE WireRight'
  <2> DEFINE w == UnlinkReply(s, UnlinkKind(s))
  <2>1. w \in Reply
    BY UnlinkReplyTyped DEF UnlinkKind
  <2>2. wire' = Append(wire, w) /\ w.kind # "submit"
    BY <1>24 DEF Unlink, UnlinkReply, UnlinkKind
  <2> HIDE DEF w
  <2>3. \A dir \in Dirs : \A x \in Answers(dir)' : x \in Answers(dir)
    BY <2>1, <2>2, AnswersGrow
  <2> QED
    BY <2>3 DEF Dirs, WireRight, ShortPacketFraming, OutAllOrNothing, ControlReplyFresh
<1>25. ASSUME NEW ep \in Eps, NEW len \in Lens, FwWrite(ep, len) PROVE WireRight'
  BY <1>25, <1>a DEF FwWrite, InEnds
<1>26. ASSUME NEW ep \in Eps, NEW dir \in Dirs, FwHalt(ep, dir) PROVE WireRight'
  BY <1>26, <1>a DEF FwHalt, InEnds
<1>27. ASSUME NEW ep \in Eps, NEW dir \in Dirs, FwOpen(ep, dir) PROVE WireRight'
  BY <1>27, <1>a DEF FwOpen, InEnds
<1>28. ASSUME NEW ep \in Eps, NEW dir \in Dirs, FwClose(ep, dir) PROVE WireRight'
  BY <1>28, <1>a DEF FwClose, InEnds
<1>29. ASSUME UNCHANGED vars PROVE WireRight'
  BY <1>29, <1>a DEF vars, InEnds
<1> QED
  BY <1>1, <1>2, <1>3, <1>4, <1>5, <1>6, <1>7, <1>8, <1>9, <1>10, <1>11, <1>12, <1>13, <1>14,
     <1>15, <1>16, <1>17, <1>18, <1>19, <1>20, <1>21, <1>22, <1>23, <1>24, <1>25, <1>26, <1>27,
     <1>28, <1>29
  DEF Next, Server, Client, Firmware

LEMMA TransferInit == Init => TransferInv
<1> SUFFICES ASSUME Init PROVE Parks /\ Usable /\ Moves /\ WireRight
  BY TypeInit DEF TransferInv
<1>1. Answers("in") = {} /\ Answers("out") = {}
  BY DEF Init, Answers, ToSet
<1> QED
  BY <1>1 DEF Init, Parks, Usable, Moves, InMoves, ControlMoves, OutMoves, WireRight, ShortPacketFraming,
     OutAllOrNothing, ControlReplyFresh

LEMMA TransferStep == TransferInv /\ [Next]_vars => TransferInv'
BY TypeStep, LengthsStep, CountedStep, QuietStep, ParksStep, UsableStep, MovesStep, WireStep
DEF TransferInv, TypeInv

\* The host can tell where every message ends: no reply joins two of them, cuts one
\* off or hides that one is complete, for any sizes of packets and requests.
THEOREM FramingKept == Spec => []ShortPacketFraming
<1>1. TransferInv => ShortPacketFraming
  BY DEF TransferInv, WireRight
<1> QED
  BY <1>1, TransferInit, TransferStep, PTL DEF Spec

\* What the host is told about its OUT data is what the firmware got, whenever the
\* firmware halts or releases the endpoint.
THEOREM OutWhole == Spec => []OutAllOrNothing
<1>1. TransferInv => OutAllOrNothing
  BY DEF TransferInv, WireRight
<1> QED
  BY <1>1, TransferInit, TransferStep, PTL DEF Spec

\* No control request is ever given the answer to another.
THEOREM AnswersFresh == Spec => []ControlReplyFresh
<1>1. TransferInv => ControlReplyFresh
  BY DEF TransferInv, WireRight
<1> QED
  BY <1>1, TransferInit, TransferStep, PTL DEF Spec

-----------------------------------------------------------------------------
(* Delivery.  Of the stages of an endpoint only the numbers matter, and of   *)
(* the replies only what they carry together.                              *)

\* The numbers in the replies.
Replied(stages) == UNION {Numbers(stages[i]) : i \in DOMAIN stages}

Ordered(stages) ==
  /\ \A i \in DOMAIN stages : Rising(stages[i])
  /\ \A i, k \in DOMAIN stages : i < k => Before(Numbers(stages[i]), Numbers(stages[k]))

\* CountsTo of the replies, the transfer under way and the FIFO.
InTurn(sent, collected, waiting, last) ==
  /\ Ordered(sent) /\ Rising(collected) /\ Rising(waiting)
  /\ Before(Replied(sent), Numbers(collected))
  /\ Before(Replied(sent), Numbers(waiting))
  /\ Before(Numbers(collected), Numbers(waiting))
  /\ Replied(sent) \cup Numbers(collected) \cup Numbers(waiting) = 1..last

LEMMA CountsInTurn ==
  ASSUME NEW s \in Seq(Seq(Packet)), NEW c \in Seq(Packet), NEW w \in Seq(Packet), NEW last \in Nat
  PROVE  CountsTo(s \o <<c, w>>, last) <=> InTurn(s, c, w, last)
<1> DEFINE t == s \o <<c, w>>
           n == Len(s)
<1>1. n \in Nat /\ DOMAIN s = 1..n
  OBVIOUS
<1>2. /\ DOMAIN t = 1..(n + 2) /\ t[n + 1] = c /\ t[n + 2] = w
      /\ \A i \in 1..n : t[i] = s[i]
  OBVIOUS
<1> HIDE DEF t, n
<1>3. \A i \in 1..(n + 2) : i \in 1..n \/ i = n + 1 \/ i = n + 2
  BY <1>1
<1>4. 1..n \subseteq 1..(n + 2) /\ n + 1 \in 1..(n + 2) /\ n + 2 \in 1..(n + 2)
  BY <1>1
<1>5. (\A i \in 1..(n + 2) : Rising(t[i]))
        <=> (\A i \in 1..n : Rising(s[i])) /\ Rising(c) /\ Rising(w)
  BY <1>2, <1>3, <1>4
<1>6. UNION {Numbers(t[i]) : i \in 1..(n + 2)} = Replied(s) \cup Numbers(c) \cup Numbers(w)
  BY <1>1, <1>2, <1>3, <1>4, SMTT(60) DEF Replied
<1>7. ASSUME \A i, k \in 1..(n + 2) : i < k => Before(Numbers(t[i]), Numbers(t[k]))
      PROVE  /\ \A i, k \in 1..n : i < k => Before(Numbers(s[i]), Numbers(s[k]))
             /\ Before(Replied(s), Numbers(c)) /\ Before(Replied(s), Numbers(w))
             /\ Before(Numbers(c), Numbers(w))
  <2>1. \A i, k \in 1..n : i < k => Before(Numbers(s[i]), Numbers(s[k]))
    BY <1>2, <1>4, <1>7
  <2>2. \A i \in 1..n : Before(Numbers(s[i]), Numbers(c)) /\ Before(Numbers(s[i]), Numbers(w))
    <3>1. \A i \in 1..n : i < n + 1 /\ i < n + 2
      BY <1>1
    <3> QED
      BY <1>2, <1>4, <1>7, <3>1
  <2>3. Before(Numbers(c), Numbers(w))
    BY <1>1, <1>2, <1>4, <1>7
  <2> QED
    BY <1>1, <2>1, <2>2, <2>3 DEF Before, Replied
<1>8. ASSUME \A i, k \in 1..n : i < k => Before(Numbers(s[i]), Numbers(s[k])),
             Before(Replied(s), Numbers(c)), Before(Replied(s), Numbers(w)),
             Before(Numbers(c), Numbers(w)),
             NEW i \in 1..(n + 2), NEW k \in 1..(n + 2), i < k
      PROVE  Before(Numbers(t[i]), Numbers(t[k]))
  <2>1. \A j \in 1..n : Numbers(s[j]) \subseteq Replied(s)
    BY <1>1 DEF Replied
  <2>2. CASE k \in 1..n
    <3>1. i \in 1..n
      BY <1>1, <1>8, <2>2
    <3> QED
      BY <1>2, <1>8, <2>2, <3>1
  <2>3. CASE k = n + 1
    <3>1. i \in 1..n
      BY <1>1, <1>8, <2>3
    <3> QED
      BY <1>2, <1>8, <2>1, <2>3, <3>1 DEF Before
  <2>4. CASE k = n + 2
    <3>1. i \in 1..n \/ i = n + 1
      BY <1>1, <1>8, <2>4
    <3> QED
      BY <1>2, <1>8, <2>1, <2>4, <3>1 DEF Before
  <2> QED
    BY <1>3, <2>2, <2>3, <2>4
<1>9. CountsTo(t, last) => InTurn(s, c, w, last)
  BY <1>1, <1>2, <1>5, <1>6, <1>7 DEF CountsTo, InTurn, Ordered
<1>10. InTurn(s, c, w, last) => CountsTo(t, last)
  BY <1>1, <1>2, <1>5, <1>6, <1>8 DEF CountsTo, InTurn, Ordered
<1> QED
  BY <1>9, <1>10 DEF t

\* One more reply, that carries what comes next.
LEMMA OrderedAppend ==
  ASSUME NEW s \in Seq(Seq(Packet)), NEW d \in Seq(Packet)
  PROVE  /\ Replied(Append(s, d)) = Replied(s) \cup Numbers(d)
         /\ Ordered(s) /\ Rising(d) /\ Before(Replied(s), Numbers(d)) => Ordered(Append(s, d))
<1> DEFINE t == Append(s, d)
           n == Len(s)
<1>1. n \in Nat /\ DOMAIN s = 1..n
  OBVIOUS
<1>2. DOMAIN t = 1..(n + 1) /\ t[n + 1] = d /\ \A i \in 1..n : t[i] = s[i]
  OBVIOUS
<1> HIDE DEF t, n
<1>3. (\A i \in 1..(n + 1) : i \in 1..n \/ i = n + 1) /\ 1..n \subseteq 1..(n + 1) /\ n + 1 \in 1..(n + 1)
  BY <1>1
<1>4. Replied(t) = Replied(s) \cup Numbers(d)
  BY <1>1, <1>2, <1>3 DEF Replied
<1>5. ASSUME Ordered(s), Rising(d), Before(Replied(s), Numbers(d)) PROVE Ordered(t)
  <2>1. \A i \in 1..(n + 1) : Rising(t[i])
    BY <1>1, <1>2, <1>3, <1>5 DEF Ordered
  <2>2. ASSUME NEW i \in 1..(n + 1), NEW k \in 1..(n + 1), i < k
        PROVE  Before(Numbers(t[i]), Numbers(t[k]))
    <3>1. i \in 1..n
      BY <1>1, <2>2
    <3>2. CASE k \in 1..n
      BY <1>1, <1>2, <1>5, <2>2, <3>1, <3>2 DEF Ordered
    <3>3. CASE k = n + 1
      <4>1. Numbers(s[i]) \subseteq Replied(s)
        BY <1>1, <3>1 DEF Replied
      <4> QED
        BY <1>2, <1>5, <3>1, <3>3, <4>1 DEF Before
    <3> QED
      BY <1>3, <3>2, <3>3
  <2> QED
    BY <1>2, <2>1, <2>2 DEF Ordered
<1> QED
  BY <1>4, <1>5 DEF t

LEMMA NumbersOf ==
  /\ Numbers(<<>>) = {} /\ Rising(<<>>)
  /\ \A p \in Packet : Numbers(<<p>>) = {p.n} /\ Rising(<<p>>)
  /\ \A d \in Seq(Packet), p \in Packet :
       /\ Numbers(Append(d, p)) = Numbers(d) \cup {p.n}
       /\ Rising(d) /\ Before(Numbers(d), {p.n}) => Rising(Append(d, p))
<1>1. Numbers(<<>>) = {} /\ Rising(<<>>)
  BY DEF Numbers, Rising
<1>2. ASSUME NEW p \in Packet PROVE Numbers(<<p>>) = {p.n} /\ Rising(<<p>>)
  <2>1. DOMAIN <<p>> = {1} /\ <<p>>[1] = p
    OBVIOUS
  <2> DEFINE q == <<p>>
  <2> HIDE DEF q
  <2>2. Numbers(q) = {p.n}
    BY <2>1 DEF Numbers, q
  <2>3. Rising(q)
    BY <2>1 DEF Rising, q
  <2> QED
    BY <2>2, <2>3 DEF q
<1>3. ASSUME NEW d \in Seq(Packet), NEW p \in Packet
      PROVE  /\ Numbers(Append(d, p)) = Numbers(d) \cup {p.n}
             /\ Rising(d) /\ Before(Numbers(d), {p.n}) => Rising(Append(d, p))
  <2> DEFINE t == Append(d, p)
             n == Len(d)
  <2>1. n \in Nat /\ DOMAIN d = 1..n
    OBVIOUS
  <2>2. DOMAIN t = 1..(n + 1) /\ t[n + 1] = p /\ \A i \in 1..n : t[i] = d[i]
    OBVIOUS
  <2> HIDE DEF t, n
  <2>3. (\A i \in 1..(n + 1) : i \in 1..n \/ i = n + 1) /\ 1..n \subseteq 1..(n + 1) /\ n + 1 \in 1..(n + 1)
    BY <2>1
  <2>4. Numbers(t) = Numbers(d) \cup {p.n}
    BY <2>1, <2>2, <2>3 DEF Numbers
  <2>5. ASSUME Rising(d), Before(Numbers(d), {p.n}),
               NEW i \in 1..(n + 1), NEW k \in 1..(n + 1), i < k
        PROVE  t[i].n < t[k].n
    <3>1. i \in 1..n
      BY <2>1, <2>5
    <3>2. CASE k \in 1..n
      BY <2>1, <2>2, <2>5, <3>1, <3>2 DEF Rising
    <3>3. CASE k = n + 1
      <4>1. d[i].n \in Numbers(d)
        BY <2>1, <3>1 DEF Numbers
      <4> QED
        BY <2>2, <2>5, <3>1, <3>3, <4>1 DEF Before
    <3> QED
      BY <2>3, <3>2, <3>3
  <2> QED
    BY <2>2, <2>4, <2>5 DEF Rising, t
<1> QED
  BY <1>1, <1>2, <1>3

-----------------------------------------------------------------------------
(* How much a sequence of packets holds: LengthOf adds the packets one by    *)
(* one, so that a packet more is its length more.  The sums are followed     *)
(* from the first place where they could go wrong.                          *)

Below == {x \in Nat \X Nat : x[1] < x[2]}

LEMMA FirstOne ==
  ASSUME NEW S \in SUBSET Nat, S # {}
  PROVE  \E m \in S : \A q \in S : m <= q
<1>1. IsWellFoundedOn(Below, Nat)
  <2>1. Below = OpToRel(<, Nat)
    BY DEF Below, OpToRel
  <2> QED
    BY <2>1, NatLessThanWellFounded
<1>2. PICK m \in S : \A q \in S : <<q, m>> \notin Below
  BY <1>1, WFMin
<1>3. ASSUME NEW q \in S PROVE m <= q
  <2>1. q \in Nat /\ m \in Nat /\ ~(q < m)
    BY <1>2 DEF Below
  <2> QED
    BY <2>1
<1> QED
  BY <1>3

\* f gives, for each j up to n, the units of the first j packets.
Sums(f, data, n) ==
  /\ f \in [0..n -> Nat]
  /\ f[0] = 0
  /\ \A j \in 1..n : f[j] = f[j - 1] + data[j].len

LEMMA PacketLength ==
  ASSUME NEW data \in Seq(Packet), NEW j \in 1..Len(data)
  PROVE  data[j].len \in Nat
<1>1. data[j] \in Packet
  OBVIOUS
<1> QED
  BY <1>1, SizesAssumption DEF Packet

LEMMA SumsExtend ==
  ASSUME NEW data, NEW n \in Nat, NEW f, Sums(f, data, n), data[n + 1].len \in Nat
  PROVE  \E g : Sums(g, data, n + 1) /\ g[n + 1] = f[n] + data[n + 1].len
<1> DEFINE l == data[n + 1].len
           g == [j \in 0..(n + 1) |-> IF j = n + 1 THEN f[n] + l ELSE f[j]]
<1> HIDE DEF l
<1>0. l \in Nat /\ l = data[n + 1].len
  BY DEF l
<1>1. /\ f \in [0..n -> Nat] /\ f[0] = 0
      /\ \A j \in 1..n : f[j] = f[j - 1] + data[j].len
  BY DEF Sums
<1>2. /\ \A j \in 0..(n + 1) : j \in 0..n \/ j = n + 1
      /\ \A j \in 0..n : j \in 0..(n + 1) /\ j # n + 1
      /\ n \in 0..n /\ 0 \in 0..n /\ n + 1 \in 0..(n + 1)
  OBVIOUS
<1>3. g \in [0..(n + 1) -> Nat]
  <2> SUFFICES ASSUME NEW j \in 0..(n + 1) PROVE g[j] \in Nat
    OBVIOUS
  <2>1. CASE j = n + 1
    BY <1>0, <1>1, <1>2, <2>1
  <2>2. CASE j # n + 1
    BY <1>1, <1>2, <2>2
  <2> QED
    BY <2>1, <2>2
<1>4. (\A j \in 0..n : g[j] = f[j]) /\ g[n + 1] = f[n] + l
  BY <1>2
<1> HIDE DEF g
<1>5. ASSUME NEW j \in 1..(n + 1) PROVE g[j] = g[j - 1] + data[j].len
  <2>1. CASE j \in 1..n
    <3>1. j \in 0..n /\ j - 1 \in 0..n
      BY <2>1
    <3> QED
      BY <1>1, <1>4, <2>1, <3>1
  <2>2. CASE j = n + 1
    <3>1. j - 1 = n
      BY <2>2
    <3> QED
      BY <1>0, <1>2, <1>4, <2>2, <3>1
  <2> QED
    BY <2>1, <2>2
<1>6. g[0] = 0
  BY <1>1, <1>2, <1>4
<1> QED
  BY <1>0, <1>3, <1>4, <1>5, <1>6 DEF Sums

LEMMA SumsExist ==
  ASSUME NEW data \in Seq(Packet), NEW n \in 0..Len(data)
  PROVE  \E f : Sums(f, data, n)
<1> DEFINE Missing == {m \in 0..Len(data) : ~\E f : Sums(f, data, m)}
<1>1. Len(data) \in Nat /\ Missing \in SUBSET Nat
  OBVIOUS
<1>2. SUFFICES ASSUME Missing # {} PROVE FALSE
  OBVIOUS
<1>3. PICK m \in Missing : \A q \in Missing : m <= q
  BY <1>1, <1>2, FirstOne
<1>4. CASE m = 0
  <2> DEFINE z == [j \in 0..0 |-> 0]
  <2>1. z \in [0..0 -> Nat] /\ z[0] = 0 /\ 1..0 = {}
    OBVIOUS
  <2>2. Sums(z, data, 0)
    BY <2>1 DEF Sums
  <2> QED
    BY <1>3, <1>4, <2>2
<1>5. CASE m # 0
  <2> DEFINE k == m - 1
  <2>1. k \in Nat /\ k \in 0..Len(data) /\ k + 1 = m /\ ~(m <= k) /\ m \in 1..Len(data)
    BY <1>1, <1>3, <1>5
  <2>2. k \notin Missing
    BY <1>3, <2>1
  <2> HIDE DEF k
  <2>3. PICK f : Sums(f, data, k)
    BY <2>1, <2>2
  <2>4. data[k + 1].len \in Nat
    BY <2>1, PacketLength
  <2>5. \E g : Sums(g, data, k + 1)
    BY <2>1, <2>3, <2>4, SumsExtend
  <2> QED
    BY <1>3, <2>1, <2>5
<1> QED
  BY <1>4, <1>5

LEMMA SumsAgree ==
  ASSUME NEW data, NEW n \in Nat, NEW f, Sums(f, data, n), NEW g,
         g[0] = 0, \A j \in 1..n : g[j] = g[j - 1] + data[j].len
  PROVE  g[n] = f[n]
<1> DEFINE Differ == {j \in 0..n : g[j] # f[j]}
<1>1. Differ \in SUBSET Nat
  OBVIOUS
<1>2. f[0] = 0 /\ \A j \in 1..n : f[j] = f[j - 1] + data[j].len
  BY DEF Sums
<1>3. ASSUME Differ # {} PROVE FALSE
  <2>1. PICK m \in Differ : \A q \in Differ : m <= q
    BY <1>1, <1>3, FirstOne
  <2>2. m \in 1..n
    BY <1>2, <2>1
  <2>3. m - 1 \in 0..n /\ ~(m <= m - 1)
    BY <2>2
  <2>4. g[m - 1] = f[m - 1]
    BY <2>1, <2>3
  <2> QED
    BY <1>2, <2>1, <2>2, <2>4
<1> QED
  BY <1>3

\* LengthOf computes such sums.
LEMMA LengthSums ==
  ASSUME NEW data \in Seq(Packet), NEW f, Sums(f, data, Len(data))
  PROVE  LengthOf(data) = f[Len(data)]
<1> DEFINE n == Len(data)
           Fixed(g) == g = [j \in 0..n |-> IF j = 0 THEN 0 ELSE g[j - 1] + data[j].len]
           upTo == CHOOSE g : Fixed(g)
<1>1. n \in Nat
  OBVIOUS
<1>2. LengthOf(data) = upTo[n]
  BY DEF LengthOf
<1>3. Sums(f, data, n)
  OBVIOUS
<1> HIDE DEF n
<1>4. Fixed(f)
  <2>1. \A j \in 0..n : f[j] = IF j = 0 THEN 0 ELSE f[j - 1] + data[j].len
    BY <1>1, <1>3, SMTT(60) DEF Sums
  <2> QED
    BY <1>3, <2>1 DEF Sums
<1>5. Fixed(upTo)
  BY <1>4
<1> HIDE DEF upTo
<1>6. \A j \in 0..n : upTo[j] = IF j = 0 THEN 0 ELSE upTo[j - 1] + data[j].len
  BY <1>5
<1>7. upTo[0] = 0 /\ \A j \in 1..n : upTo[j] = upTo[j - 1] + data[j].len
  BY <1>1, <1>6
<1> QED
  BY <1>1, <1>2, <1>3, <1>7, SumsAgree DEF n

\* A packet more is its length more.
LEMMA LengthGrows ==
  /\ LengthOf(<<>>) = 0
  /\ \A p \in Packet : LengthOf(<<p>>) = p.len
  /\ \A data \in Seq(Packet), p \in Packet :
       LengthOf(Append(data, p)) = LengthOf(data) + p.len
<1>1. LengthOf(<<>>) = 0
  <2> DEFINE d == <<>>
  <2>1. d \in Seq(Packet) /\ Len(d) = 0
    OBVIOUS
  <2> HIDE DEF d
  <2>4. 0 \in 0..Len(d)
    BY <2>1
  <2>2. PICK f : Sums(f, d, 0)
    BY <2>1, <2>4, SumsExist
  <2>3. LengthOf(d) = 0
    BY <2>1, <2>2, LengthSums DEF Sums
  <2> QED
    BY <2>3 DEF d
<1>2. ASSUME NEW data \in Seq(Packet), NEW p \in Packet
      PROVE  LengthOf(Append(data, p)) = LengthOf(data) + p.len
  <2> DEFINE d == Append(data, p)
             n == Len(data)
  <2>1. d \in Seq(Packet) /\ Len(d) = n + 1 /\ n \in Nat /\ d[n + 1] = p
    OBVIOUS
  <2>2. \A j \in 1..n : d[j] = data[j]
    OBVIOUS
  <2>3. n \in 0..Len(data)
    BY <2>1
  <2>4. PICK f : Sums(f, data, n)
    BY <2>3, SumsExist
  <2>5. LengthOf(data) = f[n]
    BY <2>4, LengthSums
  <2> HIDE DEF d, n
  <2>6. Sums(f, d, n)
    BY <2>2, <2>4 DEF Sums
  <2>7. d[n + 1].len \in Nat
    BY <2>1, SizesAssumption DEF Packet
  <2>8. PICK g : Sums(g, d, n + 1) /\ g[n + 1] = f[n] + d[n + 1].len
    BY <2>1, <2>6, <2>7, SumsExtend
  <2>9. LengthOf(d) = g[n + 1]
    BY <2>1, <2>8, LengthSums
  <2> QED
    BY <2>1, <2>5, <2>8, <2>9 DEF d
<1>3. ASSUME NEW p \in Packet PROVE LengthOf(<<p>>) = p.len
  <2> DEFINE d == <<>>
  <2>1. d \in Seq(Packet) /\ <<p>> = Append(d, p)
    OBVIOUS
  <2>2. LengthOf(d) = 0
    BY <1>1
  <2> HIDE DEF d
  <2>3. LengthOf(Append(d, p)) = LengthOf(d) + p.len
    BY <1>2, <2>1
  <2>4. p.len \in Nat
    BY SizesAssumption DEF Packet
  <2>5. LengthOf(<<p>>) = 0 + p.len
    BY <2>1, <2>2, <2>3
  <2> QED
    BY <2>4, <2>5
<1> QED
  BY <1>1, <1>2, <1>3

\* What a transfer has collected: nothing when it goes out, and else as much as it
\* says, within what the host asked for.
Carried ==
  pc \in Transferring =>
    /\ cur.urb.dir = "out" => cur.data = <<>>
    /\ cur.urb.dir = "in" => cur.len = LengthOf(cur.data) /\ cur.cap <= cur.urb.cap

DeliveryInv == TransferInv /\ Carried /\ RepliesFit /\ InOrderDelivery

LEMMA SentTyped ==
  ASSUME NEW w \in Seq(Reply), NEW e
  PROVE  [i \in 1..Len(w) |-> IF Carries(w[i], e) THEN w[i].data ELSE <<>>] \in Seq(Seq(Packet))
<1>1. \A i \in 1..Len(w) : w[i] \in Reply
  OBVIOUS
<1>2. \A i \in 1..Len(w) : w[i].data \in Seq(Packet)
  BY <1>1 DEF Reply
<1>3. <<>> \in Seq(Packet)
  OBVIOUS
<1>4. \A i \in 1..Len(w) : (IF Carries(w[i], e) THEN w[i].data ELSE <<>>) \in Seq(Packet)
  BY <1>2, <1>3
<1> DEFINE f == [i \in 1..Len(w) |-> IF Carries(w[i], e) THEN w[i].data ELSE <<>>]
<1>5. Len(w) \in Nat /\ f \in [1..Len(w) -> Seq(Packet)]
  BY <1>4
<1> HIDE DEF f
<1>6. f \in Seq(Seq(Packet))
  BY <1>5
<1> QED
  BY <1>6 DEF f

LEMMA SentAppends ==
  ASSUME TypeOK, NEW w \in Reply, wire' = Append(wire, w), NEW e \in Eps
  PROVE  Sent(e)' = Append(Sent(e), IF Carries(w, e) THEN w.data ELSE <<>>)
<1> DEFINE Part(x) == IF Carries(x, e) THEN x.data ELSE <<>>
           n == Len(wire)
<1>1. wire \in Seq(Reply) /\ n \in Nat
  BY DEF TypeOK
<1>2. \A x \in Reply : Part(x) \in Seq(Packet)
  BY DEF Reply
<1>3. Sent(e) = [i \in 1..n |-> Part(wire[i])] /\ Sent(e) \in Seq(Seq(Packet)) /\ Len(Sent(e)) = n
  BY <1>1, SentTyped, SMTT(60) DEF Sent
<1>4. Sent(e)' = [i \in 1..(n + 1) |-> Part(Append(wire, w)[i])]
  BY <1>1 DEF Sent, Carries
<1>5. Append(wire, w)[n + 1] = w /\ \A i \in 1..n : Append(wire, w)[i] = wire[i]
  BY <1>1
<1>6. Append(Sent(e), Part(w)) = [i \in 1..(n + 1) |-> IF i <= n THEN Sent(e)[i] ELSE Part(w)]
  BY <1>3, <1>2
<1> HIDE DEF Part, n
<1>7. \A i \in 1..(n + 1) :
        (IF i <= n THEN Sent(e)[i] ELSE Part(w)) = Part(Append(wire, w)[i])
  <2> SUFFICES ASSUME NEW i \in 1..(n + 1)
               PROVE  (IF i <= n THEN Sent(e)[i] ELSE Part(w)) = Part(Append(wire, w)[i])
    OBVIOUS
  <2>1. CASE i <= n
    <3>1. i \in 1..n
      BY <1>1, <2>1
    <3>2. Sent(e)[i] = Part(wire[i])
      BY <1>3, <3>1
    <3> QED
      BY <1>5, <2>1, <3>1, <3>2
  <2>2. CASE ~(i <= n)
    <3>1. i = n + 1
      BY <1>1, <2>2
    <3> QED
      BY <1>5, <2>2, <3>1
  <2> QED
    BY <2>1, <2>2
<1>8. Sent(e)' = Append(Sent(e), Part(w))
  BY <1>4, <1>6, <1>7
<1> QED
  BY <1>8 DEF Part

\* The last number comes after the others: one is added behind them, ...
LEMMA CountsUp ==
  ASSUME NEW S, NEW n \in Nat, S = 1..n
  PROVE  Before(S, {n + 1}) /\ S \cup {n + 1} = 1..(n + 1)
BY DEF Before

\* ... or taken away again.
LEMMA CountsDown ==
  ASSUME NEW S, NEW n \in Nat, NEW k, Before(S, {k}), S \cup {k} = 1..n
  PROVE  S = 1..(n - 1)
<1>1. k \in 1..n /\ n \in 1..n
  OBVIOUS
<1>2. \A x \in S : x < k /\ x \in 1..n
  BY DEF Before
<1>3. k = n
  BY <1>1, <1>2
<1>4. S \subseteq 1..(n - 1)
  BY <1>2, <1>3
<1>5. \A x \in 1..(n - 1) : x \in 1..n /\ x # k
  BY <1>3
<1>6. 1..(n - 1) \subseteq S
  BY <1>5
<1> QED
  BY <1>4, <1>6

LEMMA InOrderStep == DeliveryInv /\ [Next]_vars => InOrderDelivery'
<1> SUFFICES ASSUME DeliveryInv, [Next]_vars, Connected', NEW e \in Eps \ {0}
             PROVE  CountsTo(Sent(e)' \o <<Collected(e)', Waiting(e)'>>, written'[e])
  BY DEF InOrderDelivery
<1> DEFINE Goal == CountsTo(Sent(e)' \o <<Collected(e)', Waiting(e)'>>, written'[e])
<1> USE DEF DeliveryInv, TransferInv, TypeInv
<1>t. /\ packet \in [Eps -> Packet] /\ wire \in Seq(Reply) /\ written \in [Eps -> Nat]
      /\ cur \in Transfer /\ cur.data \in Seq(Packet) /\ cur.urb \in Urb /\ e \in Eps /\ e # 0
  BY BoundsAssumption DEF TypeOK, Transfer
<1>s. Sent(e) \in Seq(Seq(Packet)) /\ Collected(e) \in Seq(Packet) /\ Waiting(e) \in Seq(Packet)
  <2>1. Sent(e) \in Seq(Seq(Packet))
    BY <1>t, SentTyped DEF Sent
  <2>2. <<>> \in Seq(Packet)
    OBVIOUS
  <2>3. Collected(e) \in Seq(Packet)
    BY <1>t, <2>2 DEF Collected
  <2>4. packet[e] \in Packet
    BY <1>t
  <2>5. <<packet[e]>> \in Seq(Packet)
    BY <2>4
  <2> QED
    BY <2>1, <2>2, <2>3, <2>5 DEF Waiting
<1>p. ASSUME InTurn(Sent(e)', Collected(e)', Waiting(e)', written'[e]) PROVE Goal
  <2>1. TypeOK'
    BY TypeStep
  <2>2. Sent(e)' \in Seq(Seq(Packet))
    <3>1. wire' \in Seq(Reply)
      BY <2>1 DEF TypeOK
    <3> QED
      BY <3>1, SentTyped DEF Sent
  <2>3. Collected(e)' \in Seq(Packet)
    BY <2>1 DEF Collected, TypeOK, Transfer
  <2>4. Waiting(e)' \in Seq(Packet)
    BY <2>1 DEF Waiting, TypeOK
  <2>5. written'[e] \in Nat
    BY <2>1, BoundsAssumption DEF TypeOK
  <2> QED
    BY <1>p, <2>2, <2>3, <2>4, <2>5, CountsInTurn
<1>q. ASSUME Connected PROVE InTurn(Sent(e), Collected(e), Waiting(e), written[e])
  <2>1. CountsTo(Sent(e) \o <<Collected(e), Waiting(e)>>, written[e])
    BY <1>q DEF InOrderDelivery
  <2> QED
    BY <1>s, <1>t, <2>1, CountsInTurn
\* Nothing happens to the packets of this endpoint.
<1>u. ASSUME Connected, wire' = wire, Collected(e)' = Collected(e),
             packet'[e] = packet[e], written'[e] = written[e]
      PROVE  Goal
  <2>1. Sent(e)' = Sent(e)
    BY <1>u DEF Sent
  <2>2. Waiting(e)' = Waiting(e)
    BY <1>u DEF Waiting, Pending
  <2> QED
    BY <1>p, <1>q, <1>u, <2>1, <2>2
\* No transfer is under way, nor starts with data.
<1>i. ASSUME pc \notin Transferring, pc' \in Transferring => cur'.data = <<>>
      PROVE  Collected(e)' = Collected(e)
  BY <1>i DEF Collected
\* The transfer under way goes on.
<1>k. ASSUME pc \in Transferring, pc' \in Transferring, cur'.urb = cur.urb, cur'.data = cur.data
      PROVE  Collected(e)' = Collected(e)
  BY <1>k DEF Collected
\* A reply that carries nothing of this endpoint.
<1>r. ASSUME Connected, NEW w \in Reply, wire' = Append(wire, w), ~Carries(w, e) \/ w.data = <<>>,
             Collected(e)' = Collected(e), packet'[e] = packet[e], written'[e] = written[e]
      PROVE  Goal
  <2>1. Sent(e)' = Append(Sent(e), <<>>)
    BY <1>r, <1>t, SentAppends
  <2>2. Waiting(e)' = Waiting(e)
    BY <1>r DEF Waiting, Pending
  <2>3. Replied(Sent(e)') = Replied(Sent(e)) /\ Ordered(Sent(e)')
    <3>1. Ordered(Sent(e))
      BY <1>q, <1>r DEF InTurn
    <3>2. Before(Replied(Sent(e)), Numbers(<<>>))
      BY NumbersOf DEF Before
    <3> DEFINE d == <<>>
    <3>3. d \in Seq(Packet)
      OBVIOUS
    <3>4. Numbers(d) = {} /\ Rising(d) /\ Before(Replied(Sent(e)), Numbers(d)) /\ Sent(e)' = Append(Sent(e), d)
      BY <2>1, <3>2, NumbersOf
    <3> HIDE DEF d
    <3>5. /\ Replied(Append(Sent(e), d)) = Replied(Sent(e)) \cup Numbers(d)
          /\ Ordered(Append(Sent(e), d))
      BY <1>s, <3>1, <3>3, <3>4, OrderedAppend
    <3> QED
      BY <3>4, <3>5
  <2>4. InTurn(Sent(e)', Collected(e)', Waiting(e)', written'[e])
    BY <1>q, <1>r, <2>2, <2>3 DEF InTurn
  <2> QED
    BY <1>p, <2>4
<1>1. ASSUME Accept PROVE Goal
  <2>1. Sent(e)' = <<>> /\ written'[e] = 0
    BY <1>1, <1>t DEF Accept, Sent
  <2>2. Waiting(e)' = <<>>
    BY <1>1 DEF Accept, Quiet, Waiting, Pending
  <2>3. Collected(e)' = <<>>
    BY <1>1 DEF Accept, Collected, Transferring
  <2>4. Replied(<<>>) = {} /\ Ordered(<<>>) /\ 1..0 = {}
    BY DEF Replied, Ordered
  <2>5. InTurn(<<>>, <<>>, <<>>, 0)
    BY <2>4, NumbersOf DEF InTurn, Before
  <2> QED
    BY <1>p, <2>1, <2>2, <2>3, <2>5
<1>2. ASSUME DeviceLoop PROVE Goal
  BY <1>2, <1>u, <1>i DEF DeviceLoop, Connected, Serving, Transferring, link, fifo, transfer
<1>3. ASSUME NEW ep \in Eps, CompleteInterrupt(ep) PROVE Goal
  <2> DEFINE w == SubmitReply(intrIn[ep], packet[ep].len, "OK", <<packet[ep]>>, 0)
  <2>1. intrIn[ep] \in Urb /\ packet[ep] \in Packet /\ packet[ep].len \in Nat
    BY SizesAssumption DEF TypeOK, Packet
  <2>2. <<packet[ep]>> \in Seq(Packet) /\ "OK" \in Statuses /\ 0 \in Nat
    BY <2>1 DEF Statuses
  <2>3. w \in Reply
    BY <2>1, <2>2, ReplyTyped
  <2>4. /\ wire' = Append(wire, w) /\ ep \in hostReady /\ ep \in Pending
        /\ packet' = [packet EXCEPT ![ep] = NoPacket] /\ written' = written
        /\ pc = "scan" /\ pc' = pc
    BY <1>3 DEF CompleteInterrupt, Due, FifoAfter
  <2>5. Carries(w, ep) /\ w.data = <<packet[ep]>> /\ w.urb.ep = ep
    BY <2>4 DEF SubmitReply, Parks, Carries
  <2> HIDE DEF w
  <2>6. Connected /\ Collected(e)' = Collected(e) /\ Collected(e) = <<>>
    BY <2>4 DEF Connected, Serving, Collected, Transferring
  <2>7. CASE e # ep
    <3>1. ~Carries(w, e) /\ packet'[e] = packet[e]
      BY <1>t, <2>4, <2>5, <2>7 DEF Carries
    <3> QED
      BY <1>r, <2>3, <2>4, <2>6, <3>1
  <2>8. CASE e = ep
    <3>1. Sent(e)' = Append(Sent(e), <<packet[e]>>)
      BY <1>t, <2>3, <2>4, <2>5, <2>8, SentAppends
    <3>2. Waiting(e) = <<packet[e]>> /\ Waiting(e)' = <<>>
      BY <1>t, <2>4, <2>8 DEF Waiting, Pending
    <3>3. InTurn(Sent(e), <<>>, <<packet[e]>>, written[e])
      BY <1>q, <2>6, <3>2
    <3>4. Replied(Sent(e)') = Replied(Sent(e)) \cup Numbers(<<packet[e]>>) /\ Ordered(Sent(e)')
      BY <1>s, <2>2, <2>8, <3>1, <3>3, OrderedAppend, ZenonT(60) DEF InTurn
    <3>5. InTurn(Sent(e)', <<>>, <<>>, written[e])
      BY <3>3, <3>4, NumbersOf DEF InTurn, Before
    <3> QED
      BY <1>p, <2>4, <2>6, <3>2, <3>5
  <2> QED
    BY <2>7, <2>8
<1>4. ASSUME CompleteInterruptFails PROVE Goal
  BY <1>4 DEF CompleteInterruptFails, Connected, Serving, Submits
<1>5. ASSUME CompleteInterruptDone PROVE Goal
  BY <1>5, <1>u, <1>i DEF CompleteInterruptDone, Connected, Serving, Transferring, link, fifo, transfer
<1>6. ASSUME PollIdle PROVE Goal
  BY <1>6, <1>u, <1>i DEF PollIdle, Connected, Serving, Transferring, link, fifo, transfer
<1>7. ASSUME ConnectionLost PROVE Goal
  BY <1>7 DEF ConnectionLost, Connected, Serving, Submits
<1>8. ASSUME Import PROVE Goal
  <2>1. packet'[e] = packet[e]
    BY <1>8, <1>t DEF Import, FifoAfter
  <2> QED
    BY <1>8, <1>u, <1>i, <2>1 DEF Import, Connected, Serving, Transferring
<1>9. ASSUME Disconnect PROVE Goal
  BY <1>9 DEF Disconnect, Connected, Serving, Submits
<1>10. ASSUME NEW r \in Requests, SubmitRefused(r) PROVE Goal
  BY <1>10 DEF SubmitRefused, Connected, Serving, Submits
<1>11. ASSUME NEW r \in Requests, SubmitBusy(r) PROVE Goal
  <2>1. cur'.data = <<>>
    BY <1>11 DEF SubmitBusy, NoTransfer
  <2> QED
    BY <1>11, <1>u, <1>i, <2>1 DEF SubmitBusy, Submits, Connected, Serving, Transferring, fifo
<1>12. ASSUME NEW r \in Requests, SubmitPark(r) PROVE Goal
  BY <1>12, <1>u, <1>i DEF SubmitPark, Submits, Connected, Serving, Transferring, fifo
<1>13. ASSUME NEW r \in Requests, SubmitTransfer(r) PROVE Goal
  <2>1. cur'.data = <<>>
    BY <1>13 DEF SubmitTransfer, NoTransfer
  <2>2. packet'[e] = packet[e]
    BY <1>13, <1>t DEF SubmitTransfer, FifoAtSetup
  <2> QED
    BY <1>13, <1>u, <1>i, <2>1, <2>2 DEF SubmitTransfer, Submits, Connected, Serving, Transferring
<1>14. ASSUME OutChunk PROVE Goal
  <2>1. cur'.urb = cur.urb /\ cur'.data = cur.data
    BY <1>14, OutChunkAdvances DEF Advanced
  <2>2. Collected(e)' = Collected(e)
    BY <1>14, <1>k, <2>1 DEF OutChunk, Transferring
  <2> QED
    BY <1>14, <1>u, <2>2 DEF OutChunk, Connected, Serving, fifo
<1>15. ASSUME OutDone PROVE Goal
  <2>1. packet'[e] = packet[e]
    BY <1>15, <1>t DEF OutDone, FifoAtSetup
  <2>2. Collected(e)' = Collected(e)
    BY <1>15, <1>k DEF OutDone, Transferring, transfer
  <2> QED
    BY <1>15, <1>u, <2>1, <2>2 DEF OutDone, Connected, Serving
<1>16. ASSUME InHalted PROVE Goal
  <2>1. cur'.urb = cur.urb /\ cur'.data = cur.data /\ pc = "in" /\ pc' = "reply"
    BY <1>16, <1>t DEF InHalted, Collecting, InEnds, Transfer
  <2>2. Collected(e)' = Collected(e)
    BY <1>k, <2>1 DEF Transferring
  <2> QED
    BY <1>16, <1>u, <2>1, <2>2 DEF InHalted, InEnds, Connected, Serving, fifo
<1>17. ASSUME InTimeout PROVE Goal
  <2>1. cur'.urb = cur.urb /\ cur'.data = cur.data /\ pc = "in" /\ pc' = "reply"
    BY <1>17, <1>t DEF InTimeout, Collecting, InEnds, Transfer
  <2>2. Collected(e)' = Collected(e)
    BY <1>k, <2>1 DEF Transferring
  <2> QED
    BY <1>17, <1>u, <2>1, <2>2 DEF InTimeout, InEnds, Connected, Serving, fifo
<1>18. ASSUME InFull PROVE Goal
  <2>1. cur'.urb = cur.urb /\ cur'.data = cur.data /\ pc = "in" /\ pc' = "reply"
    BY <1>18, <1>t DEF InFull, Collecting, InEnds, Transfer
  <2>2. Collected(e)' = Collected(e)
    BY <1>k, <2>1 DEF Transferring
  <2> QED
    BY <1>18, <1>u, <2>1, <2>2 DEF InFull, InEnds, Connected, Serving, fifo
<1>19. ASSUME InWait PROVE Goal
  <2>1. Collected(e)' = Collected(e)
    BY <1>19, <1>k DEF InWait, Collecting, Transferring, transfer
  <2> QED
    BY <1>19, <1>u, <2>1 DEF InWait, Collecting, Connected, Serving, fifo
<1>20. ASSUME InOverrun PROVE Goal
  BY <1>20 DEF InOverrun, Connected, Serving, Submits
<1>21. ASSUME InPacket PROVE Goal
  <2> DEFINE p == packet[cur.urb.ep]
             d == Append(cur.data, p)
  <2>1. /\ p \in Packet /\ cur'.urb = cur.urb /\ cur'.data = d /\ cur.urb.ep \in Eps
    BY <1>21, InPacketAdvances DEF Advanced
  <2>2. /\ pc = "in" /\ pc' \in {"in", "reply"} /\ cur.urb.ep \in Pending
        /\ packet' = [packet EXCEPT ![cur.urb.ep] = NoPacket] /\ written' = written /\ wire' = wire
    BY <1>21 DEF InPacket, Collecting, FifoAfter
  <2>3. Connected /\ Sent(e)' = Sent(e)
    BY <2>2 DEF Connected, Serving, Sent
  <2>4. CASE e # cur.urb.ep
    <3>1. Collected(e)' = Collected(e) /\ packet'[e] = packet[e]
      BY <1>t, <2>1, <2>2, <2>4 DEF Collected, Transferring
    <3> QED
      BY <1>u, <2>2, <2>3, <3>1
  <2>5. CASE e = cur.urb.ep
    <3>1. Collected(e) = cur.data /\ Collected(e)' = d
      BY <2>1, <2>2, <2>5 DEF Collected, Transferring
    <3>2. Waiting(e) = <<p>> /\ Waiting(e)' = <<>>
      BY <1>t, <2>1, <2>2, <2>5 DEF Waiting, Pending
    <3>3. InTurn(Sent(e), cur.data, <<p>>, written[e])
      BY <1>q, <2>3, <3>1, <3>2
    <3> HIDE DEF p
    <3>4. Numbers(<<p>>) = {p.n} /\ Numbers(d) = Numbers(cur.data) \cup {p.n} /\ Rising(d)
      BY <1>t, <2>1, <3>3, NumbersOf DEF InTurn
    <3> HIDE DEF d
    <3>5. InTurn(Sent(e), d, <<>>, written[e])
      BY <3>3, <3>4, NumbersOf DEF InTurn, Before
    <3> QED
      BY <1>p, <2>2, <2>3, <3>1, <3>2, <3>5
  <2> QED
    BY <2>4, <2>5
<1>22. ASSUME TimePasses PROVE Goal
  <2>1. Collected(e)' = Collected(e)
    BY <1>22, <1>k DEF TimePasses, Transferring
  <2> QED
    BY <1>22, <1>u, <2>1 DEF TimePasses, Connected, Serving, fifo
<1>23. ASSUME SendReply PROVE Goal
  <2> DEFINE w == SubmitReply(cur.urb, ActualLength, cur.status, cur.data, cur.sent)
  <2>1. cur.urb \in Urb /\ ActualLength \in Nat /\ cur.status \in Statuses
         /\ cur.data \in Seq(Packet) /\ cur.sent \in Nat
    BY DEF TypeOK, Transfer, ActualLength
  <2>2. w \in Reply
    BY <2>1, ReplyTyped
  <2>3. /\ wire' = Append(wire, w) /\ pc = "reply" /\ pc' = "loop"
        /\ packet' = packet /\ written' = written
    BY <1>23 DEF SendReply, fifo
  <2>4. w.urb = cur.urb /\ w.data = cur.data /\ w.kind = "submit"
    BY DEF SubmitReply
  <2> HIDE DEF w
  <2>5. Connected /\ Collected(e)' = <<>>
    BY <2>3 DEF Connected, Serving, Collected, Transferring
  <2>6. CASE cur.urb.ep # e
    <3>1. ~Carries(w, e) /\ Collected(e) = <<>>
      BY <2>4, <2>6 DEF Carries, Collected
    <3> QED
      BY <1>r, <2>2, <2>3, <2>5, <3>1
  <2>7. CASE cur.urb.ep = e
    <3>1. Collected(e) = cur.data
      BY <2>3, <2>7 DEF Collected, Transferring
    <3>2. cur.urb.dir = "in" \/ cur.data = <<>>
      BY <2>1, <2>3 DEF Carried, Transferring, Urb, Dirs
    <3>3. Sent(e)' = Append(Sent(e), cur.data)
      BY <1>t, <2>2, <2>3, <2>4, <2>7, <3>2, SentAppends DEF Carries
    <3>4. Waiting(e)' = Waiting(e)
      BY <2>3 DEF Waiting, Pending
    <3>5. InTurn(Sent(e), cur.data, Waiting(e), written[e])
      BY <1>q, <2>5, <3>1
    <3>6. Replied(Sent(e)') = Replied(Sent(e)) \cup Numbers(cur.data) /\ Ordered(Sent(e)')
      BY <1>s, <2>1, <3>3, <3>5, OrderedAppend DEF InTurn
    <3>7. InTurn(Sent(e)', <<>>, Waiting(e), written[e])
      BY <3>5, <3>6, NumbersOf DEF InTurn, Before
    <3> QED
      BY <1>p, <2>3, <2>5, <3>4, <3>7
  <2> QED
    BY <2>6, <2>7
<1>24. ASSUME NEW s \in 1..MaxSeq, Unlink(s) PROVE Goal
  <2> DEFINE w == UnlinkReply(s, UnlinkKind(s))
  <2>1. w \in Reply
    BY UnlinkReplyTyped DEF UnlinkKind
  <2>2. wire' = Append(wire, w) /\ ~Carries(w, e)
    BY <1>24 DEF Unlink, UnlinkReply, UnlinkKind, Carries
  <2> HIDE DEF w
  <2> QED
    BY <1>24, <1>r, <1>i, <2>1, <2>2 DEF Unlink, Connected, Serving, Transferring, fifo
<1>25. ASSUME NEW ep \in Eps, NEW len \in Lens, FwWrite(ep, len) PROVE Goal
  <2> DEFINE p == [conn |-> conn, n |-> written[ep] + 1, len |-> len, setup |-> setup]
  <2>1. /\ ep \notin Pending /\ packet' = [packet EXCEPT ![ep] = p]
        /\ written' = [written EXCEPT ![ep] = written[ep] + 1]
        /\ pc' = pc /\ cur' = cur /\ wire' = wire
    BY <1>25 DEF FwWrite, transfer
  <2>2. Connected /\ Collected(e)' = Collected(e) /\ Sent(e)' = Sent(e)
    BY <2>1 DEF Connected, Collected, Sent
  <2>3. CASE e # ep
    BY <1>t, <1>u, <2>1, <2>2, <2>3
  <2>4. CASE e = ep
    <3>1. written[e] \in Nat /\ p.n = written[e] + 1 /\ p.n # 0 /\ p # NoPacket
      BY <1>t, <2>4 DEF NoPacket
    <3>2. p \in Packet
      <4>1. conn \in Nat /\ setup \in Nat /\ len \in 0..Mps
        BY BoundsAssumption, SizesAssumption DEF TypeOK
      <4> QED
        BY <2>4, <3>1, <4>1 DEF Packet
    <3> HIDE DEF p
    <3>3. Waiting(e) = <<>> /\ Waiting(e)' = <<p>> /\ written'[e] = written[e] + 1
      BY <1>t, <2>1, <2>4, <3>1 DEF Waiting, Pending
    <3>4. InTurn(Sent(e), Collected(e), <<>>, written[e])
      BY <1>q, <2>2, <3>3
    <3> DEFINE A == Replied(Sent(e))
               B == Numbers(Collected(e))
    <3>5. /\ Before(A, B) /\ A \cup B = 1..written[e]
          /\ Ordered(Sent(e)) /\ Rising(Collected(e))
      BY <3>4, NumbersOf DEF InTurn
    <3>6. Numbers(<<p>>) = {written[e] + 1} /\ Rising(<<p>>)
      BY <3>1, <3>2, NumbersOf
    <3> HIDE DEF A, B
    <3>7. Before(A \cup B, {written[e] + 1}) /\ A \cup B \cup {written[e] + 1} = 1..(written[e] + 1)
      BY <3>1, <3>5, CountsUp
    <3>8. InTurn(Sent(e), Collected(e), <<p>>, written[e] + 1)
      BY <3>5, <3>6, <3>7 DEF InTurn, Before, A, B
    <3> QED
      BY <1>p, <2>2, <3>3, <3>8
  <2> QED
    BY <2>3, <2>4
<1>26. ASSUME NEW ep \in Eps, NEW dir \in Dirs, FwHalt(ep, dir) PROVE Goal
  <2>1. Connected /\ Collected(e)' = Collected(e) /\ wire' = wire /\ packet' = packet /\ written' = written
    BY <1>26 DEF FwHalt, Connected, Collected, fifo, transfer
  <2> QED
    BY <1>u, <2>1
<1>27. ASSUME NEW ep \in Eps, NEW dir \in Dirs, FwOpen(ep, dir) PROVE Goal
  <2>1. Connected /\ Collected(e)' = Collected(e) /\ wire' = wire /\ packet' = packet /\ written' = written
    BY <1>27 DEF FwOpen, Connected, Collected, fifo, transfer
  <2> QED
    BY <1>u, <2>1
<1>28. ASSUME NEW ep \in Eps, NEW dir \in Dirs, FwClose(ep, dir) PROVE Goal
  <2>1. Connected /\ Collected(e)' = Collected(e) /\ wire' = wire
    BY <1>28 DEF FwClose, Connected, Collected, transfer
  <2>2. Sent(e)' = Sent(e)
    BY <2>1 DEF Sent
  <2>3. CASE dir # "in" \/ e # ep \/ e \notin Pending
    <3>1. packet'[e] = packet[e] /\ written'[e] = written[e]
      BY <1>28, <1>t, <2>3 DEF FwClose, FifoAfter, Pending
    <3> QED
      BY <1>u, <2>1, <3>1
  <2>4. CASE dir = "in" /\ e = ep /\ e \in Pending
    <3> DEFINE A == Replied(Sent(e))
               B == Numbers(Collected(e))
               k == packet[e].n
    <3>1. /\ packet' = [packet EXCEPT ![e] = NoPacket]
          /\ written' = [written EXCEPT ![e] = written[e] - 1]
      BY <1>28, <2>4 DEF FwClose, FifoAfter
    <3>2. Waiting(e) = <<packet[e]>> /\ Waiting(e)' = <<>> /\ written'[e] = written[e] - 1
      BY <1>t, <2>4, <3>1 DEF Waiting, Pending
    <3>3. InTurn(Sent(e), Collected(e), <<packet[e]>>, written[e])
      BY <1>q, <2>1, <3>2
    <3>4. packet[e] \in Packet /\ k \in Nat /\ Numbers(<<packet[e]>>) = {k}
      BY <1>t, NumbersOf DEF Packet
    <3>5. /\ Before(A, B) /\ Before(A, {k}) /\ Before(B, {k}) /\ A \cup B \cup {k} = 1..written[e]
          /\ Ordered(Sent(e)) /\ Rising(Collected(e)) /\ written[e] \in Nat
      BY <1>t, <3>3, <3>4 DEF InTurn
    <3> HIDE DEF A, B, k
    <3>8. Before(A \cup B, {k})
      BY <3>5 DEF Before
    <3>6. A \cup B = 1..(written[e] - 1)
      BY <3>5, <3>8, CountsDown
    <3>7. InTurn(Sent(e), Collected(e), <<>>, written[e] - 1)
      BY <3>5, <3>6, NumbersOf DEF InTurn, Before, A, B
    <3> QED
      BY <1>p, <2>1, <2>2, <3>2, <3>7
  <2> QED
    BY <2>3, <2>4
<1>29. ASSUME UNCHANGED vars PROVE Goal
  <2>1. Connected /\ Collected(e)' = Collected(e) /\ wire' = wire /\ packet' = packet /\ written' = written
    BY <1>29 DEF vars, Connected, Collected, fifo, transfer
  <2> QED
    BY <1>u, <2>1
<1> QED
  BY <1>1, <1>2, <1>3, <1>4, <1>5, <1>6, <1>7, <1>8, <1>9, <1>10, <1>11, <1>12, <1>13, <1>14,
     <1>15, <1>16, <1>17, <1>18, <1>19, <1>20, <1>21, <1>22, <1>23, <1>24, <1>25, <1>26, <1>27,
     <1>28, <1>29
  DEF Next, Server, Client, Firmware

LEMMA CarriedStep == DeliveryInv /\ [Next]_vars => Carried'
<1> SUFFICES ASSUME DeliveryInv, [Next]_vars PROVE Carried'
  OBVIOUS
<1> USE DEF DeliveryInv, TransferInv, TypeInv
<1>t. cur \in Transfer /\ cur.data \in Seq(Packet) /\ cur.urb \in Urb /\ cur.len \in Nat
  BY DEF TypeOK, Transfer
<1>a. ASSUME pc' \notin Transferring PROVE Carried'
  BY <1>a DEF Carried
\* The transfer under way gets no more data.
<1>k. ASSUME pc \in Transferring, cur'.urb = cur.urb, cur'.data = cur.data, cur'.cap = cur.cap,
             cur.urb.dir = "in" => cur'.len = cur.len
      PROVE  Carried'
  BY <1>k DEF Carried
<1>b. ASSUME pc' = pc, cur' = cur PROVE Carried'
  BY <1>b DEF Carried
\* A transfer starts.
<1>s. ASSUME NEW r \in Requests, SubmitBusy(r) \/ SubmitTransfer(r) PROVE Carried'
  <2>1. cur'.data = <<>> /\ cur'.len = 0 /\ cur'.urb = UrbOf(r) /\ LengthOf(<<>>) = 0
    BY <1>s, SubmitStarts, LengthGrows DEF Started
  <2>2. cur'.cap = Clip(r) /\ cur'.urb.cap = r.cap /\ cur'.urb.dir = r.dir
    <3>1. PICK status : cur' = [NoTransfer EXCEPT !.urb = UrbOf(r), !.cap = Clip(r), !.status = status]
      BY <1>s DEF SubmitBusy, SubmitTransfer
    <3>2. cur'.cap = Clip(r) /\ cur'.urb = UrbOf(r)
      BY <3>1 DEF NoTransfer
    <3> QED
      BY <3>2 DEF UrbOf
  <2>3. r.dir = "in" => Clip(r) <= r.cap
    BY SizesAssumption DEF Clip, Smaller
  <2> QED
    BY <2>1, <2>2, <2>3 DEF Carried
<1>1. ASSUME Accept PROVE Carried'
  BY <1>1, <1>a DEF Accept, Transferring
<1>2. ASSUME DeviceLoop PROVE Carried'
  BY <1>2, <1>a DEF DeviceLoop, Transferring
<1>3. ASSUME NEW ep \in Eps, CompleteInterrupt(ep) PROVE Carried'
  BY <1>3, <1>a DEF CompleteInterrupt, Transferring
<1>4. ASSUME CompleteInterruptFails PROVE Carried'
  BY <1>4, <1>a DEF CompleteInterruptFails, Transferring
<1>5. ASSUME CompleteInterruptDone PROVE Carried'
  BY <1>5, <1>a DEF CompleteInterruptDone, Transferring
<1>6. ASSUME PollIdle PROVE Carried'
  BY <1>6, <1>a DEF PollIdle, Transferring
<1>7. ASSUME ConnectionLost PROVE Carried'
  BY <1>7, <1>a DEF ConnectionLost, Transferring
<1>8. ASSUME Import PROVE Carried'
  BY <1>8, <1>a DEF Import, Transferring
<1>9. ASSUME Disconnect PROVE Carried'
  BY <1>9, <1>a DEF Disconnect, Transferring
<1>10. ASSUME NEW r \in Requests, SubmitRefused(r) PROVE Carried'
  BY <1>10, <1>a DEF SubmitRefused, Transferring
<1>11. ASSUME NEW r \in Requests, SubmitBusy(r) PROVE Carried'
  BY <1>11, <1>s DEF DeliveryInv
<1>12. ASSUME NEW r \in Requests, SubmitPark(r) PROVE Carried'
  BY <1>12, <1>a DEF SubmitPark, Transferring
<1>13. ASSUME NEW r \in Requests, SubmitTransfer(r) PROVE Carried'
  BY <1>13, <1>s DEF DeliveryInv
<1>14. ASSUME OutChunk PROVE Carried'
  <2>1. cur'.urb = cur.urb /\ cur'.data = cur.data /\ cur'.cap = cur.cap
    BY <1>14, OutChunkAdvances DEF Advanced
  <2>2. pc = "out" /\ cur.urb.dir = "out"
    BY <1>14 DEF OutChunk, Moves, OutMoves
  <2> QED
    BY <1>k, <2>1, <2>2 DEF Transferring
<1>15. ASSUME OutDone PROVE Carried'
  BY <1>15, <1>k DEF OutDone, transfer, Transferring
<1>16. ASSUME InHalted PROVE Carried'
  <2>1. /\ pc \in Transferring /\ cur'.urb = cur.urb /\ cur'.data = cur.data /\ cur'.cap = cur.cap
        /\ cur'.len = cur.len
    BY <1>16, <1>t DEF InHalted, Collecting, InEnds, Transfer, Transferring
  <2> QED
    BY <1>k, <2>1
<1>17. ASSUME InTimeout PROVE Carried'
  <2>1. /\ pc \in Transferring /\ cur'.urb = cur.urb /\ cur'.data = cur.data /\ cur'.cap = cur.cap
        /\ cur'.len = cur.len
    BY <1>17, <1>t DEF InTimeout, Collecting, InEnds, Transfer, Transferring
  <2> QED
    BY <1>k, <2>1
<1>18. ASSUME InFull PROVE Carried'
  <2>1. /\ pc \in Transferring /\ cur'.urb = cur.urb /\ cur'.data = cur.data /\ cur'.cap = cur.cap
        /\ cur'.len = cur.len
    BY <1>18, <1>t DEF InFull, Collecting, InEnds, Transfer, Transferring
  <2> QED
    BY <1>k, <2>1
<1>19. ASSUME InWait PROVE Carried'
  BY <1>19, <1>b DEF InWait, fifo, transfer
<1>20. ASSUME InOverrun PROVE Carried'
  BY <1>20, <1>a DEF InOverrun, Transferring
<1>21. ASSUME InPacket PROVE Carried'
  <2> DEFINE p == packet[cur.urb.ep]
  <2>1. /\ p \in Packet /\ cur'.urb = cur.urb /\ cur'.cap = cur.cap
        /\ cur'.data = Append(cur.data, p) /\ cur'.len = cur.len + p.len
    BY <1>21, InPacketAdvances DEF Advanced
  <2>2. pc \in Transferring /\ cur.urb.dir = "in"
    BY <1>21 DEF InPacket, Collecting, Moves, InMoves, Transferring
  <2> HIDE DEF p
  <2>3. LengthOf(Append(cur.data, p)) = LengthOf(cur.data) + p.len
    BY <1>t, <2>1, LengthGrows
  <2> QED
    BY <2>1, <2>2, <2>3 DEF Carried
<1>22. ASSUME TimePasses PROVE Carried'
  BY <1>22, <1>b DEF TimePasses, fifo, transfer
<1>23. ASSUME SendReply PROVE Carried'
  BY <1>23, <1>a DEF SendReply, Transferring
<1>24. ASSUME NEW s \in 1..MaxSeq, Unlink(s) PROVE Carried'
  BY <1>24, <1>a DEF Unlink, Transferring
<1>25. ASSUME NEW ep \in Eps, NEW len \in Lens, FwWrite(ep, len) PROVE Carried'
  BY <1>25, <1>b DEF FwWrite, transfer
<1>26. ASSUME NEW ep \in Eps, NEW dir \in Dirs, FwHalt(ep, dir) PROVE Carried'
  BY <1>26, <1>b DEF FwHalt, fifo, transfer
<1>27. ASSUME NEW ep \in Eps, NEW dir \in Dirs, FwOpen(ep, dir) PROVE Carried'
  BY <1>27, <1>b DEF FwOpen, fifo, transfer
<1>28. ASSUME NEW ep \in Eps, NEW dir \in Dirs, FwClose(ep, dir) PROVE Carried'
  BY <1>28, <1>b DEF FwClose, transfer
<1>29. ASSUME UNCHANGED vars PROVE Carried'
  BY <1>29, <1>b DEF vars, transfer
<1> QED
  BY <1>1, <1>2, <1>3, <1>4, <1>5, <1>6, <1>7, <1>8, <1>9, <1>10, <1>11, <1>12, <1>13, <1>14,
     <1>15, <1>16, <1>17, <1>18, <1>19, <1>20, <1>21, <1>22, <1>23, <1>24, <1>25, <1>26, <1>27,
     <1>28, <1>29
  DEF Next, Server, Client, Firmware

LEMMA FitAppends ==
  ASSUME TypeOK, RepliesFit, NEW w \in Reply, wire' = Append(wire, w), w.len <= w.urb.cap,
         w.kind = "submit" /\ w.urb.dir = "in" => w.len = LengthOf(w.data)
  PROVE  RepliesFit'
<1>1. wire \in Seq(Reply)
  BY DEF TypeOK
<1>2. /\ Len(wire') = Len(wire) + 1 /\ Len(wire) \in Nat /\ wire'[Len(wire) + 1] = w
      /\ \A i \in 1..Len(wire) : wire'[i] = wire[i]
  BY <1>1
<1>3. \A i \in 1..Len(wire') : i \in 1..Len(wire) \/ i = Len(wire) + 1
  BY <1>2
<1> QED
  BY <1>2, <1>3 DEF RepliesFit

LEMMA FitStep == DeliveryInv /\ [Next]_vars => RepliesFit'
<1> SUFFICES ASSUME DeliveryInv, [Next]_vars PROVE RepliesFit'
  OBVIOUS
<1> USE DEF DeliveryInv, TransferInv, TypeInv
<1>a. ASSUME wire' = wire PROVE RepliesFit'
  BY <1>a DEF RepliesFit
<1>1. ASSUME Accept PROVE RepliesFit'
  <2>1. wire' = <<>>
    BY <1>1 DEF Accept
  <2> QED
    BY <2>1 DEF RepliesFit
<1>2. ASSUME DeviceLoop PROVE RepliesFit'
  BY <1>2, <1>a DEF DeviceLoop
<1>3. ASSUME NEW ep \in Eps, CompleteInterrupt(ep) PROVE RepliesFit'
  <2> DEFINE w == SubmitReply(intrIn[ep], packet[ep].len, "OK", <<packet[ep]>>, 0)
  <2>1. intrIn[ep] \in Urb /\ packet[ep] \in Packet /\ packet[ep].len \in Nat
    BY SizesAssumption DEF TypeOK, Packet
  <2>2. <<packet[ep]>> \in Seq(Packet) /\ "OK" \in Statuses /\ 0 \in Nat
    BY <2>1 DEF Statuses
  <2>3. w \in Reply
    BY <2>1, <2>2, ReplyTyped
  <2>4. wire' = Append(wire, w) /\ packet[ep].len <= intrIn[ep].cap
    BY <1>3 DEF CompleteInterrupt, Fits
  <2>5. w.len = packet[ep].len /\ w.urb = intrIn[ep] /\ w.data = <<packet[ep]>>
    BY DEF SubmitReply
  <2>6. LengthOf(<<packet[ep]>>) = packet[ep].len
    BY <2>1, LengthGrows
  <2> HIDE DEF w
  <2> QED
    BY <2>3, <2>4, <2>5, <2>6, FitAppends
<1>4. ASSUME CompleteInterruptFails PROVE RepliesFit'
  BY <1>4, <1>a DEF CompleteInterruptFails
<1>5. ASSUME CompleteInterruptDone PROVE RepliesFit'
  BY <1>5, <1>a DEF CompleteInterruptDone
<1>6. ASSUME PollIdle PROVE RepliesFit'
  BY <1>6, <1>a DEF PollIdle
<1>7. ASSUME ConnectionLost PROVE RepliesFit'
  BY <1>7, <1>a DEF ConnectionLost
<1>8. ASSUME Import PROVE RepliesFit'
  BY <1>8, <1>a DEF Import
<1>9. ASSUME Disconnect PROVE RepliesFit'
  BY <1>9, <1>a DEF Disconnect
<1>10. ASSUME NEW r \in Requests, SubmitRefused(r) PROVE RepliesFit'
  BY <1>10, <1>a DEF SubmitRefused
<1>11. ASSUME NEW r \in Requests, SubmitBusy(r) PROVE RepliesFit'
  BY <1>11, <1>a DEF SubmitBusy
<1>12. ASSUME NEW r \in Requests, SubmitPark(r) PROVE RepliesFit'
  BY <1>12, <1>a DEF SubmitPark
<1>13. ASSUME NEW r \in Requests, SubmitTransfer(r) PROVE RepliesFit'
  BY <1>13, <1>a DEF SubmitTransfer
<1>14. ASSUME OutChunk PROVE RepliesFit'
  BY <1>14, <1>a DEF OutChunk
<1>15. ASSUME OutDone PROVE RepliesFit'
  BY <1>15, <1>a DEF OutDone
<1>16. ASSUME InHalted PROVE RepliesFit'
  BY <1>16, <1>a DEF InHalted, InEnds
<1>17. ASSUME InTimeout PROVE RepliesFit'
  BY <1>17, <1>a DEF InTimeout, InEnds
<1>18. ASSUME InFull PROVE RepliesFit'
  BY <1>18, <1>a DEF InFull, InEnds
<1>19. ASSUME InWait PROVE RepliesFit'
  BY <1>19, <1>a DEF InWait
<1>20. ASSUME InOverrun PROVE RepliesFit'
  BY <1>20, <1>a DEF InOverrun
<1>21. ASSUME InPacket PROVE RepliesFit'
  BY <1>21, <1>a DEF InPacket
<1>22. ASSUME TimePasses PROVE RepliesFit'
  BY <1>22, <1>a DEF TimePasses
<1>23. ASSUME SendReply PROVE RepliesFit'
  <2> DEFINE w == SubmitReply(cur.urb, ActualLength, cur.status, cur.data, cur.sent)
  <2>1. cur.urb \in Urb /\ ActualLength \in Nat /\ cur.status \in Statuses
         /\ cur.data \in Seq(Packet) /\ cur.sent \in Nat
    BY DEF TypeOK, Transfer, ActualLength
  <2>2. w \in Reply
    BY <2>1, ReplyTyped
  <2>3. wire' = Append(wire, w) /\ pc = "reply"
    BY <1>23 DEF SendReply
  <2>4. w.len = ActualLength /\ w.urb = cur.urb /\ w.data = cur.data
    BY DEF SubmitReply
  <2> HIDE DEF w
  <2>5. /\ cur.len \in Nat /\ cur.cap \in Nat /\ cur.urb.cap \in Nat /\ cur.len <= cur.cap
        /\ cur.urb.dir \in Dirs
    BY <2>1 DEF TypeOK, Transfer, Lengths, Urb
  <2>6. CASE cur.urb.dir = "out"
    <3>1. cur.cap = cur.urb.cap
      BY <2>3, <2>6 DEF Moves, OutMoves
    <3>2. ActualLength <= cur.urb.cap
      BY <2>5, <3>1 DEF ActualLength
    <3> QED
      BY <2>2, <2>3, <2>4, <2>6, <3>2, FitAppends
  <2>7. CASE cur.urb.dir = "in"
    <3>1. ActualLength = LengthOf(cur.data) /\ ActualLength <= cur.urb.cap
      BY <2>3, <2>5, <2>7 DEF ActualLength, Carried, Transferring
    <3> QED
      BY <2>2, <2>3, <2>4, <3>1, FitAppends
  <2> QED
    BY <2>5, <2>6, <2>7 DEF Dirs
<1>24. ASSUME NEW s \in 1..MaxSeq, Unlink(s) PROVE RepliesFit'
  <2> DEFINE w == UnlinkReply(s, UnlinkKind(s))
  <2>1. w \in Reply
    BY UnlinkReplyTyped DEF UnlinkKind
  <2>2. wire' = Append(wire, w)
    BY <1>24 DEF Unlink
  <2>3. w.kind # "submit" /\ w.len = 0 /\ w.urb.cap = 0
    BY DEF UnlinkReply, UnlinkKind, NoUrb
  <2> HIDE DEF w
  <2> QED
    BY <2>1, <2>2, <2>3, FitAppends
<1>25. ASSUME NEW ep \in Eps, NEW len \in Lens, FwWrite(ep, len) PROVE RepliesFit'
  BY <1>25, <1>a DEF FwWrite
<1>26. ASSUME NEW ep \in Eps, NEW dir \in Dirs, FwHalt(ep, dir) PROVE RepliesFit'
  BY <1>26, <1>a DEF FwHalt
<1>27. ASSUME NEW ep \in Eps, NEW dir \in Dirs, FwOpen(ep, dir) PROVE RepliesFit'
  BY <1>27, <1>a DEF FwOpen
<1>28. ASSUME NEW ep \in Eps, NEW dir \in Dirs, FwClose(ep, dir) PROVE RepliesFit'
  BY <1>28, <1>a DEF FwClose
<1>29. ASSUME UNCHANGED vars PROVE RepliesFit'
  BY <1>29, <1>a DEF vars
<1> QED
  BY <1>1, <1>2, <1>3, <1>4, <1>5, <1>6, <1>7, <1>8, <1>9, <1>10, <1>11, <1>12, <1>13, <1>14,
     <1>15, <1>16, <1>17, <1>18, <1>19, <1>20, <1>21, <1>22, <1>23, <1>24, <1>25, <1>26, <1>27,
     <1>28, <1>29
  DEF Next, Server, Client, Firmware

LEMMA DeliveryInit == Init => DeliveryInv
<1> SUFFICES ASSUME Init PROVE Carried /\ RepliesFit /\ InOrderDelivery
  BY TransferInit DEF DeliveryInv
<1> QED
  BY DEF Init, Carried, Transferring, RepliesFit, InOrderDelivery, Connected, Serving

LEMMA DeliveryStep == DeliveryInv /\ [Next]_vars => DeliveryInv'
BY TransferStep, CarriedStep, FitStep, InOrderStep DEF DeliveryInv

\* No reply is longer than its request or says another length than that of the
\* packets it carries, however many there are and whichever path it took.
THEOREM ReplyLengths == Spec => []RepliesFit
<1>1. DeliveryInv => RepliesFit
  BY DEF DeliveryInv
<1> QED
  BY <1>1, DeliveryInit, DeliveryStep, PTL DEF Spec

\* A connected client gets every packet of a data endpoint once and in the order
\* the firmware wrote them, or it is still to come.
THEOREM DeliveredInOrder == Spec => []InOrderDelivery
<1>1. DeliveryInv => InOrderDelivery
  BY DEF DeliveryInv
<1> QED
  BY <1>1, DeliveryInit, DeliveryStep, PTL DEF Spec
=============================================================================
