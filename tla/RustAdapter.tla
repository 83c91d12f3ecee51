----------------------------- MODULE RustAdapter -----------------------------
(***************************************************************************)
(* The USB/IP server built with CANOKEY_RUST_USB: the connection loop of   *)
(* Src/usbip.c and the packet FIFOs of Src/rust_adapter.inc.               *)
(*                                                                         *)
(* One process serves one client at a time.  Each turn of its loop it lets *)
(* the firmware run, answers the interrupt requests it had parked, and     *)
(* reads at most one command of the client.  Three parties act:            *)
(*                                                                         *)
(*   - the server: the C code, one action per step of a handler;           *)
(*   - the firmware (external: the Rust code behind the ck_usb calls) acts  *)
(*     only inside a call of the C code, through the ck_usb_dcd functions. *)
(*     fw says what the last C step called: "data" (loop,                  *)
(*     ck_usb_in and ck_usb_out of a data endpoint), "control" (a call     *)
(*     about endpoint 0, which may also open and close endpoints), or      *)
(*     "none".  Its effects are the Fw actions, taken before the server's  *)
(*     next step;                                                          *)
(*   - the client (external: the kernel's vhci_hcd), whose next command is *)
(*     whatever a USB host could have sent, and which may go away at any   *)
(*     read or write.                                                      *)
(*                                                                         *)
(* Bytes are not modelled: a packet is a length in small units, a serial   *)
(* number on its endpoint, and the control request it was written for.     *)
(* The timer and the touch flag of compat_device_loop are in DeviceTimer.  *)
(***************************************************************************)
EXTENDS Integers, Sequences, FiniteSets, SequencesExt

CONSTANTS
  IntrEps,     \* interrupt endpoints (the code: 1 and 2)
  BulkEps,     \* bulk endpoints (the code: 3)
  Mps,         \* max packet size of an open endpoint, in units
  Lens,        \* the packet lengths the firmware uses
  TxMax,       \* EP_TX_BUFFER_MAXSIZE, in units
  Requests,    \* the [ep, dir, cap] the client may submit
  Stalls,      \* the <<ep, dir>> the firmware may halt
  Closable,    \* the endpoints that control requests open and close; the
               \* others are open all the time, configured beforehand
  MaxSeq,      \* bound: requests per connection
  MaxConn,     \* bound: connections told apart
  MaxPackets   \* bound: packets the firmware writes per endpoint and connection

Dirs == {"in", "out"}
Eps == {0} \cup IntrEps \cup BulkEps
Configured == Eps \ Closable

ASSUME EndpointsAssumption ==
  /\ IntrEps \subseteq Nat \ {0}
  /\ BulkEps \subseteq Nat \ {0}
  /\ IntrEps \cap BulkEps = {}
  /\ Stalls \subseteq Eps \X Dirs
  /\ Closable \subseteq Eps \ {0}

ASSUME SizesAssumption ==
  /\ Mps \in Nat \ {0}
  /\ Lens \subseteq 0..Mps
  /\ TxMax \in Nat \ {0}
  /\ Requests \subseteq [ep : Eps, dir : Dirs, cap : Nat]

ASSUME BoundsAssumption ==
  /\ MaxSeq \in Nat
  /\ MaxConn \in Nat \ {0}
  /\ MaxPackets \in Nat

VARIABLES
  pc,         \* where the server stands
  conn,       \* the connection being served (0: none yet)
  attached,   \* rust_attached
  hostReady,  \* the endpoints with host_ready: an interrupt request is parked
  intrIn,     \* endpoints[ep].intr_in: the request parked last
  packet,     \* rust_packet and rust_packet_length; NoPacket when rust_pending
              \* is clear, as nothing reads a packet that is not pending
  open,       \* the endpoints with mps # 0
  halted,     \* the <<ep, dir>> with rust_halted
  cur,        \* the locals of rust_submit
  late,       \* USBIP_REQUEST_TIMEOUT_MS passed since the transfer started
  scan,       \* ep of the loop in rust_complete_interrupt
  fw,         \* what the last C step called in the firmware
  nextSeq,    \* the number the client gives its next request
  wire,       \* what was written to the client on this connection
  written,    \* history: packets written by the firmware, per endpoint
  setup       \* history: number of the last request given to ck_usb_setup

link     == <<conn, attached, nextSeq>>
parked   == <<hostReady, intrIn>>
fifo     == <<packet, written>>
eps      == <<open, halted>>
transfer == <<cur, late, setup>>
vars     == <<pc, link, parked, fifo, eps, transfer, scan, fw, wire>>

Urb == [seq : Nat, conn : Nat, ep : Eps, dir : Dirs, cap : Nat]
NoUrb == [seq |-> 0, conn |-> 0, ep |-> 0, dir |-> "out", cap |-> 0]

Packet == [conn : Nat, n : Nat, len : 0..Mps, setup : Nat]
NoPacket == [conn |-> 0, n |-> 0, len |-> 0, setup |-> 0]

\* The endpoints with rust_pending.
Pending == {ep \in Eps : packet[ep] # NoPacket}

Statuses == {"OK", "EBUSY", "EPIPE", "ETIMEDOUT"}

\* cap: the clipped capacity; len: the units read or collected so far;
\* data: the packets collected; sent: the units given to the firmware.
Transfer == [urb : Urb, cap : Nat, len : Nat, status : Statuses,
             data : Seq(Packet), sent : Nat]
NoTransfer == [urb |-> NoUrb, cap |-> 0, len |-> 0, status |-> "OK",
               data |-> <<>>, sent |-> 0]

\* A RET_SUBMIT, or a RET_UNLINK about urb.seq with status ECONNRESET
\* ("unlinked") or zero ("completed").
Reply == [kind : {"submit", "unlinked", "completed"}, urb : Urb, len : Nat,
          status : Statuses, data : Seq(Packet), sent : Nat]

Serving == {"loop", "scan", "poll", "in", "out", "reply"}
Transferring == {"in", "out", "reply"}

TypeOK ==
  /\ pc \in {"accept", "close"} \cup Serving
  /\ conn \in 0..MaxConn
  /\ attached \in BOOLEAN
  /\ hostReady \subseteq Eps
  /\ intrIn \in [Eps -> Urb]
  /\ packet \in [Eps -> Packet]
  /\ open \subseteq Eps
  /\ halted \subseteq Eps \X Dirs
  /\ cur \in Transfer
  /\ cur.len <= TxMax            \* the staging buffer bytes[] of rust_submit
  /\ late \in BOOLEAN
  /\ scan \in Nat
  /\ fw \in {"none", "data", "control"}
  /\ nextSeq \in 1..(MaxSeq + 1)
  /\ wire \in Seq(Reply)
  /\ written \in [Eps -> 0..MaxPackets]
  /\ setup \in 0..MaxSeq

Init ==
  /\ pc = "accept"
  /\ conn = 0
  /\ attached = FALSE
  /\ hostReady = {}
  /\ intrIn = [ep \in Eps |-> NoUrb]
  /\ packet = [ep \in Eps |-> NoPacket]
  /\ open = Configured
  /\ halted = {}
  /\ cur = NoTransfer
  /\ late = FALSE
  /\ scan = 1
  /\ fw = "none"
  /\ nextSeq = 1
  /\ wire = <<>>
  /\ written = [ep \in Eps |-> 0]
  /\ setup = 0
-----------------------------------------------------------------------------
(* Small pieces of the C code that several actions share.                  *)

PacketSize(ep) == IF ep \in open THEN Mps ELSE 0

Smaller(a, b) == IF a < b THEN a ELSE b

\* Mutant: the host's capacity is taken as it is.
ClipNothing(r) == r.cap

\* The capacity rust_submit works with: an IN request for more than the
\* staging buffer holds gets at most the buffer.
Clip(r) == IF r.dir = "in" THEN Smaller(r.cap, TxMax) ELSE r.cap

\* The firmware call made for endpoint ep.
FwCall(ep) == IF ep = 0 THEN "control" ELSE "data"

\* Mutant: the reply is left for the next request to find.
FifoAtSetupKept(ep) == packet

\* What ck_usb_setup finds: an earlier endpoint 0 reply is gone.
FifoAtSetup(ep) == IF ep = 0 THEN [packet EXCEPT ![0] = NoPacket] ELSE packet

\* Mutant: the pending flag survives.
FifoAfterKept(ep) == packet

\* The packet of ep was copied out.
FifoAfter(ep) == [packet EXCEPT ![ep] = NoPacket]

\* Mutant: the loop starts one endpoint too late.
DueLate == {ep \in Eps : ep > scan /\ ep \in hostReady /\ ep \in Pending}

\* The interrupt requests that a packet can answer, from endpoint scan on.
Due == {ep \in Eps : ep >= scan /\ ep \in hostReady /\ ep \in Pending}

\* The request parked at ep can take its packet.
Fits(ep) == packet[ep].len <= intrIn[ep].cap

\* Mutant: what was collected before is forgotten.
OverrunOfAll(p) == p.len > cur.cap

\* More than what is left of the transfer.
Overrun(p) == p.len > cur.cap - cur.len

\* Mutant: a full packet ends the transfer as well.
EndsTransferFull(p) == p.len <= PacketSize(cur.urb.ep)

\* A short packet ends an IN transfer.
EndsTransfer(p) == p.len < PacketSize(cur.urb.ep)

\* ck_usb_boot_reset, by the firmware: endpoints and halts are set up again or
\* left alone, and nothing stays to be sent on endpoint 0.
BootReset ==
  \/ UNCHANGED eps
  \/ open' = Configured /\ halted' = {}

SubmitReply(urb, len, status, data, sent) ==
  [kind |-> "submit", urb |-> urb, len |-> len, status |-> status,
   data |-> data, sent |-> sent]

UnlinkReply(s, kind) ==
  [kind |-> kind, urb |-> [NoUrb EXCEPT !.seq = s, !.conn = conn], len |-> 0,
   status |-> "OK", data |-> <<>>, sent |-> 0]
-----------------------------------------------------------------------------
(* The connection loop.                                                    *)

Accept ==
  /\ pc = "accept"
  /\ pc' = "loop"
  /\ conn' = (conn % MaxConn) + 1
  /\ nextSeq' = 1
  /\ wire' = <<>>
  /\ written' = [ep \in Eps |-> 0]
  /\ setup' = 0
  /\ UNCHANGED <<attached, parked, packet, eps, cur, late, scan, fw>>

DeviceLoop ==
  /\ pc = "loop"
  /\ pc' = "scan"
  /\ fw' = "data"
  /\ UNCHANGED <<link, parked, fifo, eps, transfer, scan, wire>>

\* A parked request and a packet for it: answer, then tell the firmware.
CompleteInterrupt(ep) ==
  /\ pc = "scan"
  /\ attached
  /\ ep \in Due
  /\ \A other \in Due : ep <= other
  /\ Fits(ep)
  /\ wire' = Append(wire, SubmitReply(intrIn[ep], packet[ep].len, "OK", <<packet[ep]>>, 0))
  /\ hostReady' = hostReady \ {ep}
  /\ packet' = FifoAfter(ep)
  /\ scan' = ep + 1
  /\ fw' = "data"
  /\ UNCHANGED <<pc, link, intrIn, written, eps, transfer>>

\* The packet is too long for the request, or the client is gone.
CompleteInterruptFails ==
  /\ pc = "scan"
  /\ attached
  /\ Due # {}
  /\ pc' = "close"
  /\ fw' = "none"
  /\ scan' = 1
  /\ UNCHANGED <<link, parked, fifo, eps, transfer, wire>>

CompleteInterruptDone ==
  /\ pc = "scan"
  /\ attached => Due = {}
  /\ pc' = "poll"
  /\ fw' = "none"
  /\ scan' = 1
  /\ UNCHANGED <<link, parked, fifo, eps, transfer, wire>>

\* No command within a millisecond, or a device list request.
PollIdle ==
  /\ pc = "poll"
  /\ pc' = "loop"
  /\ UNCHANGED <<link, parked, fifo, eps, transfer, scan, fw, wire>>

\* Mutant: an early return skips rust_disconnect.
ConnectionLostEarly ==
  /\ pc \in {"poll", "out", "reply"}
  /\ pc' = "accept"
  /\ fw' = "none"
  /\ UNCHANGED <<link, parked, fifo, eps, transfer, scan, wire>>

\* The client closed the connection, or a read or write for it failed.
ConnectionLost ==
  /\ pc \in {"poll", "out", "reply"}
  /\ pc' = "close"
  /\ fw' = "none"
  /\ UNCHANGED <<link, parked, fifo, eps, transfer, scan, wire>>

\* usbip_import and rust_attach; a host imports once per connection.
Import ==
  /\ pc = "poll"
  /\ ~attached
  /\ BootReset
  /\ packet' = FifoAfter(0)
  /\ attached' = TRUE
  /\ pc' = "loop"
  /\ UNCHANGED <<conn, nextSeq, parked, written, transfer, scan, fw, wire>>

\* The loop returned.
Disconnect ==
  /\ pc = "close"
  /\ attached' = FALSE
  /\ BootReset
  /\ packet' = [ep \in Eps |-> NoPacket]
  /\ hostReady' = {}
  /\ intrIn' = [ep \in Eps |-> NoUrb]
  /\ cur' = NoTransfer
  /\ late' = FALSE
  /\ pc' = "accept"
  /\ UNCHANGED <<conn, nextSeq, written, setup, scan, fw, wire>>
-----------------------------------------------------------------------------
(* rust_submit.  The guards common to its branches: a command was read from *)
(* a client that imported the device.                                       *)

Submits(r) ==
  /\ pc = "poll"
  /\ attached
  /\ nextSeq <= MaxSeq
  /\ r \in Requests

UrbOf(r) == [seq |-> nextSeq, conn |-> conn, ep |-> r.ep, dir |-> r.dir, cap |-> r.cap]

Refused(r) ==
  \/ r.dir = "out" /\ r.cap > TxMax
  \/ r.ep # 0 /\ r.ep \notin open

InterruptIn(r) == r.ep \in IntrEps /\ r.dir = "in"

\* An interrupt request waits only when no packet and no halt is there for it.
CanPark(r) ==
  /\ InterruptIn(r)
  /\ r.ep \notin hostReady
  /\ r.ep \notin Pending
  /\ <<r.ep, "in">> \notin halted

\* The server gives up the connection; the request is never answered.
SubmitRefused(r) ==
  /\ Submits(r)
  /\ Refused(r)
  /\ pc' = "close"
  /\ UNCHANGED <<link, parked, fifo, eps, transfer, scan, fw, wire>>

\* One request is parked already.
SubmitBusy(r) ==
  /\ Submits(r)
  /\ ~Refused(r)
  /\ InterruptIn(r) /\ r.ep \in hostReady
  /\ cur' = [NoTransfer EXCEPT !.urb = UrbOf(r), !.cap = Clip(r), !.status = "EBUSY"]
  /\ nextSeq' = nextSeq + 1
  /\ pc' = "reply"
  /\ UNCHANGED <<conn, attached, parked, fifo, eps, late, setup, scan, fw, wire>>

SubmitPark(r) ==
  /\ Submits(r)
  /\ ~Refused(r)
  /\ CanPark(r)
  /\ intrIn' = [intrIn EXCEPT ![r.ep] = UrbOf(r)]
  /\ hostReady' = hostReady \cup {r.ep}
  /\ nextSeq' = nextSeq + 1
  /\ pc' = "loop"
  /\ UNCHANGED <<conn, attached, fifo, eps, transfer, scan, fw, wire>>

\* A halted OUT endpoint is noticed here and never again for this request.
StatusAtStart(r) ==
  IF r.dir = "out" /\ r.ep # 0 /\ <<r.ep, "out">> \in halted THEN "EPIPE" ELSE "OK"

SubmitTransfer(r) ==
  /\ Submits(r)
  /\ ~Refused(r)
  /\ ~(InterruptIn(r) /\ r.ep \in hostReady)
  /\ ~CanPark(r)
  /\ cur' = [NoTransfer EXCEPT !.urb = UrbOf(r), !.cap = Clip(r), !.status = StatusAtStart(r)]
  /\ late' = FALSE
  /\ packet' = FifoAtSetup(r.ep)
  /\ setup' = IF r.ep = 0 THEN nextSeq ELSE setup
  /\ fw' = FwCall(r.ep)
  /\ nextSeq' = nextSeq + 1
  /\ pc' = r.dir
  /\ UNCHANGED <<conn, attached, parked, written, eps, scan, wire>>
-----------------------------------------------------------------------------
(* The data of an OUT transfer is read one packet at a time.               *)

\* Mutant: the halt is sampled for each packet.
DeliversUnlessHalted == <<cur.urb.ep, "out">> \notin halted

\* Data is given to the firmware unless the endpoint was halted at the start.
Delivers == cur.status = "OK"

OutChunk ==
  /\ pc = "out"
  /\ cur.len < cur.cap
  /\ LET count == Smaller(cur.cap - cur.len, PacketSize(cur.urb.ep))
     IN  cur' = [cur EXCEPT !.len = @ + count, !.sent = IF Delivers THEN @ + count ELSE @]
  /\ fw' = FwCall(cur.urb.ep)
  /\ UNCHANGED <<pc, link, parked, fifo, eps, late, setup, scan, wire>>

\* All read; a control transfer also takes the status packet, if it is there.
OutDone ==
  /\ pc = "out"
  /\ cur.len >= cur.cap
  /\ packet' = FifoAtSetup(cur.urb.ep)
  /\ fw' = IF cur.urb.ep = 0 /\ 0 \in Pending THEN "control" ELSE "none"
  /\ pc' = "reply"
  /\ UNCHANGED <<link, parked, written, eps, transfer, scan, wire>>
-----------------------------------------------------------------------------
(* The data of an IN transfer is collected from the firmware, which runs    *)
(* before every look at its FIFO; nothing else is served meanwhile.         *)

Collecting == pc = "in" /\ cur.len < cur.cap

\* Mutant: only a transfer that has data can time out.
TimedOutWithData == late /\ cur.data # <<>>

TimedOut == late

InHalt == <<cur.urb.ep, "in">> \in halted

\* Leaving the loop ends endpoint 0's status stage with ck_usb_out(0).
InEnds(status) ==
  /\ cur' = [cur EXCEPT !.status = status]
  /\ fw' = IF cur.urb.ep = 0 THEN "control" ELSE "none"
  /\ pc' = "reply"
  /\ UNCHANGED <<link, parked, fifo, eps, late, setup, scan, wire>>

InHalted == Collecting /\ InHalt /\ InEnds("EPIPE")

InTimeout ==
  /\ Collecting
  /\ ~InHalt
  /\ cur.urb.ep \notin Pending
  /\ TimedOut
  /\ InEnds("ETIMEDOUT")

InFull == pc = "in" /\ cur.len >= cur.cap /\ InEnds(cur.status)

\* usleep and another turn.
InWait ==
  /\ Collecting
  /\ ~InHalt
  /\ cur.urb.ep \notin Pending
  /\ ~TimedOut
  /\ fw' = FwCall(cur.urb.ep)
  /\ UNCHANGED <<pc, link, parked, fifo, eps, transfer, scan, wire>>

InOverrun ==
  /\ Collecting
  /\ ~InHalt
  /\ cur.urb.ep \in Pending
  /\ Overrun(packet[cur.urb.ep])
  /\ pc' = "close"
  /\ fw' = "none"
  /\ UNCHANGED <<link, parked, fifo, eps, transfer, scan, wire>>

InPacket ==
  /\ Collecting
  /\ ~InHalt
  /\ cur.urb.ep \in Pending
  /\ LET p == packet[cur.urb.ep] IN
       /\ ~Overrun(p)
       /\ cur' = [cur EXCEPT !.len = @ + p.len, !.data = Append(@, p)]
       /\ pc' = IF EndsTransfer(p) THEN "reply" ELSE "in"
  /\ packet' = FifoAfter(cur.urb.ep)
  /\ fw' = FwCall(cur.urb.ep)
  /\ UNCHANGED <<link, parked, written, eps, late, setup, scan, wire>>

\* The clock is the environment's.
TimePasses ==
  /\ pc = "in"
  /\ ~late
  /\ late' = TRUE
  /\ UNCHANGED <<pc, link, parked, fifo, eps, cur, setup, scan, fw, wire>>

\* actual_length of the reply.
ActualLength == IF cur.urb.dir = "out" /\ cur.status # "OK" THEN 0 ELSE cur.len

SendReply ==
  /\ pc = "reply"
  /\ wire' = Append(wire, SubmitReply(cur.urb, ActualLength, cur.status, cur.data, cur.sent))
  /\ cur' = NoTransfer
  /\ late' = FALSE
  /\ pc' = "loop"
  /\ fw' = "none"
  /\ UNCHANGED <<link, parked, fifo, eps, setup, scan>>
-----------------------------------------------------------------------------
(* usbip_unlink.  The host cancels a request once, answered or not.        *)

\* Mutant: closed endpoints are not looked at.
MatchedOpen(s) == {ep \in open : intrIn[ep].seq = s}

Matched(s) == {ep \in Eps : intrIn[ep].seq = s}

\* Mutant: the request stays parked.
StillReadyAll(s) == hostReady

StillReady(s) == hostReady \ Matched(s)

UnlinkKind(s) == IF Matched(s) # {} THEN "unlinked" ELSE "completed"

Unlink(s) ==
  /\ pc = "poll"
  /\ attached
  /\ s \in 1..(nextSeq - 1)
  /\ \A i \in 1..Len(wire) : wire[i].kind # "submit" => wire[i].urb.seq # s
  /\ wire' = Append(wire, UnlinkReply(s, UnlinkKind(s)))
  /\ hostReady' = StillReady(s)
  /\ pc' = "loop"
  /\ UNCHANGED <<link, intrIn, fifo, eps, transfer, scan, fw>>
-----------------------------------------------------------------------------
(* The firmware, through the ck_usb_dcd functions.  It writes only to an open endpoint  *)
(* whose previous packet was taken, as the assertion of ck_usb_dcd_write    *)
(* requires.                                                                *)

FwActs == attached /\ fw # "none"

FwWrite(ep, len) ==
  /\ FwActs
  /\ ep \in open
  /\ ep \notin Pending
  /\ written[ep] < MaxPackets
  /\ written' = [written EXCEPT ![ep] = @ + 1]
  /\ packet' = [packet EXCEPT ![ep] =
       [conn |-> conn, n |-> written[ep] + 1, len |-> len, setup |-> setup]]
  /\ UNCHANGED <<pc, link, parked, eps, transfer, scan, fw, wire>>

FwHalt(ep, dir) ==
  /\ FwActs
  /\ <<ep, dir>> \in Stalls
  /\ \/ halted' = halted \cup {<<ep, dir>>}
     \/ halted' = halted \ {<<ep, dir>>}
  /\ UNCHANGED <<pc, link, parked, fifo, open, transfer, scan, fw, wire>>

FwOpen(ep, dir) ==
  /\ FwActs
  /\ fw = "control"
  /\ ep \in Closable
  /\ open' = open \cup {ep}
  /\ halted' = halted \ {<<ep, dir>>}
  /\ UNCHANGED <<pc, link, parked, fifo, transfer, scan, fw, wire>>

\* Closing the IN side drops its packet and its parked request.
FwClose(ep, dir) ==
  /\ FwActs
  /\ fw = "control"
  /\ ep \in Closable
  /\ open' = open \ {ep}
  /\ IF dir = "in"
       THEN /\ packet' = FifoAfter(ep)
            /\ hostReady' = hostReady \ {ep}
            /\ written' = IF ep \in Pending THEN [written EXCEPT ![ep] = @ - 1] ELSE written
       ELSE UNCHANGED <<packet, hostReady, written>>
  /\ UNCHANGED <<pc, link, intrIn, halted, transfer, scan, fw, wire>>
-----------------------------------------------------------------------------
Server ==
  \/ DeviceLoop
  \/ \E ep \in Eps : CompleteInterrupt(ep)
  \/ CompleteInterruptFails \/ CompleteInterruptDone
  \/ PollIdle \/ Disconnect
  \/ OutChunk \/ OutDone
  \/ InHalted \/ InTimeout \/ InFull \/ InWait \/ InOverrun \/ InPacket
  \/ SendReply

Client ==
  \/ Accept \/ Import \/ ConnectionLost
  \/ \E r \in Requests : SubmitRefused(r) \/ SubmitBusy(r) \/ SubmitPark(r) \/ SubmitTransfer(r)
  \/ \E s \in 1..MaxSeq : Unlink(s)

Firmware ==
  \/ \E ep \in Eps, len \in Lens : FwWrite(ep, len)
  \/ \E ep \in Eps, dir \in Dirs : FwHalt(ep, dir) \/ FwOpen(ep, dir) \/ FwClose(ep, dir)

Next == Server \/ Client \/ Firmware \/ TimePasses

Spec == Init /\ [][Next]_vars

\* The process keeps running, and so does the clock; the client, which sends
\* what it announced, and the firmware owe nothing.
Fairness == WF_vars(Server) /\ WF_vars(TimePasses)

FairSpec == Spec /\ Fairness
-----------------------------------------------------------------------------
(* Correctness.                                                            *)

Connected == pc \in Serving

\* The four places that could hold something of an earlier connection.
OwnParked == \A ep \in hostReady : intrIn[ep].conn = conn

OwnPackets == \A ep \in Pending : packet[ep].conn = conn

OwnTransfer ==
  pc \in Transferring =>
    /\ cur.urb.conn = conn
    /\ \A i \in 1..Len(cur.data) : cur.data[i].conn = conn

OwnReplies ==
  \A i \in 1..Len(wire) :
    /\ wire[i].urb.conn = conn
    /\ \A j \in 1..Len(wire[i].data) : wire[i].data[j].conn = conn

\* "Requests and buffered replies belong to the socket that imported them":
\* whatever happened on earlier connections, no parked request, no packet in a
\* FIFO, no transfer and nothing written to the client stems from one of them.
SessionOwnership == OwnParked /\ OwnPackets /\ OwnTransfer /\ OwnReplies

\* The requests of this connection that are owed an answer.
Outstanding ==
  IF Connected
    THEN {intrIn[ep].seq : ep \in hostReady} \cup
         (IF pc \in Transferring THEN {cur.urb.seq} ELSE {})
    ELSE {}

\* What the host saw, by number.
Log == [i \in 1..Len(wire) |-> [kind |-> wire[i].kind, seq |-> wire[i].urb.seq]]

\* The adapter is a UrbService: each request is answered at most once, only
\* while it waits, never after RET_UNLINK confirmed its cancellation, and
\* RET_UNLINK never calls a waiting request completed.
URB == INSTANCE UrbService WITH
  Seqnums <- 1..MaxSeq,
  up <- Connected,
  used <- 1..(nextSeq - 1),
  outstanding <- Outstanding,
  replies <- Log

UrbServiceSpec == URB!Spec

\* What that comes to on the wire, whichever of the two paths of usbip.c writes the
\* answer: RET_SUBMIT never follows another reply about the same request.
AnswerComesFirst == URB!AnswerFirst

\* What became of the packets the firmware wrote to an endpoint, in stages: in the
\* replies one after another, in the transfer under way, in the FIFO.
Carries(w, ep) == w.kind = "submit" /\ w.urb.ep = ep /\ w.urb.dir = "in"

Sent(ep) == [i \in 1..Len(wire) |-> IF Carries(wire[i], ep) THEN wire[i].data ELSE <<>>]

Collected(ep) == IF pc \in Transferring /\ cur.urb.ep = ep THEN cur.data ELSE <<>>

Waiting(ep) == IF ep \in Pending THEN <<packet[ep]>> ELSE <<>>

Numbers(data) == {data[j].n : j \in DOMAIN data}

Rising(data) == \A i, j \in DOMAIN data : i < j => data[i].n < data[j].n

Before(a, b) == \A x \in a, y \in b : x < y

\* The packets of all stages, one stage after another, are numbered 1 to last.
CountsTo(stages, last) ==
  /\ \A i \in DOMAIN stages : Rising(stages[i])
  /\ \A i, k \in DOMAIN stages : i < k => Before(Numbers(stages[i]), Numbers(stages[k]))
  /\ UNION {Numbers(stages[i]) : i \in DOMAIN stages} = 1..last

\* While the client is connected, the packets the firmware wrote to a data
\* endpoint are, in order and each once: those sent to the client, those of the
\* transfer under way, the one in the FIFO.  Parking, unlinking, timing out,
\* halting and answering from either path lose and repeat none.
InOrderDelivery ==
  Connected =>
    \A ep \in Eps \ {0} : CountsTo(Sent(ep) \o <<Collected(ep), Waiting(ep)>>, written[ep])

\* The units in a sequence of packets.
LengthOf(data) ==
  LET upTo[j \in 0..Len(data)] == IF j = 0 THEN 0 ELSE upTo[j - 1] + data[j].len
  IN  upTo[Len(data)]

\* No reply carries more than the host asked for, whichever path it took:
\* the packets of an IN reply add up to its length, which fits the request.
RepliesFit ==
  \A i \in 1..Len(wire) :
    /\ wire[i].len <= wire[i].urb.cap
    /\ wire[i].kind = "submit" /\ wire[i].urb.dir = "in" => wire[i].len = LengthOf(wire[i].data)

\* The submit replies of this connection.
Answers(dir) == {w \in ToSet(wire) : w.kind = "submit" /\ w.urb.dir = dir}

\* Packet boundaries survive: in a successful bulk or control IN reply every
\* packet but the last is full, and a reply shorter than what was asked for
\* ends with a short packet, so the host can tell where the message ends.
ShortPacketFraming ==
  \A w \in Answers("in") : w.urb.ep \in BulkEps \cup {0} /\ w.status = "OK" =>
    /\ \A j \in 1..(Len(w.data) - 1) : w.data[j].len = Mps
    /\ w.len < Smaller(w.urb.cap, TxMax) =>
         w.data # <<>> /\ w.data[Len(w.data)].len < Mps

\* A data OUT request reaches the firmware whole when the host is told it
\* succeeded, and not at all when it is told the endpoint is halted, even if the
\* firmware halts or releases the endpoint between two packets.
OutAllOrNothing ==
  \A w \in Answers("out") : w.urb.ep # 0 =>
    w.sent = IF w.status = "OK" THEN w.urb.cap ELSE 0

\* The answer to a control request was written for that request, even when
\* the firmware left the answer to an earlier one, or its status, in the FIFO.
ControlReplyFresh ==
  \A w \in Answers("in") : w.urb.ep = 0 =>
    \A j \in 1..Len(w.data) : w.data[j].setup = w.urb.seq

\* An IN transfer ends, by data, halt, overrun or the ten-second limit, however
\* the firmware behaves: it cannot hold up the server for ever.
TransferEnds == pc = "in" ~> pc # "in"

\* A parked interrupt request for which a packet is there is answered, unless it
\* is cancelled or dropped first.
ParkedAnswered == \A ep \in IntrEps :
  (ep \in hostReady /\ ep \in Pending) ~> ~(ep \in hostReady /\ ep \in Pending)
=============================================================================
