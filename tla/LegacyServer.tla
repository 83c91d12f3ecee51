---------------------------- MODULE LegacyServer ----------------------------
(***************************************************************************)
(* The USB/IP server of Src/usbip.c built for the C firmware (every        *)
(* release before 4.0.0).  Unlike the Rust build it runs the firmware only *)
(* inside a handler, buffers whatever the firmware transmits (tx) and      *)
(* answers a parked interrupt request from the handler of the next         *)
(* interrupt request of that endpoint, in either direction.  Nothing is    *)
(* reset when a connection ends.                                           *)
(*                                                                         *)
(* fw is true when the last step called the firmware (external), whose     *)
(* only effect here is USBD_LL_Transmit.  A packet is its serial number.   *)
(* An interrupt request asks for one report, as the descriptors say.  The  *)
(* host (external) keeps at most one IN request waiting on an interrupt    *)
(* endpoint, as its HID driver does.                                       *)
(***************************************************************************)
EXTENDS Integers, Sequences

CONSTANTS
  IntrEps,     \* interrupt endpoints (CTAPHID)
  BulkEps,     \* bulk endpoints (CCID)
  Requests,    \* the [ep, dir] the host may submit
  Burst,       \* packets the firmware leaves in one buffer
  MaxSeq,      \* bound: requests
  MaxConn,     \* bound: connections
  MaxPackets   \* bound: packets the firmware writes per endpoint

Eps == {0} \cup IntrEps \cup BulkEps
Dirs == {"in", "out"}

ASSUME LegacyAssumption ==
  /\ IntrEps \subseteq Nat \ {0}
  /\ BulkEps \subseteq Nat \ {0}
  /\ IntrEps \cap BulkEps = {}
  /\ Requests \subseteq [ep : Eps, dir : Dirs]
  /\ Burst \in Nat \ {0}
  /\ MaxSeq \in Nat /\ MaxConn \in Nat /\ MaxPackets \in Nat

VARIABLES
  pc,         \* where the server stands
  conn,       \* the connection being served
  eof,        \* the client stopped sending
  tx,         \* tx_buffer up to tx_size
  txPos,      \* tx_pos
  zlp,        \* the endpoints with tx_zlp_pending
  submit,     \* endpoints[ep].submit
  intrIn,     \* endpoints[ep].intr_in
  hostReady,  \* the endpoints with host_ready
  ep,         \* the endpoint of the request being handled
  fw,         \* the firmware was called by the last step
  nextSeq,    \* the number the host gives its next request
  first,      \* history: the first number used on this connection
  wire,       \* what was written to the client on this connection
  written,    \* history: packets transmitted by the firmware, per endpoint
  delivered   \* history: packets written to clients, per endpoint

link == <<conn, eof, nextSeq, first>>
buffers == <<tx, txPos, zlp, written, delivered>>
requests == <<submit, intrIn, hostReady>>
vars == <<pc, ep, fw, link, buffers, requests, wire>>

NoUrb == [seq |-> 0, ep |-> 0, dir |-> "out"]
Urb == [seq : Nat, ep : Eps, dir : Dirs]
Reply == [kind : {"submit", "unlinked", "completed"}, urb : Urb]

Serving == {"poll", "payload", "ack", "answer", "zlp", "intr"}

TypeOK ==
  /\ pc \in Serving \cup {"accept", "close"}
  /\ conn \in 0..MaxConn
  /\ eof \in BOOLEAN
  /\ tx \in [Eps -> Seq(Nat)]
  /\ txPos \in [Eps -> Nat]
  /\ \A e \in Eps : txPos[e] = 0 \/ txPos[e] < Len(tx[e])
  /\ zlp \subseteq BulkEps
  /\ submit \in [Eps -> Urb]
  /\ intrIn \in [Eps -> Urb]
  /\ hostReady \subseteq IntrEps
  /\ ep \in Eps
  /\ fw \in BOOLEAN
  /\ nextSeq \in 1..(MaxSeq + 1)
  /\ first \in 1..(MaxSeq + 1)
  /\ wire \in Seq(Reply)
  /\ written \in [Eps -> 0..MaxPackets]
  /\ delivered \in [Eps -> Seq(Nat)]

Init ==
  /\ pc = "accept"
  /\ conn = 0
  /\ eof = FALSE
  /\ tx = [e \in Eps |-> <<>>]
  /\ txPos = [e \in Eps |-> 0]
  /\ zlp = {}
  /\ submit = [e \in Eps |-> NoUrb]
  /\ intrIn = [e \in Eps |-> NoUrb]
  /\ hostReady = {}
  /\ ep = 0
  /\ fw = FALSE
  /\ nextSeq = 1
  /\ first = 1
  /\ wire = <<>>
  /\ written = [e \in Eps |-> 0]
  /\ delivered = [e \in Eps |-> <<>>]
-----------------------------------------------------------------------------
Ready(e) == e \in hostReady /\ tx[e] # <<>>

\* Mutant: the buffer is cleared after the first report.
DrainedAlways(e) == TRUE

\* Mutant: the position may run past the last report.
DrainedLate(e) == txPos[e] = Len(tx[e])

\* The reply about to be written empties the buffer.
Drained(e) == txPos[e] + 1 = Len(tx[e])

UrbOf(r) == [seq |-> nextSeq, ep |-> r.ep, dir |-> r.dir]

\* Writing the answer to a request, with what it carries.
SendAnswer(urb, data) ==
  /\ wire' = Append(wire, [kind |-> "submit", urb |-> urb])
  /\ delivered' = [delivered EXCEPT ![urb.ep] = @ \o data]

\* The requests of this connection that were answered or cancelled.
Settled == {wire[i].urb.seq : i \in 1..Len(wire)}

Accept ==
  /\ pc = "accept"
  /\ conn < MaxConn
  /\ pc' = "poll"
  /\ conn' = conn + 1
  /\ eof' = FALSE
  /\ first' = nextSeq
  /\ wire' = <<>>
  /\ UNCHANGED <<ep, fw, nextSeq, buffers, requests>>

\* accept(2) blocks until there is a client, which may be never.
NoClient ==
  /\ pc = "accept"
  /\ UNCHANGED vars

\* A read at the start of a command fails: usbip_loop returns.
ReadFails ==
  /\ pc = "poll"
  /\ pc' = "close"
  /\ fw' = FALSE
  /\ UNCHANGED <<ep, link, buffers, requests, wire>>

WriteFails ==
  /\ pc \in {"ack", "answer", "intr"}
  /\ pc' = "close"
  /\ fw' = FALSE
  /\ UNCHANGED <<ep, link, buffers, requests, wire>>

Close ==
  /\ pc = "close"
  /\ pc' = "accept"
  /\ UNCHANGED <<ep, fw, link, buffers, requests, wire>>
-----------------------------------------------------------------------------
(* usbip_submit.                                                           *)

Submits(r) ==
  /\ pc = "poll"
  /\ ~eof
  /\ nextSeq <= MaxSeq
  /\ r \in Requests
  /\ nextSeq' = nextSeq + 1
  /\ ep' = r.ep

\* All but interrupt IN requests: the setup or loop of the firmware, and then
\* the payload of an OUT request, the answer to an IN request.
SubmitPlain(r) ==
  /\ Submits(r)
  /\ ~(r.ep \in IntrEps /\ r.dir = "in")
  /\ submit' = [submit EXCEPT ![r.ep] = UrbOf(r)]
  /\ fw' = (r.ep = 0 \/ r.dir = "in")
  /\ pc' = IF r.dir = "out" THEN "payload" ELSE "answer"
  /\ UNCHANGED <<conn, eof, first, buffers, intrIn, hostReady, wire>>

\* The host's HID driver waits for the answer before it asks again.
SubmitInterruptIn(r) ==
  /\ Submits(r)
  /\ r.ep \in IntrEps /\ r.dir = "in"
  /\ \/ intrIn[r.ep].seq < first
     \/ intrIn[r.ep].seq \in Settled
  /\ intrIn' = [intrIn EXCEPT ![r.ep] = UrbOf(r)]
  /\ IF Ready(r.ep)
       THEN pc' = "intr" /\ fw' = FALSE /\ UNCHANGED hostReady
       ELSE pc' = "poll" /\ fw' = TRUE /\ hostReady' = hostReady \cup {r.ep}
  /\ UNCHANGED <<conn, eof, first, buffers, submit, wire>>

\* usbip_payload_rx gives the firmware what it reads, and device_loop follows; a
\* read that fails is not reported to the handler.
Payload ==
  /\ pc = "payload"
  /\ fw' = TRUE
  /\ eof' \in {FALSE, TRUE}
  /\ pc' = IF ep = 0 THEN "answer" ELSE "ack"
  /\ UNCHANGED <<ep, conn, nextSeq, first, buffers, requests, wire>>

\* usbip_tx_submit_zero; an interrupt endpoint goes on to the parked request.
Ack ==
  /\ pc = "ack"
  /\ SendAnswer(submit[ep], <<>>)
  /\ pc' = IF ep \in IntrEps /\ Ready(ep) THEN "intr" ELSE "poll"
  /\ fw' = FALSE
  /\ UNCHANGED <<ep, link, tx, txPos, zlp, written, requests>>

\* usbip_tx_submit of a control or bulk endpoint sends all that is buffered;
\* the firmware is told, and may buffer the next packet.
Answer ==
  /\ pc = "answer"
  /\ SendAnswer(submit[ep], tx[ep])
  /\ tx' = [tx EXCEPT ![ep] = <<>>]
  /\ txPos' = [txPos EXCEPT ![ep] = 0]
  /\ zlp' = zlp \ {ep}
  /\ hostReady' = hostReady \ {ep}
  /\ fw' = TRUE
  /\ pc' = IF ep \in BulkEps THEN "zlp" ELSE "poll"
  /\ UNCHANGED <<ep, link, written, submit, intrIn>>

\* The rest of usbip_complete_bulk_in: a terminating empty packet is completed
\* at once.
CompleteBulkIn ==
  /\ pc = "zlp"
  /\ zlp' = zlp \ {ep}
  /\ fw' = (ep \in zlp)
  /\ pc' = "poll"
  /\ UNCHANGED <<ep, link, tx, txPos, written, delivered, requests, wire>>

\* usbip_tx_submit of an interrupt endpoint: the next report answers the request
\* parked last; only an empty buffer ends the request.
IntrAnswer ==
  /\ pc = "intr"
  /\ SendAnswer(intrIn[ep], <<tx[ep][txPos[ep] + 1]>>)
  /\ IF Drained(ep)
       THEN /\ tx' = [tx EXCEPT ![ep] = <<>>]
            /\ txPos' = [txPos EXCEPT ![ep] = 0]
            /\ hostReady' = hostReady \ {ep}
       ELSE /\ txPos' = [txPos EXCEPT ![ep] = @ + 1]
            /\ UNCHANGED <<tx, hostReady>>
  /\ pc' = "poll"
  /\ fw' = FALSE
  /\ UNCHANGED <<ep, link, zlp, written, submit, intrIn>>

\* usbip_unlink.
Matched(s) == {e \in Eps : intrIn[e].seq = s}

\* Mutant: the request stays parked.
StillReadyAll(s) == hostReady

StillReady(s) == hostReady \ Matched(s)

Unlink(s) ==
  /\ pc = "poll"
  /\ ~eof
  /\ s \in first..(nextSeq - 1)
  /\ \A i \in 1..Len(wire) : wire[i].kind # "submit" => wire[i].urb.seq # s
  /\ wire' = Append(wire, [kind |-> IF Matched(s) # {} THEN "unlinked" ELSE "completed",
                           urb |-> [NoUrb EXCEPT !.seq = s]])
  /\ hostReady' = StillReady(s)
  /\ fw' = FALSE
  /\ UNCHANGED <<pc, ep, link, buffers, submit, intrIn>>

\* USBD_LL_Transmit, by the firmware.
Transmit(e) ==
  /\ fw
  /\ Len(tx[e]) - txPos[e] < Burst
  /\ written[e] < MaxPackets
  /\ written' = [written EXCEPT ![e] = @ + 1]
  /\ tx' = [tx EXCEPT ![e] = Append(@, written[e] + 1)]
  /\ UNCHANGED <<pc, ep, fw, link, txPos, zlp, delivered, requests, wire>>

TransmitEmpty(e) ==
  /\ fw
  /\ e \in BulkEps
  /\ zlp' = zlp \cup {e}
  /\ UNCHANGED <<pc, ep, fw, link, tx, txPos, written, delivered, requests, wire>>

Next ==
  \/ Accept \/ NoClient \/ ReadFails \/ WriteFails \/ Close
  \/ \E r \in Requests : SubmitPlain(r) \/ SubmitInterruptIn(r)
  \/ Payload \/ Ack \/ Answer \/ CompleteBulkIn \/ IntrAnswer
  \/ \E s \in 1..MaxSeq : Unlink(s)
  \/ \E e \in Eps : Transmit(e) \/ TransmitEmpty(e)

Spec == Init /\ [][Next]_vars
-----------------------------------------------------------------------------
Connected == pc \in Serving

Outstanding ==
  IF Connected
    THEN {intrIn[e].seq : e \in hostReady} \cup
         (IF pc \in {"payload", "ack", "answer"} THEN {submit[ep].seq} ELSE {})
    ELSE {}

\* What the host saw, by number.
Log == [i \in 1..Len(wire) |-> [kind |-> wire[i].kind, seq |-> wire[i].urb.seq]]

\* The server seen as a UrbService.
URB == INSTANCE UrbService WITH
  Seqnums <- 1..MaxSeq,
  up <- Connected,
  used <- first..(nextSeq - 1),
  outstanding <- Outstanding,
  replies <- Log

\* No interrupt buffer holds more than one report, sent or not.
OneReportEach == \A e \in IntrEps : Len(tx[e]) <= 1

\* No request of an earlier connection is parked.
NothingStale == \A e \in hostReady : intrIn[e].seq >= first

\* This server keeps the promise of UrbService too, at every step, as long as reports
\* do not pile up and no client leaves a request parked: also again once the
\* reports are sent, or once the endpoint's next request took the stale one's place.
UrbServiceSpec ==
  URB!Init /\ [][OneReportEach /\ NothingStale /\ NothingStale' => URB!Next]_(URB!urbVars)

\* A request that was answered is done with: it is not answered again.
AnsweredOnce ==
  \A i, j \in 1..Len(wire) :
    wire[i].kind = "submit" /\ wire[j].kind = "submit" /\ wire[i].urb.seq = wire[j].urb.seq
      => i = j

\* An answer is the first reply about its request: it follows no other answer and no
\* RET_UNLINK.  It holds while no reports pile up, and then AnsweredOnce does too.
AnswerComesFirst == URB!AnswerFirst

\* What is buffered and not sent yet.
Unsent(e) == SubSeq(tx[e], txPos[e] + 1, Len(tx[e]))

Packets(n) == [i \in 1..n |-> i]

\* The reports and messages of the firmware are written to the clients in order and
\* once, those that stay buffered when a request is answered or a connection ends
\* included.
InOrderDelivery ==
  \A e \in Eps : delivered[e] \o Unsent(e) = Packets(written[e])
=============================================================================
