----------------------------- MODULE LegacyProofs -----------------------------
(***************************************************************************)
(* Proofs about LegacyServer for every value of its constants, any number   *)
(* of connections included: types, delivery, and that it implements         *)
(* UrbService while neither reports nor the requests of earlier clients     *)
(* stay behind.                                                            *)
(*                                                                         *)
(* ServerInv is inductive and gives types and delivery.  TypeOK alone is    *)
(* not: that the next report exists needs Interrupting.  Nor is             *)
(* InOrderDelivery: that an answer sends everything buffered and not more   *)
(* needs WholeBuffer, as only an interrupt buffer is sent in parts.         *)
(* NumbersInv is about the numbers of the requests.  Its Piled says when a  *)
(* request is both settled and parked, which is why the refinement needs    *)
(* OneReportEach.                                                          *)
(***************************************************************************)
EXTENDS LegacyServer, SequenceTheorems, TLAPS

\* A report is only sent to a parked request and from a buffer that has one.
Interrupting == pc = "intr" => ep \in IntrEps /\ Ready(ep)

\* Requests are handled, and parked, at the endpoint they name.
AtOwnEndpoint ==
  /\ pc \in {"payload", "ack", "answer"} => submit[ep].ep = ep
  /\ \A e \in hostReady : intrIn[e].ep = e

\* What is answered as a whole is buffered as a whole.
WholeBuffer ==
  /\ pc = "answer" => ep \notin IntrEps
  /\ \A e \in Eps \ IntrEps : txPos[e] = 0

ServerInv == TypeOK /\ Interrupting /\ AtOwnEndpoint /\ WholeBuffer /\ InOrderDelivery

\* Every request has the number it was given.
Known ==
  /\ \A i \in 1..Len(wire) : wire[i].urb.seq < nextSeq
  /\ \A e \in hostReady : intrIn[e].seq \in 1..(nextSeq - 1)
  /\ first <= nextSeq

\* No two requests that wait have the same.
Apart ==
  /\ \A e, f \in hostReady : intrIn[e].seq = intrIn[f].seq => e = f
  /\ pc \in {"payload", "ack", "answer"} =>
       /\ submit[ep].seq \in first..(nextSeq - 1)
       /\ \A e \in hostReady : intrIn[e].seq # submit[ep].seq

\* A request that was answered stays parked only while reports are piled up.
Piled == \A e \in hostReady : intrIn[e].seq \in Settled => Len(tx[e]) >= 2

NumbersInv == ServerInv /\ Known /\ Apart /\ Piled

-----------------------------------------------------------------------------
(* Typing.                                                                 *)

LEMMA ConstantsTyped ==
  /\ 0 \in Eps /\ NoUrb \in Urb
  /\ IntrEps \subseteq Eps /\ BulkEps \subseteq Eps
  /\ \A r \in Requests : r.ep \in Eps /\ r.dir \in Dirs
BY LegacyAssumption DEF Eps, NoUrb, Urb, Dirs

LEMMA UrbTyped ==
  ASSUME nextSeq \in Nat, NEW r \in Requests
  PROVE  UrbOf(r) \in Urb /\ UrbOf(r).seq = nextSeq /\ UrbOf(r).ep = r.ep
BY ConstantsTyped DEF UrbOf, Urb

\* Writing an answer keeps the log and the history typed.
LEMMA SendTyped ==
  ASSUME TypeOK, NEW urb \in Urb, NEW data \in Seq(Nat), SendAnswer(urb, data)
  PROVE  /\ wire' \in Seq(Reply)
         /\ delivered' \in [Eps -> Seq(Nat)]
         /\ delivered'[urb.ep] = delivered[urb.ep] \o data
         /\ \A e \in Eps \ {urb.ep} : delivered'[e] = delivered[e]
<1> DEFINE w == [kind |-> "submit", urb |-> urb]
<1>1. w \in Reply
  BY DEF Reply
<1>2. wire \in Seq(Reply) /\ wire' = Append(wire, w)
  BY DEF SendAnswer, TypeOK
<1> HIDE DEF w
<1>3. wire' \in Seq(Reply)
  BY <1>1, <1>2
<1>4. delivered \in [Eps -> Seq(Nat)] /\ urb.ep \in Eps
  BY DEF TypeOK, Urb
<1>5. delivered' = [delivered EXCEPT ![urb.ep] = delivered[urb.ep] \o data]
  BY DEF SendAnswer
<1>6. delivered[urb.ep] \o data \in Seq(Nat)
  BY <1>4
<1> QED
  BY <1>3, <1>4, <1>5, <1>6

\* The report that IntrAnswer sends is there.
LEMMA NextReport ==
  ASSUME TypeOK, Interrupting, pc = "intr"
  PROVE  /\ ep \in IntrEps /\ ep \in hostReady
         /\ txPos[ep] \in 0..(Len(tx[ep]) - 1)
         /\ <<tx[ep][txPos[ep] + 1]>> \in Seq(Nat)
<1>1. ep \in IntrEps /\ ep \in hostReady /\ tx[ep] # <<>>
  BY DEF Interrupting, Ready
<1>2. tx[ep] \in Seq(Nat) /\ txPos[ep] \in Nat /\ (txPos[ep] = 0 \/ txPos[ep] < Len(tx[ep]))
  BY DEF TypeOK
<1>3. Len(tx[ep]) >= 1 /\ Len(tx[ep]) \in Nat
  BY <1>1, <1>2
<1>4. txPos[ep] \in 0..(Len(tx[ep]) - 1)
  BY <1>2, <1>3
<1>5. tx[ep][txPos[ep] + 1] \in Nat
  BY <1>2, <1>3, <1>4
<1> QED
  BY <1>1, <1>4, <1>5

LEMMA TypeStep == ServerInv /\ [Next]_vars => TypeOK'
<1> SUFFICES ASSUME ServerInv, [Next]_vars PROVE TypeOK'
  OBVIOUS
<1> USE DEF ServerInv
<1>1. ASSUME Accept PROVE TypeOK'
  <2>1. conn \in 0..MaxConn /\ conn < MaxConn /\ MaxConn \in Nat /\ conn' = conn + 1
    BY <1>1, LegacyAssumption DEF Accept, TypeOK
  <2>2. conn' \in 0..MaxConn
    BY <2>1
  <2>3. wire' = <<>> /\ first' = nextSeq /\ pc' = "poll" /\ eof' = FALSE
    BY <1>1 DEF Accept
  <2>4. wire' \in Seq(Reply)
    BY <2>3
  <2> QED
    BY <1>1, <2>2, <2>3, <2>4 DEF Accept, TypeOK, Serving, buffers, requests
<1>2. ASSUME NoClient PROVE TypeOK'
  BY <1>2 DEF NoClient, vars, TypeOK, Serving, link, buffers, requests
<1>3. ASSUME ReadFails PROVE TypeOK'
  BY <1>3 DEF ReadFails, TypeOK, Serving, link, buffers, requests
<1>4. ASSUME WriteFails PROVE TypeOK'
  BY <1>4 DEF WriteFails, TypeOK, Serving, link, buffers, requests
<1>5. ASSUME Close PROVE TypeOK'
  BY <1>5 DEF Close, TypeOK, Serving, link, buffers, requests
<1>6. ASSUME NEW r \in Requests, SubmitPlain(r) PROVE TypeOK'
  <2>1. UrbOf(r) \in Urb /\ r.ep \in Eps
    BY <1>6, UrbTyped, ConstantsTyped DEF TypeOK
  <2>2. submit' \in [Eps -> Urb] /\ nextSeq' \in 1..(MaxSeq + 1)
    BY <1>6, <2>1, LegacyAssumption DEF SubmitPlain, Submits, TypeOK
  <2>3. fw' \in BOOLEAN /\ ep' \in Eps /\ pc' \in Serving
    BY <1>6, <2>1 DEF SubmitPlain, Submits, Serving
  <2> QED
    BY <1>6, <2>2, <2>3 DEF SubmitPlain, TypeOK, buffers
<1>7. ASSUME NEW r \in Requests, SubmitInterruptIn(r) PROVE TypeOK'
  <2>1. UrbOf(r) \in Urb /\ r.ep \in Eps
    BY <1>7, UrbTyped, ConstantsTyped DEF TypeOK
  <2>2. intrIn' \in [Eps -> Urb] /\ nextSeq' \in 1..(MaxSeq + 1) /\ ep' \in Eps
    BY <1>7, <2>1, LegacyAssumption DEF SubmitInterruptIn, Submits, TypeOK
  <2>3. fw' \in BOOLEAN /\ hostReady' \subseteq IntrEps /\ pc' \in Serving
    BY <1>7 DEF SubmitInterruptIn, TypeOK, Serving
  <2> QED
    BY <1>7, <2>2, <2>3 DEF SubmitInterruptIn, TypeOK, buffers
<1>8. ASSUME Payload PROVE TypeOK'
  BY <1>8 DEF Payload, TypeOK, Serving, link, buffers, requests
<1>9. ASSUME Ack PROVE TypeOK'
  <2>1. submit[ep] \in Urb /\ <<>> \in Seq(Nat)
    BY DEF TypeOK
  <2>2. wire' \in Seq(Reply) /\ delivered' \in [Eps -> Seq(Nat)]
    BY <1>9, <2>1, SendTyped DEF Ack
  <2> QED
    BY <1>9, <2>2 DEF Ack, TypeOK, Serving, link, requests
<1>10. ASSUME Answer PROVE TypeOK'
  <2>1. submit[ep] \in Urb /\ tx[ep] \in Seq(Nat)
    BY DEF TypeOK
  <2>2. wire' \in Seq(Reply) /\ delivered' \in [Eps -> Seq(Nat)]
    BY <1>10, <2>1, SendTyped DEF Answer
  <2>3. /\ tx' = [tx EXCEPT ![ep] = <<>>] /\ txPos' = [txPos EXCEPT ![ep] = 0]
        /\ zlp' = zlp \ {ep} /\ hostReady' = hostReady \ {ep}
    BY <1>10 DEF Answer
  <2>4. \A e \in Eps : txPos'[e] = 0 \/ txPos'[e] < Len(tx'[e])
    BY <2>3 DEF TypeOK
  <2>5. txPos' \in [Eps -> Nat] /\ tx' \in [Eps -> Seq(Nat)] /\ zlp' \subseteq BulkEps /\ hostReady' \subseteq IntrEps
    BY <2>3 DEF TypeOK
  <2> QED
    BY <1>10, <2>2, <2>4, <2>5 DEF Answer, TypeOK, Serving, link
<1>11. ASSUME CompleteBulkIn PROVE TypeOK'
  BY <1>11 DEF CompleteBulkIn, TypeOK, Serving, link, buffers, requests
<1>12. ASSUME IntrAnswer PROVE TypeOK'
  <2>1. intrIn[ep] \in Urb
    BY DEF TypeOK
  <2>2. pc = "intr" /\ SendAnswer(intrIn[ep], <<tx[ep][txPos[ep] + 1]>>)
    BY <1>12 DEF IntrAnswer
  <2>3. wire' \in Seq(Reply) /\ delivered' \in [Eps -> Seq(Nat)]
    BY <2>1, <2>2, SendTyped, NextReport
  <2>4. ep \in Eps /\ tx \in [Eps -> Seq(Nat)] /\ txPos \in [Eps -> Nat] /\ hostReady \subseteq IntrEps
    BY DEF TypeOK
  <2>5. CASE Drained(ep)
    <3>1. /\ tx' = [tx EXCEPT ![ep] = <<>>] /\ txPos' = [txPos EXCEPT ![ep] = 0]
          /\ hostReady' = hostReady \ {ep}
      BY <1>12, <2>5 DEF IntrAnswer
    <3>2. \A e \in Eps : txPos'[e] = 0 \/ txPos'[e] < Len(tx'[e])
      BY <3>1 DEF TypeOK
    <3>3. txPos' \in [Eps -> Nat] /\ tx' \in [Eps -> Seq(Nat)] /\ hostReady' \subseteq IntrEps
      BY <2>4, <3>1
    <3> QED
      BY <1>12, <2>3, <3>2, <3>3 DEF IntrAnswer, TypeOK, Serving, link
  <2>6. CASE ~Drained(ep)
    <3>1. txPos' = [txPos EXCEPT ![ep] = txPos[ep] + 1] /\ tx' = tx /\ hostReady' = hostReady
      BY <1>12, <2>6 DEF IntrAnswer
    <3>2. txPos[ep] \in 0..(Len(tx[ep]) - 1) /\ txPos[ep] + 1 # Len(tx[ep]) /\ Len(tx[ep]) \in Nat
      BY <2>2, <2>4, <2>6, NextReport DEF Drained
    <3>3. txPos[ep] + 1 < Len(tx[ep]) /\ txPos[ep] + 1 \in Nat
      BY <3>2
    <3>4. /\ txPos' \in [Eps -> Nat]
          /\ \A e \in Eps : txPos'[e] = 0 \/ txPos'[e] < Len(tx'[e])
      BY <2>4, <3>1, <3>3 DEF TypeOK
    <3> QED
      BY <1>12, <2>3, <3>1, <3>4 DEF IntrAnswer, TypeOK, Serving, link
  <2> QED
    BY <2>5, <2>6
<1>13. ASSUME NEW s \in 1..MaxSeq, Unlink(s) PROVE TypeOK'
  <2> DEFINE kind == IF Matched(s) # {} THEN "unlinked" ELSE "completed"
             w == [kind |-> kind, urb |-> [NoUrb EXCEPT !.seq = s]]
  <2>1. [NoUrb EXCEPT !.seq = s] \in Urb
    BY ConstantsTyped DEF NoUrb, Urb
  <2>2. w \in Reply
    BY <2>1 DEF Reply
  <2>3. wire' = Append(wire, w) /\ wire \in Seq(Reply)
    BY <1>13 DEF Unlink, TypeOK
  <2> HIDE DEF w
  <2>4. wire' \in Seq(Reply)
    BY <2>2, <2>3
  <2>5. hostReady' \subseteq IntrEps
    BY <1>13 DEF Unlink, StillReady, TypeOK
  <2> QED
    BY <1>13, <2>4, <2>5 DEF Unlink, TypeOK, Serving, link, buffers
<1>14. ASSUME NEW e \in Eps, Transmit(e) PROVE TypeOK'
  <2>1. /\ written' = [written EXCEPT ![e] = written[e] + 1] /\ written[e] < MaxPackets
        /\ tx' = [tx EXCEPT ![e] = Append(tx[e], written[e] + 1)]
    BY <1>14 DEF Transmit
  <2>t. /\ tx \in [Eps -> Seq(Nat)] /\ written \in [Eps -> 0..MaxPackets]
        /\ \A f \in Eps : txPos[f] = 0 \/ txPos[f] < Len(tx[f])
        /\ txPos \in [Eps -> Nat]
    BY DEF TypeOK
  <2>2. tx[e] \in Seq(Nat) /\ written[e] \in 0..MaxPackets /\ MaxPackets \in Nat
    BY <2>t, LegacyAssumption
  <2>3. written' \in [Eps -> 0..MaxPackets]
    BY <2>t, <2>1, <2>2
  <2>4. Append(tx[e], written[e] + 1) \in Seq(Nat) /\ Len(Append(tx[e], written[e] + 1)) = Len(tx[e]) + 1
    BY <2>2
  <2>5. tx' \in [Eps -> Seq(Nat)]
    <3> DEFINE x == Append(tx[e], written[e] + 1)
    <3>1. x \in Seq(Nat) /\ tx' = [tx EXCEPT ![e] = x]
      BY <2>1, <2>4
    <3> HIDE DEF x
    <3> QED
      BY <2>t, <3>1
  <2>6. \A f \in Eps : txPos[f] = 0 \/ txPos[f] < Len(tx'[f])
    <3> DEFINE x == Append(tx[e], written[e] + 1)
    <3>1. Len(x) = Len(tx[e]) + 1 /\ tx' = [tx EXCEPT ![e] = x] /\ Len(tx[e]) \in Nat
      BY <2>1, <2>2, <2>4
    <3> HIDE DEF x
    <3>2. tx'[e] = x /\ \A f \in Eps \ {e} : tx'[f] = tx[f]
      BY <2>t, <3>1
    <3>3. txPos[e] = 0 \/ txPos[e] < Len(x)
      BY <2>t, <3>1
    <3> QED
      BY <2>t, <3>2, <3>3
  <2> QED
    BY <1>14, <2>3, <2>5, <2>6 DEF Transmit, TypeOK, link, requests
<1>15. ASSUME NEW e \in Eps, TransmitEmpty(e) PROVE TypeOK'
  BY <1>15 DEF TransmitEmpty, TypeOK, Serving, link, buffers, requests
<1>16. ASSUME UNCHANGED vars PROVE TypeOK'
  BY <1>16 DEF vars, TypeOK, Serving, link, buffers, requests
<1> QED
  BY <1>1, <1>2, <1>3, <1>4, <1>5, <1>6, <1>7, <1>8, <1>9, <1>10, <1>11, <1>12, <1>13, <1>14,
     <1>15, <1>16
  DEF Next

LEMMA InterruptingStep == ServerInv /\ [Next]_vars => Interrupting'
<1> SUFFICES ASSUME ServerInv, [Next]_vars PROVE Interrupting'
  OBVIOUS
<1> USE DEF ServerInv
<1>1. ASSUME Accept PROVE Interrupting'
  BY <1>1 DEF Accept, Interrupting, Ready, link, buffers, requests
<1>2. ASSUME NoClient PROVE Interrupting'
  BY <1>2 DEF NoClient, vars, Interrupting, Ready, link, buffers, requests
<1>3. ASSUME ReadFails PROVE Interrupting'
  BY <1>3 DEF ReadFails, Interrupting, Ready, link, buffers, requests
<1>4. ASSUME WriteFails PROVE Interrupting'
  BY <1>4 DEF WriteFails, Interrupting, Ready, link, buffers, requests
<1>5. ASSUME Close PROVE Interrupting'
  BY <1>5 DEF Close, Interrupting, Ready, link, buffers, requests
<1>6. ASSUME NEW r \in Requests, SubmitPlain(r) PROVE Interrupting'
  BY <1>6 DEF SubmitPlain, Submits, Interrupting, Ready, link, buffers, requests
<1>7. ASSUME NEW r \in Requests, SubmitInterruptIn(r) PROVE Interrupting'
  BY <1>7 DEF SubmitInterruptIn, Submits, Interrupting, Ready, link, buffers, requests
<1>8. ASSUME Payload PROVE Interrupting'
  BY <1>8 DEF Payload, Interrupting, Ready, link, buffers, requests
<1>9. ASSUME Ack PROVE Interrupting'
  BY <1>9 DEF Ack, SendAnswer, Interrupting, Ready, link, buffers, requests
<1>10. ASSUME Answer PROVE Interrupting'
  BY <1>10 DEF Answer, SendAnswer, Interrupting, Ready, link, buffers, requests
<1>11. ASSUME CompleteBulkIn PROVE Interrupting'
  BY <1>11 DEF CompleteBulkIn, Interrupting, Ready, link, buffers, requests
<1>12. ASSUME IntrAnswer PROVE Interrupting'
  BY <1>12 DEF IntrAnswer, SendAnswer, Interrupting, Ready, link, buffers, requests
<1>13. ASSUME NEW s \in 1..MaxSeq, Unlink(s) PROVE Interrupting'
  BY <1>13 DEF Unlink, StillReady, Interrupting, Ready, link, buffers, requests
<1>14. ASSUME NEW e \in Eps, Transmit(e) PROVE Interrupting'
  <2>1. /\ tx' = [tx EXCEPT ![e] = Append(tx[e], written[e] + 1)]
        /\ pc' = pc /\ ep' = ep /\ hostReady' = hostReady
    BY <1>14 DEF Transmit, requests
  <2>t. tx \in [Eps -> Seq(Nat)] /\ ep \in Eps /\ written \in [Eps -> 0..MaxPackets]
    BY DEF TypeOK
  <2>2. tx[e] \in Seq(Nat) /\ written[e] + 1 \in Nat
    <3>1. written[e] \in 0..MaxPackets
      BY <2>t
    <3>2. written[e] \in Nat
      BY <3>1, LegacyAssumption
    <3> QED
      BY <2>t, <3>2
  <2> DEFINE x == Append(tx[e], written[e] + 1)
  <2>3. x # <<>> /\ tx' = [tx EXCEPT ![e] = x]
    BY <2>1, <2>2, AppendProperties
  <2> HIDE DEF x
  <2>4. tx'[e] = x /\ \A f \in Eps \ {e} : tx'[f] = tx[f]
    BY <2>t, <2>3
  <2> QED
    BY <2>1, <2>t, <2>3, <2>4 DEF Interrupting, Ready
<1>15. ASSUME NEW e \in Eps, TransmitEmpty(e) PROVE Interrupting'
  BY <1>15 DEF TransmitEmpty, Interrupting, Ready, link, buffers, requests
<1>16. ASSUME UNCHANGED vars PROVE Interrupting'
  BY <1>16 DEF vars, Interrupting, Ready, link, buffers, requests
<1> QED
  BY <1>1, <1>2, <1>3, <1>4, <1>5, <1>6, <1>7, <1>8, <1>9, <1>10, <1>11, <1>12, <1>13, <1>14,
     <1>15, <1>16
  DEF Next

LEMMA AtOwnEndpointStep == ServerInv /\ [Next]_vars => AtOwnEndpoint'
<1> SUFFICES ASSUME ServerInv, [Next]_vars PROVE AtOwnEndpoint'
  OBVIOUS
<1> USE DEF ServerInv
<1>1. ASSUME Accept PROVE AtOwnEndpoint'
  BY <1>1 DEF Accept, AtOwnEndpoint, link, buffers, requests
<1>2. ASSUME NoClient PROVE AtOwnEndpoint'
  BY <1>2 DEF NoClient, vars, AtOwnEndpoint, link, buffers, requests
<1>3. ASSUME ReadFails PROVE AtOwnEndpoint'
  BY <1>3 DEF ReadFails, AtOwnEndpoint, link, buffers, requests
<1>4. ASSUME WriteFails PROVE AtOwnEndpoint'
  BY <1>4 DEF WriteFails, AtOwnEndpoint, link, buffers, requests
<1>5. ASSUME Close PROVE AtOwnEndpoint'
  BY <1>5 DEF Close, AtOwnEndpoint, link, buffers, requests
<1>6. ASSUME NEW r \in Requests, SubmitPlain(r) PROVE AtOwnEndpoint'
  <2>1. UrbOf(r).ep = r.ep /\ r.ep \in Eps /\ submit \in [Eps -> Urb]
    BY UrbTyped, ConstantsTyped DEF TypeOK
  <2> QED
    BY <1>6, <2>1 DEF SubmitPlain, Submits, AtOwnEndpoint
<1>7. ASSUME NEW r \in Requests, SubmitInterruptIn(r) PROVE AtOwnEndpoint'
  <2>1. UrbOf(r).ep = r.ep /\ r.ep \in Eps /\ intrIn \in [Eps -> Urb] /\ hostReady \subseteq Eps
    BY UrbTyped, ConstantsTyped DEF TypeOK
  <2> QED
    BY <1>7, <2>1 DEF SubmitInterruptIn, Submits, AtOwnEndpoint
<1>8. ASSUME Payload PROVE AtOwnEndpoint'
  BY <1>8 DEF Payload, AtOwnEndpoint, link, buffers, requests
<1>9. ASSUME Ack PROVE AtOwnEndpoint'
  BY <1>9 DEF Ack, SendAnswer, AtOwnEndpoint, link, buffers, requests
<1>10. ASSUME Answer PROVE AtOwnEndpoint'
  BY <1>10 DEF Answer, SendAnswer, AtOwnEndpoint, link, buffers, requests
<1>11. ASSUME CompleteBulkIn PROVE AtOwnEndpoint'
  BY <1>11 DEF CompleteBulkIn, AtOwnEndpoint, link, buffers, requests
<1>12. ASSUME IntrAnswer PROVE AtOwnEndpoint'
  BY <1>12 DEF IntrAnswer, SendAnswer, AtOwnEndpoint, link, buffers, requests
<1>13. ASSUME NEW s \in 1..MaxSeq, Unlink(s) PROVE AtOwnEndpoint'
  BY <1>13 DEF Unlink, StillReady, AtOwnEndpoint, link, buffers, requests
<1>14. ASSUME NEW e \in Eps, Transmit(e) PROVE AtOwnEndpoint'
  BY <1>14 DEF Transmit, AtOwnEndpoint, link, buffers, requests
<1>15. ASSUME NEW e \in Eps, TransmitEmpty(e) PROVE AtOwnEndpoint'
  BY <1>15 DEF TransmitEmpty, AtOwnEndpoint, link, buffers, requests
<1>16. ASSUME UNCHANGED vars PROVE AtOwnEndpoint'
  BY <1>16 DEF vars, AtOwnEndpoint, link, buffers, requests
<1> QED
  BY <1>1, <1>2, <1>3, <1>4, <1>5, <1>6, <1>7, <1>8, <1>9, <1>10, <1>11, <1>12, <1>13, <1>14,
     <1>15, <1>16
  DEF Next

LEMMA WholeBufferStep == ServerInv /\ [Next]_vars => WholeBuffer'
<1> SUFFICES ASSUME ServerInv, [Next]_vars PROVE WholeBuffer'
  OBVIOUS
<1> USE DEF ServerInv
<1>z. 0 \notin IntrEps
  BY LegacyAssumption
<1>1. ASSUME Accept PROVE WholeBuffer'
  BY <1>1, <1>z DEF Accept, WholeBuffer, TypeOK, link, buffers, requests
<1>2. ASSUME NoClient PROVE WholeBuffer'
  BY <1>2, <1>z DEF NoClient, vars, WholeBuffer, TypeOK, link, buffers, requests
<1>3. ASSUME ReadFails PROVE WholeBuffer'
  BY <1>3, <1>z DEF ReadFails, WholeBuffer, TypeOK, link, buffers, requests
<1>4. ASSUME WriteFails PROVE WholeBuffer'
  BY <1>4, <1>z DEF WriteFails, WholeBuffer, TypeOK, link, buffers, requests
<1>5. ASSUME Close PROVE WholeBuffer'
  BY <1>5, <1>z DEF Close, WholeBuffer, TypeOK, link, buffers, requests
<1>6. ASSUME NEW r \in Requests, SubmitPlain(r) PROVE WholeBuffer'
  <2>1. r.dir \in {"in", "out"}
    BY ConstantsTyped DEF Dirs
  <2> QED
    BY <1>6, <2>1 DEF SubmitPlain, Submits, WholeBuffer, buffers
<1>7. ASSUME NEW r \in Requests, SubmitInterruptIn(r) PROVE WholeBuffer'
  BY <1>7, <1>z DEF SubmitInterruptIn, Submits, WholeBuffer, TypeOK, link, buffers, requests
<1>8. ASSUME Payload PROVE WholeBuffer'
  BY <1>8, <1>z DEF Payload, WholeBuffer, TypeOK, link, buffers, requests
<1>9. ASSUME Ack PROVE WholeBuffer'
  BY <1>9, <1>z DEF Ack, SendAnswer, WholeBuffer, TypeOK, link, buffers, requests
<1>10. ASSUME Answer PROVE WholeBuffer'
  BY <1>10, <1>z DEF Answer, SendAnswer, WholeBuffer, TypeOK, link, buffers, requests
<1>11. ASSUME CompleteBulkIn PROVE WholeBuffer'
  BY <1>11, <1>z DEF CompleteBulkIn, WholeBuffer, TypeOK, link, buffers, requests
<1>12. ASSUME IntrAnswer PROVE WholeBuffer'
  <2>1. ep \in IntrEps /\ pc' = "poll"
    BY <1>12, NextReport DEF IntrAnswer
  <2>2. \A e \in Eps \ {ep} : txPos'[e] = txPos[e]
    BY <1>12 DEF IntrAnswer, TypeOK
  <2> QED
    BY <2>1, <2>2 DEF WholeBuffer
<1>13. ASSUME NEW s \in 1..MaxSeq, Unlink(s) PROVE WholeBuffer'
  BY <1>13, <1>z DEF Unlink, StillReady, WholeBuffer, TypeOK, link, buffers, requests
<1>14. ASSUME NEW e \in Eps, Transmit(e) PROVE WholeBuffer'
  BY <1>14, <1>z DEF Transmit, WholeBuffer, TypeOK, link, buffers, requests
<1>15. ASSUME NEW e \in Eps, TransmitEmpty(e) PROVE WholeBuffer'
  BY <1>15, <1>z DEF TransmitEmpty, WholeBuffer, TypeOK, link, buffers, requests
<1>16. ASSUME UNCHANGED vars PROVE WholeBuffer'
  BY <1>16, <1>z DEF vars, WholeBuffer, TypeOK, link, buffers, requests
<1> QED
  BY <1>1, <1>2, <1>3, <1>4, <1>5, <1>6, <1>7, <1>8, <1>9, <1>10, <1>11, <1>12, <1>13, <1>14,
     <1>15, <1>16
  DEF Next

-----------------------------------------------------------------------------
(* Delivery.                                                               *)

LEMMA UnsentTyped ==
  ASSUME TypeOK, NEW e \in Eps
  PROVE  Unsent(e) \in Seq(Nat) /\ delivered[e] \in Seq(Nat) /\ tx[e] \in Seq(Nat)
<1>1. tx[e] \in Seq(Nat) /\ delivered[e] \in Seq(Nat) /\ txPos[e] \in Nat
  BY DEF TypeOK
<1>2. \A i \in (txPos[e] + 1)..Len(tx[e]) : tx[e][i] \in Nat
  BY <1>1
<1> QED
  BY <1>1, <1>2, SubSeqProperties DEF Unsent

\* Buffering one more.
LEMMA SuffixOfAppend ==
  ASSUME NEW q \in Seq(Nat), NEW p \in Nat, p <= Len(q), NEW n \in Nat
  PROVE  SubSeq(Append(q, n), p + 1, Len(Append(q, n))) = Append(SubSeq(q, p + 1, Len(q)), n)
<1> DEFINE a == Append(q, n)
           s == SubSeq(a, p + 1, Len(a))
           u == SubSeq(q, p + 1, Len(q))
           t == Append(u, n)
<1>1. Len(q) \in Nat /\ a \in Seq(Nat) /\ Len(a) = Len(q) + 1
  BY AppendProperties
<1>2. \A i \in 1..Len(a) : a[i] = IF i <= Len(q) THEN q[i] ELSE n
  BY <1>1, AppendProperties
<1>3. \A i \in (p + 1)..Len(a) : a[i] \in Nat
  BY <1>1
<1>4. \A i \in (p + 1)..Len(q) : q[i] \in Nat
  BY <1>1
<1>5. /\ s \in Seq(Nat) /\ Len(s) = Len(a) - p
      /\ \A i \in 1..(Len(a) - p) : s[i] = a[p + i]
  <2> HIDE DEF a
  <2> DEFINE m == p + 1
             l == Len(a)
  <2>1. m \in Int /\ l \in Int /\ m <= l /\ l - m + 1 = l - p /\ \A i \in Nat : m + i - 1 = p + i
    BY <1>1
  <2>2. \A i \in m..l : a[i] \in Nat
    BY <1>3
  <2> HIDE DEF m, l
  <2>3. /\ SubSeq(a, m, l) \in Seq(Nat)
        /\ Len(SubSeq(a, m, l)) = l - m + 1
        /\ \A i \in 1..(l - m + 1) : SubSeq(a, m, l)[i] = a[m + i - 1]
    BY <2>1, <2>2, SubSeqProperties
  <2>4. SubSeq(a, m, l) = s
    BY DEF m, l
  <2> HIDE DEF s
  <2>5. \A i \in 1..(l - m + 1) : i \in Nat
    BY <2>1
  <2> QED
    BY <2>1, <2>3, <2>4, <2>5 DEF l
<1>6. /\ u \in Seq(Nat) /\ Len(u) = Len(q) - p
      /\ \A i \in 1..(Len(q) - p) : u[i] = q[p + i]
  <2>1. p + 1 \in Int /\ Len(q) \in Int
        /\ Len(q) - (p + 1) + 1 = Len(q) - p /\ \A i \in Nat : p + 1 + i - 1 = p + i
        /\ (~(p + 1 <= Len(q)) => Len(q) - p = 0)
    BY <1>1
  <2> DEFINE m == p + 1
             l == Len(q)
  <2>2. m \in Int /\ l \in Int /\ \A i \in m..l : q[i] \in Nat
    BY <1>4, <2>1
  <2> HIDE DEF m, l
  <2>3. /\ SubSeq(q, m, l) \in Seq(Nat)
        /\ Len(SubSeq(q, m, l)) = IF m <= l THEN l - m + 1 ELSE 0
        /\ \A i \in 1..(l - m + 1) : SubSeq(q, m, l)[i] = q[m + i - 1]
    BY <2>2, SubSeqProperties
  <2>4. SubSeq(q, m, l) = u
    BY DEF m, l
  <2> HIDE DEF u
  <2>5. m = p + 1 /\ l = Len(q) /\ l \in Nat
    BY <1>1 DEF m, l
  <2>6. l - m + 1 = l - p /\ (~(m <= l) => l - p = 0) /\ \A i \in Nat : m + i - 1 = p + i
    BY <2>5
  <2> QED
    BY <2>3, <2>4, <2>5, <2>6
<1> HIDE DEF a, s, u
<1>7. /\ t \in Seq(Nat) /\ Len(t) = Len(u) + 1
      /\ \A i \in 1..Len(u) : t[i] = u[i]
      /\ t[Len(u) + 1] = n
  BY <1>6, AppendProperties
<1> HIDE DEF t
<1>8. Len(s) = Len(t)
  BY <1>1, <1>5, <1>6, <1>7
<1>9. ASSUME NEW i \in 1..Len(s) PROVE s[i] = t[i]
  <2>1. s[i] = a[p + i] /\ p + i \in 1..Len(a)
    BY <1>1, <1>5
  <2>2. CASE i <= Len(u)
    <3>1. i \in 1..Len(u) /\ p + i \in 1..Len(q) /\ p + i <= Len(q)
      BY <1>1, <1>6, <2>2
    <3>2. s[i] = q[p + i]
      BY <1>2, <2>1, <3>1
    <3>3. t[i] = u[i] /\ u[i] = q[p + i]
      BY <1>6, <1>7, <3>1
    <3> QED
      BY <3>2, <3>3
  <2>3. CASE i = Len(u) + 1
    <3>1. p + i = Len(q) + 1
      BY <1>1, <1>6, <2>3
    <3> QED
      BY <1>1, <1>2, <1>7, <2>1, <2>3, <3>1
  <2>4. Len(u) \in Nat
    BY <1>6
  <2>5. i \in 1..(Len(u) + 1)
    BY <1>7, <1>8
  <2>6. i <= Len(u) \/ i = Len(u) + 1
    BY <2>4, <2>5
  <2> QED
    BY <2>2, <2>3, <2>6
<1>10. s = t
  BY <1>5, <1>7, <1>8, <1>9, SeqEqual
<1> QED
  BY <1>10 DEF a, s, t, u

LEMMA Regroup ==
  ASSUME NEW a \in Seq(Nat), NEW b \in Seq(Nat), NEW c \in Seq(Nat)
  PROVE  (a \o b) \o c = a \o (b \o c) /\ a \o <<>> = a /\ a \o b \in Seq(Nat)
<1> DEFINE l == (a \o b) \o c
           r == a \o (b \o c)
<1>1. l = r
  <2>1. l \in Seq(Nat) /\ r \in Seq(Nat) /\ Len(l) = Len(r)
    OBVIOUS
  <2>2. ASSUME NEW i \in 1..Len(l) PROVE l[i] = r[i]
    <3>1. CASE i \in 1..Len(a)
      BY <3>1
    <3>2. CASE i \in (Len(a) + 1)..(Len(a) + Len(b))
      BY <3>2
    <3>3. CASE i \in (Len(a) + Len(b) + 1)..Len(l)
      BY <3>3
    <3> QED
      BY <3>1, <3>2, <3>3
  <2> HIDE DEF l, r
  <2> QED
    BY <2>1, <2>2, SeqEqual
<1>2. a \o <<>> = a
  BY ConcatEmptySeq, Zenon
<1>3. a \o b \in Seq(Nat)
  BY ConcatProperties, Zenon
<1> QED
  BY <1>1, <1>2, <1>3

LEMMA AppendLast ==
  ASSUME NEW d \in Seq(Nat), NEW u \in Seq(Nat), NEW n \in Nat
  PROVE  d \o Append(u, n) = Append(d \o u, n)
<1> DEFINE x == <<n>>
           c == d \o u
<1>1. x \in Seq(Nat) /\ c \in Seq(Nat)
  BY Regroup
<1>2. Append(u, n) = u \o x
  BY AppendIsConcat
<1>3. Append(c, n) = c \o x
  BY <1>1, AppendIsConcat
<1> HIDE DEF x
<1>4. (d \o u) \o x = d \o (u \o x)
  BY <1>1, Regroup, SMTT(60)
<1> QED
  BY <1>2, <1>3, <1>4

LEMMA CountsOn ==
  ASSUME NEW w \in Nat
  PROVE  Append(Packets(w), w + 1) = Packets(w + 1)
<1> DEFINE s == Append(Packets(w), w + 1)
           n == Packets(w + 1)
<1>1. Packets(w) \in Seq(Nat) /\ Len(Packets(w)) = w /\ n \in Seq(Nat) /\ Len(n) = w + 1
  BY DEF Packets
<1>2. /\ s \in Seq(Nat) /\ Len(s) = w + 1
      /\ \A i \in 1..w : s[i] = Packets(w)[i]
      /\ s[w + 1] = w + 1
  BY <1>1, AppendProperties
<1>3. \A i \in 1..w : Packets(w)[i] = i
  BY DEF Packets
<1>4. \A i \in 1..(w + 1) : n[i] = i
  BY DEF Packets
<1> HIDE DEF s, n
<1>5. \A i \in 1..(w + 1) : s[i] = n[i]
  BY <1>2, <1>3, <1>4
<1> QED
  BY <1>1, <1>2, <1>5, SeqEqual DEF s, n

LEMMA InOrderStep == ServerInv /\ [Next]_vars => InOrderDelivery'
<1> SUFFICES ASSUME ServerInv, [Next]_vars PROVE InOrderDelivery'
  OBVIOUS
<1> USE DEF ServerInv
<1>t. ep \in Eps /\ tx \in [Eps -> Seq(Nat)] /\ txPos \in [Eps -> Nat] /\ written \in [Eps -> Nat]
  BY LegacyAssumption DEF TypeOK
<1>u. \A e \in Eps : delivered[e] \o Unsent(e) = Packets(written[e])
  BY DEF InOrderDelivery
\* It is enough to look at one endpoint.
<1>o. ASSUME NEW e \in Eps,
             \A f \in Eps \ {e} : /\ delivered'[f] = delivered[f] /\ tx'[f] = tx[f]
                                  /\ txPos'[f] = txPos[f] /\ written'[f] = written[f],
             delivered'[e] \o Unsent(e)' = Packets(written'[e])
      PROVE  InOrderDelivery'
  BY <1>o, <1>u DEF InOrderDelivery, Unsent
<1>1. ASSUME Accept PROVE InOrderDelivery'
  BY <1>1 DEF Accept, InOrderDelivery, Unsent, link, buffers, requests
<1>2. ASSUME NoClient PROVE InOrderDelivery'
  BY <1>2 DEF NoClient, vars, InOrderDelivery, Unsent, link, buffers, requests
<1>3. ASSUME ReadFails PROVE InOrderDelivery'
  BY <1>3 DEF ReadFails, InOrderDelivery, Unsent, link, buffers, requests
<1>4. ASSUME WriteFails PROVE InOrderDelivery'
  BY <1>4 DEF WriteFails, InOrderDelivery, Unsent, link, buffers, requests
<1>5. ASSUME Close PROVE InOrderDelivery'
  BY <1>5 DEF Close, InOrderDelivery, Unsent, link, buffers, requests
<1>6. ASSUME NEW r \in Requests, SubmitPlain(r) PROVE InOrderDelivery'
  BY <1>6 DEF SubmitPlain, Submits, InOrderDelivery, Unsent, link, buffers, requests
<1>7. ASSUME NEW r \in Requests, SubmitInterruptIn(r) PROVE InOrderDelivery'
  BY <1>7 DEF SubmitInterruptIn, Submits, InOrderDelivery, Unsent, link, buffers, requests
<1>8. ASSUME Payload PROVE InOrderDelivery'
  BY <1>8 DEF Payload, InOrderDelivery, Unsent, link, buffers, requests
<1>9. ASSUME Ack PROVE InOrderDelivery'
  <2>0. PICK e \in Eps : e = ep
    BY <1>t
  <2>1. submit[e] \in Urb /\ <<>> \in Seq(Nat) /\ submit[e].ep = e
    BY <2>0, <1>t, <1>9 DEF TypeOK, AtOwnEndpoint, Ack
  <2>2. delivered'[e] = delivered[e] \o <<>> /\ \A f \in Eps \ {e} : delivered'[f] = delivered[f]
    BY <1>9, <2>0, <2>1, SendTyped DEF Ack
  <2>3. delivered[e] \o <<>> = delivered[e]
    BY <2>0, <1>t, UnsentTyped, Regroup
  <2>4. delivered' = delivered
    BY <1>9, <2>0, <2>1, <2>3 DEF Ack, SendAnswer, TypeOK
  <2> QED
    BY <1>9, <2>4 DEF Ack, InOrderDelivery, Unsent
<1>10. ASSUME Answer PROVE InOrderDelivery'
  <2>0. PICK e \in Eps : e = ep
    BY <1>t
  <2>1. submit[e] \in Urb /\ tx[e] \in Seq(Nat) /\ submit[e].ep = e
    BY <2>0, <1>t, <1>10 DEF TypeOK, AtOwnEndpoint, Answer
  <2>2. /\ delivered'[e] = delivered[e] \o tx[e]
        /\ \A f \in Eps \ {e} : delivered'[f] = delivered[f]
    BY <1>10, <2>0, <2>1, SendTyped DEF Answer
  <2>3. txPos[e] = 0
    BY <1>10, <2>0, <1>t DEF Answer, WholeBuffer
  <2>4. Unsent(e) = tx[e]
    BY <2>1, <2>3, SubSeqFull DEF Unsent
  <2>5. tx' = [tx EXCEPT ![e] = <<>>] /\ txPos' = [txPos EXCEPT ![e] = 0] /\ written' = written
    BY <1>10, <2>0 DEF Answer
  <2>6. Unsent(e)' = <<>>
    <3>1. tx'[e] = <<>> /\ txPos'[e] = 0
      BY <2>0, <1>t, <2>5
    <3> QED
      BY <3>1, SubSeqEmpty DEF Unsent
  <2>7. delivered'[e] \in Seq(Nat)
    BY <2>0, <1>t, <2>1, <2>2, UnsentTyped, Regroup
  <2>8. delivered'[e] \o Unsent(e)' = Packets(written'[e])
    <3>1. delivered'[e] \o Unsent(e)' = delivered'[e]
      BY <2>6, <2>7, Regroup
    <3> QED
      BY <1>u, <2>2, <2>4, <2>5, <3>1
  <2>9. \A f \in Eps \ {e} : tx'[f] = tx[f] /\ txPos'[f] = txPos[f] /\ written'[f] = written[f]
    BY <2>0, <1>t, <2>5
  <2> QED
    BY <2>0, <1>t, <1>o, <2>2, <2>8, <2>9
<1>11. ASSUME CompleteBulkIn PROVE InOrderDelivery'
  BY <1>11 DEF CompleteBulkIn, InOrderDelivery, Unsent, link, buffers, requests
<1>12. ASSUME IntrAnswer PROVE InOrderDelivery'
  <2>0. PICK e \in Eps : e = ep
    BY <1>t
  <2> DEFINE p == txPos[e]
             data == <<tx[e][p + 1]>>
             rest == SubSeq(tx[e], p + 2, Len(tx[e]))
  <2>1. /\ pc = "intr" /\ SendAnswer(intrIn[e], data) /\ written' = written
        /\ IF Drained(e)
             THEN tx' = [tx EXCEPT ![e] = <<>>] /\ txPos' = [txPos EXCEPT ![e] = 0]
             ELSE txPos' = [txPos EXCEPT ![e] = p + 1] /\ tx' = tx
    BY <1>12, <2>0 DEF IntrAnswer
  <2>2. p \in 0..(Len(tx[e]) - 1) /\ data \in Seq(Nat) /\ e \in hostReady
    BY <2>0, <2>1, NextReport
  <2>3. intrIn[e] \in Urb /\ intrIn[e].ep = e
    BY <2>0, <1>t, <2>2 DEF TypeOK, AtOwnEndpoint
  <2>4. /\ delivered'[e] = delivered[e] \o data
        /\ \A f \in Eps \ {e} : delivered'[f] = delivered[f]
    <3> HIDE DEF data
    <3>1. /\ delivered'[intrIn[e].ep] = delivered[intrIn[e].ep] \o data
          /\ \A f \in Eps \ {intrIn[e].ep} : delivered'[f] = delivered[f]
      BY <2>1, <2>2, <2>3, SendTyped
    <3> QED
      BY <2>3, <3>1
  <2>5. Unsent(e) = data \o rest
    <3>1. tx[e] \in Seq(Nat) /\ p + 1 \in 1..Len(tx[e]) /\ Len(tx[e]) \in (p + 1)..Len(tx[e])
          /\ p + 1 + 1 = p + 2
      BY <2>0, <1>t, <2>2
    <3> QED
      BY <3>1, SubSeqRecursiveFirst DEF Unsent
  <2>6. rest \in Seq(Nat)
    <3>1. p + 2 \in Int /\ Len(tx[e]) \in Int /\ \A i \in (p + 2)..Len(tx[e]) : tx[e][i] \in Nat
      BY <2>0, <1>t, <2>2
    <3> QED
      BY <3>1, SubSeqProperties
  <2>7. Unsent(e)' = rest
    <3>1. CASE Drained(e)
      <4>1. tx'[e] = <<>> /\ txPos'[e] = 0
        BY <2>0, <1>t, <2>1, <3>1
      <4>2. Unsent(e)' = <<>>
        BY <4>1, SubSeqEmpty DEF Unsent
      <4>3. p + 2 \in Int /\ Len(tx[e]) \in Int /\ Len(tx[e]) < p + 2
        BY <2>0, <1>t, <2>2, <3>1 DEF Drained
      <4> QED
        BY <4>2, <4>3, SubSeqEmpty
    <3>2. CASE ~Drained(e)
      <4>1. tx'[e] = tx[e] /\ txPos'[e] = p + 1 /\ p + 1 + 1 = p + 2
        BY <2>0, <1>t, <2>1, <2>2, <3>2
      <4> QED
        BY <4>1 DEF Unsent
    <3> QED
      BY <3>1, <3>2
  <2>8. delivered[e] \in Seq(Nat)
    BY <2>0, <1>t, UnsentTyped
  <2>9. \A f \in Eps \ {e} : tx'[f] = tx[f] /\ txPos'[f] = txPos[f] /\ written'[f] = written[f]
    BY <2>0, <1>t, <2>1
  <2>10. delivered'[e] \o Unsent(e)' = delivered[e] \o Unsent(e)
    <3> DEFINE d == delivered[e]
    <3>1. d \in Seq(Nat) /\ data \in Seq(Nat) /\ rest \in Seq(Nat)
      BY <2>2, <2>6, <2>8
    <3> HIDE DEF d, data, rest
    <3>2. (d \o data) \o rest = d \o (data \o rest)
      BY <3>1, Regroup, SMTT(60)
    <3> QED
      BY <2>4, <2>5, <2>7, <3>2 DEF d
  <2>11. delivered'[e] \o Unsent(e)' = Packets(written'[e])
    BY <1>u, <2>1, <2>10
  <2> QED
    BY <1>o, <2>4, <2>9, <2>11
<1>13. ASSUME NEW s \in 1..MaxSeq, Unlink(s) PROVE InOrderDelivery'
  BY <1>13 DEF Unlink, StillReady, InOrderDelivery, Unsent, link, buffers, requests
<1>14. ASSUME NEW e \in Eps, Transmit(e) PROVE InOrderDelivery'
  <2>1. /\ written' = [written EXCEPT ![e] = written[e] + 1] /\ delivered' = delivered
        /\ tx' = [tx EXCEPT ![e] = Append(tx[e], written[e] + 1)] /\ txPos' = txPos
    BY <1>14 DEF Transmit
  <2>2. /\ tx[e] \in Seq(Nat) /\ txPos[e] \in Nat /\ txPos[e] <= Len(tx[e])
        /\ written[e] \in Nat /\ written[e] + 1 \in Nat
    <3>1. tx[e] \in Seq(Nat) /\ txPos[e] \in Nat /\ written[e] \in Nat
      BY <1>t
    <3>2. Len(tx[e]) \in Nat /\ (txPos[e] = 0 \/ txPos[e] < Len(tx[e]))
      BY <3>1 DEF TypeOK
    <3> QED
      BY <3>1, <3>2
  <2>3. tx'[e] = Append(tx[e], written[e] + 1) /\ written'[e] = written[e] + 1
    <3> DEFINE x == Append(tx[e], written[e] + 1)
    <3>1. tx' = [tx EXCEPT ![e] = x]
      BY <2>1
    <3> HIDE DEF x
    <3>2. tx'[e] = x
      BY <1>t, <3>1
    <3> QED
      BY <1>t, <2>1, <3>2 DEF x
  <2>4. Unsent(e)' = Append(Unsent(e), written[e] + 1)
    <3> DEFINE q == tx[e]
               p == txPos[e]
               w == written[e] + 1
    <3>1. q \in Seq(Nat) /\ p \in Nat /\ p <= Len(q) /\ w \in Nat
      BY <2>2
    <3>2. Unsent(e) = SubSeq(q, p + 1, Len(q))
      BY DEF Unsent
    <3>3. Unsent(e)' = SubSeq(Append(q, w), p + 1, Len(Append(q, w)))
      BY <2>1, <2>3 DEF Unsent
    <3> HIDE DEF q, p, w
    <3>4. Unsent(e)' = Append(Unsent(e), w)
      BY <3>1, <3>2, <3>3, SuffixOfAppend, ZenonT(60)
    <3> QED
      BY <3>4 DEF w
  <2>5. delivered'[e] \o Unsent(e)' = Packets(written'[e])
    <3> DEFINE d == delivered[e]
               u == Unsent(e)
               w == written[e]
    <3>1. d \in Seq(Nat) /\ u \in Seq(Nat) /\ w \in Nat /\ w + 1 \in Nat /\ d \o u = Packets(w)
      BY <1>u, <2>2, UnsentTyped
    <3> HIDE DEF d, u, w
    <3>2. d \o Append(u, w + 1) = Packets(w + 1)
      <4>1. d \o Append(u, w + 1) = Append(Packets(w), w + 1)
        BY <3>1, AppendLast, SMTT(60)
      <4> QED
        BY <3>1, <4>1, CountsOn, Zenon
    <3> QED
      BY <2>1, <2>3, <2>4, <3>2 DEF d, u, w
  <2>6. \A f \in Eps \ {e} : tx'[f] = tx[f] /\ txPos'[f] = txPos[f] /\ written'[f] = written[f]
    BY <1>t, <2>1
  <2> QED
    BY <1>o, <2>1, <2>5, <2>6
<1>15. ASSUME NEW e \in Eps, TransmitEmpty(e) PROVE InOrderDelivery'
  BY <1>15 DEF TransmitEmpty, InOrderDelivery, Unsent, link, buffers, requests
<1>16. ASSUME UNCHANGED vars PROVE InOrderDelivery'
  BY <1>16 DEF vars, InOrderDelivery, Unsent, link, buffers, requests
<1> QED
  BY <1>1, <1>2, <1>3, <1>4, <1>5, <1>6, <1>7, <1>8, <1>9, <1>10, <1>11, <1>12, <1>13, <1>14,
     <1>15, <1>16
  DEF Next

LEMMA ServerInitially == Init => ServerInv
<1> SUFFICES ASSUME Init PROVE ServerInv
  OBVIOUS
<1>1. TypeOK
  BY LegacyAssumption, ConstantsTyped DEF Init, TypeOK
<1>2. Interrupting /\ AtOwnEndpoint /\ WholeBuffer
  BY DEF Init, Interrupting, AtOwnEndpoint, WholeBuffer
<1>3. ASSUME NEW e \in Eps PROVE delivered[e] \o Unsent(e) = Packets(written[e])
  <2>1. delivered[e] = <<>> /\ tx[e] = <<>> /\ txPos[e] = 0 /\ written[e] = 0
    BY DEF Init
  <2>2. Unsent(e) = <<>>
    BY <2>1, SubSeqEmpty DEF Unsent
  <2> QED
    BY <2>1, <2>2 DEF Packets
<1> QED
  BY <1>1, <1>2, <1>3 DEF ServerInv, InOrderDelivery

LEMMA ServerAlways == Spec => []ServerInv
<1>1. ServerInv /\ [Next]_vars => ServerInv'
  BY TypeStep, InterruptingStep, AtOwnEndpointStep, WholeBufferStep, InOrderStep DEF ServerInv
<1> QED
  BY <1>1, ServerInitially, PTL DEF Spec

\* Every variable keeps its type: the buffer positions of usbip_tx_submit stay inside the
\* buffer, and a reply carries a request of some endpoint.
THEOREM TypeCorrect == Spec => []TypeOK
BY ServerAlways, PTL DEF ServerInv

\* The packets of every endpoint reach the clients in the order the firmware transmitted
\* them and once each, for any number of connections, whatever was left buffered when
\* one ended.
THEOREM DeliveredInOrder == Spec => []InOrderDelivery
BY ServerAlways, PTL DEF ServerInv

-----------------------------------------------------------------------------
(* The numbers of the requests.                                            *)

\* A reply shows up in the log of the host, and settles its number.
LEMMA LogAppends ==
  ASSUME TypeOK, NEW w \in Reply, wire' = Append(wire, w)
  PROVE  /\ Log' = Append(Log, [kind |-> w.kind, seq |-> w.urb.seq])
         /\ Settled' = Settled \cup {w.urb.seq}
         /\ \A i \in 1..Len(wire') : wire'[i] = w \/ \E j \in 1..Len(wire) : wire'[i] = wire[j]
<1>1. wire \in Seq(Reply)
  BY DEF TypeOK
<1> DEFINE Entry(x) == [kind |-> x.kind, seq |-> x.urb.seq]
           Entries == {Entry(x) : x \in Reply}
<1>2. Log \in Seq(Entries) /\ Len(Log) = Len(wire)
  BY <1>1 DEF Log
<1>3. Log' = [i \in 1..(Len(wire) + 1) |-> Entry(Append(wire, w)[i])]
  BY <1>1 DEF Log
<1>4. \A i \in 1..Len(wire) : Append(wire, w)[i] = wire[i]
  BY <1>1
<1>5. Append(wire, w)[Len(wire) + 1] = w
  BY <1>1
<1>6. Log' = Append(Log, [kind |-> w.kind, seq |-> w.urb.seq])
  BY <1>1, <1>2, <1>3, <1>4, <1>5 DEF Log
<1>7. Len(wire') = Len(wire) + 1 /\ Len(wire) \in Nat
  BY <1>1
<1>8. Settled' = Settled \cup {w.urb.seq}
  BY <1>4, <1>5, <1>7 DEF Settled
<1>9. \A i \in 1..Len(wire') : wire'[i] = w \/ \E j \in 1..Len(wire) : wire'[i] = wire[j]
  BY <1>4, <1>5, <1>7
<1> QED
  BY <1>6, <1>8, <1>9

LEMMA SendLogs ==
  ASSUME TypeOK, NEW urb \in Urb, NEW data, SendAnswer(urb, data)
  PROVE  /\ Log' = Append(Log, [kind |-> "submit", seq |-> urb.seq])
         /\ Settled' = Settled \cup {urb.seq}
         /\ \A i \in 1..Len(wire') :
              wire'[i].urb = urb \/ \E j \in 1..Len(wire) : wire'[i] = wire[j]
<1> DEFINE w == [kind |-> "submit", urb |-> urb]
<1>1. w \in Reply /\ w.kind = "submit" /\ w.urb = urb
  BY DEF Reply
<1>2. wire' = Append(wire, w)
  BY DEF SendAnswer
<1> HIDE DEF w
<1> QED
  BY <1>1, <1>2, LogAppends

UnlinkKind(s) == IF Matched(s) # {} THEN "unlinked" ELSE "completed"

LEMMA UnlinkLogs ==
  ASSUME TypeOK, NEW s \in 1..MaxSeq, Unlink(s)
  PROVE  /\ Log' = Append(Log, [kind |-> UnlinkKind(s), seq |-> s])
         /\ Settled' = Settled \cup {s}
         /\ \A i \in 1..Len(wire') :
              wire'[i].urb.seq = s \/ \E j \in 1..Len(wire) : wire'[i] = wire[j]
<1> DEFINE u == [NoUrb EXCEPT !.seq = s]
           w == [kind |-> UnlinkKind(s), urb |-> u]
<1>1. u \in Urb /\ u.seq = s
  BY ConstantsTyped DEF NoUrb, Urb
<1>2. w \in Reply /\ w.kind = UnlinkKind(s) /\ w.urb.seq = s
  <2> HIDE DEF u
  <2> QED
    BY <1>1 DEF Reply, UnlinkKind
<1>3. wire' = Append(wire, w)
  BY DEF Unlink, UnlinkKind
<1> HIDE DEF w
<1> QED
  BY <1>2, <1>3, LogAppends

\* Every request waits under a number of its own.
Numbered == Known /\ Apart /\ Piled

LEMMA NumberedStep == NumbersInv /\ [Next]_vars => Numbered'
<1> SUFFICES ASSUME NumbersInv, [Next]_vars PROVE Numbered'
  OBVIOUS
<1> USE DEF NumbersInv, ServerInv
<1>n. /\ nextSeq \in Nat /\ first \in Nat /\ first <= nextSeq
      /\ \A e \in hostReady : intrIn[e].seq \in 1..(nextSeq - 1)
      /\ \A i \in 1..Len(wire) : wire[i].urb.seq < nextSeq
  <2>1. nextSeq \in 1..(MaxSeq + 1) /\ first \in 1..(MaxSeq + 1) /\ MaxSeq \in Nat
    BY LegacyAssumption DEF TypeOK
  <2>2. nextSeq \in Nat /\ first \in Nat
    BY <2>1
  <2> QED
    BY <2>2 DEF Known
<1>w. \A i \in 1..Len(wire) : wire[i].urb.seq \in Nat
  <2>1. \A i \in 1..Len(wire) : wire[i] \in Reply
    BY ElementOfSeq DEF TypeOK
  <2> QED
    BY <2>1 DEF Reply, Urb
<1>t. /\ ep \in Eps /\ hostReady \subseteq IntrEps /\ IntrEps \subseteq Eps
      /\ tx \in [Eps -> Seq(Nat)] /\ txPos \in [Eps -> Nat]
      /\ submit \in [Eps -> Urb] /\ intrIn \in [Eps -> Urb]
  BY ConstantsTyped DEF TypeOK
\* Nothing happened to the requests that wait.
<1>s. ASSUME pc \in {"payload", "ack", "answer"} <=> pc' \in {"payload", "ack", "answer"},
             pc' \in {"payload", "ack", "answer"} => submit'[ep'] = submit[ep],
             hostReady' = hostReady, intrIn' = intrIn, nextSeq' = nextSeq, first' = first,
             wire' = wire, tx' = tx
      PROVE  Numbered'
  BY <1>s DEF Numbered, Known, Apart, Piled, Settled
\* A number of this connection is settled, and what it stood for no longer waits.
<1>a. ASSUME NEW q \in 1..(nextSeq - 1), Settled' = Settled \cup {q},
             \A i \in 1..Len(wire') :
               wire'[i].urb.seq = q \/ \E j \in 1..Len(wire) : wire'[i] = wire[j],
             hostReady' \subseteq hostReady, intrIn' = intrIn, nextSeq' = nextSeq, first' = first,
             pc' \in {"poll", "zlp", "intr"},
             \A e \in hostReady' : Len(tx'[e]) = Len(tx[e]) /\ (intrIn[e].seq = q => Len(tx[e]) >= 2)
      PROVE  Numbered'
  <2>1. Known'
    BY <1>a, <1>n DEF Known
  <2>2. Apart'
    BY <1>a DEF Apart
  <2>3. Piled'
    BY <1>a DEF Piled
  <2> QED
    BY <2>1, <2>2, <2>3 DEF Numbered
<1>1. ASSUME Accept PROVE Numbered'
  <2>1. Settled' = {} /\ Len(wire') = 0 /\ pc' = "poll"
    BY <1>1 DEF Accept, Settled
  <2>2. /\ hostReady' = hostReady /\ intrIn' = intrIn /\ nextSeq' = nextSeq /\ first' = nextSeq
    BY <1>1 DEF Accept, requests
  <2>3. Known'
    BY <1>n, <2>1, <2>2 DEF Known
  <2>4. Apart' /\ Piled'
    BY <2>1, <2>2 DEF Apart, Piled
  <2> QED
    BY <2>3, <2>4 DEF Numbered
<1>2. ASSUME NoClient PROVE Numbered'
  BY <1>2, <1>s DEF NoClient, vars, link, buffers, requests
<1>3. ASSUME ReadFails PROVE Numbered'
  <2>1. pc' = "close" /\ hostReady' = hostReady /\ intrIn' = intrIn /\ nextSeq' = nextSeq
        /\ first' = first /\ wire' = wire /\ tx' = tx
    BY <1>3 DEF ReadFails, link, buffers, requests
  <2> QED
    BY <2>1 DEF Numbered, Known, Apart, Piled, Settled
<1>4. ASSUME WriteFails PROVE Numbered'
  <2>1. pc' = "close" /\ hostReady' = hostReady /\ intrIn' = intrIn /\ nextSeq' = nextSeq
        /\ first' = first /\ wire' = wire /\ tx' = tx
    BY <1>4 DEF WriteFails, link, buffers, requests
  <2> QED
    BY <2>1 DEF Numbered, Known, Apart, Piled, Settled
<1>5. ASSUME Close PROVE Numbered'
  BY <1>5, <1>s DEF Close, link, buffers, requests
<1>6. ASSUME NEW r \in Requests, SubmitPlain(r) PROVE Numbered'
  <2>1. UrbOf(r).seq = nextSeq /\ r.ep \in Eps
    BY <1>n, UrbTyped, ConstantsTyped
  <2>2. /\ nextSeq' = nextSeq + 1 /\ ep' = r.ep /\ submit' = [submit EXCEPT ![r.ep] = UrbOf(r)]
        /\ hostReady' = hostReady /\ intrIn' = intrIn /\ first' = first /\ wire' = wire /\ tx' = tx
    BY <1>6 DEF SubmitPlain, Submits, buffers
  <2>3. submit'[ep'].seq = nextSeq
    BY <1>t, <2>1, <2>2
  <2>4. Known'
    <3>1. \A i \in 1..Len(wire) : wire[i].urb.seq < nextSeq + 1
      BY <1>n, <1>w
    <3>2. \A e \in hostReady : intrIn[e].seq \in 1..(nextSeq' - 1)
      BY <1>n, <2>2
    <3>3. first <= nextSeq + 1
      BY <1>n
    <3>4. (\A i \in 1..Len(wire') : wire'[i].urb.seq < nextSeq') /\ first' <= nextSeq'
      BY <2>2, <3>1, <3>3
    <3> QED
      BY <2>2, <3>1, <3>2, <3>4 DEF Known
  <2>5. Apart'
    <3>1. nextSeq \in first..nextSeq /\ nextSeq' - 1 = nextSeq
      BY <1>n, <2>2
    <3>2. \A e \in hostReady : intrIn[e].seq # nextSeq
      BY <1>n
    <3> QED
      BY <2>2, <2>3, <3>1, <3>2 DEF Apart
  <2>6. Piled'
    BY <2>2 DEF Piled, Settled
  <2> QED
    BY <2>4, <2>5, <2>6 DEF Numbered
<1>7. ASSUME NEW r \in Requests, SubmitInterruptIn(r) PROVE Numbered'
  <2>1. UrbOf(r).seq = nextSeq /\ r.ep \in Eps
    BY <1>n, UrbTyped, ConstantsTyped
  <2>2. /\ nextSeq' = nextSeq + 1 /\ intrIn' = [intrIn EXCEPT ![r.ep] = UrbOf(r)]
        /\ first' = first /\ wire' = wire /\ tx' = tx /\ pc' \in {"intr", "poll"}
        /\ hostReady' \subseteq hostReady \cup {r.ep}
    BY <1>7 DEF SubmitInterruptIn, Submits, buffers
  <2>3. intrIn'[r.ep].seq = nextSeq /\ \A e \in Eps \ {r.ep} : intrIn'[e] = intrIn[e]
    BY <1>t, <2>1, <2>2
  <2>4. \A e \in hostReady' \ {r.ep} : e \in hostReady /\ intrIn'[e] = intrIn[e] /\ intrIn[e].seq # nextSeq
    BY <1>t, <1>n, <2>2, <2>3
  <2>5. Known'
    <3>1. \A e \in hostReady' : intrIn'[e].seq \in 1..(nextSeq' - 1)
      <4>0. nextSeq \in 1..(MaxSeq + 1) /\ MaxSeq \in Nat
        BY LegacyAssumption DEF TypeOK
      <4>1. nextSeq \in 1..nextSeq /\ nextSeq' - 1 = nextSeq
        BY <2>2, <4>0
      <4>2. \A e \in hostReady' \ {r.ep} : intrIn'[e].seq \in 1..nextSeq
        BY <1>n, <2>4
      <4> QED
        BY <2>3, <4>1, <4>2
    <3>2. \A i \in 1..Len(wire) : wire[i].urb.seq < nextSeq + 1
      BY <1>n, <1>w
    <3>3. first <= nextSeq + 1
      BY <1>n
    <3> QED
      BY <2>2, <3>1, <3>2, <3>3 DEF Known
  <2>6. Apart'
    BY <2>2, <2>3, <2>4 DEF Apart
  <2>7. Piled'
    <3>1. nextSeq \notin Settled
      BY <1>n DEF Settled
    <3> QED
      BY <2>2, <2>3, <2>4, <3>1 DEF Piled, Settled
  <2> QED
    BY <2>5, <2>6, <2>7 DEF Numbered
<1>8. ASSUME Payload PROVE Numbered'
  <2>1. pc' \in {"answer", "ack"} /\ pc = "payload" /\ ep' = ep
    BY <1>8 DEF Payload
  <2> QED
    BY <1>8, <1>s, <2>1 DEF Payload, buffers, requests
<1>9. ASSUME Ack PROVE Numbered'
  <2>0. pc = "ack" /\ SendAnswer(submit[ep], <<>>) /\ submit[ep] \in Urb
    BY <1>9, <1>t DEF Ack
  <2> DEFINE q == submit[ep].seq
  <2>1. q \in 1..(nextSeq - 1) /\ \A e \in hostReady : intrIn[e].seq # q
    BY <2>0, <1>n DEF Apart, TypeOK
  <2>2. /\ Settled' = Settled \cup {q}
        /\ \A i \in 1..Len(wire') :
             wire'[i].urb.seq = q \/ \E j \in 1..Len(wire) : wire'[i] = wire[j]
    BY <2>0, SendLogs
  <2>3. /\ hostReady' = hostReady /\ intrIn' = intrIn /\ tx' = tx /\ pc' \in {"intr", "poll"}
        /\ nextSeq' = nextSeq /\ first' = first
    BY <1>9 DEF Ack, link, requests
  <2> HIDE DEF q
  <2> QED
    BY <1>a, <2>1, <2>2, <2>3
<1>10. ASSUME Answer PROVE Numbered'
  <2>0. pc = "answer" /\ SendAnswer(submit[ep], tx[ep]) /\ submit[ep] \in Urb
    BY <1>10, <1>t DEF Answer
  <2> DEFINE q == submit[ep].seq
  <2>1. q \in 1..(nextSeq - 1) /\ \A e \in hostReady : intrIn[e].seq # q
    BY <2>0, <1>n DEF Apart, TypeOK
  <2>2. /\ Settled' = Settled \cup {q}
        /\ \A i \in 1..Len(wire') :
             wire'[i].urb.seq = q \/ \E j \in 1..Len(wire) : wire'[i] = wire[j]
    BY <2>0, SendLogs
  <2>3. /\ hostReady' = hostReady \ {ep} /\ intrIn' = intrIn /\ tx' = [tx EXCEPT ![ep] = <<>>]
        /\ pc' \in {"zlp", "poll"} /\ nextSeq' = nextSeq /\ first' = first
    BY <1>10 DEF Answer, link
  <2>4. \A e \in hostReady' : tx'[e] = tx[e]
    BY <1>t, <2>3
  <2> HIDE DEF q
  <2> QED
    BY <1>a, <2>1, <2>2, <2>3, <2>4
<1>11. ASSUME CompleteBulkIn PROVE Numbered'
  BY <1>11, <1>s DEF CompleteBulkIn, link, buffers, requests
<1>12. ASSUME IntrAnswer PROVE Numbered'
  <2>0. /\ pc = "intr" /\ SendAnswer(intrIn[ep], <<tx[ep][txPos[ep] + 1]>>) /\ intrIn[ep] \in Urb
        /\ ep \in hostReady /\ txPos[ep] \in 0..(Len(tx[ep]) - 1)
    BY <1>12, <1>t, NextReport DEF IntrAnswer
  <2> DEFINE q == intrIn[ep].seq
  <2>1. q \in 1..(nextSeq - 1) /\ \A e \in hostReady : intrIn[e].seq = q => e = ep
    BY <2>0, <1>n DEF Apart
  <2>2. /\ Settled' = Settled \cup {q}
        /\ \A i \in 1..Len(wire') :
             wire'[i].urb.seq = q \/ \E j \in 1..Len(wire) : wire'[i] = wire[j]
    BY <2>0, SendLogs
  <2>3. /\ intrIn' = intrIn /\ pc' = "poll" /\ nextSeq' = nextSeq /\ first' = first
        /\ IF Drained(ep)
             THEN tx' = [tx EXCEPT ![ep] = <<>>] /\ hostReady' = hostReady \ {ep}
             ELSE tx' = tx /\ hostReady' = hostReady
    BY <1>12 DEF IntrAnswer, link
  <2>4. hostReady' \subseteq hostReady /\ \A e \in hostReady' : tx'[e] = tx[e]
    BY <1>t, <2>3
  <2>5. \A e \in hostReady' : intrIn[e].seq = q => Len(tx[e]) >= 2
    <3>1. ep \in hostReady' => txPos[ep] + 1 # Len(tx[ep])
      BY <2>3 DEF Drained
    <3>2. ep \in hostReady' => Len(tx[ep]) >= 2
      BY <1>t, <2>0, <3>1
    <3> QED
      BY <2>1, <2>4, <3>2
  <2> HIDE DEF q
  <2> QED
    BY <1>a, <2>1, <2>2, <2>3, <2>4, <2>5
<1>13. ASSUME NEW s \in 1..MaxSeq, Unlink(s) PROVE Numbered'
  <2>1. /\ pc = "poll" /\ pc' = pc /\ s \in first..(nextSeq - 1)
        /\ hostReady' = hostReady \ Matched(s) /\ intrIn' = intrIn /\ tx' = tx
        /\ nextSeq' = nextSeq /\ first' = first
    BY <1>13 DEF Unlink, StillReady, link, buffers
  <2>2. s \in 1..(nextSeq - 1)
    BY <1>n, <2>1
  <2>3. \A e \in hostReady' : intrIn[e].seq # s
    BY <1>t, <2>1 DEF Matched
  <2> QED
    BY <1>13, <1>a, <2>1, <2>2, <2>3, UnlinkLogs
<1>14. ASSUME NEW e \in Eps, Transmit(e) PROVE Numbered'
  <2>1. /\ tx' = [tx EXCEPT ![e] = Append(tx[e], written[e] + 1)]
        /\ pc' = pc /\ ep' = ep /\ hostReady' = hostReady /\ intrIn' = intrIn /\ submit' = submit
        /\ nextSeq' = nextSeq /\ first' = first /\ wire' = wire
    BY <1>14 DEF Transmit, link, requests
  <2>2. tx[e] \in Seq(Nat) /\ Len(Append(tx[e], written[e] + 1)) = Len(tx[e]) + 1 /\ Len(tx[e]) \in Nat
    <3>1. tx[e] \in Seq(Nat) /\ written[e] + 1 \in Nat
      BY <1>t, LegacyAssumption DEF TypeOK
    <3> QED
      BY <3>1, AppendProperties
  <2>3. \A f \in hostReady : Len(tx'[f]) >= 2 \/ tx'[f] = tx[f] \/ (f = e /\ Len(tx[f]) < 1)
    BY <1>t, <2>1, <2>2
  <2>4. Known' /\ Apart'
    BY <2>1 DEF Known, Apart
  <2>5. Piled'
    BY <2>1, <2>2, <2>3 DEF Piled, Settled
  <2> QED
    BY <2>4, <2>5 DEF Numbered
<1>15. ASSUME NEW e \in Eps, TransmitEmpty(e) PROVE Numbered'
  BY <1>15, <1>s DEF TransmitEmpty, link, buffers, requests
<1>16. ASSUME UNCHANGED vars PROVE Numbered'
  BY <1>16, <1>s DEF vars, link, buffers, requests
<1> QED
  BY <1>1, <1>2, <1>3, <1>4, <1>5, <1>6, <1>7, <1>8, <1>9, <1>10, <1>11, <1>12, <1>13, <1>14,
     <1>15, <1>16
  DEF Next

LEMMA NumbersAlways == Spec => []NumbersInv
<1>1. Init => NumbersInv
  <2> SUFFICES ASSUME Init PROVE NumbersInv
    OBVIOUS
  <2>1. Known /\ Apart /\ Piled
    BY DEF Init, Known, Apart, Piled
  <2> QED
    BY <2>1, ServerInitially DEF NumbersInv
<1>2. ServerInv /\ [Next]_vars => ServerInv'
  BY TypeStep, InterruptingStep, AtOwnEndpointStep, WholeBufferStep, InOrderStep DEF ServerInv
<1>3. NumbersInv /\ [Next]_vars => NumbersInv'
  BY <1>2, NumberedStep DEF NumbersInv, Numbered
<1> QED
  BY <1>1, <1>3, PTL DEF Spec

-----------------------------------------------------------------------------
(* The step simulation.                                                    *)

\* Steps that UrbService does not see.
LEMMA Unseen ==
  ASSUME pc \in Serving <=> pc' \in Serving,
         pc \in {"payload", "ack", "answer"} <=> pc' \in {"payload", "ack", "answer"},
         pc \in {"payload", "ack", "answer"} => submit'[ep'].seq = submit[ep].seq,
         hostReady' = hostReady, intrIn' = intrIn, nextSeq' = nextSeq, first' = first,
         wire' = wire
  PROVE  UNCHANGED URB!urbVars
<1>1. (Connected <=> Connected') /\ Outstanding' = Outstanding /\ Log' = Log
  BY DEF Connected, Outstanding, Log
<1> QED
  BY <1>1 DEF URB!urbVars, Connected

\* The connection ends, and what was outstanding with it.
LEMMA Closes ==
  ASSUME pc \in Serving, pc' \notin Serving, nextSeq' = nextSeq, first' = first, wire' = wire
  PROVE  URB!Next
BY DEF URB!Next, URB!Close, Connected, Outstanding, Log

\* Submitting gives out the next number.
LEMMA SubmitsNext ==
  ASSUME NumbersInv, NEW r \in Requests, Submits(r), first' = first, wire' = wire,
         pc' \in Serving, Outstanding' = Outstanding \cup {nextSeq}
  PROVE  URB!Next
<1>1. nextSeq \in 1..MaxSeq /\ first \in Nat /\ first <= nextSeq
  BY LegacyAssumption DEF NumbersInv, ServerInv, TypeOK, Submits, Known
<1>2. first..(nextSeq' - 1) = (first..(nextSeq - 1)) \cup {nextSeq}
  BY <1>1 DEF Submits
<1>3. Connected /\ Connected' /\ Log' = Log
  BY DEF Submits, Connected, Serving, Log
<1>4. nextSeq \notin first..(nextSeq - 1)
  BY <1>1
<1>5. URB!Submit(nextSeq)
  BY <1>2, <1>3, <1>4 DEF URB!Submit, Connected
<1> QED
  BY <1>1, <1>5 DEF URB!Next

\* Writing the answer to a request that waits.
LEMMA Answers ==
  ASSUME NumbersInv, NEW urb \in Urb, NEW data, SendAnswer(urb, data),
         pc \in Serving, pc' \in Serving, nextSeq' = nextSeq, first' = first,
         urb.seq \in 1..(nextSeq - 1), urb.seq \in Outstanding,
         Outstanding' = Outstanding \ {urb.seq}
  PROVE  URB!Next
<1> DEFINE q == urb.seq
<1>1. q \in 1..MaxSeq
  BY LegacyAssumption DEF NumbersInv, ServerInv, TypeOK
<1>2. Log' = Append(Log, [kind |-> "submit", seq |-> q])
  BY SendLogs DEF NumbersInv, ServerInv
<1>3. Connected /\ Connected'
  BY DEF Connected
<1>4. URB!Answer(q)
  BY <1>2, <1>3 DEF URB!Answer, Connected
<1> QED
  BY <1>1, <1>4 DEF URB!Next

\* While reports do not pile up and no request of an earlier client is parked, every
\* step is one of UrbService or leaves what it sees alone.
LEMMA RefinesStep ==
  NumbersInv /\ [Next]_vars => [OneReportEach /\ NothingStale /\ NothingStale' => URB!Next]_(URB!urbVars)
<1> SUFFICES ASSUME NumbersInv, [Next]_vars, OneReportEach, NothingStale, NothingStale'
             PROVE  URB!Next \/ UNCHANGED URB!urbVars
  BY DEF NumbersInv
<1> USE DEF NumbersInv, ServerInv
<1>n. /\ nextSeq \in 1..(MaxSeq + 1) /\ first \in Nat /\ first <= nextSeq /\ MaxSeq \in Nat
      /\ \A e \in hostReady : intrIn[e].seq \in 1..(nextSeq - 1) /\ intrIn[e].seq >= first
  BY LegacyAssumption DEF TypeOK, Known, NothingStale
<1>t. /\ ep \in Eps /\ hostReady \subseteq IntrEps /\ IntrEps \subseteq Eps
      /\ tx \in [Eps -> Seq(Nat)] /\ submit \in [Eps -> Urb] /\ intrIn \in [Eps -> Urb]
  BY ConstantsTyped DEF TypeOK
<1>1. ASSUME Accept PROVE URB!Next \/ UNCHANGED URB!urbVars
  <2>1. ~Connected /\ Connected' /\ Log' = <<>> /\ nextSeq' = nextSeq /\ first' = nextSeq
        /\ hostReady' = hostReady /\ intrIn' = intrIn /\ pc' = "poll"
    BY <1>1 DEF Accept, Connected, Serving, requests, Log
  <2>2. hostReady = {}
    <3>1. \A e \in hostReady : intrIn[e].seq >= nextSeq
      BY <2>1 DEF NothingStale
    <3>2. \A e \in hostReady : intrIn[e].seq < nextSeq
      BY <1>n
    <3>3. \A e \in hostReady : intrIn[e].seq \in Nat
      BY <1>n
    <3> QED
      BY <1>n, <3>1, <3>2, <3>3
  <2>3. Outstanding = {} /\ Outstanding' = {}
    BY <2>1, <2>2 DEF Outstanding
  <2>4. first'..(nextSeq' - 1) = {}
    BY <1>n, <2>1
  <2> QED
    BY <2>1, <2>3, <2>4 DEF URB!Next, URB!Connect, Connected
<1>2. ASSUME NoClient PROVE URB!Next \/ UNCHANGED URB!urbVars
  BY <1>2, Unseen DEF NoClient, vars, link, requests
<1>3. ASSUME ReadFails PROVE URB!Next \/ UNCHANGED URB!urbVars
  BY <1>3, Closes DEF ReadFails, Serving, link
<1>4. ASSUME WriteFails PROVE URB!Next \/ UNCHANGED URB!urbVars
  BY <1>4, Closes DEF WriteFails, Serving, link
<1>5. ASSUME Close PROVE URB!Next \/ UNCHANGED URB!urbVars
  BY <1>5, Unseen DEF Close, Serving, link, requests
<1>6. ASSUME NEW r \in Requests, SubmitPlain(r) PROVE URB!Next \/ UNCHANGED URB!urbVars
  <2>1. Submits(r) /\ UrbOf(r).seq = nextSeq /\ r.ep \in Eps
    BY <1>6, <1>n, UrbTyped, ConstantsTyped DEF SubmitPlain
  <2>2. /\ pc = "poll" /\ pc' \in {"payload", "answer"} /\ ep' = r.ep
        /\ submit' = [submit EXCEPT ![r.ep] = UrbOf(r)]
        /\ hostReady' = hostReady /\ intrIn' = intrIn /\ first' = first /\ wire' = wire
    BY <1>6 DEF SubmitPlain, Submits
  <2>3. submit'[ep'].seq = nextSeq
    BY <1>t, <2>1, <2>2
  <2>4. Outstanding' = Outstanding \cup {nextSeq}
    BY <2>2, <2>3 DEF Outstanding, Connected, Serving
  <2>5. pc' \in Serving
    BY <2>2 DEF Serving
  <2> QED
    BY <2>1, <2>2, <2>4, <2>5, SubmitsNext
<1>7. ASSUME NEW r \in Requests, SubmitInterruptIn(r) PROVE URB!Next \/ UNCHANGED URB!urbVars
  <2>1. Submits(r) /\ UrbOf(r).seq = nextSeq /\ r.ep \in Eps /\ r.ep \in IntrEps
    BY <1>7, <1>n, UrbTyped, ConstantsTyped DEF SubmitInterruptIn
  <2>2. r.ep \notin hostReady
    <3> SUFFICES ASSUME r.ep \in hostReady PROVE FALSE
      OBVIOUS
    <3>1. intrIn[r.ep].seq \in Settled
      BY <1>7, <1>n DEF SubmitInterruptIn
    <3>2. Len(tx[r.ep]) >= 2 /\ Len(tx[r.ep]) <= 1
      BY <2>1, <3>1 DEF Piled, OneReportEach
    <3>3. Len(tx[r.ep]) \in Nat
      BY <1>t, <2>1
    <3> QED
      BY <3>2, <3>3
  <2>3. /\ pc = "poll" /\ pc' = "poll" /\ first' = first /\ wire' = wire
        /\ hostReady' = hostReady \cup {r.ep} /\ intrIn' = [intrIn EXCEPT ![r.ep] = UrbOf(r)]
    BY <1>7, <2>2 DEF SubmitInterruptIn, Submits, Ready
  <2>4. intrIn'[r.ep].seq = nextSeq /\ \A e \in hostReady : intrIn'[e] = intrIn[e]
    BY <1>t, <2>1, <2>2, <2>3
  <2>5. Outstanding = {intrIn[e].seq : e \in hostReady}
        /\ Outstanding' = {intrIn'[e].seq : e \in hostReady \cup {r.ep}}
    BY <2>3 DEF Outstanding, Connected, Serving
  <2>6. Outstanding' = Outstanding \cup {nextSeq}
    BY <2>4, <2>5
  <2>7. pc' \in Serving
    BY <2>3 DEF Serving
  <2> QED
    BY <2>1, <2>3, <2>6, <2>7, SubmitsNext
<1>8. ASSUME Payload PROVE URB!Next \/ UNCHANGED URB!urbVars
  <2>1. pc = "payload" /\ pc' \in {"answer", "ack"} /\ ep' = ep
    BY <1>8 DEF Payload
  <2> QED
    BY <1>8, <2>1, Unseen DEF Payload, Serving, requests
<1>9. ASSUME Ack PROVE URB!Next \/ UNCHANGED URB!urbVars
  <2>1. /\ pc = "ack" /\ SendAnswer(submit[ep], <<>>) /\ pc' \in {"intr", "poll"}
        /\ nextSeq' = nextSeq /\ first' = first /\ hostReady' = hostReady /\ intrIn' = intrIn
    BY <1>9 DEF Ack, link, requests
  <2> DEFINE q == submit[ep].seq
  <2>2. q \in 1..(nextSeq - 1) /\ \A e \in hostReady : intrIn[e].seq # q
    BY <2>1, <1>n DEF Apart, TypeOK
  <2>3. Outstanding = {intrIn[e].seq : e \in hostReady} \cup {q}
        /\ Outstanding' = {intrIn[e].seq : e \in hostReady}
    BY <2>1 DEF Outstanding, Connected, Serving
  <2>4. q \in Outstanding /\ Outstanding' = Outstanding \ {q}
    BY <2>2, <2>3
  <2>5. pc \in Serving /\ pc' \in Serving /\ submit[ep] \in Urb
    BY <1>t, <2>1 DEF Serving
  <2> QED
    BY <2>1, <2>2, <2>4, <2>5, Answers
<1>10. ASSUME Answer PROVE URB!Next \/ UNCHANGED URB!urbVars
  <2>1. /\ pc = "answer" /\ SendAnswer(submit[ep], tx[ep]) /\ pc' \in {"zlp", "poll"}
        /\ nextSeq' = nextSeq /\ first' = first /\ intrIn' = intrIn
        /\ hostReady' = hostReady \ {ep}
    BY <1>10 DEF Answer, link
  <2> DEFINE q == submit[ep].seq
  <2>2. q \in 1..(nextSeq - 1) /\ \A e \in hostReady : intrIn[e].seq # q
    BY <2>1, <1>n DEF Apart, TypeOK
  <2>3. hostReady' = hostReady
    BY <1>t, <2>1 DEF WholeBuffer
  <2>4. Outstanding = {intrIn[e].seq : e \in hostReady} \cup {q}
        /\ Outstanding' = {intrIn[e].seq : e \in hostReady}
    BY <2>1, <2>3 DEF Outstanding, Connected, Serving
  <2>5. q \in Outstanding /\ Outstanding' = Outstanding \ {q}
    BY <2>2, <2>4
  <2>6. pc \in Serving /\ pc' \in Serving /\ submit[ep] \in Urb
    BY <1>t, <2>1 DEF Serving
  <2> QED
    BY <2>1, <2>2, <2>5, <2>6, Answers
<1>11. ASSUME CompleteBulkIn PROVE URB!Next \/ UNCHANGED URB!urbVars
  BY <1>11, Unseen DEF CompleteBulkIn, Serving, link, requests
<1>12. ASSUME IntrAnswer PROVE URB!Next \/ UNCHANGED URB!urbVars
  <2> DEFINE data == <<tx[ep][txPos[ep] + 1]>>
             q == intrIn[ep].seq
  <2>1. /\ pc = "intr" /\ SendAnswer(intrIn[ep], data) /\ pc' = "poll"
        /\ nextSeq' = nextSeq /\ first' = first /\ intrIn' = intrIn
        /\ (Drained(ep) => hostReady' = hostReady \ {ep})
    BY <1>12 DEF IntrAnswer, link
  <2>2. ep \in IntrEps /\ ep \in hostReady /\ txPos[ep] \in 0..(Len(tx[ep]) - 1)
    BY <2>1, NextReport
  <2>3. Drained(ep)
    <3>1. Len(tx[ep]) \in Nat /\ Len(tx[ep]) <= 1
      BY <1>t, <2>2 DEF OneReportEach
    <3> QED
      BY <2>2, <3>1 DEF Drained
  <2>4. q \in 1..(nextSeq - 1) /\ \A e \in hostReady : intrIn[e].seq = q => e = ep
    BY <1>n, <2>2 DEF Apart
  <2>5. Outstanding = {intrIn[e].seq : e \in hostReady}
        /\ Outstanding' = {intrIn[e].seq : e \in hostReady \ {ep}}
    BY <2>1, <2>3 DEF Outstanding, Connected, Serving
  <2>6. q \in Outstanding /\ Outstanding' = Outstanding \ {q}
    BY <2>2, <2>4, <2>5
  <2>7. pc \in Serving /\ pc' \in Serving /\ intrIn[ep] \in Urb
    BY <1>t, <2>1 DEF Serving
  <2> HIDE DEF data
  <2> QED
    BY <2>1, <2>4, <2>6, <2>7, Answers
<1>13. ASSUME NEW s \in 1..MaxSeq, Unlink(s) PROVE URB!Next \/ UNCHANGED URB!urbVars
  <2>1. /\ pc = "poll" /\ pc' = pc /\ s \in first..(nextSeq - 1) /\ intrIn' = intrIn
        /\ hostReady' = hostReady \ Matched(s) /\ nextSeq' = nextSeq /\ first' = first
    BY <1>13 DEF Unlink, StillReady, link
  <2>2. Outstanding = {intrIn[e].seq : e \in hostReady}
        /\ Outstanding' = {intrIn[e].seq : e \in hostReady \ Matched(s)}
    BY <2>1 DEF Outstanding, Connected, Serving
  <2>3. Outstanding' = Outstanding \ {s}
    BY <1>t, <2>2 DEF Matched
  <2>4. Log' = Append(Log, [kind |-> UnlinkKind(s), seq |-> s])
    BY <1>13, UnlinkLogs
  <2>5. Connected /\ Connected'
    BY <2>1 DEF Connected, Serving
  <2>6. CASE Matched(s) # {}
    <3>1. UnlinkKind(s) = "unlinked"
      BY <2>6 DEF UnlinkKind
    <3> QED
      BY <2>1, <2>3, <2>4, <2>5, <3>1 DEF URB!Next, URB!Cancel, Connected
  <2>7. CASE Matched(s) = {}
    <3>1. UnlinkKind(s) = "completed"
      BY <2>7 DEF UnlinkKind
    <3>2. s \notin Outstanding
      BY <1>t, <2>2, <2>7 DEF Matched
    <3>3. Outstanding' = Outstanding
      BY <2>3, <3>2
    <3> QED
      BY <2>1, <2>4, <2>5, <3>1, <3>2, <3>3 DEF URB!Next, URB!NothingToCancel, Connected
  <2> QED
    BY <2>6, <2>7
<1>14. ASSUME NEW e \in Eps, Transmit(e) PROVE URB!Next \/ UNCHANGED URB!urbVars
  BY <1>14, Unseen DEF Transmit, link, requests
<1>15. ASSUME NEW e \in Eps, TransmitEmpty(e) PROVE URB!Next \/ UNCHANGED URB!urbVars
  BY <1>15, Unseen DEF TransmitEmpty, link, requests
<1>16. ASSUME UNCHANGED vars PROVE URB!Next \/ UNCHANGED URB!urbVars
  BY <1>16, Unseen DEF vars, link, requests
<1> QED
  BY <1>1, <1>2, <1>3, <1>4, <1>5, <1>6, <1>7, <1>8, <1>9, <1>10, <1>11, <1>12, <1>13, <1>14,
     <1>15, <1>16
  DEF Next

\* For any number of connections, requests and reports, this server too answers each
\* request at most once and not after its cancellation, as long as no two reports are
\* buffered together and no client leaves a request parked behind it.
THEOREM ImplementsUrbService == Spec => UrbServiceSpec
<1>1. Init => URB!Init
  <2> SUFFICES ASSUME Init PROVE URB!Init
    OBVIOUS
  <2>1. first..(nextSeq - 1) = {} /\ Outstanding = {} /\ Log = <<>> /\ ~Connected
    BY DEF Init, Connected, Serving, Outstanding, Log
  <2> QED
    BY <2>1 DEF URB!Init, Connected
<1> QED
  BY <1>1, NumbersAlways, RefinesStep, PTL DEF Spec, UrbServiceSpec
-----------------------------------------------------------------------------
(* Without piled up reports, an answer comes first.                        *)

\* The host has heard nothing yet of the request being handled.
Unheard == pc \in {"payload", "ack", "answer"} => submit[ep].seq \notin Settled

LEMMA UnheardStep == NumbersInv /\ Unheard /\ [Next]_vars => Unheard'
<1> SUFFICES ASSUME NumbersInv, Unheard, [Next]_vars, pc' \in {"payload", "ack", "answer"}
             PROVE  submit'[ep'].seq \notin Settled'
  BY DEF Unheard
<1>a. ASSUME pc \in {"payload", "ack", "answer"}, submit' = submit, ep' = ep, wire' = wire
      PROVE  submit'[ep'].seq \notin Settled'
  BY <1>a DEF Unheard, Settled
<1>1. ASSUME NEW r \in Requests, SubmitPlain(r) PROVE submit'[ep'].seq \notin Settled'
  <2>1. nextSeq \in Nat /\ UrbOf(r).seq = nextSeq /\ r.ep \in Eps /\ submit \in [Eps -> Urb]
    BY LegacyAssumption, UrbTyped, ConstantsTyped DEF NumbersInv, ServerInv, TypeOK
  <2>2. submit' = [submit EXCEPT ![r.ep] = UrbOf(r)] /\ ep' = r.ep /\ wire' = wire
    BY <1>1 DEF SubmitPlain, Submits
  <2>3. submit'[ep'].seq = nextSeq
    BY <2>1, <2>2
  <2>4. nextSeq \notin Settled
    BY <2>1 DEF NumbersInv, Known, Settled
  <2> QED
    BY <2>2, <2>3, <2>4 DEF Settled
<1>2. ASSUME Payload PROVE submit'[ep'].seq \notin Settled'
  BY <1>2, <1>a DEF Payload, requests
<1>3. ASSUME NEW e \in Eps, Transmit(e) PROVE submit'[ep'].seq \notin Settled'
  BY <1>3, <1>a DEF Transmit, requests
<1>4. ASSUME NEW e \in Eps, TransmitEmpty(e) PROVE submit'[ep'].seq \notin Settled'
  BY <1>4, <1>a DEF TransmitEmpty, requests
<1>5. ASSUME UNCHANGED vars \/ NoClient PROVE submit'[ep'].seq \notin Settled'
  BY <1>5, <1>a DEF vars, NoClient, requests
<1>6. ~(\/ Accept \/ ReadFails \/ WriteFails \/ Close
        \/ \E r \in Requests : SubmitInterruptIn(r)
        \/ Ack \/ Answer \/ CompleteBulkIn \/ IntrAnswer
        \/ \E s \in 1..MaxSeq : Unlink(s))
  BY DEF Accept, ReadFails, WriteFails, Close, SubmitInterruptIn, Ack, Answer,
         CompleteBulkIn, IntrAnswer, Unlink
<1> QED
  BY <1>1, <1>2, <1>3, <1>4, <1>5, <1>6 DEF Next

LogEntry == [kind : {"submit", "unlinked", "completed"}, seq : Nat]

LEMMA LogTyped ==
  ASSUME TypeOK
  PROVE  /\ Len(Log) = Len(wire) /\ Len(wire) \in Nat
         /\ Settled = {Log[i].seq : i \in 1..Len(Log)}
         /\ Log \in Seq(LogEntry)
<1>1. wire \in Seq(Reply)
  BY DEF TypeOK
<1>2. Len(wire) \in Nat /\ Len(Log) = Len(wire)
  BY <1>1 DEF Log
<1>3. \A i \in 1..Len(wire) : wire[i].kind \in {"submit", "unlinked", "completed"} /\ wire[i].urb.seq \in Nat
  <2>1. \A i \in 1..Len(wire) : wire[i] \in Reply
    BY <1>1, ElementOfSeq
  <2>2. \A w \in Reply : w.kind \in {"submit", "unlinked", "completed"} /\ w.urb.seq \in Nat
    BY DEF Reply, Urb
  <2> QED
    BY <2>1, <2>2
<1>4. \A i \in 1..Len(wire) : [kind |-> wire[i].kind, seq |-> wire[i].urb.seq] \in LogEntry
  BY <1>3 DEF LogEntry
<1>5. Log \in Seq(LogEntry)
  BY <1>2, <1>4 DEF Log
<1>6. \A i \in 1..Len(wire) : Log[i].seq = wire[i].urb.seq
  BY DEF Log
<1> QED
  BY <1>2, <1>5, <1>6 DEF Settled

\* A reply keeps the order if an answer is the first.
LEMMA FirstReply ==
  ASSUME TypeOK, AnswerComesFirst, NEW x \in LogEntry, Log' = Append(Log, x),
         x.kind = "submit" => x.seq \notin Settled
  PROVE  AnswerComesFirst'
<1> DEFINE n == Len(Log)
<1>1. n \in Nat /\ Settled = {Log[i].seq : i \in 1..n} /\ Log \in Seq(LogEntry)
  BY LogTyped
<1>2. Len(Log') = n + 1 /\ Log'[n + 1] = x /\ \A i \in 1..n : Log'[i] = Log[i]
  BY <1>1
<1> SUFFICES ASSUME NEW i \in 1..(n + 1), NEW j \in 1..(n + 1), i < j, Log'[i].seq = Log'[j].seq
             PROVE  Log'[j].kind # "submit"
  BY <1>2 DEF AnswerComesFirst, URB!AnswerFirst
<1>3. i \in 1..n /\ Log'[i] = Log[i]
  BY <1>1, <1>2
<1>4. CASE j = n + 1
  BY <1>1, <1>2, <1>3, <1>4
<1>5. CASE j # n + 1
  <2>1. j \in 1..n /\ Log'[j] = Log[j]
    BY <1>1, <1>2, <1>5
  <2> QED
    BY <1>3, <2>1 DEF AnswerComesFirst, URB!AnswerFirst
<1> QED
  BY <1>4, <1>5

LEMMA AnswerFirstStep ==
  NumbersInv /\ Unheard /\ AnswerComesFirst /\ OneReportEach /\ [Next]_vars => AnswerComesFirst'
<1> SUFFICES ASSUME NumbersInv, Unheard, AnswerComesFirst, OneReportEach, [Next]_vars
             PROVE  AnswerComesFirst'
  OBVIOUS
<1>t. /\ TypeOK /\ submit[ep] \in Urb /\ intrIn[ep] \in Urb
      /\ submit[ep].seq \in Nat /\ intrIn[ep].seq \in Nat
      /\ \A e \in Eps : Len(tx[e]) \in Nat
  <2>1. TypeOK
    BY DEF NumbersInv, ServerInv
  <2>2. submit[ep] \in Urb /\ intrIn[ep] \in Urb /\ \A e \in Eps : tx[e] \in Seq(Nat)
    BY <2>1 DEF TypeOK
  <2>3. \A u \in Urb : u.seq \in Nat
    BY DEF Urb
  <2> QED
    BY <2>1, <2>2, <2>3
<1>e. ASSUME NEW q \in Nat, NEW kind \in {"submit", "unlinked", "completed"}
      PROVE  [kind |-> kind, seq |-> q] \in LogEntry
  BY DEF LogEntry
<1>a. ASSUME wire' = wire PROVE AnswerComesFirst'
  <2>1. Log' = Log
    BY <1>a DEF Log
  <2> QED
    BY <2>1 DEF AnswerComesFirst, URB!AnswerFirst
<1>1. ASSUME Accept PROVE AnswerComesFirst'
  <2>1. wire' = <<>>
    BY <1>1 DEF Accept
  <2> QED
    BY <2>1 DEF AnswerComesFirst, URB!AnswerFirst, Log
<1>2. ASSUME Ack PROVE AnswerComesFirst'
  <2>1. SendAnswer(submit[ep], <<>>) /\ submit[ep].seq \notin Settled
    BY <1>2 DEF Ack, Unheard
  <2>2. Log' = Append(Log, [kind |-> "submit", seq |-> submit[ep].seq])
    BY <1>t, <2>1, SendLogs
  <2> QED
    BY <1>t, <1>e, <2>1, <2>2, FirstReply
<1>3. ASSUME Answer PROVE AnswerComesFirst'
  <2>1. SendAnswer(submit[ep], tx[ep]) /\ submit[ep].seq \notin Settled
    BY <1>3 DEF Answer, Unheard
  <2>2. Log' = Append(Log, [kind |-> "submit", seq |-> submit[ep].seq])
    BY <1>t, <2>1, SendLogs
  <2> QED
    BY <1>t, <1>e, <2>1, <2>2, FirstReply
<1>4. ASSUME IntrAnswer PROVE AnswerComesFirst'
  <2>1. SendAnswer(intrIn[ep], <<tx[ep][txPos[ep] + 1]>>) /\ ep \in IntrEps /\ ep \in hostReady
    BY <1>4 DEF IntrAnswer, NumbersInv, ServerInv, Interrupting, Ready
  <2>2. Len(tx[ep]) <= 1 /\ Len(tx[ep]) \in Nat
    BY <1>t, <2>1, ConstantsTyped DEF OneReportEach
  <2>3. intrIn[ep].seq \notin Settled
    BY <2>1, <2>2 DEF NumbersInv, Piled
  <2>4. Log' = Append(Log, [kind |-> "submit", seq |-> intrIn[ep].seq])
    BY <1>t, <2>1, SendLogs
  <2> QED
    BY <1>t, <1>e, <2>3, <2>4, FirstReply
<1>5. ASSUME NEW s \in 1..MaxSeq, Unlink(s) PROVE AnswerComesFirst'
  <2>1. Log' = Append(Log, [kind |-> UnlinkKind(s), seq |-> s]) 
        /\ UnlinkKind(s) \in {"unlinked", "completed"}
    BY <1>t, <1>5, UnlinkLogs DEF UnlinkKind
  <2>2. s \in Nat
    OBVIOUS
  <2> QED
    BY <1>t, <1>e, <2>1, <2>2, FirstReply
<1>6. ASSUME \/ NoClient \/ ReadFails \/ WriteFails \/ Close
             \/ \E r \in Requests : SubmitPlain(r) \/ SubmitInterruptIn(r)
             \/ Payload \/ CompleteBulkIn
             \/ \E e \in Eps : Transmit(e) \/ TransmitEmpty(e)
             \/ UNCHANGED vars
      PROVE  AnswerComesFirst'
  <2>1. wire' = wire
    BY <1>6 DEF NoClient, vars, ReadFails, WriteFails, Close, SubmitPlain, SubmitInterruptIn,
                Payload, CompleteBulkIn, Transmit, TransmitEmpty
  <2> QED
    BY <2>1, <1>a
<1> QED
  BY <1>1, <1>2, <1>3, <1>4, <1>5, <1>6 DEF Next

\* Piled up reports are the only way this server answers a request it has answered or
\* cancelled before: as long as no buffer holds two, it does not, for any number of
\* connections and whatever earlier clients left parked.
THEOREM AnswersComeFirst == Spec /\ []OneReportEach => [](AnswerComesFirst /\ AnsweredOnce)
<1>1. Init => Unheard /\ AnswerComesFirst
  <2> SUFFICES ASSUME Init PROVE Unheard /\ AnswerComesFirst
    OBVIOUS
  <2>1. pc = "accept" /\ wire = <<>>
    BY DEF Init
  <2> QED
    BY <2>1 DEF Unheard, AnswerComesFirst, URB!AnswerFirst, Log
<1>2. NumbersInv /\ AnswerComesFirst => AnsweredOnce
  <2> SUFFICES ASSUME NumbersInv, AnswerComesFirst, NEW i \in 1..Len(wire), NEW j \in 1..Len(wire),
                      wire[i].kind = "submit", wire[j].kind = "submit",
                      wire[i].urb.seq = wire[j].urb.seq
               PROVE  i = j
    BY DEF AnsweredOnce
  <2>1. Len(Log) = Len(wire) /\ Len(wire) \in Nat
    BY LogTyped DEF NumbersInv, ServerInv
  <2>2. \A k \in 1..Len(wire) : Log[k].kind = wire[k].kind /\ Log[k].seq = wire[k].urb.seq
    BY DEF Log
  <2>3. ~(i < j) /\ ~(j < i)
    BY <2>1, <2>2 DEF AnswerComesFirst, URB!AnswerFirst
  <2> QED
    BY <2>1, <2>3
<1> QED
  BY <1>1, <1>2, NumbersAlways, UnheardStep, AnswerFirstStep, PTL DEF Spec
=============================================================================
