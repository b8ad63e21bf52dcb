---------------------- MODULE AuroraGearboxProperties -----------------------
(* What the credit protocol of the link guarantees.                        *)
EXTENDS AuroraGearbox

Counters == 0 .. (Modulus - 1)

Words == [control : {0}, idx : {0, 1}, body : Payloads]
         \union [control : {1}, idx : {0}, body : {WindowSize}]

InSeq(q) == {q[i] : i \in 1 .. Len(q)}

(* The registers keep their width, the queues and buffers their types.     *)
TypeOK ==
  \A e \in Ends :
    /\ {maxInFlightUp[e], maxInFlightDown[e], curInQUp[e], curInQDown[e],
        curSendBudgetUp[e], curSendBudgetDown[e]} \subseteq Counters
    /\ Len(packetSendBuffer[e]) <= 1 /\ Len(packetRecvBuffer[e]) <= 1
    /\ InSeq(sendQ[e]) \union InSeq(recvBufferQ[e]) \union InSeq(recvQ[e]) \subseteq Packets
    /\ \A w \in InSeq(auroraOutQ[e]) \union InSeq(auroraInQ[e]) \union InSeq(wire[e]) :
         w.control \in {0, 1} /\ w \in Words

(* The words between the send rule of end e and the receive rule of its    *)
(* peer, the first to arrive first.                                        *)
OnTheWay(e) == auroraInQ[Peer(e)] \o wire[Peer(e)] \o auroraOutQ[e]

IsCredit(w) == w.control = 1
IsSecond(w) == w.control = 0 /\ w.idx = 1

Count(q, Test(_)) == Cardinality({i \in 1 .. Len(q) : Test(q[i])})

(* What the receiver believes to be in flight is the sender's budget, the  *)
(* credit still to arrive there and the packets whose second half still has*)
(* to arrive here.                                                         *)
InFlightIsOwed(e) ==
  LET p == Peer(e) IN
  InFlight(e) = Budget(p) + WindowSize * (Len(flowControlQ[e]) + Count(OnTheWay(e), IsCredit))
                + Count(OnTheWay(p), IsSecond)

(* Credit is conserved, across the wrap of the six counters: the counts the*)
(* grant of a window is decided by (emitFlowControlPacket) agree with what *)
(* is granted and not yet received, and with what is stored.               *)
CreditConserved ==
  \A e \in Ends : InFlightIsOwed(e) /\ InQ(e) = Len(recvBufferQ[e])

(* The receive rule never waits: when a completing half is at the head of  *)
(* auroraInQ there is room in recvBufferQ.  The link cannot be told to     *)
(* wait, so a full buffer would lose words.                                *)
RxNeverStalls ==
  \A e \in Ends : NotEmpty(auroraInQ[e]) /\ Head(auroraInQ[e]).control = 0 /\ Completes(e)
                    => NotFull(recvBufferQ[e], RecvQDepth)

(* No packet is sent without credit, and credit is room at the receiver.   *)
CreditIsRoom == CreditConserved /\ RxNeverStalls

-----------------------------------------------------------------------------
(* The link as its users see it: the packets stored at the receiver, those *)
(* begun, and those not begun.  The halves of the packets begun are the one*)
(* the receiver keeps, the ones on the way between words of credit, and the*)
(* one the sender has still to send; two of them make a packet.            *)
DataPlaces(q) == {i \in 1 .. Len(q) : q[i].control = 0}

Bodies[q \in Seq(Words)] ==
  LET places  == DataPlaces(q)
      Rank(i) == Cardinality({j \in places : j <= i})
  IN [k \in 1 .. Cardinality(places) |-> q[CHOOSE i \in places : Rank(i) = k].body]

HalvesBegun(e) ==
  packetRecvBuffer[e] \o Bodies[OnTheWay(Peer(e))] \o packetSendBuffer[Peer(e)]

Packed[h \in Seq(Payloads)] ==
  [k \in 1 .. ((Len(h) + 1) \div 2) |->
     [lo |-> h[2 * k - 1], hi |-> IF 2 * k <= Len(h) THEN h[2 * k] ELSE "no second half"]]

AbsChan == [e \in Ends |-> recvQ[e] \o recvBufferQ[e] \o Packed[HalvesBegun(e)] \o sendQ[Peer(e)]]

Link == INSTANCE LinkSpec WITH chan <- AbsChan

(* The gearboxes with their credit, their two words per packet and their   *)
(* queues implement a link that loses, duplicates and reorders nothing.    *)
ImplementsLink == Link!Spec

(* Whatever was given to the link arrives: credit is never lost and never  *)
(* withheld, even when both ends send at full rate (emitFlowControlPacket).*)
EverythingArrives == \A e \in Ends : sendQ[e] # <<>> ~> recvQ[Peer(e)] # <<>>
=============================================================================
