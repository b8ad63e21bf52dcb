---------------------------- MODULE AuroraGearbox ---------------------------
(***************************************************************************)
(* The credit protocol of the serial link between the boards               *)
(* (lib/AuroraGearbox.bsv): two gearboxes, one at each end.  A packet is   *)
(* sent as two words.  The receiver grants credit in windows of            *)
(* WindowSize packets and keeps count, in 16-bit registers that wrap, of   *)
(* what it granted and what it still stores; words of credit are sent      *)
(* between the words of data.  The link itself (Aurora IP) delivers every  *)
(* word in order but cannot be told to wait.                               *)
(*                                                                         *)
(* A packet is a record of its two halves; the type field goes with them.  *)
(* The FIFOs that cross clock domains show a change a few cycles late,     *)
(* which is a delay of the action that waits for it.                       *)
(***************************************************************************)
EXTENDS BsvFifo, Integers, FiniteSets

CONSTANTS
  Ends,          (* the two ends of the link                               *)
  Senders,       (* the ends whose board sends packets                     *)
  Payloads,      (* what a half of a packet may hold                       *)
  RecvQDepth,    (* 128, the depth of recvBufferQ                          *)
  ReadQDepth,    (* 128, the depth of recvQ, no matter to the credit       *)
  WindowSize,    (* 64                                                     *)
  Modulus,       (* 2^16: the counters wrap                                *)
  SendQDepth,    (* 4                                                      *)
  WireDepth      (* bound: words on the wire at once                       *)

(* The sum in emitFlowControlPacket must not wrap: a window besides all    *)
(* that is granted and stored is counted in one register.                  *)
ASSUME GearboxAssumption ==
  /\ IsFiniteSet(Ends) /\ Cardinality(Ends) = 2 /\ Senders \subseteq Ends
  /\ WindowSize \in Nat \ {0} /\ RecvQDepth \in Nat /\ Modulus \in Nat
  /\ WindowSize < RecvQDepth /\ RecvQDepth + WindowSize <= Modulus
  /\ SendQDepth \in Nat \ {0} /\ ReadQDepth \in Nat \ {0} /\ WireDepth \in Nat \ {0}

VARIABLES
  sendQ, recvQ, recvBufferQ, flowControlQ, auroraOutQ, auroraInQ,
  maxInFlightUp, maxInFlightDown, curInQUp, curInQDown,
  curSendBudgetUp, curSendBudgetDown,
  packetSendBuffer, packetRecvBuffer,   (* <<>> or <<the half kept>>        *)
  wire                                  (* wire[e]: words on the way to e   *)

sendSide == <<sendQ, packetSendBuffer, auroraOutQ, curSendBudgetDown>>
recvSide == <<recvBufferQ, packetRecvBuffer, auroraInQ, maxInFlightDown, curInQUp,
              curSendBudgetUp>>
vars == <<sendSide, recvSide, recvQ, flowControlQ, maxInFlightUp, curInQDown, wire>>

Peer(e) == CHOOSE p \in Ends : p # e

(* Both halves carry the mark of their packet: the halves of two packets   *)
(* put together are no packet.                                             *)
Packets == {[lo |-> p, hi |-> p] : p \in Payloads}
LoWord(p) == [control |-> 0, idx |-> 0, body |-> p.lo]
HiWord(h) == [control |-> 0, idx |-> 1, body |-> h]
CreditWord(n) == [control |-> 1, idx |-> 0, body |-> n]

(* Subtraction and addition of the 16-bit registers.                       *)
(* PlusWide: a mutant whose registers do not wrap.                         *)
PlusWide(a, b) == a + b

Plus(a, b)  == (a + b) % Modulus
Minus(a, b) == (a - b) % Modulus

InFlight(e) == Minus(maxInFlightUp[e], maxInFlightDown[e])
InQ(e)      == Minus(curInQUp[e], curInQDown[e])
Budget(e)   == Minus(curSendBudgetUp[e], curSendBudgetDown[e])

Enq(q, e, x) == [q EXCEPT ![e] = Append(@, x)]
Deq(q, e)    == [q EXCEPT ![e] = Tail(@)]

-----------------------------------------------------------------------------
NoWords == [e \in Ends |-> <<>>]
Zero    == [e \in Ends |-> 0]

Init ==
  /\ sendQ = NoWords /\ recvQ = NoWords /\ recvBufferQ = NoWords
  /\ flowControlQ = NoWords /\ auroraOutQ = NoWords /\ auroraInQ = NoWords
  /\ packetSendBuffer = NoWords /\ packetRecvBuffer = NoWords
  /\ wire = NoWords
  /\ maxInFlightUp = Zero /\ maxInFlightDown = Zero
  /\ curInQUp = Zero /\ curInQDown = Zero
  /\ curSendBudgetUp = Zero /\ curSendBudgetDown = Zero

Send(e, p) ==
  /\ NotFull(sendQ[e], SendQDepth)
  /\ sendQ' = Enq(sendQ, e, p)
  /\ UNCHANGED <<packetSendBuffer, auroraOutQ, curSendBudgetDown, recvSide, recvQ,
                 flowControlQ, maxInFlightUp, curInQDown, wire>>

Recv(e) ==
  /\ NotEmpty(recvQ[e])
  /\ recvQ' = Deq(recvQ, e)
  /\ UNCHANGED <<sendSide, recvSide, flowControlQ, maxInFlightUp, curInQDown, wire>>

(* A mutant: the packets that are stored are not counted.                  *)
MayGrantForgetsStored(e) == Plus(InFlight(e), WindowSize) < RecvQDepth

(* Room for a whole window besides all that was granted and is stored.     *)
MayGrant(e) == Plus(Plus(InFlight(e), InQ(e)), WindowSize) < RecvQDepth

EmitFlowControlPacket(e) ==
  /\ MayGrant(e)
  /\ NotFull(flowControlQ[e], MkFIFO)
  /\ flowControlQ' = Enq(flowControlQ, e, WindowSize)
  /\ maxInFlightUp' = [maxInFlightUp EXCEPT ![e] = Plus(@, WindowSize)]
  /\ UNCHANGED <<sendSide, recvSide, recvQ, curInQDown, wire>>

-----------------------------------------------------------------------------
(* rule sendPacketPart: credit first, then the second half of a packet,    *)
(* then the first half of the next one.                                    *)

SendCredit(e) ==
  /\ NotEmpty(flowControlQ[e])
  /\ NotFull(auroraOutQ[e], MkFIFO)
  /\ flowControlQ' = Deq(flowControlQ, e)
  /\ auroraOutQ' = Enq(auroraOutQ, e, CreditWord(Head(flowControlQ[e])))
  /\ UNCHANGED <<sendQ, packetSendBuffer, curSendBudgetDown, recvSide, recvQ,
                 maxInFlightUp, curInQDown, wire>>

MaySend(e) == flowControlQ[e] = <<>> /\ Budget(e) > 0 /\ NotFull(auroraOutQ[e], MkFIFO)

Spend(e) == curSendBudgetDown' = [curSendBudgetDown EXCEPT ![e] = Plus(@, 1)]

SendSecondHalf(e) ==
  /\ MaySend(e)
  /\ packetSendBuffer[e] # <<>>
  /\ auroraOutQ' = Enq(auroraOutQ, e, HiWord(packetSendBuffer[e][1]))
  /\ packetSendBuffer' = [packetSendBuffer EXCEPT ![e] = <<>>]
  /\ Spend(e)
  /\ UNCHANGED <<sendQ, recvSide, recvQ, flowControlQ, maxInFlightUp, curInQDown, wire>>

SendFirstHalf(e) ==
  /\ MaySend(e)
  /\ packetSendBuffer[e] = <<>>
  /\ NotEmpty(sendQ[e])
  /\ sendQ' = Deq(sendQ, e)
  /\ auroraOutQ' = Enq(auroraOutQ, e, LoWord(Head(sendQ[e])))
  /\ packetSendBuffer' = [packetSendBuffer EXCEPT ![e] = <<Head(sendQ[e]).hi>>]
  /\ UNCHANGED <<curSendBudgetDown, recvSide, recvQ, flowControlQ, maxInFlightUp,
                 curInQDown, wire>>

-----------------------------------------------------------------------------
(* The link: auroraSend at one end, auroraRecv at the other.  The word is  *)
(* only taken when auroraInQ has room: see RxNeverStalls.                  *)

WireTake(e) ==
  /\ NotEmpty(auroraOutQ[e])
  /\ Len(wire[Peer(e)]) < WireDepth
  /\ auroraOutQ' = Deq(auroraOutQ, e)
  /\ wire' = Enq(wire, Peer(e), Head(auroraOutQ[e]))
  /\ UNCHANGED <<sendQ, packetSendBuffer, curSendBudgetDown, recvSide, recvQ,
                 flowControlQ, maxInFlightUp, curInQDown>>

WireGive(e) ==
  /\ NotEmpty(wire[e])
  /\ NotFull(auroraInQ[e], MkFIFO)
  /\ wire' = Deq(wire, e)
  /\ auroraInQ' = Enq(auroraInQ, e, Head(wire[e]))
  /\ UNCHANGED <<sendSide, recvBufferQ, packetRecvBuffer, maxInFlightDown, curInQUp,
                 curSendBudgetUp, recvQ, flowControlQ, maxInFlightUp, curInQDown>>

-----------------------------------------------------------------------------
(* rule recvPacketPart.                                                    *)

(* A mutant: a word of credit between two halves drops the first one.      *)
HalfKeptNot(e) == packetRecvBuffer' = [packetRecvBuffer EXCEPT ![e] = <<>>]

HalfKept(e) == UNCHANGED packetRecvBuffer

RecvCredit(e) ==
  /\ NotEmpty(auroraInQ[e]) /\ Head(auroraInQ[e]).control = 1
  /\ auroraInQ' = Deq(auroraInQ, e)
  /\ curSendBudgetUp' = [curSendBudgetUp EXCEPT ![e] = Plus(@, Head(auroraInQ[e]).body)]
  /\ HalfKept(e)
  /\ UNCHANGED <<sendSide, recvBufferQ, maxInFlightDown, curInQUp,
                 recvQ, flowControlQ, maxInFlightUp, curInQDown, wire>>

(* The second half completes the packet.                                   *)
Completes(e) == packetRecvBuffer[e] # <<>> /\ Head(auroraInQ[e]).idx = 1

(* A mutant: the packet is acknowledged and not stored.                    *)
StoreNot(e, p) == UNCHANGED <<recvBufferQ, curInQUp>>

Store(e, p) ==
  /\ recvBufferQ' = Enq(recvBufferQ, e, p)
  /\ curInQUp' = [curInQUp EXCEPT ![e] = Plus(@, 1)]

RecvSecondHalf(e) ==
  /\ NotEmpty(auroraInQ[e]) /\ Head(auroraInQ[e]).control = 0
  /\ Completes(e)
  /\ NotFull(recvBufferQ[e], RecvQDepth)
  /\ auroraInQ' = Deq(auroraInQ, e)
  /\ packetRecvBuffer' = [packetRecvBuffer EXCEPT ![e] = <<>>]
  /\ Store(e, [lo |-> packetRecvBuffer[e][1], hi |-> Head(auroraInQ[e]).body])
  /\ maxInFlightDown' = [maxInFlightDown EXCEPT ![e] = Plus(@, 1)]
  /\ UNCHANGED <<sendSide, curSendBudgetUp, recvQ, flowControlQ, maxInFlightUp, curInQDown, wire>>

(* A first half is kept, in place of one that is there; a second half      *)
(* without a first one is dropped.                                         *)
RecvFirstHalf(e) ==
  /\ NotEmpty(auroraInQ[e]) /\ Head(auroraInQ[e]).control = 0
  /\ ~Completes(e)
  /\ auroraInQ' = Deq(auroraInQ, e)
  /\ packetRecvBuffer' = IF Head(auroraInQ[e]).idx = 0
                         THEN [packetRecvBuffer EXCEPT ![e] = <<Head(auroraInQ[e]).body>>]
                         ELSE packetRecvBuffer
  /\ UNCHANGED <<sendSide, recvBufferQ, maxInFlightDown, curInQUp, curSendBudgetUp,
                 recvQ, flowControlQ, maxInFlightUp, curInQDown, wire>>

FlushReadBuffer(e) ==
  /\ NotEmpty(recvBufferQ[e])
  /\ NotFull(recvQ[e], ReadQDepth)
  /\ recvBufferQ' = Deq(recvBufferQ, e)
  /\ recvQ' = Enq(recvQ, e, Head(recvBufferQ[e]))
  /\ curInQDown' = [curInQDown EXCEPT ![e] = Plus(@, 1)]
  /\ UNCHANGED <<sendSide, packetRecvBuffer, auroraInQ, maxInFlightDown, curInQUp,
                 curSendBudgetUp, flowControlQ, maxInFlightUp, wire>>

-----------------------------------------------------------------------------
Rules(e) ==
  \/ EmitFlowControlPacket(e)
  \/ SendCredit(e) \/ SendSecondHalf(e) \/ SendFirstHalf(e)
  \/ WireTake(e) \/ WireGive(e)
  \/ RecvCredit(e) \/ RecvSecondHalf(e) \/ RecvFirstHalf(e)
  \/ FlushReadBuffer(e)

Next ==
  \/ \E e \in Ends : Rules(e) \/ Recv(e)
  \/ \E e \in Senders, p \in Packets : Send(e, p)

Spec == Init /\ [][Next]_vars

(* Hardware rules fire when they can, and the receiver reads what arrives. *)
(* Credit has priority over data.  The peer spends two words on each packet*)
(* of a window before this end grants another, so flowControlQ is empty    *)
(* again and again and data is sent: strong fairness for it.               *)
Fairness ==
  \A e \in Ends :
    /\ WF_vars(EmitFlowControlPacket(e))
    /\ WF_vars(SendCredit(e)) /\ SF_vars(SendSecondHalf(e) \/ SendFirstHalf(e))
    /\ WF_vars(WireTake(e)) /\ WF_vars(WireGive(e))
    /\ WF_vars(RecvCredit(e) \/ RecvSecondHalf(e) \/ RecvFirstHalf(e))
    /\ WF_vars(FlushReadBuffer(e)) /\ WF_vars(Recv(e))

FairSpec == Spec /\ Fairness
=============================================================================
