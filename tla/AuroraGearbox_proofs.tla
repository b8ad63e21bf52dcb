------------------------ MODULE AuroraGearbox_proofs ------------------------
(***************************************************************************)
(* Proofs about the credit protocol of the link, for every window, depth   *)
(* and width of the counters: credit is conserved across the wrap of the   *)
(* counters, the receive rule always finds room, and a packet is put       *)
(* together from its own two halves.  With their credit, their two words   *)
(* per packet and their queues the two gearboxes implement LinkSpec: a link*)
(* that loses, duplicates and reorders nothing.                            *)
(***************************************************************************)
EXTENDS AuroraGearboxProperties, QueueLemmas, FiniteSetTheorems

Halves == {<<>>} \union {<<p>> : p \in Payloads}

Typed ==
  /\ sendQ \in [Ends -> Seq(Packets)] /\ recvQ \in [Ends -> Seq(Packets)]
  /\ recvBufferQ \in [Ends -> Seq(Packets)]
  /\ flowControlQ \in [Ends -> Seq({WindowSize})]
  /\ auroraOutQ \in [Ends -> Seq(Words)] /\ auroraInQ \in [Ends -> Seq(Words)]
  /\ wire \in [Ends -> Seq(Words)]
  /\ maxInFlightUp \in [Ends -> Counters] /\ maxInFlightDown \in [Ends -> Counters]
  /\ curInQUp \in [Ends -> Counters] /\ curInQDown \in [Ends -> Counters]
  /\ curSendBudgetUp \in [Ends -> Counters] /\ curSendBudgetDown \in [Ends -> Counters]
  /\ packetSendBuffer \in [Ends -> Halves] /\ packetRecvBuffer \in [Ends -> Halves]

-----------------------------------------------------------------------------
(* Credit.                                                                 *)

InFlightOwed == \A e \in Ends : InFlightIsOwed(e)

StoredCounted == \A e \in Ends : InQ(e) = Len(recvBufferQ[e])

(* What was granted and what is stored fits into the receive buffer.       *)
RoomForGranted == \A e \in Ends : InFlight(e) + InQ(e) < RecvQDepth

-----------------------------------------------------------------------------
(* The two halves of a packet.                                             *)

(* Word w fits a receiver that keeps r; what it keeps after the word.      *)
Fits(r, w) == w.control = 0 => IF r = <<>> THEN w.idx = 0 ELSE w.idx = 1 /\ w.body = r[1]

After(r, w) == IF w.control = 1 THEN r ELSE IF w.idx = 0 THEN <<w.body>> ELSE <<>>

(* The words q take a receiver that keeps r to s, the first half that the  *)
(* sender has sent without its second.                                     *)
Paired(r, q, s) ==
  \E f \in [0 .. Len(q) -> Halves] :
    /\ f[0] = r /\ f[Len(q)] = s
    /\ \A k \in 1 .. Len(q) : Fits(f[k - 1], q[k]) /\ f[k] = After(f[k - 1], q[k])

HalvesPaired ==
  \A e \in Ends : Paired(packetRecvBuffer[Peer(e)], OnTheWay(e), packetSendBuffer[e])

(* The inductive invariant.                                                *)
IInv == Typed /\ InFlightOwed /\ StoredCounted /\ RoomForGranted /\ HalvesPaired

-----------------------------------------------------------------------------
(* The two ends.                                                           *)

(* Each end has one peer, whose peer it is.                                *)
LEMMA Peers ==
  ASSUME NEW e \in Ends
  PROVE  /\ Peer(e) \in Ends /\ Peer(e) # e /\ Peer(Peer(e)) = e
         /\ \A x \in Ends : x # e => x = Peer(e)
<1>1. Cardinality(Ends \ {e}) = 1 /\ IsFiniteSet(Ends \ {e})
  BY GearboxAssumption, FS_RemoveElement
<1>2. PICK p : Ends \ {e} = {p}
  BY <1>1, FS_Singleton
<1>3. p \in Ends /\ p # e /\ \A x \in Ends : x = e \/ x = p
  BY <1>2
<1>4. Peer(e) = p
  BY <1>3 DEF Peer
<1>5. Peer(p) = e
  BY <1>3 DEF Peer
<1> QED
  BY <1>3, <1>4, <1>5

-----------------------------------------------------------------------------
(* The arithmetic of the registers.                                        *)

(* The value of a sum or difference that leaves the range once at most.    *)
LEMMA WrapOnce ==
  ASSUME NEW x \in Int, -Modulus <= x, x < 2 * Modulus
  PROVE  x % Modulus = IF x < 0 THEN x + Modulus ELSE IF x < Modulus THEN x ELSE x - Modulus
<1>1. Modulus \in Nat \ {0}
  BY GearboxAssumption
<1> DEFINE q == x \div Modulus
           r == x % Modulus
<1>2. q \in Int /\ r \in 0 .. Modulus - 1 /\ x = q * Modulus + r
  BY <1>1
<1> HIDE DEF q, r
<1>3. CASE q <= -2
  <2>1. q * Modulus <= (-2) * Modulus
    BY <1>1, <1>2, <1>3
  <2> QED
    BY <1>1, <1>2, <2>1
<1>4. CASE q >= 2
  <2>1. q * Modulus >= 2 * Modulus
    BY <1>1, <1>2, <1>4
  <2> QED
    BY <1>1, <1>2, <2>1
<1>5. CASE q = -1
  BY <1>1, <1>2, <1>5 DEF r
<1>6. CASE q = 0
  BY <1>1, <1>2, <1>6 DEF r
<1>7. CASE q = 1
  BY <1>1, <1>2, <1>7 DEF r
<1> QED
  BY <1>2, <1>3, <1>4, <1>5, <1>6, <1>7

(* A difference of two counters, and what it is when one of them counts on.*)
LEMMA CountersCountOn ==
  ASSUME NEW a \in Counters, NEW b \in Counters, NEW n \in 0 .. Modulus - 1
  PROVE  /\ Minus(a, b) \in Counters /\ Plus(a, n) \in Counters
         /\ Minus(a, b) + n < Modulus => Minus(Plus(a, n), b) = Minus(a, b) + n
         /\ n <= Minus(a, b) => Minus(a, Plus(b, n)) = Minus(a, b) - n
<1>1. Modulus \in Nat \ {0} /\ a \in 0 .. Modulus - 1 /\ b \in 0 .. Modulus - 1
  BY GearboxAssumption DEF Counters
<1>2. Minus(a, b) = IF a < b THEN (a - b) + Modulus ELSE a - b
  BY <1>1, WrapOnce DEF Minus
<1>3. \A x \in 0 .. Modulus - 1 : Plus(x, n) = IF x + n < Modulus THEN x + n ELSE (x + n) - Modulus
  BY <1>1, WrapOnce DEF Plus
<1>4. Plus(a, n) \in 0 .. Modulus - 1 /\ Plus(b, n) \in 0 .. Modulus - 1
  BY <1>1, <1>3
<1>5. Minus(Plus(a, n), b) = IF Plus(a, n) < b THEN (Plus(a, n) - b) + Modulus ELSE Plus(a, n) - b
  BY <1>1, <1>4, WrapOnce DEF Minus
<1>6. Minus(a, Plus(b, n)) = IF a < Plus(b, n) THEN (a - Plus(b, n)) + Modulus ELSE a - Plus(b, n)
  BY <1>1, <1>4, WrapOnce DEF Minus
<1> QED
  BY <1>1, <1>2, <1>3, <1>4, <1>5, <1>6 DEF Counters

(* The grant rule counts everything: the sum does not wrap.                *)
LEMMA GrantIsExact ==
  ASSUME NEW i \in Counters, NEW s \in Counters, i + s < RecvQDepth
  PROVE  Plus(Plus(i, s), WindowSize) = i + s + WindowSize
<1>1. /\ Modulus \in Nat /\ WindowSize \in Nat \ {0} /\ RecvQDepth \in Nat
      /\ RecvQDepth + WindowSize <= Modulus /\ i \in Nat /\ s \in Nat
  BY GearboxAssumption DEF Counters
<1>2. Plus(i, s) = i + s
  BY <1>1, WrapOnce DEF Plus
<1> QED
  BY <1>1, <1>2, WrapOnce DEF Plus

-----------------------------------------------------------------------------
(* The words under way as one queue.                                       *)

(* The first of two queues in a row goes first.                            *)
LEMMA HeadOfTwo ==
  ASSUME NEW S, NEW a \in Seq(S), NEW b \in Seq(S), NotEmpty(a)
  PROVE  NotEmpty(a \o b) /\ Head(a \o b) = Head(a) /\ Tail(a \o b) = Tail(a) \o b
<1>1. PICK h \in S, t \in Seq(S) : h = Head(a) /\ t = Tail(a)
  BY Dequeued
<1>2. PICK y \in Seq(S) : y = <<h>>
  <2>1. Append(<<>>, h) \in Seq(S)
    OBVIOUS
  <2>2. Append(<<>>, h) = <<h>>
    OBVIOUS
  <2> QED
    BY <2>1, <2>2
<1>3. a = y \o t
  BY <1>1, <1>2, FirstAndOthers
<1>4. PICK z \in Seq(S) : z = t \o b
  BY ConcatProperties
<1>5. a \o b = y \o z
  BY <1>3, <1>4, ConcatAssociative, SMTT(30)
<1>6. y \o z # <<>> /\ Head(y \o z) = h /\ Tail(y \o z) = z
  BY <1>2, InFront
<1>7. a \o b \in Seq(S)
  BY ConcatProperties
<1> QED
  BY <1>1, <1>4, <1>5, <1>6, <1>7, EmptyIff

(* Three queues in a row, the first one the first to be emptied.           *)
Row(a, b, c) == a \o b \o c

(* Their elements are those of the three.                                  *)
LEMMA RowTyped ==
  ASSUME NEW S, NEW a \in Seq(S), NEW b \in Seq(S), NEW c \in Seq(S)
  PROVE  Row(a, b, c) \in Seq(S)
  BY ConcatProperties DEF Row

(* A word that enters the last queue enters the row.                       *)
LEMMA RowGrows ==
  ASSUME NEW S, NEW a \in Seq(S), NEW b \in Seq(S), NEW c \in Seq(S), NEW w \in S
  PROVE  Row(a, b, Append(c, w)) = Append(Row(a, b, c), w)
<1>1. a \o b \in Seq(S) /\ a \o b \o c \in Seq(S)
  BY ConcatProperties
<1>2. Append(c, w) = c \o <<w>> /\ Append(a \o b \o c, w) = (a \o b \o c) \o <<w>>
  BY <1>1, AppendIsConcat
<1>3. (a \o b) \o (c \o <<w>>) = ((a \o b) \o c) \o <<w>>
  BY <1>1, ConcatAssociative
<1> QED
  BY <1>2, <1>3 DEF Row

(* A word that moves on from the last to the second stays where it is.     *)
LEMMA LastMovesOn ==
  ASSUME NEW S, NEW a \in Seq(S), NEW b \in Seq(S), NEW c \in Seq(S), NotEmpty(c)
  PROVE  Row(a, Append(b, Head(c)), Tail(c)) = Row(a, b, c)
<1>1. a \o b \in Seq(S)
  BY ConcatProperties
<1>2. PICK h \in S, t \in Seq(S) : h = Head(c) /\ t = Tail(c)
  BY Dequeued
<1>3. c = <<h>> \o t
  BY <1>2, FirstAndOthers
<1>4. Append(b, h) = b \o <<h>>
  BY AppendIsConcat
<1>5. a \o (b \o <<h>>) = (a \o b) \o <<h>>
  BY ConcatAssociative
<1>6. ((a \o b) \o <<h>>) \o t = (a \o b) \o (<<h>> \o t)
  BY <1>1, ConcatAssociative, SMTT(30)
<1> QED
  BY <1>2, <1>3, <1>4, <1>5, <1>6 DEF Row

(* So does one that moves on from the second to the first.                 *)
LEMMA SecondMovesOn ==
  ASSUME NEW S, NEW a \in Seq(S), NEW b \in Seq(S), NEW c \in Seq(S), NotEmpty(b)
  PROVE  Row(Append(a, Head(b)), Tail(b), c) = Row(a, b, c)
<1>1. PICK h \in S, t \in Seq(S) : h = Head(b) /\ t = Tail(b)
  BY Dequeued
<1>2. b = <<h>> \o t
  BY <1>1, FirstAndOthers
<1>3. Append(a, h) = a \o <<h>>
  BY AppendIsConcat
<1>4. (a \o <<h>>) \o t = a \o (<<h>> \o t)
  BY ConcatAssociative
<1> QED
  BY <1>1, <1>2, <1>3, <1>4 DEF Row

(* The first word of the first queue is the first of the row.              *)
LEMMA RowShrinks ==
  ASSUME NEW S, NEW a \in Seq(S), NEW b \in Seq(S), NEW c \in Seq(S), NotEmpty(a)
  PROVE  /\ NotEmpty(Row(a, b, c)) /\ Head(Row(a, b, c)) = Head(a)
         /\ Tail(Row(a, b, c)) = Row(Tail(a), b, c)
<1>1. NotEmpty(a \o b) /\ Head(a \o b) = Head(a) /\ Tail(a \o b) = Tail(a) \o b
  BY HeadOfTwo
<1>2. PICK x \in Seq(S) : x = a \o b
  BY ConcatProperties
<1>3. NotEmpty(x \o c) /\ Head(x \o c) = Head(x) /\ Tail(x \o c) = Tail(x) \o c
  BY <1>1, <1>2, HeadOfTwo
<1>4. Row(a, b, c) = x \o c /\ Row(Tail(a), b, c) = Tail(x) \o c
  BY <1>1, <1>2 DEF Row
<1> QED
  BY <1>1, <1>2, <1>3, <1>4

-----------------------------------------------------------------------------
(* The words between the two ends, and what the steps do to them.          *)

(* What is under way from an end is a row of three queues.                *)
LEMMA WayParts ==
  ASSUME Typed, NEW e \in Ends
  PROVE  /\ auroraInQ[Peer(e)] \in Seq(Words) /\ wire[Peer(e)] \in Seq(Words)
         /\ auroraOutQ[e] \in Seq(Words)
         /\ OnTheWay(e) = Row(auroraInQ[Peer(e)], wire[Peer(e)], auroraOutQ[e])
         /\ OnTheWay(e) \in Seq(Words)
<1>1. /\ auroraInQ[Peer(e)] \in Seq(Words) /\ wire[Peer(e)] \in Seq(Words)
      /\ auroraOutQ[e] \in Seq(Words)
  BY Peers DEF Typed
<1>2. OnTheWay(e) = Row(auroraInQ[Peer(e)], wire[Peer(e)], auroraOutQ[e])
  BY DEF OnTheWay, Row
<1> QED
  BY <1>1, <1>2, RowTyped

(* A word the send rule puts out is the last one under way to the peer.    *)
LEMMA WayGrows ==
  ASSUME Typed, NEW e \in Ends, NEW w \in Words,
         auroraOutQ' = Enq(auroraOutQ, e, w), UNCHANGED <<wire, auroraInQ>>
  PROVE  /\ OnTheWay(e)' = Append(OnTheWay(e), w)
         /\ \A x \in Ends \ {e} : OnTheWay(x)' = OnTheWay(x)
<1>1. auroraOutQ'[e] = Append(auroraOutQ[e], w) /\ \A x \in Ends \ {e} : auroraOutQ'[x] = auroraOutQ[x]
  BY DEF Enq, Typed
<1>2. PICK a \in Seq(Words), b \in Seq(Words), c \in Seq(Words) :
        a = auroraInQ[Peer(e)] /\ b = wire[Peer(e)] /\ c = auroraOutQ[e]
  BY WayParts
<1>3. OnTheWay(e) = Row(a, b, c) /\ OnTheWay(e)' = Row(a, b, Append(c, w))
  BY <1>1, <1>2 DEF OnTheWay, Row
<1>4. Row(a, b, Append(c, w)) = Append(Row(a, b, c), w)
  BY RowGrows
<1>5. \A x \in Ends \ {e} : OnTheWay(x)' = OnTheWay(x)
  BY <1>1 DEF OnTheWay, Row
<1> QED
  BY <1>3, <1>4, <1>5, Zenon

(* A word the receive rule takes was the first one under way to its end.   *)
LEMMA WayShrinks ==
  ASSUME Typed, NEW e \in Ends, NotEmpty(auroraInQ[e])
  PROVE  /\ NotEmpty(OnTheWay(Peer(e))) /\ Head(OnTheWay(Peer(e))) = Head(auroraInQ[e])
         /\ auroraInQ' = Deq(auroraInQ, e) /\ UNCHANGED <<wire, auroraOutQ>>
              => /\ OnTheWay(Peer(e))' = Tail(OnTheWay(Peer(e)))
                 /\ \A x \in Ends \ {Peer(e)} : OnTheWay(x)' = OnTheWay(x)
<1>1. Peer(e) \in Ends /\ Peer(Peer(e)) = e /\ \A x \in Ends \ {Peer(e)} : Peer(x) \in Ends \ {e}
  BY Peers
<1>2. PICK a \in Seq(Words), b \in Seq(Words), c \in Seq(Words) :
        a = auroraInQ[e] /\ b = wire[e] /\ c = auroraOutQ[Peer(e)]
  BY <1>1, WayParts
<1>3. OnTheWay(Peer(e)) = Row(a, b, c)
  BY <1>1, <1>2 DEF OnTheWay, Row
<1>4. /\ NotEmpty(Row(a, b, c)) /\ Head(Row(a, b, c)) = Head(a)
      /\ Tail(Row(a, b, c)) = Row(Tail(a), b, c)
  <2>1. NotEmpty(a)
    BY <1>2, Zenon
  <2> QED
    BY <2>1, RowShrinks, Zenon
<1>5. ASSUME auroraInQ' = Deq(auroraInQ, e), UNCHANGED <<wire, auroraOutQ>>
      PROVE  /\ OnTheWay(Peer(e))' = Tail(OnTheWay(Peer(e)))
             /\ \A x \in Ends \ {Peer(e)} : OnTheWay(x)' = OnTheWay(x)
  <2>1. auroraInQ'[e] = Tail(a) /\ \A x \in Ends \ {e} : auroraInQ'[x] = auroraInQ[x]
    BY <1>2, <1>5 DEF Deq, Typed
  <2>2. OnTheWay(Peer(e))' = Row(Tail(a), b, c)
    BY <1>1, <1>2, <1>5, <2>1 DEF OnTheWay, Row
  <2>3. \A x \in Ends \ {Peer(e)} : OnTheWay(x)' = OnTheWay(x)
    BY <1>1, <1>5, <2>1 DEF OnTheWay, Row
  <2> QED
    BY <1>3, <1>4, <2>2, <2>3, Zenon
<1> QED
  BY <1>2, <1>3, <1>4, <1>5

(* A word that goes on to the wire, or from there, is under way as before. *)
LEMMA WayKept ==
  ASSUME Typed, NEW e \in Ends, WireTake(e) \/ WireGive(e)
  PROVE  \A x \in Ends : OnTheWay(x)' = OnTheWay(x)
<1>1. CASE WireTake(e)
  <2>1. Peer(e) \in Ends /\ \A x \in Ends \ {e} : Peer(x) \in Ends \ {Peer(e)}
    BY Peers
  <2>2. PICK a \in Seq(Words), b \in Seq(Words), c \in Seq(Words) :
          a = auroraInQ[Peer(e)] /\ b = wire[Peer(e)] /\ c = auroraOutQ[e]
    BY WayParts
  <2>3. /\ NotEmpty(c) /\ auroraInQ' = auroraInQ
        /\ auroraOutQ'[e] = Tail(c) /\ wire'[Peer(e)] = Append(b, Head(c))
        /\ \A x \in Ends \ {e} : auroraOutQ'[x] = auroraOutQ[x] /\ wire'[Peer(x)] = wire[Peer(x)]
    <3>1. /\ NotEmpty(auroraOutQ[e]) /\ auroraInQ' = auroraInQ
          /\ auroraOutQ' = [auroraOutQ EXCEPT ![e] = Tail(@)]
          /\ wire' = [wire EXCEPT ![Peer(e)] = Append(@, Head(auroraOutQ[e]))]
      BY <1>1 DEF WireTake, Enq, Deq, recvSide
    <3>2. auroraOutQ'[e] = Tail(auroraOutQ[e]) /\ \A x \in Ends \ {e} : auroraOutQ'[x] = auroraOutQ[x]
      BY <3>1 DEF Typed
    <3>3. /\ wire'[Peer(e)] = Append(wire[Peer(e)], Head(auroraOutQ[e]))
          /\ \A y \in Ends \ {Peer(e)} : wire'[y] = wire[y]
      BY <2>1, <3>1 DEF Typed
    <3> QED
      BY <2>1, <2>2, <3>1, <3>2, <3>3
  <2>4. Row(a, Append(b, Head(c)), Tail(c)) = Row(a, b, c)
    <3>1. NotEmpty(c)
      BY <2>3, Zenon
    <3> QED
      BY <3>1, LastMovesOn, Zenon
  <2> QED
    BY <2>2, <2>3, <2>4 DEF OnTheWay, Row
<1>2. CASE WireGive(e)
  <2>1. Peer(e) \in Ends /\ Peer(Peer(e)) = e /\ \A x \in Ends \ {Peer(e)} : Peer(x) \in Ends \ {e}
    BY Peers
  <2>2. PICK a \in Seq(Words), b \in Seq(Words), c \in Seq(Words) :
          a = auroraInQ[e] /\ b = wire[e] /\ c = auroraOutQ[Peer(e)]
    BY <2>1, WayParts
  <2>3. /\ NotEmpty(b) /\ auroraOutQ' = auroraOutQ
        /\ auroraInQ'[e] = Append(a, Head(b)) /\ wire'[e] = Tail(b)
        /\ \A x \in Ends \ {e} : auroraInQ'[x] = auroraInQ[x] /\ wire'[x] = wire[x]
    BY <1>2, <2>2 DEF WireGive, Enq, Deq, Typed, sendSide
  <2>4. Row(Append(a, Head(b)), Tail(b), c) = Row(a, b, c)
    <3>1. NotEmpty(b)
      BY <2>3, Zenon
    <3> QED
      BY <3>1, SecondMovesOn, Zenon
  <2>5. OnTheWay(Peer(e))' = Row(Append(a, Head(b)), Tail(b), c) /\ OnTheWay(Peer(e)) = Row(a, b, c)
    BY <2>1, <2>2, <2>3 DEF OnTheWay, Row
  <2> QED
    BY <2>1, <2>3, <2>4, <2>5 DEF OnTheWay, Row
<1> QED
  BY <1>1, <1>2

-----------------------------------------------------------------------------
(* The words that count: those of credit, and the second halves.           *)
CreditWords == {w \in Words : IsCredit(w)}
SecondWords == {w \in Words : IsSecond(w)}

Credits(e) == CountIn(OnTheWay(e), CreditWords)
Seconds(e) == CountIn(OnTheWay(e), SecondWords)

(* They are what InFlightIsOwed counts.                                    *)
LEMMA Counted ==
  ASSUME Typed, NEW e \in Ends
  PROVE  /\ Count(OnTheWay(e), IsCredit) = Credits(e) /\ Count(OnTheWay(e), IsSecond) = Seconds(e)
         /\ Credits(e) \in Nat /\ Seconds(e) \in Nat
<1>1. PICK q \in Seq(Words) : q = OnTheWay(e)
  BY WayParts
<1>2. \A i \in 1 .. Len(q) : q[i] \in Words
  OBVIOUS
<1>3. /\ {i \in 1 .. Len(q) : IsCredit(q[i])} = {i \in 1 .. Len(q) : q[i] \in CreditWords}
      /\ {i \in 1 .. Len(q) : IsSecond(q[i])} = {i \in 1 .. Len(q) : q[i] \in SecondWords}
  BY <1>2 DEF CreditWords, SecondWords
<1>4. /\ Count(q, IsCredit) = CountIn(q, CreditWords)
      /\ Count(q, IsSecond) = CountIn(q, SecondWords)
  BY <1>3 DEF Count, CountIn
<1>5. CountIn(q, CreditWords) \in Nat /\ CountIn(q, SecondWords) \in Nat
  BY CountIsNat
<1> QED
  BY <1>1, <1>4, <1>5 DEF Credits, Seconds

(* Which words count.                                                      *)
LEMMA WhichCount ==
  ASSUME NEW w \in Words
  PROVE  /\ w \in CreditWords <=> w.control = 1
         /\ w \in SecondWords <=> w.control = 0 /\ w.idx = 1
         /\ w.control \in {0, 1}
         /\ w.control = 0 => w.idx \in {0, 1} /\ w.body \in Payloads
         /\ w.control = 1 => w.body = WindowSize
  BY DEF Words, CreditWords, SecondWords, IsCredit, IsSecond

(* A word the send rule puts out counts from now on.                       *)
LEMMA CountsGrow ==
  ASSUME Typed, NEW e \in Ends, NEW w \in Words,
         auroraOutQ' = Enq(auroraOutQ, e, w), UNCHANGED <<wire, auroraInQ>>
  PROVE  /\ Credits(e)' = Credits(e) + (IF w.control = 1 THEN 1 ELSE 0)
         /\ Seconds(e)' = Seconds(e) + (IF w.control = 0 /\ w.idx = 1 THEN 1 ELSE 0)
         /\ \A x \in Ends \ {e} : Credits(x)' = Credits(x) /\ Seconds(x)' = Seconds(x)
<1>1. /\ OnTheWay(e)' = Append(OnTheWay(e), w)
      /\ \A x \in Ends \ {e} : OnTheWay(x)' = OnTheWay(x)
  BY WayGrows
<1>2. PICK q \in Seq(Words) : q = OnTheWay(e)
  BY WayParts
<1>3. /\ CountIn(Append(q, w), CreditWords) = CountIn(q, CreditWords) + (IF w \in CreditWords THEN 1 ELSE 0)
      /\ CountIn(Append(q, w), SecondWords) = CountIn(q, SecondWords) + (IF w \in SecondWords THEN 1 ELSE 0)
  BY CountEnqueued
<1>4. \A x \in Ends \ {e} : Credits(x)' = Credits(x) /\ Seconds(x)' = Seconds(x)
  BY <1>1 DEF Credits, Seconds
<1>5. /\ Credits(e)' = CountIn(Append(q, w), CreditWords) /\ Credits(e) = CountIn(q, CreditWords)
      /\ Seconds(e)' = CountIn(Append(q, w), SecondWords) /\ Seconds(e) = CountIn(q, SecondWords)
  BY <1>1, <1>2 DEF Credits, Seconds
<1> QED
  BY <1>3, <1>4, <1>5, WhichCount

(* A word the receive rule takes counts no more.                           *)
LEMMA CountsShrink ==
  ASSUME Typed, NEW e \in Ends, NotEmpty(auroraInQ[e]),
         auroraInQ' = Deq(auroraInQ, e), UNCHANGED <<wire, auroraOutQ>>,
         NEW w \in Words, w = Head(auroraInQ[e])
  PROVE  /\ Credits(Peer(e)) = Credits(Peer(e))' + (IF w.control = 1 THEN 1 ELSE 0)
         /\ Seconds(Peer(e)) = Seconds(Peer(e))' + (IF w.control = 0 /\ w.idx = 1 THEN 1 ELSE 0)
         /\ Credits(e)' = Credits(e) /\ Seconds(e)' = Seconds(e)
<1>0. Peer(e) \in Ends /\ Peer(e) # e
  BY Peers
<1>1. /\ NotEmpty(OnTheWay(Peer(e))) /\ Head(OnTheWay(Peer(e))) = w
      /\ OnTheWay(Peer(e))' = Tail(OnTheWay(Peer(e))) /\ OnTheWay(e)' = OnTheWay(e)
  BY <1>0, WayShrinks
<1>2. PICK q \in Seq(Words) : q = OnTheWay(Peer(e))
  BY <1>0, WayParts
<1>3. /\ CountIn(q, CreditWords) = CountIn(Tail(q), CreditWords) + (IF Head(q) \in CreditWords THEN 1 ELSE 0)
      /\ CountIn(q, SecondWords) = CountIn(Tail(q), SecondWords) + (IF Head(q) \in SecondWords THEN 1 ELSE 0)
  <2>1. NotEmpty(q)
    BY <1>1, <1>2, Zenon
  <2> QED
    BY <2>1, CountDequeued
<1>4. Credits(e)' = Credits(e) /\ Seconds(e)' = Seconds(e)
  BY <1>1 DEF Credits, Seconds
<1>5. /\ Credits(Peer(e)) = CountIn(q, CreditWords) /\ Credits(Peer(e))' = CountIn(Tail(q), CreditWords)
      /\ Seconds(Peer(e)) = CountIn(q, SecondWords) /\ Seconds(Peer(e))' = CountIn(Tail(q), SecondWords)
  BY <1>1, <1>2 DEF Credits, Seconds
<1> QED
  BY <1>1, <1>2, <1>3, <1>4, <1>5, WhichCount

(* A word that goes on counts as before.                                   *)
LEMMA CountsKept ==
  ASSUME Typed, NEW e \in Ends, WireTake(e) \/ WireGive(e)
  PROVE  \A x \in Ends : Credits(x)' = Credits(x) /\ Seconds(x)' = Seconds(x)
<1>1. \A x \in Ends : OnTheWay(x)' = OnTheWay(x)
  BY WayKept
<1> QED
  BY <1>1 DEF Credits, Seconds

-----------------------------------------------------------------------------
(* The credit of a state, as numbers.                                      *)

Owed(x) ==
  InFlight(x) = Budget(Peer(x)) + WindowSize * (Len(flowControlQ[x]) + Credits(x)) + Seconds(Peer(x))

(* What the invariant says of the registers of one end.                    *)
LEMMA OwedForm ==
  ASSUME Typed, NEW x \in Ends
  PROVE  InFlightIsOwed(x) <=> Owed(x)
<1>1. Peer(x) \in Ends
  BY Peers
<1> QED
  BY <1>1, Counted, Zenon DEF InFlightIsOwed, Owed

(* A number of windows of credit, and one more.                            *)
LEMMA Windows ==
  ASSUME NEW n \in Nat
  PROVE  /\ WindowSize \in Nat \ {0} /\ WindowSize * n \in Nat
         /\ WindowSize * (n + 1) = WindowSize * n + WindowSize
<1>1. WindowSize \in Nat \ {0}
  BY GearboxAssumption
<1> QED
  BY <1>1

(* The numbers that the invariant speaks of are natural ones.              *)
LEMMA CreditTyped ==
  ASSUME Typed, NEW x \in Ends
  PROVE  /\ InFlight(x) \in Counters /\ InQ(x) \in Counters /\ Budget(x) \in Counters
         /\ InFlight(x) \in Nat /\ InQ(x) \in Nat /\ Budget(x) \in Nat
         /\ Len(flowControlQ[x]) \in Nat /\ Credits(x) \in Nat /\ Seconds(x) \in Nat
<1>1. Modulus \in Nat /\ Modulus > 0
  BY GearboxAssumption
<1>2. 0 \in 0 .. Modulus - 1
  BY <1>1
<1>3. InFlight(x) \in Counters /\ InQ(x) \in Counters /\ Budget(x) \in Counters
  BY <1>2, CountersCountOn DEF Typed, InFlight, InQ, Budget
<1>4. Len(flowControlQ[x]) \in Nat
  BY DEF Typed
<1>5. Credits(x) \in Nat /\ Seconds(x) \in Nat
  BY Counted
<1> QED
  BY <1>1, <1>3, <1>4, <1>5 DEF Counters

-----------------------------------------------------------------------------
(* Halves.                                                                 *)

(* A word that fits what the sender keeps goes behind the others.          *)
LEMMA PairedGrows ==
  ASSUME NEW q \in Seq(Words), NEW w \in Words, NEW r, NEW s, NEW t \in Halves,
         Paired(r, q, s), Fits(s, w), t = After(s, w)
  PROVE  Paired(r, Append(q, w), t)
<1>1. PICK f \in [0 .. Len(q) -> Halves] :
        /\ f[0] = r /\ f[Len(q)] = s
        /\ \A k \in 1 .. Len(q) : Fits(f[k - 1], q[k]) /\ f[k] = After(f[k - 1], q[k])
  BY DEF Paired
<1>2. PICK z \in Seq(Words) : z = Append(q, w)
  BY Enqueued
<1>3. /\ Len(q) \in Nat /\ Len(z) = Len(q) + 1 /\ z[Len(q) + 1] = w
      /\ \A i \in 1 .. Len(q) : z[i] = q[i]
  BY <1>2, Enqueued
<1> DEFINE g == [k \in 0 .. Len(z) |-> IF k = Len(z) THEN t ELSE f[k]]
<1>4. g \in [0 .. Len(z) -> Halves]
  BY <1>3
<1>5. g[Len(z)] = t /\ \A k \in 0 .. Len(q) : g[k] = f[k]
  BY <1>3
<1> HIDE DEF g
<1>6. g[0] = r
  BY <1>1, <1>3, <1>5
<1>7. ASSUME NEW k \in 1 .. Len(z) PROVE Fits(g[k - 1], z[k]) /\ g[k] = After(g[k - 1], z[k])
  <2>1. CASE k = Len(z)
    <3>1. k - 1 = Len(q) /\ g[k - 1] = s /\ z[k] = w /\ g[k] = t
      BY <1>1, <1>3, <1>5, <2>1
    <3> QED
      BY <3>1
  <2>2. CASE k # Len(z)
    <3>1. k \in 1 .. Len(q) /\ k \in 0 .. Len(q) /\ k - 1 \in 0 .. Len(q)
      BY <1>3, <2>2
    <3>2. z[k] = q[k] /\ g[k - 1] = f[k - 1] /\ g[k] = f[k]
      BY <1>3, <1>5, <3>1
    <3> QED
      BY <1>1, <3>1, <3>2
  <2> QED
    BY <2>1, <2>2
<1>8. Paired(r, z, t)
  BY <1>4, <1>5, <1>6, <1>7 DEF Paired
<1> QED
  BY <1>2, <1>8

(* The first word fits what the receiver keeps, and the others what it     *)
(* keeps then.                                                             *)
LEMMA PairedShrinks ==
  ASSUME NEW q \in Seq(Words), NEW r, NEW s, Paired(r, q, s), NotEmpty(q)
  PROVE  /\ Fits(r, Head(q)) /\ After(r, Head(q)) \in Halves
         /\ Paired(After(r, Head(q)), Tail(q), s)
<1>1. PICK f \in [0 .. Len(q) -> Halves] :
        /\ f[0] = r /\ f[Len(q)] = s
        /\ \A k \in 1 .. Len(q) : Fits(f[k - 1], q[k]) /\ f[k] = After(f[k - 1], q[k])
  BY DEF Paired
<1>2. PICK z \in Seq(Words) : z = Tail(q)
  BY Dequeued
<1>3. /\ Len(q) \in Nat /\ Len(q) > 0 /\ Len(z) = Len(q) - 1 /\ Head(q) = q[1] /\ 1 \in 1 .. Len(q)
      /\ \A i \in 1 .. Len(z) : z[i] = q[i + 1]
  BY <1>2, Dequeued DEF NotEmpty
<1>4. Fits(r, Head(q)) /\ f[1] = After(r, Head(q)) /\ f[1] \in Halves
  <2>1. Fits(f[0], q[1]) /\ f[1] = After(f[0], q[1])
    BY <1>1, <1>3
  <2>2. f[1] \in Halves
    BY <1>3
  <2> QED
    BY <1>1, <1>3, <2>1, <2>2
<1> DEFINE g == [k \in 0 .. Len(z) |-> f[k + 1]]
<1>5. g \in [0 .. Len(z) -> Halves]
  BY <1>3
<1>6. \A k \in 0 .. Len(z) : g[k] = f[k + 1]
  OBVIOUS
<1> HIDE DEF g
<1>7. g[0] = f[1] /\ g[Len(z)] = s
  BY <1>1, <1>3, <1>6
<1>8. ASSUME NEW k \in 1 .. Len(z) PROVE Fits(g[k - 1], z[k]) /\ g[k] = After(g[k - 1], z[k])
  <2>1. k + 1 \in 1 .. Len(q) /\ k \in 0 .. Len(z) /\ k - 1 \in 0 .. Len(z)
    BY <1>3
  <2>2. z[k] = q[k + 1] /\ g[k - 1] = f[k] /\ g[k] = f[k + 1]
    BY <1>3, <1>6, <2>1
  <2>3. Fits(f[(k + 1) - 1], q[k + 1]) /\ f[k + 1] = After(f[(k + 1) - 1], q[k + 1])
    BY <1>1, <2>1
  <2>4. (k + 1) - 1 = k
    OBVIOUS
  <2> QED
    BY <2>2, <2>3, <2>4
<1>9. Paired(f[1], z, s)
  BY <1>5, <1>7, <1>8 DEF Paired
<1> QED
  BY <1>2, <1>4, <1>9

(* What the send rule puts out fits what it keeps.                         *)
LEMMA SentHalves ==
  ASSUME NEW p \in Packets, NEW h \in Payloads
  PROVE  /\ LoWord(p) \in Words /\ Fits(<<>>, LoWord(p)) /\ After(<<>>, LoWord(p)) = <<p.hi>>
         /\ <<p.hi>> \in Halves /\ <<>> \in Halves
         /\ HiWord(h) \in Words /\ Fits(<<h>>, HiWord(h)) /\ After(<<h>>, HiWord(h)) = <<>>
         /\ LoWord(p).control = 0 /\ LoWord(p).idx = 0
         /\ HiWord(h).control = 0 /\ HiWord(h).idx = 1
<1>1. PICK b \in Payloads : p = [lo |-> b, hi |-> b]
  BY DEF Packets
<1>2. p.lo = b /\ p.hi = b
  BY <1>1
<1>3. <<h>> # <<>> /\ <<h>>[1] = h
  OBVIOUS
<1>4. LoWord(p) \in Words /\ HiWord(h) \in Words
  BY <1>2 DEF LoWord, HiWord, Words
<1> QED
  BY <1>2, <1>3, <1>4 DEF LoWord, HiWord, Fits, After, Halves

(* A word of credit fits anywhere.                                         *)
LEMMA SentCredit ==
  /\ CreditWord(WindowSize) \in Words /\ CreditWord(WindowSize).control = 1
  /\ \A s : Fits(s, CreditWord(WindowSize)) /\ After(s, CreditWord(WindowSize)) = s
  BY DEF CreditWord, Words, Fits, After

-----------------------------------------------------------------------------
(* The credit of every end, in numbers.                                    *)
LEMMA OwedInv == Typed => (InFlightOwed <=> \A x \in Ends : Owed(x))
  BY OwedForm, Zenon DEF InFlightOwed

(* The initial state: nothing granted, nothing under way.                  *)
LEMMA InitIInv == Init => IInv
<1> SUFFICES ASSUME Init PROVE IInv
  OBVIOUS
<1>1. Modulus \in Nat \ {0} /\ RecvQDepth \in Nat /\ RecvQDepth > 0 /\ 0 \in Counters
  BY GearboxAssumption DEF Counters
<1>2. Typed
  BY <1>1 DEF Init, Typed, NoWords, Zero, Halves
<1>3. ASSUME NEW e \in Ends
      PROVE  /\ InFlight(e) = 0 /\ InQ(e) = 0 /\ Budget(e) = 0 /\ OnTheWay(e) = <<>>
             /\ Len(flowControlQ[e]) = 0 /\ Len(recvBufferQ[e]) = 0
             /\ packetSendBuffer[e] = <<>> /\ packetRecvBuffer[e] = <<>>
  <2>0. Peer(e) \in Ends
    BY Peers
  <2>1. Minus(0, 0) = 0
    BY <1>1, WrapOnce DEF Minus
  <2>2. InFlight(e) = 0 /\ InQ(e) = 0 /\ Budget(e) = 0
    BY <2>1 DEF Init, Zero, InFlight, InQ, Budget
  <2>3. auroraInQ[Peer(e)] = <<>> /\ wire[Peer(e)] = <<>> /\ auroraOutQ[e] = <<>>
    BY <2>0 DEF Init, NoWords
  <2>4. OnTheWay(e) = <<>>
    BY <2>3, InFront DEF OnTheWay
  <2> QED
    BY <2>2, <2>4 DEF Init, NoWords
<1>4. ASSUME NEW e \in Ends PROVE Credits(e) = 0 /\ Seconds(e) = 0
  BY <1>3, CountEmpty DEF Credits, Seconds
<1>5. ASSUME NEW e \in Ends PROVE Owed(e)
  <2>1. Peer(e) \in Ends /\ WindowSize \in Nat
    BY Peers, GearboxAssumption
  <2>2. WindowSize * (0 + 0) = 0
    BY <2>1
  <2> QED
    BY <1>3, <1>4, <2>1, <2>2 DEF Owed
<1>6. InFlightOwed
  BY <1>2, <1>5, OwedInv
<1>7. StoredCounted /\ RoomForGranted
  BY <1>1, <1>3 DEF StoredCounted, RoomForGranted
<1>8. HalvesPaired
  <2>1. Paired(<<>>, <<>>, <<>>)
    <3> DEFINE f == [k \in 0 .. Len(<<>>) |-> <<>>]
    <3>1. f \in [0 .. Len(<<>>) -> Halves] /\ f[0] = <<>> /\ f[Len(<<>>)] = <<>>
      BY DEF Halves
    <3>2. 1 .. Len(<<>>) = {}
      OBVIOUS
    <3> HIDE DEF f
    <3> QED
      BY <3>1, <3>2 DEF Paired
  <2> QED
    BY <1>3, <2>1, Peers DEF HalvesPaired
<1> QED
  BY <1>2, <1>6, <1>7, <1>8 DEF IInv

-----------------------------------------------------------------------------
(* What a step must keep, in numbers.                                      *)

(* A step that changes no number of the credit.                            *)
LEMMA CreditSame ==
  ASSUME IInv, Typed',
         \A x \in Ends :
           /\ InFlight(x)' = InFlight(x) /\ InQ(x)' = InQ(x) /\ Budget(x)' = Budget(x)
           /\ Credits(x)' = Credits(x) /\ Seconds(x)' = Seconds(x)
           /\ Len(flowControlQ'[x]) = Len(flowControlQ[x])
           /\ Len(recvBufferQ'[x]) = Len(recvBufferQ[x])
  PROVE  InFlightOwed' /\ StoredCounted' /\ RoomForGranted'
<1>0. Typed /\ InFlightOwed /\ StoredCounted /\ RoomForGranted
  BY DEF IInv
<1>1. \A x \in Ends : Owed(x)
  BY <1>0, OwedInv
<1>2. ASSUME NEW x \in Ends PROVE Owed(x)'
  <2>1. Peer(x) \in Ends
    BY Peers
  <2> QED
    BY <1>1, <2>1 DEF Owed
<1>3. Typed' => (InFlightOwed' <=> (\A x \in Ends : Owed(x))')
  BY OwedInv, PTL
<1>4. InFlightOwed'
  BY <1>2, <1>3
<1>5. StoredCounted' /\ RoomForGranted'
  BY <1>0 DEF StoredCounted, RoomForGranted
<1> QED
  BY <1>4, <1>5

(* A step that counts one register of a kind on.                           *)
LEMMA CountOn ==
  ASSUME NEW up \in [Ends -> Counters], NEW e \in Ends, NEW n \in 0 .. Modulus - 1
  PROVE  /\ [up EXCEPT ![e] = Plus(@, n)] \in [Ends -> Counters]
         /\ [up EXCEPT ![e] = Plus(@, n)][e] = Plus(up[e], n)
         /\ \A x \in Ends \ {e} : [up EXCEPT ![e] = Plus(@, n)][x] = up[x]
<1>1. Plus(up[e], n) \in Counters
  BY CountersCountOn
<1> QED
  BY <1>1

(* What a queue per end holds after enqueuing and dequeuing.               *)
LEMMA EnqTyped ==
  ASSUME NEW S, NEW q \in [Ends -> Seq(S)], NEW e \in Ends, NEW y \in S
  PROVE  /\ Enq(q, e, y) \in [Ends -> Seq(S)] /\ Enq(q, e, y)[e] = Append(q[e], y)
         /\ Len(Enq(q, e, y)[e]) = Len(q[e]) + 1
         /\ \A x \in Ends \ {e} : Enq(q, e, y)[x] = q[x]
  BY DEF Enq

(* And after dequeuing.                                                    *)
LEMMA DeqTyped ==
  ASSUME NEW S, NEW q \in [Ends -> Seq(S)], NEW e \in Ends, NotEmpty(q[e])
  PROVE  /\ Deq(q, e) \in [Ends -> Seq(S)] /\ Deq(q, e)[e] = Tail(q[e])
         /\ Head(q[e]) \in S /\ Len(Deq(q, e)[e]) = Len(q[e]) - 1
         /\ \A x \in Ends \ {e} : Deq(q, e)[x] = q[x]
<1>1. Head(q[e]) \in S /\ Tail(q[e]) \in Seq(S) /\ Len(Tail(q[e])) = Len(q[e]) - 1
  BY Dequeued
<1> QED
  BY <1>1 DEF Deq

(* A step that leaves the words under way and the halves kept alone.       *)
LEMMA HalvesKept ==
  ASSUME HalvesPaired, \A x \in Ends : OnTheWay(x)' = OnTheWay(x),
         UNCHANGED <<packetSendBuffer, packetRecvBuffer>>
  PROVE  HalvesPaired'
  BY DEF HalvesPaired

(* The send rule puts out a word that fits.                                *)
LEMMA HalvesSent ==
  ASSUME Typed, HalvesPaired, NEW e \in Ends, NEW w \in Words, NEW t \in Halves,
         auroraOutQ' = Enq(auroraOutQ, e, w), UNCHANGED <<wire, auroraInQ, packetRecvBuffer>>,
         Fits(packetSendBuffer[e], w), t = After(packetSendBuffer[e], w),
         packetSendBuffer' = [packetSendBuffer EXCEPT ![e] = t]
  PROVE  HalvesPaired' /\ packetSendBuffer' \in [Ends -> Halves]
<1>1. /\ OnTheWay(e)' = Append(OnTheWay(e), w)
      /\ \A x \in Ends \ {e} : OnTheWay(x)' = OnTheWay(x)
  BY WayGrows
<1>2. /\ packetSendBuffer' \in [Ends -> Halves] /\ packetSendBuffer'[e] = t
      /\ \A x \in Ends \ {e} : packetSendBuffer'[x] = packetSendBuffer[x]
  BY DEF Typed
<1>3. PICK q \in Seq(Words) : q = OnTheWay(e)
  BY WayParts
<1>4. PICK r, s : r = packetRecvBuffer[Peer(e)] /\ s = packetSendBuffer[e]
  OBVIOUS
<1>5. Paired(r, q, s) /\ Fits(s, w) /\ t = After(s, w)
  BY <1>3, <1>4 DEF HalvesPaired
<1>6. Paired(r, Append(q, w), t)
  BY <1>5, PairedGrows
<1>7. ASSUME NEW x \in Ends
      PROVE  Paired(packetRecvBuffer'[Peer(x)], OnTheWay(x)', packetSendBuffer'[x])
  <2>1. CASE x = e
    BY <1>1, <1>2, <1>3, <1>4, <1>6, <2>1
  <2>2. CASE x # e
    BY <1>1, <1>2, <2>2 DEF HalvesPaired
  <2> QED
    BY <2>1, <2>2
<1> QED
  BY <1>2, <1>7 DEF HalvesPaired

(* The receive rule takes a word: it fits, and the others fit what it keeps.*)
LEMMA HalvesReceived ==
  ASSUME Typed, HalvesPaired, NEW e \in Ends, NotEmpty(auroraInQ[e]),
         NEW w, w = Head(auroraInQ[e])
  PROVE  /\ Fits(packetRecvBuffer[e], w)
         /\ /\ auroraInQ' = Deq(auroraInQ, e)
            /\ UNCHANGED <<wire, auroraOutQ, packetSendBuffer>>
            /\ packetRecvBuffer' = [packetRecvBuffer EXCEPT ![e] = After(packetRecvBuffer[e], w)]
            => HalvesPaired' /\ packetRecvBuffer' \in [Ends -> Halves]
<1>0. Peer(e) \in Ends /\ Peer(Peer(e)) = e /\ \A x \in Ends \ {Peer(e)} : Peer(x) \in Ends \ {e}
  BY Peers
<1>1. PICK q \in Seq(Words) : q = OnTheWay(Peer(e))
  BY <1>0, WayParts
<1>2. PICK r, s : r = packetRecvBuffer[e] /\ s = packetSendBuffer[Peer(e)]
  OBVIOUS
<1>3. Paired(r, q, s)
  BY <1>0, <1>1, <1>2 DEF HalvesPaired
<1>4. NotEmpty(q) /\ Head(q) = w
  BY <1>1, WayShrinks
<1>5. Fits(r, w) /\ After(r, w) \in Halves /\ Paired(After(r, w), Tail(q), s)
  BY <1>3, <1>4, PairedShrinks
<1>6. ASSUME auroraInQ' = Deq(auroraInQ, e), UNCHANGED <<wire, auroraOutQ, packetSendBuffer>>,
             packetRecvBuffer' = [packetRecvBuffer EXCEPT ![e] = After(packetRecvBuffer[e], w)]
      PROVE  HalvesPaired' /\ packetRecvBuffer' \in [Ends -> Halves]
  <2>1. /\ OnTheWay(Peer(e))' = Tail(q)
        /\ \A x \in Ends \ {Peer(e)} : OnTheWay(x)' = OnTheWay(x)
    BY <1>1, <1>6, WayShrinks
  <2>2. /\ packetRecvBuffer' \in [Ends -> Halves] /\ packetRecvBuffer'[e] = After(r, w)
        /\ \A x \in Ends \ {e} : packetRecvBuffer'[x] = packetRecvBuffer[x]
    BY <1>2, <1>5, <1>6 DEF Typed
  <2>3. ASSUME NEW x \in Ends
        PROVE  Paired(packetRecvBuffer'[Peer(x)], OnTheWay(x)', packetSendBuffer'[x])
    <3>1. CASE x = Peer(e)
      BY <1>0, <1>2, <1>5, <1>6, <2>1, <2>2, <3>1
    <3>2. CASE x # Peer(e)
      BY <1>0, <1>6, <2>1, <2>2, <3>2 DEF HalvesPaired
    <3> QED
      BY <3>1, <3>2
  <2> QED
    BY <2>2, <2>3 DEF HalvesPaired
<1> QED
  BY <1>2, <1>5, <1>6

(* A window and a packet are less than the registers count.                *)
LEMMA SmallSteps == WindowSize \in 0 .. Modulus - 1 /\ 1 \in 0 .. Modulus - 1
  BY GearboxAssumption

-----------------------------------------------------------------------------
(* The grant of a window.                                                  *)
LEMMA EmitStep ==
  ASSUME IInv, NEW e \in Ends, EmitFlowControlPacket(e)
  PROVE  IInv'
<1>0. Typed /\ InFlightOwed /\ StoredCounted /\ RoomForGranted /\ HalvesPaired
  BY DEF IInv
<1>1. /\ MayGrant(e) /\ flowControlQ' = Enq(flowControlQ, e, WindowSize)
      /\ maxInFlightUp' = [maxInFlightUp EXCEPT ![e] = Plus(@, WindowSize)]
      /\ UNCHANGED <<sendQ, packetSendBuffer, auroraOutQ, curSendBudgetDown, recvBufferQ,
                     packetRecvBuffer, auroraInQ, maxInFlightDown, curInQUp, curSendBudgetUp,
                     recvQ, curInQDown, wire>>
  BY DEF EmitFlowControlPacket, sendSide, recvSide
<1>2. InFlight(e) + InQ(e) + WindowSize < RecvQDepth
  <2>1. InFlight(e) \in Counters /\ InQ(e) \in Counters /\ InFlight(e) + InQ(e) < RecvQDepth
    BY <1>0, CreditTyped DEF RoomForGranted
  <2>2. Plus(Plus(InFlight(e), InQ(e)), WindowSize) = InFlight(e) + InQ(e) + WindowSize
    BY <2>1, GrantIsExact
  <2> QED
    BY <1>1, <2>2 DEF MayGrant
<1>3. /\ maxInFlightUp' \in [Ends -> Counters] /\ maxInFlightUp'[e] = Plus(maxInFlightUp[e], WindowSize)
      /\ \A x \in Ends \ {e} : maxInFlightUp'[x] = maxInFlightUp[x]
  <2>1. maxInFlightUp \in [Ends -> Counters]
    BY <1>0 DEF Typed
  <2> QED
    BY <1>1, <2>1, CountOn, SmallSteps
<1>4. /\ flowControlQ' \in [Ends -> Seq({WindowSize})]
      /\ Len(flowControlQ'[e]) = Len(flowControlQ[e]) + 1
      /\ \A x \in Ends \ {e} : flowControlQ'[x] = flowControlQ[x]
  <2>1. PICK S : S = {WindowSize}
    OBVIOUS
  <2>2. flowControlQ \in [Ends -> Seq(S)] /\ WindowSize \in S
    BY <1>0, <2>1 DEF Typed
  <2>3. /\ Enq(flowControlQ, e, WindowSize) \in [Ends -> Seq(S)]
        /\ Len(Enq(flowControlQ, e, WindowSize)[e]) = Len(flowControlQ[e]) + 1
        /\ \A x \in Ends \ {e} : Enq(flowControlQ, e, WindowSize)[x] = flowControlQ[x]
    BY <2>2, EnqTyped
  <2> QED
    BY <1>1, <2>1, <2>3
<1>5. Typed'
  BY <1>0, <1>1, <1>3, <1>4 DEF Typed
<1>6. InFlight(e)' = InFlight(e) + WindowSize
  <2>1. /\ InFlight(e) \in Nat /\ InQ(e) \in Nat /\ WindowSize \in Nat /\ RecvQDepth \in Nat
        /\ Modulus \in Nat /\ RecvQDepth + WindowSize <= Modulus
    BY <1>0, CreditTyped, GearboxAssumption
  <2>2. InFlight(e) + WindowSize < Modulus
    BY <1>2, <2>1
  <2>3. Minus(Plus(maxInFlightUp[e], WindowSize), maxInFlightDown[e])
          = Minus(maxInFlightUp[e], maxInFlightDown[e]) + WindowSize
    BY <1>0, <2>2, CountersCountOn, SmallSteps DEF Typed, InFlight
  <2> QED
    BY <1>1, <1>3, <2>3 DEF InFlight
<1>7. \A x \in Ends :
        /\ x # e => InFlight(x)' = InFlight(x) /\ flowControlQ'[x] = flowControlQ[x]
        /\ InQ(x)' = InQ(x) /\ Budget(x)' = Budget(x) /\ OnTheWay(x)' = OnTheWay(x)
        /\ Credits(x)' = Credits(x) /\ Seconds(x)' = Seconds(x)
  BY <1>1, <1>3, <1>4 DEF InFlight, InQ, Budget, OnTheWay, Credits, Seconds
<1>8. ASSUME NEW x \in Ends PROVE Owed(x)'
  <2>0. Peer(x) \in Ends /\ Owed(x)
    BY <1>0, OwedInv, Peers
  <2>1. CASE x = e
    <3>1. PICK n \in Nat, b \in Nat, k \in Nat :
            n = Len(flowControlQ[e]) + Credits(e) /\ b = Budget(Peer(e)) /\ k = Seconds(Peer(e))
      BY <1>0, <2>0, <2>1, CreditTyped
    <3>2. InFlight(e) = b + WindowSize * n + k
      BY <2>0, <2>1, <3>1 DEF Owed
    <3>3. Len(flowControlQ'[e]) + Credits(e)' = n + 1
      <4>1. Len(flowControlQ[e]) \in Nat /\ Credits(e) \in Nat /\ Credits(e)' = Credits(e)
        BY <1>0, <1>7, CreditTyped
      <4> QED
        BY <1>4, <3>1, <4>1
    <3>4. InFlight(e)' = b + WindowSize * (n + 1) + k
      BY <1>6, <3>2, Windows
    <3> QED
      BY <1>7, <2>0, <2>1, <3>1, <3>3, <3>4 DEF Owed
  <2>2. CASE x # e
    BY <1>7, <2>0, <2>2 DEF Owed
  <2> QED
    BY <2>1, <2>2
<1>9. InFlightOwed'
  <2>1. Typed' => (InFlightOwed' <=> (\A x \in Ends : Owed(x))')
    BY OwedInv, PTL
  <2> QED
    BY <1>5, <1>8, <2>1
<1>10. StoredCounted' /\ RoomForGranted'
  <2>1. \A x \in Ends : InFlight(x) \in Nat /\ InQ(x) \in Nat
    BY <1>0, CreditTyped
  <2>2. StoredCounted'
    BY <1>0, <1>1, <1>7 DEF StoredCounted
  <2>3. ASSUME NEW x \in Ends PROVE InFlight(x)' + InQ(x)' < RecvQDepth
    <3>1. CASE x = e
      <4>1. RecvQDepth \in Nat /\ WindowSize \in Nat /\ InQ(e)' = InQ(e)
        BY <1>7, GearboxAssumption
      <4> QED
        BY <1>2, <1>6, <2>1, <3>1, <4>1
    <3>2. CASE x # e
      BY <1>0, <1>7, <3>2 DEF RoomForGranted
    <3> QED
      BY <3>1, <3>2
  <2> QED
    BY <2>2, <2>3 DEF RoomForGranted
<1>11. HalvesPaired'
  BY <1>0, <1>1, <1>7, HalvesKept
<1> QED
  BY <1>5, <1>9, <1>10, <1>11 DEF IInv

-----------------------------------------------------------------------------
(* The send rule.                                                          *)

(* A word of credit goes out.                                              *)
LEMMA SendCreditStep ==
  ASSUME IInv, NEW e \in Ends, SendCredit(e)
  PROVE  IInv'
<1>0. Typed /\ InFlightOwed /\ StoredCounted /\ RoomForGranted /\ HalvesPaired
  BY DEF IInv
<1>1. /\ NotEmpty(flowControlQ[e]) /\ flowControlQ' = Deq(flowControlQ, e)
      /\ auroraOutQ' = Enq(auroraOutQ, e, CreditWord(Head(flowControlQ[e])))
      /\ UNCHANGED <<sendQ, packetSendBuffer, curSendBudgetDown, recvBufferQ,
                     packetRecvBuffer, auroraInQ, maxInFlightDown, curInQUp, curSendBudgetUp,
                     recvQ, maxInFlightUp, curInQDown, wire>>
  BY DEF SendCredit, recvSide
<1>2. /\ flowControlQ' \in [Ends -> Seq({WindowSize})] /\ Head(flowControlQ[e]) = WindowSize
      /\ Len(flowControlQ'[e]) = Len(flowControlQ[e]) - 1
      /\ \A x \in Ends \ {e} : flowControlQ'[x] = flowControlQ[x]
  <2>1. PICK S : S = {WindowSize}
    OBVIOUS
  <2>2. flowControlQ \in [Ends -> Seq(S)]
    BY <1>0, <2>1 DEF Typed
  <2>3. /\ Deq(flowControlQ, e) \in [Ends -> Seq(S)] /\ Head(flowControlQ[e]) \in S
        /\ Len(Deq(flowControlQ, e)[e]) = Len(flowControlQ[e]) - 1
        /\ \A x \in Ends \ {e} : Deq(flowControlQ, e)[x] = flowControlQ[x]
    BY <1>1, <2>2, DeqTyped
  <2> QED
    BY <1>1, <2>1, <2>3
<1> DEFINE w == CreditWord(WindowSize)
<1>3. /\ w \in Words /\ w.control = 1 /\ auroraOutQ' = Enq(auroraOutQ, e, w)
      /\ \A s : Fits(s, w) /\ After(s, w) = s
  BY <1>1, <1>2, SentCredit
<1> HIDE DEF w
<1>4. auroraOutQ' \in [Ends -> Seq(Words)]
  BY <1>0, <1>3, EnqTyped DEF Typed
<1>5. Typed'
  BY <1>0, <1>1, <1>2, <1>4 DEF Typed
<1>6. /\ Credits(e)' = Credits(e) + 1 /\ Seconds(e)' = Seconds(e)
      /\ \A x \in Ends \ {e} : Credits(x)' = Credits(x) /\ Seconds(x)' = Seconds(x)
  <2>1. Credits(e) \in Nat /\ Seconds(e) \in Nat
    BY <1>0, CreditTyped
  <2> QED
    BY <1>0, <1>1, <1>3, <2>1, CountsGrow
<1>7. \A x \in Ends : InFlight(x)' = InFlight(x) /\ InQ(x)' = InQ(x) /\ Budget(x)' = Budget(x)
  BY <1>1 DEF InFlight, InQ, Budget
<1>8. ASSUME NEW x \in Ends PROVE Owed(x)'
  <2>0. Peer(x) \in Ends /\ Owed(x) /\ Seconds(Peer(x))' = Seconds(Peer(x))
    BY <1>0, <1>6, OwedInv, Peers
  <2>1. Len(flowControlQ'[x]) + Credits(x)' = Len(flowControlQ[x]) + Credits(x)
    <3>1. PICK n \in Nat, c \in Nat : n = Len(flowControlQ[x]) /\ c = Credits(x)
      BY <1>0, CreditTyped
    <3>2. CASE x = e
      <4>1. Len(flowControlQ'[x]) = n - 1 /\ Credits(x)' = c + 1
        BY <1>2, <1>6, <3>1, <3>2, Zenon
      <4> QED
        BY <3>1, <4>1
    <3>3. CASE x # e
      BY <1>2, <1>6, <3>3
    <3> QED
      BY <3>2, <3>3
  <2> QED
    BY <1>7, <2>0, <2>1 DEF Owed
<1>9. InFlightOwed'
  <2>1. Typed' => (InFlightOwed' <=> (\A x \in Ends : Owed(x))')
    BY OwedInv, PTL
  <2> QED
    BY <1>5, <1>8, <2>1
<1>10. StoredCounted' /\ RoomForGranted'
  BY <1>0, <1>1, <1>7 DEF StoredCounted, RoomForGranted
<1>11. HalvesPaired'
  <2>1. PICK t \in Halves : t = packetSendBuffer[e]
    BY <1>0 DEF Typed
  <2>2. packetSendBuffer' = [packetSendBuffer EXCEPT ![e] = t]
    BY <1>0, <1>1, <2>1 DEF Typed
  <2> QED
    BY <1>0, <1>1, <1>3, <2>1, <2>2, HalvesSent
<1> QED
  BY <1>5, <1>9, <1>10, <1>11 DEF IInv

(* The numbers of both ends are natural ones.                              *)
LEMMA CreditNat == Typed => \A y \in Ends : Budget(y) \in Nat /\ Credits(y) \in Nat /\ Seconds(y) \in Nat
  BY CreditTyped

(* The same after a step.                                                  *)
LEMMA CreditNatNext ==
  Typed' => (\A y \in Ends : Budget(y) \in Nat /\ Credits(y) \in Nat /\ Seconds(y) \in Nat)'
  BY CreditNat, PTL

(* The second half of a packet goes out, and spends credit.                *)
LEMMA SendSecondStep ==
  ASSUME IInv, NEW e \in Ends, SendSecondHalf(e)
  PROVE  IInv'
<1>0. Typed /\ InFlightOwed /\ StoredCounted /\ RoomForGranted /\ HalvesPaired
  BY DEF IInv
<1>1. /\ Budget(e) > 0 /\ packetSendBuffer[e] # <<>>
      /\ auroraOutQ' = Enq(auroraOutQ, e, HiWord(packetSendBuffer[e][1]))
      /\ packetSendBuffer' = [packetSendBuffer EXCEPT ![e] = <<>>]
      /\ curSendBudgetDown' = [curSendBudgetDown EXCEPT ![e] = Plus(@, 1)]
      /\ UNCHANGED <<sendQ, recvBufferQ, packetRecvBuffer, auroraInQ, maxInFlightDown, curInQUp,
                     curSendBudgetUp, recvQ, flowControlQ, maxInFlightUp, curInQDown, wire>>
  BY DEF SendSecondHalf, MaySend, Spend, recvSide
<1>2. PICK h \in Payloads : packetSendBuffer[e] = <<h>>
  BY <1>0, <1>1 DEF Typed, Halves
<1> DEFINE w == HiWord(h)
<1>3. /\ w \in Words /\ w.control = 0 /\ w.idx = 1 /\ <<>> \in Halves
      /\ Fits(<<h>>, w) /\ After(<<h>>, w) = <<>>
  <2>1. [lo |-> h, hi |-> h] \in Packets
    BY DEF Packets
  <2> QED
    BY <2>1, SentHalves
<1>3a. auroraOutQ' = Enq(auroraOutQ, e, w)
  BY <1>1, <1>2
<1> HIDE DEF w
<1>4. auroraOutQ' \in [Ends -> Seq(Words)]
  BY <1>0, <1>3, <1>3a, EnqTyped DEF Typed
<1>5. /\ curSendBudgetDown' \in [Ends -> Counters]
      /\ curSendBudgetDown'[e] = Plus(curSendBudgetDown[e], 1)
      /\ \A x \in Ends \ {e} : curSendBudgetDown'[x] = curSendBudgetDown[x]
  <2>1. curSendBudgetDown \in [Ends -> Counters]
    BY <1>0 DEF Typed
  <2> QED
    BY <1>1, <2>1, CountOn, SmallSteps
<1>6. HalvesPaired' /\ packetSendBuffer' \in [Ends -> Halves]
  BY <1>0, <1>1, <1>2, <1>3, <1>3a, HalvesSent
<1>7. Typed'
  BY <1>0, <1>1, <1>4, <1>5, <1>6 DEF Typed
<1>8. /\ Credits(e)' = Credits(e) /\ Seconds(e)' = Seconds(e) + 1
      /\ \A x \in Ends \ {e} : Credits(x)' = Credits(x) /\ Seconds(x)' = Seconds(x)
  <2>1. Credits(e) \in Nat /\ Seconds(e) \in Nat
    BY <1>0, CreditTyped
  <2> QED
    BY <1>0, <1>1, <1>3, <1>3a, <2>1, CountsGrow
<1>9. Budget(e)' = Budget(e) - 1
  <2>1. Budget(e) \in Nat
    BY <1>0, CreditTyped
  <2>2. Minus(curSendBudgetUp[e], Plus(curSendBudgetDown[e], 1))
          = Minus(curSendBudgetUp[e], curSendBudgetDown[e]) - 1
    BY <1>0, <1>1, <2>1, CountersCountOn, SmallSteps DEF Typed, Budget
  <2> QED
    BY <1>1, <1>5, <2>2 DEF Budget
<1>10. /\ \A x \in Ends : InFlight(x)' = InFlight(x) /\ InQ(x)' = InQ(x)
       /\ \A x \in Ends \ {e} : Budget(x)' = Budget(x)
  BY <1>1, <1>5 DEF InFlight, InQ, Budget
<1>11. ASSUME NEW x \in Ends PROVE Owed(x)'
  <2>0. Peer(x) \in Ends /\ Owed(x) /\ Credits(x)' = Credits(x)
    BY <1>0, <1>8, OwedInv, Peers
  <2>1. Budget(Peer(x))' + Seconds(Peer(x))' = Budget(Peer(x)) + Seconds(Peer(x))
    <3>1. Budget(Peer(x)) \in Nat /\ Seconds(Peer(x)) \in Nat
      BY <1>0, <2>0, CreditTyped
    <3> QED
      BY <1>8, <1>9, <1>10, <2>0, <3>1
  <2>2. /\ Budget(Peer(x)) \in Nat /\ Seconds(Peer(x)) \in Nat
        /\ Budget(Peer(x))' \in Nat /\ Seconds(Peer(x))' \in Nat
    <3>1. Typed' => (\A y \in Ends : Budget(y) \in Nat /\ Credits(y) \in Nat /\ Seconds(y) \in Nat)'
      BY CreditNatNext, Zenon
    <3> QED
      BY <1>0, <1>7, <2>0, <3>1, CreditTyped
  <2>3. PICK m \in Nat : m = WindowSize * (Len(flowControlQ[x]) + Credits(x))
    <3>1. PICK n \in Nat : n = Len(flowControlQ[x]) + Credits(x)
      BY <1>0, CreditTyped
    <3> QED
      BY <3>1, Windows
  <2>4. InFlight(x) = Budget(Peer(x)) + m + Seconds(Peer(x))
    BY <2>0, <2>3 DEF Owed
  <2>5. InFlight(x)' = Budget(Peer(x))' + m + Seconds(Peer(x))'
    BY <1>10, <2>1, <2>2, <2>4
  <2> QED
    BY <1>1, <2>0, <2>3, <2>5 DEF Owed
<1>12. InFlightOwed'
  <2>1. Typed' => (InFlightOwed' <=> (\A x \in Ends : Owed(x))')
    BY OwedInv, PTL
  <2> QED
    BY <1>7, <1>11, <2>1
<1>13. StoredCounted' /\ RoomForGranted'
  BY <1>0, <1>1, <1>10 DEF StoredCounted, RoomForGranted
<1> QED
  BY <1>6, <1>7, <1>12, <1>13 DEF IInv

(* The first half of a packet goes out, its second half is kept.           *)
LEMMA SendFirstStep ==
  ASSUME IInv, NEW e \in Ends, SendFirstHalf(e)
  PROVE  IInv'
<1>0. Typed /\ InFlightOwed /\ StoredCounted /\ RoomForGranted /\ HalvesPaired
  BY DEF IInv
<1>1. /\ packetSendBuffer[e] = <<>> /\ NotEmpty(sendQ[e]) /\ sendQ' = Deq(sendQ, e)
      /\ auroraOutQ' = Enq(auroraOutQ, e, LoWord(Head(sendQ[e])))
      /\ packetSendBuffer' = [packetSendBuffer EXCEPT ![e] = <<Head(sendQ[e]).hi>>]
      /\ UNCHANGED <<curSendBudgetDown, recvBufferQ, packetRecvBuffer, auroraInQ, maxInFlightDown,
                     curInQUp, curSendBudgetUp, recvQ, flowControlQ, maxInFlightUp, curInQDown, wire>>
  BY DEF SendFirstHalf, recvSide
<1>2. sendQ' \in [Ends -> Seq(Packets)] /\ Head(sendQ[e]) \in Packets
  <2>1. sendQ \in [Ends -> Seq(Packets)]
    BY <1>0 DEF Typed
  <2> QED
    BY <1>1, <2>1, DeqTyped
<1>3. PICK p \in Packets : p = Head(sendQ[e])
  BY <1>2
<1>4. PICK h \in Payloads : h = p.hi
  BY DEF Packets
<1> DEFINE w == LoWord(p)
<1>5. /\ w \in Words /\ w.control = 0 /\ w.idx = 0 /\ <<h>> \in Halves
      /\ Fits(<<>>, w) /\ After(<<>>, w) = <<h>>
  BY <1>4, SentHalves
<1>6. auroraOutQ' = Enq(auroraOutQ, e, w) /\ packetSendBuffer' = [packetSendBuffer EXCEPT ![e] = <<h>>]
  BY <1>1, <1>3, <1>4
<1> HIDE DEF w
<1>7. auroraOutQ' \in [Ends -> Seq(Words)]
  BY <1>0, <1>5, <1>6, EnqTyped DEF Typed
<1>8. HalvesPaired' /\ packetSendBuffer' \in [Ends -> Halves]
  <2>1. PICK t \in Halves : t = <<h>>
    BY <1>5
  <2>2. Fits(packetSendBuffer[e], w) /\ t = After(packetSendBuffer[e], w)
        /\ packetSendBuffer' = [packetSendBuffer EXCEPT ![e] = t]
    BY <1>1, <1>5, <1>6, <2>1
  <2> QED
    BY <1>0, <1>1, <1>5, <1>6, <2>1, <2>2, HalvesSent
<1>9. Typed'
  BY <1>0, <1>1, <1>2, <1>7, <1>8 DEF Typed
<1>10. \A x \in Ends : Credits(x)' = Credits(x) /\ Seconds(x)' = Seconds(x)
  <2>1. Credits(e) \in Nat /\ Seconds(e) \in Nat
    BY <1>0, CreditTyped
  <2>2. Credits(e)' = Credits(e) /\ Seconds(e)' = Seconds(e)
    BY <1>0, <1>1, <1>5, <1>6, <2>1, CountsGrow
  <2>3. \A x \in Ends \ {e} : Credits(x)' = Credits(x) /\ Seconds(x)' = Seconds(x)
    BY <1>0, <1>1, <1>5, <1>6, CountsGrow
  <2> QED
    BY <2>2, <2>3
<1>11. InFlightOwed' /\ StoredCounted' /\ RoomForGranted'
  <2>1. \A x \in Ends : /\ InFlight(x)' = InFlight(x) /\ InQ(x)' = InQ(x) /\ Budget(x)' = Budget(x)
                        /\ Len(flowControlQ'[x]) = Len(flowControlQ[x])
                        /\ Len(recvBufferQ'[x]) = Len(recvBufferQ[x])
    BY <1>1 DEF InFlight, InQ, Budget
  <2> QED
    BY <1>9, <1>10, <2>1, CreditSame
<1> QED
  BY <1>8, <1>9, <1>11 DEF IInv

-----------------------------------------------------------------------------
(* The link, and the users at both ends.                                   *)

(* A step that moves words on and leaves credit and halves alone.          *)
LEMMA QuietStep ==
  ASSUME IInv, Typed', \A x \in Ends : OnTheWay(x)' = OnTheWay(x),
         UNCHANGED <<packetSendBuffer, packetRecvBuffer, flowControlQ, recvBufferQ,
                     maxInFlightUp, maxInFlightDown, curInQUp, curInQDown,
                     curSendBudgetUp, curSendBudgetDown>>
  PROVE  IInv'
<1>1. \A x \in Ends : Credits(x)' = Credits(x) /\ Seconds(x)' = Seconds(x)
  BY DEF Credits, Seconds
<1>2. \A x \in Ends : InFlight(x)' = InFlight(x) /\ InQ(x)' = InQ(x) /\ Budget(x)' = Budget(x)
  BY DEF InFlight, InQ, Budget
<1>3. InFlightOwed' /\ StoredCounted' /\ RoomForGranted'
  BY <1>1, <1>2, CreditSame
<1>4. HalvesPaired'
  BY HalvesKept DEF IInv
<1> QED
  BY <1>3, <1>4 DEF IInv

(* A word is taken by the link or given by it.                             *)
LEMMA WireStep ==
  ASSUME IInv, NEW e \in Ends, WireTake(e) \/ WireGive(e)
  PROVE  IInv'
<1>0. Typed
  BY DEF IInv
<1>1. \A x \in Ends : OnTheWay(x)' = OnTheWay(x)
  BY <1>0, WayKept
<1>2. UNCHANGED <<sendQ, recvQ, packetSendBuffer, packetRecvBuffer, flowControlQ, recvBufferQ,
                  maxInFlightUp, maxInFlightDown, curInQUp, curInQDown,
                  curSendBudgetUp, curSendBudgetDown>>
  BY DEF WireTake, WireGive, sendSide, recvSide
<1>3. CASE WireTake(e)
  <2>1. /\ NotEmpty(auroraOutQ[e]) /\ auroraOutQ' = Deq(auroraOutQ, e) /\ auroraInQ' = auroraInQ
        /\ wire' = Enq(wire, Peer(e), Head(auroraOutQ[e]))
    BY <1>3 DEF WireTake, recvSide
  <2>2. auroraOutQ \in [Ends -> Seq(Words)] /\ wire \in [Ends -> Seq(Words)] /\ Peer(e) \in Ends
    BY <1>0, Peers DEF Typed
  <2>3. auroraOutQ' \in [Ends -> Seq(Words)] /\ Head(auroraOutQ[e]) \in Words
    BY <2>1, <2>2, DeqTyped
  <2>4. wire' \in [Ends -> Seq(Words)]
    BY <2>1, <2>2, <2>3, EnqTyped
  <2>5. Typed'
    BY <1>0, <1>2, <2>1, <2>3, <2>4 DEF Typed
  <2> QED
    BY <1>1, <1>2, <2>5, QuietStep
<1>4. CASE WireGive(e)
  <2>1. /\ NotEmpty(wire[e]) /\ wire' = Deq(wire, e) /\ auroraOutQ' = auroraOutQ
        /\ auroraInQ' = Enq(auroraInQ, e, Head(wire[e]))
    BY <1>4 DEF WireGive, sendSide
  <2>2. auroraInQ \in [Ends -> Seq(Words)] /\ wire \in [Ends -> Seq(Words)]
    BY <1>0 DEF Typed
  <2>3. wire' \in [Ends -> Seq(Words)] /\ Head(wire[e]) \in Words
    BY <2>1, <2>2, DeqTyped
  <2>4. auroraInQ' \in [Ends -> Seq(Words)]
    BY <2>1, <2>2, <2>3, EnqTyped
  <2>5. Typed'
    BY <1>0, <1>2, <2>1, <2>3, <2>4 DEF Typed
  <2> QED
    BY <1>1, <1>2, <2>5, QuietStep
<1> QED
  BY <1>3, <1>4

(* A user gives a packet, or takes one.                                    *)
LEMMA UserStep ==
  ASSUME IInv, NEW e \in Ends, Recv(e) \/ \E p \in Packets : Send(e, p)
  PROVE  IInv'
<1>0. Typed
  BY DEF IInv
<1>1. UNCHANGED <<auroraOutQ, auroraInQ, wire, packetSendBuffer, packetRecvBuffer, flowControlQ,
                  recvBufferQ, maxInFlightUp, maxInFlightDown, curInQUp, curInQDown,
                  curSendBudgetUp, curSendBudgetDown>>
  BY DEF Recv, Send, sendSide, recvSide
<1>2. sendQ' \in [Ends -> Seq(Packets)] /\ recvQ' \in [Ends -> Seq(Packets)]
  <2>0. sendQ \in [Ends -> Seq(Packets)] /\ recvQ \in [Ends -> Seq(Packets)]
    BY <1>0 DEF Typed
  <2>1. CASE Recv(e)
    <3>1. NotEmpty(recvQ[e]) /\ recvQ' = Deq(recvQ, e) /\ sendQ' = sendQ
      BY <2>1 DEF Recv, sendSide
    <3> QED
      BY <2>0, <3>1, DeqTyped
  <2>2. ASSUME NEW p \in Packets, Send(e, p)
        PROVE  sendQ' \in [Ends -> Seq(Packets)] /\ recvQ' = recvQ
    <3>1. sendQ' = Enq(sendQ, e, p) /\ recvQ' = recvQ
      BY <2>2 DEF Send
    <3> QED
      BY <2>0, <3>1, EnqTyped
  <2> QED
    BY <2>0, <2>1, <2>2
<1>3. Typed'
  BY <1>0, <1>1, <1>2 DEF Typed
<1>4. \A x \in Ends : OnTheWay(x)' = OnTheWay(x)
  BY <1>1 DEF OnTheWay
<1> QED
  BY <1>1, <1>3, <1>4, QuietStep

-----------------------------------------------------------------------------
(* The receive rule.                                                       *)

(* The word at the head of auroraInQ.                                      *)
LEMMA WordTaken ==
  ASSUME Typed, NEW e \in Ends, NotEmpty(auroraInQ[e])
  PROVE  /\ Head(auroraInQ[e]) \in Words
         /\ auroraInQ' = Deq(auroraInQ, e) => auroraInQ' \in [Ends -> Seq(Words)]
<1>1. auroraInQ \in [Ends -> Seq(Words)]
  BY DEF Typed
<1>2. Deq(auroraInQ, e) \in [Ends -> Seq(Words)] /\ Head(auroraInQ[e]) \in Words
  BY <1>1, DeqTyped
<1> QED
  BY <1>2

(* A word of credit comes in.                                              *)
LEMMA RecvCreditStep ==
  ASSUME IInv, NEW e \in Ends, RecvCredit(e)
  PROVE  IInv'
<1>0. Typed /\ InFlightOwed /\ StoredCounted /\ RoomForGranted /\ HalvesPaired
  BY DEF IInv
<1>p. Peer(e) \in Ends /\ Peer(e) # e /\ Peer(Peer(e)) = e /\ \A x \in Ends : x = e \/ x = Peer(e)
  BY Peers
<1>1. /\ NotEmpty(auroraInQ[e]) /\ Head(auroraInQ[e]).control = 1 /\ auroraInQ' = Deq(auroraInQ, e)
      /\ curSendBudgetUp' = [curSendBudgetUp EXCEPT ![e] = Plus(@, Head(auroraInQ[e]).body)]
      /\ UNCHANGED <<sendQ, packetSendBuffer, auroraOutQ, curSendBudgetDown, recvBufferQ,
                     packetRecvBuffer, maxInFlightDown, curInQUp, recvQ, flowControlQ,
                     maxInFlightUp, curInQDown, wire>>
  BY DEF RecvCredit, HalfKept, sendSide
<1>2. PICK w \in Words : w = Head(auroraInQ[e]) /\ w.control = 1 /\ w.body = WindowSize
  BY <1>0, <1>1, WordTaken, WhichCount
<1>3. /\ curSendBudgetUp' \in [Ends -> Counters]
      /\ curSendBudgetUp'[e] = Plus(curSendBudgetUp[e], WindowSize)
      /\ \A x \in Ends \ {e} : curSendBudgetUp'[x] = curSendBudgetUp[x]
  <2>1. curSendBudgetUp \in [Ends -> Counters]
    BY <1>0 DEF Typed
  <2>2. curSendBudgetUp' = [curSendBudgetUp EXCEPT ![e] = Plus(@, WindowSize)]
    BY <1>1, <1>2
  <2> QED
    BY <2>1, <2>2, CountOn, SmallSteps
<1>4. auroraInQ' \in [Ends -> Seq(Words)]
  BY <1>0, <1>1, WordTaken
<1>5. Typed'
  BY <1>0, <1>1, <1>3, <1>4 DEF Typed
<1>6. /\ Credits(Peer(e)) = Credits(Peer(e))' + 1 /\ Seconds(Peer(e))' = Seconds(Peer(e))
      /\ Credits(e)' = Credits(e) /\ Seconds(e)' = Seconds(e)
  <2>1. /\ Credits(Peer(e)) = Credits(Peer(e))' + 1
        /\ Seconds(Peer(e)) = Seconds(Peer(e))' + 0
        /\ Credits(e)' = Credits(e) /\ Seconds(e)' = Seconds(e)
    BY <1>0, <1>1, <1>2, CountsShrink
  <2>2. Seconds(Peer(e))' \in Nat
    <3>1. Typed' => (\A y \in Ends : Budget(y) \in Nat /\ Credits(y) \in Nat /\ Seconds(y) \in Nat)'
      BY CreditNatNext, Zenon
    <3> QED
      BY <1>p, <1>5, <3>1
  <2> QED
    BY <2>1, <2>2
<1>7. /\ \A x \in Ends : InFlight(x)' = InFlight(x) /\ InQ(x)' = InQ(x)
      /\ \A x \in Ends \ {e} : Budget(x)' = Budget(x)
  BY <1>1, <1>3 DEF InFlight, InQ, Budget
<1>8. PICK f \in Nat, b \in Nat, l \in Nat, c \in Nat, k \in Nat :
        /\ f = InFlight(Peer(e)) /\ b = Budget(e) /\ l = Len(flowControlQ[Peer(e)])
        /\ c = Credits(Peer(e))' /\ k = Seconds(e)
  <2>1. Credits(Peer(e))' \in Nat
    <3>1. Typed' => (\A y \in Ends : Budget(y) \in Nat /\ Credits(y) \in Nat /\ Seconds(y) \in Nat)'
      BY CreditNatNext, Zenon
    <3> QED
      BY <1>p, <1>5, <3>1
  <2> QED
    BY <1>0, <1>p, <2>1, CreditTyped
<1>9. f = b + WindowSize * (l + c) + WindowSize + k
  <2>1. Owed(Peer(e))
    BY <1>0, <1>p, OwedInv
  <2>2. f = b + WindowSize * (l + (c + 1)) + k
    BY <1>p, <1>6, <1>8, <2>1 DEF Owed
  <2>3. PICK n \in Nat : n = l + c
    OBVIOUS
  <2>4. l + (c + 1) = n + 1
    BY <2>3
  <2>5. WindowSize * (n + 1) = WindowSize * n + WindowSize
    BY Windows
  <2>6. PICK m \in Nat : m = WindowSize * n
    BY Windows
  <2> QED
    BY <2>2, <2>3, <2>4, <2>5, <2>6, Windows
<1>10. Budget(e)' = b + WindowSize
  <2>1. PICK m \in Nat : m = WindowSize * (l + c)
    <3>1. l + c \in Nat
      OBVIOUS
    <3> QED
      BY <3>1, Windows
  <2>2. f \in 0 .. Modulus - 1 /\ WindowSize \in Nat /\ Modulus \in Nat
    BY <1>0, <1>p, <1>8, CreditTyped, GearboxAssumption DEF Counters
  <2>3. b + WindowSize < Modulus
    BY <1>9, <2>1, <2>2
  <2>4. Minus(Plus(curSendBudgetUp[e], WindowSize), curSendBudgetDown[e])
          = Minus(curSendBudgetUp[e], curSendBudgetDown[e]) + WindowSize
    <3>1. curSendBudgetUp[e] \in Counters /\ curSendBudgetDown[e] \in Counters
      BY <1>0 DEF Typed
    <3>2. Minus(curSendBudgetUp[e], curSendBudgetDown[e]) + WindowSize < Modulus
      BY <1>8, <2>3 DEF Budget
    <3> QED
      BY <3>1, <3>2, CountersCountOn, SmallSteps
  <2> QED
    BY <1>1, <1>3, <1>8, <2>4 DEF Budget
<1>11. Owed(Peer(e))' /\ Owed(e)'
  <2>1. InFlight(Peer(e))' = Budget(e)' + WindowSize * (l + c) + Seconds(e)'
    <3>1. PICK m \in Nat : m = WindowSize * (l + c)
      <4>1. l + c \in Nat
        OBVIOUS
      <4> QED
        BY <4>1, Windows
    <3>2. InFlight(Peer(e))' = f /\ Seconds(e)' = k /\ WindowSize \in Nat
      BY <1>p, <1>6, <1>7, <1>8, Windows
    <3> QED
      BY <1>9, <1>10, <3>1, <3>2
  <2>2. Owed(Peer(e))'
    BY <1>1, <1>p, <1>8, <2>1 DEF Owed
  <2>3. Owed(e)
    BY <1>0, OwedInv
  <2>4. Owed(e)'
    BY <1>1, <1>p, <1>6, <1>7, <2>3 DEF Owed
  <2> QED
    BY <2>2, <2>4
<1>12. InFlightOwed'
  <2>1. Typed' => (InFlightOwed' <=> (\A x \in Ends : Owed(x))')
    BY OwedInv, PTL
  <2>2. (\A x \in Ends : Owed(x))'
    BY <1>p, <1>11
  <2> QED
    BY <1>5, <2>1, <2>2
<1>13. StoredCounted' /\ RoomForGranted'
  BY <1>0, <1>1, <1>7 DEF StoredCounted, RoomForGranted
<1>14. HalvesPaired'
  <2>1. After(packetRecvBuffer[e], w) = packetRecvBuffer[e]
    BY <1>2 DEF After
  <2>2. packetRecvBuffer' = [packetRecvBuffer EXCEPT ![e] = After(packetRecvBuffer[e], w)]
    BY <1>0, <1>1, <2>1 DEF Typed
  <2> QED
    BY <1>0, <1>1, <1>2, <2>2, HalvesReceived
<1> QED
  BY <1>5, <1>12, <1>13, <1>14 DEF IInv

(* What fits a receiver without a first half is a first half; with one, the*)
(* second half of the same packet.                                         *)
LEMMA FittingWord ==
  ASSUME Typed, HalvesPaired, NEW e \in Ends, NotEmpty(auroraInQ[e]),
         NEW w \in Words, w = Head(auroraInQ[e]), w.control = 0
  PROVE  /\ Completes(e) => /\ w.idx = 1 /\ packetRecvBuffer[e] # <<>>
                            /\ [lo |-> packetRecvBuffer[e][1], hi |-> w.body] \in Packets
                            /\ After(packetRecvBuffer[e], w) = <<>>
         /\ ~Completes(e) => w.idx = 0 /\ After(packetRecvBuffer[e], w) = <<w.body>>
<1>1. Fits(packetRecvBuffer[e], w)
  BY HalvesReceived
<1>2. w.body \in Payloads /\ w.idx \in {0, 1}
  BY WhichCount
<1>3. CASE packetRecvBuffer[e] = <<>>
  BY <1>1, <1>3 DEF Fits, After, Completes
<1>4. CASE packetRecvBuffer[e] # <<>>
  <2>1. w.idx = 1 /\ w.body = packetRecvBuffer[e][1]
    BY <1>1, <1>4 DEF Fits
  <2>2. Completes(e) /\ After(packetRecvBuffer[e], w) = <<>>
    BY <1>4, <2>1 DEF Completes, After
  <2>3. [lo |-> packetRecvBuffer[e][1], hi |-> w.body] \in Packets
    BY <1>2, <2>1 DEF Packets
  <2> QED
    BY <1>4, <2>1, <2>2, <2>3
<1> QED
  BY <1>3, <1>4

(* A first half comes in and is kept.                                      *)
LEMMA RecvFirstStep ==
  ASSUME IInv, NEW e \in Ends, RecvFirstHalf(e)
  PROVE  IInv'
<1>0. Typed /\ InFlightOwed /\ StoredCounted /\ RoomForGranted /\ HalvesPaired
  BY DEF IInv
<1>p. Peer(e) \in Ends /\ Peer(e) # e /\ \A x \in Ends : x = e \/ x = Peer(e)
  BY Peers
<1>1. /\ NotEmpty(auroraInQ[e]) /\ Head(auroraInQ[e]).control = 0 /\ ~Completes(e)
      /\ auroraInQ' = Deq(auroraInQ, e)
      /\ Head(auroraInQ[e]).idx = 0
           => packetRecvBuffer' = [packetRecvBuffer EXCEPT ![e] = <<Head(auroraInQ[e]).body>>]
      /\ UNCHANGED <<sendQ, packetSendBuffer, auroraOutQ, curSendBudgetDown, recvBufferQ,
                     maxInFlightDown, curInQUp, curSendBudgetUp, recvQ, flowControlQ,
                     maxInFlightUp, curInQDown, wire>>
  BY DEF RecvFirstHalf, sendSide
<1>2. PICK w \in Words : w = Head(auroraInQ[e]) /\ w.control = 0
  BY <1>0, <1>1, WordTaken
<1>3. w.idx = 0 /\ After(packetRecvBuffer[e], w) = <<w.body>>
  BY <1>0, <1>1, <1>2, FittingWord
<1>4. packetRecvBuffer' = [packetRecvBuffer EXCEPT ![e] = After(packetRecvBuffer[e], w)]
  BY <1>1, <1>2, <1>3
<1>5. HalvesPaired' /\ packetRecvBuffer' \in [Ends -> Halves]
  BY <1>0, <1>1, <1>2, <1>4, HalvesReceived
<1>6. Typed'
  <2>1. auroraInQ' \in [Ends -> Seq(Words)]
    BY <1>0, <1>1, WordTaken
  <2> QED
    BY <1>0, <1>1, <1>5, <2>1 DEF Typed
<1>7. \A x \in Ends : Credits(x)' = Credits(x) /\ Seconds(x)' = Seconds(x)
  <2>1. /\ Credits(Peer(e)) = Credits(Peer(e))' + 0
        /\ Seconds(Peer(e)) = Seconds(Peer(e))' + 0
        /\ Credits(e)' = Credits(e) /\ Seconds(e)' = Seconds(e)
    BY <1>0, <1>1, <1>2, <1>3, CountsShrink
  <2>2. Credits(Peer(e))' \in Nat /\ Seconds(Peer(e))' \in Nat
    <3>1. Typed' => (\A y \in Ends : Budget(y) \in Nat /\ Credits(y) \in Nat /\ Seconds(y) \in Nat)'
      BY CreditNatNext, Zenon
    <3> QED
      BY <1>p, <1>6, <3>1
  <2>3. Credits(Peer(e))' = Credits(Peer(e)) /\ Seconds(Peer(e))' = Seconds(Peer(e))
    BY <2>1, <2>2
  <2> QED
    BY <1>p, <2>1, <2>3
<1>8. InFlightOwed' /\ StoredCounted' /\ RoomForGranted'
  <2>1. \A x \in Ends : /\ InFlight(x)' = InFlight(x) /\ InQ(x)' = InQ(x) /\ Budget(x)' = Budget(x)
                        /\ Len(flowControlQ'[x]) = Len(flowControlQ[x])
                        /\ Len(recvBufferQ'[x]) = Len(recvBufferQ[x])
    BY <1>1 DEF InFlight, InQ, Budget
  <2> QED
    BY <1>6, <1>7, <2>1, CreditSame
<1> QED
  BY <1>5, <1>6, <1>8 DEF IInv

(* A second half comes in: the packet is no longer in flight, it is stored.*)
LEMMA RecvSecondStep ==
  ASSUME IInv, NEW e \in Ends, RecvSecondHalf(e)
  PROVE  IInv'
<1>0. Typed /\ InFlightOwed /\ StoredCounted /\ RoomForGranted /\ HalvesPaired
  BY DEF IInv
<1>p. Peer(e) \in Ends /\ Peer(e) # e /\ Peer(Peer(e)) = e /\ \A x \in Ends : x = e \/ x = Peer(e)
  BY Peers
<1>1. /\ NotEmpty(auroraInQ[e]) /\ Head(auroraInQ[e]).control = 0 /\ Completes(e)
      /\ auroraInQ' = Deq(auroraInQ, e)
      /\ packetRecvBuffer' = [packetRecvBuffer EXCEPT ![e] = <<>>]
      /\ recvBufferQ' = Enq(recvBufferQ, e, [lo |-> packetRecvBuffer[e][1], hi |-> Head(auroraInQ[e]).body])
      /\ curInQUp' = [curInQUp EXCEPT ![e] = Plus(@, 1)]
      /\ maxInFlightDown' = [maxInFlightDown EXCEPT ![e] = Plus(@, 1)]
      /\ UNCHANGED <<sendQ, packetSendBuffer, auroraOutQ, curSendBudgetDown,
                     curSendBudgetUp, recvQ, flowControlQ, maxInFlightUp, curInQDown, wire>>
  BY DEF RecvSecondHalf, Store, sendSide
<1>2. PICK w \in Words : w = Head(auroraInQ[e]) /\ w.control = 0
  BY <1>0, <1>1, WordTaken
<1>3. PICK pk \in Packets : pk = [lo |-> packetRecvBuffer[e][1], hi |-> w.body]
  BY <1>0, <1>1, <1>2, FittingWord
<1>4. w.idx = 1 /\ After(packetRecvBuffer[e], w) = <<>>
  BY <1>0, <1>1, <1>2, FittingWord
<1>5. HalvesPaired' /\ packetRecvBuffer' \in [Ends -> Halves]
  <2>1. packetRecvBuffer' = [packetRecvBuffer EXCEPT ![e] = After(packetRecvBuffer[e], w)]
    BY <1>1, <1>4
  <2> QED
    BY <1>0, <1>1, <1>2, <2>1, HalvesReceived
<1>6. /\ recvBufferQ' \in [Ends -> Seq(Packets)]
      /\ Len(recvBufferQ'[e]) = Len(recvBufferQ[e]) + 1
      /\ \A x \in Ends \ {e} : recvBufferQ'[x] = recvBufferQ[x]
  <2>1. recvBufferQ \in [Ends -> Seq(Packets)] /\ recvBufferQ' = Enq(recvBufferQ, e, pk)
    BY <1>0, <1>1, <1>2, <1>3 DEF Typed
  <2> QED
    BY <2>1, EnqTyped
<1>7. /\ curInQUp' \in [Ends -> Counters] /\ curInQUp'[e] = Plus(curInQUp[e], 1)
      /\ \A x \in Ends \ {e} : curInQUp'[x] = curInQUp[x]
  <2>1. curInQUp \in [Ends -> Counters]
    BY <1>0 DEF Typed
  <2> QED
    BY <1>1, <2>1, CountOn, SmallSteps
<1>8. /\ maxInFlightDown' \in [Ends -> Counters] /\ maxInFlightDown'[e] = Plus(maxInFlightDown[e], 1)
      /\ \A x \in Ends \ {e} : maxInFlightDown'[x] = maxInFlightDown[x]
  <2>1. maxInFlightDown \in [Ends -> Counters]
    BY <1>0 DEF Typed
  <2> QED
    BY <1>1, <2>1, CountOn, SmallSteps
<1>9. Typed'
  <2>1. auroraInQ' \in [Ends -> Seq(Words)]
    BY <1>0, <1>1, WordTaken
  <2> QED
    BY <1>0, <1>1, <1>5, <1>6, <1>7, <1>8, <2>1 DEF Typed
<1>10. /\ Credits(Peer(e))' = Credits(Peer(e)) /\ Seconds(Peer(e)) = Seconds(Peer(e))' + 1
       /\ Credits(e)' = Credits(e) /\ Seconds(e)' = Seconds(e)
       /\ Seconds(Peer(e))' \in Nat
  <2>1. /\ Credits(Peer(e)) = Credits(Peer(e))' + 0
        /\ Seconds(Peer(e)) = Seconds(Peer(e))' + 1
        /\ Credits(e)' = Credits(e) /\ Seconds(e)' = Seconds(e)
    BY <1>0, <1>1, <1>2, <1>4, CountsShrink
  <2>2. Credits(Peer(e))' \in Nat /\ Seconds(Peer(e))' \in Nat
    <3>1. Typed' => (\A y \in Ends : Budget(y) \in Nat /\ Credits(y) \in Nat /\ Seconds(y) \in Nat)'
      BY CreditNatNext, Zenon
    <3> QED
      BY <1>p, <1>9, <3>1
  <2> QED
    BY <2>1, <2>2
<1>11. PICK f \in Nat, s \in Nat, b \in Nat, m \in Nat, k \in Nat :
         /\ f = InFlight(e) /\ s = InQ(e) /\ b = Budget(Peer(e)) /\ k = Seconds(Peer(e))'
         /\ m = WindowSize * (Len(flowControlQ[e]) + Credits(e))
  <2>1. PICK n \in Nat : n = Len(flowControlQ[e]) + Credits(e)
    BY <1>0, CreditTyped
  <2>2. PICK m \in Nat : m = WindowSize * n
    BY Windows
  <2> QED
    BY <1>0, <1>p, <1>10, <2>1, <2>2, CreditTyped
<1>12. f = b + m + k + 1 /\ f + s < RecvQDepth /\ RecvQDepth \in Nat /\ RecvQDepth < Modulus /\ Modulus \in Nat
  <2>1. Owed(e)
    BY <1>0, OwedInv
  <2>2. f = b + m + (k + 1)
    BY <1>10, <1>11, <2>1 DEF Owed
  <2>3. f + s < RecvQDepth
    BY <1>0, <1>11 DEF RoomForGranted
  <2> QED
    BY <2>2, <2>3, GearboxAssumption
<1>13. InFlight(e)' = f - 1
  <2>1. Minus(maxInFlightUp[e], Plus(maxInFlightDown[e], 1))
          = Minus(maxInFlightUp[e], maxInFlightDown[e]) - 1
    <3>1. 1 <= Minus(maxInFlightUp[e], maxInFlightDown[e])
      BY <1>11, <1>12 DEF InFlight
    <3> QED
      BY <1>0, <3>1, CountersCountOn, SmallSteps DEF Typed
  <2> QED
    BY <1>1, <1>8, <1>11, <2>1 DEF InFlight
<1>14. InQ(e)' = s + 1
  <2>1. Minus(Plus(curInQUp[e], 1), curInQDown[e]) = Minus(curInQUp[e], curInQDown[e]) + 1
    <3>1. Minus(curInQUp[e], curInQDown[e]) + 1 < Modulus
      BY <1>11, <1>12 DEF InQ
    <3>2. curInQUp[e] \in Counters /\ curInQDown[e] \in Counters /\ 1 \in 0 .. Modulus - 1
      BY <1>0, SmallSteps DEF Typed
    <3> QED
      BY <3>1, <3>2, CountersCountOn
  <2> QED
    BY <1>1, <1>7, <1>11, <2>1 DEF InQ
<1>15. /\ \A x \in Ends : Budget(x)' = Budget(x)
       /\ \A x \in Ends \ {e} : InFlight(x)' = InFlight(x) /\ InQ(x)' = InQ(x)
  BY <1>1, <1>7, <1>8 DEF InFlight, InQ, Budget
<1>16. InFlightOwed'
  <2>1. InFlight(e)' = b + m + k
    BY <1>12, <1>13
  <2>2. Owed(e)'
    BY <1>1, <1>p, <1>10, <1>11, <1>15, <2>1 DEF Owed
  <2>3. Owed(Peer(e))
    BY <1>0, <1>p, OwedInv
  <2>4. Owed(Peer(e))'
    BY <1>1, <1>p, <1>10, <1>15, <2>3 DEF Owed
  <2>5. (\A x \in Ends : Owed(x))'
    BY <1>p, <2>2, <2>4
  <2>6. Typed' => (InFlightOwed' <=> (\A x \in Ends : Owed(x))')
    BY OwedInv, PTL
  <2> QED
    BY <1>9, <2>5, <2>6
<1>17. StoredCounted'
  <2>1. s = Len(recvBufferQ[e]) /\ InQ(Peer(e)) = Len(recvBufferQ[Peer(e)])
    BY <1>0, <1>p, <1>11 DEF StoredCounted
  <2>2. InQ(e)' = Len(recvBufferQ'[e])
    BY <1>6, <1>14, <2>1
  <2>3. InQ(Peer(e))' = Len(recvBufferQ'[Peer(e)])
    BY <1>p, <1>6, <1>15, <2>1
  <2> QED
    BY <1>p, <2>2, <2>3 DEF StoredCounted
<1>18. RoomForGranted'
  <2>1. InFlight(e)' + InQ(e)' < RecvQDepth
    BY <1>12, <1>13, <1>14
  <2>2. InFlight(Peer(e))' + InQ(Peer(e))' < RecvQDepth
    BY <1>0, <1>p, <1>15 DEF RoomForGranted
  <2> QED
    BY <1>p, <2>1, <2>2 DEF RoomForGranted
<1> QED
  BY <1>5, <1>9, <1>16, <1>17, <1>18 DEF IInv

-----------------------------------------------------------------------------
(* A stored packet is handed to the user's queue.                          *)
LEMMA FlushStep ==
  ASSUME IInv, NEW e \in Ends, FlushReadBuffer(e)
  PROVE  IInv'
<1>0. Typed /\ InFlightOwed /\ StoredCounted /\ RoomForGranted /\ HalvesPaired
  BY DEF IInv
<1>p. Peer(e) \in Ends /\ Peer(e) # e /\ \A x \in Ends : x = e \/ x = Peer(e)
  BY Peers
<1>1. /\ NotEmpty(recvBufferQ[e]) /\ recvBufferQ' = Deq(recvBufferQ, e)
      /\ recvQ' = Enq(recvQ, e, Head(recvBufferQ[e]))
      /\ curInQDown' = [curInQDown EXCEPT ![e] = Plus(@, 1)]
      /\ UNCHANGED <<sendQ, packetSendBuffer, auroraOutQ, curSendBudgetDown, packetRecvBuffer,
                     auroraInQ, maxInFlightDown, curInQUp, curSendBudgetUp, flowControlQ,
                     maxInFlightUp, wire>>
  BY DEF FlushReadBuffer, sendSide
<1>2. recvBufferQ \in [Ends -> Seq(Packets)] /\ recvQ \in [Ends -> Seq(Packets)]
      /\ curInQDown \in [Ends -> Counters]
  BY <1>0 DEF Typed
<1>3. /\ recvBufferQ' \in [Ends -> Seq(Packets)] /\ Head(recvBufferQ[e]) \in Packets
      /\ Len(recvBufferQ'[e]) = Len(recvBufferQ[e]) - 1
      /\ \A x \in Ends \ {e} : recvBufferQ'[x] = recvBufferQ[x]
  <2>1. /\ Deq(recvBufferQ, e) \in [Ends -> Seq(Packets)] /\ Head(recvBufferQ[e]) \in Packets
        /\ Len(Deq(recvBufferQ, e)[e]) = Len(recvBufferQ[e]) - 1
        /\ \A x \in Ends \ {e} : Deq(recvBufferQ, e)[x] = recvBufferQ[x]
    <3>1. PICK q \in [Ends -> Seq(Packets)] : q = recvBufferQ /\ NotEmpty(q[e])
      BY <1>1, <1>2
    <3>2. /\ Deq(q, e) \in [Ends -> Seq(Packets)] /\ Head(q[e]) \in Packets
          /\ Len(Deq(q, e)[e]) = Len(q[e]) - 1 /\ \A x \in Ends \ {e} : Deq(q, e)[x] = q[x]
      BY <3>1, DeqTyped
    <3> QED
      BY <3>1, <3>2
  <2>2. recvBufferQ' = Deq(recvBufferQ, e)
    BY <1>1
  <2> QED
    BY <2>1, <2>2, Zenon
<1>4. recvQ' \in [Ends -> Seq(Packets)]
  BY <1>1, <1>2, <1>3, EnqTyped
<1>5. /\ curInQDown' \in [Ends -> Counters] /\ curInQDown'[e] = Plus(curInQDown[e], 1)
      /\ \A x \in Ends \ {e} : curInQDown'[x] = curInQDown[x]
  BY <1>1, <1>2, CountOn, SmallSteps
<1>6. Typed'
  BY <1>0, <1>1, <1>3, <1>4, <1>5 DEF Typed
<1>7. PICK s \in Nat, l \in Nat, f \in Nat :
        s = InQ(e) /\ l = Len(recvBufferQ[e]) /\ f = InFlight(e) /\ s = l /\ l > 0
  <2>1. InQ(e) = Len(recvBufferQ[e]) /\ InQ(e) \in Nat /\ InFlight(e) \in Nat
    BY <1>0, CreditTyped DEF StoredCounted
  <2> QED
    BY <1>1, <2>1 DEF NotEmpty
<1>8. InQ(e)' = s - 1
  <2>1. Minus(curInQUp[e], Plus(curInQDown[e], 1)) = Minus(curInQUp[e], curInQDown[e]) - 1
    <3>1. 1 <= Minus(curInQUp[e], curInQDown[e])
      BY <1>7 DEF InQ
    <3> QED
      BY <1>0, <3>1, CountersCountOn, SmallSteps DEF Typed
  <2> QED
    BY <1>1, <1>5, <1>7, <2>1 DEF InQ
<1>9. /\ \A x \in Ends : InFlight(x)' = InFlight(x) /\ Budget(x)' = Budget(x)
                         /\ Credits(x)' = Credits(x) /\ Seconds(x)' = Seconds(x)
                         /\ OnTheWay(x)' = OnTheWay(x)
      /\ \A x \in Ends \ {e} : InQ(x)' = InQ(x)
  BY <1>1, <1>5 DEF InFlight, InQ, Budget, OnTheWay, Credits, Seconds
<1>10. InFlightOwed'
  <2>1. ASSUME NEW x \in Ends PROVE Owed(x)'
    <3>1. Peer(x) \in Ends /\ Owed(x)
      BY <1>0, OwedInv, Peers
    <3> QED
      BY <1>1, <1>9, <3>1 DEF Owed
  <2>2. Typed' => (InFlightOwed' <=> (\A x \in Ends : Owed(x))')
    BY OwedInv, PTL
  <2> QED
    BY <1>6, <2>1, <2>2
<1>11. StoredCounted'
  <2>1. InQ(e)' = Len(recvBufferQ'[e])
    BY <1>3, <1>7, <1>8
  <2>2. InQ(Peer(e))' = Len(recvBufferQ'[Peer(e)])
    BY <1>0, <1>p, <1>3, <1>9 DEF StoredCounted
  <2> QED
    BY <1>p, <2>1, <2>2 DEF StoredCounted
<1>12. RoomForGranted'
  <2>1. f + s < RecvQDepth /\ RecvQDepth \in Nat
    BY <1>0, <1>7, GearboxAssumption DEF RoomForGranted
  <2>2. InFlight(e)' + InQ(e)' < RecvQDepth
    BY <1>7, <1>8, <1>9, <2>1
  <2>3. InFlight(Peer(e))' + InQ(Peer(e))' < RecvQDepth
    BY <1>0, <1>p, <1>9 DEF RoomForGranted
  <2> QED
    BY <1>p, <2>2, <2>3 DEF RoomForGranted
<1>13. HalvesPaired'
  BY <1>0, <1>1, <1>9, HalvesKept
<1> QED
  BY <1>6, <1>10, <1>11, <1>12, <1>13 DEF IInv

-----------------------------------------------------------------------------
(* The theorems.                                                           *)

(* A step that changes nothing.                                            *)
LEMMA StutterStep ==
  ASSUME IInv, UNCHANGED vars
  PROVE  IInv'
<1>1. UNCHANGED <<sendQ, recvQ, recvBufferQ, flowControlQ, auroraOutQ, auroraInQ,
                  maxInFlightUp, maxInFlightDown, curInQUp, curInQDown,
                  curSendBudgetUp, curSendBudgetDown, packetSendBuffer, packetRecvBuffer, wire>>
  BY DEF vars, sendSide, recvSide
<1>2. Typed'
  BY <1>1 DEF IInv, Typed
<1>3. \A x \in Ends : OnTheWay(x)' = OnTheWay(x)
  BY <1>1 DEF OnTheWay
<1> QED
  BY <1>1, <1>2, <1>3, QuietStep

(* Every reachable state of the two gearboxes satisfies the invariant.     *)
THEOREM Invariance == Spec => []IInv
<1>1. Init => IInv
  BY InitIInv
<1>2. IInv /\ [Next]_vars => IInv'
  <2> SUFFICES ASSUME IInv, [Next]_vars PROVE IInv'
    OBVIOUS
  <2>1. ASSUME NEW e \in Ends, Rules(e) PROVE IInv'
    <3>1. CASE EmitFlowControlPacket(e)
      BY <3>1, EmitStep
    <3>2. CASE SendCredit(e)
      BY <3>2, SendCreditStep
    <3>3. CASE SendSecondHalf(e)
      BY <3>3, SendSecondStep
    <3>4. CASE SendFirstHalf(e)
      BY <3>4, SendFirstStep
    <3>5. CASE WireTake(e) \/ WireGive(e)
      BY <3>5, WireStep
    <3>6. CASE RecvCredit(e)
      BY <3>6, RecvCreditStep
    <3>7. CASE RecvSecondHalf(e)
      BY <3>7, RecvSecondStep
    <3>8. CASE RecvFirstHalf(e)
      BY <3>8, RecvFirstStep
    <3>9. CASE FlushReadBuffer(e)
      BY <3>9, FlushStep
    <3> QED
      BY <2>1, <3>1, <3>2, <3>3, <3>4, <3>5, <3>6, <3>7, <3>8, <3>9 DEF Rules
  <2>2. ASSUME NEW e \in Ends, Recv(e) PROVE IInv'
    BY <2>2, UserStep
  <2>3. ASSUME NEW e \in Senders, NEW p \in Packets, Send(e, p) PROVE IInv'
    <3>1. e \in Ends
      BY GearboxAssumption
    <3> QED
      BY <2>3, <3>1, UserStep
  <2>4. CASE UNCHANGED vars
    BY <2>4, StutterStep
  <2> QED
    BY <2>1, <2>2, <2>3, <2>4 DEF Next
<1> QED
  BY <1>1, <1>2, PTL DEF Spec

(* The registers keep their 16 bits, and the queues and the two buffers    *)
(* hold packets and words of the link only.                                *)
THEOREM TypeCorrect == Spec => []TypeOK
<1>1. IInv => TypeOK
  <2> SUFFICES ASSUME IInv, NEW e \in Ends
               PROVE /\ {maxInFlightUp[e], maxInFlightDown[e], curInQUp[e], curInQDown[e],
                         curSendBudgetUp[e], curSendBudgetDown[e]} \subseteq Counters
                     /\ Len(packetSendBuffer[e]) <= 1 /\ Len(packetRecvBuffer[e]) <= 1
                     /\ InSeq(sendQ[e]) \union InSeq(recvBufferQ[e]) \union InSeq(recvQ[e]) \subseteq Packets
                     /\ \A w \in InSeq(auroraOutQ[e]) \union InSeq(auroraInQ[e]) \union InSeq(wire[e]) :
                          w.control \in {0, 1} /\ w \in Words
    BY DEF TypeOK
  <2>0. Typed
    BY DEF IInv
  <2>1. {maxInFlightUp[e], maxInFlightDown[e], curInQUp[e], curInQDown[e],
         curSendBudgetUp[e], curSendBudgetDown[e]} \subseteq Counters
    BY <2>0 DEF Typed
  <2>2. Len(packetSendBuffer[e]) <= 1 /\ Len(packetRecvBuffer[e]) <= 1
    <3>1. ASSUME NEW h \in Halves PROVE Len(h) <= 1
      <4>1. CASE h = <<>>
        BY <4>1
      <4>2. ASSUME NEW p \in Payloads, h = <<p>> PROVE Len(h) <= 1
        BY <4>2
      <4> QED
        BY <4>1, <4>2 DEF Halves
    <3> QED
      BY <2>0, <3>1 DEF Typed
  <2>3. ASSUME NEW S, NEW q \in Seq(S) PROVE InSeq(q) \subseteq S
    BY ElementOfSeq DEF InSeq
  <2>4. InSeq(sendQ[e]) \subseteq Packets /\ InSeq(recvBufferQ[e]) \subseteq Packets
        /\ InSeq(recvQ[e]) \subseteq Packets
    BY <2>0, <2>3 DEF Typed
  <2>5. InSeq(auroraOutQ[e]) \subseteq Words /\ InSeq(auroraInQ[e]) \subseteq Words
        /\ InSeq(wire[e]) \subseteq Words
    BY <2>0, <2>3 DEF Typed
  <2>6. \A w \in Words : w.control \in {0, 1}
    BY WhichCount
  <2> QED
    BY <2>1, <2>2, <2>4, <2>5, <2>6
<1> QED
  BY <1>1, Invariance, PTL

(* Credit is conserved across the wrap of the counters, and is room: when  *)
(* the second half of a packet arrives there is a place for the packet, so *)
(* the receive rule never waits and the link loses nothing.                *)
THEOREM CreditSafe == Spec => []CreditIsRoom
<1>1. IInv => CreditConserved
  BY DEF IInv, CreditConserved, InFlightOwed, StoredCounted
<1>2. IInv => RxNeverStalls
  <2> SUFFICES ASSUME IInv, NEW e \in Ends, NotEmpty(auroraInQ[e]),
                      Head(auroraInQ[e]).control = 0, Completes(e)
               PROVE  NotFull(recvBufferQ[e], RecvQDepth)
    BY DEF RxNeverStalls
  <2>0. Typed /\ InFlightOwed /\ StoredCounted /\ RoomForGranted /\ HalvesPaired
    BY DEF IInv
  <2>1. InQ(e) = Len(recvBufferQ[e]) /\ InFlight(e) + InQ(e) < RecvQDepth
    BY <2>0 DEF StoredCounted, RoomForGranted
  <2>2. InQ(e) \in Nat /\ InFlight(e) \in Nat /\ RecvQDepth \in Nat
    BY <2>0, CreditTyped, GearboxAssumption
  <2> QED
    BY <2>1, <2>2 DEF NotFull
<1> QED
  BY <1>1, <1>2, Invariance, PTL DEF CreditIsRoom

-----------------------------------------------------------------------------
(* One before others, and one behind them.                                 *)
Before(x, s) == <<x>> \o s
Behind(s, x) == Append(s, x)

(* Sequence y is p and then s; s and then p.                               *)
LedBy(y, p, s) ==
  Len(s) \in Nat /\ Len(y) = Len(s) + 1 /\ y[1] = p /\ \A i \in 1 .. Len(s) : y[i + 1] = s[i]

EndedBy(y, p, s) ==
  Len(s) \in Nat /\ Len(y) = Len(s) + 1 /\ y[Len(s) + 1] = p /\ \A i \in 1 .. Len(s) : y[i] = s[i]

(* The places of an element in front of others.                            *)
LEMMA InFrontAt ==
  ASSUME NEW S, NEW s \in Seq(S), NEW p \in S
  PROVE  Before(p, s) \in Seq(S) /\ LedBy(Before(p, s), p, s)
<1> DEFINE y == <<p>>
<1>1. y \in Seq(S) /\ Len(y) = 1 /\ y[1] = p /\ Len(s) \in Nat
  OBVIOUS
<1>s. s \in Seq(S)
  OBVIOUS
<1>b. Before(p, s) = y \o s
  BY DEF Before
<1> HIDE DEF y
<1>2. /\ y \o s \in Seq(S) /\ Len(y \o s) = 1 + Len(s)
      /\ \A i \in 1 .. 1 + Len(s) : (y \o s)[i] = IF i <= 1 THEN y[i] ELSE s[i - 1]
  <2>1. /\ y \o s \in Seq(S) /\ Len(y \o s) = Len(y) + Len(s)
        /\ \A i \in 1 .. Len(y) + Len(s) : (y \o s)[i] = IF i <= Len(y) THEN y[i] ELSE s[i - Len(y)]
    BY <1>1, <1>s, ConcatProperties
  <2> QED
    BY <1>1, <2>1
<1>3. \A i \in 1 .. Len(s) : i + 1 \in 1 .. 1 + Len(s) /\ ~(i + 1 <= 1) /\ (i + 1) - 1 = i
  BY <1>1
<1> QED
  BY <1>1, <1>2, <1>3, <1>b DEF LedBy

(* The places of an element behind others.                                 *)
LEMMA BehindAt ==
  ASSUME NEW S, NEW s \in Seq(S), NEW p \in S
  PROVE  Behind(s, p) \in Seq(S) /\ EndedBy(Behind(s, p), p, s)
  BY Enqueued DEF Behind, EndedBy

-----------------------------------------------------------------------------
(* The halves under way, without the credit between them.                  *)

(* The number of a place among the places P, and the place of a number.    *)
Rank(P, i)    == Cardinality({j \in P : j <= i})
PlaceAt(P, k) == CHOOSE i \in P : Rank(P, i) = k

(* The places up to one are counted.                                       *)
LEMMA RankIsNat ==
  ASSUME NEW n \in Nat, NEW P \in SUBSET (1 .. n), NEW i
  PROVE  /\ IsFiniteSet(P) /\ Cardinality(P) \in Nat
         /\ IsFiniteSet({j \in P : j <= i}) /\ Rank(P, i) \in Nat
         /\ Rank(P, i) <= Cardinality(P)
<1>1. IsFiniteSet(1 .. n)
  BY FS_Interval
<1>2. IsFiniteSet(P)
  BY <1>1, FS_Subset
<1>3. {j \in P : j <= i} \in SUBSET P
  OBVIOUS
<1> QED
  BY <1>2, <1>3, FS_Subset, FS_CardinalityType DEF Rank

(* Numbers go up with the places.                                          *)
LEMMA RankGoesUp ==
  ASSUME NEW n \in Nat, NEW P \in SUBSET (1 .. n), NEW i \in P, NEW l \in P, i < l
  PROVE  Rank(P, i) < Rank(P, l)
<1> DEFINE A == {j \in P : j <= i}
           B == {j \in P : j <= l}
<1>0. /\ IsFiniteSet(A) /\ IsFiniteSet(B)
      /\ Rank(P, i) = Cardinality(A) /\ Rank(P, l) = Cardinality(B)
      /\ Rank(P, i) \in Nat /\ Rank(P, l) \in Nat
  BY RankIsNat DEF Rank
<1>1. A \in SUBSET B /\ l \in B /\ l \notin A
  <2>1. /\ \A j \in P : j \in Int
        /\ i \in Int /\ l \in Int /\ l <= l /\ ~(l <= i)
    OBVIOUS
  <2>2. \A j \in P : j <= i => j <= l
    BY <2>1
  <2> QED
    BY <2>1, <2>2
<1> HIDE DEF A, B
<1>2. Cardinality(A) <= Cardinality(B) /\ (Cardinality(B) = Cardinality(A) => B = A)
  BY <1>0, <1>1, FS_Subset
<1>3. Cardinality(A) # Cardinality(B)
  BY <1>1, <1>2
<1> QED
  BY <1>0, <1>2, <1>3

(* Each number belongs to one place.                                       *)
LEMMA RankedPlaces ==
  ASSUME NEW n \in Nat, NEW P \in SUBSET (1 .. n)
  PROVE  /\ \A i \in P : Rank(P, i) \in 1 .. Cardinality(P) /\ PlaceAt(P, Rank(P, i)) = i
         /\ \A k \in 1 .. Cardinality(P) : PlaceAt(P, k) \in P /\ Rank(P, PlaceAt(P, k)) = k
<1> DEFINE f == [i \in P |-> Rank(P, i)]
<1>0. IsFiniteSet(P) /\ Cardinality(P) \in Nat
  BY RankIsNat
<1>1. ASSUME NEW i \in P PROVE Rank(P, i) \in 1 .. Cardinality(P)
  <2>1. Rank(P, i) \in Nat /\ Rank(P, i) <= Cardinality(P) /\ IsFiniteSet({j \in P : j <= i})
    BY RankIsNat
  <2>2. i \in {j \in P : j <= i}
    <3>1. i \in Int /\ i <= i
      OBVIOUS
    <3> QED
      BY <3>1
  <2>3. Rank(P, i) # 0
    BY <2>1, <2>2, FS_EmptySet DEF Rank
  <2> QED
    BY <1>0, <2>1, <2>3
<1>2. ASSUME NEW i \in P, NEW l \in P, Rank(P, i) = Rank(P, l) PROVE i = l
  <2>0. i \in Int /\ l \in Int
    OBVIOUS
  <2>1. i \in Int /\ l \in Int /\ Rank(P, i) \in Nat /\ Rank(P, l) \in Nat
    <3>1. Rank(P, i) \in Nat
      BY RankIsNat
    <3>2. Rank(P, l) \in Nat
      BY RankIsNat
    <3> QED
      BY <2>0, <3>1, <3>2
  <2>2. ~(i < l) /\ ~(l < i)
    BY <1>2, <2>1, RankGoesUp
  <2> QED
    BY <2>1, <2>2
<1>3. f \in Injection(P, 1 .. Cardinality(P))
  BY <1>1, <1>2 DEF Injection, IsInjective
<1>4. IsFiniteSet(1 .. Cardinality(P)) /\ Cardinality(1 .. Cardinality(P)) = Cardinality(P)
  BY <1>0, FS_Interval
<1>5. f \in Surjection(P, 1 .. Cardinality(P))
  BY <1>3, <1>4, FS_Injection
<1>6. \A k \in 1 .. Cardinality(P) : \E i \in P : Rank(P, i) = k
  BY <1>5 DEF Surjection
<1>7. \A k \in 1 .. Cardinality(P) : PlaceAt(P, k) \in P /\ Rank(P, PlaceAt(P, k)) = k
  BY <1>6 DEF PlaceAt
<1>8. \A i \in P : PlaceAt(P, Rank(P, i)) = i
  BY <1>1, <1>2, <1>7
<1> QED
  BY <1>1, <1>7, <1>8

(* The bodies are those of the words of data, in their order.              *)
LEMMA BodiesInOrder ==
  ASSUME NEW q \in Seq(Words), NEW P, P = DataPlaces(q)
  PROVE  /\ P \in SUBSET (1 .. Len(q)) /\ IsFiniteSet(P) /\ Cardinality(P) \in Nat
         /\ Bodies[q] \in Seq(Payloads) /\ Len(Bodies[q]) = Cardinality(P)
         /\ \A i \in P : Rank(P, i) \in 1 .. Cardinality(P) /\ Bodies[q][Rank(P, i)] = q[i].body
         /\ \A k \in 1 .. Cardinality(P) : \E i \in P : Rank(P, i) = k
<1>1. Len(q) \in Nat /\ P \in SUBSET (1 .. Len(q))
  BY DEF DataPlaces
<1>2. IsFiniteSet(P) /\ Cardinality(P) \in Nat
  BY <1>1, RankIsNat
<1>3. /\ \A i \in P : Rank(P, i) \in 1 .. Cardinality(P) /\ PlaceAt(P, Rank(P, i)) = i
      /\ \A k \in 1 .. Cardinality(P) : PlaceAt(P, k) \in P /\ Rank(P, PlaceAt(P, k)) = k
  BY <1>1, RankedPlaces
<1>4. Bodies[q] = [k \in 1 .. Cardinality(P) |-> q[PlaceAt(P, k)].body]
  BY DEF Bodies, PlaceAt, Rank
<1>5. \A i \in P : q[i] \in Words /\ q[i].control = 0
  BY DEF DataPlaces
<1>6. \A i \in P : q[i].body \in Payloads
  BY <1>5, WhichCount
<1>7. Bodies[q] \in Seq(Payloads) /\ Len(Bodies[q]) = Cardinality(P)
  <2>1. Bodies[q] \in [1 .. Cardinality(P) -> Payloads]
    BY <1>3, <1>4, <1>6
  <2> QED
    BY <1>2, <2>1, SeqDef, LenProperties
<1>8. \A i \in P : Bodies[q][Rank(P, i)] = q[i].body
  BY <1>3, <1>4
<1>9. \A k \in 1 .. Cardinality(P) : \E i \in P : Rank(P, i) = k
  BY <1>3
<1> QED
  BY <1>1, <1>2, <1>3, <1>7, <1>8, <1>9

(* A word of data that is put out is the last body, a word of credit none. *)
LEMMA BodiesGrow ==
  ASSUME NEW q \in Seq(Words), NEW w \in Words
  PROVE  /\ w.control = 0 => Bodies[Append(q, w)] = Behind(Bodies[q], w.body)
         /\ w.control = 1 => Bodies[Append(q, w)] = Bodies[q]
<1> DEFINE t == Append(q, w)
           P == DataPlaces(q)
           R == DataPlaces(t)
           N == Len(q) + 1
<1>1. /\ t \in Seq(Words) /\ Len(q) \in Nat /\ Len(t) = N /\ t[N] = w
      /\ \A i \in 1 .. Len(q) : t[i] = q[i]
  BY Enqueued
<1>2. /\ P \in SUBSET (1 .. Len(q)) /\ IsFiniteSet(P) /\ Cardinality(P) \in Nat
      /\ Bodies[q] \in Seq(Payloads) /\ Len(Bodies[q]) = Cardinality(P)
      /\ \A i \in P : Rank(P, i) \in 1 .. Cardinality(P) /\ Bodies[q][Rank(P, i)] = q[i].body
      /\ \A k \in 1 .. Cardinality(P) : \E i \in P : Rank(P, i) = k
  BY BodiesInOrder
<1>3. /\ Bodies[t] \in Seq(Payloads) /\ Len(Bodies[t]) = Cardinality(R)
      /\ \A i \in R : Rank(R, i) \in 1 .. Cardinality(R) /\ Bodies[t][Rank(R, i)] = t[i].body
      /\ Cardinality(R) \in Nat
  <2> HIDE DEF t
  <2> QED
    BY <1>1, BodiesInOrder
<1> HIDE DEF t, P, R, N
<1>4. CASE w.control = 1
  <2>1. R = P
    BY <1>1, <1>4 DEF DataPlaces, P, R, N
  <2>2. \A i \in P : t[i] = q[i]
    BY <1>1, <1>2
  <2>3. \A k \in 1 .. Cardinality(P) : Bodies[t][k] = Bodies[q][k]
    <3> SUFFICES ASSUME NEW k \in 1 .. Cardinality(P) PROVE Bodies[t][k] = Bodies[q][k]
      OBVIOUS
    <3>1. PICK i \in P : Rank(P, i) = k
      BY <1>2
    <3> QED
      BY <1>2, <1>3, <2>1, <2>2, <3>1
  <2>4. Bodies[t] = Bodies[q]
    BY <1>2, <1>3, <2>1, <2>3, SeqEqual
  <2> QED
    BY <1>4, <2>4 DEF t
<1>5. CASE w.control = 0
  <2>1. R = P \union {N} /\ N \notin P
    BY <1>1, <1>5 DEF DataPlaces, P, R, N
  <2>2. Cardinality(R) = Cardinality(P) + 1
    BY <1>2, <2>1, FS_AddElement
  <2>3. \A i \in P : Rank(R, i) = Rank(P, i) /\ i \in R /\ t[i] = q[i]
    <3> SUFFICES ASSUME NEW i \in P PROVE Rank(R, i) = Rank(P, i) /\ i \in R /\ t[i] = q[i]
      OBVIOUS
    <3>1. i \in 1 .. Len(q) /\ ~(N <= i)
      BY <1>1, <1>2 DEF N
    <3>2. {j \in R : j <= i} = {j \in P : j <= i}
      BY <2>1, <3>1
    <3> QED
      BY <1>1, <2>1, <3>1, <3>2 DEF Rank
  <2>4. Rank(R, N) = Cardinality(R) /\ N \in R
    <3>1. \A j \in R : j <= N
      BY <1>1 DEF DataPlaces, R, N
    <3>2. {j \in R : j <= N} = R
      BY <3>1
    <3> QED
      BY <2>1, <3>2 DEF Rank
  <2>5. w.body \in Payloads /\ t[N] = w
    BY <1>1, <1>5, WhichCount
  <2>6. \A k \in 1 .. Cardinality(P) : Bodies[t][k] = Bodies[q][k]
    <3> SUFFICES ASSUME NEW k \in 1 .. Cardinality(P) PROVE Bodies[t][k] = Bodies[q][k]
      OBVIOUS
    <3>1. PICK i \in P : Rank(P, i) = k
      BY <1>2
    <3> QED
      BY <1>2, <1>3, <2>3, <3>1
  <2>7. Bodies[t][Cardinality(P) + 1] = w.body
    BY <1>3, <2>2, <2>4, <2>5
  <2>8. PICK b \in Seq(Payloads) : b = Bodies[q]
    BY <1>2
  <2>9. /\ Append(b, w.body) \in Seq(Payloads) /\ Len(Append(b, w.body)) = Cardinality(P) + 1
        /\ Append(b, w.body)[Cardinality(P) + 1] = w.body
        /\ \A k \in 1 .. Cardinality(P) : Append(b, w.body)[k] = b[k]
    BY <1>2, <2>5, <2>8, Enqueued
  <2>10. \A k \in 1 .. Cardinality(P) + 1 : Bodies[t][k] = Append(b, w.body)[k]
    <3> SUFFICES ASSUME NEW k \in 1 .. Cardinality(P) + 1 PROVE Bodies[t][k] = Append(b, w.body)[k]
      OBVIOUS
    <3>1. k \in 1 .. Cardinality(P) \/ k = Cardinality(P) + 1
      BY <1>2
    <3> QED
      BY <2>6, <2>7, <2>8, <2>9, <3>1
  <2>11. Bodies[t] = Append(b, w.body)
    BY <1>3, <2>2, <2>9, <2>10, SeqEqual
  <2> QED
    BY <1>5, <2>8, <2>11 DEF t, Behind
<1> QED
  BY <1>4, <1>5, WhichCount DEF t

(* The first word taken away is the first body, if it is a word of data.   *)
LEMMA BodiesShrink ==
  ASSUME NEW q \in Seq(Words), NotEmpty(q), NEW w \in Words, w = Head(q)
  PROVE  /\ Tail(q) \in Seq(Words)
         /\ w.control = 0 => Bodies[q] = Before(w.body, Bodies[Tail(q)])
         /\ w.control = 1 => Bodies[q] = Bodies[Tail(q)]
<1> DEFINE t == Tail(q)
           P == DataPlaces(q)
           R == DataPlaces(t)
           c == IF w.control = 0 THEN 1 ELSE 0
<1>1. /\ t \in Seq(Words) /\ Len(q) \in Nat /\ Len(q) > 0 /\ Len(t) = Len(q) - 1 /\ q[1] = w
      /\ \A i \in 1 .. Len(t) : t[i] = q[i + 1] /\ i + 1 \in 1 .. Len(q)
      /\ \A j \in 1 .. Len(q) : j = 1 \/ (j - 1 \in 1 .. Len(t) /\ t[j - 1] = q[j])
  BY Dequeued DEF NotEmpty
<1>2. /\ P \in SUBSET (1 .. Len(q)) /\ IsFiniteSet(P) /\ Cardinality(P) \in Nat
      /\ Bodies[q] \in Seq(Payloads) /\ Len(Bodies[q]) = Cardinality(P)
      /\ \A i \in P : Rank(P, i) \in 1 .. Cardinality(P) /\ Bodies[q][Rank(P, i)] = q[i].body
  BY BodiesInOrder
<1>3. /\ R \in SUBSET (1 .. Len(t)) /\ IsFiniteSet(R) /\ Cardinality(R) \in Nat
      /\ Bodies[t] \in Seq(Payloads) /\ Len(Bodies[t]) = Cardinality(R)
      /\ \A i \in R : Rank(R, i) \in 1 .. Cardinality(R) /\ Bodies[t][Rank(R, i)] = t[i].body
      /\ \A k \in 1 .. Cardinality(R) : \E i \in R : Rank(R, i) = k
  BY <1>1, BodiesInOrder
<1>4. /\ 1 \in P <=> w.control = 0
      /\ \A i \in R : i + 1 \in P /\ i + 1 # 1
      /\ \A j \in P : j # 1 => j - 1 \in R
  BY <1>1 DEF DataPlaces
<1>5. \A i \in Nat : Cardinality({j \in P : j <= i + 1}) = Cardinality({j \in R : j <= i}) + c
  <2> SUFFICES ASSUME NEW i \in Nat
               PROVE  Cardinality({j \in P : j <= i + 1}) = Cardinality({j \in R : j <= i}) + c
    OBVIOUS
  <2> DEFINE A == {j \in P : j <= i + 1}
             B == {j \in R : j <= i}
             f == [j \in B |-> j + 1]
  <2>1. IsFiniteSet(A) /\ IsFiniteSet(B)
    <3>1. A \in SUBSET P /\ B \in SUBSET R
      OBVIOUS
    <3> QED
      BY <1>2, <1>3, <3>1, FS_Subset
  <2>2. \A j \in B : j \in Nat
    BY <1>1, <1>3
  <2>3. \A j \in A : j \in Nat
    BY <1>1, <1>2
  <2>4. f \in Bijection(B, A \ {1})
    <3>1. \A j \in B : f[j] \in A \ {1}
      BY <1>4, <2>2
    <3>2. \A j, l \in B : f[j] = f[l] => j = l
      BY <2>2
    <3>3. \A j \in A \ {1} : j - 1 \in B /\ f[j - 1] = j
      BY <1>4, <2>3
    <3> QED
      BY <3>1, <3>2, <3>3 DEF Bijection, Injection, Surjection, IsInjective
  <2>5. Cardinality(A \ {1}) = Cardinality(B)
    BY <2>1, <2>4, FS_Bijection, ZenonT(30) DEF ExistsBijection
  <2>6. 1 \in A <=> 1 \in P
    OBVIOUS
  <2>7. Cardinality(A \ {1}) = IF 1 \in A THEN Cardinality(A) - 1 ELSE Cardinality(A)
    BY <2>1, FS_RemoveElement
  <2>8. Cardinality(A) \in Nat /\ Cardinality(B) \in Nat
    BY <2>1, FS_CardinalityType
  <2> HIDE DEF A, B, P
  <2>9. Cardinality(A) = Cardinality(B) + c
    BY <1>4, <2>5, <2>6, <2>7, <2>8
  <2> QED
    BY <2>9 DEF A, B
<1>6. Cardinality(P) = Cardinality(R) + c
  <2>1. {j \in P : j <= Len(t) + 1} = P /\ {j \in R : j <= Len(t)} = R /\ Len(t) \in Nat
    BY <1>1, <1>2, <1>3
  <2> HIDE DEF P, R, t, c
  <2> QED
    BY <1>5, <2>1
<1>7. \A i \in R : Rank(P, i + 1) = Rank(R, i) + c
  <2>1. \A i \in R : i \in Nat
    BY <1>1, <1>3
  <2> HIDE DEF P, R, t, c
  <2> QED
    BY <1>5, <2>1 DEF Rank
<1>8. \A i \in R : q[i + 1] = t[i]
  BY <1>1, <1>3
<1> HIDE DEF t, P, R
<1>9. \A k \in 1 .. Cardinality(R) : Bodies[q][k + c] = Bodies[t][k]
  <2> SUFFICES ASSUME NEW k \in 1 .. Cardinality(R) PROVE Bodies[q][k + c] = Bodies[t][k]
    OBVIOUS
  <2>1. PICK i \in R : Rank(R, i) = k
    BY <1>3
  <2>2. Rank(P, i + 1) = k + c /\ i + 1 \in P
    BY <1>4, <1>7, <2>1
  <2> HIDE DEF c
  <2>3. Bodies[q][k + c] = q[i + 1].body
    BY <1>2, <2>2
  <2>4. Bodies[t][k] = t[i].body
    BY <1>3, <2>1
  <2> QED
    BY <1>8, <2>3, <2>4
<1>10. CASE w.control = 1
  <2>1. c = 0
    BY <1>10
  <2> HIDE DEF c
  <2>2. \A k \in 1 .. Cardinality(R) : Bodies[q][k] = Bodies[t][k]
    BY <1>3, <1>9, <2>1
  <2>3. Bodies[q] = Bodies[t]
    <3>1. Cardinality(P) = Cardinality(R)
      BY <1>3, <1>6, <2>1
    <3>2. /\ Bodies[q] \in Seq(Payloads) /\ Len(Bodies[q]) = Cardinality(R)
          /\ Bodies[t] \in Seq(Payloads) /\ Len(Bodies[t]) = Cardinality(R)
      BY <1>2, <1>3, <3>1
    <3> QED
      BY <2>2, <3>2, SeqEqual
  <2> QED
    BY <1>1, <1>10, <2>3 DEF t
<1>11. CASE w.control = 0
  <2>1. c = 1 /\ 1 \in P
    BY <1>4, <1>11
  <2> HIDE DEF c
  <2>2. Rank(P, 1) = 1
    <3>1. \A j \in P : j \in Nat \ {0}
      BY <1>2
    <3>2. {j \in P : j <= 1} = {1}
      BY <2>1, <3>1
    <3> QED
      BY <3>2, FS_Singleton DEF Rank
  <2>3. Bodies[q][1] = w.body /\ w.body \in Payloads
    BY <1>1, <1>2, <1>11, <2>1, <2>2, WhichCount
  <2>4. PICK b \in Seq(Payloads) : b = Bodies[t]
    BY <1>3
  <2> DEFINE y == Before(w.body, b)
  <2>5. /\ y \in Seq(Payloads) /\ Len(y) = Cardinality(R) + 1 /\ y[1] = w.body
        /\ \A k \in 1 .. Cardinality(R) : y[k + 1] = b[k]
    <3>1. Before(w.body, b) \in Seq(Payloads) /\ LedBy(Before(w.body, b), w.body, b)
      BY <2>3, InFrontAt
    <3> QED
      BY <1>3, <2>4, <3>1 DEF LedBy
  <2>6. \A k \in 1 .. Cardinality(R) + 1 : Bodies[q][k] = y[k]
    <3> SUFFICES ASSUME NEW k \in 1 .. Cardinality(R) + 1 PROVE Bodies[q][k] = y[k]
      OBVIOUS
    <3> HIDE DEF y
    <3>1. CASE k = 1
      BY <2>3, <2>5, <3>1
    <3>2. CASE k # 1
      <4>1. k - 1 \in 1 .. Cardinality(R) /\ (k - 1) + c = k
        BY <1>3, <2>1, <3>2
      <4>2. Bodies[q][(k - 1) + c] = Bodies[t][k - 1]
        BY <1>9, <4>1
      <4>3. y[(k - 1) + 1] = b[k - 1] /\ (k - 1) + 1 = k
        BY <2>5, <4>1
      <4> QED
        BY <2>4, <4>1, <4>2, <4>3
    <3> QED
      BY <3>1, <3>2
  <2> HIDE DEF y
  <2>7. Bodies[q] = y
    BY <1>2, <1>3, <1>6, <2>1, <2>5, <2>6, SeqEqual
  <2> QED
    BY <1>1, <1>11, <2>4, <2>7 DEF t, y
<1> QED
  BY <1>1, <1>10, <1>11, WhichCount DEF t

-----------------------------------------------------------------------------
(* Packets and their halves.                                               *)
Pkts == [lo : Payloads, hi : Payloads]

(* An even number of halves makes packets.                                 *)
LEMMA PackedPairs ==
  ASSUME NEW h \in Seq(Payloads), NEW n \in Nat, Len(h) = 2 * n
  PROVE  /\ Packed[h] \in Seq(Pkts) /\ Len(Packed[h]) = n
         /\ \A k \in 1 .. n : Packed[h][k] = [lo |-> h[2 * k - 1], hi |-> h[2 * k]]
<1>1. (Len(h) + 1) \div 2 = n
  BY SMTT(30)
<1>2. \A k \in 1 .. n : 2 * k - 1 \in 1 .. Len(h) /\ 2 * k \in 1 .. Len(h) /\ 2 * k <= Len(h)
  OBVIOUS
<1>3. \A k \in 1 .. n : h[2 * k - 1] \in Payloads /\ h[2 * k] \in Payloads
  BY <1>2
<1>4. Packed[h] = [k \in 1 .. n |-> [lo |-> h[2 * k - 1], hi |-> h[2 * k]]]
  BY <1>1, <1>2 DEF Packed
<1>5. Packed[h] \in [1 .. n -> Pkts]
  BY <1>3, <1>4 DEF Pkts
<1>6. Packed[h] \in Seq(Pkts) /\ Len(Packed[h]) = n
  BY <1>5, SeqDef, LenProperties
<1> QED
  BY <1>4, <1>6

(* Two more halves at the end are one more packet.                         *)
LEMMA PackedGrows ==
  ASSUME NEW h \in Seq(Payloads), NEW n \in Nat, Len(h) = 2 * n,
         NEW x \in Payloads, NEW y \in Payloads, NEW z, z = Behind(h, x), NEW g, g = Behind(z, y),
         NEW p \in Pkts, p = [lo |-> x, hi |-> y]
  PROVE  Len(g) = 2 * (n + 1) /\ Packed[g] = Behind(Packed[h], p)
<1>1. /\ z \in Seq(Payloads) /\ Len(z) = Len(h) + 1 /\ z[Len(h) + 1] = x
      /\ \A i \in 1 .. Len(h) : z[i] = h[i]
  <2>1. /\ Behind(h, x) \in Seq(Payloads)
        /\ EndedBy(Behind(h, x), x, h)
    BY BehindAt
  <2> QED
    BY <2>1 DEF EndedBy
<1>2. /\ Len(z) = 2 * n + 1 /\ z[2 * n + 1] = x
      /\ \A i \in 1 .. 2 * n : z[i] = h[i]
  BY <1>1
<1>3. /\ g \in Seq(Payloads) /\ Len(g) = 2 * n + 2 /\ g[2 * n + 2] = y
      /\ \A i \in 1 .. 2 * n + 1 : g[i] = z[i]
  <2>1. /\ g \in Seq(Payloads) /\ Len(g) = Len(z) + 1 /\ g[Len(z) + 1] = y
        /\ \A i \in 1 .. Len(z) : g[i] = z[i]
    <3>1. /\ Behind(z, y) \in Seq(Payloads)
          /\ EndedBy(Behind(z, y), y, z)
      BY <1>1, BehindAt
    <3> QED
      BY <3>1 DEF EndedBy
  <2> QED
    BY <1>2, <2>1
<1>4. /\ g[2 * n + 1] = x /\ g[2 * n + 2] = y /\ \A i \in 1 .. 2 * n : g[i] = h[i]
  BY <1>2, <1>3
<1>5. Len(g) = 2 * (n + 1) /\ n + 1 \in Nat
  BY <1>3
<1>7. /\ Packed[h] \in Seq(Pkts) /\ Len(Packed[h]) = n
      /\ \A k \in 1 .. n : Packed[h][k] = [lo |-> h[2 * k - 1], hi |-> h[2 * k]]
  BY PackedPairs
<1>8. /\ Packed[g] \in Seq(Pkts) /\ Len(Packed[g]) = n + 1
      /\ \A k \in 1 .. n + 1 : Packed[g][k] = [lo |-> g[2 * k - 1], hi |-> g[2 * k]]
  BY <1>3, <1>5, PackedPairs
<1>9. PICK a \in Seq(Pkts) : a = Behind(Packed[h], p)
  BY <1>7, BehindAt
<1>10. /\ Len(a) = n + 1 /\ a[n + 1] = p
       /\ \A k \in 1 .. n : a[k] = Packed[h][k]
  <2>1. /\ Behind(Packed[h], p) \in Seq(Pkts)
        /\ EndedBy(Behind(Packed[h], p), p, Packed[h])
    BY <1>7, BehindAt
  <2> QED
    BY <1>7, <1>9, <2>1 DEF EndedBy
<1>11. ASSUME NEW k \in 1 .. n + 1 PROVE Packed[g][k] = a[k]
  <2>1. CASE k = n + 1
    <3>1. 2 * k - 1 = 2 * n + 1 /\ 2 * k = 2 * n + 2
      BY <2>1
    <3> QED
      BY <1>4, <1>8, <1>10, <2>1, <3>1
  <2>2. CASE k \in 1 .. n
    <3>1. 2 * k - 1 \in 1 .. 2 * n /\ 2 * k \in 1 .. 2 * n
      BY <2>2
    <3>2. g[2 * k - 1] = h[2 * k - 1] /\ g[2 * k] = h[2 * k]
      BY <1>4, <3>1
    <3>3. Packed[g][k] = [lo |-> h[2 * k - 1], hi |-> h[2 * k]]
      BY <1>8, <2>2, <3>2
    <3>4. Packed[h][k] = [lo |-> h[2 * k - 1], hi |-> h[2 * k]] /\ a[k] = Packed[h][k]
      BY <1>7, <1>10, <2>2
    <3> QED
      BY <3>3, <3>4
  <2> QED
    BY <2>1, <2>2
<1>12. Packed[g] = a
  BY <1>8, <1>10, <1>11, SeqEqual
<1> QED
  BY <1>5, <1>9, <1>12

(* The first two halves are the first packet.                              *)
LEMMA PackedShrinks ==
  ASSUME NEW g \in Seq(Payloads), NEW n \in Nat, Len(g) = 2 * n,
         NEW x \in Payloads, NEW y \in Payloads, NEW z, z = Before(y, g), NEW h, h = Before(x, z),
         NEW p \in Pkts, p = [lo |-> x, hi |-> y]
  PROVE  Packed[h] = Before(p, Packed[g])
<1>1. /\ z \in Seq(Payloads) /\ Len(z) = Len(g) + 1 /\ z[1] = y
      /\ \A i \in 1 .. Len(g) : z[i + 1] = g[i]
  <2>1. /\ Before(y, g) \in Seq(Payloads)
        /\ LedBy(Before(y, g), y, g)
    BY InFrontAt
  <2> QED
    BY <2>1 DEF LedBy
<1>2. /\ Len(z) = 2 * n + 1 /\ z[1] = y
      /\ \A i \in 1 .. 2 * n : z[i + 1] = g[i]
  BY <1>1
<1>3. /\ h \in Seq(Payloads) /\ Len(h) = 2 * n + 2 /\ h[1] = x
      /\ \A i \in 1 .. 2 * n + 1 : h[i + 1] = z[i]
  <2>1. /\ h \in Seq(Payloads) /\ Len(h) = 1 + Len(z) /\ h[1] = x
        /\ \A i \in 1 .. Len(z) : h[i + 1] = z[i]
    <3>1. /\ Before(x, z) \in Seq(Payloads)
          /\ LedBy(Before(x, z), x, z)
      BY <1>1, InFrontAt
    <3> QED
      BY <3>1 DEF LedBy
  <2> QED
    BY <1>2, <2>1
<1>4. h[1] = x /\ h[2] = y /\ \A i \in 1 .. 2 * n : h[i + 2] = g[i]
  <2>1. h[1 + 1] = z[1]
    BY <1>3
  <2>2. ASSUME NEW i \in 1 .. 2 * n PROVE h[i + 2] = g[i]
    <3>1. i + 1 \in 1 .. 2 * n + 1 /\ (i + 1) + 1 = i + 2
      OBVIOUS
    <3>2. h[(i + 1) + 1] = z[i + 1]
      BY <1>3, <3>1
    <3> QED
      BY <1>2, <3>1, <3>2
  <2> QED
    BY <1>2, <1>3, <2>1, <2>2
<1>5. Len(h) = 2 * (n + 1) /\ n + 1 \in Nat
  BY <1>3
<1>7. /\ Packed[g] \in Seq(Pkts) /\ Len(Packed[g]) = n
      /\ \A k \in 1 .. n : Packed[g][k] = [lo |-> g[2 * k - 1], hi |-> g[2 * k]]
  BY PackedPairs
<1>8. /\ Packed[h] \in Seq(Pkts) /\ Len(Packed[h]) = n + 1
      /\ \A k \in 1 .. n + 1 : Packed[h][k] = [lo |-> h[2 * k - 1], hi |-> h[2 * k]]
  BY <1>3, <1>5, PackedPairs
<1>9. PICK a \in Seq(Pkts) : a = Before(p, Packed[g])
  BY <1>7, InFrontAt
<1>10. /\ Len(a) = n + 1 /\ a[1] = p
       /\ \A k \in 1 .. n : a[k + 1] = Packed[g][k]
  <2>1. /\ Before(p, Packed[g]) \in Seq(Pkts)
        /\ LedBy(Before(p, Packed[g]), p, Packed[g])
    BY <1>7, InFrontAt
  <2> QED
    BY <1>7, <1>9, <2>1 DEF LedBy
<1>11. ASSUME NEW k \in 1 .. n + 1 PROVE Packed[h][k] = a[k]
  <2>1. CASE k = 1
    <3>1. 2 * k - 1 = 1 /\ 2 * k = 2
      BY <2>1
    <3>2. Packed[h][k] = [lo |-> h[2 * k - 1], hi |-> h[2 * k]]
      BY <1>8
    <3>3. Packed[h][k] = [lo |-> h[1], hi |-> h[2]]
      BY <3>1, <3>2
    <3> QED
      BY <1>4, <1>10, <2>1, <3>3
  <2>2. CASE k # 1
    <3>1. /\ k - 1 \in 1 .. n /\ (k - 1) + 1 = k
          /\ 2 * (k - 1) - 1 \in 1 .. 2 * n /\ 2 * (k - 1) \in 1 .. 2 * n
          /\ (2 * (k - 1) - 1) + 2 = 2 * k - 1 /\ 2 * (k - 1) + 2 = 2 * k
      BY <2>2
    <3>2. h[2 * k - 1] = g[2 * (k - 1) - 1] /\ h[2 * k] = g[2 * (k - 1)]
      BY <1>4, <3>1
    <3>3. a[k] = Packed[g][k - 1]
      BY <1>10, <3>1
    <3> QED
      BY <1>7, <1>8, <3>1, <3>2, <3>3
  <2> QED
    BY <2>1, <2>2
<1>12. Packed[h] = a
  BY <1>8, <1>10, <1>11, SeqEqual
<1> QED
  BY <1>9, <1>12

-----------------------------------------------------------------------------
(* The four parts of a channel: read, stored, begun and not begun.         *)
Cat(a, b) == a \o b

Four(a, b, c, d) == Cat(Cat(Cat(a, b), c), d)

(* They hold packets.                                                      *)
LEMMA CatTyped ==
  ASSUME NEW S, NEW a \in Seq(S), NEW b \in Seq(S)
  PROVE  Cat(a, b) \in Seq(S)
  BY ConcatProperties DEF Cat

(* So do all four.                                                         *)
LEMMA FourTyped ==
  ASSUME NEW S, NEW a \in Seq(S), NEW b \in Seq(S), NEW c \in Seq(S), NEW d \in Seq(S)
  PROVE  Four(a, b, c, d) \in Seq(S)
<1>1. Cat(a, b) \in Seq(S)
  BY CatTyped
<1>2. Cat(Cat(a, b), c) \in Seq(S)
  BY <1>1, CatTyped
<1> QED
  BY <1>2, CatTyped DEF Four

(* One that moves on from the front of a part stays where it is.           *)
LEMMA MovesOn ==
  ASSUME NEW S, NEW a \in Seq(S), NEW b \in Seq(S), NEW x \in S
  PROVE  Cat(Behind(a, x), b) = Cat(a, Before(x, b))
<1>1. <<x>> \in Seq(S) /\ Append(a, x) = a \o <<x>>
  BY AppendIsConcat
<1>2. (a \o <<x>>) \o b = a \o (<<x>> \o b)
  BY <1>1, ConcatAssociative
<1> QED
  BY <1>1, <1>2 DEF Before, Behind, Cat

(* One behind two parts.                                                   *)
LEMMA BehindTwo ==
  ASSUME NEW S, NEW a \in Seq(S), NEW b \in Seq(S), NEW x \in S
  PROVE  Cat(a, Behind(b, x)) = Behind(Cat(a, b), x)
<1>1. <<x>> \in Seq(S) /\ Append(b, x) = b \o <<x>>
  BY AppendIsConcat
<1>2. a \o b \in Seq(S)
  BY ConcatProperties
<1>3. Append(a \o b, x) = (a \o b) \o <<x>>
  BY <1>2, AppendIsConcat
<1>4. (a \o b) \o <<x>> = a \o (b \o <<x>>)
  BY <1>1, ConcatAssociative
<1> QED
  BY <1>1, <1>3, <1>4 DEF Behind, Cat

(* One before two parts.                                                   *)
LEMMA BeforeTwo ==
  ASSUME NEW S, NEW a \in Seq(S), NEW b \in Seq(S), NEW x \in S
  PROVE  Cat(Before(x, a), b) = Before(x, Cat(a, b))
<1>1. <<x>> \in Seq(S)
  OBVIOUS
<1> QED
  BY <1>1, ConcatAssociative DEF Before, Cat

(* From the second part to the first.                                      *)
LEMMA SecondMoves ==
  ASSUME NEW S, NEW a \in Seq(S), NEW b \in Seq(S), NEW c \in Seq(S), NEW d \in Seq(S), NEW x \in S
  PROVE  Four(Behind(a, x), b, c, d) = Four(a, Before(x, b), c, d)
<1>1. Cat(Behind(a, x), b) = Cat(a, Before(x, b))
  BY MovesOn
<1> QED
  BY <1>1 DEF Four

(* From the third part to the second.                                      *)
LEMMA ThirdMoves ==
  ASSUME NEW S, NEW a \in Seq(S), NEW b \in Seq(S), NEW c \in Seq(S), NEW d \in Seq(S), NEW x \in S
  PROVE  Four(a, Behind(b, x), c, d) = Four(a, b, Before(x, c), d)
<1>1. PICK u \in Seq(S) : u = Cat(a, b)
  BY CatTyped
<1>2. \A g, h \in Seq(S) : Cat(Behind(g, x), h) = Cat(g, Before(x, h))
  BY MovesOn
<1>3. Cat(a, Behind(b, x)) = Behind(Cat(a, b), x)
  BY BehindTwo
<1> QED
  BY <1>1, <1>2, <1>3 DEF Four

(* From the last part to the third.                                        *)
LEMMA LastMoves ==
  ASSUME NEW S, NEW a \in Seq(S), NEW b \in Seq(S), NEW c \in Seq(S), NEW d \in Seq(S), NEW x \in S
  PROVE  Four(a, b, Behind(c, x), d) = Four(a, b, c, Before(x, d))
<1>1. PICK u \in Seq(S) : u = Cat(a, b)
  BY CatTyped
<1>2. PICK v \in Seq(S) : v = Cat(u, c)
  BY CatTyped
<1>3. \A g, h \in Seq(S) : Cat(Behind(g, x), h) = Cat(g, Before(x, h))
  BY MovesOn
<1>4. \A g, h \in Seq(S) : Cat(g, Behind(h, x)) = Behind(Cat(g, h), x)
  BY BehindTwo
<1>5. Cat(u, Behind(c, x)) = Behind(v, x)
  BY <1>2, <1>4
<1>6. Cat(Behind(v, x), d) = Cat(v, Before(x, d))
  BY <1>3
<1> QED
  BY <1>1, <1>2, <1>5, <1>6 DEF Four

(* The first of a part and the others.                                     *)
LEMMA FirstIn ==
  ASSUME NEW S, NEW z \in Seq(S), NotEmpty(z)
  PROVE  \E h \in S, t \in Seq(S) : h = Head(z) /\ t = Tail(z) /\ z = Before(h, t)
<1>1. Head(z) \in S /\ Tail(z) \in Seq(S)
  BY Dequeued
<1>2. z = <<Head(z)>> \o Tail(z)
  BY FirstAndOthers
<1> QED
  BY <1>1, <1>2, Zenon DEF Before

-----------------------------------------------------------------------------
(* The halves of the packets begun, by what the two ends keep and the words*)
(* under way.                                                              *)
Begun(r, q, s) == r \o Bodies[q] \o s

(* A half that is kept is one body or none.                                *)
LEMMA HalfKeptIs ==
  ASSUME NEW h \in Halves
  PROVE  h \in Seq(Payloads) /\ (h = <<>> \/ \E x \in Payloads : h = <<x>>)
<1>1. \A x \in Payloads : <<x>> \in Seq(Payloads)
  OBVIOUS
<1>2. <<>> \in Seq(Payloads)
  OBVIOUS
<1> QED
  BY <1>1, <1>2, Zenon DEF Halves

(* They are bodies.                                                        *)
LEMMA BegunTyped ==
  ASSUME NEW q \in Seq(Words), NEW r \in Halves, NEW s \in Halves
  PROVE  /\ Bodies[q] \in Seq(Payloads) /\ r \o Bodies[q] \in Seq(Payloads)
         /\ Begun(r, q, s) \in Seq(Payloads)
<1>1. Bodies[q] \in Seq(Payloads)
  BY BodiesInOrder
<1>2. r \in Seq(Payloads) /\ s \in Seq(Payloads)
  BY HalfKeptIs
<1>3. r \o Bodies[q] \in Seq(Payloads)
  BY <1>1, <1>2, ConcatProperties
<1>4. (r \o Bodies[q]) \o s \in Seq(Payloads)
  BY <1>2, <1>3, ConcatProperties
<1> QED
  BY <1>1, <1>3, <1>4 DEF Begun

(* The first half of a packet is put out and the second kept: two more.    *)
LEMMA FirstSent ==
  ASSUME NEW q \in Seq(Words), NEW r \in Halves, NEW w \in Words, w.control = 0,
         NEW y \in Payloads
  PROVE  Begun(r, Append(q, w), <<y>>) = Behind(Behind(Begun(r, q, <<>>), w.body), y)
<1>1. PICK b \in Seq(Payloads) : b = Bodies[q]
  BY BegunTyped
<1>2. PICK a \in Seq(Payloads) : a = r \o b
  BY <1>1, BegunTyped
<1>3. PICK x \in Payloads : x = w.body
  BY WhichCount
<1>4. Bodies[Append(q, w)] = Behind(b, x)
  BY <1>1, <1>3, BodiesGrow
<1>5. r \o Behind(b, x) = Behind(a, x)
  <2>1. r \in Seq(Payloads)
    BY HalfKeptIs
  <2>2. Cat(r, Behind(b, x)) = Behind(Cat(r, b), x)
    BY <2>1, BehindTwo
  <2> QED
    BY <1>2, <2>2 DEF Cat
<1>6. PICK g \in Seq(Payloads) : g = Behind(a, x)
  BY BehindAt
<1>7. g \o <<y>> = Behind(g, y)
  BY AppendIsConcat DEF Behind
<1>8. a \o <<>> = a
  BY ConcatEmptySeq
<1> QED
  BY <1>1, <1>2, <1>3, <1>4, <1>5, <1>6, <1>7, <1>8 DEF Begun

(* The second half is put out: it was counted when it was kept.            *)
LEMMA SecondSent ==
  ASSUME NEW q \in Seq(Words), NEW r \in Halves, NEW w \in Words, w.control = 0
  PROVE  Begun(r, Append(q, w), <<>>) = Begun(r, q, <<w.body>>)
<1>1. PICK b \in Seq(Payloads) : b = Bodies[q]
  BY BegunTyped
<1>2. PICK a \in Seq(Payloads) : a = r \o b
  BY <1>1, BegunTyped
<1>3. PICK x \in Payloads : x = w.body
  BY WhichCount
<1>4. Bodies[Append(q, w)] = Behind(b, x)
  BY <1>1, <1>3, BodiesGrow
<1>5. r \o Behind(b, x) = Behind(a, x)
  <2>1. r \in Seq(Payloads)
    BY HalfKeptIs
  <2>2. Cat(r, Behind(b, x)) = Behind(Cat(r, b), x)
    BY <2>1, BehindTwo
  <2> QED
    BY <1>2, <2>2 DEF Cat
<1>6. PICK g \in Seq(Payloads) : g = Behind(a, x)
  BY BehindAt
<1>7. g = a \o <<x>>
  BY <1>6, AppendIsConcat DEF Behind
<1>8. g \o <<>> = g
  BY ConcatEmptySeq
<1> QED
  BY <1>1, <1>2, <1>3, <1>4, <1>5, <1>6, <1>7, <1>8 DEF Begun

(* The first half comes in and is kept.                                    *)
LEMMA FirstTaken ==
  ASSUME NEW q \in Seq(Words), NotEmpty(q), NEW s \in Halves,
         NEW w \in Words, w = Head(q), w.control = 0
  PROVE  Begun(<<w.body>>, Tail(q), s) = Begun(<<>>, q, s)
<1>1. PICK t \in Seq(Words) : t = Tail(q)
  BY BodiesShrink
<1>2. PICK b \in Seq(Payloads) : b = Bodies[t]
  BY BegunTyped
<1>3. PICK x \in Payloads : x = w.body
  BY WhichCount
<1>4. Bodies[q] = Before(x, b)
  BY <1>1, <1>2, <1>3, BodiesShrink
<1>5. <<>> \o Bodies[q] = Bodies[q]
  <2>1. Bodies[q] \in Seq(Payloads)
    BY BodiesInOrder
  <2> QED
    BY <2>1, ConcatEmptySeq
<1> QED
  BY <1>1, <1>2, <1>3, <1>4, <1>5 DEF Begun, Before

(* The second half comes in: the first two of the halves begun are those of*)
(* the packet that is complete.                                            *)
LEMMA SecondTaken ==
  ASSUME NEW q \in Seq(Words), NotEmpty(q), NEW s \in Halves, NEW x \in Payloads,
         NEW w \in Words, w = Head(q), w.control = 0
  PROVE  Begun(<<x>>, q, s) = Before(x, Before(w.body, Begun(<<>>, Tail(q), s)))
<1>1. PICK t \in Seq(Words) : t = Tail(q)
  BY BodiesShrink
<1>2. PICK b \in Seq(Payloads) : b = Bodies[t]
  BY BegunTyped
<1>3. PICK y \in Payloads : y = w.body
  BY WhichCount
<1>4. PICK c \in Seq(Payloads) : c = Before(y, b)
  BY InFrontAt
<1>5. Bodies[q] = c
  BY <1>1, <1>2, <1>3, <1>4, BodiesShrink
<1>6. <<>> \o b = b
  BY ConcatEmptySeq
<1>7. s \in Seq(Payloads)
  BY HalfKeptIs
<1>8. Before(x, c) \o s = Before(x, c \o s)
  <2>1. Cat(Before(x, c), s) = Before(x, Cat(c, s))
    BY <1>7, BeforeTwo
  <2> QED
    BY <2>1 DEF Cat
<1>9. Before(y, b) \o s = Before(y, b \o s)
  <2>1. Cat(Before(y, b), s) = Before(y, Cat(b, s))
    BY <1>7, BeforeTwo
  <2> QED
    BY <2>1 DEF Cat
<1>10. <<x>> \o c = Before(x, c)
  BY DEF Before
<1> QED
  BY <1>1, <1>2, <1>3, <1>4, <1>5, <1>6, <1>8, <1>9, <1>10 DEF Begun

-----------------------------------------------------------------------------
(* The channels of the link.                                               *)
Chan(e) == Four(recvQ[e], recvBufferQ[e], Packed[HalvesBegun(e)], sendQ[Peer(e)])

(* Every packet begun has its two halves at the receiver, on the way or at *)
(* the sender.                                                             *)
WholeBegun == \A e \in Ends : \E n \in Nat : Len(HalvesBegun(e)) = 2 * n

(* The inductive invariant of the refinement.                              *)
LInv == IInv /\ WholeBegun

(* The channels are what the mapping says, before and after a step.        *)
LEMMA Channels ==
  /\ AbsChan = [e \in Ends |-> Chan(e)]
  /\ AbsChan' = [e \in Ends |-> Chan(e)']
  BY DEF AbsChan, Chan, Four, Cat

(* A step that changes one channel.                                        *)
LEMMA OneChannel ==
  ASSUME NEW e \in Ends, NEW v, Chan(e)' = v,
         \A x \in Ends \ {e} : Chan(x)' = Chan(x)
  PROVE  AbsChan' = [AbsChan EXCEPT ![e] = v] /\ AbsChan[e] = Chan(e)
  BY Channels

(* A step that changes no channel.                                         *)
LEMMA NoChannel ==
  ASSUME \A x \in Ends : Chan(x)' = Chan(x)
  PROVE  UNCHANGED AbsChan
  BY Channels

(* The parts of the channel to an end.                                     *)
LEMMA ChanParts ==
  ASSUME LInv, NEW e \in Ends
  PROVE  /\ recvQ[e] \in Seq(Pkts) /\ recvBufferQ[e] \in Seq(Pkts) /\ sendQ[Peer(e)] \in Seq(Pkts)
         /\ HalvesBegun(e) = Begun(packetRecvBuffer[e], OnTheWay(Peer(e)), packetSendBuffer[Peer(e)])
         /\ packetRecvBuffer[e] \in Halves /\ packetSendBuffer[Peer(e)] \in Halves
         /\ OnTheWay(Peer(e)) \in Seq(Words) /\ HalvesBegun(e) \in Seq(Payloads)
         /\ Packed[HalvesBegun(e)] \in Seq(Pkts) /\ Chan(e) \in Seq(Pkts)
<1>0. Typed /\ Peer(e) \in Ends
  BY Peers DEF LInv, IInv
<1>1. \A q \in Seq(Packets) : q \in Seq(Pkts)
  <2> SUFFICES ASSUME NEW q \in Seq(Packets) PROVE q \in Seq(Pkts)
    OBVIOUS
  <2>1. \A i \in 1 .. Len(q) : q[i] \in Packets
    OBVIOUS
  <2>2. Packets \subseteq Pkts
    BY DEF Packets, Pkts
  <2>3. q \in [1 .. Len(q) -> Pkts] /\ Len(q) \in Nat
    BY <2>1, <2>2, LenProperties
  <2> QED
    BY <2>3, SeqDef
<1>2. /\ recvQ[e] \in Seq(Pkts) /\ recvBufferQ[e] \in Seq(Pkts) /\ sendQ[Peer(e)] \in Seq(Pkts)
  BY <1>0, <1>1 DEF Typed
<1>3. /\ packetRecvBuffer[e] \in Halves /\ packetSendBuffer[Peer(e)] \in Halves
      /\ OnTheWay(Peer(e)) \in Seq(Words)
  BY <1>0, WayParts DEF Typed
<1>4. HalvesBegun(e) = Begun(packetRecvBuffer[e], OnTheWay(Peer(e)), packetSendBuffer[Peer(e)])
  BY DEF HalvesBegun, Begun
<1>5. HalvesBegun(e) \in Seq(Payloads)
  BY <1>3, <1>4, BegunTyped
<1>6. PICK n \in Nat : Len(HalvesBegun(e)) = 2 * n
  BY DEF LInv, WholeBegun
<1>7. Packed[HalvesBegun(e)] \in Seq(Pkts)
  BY <1>5, <1>6, PackedPairs
<1>8. Chan(e) \in Seq(Pkts)
  BY <1>2, <1>7, FourTyped DEF Chan
<1> QED
  BY <1>2, <1>3, <1>4, <1>5, <1>7, <1>8

(* The halves begun stay as they are where no word moves.                  *)
LEMMA BegunSame ==
  ASSUME NEW e \in Ends, OnTheWay(Peer(e))' = OnTheWay(Peer(e)),
         packetRecvBuffer'[e] = packetRecvBuffer[e],
         packetSendBuffer'[Peer(e)] = packetSendBuffer[Peer(e)]
  PROVE  HalvesBegun(e)' = HalvesBegun(e)
  BY DEF HalvesBegun

-----------------------------------------------------------------------------
(* What each step does to the channels.                                    *)

(* A step that moves no packet.                                            *)
LEMMA QuietLink ==
  ASSUME LInv, \A x \in Ends : HalvesBegun(x)' = HalvesBegun(x),
         UNCHANGED <<recvQ, recvBufferQ, sendQ>>
  PROVE  WholeBegun' /\ UNCHANGED AbsChan
<1>1. WholeBegun'
  BY DEF LInv, WholeBegun
<1>2. \A x \in Ends : Chan(x)' = Chan(x)
  BY DEF Chan
<1> QED
  BY <1>1, <1>2, NoChannel

(* A step that touches neither a half nor the words under way.             *)
LEMMA HalvesAlone ==
  ASSUME LInv, UNCHANGED <<auroraInQ, wire, auroraOutQ, packetRecvBuffer, packetSendBuffer>>
  PROVE  (\A x \in Ends : HalvesBegun(x)' = HalvesBegun(x)) /\ WholeBegun'
<1>1. \A x \in Ends : HalvesBegun(x)' = HalvesBegun(x)
  BY DEF HalvesBegun, OnTheWay
<1> QED
  BY <1>1 DEF LInv, WholeBegun

(* A packet given to the link is the last of the channel to the peer.      *)
LEMMA SendLink ==
  ASSUME LInv, NEW e \in Ends, NEW p \in Packets, Send(e, p)
  PROVE  WholeBegun' /\ Link!Send(Peer(e), p) /\ Peer(e) \in Ends
<1>p. /\ Peer(e) \in Ends /\ Peer(Peer(e)) = e
      /\ \A x \in Ends \ {Peer(e)} : Peer(x) \in Ends \ {e}
  BY Peers
<1>1. /\ UNCHANGED <<auroraInQ, wire, auroraOutQ, packetRecvBuffer, packetSendBuffer, recvQ, recvBufferQ>>
      /\ sendQ' = Enq(sendQ, e, p)
  BY DEF Send, recvSide
<1>2. (\A x \in Ends : HalvesBegun(x)' = HalvesBegun(x)) /\ WholeBegun'
  BY <1>1, HalvesAlone
<1>3. sendQ'[e] = Append(sendQ[e], p) /\ \A x \in Ends \ {e} : sendQ'[x] = sendQ[x]
  BY <1>1 DEF Enq, LInv, IInv, Typed
<1>4. PICK a \in Seq(Pkts), b \in Seq(Pkts), c \in Seq(Pkts), d \in Seq(Pkts) :
        a = recvQ[Peer(e)] /\ b = recvBufferQ[Peer(e)] /\ c = Packed[HalvesBegun(Peer(e))] /\ d = sendQ[e]
  BY <1>p, ChanParts
<1>5. p \in Pkts
  BY DEF Packets, Pkts
<1>6. PICK u \in Seq(Pkts) : u = Cat(a, b)
  BY CatTyped
<1>7. PICK v \in Seq(Pkts) : v = Cat(u, c)
  BY CatTyped
<1>8. Chan(Peer(e))' = Append(Chan(Peer(e)), p)
  <2>1. Chan(Peer(e)) = Cat(v, d)
    BY <1>p, <1>4, <1>6, <1>7 DEF Chan, Four
  <2>2. Chan(Peer(e))' = Cat(v, Behind(d, p))
    BY <1>p, <1>1, <1>2, <1>3, <1>4, <1>6, <1>7 DEF Chan, Four, Behind
  <2>3. Cat(v, Behind(d, p)) = Behind(Cat(v, d), p)
    BY <1>5, BehindTwo
  <2> QED
    BY <2>1, <2>2, <2>3 DEF Behind
<1>9. \A x \in Ends \ {Peer(e)} : Chan(x)' = Chan(x)
  BY <1>p, <1>1, <1>2, <1>3 DEF Chan
<1>10. AbsChan' = [AbsChan EXCEPT ![Peer(e)] = Append(Chan(Peer(e)), p)] /\ AbsChan[Peer(e)] = Chan(Peer(e))
  BY <1>p, <1>8, <1>9, OneChannel
<1> QED
  BY <1>p, <1>2, <1>10 DEF Link!Send

(* A packet read is the first of the channel.                              *)
LEMMA RecvLink ==
  ASSUME LInv, NEW e \in Ends, Recv(e)
  PROVE  WholeBegun' /\ Link!Recv(e)
<1>1. /\ UNCHANGED <<auroraInQ, wire, auroraOutQ, packetRecvBuffer, packetSendBuffer, sendQ, recvBufferQ>>
      /\ recvQ' = Deq(recvQ, e) /\ NotEmpty(recvQ[e])
  BY DEF Recv, recvSide, sendSide
<1>2. (\A x \in Ends : HalvesBegun(x)' = HalvesBegun(x)) /\ WholeBegun'
  BY <1>1, HalvesAlone
<1>3. recvQ'[e] = Tail(recvQ[e]) /\ \A x \in Ends \ {e} : recvQ'[x] = recvQ[x]
  BY <1>1 DEF Deq, LInv, IInv, Typed
<1>4. PICK z \in Seq(Pkts), b \in Seq(Pkts), c \in Seq(Pkts), d \in Seq(Pkts) :
        z = recvQ[e] /\ b = recvBufferQ[e] /\ c = Packed[HalvesBegun(e)] /\ d = sendQ[Peer(e)]
  BY ChanParts
<1>5. PICK h \in Pkts, a \in Seq(Pkts) : h = Head(z) /\ a = Tail(z) /\ z = Before(h, a)
  <2>1. NotEmpty(z)
    BY <1>1, <1>4, Zenon
  <2> QED
    BY <2>1, FirstIn
<1>6. PICK y \in Seq(Pkts) : y = Four(a, b, c, d)
  BY FourTyped
<1>7. Chan(e) = Before(h, y)
  <2>1. PICK u \in Seq(Pkts) : u = Cat(a, b)
    BY CatTyped
  <2>2. PICK v \in Seq(Pkts) : v = Cat(u, c)
    BY CatTyped
  <2>3. \A f, g \in Seq(Pkts) : Cat(Before(h, f), g) = Before(h, Cat(f, g))
    BY BeforeTwo
  <2>4. Cat(Before(h, a), b) = Before(h, u)
    BY <2>1, <2>3
  <2>5. Cat(Before(h, u), c) = Before(h, v)
    BY <2>2, <2>3
  <2>6. Cat(Before(h, v), d) = Before(h, Cat(v, d))
    BY <2>3
  <2>7. Cat(v, d) = y
    BY <1>6, <2>1, <2>2 DEF Four
  <2>8. Chan(e) = Four(Before(h, a), b, c, d)
    BY <1>4, <1>5 DEF Chan
  <2> QED
    BY <2>4, <2>5, <2>6, <2>7, <2>8 DEF Four
<1>8. Chan(e) # <<>> /\ Tail(Chan(e)) = y
  <2>1. Before(h, y) # <<>> /\ Tail(Before(h, y)) = y
    BY InFront DEF Before
  <2> QED
    BY <1>7, <2>1
<1>9. Chan(e)' = Tail(Chan(e))
  <2>1. Chan(e)' = Four(a, b, c, d)
    BY <1>1, <1>2, <1>3, <1>4, <1>5 DEF Chan
  <2> QED
    BY <1>6, <1>8, <2>1
<1>10. \A x \in Ends \ {e} : Chan(x)' = Chan(x)
  BY <1>1, <1>2, <1>3 DEF Chan
<1>11. AbsChan' = [AbsChan EXCEPT ![e] = Tail(Chan(e))] /\ AbsChan[e] = Chan(e)
  BY <1>9, <1>10, OneChannel
<1> QED
  BY <1>2, <1>8, <1>11 DEF Link!Recv

(* A packet handed on to the reader stays where it is in the channel.      *)
LEMMA FlushLink ==
  ASSUME LInv, NEW e \in Ends, FlushReadBuffer(e)
  PROVE  WholeBegun' /\ UNCHANGED AbsChan
<1>1. /\ UNCHANGED <<auroraInQ, wire, auroraOutQ, packetRecvBuffer, packetSendBuffer, sendQ>>
      /\ recvQ' = Enq(recvQ, e, Head(recvBufferQ[e])) /\ recvBufferQ' = Deq(recvBufferQ, e)
      /\ NotEmpty(recvBufferQ[e])
  BY DEF FlushReadBuffer, sendSide
<1>2. (\A x \in Ends : HalvesBegun(x)' = HalvesBegun(x)) /\ WholeBegun'
  BY <1>1, HalvesAlone
<1>3. /\ recvQ'[e] = Append(recvQ[e], Head(recvBufferQ[e]))
      /\ recvBufferQ'[e] = Tail(recvBufferQ[e])
      /\ \A x \in Ends \ {e} : recvQ'[x] = recvQ[x] /\ recvBufferQ'[x] = recvBufferQ[x]
  BY <1>1 DEF Enq, Deq, LInv, IInv, Typed
<1>4. PICK a \in Seq(Pkts), z \in Seq(Pkts), c \in Seq(Pkts), d \in Seq(Pkts) :
        a = recvQ[e] /\ z = recvBufferQ[e] /\ c = Packed[HalvesBegun(e)] /\ d = sendQ[Peer(e)]
  BY ChanParts
<1>5. PICK h \in Pkts, b \in Seq(Pkts) : h = Head(z) /\ b = Tail(z) /\ z = Before(h, b)
  <2>1. NotEmpty(z)
    BY <1>1, <1>4, Zenon
  <2> QED
    BY <2>1, FirstIn
<1>6. Four(Behind(a, h), b, c, d) = Four(a, Before(h, b), c, d)
  BY SecondMoves
<1>7. Chan(e)' = Chan(e)
  BY <1>1, <1>2, <1>3, <1>4, <1>5, <1>6 DEF Chan, Behind
<1>8. \A x \in Ends : Chan(x)' = Chan(x)
  BY <1>1, <1>2, <1>3, <1>7 DEF Chan
<1> QED
  BY <1>2, <1>8, NoChannel

(* A window granted moves no packet.                                       *)
LEMMA EmitLink ==
  ASSUME LInv, NEW e \in Ends, EmitFlowControlPacket(e)
  PROVE  WholeBegun' /\ UNCHANGED AbsChan
<1>1. UNCHANGED <<auroraInQ, wire, auroraOutQ, packetRecvBuffer, packetSendBuffer, sendQ, recvQ, recvBufferQ>>
  BY DEF EmitFlowControlPacket, sendSide, recvSide
<1> QED
  BY <1>1, HalvesAlone, QuietLink

(* Nor does the wire.                                                      *)
LEMMA WireLink ==
  ASSUME LInv, NEW e \in Ends, WireTake(e) \/ WireGive(e)
  PROVE  WholeBegun' /\ UNCHANGED AbsChan
<1>1. UNCHANGED <<packetRecvBuffer, packetSendBuffer, sendQ, recvQ, recvBufferQ>>
  BY DEF WireTake, WireGive, sendSide, recvSide
<1>2. \A x \in Ends : OnTheWay(x)' = OnTheWay(x)
  BY WayKept DEF LInv, IInv
<1>3. \A x \in Ends : HalvesBegun(x)' = HalvesBegun(x)
  BY <1>1, <1>2, Peers, BegunSame
<1> QED
  BY <1>1, <1>3, QuietLink

(* A window sent is no half of a packet.                                   *)
LEMMA SendCreditLink ==
  ASSUME LInv, NEW e \in Ends, SendCredit(e)
  PROVE  WholeBegun' /\ UNCHANGED AbsChan
<1>0. Typed
  BY DEF LInv, IInv
<1>p. Peer(e) \in Ends /\ Peer(Peer(e)) = e /\ \A x \in Ends \ {Peer(e)} : Peer(x) \in Ends \ {e}
  BY Peers
<1>1. /\ UNCHANGED <<packetRecvBuffer, packetSendBuffer, sendQ, recvQ, recvBufferQ, wire, auroraInQ>>
      /\ NotEmpty(flowControlQ[e])
      /\ auroraOutQ' = Enq(auroraOutQ, e, CreditWord(Head(flowControlQ[e])))
  BY DEF SendCredit, recvSide
<1>2. PICK w \in Words : w = CreditWord(Head(flowControlQ[e])) /\ w.control = 1
  <2>1. Head(flowControlQ[e]) \in {WindowSize}
    BY <1>0, <1>1, DeqTyped DEF Typed
  <2> QED
    BY <2>1, SentCredit
<1>3. /\ OnTheWay(e)' = Append(OnTheWay(e), w)
      /\ \A x \in Ends \ {e} : OnTheWay(x)' = OnTheWay(x)
  BY <1>0, <1>1, <1>2, WayGrows
<1>4. PICK q \in Seq(Words) : q = OnTheWay(e)
  BY <1>0, WayParts
<1>5. Bodies[Append(q, w)] = Bodies[q]
  BY <1>2, BodiesGrow
<1>6. HalvesBegun(Peer(e))' = HalvesBegun(Peer(e))
  BY <1>p, <1>1, <1>3, <1>4, <1>5 DEF HalvesBegun
<1>7. \A x \in Ends \ {Peer(e)} : HalvesBegun(x)' = HalvesBegun(x)
  BY <1>p, <1>1, <1>3, BegunSame
<1> QED
  BY <1>1, <1>6, <1>7, QuietLink

(* The second half of a packet begun goes out.                             *)
LEMMA SendSecondLink ==
  ASSUME LInv, NEW e \in Ends, SendSecondHalf(e)
  PROVE  WholeBegun' /\ UNCHANGED AbsChan
<1>0. Typed
  BY DEF LInv, IInv
<1>p. /\ Peer(e) \in Ends /\ Peer(e) # e /\ Peer(Peer(e)) = e
      /\ \A x \in Ends \ {Peer(e)} : Peer(x) \in Ends \ {e}
  BY Peers
<1>1. /\ UNCHANGED <<packetRecvBuffer, sendQ, recvQ, recvBufferQ, wire, auroraInQ>>
      /\ packetSendBuffer[e] # <<>>
      /\ auroraOutQ' = Enq(auroraOutQ, e, HiWord(packetSendBuffer[e][1]))
      /\ packetSendBuffer' = [packetSendBuffer EXCEPT ![e] = <<>>]
  BY DEF SendSecondHalf, recvSide
<1>2. PICK h \in Payloads : packetSendBuffer[e] = <<h>>
  <2>1. packetSendBuffer[e] \in Halves
    BY <1>0 DEF Typed
  <2> QED
    BY <1>1, <2>1, HalfKeptIs
<1>3. PICK w \in Words : w = HiWord(h) /\ w.control = 0 /\ w.body = h
  <2>1. HiWord(h) \in Words
    BY DEF HiWord, Words
  <2>2. HiWord(h).control = 0 /\ HiWord(h).body = h
    BY DEF HiWord
  <2> QED
    BY <2>1, <2>2
<1>4. /\ OnTheWay(e)' = Append(OnTheWay(e), w)
      /\ \A x \in Ends \ {e} : OnTheWay(x)' = OnTheWay(x)
  <2>1. packetSendBuffer[e][1] = h
    BY <1>2
  <2> QED
    BY <1>0, <1>1, <1>3, <2>1, WayGrows
<1>5. packetSendBuffer'[e] = <<>> /\ \A x \in Ends \ {e} : packetSendBuffer'[x] = packetSendBuffer[x]
  BY <1>0, <1>1 DEF Typed
<1>6. PICK q \in Seq(Words), r \in Halves : q = OnTheWay(e) /\ r = packetRecvBuffer[Peer(e)]
  BY <1>0, <1>p, WayParts DEF Typed
<1>7. Begun(r, Append(q, w), <<>>) = Begun(r, q, <<h>>)
  BY <1>3, SecondSent
<1>8. HalvesBegun(Peer(e))' = HalvesBegun(Peer(e))
  <2>1. HalvesBegun(Peer(e)) = Begun(r, q, <<h>>)
    BY <1>p, <1>2, <1>6 DEF HalvesBegun, Begun
  <2>2. HalvesBegun(Peer(e))' = Begun(r, Append(q, w), <<>>)
    BY <1>p, <1>1, <1>4, <1>5, <1>6 DEF HalvesBegun, Begun
  <2> QED
    BY <1>7, <2>1, <2>2
<1>9. \A x \in Ends \ {Peer(e)} : HalvesBegun(x)' = HalvesBegun(x)
  BY <1>p, <1>1, <1>4, <1>5, BegunSame
<1> QED
  BY <1>1, <1>8, <1>9, QuietLink

(* A packet is begun: it moves on from those not begun.                    *)
LEMMA SendFirstLink ==
  ASSUME LInv, NEW e \in Ends, SendFirstHalf(e)
  PROVE  WholeBegun' /\ UNCHANGED AbsChan
<1>0. Typed
  BY DEF LInv, IInv
<1>p. /\ Peer(e) \in Ends /\ Peer(e) # e /\ Peer(Peer(e)) = e
      /\ \A x \in Ends \ {Peer(e)} : Peer(x) \in Ends \ {e}
  BY Peers
<1>1. /\ UNCHANGED <<packetRecvBuffer, recvQ, recvBufferQ, wire, auroraInQ>>
      /\ packetSendBuffer[e] = <<>> /\ NotEmpty(sendQ[e])
      /\ sendQ' = Deq(sendQ, e)
      /\ auroraOutQ' = Enq(auroraOutQ, e, LoWord(Head(sendQ[e])))
      /\ packetSendBuffer' = [packetSendBuffer EXCEPT ![e] = <<Head(sendQ[e]).hi>>]
  BY DEF SendFirstHalf, recvSide
<1>2. PICK p \in Packets : p = Head(sendQ[e])
  BY <1>0, <1>1, DeqTyped DEF Typed
<1>3. PICK y \in Payloads : p = [lo |-> y, hi |-> y] /\ p.lo = y /\ p.hi = y
  BY DEF Packets
<1>4. PICK w \in Words : w = LoWord(p) /\ w.control = 0 /\ w.body = y
  BY <1>3, SentHalves DEF LoWord
<1>5. /\ OnTheWay(e)' = Append(OnTheWay(e), w)
      /\ \A x \in Ends \ {e} : OnTheWay(x)' = OnTheWay(x)
  BY <1>0, <1>1, <1>2, <1>4, WayGrows
<1>6. /\ packetSendBuffer'[e] = <<y>> /\ sendQ'[e] = Tail(sendQ[e])
      /\ \A x \in Ends \ {e} : packetSendBuffer'[x] = packetSendBuffer[x] /\ sendQ'[x] = sendQ[x]
  BY <1>0, <1>1, <1>2, <1>3 DEF Typed, Deq
<1>7. PICK q \in Seq(Words), r \in Halves : q = OnTheWay(e) /\ r = packetRecvBuffer[Peer(e)]
  BY <1>0, <1>p, WayParts DEF Typed
<1>8. PICK g \in Seq(Payloads), n \in Nat : g = HalvesBegun(Peer(e)) /\ Len(g) = 2 * n
  BY <1>p, ChanParts DEF LInv, WholeBegun
<1>9. g = Begun(r, q, <<>>)
  BY <1>p, <1>1, <1>7, <1>8 DEF HalvesBegun, Begun
<1>10. HalvesBegun(Peer(e))' = Behind(Behind(g, y), y)
  <2>1. HalvesBegun(Peer(e))' = Begun(r, Append(q, w), <<y>>)
    BY <1>p, <1>1, <1>5, <1>6, <1>7 DEF HalvesBegun, Begun
  <2>2. Begun(r, Append(q, w), <<y>>) = Behind(Behind(Begun(r, q, <<>>), w.body), y)
    BY <1>4, FirstSent
  <2> QED
    BY <1>4, <1>9, <2>1, <2>2
<1>11. /\ Len(HalvesBegun(Peer(e))') = 2 * (n + 1) /\ n + 1 \in Nat /\ p \in Pkts
       /\ Packed[HalvesBegun(Peer(e))'] = Behind(Packed[g], p)
  <2>1. PICK z : z = Behind(g, y)
    OBVIOUS
  <2>2. PICK k : k = Behind(z, y)
    OBVIOUS
  <2>3. Len(g) = 2 * n /\ n + 1 \in Nat
    BY <1>8
  <2>4. p \in Pkts
    BY DEF Packets, Pkts
  <2>5. Len(k) = 2 * (n + 1) /\ Packed[k] = Behind(Packed[g], p)
    BY <1>3, <2>1, <2>2, <2>3, <2>4, PackedGrows
  <2>6. HalvesBegun(Peer(e))' = k
    BY <1>10, <2>1, <2>2
  <2> QED
    BY <2>3, <2>4, <2>5, <2>6
<1>12. \A x \in Ends \ {Peer(e)} : HalvesBegun(x)' = HalvesBegun(x)
  BY <1>p, <1>1, <1>5, <1>6, BegunSame
<1>13. WholeBegun'
  <2> SUFFICES ASSUME NEW x \in Ends PROVE \E k \in Nat : Len(HalvesBegun(x)') = 2 * k
    BY DEF WholeBegun
  <2>1. CASE x = Peer(e)
    BY <1>11, <2>1
  <2>2. CASE x # Peer(e)
    BY <1>12, <2>2 DEF LInv, WholeBegun
  <2> QED
    BY <2>1, <2>2
<1>14. PICK a \in Seq(Pkts), b \in Seq(Pkts), c \in Seq(Pkts), z \in Seq(Pkts) :
         a = recvQ[Peer(e)] /\ b = recvBufferQ[Peer(e)] /\ c = Packed[HalvesBegun(Peer(e))] /\ z = sendQ[e]
  BY <1>p, ChanParts
<1>15. PICK h \in Pkts, d \in Seq(Pkts) : h = Head(z) /\ d = Tail(z) /\ z = Before(h, d)
  <2>1. NotEmpty(z)
    BY <1>1, <1>14, Zenon
  <2> QED
    BY <2>1, FirstIn
<1>16. h = p
  BY <1>2, <1>14, <1>15
<1>17. Four(a, b, Behind(c, h), d) = Four(a, b, c, Before(h, d))
  BY LastMoves
<1>18. Chan(Peer(e))' = Four(a, b, Behind(c, h), d)
  <2>1. sendQ'[Peer(Peer(e))] = d /\ recvQ'[Peer(e)] = a /\ recvBufferQ'[Peer(e)] = b
    BY <1>p, <1>1, <1>6, <1>14, <1>15
  <2>2. Packed[HalvesBegun(Peer(e))'] = Behind(c, h)
    BY <1>8, <1>11, <1>14, <1>16
  <2> QED
    BY <2>1, <2>2 DEF Chan
<1>19. Chan(Peer(e)) = Four(a, b, c, Before(h, d))
  BY <1>p, <1>14, <1>15 DEF Chan
<1>20. \A x \in Ends \ {Peer(e)} : Chan(x)' = Chan(x)
  BY <1>p, <1>1, <1>6, <1>12 DEF Chan
<1> QED
  BY <1>13, <1>17, <1>18, <1>19, <1>20, NoChannel

(* A word of credit that comes in is no half of a packet.                  *)
LEMMA RecvCreditLink ==
  ASSUME LInv, NEW e \in Ends, RecvCredit(e)
  PROVE  WholeBegun' /\ UNCHANGED AbsChan
<1>0. Typed
  BY DEF LInv, IInv
<1>p. Peer(e) \in Ends /\ Peer(Peer(e)) = e /\ \A x \in Ends \ {e} : Peer(x) \in Ends \ {Peer(e)}
  BY Peers
<1>1. /\ UNCHANGED <<packetRecvBuffer, packetSendBuffer, sendQ, recvQ, recvBufferQ, wire, auroraOutQ>>
      /\ NotEmpty(auroraInQ[e]) /\ Head(auroraInQ[e]).control = 1
      /\ auroraInQ' = Deq(auroraInQ, e)
  BY DEF RecvCredit, HalfKept, sendSide
<1>2. PICK w \in Words : w = Head(auroraInQ[e]) /\ w.control = 1
  BY <1>0, <1>1, WordTaken
<1>3. PICK q \in Seq(Words) : q = OnTheWay(Peer(e))
  BY <1>0, <1>p, WayParts
<1>4. /\ NotEmpty(q) /\ Head(q) = w /\ OnTheWay(Peer(e))' = Tail(q)
      /\ \A x \in Ends \ {Peer(e)} : OnTheWay(x)' = OnTheWay(x)
  BY <1>0, <1>1, <1>2, <1>3, WayShrinks
<1>5. Bodies[q] = Bodies[Tail(q)]
  BY <1>2, <1>4, BodiesShrink
<1>6. HalvesBegun(e)' = HalvesBegun(e)
  BY <1>1, <1>3, <1>4, <1>5 DEF HalvesBegun
<1>7. \A x \in Ends \ {e} : HalvesBegun(x)' = HalvesBegun(x)
  BY <1>p, <1>1, <1>4, BegunSame
<1> QED
  BY <1>1, <1>6, <1>7, QuietLink

(* The first half of a packet comes in and is kept.                        *)
LEMMA RecvFirstLink ==
  ASSUME LInv, NEW e \in Ends, RecvFirstHalf(e)
  PROVE  WholeBegun' /\ UNCHANGED AbsChan
<1>0. Typed /\ HalvesPaired
  BY DEF LInv, IInv
<1>p. Peer(e) \in Ends /\ Peer(Peer(e)) = e /\ \A x \in Ends \ {e} : Peer(x) \in Ends \ {Peer(e)}
  BY Peers
<1>1. /\ UNCHANGED <<packetSendBuffer, sendQ, recvQ, recvBufferQ, wire, auroraOutQ>>
      /\ NotEmpty(auroraInQ[e]) /\ Head(auroraInQ[e]).control = 0 /\ ~Completes(e)
      /\ auroraInQ' = Deq(auroraInQ, e)
      /\ Head(auroraInQ[e]).idx = 0
           => packetRecvBuffer' = [packetRecvBuffer EXCEPT ![e] = <<Head(auroraInQ[e]).body>>]
  BY DEF RecvFirstHalf, sendSide
<1>2. PICK w \in Words : w = Head(auroraInQ[e]) /\ w.control = 0
  BY <1>0, <1>1, WordTaken
<1>3. w.idx = 0
  BY <1>0, <1>1, <1>2, FittingWord
<1>4. packetRecvBuffer[e] = <<>>
  <2>1. Fits(packetRecvBuffer[e], w)
    BY <1>0, <1>1, <1>2, HalvesReceived
  <2> QED
    BY <1>2, <1>3, <2>1 DEF Fits
<1>5. /\ packetRecvBuffer'[e] = <<w.body>>
      /\ \A x \in Ends \ {e} : packetRecvBuffer'[x] = packetRecvBuffer[x]
  BY <1>0, <1>1, <1>2, <1>3 DEF Typed
<1>6. PICK q \in Seq(Words), s \in Halves : q = OnTheWay(Peer(e)) /\ s = packetSendBuffer[Peer(e)]
  BY <1>0, <1>p, WayParts DEF Typed
<1>7. /\ NotEmpty(q) /\ Head(q) = w /\ OnTheWay(Peer(e))' = Tail(q)
      /\ \A x \in Ends \ {Peer(e)} : OnTheWay(x)' = OnTheWay(x)
  BY <1>0, <1>1, <1>2, <1>6, WayShrinks
<1>8. Begun(<<w.body>>, Tail(q), s) = Begun(<<>>, q, s)
  BY <1>2, <1>7, FirstTaken
<1>9. HalvesBegun(e)' = HalvesBegun(e)
  <2>1. HalvesBegun(e) = Begun(<<>>, q, s)
    BY <1>4, <1>6 DEF HalvesBegun, Begun
  <2>2. HalvesBegun(e)' = Begun(<<w.body>>, Tail(q), s)
    BY <1>1, <1>5, <1>6, <1>7 DEF HalvesBegun, Begun
  <2> QED
    BY <1>8, <2>1, <2>2
<1>10. \A x \in Ends \ {e} : HalvesBegun(x)' = HalvesBegun(x)
  BY <1>p, <1>1, <1>5, <1>7, BegunSame
<1>11. UNCHANGED <<recvQ, recvBufferQ, sendQ>>
  BY <1>1
<1> QED
  BY <1>9, <1>10, <1>11, QuietLink

(* The second half comes in: the packet moves on from those begun to those *)
(* stored.                                                                 *)
LEMMA RecvSecondLink ==
  ASSUME LInv, NEW e \in Ends, RecvSecondHalf(e)
  PROVE  WholeBegun' /\ UNCHANGED AbsChan
<1>0. Typed /\ HalvesPaired
  BY DEF LInv, IInv
<1>p. Peer(e) \in Ends /\ Peer(Peer(e)) = e /\ \A x \in Ends \ {e} : Peer(x) \in Ends \ {Peer(e)}
  BY Peers
<1>1. /\ UNCHANGED <<packetSendBuffer, sendQ, recvQ, wire, auroraOutQ>>
      /\ NotEmpty(auroraInQ[e]) /\ Head(auroraInQ[e]).control = 0 /\ Completes(e)
      /\ auroraInQ' = Deq(auroraInQ, e)
      /\ packetRecvBuffer' = [packetRecvBuffer EXCEPT ![e] = <<>>]
      /\ recvBufferQ' = Enq(recvBufferQ, e,
                            [lo |-> packetRecvBuffer[e][1], hi |-> Head(auroraInQ[e]).body])
  BY DEF RecvSecondHalf, Store, sendSide
<1>2. PICK w \in Words : w = Head(auroraInQ[e]) /\ w.control = 0
  BY <1>0, <1>1, WordTaken
<1>3. PICK x \in Payloads : packetRecvBuffer[e] = <<x>>
  <2>1. packetRecvBuffer[e] \in Halves /\ packetRecvBuffer[e] # <<>>
    BY <1>0, <1>1 DEF Typed, Completes
  <2> QED
    BY <2>1, HalfKeptIs
<1>4. PICK y \in Payloads : y = w.body
  BY <1>2, WhichCount
<1>5. PICK p \in Pkts : p = [lo |-> x, hi |-> y]
  BY DEF Pkts
<1>6. /\ packetRecvBuffer'[e] = <<>> /\ recvBufferQ'[e] = Append(recvBufferQ[e], p)
      /\ \A z \in Ends \ {e} : /\ packetRecvBuffer'[z] = packetRecvBuffer[z]
                               /\ recvBufferQ'[z] = recvBufferQ[z]
  <2>1. recvBufferQ' = Enq(recvBufferQ, e, p)
    <3>1. packetRecvBuffer[e][1] = x
      BY <1>3
    <3> QED
      BY <1>1, <1>2, <1>4, <1>5, <3>1
  <2> QED
    BY <1>0, <1>1, <2>1 DEF Typed, Enq
<1>7. PICK q \in Seq(Words), s \in Halves : q = OnTheWay(Peer(e)) /\ s = packetSendBuffer[Peer(e)]
  BY <1>0, <1>p, WayParts DEF Typed
<1>8. /\ NotEmpty(q) /\ Head(q) = w /\ OnTheWay(Peer(e))' = Tail(q)
      /\ \A z \in Ends \ {Peer(e)} : OnTheWay(z)' = OnTheWay(z)
  BY <1>0, <1>1, <1>2, <1>7, WayShrinks
<1>9. PICK t \in Seq(Words) : t = Tail(q)
  BY <1>2, <1>8, BodiesShrink
<1>10. PICK g \in Seq(Payloads) : g = Begun(<<>>, t, s)
  <2>1. <<>> \in Halves
    BY DEF Halves
  <2> QED
    BY <2>1, BegunTyped
<1>11. HalvesBegun(e)' = g
  BY <1>1, <1>6, <1>7, <1>8, <1>9, <1>10 DEF HalvesBegun, Begun
<1>12. HalvesBegun(e) = Before(x, Before(y, g))
  <2>1. HalvesBegun(e) = Begun(<<x>>, q, s)
    BY <1>3, <1>7 DEF HalvesBegun, Begun
  <2>2. Begun(<<x>>, q, s) = Before(x, Before(w.body, Begun(<<>>, Tail(q), s)))
    BY <1>2, <1>8, SecondTaken
  <2> QED
    BY <1>4, <1>9, <1>10, <2>1, <2>2
<1>13. PICK m \in Nat : Len(HalvesBegun(e)) = 2 * m
  BY DEF LInv, WholeBegun
<1>14. Len(HalvesBegun(e)) = Len(g) + 2 /\ Len(g) \in Nat
  <2>1. PICK z \in Seq(Payloads) : z = Before(y, g) /\ LedBy(z, y, g)
    BY InFrontAt
  <2>2. LedBy(Before(x, z), x, z)
    BY InFrontAt
  <2>3. Len(HalvesBegun(e)) = Len(z) + 1
    BY <1>12, <2>1, <2>2 DEF LedBy
  <2>4. Len(z) = Len(g) + 1 /\ Len(g) \in Nat
    BY <2>1 DEF LedBy
  <2> QED
    BY <2>3, <2>4
<1>15. PICK n \in Nat : n = m - 1 /\ Len(g) = 2 * n
  <2>1. m # 0
    BY <1>13, <1>14
  <2>2. m - 1 \in Nat /\ 2 * (m - 1) = 2 * m - 2
    BY <2>1
  <2>3. Len(g) = 2 * m - 2
    BY <1>13, <1>14
  <2> QED
    BY <2>2, <2>3
<1>16. Packed[HalvesBegun(e)] = Before(p, Packed[g])
  <2>0. PICK z : z = Before(y, g)
    OBVIOUS
  <2>1. PICK h : h = Before(x, z)
    OBVIOUS
  <2>2. Len(g) = 2 * n
    BY <1>15
  <2>3. Packed[h] = Before(p, Packed[g])
    BY <1>5, <2>0, <2>1, <2>2, PackedShrinks
  <2> QED
    BY <1>12, <2>0, <2>1, <2>3
<1>17. \A z \in Ends \ {e} : HalvesBegun(z)' = HalvesBegun(z)
  BY <1>p, <1>1, <1>6, <1>8, BegunSame
<1>18. WholeBegun'
  <2> SUFFICES ASSUME NEW z \in Ends PROVE \E k \in Nat : Len(HalvesBegun(z)') = 2 * k
    BY DEF WholeBegun
  <2>1. CASE z = e
    BY <1>11, <1>15, <2>1
  <2>2. CASE z # e
    BY <1>17, <2>2 DEF LInv, WholeBegun
  <2> QED
    BY <2>1, <2>2
<1>19. PICK a \in Seq(Pkts), b \in Seq(Pkts), d \in Seq(Pkts) :
         a = recvQ[e] /\ b = recvBufferQ[e] /\ d = sendQ[Peer(e)]
  BY ChanParts
<1>20. PICK c \in Seq(Pkts) : c = Packed[g]
  BY <1>15, PackedPairs
<1>21. Four(a, Behind(b, p), c, d) = Four(a, b, Before(p, c), d)
  BY ThirdMoves
<1>22. Chan(e)' = Four(a, Behind(b, p), c, d)
  BY <1>1, <1>6, <1>11, <1>19, <1>20 DEF Chan, Behind
<1>23. Chan(e) = Four(a, b, Before(p, c), d)
  BY <1>16, <1>19, <1>20 DEF Chan
<1>24. \A z \in Ends \ {e} : Chan(z)' = Chan(z)
  BY <1>1, <1>6, <1>17 DEF Chan
<1> QED
  BY <1>18, <1>21, <1>22, <1>23, <1>24, NoChannel

-----------------------------------------------------------------------------
(* Initially nothing is on the way.                                        *)
LEMMA InitLink == Init => LInv /\ Link!Init
<1> SUFFICES ASSUME Init PROVE LInv /\ Link!Init
  OBVIOUS
<1>1. IInv
  BY InitIInv
<1>2. ASSUME NEW e \in Ends
      PROVE  /\ recvQ[e] = <<>> /\ recvBufferQ[e] = <<>> /\ packetRecvBuffer[e] = <<>>
             /\ sendQ[Peer(e)] = <<>> /\ packetSendBuffer[Peer(e)] = <<>>
             /\ auroraInQ[e] = <<>> /\ wire[e] = <<>> /\ auroraOutQ[Peer(e)] = <<>>
             /\ Peer(Peer(e)) = e
  <2>1. Peer(e) \in Ends /\ Peer(Peer(e)) = e
    BY Peers
  <2> QED
    BY <2>1 DEF Init, NoWords
<1>3. <<>> \o <<>> = <<>>
  OBVIOUS
<1>4. ASSUME NEW e \in Ends PROVE OnTheWay(Peer(e)) = <<>>
  BY <1>2, <1>3 DEF OnTheWay
<1>5. Bodies[<<>>] = <<>>
  <2>1. PICK q \in Seq(Words) : q = <<>>
    <3>1. <<>> \in Seq(Words)
      OBVIOUS
    <3> QED
      BY <3>1, Zenon
  <2>2. DataPlaces(q) = {}
    BY <2>1 DEF DataPlaces
  <2>3. Bodies[q] \in Seq(Payloads) /\ Len(Bodies[q]) = 0
    BY <2>2, BodiesInOrder, FS_EmptySet
  <2> QED
    BY <2>1, <2>3, EmptySeq
<1>6. ASSUME NEW e \in Ends PROVE HalvesBegun(e) = <<>>
  BY <1>2, <1>3, <1>4, <1>5 DEF HalvesBegun
<1>7. PICK h \in Seq(Payloads) : h = <<>> /\ Len(h) = 2 * 0
  <2>1. <<>> \in Seq(Payloads) /\ Len(<<>>) = 2 * 0
    OBVIOUS
  <2> QED
    BY <2>1, Zenon
<1>8. WholeBegun
  BY <1>6, <1>7 DEF WholeBegun
<1>9. Packed[h] = <<>>
  <2>1. Packed[h] \in Seq(Pkts) /\ Len(Packed[h]) = 0
    BY <1>7, PackedPairs
  <2> QED
    BY <2>1, EmptySeq
<1>10. ASSUME NEW e \in Ends PROVE Chan(e) = <<>>
  <2>1. Packed[HalvesBegun(e)] = <<>>
    BY <1>6, <1>7, <1>9
  <2> QED
    BY <1>2, <1>3, <2>1 DEF Chan, Four, Cat
<1> QED
  BY <1>1, <1>8, <1>10, Channels DEF LInv, Link!Init

(* Every step gives a packet to the link, takes one from it or is none of  *)
(* its steps.                                                              *)
LEMMA LinkStep ==
  ASSUME LInv, [Next]_vars
  PROVE  WholeBegun' /\ [Link!Next]_AbsChan
<1>1. ASSUME NEW e \in Ends, Rules(e) PROVE WholeBegun' /\ UNCHANGED AbsChan
  <2>1. CASE EmitFlowControlPacket(e)
    BY <2>1, EmitLink
  <2>2. CASE SendCredit(e)
    BY <2>2, SendCreditLink
  <2>3. CASE SendSecondHalf(e)
    BY <2>3, SendSecondLink
  <2>4. CASE SendFirstHalf(e)
    BY <2>4, SendFirstLink
  <2>5. CASE WireTake(e) \/ WireGive(e)
    BY <2>5, WireLink
  <2>6. CASE RecvCredit(e)
    BY <2>6, RecvCreditLink
  <2>7. CASE RecvSecondHalf(e)
    BY <2>7, RecvSecondLink
  <2>8. CASE RecvFirstHalf(e)
    BY <2>8, RecvFirstLink
  <2>9. CASE FlushReadBuffer(e)
    BY <2>9, FlushLink
  <2> QED
    BY <1>1, <2>1, <2>2, <2>3, <2>4, <2>5, <2>6, <2>7, <2>8, <2>9 DEF Rules
<1>2. ASSUME NEW e \in Ends, Recv(e) PROVE WholeBegun' /\ Link!Next
  <2>1. WholeBegun' /\ Link!Recv(e)
    BY <1>2, RecvLink
  <2> QED
    BY <2>1 DEF Link!Next
<1>3. ASSUME NEW e \in Senders, NEW p \in Packets, Send(e, p) PROVE WholeBegun' /\ Link!Next
  <2>1. e \in Ends
    BY GearboxAssumption
  <2>2. WholeBegun' /\ Link!Send(Peer(e), p) /\ Peer(e) \in Ends
    BY <1>3, <2>1, SendLink
  <2> QED
    BY <2>2 DEF Link!Next
<1>4. CASE UNCHANGED vars
  <2>1. UNCHANGED <<auroraInQ, wire, auroraOutQ, packetRecvBuffer, packetSendBuffer,
                    recvQ, recvBufferQ, sendQ>>
    BY <1>4 DEF vars, sendSide, recvSide
  <2> QED
    BY <2>1, HalvesAlone, QuietLink
<1> QED
  BY <1>1, <1>2, <1>3, <1>4 DEF Next

(* The invariant of the refinement.                                        *)
THEOREM LinkInvariance == Spec => []LInv
<1>1. Init => LInv
  BY InitLink
<1>2. LInv /\ IInv' /\ [Next]_vars => LInv'
  BY LinkStep DEF LInv
<1> QED
  BY <1>1, <1>2, Invariance, PTL DEF Spec

(* The gearboxes with their credit, their two words per packet and their   *)
(* queues implement a link that loses, duplicates and reorders nothing and *)
(* puts no packet together from the halves of two.                         *)
THEOREM KeepsLink == Spec => ImplementsLink
<1>1. Init => Link!Init
  BY InitLink
<1>2. LInv /\ [Next]_vars => [Link!Next]_AbsChan
  BY LinkStep
<1> QED
  BY <1>1, <1>2, LinkInvariance, PTL DEF Spec, ImplementsLink, Link!Spec
=============================================================================
