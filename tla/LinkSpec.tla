------------------------------ MODULE LinkSpec ------------------------------
(***************************************************************************)
(* What a lossless link promises to the boards at its ends: each direction *)
(* is a queue of packets of which none is lost, duplicated, reordered or   *)
(* put together from the halves of two.                                    *)
(***************************************************************************)
EXTENDS Naturals, Sequences

CONSTANTS Ends, Packets

VARIABLE chan       (* chan[e]: the packets on the way to end e            *)

Init == chan = [e \in Ends |-> <<>>]

Send(e, p) == chan' = [chan EXCEPT ![e] = Append(@, p)]
Recv(e)    == chan[e] # <<>> /\ chan' = [chan EXCEPT ![e] = Tail(@)]

Next == \E e \in Ends : Recv(e) \/ \E p \in Packets : Send(e, p)

Spec == Init /\ [][Next]_chan
=============================================================================
