---------------------------- MODULE InOrderSpec -----------------------------
(***************************************************************************)
(* What the read multiplexer promises each user: the pages it asked for,   *)
(* whole and in the order in which it asked.                               *)
(***************************************************************************)
EXTENDS Naturals, Sequences

CONSTANTS Users, Pages, PageWords

VARIABLES
  owed,    (* owed[u]: pages not completely answered, in order             *)
  beat,    (* beat[u]: words of the first of them that were answered       *)
  resp     (* resp[u]: answers the user has not taken yet                  *)

Init ==
  /\ owed = [u \in Users |-> <<>>]
  /\ beat = [u \in Users |-> 0]
  /\ resp = [u \in Users |-> <<>>]

Ask(u, p) ==
  /\ owed' = [owed EXCEPT ![u] = Append(@, p)]
  /\ UNCHANGED <<beat, resp>>

Answer(u) ==
  /\ owed[u] # <<>>
  /\ resp' = [resp EXCEPT ![u] = Append(@, [page |-> Head(owed[u]), beat |-> beat[u]])]
  /\ IF beat[u] = PageWords - 1
     THEN beat' = [beat EXCEPT ![u] = 0] /\ owed' = [owed EXCEPT ![u] = Tail(@)]
     ELSE beat' = [beat EXCEPT ![u] = @ + 1] /\ UNCHANGED owed

Take(u) ==
  /\ resp[u] # <<>>
  /\ resp' = [resp EXCEPT ![u] = Tail(@)]
  /\ UNCHANGED <<owed, beat>>

Next == \E u \in Users : Answer(u) \/ Take(u) \/ \E p \in Pages : Ask(u, p)

Spec == Init /\ [][Next]_<<owed, beat, resp>>
=============================================================================
