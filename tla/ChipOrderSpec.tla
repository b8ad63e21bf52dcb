---------------------------- MODULE ChipOrderSpec ---------------------------
(***************************************************************************)
(* What a flash bus promises: each chip does the commands it was given one *)
(* after the other, in the order they were given, and a command is only    *)
(* answered once its chip has carried it out.  Nothing is promised about   *)
(* commands for different chips.                                           *)
(***************************************************************************)
EXTENDS Naturals, Sequences

CONSTANTS Tags, Chips, Ops, NoTag

VARIABLES
  pending,   (* pending[c]: the commands chip c has not begun              *)
  chip,      (* chip[c]: what chip c does, or did last                     *)
  owed       (* owed[t]: "free", "owed" an answer, or "done"               *)

Init ==
  /\ pending = [c \in Chips |-> <<>>]
  /\ chip = [c \in Chips |-> [st |-> "ready", op |-> "NONE", tag |-> NoTag]]
  /\ owed = [t \in Tags |-> "free"]

Accept(t, op, c) ==
  /\ owed[t] = "free"
  /\ owed' = [owed EXCEPT ![t] = "owed"]
  /\ pending' = [pending EXCEPT ![c] = Append(@, [tag |-> t, op |-> op])]
  /\ UNCHANGED chip

Begin(c) ==
  /\ chip[c].st = "ready" /\ pending[c] # <<>>
  /\ chip' = [chip EXCEPT ![c] =
       [st |-> "busy", op |-> Head(pending[c]).op, tag |-> Head(pending[c]).tag]]
  /\ pending' = [pending EXCEPT ![c] = Tail(@)]
  /\ UNCHANGED owed

Finish(c) ==
  /\ chip[c].st = "busy"
  /\ chip' = [chip EXCEPT ![c].st = "ready"]
  /\ owed' = [owed EXCEPT ![chip[c].tag] = "done"]
  /\ UNCHANGED pending

Answer(t) ==
  /\ owed[t] = "done"
  /\ owed' = [owed EXCEPT ![t] = "free"]
  /\ UNCHANGED <<pending, chip>>

Next ==
  \/ \E t \in Tags, op \in Ops, c \in Chips : Accept(t, op, c)
  \/ \E c \in Chips : Begin(c) \/ Finish(c)
  \/ \E t \in Tags : Answer(t)

Spec == Init /\ [][Next]_<<pending, chip, owed>>
=============================================================================
