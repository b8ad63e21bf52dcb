------------------------------ MODULE BsvFifo ------------------------------
(***************************************************************************)
(* The FIFOs of the Bluespec library, as sequences.  A Bluespec rule fires *)
(* only when every FIFO it dequeues is not empty and every FIFO it         *)
(* enqueues is not full, and then all its updates happen at once: a rule   *)
(* is a TLA+ action, and the two conditions below are conjuncts of it.     *)
(* The repository is built with -aggressive-conditions, so a FIFO used in  *)
(* one branch of a rule only guards that branch.                           *)
(***************************************************************************)
EXTENDS Naturals, Sequences

(* mkFIFO and mkFIFOF hold two elements.                                   *)
MkFIFO == 2

NotFull(q, depth) == Len(q) < depth

NotEmpty(q) == Len(q) > 0
=============================================================================
