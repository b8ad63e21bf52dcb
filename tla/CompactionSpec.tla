--------------------------- MODULE CompactionSpec ---------------------------
(* What a program may take for granted of a row of compactions: one after  *)
(* the other is carried out; each merged table is programmed once, at the  *)
(* address the program listed for it; and what the program saves of a      *)
(* merge is the whole result of that merge and no other.                   *)
EXTENDS Naturals, Sequences

CONSTANTS
  Merges,          (* the numbers of the merges                            *)
  Tables(_),       (* the merged tables of a merge                         *)
  Result(_),       (* what is to be saved of a merge                       *)
  Ppa(_, _)        (* the address listed for a table of a merge            *)

VARIABLES
  started,         \* the merges begun
  pages,           \* the flash: what was programmed at an address, in order
  saved            \* the merges whose results are saved
vars == <<started, pages, saved>>

Stored(n) == \A k \in DOMAIN Tables(n) : pages[Ppa(n, k)] = <<Tables(n)[k]>>

Init == started = 0 /\ pages = [p \in DOMAIN pages |-> <<>>] /\ saved = <<>>

Begin ==
  /\ started + 1 \in Merges /\ (started > 0 => Stored(started))
  /\ started' = started + 1
  /\ UNCHANGED <<pages, saved>>

Store ==
  /\ started \in Merges
  /\ \E k \in DOMAIN Tables(started) :
       /\ pages[Ppa(started, k)] = <<>>
       /\ pages' = [pages EXCEPT ![Ppa(started, k)] = <<Tables(started)[k]>>]
  /\ UNCHANGED <<started, saved>>

Save ==
  /\ started \in Merges
  /\ saved' = Append(saved, Result(started)) /\ Len(saved') = started
  /\ UNCHANGED <<started, pages>>

Next == Begin \/ Store \/ Save
Spec == Init /\ [][Next]_vars
=============================================================================
