------------------------------ MODULE AFTLSpec ------------------------------
(***************************************************************************)
(* What the address translation layer (modules/aftl/AFTL.bsv) promises:    *)
(* commands are translated one at a time, in the order they were put, each *)
(* in one step that reads and updates the block map and the block table    *)
(* together and leaves one answer for the caller (none for MARKBAD).       *)
(* How the tables are scanned and in which order they are written is the   *)
(* business of module AFTL, which is checked to implement this one.        *)
(***************************************************************************)
EXTENDS Naturals, Sequences

CONSTANTS
  MapAddrs,   (* the {segment, virtual block} pairs                        *)
  Chips,      (* the {card, bus, chip} triples                             *)
  ChipOf,     (* the chip whose blocks a map address draws from            *)
  Blocks,     (* the physical block numbers of one chip                    *)
  EraseMod    (* the erase counters count modulo EraseMod                  *)

VARIABLES
  map,        (* map[a]: status and block of map address a                 *)
  info,       (* info[c][b]: status and erase count of block b of chip c   *)
  loaded,     (* the host has restored its tables                          *)
  reqs,       (* commands put and not yet translated                       *)
  answers,    (* the translated flash command awaiting its reader          *)
  errors      (* the refused command awaiting its reader                   *)

vars == <<map, info, loaded, reqs, answers, errors>>

FreeBlocks(c) == {b \in Blocks : info[c][b].status = "FREE_BLK"}

LeastErased(c) ==
  {b \in FreeBlocks(c) : \A o \in FreeBlocks(c) : info[c][b].erase <= info[c][o].erase}

Answer(r, op, b, page) ==
  answers' = Append(answers, [tag |-> r.tag, op |-> op, chip |-> ChipOf[r.addr],
                              block |-> b, page |-> page])

Refuse(r) ==
  /\ errors' = Append(errors, r)
  /\ UNCHANGED <<map, info, answers>>

-----------------------------------------------------------------------------
(* The host restores the tables before it sends its first command.         *)
Restore ==
  /\ ~loaded
  /\ \/ \E a \in MapAddrs, s \in {"ALLOCATED", "NOT_ALLOCATED", "DEAD"}, b \in Blocks :
          map' = [map EXCEPT ![a] = [status |-> s, block |-> b]] /\ UNCHANGED info
     \/ \E c \in Chips : \E line \in SUBSET Blocks :
          /\ \A b \in Blocks \ line : info'[c][b] = info[c][b]
          /\ \A d \in Chips \ {c} : info'[d] = info[d]
          /\ UNCHANGED map
  /\ UNCHANGED <<loaded, reqs, answers, errors>>

Loaded ==
  /\ loaded' = TRUE
  /\ UNCHANGED <<map, info, reqs, answers, errors>>

Put ==
  /\ loaded
  /\ Len(reqs') = Len(reqs) + 1 /\ SubSeq(reqs', 1, Len(reqs)) = reqs
  /\ UNCHANGED <<map, info, loaded, answers, errors>>

(* The tables say where the command goes.                                  *)
TranslateRead(r) ==
  IF map[r.addr].status = "ALLOCATED"
  THEN Answer(r, "READ_PAGE", map[r.addr].block, r.page) /\ UNCHANGED <<map, info, errors>>
  ELSE Refuse(r)

(* A write to an unmapped address takes the least erased free block.       *)
TranslateWrite(r) ==
  LET c == ChipOf[r.addr] IN
  CASE map[r.addr].status = "ALLOCATED" ->
         /\ Answer(r, "WRITE_PAGE", map[r.addr].block, r.page)
         /\ UNCHANGED <<map, info, errors>>
    [] map[r.addr].status = "NOT_ALLOCATED" /\ FreeBlocks(c) # {} ->
         \E b \in LeastErased(c) :
           /\ info' = [info EXCEPT ![c][b].status = "USED_BLK"]
           /\ map'  = [map EXCEPT ![r.addr] = [status |-> "ALLOCATED", block |-> b]]
           /\ Answer(r, "WRITE_PAGE", b, r.page)
           /\ UNCHANGED errors
    [] OTHER -> Refuse(r)

(* An erase unmaps the address and frees its block, one erase older.       *)
TranslateErase(r) ==
  LET c == ChipOf[r.addr]
      b == map[r.addr].block IN
  IF map[r.addr].status = "ALLOCATED"
  THEN /\ info' = [info EXCEPT ![c][b] = [status |-> "FREE_BLK", erase |-> (@.erase + 1) % EraseMod]]
       /\ map'  = [map EXCEPT ![r.addr].status = "NOT_ALLOCATED"]
       /\ Answer(r, "ERASE_BLOCK", b, 0)
       /\ UNCHANGED errors
  ELSE Refuse(r)

(* MARKBAD retires the block the map entry names, also when the entry was  *)
(* unmapped by the erase that found the block bad.  It is never answered.  *)
MarkBad(r) ==
  LET b == map[r.addr].block IN
  IF map[r.addr].status \in {"ALLOCATED", "NOT_ALLOCATED"}
  THEN /\ info' = [info EXCEPT ![ChipOf[r.addr]][b].status = "BAD_BLK"]
       /\ map'  = [map EXCEPT ![r.addr].status = "NOT_ALLOCATED"]
       /\ UNCHANGED <<answers, errors>>
  ELSE Refuse(r)

Translate ==
  /\ reqs # <<>> /\ answers = <<>> /\ errors = <<>>
  /\ reqs' = Tail(reqs)
  /\ UNCHANGED loaded
  /\ LET r == Head(reqs) IN
       CASE r.cmd = "AftlREAD"    -> TranslateRead(r)
         [] r.cmd = "AftlWRITE"   -> TranslateWrite(r)
         [] r.cmd = "AftlERASE"   -> TranslateErase(r)
         [] r.cmd = "AftlMARKBAD" -> MarkBad(r)
         [] OTHER                 -> Refuse(r)

Take ==
  /\ \/ answers # <<>> /\ answers' = Tail(answers) /\ UNCHANGED errors
     \/ errors # <<>> /\ errors' = Tail(errors) /\ UNCHANGED answers
  /\ UNCHANGED <<map, info, loaded, reqs>>

Init ==
  /\ map  = [a \in MapAddrs |-> [status |-> "NOT_ALLOCATED", block |-> 0]]
  /\ info = [c \in Chips |-> [b \in Blocks |-> [status |-> "FREE_BLK", erase |-> 0]]]
  /\ loaded = FALSE
  /\ reqs = <<>> /\ answers = <<>> /\ errors = <<>>

Next == Restore \/ Loaded \/ Put \/ Translate \/ Take

Spec == Init /\ [][Next]_vars
=============================================================================
