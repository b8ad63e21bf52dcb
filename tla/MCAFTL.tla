------------------------------- MODULE MCAFTL -------------------------------
(***************************************************************************)
(* Model checking instance of the address translation layer: two chips, one*)
(* with two virtual blocks, four physical blocks each in two table lines.  *)
(***************************************************************************)
EXTENDS AFTLProperties, TLC

CONSTANTS a1, a2, a3, c1, c2

MCMapAddrs == {a1, a2, a3}
MCChips    == {c1, c2}
MCChipOf   == (a1 :> c1) @@ (a2 :> c1) @@ (a3 :> c2)

Entry(s, n) == [status |-> s, erase |-> n]
Map(s, b)   == [status |-> s, block |-> b]

Order == << <<"blkinfo", c1, 0>>, <<"blkinfo", c1, 1>>, <<"blkinfo", c2, 0>>, <<"blkinfo", c2, 1>>,
            <<"map", a1>>, <<"map", a2>>, <<"map", a3>>, <<"loaded">> >>

(* A fresh card whose blocks have been erased a different number of times. *)
Fresh == [map   |-> [a \in MCMapAddrs |-> Map("NOT_ALLOCATED", 0)],
          info  |-> c1 :> (0 :> Entry("FREE_BLK", 1) @@ 1 :> Entry("FREE_BLK", 0)
                        @@ 2 :> Entry("FREE_BLK", 0) @@ 3 :> Entry("BAD_BLK", 0))
                 @@ c2 :> [b \in 0..3 |-> Entry(IF b = 3 THEN "FREE_BLK" ELSE "BAD_BLK", 1)],
          order |-> Order]

(* A worn card, saved with one virtual block mapped: one free *)
(* block left on c1, none on c2.                                           *)
Worn  == [map   |-> a1 :> Map("ALLOCATED", 2) @@ a2 :> Map("NOT_ALLOCATED", 2)
                 @@ a3 :> Map("NOT_ALLOCATED", 0),
          info  |-> c1 :> (0 :> Entry("BAD_BLK", 1) @@ 1 :> Entry("BAD_BLK", 0)
                        @@ 2 :> Entry("USED_BLK", 1) @@ 3 :> Entry("FREE_BLK", 1))
                 @@ c2 :> [b \in 0..3 |-> Entry("BAD_BLK", 0)],
          order |-> Order]

Req(t, c, a, p) == [tag |-> t, cmd |-> c, addr |-> a, page |-> p]

MCReqs == {Req("t1", "AftlWRITE", a, 1) : a \in MCMapAddrs}
          \cup {Req("t1", "AftlREAD", a1, 1), Req("t2", "AftlERASE", a1, 1),
                Req("t1", "AftlMARKBAD", a1, 0)}

Images2 == {Fresh, Worn}
=============================================================================
