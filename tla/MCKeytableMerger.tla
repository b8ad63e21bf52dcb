-------------------------- MODULE MCKeytableMerger --------------------------
EXTENDS KeytableMergerProperties

(* Keys of one and two words, in their order. A level is given by the      *)
(* places of its tables' keys; the address of an entry tells its level.    *)
Keys == << <<1>>, <<1, 1>>, <<1, 2>>, <<2>>, <<2, 1>>, <<2, 2>>, <<3>> >>
Entry(i, place) == [addr |-> 10 * (i + 1) + place, key |-> Keys[place]]
Level(i, tables) == [n \in DOMAIN tables |-> [m \in DOMAIN tables[n] |-> Entry(i, tables[n][m])]]

In(h, l) == (High :> Level(High, h)) @@ (Low :> Level(Low, l))

(* Nothing, some and everything overwritten; beginnings of keys on either  *)
(* side; a header of two words; one table out, and more than one.          *)
MCInputs ==
  { In(<< <<3>> >>, << <<3>> >>),
    In(<< <<1>> >>, << <<3>> >>),
    In(<< <<3>> >>, << <<1>> >>),
    In(<< <<1, 4, 7>> >>, << <<2, 3>> >>),
    In(<< <<2, 3>> >>, << <<1, 4, 7>> >>),
    In(<< <<3>>, <<4, 7>> >>, << <<2, 3>> >>),
    In(<< <<1, 4, 7>> >>, << <<1, 2>>, <<4, 5>> >>),
    In(<< <<1, 2>>, <<4, 5>> >>, << <<3>>, <<4, 7>> >>),
    In(<< <<1, 2>>, <<4, 5>> >>, << <<1, 2>>, <<4, 5>> >>) }
=============================================================================
