----------------------------- MODULE PhasedSpec ------------------------------
(* What a test of the host programs takes for granted: main goes through   *)
(* its steps in order, every request it makes is carried out once, at any  *)
(* time after it was made, and a wait for a kind of requests ends when all *)
(* of that kind made so far are done. A program that prints a result has   *)
(* none left; one that gives up may have.                                  *)
EXTENDS Naturals, Sequences

VARIABLES steps, at, performed, outcome
vars == <<steps, at, performed, outcome>>

Requests(n) == {m \in 1 .. n : m <= Len(steps) /\ steps[m].op = "request"}
OfKind(ns, kind) == {m \in ns : steps[m].kind = kind}

Init == at = 1 /\ performed = {} /\ outcome = "running"

Perform ==
  /\ outcome = "running"
  /\ \E n \in Requests(at) \ performed : performed' = performed \union {n}
  /\ UNCHANGED <<steps, at, outcome>>

Advance ==
  /\ outcome = "running" /\ at <= Len(steps) /\ at' = at + 1
  /\ steps[at].op = "drain" => OfKind(Requests(at), steps[at].kind) \subseteq performed
  /\ UNCHANGED <<steps, performed, outcome>>

End ==
  /\ outcome = "running" /\ outcome' # "running"
  /\ outcome' \in {"TEST PASSED", "TEST FAILED"} =>
       at > Len(steps) /\ Requests(at) \subseteq performed
  /\ UNCHANGED <<steps, at, performed>>

Next == Perform \/ Advance \/ End
Spec == Init /\ [][Next]_vars
=============================================================================
