---------------------- MODULE KeytableMergerProperties ----------------------
(***************************************************************************)
(* What the merger of key tables has to put out, defined without rules and *)
(* FIFOs, and the properties of KeytableMerger.                            *)
(***************************************************************************)
EXTENDS KeytableMerger

-----------------------------------------------------------------------------
(* The order of keys: like byte strings, a beginning before the whole.     *)
Before(a, b) ==
  \/ IsStrictPrefix(a, b)
  \/ \E n \in DOMAIN a \cap DOMAIN b :
       a[n] < b[n] /\ SubSeq(a, 1, n - 1) = SubSeq(b, 1, n - 1)

Entries(level) == ToSet(FlattenSeq(level))
KeysOf(level)  == {e.key : e \in Entries(level)}

(* A level: its tables are not empty, fit and are sorted, also among each  *)
(* other.                                                                  *)
IsLevel(level) ==
  LET all == FlattenSeq(level) IN
  /\ level # <<>>
  /\ \A n \in DOMAIN level : level[n] # <<>> /\ SizeOf(level[n]) <= BodyWords
  /\ \A n \in 1 .. Len(all) - 1 : Before(all[n].key, all[n + 1].key)

ASSUME InputsAreLevels == \A in \in Inputs : \A i \in Levels : IsLevel(in[i])

Overwritten(in) == {e \in Entries(in[Low]) : e.key \in KeysOf(in[High])}
Merged(in) == SetToSortSeq(Entries(in[High]) \cup (Entries(in[Low]) \ Overwritten(in)),
                           LAMBDA e, f : Before(e.key, f.key))

(* Entries fill a table until the next one does not fit.                   *)
Tables(entries) ==
  FoldLeft(LAMBDA ts, e :
             IF ts # <<>> /\ SizeOf(Last(ts)) + Beats(e) <= BodyWords
             THEN Front(ts) \o <<Append(Last(ts), e)>> ELSE Append(ts, <<e>>),
           <<>>, entries)

TableWords(t, last) ==
  [n \in 1 .. KeytableWords |-> [last |-> last, word |-> TableWord(t, n - 1)]]
Expected(in) == LET ts == Tables(Merged(in)) IN
  FlattenSeq([n \in DOMAIN ts |-> TableWords(ts[n], n = Len(ts))])
ExpectedOf == [in \in Inputs |-> Expected(in)]

-----------------------------------------------------------------------------
(* Word for word the tables put out are the two levels merged: every key   *)
(* once and in order, with the high level's address where both levels have *)
(* it, as many entries per table as fit, a header that says where they     *)
(* are, and the mark of the last table on all words of that table only.    *)
(* When the addresses have ended, every reported address is one of an      *)
(* overwritten entry of the low level, and none is reported twice.         *)
CreatesTheMerge ==
  /\ IsPrefix(created, ExpectedOf[levels])
  /\ LET reported == SelectSeq(invalidated, LAMBDA a : a # Ended)
         told == Cardinality({n \in DOMAIN invalidated : invalidated[n] = Ended}) IN
     /\ told <= 1 /\ (told = 1 => Last(invalidated) = Ended)
     /\ ToSet(reported) \subseteq {e.addr : e \in Overwritten(levels)}
     /\ Cardinality(ToSet(reported)) = Len(reported)

(* Every merge ends: the rules that take tables apart, compare, make the   *)
(* header and put words out never wait for each other in a circle.         *)
MergesEnd == []<>(MergeEnded /\ created = ExpectedOf[levels])
=============================================================================
