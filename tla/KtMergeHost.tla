---------------------------- MODULE KtMergeHost -----------------------------
(***************************************************************************)
(* The test KT_MERGE of pink's host program (projects/pink/main.cpp) with  *)
(* the hardware that carries out its compactions: main lists the tables to *)
(* merge and the destinations of the result, triggers the compaction,      *)
(* polls what the indications say, and saves the result.                   *)
(***************************************************************************)
EXTENDS PinkCompaction

VARIABLES
  pc, i,           \* main: its place, and the number of its merge
  num_merged, num_invalidated, flush_done1, flush_done2,
  saved            \* the files of the merges

hostVars == <<pc, i, num_merged, num_invalidated, flush_done1, flush_done2, saved, ppaBuf>>
vars == <<pinkVars, hostVars>>

Unset == -1

(* Address t of the list of merge n: startPpaH[n] + t and so on.           *)
Ppa(list, n, t) == [list |-> list, merge |-> n, no |-> t]
NumTable(list, n) ==
  CASE list = HighL -> Merges[n].high
    [] list = LowL  -> Merges[n].low
    [] list = Dest  -> Merges[n].high + Merges[n].low
Listed(list, n) == [t \in 0 .. NumTable(list, n) - 1 |-> Ppa(list, n, t)]

ListIn == ("resPpa" :> Dest) @@ ("lowPpa" :> LowL) @@ ("highPpa" :> HighL)

MaxList == Max({NumTable(Dest, n) : n \in DOMAIN Merges}) + PpasPerBurst

Init ==
  /\ PinkInit
  /\ ppaBuf = [buf \in DOMAIN ListIn |-> [t \in 0 .. MaxList |-> NoPpa]]
  /\ pc = "set lists" /\ i = 1
  /\ num_merged = Unset /\ num_invalidated = 0 /\ flush_done1 = Unset /\ flush_done2 = Unset
  /\ saved = <<>>

-----------------------------------------------------------------------------
(* setDmaKtPpaRef and setDmaKtOutputRef, once before the loop.             *)
SetRefs ==
  /\ \/ /\ pc = "set lists" /\ pc' = "set output"
        /\ setPpaRef("highPpa", "lowPpa", "resPpa", "resPpa")
     \/ /\ pc = "set output" /\ pc' = "set up"
        /\ setDmaKtOutputRef(KtBuf, InvalBuf)
  /\ UNCHANGED <<outputVars, trigVars, blockHostCmdQ, initKtWrite, reqSent, dmaKtMergedOffset,
                 ackVars, cardVars, ktWriteTagQ, ktWriteReqDone, ackKtQ, indications, i,
                 num_merged, num_invalidated, flush_done1, flush_done2, saved, ppaBuf>>

SetUp ==
  /\ pc = "set up" /\ pc' = "start"
  /\ num_merged' = Unset /\ flush_done1' = Unset /\ flush_done2' = Unset
  /\ ppaBuf' = [buf \in DOMAIN ListIn |-> Listed(ListIn[buf], i) @@ ppaBuf[buf]]
  /\ UNCHANGED <<pinkVars, i, num_invalidated, saved>>

Start ==
  /\ pc = "start" /\ pc' = "await merge"
  /\ startCompaction([merge |-> i, destPpaFlag |-> 0,
                      num |-> [list \in {LowL, HighL} |-> NumTable(list, i)]])
  /\ UNCHANGED <<i, num_merged, num_invalidated, flush_done1, flush_done2, saved, ppaBuf>>

Poll(at, seen, next) ==
  /\ pc = at /\ seen /\ pc' = next
  /\ UNCHANGED <<pinkVars, i, num_merged, num_invalidated, flush_done1, flush_done2, saved, ppaBuf>>

AwaitMerge == Poll("await merge", num_merged # Unset, "await flush")
AwaitFlush == Poll("await flush", flush_done1 # Unset \/ flush_done2 # Unset, "sleep")

(* sleep(1): the writes of a flush take milliseconds, so they are          *)
(* acknowledged and their indications handled within the second.           *)
Sleep == Poll("sleep", ~busyCompaction /\ indications = {}, "dump")

DumpTables == [k \in 1 .. num_merged |-> mergedKtBuf[k - 1]]
DumpInval  == [k \in 1 .. num_invalidated |-> invalPpaBuf[k - 1]]

Dump ==
  /\ pc = "dump"
  /\ saved' = Append(saved, [tables |-> DumpTables, inval |-> DumpInval])
  /\ num_invalidated' = 0
  /\ IF i = Len(Merges) THEN pc' = "done" /\ UNCHANGED i ELSE pc' = "set up" /\ i' = i + 1
  /\ UNCHANGED <<pinkVars, num_merged, flush_done1, flush_done2, ppaBuf>>

(* A file cannot be opened or written.                                     *)
DumpFails ==
  /\ pc = "dump" /\ pc' = "error"
  /\ UNCHANGED <<pinkVars, i, num_merged, num_invalidated, flush_done1, flush_done2, saved, ppaBuf>>

Main == SetRefs \/ SetUp \/ Start \/ AwaitMerge \/ AwaitFlush \/ Sleep \/ Dump \/ DumpFails

-----------------------------------------------------------------------------
(* The portal thread, as long as the program runs.                         *)
HasEnded == pc \in {"done", "error"}

PortalThread ==
  /\ ~HasEnded
  /\ \E ind \in indications :
       /\ indications' = indications \ {ind}
       /\ \/ /\ ind.name = "mergeDone"
             /\ num_merged' = ind.numMergedKt /\ num_invalidated' = ind.numInvalAddr
             /\ UNCHANGED <<flush_done1, flush_done2>>
          \/ /\ ind.name = "mergeFlushDone1" /\ flush_done1' = 1
             /\ UNCHANGED <<num_merged, num_invalidated, flush_done2>>
          \/ /\ ind.name = "mergeFlushDone2" /\ flush_done2' = 1
             /\ UNCHANGED <<num_merged, num_invalidated, flush_done1>>
  /\ UNCHANGED <<outputVars, trigVars, flushVars, ackVars, cardVars, ktWriteTagQ, ktWriteReqDone,
                 ackKtQ, pc, i, saved, ppaBuf>>

Ended == HasEnded /\ UNCHANGED vars

Next == Main \/ PortalThread \/ (Hardware /\ UNCHANGED hostVars) \/ Ended

(* Rules that can fire do, the card finishes its writes, and both threads  *)
(* of the program get the processor.                                       *)
Fairness == WF_vars(Main) /\ WF_vars(PortalThread) /\ WF_vars(Hardware /\ UNCHANGED hostVars)

Spec == Init /\ [][Next]_vars /\ Fairness
=============================================================================
