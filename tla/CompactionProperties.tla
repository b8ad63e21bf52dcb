------------------------ MODULE CompactionProperties ------------------------
(* What pink's compactions guarantee their program.                        *)
EXTENDS KtMergeHost

Tables(n) == [k \in 1 .. Merges[n].merged |-> TableOf(n, k)]
Result(n) == [tables |-> Tables(n), inval |-> [k \in 1 .. Merges[n].invalid |-> Addr(n, k)]]

-----------------------------------------------------------------------------
Indications ==
  [name : {"mergeDone"}, numMergedKt : Nat, numInvalAddr : Nat]
    \union [name : {"mergeFlushDone1", "mergeFlushDone2"}]
DmaEngine == [cmds : Seq([sglId : {KtBuf, InvalBuf}, base : Nat]), words : Nat, done : 0 .. 8]

(* The types of the queues and counters; no count leaves its register and  *)
(* no address is used of an entry that is not in the list.                 *)
TypeOK ==
  /\ \A list \in Lists :
       /\ ToSet(ppaList[list]) \subseteq
            {ppaBuf[buf][t] : buf \in DOMAIN ppaBuf, t \in 0 .. MaxList} \ {NoPpa}
       /\ ppaCnt[list] \in 0 .. ppaTotal[list] /\ parsePnt[list] \in 0 .. PpasPerWord - 1
       /\ ppaRespBeat[list] \in 0 .. WordsPerBurst - 1
  /\ merge \in {0} \union DOMAIN Merges /\ phase1 \in EngineNos /\ phase2 \in EngineNos
  /\ \A e \in EngineNos : engine[e] \in DmaEngine /\ engine[e].words < KeytableWords
  /\ ppaEngine \in DmaEngine /\ ppaEngine.words < WordsPerBurst
  /\ padCnt \in 0 .. PpasPerBurst - 1 /\ padPhase \in 0 .. PpasPerWord - 1
  /\ ppaOutBeatCnt \in 0 .. WordsPerBurst - 1
  /\ {busyCompaction, blockHostCmdQ} \subseteq BOOLEAN
  /\ ToSet(ktWriteTagQ) \union ToSet(ackKtQ) \subseteq Tags
  /\ writing \subseteq [tag : Tags, ppa : Ppas] /\ indications \subseteq Indications
  /\ pc \in {"set lists", "set output", "set up", "start", "await merge", "await flush", "sleep",
             "dump", "done", "error"}
  /\ i \in DOMAIN Merges

(* The tables that go into a merge are those listed for it, in the order   *)
(* of the list and each of them once, however the bursts, words and        *)
(* entries of the list come out: otherwise the merger would get its tables *)
(* out of order.                                                           *)
TablesAsListed ==
  merge > 0 =>
    \A list \in {LowL, HighL} :
      IsPrefix(consumed[list], [t \in 1 .. NumTable(list, merge) |-> Listed(list, merge)[t - 1]])

(* When the next compaction may begin, whatever its reset does not reach   *)
(* is as it was at first: all tags are back, each once, the counts of the  *)
(* flush are zero, no command is with the card, the engines rest, and the  *)
(* commands of the host go through.                                        *)
NothingLeftOver ==
  ~busyCompaction =>
    /\ ToSet(ktWriteTagQ) = Tags /\ Len(ktWriteTagQ) = KtTags /\ writing = {}
    /\ reqSent = 0 /\ numKtWritten = 0
    /\ initKtWrite = <<>> /\ ktWriteReqDone = <<>> /\ ackKtQ = <<>> /\ ~blockHostCmdQ
    /\ \A e \in EngineNos : engine[e] = Idle
    /\ ppaEngine = Idle

(* The compactions of the program are those of CompactionSpec: they do not *)
(* overlap, every merged table is programmed once and at its destination,  *)
(* though writes overtake each other and read the table late, and what the *)
(* program saves is whole, though it is written by several engines.        *)
Compactions == INSTANCE CompactionSpec WITH
  Merges <- DOMAIN Merges,
  Ppa <- LAMBDA n, k : Ppa(Dest, n, k - 1),
  started <- IF merge = i THEN i ELSE i - 1,
  pages <- flash
ImplementsCompaction == Compactions!Spec

(* The program ends: its two waits for indications are over one day, so no *)
(* burst, engine or acknowledgement is lost and nothing waits in a circle. *)
ProgramEnds == <>HasEnded

-----------------------------------------------------------------------------
(* The instance that TLC checks: bursts of 2 words of 2 addresses and 2    *)
(* engines. Two merges invalidate a burst of addresses, and more than one; *)
(* their lists fit a burst. The lists of the other take one burst and      *)
(* more, and it invalidates nothing.                                       *)
MCMerges ==
  << [high |-> 1, low |-> 1, merged |-> 2, invalid |-> 5],
     [high |-> 2, low |-> 4, merged |-> 5, invalid |-> 0],
     [high |-> 1, low |-> 1, merged |-> 1, invalid |-> 4] >>

MCPpas == {Ppa(Dest, n, t) : n \in DOMAIN MCMerges, t \in 0 .. 6}
=============================================================================
