--------------------------- MODULE AFTLProperties ---------------------------
(***************************************************************************)
(* What the address translation layer guarantees, over the rules of module *)
(* AFTL, and the mapping under which it implements module AFTLSpec.        *)
(***************************************************************************)
EXTENDS AFTL

FlashCmds  == [tag : {r.tag : r \in Reqs}, op : {"READ_PAGE", "WRITE_PAGE", "ERASE_BLOCK", "INVALID"},
               chip : Chips, block : Blocks, page : {0} \cup {r.page : r \in Reqs}]
Items      == [addr : MapAddrs, cmd : FlashCmds]
MinEntries == {Invalid} \cup (Blocks \X (0 .. EraseMod - 1))

(* Every variable stays in its type and every FIFO within its depth.       *)
TypeOK ==
  /\ blockmap \in [MapAddrs -> MapEntries]
  /\ \A c \in Chips : blkinfo[c] \in [Blocks -> BlkEntries]
  /\ mapResp \in Seq(MapEntries) /\ Len(mapResp) <= BramDepth
  /\ \A i \in 1..Len(blkResp) : blkResp[i] \in [LaneSet -> BlkEntries]
  /\ Len(blkResp) <= BramDepth
  /\ \A i \in 1..Len(reqQ) : reqQ[i] \in Reqs
  /\ \A i \in 1..Len(procQ) : procQ[i] \in Reqs /\ IsFtlCmd(procQ[i])
  /\ \A n \in ProcNames : \A i \in 1..Len(procQs[n]) : procQs[n][i] \in Items
  /\ \A n \in 0..5 : \A i \in 1..Len(procUpdateQs[n]) :
       procUpdateQs[n][i] \in (0..2) \X Items
  /\ Len(reqQ) <= CmdQDepth
  /\ \A n \in {Len(procQ), Len(respQ), Len(respQ_pre), Len(resp_errorQ), Len(markBadDoneQ),
               Len(minEntVecQ), Len(minPeEntryQ)}
        \cup {Len(procQs[m]) : m \in ProcNames} \cup {Len(procUpdateQs[m]) : m \in 0..5} :
       n <= MkFIFO
  /\ \A q \in {respQ, respQ_pre} : \A i \in 1..Len(q) : q[i] \in FlashCmds
  /\ inProgress \in BOOLEAN /\ blkScanIssued \in BOOLEAN
  /\ blkScanReqCnt \in 0 .. Words - 1 /\ blkScanRespCnt \in 0 .. Words - 1
  /\ blkScanFinalCnt \in 0 .. Lanes - 1
  /\ curMinEnt \in [LaneSet -> MinEntries] /\ minEnt \in [LaneSet -> MinEntries]
  /\ theMinEntry \in MinEntries

-----------------------------------------------------------------------------
(* Commands between requestMapping and their answer.  While a scan is under*)
(* way the same command is in procUpdateQs[0] and procUpdateQs[1].         *)
ProcsLen(qs)  == Len(qs["R"]) + Len(qs["W"]) + Len(qs["W_trig"]) + Len(qs["E"]) + Len(qs["MB"])
StagesLen(us) == Len(us[0]) + Len(us[1]) + Len(us[2]) + Len(us[3]) + Len(us[4]) + Len(us[5])

InLookup == Len(procQ) + ProcsLen(procQs)
InUpdate == StagesLen(procUpdateQs) - (IF blkScanReqCnt = 0 THEN 0 ELSE 1)
InAnswer == Len(respQ_pre) + Len(respQ) + Len(resp_errorQ) + Len(markBadDoneQ)

InPipe == InLookup + InUpdate + InAnswer

(* inProgress tells exactly whether a command is in the pipeline: no rule  *)
(* drops or duplicates it, and the next one starts only after its answer.  *)
InProgressExact == InPipe = IF inProgress THEN 1 ELSE 0

(* The erase or write whose block table line is already written and whose  *)
(* map entry is not.                                                       *)
MapPending(a) == \E i \in 1..Len(procUpdateQs[5]) : procUpdateQs[5][i][2].addr = a

MappedBlocksDistinct ==
  \A a, b \in MapAddrs :
    (/\ a # b /\ ChipOf[a] = ChipOf[b]
     /\ blockmap[a].status = "ALLOCATED" /\ blockmap[b].status = "ALLOCATED")
    => blockmap[a].block # blockmap[b].block

MappedNeverFree ==
  restoring = <<>> =>
    \A a \in MapAddrs :
      (blockmap[a].status = "ALLOCATED" /\ ~MapPending(a)) =>
        blkinfo[ChipOf[a]][blockmap[a].block].status # "FREE_BLK"

(* Two virtual blocks never share a physical block, and a mapped block is  *)
(* never free for the next allocation, whatever erases and bad block marks *)
(* came between: updateBlkInfo4 and updateBlkInfo5 write the two tables in *)
(* two steps, and the stale block of an unmapped entry can still be marked.*)
TablesAgree == MappedBlocksDistinct /\ MappedNeverFree

(* "Erase command: Skip [0,1,2] and goto [3]" (AFTL.bsv:251-252): an erase *)
(* that reaches the update pipeline moves on to its stage 3.               *)
EraseReachesStage3 ==
  (NotEmpty(procUpdateQs[0]) /\ Head(procUpdateQs[0])[1] = 1) ~> NotEmpty(procUpdateQs[3])

-----------------------------------------------------------------------------
(* The refinement.  A command takes effect when it is answered from the    *)
(* map, refused, or when updateBlkInfo4 writes the block table; the map    *)
(* write that updateBlkInfo5 still owes is counted as done.  The page of an*)
(* erase is ignored, as procAftlErase replaces it by 0.                    *)
Norm(r) == IF r.cmd = "AftlERASE" THEN [r EXCEPT !.page = 0] ELSE r
NormAll(q) == [i \in 1..Len(q) |-> Norm(q[i])]

ReqOf(cmd, item) ==
  [tag |-> item.cmd.tag, cmd |-> cmd, addr |-> item.addr, page |-> item.cmd.page]

CmdOfType(type) == <<"AftlMARKBAD", "AftlERASE", "AftlWRITE">>[type + 1]
ReqsOf(cmd, q)  == [i \in 1..Len(q) |-> ReqOf(cmd, q[i])]
Updates(q)      == [i \in 1..Len(q) |-> ReqOf(CmdOfType(q[i][1]), q[i][2])]

AbsReqs ==
  NormAll(
       Updates(procUpdateQs[4]) \o Updates(procUpdateQs[3]) \o Updates(procUpdateQs[2])
    \o Updates(procUpdateQs[1]) \o (IF blkScanReqCnt = 0 THEN Updates(procUpdateQs[0]) ELSE <<>>)
    \o ReqsOf("AftlREAD", procQs["R"]) \o ReqsOf("AftlWRITE", procQs["W"])
    \o ReqsOf("AftlWRITE", procQs["W_trig"]) \o ReqsOf("AftlERASE", procQs["E"])
    \o ReqsOf("AftlMARKBAD", procQs["MB"]) \o procQ \o reqQ)

AbsMap ==
  [a \in MapAddrs |->
     IF MapPending(a)
     THEN MapEntry(Head(procUpdateQs[5])[1], Head(procUpdateQs[5])[2].cmd.block)
     ELSE blockmap[a]]

AbsAnswers ==
  respQ \o respQ_pre
  \o (IF NotEmpty(procUpdateQs[5]) /\ Head(procUpdateQs[5])[1] # 0
      THEN <<Head(procUpdateQs[5])[2].cmd>> ELSE <<>>)

FTL == INSTANCE AFTLSpec WITH
         map <- AbsMap, info <- blkinfo, loaded <- (restoring = <<>>),
         reqs <- AbsReqs, answers <- AbsAnswers, errors <- NormAll(resp_errorQ)

(* The pipeline answers as if each command were translated in one step, in *)
(* order, on both tables, with a least erased free block for a new mapping.*)
Translates == FTL!Spec

(* As long as every unmapped address has a free block on its chip, each    *)
(* accepted command is answered (or, for MARKBAD, drained), so that        *)
(* requestMapping can take the next one.                                   *)
Room ==
  \A a \in MapAddrs : AbsMap[a].status = "NOT_ALLOCATED" =>
    \E b \in Blocks : blkinfo[ChipOf[a]][b].status = "FREE_BLK"

AcceptedIsAnswered == []Room => (NotEmpty(procQ) ~> ~inProgress)

=============================================================================
