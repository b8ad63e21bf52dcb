-------------------------------- MODULE AFTL --------------------------------
(***************************************************************************)
(* The address translation layer of the AMF project: modules/aftl/AFTL.bsv.*)
(* One action per Bluespec rule or method.  A command runs through small   *)
(* FIFOs from rule to rule; the register inProgress is meant to keep one   *)
(* command in the pipeline at a time.                                      *)
(*                                                                         *)
(* Abstractions: the block map and the block table are memories that take  *)
(* effect when the request is put on port A, with their read data waiting  *)
(* in a FIFO of BramDepth (the requests of one port are served in order);  *)
(* a physical address is a member of Chips plus a block number.            *)
(***************************************************************************)
EXTENDS BsvFifo, Integers, FiniteSets

CONSTANTS
  MapAddrs,   (* the {segment, virtual block} pairs                        *)
  Chips,      (* the {card, bus, chip} triples                             *)
  ChipOf,     (* the chip a map address is striped to                      *)
  Words,      (* lines of the block table per chip: max_block_scan_req     *)
  Lanes,      (* BlkInfoEntriesPerWord                                     *)
  EraseMod,   (* 2^14 in the code                                          *)
  CmdQDepth,  (* depth of reqQ                                             *)
  BramDepth,  (* requests a memory port holds                              *)
  Reqs,       (* the commands the host may put                             *)
  Images      (* the tables the host may restore before its first command  *)

ASSUME AFTLAssumption ==
  /\ ChipOf \in [MapAddrs -> Chips]
  /\ Words \in Nat \ {0, 1} /\ Lanes \in Nat \ {0, 1}
  /\ EraseMod \in Nat \ {0} /\ CmdQDepth \in Nat \ {0} /\ BramDepth \in Nat \ {0}

VARIABLES
  blockmap, blkinfo,          (* the two tables                            *)
  mapResp, blkResp,           (* read data of their ports A                *)
  reqQ, procQ, procQs,        (* procQs: procQ_R, _W, _W_trig, _E, _MB     *)
  procUpdateQs,               (* procUpdateQs[0] .. procUpdateQs[5]        *)
  respQ_pre, respQ, resp_errorQ, markBadDoneQ,
  inProgress,
  blkScanIssued, blkScanReqCnt, blkScanRespCnt, blkScanFinalCnt,
  curMinEnt, minEntVecQ, minEnt, theMinEntry, minPeEntryQ,
  image, restoring            (* the host's tables, and what it has left   *)
                              (* of them to write (an empty sequence once  *)
                              (* setAftlLoaded was called)                 *)

tables   == <<blockmap, blkinfo>>
scanRegs == <<blkScanReqCnt, blkScanRespCnt, blkScanFinalCnt, curMinEnt,
              minEntVecQ, minEnt, theMinEntry, minPeEntryQ>>
host     == <<image, restoring>>
outputs  == <<respQ_pre, respQ, resp_errorQ, markBadDoneQ>>
vars     == <<tables, mapResp, blkResp, reqQ, procQ, procQs, procUpdateQs,
              outputs, inProgress, blkScanIssued, scanRegs, host>>

Blocks   == 0 .. (Words * Lanes - 1)
LaneSet  == 0 .. (Lanes - 1)
ProcNames == {"R", "W", "W_trig", "E", "MB"}
Invalid  == <<>>                    (* tagged Invalid of a Maybe            *)
Line(c, w) == [l \in LaneSet |-> blkinfo[c][w * Lanes + l]]

MapEntries == [status : {"ALLOCATED", "NOT_ALLOCATED", "DEAD"}, block : Blocks]
BlkEntries == [status : {"FREE_BLK", "USED_BLK", "BAD_BLK", "DIRTY_BLK"}, erase : 0 .. EraseMod - 1]

(* The tables the host restores are those of a fresh card, or were read    *)
(* back from a card at rest: the two agree, and the host writes all of     *)
(* them before it says that they are loaded.                               *)
ASSUME ImagesAssumption ==
  \A im \in Images :
    /\ im.map \in [MapAddrs -> MapEntries]
    /\ im.info \in [Chips -> [Blocks -> BlkEntries]]
    /\ \A a \in MapAddrs : im.map[a].status = "ALLOCATED" =>
         /\ im.info[ChipOf[a]][im.map[a].block].status # "FREE_BLK"
         /\ \A b \in MapAddrs \ {a} :
              (im.map[b].status = "ALLOCATED" /\ ChipOf[a] = ChipOf[b])
              => im.map[a].block # im.map[b].block
    /\ im.order \in Seq((({"blkinfo"} \X Chips \X (0 .. Words - 1)) \cup ({"map"} \X MapAddrs))
                        \cup {<<"loaded">>})
    /\ Len(im.order) > 0 /\ im.order[Len(im.order)] = <<"loaded">>
    /\ \A a \in MapAddrs : \E i \in 1 .. Len(im.order) : im.order[i] = <<"map", a>>
    /\ \A c \in Chips, w \in 0 .. Words - 1 :
         \E i \in 1 .. Len(im.order) : im.order[i] = <<"blkinfo", c, w>>

-----------------------------------------------------------------------------
(* The host: it restores its saved tables through ports B, then puts       *)
(* commands and reads the answers.                                         *)

(* What the host writes, in its order: block table lines, then map entries.*)
UpdateBlkInfo(c, w) ==
  /\ restoring # <<>> /\ Head(restoring) = <<"blkinfo", c, w>>
  /\ restoring' = Tail(restoring)
  /\ blkinfo' = [blkinfo EXCEPT ![c] =
       [b \in Blocks |-> IF b \div Lanes = w THEN image.info[c][b] ELSE @[b]]]
  /\ UNCHANGED <<blockmap, mapResp, blkResp, reqQ, procQ, procQs, procUpdateQs,
                 outputs, inProgress, blkScanIssued, scanRegs, image>>

UpdateMapping(a) ==
  /\ restoring # <<>> /\ Head(restoring) = <<"map", a>>
  /\ restoring' = Tail(restoring)
  /\ blockmap' = [blockmap EXCEPT ![a] = image.map[a]]
  /\ UNCHANGED <<blkinfo, mapResp, blkResp, reqQ, procQ, procQs, procUpdateQs,
                 outputs, inProgress, blkScanIssued, scanRegs, image>>

SetAftlLoaded ==
  /\ restoring = << <<"loaded">> >>
  /\ restoring' = <<>>
  /\ UNCHANGED <<tables, mapResp, blkResp, reqQ, procQ, procQs, procUpdateQs,
                 outputs, inProgress, blkScanIssued, scanRegs, image>>

TranslateReq(r) ==
  /\ restoring = <<>>
  /\ NotFull(reqQ, CmdQDepth)
  /\ reqQ' = Append(reqQ, r)
  /\ UNCHANGED <<tables, mapResp, blkResp, procQ, procQs, procUpdateQs, outputs,
                 inProgress, blkScanIssued, scanRegs, host>>

(* Reading an answer is what ends a command: both methods clear inProgress.*)
RespGet ==
  /\ inProgress /\ NotEmpty(respQ)
  /\ respQ' = Tail(respQ)
  /\ inProgress' = FALSE
  /\ UNCHANGED <<tables, mapResp, blkResp, reqQ, procQ, procQs, procUpdateQs,
                 respQ_pre, resp_errorQ, markBadDoneQ, blkScanIssued, scanRegs, host>>

RespErrorGet ==
  /\ inProgress /\ NotEmpty(resp_errorQ)
  /\ resp_errorQ' = Tail(resp_errorQ)
  /\ inProgress' = FALSE
  /\ UNCHANGED <<tables, mapResp, blkResp, reqQ, procQ, procQs, procUpdateQs,
                 respQ_pre, respQ, markBadDoneQ, blkScanIssued, scanRegs, host>>

-----------------------------------------------------------------------------
(* Lookup                                                                  *)

IsFtlCmd(r) == r.cmd \in {"AftlREAD", "AftlWRITE", "AftlERASE", "AftlMARKBAD"}

(* main.cpp sends no other command (FTLCmd is a struct of these fields).   *)
ASSUME ReqsAssumption ==
  \A r \in Reqs : /\ r.addr \in MapAddrs /\ IsFtlCmd(r)
                  /\ r = [tag |-> r.tag, cmd |-> r.cmd, addr |-> r.addr, page |-> r.page]

(* An unknown command goes straight to the error queue, and leaves         *)
(* inProgress as it is.                                                    *)
RequestMapping ==
  /\ ~inProgress /\ NotEmpty(reqQ)
  /\ reqQ' = Tail(reqQ)
  /\ LET ftlCmd == Head(reqQ) IN
       \/ /\ IsFtlCmd(ftlCmd)
          /\ NotFull(procQ, MkFIFO) /\ NotFull(mapResp, BramDepth)
          /\ procQ' = Append(procQ, ftlCmd)
          /\ mapResp' = Append(mapResp, blockmap[ftlCmd.addr])
          /\ inProgress' = TRUE
          /\ UNCHANGED resp_errorQ
       \/ /\ ~IsFtlCmd(ftlCmd)
          /\ NotFull(resp_errorQ, MkFIFO)
          /\ resp_errorQ' = Append(resp_errorQ, ftlCmd)
          /\ UNCHANGED <<procQ, mapResp, inProgress>>
  /\ UNCHANGED <<tables, blkResp, procQs, procUpdateQs, respQ_pre, respQ,
                 markBadDoneQ, blkScanIssued, scanRegs, host>>

(* Where the looked-up status sends each command; anything else is an error.*)
Dest(cmd, status) ==
  CASE status = "ALLOCATED" /\ cmd = "AftlREAD"      -> "R"
    [] status = "ALLOCATED" /\ cmd = "AftlWRITE"     -> "W"
    [] status = "ALLOCATED" /\ cmd = "AftlERASE"     -> "E"
    [] status = "NOT_ALLOCATED" /\ cmd = "AftlWRITE" -> "W_trig"
    [] status \in {"ALLOCATED", "NOT_ALLOCATED"} /\ cmd = "AftlMARKBAD" -> "MB"
    [] OTHER -> "error"

FlashOp(cmd) ==
  CASE cmd = "AftlWRITE" -> "WRITE_PAGE" [] cmd = "AftlREAD" -> "READ_PAGE"
    [] cmd = "AftlERASE" -> "ERASE_BLOCK" [] OTHER -> "INVALID"

(* LPA_DualFlashCmd: the map address with the flash command built for it.  *)
LPACmd(r, block) ==
  [addr |-> r.addr,
   cmd  |-> [tag |-> r.tag, op |-> FlashOp(r.cmd), chip |-> ChipOf[r.addr],
             block |-> block, page |-> r.page]]

CheckMapping0 ==
  /\ inProgress /\ NotEmpty(mapResp) /\ NotEmpty(procQ)
  /\ mapResp' = Tail(mapResp)
  /\ procQ' = Tail(procQ)
  /\ LET mapEntry == Head(mapResp)
         dest     == Dest(Head(procQ).cmd, mapEntry.status) IN
       \/ /\ dest = "error" /\ NotFull(resp_errorQ, MkFIFO)
          /\ resp_errorQ' = Append(resp_errorQ, Head(procQ))
          /\ UNCHANGED procQs
       \/ /\ dest # "error" /\ NotFull(procQs[dest], MkFIFO)
          /\ procQs' = [procQs EXCEPT ![dest] = Append(@, LPACmd(Head(procQ), mapEntry.block))]
          /\ UNCHANGED resp_errorQ
  /\ UNCHANGED <<tables, blkResp, reqQ, procUpdateQs, respQ_pre, respQ, markBadDoneQ,
                 inProgress, blkScanIssued, scanRegs, host>>

(* procAftlRead and procAftlWriteAllocated answer at once.                 *)
AnswerMapped(n) ==
  /\ inProgress /\ NotEmpty(procQs[n]) /\ NotFull(respQ, MkFIFO)
  /\ procQs' = [procQs EXCEPT ![n] = Tail(@)]
  /\ respQ' = Append(respQ, Head(procQs[n]).cmd)
  /\ UNCHANGED <<tables, mapResp, blkResp, reqQ, procQ, procUpdateQs, respQ_pre, resp_errorQ,
                 markBadDoneQ, inProgress, blkScanIssued, scanRegs, host>>

ProcAftlRead           == AnswerMapped("R")
ProcAftlWriteAllocated == AnswerMapped("W")

(* The others enter the update pipeline with their type: 0 mark bad,       *)
(* 1 erase (of the whole block: page 0), 2 write to an unmapped address.   *)
StartUpdate(n, type, item) ==
  /\ inProgress /\ NotEmpty(procQs[n]) /\ NotFull(procUpdateQs[0], MkFIFO)
  /\ procQs' = [procQs EXCEPT ![n] = Tail(@)]
  /\ procUpdateQs' = [procUpdateQs EXCEPT ![0] = Append(@, <<type, item>>)]
  /\ UNCHANGED <<tables, mapResp, blkResp, reqQ, procQ, outputs, inProgress,
                 blkScanIssued, scanRegs, host>>

ProcAftlMarkBadBlock      == StartUpdate("MB", 0, Head(procQs["MB"]))
ProcAftlErase             == StartUpdate("E", 1, [Head(procQs["E"]) EXCEPT !.cmd.page = 0])
ProcAftlWriteNotAllocated == StartUpdate("W_trig", 2, Head(procQs["W_trig"]))

-----------------------------------------------------------------------------
(* The scan of the chip's block table for the least erased free block      *)

UpdateBlkInfo0Skip ==
  /\ inProgress /\ ~blkScanIssued
  /\ NotEmpty(procUpdateQs[0]) /\ Head(procUpdateQs[0])[1] <= 1
  /\ NotFull(procUpdateQs[3], MkFIFO)
  /\ procUpdateQs' = [procUpdateQs EXCEPT ![0] = Tail(@), ![3] = Append(@, Head(procUpdateQs[0]))]
  /\ blkScanIssued' = TRUE
  /\ UNCHANGED <<tables, mapResp, blkResp, reqQ, procQ, procQs, outputs, inProgress, scanRegs, host>>

(* One table line is requested per firing; the command is handed to the    *)
(* collecting rule with the first line and leaves this one with the last.  *)
UpdateBlkInfo0Scan ==
  /\ inProgress /\ ~blkScanIssued
  /\ NotEmpty(procUpdateQs[0]) /\ Head(procUpdateQs[0])[1] > 1
  /\ NotFull(blkResp, BramDepth)
  /\ blkResp' = Append(blkResp, Line(Head(procUpdateQs[0])[2].cmd.chip, blkScanReqCnt))
  /\ \/ /\ blkScanReqCnt = 0 /\ NotFull(procUpdateQs[1], MkFIFO)
        /\ procUpdateQs' = [procUpdateQs EXCEPT ![1] = Append(@, Head(procUpdateQs[0]))]
        /\ blkScanReqCnt' = blkScanReqCnt + 1
        /\ UNCHANGED blkScanIssued
     \/ /\ blkScanReqCnt = Words - 1
        /\ procUpdateQs' = [procUpdateQs EXCEPT ![0] = Tail(@)]
        /\ blkScanReqCnt' = 0
        /\ blkScanIssued' = TRUE
     \/ /\ blkScanReqCnt \notin {0, Words - 1}
        /\ blkScanReqCnt' = blkScanReqCnt + 1
        /\ UNCHANGED <<procUpdateQs, blkScanIssued>>
  /\ UNCHANGED <<tables, mapResp, reqQ, procQ, procQs, outputs, inProgress, blkScanRespCnt,
                 blkScanFinalCnt, curMinEnt, minEntVecQ, minEnt, theMinEntry, minPeEntryQ, host>>

(* Mutant: takes any block that is not bad.                                *)
UpdateMinEntriesNotBad(prevMin, entry, blk) ==
  IF entry.status = "BAD_BLK" \/ (prevMin # Invalid /\ prevMin[2] <= entry.erase)
  THEN prevMin ELSE <<blk, entry.erase>>

(* <<block, erase count>> of the less erased, the earlier one on a tie.    *)
UpdateMinEntries(prevMin, entry, blk) ==
  IF entry.status # "FREE_BLK" \/ (prevMin # Invalid /\ prevMin[2] <= entry.erase)
  THEN prevMin ELSE <<blk, entry.erase>>

(* Mutant: prefers the most erased block.                                  *)
GetMinEntriesMostErased(prevMin, nextMin) ==
  IF nextMin = Invalid \/ (prevMin # Invalid /\ prevMin[2] >= nextMin[2])
  THEN prevMin ELSE nextMin

GetMinEntries(prevMin, nextMin) ==
  IF nextMin = Invalid \/ (prevMin # Invalid /\ prevMin[2] <= nextMin[2])
  THEN prevMin ELSE nextMin

UpdateBlkInfo1 ==
  /\ inProgress /\ NotEmpty(procUpdateQs[1]) /\ NotEmpty(blkResp)
  /\ blkResp' = Tail(blkResp)
  /\ LET newMinEnt == [l \in LaneSet |->
           UpdateMinEntries(curMinEnt[l], Head(blkResp)[l], blkScanRespCnt * Lanes + l)] IN
       \/ /\ blkScanRespCnt = Words - 1
          /\ NotFull(minEntVecQ, MkFIFO) /\ NotFull(procUpdateQs[2], MkFIFO)
          /\ blkScanRespCnt' = 0
          /\ curMinEnt' = [l \in LaneSet |-> Invalid]
          /\ minEntVecQ' = Append(minEntVecQ, newMinEnt)
          /\ procUpdateQs' = [procUpdateQs EXCEPT ![1] = Tail(@),
                                                  ![2] = Append(@, Head(procUpdateQs[1]))]
       \/ /\ blkScanRespCnt # Words - 1
          /\ blkScanRespCnt' = blkScanRespCnt + 1
          /\ curMinEnt' = newMinEnt
          /\ UNCHANGED <<minEntVecQ, procUpdateQs>>
  /\ UNCHANGED <<tables, mapResp, reqQ, procQ, procQs, outputs, inProgress, blkScanIssued,
                 blkScanReqCnt, blkScanFinalCnt, minEnt, theMinEntry, minPeEntryQ, host>>

Rotate(v) == [l \in LaneSet |-> v[(l + 1) % Lanes]]

UpdateBlkInfo2Step ==
  /\ inProgress /\ NotEmpty(procUpdateQs[2]) /\ blkScanFinalCnt # Lanes - 1
  /\ blkScanFinalCnt' = blkScanFinalCnt + 1
  /\ \/ /\ blkScanFinalCnt = 0 /\ NotEmpty(minEntVecQ)
        /\ minEntVecQ' = Tail(minEntVecQ)
        /\ minEnt' = Rotate(Head(minEntVecQ))
        /\ theMinEntry' = GetMinEntries(theMinEntry, Head(minEntVecQ)[0])
     \/ /\ blkScanFinalCnt # 0
        /\ minEnt' = Rotate(minEnt)
        /\ theMinEntry' = GetMinEntries(theMinEntry, minEnt[0])
        /\ UNCHANGED minEntVecQ
  /\ UNCHANGED <<tables, mapResp, blkResp, reqQ, procQ, procQs, procUpdateQs, outputs, inProgress,
                 blkScanIssued, blkScanReqCnt, blkScanRespCnt, curMinEnt, minPeEntryQ, host>>

(* The last lane decides.  Without a free block the write is refused, and  *)
(* blkScanIssued stays set.                                                *)
UpdateBlkInfo2Final ==
  /\ inProgress /\ NotEmpty(procUpdateQs[2]) /\ blkScanFinalCnt = Lanes - 1
  /\ blkScanFinalCnt' = 0
  /\ minEnt' = [l \in LaneSet |-> Invalid]
  /\ theMinEntry' = Invalid
  /\ LET finalEntry == GetMinEntries(theMinEntry, minEnt[0])
         item       == Head(procUpdateQs[2]) IN
       \/ /\ finalEntry # Invalid
          /\ NotFull(minPeEntryQ, MkFIFO) /\ NotFull(procUpdateQs[3], MkFIFO)
          /\ minPeEntryQ' = Append(minPeEntryQ, finalEntry)
          /\ procUpdateQs' = [procUpdateQs EXCEPT ![2] = Tail(@), ![3] = Append(@, item)]
          /\ UNCHANGED resp_errorQ
       \/ /\ finalEntry = Invalid /\ NotFull(resp_errorQ, MkFIFO)
          /\ procUpdateQs' = [procUpdateQs EXCEPT ![2] = Tail(@)]
          /\ resp_errorQ' = Append(resp_errorQ,
               [tag |-> item[2].cmd.tag, cmd |-> "AftlWRITE", addr |-> item[2].addr,
                page |-> item[2].cmd.page])
          /\ UNCHANGED minPeEntryQ
  /\ UNCHANGED <<tables, mapResp, blkResp, reqQ, procQ, procQs, respQ_pre, respQ, markBadDoneQ,
                 inProgress, blkScanIssued, blkScanReqCnt, blkScanRespCnt, curMinEnt,
                 minEntVecQ, host>>

-----------------------------------------------------------------------------
(* The update of the block table, then of the map                          *)

UpdateBlkInfo3 ==
  /\ inProgress /\ blkScanIssued
  /\ NotEmpty(procUpdateQs[3]) /\ NotFull(procUpdateQs[4], MkFIFO) /\ NotFull(blkResp, BramDepth)
  /\ LET item  == Head(procUpdateQs[3])
         taken == item[1] > 1
         cmd   == IF taken THEN [item[2].cmd EXCEPT !.block = Head(minPeEntryQ)[1]]
                           ELSE item[2].cmd IN
       /\ taken => NotEmpty(minPeEntryQ)
       /\ procUpdateQs' = [procUpdateQs EXCEPT ![3] = Tail(@),
            ![4] = Append(@, <<item[1], [addr |-> item[2].addr, cmd |-> cmd]>>)]
       /\ blkResp' = Append(blkResp, Line(cmd.chip, cmd.block \div Lanes))
  /\ UNCHANGED <<tables, mapResp, reqQ, procQ, procQs, outputs, inProgress, blkScanIssued,
                 scanRegs, host>>

(* Mutant: the erase count does not wrap.                                  *)
EraseBlkInfoEntryNoWrap(e) == [status |-> "FREE_BLK", erase |-> e.erase + 1]

EraseBlkInfoEntry(e) == [status |-> "FREE_BLK", erase |-> (e.erase + 1) % EraseMod]
MarkBadEntry(e)      == [status |-> "BAD_BLK", erase |-> e.erase]

UpdatedEntry(type, e) ==
  CASE type = 0 -> MarkBadEntry(e)
    [] type = 1 -> EraseBlkInfoEntry(e)
    [] OTHER    -> [status |-> "USED_BLK", erase |-> Head(minPeEntryQ)[2]]

UpdatedLine(type, line, lane) == [line EXCEPT ![lane] = UpdatedEntry(type, @)]
WriteLine(info, w, line) ==
  [b \in Blocks |-> IF b \div Lanes = w THEN line[b % Lanes] ELSE info[b]]

(* The whole line read before is written back with one lane changed.       *)
UpdateBlkInfo4 ==
  /\ inProgress /\ blkScanIssued
  /\ NotEmpty(procUpdateQs[4]) /\ NotFull(procUpdateQs[5], MkFIFO) /\ NotEmpty(blkResp)
  /\ procUpdateQs' = [procUpdateQs EXCEPT ![4] = Tail(@), ![5] = Append(@, Head(procUpdateQs[4]))]
  /\ blkResp' = Tail(blkResp)
  /\ LET type == Head(procUpdateQs[4])[1]
         cmd  == Head(procUpdateQs[4])[2].cmd
         line == UpdatedLine(type, Head(blkResp), cmd.block % Lanes) IN
       /\ IF type > 1 THEN NotEmpty(minPeEntryQ) /\ minPeEntryQ' = Tail(minPeEntryQ)
                      ELSE UNCHANGED minPeEntryQ
       /\ blkinfo' = [blkinfo EXCEPT ![cmd.chip] = WriteLine(@, cmd.block \div Lanes, line)]
  /\ UNCHANGED <<blockmap, mapResp, reqQ, procQ, procQs, outputs, inProgress, blkScanIssued,
                 blkScanReqCnt, blkScanRespCnt, blkScanFinalCnt, curMinEnt, minEntVecQ, minEnt,
                 theMinEntry, host>>

MapEntry(type, block) ==
  [status |-> IF type <= 1 THEN "NOT_ALLOCATED" ELSE "ALLOCATED", block |-> block]

UpdateBlkInfo5 ==
  /\ inProgress /\ blkScanIssued /\ NotEmpty(procUpdateQs[5])
  /\ blkScanIssued' = FALSE
  /\ procUpdateQs' = [procUpdateQs EXCEPT ![5] = Tail(@)]
  /\ LET type == Head(procUpdateQs[5])[1]
         item == Head(procUpdateQs[5])[2] IN
       /\ \/ /\ type = 0 /\ NotFull(markBadDoneQ, MkFIFO)
             /\ markBadDoneQ' = Append(markBadDoneQ, TRUE)
             /\ UNCHANGED respQ_pre
          \/ /\ type # 0 /\ NotFull(respQ_pre, MkFIFO)
             /\ respQ_pre' = Append(respQ_pre, item.cmd)
             /\ UNCHANGED markBadDoneQ
       /\ blockmap' = [blockmap EXCEPT ![item.addr] = MapEntry(type, item.cmd.block)]
  /\ UNCHANGED <<blkinfo, mapResp, blkResp, reqQ, procQ, procQs, respQ, resp_errorQ, inProgress,
                 scanRegs, host>>

RouteRespQ ==
  /\ NotEmpty(respQ_pre) /\ NotFull(respQ, MkFIFO)
  /\ respQ_pre' = Tail(respQ_pre)
  /\ respQ' = Append(respQ, Head(respQ_pre))
  /\ UNCHANGED <<tables, mapResp, blkResp, reqQ, procQ, procQs, procUpdateQs, resp_errorQ,
                 markBadDoneQ, inProgress, blkScanIssued, scanRegs, host>>

(* Mutant: the bad block mark never ends its turn.                         *)
DrainMarkBadDoneKeepsBusy ==
  /\ inProgress /\ NotEmpty(markBadDoneQ)
  /\ markBadDoneQ' = Tail(markBadDoneQ)
  /\ UNCHANGED <<tables, mapResp, blkResp, reqQ, procQ, procQs, procUpdateQs, respQ_pre, respQ,
                 resp_errorQ, inProgress, blkScanIssued, scanRegs, host>>

DrainMarkBadDone ==
  /\ inProgress /\ NotEmpty(markBadDoneQ)
  /\ markBadDoneQ' = Tail(markBadDoneQ)
  /\ inProgress' = FALSE
  /\ UNCHANGED <<tables, mapResp, blkResp, reqQ, procQ, procQs, procUpdateQs, respQ_pre, respQ,
                 resp_errorQ, blkScanIssued, scanRegs, host>>

-----------------------------------------------------------------------------
Init ==
  /\ blockmap = [a \in MapAddrs |-> [status |-> "NOT_ALLOCATED", block |-> 0]]
  /\ blkinfo = [c \in Chips |-> [b \in Blocks |-> [status |-> "FREE_BLK", erase |-> 0]]]
  /\ mapResp = <<>> /\ blkResp = <<>>
  /\ reqQ = <<>> /\ procQ = <<>>
  /\ procQs = [n \in ProcNames |-> <<>>]
  /\ procUpdateQs = [n \in 0..5 |-> <<>>]
  /\ respQ_pre = <<>> /\ respQ = <<>> /\ resp_errorQ = <<>> /\ markBadDoneQ = <<>>
  /\ inProgress = FALSE /\ blkScanIssued = FALSE
  /\ blkScanReqCnt = 0 /\ blkScanRespCnt = 0 /\ blkScanFinalCnt = 0
  /\ curMinEnt = [l \in LaneSet |-> Invalid] /\ minEnt = [l \in LaneSet |-> Invalid]
  /\ minEntVecQ = <<>> /\ theMinEntry = Invalid /\ minPeEntryQ = <<>>
  /\ image \in Images
  /\ restoring = image.order

HostStep ==
  \/ \E c \in Chips, w \in 0 .. (Words - 1) : UpdateBlkInfo(c, w)
  \/ \E a \in MapAddrs : UpdateMapping(a)
  \/ SetAftlLoaded
  \/ \E r \in Reqs : TranslateReq(r)

Answered == RespGet \/ RespErrorGet

Rule ==
  \/ RequestMapping \/ CheckMapping0
  \/ ProcAftlRead \/ ProcAftlWriteAllocated
  \/ ProcAftlMarkBadBlock \/ ProcAftlErase \/ ProcAftlWriteNotAllocated
  \/ UpdateBlkInfo0Skip \/ UpdateBlkInfo0Scan \/ UpdateBlkInfo1
  \/ UpdateBlkInfo2Step \/ UpdateBlkInfo2Final
  \/ UpdateBlkInfo3 \/ UpdateBlkInfo4 \/ UpdateBlkInfo5
  \/ RouteRespQ \/ DrainMarkBadDone

Next == HostStep \/ Answered \/ Rule

Spec == Init /\ [][Next]_vars

(* The hardware scheduler fires some enabled rule every cycle, and with one*)
(* command in the pipeline no rule is passed over for ever; main.cpp waits *)
(* for its answers, so the host side reads them.                           *)
FairSpec == Spec /\ WF_vars(Rule) /\ WF_vars(Answered)
=============================================================================
