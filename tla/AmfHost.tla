------------------------------- MODULE AmfHost -------------------------------
(* src/projects/amf-dual/main.cpp: two cards behind the address            *)
(* translation layer. A request names a logical page (lpa) and is refused  *)
(* when the layer has no block for it. The program also keeps the tables   *)
(* of the layer: it erases every block past the layer, stores what it      *)
(* learnt in map.bin, and loads the layer from there. The program talks to *)
(* the tables in groups of 8 blocks; here a group is one block.            *)
EXTENDS HostTags

VARIABLES
  eraseTable,              \* eraseTagTable: the block a raw erase is for
  blockStatus, blockPE,    \* what the program knows of every block
  mapped,                  \* mapStatus, mappedBlock: block of a logical block, or none
  mapBin,                  \* the file map.bin
  blkInfoReads,
  aftlLoadedSem,
  asks, infoResps,         \* answers of the device not taken yet
  aftlLoaded, blockmap, blkinfo,   \* the device: its tables
  flash,                   \* translated requests the cards work on
  refusals                 \* requests the layer has refused, not taken yet

tableVars == <<blockStatus, blockPE, mapped>>
deviceVars == <<aftlLoaded, blockmap, blkinfo, flash, refusals>>
amfVars == <<eraseTable, tableVars, mapBin, blkInfoReads, aftlLoadedSem, asks, infoResps,
             deviceVars>>

NotAllocated == -1
MapBinMissing == [mapped |-> <<>>, status |-> <<>>, pe |-> <<>>]

(* lpa = card + 2*bus + 16*chip + 128*page + 32768*blk, scaled.            *)
PageOf(lpa) ==
  LET buses == lpa \div NUM_CARDS
      chips == buses \div NUM_BUSES
      pages == chips \div CHIPS_PER_BUS
  IN [blk  |-> <<lpa % NUM_CARDS, buses % NUM_BUSES, chips % CHIPS_PER_BUS,
                 pages \div PAGES_PER_BLOCK>>,
      page |-> pages % PAGES_PER_BLOCK]
Lpa(lpa) == <<"lpa", lpa>>

(* Only the first word is compared, and 0 is both the first word a test    *)
(* writes to block 0 of the first chips and lpa 0.                         *)
checkReadData(t) ==
  \/ readBuffers[t] = Lpa(entry[t].at)
  \/ /\ entry[t].at = PageOf(0)
     /\ readBuffers[t] \in {Zeros, hashAddrToData(<<0, 0, 0, 0>>)}

check_read_buffer_done ==
  /\ CheckDoneWord(checkReadData, LAMBDA t : flashStatus[entry[t].at.blk]) \/ CheckDoneLocked
  /\ UNCHANGED amfVars

writeDone == WriteDone /\ UNCHANGED amfVars

(* The tables are written before the mutex is taken. Bit 1 of the status   *)
(* says that the erase went past the layer, bit 0 that it failed.          *)
eraseDoneTables ==
  \E r \in answers :
    /\ PortalIdle /\ KindOf(r) = "erase"
    /\ answers' = answers \ {r}
    /\ handling' = [n |-> r.n, tag |-> r.tag, passed |-> TRUE]
    /\ LET blk == eraseTable[r.tag]
           isRawCmd == script[r.n].raw
           isBadBlock == blk \in bad
       IN IF isRawCmd
          THEN /\ blockStatus' = [blockStatus EXCEPT ![blk] = IF isBadBlock THEN "BAD" ELSE "FREE"]
               /\ blockPE' = [blockPE EXCEPT ![blk] = @ + 1]
          ELSE UNCHANGED <<blockStatus, blockPE>>
    /\ UNCHANGED <<mainVars, tagVars, flashStatus, bufVars, resultVars, checking, pending, store,
                   fixedVars, done, eraseTable, mapped, mapBin, blkInfoReads, aftlLoadedSem, asks,
                   infoResps, deviceVars>>

eraseDoneLocked ==
  /\ Alive /\ handling # None
  /\ ReleaseErase(handling.tag)
  /\ handling' = None /\ done' = done \union {handling.n}
  /\ UNCHANGED <<mainVars, entry, flashStatus, bufVars, verbose_resp, testBuf, saved, ending,
                 checking, cardVars, fixedVars, amfVars>>

(* A mutant: the tables are written after the critical section.            *)
eraseDoneCountsFirst ==
  \/ \E r \in answers :
       /\ PortalIdle /\ KindOf(r) = "erase"
       /\ ReleaseErase(r.tag)
       /\ answers' = answers \ {r} /\ done' = done \union {r.n}
       /\ handling' = [n |-> r.n, tag |-> r.tag, passed |-> TRUE]
       /\ UNCHANGED <<mainVars, entry, flashStatus, bufVars, verbose_resp, testBuf, saved, ending,
                      checking, pending, store, fixedVars, amfVars>>
  \/ /\ Alive /\ handling # None /\ handling' = None
     /\ LET blk == eraseTable[handling.tag]
        IN IF script[handling.n].raw
           THEN /\ blockStatus' = [blockStatus EXCEPT ![blk] = IF blk \in bad THEN "BAD" ELSE "FREE"]
                /\ blockPE' = [blockPE EXCEPT ![blk] = @ + 1]
           ELSE UNCHANGED <<blockStatus, blockPE>>
     /\ UNCHANGED <<mainVars, tagVars, flashStatus, bufVars, resultVars, checking, cardVars,
                    fixedVars, done, eraseTable, mapped, mapBin, blkInfoReads, aftlLoadedSem, asks,
                    infoResps, deviceVars>>

eraseDone == eraseDoneTables \/ eraseDoneLocked

(* A mutant: the refused request stays counted.                            *)
respAftlFailedCounted ==
  \E r \in refusals :
    /\ PortalIdle
    /\ busy' = [busy EXCEPT ![KindOf(r)][r.tag] = FALSE]
    /\ refusals' = refusals \ {r} /\ done' = done \union {r.n}
    /\ UNCHANGED <<mainVars, inFlight, entry, flashStatus, bufVars, resultVars, threadVars, cardVars,
                   fixedVars, eraseTable, tableVars, mapBin, blkInfoReads, aftlLoadedSem, asks,
                   infoResps, aftlLoaded, blockmap, blkinfo, flash>>

(* A refused request frees its tag; testPassed stays as it is.             *)
respAftlFailed ==
  \E r \in refusals :
    /\ PortalIdle
    /\ LET k == KindOf(r)
       IN /\ inFlight' = [inFlight EXCEPT ![k] = IF busy[k][r.tag] THEN @ - 1 ELSE @]
          /\ busy' = [busy EXCEPT ![k][r.tag] = FALSE]
    /\ refusals' = refusals \ {r} /\ done' = done \union {r.n}
    /\ UNCHANGED <<mainVars, entry, flashStatus, bufVars, resultVars, threadVars, cardVars,
                   fixedVars, eraseTable, tableVars, mapBin, blkInfoReads, aftlLoadedSem, asks,
                   infoResps, aftlLoaded, blockmap, blkinfo, flash>>

(* The answers carry no address: they are counted, and the count is taken  *)
(* for the number of the block (card, bus, chip, block).                   *)
BlockNo(n) ==
  LET chips == n \div BLOCKS_PER_CHIP
      buses == chips \div CHIPS_PER_BUS
  IN <<(buses \div NUM_BUSES) % NUM_CARDS, buses % NUM_BUSES, chips % CHIPS_PER_BUS,
       n % BLOCKS_PER_CHIP>>
NumBlocks == NUM_CARDS * NUM_BUSES * CHIPS_PER_BUS * BLOCKS_PER_CHIP

(* A mutant: blocks are counted, not answers.                              *)
respReadBlkInfoPerBlock ==
  /\ PortalIdle /\ infoResps # <<>>
  /\ infoResps' = Tail(infoResps)
  /\ blockStatus' = [blockStatus EXCEPT ![BlockNo(blkInfoReads)] = Head(infoResps).status]
  /\ blockPE' = [blockPE EXCEPT ![BlockNo(blkInfoReads)] = Head(infoResps).erase]
  /\ blkInfoReads' = blkInfoReads + 8
  /\ UNCHANGED <<hostVars, eraseTable, mapped, mapBin, aftlLoadedSem, asks, deviceVars>>

respReadBlkInfo ==
  /\ PortalIdle /\ infoResps # <<>>
  /\ infoResps' = Tail(infoResps)
  /\ blockStatus' = [blockStatus EXCEPT ![BlockNo(blkInfoReads)] = Head(infoResps).status]
  /\ blockPE' = [blockPE EXCEPT ![BlockNo(blkInfoReads)] = Head(infoResps).erase]
  /\ blkInfoReads' = blkInfoReads + 1
  /\ UNCHANGED <<hostVars, eraseTable, mapped, mapBin, aftlLoadedSem, asks, deviceVars>>

respAftlLoaded ==
  /\ PortalIdle /\ asks > 0
  /\ asks' = asks - 1 /\ aftlLoadedSem' = aftlLoadedSem + 1
  /\ UNCHANGED <<hostVars, eraseTable, tableVars, mapBin, blkInfoReads, infoResps, deviceVars>>

-----------------------------------------------------------------------------
waitIdleEraseTag    == WaitIdle("erase") /\ UNCHANGED amfVars
waitIdleWriteBuffer == WaitIdle("write") /\ UNCHANGED amfVars
waitIdleReadBuffer  == WaitIdle("read") /\ UNCHANGED amfVars

(* A raw erase notes its block first, which nothing looks at before the    *)
(* answer; the others note nothing.                                        *)
eraseBlock ==
  /\ EraseBlock(LAMBDA status : status)
  /\ eraseTable' = IF pc = "count" /\ Step.raw THEN [eraseTable EXCEPT ![held] = Step.at.blk]
                   ELSE eraseTable
  /\ UNCHANGED <<tableVars, mapBin, blkInfoReads, aftlLoadedSem, asks, infoResps, deviceVars>>
writePage == WritePage(LAMBDA status : status) /\ UNCHANGED amfVars
readPage  == ReadPage /\ UNCHANGED amfVars

(* Loops over logical pages: blocks, then pages, chips, buses, cards.      *)
LpaLoop(blkStart, blkEnd, pageStart, pageEnd, Body(_)) ==
  For(blkStart, Least(blkEnd, BLOCKS_PER_CHIP), LAMBDA blk :
    For(pageStart, Least(pageEnd, PAGES_PER_BLOCK), LAMBDA page :
      EachChip(NUM_CARDS, LAMBDA card, bus, chip :
        <<Body([blk |-> <<card, bus, chip, blk>>, page |-> page])>>)))

testErase(blkStart, blkCnt) == EraseTest(NUM_CARDS, blkStart, blkCnt)
testRead(blkStart, blkCnt, pageStart, pageCnt, checkRead, repeat) ==
  For(0, repeat, LAMBDA rep :
    LpaLoop(blkStart, blkStart + blkCnt, pageStart, pageStart + pageCnt,
            LAMBDA p : ReadOf(p, checkRead)))
  \o <<Drain("read")>>
testWrite(blkStart, blkCnt, pageStart, pageCnt, genData) ==
  LpaLoop(blkStart, blkStart + blkCnt, pageStart, pageStart + pageCnt,
          LAMBDA p : WriteOf(p, genData))
  \o <<Drain("write")>>
testRead2(lpaStart, lpaCnt, checkRead) ==
  For(lpaStart, lpaStart + lpaCnt, LAMBDA lpa : <<ReadOf(PageOf(lpa), checkRead)>>)
  \o <<Drain("read")>>
testWrite2(lpaStart, lpaCnt, genData) ==
  For(lpaStart, lpaStart + lpaCnt, LAMBDA lpa :
    <<[Request("write", PageOf(lpa)) EXCEPT !.data = IF genData THEN Lpa(PageOf(lpa)) ELSE Keep]>>)
  \o <<Drain("write")>>

-----------------------------------------------------------------------------
(* The steps that talk to the layer or keep its tables.                    *)
Main(op) == At(op) /\ NextStep
SameHost == UNCHANGED <<tagVars, flashStatus, bufVars, resultVars, threadVars, cardVars, fixedVars,
                        done>>

askAftlLoaded ==
  /\ Main("ask") /\ SameHost
  /\ asks' = asks + 1
  /\ UNCHANGED <<eraseTable, tableVars, mapBin, blkInfoReads, aftlLoadedSem, infoResps, deviceVars>>

sem_wait ==
  /\ Main("sem_wait") /\ SameHost /\ aftlLoadedSem > 0
  /\ aftlLoadedSem' = aftlLoadedSem - 1
  /\ UNCHANGED <<eraseTable, tableVars, mapBin, blkInfoReads, asks, infoResps, deviceVars>>

setAftlLoaded ==
  /\ Main("loaded") /\ SameHost
  /\ aftlLoaded' = TRUE
  /\ UNCHANGED <<eraseTable, tableVars, mapBin, blkInfoReads, aftlLoadedSem, asks, infoResps,
                 blockmap, blkinfo, flash, refusals>>

(* A file that cannot be written ends the program, and so does one that    *)
(* cannot be read where the program looks at the result.                   *)
writeAFTLtoFile ==
  /\ At("write map.bin")
  /\ \/ files = "missing" /\ ReturnError /\ UNCHANGED mapBin
     \/ /\ files # "missing" /\ NextStep /\ SameHost
        /\ mapBin' = [mapped |-> mapped, status |-> blockStatus, pe |-> blockPE]
  /\ UNCHANGED <<eraseTable, tableVars, blkInfoReads, aftlLoadedSem, asks, infoResps, deviceVars>>

clearTables ==
  /\ Main("clear") /\ SameHost
  /\ blockStatus' = [b \in Blocks |-> "UNKNOWN"] /\ blockPE' = [b \in Blocks |-> 0]
  /\ mapped' = [b \in Blocks |-> NotAllocated]
  /\ UNCHANGED <<eraseTable, mapBin, blkInfoReads, aftlLoadedSem, asks, infoResps, deviceVars>>

readAFTLfromFile ==
  /\ At("read map.bin")
  /\ \/ /\ mapBin = MapBinMissing /\ UNCHANGED tableVars
        /\ IF Step.checked THEN ReturnError ELSE NextStep /\ SameHost
     \/ /\ mapBin # MapBinMissing /\ NextStep /\ SameHost
        /\ mapped' = mapBin.mapped /\ blockStatus' = mapBin.status /\ blockPE' = mapBin.pe
  /\ UNCHANGED <<eraseTable, mapBin, blkInfoReads, aftlLoadedSem, asks, infoResps, deviceVars>>

(* The program sends the status of a block without its erase count.        *)
updateBlkInfo ==
  /\ Main("updateBlkInfo") /\ SameHost
  /\ blkinfo' = [blkinfo EXCEPT ![Step.blk] = [status |-> blockStatus[Step.blk], erase |-> 0]]
  /\ UNCHANGED <<eraseTable, tableVars, mapBin, blkInfoReads, aftlLoadedSem, asks, infoResps,
                 aftlLoaded, blockmap, flash, refusals>>

readBlkInfo ==
  /\ Main("readBlkInfo") /\ SameHost
  /\ infoResps' = Append(infoResps, blkinfo[Step.blk])
  /\ UNCHANGED <<eraseTable, tableVars, mapBin, blkInfoReads, aftlLoadedSem, asks, deviceVars>>

waitBlkInfoReads ==
  /\ Main("wait blkInfoReads") /\ SameHost
  /\ blkInfoReads = NumBlocks
  /\ UNCHANGED amfVars

pollBlkInfoReads ==
  /\ At("wait blkInfoReads") /\ blkInfoReads # NumBlocks
  /\ UNCHANGED <<hostVars, amfVars>>

updateMapping ==
  /\ Main("updateMapping") /\ SameHost
  /\ blockmap' = [blockmap EXCEPT ![Step.blk] = mapped[Step.blk]]
  /\ UNCHANGED <<eraseTable, tableVars, mapBin, blkInfoReads, aftlLoadedSem, asks, infoResps,
                 aftlLoaded, blkinfo, flash, refusals>>

-----------------------------------------------------------------------------
EachBlock(Body(_)) == For(0, NumBlocks, LAMBDA n : <<Body(BlockNo(n))>>)
EachMapEntry(Body(_)) ==
  For(0, BLOCKS_PER_CHIP, LAMBDA seg : For(0, NumBlocks \div BLOCKS_PER_CHIP, LAMBDA virt_blk :
    <<Body(PageOf(virt_blk + seg * (NumBlocks \div BLOCKS_PER_CHIP) * PAGES_PER_BLOCK).blk)>>))

Op(op) == [op |-> op]
Handshake ==
  <<Op("ask"), Op("sem_wait"), Op("loaded"), Op("ask"), Op("sem_wait")>>

TEST_AMF_ERASEALL ==
  For(0, BLOCKS_PER_CHIP, LAMBDA blk : EachChip(NUM_CARDS, LAMBDA card, bus, chip :
    <<[Request("erase", [blk |-> <<card, bus, chip, blk>>, page |-> 0]) EXCEPT !.raw = TRUE]>>))
  \o <<Drain("erase"), Op("write map.bin"), Op("clear"), [op |-> "read map.bin", checked |-> TRUE]>>
  \o EachBlock(LAMBDA b : [op |-> "updateBlkInfo", blk |-> b])
  \o EachBlock(LAMBDA b : [op |-> "readBlkInfo", blk |-> b])
  \o <<Op("wait blkInfoReads")>>

(* The first half of the pages of the first segment.                       *)
TEST_AMF_MAPPING1 ==
  LET half == (NumBlocks \div BLOCKS_PER_CHIP) * (PAGES_PER_BLOCK \div 2)
  IN testWrite2(0, half, FALSE) \o testRead2(0, half, FALSE)

(* Few pages, before there is a map; then the pages it maps; then others.  *)
TEST_AMF_MAPPING2 ==
  LET lpaCnt == (NumBlocks \div BLOCKS_PER_CHIP) * (PAGES_PER_BLOCK \div 2)
  IN testRead2(0, 2, FALSE)
     \o <<[op |-> "read map.bin", checked |-> FALSE]>>
     \o EachMapEntry(LAMBDA b : [op |-> "updateMapping", blk |-> b])
     \o testRead2(0, lpaCnt, FALSE) \o testRead2(lpaCnt, 1, FALSE)

TEST_ERASE_ALL == <<Verbose(TRUE)>> \o testErase(0, BLOCKS_PER_CHIP)
TEST_AMF ==
  LET segment == (NumBlocks \div BLOCKS_PER_CHIP) * PAGES_PER_BLOCK
  IN testWrite2(0, segment, FALSE) \o testRead2(0, segment, FALSE)

MINI_TEST_SUITE ==
  LET blkStart == 0
      blkCnt   == 1
      pageCnt  == 1
  IN <<Verbose(TRUE)>> \o testErase(blkStart, blkCnt)
     \o testRead(blkStart, blkCnt, 0, pageCnt, TRUE, 1)
     \o testWrite(blkStart, blkCnt, 0, pageCnt, TRUE)
     \o testRead(blkStart, blkCnt, 0, pageCnt, TRUE, 1)

TEST_READ_SPEED  == <<Verbose(FALSE)>> \o testRead(0, 1, 0, 1, FALSE, 2)
TEST_WRITE_SPEED ==
  <<Verbose(FALSE)>> \o testErase(0, 1) \o testWrite(0, 1, 0, 1, FALSE)

MainScript(tests) ==
  LET If(macro, steps) == IF macro \in tests THEN steps ELSE <<>>
  IN Handshake
     \o If("TEST_AMF_ERASEALL", TEST_AMF_ERASEALL)
     \o If("TEST_AMF_MAPPING1", TEST_AMF_MAPPING1)
     \o If("TEST_AMF_MAPPING2", TEST_AMF_MAPPING2)
     \o If("TEST_ERASE_ALL", TEST_ERASE_ALL)
     \o If("TEST_AMF", TEST_AMF)
     \o If("MINI_TEST_SUITE", MINI_TEST_SUITE)
     \o If("TEST_READ_SPEED", TEST_READ_SPEED)
     \o If("TEST_WRITE_SPEED", TEST_WRITE_SPEED)

-----------------------------------------------------------------------------
(* The device. The layer takes the requests in the order they were made; a *)
(* raw erase goes past it.                                                 *)
ToFlash(r, blk) == flash' = flash \union {[n |-> r.n, tag |-> r.tag, blk |-> blk]}

Refuse(r) ==
  /\ refusals' = refusals \union {r}
  /\ UNCHANGED <<blockmap, blkinfo, flash>>

PhysicalBlock(blk, b) == <<blk[1], blk[2], blk[3], b>>
FreeBlocks(blk) ==
  {b \in 0 .. BLOCKS_PER_CHIP - 1 : blkinfo[PhysicalBlock(blk, b)].status = "FREE"}
LeastErased(blk) ==
  {b \in FreeBlocks(blk) : \A c \in FreeBlocks(blk) :
     blkinfo[PhysicalBlock(blk, b)].erase <= blkinfo[PhysicalBlock(blk, c)].erase}

Translate ==
  \E r \in pending :
    /\ \A s \in pending : r.n <= s.n
    /\ pending' = pending \ {r}
    /\ LET req == script[r.n]
           blk == req.at.blk
           phys == PhysicalBlock(blk, blockmap[blk])
       IN \/ /\ req.raw /\ ToFlash(r, blk)
             /\ UNCHANGED <<blockmap, blkinfo, refusals>>
          \/ /\ ~req.raw /\ blockmap[blk] = NotAllocated
             /\ req.kind # "write" \/ FreeBlocks(blk) = {}
             /\ Refuse(r)
          \/ /\ ~req.raw /\ blockmap[blk] = NotAllocated /\ req.kind = "write"
             /\ \E b \in LeastErased(blk) :
                  /\ blockmap' = [blockmap EXCEPT ![blk] = b]
                  /\ blkinfo' = [blkinfo EXCEPT ![PhysicalBlock(blk, b)].status = "USED"]
                  /\ ToFlash(r, PhysicalBlock(blk, b))
             /\ UNCHANGED refusals
          \/ /\ ~req.raw /\ blockmap[blk] # NotAllocated
             /\ ToFlash(r, phys)
             /\ IF req.kind = "erase"
                THEN /\ blockmap' = [blockmap EXCEPT ![blk] = NotAllocated]
                     /\ blkinfo' = [blkinfo EXCEPT ![phys] = [status |-> "FREE", erase |-> @.erase + 1]]
                ELSE UNCHANGED <<blockmap, blkinfo>>
             /\ UNCHANGED refusals
    /\ UNCHANGED <<mainVars, tagVars, flashStatus, bufVars, resultVars, threadVars, answers, store,
                   fixedVars, done, eraseTable, tableVars, mapBin, blkInfoReads, aftlLoadedSem, asks, infoResps,
                   aftlLoaded>>

(* The cards answer in any order; the end of a read is a word in memory.   *)
FlashAnswers ==
  \E f \in flash :
    LET r == [n |-> f.n, tag |-> f.tag]
        where == [blk |-> f.blk, page |-> script[f.n].at.page]
    IN /\ flash' = flash \ {f} /\ answers' = answers \union {r}
       /\ store' = ContentAfter(r, where)
       /\ IF KindOf(r) = "read"
          THEN /\ readBuffers' = [readBuffers EXCEPT ![f.tag] = ContentOf(r, where)]
               /\ doneFlag' = [doneFlag EXCEPT ![f.tag] = TRUE]
          ELSE UNCHANGED <<readBuffers, doneFlag>>
       /\ UNCHANGED <<mainVars, tagVars, flashStatus, writeBuffers, resultVars, threadVars, pending,
                      fixedVars, done, eraseTable, tableVars, mapBin, blkInfoReads, aftlLoadedSem,
                      asks, infoResps, aftlLoaded, blockmap, blkinfo, refusals>>

-----------------------------------------------------------------------------
AmfInit ==
  /\ eraseTable = [t \in Tags |-> <<0, 0, 0, 0>>]
  /\ blockStatus = [b \in Blocks |-> "UNKNOWN"] /\ blockPE = [b \in Blocks |-> 0]
  /\ mapped = [b \in Blocks |-> NotAllocated]
  /\ blkInfoReads = 0 /\ aftlLoadedSem = 0 /\ asks = 0 /\ infoResps = <<>>
  /\ aftlLoaded = FALSE /\ flash = {} /\ refusals = {}
Start == HostInit /\ AmfInit

MainThread ==
  \/ waitIdleEraseTag \/ waitIdleWriteBuffer \/ waitIdleReadBuffer
  \/ eraseBlock \/ writePage \/ readPage
  \/ (Drained \/ Polls \/ SetVerbose \/ PrintResult) /\ UNCHANGED amfVars
  \/ askAftlLoaded \/ sem_wait \/ setAftlLoaded
  \/ writeAFTLtoFile \/ clearTables \/ readAFTLfromFile
  \/ updateBlkInfo \/ readBlkInfo \/ waitBlkInfoReads \/ pollBlkInfoReads \/ updateMapping
PortalThread == writeDone \/ eraseDone \/ respAftlFailed \/ respReadBlkInfo \/ respAftlLoaded
Card == Translate \/ FlashAnswers
Next == MainThread \/ PortalThread \/ check_read_buffer_done \/ Card
==============================================================================
