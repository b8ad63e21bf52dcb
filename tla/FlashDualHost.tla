---------------------------- MODULE FlashDualHost ----------------------------
(* src/projects/flash8192-dual/main.cpp: two cards; the hardware reports a *)
(* read by the word behind the page, which a checker thread polls; a block *)
(* that reads as zeros after an erase is marked BAD and tolerated.         *)
(* KT_WRITE and KT_READ are left out: they call writePage and readPage     *)
(* without the card, which does not compile.                               *)
EXTENDS HostTags

checkReadData(t) ==
  LET blk == entry[t].at.blk
  IN \/ PageMatches(t)
     \/ flashStatus[blk] = "ERASED" /\ readBuffers[t] = Zeros
     \/ flashStatus[blk] = "BAD"

MarkedBad(t) ==
  LET status == flashStatus[entry[t].at.blk]
  IN IF status = "ERASED" /\ readBuffers[t] = Zeros THEN "BAD" ELSE status

check_read_buffer_done == CheckDoneWord(checkReadData, MarkedBad) \/ CheckDoneLocked

writeDone == WriteDone
eraseDone == EraseDone

waitIdleEraseTag    == WaitIdle("erase")
waitIdleWriteBuffer == WaitIdle("write")
waitIdleReadBuffer  == WaitIdle("read")

eraseBlock == EraseBlock(LAMBDA status : "ERASED")
writePage  == WritePage(LAMBDA status : IF status = "ERASED" THEN "WRITTEN" ELSE status)
readPage   == ReadPage

testErase(blkStart, blkCnt) == EraseTest(NUM_CARDS, blkStart, blkCnt)
testRead(blkStart, blkCnt, pageStart, pageCnt, checkRead, repeat) ==
  ReadTest(NUM_CARDS, blkStart, blkCnt, pageStart, pageCnt, checkRead, repeat)
testWrite(blkStart, blkCnt, pageStart, pageCnt, genData) ==
  WriteTest(NUM_CARDS, blkStart, blkCnt, pageStart, pageCnt, genData)

-----------------------------------------------------------------------------
TEST_ERASE_ALL == <<Verbose(TRUE)>> \o testErase(0, BLOCKS_PER_CHIP)

MINI_TEST_SUITE ==
  LET blkStart == 0
      blkCnt   == 1
      pageCnt  == 1
  IN <<Verbose(TRUE)>> \o testErase(blkStart, blkCnt)
     \o testRead(blkStart, blkCnt, 0, pageCnt, TRUE, 1)
     \o testWrite(blkStart, blkCnt, 0, pageCnt, TRUE)
     \o testRead(blkStart, blkCnt, 0, pageCnt, TRUE, 1)

TEST_WRITE_SPEED ==
  <<Verbose(FALSE)>> \o testErase(0, 1) \o testWrite(0, 1, 0, 1, FALSE)
TEST_READ_SPEED  == <<Verbose(FALSE)>> \o testRead(0, 1, 0, 1, FALSE, 2)

Main(tests) ==
  LET If(macro, steps) == IF macro \in tests THEN steps ELSE <<>>
  IN If("TEST_ERASE_ALL", TEST_ERASE_ALL)
     \o If("MINI_TEST_SUITE", MINI_TEST_SUITE)
     \o If("TEST_WRITE_SPEED", TEST_WRITE_SPEED)
     \o If("TEST_READ_SPEED", TEST_READ_SPEED)

(* main up to its first test.                                              *)
Start == HostInit

MainThread ==
  \/ waitIdleEraseTag \/ waitIdleWriteBuffer \/ waitIdleReadBuffer
  \/ eraseBlock \/ writePage \/ readPage
  \/ Drained \/ Polls \/ SetVerbose \/ PrintResult
PortalThread == writeDone \/ eraseDone
Card == CardAnswers(TRUE)
Next == MainThread \/ PortalThread \/ check_read_buffer_done \/ Card
==============================================================================
