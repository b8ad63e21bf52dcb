----------------------------- MODULE FlashKtHost -----------------------------
(* src/projects/flash_kt/main.cpp without its merge test: the program pink *)
(* was made from, which has no search.                                     *)
EXTENDS HostKtFiles

checkReadData(t) == PageMatches(t)

readDone ==
  \/ ~CopiesNowhere /\ ReadDoneCheck(checkReadData)
  \/ CopyCrashes
  \/ ReadDoneLocked

writeDone == WriteDone
eraseDone == EraseDone

waitIdleEraseTag    == WaitIdle("erase")
waitIdleWriteBuffer == WaitIdle("write")
waitIdleReadBuffer  == WaitIdle("read")

eraseBlock == EraseBlock(LAMBDA status : "ERASED")
writePage  == WritePage(LAMBDA status : "WRITTEN")
readPage   == ReadPage

testErase(blkStart, blkCnt) == EraseTest(1, blkStart, blkCnt)
testRead(blkStart, blkCnt, pageStart, pageCnt, checkRead, repeat) ==
  ReadTest(1, blkStart, blkCnt, pageStart, pageCnt, checkRead, repeat)
testWrite(blkStart, blkCnt, pageStart, pageCnt, genData) ==
  WriteTest(1, blkStart, blkCnt, pageStart, pageCnt, genData)

-----------------------------------------------------------------------------
TEST_ERASE_ALL == <<Verbose(TRUE)>> \o testErase(0, BLOCKS_PER_CHIP)

(* The last blocks of every chip.                                          *)
MINI_TEST_SUITE ==
  LET blkStart == BLOCKS_PER_CHIP - 1
      blkCnt   == 1
      pageCnt  == 1
  IN <<Verbose(TRUE)>> \o testErase(blkStart, blkCnt)
     \o testRead(blkStart, blkCnt, 0, pageCnt, TRUE, 1)
     \o testWrite(blkStart, blkCnt, 0, pageCnt, TRUE)
     \o testRead(blkStart, blkCnt, 0, pageCnt, TRUE, 1)

TEST_READ_SPEED == <<Verbose(FALSE)>> \o testRead(0, 1, 0, 2, FALSE, 1)
TEST_HEAVY_READ(randPpa) == HeavyReadTest(randPpa)
TEST_WRITE_SPEED == <<Verbose(FALSE)>> \o testWrite(0, 1, 0, 1, FALSE)

KT_WRITE == KtWrite
KT_READ  == KtRead
KT_READ_MERGE == KtReadMerge

Main(tests, randPpa) ==
  LET If(macro, steps) == IF macro \in tests THEN steps ELSE <<>>
  IN If("TEST_ERASE_ALL", TEST_ERASE_ALL)
     \o If("MINI_TEST_SUITE", MINI_TEST_SUITE)
     \o If("TEST_READ_SPEED", TEST_READ_SPEED)
     \o If("TEST_HEAVY_READ", TEST_HEAVY_READ(randPpa))
     \o If("TEST_WRITE_SPEED", TEST_WRITE_SPEED)
     \o If("KT_WRITE", KT_WRITE)
     \o If("KT_READ", KT_READ)
     \o If("KT_READ_MERGE", KT_READ_MERGE)

(* main up to its first test.                                              *)
Start == HostInit

MainThread ==
  \/ waitIdleEraseTag \/ waitIdleWriteBuffer \/ waitIdleReadBuffer
  \/ eraseBlock \/ writePage \/ readPage
  \/ Drained \/ Polls \/ SetVerbose \/ AllocTestBuf \/ KtSteps \/ PrintResult
PortalThread == readDone \/ writeDone \/ eraseDone
Card == CardAnswers(FALSE)
Next == MainThread \/ PortalThread \/ Card
==============================================================================
