---------------------------- MODULE Flash8192Host ----------------------------
(* src/projects/flash8192/main.cpp: one card, reads reported by            *)
(* indications, 64 tags per kind. Its readDone copies nothing.             *)
EXTENDS HostKtFiles

checkReadData(t) == PageMatches(t)

readDone == ReadDoneCheck(checkReadData) \/ ReadDoneLocked

writeDone == WriteDone
eraseDone == EraseDone

waitIdleEraseTag    == WaitIdle("erase")
waitIdleWriteBuffer == WaitIdle("write")
waitIdleReadBuffer  == WaitIdle("read")

eraseBlock == EraseBlock(LAMBDA status : "ERASED")
writePage  == WritePage(LAMBDA status : "WRITTEN")
readPage   == ReadPage

testErase(blkStart, blkCnt) == EraseTest(1, blkStart, blkCnt)
testRead(blkStart, blkCnt, pageStart, pageCnt, checkRead, repeat) ==
  ReadTest(1, blkStart, blkCnt, pageStart, pageCnt, checkRead, repeat)
testWrite(blkStart, blkCnt, pageStart, pageCnt, genData) ==
  WriteTest(1, blkStart, blkCnt, pageStart, pageCnt, genData)

-----------------------------------------------------------------------------
TEST_ERASE_ALL == <<Verbose(TRUE)>> \o testErase(0, BLOCKS_PER_CHIP)

MINI_TEST_SUITE ==
  LET blkStart == 0
      blkCnt   == 1
      pageCnt  == 1
  IN <<Verbose(TRUE)>> \o testErase(blkStart, blkCnt)
     \o testRead(blkStart, blkCnt, 0, pageCnt, TRUE, 1)
     \o testWrite(blkStart, blkCnt, 0, pageCnt, TRUE)
     \o testRead(blkStart, blkCnt, 0, pageCnt, TRUE, 1)

TEST_READ_SPEED  == <<Verbose(FALSE)>> \o testRead(0, 1, 0, 1, FALSE, 2)
TEST_WRITE_SPEED == <<Verbose(FALSE)>> \o testWrite(0, 1, 0, 1, FALSE)

KT_WRITE == KtWrite
KT_READ  == KtRead

Main(tests) ==
  LET If(macro, steps) == IF macro \in tests THEN steps ELSE <<>>
  IN If("TEST_ERASE_ALL", TEST_ERASE_ALL)
     \o If("MINI_TEST_SUITE", MINI_TEST_SUITE)
     \o If("TEST_READ_SPEED", TEST_READ_SPEED)
     \o If("TEST_WRITE_SPEED", TEST_WRITE_SPEED)
     \o If("KT_WRITE", KT_WRITE)
     \o If("KT_READ", KT_READ)

(* main up to its first test.                                              *)
Start == HostInit

MainThread ==
  \/ waitIdleEraseTag \/ waitIdleWriteBuffer \/ waitIdleReadBuffer
  \/ eraseBlock \/ writePage \/ readPage
  \/ Drained \/ Polls \/ SetVerbose \/ OpenFiles \/ FreadFails \/ Compare \/ PrintResult
PortalThread == readDone \/ writeDone \/ eraseDone
Card == CardAnswers(FALSE)
Next == MainThread \/ PortalThread \/ Card
==============================================================================
