---------------------------- MODULE FlashOrigHost ----------------------------
(* src/projects/flash8192/main_orig.cpp: the first of the programs. All of *)
(* a card is erased, read, written and read again; nothing is compared.    *)
EXTENDS HostTags

readDone ==
  \E r \in answers :
    /\ PortalIdle /\ KindOf(r) = "read"
    /\ Release("read", r.tag, FALSE)
    /\ answers' = answers \ {r} /\ done' = done \union {r.n}
    /\ UNCHANGED <<mainVars, entry, flashStatus, bufVars, verbose_resp, testBuf, saved, ending,
                   threadVars, pending, store, fixedVars>>

writeDone == WriteDone
eraseDone == EraseDone

waitIdleEraseTag    == WaitIdle("erase")
waitIdleWriteBuffer == WaitIdle("write")
waitIdleReadBuffer  == WaitIdle("read")

eraseBlock == EraseBlock(LAMBDA status : "ERASED")
writePage  == WritePage(LAMBDA status : "WRITTEN")
readPage   == ReadPage

MYPAGE == PAGES_PER_BLOCK

Main ==
  EraseTest(1, 0, BLOCKS_PER_CHIP)
  \o ReadTest(1, 0, BLOCKS_PER_CHIP, 0, MYPAGE, FALSE, 1)
  \o WriteTest(1, 0, BLOCKS_PER_CHIP, 0, MYPAGE, FALSE)
  \o ReadTest(1, 0, BLOCKS_PER_CHIP, 0, MYPAGE, FALSE, 1)

(* main up to its first test.                                              *)
Start == HostInit

MainThread ==
  \/ waitIdleEraseTag \/ waitIdleWriteBuffer \/ waitIdleReadBuffer
  \/ eraseBlock \/ writePage \/ readPage \/ Drained \/ Polls \/ PrintResult
PortalThread == readDone \/ writeDone \/ eraseDone
Card == CardAnswers(FALSE)
Next == MainThread \/ PortalThread \/ Card
==============================================================================
