---------------------------- MODULE HostKtFiles ----------------------------
(* The tests KT_WRITE, KT_READ and KT_READ_MERGE, which pink, flash_kt and *)
(* flash8192 have in common: key tables are written from files to physical *)
(* pages, read back and compared with the files, and the tables of a merge *)
(* are saved in a file. A file that is missing, of a wrong size or too     *)
(* short ends the program with -1, requests in flight or not.              *)
EXTENDS HostTags

CONSTANTS
  startPpaH, numPpaH,   \* per pair of files: where the tables of the high
  startPpaL, numPpaL,   \*   and of the low level go, and how many they are
  startPpaR, numPpaR    \* per merge: the pages of its result

(* One table: a write takes an idle buffer and fills it from the file; a   *)
(* read is awaited and compared before the next is sent.                   *)
KtPage(kind, ppa, last) ==
  [Request(kind, AddrOf(ppa)) EXCEPT !.data = FilePage(ppa), !.last = last]
WriteTable(ppa, last) == <<KtPage("write", ppa, last)>>
ReadTable(ppa, last) ==
  <<KtPage("read", ppa, last), Drain("read"), [op |-> "compare", data |-> FilePage(ppa)]>>

Tables(start, end, Body(_, _)) == For(start, end, LAMBDA ppa : Body(ppa, ppa = end - 1))
EachPair(Body(_, _), awaited) ==
  For(1, Len(startPpaH) + 1, LAMBDA ii :
    <<[op |-> "open"]>> \o Tables(startPpaH[ii], startPpaH[ii] + numPpaH[ii], Body)
                       \o Tables(startPpaL[ii], startPpaL[ii] + numPpaL[ii], Body) \o awaited)

KtWrite == EachPair(WriteTable, <<Drain("write")>>)
KtRead  == EachPair(ReadTable, <<>>)

(* The pages of a merge go side by side into the DMA region, whatever      *)
(* their tags, and from there into one file.                               *)
KtReadMerge ==
  For(1, Len(startPpaR) + 1, LAMBDA ii :
    For(0, numPpaR[ii], LAMBDA i :
      <<[Request("read", AddrOf(startPpaR[ii] + i)) EXCEPT !.slot = i]>>)
    \o <<Drain("read"), [op |-> "save", pages |-> numPpaR[ii]]>>)

(* TEST_HEAVY_READ of pink and flash_kt: random pages, copied to testBuf,  *)
(* then from few buses and chips (the masks 2 and 3), then without copy.   *)
HeavyReads(randPpa, AddressOf(_)) ==
  For(1, Len(randPpa) + 1, LAMBDA i : <<Request("read", AddressOf(randPpa[i]))>>)
  \o <<Drain("read")>>
FewBuses(ppa) == LET a == AddrOf(ppa) IN [a EXCEPT !.blk = <<0, 0, a.blk[3], a.blk[4]>>]
HeavyReadTest(randPpa) ==
  <<Verbose(TRUE), [op |-> "alloc"]>> \o HeavyReads(randPpa, AddrOf)
  \o <<Verbose(FALSE)>> \o HeavyReads(randPpa, FewBuses) \o HeavyReads(randPpa, AddrOf)

AllocTestBuf ==
  /\ At("alloc") /\ testBuf' = TRUE /\ NextStep
  /\ UNCHANGED <<tagVars, flashStatus, bufVars, testPassed, verbose_resp, saved, ending,
                 threadVars, cardVars, fixedVars, done>>

-----------------------------------------------------------------------------
(* Both files are opened and their sizes looked at. *)
OpenFiles ==
  /\ At("open")
  /\ \/ files = "missing" /\ ReturnError
     \/ /\ files # "missing" /\ NextStep
        /\ UNCHANGED <<tagVars, flashStatus, bufVars, resultVars, threadVars, cardVars, fixedVars,
                       done>>

(* fread fails on the last table of a file that is too short, when main has *)
(* taken a tag for it.                                                     *)
FreadFails ==
  /\ Running /\ Step.op = "request" /\ pc = "count" /\ FileEnds
  /\ ReturnError

(* memcmp of the buffer of the tag just used with the page of the file.    *)
Compare ==
  /\ At("compare")
  /\ \/ readBuffers[held] # Step.data /\ ReturnError
     \/ /\ readBuffers[held] = Step.data /\ NextStep
        /\ UNCHANGED <<tagVars, flashStatus, bufVars, resultVars, threadVars, cardVars, fixedVars,
                       done>>

SaveMerged ==
  /\ At("save")
  /\ saved' = [i \in 1 .. Step.pages |-> readBuffers[i - 1]]
  /\ NextStep
  /\ UNCHANGED <<tagVars, flashStatus, bufVars, testPassed, verbose_resp, testBuf, ending,
                 threadVars, cardVars, fixedVars, done>>

KtSteps == OpenFiles \/ FreadFails \/ Compare \/ SaveMerged
=============================================================================
