--------------------------- MODULE PinkCompaction ---------------------------
(***************************************************************************)
(* How pink carries out a compaction (projects/pink/Main.bsv): a trigger   *)
(* resets and starts the merger, the end of the merge starts a write to    *)
(* flash for each merged table, and the last acknowledgement lets the next *)
(* compaction go ahead. A write reads its table from the memory of the     *)
(* host when the controller asks for the page.                             *)
(***************************************************************************)
EXTENDS KtOutput

CONSTANTS
  KtTags,          (* 64: tags for the writes of merged tables             *)
  Ppas             (* the flash addresses listed as destinations           *)

ASSUME TagsAssumption == KtTags \in Nat \ {0}

VARIABLES
  tmp_sgId,        \* tmp_sgIdHigh and so on
  dmaKtMergedSgid,
  busyCompaction, blockHostCmdQ,
  trigCompactionQ, trigCompactionQ2, trigCompactionQ3,
  initKtWrite, reqSent, ktWriteTagQ, dmaKtMergedOffset,
  ktWriteReqDone, ackKtQ, numKtWritten,
  writing,         \* the controller: commands it has, [tag, ppa]
  flash,           \* and what was programmed at an address
  indications      \* those the program has not seen yet

trigVars  == <<trigCompactionQ, trigCompactionQ2, trigCompactionQ3>>
bufVars   == <<tmp_sgId, dmaKtMergedSgid>>
flushVars == <<bufVars, blockHostCmdQ, initKtWrite, reqSent, dmaKtMergedOffset>>
ackVars   == <<busyCompaction, numKtWritten>>
cardVars  == <<writing, flash>>
pinkVars  == <<outputVars, trigVars, flushVars, ackVars, cardVars, ktWriteTagQ, ktWriteReqDone,
               ackKtQ, indications>>

Tags == 0 .. KtTags - 1

PinkInit ==
  /\ OutputInit
  /\ tmp_sgId = [r \in {"high", "low", "res1", "res2", "ktBuf", "invalPpa"} |-> NoRef]
  /\ dmaKtMergedSgid = NoRef
  /\ busyCompaction = FALSE /\ blockHostCmdQ = FALSE
  /\ trigCompactionQ = <<>> /\ trigCompactionQ2 = <<>> /\ trigCompactionQ3 = <<>>
  /\ initKtWrite = <<>> /\ reqSent = 0 /\ ktWriteTagQ = [n \in 1 .. KtTags |-> n - 1]
  /\ dmaKtMergedOffset = [t \in Tags |-> 0]
  /\ ktWriteReqDone = <<>> /\ ackKtQ = <<>> /\ numKtWritten = 0
  /\ writing = {} /\ flash = [p \in Ppas |-> <<>>] /\ indications = {}

(* Indications of several methods reach the program in any order.          *)
Indicate(ind) == indications' = indications \union {ind}

-----------------------------------------------------------------------------
(* pink's method setDmaKtPpaRef.                                           *)
setPpaRef(high, low, res1, res2) ==
  /\ tmp_sgId' = [tmp_sgId EXCEPT !.high = high, !.low = low, !.res1 = res1, !.res2 = res2]
  /\ UNCHANGED dmaKtMergedSgid

setDmaKtOutputRef(ktBuf, invalPpa) ==
  /\ tmp_sgId' = [tmp_sgId EXCEPT !.ktBuf = ktBuf, !.invalPpa = invalPpa]
  /\ dmaKtMergedSgid' = ktBuf

startCompaction(cmd) ==
  /\ NotFull(trigCompactionQ, MkFIFO)
  /\ trigCompactionQ' = Append(trigCompactionQ, cmd)
  /\ UNCHANGED <<outputVars, trigCompactionQ2, trigCompactionQ3, flushVars, ackVars, cardVars,
                 ktWriteTagQ, ktWriteReqDone, ackKtQ, indications>>

issueCompaction ==
  /\ ~busyCompaction /\ NotEmpty(trigCompactionQ) /\ NotFull(trigCompactionQ2, MkFIFO)
  /\ trigCompactionQ' = Tail(trigCompactionQ)
  /\ trigCompactionQ2' = Append(trigCompactionQ2, Head(trigCompactionQ))
  /\ ResetOutput
  /\ UNCHANGED <<trigCompactionQ3, flushVars, ackVars, cardVars, ktWriteTagQ, ktWriteReqDone,
                 ackKtQ, indications>>

(* Four cycles later, when the reset is over.                              *)
issueCompaction2 ==
  /\ NotEmpty(trigCompactionQ2) /\ NotFull(trigCompactionQ3, MkFIFO)
  /\ trigCompactionQ2' = Tail(trigCompactionQ2)
  /\ trigCompactionQ3' = Append(trigCompactionQ3, Head(trigCompactionQ2))
  /\ UNCHANGED <<outputVars, trigCompactionQ, flushVars, ackVars, cardVars, ktWriteTagQ,
                 ktWriteReqDone, ackKtQ, indications>>

issueCompaction3 ==
  LET cmd == Head(trigCompactionQ3) IN
  /\ NotEmpty(trigCompactionQ3)
  /\ startMerge(cmd.merge, cmd.num, cmd.destPpaFlag, tmp_sgId)
  /\ busyCompaction' = TRUE
  /\ trigCompactionQ3' = Tail(trigCompactionQ3)
  /\ UNCHANGED <<trigCompactionQ, trigCompactionQ2, flushVars, numKtWritten, cardVars,
                 ktWriteTagQ, ktWriteReqDone, ackKtQ, indications>>

-----------------------------------------------------------------------------
mergeDone ==
  LET done == Head(mergeDoneQ) IN
  /\ NotEmpty(mergeDoneQ) /\ NotFull(initKtWrite, MkFIFO)
  /\ mergeDoneQ' = Tail(mergeDoneQ)
  /\ Indicate([name |-> "mergeDone", numMergedKt |-> done.numKt, numInvalAddr |-> done.numInvalAddr])
  /\ blockHostCmdQ' = TRUE
  /\ initKtWrite' = Append(initKtWrite, done.numKt)
  /\ UNCHANGED <<listVars, mergerVars, refVars, tableVars, invalVars, ktGeneratedDone,
                 invalPpaDoneQ, trigVars, bufVars, reqSent, dmaKtMergedOffset, ackVars, cardVars,
                 ktWriteTagQ, ktWriteReqDone, ackKtQ>>

(* A mutant: leaves reqSent as it is after the last write.                 *)
CountWriteOn(ktsToFlush) == reqSent' = reqSent + 1

LastWrite(ktsToFlush) == reqSent = ktsToFlush - 1
CountWrite(ktsToFlush) == reqSent' = IF LastWrite(ktsToFlush) THEN 0 ELSE reqSent + 1

driveKtFlashWriteCmd ==
  LET ktsToFlush == Head(initKtWrite)
      tag == Head(ktWriteTagQ)
      last == LastWrite(ktsToFlush) IN
  /\ NotEmpty(initKtWrite) /\ NotEmpty(ktWriteTagQ) /\ getPpa(Dest)
  /\ ktWriteTagQ' = Tail(ktWriteTagQ)
  /\ CountWrite(ktsToFlush)
  /\ last => NotFull(ktWriteReqDone, MkFIFO)
  /\ IF last
     THEN /\ initKtWrite' = Tail(initKtWrite)
          /\ ktWriteReqDone' = Append(ktWriteReqDone, ktsToFlush)
          /\ Indicate([name |-> "mergeFlushDone1"])
          /\ blockHostCmdQ' = FALSE
     ELSE UNCHANGED <<initKtWrite, ktWriteReqDone, indications, blockHostCmdQ>>
  /\ dmaKtMergedOffset' = [dmaKtMergedOffset EXCEPT ![tag] = reqSent]
  /\ writing' = writing \union {[tag |-> tag, ppa |-> Head(ppaList[Dest])]}
  /\ UNCHANGED <<mergerVars, refVars, tableVars, invalVars, doneVars, trigVars, bufVars, ackVars,
                 flash, ackKtQ>>

PageFromHost(offset) == IF dmaKtMergedSgid = KtBuf THEN mergedKtBuf[offset] ELSE NoWord

(* The controller asks for the page of one of its writes (initDmaRead),    *)
(* programs it and acknowledges it (handleControllerAckKtMerge). Writes    *)
(* may overtake each other.                                                *)
WritePage ==
  /\ NotFull(ackKtQ, MkFIFO)
  /\ \E cmd \in writing :
       /\ writing' = writing \ {cmd}
       /\ flash' = [flash EXCEPT ![cmd.ppa] = Append(@, PageFromHost(dmaKtMergedOffset[cmd.tag]))]
       /\ ackKtQ' = Append(ackKtQ, cmd.tag)
  /\ UNCHANGED <<outputVars, trigVars, flushVars, ackVars, ktWriteTagQ, ktWriteReqDone, indications>>

(* A mutant: the count of a flush is carried into the next one.            *)
CountWrittenOn(last) == numKtWritten' = numKtWritten + 1

CountWritten(last) == numKtWritten' = IF last THEN 0 ELSE numKtWritten + 1

handleControllerAckKtMerge2 ==
  LET last == NotEmpty(ktWriteReqDone) /\ numKtWritten = Head(ktWriteReqDone) - 1 IN
  /\ NotEmpty(ackKtQ) /\ NotFull(ktWriteTagQ, KtTags)
  /\ ackKtQ' = Tail(ackKtQ)
  /\ ktWriteTagQ' = Append(ktWriteTagQ, Head(ackKtQ))
  /\ CountWritten(last)
  /\ IF last
     THEN /\ ktWriteReqDone' = Tail(ktWriteReqDone)
          /\ Indicate([name |-> "mergeFlushDone2"])
          /\ busyCompaction' = FALSE
     ELSE UNCHANGED <<ktWriteReqDone, indications, busyCompaction>>
  /\ UNCHANGED <<outputVars, trigVars, flushVars, cardVars>>

-----------------------------------------------------------------------------
(* The rules below those of this file.                                     *)
MergeRule ==
  /\ \/ ListRule /\ UNCHANGED <<mergerVars, refVars, tableVars, invalVars, doneVars>>
     \/ (\E i \in Lists : ReadTable(i)) \/ trigLastPage
     \/ TableRule \/ InvalRule \/ indMergeDone
  /\ UNCHANGED <<trigVars, flushVars, ackVars, cardVars, ktWriteTagQ, ktWriteReqDone, ackKtQ,
                 indications>>

Hardware ==
  \/ issueCompaction \/ issueCompaction2 \/ issueCompaction3
  \/ MergeRule \/ mergeDone \/ driveKtFlashWriteCmd \/ WritePage \/ handleControllerAckKtMerge2
=============================================================================
