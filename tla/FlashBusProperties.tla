------------------------- MODULE FlashBusProperties -------------------------
EXTENDS FlashBus, FiniteSets, TLC

States == {"IDLE", "READ_PAGE_REQ", "READ_PAGE_WAIT", "GET_STATUS", "READ_DATA_WAIT_BUF",
           "READ_DATA", "READ_ERROR", "WRITE_PAGE_WAIT", "WRITE_PAGE", "WRITE_GET_STATUS",
           "ERASE_BLOCK", "ERASE_GET_STATUS"}
Acks   == [tag : Tags, status : {"WRITE_DONE", "ERASE_DONE", "ERASE_ERROR"}]

(* The types of the bus: every register and queue holds only values of its *)
(* kind, and no queue holds more than its depth.                           *)
TypeOK ==
  /\ SbTypeOK
  /\ state \in States /\ rdyReturnState \in {"IDLE", "READ_DATA_WAIT_BUF"}
  /\ cmdCnt \in {0, 1} /\ dataCnt \in 0 .. PageWords
  /\ cmdR \in [tag : Tags \union {NoTag}, chip : Chips]
  /\ flashCmdQ \in Seq(FlashCmds) /\ Len(flashCmdQ) <= FlashCmdQDepth
  /\ wrDataBufReqQ \in Seq(Tags) /\ wrDataReqQ \in Seq(Tags) /\ Len(wrDataReqQ) <= MkFIFO
  /\ wrDataTransReqQ \in Seq({1})
  /\ ackQ \in Seq(Acks) /\ Len(ackQ) <= AckQDepth
  /\ readTagQ \in Seq(Tags) /\ Len(readTagQ) <= ReadTagQDepth
  /\ rdWdCnt \in 0 .. PageWords - 1
  /\ decodeInQ \in Seq(Tags) /\ decodeInBufQ \in Seq(Tags)
  /\ encodeOutQ \in Seq(Tags) /\ Len(encodeOutQ) <= EncodeDepth
  /\ writePageBufBack \in Seq(Tags) /\ writePageBufFront \in Seq(Tags)
  /\ Len(writePageBufFront) <= PageWords /\ Len(writePageBufBack) <= PageWords
  /\ writeWordCnt \in 0 .. PageWords - 1 /\ writeFetchSt \in {0, 1}
  /\ wdataRdyR \in [rdy : {TRUE}, tag : Tags] \union {NotReady}
  /\ wrState \in {0, 1} /\ wdataCnt \in 0 .. PageWords
  /\ chip \in [Chips -> [st : {"ready", "busy"}, op : FlashOps \union {"NONE"},
                         tag : Tags \union {NoTag}]]
  /\ out \in [Tags -> [op : FlashOps \union {"NONE"}, phase : {"free", "accepted", "sending", "done"}, left : 0 .. PageWords]]

(* The page the bus programs is the page of its command: what is in the    *)
(* encoder, and what is still to be transferred from the front buffer,     *)
(* belongs to the tag in cmdTagR, although the buffers are filled in the   *)
(* order of the buffer requests and the commands are issued by polling.    *)
WriteDataMatchesCommand ==
  state \in {"WRITE_PAGE_WAIT", "WRITE_PAGE"} =>
    /\ \A i \in 1 .. Len(encodeOutQ) : encodeOutQ[i] = cmdR.tag
    /\ wrState = 1 =>
         \A i \in 1 .. Len(writePageBufFront) :
           i <= PageWords - wdataCnt => writePageBufFront[i] = cmdR.tag

(* The tags readWord puts on the words that leave the decoder are those of *)
(* the commands the words were read for: the queue of tags, one for a      *)
(* page, and the words behind it never drift apart. And doReadDataDDR never *)
(* finds decodeInQ full: waiting until it is empty before a page makes room *)
(* for the whole page.                                                     *)
ReadWordsArrive ==
  /\ state # "READ_ERROR"
  /\ LET words == decodeInBufQ \o decodeInQ IN
     \A i \in 1 .. Len(words) :
       LET page == 1 + (rdWdCnt + i - 1) \div PageWords IN
       page <= Len(readTagQ) /\ words[i] = readTagQ[page]

(* The bus never addresses a chip that is busy with anything but a poll,   *)
(* and while it reads the data out the chip holds the page of the command, *)
(* in spite of the commands queued behind it for the same chip.            *)
ChipsNotDisturbed ==
  /\ state \in {"READ_PAGE_REQ", "WRITE_PAGE", "ERASE_BLOCK"} => chip[cmdR.chip].st = "ready"
  /\ state \in {"READ_DATA_WAIT_BUF", "READ_DATA"} =>
       chip[cmdR.chip] = [st |-> "ready", op |-> "READ_PAGE", tag |-> cmdR.tag]

PollOps == {"GET_STATUS_READ_DATA", "WRITE_GET_STATUS", "ERASE_GET_STATUS"}

PollsQueued(c) ==
  Cardinality({i \in 1 .. Len(cmdOutQ) : cmdOutQ[i].chip = c /\ cmdOutQ[i].busOp \in PollOps})

PollInWork(c) ==
  cmdR.chip = c /\ state \in StatusStates \union {"READ_PAGE_WAIT"}

(* A chip's stage waits for a status exactly while one poll of that chip   *)
(* is queued, in work or answered: no answer is left over for the poll of  *)
(* a later command, and none that the scoreboard blocks on is missing.     *)
PollsAreAnswered ==
  \A c \in Chips :
    PollsQueued(c) + (IF PollInWork(c) THEN 1 ELSE 0) + Len(chipBusy[c])
      = IF chipStages[c] \in {"RD_DATA", "WAIT_STATUS"} THEN 1 ELSE 0

(* Chips are left alone while they work, and asked once for the result.    *)
ChipsArePolled == ChipsNotDisturbed /\ PollsAreAnswered

Order == INSTANCE ChipOrderSpec WITH
  Ops <- FlashOps,
  owed <- [t \in Tags |-> IF out[t].phase \in {"accepted", "sending"} THEN "owed"
                          ELSE out[t].phase]

(* The bus keeps the promise of ChipOrderSpec: a chip does its commands in *)
(* the order in which they were accepted and none is answered early.       *)
ImplementsOrder == Order!Spec

-----------------------------------------------------------------------------
(* Fairness: a rule that stays enabled fires (the schedule of the rules is *)
(* static), the user takes requests, words and answers and sends the pages *)
(* asked for, and a chip finishes what it does.  New commands need not     *)
(* come.                                                                   *)
FairSpec ==
  /\ Spec
  /\ WF_vars(ChooseChip) /\ WF_vars(ServiceReq)
  /\ \A c \in Chips : WF_vars(BusyTimer(c)) /\ WF_vars(ChipDone(c))
  /\ WF_vars(DoSBCmd) /\ WF_vars(BusRule)
  /\ WF_vars(DoDecoderDataBuf) /\ WF_vars(DoReadDataCollect) /\ WF_vars(DoAckStatus)
  /\ WF_vars(DoHandleWriteDataReqFromBus) /\ WF_vars(DoWriteFetchWait)
  /\ WF_vars(DoWriteBufTransfer) /\ WF_vars(SetWriteDataRdy)
  /\ WF_vars(DoWriteDataTransferReq) /\ WF_vars(DoWriteDataTransferToBus)
  /\ WF_vars(WriteDataReq) /\ \A t \in Tags : WF_vars(WriteWord(t))

(* Every command that is accepted is answered: no command, poll or page    *)
(* buffer makes the round of the chips wait for ever.                      *)
CommandsAnswered == \A t \in Tags : out[t].phase # "free" ~> out[t].phase = "free"

-----------------------------------------------------------------------------
(* The instances that are checked: two chips, two tags, pages of two words. *)
Symmetry == Permutations(Tags)

(* Reads and writes of either chip.                                        *)
ReadWrite == [tag : Tags, op : {"READ_PAGE", "WRITE_PAGE"}, chip : Chips]

(* Tag 0 erases chip 0 and reads chip 1, which tag 1 writes.               *)
Contending == {cmd \in FlashCmds : \/ cmd.tag = 0 /\ cmd.op = "READ_PAGE" /\ cmd.chip = 1
                                   \/ cmd.tag = 0 /\ cmd.op = "ERASE_BLOCK" /\ cmd.chip = 0
                                   \/ cmd.tag = 1 /\ cmd.op = "WRITE_PAGE" /\ cmd.chip = 1}
=============================================================================
