------------------------------ MODULE FlashBus ------------------------------
(***************************************************************************)
(* One initialised flash bus: its scoreboard, the state machine of the bus *)
(* controller (BusController.bsv) and the rules of FlashController.bsv     *)
(* that serve the bus, among them the two page buffers through which a     *)
(* page to be written is fetched before the bus asks for it.               *)
(*                                                                         *)
(* The chips and the user are the environment.  A word of data is the tag  *)
(* of the command it belongs to.  A sequence of commands and address       *)
(* bursts for the phy counts as one (cmdCnt is 0 or 1) and takes effect    *)
(* with its last element; the 8 bursts of a word count as one; the error   *)
(* correction passes a word through.  The FIFOs that only relay words and  *)
(* acknowledgements to the user are left out.                              *)
(***************************************************************************)
EXTENDS Scoreboard, Integers

CONSTANTS
  UserCmds,     (* the commands the user may send                          *)
  PageWords,    (* words of a page: 514                                    *)
  EncodeDepth,  (* words that encodeInQ, encoder and encodeOutQ hold       *)
  WriteQDepth   (* of wrDataBufReqQ and wrDataTransReqQ: ChipsPerBus       *)

ASSUME FlashBusAssumption ==
  /\ PageWords \in Nat \ {0, 1} /\ WriteQDepth \in Nat \ {0}
  /\ EncodeDepth \in 1 .. PageWords /\ UserCmds \subseteq FlashCmds

VARIABLES
  state, rdyReturnState, cmdCnt, dataCnt,
  cmdR,                        (* cmdTagR and chipR                        *)
  flashCmdQ, wrDataBufReqQ, wrDataTransReqQ, ackQ,
  readTagQ, rdWdCnt, decodeInQ, decodeInBufQ,
  encodeOutQ,
  writePageBufBack, writePageBufFront, writeWordCnt, writeFetchSt,
  wdataRdyR,                   (* wdataRdyR and wdataRdyTag                *)
  wrState, wdataCnt, wrDataReqQ,
  chip,                        (* chip[c]: what the NAND chip does         *)
  out,                         (* out[t]: what the user knows of tag t     *)
  pending                      (* ghost: what chip c has not begun yet     *)

bcVars    == <<state, rdyReturnState, cmdCnt, dataCnt, cmdR>>
reqVars   == <<wrDataBufReqQ, wrDataTransReqQ>>
readVars  == <<readTagQ, rdWdCnt, decodeInQ, decodeInBufQ>>
fetchVars == <<writePageBufBack, writeWordCnt, writeFetchSt, wrDataReqQ>>
xferVars  == <<wrState, wdataCnt>>
rest      == <<writePageBufFront, wdataRdyR, encodeOutQ>>
vars      == <<sbVars, bcVars, flashCmdQ, reqVars, ackQ, readVars, fetchVars, xferVars,
               rest, chip, out, pending>>

FlashCmdQDepth == 4
AckQDepth      == 16
ReadTagQDepth  == 8
DecodeInDepth  == PageWords + 1
DecodeBufDepth == (PageWords \div 2) + 1

Unused  == [op |-> "NONE", phase |-> "free", left |-> 0]
Idle    == [st |-> "ready", op |-> "NONE", tag |-> NoTag]

Init ==
  /\ SbInit
  /\ state = "IDLE" /\ rdyReturnState = "IDLE" /\ cmdCnt = 0 /\ dataCnt = 0
  /\ cmdR = [tag |-> NoTag, chip |-> 0]
  /\ flashCmdQ = <<>> /\ wrDataBufReqQ = <<>> /\ wrDataTransReqQ = <<>> /\ ackQ = <<>>
  /\ readTagQ = <<>> /\ rdWdCnt = 0 /\ decodeInQ = <<>> /\ decodeInBufQ = <<>>
  /\ encodeOutQ = <<>>
  /\ writePageBufBack = <<>> /\ writePageBufFront = <<>>
  /\ writeWordCnt = 0 /\ writeFetchSt = 0
  /\ wdataRdyR = NotReady
  /\ wrState = 0 /\ wdataCnt = 0 /\ wrDataReqQ = <<>>
  /\ chip = [c \in Chips |-> Idle]
  /\ out = [t \in Tags |-> Unused]
  /\ pending = [c \in Chips |-> <<>>]

-----------------------------------------------------------------------------
(* The scoreboard's own rules, and the way of a command into it.           *)

Scoreboards(rule) ==
  /\ rule
  /\ UNCHANGED <<bcVars, flashCmdQ, reqVars, ackQ, readVars, fetchVars, xferVars, rest,
                 chip, out, pending>>

ChooseChip == Scoreboards(DoChooseChip)
ServiceReq == Scoreboards(DoServiceReq)
BusyTimer(c) == Scoreboards(DecBusyTimer(c))

(* The controller's queue holds a command per tag, so a command the user   *)
(* sends waits there; a tag is used for one command at a time.             *)
DoIdleAcceptCmd(cmd) ==
  /\ out[cmd.tag] = Unused
  /\ NotFull(flashCmdQ, FlashCmdQDepth)
  /\ flashCmdQ' = Append(flashCmdQ, cmd)
  /\ out' = [out EXCEPT ![cmd.tag] =
       [op |-> cmd.op, phase |-> "accepted",
        left |-> IF cmd.op = "ERASE_BLOCK" THEN 0 ELSE PageWords]]
  /\ pending' = [pending EXCEPT ![cmd.chip] = Append(@, [tag |-> cmd.tag, op |-> cmd.op])]
  /\ UNCHANGED <<sbVars, bcVars, reqVars, ackQ, readVars, fetchVars, xferVars, rest, chip>>

DoSBCmd ==
  /\ NotEmpty(flashCmdQ)
  /\ CmdInPut(Head(flashCmdQ))
  /\ flashCmdQ' = Tail(flashCmdQ)
  /\ UNCHANGED <<bcVars, reqVars, ackQ, readVars, fetchVars, xferVars, rest, chip, out, pending>>

-----------------------------------------------------------------------------
(* The state machine of the bus controller.                                *)

NextState ==
  [ READ_CMD             |-> "READ_PAGE_REQ",
    GET_STATUS_READ_DATA |-> "READ_PAGE_WAIT",
    WRITE_DATA_BUF_REQ   |-> "IDLE",
    WRITE_CMD_DATA       |-> "WRITE_PAGE_WAIT",
    ERASE_CMD            |-> "ERASE_BLOCK",
    WRITE_GET_STATUS     |-> "WRITE_GET_STATUS",
    ERASE_GET_STATUS     |-> "ERASE_GET_STATUS" ]

DoDecodeCmd ==
  LET cmd == Head(cmdOutQ) IN
  /\ state = "IDLE"
  /\ CmdOutGet
  /\ state' = NextState[cmd.busOp]
  /\ cmdCnt' = 0 /\ dataCnt' = 0
  /\ rdyReturnState' = "IDLE"
  /\ cmdR' = [tag |-> cmd.tag, chip |-> cmd.chip]
  /\ IF cmd.busOp = "WRITE_DATA_BUF_REQ"
     THEN /\ NotFull(wrDataBufReqQ, WriteQDepth)
          /\ wrDataBufReqQ' = Append(wrDataBufReqQ, cmd.tag)
     ELSE UNCHANGED wrDataBufReqQ
  /\ IF cmd.busOp = "WRITE_CMD_DATA"
     THEN /\ NotFull(wrDataTransReqQ, WriteQDepth)
          /\ wrDataTransReqQ' = Append(wrDataTransReqQ, 1)
     ELSE UNCHANGED wrDataTransReqQ
  /\ UNCHANGED <<flashCmdQ, ackQ, readVars, fetchVars, xferVars, rest, chip, out, pending>>

StatusStates  == {"GET_STATUS", "WRITE_GET_STATUS", "ERASE_GET_STATUS"}
CommandStates == {"READ_PAGE_REQ", "READ_DATA", "WRITE_PAGE", "ERASE_BLOCK"} \union StatusStates

SendPhyCmds ==
  /\ state \in CommandStates /\ cmdCnt = 0
  /\ cmdCnt' = 1
  /\ UNCHANGED <<sbVars, state, rdyReturnState, dataCnt, cmdR, flashCmdQ, reqVars, ackQ,
                 readVars, fetchVars, xferVars, rest, chip, out, pending>>

(* The chip of the command in work starts op; the bus is free again.       *)
StartChip(op) ==
  /\ chip' = [chip EXCEPT ![cmdR.chip] = [st |-> "busy", op |-> op, tag |-> cmdR.tag]]
  /\ pending' = [pending EXCEPT ![cmdR.chip] = Tail(@)]
  /\ state' = "IDLE"
  /\ UNCHANGED <<sbVars, rdyReturnState, cmdCnt, dataCnt, cmdR, flashCmdQ, reqVars, ackQ,
                 readVars, fetchVars, xferVars, rest, out>>

DoReadPageCmdDone == state = "READ_PAGE_REQ" /\ cmdCnt = 1 /\ StartChip("READ_PAGE")

DoEraseBlockPoll == state = "ERASE_BLOCK" /\ cmdCnt = 1 /\ StartChip("ERASE_BLOCK")

DoWriteDone ==
  /\ state = "WRITE_PAGE" /\ cmdCnt = 1 /\ dataCnt = PageWords
  /\ StartChip("WRITE_PAGE")

GoTo(s) ==
  /\ state' = s
  /\ UNCHANGED <<sbVars, cmdR, flashCmdQ, reqVars, ackQ, readVars, fetchVars, xferVars,
                 rest, chip, out, pending>>

DoReadPageWait ==
  /\ state = "READ_PAGE_WAIT"
  /\ rdyReturnState' = "READ_DATA_WAIT_BUF" /\ cmdCnt' = 0 /\ dataCnt' = 0
  /\ GoTo("GET_STATUS")

RoomForPage == decodeInQ = <<>>

DoReadDataWaitBuf ==
  /\ state = "READ_DATA_WAIT_BUF" /\ RoomForPage
  /\ UNCHANGED <<rdyReturnState, cmdCnt, dataCnt>>
  /\ GoTo("READ_DATA")

DoWriteDataWait ==
  /\ state = "WRITE_PAGE_WAIT" /\ ~NotFull(encodeOutQ, EncodeDepth)
  /\ UNCHANGED <<rdyReturnState, cmdCnt, dataCnt>>
  /\ GoTo("WRITE_PAGE")

DoReadDataDone ==
  /\ state = "READ_DATA" /\ cmdCnt = 1 /\ dataCnt = PageWords
  /\ UNCHANGED <<rdyReturnState, cmdCnt, dataCnt>>
  /\ GoTo("IDLE")

(* The phy has a word once it has been told to read; the word is the       *)
(* contents of the chip's page register.                                   *)
DoReadDataDDR ==
  /\ state = "READ_DATA" /\ dataCnt < PageWords
  /\ IF NotFull(decodeInQ, DecodeInDepth)
     THEN /\ cmdCnt = 1
          /\ IF dataCnt = 0
             THEN NotFull(readTagQ, ReadTagQDepth) /\ readTagQ' = Append(readTagQ, cmdR.tag)
             ELSE UNCHANGED readTagQ
          /\ decodeInQ' = Append(decodeInQ, chip[cmdR.chip].tag)
          /\ dataCnt' = dataCnt + 1
          /\ UNCHANGED state
     ELSE /\ state' = "READ_ERROR"
          /\ UNCHANGED <<dataCnt, readTagQ, decodeInQ>>
  /\ UNCHANGED <<sbVars, rdyReturnState, cmdCnt, cmdR, flashCmdQ, reqVars, ackQ,
                 rdWdCnt, decodeInBufQ, fetchVars, xferVars, rest, chip, out, pending>>

(* WRITE_ERROR is taken when the encoder falls behind the phy; that is a   *)
(* matter of cycles, and here the phy waits for the encoder.               *)
DoWritePageDataDDR ==
  /\ state = "WRITE_PAGE" /\ dataCnt < PageWords
  /\ NotEmpty(encodeOutQ)
  /\ encodeOutQ' = Tail(encodeOutQ)
  /\ dataCnt' = dataCnt + 1
  /\ UNCHANGED <<sbVars, state, rdyReturnState, cmdCnt, cmdR, flashCmdQ, reqVars, ackQ,
                 readVars, fetchVars, xferVars, writePageBufFront, wdataRdyR, chip, out, pending>>

(* A page of write data is ready when the front buffer is full.            *)
FrontReady ==
  IF NotFull(writePageBufFront, PageWords) THEN NotReady
  ELSE [rdy |-> TRUE, tag |-> Head(writePageBufFront)]

(* The two registers behind wdataRdy are loaded in every cycle, and the    *)
(* phy needs more than two cycles (t_WHR and the burst) for a status.      *)
RdySettled == wdataRdyR = FrontReady /\ wdataRdy = wdataRdyR

(* A mutant: a busy chip is reported to the scoreboard as ready.           *)
StatusBusyInverted(c) == FALSE

StatusBusy(c) == chip[c].st = "busy"

(* The answer of the chip: busy, ready (E0), or ready and failed (E1).     *)
DoGetStatusData(failed) ==
  LET busy == StatusBusy(cmdR.chip) IN
  /\ state \in StatusStates /\ cmdCnt = 1
  /\ RdySettled
  /\ BusyInPut(cmdR.chip, busy)
  /\ IF busy
     THEN /\ ~failed
          /\ state' = "IDLE" /\ UNCHANGED <<cmdCnt, ackQ>>
     ELSE /\ cmdCnt' = 0 /\ state' = rdyReturnState
          /\ IF state = "GET_STATUS" THEN UNCHANGED ackQ
             ELSE /\ NotFull(ackQ, AckQDepth)
                  /\ ackQ' = Append(ackQ, [tag |-> cmdR.tag, status |->
                       IF state = "WRITE_GET_STATUS" THEN "WRITE_DONE"
                       ELSE IF failed THEN "ERASE_ERROR" ELSE "ERASE_DONE"])
  /\ UNCHANGED <<rdyReturnState, dataCnt, cmdR, flashCmdQ, reqVars, readVars, fetchVars,
                 xferVars, rest, chip, out, pending>>

-----------------------------------------------------------------------------
(* Read data on its way up.                                                *)

DoDecoderDataBuf ==
  /\ NotEmpty(decodeInQ) /\ NotFull(decodeInBufQ, DecodeBufDepth)
  /\ decodeInQ' = Tail(decodeInQ)
  /\ decodeInBufQ' = Append(decodeInBufQ, Head(decodeInQ))
  /\ UNCHANGED <<sbVars, bcVars, flashCmdQ, reqVars, ackQ, readTagQ, rdWdCnt, fetchVars,
                 xferVars, rest, chip, out, pending>>

(* A mutant: the tag of the page is dropped one word too early.            *)
LastReadWordEarly == rdWdCnt >= PageWords - 2

LastReadWord == rdWdCnt >= PageWords - 1

(* The decoder's output, tagged by readWord; the user counts its words.    *)
DoReadDataCollect ==
  LET t == Head(readTagQ)
      left == out[t].left - 1 IN
  /\ NotEmpty(decodeInBufQ) /\ NotEmpty(readTagQ)
  /\ decodeInBufQ' = Tail(decodeInBufQ)
  /\ IF LastReadWord THEN rdWdCnt' = 0 /\ readTagQ' = Tail(readTagQ)
     ELSE rdWdCnt' = rdWdCnt + 1 /\ UNCHANGED readTagQ
  /\ out' = [out EXCEPT ![t] = IF left <= 0 THEN Unused ELSE [@ EXCEPT !.left = left]]
  /\ UNCHANGED <<sbVars, bcVars, flashCmdQ, reqVars, ackQ, decodeInQ, fetchVars,
                 xferVars, rest, chip, pending>>

DoAckStatus ==
  /\ NotEmpty(ackQ)
  /\ ackQ' = Tail(ackQ)
  /\ out' = [out EXCEPT ![Head(ackQ).tag] = Unused]
  /\ UNCHANGED <<sbVars, bcVars, flashCmdQ, reqVars, readVars, fetchVars, xferVars, rest,
                 chip, pending>>

-----------------------------------------------------------------------------
(* Write data on its way down.                                             *)

MayFetch == writePageBufBack = <<>> /\ writeWordCnt = 0 /\ writeFetchSt = 0

DoHandleWriteDataReqFromBus ==
  /\ MayFetch
  /\ NotEmpty(wrDataBufReqQ) /\ NotFull(wrDataReqQ, MkFIFO)
  /\ wrDataBufReqQ' = Tail(wrDataBufReqQ)
  /\ wrDataReqQ' = Append(wrDataReqQ, Head(wrDataBufReqQ))
  /\ writeFetchSt' = 1
  /\ UNCHANGED <<sbVars, bcVars, flashCmdQ, wrDataTransReqQ, ackQ, readVars,
                 writePageBufBack, writeWordCnt, xferVars, rest, chip, out, pending>>

(* The user takes the request and sends the page (writeDataReq).           *)
WriteDataReq ==
  LET t == Head(wrDataReqQ) IN
  /\ NotEmpty(wrDataReqQ)
  /\ wrDataReqQ' = Tail(wrDataReqQ)
  /\ out' = [out EXCEPT ![t].phase = "sending"]
  /\ UNCHANGED <<sbVars, bcVars, flashCmdQ, reqVars, ackQ, readVars,
                 writePageBufBack, writeWordCnt, writeFetchSt, xferVars, rest, chip, pending>>

FetchWaitDue == writeWordCnt = PageWords - 1 /\ writeFetchSt = 1

(* writeWord.  The count stands at its last but one value for at least a   *)
(* cycle, and doWriteFetchWait, which conflicts with nothing, fires in it. *)
WriteWord(t) ==
  /\ out[t].phase = "sending" /\ out[t].left > 0
  /\ NotFull(writePageBufBack, PageWords)
  /\ ~FetchWaitDue
  /\ writePageBufBack' = Append(writePageBufBack, t)
  /\ writeWordCnt' = IF writeWordCnt = PageWords - 1 THEN 0 ELSE writeWordCnt + 1
  /\ out' = [out EXCEPT ![t].left = @ - 1]
  /\ UNCHANGED <<sbVars, bcVars, flashCmdQ, reqVars, ackQ, readVars, writeFetchSt,
                 wrDataReqQ, xferVars, rest, chip, pending>>

DoWriteFetchWait ==
  /\ FetchWaitDue
  /\ writeFetchSt' = 0
  /\ UNCHANGED <<sbVars, bcVars, flashCmdQ, reqVars, ackQ, readVars, writePageBufBack,
                 writeWordCnt, wrDataReqQ, xferVars, rest, chip, out, pending>>

DoWriteBufTransfer ==
  /\ NotEmpty(writePageBufBack) /\ NotFull(writePageBufFront, PageWords)
  /\ writePageBufBack' = Tail(writePageBufBack)
  /\ writePageBufFront' = Append(writePageBufFront, Head(writePageBufBack))
  /\ UNCHANGED <<sbVars, bcVars, flashCmdQ, reqVars, ackQ, readVars, writeWordCnt,
                 writeFetchSt, wrDataReqQ, xferVars, wdataRdyR, encodeOutQ, chip, out, pending>>

(* setWriteDataRdy and setWriteDataReg, which fire together in each cycle. *)
SetWriteDataRdy ==
  /\ ~RdySettled
  /\ wdataRdyR' = FrontReady
  /\ SetWdataRdy(wdataRdyR)
  /\ UNCHANGED <<bcVars, flashCmdQ, reqVars, ackQ, readVars, fetchVars, xferVars,
                 writePageBufFront, encodeOutQ, chip, out, pending>>

DoWriteDataTransferReq ==
  /\ ~NotFull(writePageBufFront, PageWords) /\ wrState = 0
  /\ NotEmpty(wrDataTransReqQ)
  /\ wrDataTransReqQ' = Tail(wrDataTransReqQ)
  /\ wdataCnt' = 0 /\ wrState' = 1
  /\ UNCHANGED <<sbVars, bcVars, flashCmdQ, wrDataBufReqQ, ackQ, readVars, fetchVars,
                 rest, chip, out, pending>>

(* A mutant: the transfer runs one word into the next page.                *)
TransferOverruns == wdataCnt <= PageWords

MoreToTransfer == wdataCnt < PageWords

DoWriteDataTransferToBus ==
  /\ wrState = 1
  /\ IF MoreToTransfer
     THEN /\ NotEmpty(writePageBufFront) /\ NotFull(encodeOutQ, EncodeDepth)
          /\ writePageBufFront' = Tail(writePageBufFront)
          /\ encodeOutQ' = Append(encodeOutQ, Head(writePageBufFront))
          /\ wdataCnt' = wdataCnt + 1
          /\ UNCHANGED wrState
     ELSE /\ wrState' = 0
          /\ UNCHANGED <<wdataCnt, writePageBufFront, encodeOutQ>>
  /\ UNCHANGED <<sbVars, bcVars, flashCmdQ, reqVars, ackQ, readVars, fetchVars,
                 wdataRdyR, chip, out, pending>>

-----------------------------------------------------------------------------
(* The chip finishes what it was told to do.  That the command of its tag  *)
(* has been carried out ("done") is a ghost.                               *)
ChipDone(c) ==
  /\ chip[c].st = "busy"
  /\ chip' = [chip EXCEPT ![c].st = "ready"]
  /\ out' = [out EXCEPT ![chip[c].tag].phase = "done"]
  /\ UNCHANGED <<sbVars, bcVars, flashCmdQ, reqVars, ackQ, readVars, fetchVars, xferVars, rest,
                 pending>>

ScoreboardRule == ChooseChip \/ ServiceReq \/ \E c \in Chips : BusyTimer(c)

BusRule ==
  \/ DoDecodeCmd \/ SendPhyCmds
  \/ DoReadPageCmdDone \/ DoReadPageWait \/ DoReadDataWaitBuf \/ DoReadDataDDR \/ DoReadDataDone
  \/ DoWriteDataWait \/ DoWritePageDataDDR \/ DoWriteDone
  \/ DoEraseBlockPoll
  \/ \E failed \in BOOLEAN : DoGetStatusData(failed)

DataRule ==
  \/ DoDecoderDataBuf \/ DoReadDataCollect \/ DoAckStatus
  \/ DoHandleWriteDataReqFromBus \/ DoWriteFetchWait \/ DoWriteBufTransfer
  \/ SetWriteDataRdy \/ DoWriteDataTransferReq \/ DoWriteDataTransferToBus

Environment ==
  \/ \E cmd \in UserCmds : DoIdleAcceptCmd(cmd)
  \/ WriteDataReq
  \/ \E t \in Tags : WriteWord(t)
  \/ \E c \in Chips : ChipDone(c)

Next == ScoreboardRule \/ DoSBCmd \/ BusRule \/ DataRule \/ Environment

Spec == Init /\ [][Next]_vars
=============================================================================
