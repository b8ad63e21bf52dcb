--------------------------- MODULE FlashBus_proofs ---------------------------
(***************************************************************************)
(* Proofs about one flash bus.  How a command travels - from the queue of  *)
(* its chip through the scoreboard's queue to the state machine of the bus *)
(* and to the chip, and back as the answer to a poll - is described by     *)
(* Control; what lies between the decoder and the user by ReadsFit.  The   *)
(* parts are kept together, because the pages read are those of the        *)
(* commands that Control puts on the bus.                                  *)
(*                                                                         *)
(* The second half proves that the bus keeps the order of the commands of  *)
(* a chip and programs the page of the command. Three descriptions are     *)
(* added to the invariant: where a command that is not begun stands        *)
(* (Positions), that a tag stands for one command at a time (Owners), and  *)
(* what the buffers of the write path hold (WriteFits).                    *)
(***************************************************************************)
EXTENDS FlashBusProperties, QueueLemmas

-----------------------------------------------------------------------------
(* The way of a command.                                                   *)

StartOps    == {"READ_CMD", "WRITE_CMD_DATA", "ERASE_CMD"}
StartStates == {"READ_PAGE_REQ", "WRITE_PAGE_WAIT", "WRITE_PAGE", "ERASE_BLOCK"}
PollStates  == StatusStates \union {"READ_PAGE_WAIT"}
DataStates  == {"READ_DATA_WAIT_BUF", "READ_DATA"}
Issued      == {"RD_ISSUED", "WR_ISSUED", "ER_ISSUED"}
Polled      == {"RD_DATA", "WAIT_STATUS"}

(* The user's operation a command for the bus is a step of, and the one    *)
(* the state machine is at work for.                                       *)
OpOfBusOp ==
  [ READ_CMD |-> "READ_PAGE", GET_STATUS_READ_DATA |-> "READ_PAGE",
    WRITE_DATA_BUF_REQ |-> "WRITE_PAGE", WRITE_CMD_DATA |-> "WRITE_PAGE",
    WRITE_GET_STATUS |-> "WRITE_PAGE",
    ERASE_CMD |-> "ERASE_BLOCK", ERASE_GET_STATUS |-> "ERASE_BLOCK" ]
OpOfState ==
  [ READ_PAGE_REQ |-> "READ_PAGE", READ_PAGE_WAIT |-> "READ_PAGE", GET_STATUS |-> "READ_PAGE",
    WRITE_PAGE_WAIT |-> "WRITE_PAGE", WRITE_PAGE |-> "WRITE_PAGE",
    WRITE_GET_STATUS |-> "WRITE_PAGE",
    ERASE_BLOCK |-> "ERASE_BLOCK", ERASE_GET_STATUS |-> "ERASE_BLOCK" ]

Starts(c) == {x \in BusCmds : x.chip = c /\ x.busOp \in StartOps}
Polls(c)  == {x \in BusCmds : x.chip = c /\ x.busOp \in PollOps}

(* Commands that start chip c, or poll it, queued or in work.              *)
StartInWork(c) == cmdR.chip = c /\ state \in StartStates
nStart(c) == CountIn(cmdOutQ, Starts(c)) + (IF StartInWork(c) THEN 1 ELSE 0)
nPoll(c)  == CountIn(cmdOutQ, Polls(c)) + (IF PollInWork(c) THEN 1 ELSE 0)

Finished(c) == chipBusy[c] = <<FALSE>>

(* Chip c has begun the command at the head of its queue, and the answer   *)
(* that it has finished has not come.                                      *)
Begun(c) ==
  chipStages[c] \in Issued \union Polled /\ nStart(c) = 0 /\ ~Finished(c)

StartsFit(c) ==
  \/ nStart(c) = 0
  \/ nStart(c) = 1 /\ chipStages[c] \in Issued \union Polled /\ chipBusy[c] = <<>>

PollsFit(c) ==
  nPoll(c) + Len(chipBusy[c]) = IF chipStages[c] \in Polled THEN 1 ELSE 0

(* A chip whose head command is not begun has nothing in the bus's queue.  *)
Quiet(c) ==
  chipStages[c] = "INIT" => \A i \in 1 .. Len(cmdOutQ) : cmdOutQ[i].chip # c

(* What is queued for the chip comes after what is in work for it.         *)
WorkFirst(c) ==
  \A i \in 1 .. Len(cmdOutQ) : cmdOutQ[i].chip = c =>
    /\ StartInWork(c) => cmdOutQ[i].busOp \in PollOps
    /\ ~PollInWork(c) /\ chipBusy[c] = <<>>

InStage(c) == chipStages[c] # "INIT" => chipQs[c] # <<>>

ChipFits(c) ==
  /\ Begun(c) => chip[c].tag = Head(chipQs[c]).tag /\ chip[c].op = Head(chipQs[c]).op
  /\ ~Begun(c) => chip[c].st = "ready"

OfChip(c) == \A i \in 1 .. Len(chipQs[c]) : chipQs[c][i].chip = c

ChipControl(c) ==
  StartsFit(c) /\ PollsFit(c) /\ Quiet(c) /\ WorkFirst(c) /\ InStage(c) /\ ChipFits(c)
    /\ OfChip(c)

(* A command x of the bus is a step of the first command of its chip.      *)
StepOfHead(x) ==
  /\ chipQs[x.chip] # <<>>
  /\ Head(chipQs[x.chip]).tag = x.tag /\ Head(chipQs[x.chip]).op = OpOfBusOp[x.busOp]

QueuedFit == \A i \in 1 .. Len(cmdOutQ) : StepOfHead(cmdOutQ[i])

(* Of the commands for one chip the request for data comes before the      *)
(* start, and the start before the poll.                                   *)
InOrder ==
  \A i, j \in 1 .. Len(cmdOutQ) : cmdOutQ[i].chip = cmdOutQ[j].chip /\ i < j
      /\ cmdOutQ[i].busOp \in StartOps \union PollOps => cmdOutQ[j].busOp \in PollOps

InWorkFits ==
  /\ state \in StartStates \union PollStates =>
       /\ chipQs[cmdR.chip] # <<>>
       /\ Head(chipQs[cmdR.chip]).tag = cmdR.tag
       /\ Head(chipQs[cmdR.chip]).op = OpOfState[state]
  /\ state # "IDLE" => cmdR.tag \in Tags
  /\ state = "GET_STATUS" => rdyReturnState = "READ_DATA_WAIT_BUF"
  /\ state \in {"WRITE_GET_STATUS", "ERASE_GET_STATUS"} => rdyReturnState = "IDLE"

(* While its page is read out the chip of the command has not begun        *)
(* another command.                                                        *)
DataFits ==
  state \in DataStates =>
    /\ ~Begun(cmdR.chip)
    /\ chip[cmdR.chip].op = "READ_PAGE" /\ chip[cmdR.chip].tag = cmdR.tag

Control ==
  (\A c \in Chips : ChipControl(c)) /\ QueuedFit /\ InOrder /\ InWorkFits /\ DataFits

ctlVars == <<chipQs, chipBusy, chipStages, cmdOutQ, state, rdyReturnState, cmdR, chip>>

-----------------------------------------------------------------------------
(* The pages on their way to the user: what was read, without what was     *)
(* delivered, is one page for each tag that waits, the last one perhaps    *)
(* not complete.                                                           *)
PageOpen == state = "READ_DATA" /\ dataCnt \in 1 .. PageWords - 1

Words == decodeInBufQ \o decodeInQ

WordsCount ==
  rdWdCnt + Len(Words) =
    IF PageOpen THEN PageWords * (Len(readTagQ) - 1) + dataCnt
    ELSE PageWords * Len(readTagQ)

(* The words w belong to pages of n words with the tags q; d words of the  *)
(* first page are gone.                                                    *)
InPages(w, q, d, n) ==
  \A i \in 1 .. Len(w), p \in 1 .. Len(q) :
    n * (p - 1) <= d + i - 1 /\ d + i - 1 < n * p => w[i] = q[p]

WordsMatch == InPages(Words, readTagQ, rdWdCnt, PageWords)

ReadsFit ==
  /\ state # "READ_ERROR"
  /\ WordsCount /\ WordsMatch
  /\ PageOpen => Len(readTagQ) > 0 /\ readTagQ[Len(readTagQ)] = cmdR.tag
  /\ state = "READ_DATA" => Len(decodeInQ) <= dataCnt
  /\ state \in {"READ_PAGE_WAIT", "GET_STATUS", "READ_DATA_WAIT_BUF"} => dataCnt = 0

Inv == TypeOK /\ Control /\ ReadsFit

-----------------------------------------------------------------------------
(* The types.                                                              *)

(* The types of the scoreboard alone are kept by its own rules.            *)
LEMMA ServiceTypes ==
  ASSUME SbTypeOK, DoServiceReq
  PROVE  SbTypeOK'
<1> DEFINE c == currChip
<1> USE ScoreboardAssumption
<1>1. /\ c \in Chips /\ chipQs \in [Chips -> Seq(FlashCmds)] /\ chipQs[c] \in Seq(FlashCmds)
      /\ chipBusy \in [Chips -> Seq(BOOLEAN)] /\ chipBusy[c] \in Seq(BOOLEAN)
      /\ busyTimers \in [Chips -> 0 .. BusyTime] /\ busyTimers[c] \in 0 .. BusyTime
      /\ chipStages \in [Chips -> Stages] /\ cmdOutQ \in Seq(BusCmds)
      /\ NotEmpty(chipQs[c])
  BY DEF SbTypeOK, DoServiceReq
<1>2. Head(chipQs[c]) \in FlashCmds /\ Tail(chipQs[c]) \in Seq(FlashCmds)
  BY <1>1, Dequeued
<1>3. ASSUME NEW op, NEW from, NEW busOp \in BusOps, NEW to \in Stages,
             NEW timer \in 0 .. BusyTime, Issue(c, op, from, busOp, to, timer)
      PROVE  /\ chipQs' \in [Chips -> Seq(FlashCmds)]
             /\ chipBusy' \in [Chips -> Seq(BOOLEAN)]
             /\ busyTimers' \in [Chips -> 0 .. BusyTime]
             /\ chipStages' \in [Chips -> Stages]
             /\ cmdOutQ' \in Seq(BusCmds)
  <2>1. [tag |-> Head(chipQs[c]).tag, chip |-> Head(chipQs[c]).chip, busOp |-> busOp] \in BusCmds
    BY <1>2 DEF FlashCmds, BusCmds
  <2>2. cmdOutQ' \in Seq(BusCmds)
    BY <1>1, <1>3, <2>1, Enqueued DEF Issue
  <2> QED
    BY <1>1, <1>3, <2>2 DEF Issue
<1>4. ASSUME NEW op, NEW from, NEW poll \in Stages, TakeStatus(c, op, from, poll)
      PROVE  /\ chipQs' \in [Chips -> Seq(FlashCmds)]
             /\ chipBusy' \in [Chips -> Seq(BOOLEAN)]
             /\ busyTimers' \in [Chips -> 0 .. BusyTime]
             /\ chipStages' \in [Chips -> Stages]
             /\ cmdOutQ' \in Seq(BusCmds)
  <2>1. Tail(chipBusy[c]) \in Seq(BOOLEAN)
    BY <1>1, <1>4, Dequeued DEF TakeStatus
  <2>2. /\ chipQs' = chipQs \/ chipQs' = [chipQs EXCEPT ![c] = Tail(@)]
        /\ chipBusy' = [chipBusy EXCEPT ![c] = Tail(@)]
        /\ busyTimers' = busyTimers \/ busyTimers' = [busyTimers EXCEPT ![c] = BusyTime]
        /\ chipStages' = [chipStages EXCEPT ![c] = poll]
             \/ chipStages' = [chipStages EXCEPT ![c] = "INIT"]
        /\ cmdOutQ' = cmdOutQ
    BY <1>4 DEF TakeStatus, TakeAnswer
  <2>3. chipQs' \in [Chips -> Seq(FlashCmds)]
    BY <1>1, <1>2, <2>2
  <2>4. chipBusy' \in [Chips -> Seq(BOOLEAN)]
    BY <1>1, <2>1, <2>2
  <2>5. busyTimers' \in [Chips -> 0 .. BusyTime]
    <3>1. BusyTime \in 0 .. BusyTime
      OBVIOUS
    <3> HIDE DEF c
    <3> QED
      BY <1>1, <2>2, <3>1
  <2>6. chipStages' \in [Chips -> Stages]
    BY <1>1, <2>2 DEF Stages
  <2> QED
    BY <1>1, <2>2, <2>3, <2>4, <2>5, <2>6
<1>5. /\ chipQs' \in [Chips -> Seq(FlashCmds)]
      /\ chipBusy' \in [Chips -> Seq(BOOLEAN)]
      /\ busyTimers' \in [Chips -> 0 .. BusyTime]
      /\ chipStages' \in [Chips -> Stages]
      /\ cmdOutQ' \in Seq(BusCmds)
  <2>1. BusyTime \in 0 .. BusyTime /\ 0 \in 0 .. BusyTime
    OBVIOUS
  <2>2. CASE AwaitWriteData(c)
    BY <1>1, <2>2 DEF AwaitWriteData
  <2> QED
    BY <1>1, <1>3, <1>4, <2>1, <2>2 DEF DoServiceReq, Stages, BusOps
<1>6. NextChip(c) \in Chips
  BY <1>1 DEF NextChip, Chips
<1> QED
  BY <1>5, <1>6 DEF SbTypeOK, DoServiceReq

(* A bounded queue stays within its bound.                                 *)
LEMMA Put ==
  ASSUME NEW S, NEW q \in Seq(S), NEW x \in S, NEW d \in Nat, Len(q) < d
  PROVE  Append(q, x) \in Seq(S) /\ Len(Append(q, x)) <= d
  BY AppendProperties, LenProperties

(* So does one from which an element is taken.                             *)
LEMMA Took ==
  ASSUME NEW S, NEW q \in Seq(S), NotEmpty(q), NEW d, Len(q) <= d, d \in Nat
  PROVE  Tail(q) \in Seq(S) /\ Len(Tail(q)) <= d
  BY Dequeued

OutValues ==
  [op : FlashOps \union {"NONE"}, phase : {"free", "accepted", "sending", "done"},
   left : 0 .. PageWords]

(* The rules keep the types.                                               *)
LEMMA TypesKept ==
  ASSUME TypeOK, Control, [Next]_vars
  PROVE  TypeOK'
<1> USE FlashBusAssumption, ScoreboardAssumption
<1>0. CASE UNCHANGED vars
  BY <1>0 DEF TypeOK, SbTypeOK, vars, sbVars, bcVars, reqVars, readVars, fetchVars,
     xferVars, rest
<1>1. CASE ChooseChip
  <2>1. UNCHANGED <<
      chipQs, chipBusy, busyTimers, chipStages, cmdOutQ, wdataRdy, state,
      rdyReturnState, cmdCnt, dataCnt, cmdR, flashCmdQ, wrDataBufReqQ, wrDataReqQ,
      wrDataTransReqQ, ackQ, readTagQ, rdWdCnt, decodeInQ, decodeInBufQ, encodeOutQ,
      writePageBufBack, writePageBufFront, writeWordCnt, writeFetchSt, wdataRdyR,
      wrState, wdataCnt, chip, out>>
    BY <1>1 DEF ChooseChip, Scoreboards, DoChooseChip, sbVars, bcVars, reqVars, readVars,
       fetchVars, xferVars, rest
  <2>2. currChip' \in Chips
    <3>1. /\ currChip \in Chips
          /\ currChip' = currChip \/ currChip' = NextChip(currChip)
      BY <1>1 DEF TypeOK, SbTypeOK, ChooseChip, Scoreboards, DoChooseChip
    <3> QED
      BY <3>1 DEF NextChip, Chips
  <2>3. sbState' \in {"NEXT_REQ", "SERVICE_REQ"}
    BY <1>1 DEF TypeOK, SbTypeOK, ChooseChip, Scoreboards, DoChooseChip, NextChip, Chips
  <2> QED
    BY <2>1, <2>2, <2>3 DEF TypeOK, SbTypeOK
<1>2. CASE ServiceReq
  BY <1>2, ServiceTypes DEF TypeOK, ServiceReq, Scoreboards, bcVars, reqVars, readVars,
     fetchVars, xferVars, rest
<1>3. ASSUME NEW c \in Chips, BusyTimer(c) PROVE TypeOK'
  <2>1. UNCHANGED <<
      chipQs, chipBusy, chipStages, cmdOutQ, currChip, sbState, wdataRdy, state,
      rdyReturnState, cmdCnt, dataCnt, cmdR, flashCmdQ, wrDataBufReqQ, wrDataReqQ,
      wrDataTransReqQ, ackQ, readTagQ, rdWdCnt, decodeInQ, decodeInBufQ, encodeOutQ,
      writePageBufBack, writePageBufFront, writeWordCnt, writeFetchSt, wdataRdyR,
      wrState, wdataCnt, chip, out>>
    BY <1>3 DEF BusyTimer, Scoreboards, DecBusyTimer, sbVars, bcVars, reqVars, readVars,
       fetchVars, xferVars, rest
  <2>2. busyTimers' \in [Chips -> 0 .. BusyTime]
    <3>1. /\ busyTimers \in [Chips -> 0 .. BusyTime]
          /\ busyTimers[c] \in 0 .. BusyTime /\ busyTimers[c] > 0
          /\ busyTimers' = [busyTimers EXCEPT ![c] = busyTimers[c] - 1]
      BY <1>3 DEF TypeOK, SbTypeOK, BusyTimer, Scoreboards, DecBusyTimer
    <3> QED
      BY <3>1
  <2> QED
    BY <2>1, <2>2 DEF TypeOK, SbTypeOK
<1>4. CASE DoSBCmd
  <2>1. UNCHANGED <<
      chipBusy, busyTimers, chipStages, cmdOutQ, currChip, sbState, wdataRdy, state,
      rdyReturnState, cmdCnt, dataCnt, cmdR, wrDataBufReqQ, wrDataReqQ,
      wrDataTransReqQ, ackQ, readTagQ, rdWdCnt, decodeInQ, decodeInBufQ, encodeOutQ,
      writePageBufBack, writePageBufFront, writeWordCnt, writeFetchSt, wdataRdyR,
      wrState, wdataCnt, chip, out>>
    BY <1>4 DEF DoSBCmd, CmdInPut, sbVars, bcVars, reqVars, readVars, fetchVars, xferVars, rest
  <2>2. chipQs' \in [Chips -> Seq(FlashCmds)]
    <3>1. /\ chipQs \in [Chips -> Seq(FlashCmds)]
          /\ flashCmdQ \in Seq(FlashCmds) /\ NotEmpty(flashCmdQ)
          /\ chipQs' = [chipQs EXCEPT ![Head(flashCmdQ).chip] =
                          Append(chipQs[Head(flashCmdQ).chip], Head(flashCmdQ))]
      BY <1>4 DEF TypeOK, SbTypeOK, DoSBCmd, CmdInPut
    <3>2. PICK x \in FlashCmds : x = Head(flashCmdQ)
      BY <3>1, Dequeued
    <3>3. x.chip \in Chips
      BY DEF FlashCmds
    <3>4. Append(chipQs[x.chip], x) \in Seq(FlashCmds)
      BY <3>1, <3>3, AppendProperties
    <3> QED
      BY <3>1, <3>2, <3>3, <3>4
  <2>3. flashCmdQ' \in Seq(FlashCmds) /\ Len(flashCmdQ') <= FlashCmdQDepth
    <3>1. /\ flashCmdQ \in Seq(FlashCmds) /\ NotEmpty(flashCmdQ) /\ Len(flashCmdQ) <= FlashCmdQDepth
          /\ flashCmdQ' = Tail(flashCmdQ)
      BY <1>4 DEF TypeOK, SbTypeOK, DoSBCmd, CmdInPut
    <3> QED
      BY <3>1, Took DEF FlashCmdQDepth, AckQDepth, MkFIFO
  <2> QED
    BY <2>1, <2>2, <2>3 DEF TypeOK, SbTypeOK
<1>5. CASE DoDecodeCmd
  <2>1. UNCHANGED <<
      chipQs, chipBusy, busyTimers, chipStages, currChip, sbState, wdataRdy, flashCmdQ,
      wrDataReqQ, ackQ, readTagQ, rdWdCnt, decodeInQ, decodeInBufQ, encodeOutQ,
      writePageBufBack, writePageBufFront, writeWordCnt, writeFetchSt, wdataRdyR,
      wrState, wdataCnt, chip, out>>
    BY <1>5 DEF DoDecodeCmd, CmdOutGet, sbVars, bcVars, reqVars, readVars, fetchVars,
       xferVars, rest
  <2>2. cmdOutQ' \in Seq(BusCmds)
    BY <1>5, Enqueued, Dequeued DEF TypeOK, SbTypeOK, DoDecodeCmd, CmdOutGet, NextState,
       BusCmds, BusOps, States
  <2>3. state' \in States
    <3>1. cmdOutQ \in Seq(BusCmds) /\ NotEmpty(cmdOutQ) /\ state' = NextState[Head(cmdOutQ).busOp]
      BY <1>5 DEF TypeOK, SbTypeOK, DoDecodeCmd, CmdOutGet
    <3>2. PICK x \in BusCmds : x = Head(cmdOutQ)
      BY <3>1, Dequeued
    <3>3. x.tag \in Tags /\ x.chip \in Chips /\ x.busOp \in BusOps
      BY DEF BusCmds
    <3> QED
      BY <3>1, <3>2, <3>3 DEF NextState, BusOps, States
  <2>4. rdyReturnState' \in {"IDLE", "READ_DATA_WAIT_BUF"}
    BY <1>5 DEF TypeOK, SbTypeOK, DoDecodeCmd, CmdOutGet, NextState, BusCmds, BusOps, States
  <2>5. cmdCnt' \in {0, 1}
    BY <1>5 DEF TypeOK, SbTypeOK, DoDecodeCmd, CmdOutGet, NextState, BusCmds, BusOps, States
  <2>6. dataCnt' \in 0 .. PageWords
    BY <1>5 DEF TypeOK, SbTypeOK, DoDecodeCmd, CmdOutGet, NextState, BusCmds, BusOps, States
  <2>7. cmdR' \in [tag : Tags \union {NoTag}, chip : Chips]
    <3>1. /\ cmdOutQ \in Seq(BusCmds) /\ NotEmpty(cmdOutQ)
          /\ cmdR' = [tag |-> Head(cmdOutQ).tag, chip |-> Head(cmdOutQ).chip]
      BY <1>5 DEF TypeOK, SbTypeOK, DoDecodeCmd, CmdOutGet
    <3>2. PICK x \in BusCmds : x = Head(cmdOutQ)
      BY <3>1, Dequeued
    <3>3. x.tag \in Tags /\ x.chip \in Chips /\ x.busOp \in BusOps
      BY DEF BusCmds
    <3> QED
      BY <3>1, <3>2, <3>3
  <2>8. wrDataBufReqQ' \in Seq(Tags)
    <3>1. /\ cmdOutQ \in Seq(BusCmds) /\ NotEmpty(cmdOutQ) /\ wrDataBufReqQ \in Seq(Tags)
          /\ \/ wrDataBufReqQ' = wrDataBufReqQ
             \/ wrDataBufReqQ' = Append(wrDataBufReqQ, Head(cmdOutQ).tag)
      BY <1>5 DEF TypeOK, SbTypeOK, DoDecodeCmd, CmdOutGet
    <3>2. PICK x \in BusCmds : x = Head(cmdOutQ)
      BY <3>1, Dequeued
    <3>3. x.tag \in Tags /\ x.chip \in Chips /\ x.busOp \in BusOps
      BY DEF BusCmds
    <3> QED
      BY <3>1, <3>2, <3>3, AppendProperties
  <2>9. wrDataTransReqQ' \in Seq({1})
    <3>1. /\ wrDataTransReqQ \in Seq({1})
          /\ wrDataTransReqQ' = wrDataTransReqQ \/ wrDataTransReqQ' = Append(wrDataTransReqQ, 1)
      BY <1>5 DEF TypeOK, SbTypeOK, DoDecodeCmd, CmdOutGet
    <3> QED
      BY <3>1, AppendProperties
  <2> QED
    BY <2>1, <2>2, <2>3, <2>4, <2>5, <2>6, <2>7, <2>8, <2>9 DEF TypeOK, SbTypeOK
<1>6. CASE SendPhyCmds
  <2>1. UNCHANGED <<
      chipQs, chipBusy, busyTimers, chipStages, cmdOutQ, currChip, sbState, wdataRdy,
      state, rdyReturnState, dataCnt, cmdR, flashCmdQ, wrDataBufReqQ, wrDataReqQ,
      wrDataTransReqQ, ackQ, readTagQ, rdWdCnt, decodeInQ, decodeInBufQ, encodeOutQ,
      writePageBufBack, writePageBufFront, writeWordCnt, writeFetchSt, wdataRdyR,
      wrState, wdataCnt, chip, out>>
    BY <1>6 DEF SendPhyCmds, sbVars, bcVars, reqVars, readVars, fetchVars, xferVars, rest
  <2>2. cmdCnt' \in {0, 1}
    BY <1>6 DEF TypeOK, SbTypeOK, SendPhyCmds
  <2> QED
    BY <2>1, <2>2 DEF TypeOK, SbTypeOK
<1>7. CASE DoReadPageCmdDone
  <2>1. UNCHANGED <<
      chipQs, chipBusy, busyTimers, chipStages, cmdOutQ, currChip, sbState, wdataRdy,
      rdyReturnState, cmdCnt, dataCnt, cmdR, flashCmdQ, wrDataBufReqQ, wrDataReqQ,
      wrDataTransReqQ, ackQ, readTagQ, rdWdCnt, decodeInQ, decodeInBufQ, encodeOutQ,
      writePageBufBack, writePageBufFront, writeWordCnt, writeFetchSt, wdataRdyR,
      wrState, wdataCnt, out>>
    BY <1>7 DEF DoReadPageCmdDone, StartChip, sbVars, bcVars, reqVars, readVars, fetchVars,
       xferVars, rest
  <2>2. chip' \in [Chips -> [st : {"ready", "busy"}, op : FlashOps \union {"NONE"},
                   tag : Tags \union {NoTag}]]
    BY <1>7 DEF TypeOK, SbTypeOK, DoReadPageCmdDone, StartChip, States, FlashOps
  <2>3. state' \in States
    BY <1>7 DEF TypeOK, SbTypeOK, DoReadPageCmdDone, StartChip, States, FlashOps
  <2> QED
    BY <2>1, <2>2, <2>3 DEF TypeOK, SbTypeOK
<1>8. CASE DoReadPageWait
  <2>1. UNCHANGED <<
      chipQs, chipBusy, busyTimers, chipStages, cmdOutQ, currChip, sbState, wdataRdy,
      cmdR, flashCmdQ, wrDataBufReqQ, wrDataReqQ, wrDataTransReqQ, ackQ, readTagQ,
      rdWdCnt, decodeInQ, decodeInBufQ, encodeOutQ, writePageBufBack,
      writePageBufFront, writeWordCnt, writeFetchSt, wdataRdyR, wrState, wdataCnt,
      chip, out>>
    BY <1>8 DEF DoReadPageWait, GoTo, sbVars, bcVars, reqVars, readVars, fetchVars,
       xferVars, rest
  <2>2. state' \in States
    BY <1>8 DEF TypeOK, SbTypeOK, DoReadPageWait, GoTo, States
  <2>3. rdyReturnState' \in {"IDLE", "READ_DATA_WAIT_BUF"}
    BY <1>8 DEF TypeOK, SbTypeOK, DoReadPageWait, GoTo, States
  <2>4. cmdCnt' \in {0, 1}
    BY <1>8 DEF TypeOK, SbTypeOK, DoReadPageWait, GoTo, States
  <2>5. dataCnt' \in 0 .. PageWords
    BY <1>8 DEF TypeOK, SbTypeOK, DoReadPageWait, GoTo, States
  <2> QED
    BY <2>1, <2>2, <2>3, <2>4, <2>5 DEF TypeOK, SbTypeOK
<1>9. CASE DoReadDataWaitBuf
  <2>1. UNCHANGED <<
      chipQs, chipBusy, busyTimers, chipStages, cmdOutQ, currChip, sbState, wdataRdy,
      rdyReturnState, cmdCnt, dataCnt, cmdR, flashCmdQ, wrDataBufReqQ, wrDataReqQ,
      wrDataTransReqQ, ackQ, readTagQ, rdWdCnt, decodeInQ, decodeInBufQ, encodeOutQ,
      writePageBufBack, writePageBufFront, writeWordCnt, writeFetchSt, wdataRdyR,
      wrState, wdataCnt, chip, out>>
    BY <1>9 DEF DoReadDataWaitBuf, GoTo, sbVars, bcVars, reqVars, readVars, fetchVars,
       xferVars, rest
  <2>2. state' \in States
    BY <1>9 DEF TypeOK, SbTypeOK, DoReadDataWaitBuf, GoTo, States
  <2> QED
    BY <2>1, <2>2 DEF TypeOK, SbTypeOK
<1>10. CASE DoReadDataDDR
  <2>1. UNCHANGED <<
      chipQs, chipBusy, busyTimers, chipStages, cmdOutQ, currChip, sbState, wdataRdy,
      rdyReturnState, cmdCnt, cmdR, flashCmdQ, wrDataBufReqQ, wrDataReqQ,
      wrDataTransReqQ, ackQ, rdWdCnt, decodeInBufQ, encodeOutQ, writePageBufBack,
      writePageBufFront, writeWordCnt, writeFetchSt, wdataRdyR, wrState, wdataCnt,
      chip, out>>
    BY <1>10 DEF DoReadDataDDR, sbVars, bcVars, reqVars, readVars, fetchVars, xferVars, rest
  <2>2. state' \in States
    BY <1>10 DEF TypeOK, SbTypeOK, DoReadDataDDR, States
  <2>3. dataCnt' \in 0 .. PageWords
    <3>1. /\ dataCnt \in 0 .. PageWords /\ dataCnt < PageWords
          /\ dataCnt' = dataCnt \/ dataCnt' = dataCnt + 1
      BY <1>10 DEF TypeOK, SbTypeOK, DoReadDataDDR
    <3> QED
      BY <3>1
  <2>4. readTagQ' \in Seq(Tags) /\ Len(readTagQ') <= ReadTagQDepth
    <3>1. /\ readTagQ \in Seq(Tags) /\ Len(readTagQ) <= ReadTagQDepth
          /\ \/ readTagQ' = readTagQ
             \/ Len(readTagQ) < ReadTagQDepth /\ readTagQ' = Append(readTagQ, cmdR.tag)
          /\ cmdR.tag \in Tags
      BY <1>10 DEF TypeOK, DoReadDataDDR, NotFull, Control, InWorkFits
    <3>2. CASE readTagQ' = readTagQ
      BY <3>1, <3>2
    <3>3. CASE Len(readTagQ) < ReadTagQDepth /\ readTagQ' = Append(readTagQ, cmdR.tag)
      BY <3>1, <3>3, Put DEF ReadTagQDepth
    <3> QED
      BY <3>1, <3>2, <3>3
  <2>5. decodeInQ' \in Seq(Tags)
    <3>1. /\ decodeInQ \in Seq(Tags) /\ state = "READ_DATA"
          /\ decodeInQ' = decodeInQ \/ decodeInQ' = Append(decodeInQ, chip[cmdR.chip].tag)
      BY <1>10 DEF TypeOK, DoReadDataDDR
    <3>2. cmdR.tag \in Tags /\ chip[cmdR.chip].tag = cmdR.tag
      BY <3>1 DEF Control, InWorkFits, DataFits, DataStates
    <3> QED
      BY <3>1, <3>2, AppendProperties
  <2> QED
    BY <2>1, <2>2, <2>3, <2>4, <2>5 DEF TypeOK, SbTypeOK
<1>11. CASE DoReadDataDone
  <2>1. UNCHANGED <<
      chipQs, chipBusy, busyTimers, chipStages, cmdOutQ, currChip, sbState, wdataRdy,
      rdyReturnState, cmdCnt, dataCnt, cmdR, flashCmdQ, wrDataBufReqQ, wrDataReqQ,
      wrDataTransReqQ, ackQ, readTagQ, rdWdCnt, decodeInQ, decodeInBufQ, encodeOutQ,
      writePageBufBack, writePageBufFront, writeWordCnt, writeFetchSt, wdataRdyR,
      wrState, wdataCnt, chip, out>>
    BY <1>11 DEF DoReadDataDone, GoTo, sbVars, bcVars, reqVars, readVars, fetchVars,
       xferVars, rest
  <2>2. state' \in States
    BY <1>11 DEF TypeOK, SbTypeOK, DoReadDataDone, GoTo, States
  <2> QED
    BY <2>1, <2>2 DEF TypeOK, SbTypeOK
<1>12. CASE DoWriteDataWait
  <2>1. UNCHANGED <<
      chipQs, chipBusy, busyTimers, chipStages, cmdOutQ, currChip, sbState, wdataRdy,
      rdyReturnState, cmdCnt, dataCnt, cmdR, flashCmdQ, wrDataBufReqQ, wrDataReqQ,
      wrDataTransReqQ, ackQ, readTagQ, rdWdCnt, decodeInQ, decodeInBufQ, encodeOutQ,
      writePageBufBack, writePageBufFront, writeWordCnt, writeFetchSt, wdataRdyR,
      wrState, wdataCnt, chip, out>>
    BY <1>12 DEF DoWriteDataWait, GoTo, sbVars, bcVars, reqVars, readVars, fetchVars,
       xferVars, rest
  <2>2. state' \in States
    BY <1>12 DEF TypeOK, SbTypeOK, DoWriteDataWait, GoTo, States
  <2> QED
    BY <2>1, <2>2 DEF TypeOK, SbTypeOK
<1>13. CASE DoWritePageDataDDR
  <2>1. UNCHANGED <<
      chipQs, chipBusy, busyTimers, chipStages, cmdOutQ, currChip, sbState, wdataRdy,
      state, rdyReturnState, cmdCnt, cmdR, flashCmdQ, wrDataBufReqQ, wrDataReqQ,
      wrDataTransReqQ, ackQ, readTagQ, rdWdCnt, decodeInQ, decodeInBufQ,
      writePageBufBack, writePageBufFront, writeWordCnt, writeFetchSt, wdataRdyR,
      wrState, wdataCnt, chip, out>>
    BY <1>13 DEF DoWritePageDataDDR, sbVars, bcVars, reqVars, readVars, fetchVars,
       xferVars, rest
  <2>2. dataCnt' \in 0 .. PageWords
    BY <1>13 DEF TypeOK, DoWritePageDataDDR
  <2>3. encodeOutQ' \in Seq(Tags) /\ Len(encodeOutQ') <= EncodeDepth
    BY <1>13, Enqueued, Dequeued DEF TypeOK, SbTypeOK, DoWritePageDataDDR
  <2> QED
    BY <2>1, <2>2, <2>3 DEF TypeOK, SbTypeOK
<1>14. CASE DoWriteDone
  <2>1. UNCHANGED <<
      chipQs, chipBusy, busyTimers, chipStages, cmdOutQ, currChip, sbState, wdataRdy,
      rdyReturnState, cmdCnt, dataCnt, cmdR, flashCmdQ, wrDataBufReqQ, wrDataReqQ,
      wrDataTransReqQ, ackQ, readTagQ, rdWdCnt, decodeInQ, decodeInBufQ, encodeOutQ,
      writePageBufBack, writePageBufFront, writeWordCnt, writeFetchSt, wdataRdyR,
      wrState, wdataCnt, out>>
    BY <1>14 DEF DoWriteDone, StartChip, sbVars, bcVars, reqVars, readVars, fetchVars,
       xferVars, rest
  <2>2. chip' \in [Chips -> [st : {"ready", "busy"}, op : FlashOps \union {"NONE"},
                   tag : Tags \union {NoTag}]]
    BY <1>14 DEF TypeOK, SbTypeOK, DoWriteDone, StartChip, States, FlashOps
  <2>3. state' \in States
    BY <1>14 DEF TypeOK, SbTypeOK, DoWriteDone, StartChip, States, FlashOps
  <2> QED
    BY <2>1, <2>2, <2>3 DEF TypeOK, SbTypeOK
<1>15. CASE DoEraseBlockPoll
  <2>1. UNCHANGED <<
      chipQs, chipBusy, busyTimers, chipStages, cmdOutQ, currChip, sbState, wdataRdy,
      rdyReturnState, cmdCnt, dataCnt, cmdR, flashCmdQ, wrDataBufReqQ, wrDataReqQ,
      wrDataTransReqQ, ackQ, readTagQ, rdWdCnt, decodeInQ, decodeInBufQ, encodeOutQ,
      writePageBufBack, writePageBufFront, writeWordCnt, writeFetchSt, wdataRdyR,
      wrState, wdataCnt, out>>
    BY <1>15 DEF DoEraseBlockPoll, StartChip, sbVars, bcVars, reqVars, readVars, fetchVars,
       xferVars, rest
  <2>2. chip' \in [Chips -> [st : {"ready", "busy"}, op : FlashOps \union {"NONE"},
                   tag : Tags \union {NoTag}]]
    BY <1>15 DEF TypeOK, SbTypeOK, DoEraseBlockPoll, StartChip, States, FlashOps
  <2>3. state' \in States
    BY <1>15 DEF TypeOK, SbTypeOK, DoEraseBlockPoll, StartChip, States, FlashOps
  <2> QED
    BY <2>1, <2>2, <2>3 DEF TypeOK, SbTypeOK
<1>16. ASSUME NEW failed \in BOOLEAN, DoGetStatusData(failed) PROVE TypeOK'
  <2>1. UNCHANGED <<
      chipQs, busyTimers, chipStages, cmdOutQ, currChip, sbState, wdataRdy,
      rdyReturnState, dataCnt, cmdR, flashCmdQ, wrDataBufReqQ, wrDataReqQ,
      wrDataTransReqQ, readTagQ, rdWdCnt, decodeInQ, decodeInBufQ, encodeOutQ,
      writePageBufBack, writePageBufFront, writeWordCnt, writeFetchSt, wdataRdyR,
      wrState, wdataCnt, chip, out>>
    BY <1>16 DEF DoGetStatusData, BusyInPut, sbVars, bcVars, reqVars, readVars, fetchVars,
       xferVars, rest
  <2>2. chipBusy' \in [Chips -> Seq(BOOLEAN)]
    <3>1. PICK busy \in BOOLEAN : busy = StatusBusy(cmdR.chip)
      BY ZenonT(30) DEF StatusBusy
    <3>2. /\ chipBusy \in [Chips -> Seq(BOOLEAN)] /\ cmdR.chip \in Chips
          /\ chipBusy' = [chipBusy EXCEPT ![cmdR.chip] = Append(chipBusy[cmdR.chip], busy)]
      BY <1>16, <3>1 DEF TypeOK, SbTypeOK, DoGetStatusData, BusyInPut
    <3>3. chipBusy[cmdR.chip] \in Seq(BOOLEAN)
      BY <3>2
    <3>4. Append(chipBusy[cmdR.chip], busy) \in Seq(BOOLEAN)
      BY <3>1, <3>3, AppendProperties
    <3> QED
      BY <3>2, <3>4
  <2>3. state' \in States
    BY <1>16 DEF TypeOK, SbTypeOK, DoGetStatusData, BusyInPut, StatusStates, Acks, States
  <2>4. cmdCnt' \in {0, 1}
    BY <1>16 DEF TypeOK, SbTypeOK, DoGetStatusData, BusyInPut, StatusStates, Acks, States
  <2>5. ackQ' \in Seq(Acks) /\ Len(ackQ') <= AckQDepth
    <3>1. /\ ackQ \in Seq(Acks) /\ Len(ackQ) <= AckQDepth /\ cmdR.tag \in Tags
          /\ \/ ackQ' = ackQ
             \/ /\ Len(ackQ) < AckQDepth
                /\ ackQ' = Append(ackQ, [tag |-> cmdR.tag, status |->
                               IF state = "WRITE_GET_STATUS" THEN "WRITE_DONE"
                               ELSE IF failed THEN "ERASE_ERROR" ELSE "ERASE_DONE"])
      BY <1>16 DEF TypeOK, DoGetStatusData, NotFull, Control, InWorkFits, StatusStates
    <3>2. CASE ackQ' = ackQ
      BY <3>1, <3>2
    <3>3. CASE ackQ' # ackQ
      <4>1. PICK a \in Acks : Len(ackQ) < AckQDepth /\ ackQ' = Append(ackQ, a)
        BY <3>1, <3>3 DEF Acks
      <4> QED
        BY <3>1, <4>1, Put DEF AckQDepth
    <3> QED
      BY <3>2, <3>3
  <2> QED
    BY <2>1, <2>2, <2>3, <2>4, <2>5 DEF TypeOK, SbTypeOK
<1>17. CASE DoDecoderDataBuf
  <2>1. UNCHANGED <<
      chipQs, chipBusy, busyTimers, chipStages, cmdOutQ, currChip, sbState, wdataRdy,
      state, rdyReturnState, cmdCnt, dataCnt, cmdR, flashCmdQ, wrDataBufReqQ,
      wrDataReqQ, wrDataTransReqQ, ackQ, readTagQ, rdWdCnt, encodeOutQ,
      writePageBufBack, writePageBufFront, writeWordCnt, writeFetchSt, wdataRdyR,
      wrState, wdataCnt, chip, out>>
    BY <1>17 DEF DoDecoderDataBuf, sbVars, bcVars, reqVars, readVars, fetchVars, xferVars, rest
  <2>2. decodeInQ' \in Seq(Tags)
    BY <1>17, Enqueued, Dequeued DEF TypeOK, SbTypeOK, DoDecoderDataBuf
  <2>3. decodeInBufQ' \in Seq(Tags)
    BY <1>17, Enqueued, Dequeued DEF TypeOK, SbTypeOK, DoDecoderDataBuf
  <2> QED
    BY <2>1, <2>2, <2>3 DEF TypeOK, SbTypeOK
<1>18. CASE DoReadDataCollect
  <2>1. UNCHANGED <<
      chipQs, chipBusy, busyTimers, chipStages, cmdOutQ, currChip, sbState, wdataRdy,
      state, rdyReturnState, cmdCnt, dataCnt, cmdR, flashCmdQ, wrDataBufReqQ,
      wrDataReqQ, wrDataTransReqQ, ackQ, decodeInQ, encodeOutQ, writePageBufBack,
      writePageBufFront, writeWordCnt, writeFetchSt, wdataRdyR, wrState, wdataCnt, chip>>
    BY <1>18 DEF DoReadDataCollect, sbVars, bcVars, reqVars, readVars, fetchVars, xferVars, rest
  <2>2. decodeInBufQ' \in Seq(Tags)
    BY <1>18, Enqueued, Dequeued DEF TypeOK, SbTypeOK, DoReadDataCollect, LastReadWord, Unused
  <2>3. readTagQ' \in Seq(Tags) /\ Len(readTagQ') <= ReadTagQDepth
    <3>1. /\ readTagQ \in Seq(Tags) /\ NotEmpty(readTagQ) /\ Len(readTagQ) <= ReadTagQDepth
          /\ readTagQ' = readTagQ \/ readTagQ' = Tail(readTagQ)
      BY <1>18 DEF TypeOK, DoReadDataCollect
    <3>2. CASE readTagQ' = readTagQ
      BY <3>1, <3>2
    <3>3. CASE readTagQ' = Tail(readTagQ)
      BY <3>1, <3>3, Took DEF ReadTagQDepth
    <3> QED
      BY <3>1, <3>2, <3>3
  <2>4. rdWdCnt' \in 0 .. PageWords - 1
    <3>1. /\ rdWdCnt \in 0 .. PageWords - 1
          /\ \/ rdWdCnt >= PageWords - 1 /\ rdWdCnt' = 0
             \/ ~(rdWdCnt >= PageWords - 1) /\ rdWdCnt' = rdWdCnt + 1
      BY <1>18 DEF TypeOK, SbTypeOK, DoReadDataCollect, LastReadWord
    <3> QED
      BY <3>1
  <2>5. out' \in [Tags -> [op : FlashOps \union {"NONE"},
                  phase : {"free", "accepted", "sending", "done"}, left : 0 .. PageWords]]
    <3>1. PICK t \in Tags : t = Head(readTagQ)
      BY <1>18, Dequeued DEF TypeOK, DoReadDataCollect
    <3>2. PICK r \in OutValues : r = out[t]
      BY <3>1 DEF TypeOK, OutValues
    <3>3. /\ out \in [Tags -> OutValues]
          /\ out' = [out EXCEPT ![t] = IF r.left - 1 <= 0 THEN Unused
                                       ELSE [r EXCEPT !.left = r.left - 1]]
      BY <1>18, <3>1, <3>2 DEF TypeOK, DoReadDataCollect, OutValues
    <3>4. (IF r.left - 1 <= 0 THEN Unused ELSE [r EXCEPT !.left = r.left - 1]) \in OutValues
      BY DEF OutValues, Unused
    <3>5. out' \in [Tags -> OutValues]
      BY <3>3, <3>4
    <3> QED
      BY <3>5 DEF OutValues
  <2> QED
    BY <2>1, <2>2, <2>3, <2>4, <2>5 DEF TypeOK, SbTypeOK
<1>19. CASE DoAckStatus
  <2>1. UNCHANGED <<
      chipQs, chipBusy, busyTimers, chipStages, cmdOutQ, currChip, sbState, wdataRdy,
      state, rdyReturnState, cmdCnt, dataCnt, cmdR, flashCmdQ, wrDataBufReqQ,
      wrDataReqQ, wrDataTransReqQ, readTagQ, rdWdCnt, decodeInQ, decodeInBufQ,
      encodeOutQ, writePageBufBack, writePageBufFront, writeWordCnt, writeFetchSt,
      wdataRdyR, wrState, wdataCnt, chip>>
    BY <1>19 DEF DoAckStatus, sbVars, bcVars, reqVars, readVars, fetchVars, xferVars, rest
  <2>2. ackQ' \in Seq(Acks) /\ Len(ackQ') <= AckQDepth
    <3>1. /\ ackQ \in Seq(Acks) /\ NotEmpty(ackQ) /\ Len(ackQ) <= AckQDepth
          /\ ackQ' = Tail(ackQ)
      BY <1>19 DEF TypeOK, SbTypeOK, DoAckStatus
    <3> QED
      BY <3>1, Took DEF FlashCmdQDepth, AckQDepth, MkFIFO
  <2>3. out' \in [Tags -> [op : FlashOps \union {"NONE"},
                  phase : {"free", "accepted", "sending", "done"}, left : 0 .. PageWords]]
    <3>1. ackQ \in Seq(Acks) /\ NotEmpty(ackQ)
      BY <1>19 DEF TypeOK, DoAckStatus
    <3>2. PICK a \in Acks : a = Head(ackQ)
      BY <3>1, Dequeued
    <3>3. out \in [Tags -> OutValues] /\ out' = [out EXCEPT ![a.tag] = Unused]
      BY <1>19, <3>2 DEF TypeOK, DoAckStatus, OutValues
    <3>4. Unused \in OutValues
      BY DEF OutValues, Unused
    <3>5. out' \in [Tags -> OutValues]
      BY <3>3, <3>4
    <3> QED
      BY <3>5 DEF OutValues
  <2> QED
    BY <2>1, <2>2, <2>3 DEF TypeOK, SbTypeOK
<1>20. CASE DoHandleWriteDataReqFromBus
  <2>1. UNCHANGED <<
      chipQs, chipBusy, busyTimers, chipStages, cmdOutQ, currChip, sbState, wdataRdy,
      state, rdyReturnState, cmdCnt, dataCnt, cmdR, flashCmdQ, wrDataTransReqQ, ackQ,
      readTagQ, rdWdCnt, decodeInQ, decodeInBufQ, encodeOutQ, writePageBufBack,
      writePageBufFront, writeWordCnt, wdataRdyR, wrState, wdataCnt, chip, out>>
    BY <1>20 DEF DoHandleWriteDataReqFromBus, sbVars, bcVars, reqVars, readVars, fetchVars,
       xferVars, rest
  <2>2. wrDataBufReqQ' \in Seq(Tags)
    BY <1>20, Enqueued, Dequeued DEF TypeOK, SbTypeOK, DoHandleWriteDataReqFromBus
  <2>3. wrDataReqQ' \in Seq(Tags) /\ Len(wrDataReqQ') <= MkFIFO
    <3>1. /\ wrDataReqQ \in Seq(Tags) /\ Len(wrDataReqQ) < MkFIFO
          /\ wrDataReqQ' = Append(wrDataReqQ, Head(wrDataBufReqQ))
          /\ wrDataBufReqQ \in Seq(Tags) /\ NotEmpty(wrDataBufReqQ)
      BY <1>20 DEF TypeOK, SbTypeOK, DoHandleWriteDataReqFromBus, NotFull
    <3>2. MkFIFO \in Nat
      BY DEF MkFIFO, FlashCmdQDepth, AckQDepth, ReadTagQDepth
    <3> QED
      BY <3>1, <3>2, Put, Dequeued
  <2>4. writeFetchSt' \in {0, 1}
    BY <1>20 DEF TypeOK, SbTypeOK, DoHandleWriteDataReqFromBus
  <2> QED
    BY <2>1, <2>2, <2>3, <2>4 DEF TypeOK, SbTypeOK
<1>21. CASE DoWriteFetchWait
  <2>1. UNCHANGED <<
      chipQs, chipBusy, busyTimers, chipStages, cmdOutQ, currChip, sbState, wdataRdy,
      state, rdyReturnState, cmdCnt, dataCnt, cmdR, flashCmdQ, wrDataBufReqQ,
      wrDataReqQ, wrDataTransReqQ, ackQ, readTagQ, rdWdCnt, decodeInQ, decodeInBufQ,
      encodeOutQ, writePageBufBack, writePageBufFront, writeWordCnt, wdataRdyR,
      wrState, wdataCnt, chip, out>>
    BY <1>21 DEF DoWriteFetchWait, sbVars, bcVars, reqVars, readVars, fetchVars, xferVars, rest
  <2>2. writeFetchSt' \in {0, 1}
    BY <1>21 DEF TypeOK, SbTypeOK, DoWriteFetchWait
  <2> QED
    BY <2>1, <2>2 DEF TypeOK, SbTypeOK
<1>22. CASE DoWriteBufTransfer
  <2>1. UNCHANGED <<
      chipQs, chipBusy, busyTimers, chipStages, cmdOutQ, currChip, sbState, wdataRdy,
      state, rdyReturnState, cmdCnt, dataCnt, cmdR, flashCmdQ, wrDataBufReqQ,
      wrDataReqQ, wrDataTransReqQ, ackQ, readTagQ, rdWdCnt, decodeInQ, decodeInBufQ,
      encodeOutQ, writeWordCnt, writeFetchSt, wdataRdyR, wrState, wdataCnt, chip, out>>
    BY <1>22 DEF DoWriteBufTransfer, sbVars, bcVars, reqVars, readVars, fetchVars,
       xferVars, rest
  <2>2. writePageBufBack' \in Seq(Tags) /\ Len(writePageBufBack') <= PageWords
    <3>1. /\ writePageBufBack \in Seq(Tags) /\ NotEmpty(writePageBufBack)
          /\ Len(writePageBufBack) <= PageWords
          /\ writePageBufBack' = Tail(writePageBufBack)
      BY <1>22 DEF TypeOK, SbTypeOK, DoWriteBufTransfer
    <3> QED
      BY <3>1, Took DEF FlashCmdQDepth, AckQDepth, MkFIFO
  <2>3. writePageBufFront' \in Seq(Tags) /\ Len(writePageBufFront') <= PageWords
    <3>1. /\ writePageBufFront \in Seq(Tags) /\ Len(writePageBufFront) < PageWords
          /\ writePageBufFront' = Append(writePageBufFront, Head(writePageBufBack))
          /\ writePageBufBack \in Seq(Tags) /\ NotEmpty(writePageBufBack)
      BY <1>22 DEF TypeOK, SbTypeOK, DoWriteBufTransfer, NotFull
    <3>2. PageWords \in Nat
      BY DEF MkFIFO, FlashCmdQDepth, AckQDepth, ReadTagQDepth
    <3> QED
      BY <3>1, <3>2, Put, Dequeued
  <2> QED
    BY <2>1, <2>2, <2>3 DEF TypeOK, SbTypeOK
<1>23. CASE SetWriteDataRdy
  <2>1. UNCHANGED <<
      chipQs, chipBusy, busyTimers, chipStages, cmdOutQ, currChip, sbState, state,
      rdyReturnState, cmdCnt, dataCnt, cmdR, flashCmdQ, wrDataBufReqQ, wrDataReqQ,
      wrDataTransReqQ, ackQ, readTagQ, rdWdCnt, decodeInQ, decodeInBufQ, encodeOutQ,
      writePageBufBack, writePageBufFront, writeWordCnt, writeFetchSt, wrState,
      wdataCnt, chip, out>>
    BY <1>23 DEF SetWriteDataRdy, SetWdataRdy, sbVars, bcVars, reqVars, readVars,
       fetchVars, xferVars, rest
  <2>2. wdataRdy' \in [rdy : {TRUE}, tag : Tags] \union {NotReady}
    BY <1>23 DEF TypeOK, SbTypeOK, SetWriteDataRdy, SetWdataRdy, FrontReady
  <2>3. wdataRdyR' \in [rdy : {TRUE}, tag : Tags] \union {NotReady}
    <3>1. /\ writePageBufFront \in Seq(Tags) /\ Len(writePageBufFront) \in Nat
          /\ wdataRdyR' = IF Len(writePageBufFront) < PageWords THEN NotReady
                           ELSE [rdy |-> TRUE, tag |-> Head(writePageBufFront)]
      BY <1>23 DEF TypeOK, SetWriteDataRdy, FrontReady, NotFull
    <3>2. CASE Len(writePageBufFront) < PageWords
      BY <3>1, <3>2
    <3>3. CASE ~(Len(writePageBufFront) < PageWords)
      <4>1. Head(writePageBufFront) \in Tags
        BY <3>1, <3>3, Dequeued DEF NotEmpty
      <4> QED
        BY <3>1, <3>3, <4>1
    <3> QED
      BY <3>2, <3>3
  <2> QED
    BY <2>1, <2>2, <2>3 DEF TypeOK, SbTypeOK
<1>24. CASE DoWriteDataTransferReq
  <2>1. UNCHANGED <<
      chipQs, chipBusy, busyTimers, chipStages, cmdOutQ, currChip, sbState, wdataRdy,
      state, rdyReturnState, cmdCnt, dataCnt, cmdR, flashCmdQ, wrDataBufReqQ,
      wrDataReqQ, ackQ, readTagQ, rdWdCnt, decodeInQ, decodeInBufQ, encodeOutQ,
      writePageBufBack, writePageBufFront, writeWordCnt, writeFetchSt, wdataRdyR, chip,
      out>>
    BY <1>24 DEF DoWriteDataTransferReq, sbVars, bcVars, reqVars, readVars, fetchVars,
       xferVars, rest
  <2>2. wrDataTransReqQ' \in Seq({1})
    BY <1>24, Enqueued, Dequeued DEF TypeOK, SbTypeOK, DoWriteDataTransferReq
  <2>3. wdataCnt' \in 0 .. PageWords
    BY <1>24 DEF TypeOK, SbTypeOK, DoWriteDataTransferReq
  <2>4. wrState' \in {0, 1}
    BY <1>24 DEF TypeOK, SbTypeOK, DoWriteDataTransferReq
  <2> QED
    BY <2>1, <2>2, <2>3, <2>4 DEF TypeOK, SbTypeOK
<1>25. CASE DoWriteDataTransferToBus
  <2>1. UNCHANGED <<
      chipQs, chipBusy, busyTimers, chipStages, cmdOutQ, currChip, sbState, wdataRdy,
      state, rdyReturnState, cmdCnt, dataCnt, cmdR, flashCmdQ, wrDataBufReqQ,
      wrDataReqQ, wrDataTransReqQ, ackQ, readTagQ, rdWdCnt, decodeInQ, decodeInBufQ,
      writePageBufBack, writeWordCnt, writeFetchSt, wdataRdyR, chip, out>>
    BY <1>25 DEF DoWriteDataTransferToBus, sbVars, bcVars, reqVars, readVars, fetchVars,
       xferVars, rest
  <2>2. writePageBufFront' \in Seq(Tags) /\ Len(writePageBufFront') <= PageWords
    <3>1. /\ writePageBufFront \in Seq(Tags) /\ Len(writePageBufFront) <= PageWords
          /\ \/ writePageBufFront' = writePageBufFront
             \/ NotEmpty(writePageBufFront) /\ writePageBufFront' = Tail(writePageBufFront)
      BY <1>25 DEF TypeOK, DoWriteDataTransferToBus
    <3>2. CASE writePageBufFront' = writePageBufFront
      BY <3>1, <3>2
    <3>3. CASE NotEmpty(writePageBufFront) /\ writePageBufFront' = Tail(writePageBufFront)
      BY <3>1, <3>3, Took
    <3> QED
      BY <3>1, <3>2, <3>3
  <2>3. encodeOutQ' \in Seq(Tags) /\ Len(encodeOutQ') <= EncodeDepth
    <3>1. /\ encodeOutQ \in Seq(Tags) /\ Len(encodeOutQ) <= EncodeDepth
          /\ writePageBufFront \in Seq(Tags)
          /\ \/ encodeOutQ' = encodeOutQ
             \/ /\ NotEmpty(writePageBufFront) /\ Len(encodeOutQ) < EncodeDepth
                /\ encodeOutQ' = Append(encodeOutQ, Head(writePageBufFront))
      BY <1>25 DEF TypeOK, DoWriteDataTransferToBus, NotFull
    <3>2. CASE encodeOutQ' = encodeOutQ
      BY <3>1, <3>2
    <3>3. CASE encodeOutQ' # encodeOutQ
      <4>1. PICK x \in Tags : x = Head(writePageBufFront)
        BY <3>1, <3>3, Dequeued
      <4>2. encodeOutQ' = Append(encodeOutQ, x) /\ Len(encodeOutQ) < EncodeDepth
        BY <3>1, <3>3, <4>1
      <4>3. EncodeDepth \in Nat
        BY FlashBusAssumption
      <4> QED
        BY <3>1, <4>2, <4>3, Put
    <3> QED
      BY <3>2, <3>3
  <2>4. wdataCnt' \in 0 .. PageWords
    <3>1. /\ wdataCnt \in 0 .. PageWords
          /\ wdataCnt' = wdataCnt \/ (wdataCnt < PageWords /\ wdataCnt' = wdataCnt + 1)
      BY <1>25 DEF TypeOK, SbTypeOK, DoWriteDataTransferToBus, MoreToTransfer
    <3> QED
      BY <3>1
  <2>5. wrState' \in {0, 1}
    BY <1>25 DEF TypeOK, SbTypeOK, DoWriteDataTransferToBus, MoreToTransfer
  <2> QED
    BY <2>1, <2>2, <2>3, <2>4, <2>5 DEF TypeOK, SbTypeOK
<1>26. ASSUME NEW cmd \in UserCmds, DoIdleAcceptCmd(cmd) PROVE TypeOK'
  <2>1. UNCHANGED <<
      chipQs, chipBusy, busyTimers, chipStages, cmdOutQ, currChip, sbState, wdataRdy,
      state, rdyReturnState, cmdCnt, dataCnt, cmdR, wrDataBufReqQ, wrDataReqQ,
      wrDataTransReqQ, ackQ, readTagQ, rdWdCnt, decodeInQ, decodeInBufQ, encodeOutQ,
      writePageBufBack, writePageBufFront, writeWordCnt, writeFetchSt, wdataRdyR,
      wrState, wdataCnt, chip>>
    BY <1>26 DEF DoIdleAcceptCmd, sbVars, bcVars, reqVars, readVars, fetchVars, xferVars, rest
  <2>2. flashCmdQ' \in Seq(FlashCmds) /\ Len(flashCmdQ') <= FlashCmdQDepth
    <3>1. /\ flashCmdQ \in Seq(FlashCmds) /\ Len(flashCmdQ) < FlashCmdQDepth
          /\ flashCmdQ' = Append(flashCmdQ, cmd)
          /\ cmd \in FlashCmds
      BY <1>26 DEF TypeOK, SbTypeOK, DoIdleAcceptCmd, NotFull
    <3>2. FlashCmdQDepth \in Nat
      BY DEF MkFIFO, FlashCmdQDepth, AckQDepth, ReadTagQDepth
    <3> QED
      BY <3>1, <3>2, Put
  <2>3. out' \in [Tags -> [op : FlashOps \union {"NONE"},
                  phase : {"free", "accepted", "sending", "done"}, left : 0 .. PageWords]]
    <3>1. /\ cmd.tag \in Tags /\ cmd.op \in FlashOps /\ out \in [Tags -> OutValues]
          /\ out' = [out EXCEPT ![cmd.tag] = [op |-> cmd.op, phase |-> "accepted",
                       left |-> IF cmd.op = "ERASE_BLOCK" THEN 0 ELSE PageWords]]
      BY <1>26 DEF TypeOK, DoIdleAcceptCmd, FlashCmds, OutValues
    <3>2. [op |-> cmd.op, phase |-> "accepted",
           left |-> IF cmd.op = "ERASE_BLOCK" THEN 0 ELSE PageWords] \in OutValues
      BY <3>1 DEF OutValues
    <3>3. out' \in [Tags -> OutValues]
      BY <3>1, <3>2
    <3> QED
      BY <3>3 DEF OutValues
  <2> QED
    BY <2>1, <2>2, <2>3 DEF TypeOK, SbTypeOK
<1>27. CASE WriteDataReq
  <2>1. UNCHANGED <<
      chipQs, chipBusy, busyTimers, chipStages, cmdOutQ, currChip, sbState, wdataRdy,
      state, rdyReturnState, cmdCnt, dataCnt, cmdR, flashCmdQ, wrDataBufReqQ,
      wrDataTransReqQ, ackQ, readTagQ, rdWdCnt, decodeInQ, decodeInBufQ, encodeOutQ,
      writePageBufBack, writePageBufFront, writeWordCnt, writeFetchSt, wdataRdyR,
      wrState, wdataCnt, chip>>
    BY <1>27 DEF WriteDataReq, sbVars, bcVars, reqVars, readVars, fetchVars, xferVars, rest
  <2>2. wrDataReqQ' \in Seq(Tags) /\ Len(wrDataReqQ') <= MkFIFO
    <3>1. /\ wrDataReqQ \in Seq(Tags) /\ NotEmpty(wrDataReqQ) /\ Len(wrDataReqQ) <= MkFIFO
          /\ wrDataReqQ' = Tail(wrDataReqQ)
      BY <1>27 DEF TypeOK, SbTypeOK, WriteDataReq
    <3> QED
      BY <3>1, Took DEF FlashCmdQDepth, AckQDepth, MkFIFO
  <2>3. out' \in [Tags -> [op : FlashOps \union {"NONE"},
                  phase : {"free", "accepted", "sending", "done"}, left : 0 .. PageWords]]
    <3>1. PICK t \in Tags : t = Head(wrDataReqQ)
      BY <1>27, Dequeued DEF TypeOK, WriteDataReq
    <3>2. PICK r \in OutValues : r = out[t]
      BY <1>27, <3>1 DEF TypeOK, OutValues
    <3>3. /\ out \in [Tags -> OutValues]
          /\ out' = [out EXCEPT ![t] = [r EXCEPT !.phase = "sending"]]
      BY <1>27, <3>1, <3>2 DEF TypeOK, WriteDataReq, OutValues
    <3>4. [r EXCEPT !.phase = "sending"] \in OutValues
      BY <3>1, <3>2 DEF OutValues, Unused
    <3>5. out' \in [Tags -> OutValues]
      BY <3>3, <3>4
    <3> QED
      BY <3>5 DEF OutValues
  <2> QED
    BY <2>1, <2>2, <2>3 DEF TypeOK, SbTypeOK
<1>28. ASSUME NEW t \in Tags, WriteWord(t) PROVE TypeOK'
  <2>1. UNCHANGED <<
      chipQs, chipBusy, busyTimers, chipStages, cmdOutQ, currChip, sbState, wdataRdy,
      state, rdyReturnState, cmdCnt, dataCnt, cmdR, flashCmdQ, wrDataBufReqQ,
      wrDataReqQ, wrDataTransReqQ, ackQ, readTagQ, rdWdCnt, decodeInQ, decodeInBufQ,
      encodeOutQ, writePageBufFront, writeFetchSt, wdataRdyR, wrState, wdataCnt, chip>>
    BY <1>28 DEF WriteWord, sbVars, bcVars, reqVars, readVars, fetchVars, xferVars, rest
  <2>2. writePageBufBack' \in Seq(Tags) /\ Len(writePageBufBack') <= PageWords
    <3>1. /\ writePageBufBack \in Seq(Tags) /\ Len(writePageBufBack) < PageWords
          /\ writePageBufBack' = Append(writePageBufBack, t)
          /\ t \in Tags
      BY <1>28 DEF TypeOK, SbTypeOK, WriteWord, NotFull
    <3>2. PageWords \in Nat
      BY DEF MkFIFO, FlashCmdQDepth, AckQDepth, ReadTagQDepth
    <3> QED
      BY <3>1, <3>2, Put
  <2>3. writeWordCnt' \in 0 .. PageWords - 1
    <3>1. /\ writeWordCnt \in 0 .. PageWords - 1
          /\ writeWordCnt' = IF writeWordCnt = PageWords - 1 THEN 0 ELSE writeWordCnt + 1
      BY <1>28 DEF TypeOK, SbTypeOK, WriteWord
    <3> QED
      BY <3>1
  <2>4. out' \in [Tags -> [op : FlashOps \union {"NONE"},
                  phase : {"free", "accepted", "sending", "done"}, left : 0 .. PageWords]]
    <3>1. t \in Tags
      BY <1>28
    <3>2. PICK r \in OutValues : r = out[t] /\ r.left > 0
      BY <1>28, <3>1 DEF TypeOK, OutValues, WriteWord
    <3>3. /\ out \in [Tags -> OutValues]
          /\ out' = [out EXCEPT ![t] = [r EXCEPT !.left = r.left - 1]]
      BY <1>28, <3>1, <3>2 DEF TypeOK, WriteWord, OutValues
    <3>4. [r EXCEPT !.left = r.left - 1] \in OutValues
      BY <3>1, <3>2 DEF OutValues, Unused
    <3>5. out' \in [Tags -> OutValues]
      BY <3>3, <3>4
    <3> QED
      BY <3>5 DEF OutValues
  <2> QED
    BY <2>1, <2>2, <2>3, <2>4 DEF TypeOK, SbTypeOK
<1>29. ASSUME NEW c \in Chips, ChipDone(c) PROVE TypeOK'
  <2>1. UNCHANGED <<
      chipQs, chipBusy, busyTimers, chipStages, cmdOutQ, currChip, sbState, wdataRdy,
      state, rdyReturnState, cmdCnt, dataCnt, cmdR, flashCmdQ, wrDataBufReqQ,
      wrDataReqQ, wrDataTransReqQ, ackQ, readTagQ, rdWdCnt, decodeInQ, decodeInBufQ,
      encodeOutQ, writePageBufBack, writePageBufFront, writeWordCnt, writeFetchSt,
      wdataRdyR, wrState, wdataCnt>>
    BY <1>29 DEF ChipDone, sbVars, bcVars, reqVars, readVars, fetchVars, xferVars, rest
  <2>2. chip' \in [Chips -> [st : {"ready", "busy"}, op : FlashOps \union {"NONE"},
                   tag : Tags \union {NoTag}]]
    <3>1. /\ chip \in [Chips -> [st : {"ready", "busy"}, op : FlashOps \union {"NONE"},
                               tag : Tags \union {NoTag}]]
          /\ chip' = [chip EXCEPT ![c].st = "ready"]
      BY <1>29 DEF TypeOK, SbTypeOK, ChipDone
    <3> QED
      BY <3>1
  <2>3. out' \in [Tags -> [op : FlashOps \union {"NONE"},
                  phase : {"free", "accepted", "sending", "done"}, left : 0 .. PageWords]]
    <3>1. out \in [Tags -> OutValues] /\ out' = [out EXCEPT ![chip[c].tag].phase = "done"]
      BY <1>29 DEF TypeOK, ChipDone, OutValues
    <3>2. out' \in [Tags -> OutValues]
      BY <3>1 DEF OutValues
    <3> QED
      BY <3>2 DEF OutValues
  <2> QED
    BY <2>1, <2>2, <2>3 DEF TypeOK, SbTypeOK
<1> QED
  BY <1>0, <1>1, <1>2, <1>3, <1>4, <1>5, <1>6, <1>7, <1>8, <1>9, <1>10, <1>11, <1>12,
     <1>13, <1>14, <1>15, <1>16, <1>17, <1>18, <1>19, <1>20, <1>21, <1>22, <1>23, <1>24,
     <1>25, <1>26, <1>27, <1>28, <1>29
     DEF Next, ScoreboardRule, BusRule, DataRule, Environment
-----------------------------------------------------------------------------
(* The way of a command: each rule keeps Control.                          *)

(* Nothing of a set is counted exactly when nothing of it is in the queue. *)
LEMMA CountNone ==
  ASSUME NEW S, NEW q \in Seq(S), NEW A
  PROVE  CountIn(q, A) = 0 <=> \A i \in 1 .. Len(q) : q[i] \notin A
<1> DEFINE P == {i \in 1 .. Len(q) : q[i] \in A}
<1>1. IsFiniteSet(P)
  BY CountIsNat
<1>2. Cardinality(P) = 0 <=> P = {}
  BY <1>1, FS_EmptySet
<1> QED
  BY <1>2 DEF CountIn

(* What Control says depends only on the variables it names.               *)
LEMMA ControlStays ==
  ASSUME Control, UNCHANGED ctlVars
  PROVE  Control'
<1>1. UNCHANGED <<chipQs, chipBusy, chipStages, cmdOutQ, state, rdyReturnState, cmdR, chip>>
  BY DEF ctlVars
<1>2. ASSUME NEW c \in Chips
      PROVE  ChipControl(c)'
  <2>1. ChipControl(c)
    BY DEF Control
  <2>2. /\ nStart(c)' = nStart(c) /\ nPoll(c)' = nPoll(c)
        /\ StartInWork(c)' <=> StartInWork(c)
        /\ PollInWork(c)' <=> PollInWork(c)
    BY <1>1 DEF nStart, nPoll, StartInWork, PollInWork
  <2>3. Begun(c)' <=> Begun(c)
    BY <1>1, <2>2 DEF Begun, Finished
  <2>4. StartsFit(c)' /\ PollsFit(c)' /\ Quiet(c)'
    BY <1>1, <2>1, <2>2 DEF ChipControl, StartsFit, PollsFit, Quiet
  <2>5. WorkFirst(c)' /\ InStage(c)' /\ OfChip(c)'
    BY <1>1, <2>1, <2>2 DEF ChipControl, WorkFirst, InStage, OfChip
  <2>6. ChipFits(c)'
    BY <1>1, <2>1, <2>3 DEF ChipControl, ChipFits
  <2> QED
    BY <2>4, <2>5, <2>6 DEF ChipControl
<1>3. QueuedFit' /\ InOrder' /\ InWorkFits'
  BY <1>1 DEF Control, QueuedFit, StepOfHead, InOrder, InWorkFits
<1>4. DataFits'
  BY <1>1 DEF Control, DataFits, Begun, Finished, nStart, StartInWork
<1> QED
  BY <1>2, <1>3, <1>4 DEF Control

(* The types that the proofs about Control use, and the counts.            *)
LEMMA ControlTypes ==
  ASSUME TypeOK
  PROVE  /\ chipQs \in [Chips -> Seq(FlashCmds)] /\ chipBusy \in [Chips -> Seq(BOOLEAN)]
         /\ chipStages \in [Chips -> Stages] /\ cmdOutQ \in Seq(BusCmds) /\ state \in States
         /\ cmdR.chip \in Chips
         /\ \A c \in Chips : /\ chipQs[c] \in Seq(FlashCmds) /\ chipBusy[c] \in Seq(BOOLEAN)
                             /\ chipStages[c] \in Stages /\ Len(chipBusy[c]) \in Nat
                             /\ CountIn(cmdOutQ, Starts(c)) \in Nat
                             /\ CountIn(cmdOutQ, Polls(c)) \in Nat
<1>1. /\ chipQs \in [Chips -> Seq(FlashCmds)] /\ chipBusy \in [Chips -> Seq(BOOLEAN)]
      /\ chipStages \in [Chips -> Stages] /\ cmdOutQ \in Seq(BusCmds) /\ state \in States
      /\ cmdR.chip \in Chips
  BY DEF TypeOK, SbTypeOK
<1>2. \A c \in Chips : CountIn(cmdOutQ, Starts(c)) \in Nat /\ CountIn(cmdOutQ, Polls(c)) \in Nat
  BY <1>1, CountIsNat
<1>3. \A c \in Chips : chipBusy[c] \in Seq(BOOLEAN)
  BY <1>1
<1>4. \A c \in Chips : Len(chipBusy[c]) \in Nat
  BY <1>3, LenProperties
<1> QED
  BY <1>1, <1>2, <1>3, <1>4

(* The counts of a queue with one command more.                            *)
LEMMA CountsEnqueued ==
  ASSUME NEW q \in Seq(BusCmds), NEW x \in BusCmds, NEW d
  PROVE  /\ CountIn(Append(q, x), Starts(d)) =
              CountIn(q, Starts(d)) + (IF x.chip = d /\ x.busOp \in StartOps THEN 1 ELSE 0)
         /\ CountIn(Append(q, x), Polls(d)) =
              CountIn(q, Polls(d)) + (IF x.chip = d /\ x.busOp \in PollOps THEN 1 ELSE 0)
<1>1. /\ x \in Starts(d) <=> x.chip = d /\ x.busOp \in StartOps
      /\ x \in Polls(d) <=> x.chip = d /\ x.busOp \in PollOps
  BY DEF Starts, Polls
<1>2. /\ CountIn(Append(q, x), Starts(d)) =
           CountIn(q, Starts(d)) + (IF x \in Starts(d) THEN 1 ELSE 0)
      /\ CountIn(Append(q, x), Polls(d)) = CountIn(q, Polls(d)) + (IF x \in Polls(d) THEN 1 ELSE 0)
  BY CountEnqueued
<1> QED
  BY <1>1, <1>2

(* The counts of a queue before its first command is taken.                *)
LEMMA CountsDequeued ==
  ASSUME NEW q \in Seq(BusCmds), NotEmpty(q), NEW d
  PROVE  /\ Head(q) \in BusCmds
         /\ CountIn(q, Starts(d)) = CountIn(Tail(q), Starts(d))
              + (IF Head(q).chip = d /\ Head(q).busOp \in StartOps THEN 1 ELSE 0)
         /\ CountIn(q, Polls(d)) = CountIn(Tail(q), Polls(d))
              + (IF Head(q).chip = d /\ Head(q).busOp \in PollOps THEN 1 ELSE 0)
<1>1. PICK x \in BusCmds : x = Head(q)
  BY Dequeued
<1>2. /\ x \in Starts(d) <=> x.chip = d /\ x.busOp \in StartOps
      /\ x \in Polls(d) <=> x.chip = d /\ x.busOp \in PollOps
  BY DEF Starts, Polls
<1>3. /\ CountIn(q, Starts(d)) = CountIn(Tail(q), Starts(d)) + (IF x \in Starts(d) THEN 1 ELSE 0)
      /\ CountIn(q, Polls(d)) = CountIn(Tail(q), Polls(d)) + (IF x \in Polls(d) THEN 1 ELSE 0)
  BY <1>1, CountDequeued
<1> QED
  BY <1>1, <1>2, <1>3

(* A chip of which no start and no poll is counted has none in the queue.  *)
LEMMA NoneQueued ==
  ASSUME TypeOK, NEW c \in Chips
  PROVE  /\ CountIn(cmdOutQ, Starts(c)) = 0 <=>
              \A i \in 1 .. Len(cmdOutQ) : ~(cmdOutQ[i].chip = c /\ cmdOutQ[i].busOp \in StartOps)
         /\ CountIn(cmdOutQ, Polls(c)) = 0 <=>
              \A i \in 1 .. Len(cmdOutQ) : ~(cmdOutQ[i].chip = c /\ cmdOutQ[i].busOp \in PollOps)
<1>1. cmdOutQ \in Seq(BusCmds)
  BY ControlTypes
<1>2. \A i \in 1 .. Len(cmdOutQ) : cmdOutQ[i] \in BusCmds
  BY <1>1
<1>3. \A i \in 1 .. Len(cmdOutQ) :
        /\ cmdOutQ[i] \in Starts(c) <=> cmdOutQ[i].chip = c /\ cmdOutQ[i].busOp \in StartOps
        /\ cmdOutQ[i] \in Polls(c) <=> cmdOutQ[i].chip = c /\ cmdOutQ[i].busOp \in PollOps
  BY <1>2 DEF Starts, Polls
<1>4. /\ CountIn(cmdOutQ, Starts(c)) = 0 <=>
           \A i \in 1 .. Len(cmdOutQ) : cmdOutQ[i] \notin Starts(c)
      /\ CountIn(cmdOutQ, Polls(c)) = 0 <=> \A i \in 1 .. Len(cmdOutQ) : cmdOutQ[i] \notin Polls(c)
  BY <1>1, CountNone
<1> QED
  BY <1>3, <1>4

(* Sending a command to the bus.                                           *)
LEMMA IssueKeeps ==
  ASSUME TypeOK, Control, NEW c \in Chips, NotEmpty(chipQs[c]),
         NEW op, NEW from, NEW busOp \in BusOps, NEW to, NEW timer,
         Issue(c, op, from, busOp, to, timer), op = OpOfBusOp[busOp],
         \/ busOp \in StartOps /\ from \in {"INIT", "WR_BUF_REQ_ISSUED"} /\ to \in Issued
         \/ busOp = "WRITE_DATA_BUF_REQ" /\ from = "INIT" /\ to = "WR_BUF_REQ_ISSUED"
         \/ busOp \in PollOps /\ from \in Issued /\ to \in Polled,
         UNCHANGED <<state, rdyReturnState, cmdR, chip>>
  PROVE  /\ Control'
         /\ \A d \in Chips : (Begun(d)' <=> Begun(d)) /\ (Finished(d)' <=> Finished(d))
         /\ ~Finished(c) /\ (busOp \notin PollOps => ~Begun(c))
<1>1. PICK x \in BusCmds :
        /\ x.tag = Head(chipQs[c]).tag /\ x.chip = c /\ x.busOp = busOp
        /\ cmdOutQ' = Append(cmdOutQ, x)
        /\ Head(chipQs[c]).op = op /\ chipStages[c] = from
        /\ chipStages'[c] = to /\ \A d \in Chips : d # c => chipStages'[d] = chipStages[d]
        /\ chipQs' = chipQs /\ chipBusy' = chipBusy
  <2>1. PICK r \in FlashCmds : r = Head(chipQs[c]) /\ r = chipQs[c][1] /\ 1 \in 1 .. Len(chipQs[c])
    BY ControlTypes, Dequeued
  <2>2. r.chip = c
    BY <2>1 DEF Control, ChipControl, OfChip
  <2>3. [tag |-> r.tag, chip |-> r.chip, busOp |-> busOp] \in BusCmds
    BY <2>1 DEF FlashCmds, BusCmds
  <2>4. /\ cmdOutQ' = Append(cmdOutQ, [tag |-> r.tag, chip |-> r.chip, busOp |-> busOp])
        /\ r.op = op /\ chipStages[c] = from
        /\ chipStages'[c] = to /\ \A d \in Chips : d # c => chipStages'[d] = chipStages[d]
        /\ chipQs' = chipQs /\ chipBusy' = chipBusy
    BY <2>1, ControlTypes DEF Issue
  <2> QED
    BY <2>1, <2>2, <2>3, <2>4
<1>2. /\ chipStages \in [Chips -> Stages] /\ cmdOutQ \in Seq(BusCmds) /\ cmdR.chip \in Chips
      /\ \A d \in Chips : /\ Len(chipBusy[d]) \in Nat /\ chipBusy[d] \in Seq(BOOLEAN)
                          /\ CountIn(cmdOutQ, Starts(d)) \in Nat
                          /\ CountIn(cmdOutQ, Polls(d)) \in Nat
  BY ControlTypes
<1>3. chipStages'[c] = to /\ \A d \in Chips : d # c => chipStages'[d] = chipStages[d]
  BY <1>1
<1>4. /\ Len(cmdOutQ) \in Nat /\ Len(cmdOutQ') = Len(cmdOutQ) + 1
      /\ cmdOutQ'[Len(cmdOutQ) + 1] = x
      /\ \A i \in 1 .. Len(cmdOutQ) : cmdOutQ'[i] = cmdOutQ[i]
      /\ \A i \in 1 .. Len(cmdOutQ') : i \in 1 .. Len(cmdOutQ) \/ i = Len(cmdOutQ) + 1
  BY <1>1, <1>2, Enqueued
<1>5. \A d \in Chips :
        /\ CountIn(cmdOutQ', Starts(d)) = CountIn(cmdOutQ, Starts(d))
             + (IF c = d /\ busOp \in StartOps THEN 1 ELSE 0)
        /\ CountIn(cmdOutQ', Polls(d)) = CountIn(cmdOutQ, Polls(d))
             + (IF c = d /\ busOp \in PollOps THEN 1 ELSE 0)
  BY <1>1, <1>2, CountsEnqueued
<1>6. \A d \in Chips :
        /\ StartInWork(d)' <=> StartInWork(d)
        /\ PollInWork(d)' <=> PollInWork(d)
        /\ Finished(d)' <=> Finished(d)
        /\ nStart(d) \in Nat /\ nPoll(d) \in Nat
        /\ nStart(d)' = nStart(d) + (IF c = d /\ busOp \in StartOps THEN 1 ELSE 0)
        /\ nPoll(d)' = nPoll(d) + (IF c = d /\ busOp \in PollOps THEN 1 ELSE 0)
  <2>1. \A d \in Chips : /\ StartInWork(d)' <=> StartInWork(d)
                         /\ PollInWork(d)' <=> PollInWork(d)
                         /\ Finished(d)' <=> Finished(d)
    BY <1>1 DEF StartInWork, PollInWork, Finished
  <2>2. ASSUME NEW d \in Chips
        PROVE  /\ nStart(d) \in Nat
               /\ nStart(d)' = nStart(d) + (IF c = d /\ busOp \in StartOps THEN 1 ELSE 0)
    <3>1. /\ CountIn(cmdOutQ', Starts(d)) = CountIn(cmdOutQ, Starts(d))
               + (IF c = d /\ busOp \in StartOps THEN 1 ELSE 0)
          /\ CountIn(cmdOutQ, Starts(d)) \in Nat
      BY <1>2, <1>5
    <3>2. PICK k \in Nat : k = CountIn(cmdOutQ, Starts(d))
      BY <3>1
    <3>3. Starts(d)' = Starts(d)
      BY DEF Starts
    <3> QED
      BY <2>1, <3>1, <3>2, <3>3 DEF nStart
  <2>3. ASSUME NEW d \in Chips
        PROVE  /\ nPoll(d) \in Nat
               /\ nPoll(d)' = nPoll(d) + (IF c = d /\ busOp \in PollOps THEN 1 ELSE 0)
    <3>1. /\ CountIn(cmdOutQ', Polls(d)) = CountIn(cmdOutQ, Polls(d))
               + (IF c = d /\ busOp \in PollOps THEN 1 ELSE 0)
          /\ CountIn(cmdOutQ, Polls(d)) \in Nat
      BY <1>2, <1>5
    <3>2. PICK k \in Nat : k = CountIn(cmdOutQ, Polls(d))
      BY <3>1
    <3>3. Polls(d)' = Polls(d)
      BY DEF Polls
    <3> QED
      BY <2>1, <3>1, <3>2, <3>3 DEF nPoll
  <2> QED
    BY <2>1, <2>2, <2>3
<1>7. /\ ChipControl(c)
      /\ \A d \in Chips : ChipControl(d)
  BY DEF Control
<1>8. /\ busOp \notin StartOps \/ busOp \notin PollOps
      /\ from \in Stages \ Polled
  BY DEF StartOps, PollOps, Stages, Issued, Polled
(* What the stage says of the chip before.                                 *)
<1>9. nPoll(c) = 0 /\ Len(chipBusy[c]) = 0
  BY <1>1, <1>2, <1>6, <1>7, <1>8 DEF ChipControl, PollsFit
<1>10. chipBusy[c] = <<>> /\ ~PollInWork(c) /\ ~Finished(c)
  <2>1. chipBusy[c] = <<>>
    BY <1>2, <1>9, EmptyIff
  <2> QED
    BY <1>2, <1>9, <2>1 DEF nPoll, Finished
<1>11. from \in {"INIT", "WR_BUF_REQ_ISSUED"} => nStart(c) = 0 /\ ~StartInWork(c)
  BY <1>1, <1>2, <1>6, <1>7 DEF ChipControl, StartsFit, Issued, Polled, nStart
<1>12. \A d \in Chips : Begun(d)' <=> Begun(d)
  <2>1. \A d \in Chips : d # c => (Begun(d)' <=> Begun(d))
    BY <1>3, <1>6 DEF Begun
  <2>2. Begun(c)' <=> Begun(c)
    BY <1>1, <1>3, <1>6, <1>11 DEF Begun, Issued, Polled, StartOps, PollOps
  <2> QED
    BY <2>1, <2>2
<1>13. \A d \in Chips : ChipControl(d)'
  <2> SUFFICES ASSUME NEW d \in Chips PROVE ChipControl(d)'
    OBVIOUS
  <2>1. StartsFit(d)'
    BY <1>1, <1>3, <1>6, <1>7, <1>10, <1>11 DEF ChipControl, StartsFit, Issued, Polled,
       StartOps, PollOps
  <2>2. PollsFit(d)'
    <3>1. CASE d = c
      <4>1. to \in Polled <=> busOp \in PollOps
        BY DEF Issued, Polled, StartOps, PollOps
      <4>2. nPoll(c)' = (IF to \in Polled THEN 1 ELSE 0) /\ Len(chipBusy'[c]) = 0
        BY <1>1, <1>6, <1>9, <4>1
      <4> QED
        BY <1>3, <3>1, <4>2 DEF PollsFit
    <3>2. CASE d # c
      <4>1. nPoll(d)' = nPoll(d) /\ chipBusy'[d] = chipBusy[d] /\ chipStages'[d] = chipStages[d]
        BY <1>1, <1>2, <1>3, <1>6, <3>2
      <4> QED
        BY <1>7, <4>1 DEF ChipControl, PollsFit
    <3> QED
      BY <3>1, <3>2
  <2>3. Quiet(d)'
    BY <1>1, <1>3, <1>4, <1>7 DEF ChipControl, Quiet, Issued, Polled
  <2>4. WorkFirst(d)'
    BY <1>1, <1>3, <1>4, <1>6, <1>7, <1>10, <1>11 DEF ChipControl, WorkFirst, StartOps, PollOps
  <2>5. InStage(d)' /\ OfChip(d)'
    BY <1>1, <1>3, <1>7 DEF ChipControl, InStage, OfChip, NotEmpty
  <2>6. ChipFits(d)'
    BY <1>1, <1>7, <1>12 DEF ChipControl, ChipFits
  <2> QED
    BY <2>1, <2>2, <2>3, <2>4, <2>5, <2>6 DEF ChipControl
<1>14. QueuedFit'
  BY <1>1, <1>4 DEF Control, QueuedFit, StepOfHead, NotEmpty
<1>15. InOrder'
  <2> SUFFICES ASSUME NEW i \in 1 .. Len(cmdOutQ'), NEW j \in 1 .. Len(cmdOutQ'),
                      cmdOutQ'[i].chip = cmdOutQ'[j].chip, i < j,
                      cmdOutQ'[i].busOp \in StartOps \union PollOps
               PROVE  cmdOutQ'[j].busOp \in PollOps
    BY DEF InOrder
  <2>1. CASE j \in 1 .. Len(cmdOutQ)
    BY <1>4, <2>1 DEF Control, InOrder
  <2>2. CASE j = Len(cmdOutQ) + 1
    <3>1. i \in 1 .. Len(cmdOutQ) /\ cmdOutQ[i].chip = c
          /\ cmdOutQ[i].busOp \in StartOps \union PollOps
      BY <1>1, <1>4, <2>2
    <3>2. CountIn(cmdOutQ, Starts(c)) # 0 \/ CountIn(cmdOutQ, Polls(c)) # 0
      BY <3>1, NoneQueued
    <3>3. nStart(c) # 0 \/ nPoll(c) # 0
      BY <1>2, <3>2 DEF nStart, nPoll
    <3> QED
      BY <1>1, <1>4, <1>9, <1>11, <2>2, <3>3
  <2> QED
    BY <1>4, <2>1, <2>2
<1>16. InWorkFits' /\ DataFits'
  BY <1>1, <1>2, <1>12 DEF Control, InWorkFits, DataFits
<1>17. busOp \notin PollOps => ~Begun(c)
  BY <1>1 DEF Begun, Issued, Polled, StartOps, PollOps
<1>18. Control'
  BY <1>13, <1>14, <1>15, <1>16 DEF Control
<1> QED
  BY <1>6, <1>10, <1>12, <1>17, <1>18

(* Of two numbers that make one, the other is none if one is some.         *)
LEMMA SumIsOne ==
  ASSUME NEW n \in Nat, NEW k \in Nat, k > 0, n + k = 1
  PROVE  n = 0 /\ k = 1
  OBVIOUS

(* Taking the answer to a poll.                                            *)
LEMMA AnswerKeeps ==
  ASSUME TypeOK, Control, NEW c \in Chips, NotEmpty(chipQs[c]),
         NEW op, NEW from \in Polled, NEW poll \in Issued, TakeStatus(c, op, from, poll),
         UNCHANGED <<state, rdyReturnState, cmdR, chip>>
  PROVE  /\ Control'
         /\ \A d \in Chips : Begun(d)' <=> Begun(d)
         /\ \A d \in Chips : d # c => (Finished(d)' <=> Finished(d)) /\ chipQs'[d] = chipQs[d]
         /\ \/ Begun(c) /\ ~Finished(c) /\ ~Finished(c)' /\ chipQs' = chipQs
            \/ /\ ~Begun(c) /\ Finished(c) /\ ~Finished(c)'
               /\ chipQs' = [chipQs EXCEPT ![c] = Tail(chipQs[c])]
<1>1. /\ chipStages[c] = from /\ NotEmpty(chipBusy[c])
      /\ chipBusy' = [chipBusy EXCEPT ![c] = Tail(chipBusy[c])]
      /\ cmdOutQ' = cmdOutQ
  BY DEF TakeStatus, TakeAnswer
<1>2. /\ chipStages \in [Chips -> Stages] /\ cmdOutQ \in Seq(BusCmds) /\ cmdR.chip \in Chips
      /\ chipQs \in [Chips -> Seq(FlashCmds)] /\ chipBusy \in [Chips -> Seq(BOOLEAN)]
      /\ \A d \in Chips : /\ Len(chipBusy[d]) \in Nat /\ chipBusy[d] \in Seq(BOOLEAN)
                          /\ chipQs[d] \in Seq(FlashCmds)
                          /\ CountIn(cmdOutQ, Starts(d)) \in Nat
                          /\ CountIn(cmdOutQ, Polls(d)) \in Nat
  BY ControlTypes
<1>3. \A d \in Chips : ChipControl(d)
  BY DEF Control
<1>4. nStart(c) \in Nat /\ nPoll(c) \in Nat /\ Len(chipBusy[c]) > 0
  BY <1>1, <1>2 DEF nStart, nPoll, NotEmpty
<1>5. Len(chipBusy[c]) = 1 /\ nPoll(c) = 0 /\ nStart(c) = 0 /\ chipBusy[c] # <<>>
  <2>1. nPoll(c) + Len(chipBusy[c]) = 1
    BY <1>1, <1>3 DEF ChipControl, PollsFit
  <2>2. chipBusy[c] # <<>>
    BY <1>1, <1>2, EmptyIff
  <2>3. nStart(c) = 0
    BY <1>3, <2>2 DEF ChipControl, StartsFit
  <2>4. Len(chipBusy[c]) \in Nat
    BY <1>2
  <2> QED
    BY <1>4, <2>1, <2>2, <2>3, <2>4, SumIsOne
<1>6. /\ \A i \in 1 .. Len(cmdOutQ) : cmdOutQ[i].chip # c
      /\ ~StartInWork(c) /\ ~PollInWork(c)
  BY <1>2, <1>3, <1>5 DEF ChipControl, WorkFirst, nStart, nPoll
<1>7. chipBusy'[c] = <<>> /\ Len(chipBusy'[c]) = 0
  <2>1. Tail(chipBusy[c]) \in Seq(BOOLEAN) /\ Len(Tail(chipBusy[c])) = 0
    BY <1>1, <1>2, <1>5, Dequeued
  <2> QED
    BY <1>1, <1>2, <2>1, EmptyIff
<1>8. /\ Finished(c) => ~Head(chipBusy[c])
      /\ ~Finished(c) => Head(chipBusy[c])
  <2>1. chipBusy[c] = <<Head(chipBusy[c])>>
    BY <1>2, <1>5
  <2>2. Head(chipBusy[c]) \in BOOLEAN
    BY <1>1, <1>2, Dequeued
  <2>3. ASSUME NEW b \in BOOLEAN, <<b>> = <<FALSE>>
        PROVE  ~b
    <3>1. <<b>>[1] = <<FALSE>>[1]
      BY <2>3
    <3> QED
      BY <3>1
  <2> QED
    BY <2>1, <2>2, <2>3, Zenon DEF Finished
<1>19. \/ /\ ~Finished(c)
          /\ chipStages' = [chipStages EXCEPT ![c] = poll] /\ chipQs' = chipQs
       \/ /\ Finished(c)
          /\ chipStages' = [chipStages EXCEPT ![c] = "INIT"]
          /\ chipQs' = [chipQs EXCEPT ![c] = Tail(chipQs[c])]
  BY <1>8, Zenon DEF TakeStatus, StillBusy
<1>9. \A d \in Chips : d # c =>
        /\ chipStages'[d] = chipStages[d] /\ chipBusy'[d] = chipBusy[d] /\ chipQs'[d] = chipQs[d]
  BY <1>1, <1>2, <1>19
<1>10. \A d \in Chips :
        /\ StartInWork(d)' <=> StartInWork(d)
        /\ PollInWork(d)' <=> PollInWork(d)
        /\ nStart(d)' = nStart(d) /\ nPoll(d)' = nPoll(d)
  BY <1>1 DEF StartInWork, PollInWork, nStart, nPoll
<1>11. \A d \in Chips : d # c => (Begun(d)' <=> Begun(d))
  BY <1>9, <1>10 DEF Begun, Finished
<1>12. ~Finished(c)'
  <2>1. Len(<<FALSE>>) = 1
    OBVIOUS
  <2> QED
    BY <1>7, <2>1 DEF Finished
<1>13. \/ /\ ~Finished(c) /\ chipStages'[c] = poll /\ chipQs'[c] = chipQs[c]
          /\ Begun(c) /\ Begun(c)'
       \/ /\ Finished(c) /\ chipStages'[c] = "INIT" /\ chipQs'[c] = Tail(chipQs[c])
          /\ ~Begun(c) /\ ~Begun(c)'
  BY <1>1, <1>2, <1>5, <1>19, <1>10, <1>12 DEF Begun, Issued, Polled
<1>14. \A d \in Chips : ChipControl(d)'
  <2> SUFFICES ASSUME NEW d \in Chips PROVE ChipControl(d)'
    OBVIOUS
  <2>1. CASE d # c
    <3>1. /\ chipStages'[d] = chipStages[d] /\ chipBusy'[d] = chipBusy[d]
          /\ chipQs'[d] = chipQs[d] /\ ChipControl(d) /\ (Begun(d)' <=> Begun(d))
          /\ StartInWork(d)' <=> StartInWork(d)
          /\ PollInWork(d)' <=> PollInWork(d)
          /\ nStart(d)' = nStart(d) /\ nPoll(d)' = nPoll(d)
      BY <1>3, <1>9, <1>10, <1>11, <2>1
    <3>2. StartsFit(d)' /\ PollsFit(d)' /\ Quiet(d)'
      BY <1>1, <3>1 DEF ChipControl, StartsFit, PollsFit, Quiet
    <3>3. WorkFirst(d)' /\ InStage(d)' /\ OfChip(d)' /\ ChipFits(d)'
      BY <1>1, <3>1 DEF ChipControl, WorkFirst, InStage, OfChip, ChipFits
    <3> QED
      BY <3>2, <3>3 DEF ChipControl
  <2>2. CASE d = c
    <3>5. /\ nStart(c)' = 0 /\ nPoll(c)' = 0 /\ chipBusy'[c] = <<>> /\ Len(chipBusy'[c]) = 0
          /\ ~StartInWork(c)' /\ ~PollInWork(c)' /\ chipStages'[c] \notin Polled
      BY <1>5, <1>6, <1>7, <1>10, <1>13 DEF Issued, Polled
    <3>1. StartsFit(c)' /\ PollsFit(c)' /\ Quiet(c)' /\ WorkFirst(c)'
      BY <1>1, <1>6, <3>5 DEF StartsFit, PollsFit, Quiet, WorkFirst
    <3>2. InStage(c)'
      BY <1>1, <1>3, <1>13 DEF ChipControl, InStage, Polled
    <3>3. ChipFits(c)'
      BY <1>1, <1>3, <1>13 DEF ChipControl, ChipFits
    <3>4. OfChip(c)'
      <4>1. /\ Len(Tail(chipQs[c])) = Len(chipQs[c]) - 1
            /\ \A i \in 1 .. Len(Tail(chipQs[c])) :
                 Tail(chipQs[c])[i] = chipQs[c][i + 1] /\ i + 1 \in 1 .. Len(chipQs[c])
        BY <1>2, Dequeued
      <4>2. \A i \in 1 .. Len(chipQs[c]) : chipQs[c][i].chip = c
        BY <1>3 DEF ChipControl, OfChip
      <4>3. CASE chipQs'[c] = chipQs[c]
        BY <4>2, <4>3 DEF OfChip
      <4>4. CASE chipQs'[c] = Tail(chipQs[c])
        BY <4>1, <4>2, <4>4 DEF OfChip
      <4> QED
        BY <1>13, <4>3, <4>4
    <3> QED
      BY <2>2, <3>1, <3>2, <3>3, <3>4 DEF ChipControl
  <2> QED
    BY <2>1, <2>2
<1>15. QueuedFit'
  <2>1. \A i \in 1 .. Len(cmdOutQ) : cmdOutQ[i].chip \in Chips /\ cmdOutQ[i].chip # c
    <3>1. \A i \in 1 .. Len(cmdOutQ) : cmdOutQ[i] \in BusCmds
      BY <1>2
    <3> QED
      BY <1>6, <3>1 DEF BusCmds
  <2> QED
    BY <1>1, <1>9, <2>1 DEF Control, QueuedFit, StepOfHead
<1>16. InOrder'
  BY <1>1 DEF Control, InOrder
<1>17. InWorkFits'
  BY <1>2, <1>6, <1>9 DEF Control, InWorkFits, StartInWork, PollInWork, PollStates
<1>18. DataFits'
  BY <1>2, <1>11, <1>13 DEF Control, DataFits
<1>20. Control'
  BY <1>14, <1>15, <1>16, <1>17, <1>18 DEF Control
<1>21. \A d \in Chips : d # c => (Finished(d)' <=> Finished(d))
  BY <1>9 DEF Finished
<1> QED
  BY <1>9, <1>11, <1>12, <1>13, <1>19, <1>20, <1>21

(* A visit of the scoreboard to a chip.                                    *)
LEMMA ServiceKeeps ==
  ASSUME TypeOK, Control, ServiceReq
  PROVE  Control'
<1>1. PICK c \in Chips : c = currChip
  BY DEF TypeOK, SbTypeOK
<1>2. /\ NotEmpty(chipQs[c]) /\ UNCHANGED <<state, rdyReturnState, cmdR, chip>>
  BY <1>1 DEF ServiceReq, Scoreboards, DoServiceReq, bcVars
<1> DEFINE Sends(op, from, busOp, to) ==
             \E timer \in 0 .. BusyTime : Issue(c, op, from, busOp, to, timer)
<1>3. \/ Sends("READ_PAGE", "INIT", "READ_CMD", "RD_ISSUED")
      \/ Sends("READ_PAGE", "RD_ISSUED", "GET_STATUS_READ_DATA", "RD_DATA")
      \/ TakeStatus(c, "READ_PAGE", "RD_DATA", "RD_ISSUED")
      \/ Sends("WRITE_PAGE", "INIT", "WRITE_DATA_BUF_REQ", "WR_BUF_REQ_ISSUED")
      \/ Sends("WRITE_PAGE", "WR_BUF_REQ_ISSUED", "WRITE_CMD_DATA", "WR_ISSUED")
      \/ AwaitWriteData(c)
      \/ Sends("WRITE_PAGE", "WR_ISSUED", "WRITE_GET_STATUS", "WAIT_STATUS")
      \/ TakeStatus(c, "WRITE_PAGE", "WAIT_STATUS", "WR_ISSUED")
      \/ Sends("ERASE_BLOCK", "INIT", "ERASE_CMD", "ER_ISSUED")
      \/ Sends("ERASE_BLOCK", "ER_ISSUED", "ERASE_GET_STATUS", "WAIT_STATUS")
      \/ TakeStatus(c, "ERASE_BLOCK", "WAIT_STATUS", "ER_ISSUED")
  <2>1. BusyTime \in 0 .. BusyTime /\ 0 \in 0 .. BusyTime
    BY ScoreboardAssumption
  <2>2. busyTimers[c] \in 0 .. BusyTime
    BY DEF TypeOK, SbTypeOK
  <2> QED
    BY <1>1, <2>1, <2>2, Zenon DEF ServiceReq, Scoreboards, DoServiceReq
<1>4. /\ {"READ_CMD", "WRITE_CMD_DATA", "ERASE_CMD"} = StartOps
      /\ {"GET_STATUS_READ_DATA", "WRITE_GET_STATUS", "ERASE_GET_STATUS"} = PollOps
      /\ StartOps \subseteq BusOps /\ PollOps \subseteq BusOps /\ "WRITE_DATA_BUF_REQ" \in BusOps
  BY DEF StartOps, PollOps, BusOps
<1>5. ASSUME NEW op, NEW from, NEW busOp \in BusOps, NEW to, Sends(op, from, busOp, to),
             op = OpOfBusOp[busOp],
             \/ busOp \in StartOps /\ from \in {"INIT", "WR_BUF_REQ_ISSUED"} /\ to \in Issued
             \/ busOp = "WRITE_DATA_BUF_REQ" /\ from = "INIT" /\ to = "WR_BUF_REQ_ISSUED"
             \/ busOp \in PollOps /\ from \in Issued /\ to \in Polled
      PROVE  Control'
  <2>1. PICK timer \in 0 .. BusyTime : Issue(c, op, from, busOp, to, timer)
    BY <1>5
  <2> QED
    BY <1>2, <1>5, <2>1, IssueKeeps
<1>6. ASSUME NEW op, NEW from \in Polled, NEW poll \in Issued, TakeStatus(c, op, from, poll)
      PROVE  Control'
  BY <1>2, <1>6, AnswerKeeps
<1>7. CASE AwaitWriteData(c)
  BY <1>2, <1>7, ControlStays DEF AwaitWriteData, ctlVars
<1> HIDE DEF Sends
<1>8. CASE Sends("READ_PAGE", "INIT", "READ_CMD", "RD_ISSUED")
  BY <1>5, <1>8 DEF OpOfBusOp, StartOps, BusOps, Issued
<1>9. CASE Sends("READ_PAGE", "RD_ISSUED", "GET_STATUS_READ_DATA", "RD_DATA")
  BY <1>5, <1>9 DEF OpOfBusOp, PollOps, BusOps, Issued, Polled
<1>10. CASE Sends("WRITE_PAGE", "INIT", "WRITE_DATA_BUF_REQ", "WR_BUF_REQ_ISSUED")
  BY <1>5, <1>10 DEF OpOfBusOp, BusOps
<1>11. CASE Sends("WRITE_PAGE", "WR_BUF_REQ_ISSUED", "WRITE_CMD_DATA", "WR_ISSUED")
  BY <1>5, <1>11 DEF OpOfBusOp, StartOps, BusOps, Issued
<1>12. CASE Sends("WRITE_PAGE", "WR_ISSUED", "WRITE_GET_STATUS", "WAIT_STATUS")
  BY <1>5, <1>12 DEF OpOfBusOp, PollOps, BusOps, Issued, Polled
<1>13. CASE Sends("ERASE_BLOCK", "INIT", "ERASE_CMD", "ER_ISSUED")
  BY <1>5, <1>13 DEF OpOfBusOp, StartOps, BusOps, Issued
<1>14. CASE Sends("ERASE_BLOCK", "ER_ISSUED", "ERASE_GET_STATUS", "WAIT_STATUS")
  BY <1>5, <1>14 DEF OpOfBusOp, PollOps, BusOps, Issued, Polled
<1>15. CASE \/ TakeStatus(c, "READ_PAGE", "RD_DATA", "RD_ISSUED")
            \/ TakeStatus(c, "WRITE_PAGE", "WAIT_STATUS", "WR_ISSUED")
            \/ TakeStatus(c, "ERASE_BLOCK", "WAIT_STATUS", "ER_ISSUED")
  BY <1>6, <1>15 DEF Issued, Polled
<1> QED
  BY <1>3, <1>7, <1>8, <1>9, <1>10, <1>11, <1>12, <1>13, <1>14, <1>15

(* A queue one longer has the same head, unless it was empty.              *)
LEMMA Joined ==
  ASSUME NEW S, NEW q \in Seq(S), NEW r \in S
  PROVE  /\ Append(q, r) # <<>>
         /\ q # <<>> => Head(Append(q, r)) = Head(q)
         /\ \A i \in 1 .. Len(Append(q, r)) :
              Append(q, r)[i] = r \/ (i \in 1 .. Len(q) /\ Append(q, r)[i] = q[i])
<1>1. PICK z \in Seq(S) : z = Append(q, r)
  BY Enqueued
<1>2. /\ Len(z) = Len(q) + 1 /\ z[Len(q) + 1] = r /\ Len(q) \in Nat
      /\ \A i \in 1 .. Len(q) : z[i] = q[i]
      /\ \A i \in 1 .. Len(z) : i \in 1 .. Len(q) \/ i = Len(q) + 1
  BY <1>1, Enqueued
<1>3. NotEmpty(z)
  BY <1>2 DEF NotEmpty
<1>4. z # <<>> /\ Head(z) = z[1]
  BY <1>3, Dequeued, EmptyIff
<1>5. ASSUME q # <<>> PROVE Head(z) = Head(q)
  <2>1. NotEmpty(q)
    BY <1>5, EmptyIff
  <2>2. Head(q) = q[1] /\ 1 \in 1 .. Len(q)
    BY <2>1, Dequeued
  <2> QED
    BY <1>2, <1>4, <2>2
<1>6. \A i \in 1 .. Len(z) : z[i] = r \/ (i \in 1 .. Len(q) /\ z[i] = q[i])
  BY <1>2
<1> QED
  BY <1>1, <1>4, <1>5, <1>6

(* A command of the user is queued for its chip.                           *)
LEMMA CmdInKeeps ==
  ASSUME TypeOK, Control, DoSBCmd
  PROVE  /\ Control'
         /\ \A d \in Chips : (Begun(d)' <=> Begun(d)) /\ (Finished(d)' <=> Finished(d))
<1>1. flashCmdQ \in Seq(FlashCmds) /\ NotEmpty(flashCmdQ)
  BY DEF TypeOK, DoSBCmd
<1>2. PICK r \in FlashCmds : r = Head(flashCmdQ)
  BY <1>1, Dequeued
<1>3. PICK c \in Chips : c = r.chip
  BY DEF FlashCmds
<1>4. /\ chipQs' = [chipQs EXCEPT ![c] = Append(chipQs[c], r)]
      /\ UNCHANGED <<chipBusy, chipStages, cmdOutQ, state, rdyReturnState, cmdR, chip>>
  BY <1>2, <1>3 DEF DoSBCmd, CmdInPut, bcVars
<1>5. /\ chipQs \in [Chips -> Seq(FlashCmds)] /\ cmdR.chip \in Chips /\ cmdOutQ \in Seq(BusCmds)
      /\ \A d \in Chips : chipQs[d] \in Seq(FlashCmds)
  BY ControlTypes
<1>6. \A d \in Chips : d # c => chipQs'[d] = chipQs[d]
  BY <1>4, <1>5
<1>7. /\ chipQs'[c] = Append(chipQs[c], r) /\ chipQs'[c] # <<>>
      /\ chipQs[c] # <<>> => Head(chipQs'[c]) = Head(chipQs[c])
      /\ \A i \in 1 .. Len(chipQs'[c]) :
           chipQs'[c][i] = r \/ (i \in 1 .. Len(chipQs[c]) /\ chipQs'[c][i] = chipQs[c][i])
  <2>1. chipQs'[c] = Append(chipQs[c], r) /\ chipQs[c] \in Seq(FlashCmds)
    BY <1>4, <1>5
  <2>2. PICK q \in Seq(FlashCmds) : q = chipQs[c]
    BY <2>1
  <2>3. /\ Append(q, r) # <<>>
        /\ q # <<>> => Head(Append(q, r)) = Head(q)
        /\ \A i \in 1 .. Len(Append(q, r)) :
             Append(q, r)[i] = r \/ (i \in 1 .. Len(q) /\ Append(q, r)[i] = q[i])
    BY Joined
  <2> QED
    BY <2>1, <2>2, <2>3
<1>8. \A d \in Chips : /\ nStart(d)' = nStart(d) /\ nPoll(d)' = nPoll(d)
                       /\ StartInWork(d)' <=> StartInWork(d)
                       /\ PollInWork(d)' <=> PollInWork(d)
                       /\ Begun(d)' <=> Begun(d)
  BY <1>4 DEF nStart, nPoll, StartInWork, PollInWork, Begun, Finished
<1>9. ASSUME NEW d \in Chips PROVE ChipControl(d)'
  <2>1. ChipControl(d)
    BY DEF Control
  <2>2. StartsFit(d)' /\ PollsFit(d)' /\ Quiet(d)' /\ WorkFirst(d)'
    BY <1>4, <1>8, <2>1 DEF ChipControl, StartsFit, PollsFit, Quiet, WorkFirst
  <2>3. InStage(d)'
    BY <1>4, <1>6, <1>7, <2>1 DEF ChipControl, InStage
  <2>4. ChipFits(d)'
    <3>1. Begun(d) => chipQs[d] # <<>>
      BY <2>1 DEF ChipControl, InStage, Begun, Issued, Polled
    <3> QED
      BY <1>4, <1>6, <1>7, <1>8, <2>1, <3>1 DEF ChipControl, ChipFits
  <2>5. OfChip(d)'
    BY <1>3, <1>6, <1>7, <2>1 DEF ChipControl, OfChip
  <2> QED
    BY <2>2, <2>3, <2>4, <2>5 DEF ChipControl
<1>10. QueuedFit'
  <2>1. \A i \in 1 .. Len(cmdOutQ) : cmdOutQ[i].chip \in Chips
    <3>1. \A i \in 1 .. Len(cmdOutQ) : cmdOutQ[i] \in BusCmds
      BY <1>5
    <3> QED
      BY <3>1 DEF BusCmds
  <2> QED
    BY <1>4, <1>6, <1>7, <2>1 DEF Control, QueuedFit, StepOfHead
<1>11. InOrder' /\ DataFits'
  BY <1>4, <1>5, <1>8 DEF Control, InOrder, DataFits
<1>12. InWorkFits'
  BY <1>4, <1>5, <1>6, <1>7 DEF Control, InWorkFits
<1>13. \A d \in Chips : Finished(d)' <=> Finished(d)
  BY <1>4 DEF Finished
<1>14. Control'
  BY <1>9, <1>10, <1>11, <1>12 DEF Control
<1> QED
  BY <1>8, <1>13, <1>14

(* The bus takes a command from the queue.                                 *)
LEMMA DecodeKeeps ==
  ASSUME TypeOK, Control, DoDecodeCmd
  PROVE  /\ Control'
         /\ \A d \in Chips : (Begun(d)' <=> Begun(d)) /\ (Finished(d)' <=> Finished(d))
<1>1. /\ cmdOutQ \in Seq(BusCmds) /\ NotEmpty(cmdOutQ) /\ cmdOutQ' = Tail(cmdOutQ)
      /\ state = "IDLE" /\ state' = NextState[Head(cmdOutQ).busOp] /\ rdyReturnState' = "IDLE"
      /\ cmdR' = [tag |-> Head(cmdOutQ).tag, chip |-> Head(cmdOutQ).chip]
      /\ UNCHANGED <<chipQs, chipBusy, chipStages, chip>>
  BY DEF TypeOK, SbTypeOK, DoDecodeCmd, CmdOutGet
<1>2. PICK x \in BusCmds : x = Head(cmdOutQ) /\ x = cmdOutQ[1] /\ 1 \in 1 .. Len(cmdOutQ)
  BY <1>1, Dequeued
<1>3. x.tag \in Tags /\ x.chip \in Chips /\ x.busOp \in BusOps
  BY DEF BusCmds
<1>4. PICK c \in Chips : c = x.chip
  BY <1>3
<1>5. cmdR'.chip = c /\ cmdR'.tag = x.tag /\ state' = NextState[x.busOp]
  BY <1>1, <1>2, <1>4
<1>6. \/ x.busOp = "WRITE_DATA_BUF_REQ" /\ state' = "IDLE"
      \/ x.busOp \in StartOps /\ state' \in StartStates /\ state' \notin PollStates
      \/ x.busOp \in PollOps /\ state' \in PollStates /\ state' \notin StartStates
  BY <1>3, <1>5 DEF BusOps, NextState, StartOps, PollOps, StartStates, PollStates, StatusStates
<1>7. /\ x.busOp \in StartOps => x.busOp \notin PollOps
      /\ "IDLE" \notin StartStates /\ "IDLE" \notin PollStates
      /\ "WRITE_DATA_BUF_REQ" \notin StartOps
      /\ "WRITE_DATA_BUF_REQ" \notin PollOps
  BY DEF StartOps, PollOps, StartStates, PollStates, StatusStates
<1>8. /\ \A d \in Chips : StartInWork(d)' <=> (d = c /\ x.busOp \in StartOps)
      /\ \A d \in Chips : PollInWork(d)' <=> (d = c /\ x.busOp \in PollOps)
      /\ \A d \in Chips : ~StartInWork(d) /\ ~PollInWork(d)
  BY <1>1, <1>5, <1>6, <1>7 DEF StartInWork, PollInWork, PollStates, StatusStates
<1>9. \A d \in Chips : /\ CountIn(cmdOutQ', Starts(d)) \in Nat
                       /\ CountIn(cmdOutQ', Polls(d)) \in Nat
                       /\ CountIn(cmdOutQ, Starts(d)) \in Nat /\ CountIn(cmdOutQ, Polls(d)) \in Nat
  BY <1>1, Dequeued, CountIsNat
<1>10. \A d \in Chips :
        /\ CountIn(cmdOutQ, Starts(d)) = CountIn(cmdOutQ', Starts(d))
             + (IF c = d /\ x.busOp \in StartOps THEN 1 ELSE 0)
        /\ CountIn(cmdOutQ, Polls(d)) = CountIn(cmdOutQ', Polls(d))
             + (IF c = d /\ x.busOp \in PollOps THEN 1 ELSE 0)
  BY <1>1, <1>2, <1>4, CountsDequeued
<1>11. \A d \in Chips : nStart(d)' = nStart(d) /\ nPoll(d)' = nPoll(d)
  BY <1>8, <1>9, <1>10 DEF nStart, nPoll
<1>12. \A d \in Chips : Begun(d)' <=> Begun(d)
  BY <1>1, <1>11 DEF Begun, Finished
<1>13. /\ Len(cmdOutQ) \in Nat /\ Len(cmdOutQ') = Len(cmdOutQ) - 1
       /\ \A i \in 1 .. Len(cmdOutQ') : cmdOutQ'[i] = cmdOutQ[i + 1] /\ i + 1 \in 2 .. Len(cmdOutQ)
                                          /\ i + 1 \in 1 .. Len(cmdOutQ)
  BY <1>1, Dequeued
<1>14. \A i \in 1 .. Len(cmdOutQ') : cmdOutQ'[i].chip = c =>
         (x.busOp \in StartOps \union PollOps => cmdOutQ'[i].busOp \in PollOps)
  BY <1>2, <1>4, <1>13 DEF Control, InOrder
<1>15. ChipControl(c) /\ \A d \in Chips : ChipControl(d)
  BY DEF Control
(* At most one poll: behind the one taken there is none.                   *)
<1>16. x.busOp \in PollOps => \A i \in 1 .. Len(cmdOutQ') : cmdOutQ'[i].chip # c
  <2> SUFFICES ASSUME x.busOp \in PollOps, NEW i \in 1 .. Len(cmdOutQ'), cmdOutQ'[i].chip = c
               PROVE  FALSE
    OBVIOUS
  <2>1. cmdOutQ'[i].busOp \in PollOps /\ cmdOutQ'[i] \in BusCmds
    BY <1>1, <1>13, <1>14
  <2>2. cmdOutQ'[i] \in Polls(c)
    BY <2>1 DEF Polls
  <2>3. cmdOutQ' \in Seq(BusCmds)
    BY <1>1, Dequeued
  <2>4. CountIn(cmdOutQ', Polls(c)) # 0
    BY <2>2, <2>3, CountNone
  <2>5. CountIn(cmdOutQ', Polls(c)) >= 1
    BY <1>9, <2>4
  <2>6. CountIn(cmdOutQ, Polls(c)) >= 2
    BY <1>9, <1>10, <2>5
  <2>7. nPoll(c) + Len(chipBusy[c]) <= 1
    BY <1>15 DEF ChipControl, PollsFit
  <2>8. Len(chipBusy[c]) \in Nat
    BY ControlTypes
  <2> QED
    BY <1>8, <1>9, <2>6, <2>7, <2>8 DEF nPoll
<1>17. chipBusy[c] = <<>> 
  BY <1>2, <1>4, <1>15 DEF ChipControl, WorkFirst
<1>18. ASSUME NEW d \in Chips PROVE ChipControl(d)'
  <2>1. ChipControl(d)
    BY <1>15
  <2>2. StartsFit(d)' /\ PollsFit(d)'
    BY <1>1, <1>11, <2>1 DEF ChipControl, StartsFit, PollsFit
  <2>3. Quiet(d)'
    BY <1>1, <1>13, <2>1 DEF ChipControl, Quiet
  <2>4. WorkFirst(d)'
    <3> SUFFICES ASSUME NEW i \in 1 .. Len(cmdOutQ'), cmdOutQ'[i].chip = d
                 PROVE  /\ StartInWork(d)' => cmdOutQ'[i].busOp \in PollOps
                        /\ ~PollInWork(d)' /\ chipBusy'[d] = <<>>
      BY DEF WorkFirst
    <3>1. chipBusy[d] = <<>>
      BY <1>13, <2>1 DEF ChipControl, WorkFirst
    <3>2. CASE d = c
      BY <1>1, <1>8, <1>14, <1>16, <3>1, <3>2
    <3>3. CASE d # c
      BY <1>1, <1>8, <3>1, <3>3
    <3> QED
      BY <3>2, <3>3
  <2>5. InStage(d)' /\ OfChip(d)' /\ ChipFits(d)'
    BY <1>1, <1>12, <2>1 DEF ChipControl, InStage, OfChip, ChipFits
  <2> QED
    BY <2>2, <2>3, <2>4, <2>5 DEF ChipControl
<1>19. QueuedFit'
  BY <1>1, <1>13 DEF Control, QueuedFit, StepOfHead
<1>20. InOrder'
  <2>1. \A i, j \in 1 .. Len(cmdOutQ') : i < j =>
          /\ i + 1 < j + 1 /\ i + 1 \in 1 .. Len(cmdOutQ) /\ j + 1 \in 1 .. Len(cmdOutQ)
          /\ cmdOutQ'[i] = cmdOutQ[i + 1] /\ cmdOutQ'[j] = cmdOutQ[j + 1]
    BY <1>13
  <2> QED
    BY <2>1 DEF Control, InOrder
<1>21. StepOfHead(x)
  BY <1>2 DEF Control, QueuedFit
<1>22. InWorkFits'
  <2>1. state' # "IDLE" => OpOfState[state'] = OpOfBusOp[x.busOp]
    BY <1>3, <1>5 DEF BusOps, NextState, OpOfState, OpOfBusOp
  <2>2. state' \in StartStates \union PollStates => state' # "IDLE"
    BY <1>7
  <2>3. state' # "GET_STATUS"
    BY <1>3, <1>5 DEF BusOps, NextState
  <2> QED
    BY <1>1, <1>3, <1>4, <1>5, <1>21, <2>1, <2>2, <2>3 DEF StepOfHead, InWorkFits
<1>23. DataFits'
  BY <1>3, <1>5 DEF BusOps, NextState, DataFits, DataStates
<1>24. \A d \in Chips : Finished(d)' <=> Finished(d)
  BY <1>1 DEF Finished
<1>25. Control'
  BY <1>18, <1>19, <1>20, <1>22, <1>23 DEF Control
<1> QED
  BY <1>12, <1>24, <1>25

(* The chip of the command in work starts.                                 *)
LEMMA StartKeeps ==
  ASSUME TypeOK, Control, NEW op, state \in {"READ_PAGE_REQ", "WRITE_PAGE", "ERASE_BLOCK"},
         op = OpOfState[state], StartChip(op)
  PROVE  /\ Control'
         /\ \E c \in Chips :
            /\ c = cmdR.chip /\ Begun(c)' /\ ~Begun(c) /\ ~Finished(c)
            /\ chipQs[c] # <<>> /\ Head(chipQs[c]).tag = cmdR.tag /\ Head(chipQs[c]).op = op
            /\ \A d \in Chips : d # c => (Begun(d)' <=> Begun(d))
            /\ \A d \in Chips : Finished(d)' <=> Finished(d)
<1>1. PICK c \in Chips : c = cmdR.chip
  BY DEF TypeOK
<1>2. /\ chip' = [chip EXCEPT ![c] = [st |-> "busy", op |-> op, tag |-> cmdR.tag]]
      /\ state' = "IDLE"
      /\ UNCHANGED <<chipQs, chipBusy, chipStages, cmdOutQ, rdyReturnState, cmdR>>
  BY <1>1 DEF StartChip, sbVars
<1>3. chip'[c] = [st |-> "busy", op |-> op, tag |-> cmdR.tag]
      /\ \A d \in Chips : d # c => chip'[d] = chip[d]
  BY <1>2 DEF TypeOK
<1>4. \A d \in Chips : /\ CountIn(cmdOutQ, Starts(d)) \in Nat /\ CountIn(cmdOutQ, Polls(d)) \in Nat
  BY ControlTypes
<1>5. /\ \A d \in Chips : ~StartInWork(d)' /\ ~PollInWork(d)' /\ ~PollInWork(d)
      /\ \A d \in Chips : StartInWork(d) <=> d = c
  BY <1>1, <1>2 DEF StartInWork, PollInWork, StartStates, StatusStates
<1>6. \A d \in Chips : nPoll(d)' = nPoll(d) /\ (d # c => nStart(d)' = nStart(d))
  BY <1>2, <1>5 DEF nPoll, nStart
<1>7. \A d \in Chips : ChipControl(d)
  BY DEF Control
<1>8. /\ nStart(c) = 1 /\ nStart(c)' = 0
      /\ chipStages[c] \in Issued \union Polled /\ chipBusy[c] = <<>>
  <2>1. StartInWork(c) /\ ~StartInWork(c)' /\ cmdOutQ' = cmdOutQ
    BY <1>2, <1>5
  <2>2. CountIn(cmdOutQ, Starts(c)) \in Nat
    BY <1>4
  <2>3. nStart(c) = CountIn(cmdOutQ, Starts(c)) + 1
    BY <2>1 DEF nStart
  <2>4. nStart(c)' = CountIn(cmdOutQ, Starts(c))
    BY <2>1, <2>2 DEF nStart
  <2> QED
    BY <1>7, <2>2, <2>3, <2>4 DEF ChipControl, StartsFit
<1>9. ~Finished(c)
  BY <1>8 DEF Finished
<1>10. Begun(c)' /\ ~Begun(c) /\ \A d \in Chips : d # c => (Begun(d)' <=> Begun(d))
  <2>1. ~Finished(c)'
    BY <1>2, <1>9 DEF Finished
  <2>2. Begun(c)' /\ ~Begun(c)
    BY <1>2, <1>8, <2>1 DEF Begun
  <2>3. \A d \in Chips : d # c => (Begun(d)' <=> Begun(d))
    BY <1>2, <1>6 DEF Begun, Finished
  <2> QED
    BY <2>2, <2>3
<1>11. /\ chipQs[c] # <<>> /\ Head(chipQs[c]).tag = cmdR.tag /\ Head(chipQs[c]).op = op
  BY <1>1 DEF Control, InWorkFits, StartStates
<1>12. ASSUME NEW d \in Chips PROVE ChipControl(d)'
  <2>1. ChipControl(d)
    BY <1>7
  <2>2. StartsFit(d)' /\ PollsFit(d)'
    BY <1>2, <1>6, <1>8, <2>1 DEF ChipControl, StartsFit, PollsFit
  <2>3. Quiet(d)' /\ InStage(d)' /\ OfChip(d)'
    BY <1>2, <2>1 DEF ChipControl, Quiet, InStage, OfChip
  <2>4. WorkFirst(d)'
    BY <1>2, <1>5, <2>1 DEF ChipControl, WorkFirst
  <2>5. ChipFits(d)'
    BY <1>2, <1>3, <1>10, <1>11, <2>1 DEF ChipControl, ChipFits
  <2> QED
    BY <2>2, <2>3, <2>4, <2>5 DEF ChipControl
<1>13. QueuedFit' /\ InOrder'
  BY <1>2 DEF Control, QueuedFit, StepOfHead, InOrder
<1>14. InWorkFits' /\ DataFits'
  BY <1>2 DEF InWorkFits, DataFits, StartStates, PollStates, StatusStates, DataStates
<1>15. Control'
  BY <1>12, <1>13, <1>14 DEF Control
<1>16. \A d \in Chips : Finished(d)' <=> Finished(d)
  BY <1>2 DEF Finished
<1> QED
  BY <1>1, <1>9, <1>10, <1>11, <1>15, <1>16

(* A step of the state machine between two states for the same command.    *)
LEMMA GoToKeeps ==
  ASSUME TypeOK, Control, UNCHANGED <<chipQs, chipBusy, chipStages, cmdOutQ, cmdR, chip>>,
         \/ /\ state = "READ_PAGE_WAIT" /\ state' = "GET_STATUS"
            /\ rdyReturnState' = "READ_DATA_WAIT_BUF"
         \/ state = "READ_DATA_WAIT_BUF" /\ state' = "READ_DATA"
         \/ state = "WRITE_PAGE_WAIT" /\ state' = "WRITE_PAGE"
         \/ state = "READ_DATA" /\ state' \in {"IDLE", "READ_ERROR"}
  PROVE  /\ Control'
         /\ \A d \in Chips : (Begun(d)' <=> Begun(d)) /\ (Finished(d)' <=> Finished(d))
<1>1. UNCHANGED <<chipQs, chipBusy, chipStages, cmdOutQ, cmdR, chip>>
  OBVIOUS
<1>2. \A d \in Chips : /\ StartInWork(d)' <=> StartInWork(d)
                       /\ PollInWork(d)' <=> PollInWork(d)
  BY DEF StartInWork, PollInWork, StartStates, StatusStates
<1>3. \A d \in Chips : /\ nStart(d)' = nStart(d) /\ nPoll(d)' = nPoll(d)
  BY <1>1, <1>2 DEF nStart, nPoll
<1>4. \A d \in Chips : Begun(d)' <=> Begun(d)
  BY <1>1, <1>3 DEF Begun, Finished
<1>5. ASSUME NEW d \in Chips PROVE ChipControl(d)'
  <2>1. ChipControl(d)
    BY DEF Control
  <2>2. StartsFit(d)' /\ PollsFit(d)' /\ Quiet(d)' /\ WorkFirst(d)'
    BY <1>1, <1>2, <1>3, <2>1 DEF ChipControl, StartsFit, PollsFit, Quiet, WorkFirst
  <2>3. InStage(d)' /\ OfChip(d)' /\ ChipFits(d)'
    BY <1>1, <1>4, <2>1 DEF ChipControl, InStage, OfChip, ChipFits
  <2> QED
    BY <2>2, <2>3 DEF ChipControl
<1>6. QueuedFit' /\ InOrder'
  BY <1>1 DEF Control, QueuedFit, StepOfHead, InOrder
<1>7. InWorkFits'
  BY <1>1 DEF Control, InWorkFits, StartStates, PollStates, StatusStates, OpOfState
<1>8. cmdR.chip \in Chips
  BY DEF TypeOK
<1>9. DataFits'
  BY <1>1, <1>4, <1>8 DEF Control, DataFits, DataStates
<1>10. Control'
  BY <1>5, <1>6, <1>7, <1>9 DEF Control
<1>11. \A d \in Chips : Finished(d)' <=> Finished(d)
  BY <1>1 DEF Finished
<1> QED
  BY <1>4, <1>10, <1>11

(* The bus hears from a chip whether it is still busy.                     *)
LEMMA StatusKeeps ==
  ASSUME TypeOK, Control, NEW failed \in BOOLEAN, DoGetStatusData(failed)
  PROVE  /\ Control'
         /\ \E c \in Chips :
            /\ c = cmdR.chip /\ Begun(c) /\ ~Finished(c)
            /\ chipQs[c] # <<>> /\ chip[c].tag = cmdR.tag /\ chip[c].op = OpOfState[state]
            /\ \/ chip[c].st = "busy" /\ state' = "IDLE" /\ Begun(c)' /\ ~Finished(c)'
               \/ chip[c].st = "ready" /\ state' = rdyReturnState /\ ~Begun(c)' /\ Finished(c)'
            /\ \A d \in Chips : d # c => (Begun(d)' <=> Begun(d)) /\ (Finished(d)' <=> Finished(d))
<1>1. PICK c \in Chips : c = cmdR.chip
  BY DEF TypeOK
<1>2. PICK b \in BOOLEAN : b = StatusBusy(c)
  BY ZenonT(30) DEF StatusBusy
<1>3. /\ state \in StatusStates /\ chipBusy' = [chipBusy EXCEPT ![c] = Append(chipBusy[c], b)]
      /\ UNCHANGED <<chipQs, chipStages, cmdOutQ, rdyReturnState, cmdR, chip>>
  BY <1>1, <1>2 DEF DoGetStatusData, BusyInPut
<1>4. \/ b /\ chip[c].st = "busy" /\ state' = "IDLE"
      \/ ~b /\ chip[c].st # "busy" /\ state' = rdyReturnState
  BY <1>1, <1>2 DEF DoGetStatusData, StatusBusy
<1>5. /\ chipBusy \in [Chips -> Seq(BOOLEAN)] /\ rdyReturnState \in {"IDLE", "READ_DATA_WAIT_BUF"}
      /\ \A d \in Chips : /\ CountIn(cmdOutQ, Starts(d)) \in Nat
                          /\ CountIn(cmdOutQ, Polls(d)) \in Nat
                          /\ Len(chipBusy[d]) \in Nat /\ chipBusy[d] \in Seq(BOOLEAN)
  BY ControlTypes DEF TypeOK
<1>6. \A d \in Chips : ChipControl(d)
  BY DEF Control
<1>7. /\ \A d \in Chips : ~StartInWork(d)' /\ ~PollInWork(d)' /\ ~StartInWork(d)
      /\ \A d \in Chips : PollInWork(d) <=> d = c
  BY <1>1, <1>3, <1>4, <1>5 DEF StartInWork, PollInWork, StartStates, StatusStates
<1>8. \A d \in Chips : nStart(d)' = nStart(d) /\ (d # c => nPoll(d)' = nPoll(d))
  BY <1>3, <1>7 DEF nPoll, nStart
<1>9. /\ nPoll(c) = 1 /\ nPoll(c)' = 0 /\ Len(chipBusy[c]) = 0 /\ chipBusy[c] = <<>>
      /\ chipStages[c] \in Polled
  <2>1. PollInWork(c) /\ ~PollInWork(c)' /\ cmdOutQ' = cmdOutQ
    BY <1>3, <1>7
  <2>2. CountIn(cmdOutQ, Polls(c)) \in Nat /\ Len(chipBusy[c]) \in Nat
    BY <1>5
  <2>3. nPoll(c) = CountIn(cmdOutQ, Polls(c)) + 1
    BY <2>1 DEF nPoll
  <2>4. nPoll(c)' = CountIn(cmdOutQ, Polls(c))
    BY <2>1, <2>2 DEF nPoll
  <2>5. nPoll(c) + Len(chipBusy[c]) = IF chipStages[c] \in Polled THEN 1 ELSE 0
    BY <1>6 DEF ChipControl, PollsFit
  <2>6. nPoll(c) = 1 /\ nPoll(c)' = 0 /\ Len(chipBusy[c]) = 0 /\ chipStages[c] \in Polled
    BY <2>2, <2>3, <2>4, <2>5
  <2> QED
    BY <1>5, <2>6, EmptyIff
<1>10. \A i \in 1 .. Len(cmdOutQ) : cmdOutQ[i].chip # c
  BY <1>6, <1>7 DEF ChipControl, WorkFirst
<1>11. nStart(c) = 0
  <2>1. CountIn(cmdOutQ, Starts(c)) = 0
    BY <1>10, NoneQueued
  <2> QED
    BY <1>7, <2>1 DEF nStart
<1>12. chipBusy'[c] = <<b>> /\ Len(chipBusy'[c]) = 1
       /\ \A d \in Chips : d # c => chipBusy'[d] = chipBusy[d]
  <2>1. Append(<<>>, b) = <<b>> /\ Len(<<b>>) = 1
    OBVIOUS
  <2> QED
    BY <1>3, <1>5, <1>9, <2>1
<1>13. ~Finished(c)
  BY <1>9 DEF Finished
<1>14. Begun(c)
  BY <1>9, <1>11, <1>13 DEF Begun
<1>15. Finished(c)' <=> ~b
  <2>1. ASSUME <<b>> = <<FALSE>> PROVE ~b
    <3>1. <<b>>[1] = <<FALSE>>[1]
      BY <2>1
    <3> QED
      BY <3>1
  <2>2. ASSUME ~b PROVE <<b>> = <<FALSE>>
    <3>1. b = FALSE
      BY <2>2
    <3> QED
      BY <3>1
  <2> QED
    BY <1>12, <2>1, <2>2, Zenon DEF Finished
<1>16. Begun(c)' <=> b
  BY <1>3, <1>8, <1>9, <1>11, <1>15 DEF Begun
<1>17. \A d \in Chips : d # c => (Begun(d)' <=> Begun(d))
  BY <1>3, <1>8, <1>12 DEF Begun, Finished
<1>18. b \/ chip[c].st = "ready"
  BY <1>4 DEF TypeOK
<1>19. ASSUME NEW d \in Chips PROVE ChipControl(d)'
  <2>1. ChipControl(d)
    BY <1>6
  <2>2. Quiet(d)' /\ InStage(d)' /\ OfChip(d)'
    BY <1>3, <2>1 DEF ChipControl, Quiet, InStage, OfChip
  <2>3. CASE d = c
    <3>1. StartsFit(c)' /\ PollsFit(c)'
      BY <1>3, <1>8, <1>9, <1>11, <1>12 DEF StartsFit, PollsFit
    <3>2. WorkFirst(c)'
      BY <1>3, <1>10 DEF WorkFirst
    <3>3. ChipFits(c)'
      BY <1>3, <1>14, <1>16, <1>18, <2>1, <2>3 DEF ChipControl, ChipFits
    <3> QED
      BY <2>2, <2>3, <3>1, <3>2, <3>3 DEF ChipControl
  <2>4. CASE d # c
    <3>1. chipBusy'[d] = chipBusy[d] /\ nStart(d)' = nStart(d) /\ nPoll(d)' = nPoll(d)
          /\ (Begun(d)' <=> Begun(d)) /\ ~StartInWork(d)' /\ ~PollInWork(d)'
      BY <1>7, <1>8, <1>12, <1>17, <2>4
    <3>2. StartsFit(d)' /\ PollsFit(d)' /\ WorkFirst(d)' /\ ChipFits(d)'
      BY <1>3, <2>1, <3>1 DEF ChipControl, StartsFit, PollsFit, WorkFirst, ChipFits
    <3> QED
      BY <2>2, <3>2 DEF ChipControl
  <2> QED
    BY <2>3, <2>4
<1>20. QueuedFit' /\ InOrder'
  BY <1>3 DEF Control, QueuedFit, StepOfHead, InOrder
<1>21. InWorkFits'
  <2>1. state' \notin StartStates \union PollStates
                      \union {"GET_STATUS", "WRITE_GET_STATUS", "ERASE_GET_STATUS"}
    BY <1>4, <1>5 DEF StartStates, PollStates, StatusStates
  <2>2. cmdR.tag \in Tags
    BY <1>3 DEF Control, InWorkFits, StatusStates
  <2> QED
    BY <1>3, <2>1, <2>2 DEF InWorkFits
<1>22. DataFits'
  <2> SUFFICES ASSUME state' \in DataStates
               PROVE  /\ ~Begun(c)'
                      /\ chip[c].op = "READ_PAGE" /\ chip[c].tag = cmdR.tag
    BY <1>1, <1>3 DEF DataFits, Begun
  <2>1. ~b /\ rdyReturnState = "READ_DATA_WAIT_BUF"
    BY <1>4, <1>5 DEF DataStates
  <2>2. state = "GET_STATUS"
    BY <1>3, <2>1 DEF Control, InWorkFits, StatusStates
  <2>3. Head(chipQs[c]).tag = cmdR.tag /\ Head(chipQs[c]).op = "READ_PAGE"
    BY <1>1, <2>2 DEF Control, InWorkFits, PollStates, StatusStates, OpOfState
  <2> QED
    BY <1>6, <1>14, <1>16, <2>1, <2>3 DEF ChipControl, ChipFits
<1>23. Control'
  BY <1>19, <1>20, <1>21, <1>22 DEF Control
<1>24. chipQs[c] # <<>> /\ chip[c].tag = cmdR.tag /\ chip[c].op = OpOfState[state]
  <2>1. /\ chipQs[c] # <<>> /\ Head(chipQs[c]).tag = cmdR.tag
        /\ Head(chipQs[c]).op = OpOfState[state]
    BY <1>1, <1>3 DEF Control, InWorkFits, PollStates
  <2> QED
    BY <1>6, <1>14, <2>1 DEF ChipControl, ChipFits
<1>25. \/ chip[c].st = "busy" /\ state' = "IDLE" /\ Begun(c)' /\ ~Finished(c)'
       \/ chip[c].st = "ready" /\ state' = rdyReturnState /\ ~Begun(c)' /\ Finished(c)'
  BY <1>4, <1>15, <1>16, <1>18
<1>26. \A d \in Chips : d # c => (Finished(d)' <=> Finished(d))
  BY <1>12 DEF Finished
<1> QED
  BY <1>1, <1>13, <1>14, <1>17, <1>23, <1>24, <1>25, <1>26

(* A chip finishes.                                                        *)
LEMMA DoneKeeps ==
  ASSUME TypeOK, Control, NEW c \in Chips, ChipDone(c)
  PROVE  /\ Control'
         /\ \A d \in Chips : (Begun(d)' <=> Begun(d)) /\ (Finished(d)' <=> Finished(d))
<1>1. /\ chip[c].st = "busy" /\ chip' = [chip EXCEPT ![c].st = "ready"]
      /\ UNCHANGED <<chipQs, chipBusy, chipStages, cmdOutQ, state, rdyReturnState, cmdR>>
  BY DEF ChipDone, sbVars, bcVars
<1>2. /\ \A d \in Chips : chip'[d].tag = chip[d].tag /\ chip'[d].op = chip[d].op
      /\ \A d \in Chips : d # c => chip'[d] = chip[d]
      /\ chip'[c].st = "ready"
  BY <1>1 DEF TypeOK
<1>3. \A d \in Chips : /\ StartInWork(d)' <=> StartInWork(d)
                       /\ PollInWork(d)' <=> PollInWork(d)
                       /\ nStart(d)' = nStart(d) /\ nPoll(d)' = nPoll(d)
  BY <1>1 DEF StartInWork, PollInWork, nStart, nPoll
<1>4. \A d \in Chips : Begun(d)' <=> Begun(d)
  BY <1>1, <1>3 DEF Begun, Finished
<1>5. ASSUME NEW d \in Chips PROVE ChipControl(d)'
  <2>1. ChipControl(d)
    BY DEF Control
  <2>2. StartsFit(d)' /\ PollsFit(d)' /\ Quiet(d)' /\ WorkFirst(d)'
    BY <1>1, <1>3, <2>1 DEF ChipControl, StartsFit, PollsFit, Quiet, WorkFirst
  <2>3. InStage(d)' /\ OfChip(d)' /\ ChipFits(d)'
    BY <1>1, <1>2, <1>4, <2>1 DEF ChipControl, InStage, OfChip, ChipFits
  <2> QED
    BY <2>2, <2>3 DEF ChipControl
<1>6. QueuedFit' /\ InOrder' /\ InWorkFits'
  BY <1>1 DEF Control, QueuedFit, StepOfHead, InOrder, InWorkFits
<1>7. cmdR.chip \in Chips
  BY DEF TypeOK
<1>8. DataFits'
  BY <1>1, <1>2, <1>4, <1>7 DEF Control, DataFits
<1>9. Control'
  BY <1>5, <1>6, <1>8 DEF Control
<1>10. \A d \in Chips : Finished(d)' <=> Finished(d)
  BY <1>1 DEF Finished
<1> QED
  BY <1>4, <1>9, <1>10

(* Every step keeps Control.                                               *)
LEMMA ControlKept ==
  ASSUME TypeOK, Control, [Next]_vars
  PROVE  Control'
<1> USE DEF sbVars, bcVars, ctlVars
<1>1. CASE ScoreboardRule
  <2>1. CASE ChooseChip
    BY <2>1, ControlStays DEF ChooseChip, Scoreboards, DoChooseChip
  <2>2. CASE \E c \in Chips : BusyTimer(c)
    BY <2>2, ControlStays DEF BusyTimer, Scoreboards, DecBusyTimer
  <2> QED
    BY <1>1, <2>1, <2>2, ServiceKeeps DEF ScoreboardRule
<1>2. CASE BusRule
  <2>1. CASE SendPhyCmds
    BY <2>1, ControlStays DEF SendPhyCmds
  <2>2. CASE DoReadPageCmdDone
    BY <2>2, StartKeeps DEF DoReadPageCmdDone, OpOfState
  <2>3. CASE DoEraseBlockPoll
    BY <2>3, StartKeeps DEF DoEraseBlockPoll, OpOfState
  <2>4. CASE DoWriteDone
    BY <2>4, StartKeeps DEF DoWriteDone, OpOfState
  <2>5. CASE DoReadPageWait
    BY <2>5, GoToKeeps DEF DoReadPageWait, GoTo
  <2>6. CASE DoReadDataWaitBuf
    BY <2>6, GoToKeeps DEF DoReadDataWaitBuf, GoTo
  <2>7. CASE DoReadDataDone
    BY <2>7, GoToKeeps DEF DoReadDataDone, GoTo
  <2>8. CASE DoWriteDataWait
    BY <2>8, GoToKeeps DEF DoWriteDataWait, GoTo
  <2>9. CASE DoReadDataDDR
    <3>1. CASE state' = state
      BY <2>9, <3>1, ControlStays DEF DoReadDataDDR
    <3>2. CASE state' # state
      BY <2>9, <3>2, GoToKeeps DEF DoReadDataDDR
    <3> QED
      BY <3>1, <3>2
  <2>10. CASE DoWritePageDataDDR
    BY <2>10, ControlStays DEF DoWritePageDataDDR
  <2> QED
    BY <1>2, <2>1, <2>2, <2>3, <2>4, <2>5, <2>6, <2>7, <2>8, <2>9, <2>10, DecodeKeeps,
       StatusKeeps
       DEF BusRule
<1>3. CASE DataRule
  <2>1. UNCHANGED <<chipQs, chipBusy, chipStages, cmdOutQ, state, rdyReturnState, cmdR, chip>>
    BY <1>3 DEF DataRule, DoDecoderDataBuf, DoReadDataCollect, DoAckStatus,
                DoHandleWriteDataReqFromBus, DoWriteFetchWait, DoWriteBufTransfer,
                SetWriteDataRdy, SetWdataRdy, DoWriteDataTransferReq, DoWriteDataTransferToBus
  <2> QED
    BY <2>1, ControlStays
<1>4. CASE Environment
  <2>1. CASE \E cmd \in UserCmds : DoIdleAcceptCmd(cmd)
    BY <2>1, ControlStays DEF DoIdleAcceptCmd
  <2>2. CASE WriteDataReq
    BY <2>2, ControlStays DEF WriteDataReq
  <2>3. CASE \E t \in Tags : WriteWord(t)
    BY <2>3, ControlStays DEF WriteWord
  <2> QED
    BY <1>4, <2>1, <2>2, <2>3, DoneKeeps DEF Environment
<1>5. CASE UNCHANGED vars
  BY <1>5, ControlStays DEF vars
<1> QED
  BY <1>1, <1>2, <1>3, <1>4, <1>5, CmdInKeeps DEF Next

-----------------------------------------------------------------------------
(* The pages on their way to the user.                                     *)

(* Multiples of n.                                                         *)
LEMMA Multiples ==
  ASSUME NEW n \in Nat, NEW p \in Int
  PROVE  /\ n * p \in Int /\ n * (p - 1) \in Int /\ n * (p + 1) \in Int
         /\ n * (p - 1) = n * p - n /\ n * (p + 1) = n * p + n
         /\ p >= 0 => n * p >= 0
  OBVIOUS

(* A greater number has a greater multiple.                                *)
LEMMA MultiplesGrow ==
  ASSUME NEW n \in Nat, NEW p \in Nat, NEW r \in Nat, p <= r
  PROVE  n * p <= n * r
<1>1. PICK k \in Nat : r = p + k
  OBVIOUS
<1>2. n * (p + k) = n * p + n * k /\ n * k >= 0 /\ n * p \in Nat /\ n * k \in Nat
  OBVIOUS
<1> QED
  BY <1>1, <1>2

(* Two queues one behind the other: moving a word from one to the other,   *)
(* taking a word, and enqueuing one.                                       *)
LEMMA OneQueue ==
  ASSUME NEW S, NEW a \in Seq(S), NEW b \in Seq(S)
  PROVE  /\ a \o b \in Seq(S) /\ Len(a \o b) = Len(a) + Len(b)
         /\ NotEmpty(b) => Append(a, Head(b)) \o Tail(b) = a \o b
         /\ NotEmpty(a) => Tail(a) \o b = Tail(a \o b) /\ NotEmpty(a \o b)
         /\ \A x \in S : a \o Append(b, x) = Append(a \o b, x)
<1>1. a \o b \in Seq(S) /\ Len(a \o b) = Len(a) + Len(b)
  BY ConcatProperties
<1>2. \A q \in Seq(S), x \in S : Append(q, x) = q \o <<x>> /\ <<x>> \in Seq(S)
  BY AppendIsConcat
<1>3. ASSUME NotEmpty(b) PROVE Append(a, Head(b)) \o Tail(b) = a \o b
  <2>1. PICK x \in S, t \in Seq(S) : x = Head(b) /\ t = Tail(b)
    BY <1>3, Dequeued
  <2>2. b = <<x>> \o t
    BY <1>3, <2>1, FirstAndOthers
  <2>3. (a \o <<x>>) \o t = a \o (<<x>> \o t)
    <3>1. PICK e \in Seq(S) : e = <<x>>
      BY <1>2
    <3> QED
      BY <3>1, ConcatAssociative
  <2> QED
    BY <1>2, <2>1, <2>2, <2>3
<1>4. ASSUME NotEmpty(a) PROVE Tail(a) \o b = Tail(a \o b) /\ NotEmpty(a \o b)
  <2>1. PICK x \in S, t \in Seq(S) : x = Head(a) /\ t = Tail(a)
    BY <1>4, Dequeued
  <2>2. a = <<x>> \o t
    BY <1>4, <2>1, FirstAndOthers
  <2>3. (<<x>> \o t) \o b = <<x>> \o (t \o b)
    BY <1>2, ConcatAssociative
  <2>4. PICK z \in Seq(S) : z = t \o b
    BY ConcatProperties
  <2>5. Tail(<<x>> \o z) = z /\ <<x>> \o z # <<>>
    BY InFront
  <2>6. a \o b = <<x>> \o z
    BY <2>2, <2>3, <2>4
  <2>7. NotEmpty(a \o b)
    BY <1>1, <2>5, <2>6, EmptyIff
  <2> QED
    BY <2>1, <2>4, <2>5, <2>6, <2>7
<1>5. ASSUME NEW x \in S PROVE a \o Append(b, x) = Append(a \o b, x)
  BY <1>1, <1>2, ConcatAssociative
<1> QED
  BY <1>1, <1>3, <1>4, <1>5

(* The first word is taken from its page, and with the last word the page. *)
LEMMA NextWord ==
  ASSUME NEW S, NEW w \in Seq(S), NEW q \in Seq(S), NEW d \in Nat, NEW n \in Nat,
         InPages(w, q, d, n), NotEmpty(w)
  PROVE  InPages(Tail(w), q, d + 1, n)
<1> SUFFICES ASSUME NEW i \in 1 .. Len(Tail(w)), NEW p \in 1 .. Len(q),
                    n * (p - 1) <= (d + 1) + i - 1, (d + 1) + i - 1 < n * p
             PROVE  Tail(w)[i] = q[p]
  BY DEF InPages
<1>1. i + 1 \in 1 .. Len(w) /\ Tail(w)[i] = w[i + 1] /\ i \in Nat
  BY Dequeued
<1>2. (d + 1) + i - 1 = d + (i + 1) - 1
  BY <1>1
<1> QED
  BY <1>1, <1>2 DEF InPages

(* When the word is the last of its page, its page is done.                *)
LEMMA NextPage ==
  ASSUME NEW S, NEW w \in Seq(S), NEW q \in Seq(S), NEW n \in Nat,
         InPages(w, q, n - 1, n), NotEmpty(w), NotEmpty(q)
  PROVE  InPages(Tail(w), Tail(q), 0, n)
<1> SUFFICES ASSUME NEW i \in 1 .. Len(Tail(w)), NEW p \in 1 .. Len(Tail(q)),
                    n * (p - 1) <= 0 + i - 1, 0 + i - 1 < n * p
             PROVE  Tail(w)[i] = Tail(q)[p]
  BY DEF InPages
<1>1. i + 1 \in 1 .. Len(w) /\ Tail(w)[i] = w[i + 1] /\ i \in Nat
  BY Dequeued
<1>2. p + 1 \in 1 .. Len(q) /\ Tail(q)[p] = q[p + 1] /\ p \in Int
  BY Dequeued
<1>3. /\ n * p \in Int /\ n * (p - 1) = n * p - n /\ n * (p + 1) = n * p + n
  BY <1>2, Multiples
<1>4. (p + 1) - 1 = p
  BY <1>2
<1>5. n * ((p + 1) - 1) <= (n - 1) + (i + 1) - 1 /\ (n - 1) + (i + 1) - 1 < n * (p + 1)
  BY <1>1, <1>3, <1>4
<1> QED
  BY <1>1, <1>2, <1>5 DEF InPages

(* Comparisons of numbers that are sums.                                   *)
LEMMA NotBelow ==
  ASSUME NEW d \in Nat, NEW l \in Nat, NEW i, i = l + 1, NEW u \in Int, d + i - 1 < u
  PROVE  d + l < u
  OBVIOUS

(* A number is not less than one that is not more.                         *)
LEMMA LessIsNotMore ==
  ASSUME NEW u \in Int, NEW v \in Int, u <= v, v < u
  PROVE  FALSE
  OBVIOUS

(* A word more for the last page, and the first word of a page.            *)
LEMMA OneWordMore ==
  ASSUME NEW S, NEW w \in Seq(S), NEW q \in Seq(S), NEW d \in Nat, NEW n \in Nat,
         NEW k \in 0 .. n - 1, InPages(w, q, d, n),
         d + Len(w) = n * (Len(q) - 1) + k, Len(q) > 0, NEW x \in S, q[Len(q)] = x
  PROVE  InPages(Append(w, x), q, d, n)
<1>1. PICK l \in Nat, m \in Nat : l = Len(w) /\ m = Len(q)
  BY LenProperties
<1> SUFFICES ASSUME NEW i \in 1 .. Len(Append(w, x)), NEW p \in 1 .. Len(q),
                    n * (p - 1) <= d + i - 1, d + i - 1 < n * p
             PROVE  Append(w, x)[i] = q[p]
  BY DEF InPages
<1>2. CASE i \in 1 .. Len(w)
  BY <1>2, Enqueued DEF InPages
<1>3. CASE i = Len(w) + 1
  <2>1. d + i - 1 = n * (m - 1) + k /\ n * (m - 1) \in Int
    BY <1>1, <1>3, Multiples
  <2>2. p = m
    <3> SUFFICES ASSUME p # m PROVE FALSE
      OBVIOUS
    <3>1. p \in Nat /\ m - 1 \in Nat /\ p <= m - 1
      BY <1>1
    <3>2. n * p <= n * (m - 1) /\ n * p \in Int
      BY <3>1, MultiplesGrow, Multiples
    <3> QED
      BY <2>1, <3>2
  <2> QED
    BY <1>1, <1>3, <2>2, Enqueued
<1> QED
  BY <1>2, <1>3, Enqueued

(* The first word of a page comes with the tag of the page.                *)
LEMMA OnePageMore ==
  ASSUME NEW S, NEW w \in Seq(S), NEW q \in Seq(S), NEW d \in Nat, NEW n \in Nat,
         InPages(w, q, d, n), d + Len(w) = n * Len(q), NEW x \in S
  PROVE  InPages(Append(w, x), Append(q, x), d, n)
<1>1. PICK l \in Nat, m \in Nat : l = Len(w) /\ m = Len(q)
  BY LenProperties
<1> SUFFICES ASSUME NEW i \in 1 .. Len(Append(w, x)), NEW p \in 1 .. Len(Append(q, x)),
                    n * (p - 1) <= d + i - 1, d + i - 1 < n * p
             PROVE  Append(w, x)[i] = Append(q, x)[p]
  BY DEF InPages
<1>2. /\ i \in 1 .. l \/ i = l + 1
      /\ p \in 1 .. m \/ p = m + 1
      /\ i \in 1 .. l => Append(w, x)[i] = w[i]
      /\ p \in 1 .. m => Append(q, x)[p] = q[p]
      /\ Append(w, x)[l + 1] = x /\ Append(q, x)[m + 1] = x
  BY <1>1, Enqueued
<1>3. d + l = n * m /\ n * m \in Int /\ n * ((m + 1) - 1) = n * m
  BY <1>1, Multiples
<1>4. CASE i \in 1 .. l /\ p \in 1 .. m
  BY <1>1, <1>2, <1>4 DEF InPages
<1>5. CASE i \in 1 .. l /\ p = m + 1
  BY <1>3, <1>5
<1>6. CASE i = l + 1 /\ p \in 1 .. m
  <2>1. p \in Nat /\ p <= m /\ n * p <= n * m /\ n * p \in Int
    BY <1>6, MultiplesGrow, Multiples
  <2>2. PICK u \in Int, v \in Int : u = n * p /\ v = n * m
    BY <1>3, <2>1
  <2>3. d + l = v /\ d + i - 1 < u /\ u <= v
    BY <1>3, <2>1, <2>2
  <2>4. d + l < u
    BY <1>6, <2>3, NotBelow
  <2> QED
    BY <2>2, <2>3, <2>4, LessIsNotMore
<1>7. CASE i = l + 1 /\ p = m + 1
  BY <1>2, <1>7
<1> QED
  BY <1>2, <1>4, <1>5, <1>6, <1>7

(* The types of the queues of words.                                       *)
LEMMA ReadTypes ==
  ASSUME TypeOK
  PROVE  /\ readTagQ \in Seq(Tags) /\ decodeInQ \in Seq(Tags) /\ decodeInBufQ \in Seq(Tags)
         /\ Words \in Seq(Tags) /\ Len(Words) = Len(decodeInBufQ) + Len(decodeInQ)
         /\ Len(Words) \in Nat /\ Len(readTagQ) \in Nat
         /\ Len(decodeInQ) \in Nat /\ Len(decodeInBufQ) \in Nat
         /\ rdWdCnt \in 0 .. PageWords - 1 /\ dataCnt \in 0 .. PageWords
         /\ PageWords \in Nat /\ PageWords > 1
<1>1. /\ readTagQ \in Seq(Tags) /\ decodeInQ \in Seq(Tags) /\ decodeInBufQ \in Seq(Tags)
      /\ rdWdCnt \in 0 .. PageWords - 1 /\ dataCnt \in 0 .. PageWords
  BY DEF TypeOK
<1>2. Words \in Seq(Tags) /\ Len(Words) = Len(decodeInBufQ) + Len(decodeInQ)
  BY <1>1, OneQueue DEF Words
<1> QED
  BY <1>1, <1>2, LenProperties, FlashBusAssumption

(* What ReadsFit says depends only on the variables it names; between two  *)
(* states without an open page the state of the bus does not matter.       *)
LEMMA ReadsStay ==
  ASSUME ReadsFit, UNCHANGED readVars,
         \/ UNCHANGED <<state, dataCnt, cmdR>>
         \/ /\ ~PageOpen /\ ~PageOpen' /\ state' # "READ_ERROR"
            /\ state' = "READ_DATA" => Len(decodeInQ) <= dataCnt'
            /\ state' \in {"READ_PAGE_WAIT", "GET_STATUS", "READ_DATA_WAIT_BUF"} => dataCnt' = 0
  PROVE  ReadsFit'
<1>1. UNCHANGED <<readTagQ, rdWdCnt, decodeInQ, decodeInBufQ>>
  BY DEF readVars
<1>2. PageOpen' <=> PageOpen
  BY DEF PageOpen
<1>3. WordsCount'
  <2>1. CASE PageOpen
    BY <1>1, <1>2, <2>1 DEF ReadsFit, WordsCount, Words
  <2>2. CASE ~PageOpen
    BY <1>1, <1>2, <2>2 DEF ReadsFit, WordsCount, Words
  <2> QED
    BY <2>1, <2>2
<1>4. WordsMatch'
  BY <1>1 DEF ReadsFit, WordsMatch, Words
<1> QED
  BY <1>1, <1>2, <1>3, <1>4 DEF ReadsFit

(* A word moves from one queue to the other.                               *)
LEMMA MoveKeeps ==
  ASSUME TypeOK, ReadsFit, DoDecoderDataBuf
  PROVE  ReadsFit'
<1>1. /\ decodeInQ \in Seq(Tags) /\ decodeInBufQ \in Seq(Tags) /\ NotEmpty(decodeInQ)
      /\ decodeInQ' = Tail(decodeInQ) /\ decodeInBufQ' = Append(decodeInBufQ, Head(decodeInQ))
      /\ UNCHANGED <<state, dataCnt, cmdR, readTagQ, rdWdCnt>>
  BY ReadTypes DEF DoDecoderDataBuf, bcVars
<1>2. Words' = Words
  BY <1>1, OneQueue DEF Words
<1>3. Len(decodeInQ') = Len(decodeInQ) - 1 /\ Len(decodeInQ) \in Nat
  BY <1>1, Dequeued
<1>4. PageOpen' <=> PageOpen
  BY <1>1 DEF PageOpen
<1>5. WordsCount' /\ WordsMatch'
  <2>1. CASE PageOpen
    BY <1>1, <1>2, <1>4, <2>1 DEF ReadsFit, WordsCount, WordsMatch
  <2>2. CASE ~PageOpen
    BY <1>1, <1>2, <1>4, <2>2 DEF ReadsFit, WordsCount, WordsMatch
  <2> QED
    BY <2>1, <2>2
<1>6. state = "READ_DATA" => Len(decodeInQ') <= dataCnt
  BY <1>3, ReadTypes DEF ReadsFit
<1> QED
  BY <1>1, <1>4, <1>5, <1>6 DEF ReadsFit

(* The count of the words when the last of a page is delivered.            *)
LEMMA OneLess ==
  ASSUME NEW n \in Nat, NEW r \in Nat, NEW w \in Nat, NEW z, r + w = z, w > 0
  PROVE  r = n - 1 => 0 + (w - 1) = z - n
  OBVIOUS

(* A word is delivered: its place in its page is counted, and with the     *)
(* last word of a page the tag is taken.                                   *)
LEMMA CollectKeeps ==
  ASSUME TypeOK, ReadsFit, DoReadDataCollect
  PROVE  ReadsFit'
<1>1. /\ NotEmpty(decodeInBufQ) /\ NotEmpty(readTagQ) /\ decodeInBufQ' = Tail(decodeInBufQ)
      /\ \/ rdWdCnt >= PageWords - 1 /\ rdWdCnt' = 0 /\ readTagQ' = Tail(readTagQ)
         \/ rdWdCnt < PageWords - 1 /\ rdWdCnt' = rdWdCnt + 1 /\ readTagQ' = readTagQ
      /\ UNCHANGED <<state, dataCnt, cmdR, decodeInQ>>
  BY ReadTypes DEF DoReadDataCollect, LastReadWord, bcVars
<1>2. /\ readTagQ \in Seq(Tags) /\ Words \in Seq(Tags) /\ Len(Words) \in Nat
      /\ Len(readTagQ) \in Nat
      /\ rdWdCnt \in 0 .. PageWords - 1 /\ rdWdCnt \in Nat /\ dataCnt \in 0 .. PageWords
      /\ PageWords \in Nat /\ PageWords > 1
  BY ReadTypes
<1>3. /\ Words' = Tail(Words) /\ NotEmpty(Words) /\ Len(Words') = Len(Words) - 1
      /\ Len(Words) > 0
  <2>1. Words' = Tail(Words) /\ NotEmpty(Words)
    BY <1>1, ReadTypes, OneQueue DEF Words
  <2> QED
    BY <1>2, <2>1, Dequeued DEF NotEmpty
<1>4. PageOpen' <=> PageOpen
  BY <1>1 DEF PageOpen
<1>5. CASE rdWdCnt < PageWords - 1 /\ rdWdCnt' = rdWdCnt + 1 /\ readTagQ' = readTagQ
  <2>1. rdWdCnt' + Len(Words') = rdWdCnt + Len(Words)
    <3>1. PICK r \in Nat, w \in Nat : r = rdWdCnt /\ w = Len(Words)
      BY <1>2
    <3>2. (r + 1) + (w - 1) = r + w
      BY <3>1
    <3>3. rdWdCnt' = r + 1 /\ Len(Words') = w - 1
      BY <1>3, <1>5, <3>1
    <3> QED
      BY <3>1, <3>2, <3>3
  <2>2. WordsCount'
    <3>1. CASE PageOpen
      BY <1>1, <1>4, <1>5, <2>1, <3>1 DEF ReadsFit, WordsCount
    <3>2. CASE ~PageOpen
      BY <1>1, <1>4, <1>5, <2>1, <3>2 DEF ReadsFit, WordsCount
    <3> QED
      BY <3>1, <3>2
  <2>3. WordsMatch'
    BY <1>2, <1>3, <1>5, NextWord DEF ReadsFit, WordsMatch
  <2> QED
    BY <1>1, <1>4, <1>5, <2>2, <2>3 DEF ReadsFit
<1>6. CASE rdWdCnt >= PageWords - 1 /\ rdWdCnt' = 0 /\ readTagQ' = Tail(readTagQ)
  <2>1. rdWdCnt = PageWords - 1
    BY <1>2, <1>6
  <2>2. PICK m \in Nat : m = Len(readTagQ) /\ m > 0
    BY <1>1, <1>2 DEF NotEmpty
  <2>3. Len(readTagQ') = m - 1 /\ (m - 1 > 0 => readTagQ'[m - 1] = readTagQ[m])
    BY <1>1, <1>2, <1>6, <2>2, Dequeued
  <2>4. /\ PageWords * (m - 1) = PageWords * m - PageWords
        /\ PageWords * ((m - 1) - 1) = PageWords * (m - 1) - PageWords
        /\ PageWords * m \in Int /\ PageWords * (m - 1) \in Int
    BY <1>2, <2>2, Multiples
  <2>5. rdWdCnt' + Len(Words') = rdWdCnt + Len(Words) - PageWords
    BY <1>2, <1>3, <1>6, <2>1, OneLess
  <2>6. WordsCount'
    <3>1. CASE PageOpen
      <4>1. PICK u \in Int : u = PageWords * (m - 1)
        BY <2>4
      <4>2. rdWdCnt + Len(Words) = u + dataCnt
        BY <2>2, <3>1, <4>1 DEF ReadsFit, WordsCount
      <4>3. rdWdCnt' + Len(Words') = (u - PageWords) + dataCnt
        BY <1>2, <2>5, <4>2
      <4>4. PageWords * (Len(readTagQ') - 1) = u - PageWords
        BY <2>3, <2>4, <4>1
      <4> QED
        BY <1>1, <1>4, <3>1, <4>3, <4>4 DEF WordsCount
    <3>2. CASE ~PageOpen
      <4>1. PICK u \in Int : u = PageWords * m
        BY <2>4
      <4>2. rdWdCnt + Len(Words) = u
        BY <2>2, <3>2, <4>1 DEF ReadsFit, WordsCount
      <4>3. rdWdCnt' + Len(Words') = u - PageWords
        BY <1>2, <2>5, <4>2
      <4>4. PageWords * Len(readTagQ') = u - PageWords
        BY <2>3, <2>4, <4>1
      <4> QED
        BY <1>4, <3>2, <4>3, <4>4 DEF WordsCount
    <3> QED
      BY <3>1, <3>2
  <2>7. WordsMatch'
    BY <1>1, <1>2, <1>3, <1>6, <2>1, NextPage DEF ReadsFit, WordsMatch
(* An open page is the last of at least two, or the count would not fit.   *)
  <2>8. PageOpen => m > 1
    <3> SUFFICES ASSUME PageOpen, m = 1 PROVE FALSE
      BY <2>2
    <3>1. PageWords * (m - 1) = 0
      BY <1>2
    <3>2. rdWdCnt + Len(Words) = PageWords * (m - 1) + dataCnt
      BY <2>2 DEF ReadsFit, WordsCount
    <3>3. dataCnt < PageWords
      BY <1>2 DEF PageOpen
    <3>4. rdWdCnt + Len(Words) = dataCnt /\ dataCnt < PageWords
      BY <1>2, <3>1, <3>2, <3>3
    <3> QED
      BY <1>2, <1>3, <2>1, <3>4
  <2>9. PageOpen => Len(readTagQ') > 0 /\ readTagQ'[Len(readTagQ')] = cmdR.tag
    BY <2>2, <2>3, <2>8 DEF ReadsFit
  <2> QED
    BY <1>1, <1>4, <2>6, <2>7, <2>9 DEF ReadsFit
<1> QED
  BY <1>1, <1>5, <1>6

(* A word is read out of the chip: the first of a page brings its tag, and *)
(* the others belong to the page that is open.                             *)
LEMMA WordKeeps ==
  ASSUME TypeOK, Control, ReadsFit, DoReadDataDDR
  PROVE  ReadsFit'
<1>1. /\ readTagQ \in Seq(Tags) /\ decodeInQ \in Seq(Tags) /\ decodeInBufQ \in Seq(Tags)
      /\ Words \in Seq(Tags) /\ Len(Words) \in Nat /\ Len(decodeInQ) \in Nat
      /\ rdWdCnt \in Nat /\ dataCnt \in Nat /\ dataCnt < PageWords /\ PageWords \in Nat
      /\ state = "READ_DATA" /\ Len(decodeInQ) <= dataCnt
  BY ReadTypes DEF ReadsFit, DoReadDataDDR
<1>2. NotFull(decodeInQ, DecodeInDepth)
  BY <1>1 DEF NotFull, DecodeInDepth
<1>3. PICK t \in Tags : t = chip[cmdR.chip].tag /\ t = cmdR.tag
  BY <1>1 DEF Control, DataFits, InWorkFits, DataStates
<1>4. /\ IF dataCnt = 0 THEN readTagQ' = Append(readTagQ, t) ELSE readTagQ' = readTagQ
      /\ decodeInQ' = Append(decodeInQ, t) /\ dataCnt' = dataCnt + 1
      /\ UNCHANGED <<state, cmdR, rdWdCnt, decodeInBufQ>>
  BY <1>2, <1>3 DEF DoReadDataDDR
<1>5. Words' = Append(Words, t) /\ Len(Words') = Len(Words) + 1
  <2>1. Words' = Append(Words, t)
    BY <1>1, <1>4, OneQueue DEF Words
  <2> QED
    BY <1>1, <2>1, Enqueued
<1>6. Len(decodeInQ') <= dataCnt'
  BY <1>1, <1>4, Enqueued
<1>7. PICK m \in Nat : m = Len(readTagQ)
  BY <1>1
<1>8. /\ PageWords * m \in Int /\ PageWords * (m - 1) \in Int
      /\ PageWords * (m - 1) = PageWords * m - PageWords
      /\ PageWords * ((m + 1) - 1) = PageWords * m
  BY <1>1, <1>7, Multiples
<1>9. (PageOpen <=> dataCnt > 0) /\ (PageOpen' <=> dataCnt + 1 < PageWords)
  BY <1>1, <1>4, ReadTypes DEF PageOpen
<1>10. PICK l \in Nat : l = rdWdCnt + Len(Words) /\ rdWdCnt' + Len(Words') = l + 1
  <2>1. PICK r \in Nat, w \in Nat : r = rdWdCnt /\ w = Len(Words)
    BY <1>1
  <2>2. rdWdCnt' = r /\ Len(Words') = w + 1
    BY <1>4, <1>5, <2>1
  <2>3. r + w \in Nat /\ r + (w + 1) = (r + w) + 1
    OBVIOUS
  <2> QED
    BY <2>1, <2>2, <2>3
<1>11. CASE dataCnt = 0
  <2>1. l = PageWords * m
    BY <1>7, <1>9, <1>10, <1>11 DEF ReadsFit, WordsCount
  <2>2. Len(readTagQ') = m + 1 /\ readTagQ'[m + 1] = t
    BY <1>1, <1>4, <1>7, <1>11, Enqueued
  <2>3. WordsMatch'
    BY <1>1, <1>4, <1>5, <1>7, <1>10, <1>11, <2>1, OnePageMore DEF ReadsFit, WordsMatch
  <2>4. PageOpen'
    BY <1>9, <1>11, ReadTypes
  <2>5. WordsCount'
    <3>1. PageWords * (Len(readTagQ') - 1) + dataCnt' = PageWords * m + 1
      BY <1>4, <1>8, <1>11, <2>2
    <3> QED
      BY <1>10, <2>1, <2>4, <3>1 DEF WordsCount
  <2> QED
    BY <1>1, <1>3, <1>4, <1>6, <2>2, <2>3, <2>5 DEF ReadsFit
<1>12. CASE dataCnt > 0
  <2>1. l = PageWords * (m - 1) + dataCnt /\ m > 0 /\ readTagQ[m] = t
    BY <1>3, <1>7, <1>9, <1>10, <1>12 DEF ReadsFit, WordsCount
  <2>2. readTagQ' = readTagQ
    BY <1>4, <1>12
  <2>3. WordsMatch'
    <3>1. InPages(Words, readTagQ, rdWdCnt, PageWords) /\ dataCnt \in 0 .. PageWords - 1
      BY <1>1 DEF ReadsFit, WordsMatch
    <3>2. rdWdCnt + Len(Words) = PageWords * (Len(readTagQ) - 1) + dataCnt
      BY <1>7, <1>10, <2>1
    <3>3. InPages(Append(Words, t), readTagQ, rdWdCnt, PageWords)
      BY <1>1, <1>7, <2>1, <3>1, <3>2, OneWordMore
    <3> QED
      BY <1>4, <1>5, <2>2, <3>3 DEF WordsMatch
  <2>4. WordsCount'
    <3>1. CASE dataCnt + 1 < PageWords
      BY <1>1, <1>4, <1>7, <1>8, <1>9, <1>10, <2>1, <2>2, <3>1 DEF WordsCount
    <3>2. CASE dataCnt + 1 = PageWords
      <4>1. l + 1 = PageWords * m
        BY <1>1, <1>8, <2>1, <3>2
      <4>2. ~PageOpen'
        BY <1>1, <1>9, <3>2
      <4>3. PageWords * Len(readTagQ') = PageWords * m
        BY <1>7, <2>2
      <4> QED
        BY <1>10, <4>1, <4>2, <4>3 DEF WordsCount
    <3> QED
      BY <1>1, <3>1, <3>2
  <2> QED
    BY <1>1, <1>3, <1>4, <1>6, <1>7, <2>1, <2>2, <2>3, <2>4 DEF ReadsFit
<1> QED
  BY <1>1, <1>11, <1>12

(* Every step keeps ReadsFit.                                              *)
LEMMA ReadsKept ==
  ASSUME TypeOK, Control, ReadsFit, [Next]_vars
  PROVE  ReadsFit'
<1> USE DEF readVars
<1>1. CASE ScoreboardRule
  BY <1>1, ReadsStay DEF ScoreboardRule, ChooseChip, ServiceReq, BusyTimer, Scoreboards, bcVars
<1>2. CASE DoSBCmd
  BY <1>2, ReadsStay DEF DoSBCmd, bcVars
<1>3. CASE BusRule
  <2>0. dataCnt \in Nat /\ dataCnt <= PageWords /\ PageWords \in Nat
    BY ReadTypes
  <2>1. CASE DoDecodeCmd
    <3>1. state = "IDLE" /\ dataCnt' = 0 /\ state' \in {NextState[x] : x \in BusOps}
      <4>1. Head(cmdOutQ) \in BusCmds
        BY <2>1, Dequeued DEF DoDecodeCmd, CmdOutGet, TypeOK, SbTypeOK
      <4> QED
        BY <2>1, <4>1 DEF DoDecodeCmd, BusCmds
    <3>2. state' \in {"READ_PAGE_REQ", "READ_PAGE_WAIT", "IDLE", "WRITE_PAGE_WAIT", "ERASE_BLOCK",
                      "WRITE_GET_STATUS", "ERASE_GET_STATUS"}
      BY <3>1 DEF NextState, BusOps
    <3>3. UNCHANGED readVars
      BY <2>1 DEF DoDecodeCmd
    <3> QED
      BY <3>1, <3>2, <3>3, ReadsStay DEF PageOpen
  <2>2. CASE SendPhyCmds
    BY <2>2, ReadsStay DEF SendPhyCmds
  <2>3. CASE DoReadPageCmdDone \/ DoEraseBlockPoll \/ DoWriteDone
    BY <2>3, ReadsStay DEF DoReadPageCmdDone, DoEraseBlockPoll, DoWriteDone, StartChip, PageOpen
  <2>4. CASE DoReadPageWait
    BY <2>4, ReadsStay DEF DoReadPageWait, GoTo, PageOpen
  <2>5. CASE DoReadDataWaitBuf
    <3>1. /\ state = "READ_DATA_WAIT_BUF" /\ state' = "READ_DATA" /\ dataCnt = 0 /\ dataCnt' = 0
          /\ decodeInQ = <<>> /\ UNCHANGED readVars
      BY <2>5 DEF DoReadDataWaitBuf, RoomForPage, GoTo, ReadsFit
    <3>2. Len(decodeInQ) <= dataCnt'
      BY <3>1, ReadTypes, EmptyIff
    <3> QED
      BY <3>1, <3>2, ReadsStay DEF PageOpen
  <2>6. CASE DoReadDataDone
    <3>1. ~PageOpen /\ ~PageOpen' /\ state' = "IDLE" /\ UNCHANGED readVars
      BY <2>0, <2>6 DEF DoReadDataDone, GoTo, PageOpen
    <3> QED
      BY <3>1, ReadsStay
  <2>7. CASE DoWriteDataWait
    BY <2>7, ReadsStay DEF DoWriteDataWait, GoTo, PageOpen
  <2>8. CASE DoWritePageDataDDR
    BY <2>8, ReadsStay DEF DoWritePageDataDDR, PageOpen
  <2>9. CASE \E failed \in BOOLEAN : DoGetStatusData(failed)
    <3>1. /\ state \in StatusStates /\ UNCHANGED <<readVars, dataCnt>>
          /\ state' = "IDLE" \/ state' = rdyReturnState
      BY <2>9 DEF DoGetStatusData
    <3>2. state = "GET_STATUS" \/ state' = "IDLE"
      BY <3>1 DEF Control, InWorkFits, StatusStates
    <3>3. state' \in {"IDLE", "READ_DATA_WAIT_BUF"}
      BY <3>1 DEF TypeOK
    <3>4. state' = "READ_DATA_WAIT_BUF" => dataCnt' = 0
      BY <3>1, <3>2 DEF ReadsFit
    <3> QED
      BY <3>1, <3>3, <3>4, ReadsStay DEF PageOpen, StatusStates
  <2> QED
    BY <1>3, <2>1, <2>2, <2>3, <2>4, <2>5, <2>6, <2>7, <2>8, <2>9, WordKeeps DEF BusRule
<1>4. CASE DataRule
  <2>1. CASE DoDecoderDataBuf \/ DoReadDataCollect
    BY <2>1, MoveKeeps, CollectKeeps
  <2>2. CASE ~(DoDecoderDataBuf \/ DoReadDataCollect)
    <3>1. UNCHANGED <<readVars, state, dataCnt, cmdR>>
      BY <1>4, <2>2 DEF DataRule, DoAckStatus, bcVars,
                DoHandleWriteDataReqFromBus, DoWriteFetchWait, DoWriteBufTransfer,
                SetWriteDataRdy, SetWdataRdy, DoWriteDataTransferReq, DoWriteDataTransferToBus
    <3> QED
      BY <3>1, ReadsStay
  <2> QED
    BY <2>1, <2>2
<1>5. CASE Environment
  BY <1>5, ReadsStay DEF Environment, DoIdleAcceptCmd, WriteDataReq, WriteWord, ChipDone, bcVars
<1>6. CASE UNCHANGED vars
  BY <1>6, ReadsStay DEF vars, bcVars
<1> QED
  BY <1>1, <1>2, <1>3, <1>4, <1>5, <1>6 DEF Next

-----------------------------------------------------------------------------
(* The theorems.                                                           *)

(* The bus starts with nothing in it.                                      *)
LEMMA InitHolds ==
  ASSUME Init
  PROVE  Inv
<1> USE FlashBusAssumption, ScoreboardAssumption DEF Init, SbInit
<1>1. TypeOK
  <2>1. 0 \in Chips /\ <<>> \in Seq(FlashCmds) /\ <<>> \in Seq(BOOLEAN) /\ 0 \in 0 .. BusyTime
    BY DEF Chips
  <2>2. SbTypeOK
    BY <2>1 DEF SbTypeOK, Stages
  <2>3. /\ chip \in [Chips -> [st : {"ready", "busy"}, op : FlashOps \union {"NONE"},
                               tag : Tags \union {NoTag}]]
        /\ out \in [Tags -> OutValues]
        /\ cmdR \in [tag : Tags \union {NoTag}, chip : Chips]
    BY <2>1 DEF Idle, Unused, OutValues
  <2> QED
    BY <2>2, <2>3 DEF TypeOK, States, OutValues, FlashCmdQDepth, AckQDepth, ReadTagQDepth,
       MkFIFO
<1>2. Control
  <2>1. ASSUME NEW c \in Chips PROVE ChipControl(c)
    <3>1. nStart(c) = 0 /\ nPoll(c) = 0
      BY CountEmpty DEF nStart, nPoll, StartInWork, PollInWork, StartStates, StatusStates
    <3> QED
      BY <3>1 DEF ChipControl, StartsFit, PollsFit, Quiet, WorkFirst, InStage, ChipFits, OfChip,
                  Begun, Issued, Polled, Idle
  <2> QED
    BY <2>1 DEF Control, QueuedFit, InOrder, InWorkFits, DataFits, DataStates, StartStates,
                PollStates, StatusStates
<1>3. ReadsFit
  <2>1. Words = <<>> /\ Len(Words) = 0
    BY DEF Words
  <2>2. WordsCount
    BY <2>1 DEF WordsCount, PageOpen
  <2>3. WordsMatch
    BY <2>1 DEF WordsMatch, InPages
  <2> QED
    BY <2>2, <2>3 DEF ReadsFit, PageOpen
<1> QED
  BY <1>1, <1>2, <1>3 DEF Inv

(* In every state a command that is in work on the bus is a step of the    *)
(* first command of its chip, each chip has at most one start and one poll *)
(* on their way, and the words read and not yet delivered are pages of the *)
(* tags that wait for them.                                                *)
THEOREM Invariance == Spec => []Inv
<1>1. Inv /\ [Next]_vars => Inv'
  BY TypesKept, ControlKept, ReadsKept DEF Inv
<1> QED
  BY <1>1, InitHolds, PTL DEF Spec

(* The registers and queues of a bus keep to their types and depths.       *)
THEOREM TypeCorrect == Spec => []TypeOK
<1>1. Inv => TypeOK
  BY DEF Inv
<1> QED
  BY <1>1, Invariance, PTL

(* The polls PollsAreAnswered counts are those of Control.                 *)
LEMMA PollsCounted ==
  ASSUME TypeOK, NEW c \in Chips
  PROVE  PollsQueued(c) = CountIn(cmdOutQ, Polls(c))
<1>1. cmdOutQ \in Seq(BusCmds)
  BY DEF TypeOK, SbTypeOK
<1>2. ASSUME NEW i \in 1 .. Len(cmdOutQ)
      PROVE  cmdOutQ[i] \in Polls(c) <=> cmdOutQ[i].chip = c /\ cmdOutQ[i].busOp \in PollOps
  BY <1>1 DEF Polls
<1>3. {i \in 1 .. Len(cmdOutQ) : cmdOutQ[i] \in Polls(c)}
        = {i \in 1 .. Len(cmdOutQ) : cmdOutQ[i].chip = c /\ cmdOutQ[i].busOp \in PollOps}
  BY <1>2
<1> QED
  BY <1>3 DEF PollsQueued, CountIn

(* A chip is told to start only when it is ready, it keeps the page that   *)
(* is being read out of it, and a chip waits for a status exactly while    *)
(* one poll of it is queued, in work or answered.                          *)
THEOREM ChipsPolled == Spec => []ChipsArePolled
<1>1. ASSUME Inv PROVE ChipsArePolled
  <2>1. TypeOK /\ Control
    BY <1>1 DEF Inv
  <2>2. PollsAreAnswered
    <3> SUFFICES ASSUME NEW c \in Chips
                 PROVE  PollsQueued(c) + (IF PollInWork(c) THEN 1 ELSE 0) + Len(chipBusy[c])
                          = IF chipStages[c] \in {"RD_DATA", "WAIT_STATUS"} THEN 1 ELSE 0
      BY DEF PollsAreAnswered
    <3>1. PollsFit(c)
      BY <2>1 DEF Control, ChipControl
    <3> QED
      BY <2>1, <3>1, PollsCounted DEF PollsFit, nPoll, Polled
  <2>3. cmdR.chip \in Chips /\ ChipControl(cmdR.chip)
    BY <2>1 DEF TypeOK, Control
  <2>4. state \in {"READ_PAGE_REQ", "WRITE_PAGE", "ERASE_BLOCK"} => chip[cmdR.chip].st = "ready"
    <3> SUFFICES ASSUME state \in {"READ_PAGE_REQ", "WRITE_PAGE", "ERASE_BLOCK"}
                 PROVE  chip[cmdR.chip].st = "ready"
      OBVIOUS
    <3>1. StartInWork(cmdR.chip)
      BY DEF StartInWork, StartStates
    <3>2. nStart(cmdR.chip) # 0
      BY <2>1, <2>3, <3>1, ControlTypes DEF nStart
    <3> QED
      BY <2>3, <3>2 DEF ChipControl, ChipFits, Begun
  <2>5. state \in {"READ_DATA_WAIT_BUF", "READ_DATA"} =>
          chip[cmdR.chip] = [st |-> "ready", op |-> "READ_PAGE", tag |-> cmdR.tag]
    <3>1. chip[cmdR.chip] \in [st : {"ready", "busy"}, op : FlashOps \union {"NONE"},
                               tag : Tags \union {NoTag}]
      BY <2>1, <2>3 DEF TypeOK
    <3> QED
      BY <2>1, <2>3, <3>1 DEF Control, DataFits, DataStates, ChipControl, ChipFits
  <2> QED
    BY <2>2, <2>4, <2>5 DEF ChipsArePolled, ChipsNotDisturbed
<1> QED
  BY <1>1, Invariance, PTL

(* A place lies in the page its quotient names.                            *)
LEMMA PageOfPlace ==
  ASSUME NEW n \in Nat \ {0}, NEW k \in Nat, NEW page, page = 1 + (k \div n)
  PROVE  page \in Nat /\ page > 0 /\ n * (page - 1) <= k /\ k < n * page
<1>1. PICK v \in Nat, r \in 0 .. n - 1 : v = k \div n /\ k = v * n + r
  OBVIOUS
<1>2. n * (1 + v) = v * n + n /\ n * v = v * n /\ v * n \in Nat
  OBVIOUS
<1>3. page = 1 + v /\ page - 1 = v
  BY <1>1
<1>4. PICK u \in Nat : u = v * n /\ n * (page - 1) = u /\ n * page = u + n
  BY <1>2, <1>3
<1> QED
  BY <1>1, <1>3, <1>4

(* What reaches the user carries the tag of the command it was read for,   *)
(* and the bus never finds the queue of words full.                        *)
THEOREM ReadWordsInPlace == Spec => []ReadWordsArrive
<1>1. ASSUME Inv PROVE ReadWordsArrive
  <2>1. TypeOK /\ ReadsFit
    BY <1>1 DEF Inv
  <2> SUFFICES ASSUME NEW i \in 1 .. Len(Words),
                      NEW page, page = 1 + (rdWdCnt + i - 1) \div PageWords
               PROVE  page <= Len(readTagQ) /\ Words[i] = readTagQ[page]
    BY <2>1 DEF ReadWordsArrive, ReadsFit, Words
  <2>2. PICK m \in Nat, l \in Nat, d \in Nat, n \in Nat \ {0} :
          m = Len(readTagQ) /\ l = Len(Words) /\ d = rdWdCnt /\ n = PageWords
    BY <2>1, ReadTypes
  <2>3. PICK k \in Nat : k = d + i - 1 /\ k < d + l
    BY <2>2
  <2>4. page \in Nat /\ page > 0 /\ n * (page - 1) <= k /\ k < n * page
    <3>1. page = 1 + (k \div n)
      BY <2>2, <2>3
    <3> QED
      BY <3>1, PageOfPlace
  <2>5. d + l <= n * m
    <3>1. n * (m - 1) = n * m - n /\ n * m \in Int /\ n * (m - 1) \in Int
      BY Multiples
    <3> QED
      BY <2>1, <2>2, <3>1 DEF ReadsFit, WordsCount, PageOpen
  <2>6. page <= m
    <3> SUFFICES ASSUME ~(page <= m) PROVE FALSE
      OBVIOUS
    <3>1. PICK p \in Nat : p = page - 1 /\ m <= p
      BY <2>4
    <3>2. n * m <= n * p /\ n * m \in Int /\ n * p \in Int
      BY <3>1, MultiplesGrow, Multiples
    <3>3. PICK u \in Int, v \in Int : u = n * m /\ v = n * p
      BY <3>2
    <3>4. k < u /\ u <= v /\ v <= k
      BY <2>3, <2>4, <2>5, <3>1, <3>2, <3>3
    <3> QED
      BY <3>4
  <2> QED
    BY <2>1, <2>2, <2>3, <2>4, <2>6 DEF ReadsFit, WordsMatch, InPages
<1> QED
  BY <1>1, Invariance, PTL

-----------------------------------------------------------------------------
(***************************************************************************)
(* Order of the commands and content of the pages.                         *)
(***************************************************************************)
PendingCmds == [tag : Tags, op : FlashOps]
OpOf(cmd)   == [tag |-> cmd.tag, op |-> cmd.op]
Ours(c)     == {x \in FlashCmds : x.chip = c}

(* How many of the first j elements of q belong to A.                      *)
CountTo(q, A, j) == Cardinality({i \in 1 .. j : q[i] \in A})

(* 1 if the chip has begun the first command of its queue.                 *)
Gone(c) == IF Begun(c) \/ Finished(c) THEN 1 ELSE 0

(* What a chip has not begun, p, is the rest of its queue q, the first g   *)
(* of which are begun, and what waits for it in the queue f of the         *)
(* controller.                                                            *)
InPlace(p, q, g, f, c) ==
  /\ Len(p) = Len(q) - g + CountIn(f, Ours(c))
  /\ \A i \in 1 .. Len(q) : i > g => p[i - g] = OpOf(q[i])
  /\ \A j \in 1 .. Len(f) : f[j].chip = c =>
       p[Len(q) - g + CountTo(f, Ours(c), j)] = OpOf(f[j])

Positions ==
  /\ pending \in [Chips -> Seq(PendingCmds)]
  /\ \A c \in Chips : InPlace(pending[c], chipQs[c], Gone(c), flashCmdQ, c)

Owed(t) == out[t].phase \in {"accepted", "sending"}
Done(t) == out[t].phase = "done"

OutFits ==
  \A t \in Tags :
    /\ out[t].phase = "free" => out[t] = Unused
    /\ out[t].phase = "sending" => out[t].op = "WRITE_PAGE"
    /\ out[t].phase = "accepted" /\ out[t].op # "ERASE_BLOCK" => out[t].left = PageWords

(* A tag is owed for at most one command that is not begun, ...            *)
PendingOwed ==
  \A c \in Chips : \A k \in 1 .. Len(pending[c]) :
    Owed(pending[c][k].tag) /\ out[pending[c][k].tag].op = pending[c][k].op

PendingOnce ==
  \A c, d \in Chips : \A k \in 1 .. Len(pending[c]), l \in 1 .. Len(pending[d]) :
    pending[c][k].tag = pending[d][l].tag => c = d /\ k = l

(* ... or stands for what one chip does or has just done, ...              *)
NotBegun(t) == \A d \in Chips : Begun(d) => chip[d].tag # t

PendingApart == \A c \in Chips : \A k \in 1 .. Len(pending[c]) : NotBegun(pending[c][k].tag)

BegunFits ==
  \A c \in Chips : Begun(c) =>
    /\ chip[c].tag \in Tags /\ out[chip[c].tag].op = chip[c].op
    /\ chip[c].st = "busy" => Owed(chip[c].tag)
    /\ chip[c].st = "ready" => Done(chip[c].tag)
    /\ chip[c].op = "READ_PAGE" => out[chip[c].tag].left = PageWords

BegunOnce ==
  \A c, d \in Chips : Begun(c) /\ Begun(d) /\ chip[c].tag = chip[d].tag => c = d

(* ... or for the page that is about to be read out, ...                   *)
ReadOut == state \in DataStates /\ dataCnt = 0

ReadOutFits ==
  ReadOut =>
    /\ Done(cmdR.tag) /\ out[cmdR.tag].op = "READ_PAGE" /\ out[cmdR.tag].left = PageWords
    /\ NotBegun(cmdR.tag)
    /\ \A i \in 1 .. Len(readTagQ) : readTagQ[i] # cmdR.tag

(* ... or for one of the pages on their way to the user, ...               *)
PagesOwed ==
  \A i \in 1 .. Len(readTagQ) :
    /\ Done(readTagQ[i]) /\ out[readTagQ[i]].op = "READ_PAGE" /\ NotBegun(readTagQ[i])
    /\ out[readTagQ[i]].left = IF i = 1 THEN PageWords - rdWdCnt ELSE PageWords

PagesOnce == \A i, j \in 1 .. Len(readTagQ) : readTagQ[i] = readTagQ[j] => i = j

(* ... or for one of the answers.                                          *)
AcksOwed ==
  \A i \in 1 .. Len(ackQ) :
    Done(ackQ[i].tag) /\ out[ackQ[i].tag].op # "READ_PAGE" /\ NotBegun(ackQ[i].tag)

AcksOnce == \A i, j \in 1 .. Len(ackQ) : ackQ[i].tag = ackQ[j].tag => i = j

Owners ==
  /\ OutFits /\ PendingOwed /\ PendingOnce /\ PendingApart /\ BegunFits /\ BegunOnce
  /\ ReadOutFits /\ PagesOwed /\ PagesOnce /\ AcksOwed /\ AcksOnce

-----------------------------------------------------------------------------
(* Write data: a request for the page of a tag is queued once, while the   *)
(* command of the tag waits for its data at the head of its chip.          *)
BufReqs(u) == {x \in BusCmds : x.tag = u /\ x.busOp = "WRITE_DATA_BUF_REQ"}

nAsked(u) ==
  CountIn(cmdOutQ, BufReqs(u)) + CountIn(wrDataBufReqQ, {u}) + CountIn(wrDataReqQ, {u})

Writes(c, u) ==
  chipQs[c] # <<>> /\ Head(chipQs[c]).tag = u /\ Head(chipQs[c]).op = "WRITE_PAGE"

Requested(u) == \E c \in Chips : chipStages[c] = "WR_BUF_REQ_ISSUED" /\ Writes(c, u)

Started(u) ==
  \E c \in Chips : chipStages[c] \in Issued \union Polled /\ ~Finished(c) /\ Writes(c, u)

Fetching(t) == out[t].phase = "sending" /\ out[t].left > 0

AskedFits ==
  \A u \in Tags :
    \/ nAsked(u) = 0
    \/ nAsked(u) = 1 /\ Requested(u) /\ out[u].phase = "accepted"

SendingFits == \A t \in Tags : out[t].phase = "sending" => Requested(t) \/ Started(t)

NoFetch == \A t \in Tags : ~Fetching(t)

FetchFits ==
  /\ writeFetchSt = 0 /\ writeWordCnt = 0 => NoFetch /\ wrDataReqQ = <<>>
  /\ wrDataReqQ # <<>> => NoFetch /\ Len(wrDataReqQ) = 1 /\ writeWordCnt = 0
  /\ \A t \in Tags : Fetching(t) => Requested(t) /\ out[t].left = PageWords - writeWordCnt
  /\ \A t, u \in Tags : Fetching(t) /\ Fetching(u) => t = u

Full       == Len(writePageBufFront) = PageWords
ToTransfer == IF wrState = 1 THEN PageWords - wdataCnt ELSE 0
Offset     == IF wrState = 1 /\ wdataCnt < PageWords THEN wdataCnt ELSE 0
Writing    == state \in {"WRITE_PAGE_WAIT", "WRITE_PAGE"}
Data       == writePageBufFront \o writePageBufBack

(* The page at the head of the buffers has been asked for by the bus.      *)
Commanded == \E i \in 1 .. Len(cmdOutQ) : cmdOutQ[i].busOp = "WRITE_CMD_DATA"
Moving    == wrDataTransReqQ # <<>> \/ ToTransfer > 0

(* The buffers hold the pages of the tags q, the last one perhaps not yet  *)
(* complete.                                                               *)
PageFits(q, p) ==
  /\ out[q[p]].phase = "sending"
  /\ out[q[p]].left = IF p = Len(q) /\ writeWordCnt > 0 THEN PageWords - writeWordCnt ELSE 0
  /\ Requested(q[p]) \/ (p = 1 /\ (Commanded \/ Moving))

BuffersFit(q) ==
  /\ InPages(Data, q, Offset, PageWords)
  /\ Offset + Len(Data) = IF writeWordCnt = 0 THEN PageWords * Len(q)
                          ELSE PageWords * (Len(q) - 1) + writeWordCnt
  /\ \A p, r \in 1 .. Len(q) : q[p] = q[r] => p = r

FrontFits(q) ==
  /\ \A i \in 1 .. Len(cmdOutQ) : cmdOutQ[i].busOp = "WRITE_CMD_DATA" =>
       Full /\ Len(q) > 0 /\ q[1] = cmdOutQ[i].tag
  /\ Moving => Len(q) > 0 /\ q[1] = cmdR.tag

PagesFit(q) ==
  /\ BuffersFit(q) /\ FrontFits(q)
  /\ \A p \in 1 .. Len(q) : PageFits(q, p)

TransferFits ==
  /\ Commanded => ~Moving
  /\ Moving => Writing
  /\ wrDataTransReqQ # <<>> => Full /\ Len(wrDataTransReqQ) = 1 /\ ToTransfer = 0
  /\ Writing => dataCnt + Len(encodeOutQ) + ToTransfer
                  = IF wrDataTransReqQ = <<>> THEN PageWords ELSE 0
  /\ ~Writing => encodeOutQ = <<>>
  /\ state = "WRITE_PAGE_WAIT" => dataCnt = 0
  /\ \A i \in 1 .. Len(encodeOutQ) : encodeOutQ[i] = cmdR.tag

(* A page announced to the scoreboard is at the head of the front buffer,  *)
(* or its command has been started.                                        *)
Announced(x) == x.rdy => (Full /\ Head(writePageBufFront) = x.tag) \/ Started(x.tag)

WriteFits ==
  /\ AskedFits /\ SendingFits /\ FetchFits /\ TransferFits
  /\ Announced(wdataRdy) /\ Announced(wdataRdyR)
  /\ \E q \in Seq(Tags) : PagesFit(q)

-----------------------------------------------------------------------------
(* Counting up to a place.                                                 *)

(* The count up to a place of the set is between one and the whole count,  *)
(* the count up to the end is the whole, and the first counts one.         *)
LEMMA CountToBounds ==
  ASSUME NEW S, NEW q \in Seq(S), NEW A
  PROVE  /\ CountTo(q, A, Len(q)) = CountIn(q, A)
         /\ \A j \in 1 .. Len(q) : CountTo(q, A, j) \in Nat /\ CountTo(q, A, j) <= CountIn(q, A)
         /\ \A j \in 1 .. Len(q) : q[j] \in A => CountTo(q, A, j) >= 1
         /\ Len(q) > 0 /\ q[1] \in A => CountTo(q, A, 1) = 1
<1>1. CountTo(q, A, Len(q)) = CountIn(q, A)
  BY DEF CountTo, CountIn
<1>2. ASSUME NEW j \in 1 .. Len(q)
      PROVE  /\ CountTo(q, A, j) \in Nat /\ CountTo(q, A, j) <= CountIn(q, A)
             /\ q[j] \in A => CountTo(q, A, j) >= 1
  <2> DEFINE P == {i \in 1 .. j : q[i] \in A}
             R == {i \in 1 .. Len(q) : q[i] \in A}
  <2>1. IsFiniteSet(R)
    BY CountIsNat
  <2>0. P \in SUBSET R
    BY LenProperties
  <2>2. IsFiniteSet(P) /\ Cardinality(P) <= Cardinality(R) /\ Cardinality(P) \in Nat
    BY <2>0, <2>1, FS_Subset, FS_CardinalityType
  <2>3. ASSUME q[j] \in A PROVE Cardinality(P) >= 1
    <3>1. j \in P
      BY <2>3
    <3>2. Cardinality(P) # 0
      BY <2>2, <3>1, FS_EmptySet
    <3> QED
      BY <2>2, <3>2
  <2> QED
    BY <2>2, <2>3 DEF CountTo, CountIn
<1>3. ASSUME Len(q) > 0, q[1] \in A PROVE CountTo(q, A, 1) = 1
  <2>1. {i \in 1 .. 1 : q[i] \in A} = {1}
    BY <1>3
  <2> QED
    BY <2>1, FS_Singleton DEF CountTo
<1> QED
  BY <1>1, <1>2, <1>3

(* Enqueuing leaves the counts as they are, ...                            *)
LEMMA CountToEnqueued ==
  ASSUME NEW S, NEW q \in Seq(S), NEW x \in S, NEW A, NEW j \in 1 .. Len(q)
  PROVE  CountTo(Append(q, x), A, j) = CountTo(q, A, j)
<1>1. {i \in 1 .. j : Append(q, x)[i] \in A} = {i \in 1 .. j : q[i] \in A}
  <2>1. \A i \in 1 .. j : i \in 1 .. Len(q)
    OBVIOUS
  <2>2. \A i \in 1 .. j : Append(q, x)[i] = q[i]
    BY <2>1, Enqueued
  <2> QED
    BY <2>2
<1> QED
  BY <1>1 DEF CountTo

(* ... and dequeuing takes the first element out of each.                  *)
LEMMA CountToDequeued ==
  ASSUME NEW S, NEW q \in Seq(S), NotEmpty(q), NEW A, NEW j \in 1 .. Len(Tail(q))
  PROVE  /\ j + 1 \in 1 .. Len(q) /\ Tail(q)[j] = q[j + 1]
         /\ CountTo(q, A, j + 1) = CountTo(Tail(q), A, j) + (IF q[1] \in A THEN 1 ELSE 0)
<1>1. /\ Len(q) \in Nat /\ Len(Tail(q)) = Len(q) - 1 /\ Len(q) > 0 /\ Tail(q) \in Seq(S)
      /\ \A i \in 1 .. Len(q) - 1 : Tail(q)[i] = q[i + 1]
  BY Dequeued DEF NotEmpty
<1>2. j + 1 \in 1 .. Len(q) /\ Tail(q)[j] = q[j + 1]
  BY <1>1
<1> DEFINE P == {i \in 1 .. j : Tail(q)[i] \in A}
           R == {i \in 1 .. j + 1 : q[i] \in A}
           f == [i \in P |-> i + 1]
<1>3. IsFiniteSet(P) /\ IsFiniteSet(R) /\ Cardinality(P) \in Nat /\ Cardinality(R) \in Nat
  <2> DEFINE P0 == {i \in 1 .. Len(Tail(q)) : Tail(q)[i] \in A}
             R0 == {i \in 1 .. Len(q) : q[i] \in A}
  <2>1. IsFiniteSet(R0) /\ IsFiniteSet(P0)
    BY <1>1, CountIsNat
  <2>2. P \in SUBSET P0 /\ R \in SUBSET R0
    BY <1>1, <1>2
  <2> HIDE DEF P, R, P0, R0
  <2> QED
    BY <2>1, <2>2, FS_Subset, FS_CardinalityType
<1>4. f \in Bijection(P, R \ {1})
  <2>1. \A i \in P : f[i] \in R \ {1}
    BY <1>1
  <2>2. \A a, b \in P : f[a] = f[b] => a = b
    BY <1>1
  <2>3. \A r \in R \ {1} : r - 1 \in P /\ f[r - 1] = r
    <3> SUFFICES ASSUME NEW r \in R \ {1} PROVE r - 1 \in P /\ f[r - 1] = r
      OBVIOUS
    <3>1. r \in Nat /\ r - 1 \in 1 .. j /\ r - 1 \in 1 .. Len(q) - 1 /\ (r - 1) + 1 = r
      BY <1>1
    <3> QED
      BY <1>1, <3>1
  <2> QED
    BY <2>1, <2>2, <2>3 DEF Bijection, Injection, Surjection, IsInjective
<1>5. Cardinality(R \ {1}) = Cardinality(P)
  BY <1>3, <1>4, FS_Bijection, ZenonT(30) DEF ExistsBijection
<1>6. 1 \in R <=> q[1] \in A
  BY <1>1
<1>7. Cardinality(R \ {1}) = IF 1 \in R THEN Cardinality(R) - 1 ELSE Cardinality(R)
  BY <1>3, FS_RemoveElement
<1> HIDE DEF P, R
<1>8. Cardinality(R) = Cardinality(P) + (IF q[1] \in A THEN 1 ELSE 0)
  BY <1>3, <1>5, <1>6, <1>7
<1> QED
  BY <1>2, <1>8 DEF P, R, CountTo

-----------------------------------------------------------------------------
(* What the rules do to the chips.                                         *)

(* A visit of the scoreboard changes nothing, sends the next command for   *)
(* the first command of the queue of the chip, or takes the answer to the  *)
(* poll; with the answer that it has finished the first command leaves the *)
(* queue.                                                                  *)
LEMMA ServiceEffects ==
  ASSUME TypeOK, Control, ServiceReq
  PROVE  \E c \in Chips :
           /\ chipQs[c] # <<>>
           /\ \A d \in Chips : Begun(d)' <=> Begun(d)
           /\ \A d \in Chips : d # c => /\ Finished(d)' <=> Finished(d)
                                        /\ chipQs'[d] = chipQs[d] /\ chipStages'[d] = chipStages[d]
           /\ \/ /\ UNCHANGED <<chipQs, chipStages, cmdOutQ>>
                 /\ Finished(c)' <=> Finished(c)
              \/ /\ chipQs' = chipQs /\ ~Finished(c) /\ ~Finished(c)'
                 /\ \E x \in BusCmds :
                      /\ cmdOutQ' = Append(cmdOutQ, x)
                      /\ x.chip = c /\ x.tag = Head(chipQs[c]).tag
                      /\ Head(chipQs[c]).op = OpOfBusOp[x.busOp]
                      /\ x.busOp \notin PollOps => ~Begun(c)
                      /\ \/ /\ x.busOp = "WRITE_DATA_BUF_REQ"
                            /\ chipStages[c] = "INIT" /\ chipStages'[c] = "WR_BUF_REQ_ISSUED"
                         \/ /\ x.busOp = "WRITE_CMD_DATA" /\ WriteDataReady(c)
                            /\ chipStages[c] = "WR_BUF_REQ_ISSUED" /\ chipStages'[c] \in Issued
                         \/ /\ x.busOp \in {"READ_CMD", "ERASE_CMD"}
                            /\ chipStages[c] = "INIT" /\ chipStages'[c] \in Issued
                         \/ /\ x.busOp \in PollOps
                            /\ chipStages[c] \in Issued /\ chipStages'[c] \in Polled
              \/ /\ cmdOutQ' = cmdOutQ /\ chipQs' = chipQs /\ ~Finished(c) /\ ~Finished(c)'
                 /\ chipStages[c] \in Polled /\ chipStages'[c] \in Issued
              \/ /\ cmdOutQ' = cmdOutQ /\ chipQs'[c] = Tail(chipQs[c])
                 /\ ~Begun(c) /\ Finished(c) /\ ~Finished(c)'
                 /\ chipStages[c] \in Polled /\ chipStages'[c] = "INIT"
<1> DEFINE Effects(c) ==
           /\ chipQs[c] # <<>>
           /\ \A d \in Chips : Begun(d)' <=> Begun(d)
           /\ \A d \in Chips : d # c => /\ Finished(d)' <=> Finished(d)
                                        /\ chipQs'[d] = chipQs[d] /\ chipStages'[d] = chipStages[d]
           /\ \/ /\ UNCHANGED <<chipQs, chipStages, cmdOutQ>>
                 /\ Finished(c)' <=> Finished(c)
              \/ /\ chipQs' = chipQs /\ ~Finished(c) /\ ~Finished(c)'
                 /\ \E x \in BusCmds :
                      /\ cmdOutQ' = Append(cmdOutQ, x)
                      /\ x.chip = c /\ x.tag = Head(chipQs[c]).tag
                      /\ Head(chipQs[c]).op = OpOfBusOp[x.busOp]
                      /\ x.busOp \notin PollOps => ~Begun(c)
                      /\ \/ /\ x.busOp = "WRITE_DATA_BUF_REQ"
                            /\ chipStages[c] = "INIT" /\ chipStages'[c] = "WR_BUF_REQ_ISSUED"
                         \/ /\ x.busOp = "WRITE_CMD_DATA" /\ WriteDataReady(c)
                            /\ chipStages[c] = "WR_BUF_REQ_ISSUED" /\ chipStages'[c] \in Issued
                         \/ /\ x.busOp \in {"READ_CMD", "ERASE_CMD"}
                            /\ chipStages[c] = "INIT" /\ chipStages'[c] \in Issued
                         \/ /\ x.busOp \in PollOps
                            /\ chipStages[c] \in Issued /\ chipStages'[c] \in Polled
              \/ /\ cmdOutQ' = cmdOutQ /\ chipQs' = chipQs /\ ~Finished(c) /\ ~Finished(c)'
                 /\ chipStages[c] \in Polled /\ chipStages'[c] \in Issued
              \/ /\ cmdOutQ' = cmdOutQ /\ chipQs'[c] = Tail(chipQs[c])
                 /\ ~Begun(c) /\ Finished(c) /\ ~Finished(c)'
                 /\ chipStages[c] \in Polled /\ chipStages'[c] = "INIT"
<1>1. PICK c \in Chips : c = currChip
  BY DEF TypeOK, SbTypeOK
<1>2. NotEmpty(chipQs[c]) /\ UNCHANGED <<state, rdyReturnState, cmdR, chip>>
  BY <1>1 DEF ServiceReq, Scoreboards, DoServiceReq, bcVars
<1>0. /\ chipQs \in [Chips -> Seq(FlashCmds)] /\ chipStages \in [Chips -> Stages]
      /\ chipQs[c] \in Seq(FlashCmds) /\ chipQs[c] # <<>>
      /\ Head(chipQs[c]) \in FlashCmds /\ Head(chipQs[c]).chip = c
  <2>1. chipQs \in [Chips -> Seq(FlashCmds)] /\ chipStages \in [Chips -> Stages]
    BY ControlTypes
  <2>2. chipQs[c] \in Seq(FlashCmds)
    BY <2>1
  <2>3. /\ chipQs[c] # <<>> /\ Head(chipQs[c]) \in FlashCmds /\ Head(chipQs[c]) = chipQs[c][1]
        /\ 1 \in 1 .. Len(chipQs[c])
    BY <1>2, <2>2, Dequeued, EmptyIff
  <2> QED
    BY <2>1, <2>2, <2>3 DEF Control, ChipControl, OfChip
<1> DEFINE Sends(op, from, busOp, to) ==
             \E timer \in 0 .. BusyTime : Issue(c, op, from, busOp, to, timer)
<1>3. \/ Sends("READ_PAGE", "INIT", "READ_CMD", "RD_ISSUED")
      \/ Sends("READ_PAGE", "RD_ISSUED", "GET_STATUS_READ_DATA", "RD_DATA")
      \/ TakeStatus(c, "READ_PAGE", "RD_DATA", "RD_ISSUED")
      \/ Sends("WRITE_PAGE", "INIT", "WRITE_DATA_BUF_REQ", "WR_BUF_REQ_ISSUED")
      \/ /\ WriteDataReady(c)
         /\ Sends("WRITE_PAGE", "WR_BUF_REQ_ISSUED", "WRITE_CMD_DATA", "WR_ISSUED")
      \/ AwaitWriteData(c)
      \/ Sends("WRITE_PAGE", "WR_ISSUED", "WRITE_GET_STATUS", "WAIT_STATUS")
      \/ TakeStatus(c, "WRITE_PAGE", "WAIT_STATUS", "WR_ISSUED")
      \/ Sends("ERASE_BLOCK", "INIT", "ERASE_CMD", "ER_ISSUED")
      \/ Sends("ERASE_BLOCK", "ER_ISSUED", "ERASE_GET_STATUS", "WAIT_STATUS")
      \/ TakeStatus(c, "ERASE_BLOCK", "WAIT_STATUS", "ER_ISSUED")
  <2>1. BusyTime \in 0 .. BusyTime /\ 0 \in 0 .. BusyTime
    BY ScoreboardAssumption
  <2>2. busyTimers[c] \in 0 .. BusyTime
    BY DEF TypeOK, SbTypeOK
  <2> QED
    BY <1>1, <2>1, <2>2, Zenon DEF ServiceReq, Scoreboards, DoServiceReq
<1>4. /\ {"READ_CMD", "WRITE_CMD_DATA", "ERASE_CMD"} = StartOps
      /\ {"GET_STATUS_READ_DATA", "WRITE_GET_STATUS", "ERASE_GET_STATUS"} = PollOps
      /\ StartOps \subseteq BusOps /\ PollOps \subseteq BusOps /\ "WRITE_DATA_BUF_REQ" \in BusOps
  BY DEF StartOps, PollOps, BusOps
<1>5. ASSUME NEW op, NEW from, NEW busOp \in BusOps, NEW to, Sends(op, from, busOp, to),
             op = OpOfBusOp[busOp],
             \/ busOp \in {"READ_CMD", "ERASE_CMD"} /\ from = "INIT" /\ to \in Issued
             \/ /\ busOp = "WRITE_CMD_DATA" /\ WriteDataReady(c)
                /\ from = "WR_BUF_REQ_ISSUED" /\ to \in Issued
             \/ busOp = "WRITE_DATA_BUF_REQ" /\ from = "INIT" /\ to = "WR_BUF_REQ_ISSUED"
             \/ busOp \in PollOps /\ from \in Issued /\ to \in Polled
      PROVE  Effects(c)
  <2>1. PICK timer \in 0 .. BusyTime : Issue(c, op, from, busOp, to, timer)
    BY <1>5
  <2>2. \/ busOp \in StartOps /\ from \in {"INIT", "WR_BUF_REQ_ISSUED"} /\ to \in Issued
        \/ busOp = "WRITE_DATA_BUF_REQ" /\ from = "INIT" /\ to = "WR_BUF_REQ_ISSUED"
        \/ busOp \in PollOps /\ from \in Issued /\ to \in Polled
    BY <1>4, <1>5
  <2>3. /\ \A d \in Chips : (Begun(d)' <=> Begun(d)) /\ (Finished(d)' <=> Finished(d))
        /\ ~Finished(c) /\ (busOp \notin PollOps => ~Begun(c))
    BY <1>2, <1>5, <2>1, <2>2, IssueKeeps
  <2>4. PICK x \in BusCmds : /\ cmdOutQ' = Append(cmdOutQ, x)
                             /\ x.tag = Head(chipQs[c]).tag /\ x.chip = c /\ x.busOp = busOp
    <3>1. [tag |-> Head(chipQs[c]).tag, chip |-> Head(chipQs[c]).chip, busOp |-> busOp]
             \in BusCmds
      BY <1>0, <1>5 DEF FlashCmds, BusCmds
    <3> QED
      BY <1>0, <2>1, <3>1 DEF Issue
  <2>5. /\ Head(chipQs[c]).op = op /\ chipStages[c] = from /\ chipQs' = chipQs
        /\ chipStages'[c] = to /\ \A d \in Chips : d # c => chipStages'[d] = chipStages[d]
    BY <1>0, <2>1 DEF Issue
  <2>6. \/ /\ x.busOp = "WRITE_DATA_BUF_REQ"
           /\ chipStages[c] = "INIT" /\ chipStages'[c] = "WR_BUF_REQ_ISSUED"
        \/ /\ x.busOp = "WRITE_CMD_DATA" /\ WriteDataReady(c)
           /\ chipStages[c] = "WR_BUF_REQ_ISSUED" /\ chipStages'[c] \in Issued
        \/ /\ x.busOp \in {"READ_CMD", "ERASE_CMD"}
           /\ chipStages[c] = "INIT" /\ chipStages'[c] \in Issued
        \/ /\ x.busOp \in PollOps
           /\ chipStages[c] \in Issued /\ chipStages'[c] \in Polled
    BY <1>5, <2>4, <2>5
  <2>7. /\ x.busOp \notin PollOps => ~Begun(c)
        /\ Head(chipQs[c]).op = OpOfBusOp[x.busOp]
    BY <1>5, <2>3, <2>4, <2>5
  <2>8. ~Finished(c)'
    BY <2>3
  <2> QED
    BY <1>0, <2>3, <2>4, <2>5, <2>6, <2>7, <2>8, Zenon
<1>6. ASSUME NEW op, NEW from \in Polled, NEW poll \in Issued, TakeStatus(c, op, from, poll)
      PROVE  Effects(c)
  <2>1. /\ \A d \in Chips : Begun(d)' <=> Begun(d)
        /\ \A d \in Chips : d # c => (Finished(d)' <=> Finished(d)) /\ chipQs'[d] = chipQs[d]
        /\ \/ Begun(c) /\ ~Finished(c) /\ ~Finished(c)' /\ chipQs' = chipQs
           \/ /\ ~Begun(c) /\ Finished(c) /\ ~Finished(c)'
              /\ chipQs' = [chipQs EXCEPT ![c] = Tail(chipQs[c])]
    BY <1>2, <1>6, AnswerKeeps
  <2>2. /\ cmdOutQ' = cmdOutQ /\ chipStages[c] = from
        /\ \A d \in Chips : d # c => chipStages'[d] = chipStages[d]
        /\ \/ chipStages'[c] = poll /\ chipQs'[c] = chipQs[c]
           \/ chipStages'[c] = "INIT" /\ chipQs'[c] = Tail(chipQs[c])
    BY <1>0, <1>6 DEF TakeStatus
  <2>3. chipQs[c] # Tail(chipQs[c])
    <3>1. PICK t : t = Tail(chipQs[c])
      OBVIOUS
    <3>2. Len(t) = Len(chipQs[c]) - 1 /\ Len(chipQs[c]) \in Nat
      BY <1>0, <1>2, <3>1, Dequeued
    <3>3. Len(t) # Len(chipQs[c])
      BY <3>2
    <3> QED
      BY <3>1, <3>3
  <2>4. CASE Begun(c) /\ ~Finished(c) /\ ~Finished(c)' /\ chipQs' = chipQs
    BY <1>0, <1>6, <2>1, <2>2, <2>3, <2>4
  <2>5. CASE /\ ~Begun(c) /\ Finished(c) /\ ~Finished(c)'
             /\ chipQs' = [chipQs EXCEPT ![c] = Tail(chipQs[c])]
    BY <1>0, <1>6, <2>1, <2>2, <2>3, <2>5
  <2> QED
    BY <2>1, <2>4, <2>5
<1>7. ASSUME AwaitWriteData(c) PROVE Effects(c)
  <2>1. UNCHANGED <<chipQs, chipStages, cmdOutQ, chipBusy, state, cmdR>>
    BY <1>2, <1>7 DEF AwaitWriteData
  <2>2. \A d \in Chips : (Begun(d)' <=> Begun(d)) /\ (Finished(d)' <=> Finished(d))
    BY <2>1 DEF Begun, Finished, nStart, StartInWork
  <2> QED
    BY <1>0, <2>1, <2>2
<1> SUFFICES Effects(c)
  BY Zenon
<1> HIDE DEF Sends, Effects
<1>8. CASE Sends("READ_PAGE", "INIT", "READ_CMD", "RD_ISSUED")
  BY <1>5, <1>8 DEF OpOfBusOp, BusOps, Issued
<1>9. CASE Sends("READ_PAGE", "RD_ISSUED", "GET_STATUS_READ_DATA", "RD_DATA")
  BY <1>5, <1>9 DEF OpOfBusOp, PollOps, BusOps, Issued, Polled
<1>10. CASE Sends("WRITE_PAGE", "INIT", "WRITE_DATA_BUF_REQ", "WR_BUF_REQ_ISSUED")
  BY <1>5, <1>10 DEF OpOfBusOp, BusOps
<1>11. CASE /\ WriteDataReady(c)
            /\ Sends("WRITE_PAGE", "WR_BUF_REQ_ISSUED", "WRITE_CMD_DATA", "WR_ISSUED")
  BY <1>5, <1>11 DEF OpOfBusOp, BusOps, Issued
<1>12. CASE Sends("WRITE_PAGE", "WR_ISSUED", "WRITE_GET_STATUS", "WAIT_STATUS")
  BY <1>5, <1>12 DEF OpOfBusOp, PollOps, BusOps, Issued, Polled
<1>13. CASE Sends("ERASE_BLOCK", "INIT", "ERASE_CMD", "ER_ISSUED")
  BY <1>5, <1>13 DEF OpOfBusOp, BusOps, Issued
<1>14. CASE Sends("ERASE_BLOCK", "ER_ISSUED", "ERASE_GET_STATUS", "WAIT_STATUS")
  BY <1>5, <1>14 DEF OpOfBusOp, PollOps, BusOps, Issued, Polled
<1>15. CASE \/ TakeStatus(c, "READ_PAGE", "RD_DATA", "RD_ISSUED")
            \/ TakeStatus(c, "WRITE_PAGE", "WAIT_STATUS", "WR_ISSUED")
            \/ TakeStatus(c, "ERASE_BLOCK", "WAIT_STATUS", "ER_ISSUED")
  BY <1>6, <1>15 DEF Issued, Polled
<1> QED
  BY <1>3, <1>7, <1>8, <1>9, <1>10, <1>11, <1>12, <1>13, <1>14, <1>15

-----------------------------------------------------------------------------
(* Where the commands wait.                                                *)

(* A command more waits in the controller's queue, for chip c or another.  *)
LEMMA PlacesAccepted ==
  ASSUME NEW p \in Seq(PendingCmds), NEW q \in Seq(FlashCmds), NEW g \in {0, 1},
         NEW f \in Seq(FlashCmds), NEW c, NEW x \in FlashCmds,
         InPlace(p, q, g, f, c), g <= Len(q)
  PROVE  InPlace(IF x.chip = c THEN Append(p, OpOf(x)) ELSE p, q, g, Append(f, x), c)
<1>1. /\ Len(p) \in Nat /\ Len(q) \in Nat /\ Len(f) \in Nat
      /\ CountIn(f, Ours(c)) \in Nat
  <2>1. CountIn(f, Ours(c)) \in Nat
    BY CountIsNat
  <2> QED
    BY <2>1, LenProperties
<1>2. OpOf(x) \in PendingCmds /\ (x \in Ours(c) <=> x.chip = c)
  BY DEF OpOf, PendingCmds, FlashCmds, Ours
<1>3. CountIn(Append(f, x), Ours(c)) = CountIn(f, Ours(c)) + (IF x.chip = c THEN 1 ELSE 0)
  BY <1>2, CountEnqueued
<1>4. /\ Append(f, x) \in Seq(FlashCmds) /\ Len(Append(f, x)) = Len(f) + 1
      /\ Append(f, x)[Len(f) + 1] = x
      /\ \A j \in 1 .. Len(f) : /\ Append(f, x)[j] = f[j]
                                /\ CountTo(Append(f, x), Ours(c), j) = CountTo(f, Ours(c), j)
      /\ CountTo(Append(f, x), Ours(c), Len(f) + 1) = CountIn(Append(f, x), Ours(c))
  <2>1. /\ Append(f, x) \in Seq(FlashCmds) /\ Len(Append(f, x)) = Len(f) + 1
        /\ Append(f, x)[Len(f) + 1] = x
        /\ \A j \in 1 .. Len(f) : Append(f, x)[j] = f[j]
    BY Enqueued
  <2>2. \A j \in 1 .. Len(f) : CountTo(Append(f, x), Ours(c), j) = CountTo(f, Ours(c), j)
    BY CountToEnqueued
  <2>3. CountTo(Append(f, x), Ours(c), Len(Append(f, x))) = CountIn(Append(f, x), Ours(c))
    BY <2>1, CountToBounds
  <2> QED
    BY <2>1, <2>2, <2>3
<1>5. \A j \in 1 .. Len(f) : f[j].chip = c =>
        /\ CountTo(f, Ours(c), j) \in 1 .. CountIn(f, Ours(c))
        /\ Len(q) - g + CountTo(f, Ours(c), j) \in 1 .. Len(p)
  <2> SUFFICES ASSUME NEW j \in 1 .. Len(f), f[j].chip = c
               PROVE  CountTo(f, Ours(c), j) \in 1 .. CountIn(f, Ours(c))
    BY <1>1 DEF InPlace
  <2>1. f[j] \in Ours(c)
    BY DEF Ours
  <2> QED
    BY <1>1, <2>1, CountToBounds
<1>6. \A j \in 1 .. Len(f) + 1 : j \in 1 .. Len(f) \/ j = Len(f) + 1
  BY <1>1
<1>7. CASE x.chip = c
  <2> DEFINE r == Append(p, OpOf(x))
  <2>1. /\ Len(r) = Len(p) + 1 /\ r[Len(p) + 1] = OpOf(x)
        /\ \A k \in 1 .. Len(p) : r[k] = p[k]
    BY <1>2, Enqueued
  <2> HIDE DEF r
  <2>2. Len(r) = Len(q) - g + CountIn(Append(f, x), Ours(c))
    BY <1>1, <1>3, <1>7, <2>1 DEF InPlace
  <2>3. \A i \in 1 .. Len(q) : i > g => r[i - g] = OpOf(q[i])
    <3> SUFFICES ASSUME NEW i \in 1 .. Len(q), i > g PROVE r[i - g] = OpOf(q[i])
      OBVIOUS
    <3>1. i - g \in 1 .. Len(p)
      BY <1>1 DEF InPlace
    <3> QED
      BY <2>1, <3>1 DEF InPlace
  <2>4. \A j \in 1 .. Len(f) : f[j].chip = c =>
          r[Len(q) - g + CountTo(f, Ours(c), j)] = OpOf(f[j])
    BY <1>5, <2>1 DEF InPlace
  <2>5. r[Len(q) - g + CountIn(Append(f, x), Ours(c))] = OpOf(x)
    BY <1>1, <1>3, <1>7, <2>1 DEF InPlace
  <2>6. \A j \in 1 .. Len(Append(f, x)) : Append(f, x)[j].chip = c =>
          r[Len(q) - g + CountTo(Append(f, x), Ours(c), j)] = OpOf(Append(f, x)[j])
    BY <1>4, <1>6, <2>4, <2>5
  <2>7. InPlace(r, q, g, Append(f, x), c)
    BY <2>2, <2>3, <2>6 DEF InPlace
  <2> QED
    BY <1>7, <2>7 DEF r
<1>8. CASE x.chip # c
  <2>1. Len(p) = Len(q) - g + CountIn(Append(f, x), Ours(c))
    BY <1>1, <1>3, <1>8 DEF InPlace
  <2>2. \A j \in 1 .. Len(Append(f, x)) : Append(f, x)[j].chip = c =>
          p[Len(q) - g + CountTo(Append(f, x), Ours(c), j)] = OpOf(Append(f, x)[j])
    BY <1>4, <1>6, <1>8 DEF InPlace
  <2> QED
    BY <1>8, <2>1, <2>2 DEF InPlace
<1> QED
  BY <1>7, <1>8

(* The first command of the controller's queue goes to its chip.           *)
LEMMA PlacesQueued ==
  ASSUME NEW p \in Seq(PendingCmds), NEW q \in Seq(FlashCmds), NEW g \in {0, 1},
         NEW f \in Seq(FlashCmds), NEW c, NotEmpty(f), InPlace(p, q, g, f, c), g <= Len(q)
  PROVE  InPlace(p, IF Head(f).chip = c THEN Append(q, Head(f)) ELSE q, g, Tail(f), c)
<1>1. PICK x \in FlashCmds, t \in Seq(FlashCmds) : x = Head(f) /\ t = Tail(f)
  BY Dequeued
<1>2. /\ Len(p) \in Nat /\ Len(q) \in Nat /\ Len(f) \in Nat /\ Len(t) = Len(f) - 1
      /\ CountIn(f, Ours(c)) \in Nat /\ CountIn(t, Ours(c)) \in Nat
      /\ f[1] = x /\ 1 \in 1 .. Len(f) /\ Len(f) > 0
  <2>1. CountIn(f, Ours(c)) \in Nat /\ CountIn(t, Ours(c)) \in Nat
    BY CountIsNat
  <2>2. f[1] = x /\ 1 \in 1 .. Len(f) /\ Len(t) = Len(f) - 1
    BY <1>1, Dequeued
  <2>3. Len(p) \in Nat /\ Len(q) \in Nat /\ Len(f) \in Nat /\ Len(f) > 0
    BY DEF NotEmpty
  <2> QED
    BY <2>1, <2>2, <2>3
<1>3. x \in Ours(c) <=> x.chip = c
  BY DEF Ours
<1>4. CountIn(f, Ours(c)) = CountIn(t, Ours(c)) + (IF x.chip = c THEN 1 ELSE 0)
  BY <1>1, <1>3, CountDequeued
<1>5. \A j \in 1 .. Len(t) :
        /\ j + 1 \in 1 .. Len(f) /\ t[j] = f[j + 1]
        /\ CountTo(f, Ours(c), j + 1) = CountTo(t, Ours(c), j) + (IF x.chip = c THEN 1 ELSE 0)
        /\ CountTo(t, Ours(c), j) \in Nat
  <2>1. \A j \in 1 .. Len(t) : CountTo(t, Ours(c), j) \in Nat
    BY CountToBounds
  <2>2. \A j \in 1 .. Len(Tail(f)) :
        /\ j + 1 \in 1 .. Len(f) /\ Tail(f)[j] = f[j + 1]
        /\ CountTo(f, Ours(c), j + 1)
             = CountTo(Tail(f), Ours(c), j) + (IF f[1] \in Ours(c) THEN 1 ELSE 0)
    BY CountToDequeued
  <2> QED
    BY <1>1, <1>2, <1>3, <2>1, <2>2
<1>6. CASE x.chip = c
  <2> DEFINE r == Append(q, x)
  <2>1. /\ Len(r) = Len(q) + 1 /\ r[Len(q) + 1] = x /\ \A i \in 1 .. Len(q) : r[i] = q[i]
        /\ \A i \in 1 .. Len(r) : i \in 1 .. Len(q) \/ i = Len(q) + 1
    BY Enqueued
  <2> HIDE DEF r
  <2>2. Len(p) = Len(r) - g + CountIn(t, Ours(c))
    BY <1>2, <1>4, <1>6, <2>1 DEF InPlace
  <2>3. p[Len(q) - g + 1] = OpOf(x)
    <3>1. CountTo(f, Ours(c), 1) = 1
      BY <1>2, <1>3, <1>6, CountToBounds
    <3> QED
      BY <1>2, <1>6, <3>1 DEF InPlace
  <2>4. \A i \in 1 .. Len(r) : i > g => p[i - g] = OpOf(r[i])
    <3> SUFFICES ASSUME NEW i \in 1 .. Len(r), i > g PROVE p[i - g] = OpOf(r[i])
      OBVIOUS
    <3>1. CASE i \in 1 .. Len(q)
      BY <2>1, <3>1 DEF InPlace
    <3>2. CASE i = Len(q) + 1
      <4>1. i - g = Len(q) - g + 1
        BY <1>2, <3>2
      <4> QED
        BY <2>1, <2>3, <3>2, <4>1
    <3> QED
      BY <2>1, <3>1, <3>2
  <2>5. \A j \in 1 .. Len(t) : t[j].chip = c =>
          p[Len(r) - g + CountTo(t, Ours(c), j)] = OpOf(t[j])
    <3> SUFFICES ASSUME NEW j \in 1 .. Len(t), t[j].chip = c
                 PROVE  p[Len(r) - g + CountTo(t, Ours(c), j)] = OpOf(t[j])
      OBVIOUS
    <3>1. p[Len(q) - g + CountTo(f, Ours(c), j + 1)] = OpOf(f[j + 1])
      BY <1>5 DEF InPlace
    <3>2. Len(r) - g + CountTo(t, Ours(c), j) = Len(q) - g + CountTo(f, Ours(c), j + 1)
      BY <1>2, <1>5, <1>6, <2>1
    <3> QED
      BY <1>5, <3>1, <3>2
  <2>6. InPlace(p, r, g, t, c)
    BY <2>2, <2>4, <2>5 DEF InPlace
  <2> QED
    BY <1>1, <1>6, <2>6 DEF r
<1>7. CASE x.chip # c
  <2>1. Len(p) = Len(q) - g + CountIn(t, Ours(c))
    BY <1>2, <1>4, <1>7 DEF InPlace
  <2>2. \A j \in 1 .. Len(t) : t[j].chip = c =>
          p[Len(q) - g + CountTo(t, Ours(c), j)] = OpOf(t[j])
    <3> SUFFICES ASSUME NEW j \in 1 .. Len(t), t[j].chip = c
                 PROVE  p[Len(q) - g + CountTo(t, Ours(c), j)] = OpOf(t[j])
      OBVIOUS
    <3>1. p[Len(q) - g + CountTo(f, Ours(c), j + 1)] = OpOf(f[j + 1])
      BY <1>5 DEF InPlace
    <3>2. CountTo(t, Ours(c), j) = CountTo(f, Ours(c), j + 1)
      BY <1>5, <1>7
    <3> QED
      BY <1>5, <3>1, <3>2
  <2> QED
    BY <1>1, <1>7, <2>1, <2>2 DEF InPlace
<1> QED
  BY <1>6, <1>7

(* The chip begins the first command of its queue, ...                     *)
LEMMA PlacesBegun ==
  ASSUME NEW p \in Seq(PendingCmds), NEW q \in Seq(FlashCmds), NEW f \in Seq(FlashCmds), NEW c,
         NotEmpty(q), InPlace(p, q, 0, f, c)
  PROVE  /\ NotEmpty(p) /\ Head(p) = OpOf(Head(q))
         /\ InPlace(Tail(p), q, 1, f, c)
<1>1. /\ Len(p) \in Nat /\ Len(q) \in Nat /\ Len(q) > 0 /\ Len(f) \in Nat
      /\ CountIn(f, Ours(c)) \in Nat /\ Head(q) = q[1] /\ 1 \in 1 .. Len(q)
  <2>1. CountIn(f, Ours(c)) \in Nat
    BY CountIsNat
  <2>2. Head(q) = q[1] /\ 1 \in 1 .. Len(q)
    BY Dequeued
  <2>3. Len(p) \in Nat /\ Len(q) \in Nat /\ Len(f) \in Nat /\ Len(q) > 0
    BY DEF NotEmpty
  <2> QED
    BY <2>1, <2>2, <2>3
<1>2. Len(p) > 0 /\ p[1] = OpOf(q[1])
  BY <1>1 DEF InPlace
<1>3. PICK t \in Seq(PendingCmds) : /\ t = Tail(p) /\ Len(t) = Len(p) - 1 /\ Head(p) = p[1]
                                    /\ \A k \in 1 .. Len(p) - 1 : t[k] = p[k + 1]
  <2>1. NotEmpty(p)
    BY <1>2 DEF NotEmpty
  <2>2. /\ Tail(p) \in Seq(PendingCmds) /\ Len(Tail(p)) = Len(p) - 1 /\ Head(p) = p[1]
        /\ \A k \in 1 .. Len(Tail(p)) : Tail(p)[k] = p[k + 1]
    BY <2>1, Dequeued
  <2> QED
    BY <2>2
<1>4. Len(t) = Len(q) - 1 + CountIn(f, Ours(c))
  BY <1>1, <1>3 DEF InPlace
<1>5. \A i \in 1 .. Len(q) : i > 1 => t[i - 1] = OpOf(q[i])
  <2> SUFFICES ASSUME NEW i \in 1 .. Len(q), i > 1 PROVE t[i - 1] = OpOf(q[i])
    OBVIOUS
  <2>1. i - 1 \in 1 .. Len(p) - 1 /\ (i - 1) + 1 = i /\ i - 0 = i /\ i > 0
    BY <1>1 DEF InPlace
  <2> QED
    BY <1>3, <2>1 DEF InPlace
<1>6. \A j \in 1 .. Len(f) : f[j].chip = c =>
        t[Len(q) - 1 + CountTo(f, Ours(c), j)] = OpOf(f[j])
  <2> SUFFICES ASSUME NEW j \in 1 .. Len(f), f[j].chip = c
               PROVE  t[Len(q) - 1 + CountTo(f, Ours(c), j)] = OpOf(f[j])
    OBVIOUS
  <2>1. PICK k \in Nat : k = CountTo(f, Ours(c), j) /\ k <= CountIn(f, Ours(c)) /\ k >= 1
    <3>1. f[j] \in Ours(c)
      BY DEF Ours
    <3> QED
      BY <3>1, CountToBounds
  <2>2. p[Len(q) - 0 + k] = OpOf(f[j])
    BY <2>1 DEF InPlace
  <2>3. /\ Len(q) - 1 + k \in 1 .. Len(p) - 1 /\ (Len(q) - 1 + k) + 1 = Len(q) - 0 + k
    BY <1>1, <2>1 DEF InPlace
  <2> QED
    BY <1>3, <2>1, <2>2, <2>3
<1>7. InPlace(t, q, 1, f, c)
  BY <1>4, <1>5, <1>6 DEF InPlace
<1> QED
  BY <1>1, <1>2, <1>3, <1>7 DEF NotEmpty

(* ... and finishes it.                                                    *)
LEMMA PlacesFinished ==
  ASSUME NEW p \in Seq(PendingCmds), NEW q \in Seq(FlashCmds), NEW f \in Seq(FlashCmds), NEW c,
         NotEmpty(q), InPlace(p, q, 1, f, c)
  PROVE  InPlace(p, Tail(q), 0, f, c)
<1>1. PICK t \in Seq(FlashCmds) :
        /\ t = Tail(q) /\ Len(q) \in Nat /\ Len(t) = Len(q) - 1
        /\ \A i \in 1 .. Len(t) : t[i] = q[i + 1] /\ i + 1 \in 1 .. Len(q)
  BY Dequeued
<1>2. Len(p) = Len(t) - 0 + CountIn(f, Ours(c))
  BY <1>1, CountIsNat DEF InPlace
<1>3. \A i \in 1 .. Len(t) : i > 0 => p[i - 0] = OpOf(t[i])
  <2> SUFFICES ASSUME NEW i \in 1 .. Len(t) PROVE p[i - 0] = OpOf(t[i])
    OBVIOUS
  <2>1. (i + 1) - 1 = i - 0 /\ i + 1 > 1
    BY <1>1
  <2> QED
    BY <1>1, <2>1 DEF InPlace
<1>4. Len(t) - 0 = Len(q) - 1
  BY <1>1
<1> QED
  BY <1>1, <1>2, <1>3, <1>4 DEF InPlace

(* The chip of the command in work is started.                             *)
Starting ==
  \E op \in FlashOps : /\ state \in {"READ_PAGE_REQ", "WRITE_PAGE", "ERASE_BLOCK"}
                       /\ op = OpOfState[state] /\ StartChip(op)

(* The rules by which no command changes its place.                        *)
MachineRule ==
  \/ DoDecodeCmd \/ SendPhyCmds \/ DoReadPageWait \/ DoReadDataWaitBuf \/ DoReadDataDDR
  \/ DoReadDataDone \/ DoWriteDataWait \/ DoWritePageDataDDR

Elsewhere ==
  \/ ChooseChip \/ (\E c \in Chips : BusyTimer(c)) \/ MachineRule \/ DataRule
  \/ WriteDataReq \/ (\E t \in Tags : WriteWord(t)) \/ (\E c \in Chips : ChipDone(c))
  \/ UNCHANGED vars

(* Every step is one of these.                                             *)
LEMMA StepCases ==
  ASSUME [Next]_vars
  PROVE  \/ ServiceReq \/ DoSBCmd \/ (\E cmd \in UserCmds : DoIdleAcceptCmd(cmd)) \/ Starting
         \/ (\E failed \in BOOLEAN : DoGetStatusData(failed)) \/ Elsewhere
<1>1. ASSUME DoReadPageCmdDone \/ DoWriteDone \/ DoEraseBlockPoll PROVE Starting
  BY <1>1 DEF DoReadPageCmdDone, DoWriteDone, DoEraseBlockPoll, Starting, OpOfState, FlashOps
<1>2. CASE Next
  BY <1>1, <1>2, Zenon DEF Next, ScoreboardRule, BusRule, Environment, Elsewhere, MachineRule
<1> QED
  BY <1>2, Zenon DEF Elsewhere

(* What is begun and finished depends only on the variables it names.      *)
LEMMA BegunStays ==
  ASSUME UNCHANGED ctlVars
  PROVE  \A d \in Chips : (Begun(d)' <=> Begun(d)) /\ (Finished(d)' <=> Finished(d))
<1>1. UNCHANGED <<chipStages, cmdOutQ, cmdR, state, chipBusy>>
  BY DEF ctlVars
<1> QED
  BY <1>1 DEF Begun, Finished, nStart, StartInWork

(* Elsewhere nothing is begun or finished.                                 *)
LEMMA ElsewhereKeeps ==
  ASSUME TypeOK, Control, Elsewhere
  PROVE  /\ UNCHANGED <<pending, flashCmdQ, chipQs, chipStages>>
         /\ \A d \in Chips : (Begun(d)' <=> Begun(d)) /\ (Finished(d)' <=> Finished(d))
<1> DEFINE Goal == /\ UNCHANGED <<pending, flashCmdQ, chipQs, chipStages>>
                   /\ \A d \in Chips : (Begun(d)' <=> Begun(d)) /\ (Finished(d)' <=> Finished(d))
<1> SUFFICES Goal
  OBVIOUS
<1>0. ASSUME UNCHANGED <<ctlVars, pending, flashCmdQ>> PROVE Goal
  BY <1>0, BegunStays DEF ctlVars
<1>1. CASE UNCHANGED vars
  BY <1>0, <1>1 DEF vars, sbVars, bcVars, ctlVars
<1>2. CASE ChooseChip
  BY <1>0, <1>2 DEF ChooseChip, Scoreboards, DoChooseChip, ctlVars, bcVars
<1>3. CASE \E c \in Chips : BusyTimer(c)
  BY <1>0, <1>3 DEF BusyTimer, Scoreboards, DecBusyTimer, ctlVars, bcVars
<1>4. CASE DoDecodeCmd
  <2>1. UNCHANGED <<pending, flashCmdQ, chipQs, chipStages>>
    BY <1>4 DEF DoDecodeCmd, CmdOutGet
  <2> QED
    BY <1>4, <2>1, DecodeKeeps
<1>5. CASE SendPhyCmds
  BY <1>0, <1>5 DEF SendPhyCmds, ctlVars, sbVars
<1> DEFINE Steps ==
         \/ /\ state = "READ_PAGE_WAIT" /\ state' = "GET_STATUS"
            /\ rdyReturnState' = "READ_DATA_WAIT_BUF"
         \/ state = "READ_DATA_WAIT_BUF" /\ state' = "READ_DATA"
         \/ state = "WRITE_PAGE_WAIT" /\ state' = "WRITE_PAGE"
         \/ state = "READ_DATA" /\ state' \in {"IDLE", "READ_ERROR"}
<1>6. ASSUME UNCHANGED <<pending, flashCmdQ, chipQs, chipBusy, chipStages, cmdOutQ, cmdR, chip>>,
             Steps
      PROVE  Goal
  BY <1>6, GoToKeeps
<1>7. CASE DoReadPageWait
  BY <1>6, <1>7 DEF DoReadPageWait, GoTo, sbVars
<1>8. CASE DoReadDataWaitBuf
  BY <1>6, <1>8 DEF DoReadDataWaitBuf, GoTo, sbVars
<1>9. CASE DoReadDataDDR
  <2>1. UNCHANGED <<pending, flashCmdQ, chipQs, chipBusy, chipStages, cmdOutQ, cmdR, chip,
                    rdyReturnState>>
    BY <1>9 DEF DoReadDataDDR, sbVars
  <2>2. (state = "READ_DATA" /\ state' = "READ_ERROR") \/ state' = state
    BY <1>9 DEF DoReadDataDDR
  <2> QED
    BY <1>0, <1>6, <2>1, <2>2 DEF ctlVars
<1>10. CASE DoReadDataDone
  BY <1>6, <1>10 DEF DoReadDataDone, GoTo, sbVars
<1>11. CASE DoWriteDataWait
  BY <1>6, <1>11 DEF DoWriteDataWait, GoTo, sbVars
<1>12. CASE DoWritePageDataDDR
  BY <1>0, <1>12 DEF DoWritePageDataDDR, ctlVars, sbVars
<1>13. CASE DataRule
  <2>1. CASE DoDecoderDataBuf
    BY <1>0, <2>1 DEF DoDecoderDataBuf, ctlVars, sbVars, bcVars
  <2>2. CASE DoReadDataCollect
    BY <1>0, <2>2 DEF DoReadDataCollect, ctlVars, sbVars, bcVars
  <2>3. CASE DoAckStatus
    BY <1>0, <2>3 DEF DoAckStatus, ctlVars, sbVars, bcVars
  <2>4. CASE DoHandleWriteDataReqFromBus
    BY <1>0, <2>4 DEF DoHandleWriteDataReqFromBus, ctlVars, sbVars, bcVars
  <2>5. CASE DoWriteFetchWait
    BY <1>0, <2>5 DEF DoWriteFetchWait, ctlVars, sbVars, bcVars
  <2>6. CASE DoWriteBufTransfer
    BY <1>0, <2>6 DEF DoWriteBufTransfer, ctlVars, sbVars, bcVars
  <2>7. CASE SetWriteDataRdy
    BY <1>0, <2>7 DEF SetWriteDataRdy, SetWdataRdy, ctlVars, bcVars
  <2>8. CASE DoWriteDataTransferReq
    BY <1>0, <2>8 DEF DoWriteDataTransferReq, ctlVars, sbVars, bcVars
  <2>9. CASE DoWriteDataTransferToBus
    BY <1>0, <2>9 DEF DoWriteDataTransferToBus, ctlVars, sbVars, bcVars
  <2> QED
    BY <1>13, <2>1, <2>2, <2>3, <2>4, <2>5, <2>6, <2>7, <2>8, <2>9 DEF DataRule
<1>14. CASE WriteDataReq
  BY <1>0, <1>14 DEF WriteDataReq, ctlVars, sbVars, bcVars
<1>15. CASE \E t \in Tags : WriteWord(t)
  BY <1>0, <1>15 DEF WriteWord, ctlVars, sbVars, bcVars
<1>16. ASSUME NEW c \in Chips, ChipDone(c) PROVE Goal
  <2>1. UNCHANGED <<pending, flashCmdQ, chipQs, chipStages>>
    BY <1>16 DEF ChipDone, sbVars
  <2> QED
    BY <1>16, <2>1, DoneKeeps
<1> HIDE DEF Goal
<1>17. CASE MachineRule
  BY <1>4, <1>5, <1>7, <1>8, <1>9, <1>10, <1>11, <1>12, <1>17 DEF MachineRule
<1>18. CASE \E c \in Chips : ChipDone(c)
  BY <1>16, <1>18
<1> QED
  BY <1>1, <1>2, <1>3, <1>13, <1>14, <1>15, <1>17, <1>18 DEF Elsewhere

-----------------------------------------------------------------------------
(* Positions is kept.                                                      *)

(* A chip has begun or finished only what is in its queue.                 *)
LEMMA GoneFits ==
  ASSUME TypeOK, Control, NEW c \in Chips
  PROVE  /\ Gone(c) \in {0, 1} /\ Gone(c) <= Len(chipQs[c]) /\ Len(chipQs[c]) \in Nat
         /\ Begun(c) \/ Finished(c) => chipQs[c] # <<>>
         /\ Finished(c) => chipStages[c] \in Polled
<1>1. /\ chipQs[c] \in Seq(FlashCmds) /\ chipBusy[c] \in Seq(BOOLEAN)
      /\ chipStages[c] \in Stages /\ ChipControl(c)
      /\ CountIn(cmdOutQ, Polls(c)) \in Nat
  BY ControlTypes DEF Control
<1>2. Finished(c) => chipStages[c] \in Polled
  <2> SUFFICES ASSUME Finished(c) PROVE chipStages[c] \in Polled
    OBVIOUS
  <2>1. Len(chipBusy[c]) = 1
    BY DEF Finished
  <2>2. nPoll(c) \in Nat
    BY <1>1 DEF nPoll
  <2> QED
    BY <1>1, <2>1, <2>2 DEF ChipControl, PollsFit
<1>3. Begun(c) \/ Finished(c) => chipStages[c] # "INIT"
  BY <1>2 DEF Begun, Issued, Polled
<1>4. Begun(c) \/ Finished(c) => chipQs[c] # <<>>
  BY <1>1, <1>3 DEF ChipControl, InStage
<1>5. Len(chipQs[c]) \in Nat /\ (chipQs[c] # <<>> => Len(chipQs[c]) > 0)
  BY <1>1, EmptySeq
<1>6. Gone(c) \in {0, 1} /\ Gone(c) <= Len(chipQs[c])
  BY <1>4, <1>5 DEF Gone
<1> QED
  BY <1>2, <1>4, <1>5, <1>6

(* The types the following lemmas use.                                     *)
LEMMA PositionTypes ==
  ASSUME TypeOK, Control, Positions, NEW c \in Chips
  PROVE  /\ pending[c] \in Seq(PendingCmds) /\ chipQs[c] \in Seq(FlashCmds)
         /\ flashCmdQ \in Seq(FlashCmds)
         /\ InPlace(pending[c], chipQs[c], Gone(c), flashCmdQ, c)
         /\ Gone(c) \in {0, 1} /\ Gone(c) <= Len(chipQs[c])
<1>1. chipQs[c] \in Seq(FlashCmds) /\ flashCmdQ \in Seq(FlashCmds)
  BY ControlTypes DEF TypeOK
<1>2. Gone(c) \in {0, 1} /\ Gone(c) <= Len(chipQs[c])
  BY GoneFits
<1> QED
  BY <1>1, <1>2 DEF Positions

(* A command is accepted, ...                                              *)
LEMMA AcceptPlaces ==
  ASSUME TypeOK, Control, Positions, NEW cmd \in UserCmds, DoIdleAcceptCmd(cmd)
  PROVE  Positions'
<1>1. cmd \in FlashCmds /\ cmd.chip \in Chips
  BY FlashBusAssumption DEF FlashCmds
<1>2. /\ flashCmdQ' = Append(flashCmdQ, cmd) /\ chipQs' = chipQs
      /\ pending' = [pending EXCEPT ![cmd.chip] = Append(pending[cmd.chip], OpOf(cmd))]
  BY DEF DoIdleAcceptCmd, sbVars, OpOf
<1>3. \A c \in Chips : Gone(c)' = Gone(c)
  <2>1. UNCHANGED ctlVars
    BY DEF DoIdleAcceptCmd, sbVars, bcVars, ctlVars
  <2> QED
    BY <2>1, BegunStays DEF Gone
<1>4. OpOf(cmd) \in PendingCmds
  BY <1>1 DEF OpOf, PendingCmds, FlashCmds
<1>5. pending' \in [Chips -> Seq(PendingCmds)]
  BY <1>1, <1>2, <1>4 DEF Positions
<1>6. ASSUME NEW c \in Chips PROVE InPlace(pending'[c], chipQs'[c], Gone(c)', flashCmdQ', c)
  <2>1. InPlace(IF cmd.chip = c THEN Append(pending[c], OpOf(cmd)) ELSE pending[c],
                chipQs[c], Gone(c), Append(flashCmdQ, cmd), c)
    BY <1>1, PositionTypes, PlacesAccepted
  <2>2. pending'[c] = IF cmd.chip = c THEN Append(pending[c], OpOf(cmd)) ELSE pending[c]
    BY <1>1, <1>2 DEF Positions
  <2> QED
    BY <1>2, <1>3, <2>1, <2>2
<1> QED
  BY <1>5, <1>6 DEF Positions

(* ... goes to its chip, ...                                               *)
LEMMA QueuePlaces ==
  ASSUME TypeOK, Control, Positions, DoSBCmd
  PROVE  Positions'
<1>1. PICK x \in FlashCmds : x = Head(flashCmdQ)
  BY Dequeued DEF DoSBCmd, TypeOK
<1>2. x.chip \in Chips /\ NotEmpty(flashCmdQ)
  BY DEF FlashCmds, DoSBCmd
<1>3. /\ flashCmdQ' = Tail(flashCmdQ) /\ pending' = pending
      /\ chipQs' = [chipQs EXCEPT ![x.chip] = Append(chipQs[x.chip], x)]
  BY <1>1 DEF DoSBCmd, CmdInPut
<1>4. \A c \in Chips : Gone(c)' = Gone(c)
  BY CmdInKeeps DEF Gone
<1>5. ASSUME NEW c \in Chips PROVE InPlace(pending'[c], chipQs'[c], Gone(c)', flashCmdQ', c)
  <2>1. InPlace(pending[c], IF x.chip = c THEN Append(chipQs[c], x) ELSE chipQs[c],
                Gone(c), Tail(flashCmdQ), c)
    BY <1>1, <1>2, PositionTypes, PlacesQueued
  <2>2. chipQs'[c] = IF x.chip = c THEN Append(chipQs[c], x) ELSE chipQs[c]
    BY <1>2, <1>3, ControlTypes
  <2> QED
    BY <1>3, <1>4, <2>1, <2>2
<1> QED
  BY <1>3, <1>5 DEF Positions

(* ... is begun by the chip, which is what the user asked for first, ...   *)
LEMMA StartPlaces ==
  ASSUME TypeOK, Control, Positions, Starting
  PROVE  /\ Positions'
         /\ \E c \in Chips :
              /\ c = cmdR.chip /\ chip[c].st = "ready"
              /\ pending[c] # <<>> /\ Head(pending[c]).tag = cmdR.tag
              /\ Head(pending[c]).op = OpOfState[state]
<1>0. PICK op : /\ state \in {"READ_PAGE_REQ", "WRITE_PAGE", "ERASE_BLOCK"}
                /\ op = OpOfState[state] /\ StartChip(op)
  BY DEF Starting
<1>1. PICK c \in Chips :
        /\ c = cmdR.chip /\ Begun(c)' /\ ~Begun(c) /\ ~Finished(c)
        /\ chipQs[c] # <<>> /\ Head(chipQs[c]).tag = cmdR.tag /\ Head(chipQs[c]).op = op
        /\ \A d \in Chips : d # c => (Begun(d)' <=> Begun(d))
        /\ \A d \in Chips : Finished(d)' <=> Finished(d)
  BY <1>0, StartKeeps
<1>2. /\ flashCmdQ' = flashCmdQ /\ chipQs' = chipQs
      /\ pending' = [pending EXCEPT ![c] = Tail(pending[c])]
  BY <1>0, <1>1 DEF StartChip, sbVars
<1>3. Gone(c) = 0 /\ Gone(c)' = 1 /\ \A d \in Chips : d # c => Gone(d)' = Gone(d)
  BY <1>1 DEF Gone
<1>4. NotEmpty(chipQs[c])
  BY <1>1, PositionTypes, EmptyIff
<1>5. /\ NotEmpty(pending[c]) /\ Head(pending[c]) = OpOf(Head(chipQs[c]))
      /\ InPlace(Tail(pending[c]), chipQs[c], 1, flashCmdQ, c)
  BY <1>3, <1>4, PositionTypes, PlacesBegun
<1>6. Tail(pending[c]) \in Seq(PendingCmds) /\ pending[c] # <<>>
  BY <1>5, PositionTypes, Dequeued, EmptyIff
<1>7. /\ pending' \in [Chips -> Seq(PendingCmds)] /\ pending'[c] = Tail(pending[c])
      /\ \A d \in Chips : d # c => pending'[d] = pending[d]
  BY <1>2, <1>6 DEF Positions
<1>8. \A d \in Chips : InPlace(pending'[d], chipQs'[d], Gone(d)', flashCmdQ', d)
  <2>1. InPlace(pending'[c], chipQs'[c], Gone(c)', flashCmdQ', c)
    BY <1>2, <1>3, <1>5, <1>7
  <2>2. ASSUME NEW d \in Chips, d # c
        PROVE  InPlace(pending'[d], chipQs'[d], Gone(d)', flashCmdQ', d)
    BY <1>2, <1>3, <1>7, <2>2 DEF Positions
  <2> QED
    BY <2>1, <2>2
<1>9. /\ Head(pending[c]).tag = cmdR.tag /\ Head(pending[c]).op = op
  BY <1>1, <1>5 DEF OpOf
<1>10. chip[c].st = "ready"
  BY <1>1 DEF Control, ChipControl, ChipFits
<1> QED
  BY <1>0, <1>1, <1>6, <1>7, <1>8, <1>9, <1>10 DEF Positions

(* ... and leaves the queue of the chip when it is finished.               *)
LEMMA ServicePlaces ==
  ASSUME TypeOK, Control, Positions, ServiceReq
  PROVE  Positions'
<1>1. PICK c \in Chips :
        /\ chipQs[c] # <<>>
        /\ \A d \in Chips : Begun(d)' <=> Begun(d)
        /\ \A d \in Chips : d # c => (Finished(d)' <=> Finished(d)) /\ chipQs'[d] = chipQs[d]
        /\ \/ chipQs'[c] = chipQs[c] /\ (Finished(c)' <=> Finished(c))
           \/ /\ chipQs'[c] = Tail(chipQs[c])
              /\ ~Begun(c) /\ Finished(c) /\ ~Finished(c)'
  BY ServiceEffects
<1>2. flashCmdQ' = flashCmdQ /\ pending' = pending
  BY DEF ServiceReq, Scoreboards
<1>3. ASSUME NEW d \in Chips, chipQs'[d] = chipQs[d], Finished(d)' <=> Finished(d)
      PROVE  InPlace(pending'[d], chipQs'[d], Gone(d)', flashCmdQ', d)
  <2>1. Gone(d)' = Gone(d)
    BY <1>1, <1>3 DEF Gone
  <2> QED
    BY <1>2, <1>3, <2>1 DEF Positions
<1>4. ASSUME chipQs'[c] = Tail(chipQs[c]), ~Begun(c), Finished(c), ~Finished(c)'
      PROVE  InPlace(pending'[c], chipQs'[c], Gone(c)', flashCmdQ', c)
  <2>1. Gone(c) = 1 /\ Gone(c)' = 0
    BY <1>1, <1>4 DEF Gone
  <2>2. NotEmpty(chipQs[c])
    BY <1>1, PositionTypes, EmptyIff
  <2> QED
    BY <1>2, <1>4, <2>1, <2>2, PositionTypes, PlacesFinished
<1> QED
  BY <1>1, <1>2, <1>3, <1>4 DEF Positions

(* Every step keeps Positions.                                             *)
LEMMA PositionsKept ==
  ASSUME TypeOK, Control, Positions, [Next]_vars
  PROVE  Positions'
<1>1. ASSUME UNCHANGED <<pending, flashCmdQ, chipQs>>,
             \A d \in Chips : Begun(d)' \/ Finished(d)' <=> Begun(d) \/ Finished(d)
      PROVE  Positions'
  <2>1. \A d \in Chips : Gone(d)' = Gone(d)
    BY <1>1 DEF Gone
  <2> QED
    BY <1>1, <2>1 DEF Positions
<1>2. ASSUME NEW failed \in BOOLEAN, DoGetStatusData(failed) PROVE Positions'
  <2>1. UNCHANGED <<pending, flashCmdQ, chipQs>>
    BY <1>2 DEF DoGetStatusData, BusyInPut
  <2>2. \A d \in Chips : Begun(d)' \/ Finished(d)' <=> Begun(d) \/ Finished(d)
    <3>1. PICK c \in Chips :
            /\ Begun(c) /\ (Begun(c)' \/ Finished(c)')
            /\ \A d \in Chips : d # c => (Begun(d)' <=> Begun(d)) /\ (Finished(d)' <=> Finished(d))
      BY <1>2, StatusKeeps
    <3> QED
      BY <3>1
  <2> QED
    BY <1>1, <2>1, <2>2
<1>3. CASE Elsewhere
  BY <1>1, <1>3, ElsewhereKeeps
<1> QED
  BY <1>2, <1>3, StepCases, AcceptPlaces, QueuePlaces, StartPlaces, ServicePlaces

-----------------------------------------------------------------------------
(* The owners of the tags.                                                 *)

(* The types the following lemmas use.                                     *)
LEMMA OwnerTypes ==
  ASSUME TypeOK, Control, Positions
  PROVE  /\ pending \in [Chips -> Seq(PendingCmds)] /\ chip \in [Chips -> [st : {"ready", "busy"},
               op : FlashOps \union {"NONE"}, tag : Tags \union {NoTag}]]
         /\ \A c \in Chips : /\ pending[c] \in Seq(PendingCmds) /\ Len(pending[c]) \in Nat
                             /\ \A k \in 1 .. Len(pending[c]) : pending[c][k].tag \in Tags
         /\ readTagQ \in Seq(Tags) /\ Len(readTagQ) \in Nat
         /\ \A i \in 1 .. Len(readTagQ) : readTagQ[i] \in Tags
         /\ ackQ \in Seq(Acks) /\ Len(ackQ) \in Nat
         /\ \A i \in 1 .. Len(ackQ) : ackQ[i].tag \in Tags
         /\ out \in [Tags -> OutValues]
         /\ rdWdCnt \in 0 .. PageWords - 1 /\ PageWords \in Nat /\ PageWords > 1
         /\ ReadOut => cmdR.tag \in Tags
<1>1. /\ pending \in [Chips -> Seq(PendingCmds)] /\ readTagQ \in Seq(Tags) /\ ackQ \in Seq(Acks)
      /\ out \in [Tags -> OutValues]
      /\ rdWdCnt \in 0 .. PageWords - 1 /\ PageWords \in Nat /\ PageWords > 1
      /\ chip \in [Chips -> [st : {"ready", "busy"}, op : FlashOps \union {"NONE"},
                             tag : Tags \union {NoTag}]]
  BY FlashBusAssumption DEF TypeOK, Positions, OutValues
<1>2. \A x \in PendingCmds : x.tag \in Tags
  BY DEF PendingCmds
<1>3. \A x \in Acks : x.tag \in Tags
  BY DEF Acks
<1>4. \A c \in Chips : /\ pending[c] \in Seq(PendingCmds) /\ Len(pending[c]) \in Nat
                       /\ \A k \in 1 .. Len(pending[c]) : pending[c][k] \in PendingCmds
  BY <1>1
<1>5. \A i \in 1 .. Len(readTagQ) : readTagQ[i] \in Tags
  BY <1>1
<1>6. \A i \in 1 .. Len(ackQ) : ackQ[i] \in Acks
  BY <1>1
<1>7. ReadOut => cmdR.tag \in Tags
  BY DEF ReadOut, DataStates, Control, InWorkFits
<1> QED
  BY <1>1, <1>2, <1>3, <1>4, <1>5, <1>6, <1>7

(* What Owners says depends only on the variables it names.                *)
LEMMA OwnersStay ==
  ASSUME Owners, UNCHANGED <<pending, out, chip, readTagQ, rdWdCnt, ackQ>>,
         \A d \in Chips : Begun(d)' <=> Begun(d),
         ReadOut' => ReadOut /\ UNCHANGED cmdR
  PROVE  Owners'
<1>1. \A t : NotBegun(t)' <=> NotBegun(t)
  BY DEF NotBegun
<1>2. OutFits' /\ PendingOwed' /\ PendingOnce'
  BY DEF Owners, OutFits, PendingOwed, PendingOnce, Owed
<1>3. PendingApart'
  BY <1>1 DEF Owners, PendingApart
<1>4. BegunFits' /\ BegunOnce'
  BY DEF Owners, BegunFits, BegunOnce, Owed, Done
<1>5. ReadOutFits'
  BY <1>1 DEF Owners, ReadOutFits, Done
<1>6. PagesOwed' /\ PagesOnce'
  BY <1>1 DEF Owners, PagesOwed, PagesOnce, Done
<1>7. AcksOwed' /\ AcksOnce'
  BY <1>1 DEF Owners, AcksOwed, AcksOnce, Done
<1> QED
  BY <1>2, <1>3, <1>4, <1>5, <1>6, <1>7 DEF Owners

(* A tag that is free stands for nothing.                                  *)
LEMMA FreeTag ==
  ASSUME TypeOK, Control, Positions, Owners, NEW t \in Tags, out[t].phase = "free"
  PROVE  /\ \A c \in Chips : \A k \in 1 .. Len(pending[c]) : pending[c][k].tag # t
         /\ NotBegun(t)
         /\ ReadOut => cmdR.tag # t
         /\ \A i \in 1 .. Len(readTagQ) : readTagQ[i] # t
         /\ \A i \in 1 .. Len(ackQ) : ackQ[i].tag # t
<1>1. ~Owed(t) /\ ~Done(t)
  BY DEF Owed, Done
<1>2. NotBegun(t)
  <2> SUFFICES ASSUME NEW d \in Chips, Begun(d), chip[d].tag = t PROVE FALSE
    BY DEF NotBegun
  <2>1. chip[d].st = "busy" \/ chip[d].st = "ready"
    BY OwnerTypes
  <2> QED
    BY <1>1, <2>1 DEF Owners, BegunFits
<1> QED
  BY <1>1, <1>2 DEF Owners, PendingOwed, ReadOutFits, PagesOwed, AcksOwed

(* A command is accepted under a free tag.                                 *)
LEMMA AcceptOwners ==
  ASSUME TypeOK, Control, Positions, Owners, NEW cmd \in UserCmds, DoIdleAcceptCmd(cmd)
  PROVE  Owners'
<1>1. PICK t \in Tags, op \in FlashOps, c \in Chips : t = cmd.tag /\ op = cmd.op /\ c = cmd.chip
  BY FlashBusAssumption DEF FlashCmds
<1>2. /\ out[t] = Unused
      /\ pending' = [pending EXCEPT ![c] = Append(pending[c], [tag |-> t, op |-> op])]
      /\ out' = [out EXCEPT ![t] = [op |-> op, phase |-> "accepted",
                                    left |-> IF op = "ERASE_BLOCK" THEN 0 ELSE PageWords]]
      /\ UNCHANGED <<chip, readTagQ, rdWdCnt, ackQ, state, dataCnt, cmdR>> /\ UNCHANGED ctlVars
  BY <1>1 DEF DoIdleAcceptCmd, readVars, sbVars, bcVars, ctlVars
<1>3. /\ \A b \in Chips : \A k \in 1 .. Len(pending[b]) : pending[b][k].tag # t
      /\ NotBegun(t)
      /\ ReadOut => cmdR.tag # t
      /\ \A i \in 1 .. Len(readTagQ) : readTagQ[i] # t
      /\ \A i \in 1 .. Len(ackQ) : ackQ[i].tag # t
  BY <1>2, FreeTag DEF Unused
<1>4. /\ \A u \in Tags : u # t => out'[u] = out[u]
      /\ out'[t].op = op /\ out'[t].phase = "accepted"
      /\ op # "ERASE_BLOCK" => out'[t].left = PageWords
  BY <1>2, OwnerTypes
<1>5. PICK x \in PendingCmds : x.tag = t /\ x.op = op /\ x = [tag |-> t, op |-> op]
  BY DEF PendingCmds
<1>6. /\ Len(pending'[c]) = Len(pending[c]) + 1 /\ pending'[c][Len(pending[c]) + 1] = x
      /\ \A k \in 1 .. Len(pending[c]) : pending'[c][k] = pending[c][k]
      /\ \A k \in 1 .. Len(pending'[c]) : k \in 1 .. Len(pending[c]) \/ k = Len(pending[c]) + 1
      /\ \A d \in Chips : d # c => pending'[d] = pending[d]
  <2>1. pending'[c] = Append(pending[c], x)
    BY <1>2, <1>5, OwnerTypes
  <2>2. \A d \in Chips : d # c => pending'[d] = pending[d]
    BY <1>2, OwnerTypes
  <2>3. pending[c] \in Seq(PendingCmds)
    BY OwnerTypes
  <2> QED
    BY <2>1, <2>2, <2>3, Enqueued
<1>7. /\ \A d \in Chips : (Begun(d)' <=> Begun(d))
      /\ \A u : NotBegun(u)' <=> NotBegun(u)
  <2>1. \A d \in Chips : (Begun(d)' <=> Begun(d))
    BY <1>2, BegunStays
  <2> QED
    BY <1>2, <2>1 DEF NotBegun
<1>8. OutFits'
  BY <1>4 DEF Owners, OutFits
<1>9. PendingOwed'
  <2> SUFFICES ASSUME NEW d \in Chips, NEW k \in 1 .. Len(pending'[d])
               PROVE  /\ out'[pending'[d][k].tag].phase \in {"accepted", "sending"}
                      /\ out'[pending'[d][k].tag].op = pending'[d][k].op
    BY DEF PendingOwed, Owed
  <2>1. CASE d = c /\ k = Len(pending[c]) + 1
    BY <1>4, <1>5, <1>6, <2>1
  <2>2. CASE k \in 1 .. Len(pending[d]) /\ pending'[d][k] = pending[d][k]
    BY <1>3, <1>4, <2>2, OwnerTypes DEF Owners, PendingOwed, Owed
  <2> QED
    BY <1>6, <2>1, <2>2
<1>10. PendingOnce'
  <2> SUFFICES ASSUME NEW a \in Chips, NEW d \in Chips,
                      NEW k \in 1 .. Len(pending'[a]), NEW l \in 1 .. Len(pending'[d]),
                      pending'[a][k].tag = pending'[d][l].tag
               PROVE  a = d /\ k = l
    BY DEF PendingOnce
  <2> DEFINE Old(b, m) == m \in 1 .. Len(pending[b]) /\ pending'[b][m] = pending[b][m]
             New(b, m) == b = c /\ m = Len(pending[c]) + 1
  <2>1. (Old(a, k) \/ New(a, k)) /\ (Old(d, l) \/ New(d, l))
    BY <1>6
  <2>2. ASSUME Old(a, k), Old(d, l) PROVE a = d /\ k = l
    BY <2>2 DEF Owners, PendingOnce
  <2>3. ASSUME NEW b \in Chips, NEW m, Old(b, m) PROVE pending'[b][m].tag # t
    BY <1>3, <2>3
  <2>4. ASSUME NEW b \in Chips, NEW m, New(b, m) PROVE pending'[b][m].tag = t
    BY <1>5, <1>6, <2>4
  <2>5. ~(Old(a, k) /\ New(d, l)) /\ ~(New(a, k) /\ Old(d, l))
    BY <2>3, <2>4
  <2> QED
    BY <2>1, <2>2, <2>5
<1>11. PendingApart'
  <2> SUFFICES ASSUME NEW d \in Chips, NEW k \in 1 .. Len(pending'[d])
               PROVE  NotBegun(pending'[d][k].tag)
    BY <1>7 DEF PendingApart
  <2> QED
    BY <1>3, <1>5, <1>6 DEF Owners, PendingApart
<1>12. BegunFits' /\ BegunOnce'
  <2>1. \A d \in Chips : Begun(d) => chip[d].tag \in Tags /\ chip[d].tag # t
    BY <1>3 DEF NotBegun, Owners, BegunFits
  <2> QED
    BY <1>2, <1>4, <1>7, <2>1 DEF Owners, BegunFits, BegunOnce, Owed, Done
<1>13. ReadOutFits'
  BY <1>2, <1>3, <1>4, <1>7, OwnerTypes DEF Owners, ReadOutFits, ReadOut, Done
<1>14. PagesOwed' /\ PagesOnce'
  BY <1>2, <1>3, <1>4, <1>7, OwnerTypes DEF Owners, PagesOwed, PagesOnce, Done
<1>15. AcksOwed' /\ AcksOnce'
  BY <1>2, <1>3, <1>4, <1>7, OwnerTypes DEF Owners, AcksOwed, AcksOnce, Done
<1> QED
  BY <1>8, <1>9, <1>10, <1>11, <1>12, <1>13, <1>14, <1>15 DEF Owners

(* A chip begins a command: its tag leaves the pending ones.               *)
LEMMA StartOwners ==
  ASSUME TypeOK, Control, Positions, Owners, Starting
  PROVE  Owners'
<1>0. PICK op \in FlashOps : /\ state \in {"READ_PAGE_REQ", "WRITE_PAGE", "ERASE_BLOCK"}
                             /\ op = OpOfState[state] /\ StartChip(op)
  BY DEF Starting
<1>1. PICK c \in Chips : /\ c = cmdR.chip /\ chip[c].st = "ready"
                         /\ pending[c] # <<>> /\ Head(pending[c]).tag = cmdR.tag
                         /\ Head(pending[c]).op = op
  BY <1>0, StartPlaces
<1>2. /\ Begun(c)' /\ ~Begun(c) /\ \A d \in Chips : d # c => (Begun(d)' <=> Begun(d))
  BY <1>0, <1>1, StartKeeps
<1>3. PICK t : t = cmdR.tag
  OBVIOUS
<1>4. /\ chip' = [chip EXCEPT ![c] = [st |-> "busy", op |-> op, tag |-> t]]
      /\ pending' = [pending EXCEPT ![c] = Tail(pending[c])]
      /\ state' = "IDLE" /\ UNCHANGED <<out, readTagQ, rdWdCnt, ackQ>>
  BY <1>0, <1>1, <1>3 DEF StartChip, readVars
<1>5. /\ chip'[c].tag = t /\ chip'[c].op = op /\ chip'[c].st = "busy"
      /\ \A d \in Chips : d # c => chip'[d] = chip[d] /\ pending'[d] = pending[d]
      /\ pending'[c] = Tail(pending[c])
  BY <1>4, OwnerTypes
<1>6. /\ 1 \in 1 .. Len(pending[c]) /\ pending[c][1].tag = t /\ pending[c][1].op = op
      /\ \A k \in 1 .. Len(pending'[c]) : /\ k + 1 \in 1 .. Len(pending[c]) /\ k \in Int
                                          /\ pending'[c][k] = pending[c][k + 1]
  <2>1. pending[c] \in Seq(PendingCmds) /\ NotEmpty(pending[c])
    BY <1>1, OwnerTypes, EmptyIff
  <2> QED
    BY <1>1, <1>3, <1>5, <2>1, Dequeued
<1>7. t \in Tags /\ Owed(t) /\ out[t].op = op /\ NotBegun(t)
  BY <1>6, OwnerTypes DEF Owners, PendingOwed, PendingApart
<1>8. \A u : NotBegun(u) /\ u # t => NotBegun(u)'
  BY <1>2, <1>5 DEF NotBegun
<1> DEFINE Old(b, k) == IF b = c THEN k + 1 ELSE k
<1>9. \A b \in Chips : \A k \in 1 .. Len(pending'[b]) :
        /\ Old(b, k) \in 1 .. Len(pending[b]) /\ pending'[b][k] = pending[b][Old(b, k)]
        /\ pending[b][Old(b, k)].tag # t
  <2> SUFFICES ASSUME NEW b \in Chips, NEW k \in 1 .. Len(pending'[b])
               PROVE  /\ Old(b, k) \in 1 .. Len(pending[b])
                      /\ pending'[b][k] = pending[b][Old(b, k)]
                      /\ pending[b][Old(b, k)].tag # t
    OBVIOUS
  <2>1. /\ Old(b, k) \in 1 .. Len(pending[b]) /\ pending'[b][k] = pending[b][Old(b, k)]
        /\ ~(b = c /\ Old(b, k) = 1)
    <3>1. CASE b = c
      <4>1. k \in 1 .. Len(pending'[c])
        BY <3>1
      <4>2. k + 1 # 1
        BY <4>1
      <4> QED
        BY <1>6, <3>1, <4>1, <4>2
    <3>2. CASE b # c
      BY <1>5, <3>2
    <3> QED
      BY <3>1, <3>2
  <2> QED
    BY <1>6, <2>1 DEF Owners, PendingOnce
<1> HIDE DEF Old
<1>10. OutFits'
  BY <1>4 DEF Owners, OutFits
<1>11. PendingOwed'
  BY <1>4, <1>9 DEF Owners, PendingOwed, Owed
<1>12. PendingOnce'
  <2> SUFFICES ASSUME NEW a \in Chips, NEW d \in Chips,
                      NEW k \in 1 .. Len(pending'[a]), NEW l \in 1 .. Len(pending'[d]),
                      pending'[a][k].tag = pending'[d][l].tag
               PROVE  a = d /\ k = l
    BY DEF PendingOnce
  <2>0. /\ Old(a, k) \in 1 .. Len(pending[a]) /\ Old(d, l) \in 1 .. Len(pending[d])
        /\ pending[a][Old(a, k)].tag = pending[d][Old(d, l)].tag
    BY <1>9
  <2>1. a = d /\ Old(a, k) = Old(d, l)
    BY <2>0 DEF Owners, PendingOnce
  <2>2. k \in Int /\ l \in Int
    OBVIOUS
  <2> QED
    BY <2>1, <2>2 DEF Old
<1>13. PendingApart'
  BY <1>8, <1>9 DEF Owners, PendingApart
<1>14. BegunFits'
  <2>1. op = "READ_PAGE" => out[t].left = PageWords
    BY <1>7 DEF Owners, OutFits, Owed
  <2>2. \A d \in Chips : Begun(d)' => d = c \/ (Begun(d) /\ chip'[d] = chip[d])
    BY <1>2, <1>5
  <2> SUFFICES ASSUME NEW d \in Chips, Begun(d)'
               PROVE  /\ chip'[d].tag \in Tags /\ out[chip'[d].tag].op = chip'[d].op
                      /\ chip'[d].st = "busy" => Owed(chip'[d].tag)
                      /\ chip'[d].st = "ready" => Done(chip'[d].tag)
                      /\ chip'[d].op = "READ_PAGE" => out[chip'[d].tag].left = PageWords
    BY <1>4 DEF BegunFits, Owed, Done
  <2>4. CASE d = c
    BY <1>4, <1>5, <1>7, <2>1, <2>4
  <2>5. CASE Begun(d) /\ chip'[d] = chip[d]
    BY <1>4, <2>5 DEF Owners, BegunFits
  <2> QED
    BY <2>2, <2>4, <2>5
<1>15. BegunOnce'
  BY <1>2, <1>5, <1>7 DEF Owners, BegunOnce, NotBegun
<1>16. ReadOutFits'
  BY <1>4 DEF ReadOutFits, ReadOut, DataStates
<1>17. \A u \in Tags : (Done(u)' <=> Done(u)) /\ (Done(u) => u # t)
  BY <1>4, <1>7 DEF Done, Owed
<1>18. PagesOwed' /\ PagesOnce'
  <2>1. PagesOnce'
    BY <1>4 DEF Owners, PagesOnce
  <2>2. PagesOwed'
    BY <1>4, <1>8, <1>17, OwnerTypes DEF Owners, PagesOwed
  <2> QED
    BY <2>1, <2>2
<1>19. AcksOwed' /\ AcksOnce'
  <2>1. AcksOnce'
    BY <1>4 DEF Owners, AcksOnce
  <2>2. AcksOwed'
    BY <1>4, <1>8, <1>17, OwnerTypes DEF Owners, AcksOwed
  <2> QED
    BY <2>1, <2>2
<1> QED
  BY <1>10, <1>11, <1>12, <1>13, <1>14, <1>15, <1>16, <1>18, <1>19 DEF Owners

(* The bus hears that a chip has finished: the page is to be read out, or  *)
(* the command is answered.                                                *)
LEMMA StatusOwners ==
  ASSUME TypeOK, Control, ReadsFit, Positions, Owners,
         NEW failed \in BOOLEAN, DoGetStatusData(failed)
  PROVE  Owners'
<1>1. PICK c \in Chips :
        /\ c = cmdR.chip /\ Begun(c) /\ chip[c].tag = cmdR.tag /\ chip[c].op = OpOfState[state]
        /\ \/ chip[c].st = "busy" /\ state' = "IDLE" /\ Begun(c)'
           \/ chip[c].st = "ready" /\ state' = rdyReturnState /\ ~Begun(c)'
        /\ \A d \in Chips : d # c => (Begun(d)' <=> Begun(d))
  BY StatusKeeps
<1>2. /\ UNCHANGED <<pending, out, chip, readTagQ, rdWdCnt, dataCnt, cmdR>>
      /\ state \in StatusStates
  BY DEF DoGetStatusData, readVars
<1>3. /\ chip[c].st = "busy" => ackQ' = ackQ
      /\ chip[c].st # "busy" /\ state = "GET_STATUS" => ackQ' = ackQ
      /\ chip[c].st # "busy" /\ state # "GET_STATUS" =>
           ackQ' = Append(ackQ, [tag |-> cmdR.tag, status |->
                       IF state = "WRITE_GET_STATUS" THEN "WRITE_DONE"
                       ELSE IF failed THEN "ERASE_ERROR" ELSE "ERASE_DONE"])
  BY <1>1 DEF DoGetStatusData, StatusBusy
<1>4. CASE chip[c].st = "busy" /\ state' = "IDLE" /\ Begun(c)'
  <2>1. ~ReadOut'
    BY <1>4 DEF ReadOut, DataStates
  <2>2. \A d \in Chips : Begun(d)' <=> Begun(d)
    BY <1>1, <1>4
  <2> QED
    BY <1>2, <1>3, <1>4, <2>1, <2>2, OwnersStay
<1>5. CASE chip[c].st = "ready" /\ state' = rdyReturnState /\ ~Begun(c)'
  <2>1. PICK t \in Tags : t = cmdR.tag /\ t = chip[c].tag
    BY <1>1 DEF Owners, BegunFits
  <2>2. /\ Done(t) /\ out[t].op = chip[c].op
        /\ chip[c].op = "READ_PAGE" => out[t].left = PageWords
    BY <1>1, <1>5, <2>1 DEF Owners, BegunFits
  <2>3. /\ \A d \in Chips : Begun(d)' => Begun(d) /\ d # c
        /\ \A u : NotBegun(u) => NotBegun(u)' /\ u # t
    BY <1>1, <1>2, <1>5, <2>1 DEF NotBegun
  <2>4. NotBegun(t)'
    BY <1>1, <1>2, <2>1, <2>3 DEF NotBegun, Owners, BegunOnce
  <2>5. /\ \A i \in 1 .. Len(readTagQ) : readTagQ[i] # t
        /\ \A i \in 1 .. Len(ackQ) : ackQ[i].tag # t
    BY <2>3 DEF Owners, PagesOwed, AcksOwed
  <2>6. OutFits' /\ PendingOwed' /\ PendingOnce'
    BY <1>2 DEF Owners, OutFits, PendingOwed, PendingOnce, Owed
  <2>7. PendingApart'
    BY <1>2, <2>3 DEF Owners, PendingApart
  <2>8. BegunFits' /\ BegunOnce'
    BY <1>2, <2>3 DEF Owners, BegunFits, BegunOnce, Owed, Done
  <2>9. PagesOwed' /\ PagesOnce'
    BY <1>2, <2>3 DEF Owners, PagesOwed, PagesOnce, Done
  <2>10. CASE state = "GET_STATUS"
    <3>1. chip[c].op = "READ_PAGE"
      BY <1>1, <2>10 DEF OpOfState
    <3>2. ReadOutFits'
      BY <1>2, <2>1, <2>2, <2>4, <2>5, <3>1 DEF ReadOutFits, Done
    <3>3. AcksOwed' /\ AcksOnce'
      BY <1>2, <1>3, <1>5, <2>3, <2>10 DEF Owners, AcksOwed, AcksOnce, Done
    <3> QED
      BY <2>6, <2>7, <2>8, <2>9, <3>2, <3>3 DEF Owners
  <2>11. CASE state # "GET_STATUS"
    <3>1. chip[c].op # "READ_PAGE" /\ state' = "IDLE"
      <4>1. state \in {"WRITE_GET_STATUS", "ERASE_GET_STATUS"}
        BY <1>2, <2>11 DEF StatusStates
      <4> QED
        BY <1>1, <1>5, <4>1 DEF OpOfState, Control, InWorkFits
    <3>2. ReadOutFits'
      BY <3>1 DEF ReadOutFits, ReadOut, DataStates
    <3>3. PICK x \in Acks : x.tag = t /\ ackQ' = Append(ackQ, x)
      BY <1>3, <1>5, <2>1, <2>11 DEF Acks
    <3>4. /\ ackQ'[Len(ackQ) + 1] = x
          /\ \A i \in 1 .. Len(ackQ) : ackQ'[i] = ackQ[i]
          /\ \A i \in 1 .. Len(ackQ') : i \in 1 .. Len(ackQ) \/ i = Len(ackQ) + 1
      BY <3>3, OwnerTypes, Enqueued
    <3>5. AcksOwed'
      BY <1>2, <2>2, <2>3, <2>4, <3>1, <3>3, <3>4 DEF Owners, AcksOwed, Done
    <3>6. AcksOnce'
      BY <2>5, <3>3, <3>4 DEF Owners, AcksOnce
    <3> QED
      BY <2>6, <2>7, <2>8, <2>9, <3>2, <3>5, <3>6 DEF Owners
  <2> QED
    BY <2>10, <2>11
<1> QED
  BY <1>1, <1>4, <1>5

(* With the first word of a page its tag waits for the words.              *)
LEMMA WordOwners ==
  ASSUME TypeOK, Control, ReadsFit, Positions, Owners, DoReadDataDDR
  PROVE  Owners'
<1>1. /\ UNCHANGED <<pending, out, chip, rdWdCnt, cmdR, ackQ, chipBusy, chipStages, cmdOutQ>>
      /\ state = "READ_DATA"
  BY DEF DoReadDataDDR, sbVars
<1>2. \A d \in Chips : (Begun(d)' <=> Begun(d))
  BY ElsewhereKeeps DEF Elsewhere, MachineRule
<1>3. /\ dataCnt' = dataCnt + 1 \/ state' = "READ_ERROR"
      /\ readTagQ' = readTagQ \/ (dataCnt = 0 /\ readTagQ' = Append(readTagQ, cmdR.tag))
  BY DEF DoReadDataDDR
<1>4. ~ReadOut'
  <2>1. dataCnt \in Nat
    BY ReadTypes
  <2> QED
    BY <1>3, <2>1 DEF ReadOut, DataStates
<1>5. CASE readTagQ' = readTagQ
  BY <1>1, <1>2, <1>4, <1>5, OwnersStay
<1>6. CASE dataCnt = 0 /\ readTagQ' = Append(readTagQ, cmdR.tag)
  <2>1. ReadOut
    BY <1>1, <1>6 DEF ReadOut, DataStates
  <2>2. PICK t \in Tags : t = cmdR.tag
    BY <2>1, OwnerTypes
  <2>3. /\ Done(t) /\ out[t].op = "READ_PAGE" /\ out[t].left = PageWords /\ NotBegun(t)
        /\ \A i \in 1 .. Len(readTagQ) : readTagQ[i] # t
    BY <2>1, <2>2 DEF Owners, ReadOutFits
  <2>4. /\ readTagQ'[Len(readTagQ) + 1] = t /\ Len(readTagQ) \in Nat
        /\ \A i \in 1 .. Len(readTagQ) : readTagQ'[i] = readTagQ[i]
        /\ \A i \in 1 .. Len(readTagQ') : i \in 1 .. Len(readTagQ) \/ i = Len(readTagQ) + 1
    BY <1>6, <2>2, OwnerTypes, Enqueued
  <2>5. Len(readTagQ) = 0 => rdWdCnt = 0
    <3> SUFFICES ASSUME Len(readTagQ) = 0 PROVE rdWdCnt = 0
      OBVIOUS
    <3>1. ~PageOpen
      BY <1>6 DEF PageOpen
    <3>2. rdWdCnt + Len(Words) = PageWords * Len(readTagQ)
      BY <3>1 DEF ReadsFit, WordsCount
    <3>3. PageWords * Len(readTagQ) = 0
      BY ReadTypes
    <3>4. rdWdCnt \in Nat /\ Len(Words) \in Nat
      BY ReadTypes
    <3> QED
      BY <3>2, <3>3, <3>4
  <2>6. \A u : NotBegun(u) <=> NotBegun(u)'
    BY <1>1, <1>2 DEF NotBegun
  <2>7. PagesOwed'
    <3> SUFFICES ASSUME NEW i \in 1 .. Len(readTagQ')
                 PROVE  /\ Done(readTagQ'[i]) /\ out[readTagQ'[i]].op = "READ_PAGE"
                        /\ NotBegun(readTagQ'[i])
                        /\ out[readTagQ'[i]].left
                             = IF i = 1 THEN PageWords - rdWdCnt ELSE PageWords
      BY <1>1, <2>6 DEF PagesOwed, Done
    <3>1. CASE i \in 1 .. Len(readTagQ)
      BY <2>4, <3>1 DEF Owners, PagesOwed
    <3>2. CASE i = Len(readTagQ) + 1
      <4>1. i = 1 => PageWords - rdWdCnt = PageWords
        BY <2>4, <2>5, <3>2, OwnerTypes
      <4> QED
        BY <2>3, <2>4, <3>2, <4>1
    <3> QED
      BY <2>4, <3>1, <3>2
  <2>8. PagesOnce'
    BY <2>3, <2>4 DEF Owners, PagesOnce
  <2>9. OutFits' /\ PendingOwed' /\ PendingOnce'
    BY <1>1 DEF Owners, OutFits, PendingOwed, PendingOnce, Owed
  <2>10. PendingApart' /\ BegunFits' /\ BegunOnce'
    BY <1>1, <1>2, <2>6 DEF Owners, PendingApart, BegunFits, BegunOnce, Owed, Done
  <2>11. AcksOwed' /\ AcksOnce' /\ ReadOutFits'
    BY <1>1, <1>4, <2>6 DEF Owners, AcksOwed, AcksOnce, ReadOutFits, Done
  <2> QED
    BY <2>7, <2>8, <2>9, <2>10, <2>11 DEF Owners
<1> QED
  BY <1>3, <1>5, <1>6

(* A tag t that is done changes what the user knows of it: whatever is     *)
(* owed another answer is not touched.                                     *)
LEMMA OthersStay ==
  ASSUME TypeOK, Control, Positions, Owners, NEW t \in Tags, Done(t), NotBegun(t),
         \A u \in Tags : u # t => out'[u] = out[u],
         out'[t] = Unused \/ out'[t].phase = "done",
         UNCHANGED <<pending, chip, ctlVars>>
  PROVE  /\ OutFits' /\ PendingOwed' /\ PendingOnce' /\ PendingApart' /\ BegunFits' /\ BegunOnce'
         /\ \A u : NotBegun(u)' <=> NotBegun(u)
<1>1. \A d \in Chips : Begun(d)' <=> Begun(d)
  BY BegunStays
<1>2. \A u : NotBegun(u)' <=> NotBegun(u)
  BY <1>1 DEF NotBegun
<1>3. OutFits'
  BY DEF Owners, OutFits, Unused
<1>4. \A c \in Chips : \A k \in 1 .. Len(pending[c]) :
        pending[c][k].tag \in Tags /\ pending[c][k].tag # t
  BY OwnerTypes DEF Owners, PendingOwed, Owed, Done
<1>5. PendingOwed' /\ PendingOnce'
  BY <1>4 DEF Owners, PendingOwed, PendingOnce, Owed
<1>6. PendingApart'
  BY <1>2 DEF Owners, PendingApart
<1>7. BegunFits' /\ BegunOnce'
  BY <1>1 DEF Owners, BegunFits, BegunOnce, NotBegun, Owed, Done
<1> QED
  BY <1>2, <1>3, <1>5, <1>6, <1>7

(* A word of a page is delivered, and with the last one the tag is free.   *)
LEMMA CollectOwners ==
  ASSUME TypeOK, Control, Positions, Owners, DoReadDataCollect
  PROVE  Owners'
<1>1. NotEmpty(readTagQ) /\ Len(readTagQ) > 0 /\ 1 \in 1 .. Len(readTagQ)
  BY OwnerTypes DEF DoReadDataCollect, NotEmpty
<1>2. PICK t \in Tags : t = Head(readTagQ) /\ t = readTagQ[1]
  BY <1>1, OwnerTypes, Dequeued
<1>3. /\ Done(t) /\ out[t].op = "READ_PAGE" /\ NotBegun(t) /\ out[t].left = PageWords - rdWdCnt
  BY <1>1, <1>2 DEF Owners, PagesOwed
<1>4. PICK left \in Int : left = out[t].left - 1 /\ left = PageWords - rdWdCnt - 1
  BY <1>3, OwnerTypes
<1>5. /\ out' = [out EXCEPT ![t] = IF left <= 0 THEN Unused ELSE [out[t] EXCEPT !.left = left]]
      /\ IF LastReadWord THEN rdWdCnt' = 0 /\ readTagQ' = Tail(readTagQ)
         ELSE rdWdCnt' = rdWdCnt + 1 /\ UNCHANGED readTagQ
      /\ UNCHANGED <<pending, chip, ctlVars, state, dataCnt, cmdR, ackQ>>
  BY <1>2, <1>4 DEF DoReadDataCollect, sbVars, bcVars, ctlVars
<1>6. LastReadWord <=> left <= 0
  BY <1>4, OwnerTypes DEF LastReadWord
<1>7. /\ \A u \in Tags : u # t => out'[u] = out[u]
      /\ left <= 0 => out'[t] = Unused
      /\ ~(left <= 0) => /\ out'[t].phase = "done" /\ out'[t].op = "READ_PAGE"
                         /\ out'[t].left = left
  BY <1>3, <1>5, OwnerTypes DEF OutValues, Done
<1>8. /\ OutFits' /\ PendingOwed' /\ PendingOnce' /\ PendingApart' /\ BegunFits' /\ BegunOnce'
      /\ \A u : NotBegun(u)' <=> NotBegun(u)
  BY <1>3, <1>5, <1>7, OthersStay
<1>9. PagesOwed' /\ PagesOnce'
  <2>1. CASE left <= 0
    <3>1. rdWdCnt' = 0 /\ readTagQ' = Tail(readTagQ)
      BY <1>5, <1>6, <2>1
    <3>2. \A i \in 1 .. Len(readTagQ') : /\ readTagQ'[i] = readTagQ[i + 1]
                                         /\ i + 1 \in 1 .. Len(readTagQ) /\ i + 1 # 1 /\ i \in Int
      BY <1>1, <3>1, OwnerTypes, Dequeued
    <3>3. \A i \in 1 .. Len(readTagQ') : readTagQ'[i] \in Tags /\ readTagQ'[i] # t
      BY <1>1, <1>2, <3>2, OwnerTypes DEF Owners, PagesOnce
    <3>4. PagesOnce'
      BY <3>2 DEF Owners, PagesOnce
    <3>5. PageWords - rdWdCnt' = PageWords
      BY <3>1, OwnerTypes
    <3>6. PagesOwed'
      BY <1>7, <1>8, <3>2, <3>3, <3>5 DEF Owners, PagesOwed, Done
    <3> QED
      BY <3>4, <3>6
  <2>2. CASE ~(left <= 0)
    <3>1. rdWdCnt' = rdWdCnt + 1 /\ readTagQ' = readTagQ
      BY <1>5, <1>6, <2>2
    <3>2. PageWords - rdWdCnt' = left
      BY <1>4, <3>1, OwnerTypes
    <3>3. \A i \in 1 .. Len(readTagQ) :
            readTagQ[i] \in Tags /\ (i = 1 <=> readTagQ[i] = t)
      BY <1>1, <1>2, OwnerTypes DEF Owners, PagesOnce
    <3>4. PagesOwed'
      BY <1>3, <1>7, <1>8, <2>2, <3>1, <3>2, <3>3 DEF Owners, PagesOwed, Done
    <3> QED
      BY <3>1, <3>4 DEF Owners, PagesOnce
  <2> QED
    BY <2>1, <2>2
<1>10. ReadOutFits'
  <2>1. ReadOut' <=> ReadOut
    BY <1>5 DEF ReadOut
  <2>2. \A i \in 1 .. Len(readTagQ') : \E j \in 1 .. Len(readTagQ) : readTagQ'[i] = readTagQ[j]
    <3>1. CASE readTagQ' = readTagQ
      BY <3>1
    <3>2. CASE readTagQ' = Tail(readTagQ)
      BY <1>1, <3>2, OwnerTypes, Dequeued
    <3> QED
      BY <1>5, <3>1, <3>2
  <2>3. ReadOut => cmdR.tag \in Tags /\ cmdR.tag # t
    BY <1>1, <1>2, OwnerTypes DEF Owners, ReadOutFits
  <2> QED
    BY <1>5, <1>7, <1>8, <2>1, <2>2, <2>3 DEF Owners, ReadOutFits, Done
<1>11. AcksOwed' /\ AcksOnce'
  <2>1. \A i \in 1 .. Len(ackQ) : ackQ[i].tag \in Tags /\ ackQ[i].tag # t
    BY <1>3, OwnerTypes DEF Owners, AcksOwed
  <2> QED
    BY <1>5, <1>7, <1>8, <2>1 DEF Owners, AcksOwed, AcksOnce, Done
<1> QED
  BY <1>8, <1>9, <1>10, <1>11 DEF Owners

(* The user takes an answer.                                               *)
LEMMA AckOwners ==
  ASSUME TypeOK, Control, Positions, Owners, DoAckStatus
  PROVE  Owners'
<1>1. NotEmpty(ackQ) /\ Len(ackQ) > 0 /\ 1 \in 1 .. Len(ackQ) /\ Head(ackQ) = ackQ[1]
  BY OwnerTypes, Dequeued DEF DoAckStatus, NotEmpty
<1>2. PICK t \in Tags : t = ackQ[1].tag
  BY <1>1, OwnerTypes
<1>3. Done(t) /\ out[t].op # "READ_PAGE" /\ NotBegun(t)
  BY <1>1, <1>2 DEF Owners, AcksOwed
<1>4. /\ out' = [out EXCEPT ![t] = Unused] /\ ackQ' = Tail(ackQ)
      /\ UNCHANGED <<pending, chip, ctlVars, state, dataCnt, cmdR, readTagQ, rdWdCnt>>
  BY <1>1, <1>2 DEF DoAckStatus, sbVars, bcVars, readVars, ctlVars
<1>5. /\ \A u \in Tags : u # t => out'[u] = out[u]
      /\ out'[t] = Unused
  BY <1>4, OwnerTypes
<1>6. /\ OutFits' /\ PendingOwed' /\ PendingOnce' /\ PendingApart' /\ BegunFits' /\ BegunOnce'
      /\ \A u : NotBegun(u)' <=> NotBegun(u)
  BY <1>3, <1>4, <1>5, OthersStay
<1>7. \A i \in 1 .. Len(ackQ') : /\ ackQ'[i] = ackQ[i + 1]
                                 /\ i + 1 \in 1 .. Len(ackQ) /\ i + 1 # 1 /\ i \in Int
  BY <1>1, <1>4, OwnerTypes, Dequeued
<1>8. \A i \in 1 .. Len(ackQ') : ackQ'[i].tag \in Tags /\ ackQ'[i].tag # t
  <2>1. \A j \in 1 .. Len(ackQ) : ackQ[j].tag \in Tags
    BY OwnerTypes
  <2>2. \A j \in 1 .. Len(ackQ) : ackQ[j].tag = t => j = 1
    BY <1>1, <1>2 DEF Owners, AcksOnce
  <2> TAKE i \in 1 .. Len(ackQ')
  <2>3. ackQ'[i] = ackQ[i + 1] /\ i + 1 \in 1 .. Len(ackQ) /\ i + 1 # 1
    BY <1>7
  <2> QED
    BY <2>1, <2>2, <2>3
<1>9. AcksOnce'
  <2>1. ASSUME NEW i \in 1 .. Len(ackQ'), NEW j \in 1 .. Len(ackQ'), ackQ'[i].tag = ackQ'[j].tag
        PROVE  i = j
    <3>1. AcksOnce
      BY DEF Owners
    <3>2. ackQ'[i] = ackQ[i + 1] /\ ackQ'[j] = ackQ[j + 1]
          /\ i + 1 \in 1 .. Len(ackQ) /\ j + 1 \in 1 .. Len(ackQ)
      BY <1>7
    <3>3. i + 1 = j + 1
      BY <2>1, <3>1, <3>2 DEF AcksOnce
    <3> QED
      BY <3>3
  <2> QED
    BY <2>1 DEF AcksOnce
<1>10. AcksOwed'
  BY <1>5, <1>6, <1>7, <1>8 DEF Owners, AcksOwed, Done
<1>11. ReadOutFits'
  <2>1. ReadOut => cmdR.tag \in Tags /\ cmdR.tag # t
    BY <1>3, OwnerTypes DEF Owners, ReadOutFits
  <2> QED
    BY <1>4, <1>5, <1>6, <2>1 DEF Owners, ReadOutFits, ReadOut, Done
<1>12. PagesOwed' /\ PagesOnce'
  <2>1. \A i \in 1 .. Len(readTagQ) : readTagQ[i] \in Tags /\ readTagQ[i] # t
    BY <1>3, OwnerTypes DEF Owners, PagesOwed
  <2> QED
    BY <1>4, <1>5, <1>6, <2>1 DEF Owners, PagesOwed, PagesOnce, Done
<1> QED
  BY <1>6, <1>9, <1>10, <1>11, <1>12 DEF Owners

(* The user is asked for the page of a write, or sends a word of it.       *)
LEMMA SendOwners ==
  ASSUME TypeOK, Control, Positions, Owners, NEW t \in Tags, Owed(t), out[t].op = "WRITE_PAGE",
         \A u \in Tags : u # t => out'[u] = out[u],
         out'[t].op = out[t].op, out'[t].phase = "sending",
         UNCHANGED <<pending, chip, ctlVars, state, dataCnt, cmdR, readTagQ, rdWdCnt, ackQ>>
  PROVE  Owners'
<1>1. \A d \in Chips : Begun(d)' <=> Begun(d)
  BY BegunStays
<1>2. \A u : NotBegun(u)' <=> NotBegun(u)
  BY <1>1 DEF NotBegun
<1>3. \A u \in Tags : /\ out'[u].op = out[u].op
                      /\ Owed(u) => out'[u].phase \in {"accepted", "sending"}
                      /\ Done(u) => out'[u] = out[u]
                      /\ out[u].op = "READ_PAGE" => out'[u] = out[u]
  BY DEF Owed, Done
<1>4. OutFits'
  BY DEF Owners, OutFits
<1>5. PendingOwed' /\ PendingOnce' /\ PendingApart'
  <2>1. ASSUME NEW c \in Chips, NEW k \in 1 .. Len(pending[c])
        PROVE  /\ out'[pending[c][k].tag].phase \in {"accepted", "sending"}
               /\ out'[pending[c][k].tag].op = pending[c][k].op
    <3>1. PICK u \in Tags : u = pending[c][k].tag
      BY OwnerTypes
    <3>2. Owed(u) /\ out[u].op = pending[c][k].op
      BY <3>1 DEF Owners, PendingOwed
    <3> QED
      BY <1>3, <3>1, <3>2
  <2>2. PendingOnce' /\ PendingApart'
    BY <1>2 DEF Owners, PendingOnce, PendingApart
  <2> QED
    BY <2>1, <2>2 DEF PendingOwed, Owed
<1>6. BegunFits' /\ BegunOnce'
  BY <1>1, <1>3 DEF Owners, BegunFits, BegunOnce, Owed, Done
<1>7. ReadOutFits'
  BY <1>2, <1>3, OwnerTypes DEF Owners, ReadOutFits, ReadOut, Done
<1>8. PagesOwed' /\ PagesOnce'
  BY <1>2, <1>3, OwnerTypes DEF Owners, PagesOwed, PagesOnce, Done
<1>9. AcksOwed' /\ AcksOnce'
  <2>1. /\ ackQ' = ackQ /\ \A i \in 1 .. Len(ackQ) : ackQ[i].tag \in Tags
    BY <1>2, OwnerTypes
  <2> QED
    BY <1>2, <1>3, <2>1 DEF Owners, AcksOwed, AcksOnce, Done
<1> QED
  BY <1>4, <1>5, <1>6, <1>7, <1>8, <1>9 DEF Owners

(* A chip finishes what it does: the command has been carried out.         *)
LEMMA DoneOwners ==
  ASSUME TypeOK, Control, Positions, Owners, NEW c \in Chips, ChipDone(c)
  PROVE  Owners'
<1>1. /\ chip[c].st = "busy" /\ Begun(c)
  BY DEF ChipDone, Control, ChipControl, ChipFits
<1>2. PICK t \in Tags : t = chip[c].tag /\ Owed(t) /\ out[t].op = chip[c].op
  BY <1>1 DEF Owners, BegunFits
<1>3. /\ chip' = [chip EXCEPT ![c].st = "ready"] /\ out' = [out EXCEPT ![t].phase = "done"]
      /\ UNCHANGED <<pending, state, dataCnt, cmdR, readTagQ, rdWdCnt, ackQ>>
  BY <1>2 DEF ChipDone, bcVars, readVars
<1>4. /\ chip'[c].st = "ready" /\ chip'[c].tag = t /\ chip'[c].op = chip[c].op
      /\ \A d \in Chips : d # c => chip'[d] = chip[d]
      /\ \A d \in Chips : chip'[d].tag = chip[d].tag /\ chip'[d].op = chip[d].op
  BY <1>2, <1>3, OwnerTypes
<1>5. /\ \A u \in Tags : u # t => out'[u] = out[u]
      /\ out'[t].phase = "done" /\ out'[t].op = out[t].op /\ out'[t].left = out[t].left
      /\ \A u \in Tags : out'[u].op = out[u].op /\ out'[u].left = out[u].left
  BY <1>3, OwnerTypes DEF OutValues
<1>6. /\ \A d \in Chips : Begun(d)' <=> Begun(d)
      /\ \A u : NotBegun(u)' <=> NotBegun(u)
  <2>1. \A d \in Chips : Begun(d)' <=> Begun(d)
    BY DoneKeeps
  <2> QED
    BY <1>4, <2>1 DEF NotBegun
<1>7. ~NotBegun(t)
  BY <1>1, <1>2 DEF NotBegun
<1>8. OutFits'
  BY <1>5 DEF Owners, OutFits
<1>9. PendingOwed' /\ PendingOnce' /\ PendingApart'
  <2>1. \A d \in Chips : \A k \in 1 .. Len(pending[d]) :
          pending[d][k].tag \in Tags /\ pending[d][k].tag # t
    BY <1>7, OwnerTypes DEF Owners, PendingApart
  <2> QED
    BY <1>3, <1>5, <1>6, <2>1 DEF Owners, PendingOwed, PendingOnce, PendingApart, Owed
<1>10. BegunFits' /\ BegunOnce'
  <2>1. \A d \in Chips : Begun(d) /\ d # c => chip[d].tag \in Tags /\ chip[d].tag # t
    BY <1>1, <1>2 DEF Owners, BegunFits, BegunOnce
  <2> SUFFICES ASSUME NEW d \in Chips, Begun(d)
               PROVE  /\ chip'[d].tag \in Tags /\ out'[chip'[d].tag].op = chip'[d].op
                      /\ chip'[d].st = "busy" =>
                           out'[chip'[d].tag].phase \in {"accepted", "sending"}
                      /\ chip'[d].st = "ready" => out'[chip'[d].tag].phase = "done"
                      /\ chip'[d].op = "READ_PAGE" => out'[chip'[d].tag].left = PageWords
    <3>1. BegunOnce'
      BY <1>4, <1>6 DEF Owners, BegunOnce
    <3> QED
      BY <1>6, <3>1 DEF BegunFits, Owed, Done
  <2>2. CASE d = c
    BY <1>1, <1>2, <1>4, <1>5, <2>2 DEF Owners, BegunFits
  <2>3. CASE d # c
    BY <1>4, <1>5, <2>1, <2>3 DEF Owners, BegunFits, Owed, Done
  <2> QED
    BY <2>2, <2>3
<1>11. \A u \in Tags : NotBegun(u) /\ Done(u) => Done(u)' /\ out'[u] = out[u]
  BY <1>5, <1>7 DEF Done
<1>12. ReadOutFits'
  BY <1>3, <1>6, <1>11, OwnerTypes DEF Owners, ReadOutFits, ReadOut
<1>13. PagesOwed' /\ PagesOnce'
  BY <1>3, <1>6, <1>11, OwnerTypes DEF Owners, PagesOwed, PagesOnce
<1>14. AcksOwed' /\ AcksOnce'
  BY <1>3, <1>6, <1>11, OwnerTypes DEF Owners, AcksOwed, AcksOnce
<1> QED
  BY <1>8, <1>9, <1>10, <1>12, <1>13, <1>14 DEF Owners

(* A chip that has not begun the first command of its queue: the command   *)
(* is the first of the pending ones.                                       *)
LEMMA WaitingHead ==
  ASSUME TypeOK, Control, Positions, NEW c \in Chips, chipQs[c] # <<>>, ~Begun(c), ~Finished(c)
  PROVE  /\ 1 \in 1 .. Len(pending[c])
         /\ pending[c][1].tag = Head(chipQs[c]).tag /\ pending[c][1].op = Head(chipQs[c]).op
<1>1. Gone(c) = 0
  BY DEF Gone
<1>2. NotEmpty(chipQs[c])
  BY PositionTypes, EmptyIff
<1>3. NotEmpty(pending[c]) /\ Head(pending[c]) = OpOf(Head(chipQs[c]))
  BY <1>1, <1>2, PositionTypes, PlacesBegun
<1>4. Head(pending[c]) = pending[c][1] /\ 1 \in 1 .. Len(pending[c])
  BY <1>3, PositionTypes, Dequeued
<1> QED
  BY <1>3, <1>4 DEF OpOf

(* The tag of the first command of a chip: it is owed until the chip has   *)
(* done the command.                                                       *)
LEMMA HeadOwner ==
  ASSUME TypeOK, Control, Positions, Owners, NEW c \in Chips, chipQs[c] # <<>>, ~Finished(c)
  PROVE  /\ Head(chipQs[c]).tag \in Tags
         /\ out[Head(chipQs[c]).tag].op = Head(chipQs[c]).op
         /\ ~Begun(c) => Owed(Head(chipQs[c]).tag)
         /\ Begun(c) => chip[c].tag = Head(chipQs[c]).tag
<1>1. CASE Begun(c)
  <2>1. chip[c].tag = Head(chipQs[c]).tag /\ chip[c].op = Head(chipQs[c]).op
    BY <1>1 DEF Control, ChipControl, ChipFits
  <2> QED
    BY <1>1, <2>1 DEF Owners, BegunFits
<1>2. CASE ~Begun(c)
  BY <1>2, WaitingHead, OwnerTypes DEF Owners, PendingOwed
<1> QED
  BY <1>1, <1>2

(* No two chips are at work, or next at work, under the same tag.          *)
LEMMA OneHead ==
  ASSUME TypeOK, Control, Positions, Owners, NEW c \in Chips, NEW d \in Chips,
         chipQs[c] # <<>>, ~Finished(c), chipQs[d] # <<>>, ~Finished(d),
         Head(chipQs[c]).tag = Head(chipQs[d]).tag
  PROVE  c = d
<1>1. CASE Begun(c) /\ Begun(d)
  BY <1>1, HeadOwner DEF Owners, BegunOnce
<1>2. CASE ~Begun(c) /\ ~Begun(d)
  BY <1>2, WaitingHead DEF Owners, PendingOnce
<1>3. CASE Begun(c) /\ ~Begun(d)
  BY <1>3, WaitingHead, HeadOwner DEF Owners, PendingApart, NotBegun
<1>4. CASE ~Begun(c) /\ Begun(d)
  BY <1>4, WaitingHead, HeadOwner DEF Owners, PendingApart, NotBegun
<1> QED
  BY <1>1, <1>2, <1>3, <1>4

(* So the stage of its chip tells whether the page of a tag is asked for   *)
(* or its command started.                                                 *)
LEMMA OneStage ==
  ASSUME TypeOK, Control, Positions, Owners, NEW c \in Chips, chipQs[c] # <<>>, ~Finished(c),
         NEW u, u = Head(chipQs[c]).tag
  PROVE  /\ Requested(u) => chipStages[c] = "WR_BUF_REQ_ISSUED"
         /\ Started(u) => chipStages[c] \in Issued \union Polled
         /\ Requested(u) => ~Started(u)
<1>1. \A d \in Chips : chipStages[d] = "WR_BUF_REQ_ISSUED" => ~Finished(d) /\ ~Begun(d)
  BY GoneFits DEF Polled, Issued, Begun
<1>2. Requested(u) => chipStages[c] = "WR_BUF_REQ_ISSUED"
  BY <1>1, OneHead DEF Requested, Writes
<1>3. Started(u) => chipStages[c] \in Issued \union Polled
  BY OneHead DEF Started, Writes
<1> QED
  BY <1>2, <1>3 DEF Issued, Polled

(* A tag whose page is asked for is not begun, and is that of a write.     *)
LEMMA RequestedTag ==
  ASSUME TypeOK, Control, Positions, Owners, NEW u, Requested(u)
  PROVE  u \in Tags /\ Owed(u) /\ out[u].op = "WRITE_PAGE" /\ NotBegun(u) /\ ~Started(u)
<1>1. PICK c \in Chips : /\ chipStages[c] = "WR_BUF_REQ_ISSUED" /\ chipQs[c] # <<>>
                         /\ Head(chipQs[c]).tag = u /\ Head(chipQs[c]).op = "WRITE_PAGE"
  BY DEF Requested, Writes
<1>2. ~Finished(c) /\ ~Begun(c)
  BY <1>1, GoneFits DEF Polled, Issued, Begun
<1>3. u \in Tags /\ Owed(u) /\ out[u].op = "WRITE_PAGE"
  BY <1>1, <1>2, HeadOwner
<1>4. NotBegun(u)
  BY <1>1, <1>2, WaitingHead DEF Owners, PendingApart
<1> QED
  BY <1>1, <1>2, <1>3, <1>4, OneStage

(* A start that is queued, or in work, is that of the first command of a   *)
(* chip that has not begun it.                                             *)
LEMMA StartedHead ==
  ASSUME TypeOK, Control, NEW c \in Chips,
         \/ \E i \in 1 .. Len(cmdOutQ) : cmdOutQ[i].chip = c /\ cmdOutQ[i].busOp \in StartOps
         \/ StartInWork(c)
  PROVE  /\ chipQs[c] # <<>> /\ ~Finished(c) /\ ~Begun(c)
         /\ chipStages[c] \in Issued \union Polled
<1>1. /\ ChipControl(c) /\ CountIn(cmdOutQ, Starts(c)) \in Nat
      /\ chipBusy[c] \in Seq(BOOLEAN) /\ chipStages[c] \in Stages
  BY ControlTypes DEF Control
<1>2. nStart(c) # 0
  <2>1. CASE StartInWork(c)
    BY <1>1, <2>1 DEF nStart
  <2>2. CASE ~StartInWork(c)
    BY <1>1, <2>2, NoneQueued DEF nStart
  <2> QED
    BY <2>1, <2>2
<1>3. chipStages[c] \in Issued \union Polled /\ chipBusy[c] = <<>>
  BY <1>1, <1>2 DEF ChipControl, StartsFit
<1>4. chipQs[c] # <<>>
  BY <1>1, <1>3 DEF ChipControl, InStage, Issued, Polled
<1>5. ~Finished(c)
  <2>1. Len(chipBusy[c]) = 0
    BY <1>1, <1>3, EmptyIff
  <2>2. Finished(c) => Len(chipBusy[c]) = 1
    BY DEF Finished
  <2> QED
    BY <2>1, <2>2
<1> QED
  BY <1>2, <1>3, <1>4, <1>5 DEF Begun

(* While a page is written, or its command is on its way, the tag of the   *)
(* command is that of a write that is not begun.                           *)
LEMMA WritingHead ==
  ASSUME TypeOK, Control, Positions, Owners
  PROVE  /\ Writing => /\ Started(cmdR.tag) /\ NotBegun(cmdR.tag) /\ cmdR.tag \in Tags
                       /\ Head(chipQs[cmdR.chip]).tag = cmdR.tag /\ StartInWork(cmdR.chip)
         /\ \A i \in 1 .. Len(cmdOutQ) : cmdOutQ[i].busOp = "WRITE_CMD_DATA" =>
              /\ Started(cmdOutQ[i].tag) /\ NotBegun(cmdOutQ[i].tag)
              /\ Head(chipQs[cmdOutQ[i].chip]).tag = cmdOutQ[i].tag
<1>1. ASSUME NEW c \in Chips, NEW u, chipQs[c] # <<>>, ~Finished(c), ~Begun(c),
             chipStages[c] \in Issued \union Polled,
             Head(chipQs[c]).tag = u, Head(chipQs[c]).op = "WRITE_PAGE"
      PROVE  Started(u) /\ NotBegun(u) /\ u \in Tags
  <2>1. Started(u)
    BY <1>1 DEF Started, Writes
  <2>2. NotBegun(u)
    BY <1>1, WaitingHead DEF Owners, PendingApart
  <2> QED
    BY <1>1, <2>1, <2>2, HeadOwner
<1>2. ASSUME Writing
      PROVE  /\ Started(cmdR.tag) /\ NotBegun(cmdR.tag) /\ cmdR.tag \in Tags
             /\ Head(chipQs[cmdR.chip]).tag = cmdR.tag /\ StartInWork(cmdR.chip)
  <2>1. PICK c \in Chips : c = cmdR.chip
    BY ControlTypes
  <2>2. StartInWork(c)
    BY <1>2, <2>1 DEF Writing, StartInWork, StartStates
  <2>3. Head(chipQs[c]).tag = cmdR.tag /\ Head(chipQs[c]).op = "WRITE_PAGE"
    BY <1>2, <2>1 DEF Writing, StartStates, Control, InWorkFits, OpOfState
  <2> QED
    BY <1>1, <2>1, <2>2, <2>3, StartedHead
<1>3. ASSUME NEW i \in 1 .. Len(cmdOutQ), cmdOutQ[i].busOp = "WRITE_CMD_DATA"
      PROVE  /\ Started(cmdOutQ[i].tag) /\ NotBegun(cmdOutQ[i].tag)
             /\ Head(chipQs[cmdOutQ[i].chip]).tag = cmdOutQ[i].tag
  <2>1. cmdOutQ[i] \in BusCmds
    BY ControlTypes
  <2>2. PICK c \in Chips : c = cmdOutQ[i].chip
    BY <2>1 DEF BusCmds
  <2>3. Head(chipQs[c]).tag = cmdOutQ[i].tag /\ Head(chipQs[c]).op = "WRITE_PAGE"
    BY <1>3, <2>2 DEF Control, QueuedFit, StepOfHead, OpOfBusOp
  <2>4. cmdOutQ[i].busOp \in StartOps
    BY <1>3 DEF StartOps
  <2> QED
    BY <1>1, <2>2, <2>3, <2>4, StartedHead
<1> QED
  BY <1>2, <1>3

(* The user is asked for the page of a write it is owed.                   *)
LEMMA AskedTag ==
  ASSUME TypeOK, Control, Positions, Owners, AskedFits, NotEmpty(wrDataReqQ)
  PROVE  /\ Head(wrDataReqQ) \in Tags
         /\ nAsked(Head(wrDataReqQ)) = 1 /\ Requested(Head(wrDataReqQ))
         /\ out[Head(wrDataReqQ)].phase = "accepted"
<1>1. PICK t \in Tags : t = Head(wrDataReqQ)
  BY Dequeued DEF TypeOK
<1>2. /\ wrDataReqQ \in Seq(Tags) /\ wrDataBufReqQ \in Seq(Tags) /\ cmdOutQ \in Seq(BusCmds)
  BY DEF TypeOK, SbTypeOK
<1>3. /\ CountIn(wrDataReqQ, {t}) \in Nat /\ CountIn(wrDataBufReqQ, {t}) \in Nat
      /\ CountIn(cmdOutQ, BufReqs(t)) \in Nat
  BY <1>2, CountIsNat
<1>4. CountIn(wrDataReqQ, {t}) # 0
  <2>1. wrDataReqQ[1] = t /\ 1 \in 1 .. Len(wrDataReqQ)
    BY <1>1, <1>2, Dequeued
  <2> QED
    BY <1>2, <2>1, CountNone
<1>5. nAsked(t) # 0
  BY <1>3, <1>4 DEF nAsked
<1> QED
  BY <1>1, <1>5 DEF AskedFits

(* Every step keeps Owners.                                                *)
LEMMA OwnersKept ==
  ASSUME TypeOK, Control, ReadsFit, Positions, Owners, AskedFits, [Next]_vars
  PROVE  Owners'
<1>1. CASE ServiceReq
  <2>1. \A d \in Chips : Begun(d)' <=> Begun(d)
    BY <1>1, ServiceEffects
  <2>2. UNCHANGED <<pending, out, chip, readTagQ, rdWdCnt, ackQ, state, dataCnt, cmdR>>
    BY <1>1 DEF ServiceReq, Scoreboards, bcVars, readVars
  <2> QED
    BY <2>1, <2>2, OwnersStay DEF ReadOut
<1>2. CASE DoSBCmd
  <2>1. \A d \in Chips : Begun(d)' <=> Begun(d)
    BY <1>2, CmdInKeeps
  <2>2. UNCHANGED <<pending, out, chip, readTagQ, rdWdCnt, ackQ, state, dataCnt, cmdR>>
    BY <1>2 DEF DoSBCmd, bcVars, readVars
  <2> QED
    BY <2>1, <2>2, OwnersStay DEF ReadOut
<1>3. CASE Elsewhere
  <2>0. \A d \in Chips : Begun(d)' <=> Begun(d)
    BY <1>3, ElsewhereKeeps
  <2>1. ASSUME UNCHANGED <<pending, out, chip, readTagQ, rdWdCnt, ackQ>>,
               ReadOut' => ReadOut /\ UNCHANGED cmdR
        PROVE  Owners'
    BY <2>0, <2>1, OwnersStay
  <2>2. ASSUME UNCHANGED <<pending, out, chip, readTagQ, rdWdCnt, ackQ, state, dataCnt, cmdR>>
        PROVE  Owners'
    BY <2>1, <2>2 DEF ReadOut
  <2>3. CASE UNCHANGED vars
    BY <2>2, <2>3 DEF vars, bcVars, readVars
  <2>4. CASE ChooseChip
    BY <2>2, <2>4 DEF ChooseChip, Scoreboards, bcVars, readVars
  <2>5. CASE \E c \in Chips : BusyTimer(c)
    BY <2>2, <2>5 DEF BusyTimer, Scoreboards, bcVars, readVars
  <2>6. CASE MachineRule
    <3>1. CASE DoDecodeCmd
      <4>1. state' \notin DataStates
        <5>1. Head(cmdOutQ) \in BusCmds
          BY <3>1, Dequeued, ControlTypes DEF DoDecodeCmd, CmdOutGet
        <5> QED
          BY <3>1, <5>1 DEF DoDecodeCmd, NextState, DataStates, BusCmds, BusOps
      <4> QED
        BY <2>1, <3>1, <4>1 DEF DoDecodeCmd, readVars, ReadOut
    <3>2. CASE SendPhyCmds
      BY <2>2, <3>2 DEF SendPhyCmds, readVars
    <3>3. CASE DoReadPageWait
      BY <2>1, <3>3 DEF DoReadPageWait, GoTo, readVars, ReadOut, DataStates
    <3>4. CASE DoReadDataWaitBuf
      BY <2>1, <3>4 DEF DoReadDataWaitBuf, GoTo, readVars, ReadOut, DataStates
    <3>5. CASE DoReadDataDDR
      BY <3>5, WordOwners
    <3>6. CASE DoReadDataDone
      BY <2>1, <3>6 DEF DoReadDataDone, GoTo, readVars, ReadOut, DataStates
    <3>7. CASE DoWriteDataWait
      BY <2>1, <3>7 DEF DoWriteDataWait, GoTo, readVars, ReadOut, DataStates
    <3>8. CASE DoWritePageDataDDR
      BY <2>1, <3>8 DEF DoWritePageDataDDR, readVars, ReadOut, DataStates
    <3> QED
      BY <2>6, <3>1, <3>2, <3>3, <3>4, <3>5, <3>6, <3>7, <3>8 DEF MachineRule
  <2>7. CASE DataRule
    <3>1. CASE DoDecoderDataBuf
      BY <2>2, <3>1 DEF DoDecoderDataBuf, bcVars
    <3>2. CASE DoReadDataCollect
      BY <3>2, CollectOwners
    <3>3. CASE DoAckStatus
      BY <3>3, AckOwners
    <3>4. CASE DoHandleWriteDataReqFromBus
      BY <2>2, <3>4 DEF DoHandleWriteDataReqFromBus, bcVars, readVars
    <3>5. CASE DoWriteFetchWait
      BY <2>2, <3>5 DEF DoWriteFetchWait, bcVars, readVars
    <3>6. CASE DoWriteBufTransfer
      BY <2>2, <3>6 DEF DoWriteBufTransfer, bcVars, readVars
    <3>7. CASE SetWriteDataRdy
      BY <2>2, <3>7 DEF SetWriteDataRdy, bcVars, readVars
    <3>8. CASE DoWriteDataTransferReq
      BY <2>2, <3>8 DEF DoWriteDataTransferReq, bcVars, readVars
    <3>9. CASE DoWriteDataTransferToBus
      BY <2>2, <3>9 DEF DoWriteDataTransferToBus, bcVars, readVars
    <3> QED
      BY <2>7, <3>1, <3>2, <3>3, <3>4, <3>5, <3>6, <3>7, <3>8, <3>9 DEF DataRule
  <2>8. CASE WriteDataReq
    <3>1. PICK t \in Tags : /\ t = Head(wrDataReqQ) /\ Requested(t)
                            /\ out[t].phase = "accepted"
      BY <2>8, AskedTag DEF WriteDataReq
    <3>2. Owed(t) /\ out[t].op = "WRITE_PAGE"
      BY <3>1, RequestedTag
    <3>3. out' = [out EXCEPT ![t].phase = "sending"]
      BY <2>8, <3>1 DEF WriteDataReq
    <3>4. /\ \A u \in Tags : u # t => out'[u] = out[u]
          /\ out'[t].op = out[t].op /\ out'[t].phase = "sending"
      BY <3>3, OwnerTypes DEF OutValues
    <3>5. UNCHANGED <<pending, chip, ctlVars, state, dataCnt, cmdR, readTagQ, rdWdCnt, ackQ>>
      BY <2>8 DEF WriteDataReq, sbVars, bcVars, readVars, ctlVars
    <3> QED
      BY <3>2, <3>4, <3>5, SendOwners
  <2>9. ASSUME NEW t \in Tags, WriteWord(t) PROVE Owners'
    <3>1. out[t].phase = "sending" /\ Owed(t) /\ out[t].op = "WRITE_PAGE"
      BY <2>9 DEF WriteWord, Owed, Owners, OutFits
    <3>2. out' = [out EXCEPT ![t].left = out[t].left - 1]
      BY <2>9 DEF WriteWord
    <3>3. /\ \A u \in Tags : u # t => out'[u] = out[u]
          /\ out'[t].op = out[t].op /\ out'[t].phase = "sending"
      BY <3>1, <3>2, OwnerTypes DEF OutValues
    <3>4. UNCHANGED <<pending, chip, ctlVars, state, dataCnt, cmdR, readTagQ, rdWdCnt, ackQ>>
      BY <2>9 DEF WriteWord, sbVars, bcVars, readVars, ctlVars
    <3> QED
      BY <3>1, <3>3, <3>4, SendOwners
  <2>10. CASE \E t \in Tags : WriteWord(t)
    BY <2>9, <2>10
  <2>11. CASE \E c \in Chips : ChipDone(c)
    BY <2>11, DoneOwners
  <2> QED
    BY <1>3, <2>3, <2>4, <2>5, <2>6, <2>7, <2>8, <2>10, <2>11 DEF Elsewhere
<1> QED
  BY <1>1, <1>2, <1>3, StepCases, AcceptOwners, StartOwners, StatusOwners

-----------------------------------------------------------------------------
(* The write path: what each part of WriteFits says depends only on the    *)
(* variables it names.                                                     *)

(* The types the following lemmas use.                                     *)
LEMMA WriteTypes ==
  ASSUME TypeOK
  PROVE  /\ PageWords \in Nat /\ PageWords > 1
         /\ out \in [Tags -> OutValues]
         /\ cmdOutQ \in Seq(BusCmds) /\ Len(cmdOutQ) \in Nat
         /\ wrDataBufReqQ \in Seq(Tags) /\ wrDataReqQ \in Seq(Tags)
         /\ wrDataTransReqQ \in Seq({1}) /\ Len(wrDataTransReqQ) \in Nat
         /\ encodeOutQ \in Seq(Tags) /\ Len(encodeOutQ) \in Nat
         /\ writePageBufBack \in Seq(Tags) /\ writePageBufFront \in Seq(Tags)
         /\ Len(writePageBufFront) \in Nat /\ Len(writePageBufFront) <= PageWords
         /\ Data \in Seq(Tags) /\ Len(Data) \in Nat
         /\ Len(Data) = Len(writePageBufFront) + Len(writePageBufBack)
         /\ Len(writePageBufBack) \in Nat
         /\ writeWordCnt \in 0 .. PageWords - 1 /\ dataCnt \in 0 .. PageWords
         /\ wrState \in {0, 1} /\ wdataCnt \in 0 .. PageWords
         /\ ToTransfer \in 0 .. PageWords /\ Offset \in 0 .. PageWords - 1
<1>1. PageWords \in Nat /\ PageWords > 1 /\ out \in [Tags -> OutValues]
  BY FlashBusAssumption DEF TypeOK, OutValues
<1>2. /\ cmdOutQ \in Seq(BusCmds)
      /\ wrDataBufReqQ \in Seq(Tags) /\ wrDataReqQ \in Seq(Tags)
      /\ wrDataTransReqQ \in Seq({1}) /\ encodeOutQ \in Seq(Tags)
      /\ writePageBufBack \in Seq(Tags) /\ writePageBufFront \in Seq(Tags)
      /\ Len(writePageBufFront) <= PageWords
      /\ writeWordCnt \in 0 .. PageWords - 1 /\ dataCnt \in 0 .. PageWords
      /\ wrState \in {0, 1} /\ wdataCnt \in 0 .. PageWords
  BY DEF TypeOK, SbTypeOK
<1>3. Data \in Seq(Tags) /\ Len(Data) = Len(writePageBufFront) + Len(writePageBufBack)
  BY <1>2, OneQueue DEF Data
<1>4. ToTransfer \in 0 .. PageWords /\ Offset \in 0 .. PageWords - 1
  BY <1>1, <1>2 DEF ToTransfer, Offset
<1> QED
  BY <1>1, <1>2, <1>3, <1>4, LenProperties

(* The requests for data.                                                  *)
LEMMA AskedStays ==
  ASSUME AskedFits,
         \A u \in Tags : nAsked(u)' = nAsked(u),
         \A u \in Tags : nAsked(u) # 0 => out'[u].phase = out[u].phase,
         \A u \in Tags : nAsked(u) # 0 /\ Requested(u) => Requested(u)'
  PROVE  AskedFits'
  BY DEF AskedFits

(* The counts of the requests depend on three queues.                      *)
LEMMA SameAsked ==
  ASSUME UNCHANGED <<wrDataBufReqQ, wrDataReqQ>>,
         \A u \in Tags : CountIn(cmdOutQ', BufReqs(u)) = CountIn(cmdOutQ, BufReqs(u))
  PROVE  \A u \in Tags : nAsked(u)' = nAsked(u)
<1>1. \A u \in Tags : BufReqs(u)' = BufReqs(u)
  BY DEF BufReqs
<1> QED
  BY <1>1 DEF nAsked

(* The tags the user sends a page for.                                     *)
LEMMA SendingStays ==
  ASSUME SendingFits,
         \A u \in Tags : out'[u].phase = "sending" => out[u].phase = "sending",
         \A u \in Tags : out'[u].phase = "sending" /\ (Requested(u) \/ Started(u))
                           => Requested(u)' \/ Started(u)'
  PROVE  SendingFits'
  BY DEF SendingFits

(* The page that is fetched.                                               *)
LEMMA FetchStays ==
  ASSUME FetchFits, UNCHANGED <<writeFetchSt, writeWordCnt, wrDataReqQ>>,
         \A u \in Tags : out'[u].phase = "sending" => out'[u] = out[u],
         \A u \in Tags : Fetching(u) /\ Requested(u) => Requested(u)'
  PROVE  FetchFits'
<1>1. \A u \in Tags : Fetching(u)' => Fetching(u) /\ out'[u].left = out[u].left
  BY DEF Fetching
<1>2. NoFetch => NoFetch'
  BY <1>1 DEF NoFetch
<1>3. \A t \in Tags : Fetching(t)' => Requested(t)' /\ out'[t].left = PageWords - writeWordCnt
  BY <1>1 DEF FetchFits
<1>4. \A t, u \in Tags : Fetching(t)' /\ Fetching(u)' => t = u
  BY <1>1 DEF FetchFits
<1>5. /\ writeFetchSt = 0 /\ writeWordCnt = 0 => NoFetch' /\ wrDataReqQ = <<>>
      /\ wrDataReqQ # <<>> => NoFetch' /\ Len(wrDataReqQ) = 1 /\ writeWordCnt = 0
  BY <1>2 DEF FetchFits
<1> QED
  BY <1>3, <1>4, <1>5 DEF FetchFits

(* The transfer to the bus.                                                *)
LEMMA TransferStays ==
  ASSUME TransferFits,
         UNCHANGED <<wrDataTransReqQ, wrState, wdataCnt, encodeOutQ, writePageBufFront>>,
         Commanded' => Commanded, Writing' <=> Writing, Writing => UNCHANGED <<dataCnt, cmdR>>,
         state' = "WRITE_PAGE_WAIT" => state = "WRITE_PAGE_WAIT"
  PROVE  TransferFits'
<1>1. /\ ToTransfer' = ToTransfer /\ (Moving' <=> Moving) /\ (Full' <=> Full)
  BY DEF ToTransfer, Moving, Full
<1>2. state' = "WRITE_PAGE_WAIT" => dataCnt' = 0
  BY DEF TransferFits, Writing
<1>3. \A i \in 1 .. Len(encodeOutQ') : encodeOutQ'[i] = cmdR'.tag
  <2>1. CASE Writing
    BY <2>1 DEF TransferFits
  <2>2. CASE ~Writing
    BY <2>2 DEF TransferFits
  <2> QED
    BY <2>1, <2>2
<1>4. Writing' => dataCnt' + Len(encodeOutQ') + ToTransfer'
                    = IF wrDataTransReqQ' = <<>> THEN PageWords ELSE 0
  BY <1>1 DEF TransferFits
<1> QED
  BY <1>1, <1>2, <1>3, <1>4 DEF TransferFits

(* The announcement of a page.                                             *)
LEMMA AnnouncedStays ==
  ASSUME Announced(wdataRdy), Announced(wdataRdyR),
         UNCHANGED <<wdataRdy, wdataRdyR, writePageBufFront>>,
         \A u : Started(u) => Started(u)'
  PROVE  Announced(wdataRdy)' /\ Announced(wdataRdyR)'
  BY DEF Announced, Full

(* The buffers.                                                            *)
LEMMA BuffersStay ==
  ASSUME NEW q, BuffersFit(q),
         UNCHANGED <<writePageBufFront, writePageBufBack, writeWordCnt, wrState, wdataCnt>>
  PROVE  BuffersFit(q)'
<1>1. Data' = Data /\ Offset' = Offset
  BY DEF Data, Offset
<1> QED
  BY <1>1 DEF BuffersFit, InPages

(* The commands for the page at the head of the buffers.                   *)
LEMMA FrontStays ==
  ASSUME NEW q, FrontFits(q), UNCHANGED writePageBufFront,
         \A i \in 1 .. Len(cmdOutQ') : cmdOutQ'[i].busOp = "WRITE_CMD_DATA" =>
           \E j \in 1 .. Len(cmdOutQ) : /\ cmdOutQ[j].busOp = "WRITE_CMD_DATA"
                                        /\ cmdOutQ[j].tag = cmdOutQ'[i].tag,
         Moving' => Moving /\ cmdR'.tag = cmdR.tag
  PROVE  FrontFits(q)'
<1>1. Full' <=> Full
  BY DEF Full
<1>2. ASSUME NEW i \in 1 .. Len(cmdOutQ'), cmdOutQ'[i].busOp = "WRITE_CMD_DATA"
      PROVE  Full' /\ Len(q) > 0 /\ q[1] = cmdOutQ'[i].tag
  <2>1. PICK j \in 1 .. Len(cmdOutQ) : /\ cmdOutQ[j].busOp = "WRITE_CMD_DATA"
                                       /\ cmdOutQ[j].tag = cmdOutQ'[i].tag
    BY <1>2
  <2> QED
    BY <1>1, <2>1 DEF FrontFits
<1>3. Moving' => Len(q) > 0 /\ q[1] = cmdR'.tag
  BY DEF FrontFits
<1> QED
  BY <1>2, <1>3 DEF FrontFits

(* The pages.                                                              *)
LEMMA PageStays ==
  ASSUME NEW q, NEW p \in 1 .. Len(q), PageFits(q, p), UNCHANGED writeWordCnt,
         out'[q[p]] = out[q[p]], Requested(q[p]) => Requested(q[p])',
         Commanded \/ Moving => Commanded' \/ Moving'
  PROVE  PageFits(q, p)'
  BY DEF PageFits

(* A tag that is not owed, or is begun, has no page in the buffers and is  *)
(* not asked for one.                                                      *)
LEMMA NoPage ==
  ASSUME TypeOK, Control, Positions, Owners, WriteFits, NEW u \in Tags,
         ~Owed(u) \/ ~NotBegun(u)
  PROVE  /\ nAsked(u) = 0
         /\ \A q \in Seq(Tags) : PagesFit(q) => \A p \in 1 .. Len(q) : q[p] # u
<1>1. ~Requested(u)
  BY RequestedTag
<1>2. nAsked(u) = 0
  BY <1>1 DEF WriteFits, AskedFits
<1>3. ASSUME NEW q \in Seq(Tags), PagesFit(q), NEW p \in 1 .. Len(q), q[p] = u
      PROVE  FALSE
  <2>1. Owed(u) /\ p = 1 /\ (Commanded \/ Moving)
    BY <1>1, <1>3 DEF PagesFit, PageFits, Owed
  <2>2. CASE Commanded
    <3>1. PICK i \in 1 .. Len(cmdOutQ) : cmdOutQ[i].busOp = "WRITE_CMD_DATA"
      BY <2>2 DEF Commanded
    <3>2. cmdOutQ[i].tag = u
      BY <1>3, <2>1, <3>1 DEF PagesFit, FrontFits
    <3> QED
      BY <2>1, <3>1, <3>2, WritingHead
  <2>3. CASE Moving
    <3>1. Writing /\ cmdR.tag = u
      BY <1>3, <2>1, <2>3 DEF PagesFit, FrontFits, WriteFits, TransferFits
    <3> QED
      BY <2>1, <3>1, WritingHead
  <2> QED
    BY <2>1, <2>2, <2>3
<1> QED
  BY <1>2, <1>3

(* The write path is not touched: no request and no command to program     *)
(* comes or goes, and only tags without a page change.                     *)
LEMMA WritesStay ==
  ASSUME TypeOK, Control, Positions, Owners, WriteFits,
         UNCHANGED <<fetchVars, xferVars, reqVars, encodeOutQ, writePageBufFront>>,
         \A u \in Tags : CountIn(cmdOutQ', BufReqs(u)) = CountIn(cmdOutQ, BufReqs(u)),
         \A i \in 1 .. Len(cmdOutQ') : cmdOutQ'[i].busOp = "WRITE_CMD_DATA" =>
           \E j \in 1 .. Len(cmdOutQ) : /\ cmdOutQ[j].busOp = "WRITE_CMD_DATA"
                                        /\ cmdOutQ[j].tag = cmdOutQ'[i].tag,
         Commanded => Commanded',
         Writing' <=> Writing, Writing => UNCHANGED <<dataCnt, cmdR>>,
         state' = "WRITE_PAGE_WAIT" => state = "WRITE_PAGE_WAIT",
         \A u : Requested(u) => Requested(u)',
         \A u \in Tags : out'[u].phase = "sending" /\ Started(u) => Started(u)',
         \A u \in Tags : out'[u] # out[u] =>
            out'[u].phase # "sending" /\ (~Owed(u) \/ ~NotBegun(u)),
         Announced(wdataRdy)', Announced(wdataRdyR)'
  PROVE  WriteFits'
<1>0. UNCHANGED <<writePageBufBack, writeWordCnt, writeFetchSt, wrDataReqQ, wrState, wdataCnt,
                  wrDataBufReqQ, wrDataTransReqQ>>
  BY DEF fetchVars, xferVars, reqVars
<1>1. \A u \in Tags : out'[u].phase = "sending" => out'[u] = out[u] /\ out[u].phase = "sending"
  OBVIOUS
<1>2. AskedFits'
  <2>1. \A u \in Tags : nAsked(u) # 0 => out'[u].phase = out[u].phase
    BY NoPage
  <2>2. \A u \in Tags : nAsked(u)' = nAsked(u)
    BY <1>0, SameAsked
  <2> QED
    BY <2>1, <2>2, AskedStays DEF WriteFits
<1>3. SendingFits'
  BY <1>1, SendingStays DEF WriteFits
<1>4. FetchFits'
  BY <1>0, <1>1, FetchStays DEF WriteFits
<1>5. Commanded' => Commanded
  BY DEF Commanded
<1>6. TransferFits'
  BY <1>0, <1>5, TransferStays DEF WriteFits
<1>7. PICK q \in Seq(Tags) : PagesFit(q)
  BY DEF WriteFits
<1>8. Moving' <=> Moving
  BY <1>0 DEF Moving, ToTransfer
<1>9. BuffersFit(q)'
  BY <1>0, <1>7, BuffersStay DEF PagesFit
<1>10. FrontFits(q)'
  <2>1. Moving' => Moving /\ cmdR'.tag = cmdR.tag
    BY <1>8 DEF WriteFits, TransferFits
  <2> QED
    BY <1>7, <2>1, FrontStays DEF PagesFit
<1>11. ASSUME NEW p \in 1 .. Len(q) PROVE PageFits(q, p)'
  <2>1. q[p] \in Tags
    BY <1>7
  <2>2. out'[q[p]] = out[q[p]]
    BY <1>7, <2>1, NoPage
  <2>3. PageFits(q, p)
    BY <1>7 DEF PagesFit
  <2> QED
    BY <1>0, <1>8, <2>2, <2>3, PageStays
<1>12. PagesFit(q)'
  BY <1>9, <1>10, <1>11 DEF PagesFit
<1> QED
  BY <1>2, <1>3, <1>4, <1>6, <1>12 DEF WriteFits

(* A command enters or leaves the scoreboard's queue.                      *)
LEMMA BufReqsQueued ==
  ASSUME NEW q \in Seq(BusCmds), NEW x \in BusCmds, NEW u
  PROVE  /\ CountIn(Append(q, x), BufReqs(u)) = CountIn(q, BufReqs(u))
              + (IF x.tag = u /\ x.busOp = "WRITE_DATA_BUF_REQ" THEN 1 ELSE 0)
         /\ CountIn(q, BufReqs(u)) \in Nat
<1>1. x \in BufReqs(u) <=> x.tag = u /\ x.busOp = "WRITE_DATA_BUF_REQ"
  BY DEF BufReqs
<1>2. CountIn(Append(q, x), BufReqs(u)) =
        CountIn(q, BufReqs(u)) + (IF x \in BufReqs(u) THEN 1 ELSE 0)
  BY CountEnqueued
<1> QED
  BY <1>1, <1>2, CountIsNat

(* The queue of the scoreboard with a command more.                        *)
LEMMA CommandAdded ==
  ASSUME TypeOK, NEW x \in BusCmds, cmdOutQ' = Append(cmdOutQ, x)
  PROVE  /\ Commanded => Commanded'
         /\ \A i \in 1 .. Len(cmdOutQ') : \/ i \in 1 .. Len(cmdOutQ) /\ cmdOutQ'[i] = cmdOutQ[i]
                                          \/ i = Len(cmdOutQ) + 1 /\ cmdOutQ'[i] = x
         /\ Len(cmdOutQ) + 1 \in 1 .. Len(cmdOutQ') /\ cmdOutQ'[Len(cmdOutQ) + 1] = x
<1>1. cmdOutQ \in Seq(BusCmds)
  BY WriteTypes
<1>2. /\ Len(cmdOutQ) \in Nat /\ Len(cmdOutQ') = Len(cmdOutQ) + 1
      /\ cmdOutQ'[Len(cmdOutQ) + 1] = x
      /\ \A i \in 1 .. Len(cmdOutQ) : cmdOutQ'[i] = cmdOutQ[i] /\ i \in 1 .. Len(cmdOutQ')
      /\ \A i \in 1 .. Len(cmdOutQ') : i \in 1 .. Len(cmdOutQ) \/ i = Len(cmdOutQ) + 1
  BY <1>1, Enqueued
<1>3. Commanded => Commanded'
  BY <1>2 DEF Commanded
<1> QED
  BY <1>2, <1>3

(* What a visit of the scoreboard does to the tags whose page is asked for *)
(* and to those that are started.                                          *)
LEMMA ServiceStages ==
  ASSUME TypeOK, Control, NEW c \in Chips, chipQs[c] # <<>>,
         \A d \in Chips : d # c => /\ Finished(d)' <=> Finished(d)
                                   /\ chipQs'[d] = chipQs[d] /\ chipStages'[d] = chipStages[d],
         \/ /\ chipQs'[c] = chipQs[c] /\ (Finished(c)' <=> Finished(c))
            /\ \/ chipStages'[c] = chipStages[c]
               \/ chipStages[c] = "INIT"
               \/ chipStages[c] \in Issued \union Polled
                    /\ chipStages'[c] \in Issued \union Polled
         \/ Finished(c)
  PROVE  /\ \A u : Started(u) => Started(u)'
         /\ \A u : Requested(u) => Requested(u)'
<1>1. ASSUME NEW u, Started(u) PROVE Started(u)'
  <2>1. PICK d \in Chips : chipStages[d] \in Issued \union Polled /\ ~Finished(d) /\ Writes(d, u)
    BY <1>1 DEF Started
  <2>2. /\ chipStages'[d] \in Issued \union Polled /\ ~Finished(d)' /\ chipQs'[d] = chipQs[d]
    BY <2>1 DEF Issued, Polled
  <2> QED
    BY <2>1, <2>2 DEF Started, Writes
<1>2. ASSUME NEW u, Requested(u) PROVE Requested(u)'
  <2>1. PICK d \in Chips : chipStages[d] = "WR_BUF_REQ_ISSUED" /\ Writes(d, u)
    BY <1>2 DEF Requested
  <2>2. ~Finished(d)
    BY <2>1, GoneFits DEF Polled
  <2>3. chipStages'[d] = "WR_BUF_REQ_ISSUED" /\ chipQs'[d] = chipQs[d]
    BY <2>1, <2>2 DEF Issued, Polled
  <2> QED
    BY <2>1, <2>3 DEF Requested, Writes
<1> QED
  BY <1>1, <1>2

(* The page of the first command is asked for, which has not been before.  *)
LEMMA AskWrites ==
  ASSUME TypeOK, Control, Positions, Owners, WriteFits, NEW c \in Chips, NEW x \in BusCmds,
         UNCHANGED <<fetchVars, xferVars, reqVars, encodeOutQ, writePageBufFront, out,
                     state, dataCnt, cmdR, wdataRdy, wdataRdyR, chipQs>>,
         cmdOutQ' = Append(cmdOutQ, x), chipQs[c] # <<>>, ~Finished(c), ~Begun(c),
         x.tag = Head(chipQs[c]).tag, Head(chipQs[c]).op = "WRITE_PAGE",
         x.busOp = "WRITE_DATA_BUF_REQ",
         chipStages[c] = "INIT", chipStages'[c] = "WR_BUF_REQ_ISSUED",
         \A u : Started(u) => Started(u)',
         \A u : Requested(u) => Requested(u)'
  PROVE  WriteFits'
<1>0. UNCHANGED <<writePageBufBack, writeWordCnt, writeFetchSt, wrDataReqQ, wrState, wdataCnt,
                  wrDataBufReqQ, wrDataTransReqQ>>
  BY DEF fetchVars, xferVars, reqVars
<1>1. PICK t \in Tags : t = x.tag
  BY DEF BusCmds
<1>2. ~Requested(t) /\ ~Started(t)
  BY <1>1, OneStage DEF Issued, Polled
<1>3. out[t].phase = "accepted"
  <2>1. Owed(t)
    BY <1>1, HeadOwner
  <2> QED
    BY <1>2, <2>1 DEF Owed, WriteFits, SendingFits
<1>4. Requested(t)'
  BY <1>1 DEF Requested, Writes
<1>5. AskedFits'
  <2> SUFFICES ASSUME NEW u \in Tags
               PROVE  \/ nAsked(u)' = 0
                      \/ nAsked(u)' = 1 /\ Requested(u)' /\ out'[u].phase = "accepted"
    BY DEF AskedFits
  <2>1. nAsked(u) = 0 \/ (nAsked(u) = 1 /\ Requested(u) /\ out[u].phase = "accepted")
    BY DEF WriteFits, AskedFits
  <2>2. CountIn(cmdOutQ', BufReqs(u)) = CountIn(cmdOutQ, BufReqs(u)) + (IF t = u THEN 1 ELSE 0)
    BY <1>1, WriteTypes, BufReqsQueued
  <2>3. /\ CountIn(cmdOutQ, BufReqs(u)) \in Nat /\ CountIn(wrDataBufReqQ, {u}) \in Nat
        /\ CountIn(wrDataReqQ, {u}) \in Nat
    BY WriteTypes, CountIsNat
  <2>4. BufReqs(u)' = BufReqs(u)
    BY DEF BufReqs
  <2>5. nAsked(u)' = nAsked(u) + (IF t = u THEN 1 ELSE 0)
    BY <1>0, <2>2, <2>3, <2>4 DEF nAsked
  <2>6. CASE t = u
    BY <1>2, <1>3, <1>4, <2>1, <2>5, <2>6
  <2>7. CASE t # u
    BY <2>1, <2>5, <2>7
  <2> QED
    BY <2>6, <2>7
<1>6. SendingFits' /\ FetchFits'
  BY <1>0, SendingStays, FetchStays DEF WriteFits
<1>7. \A i \in 1 .. Len(cmdOutQ') : cmdOutQ'[i].busOp = "WRITE_CMD_DATA" =>
        \E j \in 1 .. Len(cmdOutQ) : /\ cmdOutQ[j].busOp = "WRITE_CMD_DATA"
                                     /\ cmdOutQ[j].tag = cmdOutQ'[i].tag
  BY CommandAdded
<1>8. Commanded' <=> Commanded
  BY <1>7, CommandAdded DEF Commanded
<1>9. TransferFits'
  <2>1. Writing' <=> Writing
    BY DEF Writing
  <2> QED
    BY <1>0, <1>8, <2>1, TransferStays DEF WriteFits
<1>10. Announced(wdataRdy)' /\ Announced(wdataRdyR)'
  BY AnnouncedStays DEF WriteFits
<1>11. PICK q \in Seq(Tags) : PagesFit(q)
  BY DEF WriteFits
<1>12. Moving' <=> Moving
  BY <1>0 DEF Moving, ToTransfer
<1>13. BuffersFit(q)' /\ FrontFits(q)'
  BY <1>0, <1>7, <1>11, <1>12, BuffersStay, FrontStays DEF PagesFit
<1>14. \A p \in 1 .. Len(q) : PageFits(q, p)'
  BY <1>0, <1>8, <1>11, <1>12, PageStays DEF PagesFit
<1>15. PagesFit(q)'
  BY <1>13, <1>14 DEF PagesFit
<1> QED
  BY <1>5, <1>6, <1>9, <1>10, <1>15 DEF WriteFits

(* The first word of the front buffer belongs to the first of the pages,   *)
(* which is complete when the buffer is full.                              *)
LEMMA HeadPage ==
  ASSUME TypeOK, NEW q \in Seq(Tags), BuffersFit(q), NotEmpty(writePageBufFront)
  PROVE  /\ Len(q) > 0 /\ 1 \in 1 .. Len(q) /\ q[1] = Head(writePageBufFront)
         /\ Head(writePageBufFront) = Head(Data) /\ NotEmpty(Data)
         /\ Full /\ Len(q) = 1 => writeWordCnt = 0
<1>1. /\ writePageBufFront \in Seq(Tags) /\ writePageBufBack \in Seq(Tags) /\ Data \in Seq(Tags)
      /\ Len(Data) \in Nat /\ Len(writePageBufFront) \in Nat /\ Len(writePageBufBack) \in Nat
      /\ Len(Data) = Len(writePageBufFront) + Len(writePageBufBack)
      /\ Offset \in 0 .. PageWords - 1 /\ PageWords \in Nat /\ PageWords > 1
      /\ writeWordCnt \in 0 .. PageWords - 1
  BY WriteTypes
<1>2. Len(writePageBufFront) > 0 /\ Len(Data) > 0 /\ NotEmpty(Data)
  BY <1>1 DEF NotEmpty
<1>3. Head(writePageBufFront) = writePageBufFront[1] /\ Head(Data) = Data[1]
  BY <1>1, <1>2, Dequeued
<1>4. Data[1] = writePageBufFront[1]
  BY <1>1, <1>2, ConcatProperties DEF Data
<1>5. PICK m \in Nat : m = Len(q)
  OBVIOUS
<1>6. Offset + Len(Data) = IF writeWordCnt = 0 THEN PageWords * m
                           ELSE PageWords * (m - 1) + writeWordCnt
  BY <1>5 DEF BuffersFit
<1>7. m > 0
  <2> SUFFICES ASSUME m = 0 PROVE FALSE
    BY <1>5
  <2>1. PageWords * m = 0 /\ PageWords * (m - 1) = 0 - PageWords
    BY <1>1
  <2>2. Offset + Len(Data) <= 0
    BY <1>1, <1>6, <2>1
  <2> QED
    BY <1>1, <1>2, <2>2
<1>8. Data[1] = q[1]
  <2>1. PageWords * (1 - 1) = 0 /\ PageWords * 1 = PageWords
    BY <1>1
  <2>2. PageWords * (1 - 1) <= Offset + 1 - 1 /\ Offset + 1 - 1 < PageWords * 1
    BY <1>1, <2>1
  <2>3. 1 \in 1 .. Len(Data) /\ 1 \in 1 .. Len(q)
    BY <1>1, <1>2, <1>5, <1>7
  <2> QED
    BY <2>2, <2>3 DEF BuffersFit, InPages
<1>9. ASSUME Full, m = 1, writeWordCnt # 0 PROVE FALSE
  <2>1. PageWords * (m - 1) = 0
    BY <1>1, <1>9
  <2>2. Offset + Len(Data) = writeWordCnt
    BY <1>1, <1>6, <1>9, <2>1
  <2>3. Len(Data) >= PageWords
    BY <1>1, <1>9 DEF Full
  <2> QED
    BY <1>1, <2>2, <2>3
<1> QED
  BY <1>2, <1>3, <1>4, <1>5, <1>7, <1>8, <1>9

(* The command to program a page is sent once the page is announced: it is *)
(* the page at the head of the buffers, complete and not asked for before. *)
LEMMA ProgramWrites ==
  ASSUME TypeOK, Control, Positions, Owners, WriteFits, NEW c \in Chips, NEW x \in BusCmds,
         UNCHANGED <<fetchVars, xferVars, reqVars, encodeOutQ, writePageBufFront, out,
                     state, dataCnt, cmdR, wdataRdy, wdataRdyR, chipQs>>,
         cmdOutQ' = Append(cmdOutQ, x), chipQs[c] # <<>>, ~Finished(c), ~Finished(c)', ~Begun(c),
         x.tag = Head(chipQs[c]).tag, Head(chipQs[c]).op = "WRITE_PAGE",
         x.busOp = "WRITE_CMD_DATA", WriteDataReady(c),
         chipStages[c] = "WR_BUF_REQ_ISSUED", chipStages'[c] \in Issued,
         \A d \in Chips : d # c => chipStages'[d] = chipStages[d],
         \A u : Started(u) => Started(u)'
  PROVE  WriteFits'
<1>0. UNCHANGED <<writePageBufBack, writeWordCnt, writeFetchSt, wrDataReqQ, wrState, wdataCnt,
                  wrDataBufReqQ, wrDataTransReqQ>>
  BY DEF fetchVars, xferVars, reqVars
<1>1. PICK t \in Tags : t = x.tag
  BY DEF BusCmds
<1>2. Requested(t) /\ ~Started(t)
  <2>1. Requested(t)
    BY <1>1 DEF Requested, Writes
  <2> QED
    BY <2>1, RequestedTag
<1>3. Started(t)'
  BY <1>1 DEF Started, Writes, Issued
<1>4. Full /\ Head(writePageBufFront) = t
  BY <1>1, <1>2 DEF WriteDataReady, WriteFits, Announced
<1>5. NotEmpty(writePageBufFront)
  <2>1. PageWords \in Nat /\ PageWords > 1 /\ Len(writePageBufFront) \in Nat
    BY WriteTypes
  <2>2. Len(writePageBufFront) = PageWords
    BY <1>4 DEF Full
  <2> QED
    BY <2>1, <2>2 DEF NotEmpty
<1>6. PICK q \in Seq(Tags) : PagesFit(q)
  BY DEF WriteFits
<1>7. /\ Len(q) > 0 /\ 1 \in 1 .. Len(q) /\ q[1] = t
      /\ Len(q) = 1 => writeWordCnt = 0
  BY <1>4, <1>5, <1>6, HeadPage DEF PagesFit
<1>8. out[t].phase = "sending" /\ out[t].left = 0
  <2>1. PageFits(q, 1)
    BY <1>6, <1>7 DEF PagesFit
  <2> QED
    BY <1>7, <2>1 DEF PageFits
<1>9. ~Moving
  <2> SUFFICES ASSUME Moving PROVE FALSE
    OBVIOUS
  <2>1. cmdR.tag = t /\ Writing
    BY <1>6, <1>7 DEF PagesFit, FrontFits, WriteFits, TransferFits
  <2> QED
    BY <1>2, <2>1, WritingHead
<1>10. \A u \in Tags : u # t /\ Requested(u) => Requested(u)'
  <2> SUFFICES ASSUME NEW u \in Tags, u # t, Requested(u) PROVE Requested(u)'
    OBVIOUS
  <2>1. PICK d \in Chips : chipStages[d] = "WR_BUF_REQ_ISSUED" /\ Writes(d, u)
    BY DEF Requested
  <2>2. d # c
    BY <1>1, <2>1 DEF Writes
  <2> QED
    BY <2>1, <2>2 DEF Requested, Writes
<1>11. AskedFits'
  <2>1. nAsked(t) = 0
    BY <1>8 DEF WriteFits, AskedFits
  <2>2. \A u \in Tags : CountIn(cmdOutQ', BufReqs(u)) = CountIn(cmdOutQ, BufReqs(u))
    <3> SUFFICES ASSUME NEW u \in Tags
                 PROVE  CountIn(cmdOutQ', BufReqs(u)) = CountIn(cmdOutQ, BufReqs(u))
      OBVIOUS
    <3>1. cmdOutQ \in Seq(BusCmds)
      BY WriteTypes
    <3>2. /\ CountIn(cmdOutQ', BufReqs(u)) = CountIn(cmdOutQ, BufReqs(u)) + 0
          /\ CountIn(cmdOutQ, BufReqs(u)) \in Nat
      BY <3>1, BufReqsQueued
    <3> QED
      BY <3>2
  <2>3. \A u \in Tags : nAsked(u)' = nAsked(u)
    BY <1>0, <2>2, SameAsked
  <2> QED
    BY <1>10, <2>1, <2>3, AskedStays DEF WriteFits
<1>12. SendingFits'
  <2>1. \A u \in Tags : Requested(u) \/ Started(u) => Requested(u)' \/ Started(u)'
    BY <1>3, <1>10
  <2> QED
    BY <2>1, SendingStays DEF WriteFits
<1>13. FetchFits'
  <2>1. ~Fetching(t)
    BY <1>8 DEF Fetching
  <2> QED
    BY <1>0, <1>10, <2>1, FetchStays DEF WriteFits
<1>14. Moving' <=> Moving
  BY <1>0 DEF Moving, ToTransfer
<1>15. TransferFits'
  <2>1. /\ (Writing' <=> Writing) /\ (Full' <=> Full) /\ ToTransfer' = ToTransfer
    BY <1>0 DEF Writing, Full, ToTransfer
  <2>2. Writing' => dataCnt' + Len(encodeOutQ') + ToTransfer'
                      = IF wrDataTransReqQ' = <<>> THEN PageWords ELSE 0
    BY <1>0, <2>1 DEF WriteFits, TransferFits
  <2>3. /\ Moving' => Writing'
        /\ wrDataTransReqQ' # <<>> => Full' /\ Len(wrDataTransReqQ') = 1 /\ ToTransfer' = 0
        /\ ~Writing' => encodeOutQ' = <<>>
        /\ state' = "WRITE_PAGE_WAIT" => dataCnt' = 0
        /\ \A i \in 1 .. Len(encodeOutQ') : encodeOutQ'[i] = cmdR'.tag
    BY <1>0, <1>14, <2>1 DEF WriteFits, TransferFits
  <2> QED
    BY <1>9, <1>14, <2>2, <2>3 DEF TransferFits
<1>16. Announced(wdataRdy)' /\ Announced(wdataRdyR)'
  BY AnnouncedStays DEF WriteFits
<1>17. BuffersFit(q)'
  BY <1>0, <1>6, BuffersStay DEF PagesFit
<1>18. FrontFits(q)'
  <2>1. ASSUME NEW i \in 1 .. Len(cmdOutQ'), cmdOutQ'[i].busOp = "WRITE_CMD_DATA"
        PROVE  Full' /\ Len(q) > 0 /\ q[1] = cmdOutQ'[i].tag
    <3>1. CASE i \in 1 .. Len(cmdOutQ) /\ cmdOutQ'[i] = cmdOutQ[i]
      BY <1>6, <2>1, <3>1 DEF PagesFit, FrontFits, Full
    <3>2. CASE cmdOutQ'[i] = x
      BY <1>1, <1>4, <1>7, <3>2 DEF Full
    <3> QED
      BY <3>1, <3>2, CommandAdded
  <2> QED
    BY <1>9, <1>14, <2>1 DEF FrontFits
<1>19. Commanded'
  BY CommandAdded DEF Commanded
<1>20. ASSUME NEW p \in 1 .. Len(q) PROVE PageFits(q, p)'
  <2>1. PageFits(q, p) /\ q[p] \in Tags
    BY <1>6 DEF PagesFit
  <2>2. CASE p = 1
    BY <1>0, <1>19, <2>1, <2>2 DEF PageFits
  <2>3. CASE p # 1
    <3>1. Requested(q[p])
      BY <2>1, <2>3 DEF PageFits
    <3>2. q[p] # t
      BY <1>6, <1>7, <2>3 DEF PagesFit, BuffersFit
    <3> QED
      BY <1>0, <1>10, <2>1, <3>1, <3>2 DEF PageFits
  <2> QED
    BY <2>2, <2>3
<1>21. PagesFit(q)'
  BY <1>17, <1>18, <1>20 DEF PagesFit
<1> QED
  BY <1>11, <1>12, <1>13, <1>15, <1>16, <1>21 DEF WriteFits

(* A visit of the scoreboard.                                              *)
LEMMA ServiceWrites ==
  ASSUME TypeOK, Control, Positions, Owners, WriteFits, ServiceReq
  PROVE  WriteFits'
<1>1. PICK c \in Chips :
        /\ chipQs[c] # <<>>
        /\ \A d \in Chips : d # c => /\ Finished(d)' <=> Finished(d)
                                     /\ chipQs'[d] = chipQs[d] /\ chipStages'[d] = chipStages[d]
        /\ \/ /\ UNCHANGED <<chipQs, chipStages, cmdOutQ>>
              /\ Finished(c)' <=> Finished(c)
           \/ /\ chipQs' = chipQs /\ ~Finished(c) /\ ~Finished(c)'
              /\ \E x \in BusCmds :
                   /\ cmdOutQ' = Append(cmdOutQ, x)
                   /\ x.chip = c /\ x.tag = Head(chipQs[c]).tag
                   /\ Head(chipQs[c]).op = OpOfBusOp[x.busOp]
                   /\ x.busOp \notin PollOps => ~Begun(c)
                   /\ \/ /\ x.busOp = "WRITE_DATA_BUF_REQ"
                         /\ chipStages[c] = "INIT" /\ chipStages'[c] = "WR_BUF_REQ_ISSUED"
                      \/ /\ x.busOp = "WRITE_CMD_DATA" /\ WriteDataReady(c)
                         /\ chipStages[c] = "WR_BUF_REQ_ISSUED" /\ chipStages'[c] \in Issued
                      \/ /\ x.busOp \in {"READ_CMD", "ERASE_CMD"}
                         /\ chipStages[c] = "INIT" /\ chipStages'[c] \in Issued
                      \/ /\ x.busOp \in PollOps
                         /\ chipStages[c] \in Issued /\ chipStages'[c] \in Polled
           \/ /\ cmdOutQ' = cmdOutQ /\ chipQs' = chipQs /\ ~Finished(c) /\ ~Finished(c)'
              /\ chipStages[c] \in Polled /\ chipStages'[c] \in Issued
           \/ /\ cmdOutQ' = cmdOutQ /\ chipQs'[c] = Tail(chipQs[c])
              /\ ~Begun(c) /\ Finished(c) /\ ~Finished(c)'
              /\ chipStages[c] \in Polled /\ chipStages'[c] = "INIT"
  BY ServiceEffects
<1>2. UNCHANGED <<fetchVars, xferVars, reqVars, encodeOutQ, writePageBufFront, out,
                  state, dataCnt, cmdR, wdataRdy, wdataRdyR>>
  BY DEF ServiceReq, Scoreboards, DoServiceReq, rest, bcVars
<1>3. Writing' <=> Writing
  BY <1>2 DEF Writing
<1>4. ASSUME \A u : Started(u) => Started(u)', \A u : Requested(u) => Requested(u)',
             \A u \in Tags : CountIn(cmdOutQ', BufReqs(u)) = CountIn(cmdOutQ, BufReqs(u)),
             \A i \in 1 .. Len(cmdOutQ') : cmdOutQ'[i].busOp = "WRITE_CMD_DATA" =>
               \E j \in 1 .. Len(cmdOutQ) : /\ cmdOutQ[j].busOp = "WRITE_CMD_DATA"
                                            /\ cmdOutQ[j].tag = cmdOutQ'[i].tag,
             Commanded => Commanded'
      PROVE  WriteFits'
  <2>1. Announced(wdataRdy)' /\ Announced(wdataRdyR)'
    BY <1>2, <1>4, AnnouncedStays DEF WriteFits
  <2> QED
    BY <1>2, <1>3, <1>4, <2>1, WritesStay
<1>5. ASSUME \A u : Started(u) => Started(u)', \A u : Requested(u) => Requested(u)',
             cmdOutQ' = cmdOutQ
      PROVE  WriteFits'
  <2>1. Commanded => Commanded'
    BY <1>5 DEF Commanded
  <2> QED
    BY <1>4, <1>5, <2>1
<1>6. CASE UNCHANGED <<chipQs, chipStages, cmdOutQ>> /\ (Finished(c)' <=> Finished(c))
  BY <1>1, <1>5, <1>6, ServiceStages
<1>7. CASE /\ cmdOutQ' = cmdOutQ /\ chipQs' = chipQs /\ ~Finished(c) /\ ~Finished(c)'
           /\ chipStages[c] \in Polled /\ chipStages'[c] \in Issued
  BY <1>1, <1>5, <1>7, ServiceStages
<1>8. CASE cmdOutQ' = cmdOutQ /\ Finished(c)
  BY <1>1, <1>5, <1>8, ServiceStages
<1>9. ASSUME NEW x \in BusCmds,
             /\ chipQs' = chipQs /\ ~Finished(c) /\ ~Finished(c)'
             /\ cmdOutQ' = Append(cmdOutQ, x)
             /\ x.chip = c /\ x.tag = Head(chipQs[c]).tag
             /\ Head(chipQs[c]).op = OpOfBusOp[x.busOp]
             /\ x.busOp \notin PollOps => ~Begun(c),
             \/ /\ x.busOp = "WRITE_DATA_BUF_REQ"
                /\ chipStages[c] = "INIT" /\ chipStages'[c] = "WR_BUF_REQ_ISSUED"
             \/ /\ x.busOp = "WRITE_CMD_DATA" /\ WriteDataReady(c)
                /\ chipStages[c] = "WR_BUF_REQ_ISSUED" /\ chipStages'[c] \in Issued
             \/ /\ x.busOp \in {"READ_CMD", "ERASE_CMD"}
                /\ chipStages[c] = "INIT" /\ chipStages'[c] \in Issued
             \/ /\ x.busOp \in PollOps
                /\ chipStages[c] \in Issued /\ chipStages'[c] \in Polled
      PROVE  WriteFits'
  <2>1. CASE x.busOp = "WRITE_DATA_BUF_REQ"
    <3>1. /\ chipStages[c] = "INIT" /\ chipStages'[c] = "WR_BUF_REQ_ISSUED"
          /\ ~Begun(c) /\ Head(chipQs[c]).op = "WRITE_PAGE"
      BY <1>9, <2>1 DEF PollOps, OpOfBusOp
    <3>2. (\A u : Started(u) => Started(u)') /\ \A u : Requested(u) => Requested(u)'
      BY <1>1, <1>9, <3>1, ServiceStages
    <3> QED
      BY <1>1, <1>2, <1>9, <2>1, <3>1, <3>2, AskWrites
  <2>2. CASE x.busOp = "WRITE_CMD_DATA"
    <3>1. /\ chipStages[c] = "WR_BUF_REQ_ISSUED" /\ chipStages'[c] \in Issued
          /\ ~Begun(c) /\ Head(chipQs[c]).op = "WRITE_PAGE" /\ WriteDataReady(c)
      BY <1>9, <2>2 DEF PollOps, OpOfBusOp
    <3>2. ASSUME NEW u, Started(u) PROVE Started(u)'
      <4>1. PICK d \in Chips : /\ chipStages[d] \in Issued \union Polled /\ ~Finished(d)
                               /\ Writes(d, u)
        BY <3>2 DEF Started
      <4>2. d # c
        BY <3>1, <4>1 DEF Issued, Polled
      <4> QED
        BY <1>1, <4>1, <4>2 DEF Started, Writes
    <3> QED
      BY <1>1, <1>2, <1>9, <2>2, <3>1, <3>2, ProgramWrites
  <2>3. CASE x.busOp \notin {"WRITE_DATA_BUF_REQ", "WRITE_CMD_DATA"}
    <3>1. \/ chipStages[c] = "INIT"
          \/ chipStages[c] \in Issued \union Polled /\ chipStages'[c] \in Issued \union Polled
      BY <1>9, <2>3
    <3>2. (\A u : Started(u) => Started(u)') /\ \A u : Requested(u) => Requested(u)'
      BY <1>1, <1>9, <3>1, ServiceStages
    <3>3. ASSUME NEW u \in Tags
          PROVE  CountIn(cmdOutQ', BufReqs(u)) = CountIn(cmdOutQ, BufReqs(u))
      <4>1. cmdOutQ \in Seq(BusCmds)
        BY WriteTypes
      <4>2. /\ CountIn(cmdOutQ', BufReqs(u)) = CountIn(cmdOutQ, BufReqs(u)) + 0
            /\ CountIn(cmdOutQ, BufReqs(u)) \in Nat
        BY <1>9, <2>3, <4>1, BufReqsQueued
      <4> QED
        BY <4>2
    <3>4. \A i \in 1 .. Len(cmdOutQ') : cmdOutQ'[i].busOp = "WRITE_CMD_DATA" =>
               \E j \in 1 .. Len(cmdOutQ) : /\ cmdOutQ[j].busOp = "WRITE_CMD_DATA"
                                            /\ cmdOutQ[j].tag = cmdOutQ'[i].tag
      BY <1>9, <2>3, CommandAdded
    <3> QED
      BY <1>4, <1>9, <3>2, <3>3, <3>4, CommandAdded
  <2> QED
    BY <2>1, <2>2, <2>3
<1> QED
  BY <1>1, <1>6, <1>7, <1>8, <1>9

-----------------------------------------------------------------------------
(* The state machine of the bus takes and does the commands.               *)

(* The queue of the scoreboard before its first command is taken.          *)
LEMMA CommandTaken ==
  ASSUME TypeOK, CmdOutGet
  PROVE  /\ Head(cmdOutQ) \in BusCmds /\ Head(cmdOutQ) = cmdOutQ[1] /\ 1 \in 1 .. Len(cmdOutQ)
         /\ cmdOutQ' = Tail(cmdOutQ)
         /\ \A i \in 1 .. Len(cmdOutQ') : /\ i + 1 \in 1 .. Len(cmdOutQ) /\ i \in Nat /\ i >= 1
                                          /\ cmdOutQ'[i] = cmdOutQ[i + 1]
         /\ Head(cmdOutQ).busOp # "WRITE_CMD_DATA" => (Commanded' <=> Commanded)
         /\ \A u \in Tags :
              /\ CountIn(cmdOutQ, BufReqs(u)) = CountIn(cmdOutQ', BufReqs(u))
                   + (IF /\ Head(cmdOutQ).tag = u
                         /\ Head(cmdOutQ).busOp = "WRITE_DATA_BUF_REQ" THEN 1 ELSE 0)
              /\ CountIn(cmdOutQ', BufReqs(u)) \in Nat
<1>1. cmdOutQ \in Seq(BusCmds) /\ NotEmpty(cmdOutQ) /\ cmdOutQ' = Tail(cmdOutQ)
  BY WriteTypes DEF CmdOutGet
<1>2. /\ Head(cmdOutQ) \in BusCmds /\ Head(cmdOutQ) = cmdOutQ[1] /\ 1 \in 1 .. Len(cmdOutQ)
      /\ cmdOutQ' \in Seq(BusCmds)
      /\ \A i \in 1 .. Len(cmdOutQ') : /\ i + 1 \in 1 .. Len(cmdOutQ) /\ i \in Nat /\ i >= 1
                                       /\ cmdOutQ'[i] = cmdOutQ[i + 1]
      /\ \A j \in 1 .. Len(cmdOutQ) : \/ j = 1
                                      \/ /\ j - 1 \in 1 .. Len(cmdOutQ')
                                         /\ cmdOutQ'[j - 1] = cmdOutQ[j]
  BY <1>1, Dequeued
<1>3. Head(cmdOutQ).busOp # "WRITE_CMD_DATA" => (Commanded' <=> Commanded)
  <2> SUFFICES ASSUME Head(cmdOutQ).busOp # "WRITE_CMD_DATA" PROVE Commanded' <=> Commanded
    OBVIOUS
  <2>1. ASSUME Commanded PROVE Commanded'
    <3>1. PICK j \in 1 .. Len(cmdOutQ) : cmdOutQ[j].busOp = "WRITE_CMD_DATA"
      BY <2>1 DEF Commanded
    <3>2. j - 1 \in 1 .. Len(cmdOutQ') /\ cmdOutQ'[j - 1] = cmdOutQ[j]
      BY <1>2, <3>1
    <3> QED
      BY <3>1, <3>2 DEF Commanded
  <2>2. ASSUME Commanded' PROVE Commanded
    BY <1>2, <2>2 DEF Commanded
  <2> QED
    BY <2>1, <2>2
<1>4. ASSUME NEW u \in Tags
      PROVE  /\ CountIn(cmdOutQ, BufReqs(u)) = CountIn(cmdOutQ', BufReqs(u))
                   + (IF /\ Head(cmdOutQ).tag = u
                         /\ Head(cmdOutQ).busOp = "WRITE_DATA_BUF_REQ" THEN 1 ELSE 0)
             /\ CountIn(cmdOutQ', BufReqs(u)) \in Nat
  <2>1. Head(cmdOutQ) \in BufReqs(u) <=>
          Head(cmdOutQ).tag = u /\ Head(cmdOutQ).busOp = "WRITE_DATA_BUF_REQ"
    BY <1>2 DEF BufReqs
  <2>2. CountIn(cmdOutQ, BufReqs(u)) = CountIn(cmdOutQ', BufReqs(u))
           + (IF Head(cmdOutQ) \in BufReqs(u) THEN 1 ELSE 0)
    BY <1>1, CountDequeued
  <2>3. CountIn(cmdOutQ', BufReqs(u)) \in Nat
    BY <1>2, CountIsNat
  <2> QED
    BY <2>1, <2>2, <2>3
<1> QED
  BY <1>1, <1>2, <1>3, <1>4

(* What is asked for and started depends on the queues of the chips.       *)
LEMMA StagesStay ==
  ASSUME UNCHANGED <<chipQs, chipStages, chipBusy>>
  PROVE  \A u : (Requested(u)' <=> Requested(u)) /\ (Started(u)' <=> Started(u))
  BY DEF Requested, Started, Writes, Finished

(* The request for a page goes to the controller.                          *)
LEMMA RequestWrites ==
  ASSUME TypeOK, Control, Positions, Owners, WriteFits, DoDecodeCmd,
         Head(cmdOutQ).busOp = "WRITE_DATA_BUF_REQ"
  PROVE  WriteFits'
<1>1. PICK t \in Tags : t = Head(cmdOutQ).tag
  BY CommandTaken DEF DoDecodeCmd, BusCmds
<1>2. /\ wrDataBufReqQ' = Append(wrDataBufReqQ, t) /\ state = "IDLE" /\ state' = "IDLE"
      /\ UNCHANGED <<writePageBufBack, writeWordCnt, writeFetchSt, wrDataReqQ, wrState, wdataCnt,
                     wrDataTransReqQ, writePageBufFront, encodeOutQ, out, wdataRdy, wdataRdyR,
                     chipQs, chipStages, chipBusy>>
  BY <1>1 DEF DoDecodeCmd, CmdOutGet, NextState, fetchVars, xferVars, rest
<1>3. \A u : (Requested(u)' <=> Requested(u)) /\ (Started(u)' <=> Started(u))
  BY <1>2, StagesStay
<1>4. ~Writing /\ ~Writing' /\ ~Moving /\ ~Moving'
  <2>1. ~Writing /\ ~Writing'
    BY <1>2 DEF Writing
  <2> QED
    BY <1>2, <2>1 DEF Moving, ToTransfer, WriteFits, TransferFits
<1>5. Commanded' <=> Commanded
  BY CommandTaken DEF DoDecodeCmd
<1>6. AskedFits'
  <2>1. ASSUME NEW u \in Tags PROVE nAsked(u)' = nAsked(u)
    <3>1. CountIn(cmdOutQ, BufReqs(u)) = CountIn(cmdOutQ', BufReqs(u)) + (IF t = u THEN 1 ELSE 0)
      BY <1>1, CommandTaken DEF DoDecodeCmd
    <3>2. CountIn(wrDataBufReqQ', {u}) = CountIn(wrDataBufReqQ, {u}) + (IF t = u THEN 1 ELSE 0)
      <4>1. CountIn(wrDataBufReqQ', {u})
              = CountIn(wrDataBufReqQ, {u}) + (IF t \in {u} THEN 1 ELSE 0)
        BY <1>2, WriteTypes, CountEnqueued
      <4> QED
        BY <4>1
    <3>3. /\ CountIn(cmdOutQ', BufReqs(u)) \in Nat /\ CountIn(wrDataBufReqQ, {u}) \in Nat
          /\ CountIn(wrDataReqQ, {u}) \in Nat
      BY CommandTaken, WriteTypes, CountIsNat DEF DoDecodeCmd
    <3>4. BufReqs(u)' = BufReqs(u)
      BY DEF BufReqs
    <3> QED
      BY <1>2, <3>1, <3>2, <3>3, <3>4 DEF nAsked
  <2> QED
    BY <1>2, <1>3, <2>1, AskedStays DEF WriteFits
<1>7. SendingFits' /\ FetchFits'
  BY <1>2, <1>3, SendingStays, FetchStays DEF WriteFits
<1>8. TransferFits'
  BY <1>2, <1>4, <1>5, TransferStays DEF WriteFits
<1>9. Announced(wdataRdy)' /\ Announced(wdataRdyR)'
  BY <1>2, <1>3, AnnouncedStays DEF WriteFits
<1>10. PICK q \in Seq(Tags) : PagesFit(q)
  BY DEF WriteFits
<1>11. BuffersFit(q)'
  BY <1>2, <1>10, BuffersStay DEF PagesFit
<1>12. FrontFits(q)'
  <2>1. \A i \in 1 .. Len(cmdOutQ') : \E j \in 1 .. Len(cmdOutQ) : cmdOutQ'[i] = cmdOutQ[j]
    BY CommandTaken DEF DoDecodeCmd
  <2> QED
    BY <1>2, <1>4, <1>10, <2>1, FrontStays DEF PagesFit
<1>13. \A p \in 1 .. Len(q) : PageFits(q, p)'
  BY <1>2, <1>3, <1>4, <1>5, <1>10, PageStays DEF PagesFit
<1>14. PagesFit(q)'
  BY <1>11, <1>12, <1>13 DEF PagesFit
<1> QED
  BY <1>6, <1>7, <1>8, <1>9, <1>14 DEF WriteFits

(* The command to program a page begins its transfer; there is no other,   *)
(* and no other transfer.                                                  *)
LEMMA CommandWrites ==
  ASSUME TypeOK, Control, Positions, Owners, WriteFits, DoDecodeCmd,
         Head(cmdOutQ).busOp = "WRITE_CMD_DATA"
  PROVE  WriteFits'
<1>1. PICK t \in Tags : t = Head(cmdOutQ).tag
  BY CommandTaken DEF DoDecodeCmd, BusCmds
<1>2. /\ cmdOutQ' = Tail(cmdOutQ) /\ wrDataTransReqQ' = Append(wrDataTransReqQ, 1)
      /\ state = "IDLE" /\ state' = "WRITE_PAGE_WAIT" /\ dataCnt' = 0 /\ cmdR'.tag = t
      /\ UNCHANGED <<writePageBufBack, writeWordCnt, writeFetchSt, wrDataReqQ, wrState, wdataCnt,
                     wrDataBufReqQ, writePageBufFront, encodeOutQ, out, wdataRdy, wdataRdyR,
                     chipQs, chipStages, chipBusy>>
  BY <1>1 DEF DoDecodeCmd, CmdOutGet, NextState, fetchVars, xferVars, rest
<1>3. \A u : (Requested(u)' <=> Requested(u)) /\ (Started(u)' <=> Started(u))
  BY <1>2, StagesStay
<1>4. /\ Head(cmdOutQ) = cmdOutQ[1] /\ 1 \in 1 .. Len(cmdOutQ)
      /\ \A i \in 1 .. Len(cmdOutQ') : /\ i + 1 \in 1 .. Len(cmdOutQ) /\ i \in Nat /\ i >= 1
                                       /\ cmdOutQ'[i] = cmdOutQ[i + 1]
  BY CommandTaken DEF DoDecodeCmd
<1>5. Commanded
  BY <1>4 DEF Commanded
<1>6. /\ ~Moving /\ wrDataTransReqQ = <<>> /\ ToTransfer = 0 /\ encodeOutQ = <<>>
      /\ ToTransfer' = 0
  <2>1. ~Moving /\ ~Writing
    BY <1>2, <1>5 DEF WriteFits, TransferFits, Writing
  <2>2. wrDataTransReqQ = <<>> /\ ToTransfer = 0
    BY <2>1, WriteTypes DEF Moving
  <2>3. encodeOutQ = <<>>
    BY <2>1 DEF WriteFits, TransferFits
  <2> QED
    BY <1>2, <2>1, <2>2, <2>3 DEF ToTransfer
<1>7. wrDataTransReqQ' # <<>> /\ Len(wrDataTransReqQ') = 1
  BY <1>2, <1>6
<1>8. PICK q \in Seq(Tags) : PagesFit(q)
  BY DEF WriteFits
<1>9. Full /\ Full' /\ Len(q) > 0 /\ q[1] = t
  BY <1>1, <1>2, <1>4, <1>8 DEF PagesFit, FrontFits, Full
<1>10. ~Commanded'
  <2> SUFFICES ASSUME Commanded' PROVE FALSE
    OBVIOUS
  <2>1. PICK i \in 1 .. Len(cmdOutQ') : cmdOutQ'[i].busOp = "WRITE_CMD_DATA"
    BY DEF Commanded
  <2>2. PICK j \in 1 .. Len(cmdOutQ) : j = i + 1 /\ 1 < j /\ cmdOutQ[j] = cmdOutQ'[i]
    BY <1>4
  <2>3. cmdOutQ[j].tag = t /\ cmdOutQ[1].tag = t
    BY <1>1, <1>4, <1>8, <1>9, <2>1, <2>2 DEF PagesFit, FrontFits
  <2>4. cmdOutQ[1] \in BusCmds /\ cmdOutQ[j] \in BusCmds
    <3>1. cmdOutQ \in Seq(BusCmds)
      BY WriteTypes
    <3>2. \A k \in 1 .. Len(cmdOutQ) : cmdOutQ[k] \in BusCmds
      BY <3>1
    <3> QED
      BY <1>4, <3>2
  <2>5. PICK c \in Chips, d \in Chips : c = cmdOutQ[1].chip /\ d = cmdOutQ[j].chip
    BY <2>4 DEF BusCmds
  <2>6. /\ cmdOutQ[1].busOp \in StartOps /\ cmdOutQ[j].busOp \in StartOps
        /\ cmdOutQ[j].busOp \notin PollOps
    BY <1>4, <2>1, <2>2 DEF StartOps, PollOps
  <2>7. /\ chipQs[c] # <<>> /\ ~Finished(c) /\ chipQs[d] # <<>> /\ ~Finished(d)
    BY <1>4, <2>5, <2>6, StartedHead
  <2>8. Head(chipQs[c]).tag = t /\ Head(chipQs[d]).tag = t
    BY <1>4, <2>3, <2>5 DEF Control, QueuedFit, StepOfHead
  <2>9. c = d
    BY <2>7, <2>8, OneHead
  <2> QED
    BY <1>4, <2>2, <2>5, <2>6, <2>9 DEF Control, InOrder
<1>11. Moving' /\ Writing'
  BY <1>2, <1>7 DEF Moving, Writing
<1>12. AskedFits'
  <2>1. ASSUME NEW u \in Tags
        PROVE  CountIn(cmdOutQ', BufReqs(u)) = CountIn(cmdOutQ, BufReqs(u))
    <3>1. /\ CountIn(cmdOutQ, BufReqs(u)) = CountIn(cmdOutQ', BufReqs(u)) + 0
          /\ CountIn(cmdOutQ', BufReqs(u)) \in Nat
      BY CommandTaken DEF DoDecodeCmd
    <3> QED
      BY <3>1
  <2>2. \A u \in Tags : nAsked(u)' = nAsked(u)
    BY <1>2, <2>1, SameAsked
  <2> QED
    BY <1>2, <1>3, <2>2, AskedStays DEF WriteFits
<1>13. SendingFits' /\ FetchFits'
  BY <1>2, <1>3, SendingStays, FetchStays DEF WriteFits
<1>14. TransferFits'
  <2>1. Writing' => dataCnt' + Len(encodeOutQ') + ToTransfer'
                      = IF wrDataTransReqQ' = <<>> THEN PageWords ELSE 0
    BY <1>2, <1>6, <1>7
  <2>2. \A i \in 1 .. Len(encodeOutQ') : encodeOutQ'[i] = cmdR'.tag
    BY <1>2, <1>6
  <2> QED
    BY <1>2, <1>6, <1>7, <1>9, <1>10, <1>11, <2>1, <2>2 DEF TransferFits
<1>15. Announced(wdataRdy)' /\ Announced(wdataRdyR)'
  BY <1>2, <1>3, AnnouncedStays DEF WriteFits
<1>16. BuffersFit(q)'
  BY <1>2, <1>8, BuffersStay DEF PagesFit
<1>17. FrontFits(q)'
  BY <1>2, <1>9, <1>10 DEF FrontFits, Commanded
<1>18. \A p \in 1 .. Len(q) : PageFits(q, p)'
  BY <1>2, <1>3, <1>8, <1>11, PageStays DEF PagesFit
<1>19. PagesFit(q)'
  BY <1>16, <1>17, <1>18 DEF PagesFit
<1> QED
  BY <1>12, <1>13, <1>14, <1>15, <1>19 DEF WriteFits

(* Other commands do not concern the write path.                           *)
LEMMA DecodeWrites ==
  ASSUME TypeOK, Control, Positions, Owners, WriteFits, DoDecodeCmd
  PROVE  WriteFits'
<1>1. CASE Head(cmdOutQ).busOp \notin {"WRITE_DATA_BUF_REQ", "WRITE_CMD_DATA"}
  <2>0. Head(cmdOutQ) \in BusCmds
    BY CommandTaken DEF DoDecodeCmd
  <2>1. /\ UNCHANGED <<fetchVars, xferVars, reqVars, encodeOutQ, writePageBufFront, out,
                       chipQs, chipStages, chipBusy, wdataRdy, wdataRdyR>>
        /\ state = "IDLE" /\ state' = NextState[Head(cmdOutQ).busOp]
    BY <1>1 DEF DoDecodeCmd, CmdOutGet, rest, reqVars
  <2>2. ~Writing /\ ~Writing' /\ state' # "WRITE_PAGE_WAIT"
    BY <1>1, <2>0, <2>1 DEF Writing, NextState, BusCmds, BusOps
  <2>3. \A u : (Requested(u)' <=> Requested(u)) /\ (Started(u)' <=> Started(u))
    BY <2>1, StagesStay
  <2>4. Announced(wdataRdy)' /\ Announced(wdataRdyR)'
    BY <2>1, <2>3, AnnouncedStays DEF WriteFits
  <2>5. ASSUME NEW u \in Tags
        PROVE  CountIn(cmdOutQ', BufReqs(u)) = CountIn(cmdOutQ, BufReqs(u))
    <3>1. /\ CountIn(cmdOutQ, BufReqs(u)) = CountIn(cmdOutQ', BufReqs(u)) + 0
          /\ CountIn(cmdOutQ', BufReqs(u)) \in Nat
      BY <1>1, CommandTaken DEF DoDecodeCmd
    <3> QED
      BY <3>1
  <2>6. \A i \in 1 .. Len(cmdOutQ') : \E j \in 1 .. Len(cmdOutQ) : cmdOutQ'[i] = cmdOutQ[j]
    BY CommandTaken DEF DoDecodeCmd
  <2>7. Commanded => Commanded'
    BY <1>1, CommandTaken DEF DoDecodeCmd
  <2> QED
    BY <2>1, <2>2, <2>3, <2>4, <2>5, <2>6, <2>7, WritesStay
<1> QED
  BY <1>1, RequestWrites, CommandWrites

(* A rule of the state machine that leaves the queues alone.               *)
LEMMA MachineWrites ==
  ASSUME TypeOK, Control, Positions, Owners, WriteFits,
         UNCHANGED <<fetchVars, xferVars, reqVars, encodeOutQ, writePageBufFront, out,
                     chipQs, chipStages, chipBusy, wdataRdy, wdataRdyR, cmdOutQ>>,
         Writing' <=> Writing, Writing => UNCHANGED <<dataCnt, cmdR>>,
         state' = "WRITE_PAGE_WAIT" => state = "WRITE_PAGE_WAIT"
  PROVE  WriteFits'
<1>1. \A u : (Requested(u)' <=> Requested(u)) /\ (Started(u)' <=> Started(u))
  BY StagesStay
<1>2. Announced(wdataRdy)' /\ Announced(wdataRdyR)'
  BY <1>1, AnnouncedStays DEF WriteFits
<1>3. Commanded' <=> Commanded
  BY DEF Commanded
<1> QED
  BY <1>1, <1>2, <1>3, WritesStay

(* The page is in the chip: there is nothing left to transfer.             *)
LEMMA DoneWrites ==
  ASSUME TypeOK, Control, Positions, Owners, WriteFits,
         UNCHANGED <<fetchVars, xferVars, reqVars, encodeOutQ, writePageBufFront, out,
                     chipQs, chipStages, chipBusy, wdataRdy, wdataRdyR, cmdOutQ>>,
         Writing, dataCnt = PageWords, state' = "IDLE"
  PROVE  WriteFits'
<1>0. UNCHANGED <<writePageBufBack, writeWordCnt, writeFetchSt, wrDataReqQ, wrState, wdataCnt,
                  wrDataBufReqQ, wrDataTransReqQ>>
  BY DEF fetchVars, xferVars, reqVars
<1>1. /\ PageWords \in Nat /\ PageWords > 1 /\ Len(encodeOutQ) \in Nat /\ ToTransfer \in Nat
      /\ encodeOutQ \in Seq(Tags)
  BY WriteTypes
<1>2. wrDataTransReqQ = <<>> /\ Len(encodeOutQ) = 0 /\ ToTransfer = 0
  BY <1>1 DEF WriteFits, TransferFits
<1>3. encodeOutQ = <<>> /\ ~Moving
  BY <1>1, <1>2, EmptyIff DEF Moving
<1>4. ~Writing' /\ ~Moving' /\ ToTransfer' = ToTransfer /\ (Commanded' <=> Commanded)
  BY <1>0, <1>3 DEF Writing, Moving, ToTransfer, Commanded
<1>5. \A u : (Requested(u)' <=> Requested(u)) /\ (Started(u)' <=> Started(u))
  BY StagesStay
<1>6. AskedFits'
  <2>1. \A u \in Tags : nAsked(u)' = nAsked(u)
    <3>1. \A u \in Tags : CountIn(cmdOutQ', BufReqs(u)) = CountIn(cmdOutQ, BufReqs(u))
      OBVIOUS
    <3> QED
      BY <1>0, <3>1, SameAsked
  <2> QED
    BY <1>5, <2>1, AskedStays DEF WriteFits
<1>7. SendingFits' /\ FetchFits'
  BY <1>0, <1>5, SendingStays, FetchStays DEF WriteFits
<1>8. TransferFits'
  BY <1>0, <1>2, <1>3, <1>4 DEF TransferFits, Writing
<1>9. Announced(wdataRdy)' /\ Announced(wdataRdyR)'
  BY <1>5, AnnouncedStays DEF WriteFits
<1>10. PICK q \in Seq(Tags) : PagesFit(q)
  BY DEF WriteFits
<1>11. BuffersFit(q)' /\ FrontFits(q)'
  BY <1>0, <1>4, <1>10, BuffersStay, FrontStays DEF PagesFit
<1>12. \A p \in 1 .. Len(q) : PageFits(q, p)'
  BY <1>0, <1>3, <1>4, <1>5, <1>10, PageStays DEF PagesFit
<1>13. PagesFit(q)'
  BY <1>11, <1>12 DEF PagesFit
<1> QED
  BY <1>6, <1>7, <1>8, <1>9, <1>13 DEF WriteFits

(* A word of the page goes from the encoder to the chip.                   *)
LEMMA BurstWrites ==
  ASSUME TypeOK, Control, Positions, Owners, WriteFits, DoWritePageDataDDR
  PROVE  WriteFits'
<1>0. /\ state = "WRITE_PAGE" /\ NotEmpty(encodeOutQ)
      /\ encodeOutQ' = Tail(encodeOutQ) /\ dataCnt' = dataCnt + 1
      /\ UNCHANGED <<writePageBufBack, writeWordCnt, writeFetchSt, wrDataReqQ, wrState, wdataCnt,
                     wrDataBufReqQ, wrDataTransReqQ, writePageBufFront, out, wdataRdy, wdataRdyR,
                     chipQs, chipStages, chipBusy, cmdOutQ, state, cmdR>>
  BY DEF DoWritePageDataDDR, fetchVars, xferVars, reqVars, sbVars
<1>1. \A u : (Requested(u)' <=> Requested(u)) /\ (Started(u)' <=> Started(u))
  BY <1>0, StagesStay
<1>2. /\ Writing /\ Writing' /\ (Moving' <=> Moving) /\ ToTransfer' = ToTransfer
      /\ (Full' <=> Full) /\ (Commanded' <=> Commanded)
  BY <1>0 DEF Writing, Moving, ToTransfer, Full, Commanded
<1>3. AskedFits'
  <2>1. \A u \in Tags : nAsked(u)' = nAsked(u)
    <3>1. \A u \in Tags : CountIn(cmdOutQ', BufReqs(u)) = CountIn(cmdOutQ, BufReqs(u))
      BY <1>0
    <3> QED
      BY <1>0, <3>1, SameAsked
  <2> QED
    BY <1>0, <1>1, <2>1, AskedStays DEF WriteFits
<1>4. SendingFits' /\ FetchFits'
  BY <1>0, <1>1, SendingStays, FetchStays DEF WriteFits
<1>5. TransferFits'
  <2>1. /\ Len(encodeOutQ) \in Nat /\ Len(encodeOutQ') = Len(encodeOutQ) - 1
        /\ \A i \in 1 .. Len(encodeOutQ') : /\ encodeOutQ'[i] = encodeOutQ[i + 1]
                                            /\ i + 1 \in 1 .. Len(encodeOutQ)
    BY <1>0, WriteTypes, Dequeued
  <2>2. \A i \in 1 .. Len(encodeOutQ') : encodeOutQ'[i] = cmdR'.tag
    BY <1>0, <2>1 DEF WriteFits, TransferFits
  <2>3. dataCnt \in Nat /\ ToTransfer \in Nat
    BY WriteTypes
  <2>4. dataCnt' + Len(encodeOutQ') + ToTransfer' = dataCnt + Len(encodeOutQ) + ToTransfer
    <3>1. PICK d \in Nat, e \in Nat, k \in Nat :
            d = dataCnt /\ e = Len(encodeOutQ) /\ k = ToTransfer
      BY <2>1, <2>3
    <3>2. dataCnt' = d + 1 /\ Len(encodeOutQ') = e - 1 /\ ToTransfer' = k
      BY <1>0, <1>2, <2>1, <3>1
    <3>3. (d + 1) + (e - 1) + k = d + e + k
      OBVIOUS
    <3> QED
      BY <3>1, <3>2, <3>3
  <2>5. Writing' => dataCnt' + Len(encodeOutQ') + ToTransfer'
                      = IF wrDataTransReqQ' = <<>> THEN PageWords ELSE 0
    BY <1>0, <1>2, <2>4 DEF WriteFits, TransferFits
  <2> QED
    BY <1>0, <1>2, <2>2, <2>5 DEF WriteFits, TransferFits
<1>6. Announced(wdataRdy)' /\ Announced(wdataRdyR)'
  BY <1>0, <1>1, AnnouncedStays DEF WriteFits
<1>7. PICK q \in Seq(Tags) : PagesFit(q)
  BY DEF WriteFits
<1>8. BuffersFit(q)' /\ FrontFits(q)'
  BY <1>0, <1>2, <1>7, BuffersStay, FrontStays DEF PagesFit
<1>9. \A p \in 1 .. Len(q) : PageFits(q, p)'
  BY <1>0, <1>1, <1>2, <1>7, PageStays DEF PagesFit
<1>10. PagesFit(q)'
  BY <1>8, <1>9 DEF PagesFit
<1> QED
  BY <1>3, <1>4, <1>5, <1>6, <1>10 DEF WriteFits

(* A chip is started.                                                      *)
LEMMA StartWrites ==
  ASSUME TypeOK, Control, Positions, Owners, WriteFits,
         DoReadPageCmdDone \/ DoWriteDone \/ DoEraseBlockPoll
  PROVE  WriteFits'
<1>1. /\ UNCHANGED <<fetchVars, xferVars, reqVars, encodeOutQ, writePageBufFront, out,
                     chipQs, chipStages, chipBusy, wdataRdy, wdataRdyR, cmdOutQ>>
      /\ state' = "IDLE"
  BY DEF DoReadPageCmdDone, DoWriteDone, DoEraseBlockPoll, StartChip, sbVars, rest
<1>2. CASE DoWriteDone
  <2>1. Writing /\ dataCnt = PageWords
    BY <1>2 DEF DoWriteDone, Writing
  <2> QED
    BY <1>1, <2>1, DoneWrites
<1>3. CASE DoReadPageCmdDone \/ DoEraseBlockPoll
  <2>1. ~Writing /\ ~Writing'
    BY <1>1, <1>3 DEF DoReadPageCmdDone, DoEraseBlockPoll, Writing
  <2> QED
    BY <1>1, <2>1, MachineWrites
<1> QED
  BY <1>2, <1>3

(* The answer to a poll: when the chip has finished, its command is no     *)
(* longer started, but its page has been sent.                             *)
LEMMA StatusWrites ==
  ASSUME TypeOK, Control, Positions, Owners, WriteFits,
         NEW failed \in BOOLEAN, DoGetStatusData(failed)
  PROVE  WriteFits'
<1>1. /\ UNCHANGED <<fetchVars, xferVars, reqVars, encodeOutQ, writePageBufFront, out,
                     chipQs, chipStages, cmdOutQ, wdataRdy, wdataRdyR, cmdR>>
      /\ state \in StatusStates /\ state' \in {"IDLE", rdyReturnState} /\ RdySettled
  BY DEF DoGetStatusData, BusyInPut, rest
<1>2. ~Writing /\ ~Writing' /\ state' # "WRITE_PAGE_WAIT"
  <2>1. rdyReturnState \in {"IDLE", "READ_DATA_WAIT_BUF"}
    BY DEF TypeOK
  <2> QED
    BY <1>1, <2>1 DEF Writing, StatusStates
<1>3. \A u : Requested(u) => Requested(u)'
  BY <1>1 DEF Requested, Writes
<1>4. ASSUME NEW u \in Tags, out'[u].phase = "sending", Started(u)
      PROVE  Started(u)'
  <2>1. PICK d \in Chips : chipStages[d] \in Issued \union Polled /\ ~Finished(d) /\ Writes(d, u)
    BY <1>4 DEF Started
  <2>2. PICK c \in Chips :
          /\ c = cmdR.chip /\ Begun(c)
          /\ \/ chip[c].st = "busy" /\ state' = "IDLE" /\ Begun(c)'
             \/ chip[c].st = "ready" /\ state' = rdyReturnState /\ ~Begun(c)'
          /\ \A e \in Chips : e # c => (Finished(e)' <=> Finished(e))
    BY StatusKeeps
  <2>3. ~Finished(d)'
    <3>1. CASE d # c
      BY <2>1, <2>2, <3>1
    <3>2. CASE Begun(c)' /\ d = c
      BY <3>2 DEF Begun
    <3>3. CASE d = c /\ chip[c].st = "ready"
      <4>1. Done(chip[c].tag) /\ chip[c].tag = u
        BY <2>1, <2>2, <3>3, HeadOwner DEF Owners, BegunFits, Writes
      <4> QED
        BY <1>1, <1>4, <4>1 DEF Done
    <3> QED
      BY <2>2, <3>1, <3>2, <3>3
  <2> QED
    BY <1>1, <2>1, <2>3 DEF Started, Writes
<1>5. Announced(wdataRdy)' /\ Announced(wdataRdyR)'
  <2>1. Len(writePageBufFront) \in Nat /\ Len(writePageBufFront) <= PageWords /\ PageWords \in Nat
    BY WriteTypes
  <2>2. wdataRdy = FrontReady /\ wdataRdyR = FrontReady
    BY <1>1 DEF RdySettled
  <2>3. FrontReady.rdy => Full /\ Head(writePageBufFront) = FrontReady.tag
    BY <2>1 DEF FrontReady, NotReady, Full, NotFull
  <2> QED
    BY <1>1, <2>2, <2>3 DEF Announced, Full
<1>6. Commanded => Commanded'
  BY <1>1 DEF Commanded
<1> QED
  BY <1>1, <1>2, <1>3, <1>4, <1>5, <1>6, WritesStay

(* The user's command goes to its chip, ...                                *)
LEMMA QueueWrites ==
  ASSUME TypeOK, Control, Positions, Owners, WriteFits, DoSBCmd
  PROVE  WriteFits'
<1>1. PICK x \in FlashCmds : x = Head(flashCmdQ)
  BY Dequeued DEF DoSBCmd, TypeOK
<1>2. /\ UNCHANGED <<fetchVars, xferVars, reqVars, encodeOutQ, writePageBufFront, out,
                     chipStages, chipBusy, cmdOutQ, wdataRdy, wdataRdyR, state, dataCnt, cmdR>>
      /\ chipQs' = [chipQs EXCEPT ![x.chip] = Append(chipQs[x.chip], x)]
  BY <1>1 DEF DoSBCmd, CmdInPut, bcVars, rest
<1>3. ASSUME NEW c \in Chips, NEW u, Writes(c, u) PROVE Writes(c, u)'
  <2>1. chipQs \in [Chips -> Seq(FlashCmds)] /\ chipQs[c] \in Seq(FlashCmds) /\ chipQs[c] # <<>>
    BY <1>3, ControlTypes DEF Writes
  <2>2. chipQs'[c] = IF x.chip = c THEN Append(chipQs[c], x) ELSE chipQs[c]
    BY <1>2, <2>1
  <2>3. Append(chipQs[c], x) # <<>> /\ Head(Append(chipQs[c], x)) = Head(chipQs[c])
    <3>1. PICK z \in Seq(FlashCmds) : z = chipQs[c]
      BY <2>1
    <3>2. /\ Append(z, x) \in Seq(FlashCmds) /\ Len(Append(z, x)) = Len(z) + 1
          /\ Len(z) \in Nat /\ \A i \in 1 .. Len(z) : Append(z, x)[i] = z[i]
      BY Enqueued
    <3>3. 1 \in 1 .. Len(z) /\ Head(z) = z[1]
      BY <2>1, <3>1, EmptyIff, Dequeued
    <3>4. Head(Append(z, x)) = Append(z, x)[1] /\ Append(z, x) # <<>>
      BY <3>2, EmptyIff, Dequeued DEF NotEmpty
    <3> QED
      BY <3>1, <3>2, <3>3, <3>4
  <2> QED
    BY <1>3, <2>2, <2>3 DEF Writes
<1>4. /\ \A u : Requested(u) => Requested(u)'
      /\ \A u : Started(u) => Started(u)'
  BY <1>2, <1>3 DEF Requested, Started, Finished
<1>5. Announced(wdataRdy)' /\ Announced(wdataRdyR)'
  BY <1>2, <1>4, AnnouncedStays DEF WriteFits
<1>6. (Commanded => Commanded') /\ (Writing' <=> Writing)
  BY <1>2 DEF Commanded, Writing
<1> QED
  BY <1>2, <1>4, <1>5, <1>6, WritesStay

(* ... after it was accepted; commands are done and answered: the tags     *)
(* that change have no page on its way.                                    *)
LEMMA TagWrites ==
  ASSUME TypeOK, Control, Positions, Owners, WriteFits,
         UNCHANGED <<fetchVars, xferVars, reqVars, encodeOutQ, writePageBufFront,
                     chipQs, chipStages, chipBusy, cmdOutQ, wdataRdy, wdataRdyR,
                     state, dataCnt, cmdR>>,
         \A u \in Tags : out'[u] # out[u] =>
            out'[u].phase # "sending" /\ (~Owed(u) \/ ~NotBegun(u))
  PROVE  WriteFits'
<1>1. \A u : (Requested(u)' <=> Requested(u)) /\ (Started(u)' <=> Started(u))
  BY StagesStay
<1>2. Announced(wdataRdy)' /\ Announced(wdataRdyR)'
  BY <1>1, AnnouncedStays DEF WriteFits
<1>3. (Commanded' <=> Commanded) /\ (Writing' <=> Writing)
  BY DEF Commanded, Writing
<1> QED
  BY <1>1, <1>2, <1>3, WritesStay

-----------------------------------------------------------------------------
(* The page is fetched from the user.                                      *)

(* The request is passed to the user: no page is being fetched.            *)
LEMMA PassWrites ==
  ASSUME TypeOK, Control, Positions, Owners, WriteFits, DoHandleWriteDataReqFromBus
  PROVE  WriteFits'
<1>0. /\ writeFetchSt = 0 /\ writeWordCnt = 0 /\ NotEmpty(wrDataBufReqQ)
      /\ wrDataBufReqQ' = Tail(wrDataBufReqQ)
      /\ wrDataReqQ' = Append(wrDataReqQ, Head(wrDataBufReqQ)) /\ writeFetchSt' = 1
      /\ UNCHANGED <<writePageBufBack, writeWordCnt, wrState, wdataCnt,
                     wrDataTransReqQ, writePageBufFront, encodeOutQ, out, wdataRdy, wdataRdyR,
                     chipQs, chipStages, chipBusy, cmdOutQ, state, cmdR, dataCnt>>
  BY DEF DoHandleWriteDataReqFromBus, MayFetch, xferVars, rest, sbVars, bcVars
<1>1. \A u : (Requested(u)' <=> Requested(u)) /\ (Started(u)' <=> Started(u))
  BY <1>0, StagesStay
<1>2. /\ (Writing' <=> Writing) /\ (Moving' <=> Moving) /\ (Commanded' <=> Commanded)
  BY <1>0 DEF Writing, Moving, ToTransfer, Commanded
<1>3. NoFetch /\ wrDataReqQ = <<>>
  BY <1>0 DEF WriteFits, FetchFits
<1>4. PICK t \in Tags : t = Head(wrDataBufReqQ)
  BY <1>0, WriteTypes, Dequeued
<1>5. AskedFits'
  <2>1. ASSUME NEW u \in Tags PROVE nAsked(u)' = nAsked(u)
    <3>1. CountIn(wrDataBufReqQ, {u}) = CountIn(wrDataBufReqQ', {u}) + (IF t \in {u} THEN 1 ELSE 0)
      BY <1>0, <1>4, WriteTypes, CountDequeued
    <3>2. CountIn(wrDataReqQ', {u}) = CountIn(wrDataReqQ, {u}) + (IF t \in {u} THEN 1 ELSE 0)
      <4>1. PICK z \in Seq(Tags) : z = wrDataReqQ /\ wrDataReqQ' = Append(z, t)
        BY <1>0, <1>4, WriteTypes
      <4>2. CountIn(Append(z, t), {u}) = CountIn(z, {u}) + (IF t \in {u} THEN 1 ELSE 0)
        BY CountEnqueued
      <4> QED
        BY <4>1, <4>2
    <3>3. wrDataBufReqQ' \in Seq(Tags)
      BY <1>0, WriteTypes, Dequeued
    <3>4. /\ CountIn(cmdOutQ, BufReqs(u)) \in Nat /\ CountIn(wrDataBufReqQ', {u}) \in Nat
          /\ CountIn(wrDataReqQ, {u}) \in Nat
      BY <3>3, WriteTypes, CountIsNat
    <3>5. CountIn(cmdOutQ, BufReqs(u))' = CountIn(cmdOutQ, BufReqs(u))
      BY <1>0 DEF BufReqs
    <3> QED
      BY <3>1, <3>2, <3>4, <3>5 DEF nAsked
  <2> QED
    BY <1>0, <1>1, <2>1, AskedStays DEF WriteFits
<1>6. SendingFits'
  BY <1>0, <1>1, SendingStays DEF WriteFits
<1>7. FetchFits'
  <2>1. \A u \in Tags : ~Fetching(u)'
    BY <1>0, <1>3 DEF NoFetch, Fetching
  <2>2. Len(wrDataReqQ') = 1
    BY <1>0, <1>3
  <2> QED
    BY <1>0, <2>1, <2>2 DEF FetchFits, NoFetch
<1>8. TransferFits'
  BY <1>0, <1>2, TransferStays DEF WriteFits
<1>9. Announced(wdataRdy)' /\ Announced(wdataRdyR)'
  BY <1>0, <1>1, AnnouncedStays DEF WriteFits
<1>10. PICK q \in Seq(Tags) : PagesFit(q)
  BY DEF WriteFits
<1>11. BuffersFit(q)' /\ FrontFits(q)'
  BY <1>0, <1>2, <1>10, BuffersStay, FrontStays DEF PagesFit
<1>12. \A p \in 1 .. Len(q) : PageFits(q, p)'
  BY <1>0, <1>1, <1>2, <1>10, PageStays DEF PagesFit
<1>13. PagesFit(q)'
  BY <1>11, <1>12 DEF PagesFit
<1> QED
  BY <1>5, <1>6, <1>7, <1>8, <1>9, <1>13 DEF WriteFits

(* The user takes the request and sends the page: it is the only one.      *)
LEMMA AnswerWrites ==
  ASSUME TypeOK, Control, Positions, Owners, WriteFits, WriteDataReq
  PROVE  WriteFits'
<1>1. PICK t \in Tags : /\ t = Head(wrDataReqQ) /\ nAsked(t) = 1 /\ Requested(t)
                        /\ out[t].phase = "accepted"
  BY AskedTag DEF WriteDataReq, WriteFits
<1>0. /\ NotEmpty(wrDataReqQ) /\ wrDataReqQ' = Tail(wrDataReqQ)
      /\ out' = [out EXCEPT ![t].phase = "sending"]
      /\ UNCHANGED <<writePageBufBack, writeWordCnt, writeFetchSt, wrState, wdataCnt,
                     wrDataBufReqQ, wrDataTransReqQ, writePageBufFront, encodeOutQ,
                     wdataRdy, wdataRdyR,
                     chipQs, chipStages, chipBusy, cmdOutQ, state, cmdR, dataCnt>>
  BY <1>1 DEF WriteDataReq, xferVars, reqVars, rest, sbVars, bcVars
<1>2. \A u : (Requested(u)' <=> Requested(u)) /\ (Started(u)' <=> Started(u))
  BY <1>0, StagesStay
<1>3. /\ (Writing' <=> Writing) /\ (Moving' <=> Moving) /\ (Commanded' <=> Commanded)
  BY <1>0 DEF Writing, Moving, ToTransfer, Commanded
<1>4. /\ wrDataReqQ # <<>> /\ NoFetch /\ Len(wrDataReqQ) = 1 /\ writeWordCnt = 0
      /\ writeFetchSt # 0
  <2>1. wrDataReqQ # <<>>
    BY <1>0, WriteTypes, EmptyIff
  <2> QED
    BY <2>1 DEF WriteFits, FetchFits
<1>5. wrDataReqQ' = <<>>
  <2>1. wrDataReqQ' \in Seq(Tags) /\ Len(wrDataReqQ') = Len(wrDataReqQ) - 1
    BY <1>0, WriteTypes, Dequeued
  <2> QED
    BY <1>4, <2>1, EmptyIff
<1>6. /\ \A u \in Tags : u # t => out'[u] = out[u]
      /\ out'[t].phase = "sending" /\ out'[t].left = out[t].left
  BY <1>0, WriteTypes DEF OutValues
<1>7. out[t].left = PageWords
  <2>1. out[t].op = "WRITE_PAGE"
    BY <1>1, RequestedTag
  <2> QED
    BY <1>1, <2>1 DEF Owners, OutFits
<1>8. AskedFits'
  <2>1. ASSUME NEW u \in Tags
        PROVE  nAsked(u) = nAsked(u)' + (IF t = u THEN 1 ELSE 0) /\ nAsked(u)' \in Nat
    <3>1. CountIn(wrDataReqQ, {u}) = CountIn(wrDataReqQ', {u}) + (IF t \in {u} THEN 1 ELSE 0)
      BY <1>0, <1>1, WriteTypes, CountDequeued
    <3>2. wrDataReqQ' \in Seq(Tags)
      BY <1>0, WriteTypes, Dequeued
    <3>3. /\ CountIn(cmdOutQ, BufReqs(u)) \in Nat /\ CountIn(wrDataBufReqQ, {u}) \in Nat
          /\ CountIn(wrDataReqQ', {u}) \in Nat
      BY <3>2, WriteTypes, CountIsNat
    <3>4. CountIn(cmdOutQ, BufReqs(u))' = CountIn(cmdOutQ, BufReqs(u))
      BY <1>0 DEF BufReqs
    <3> QED
      BY <1>0, <3>1, <3>3, <3>4 DEF nAsked
  <2>2. nAsked(t)' = 0
    BY <1>1, <2>1
  <2>3. \A u \in Tags : u # t => nAsked(u)' = nAsked(u)
    BY <2>1
  <2> QED
    BY <1>2, <1>6, <2>2, <2>3 DEF WriteFits, AskedFits
<1>9. SendingFits'
  BY <1>1, <1>2, <1>6 DEF WriteFits, SendingFits
<1>10. FetchFits'
  <2>1. \A u \in Tags : Fetching(u)' => u = t
    BY <1>4, <1>6 DEF NoFetch, Fetching
  <2>2. writeWordCnt' = 0 /\ writeFetchSt' # 0
    BY <1>0, <1>4
  <2>3. Requested(t)' /\ out'[t].left = PageWords - writeWordCnt'
    BY <1>1, <1>2, <1>6, <1>7, <2>2, WriteTypes
  <2> QED
    BY <1>5, <2>1, <2>2, <2>3 DEF FetchFits
<1>11. TransferFits'
  BY <1>0, <1>3, TransferStays DEF WriteFits
<1>12. Announced(wdataRdy)' /\ Announced(wdataRdyR)'
  BY <1>0, <1>2, AnnouncedStays DEF WriteFits
<1>13. PICK q \in Seq(Tags) : PagesFit(q)
  BY DEF WriteFits
<1>14. BuffersFit(q)' /\ FrontFits(q)'
  BY <1>0, <1>3, <1>13, BuffersStay, FrontStays DEF PagesFit
<1>15. ASSUME NEW p \in 1 .. Len(q) PROVE PageFits(q, p)'
  <2>1. PageFits(q, p) /\ q[p] \in Tags
    BY <1>13 DEF PagesFit
  <2>2. q[p] # t
    BY <1>1, <2>1 DEF PageFits
  <2> QED
    BY <1>0, <1>2, <1>3, <1>6, <2>1, <2>2, PageStays
<1>16. PagesFit(q)'
  BY <1>14, <1>15 DEF PagesFit
<1> QED
  BY <1>8, <1>9, <1>10, <1>11, <1>12, <1>16 DEF WriteFits

(* The word the user sends belongs to the page that is fetched: the first  *)
(* of it, or the next of the last page in the buffers.                     *)
LEMMA SendBuffers ==
  ASSUME TypeOK, WriteFits, NEW q \in Seq(Tags), PagesFit(q), NEW t \in Tags, Fetching(t),
         UNCHANGED <<wrState, wdataCnt, writePageBufFront>>,
         writePageBufBack' = Append(writePageBufBack, t),
         writeWordCnt' = IF writeWordCnt = PageWords - 1 THEN 0 ELSE writeWordCnt + 1
  PROVE  /\ writeWordCnt = 0 => BuffersFit(Append(q, t))'
         /\ writeWordCnt > 0 => BuffersFit(q)' /\ Len(q) > 0 /\ q[Len(q)] = t
<1>1. /\ Data \in Seq(Tags) /\ Len(Data) \in Nat /\ PageWords \in Nat /\ PageWords > 1
      /\ writeWordCnt \in 0 .. PageWords - 1 /\ Offset \in 0 .. PageWords - 1
      /\ writePageBufBack \in Seq(Tags) /\ writePageBufFront \in Seq(Tags)
  BY WriteTypes
<1>2. PICK n \in Nat : n = PageWords /\ n > 1
  BY <1>1
<1>3. PICK k \in 0 .. n - 1 : k = writeWordCnt
  BY <1>1, <1>2
<1>4. PICK m \in Nat : m = Len(q)
  OBVIOUS
<1>5. Data' = Append(Data, t) /\ Offset' = Offset
  <2>1. Offset' = Offset
    BY DEF Offset
  <2>2. Data' = Append(Data, t)
    BY <1>1, OneQueue DEF Data
  <2> QED
    BY <2>1, <2>2
<1>6. Len(Data') = Len(Data) + 1
  BY <1>1, <1>5, Enqueued
<1>7. /\ InPages(Data, q, Offset, n)
      /\ Offset + Len(Data) = IF k = 0 THEN n * m ELSE n * (m - 1) + k
      /\ \A p, r \in 1 .. Len(q) : q[p] = q[r] => p = r
  BY <1>2, <1>3, <1>4 DEF PagesFit, BuffersFit
<1>8. /\ n * m \in Int /\ n * (m - 1) \in Int /\ n * (m - 1) = n * m - n /\ n * m >= 0
      /\ n * ((m + 1) - 1) = n * m
  BY <1>2, <1>4, Multiples
<1>9. PICK l \in Nat : l = Offset + Len(Data) /\ l + 1 = Offset' + Len(Data')
  BY <1>1, <1>5, <1>6
<1>10. \A p \in 1 .. Len(q) : /\ out[q[p]].phase = "sending" /\ q[p] \in Tags
                              /\ out[q[p]].left = IF p = m /\ k > 0 THEN n - k ELSE 0
  BY <1>2, <1>3, <1>4 DEF PagesFit, PageFits
<1>11. ASSUME k = 0 PROVE BuffersFit(Append(q, t))'
  <2>1. PICK z \in Seq(Tags) : /\ z = Append(q, t) /\ Len(z) = m + 1 /\ z[m + 1] = t
                               /\ \A p \in 1 .. m : z[p] = q[p]
                               /\ \A p \in 1 .. Len(z) : p \in 1 .. m \/ p = m + 1
    BY <1>4, Enqueued
  <2>2. InPages(Data', z, Offset', n)
    <3>1. Offset + Len(Data) = n * Len(q)
      BY <1>4, <1>7, <1>11
    <3>2. InPages(Append(Data, t), Append(q, t), Offset, n)
      BY <1>1, <1>7, <3>1, OnePageMore
    <3> QED
      BY <1>5, <2>1, <3>2
  <2>3. Offset' + Len(Data') = n * (Len(z) - 1) + writeWordCnt' /\ writeWordCnt' # 0
    <3>1. writeWordCnt' = 1
      BY <1>2, <1>3, <1>11
    <3>2. Len(z) - 1 = m /\ l = n * m
      BY <1>7, <1>9, <1>11, <2>1
    <3>3. n * (Len(z) - 1) = l
      BY <3>2
    <3> QED
      BY <1>9, <3>1, <3>3
  <2>4. \A p, r \in 1 .. Len(z) : z[p] = z[r] => p = r
    <3>1. \A p \in 1 .. m : q[p] # t
      BY <1>4, <1>10, <1>11 DEF Fetching
    <3> QED
      BY <1>4, <1>7, <2>1, <3>1
  <2> QED
    BY <1>2, <2>1, <2>2, <2>3, <2>4 DEF BuffersFit
<1>12. ASSUME k > 0 PROVE BuffersFit(q)' /\ Len(q) > 0 /\ q[Len(q)] = t
  <2>1. l = n * (m - 1) + k
    BY <1>7, <1>9, <1>12
  <2>2. m > 0
    <3> SUFFICES ASSUME m = 0 PROVE FALSE
      OBVIOUS
    <3>1. n * m = 0
      BY <1>2
    <3>2. l = k - n
      BY <1>2, <1>3, <1>8, <2>1, <3>1
    <3> QED
      BY <1>2, <1>3, <1>9, <3>2
  <2>3. q[m] = t
    <3>1. m \in 1 .. Len(q)
      BY <1>4, <2>2
    <3>2. q[m] \in Tags /\ Fetching(q[m])
      BY <1>2, <1>3, <1>10, <1>12, <3>1 DEF Fetching
    <3> QED
      BY <3>2 DEF WriteFits, FetchFits
  <2>4. InPages(Data', q, Offset', n)
    <3>1. Offset + Len(Data) = n * (Len(q) - 1) + k /\ Len(q) > 0 /\ q[Len(q)] = t
      BY <1>4, <1>9, <2>1, <2>2, <2>3
    <3>2. PICK w \in Seq(Tags), d \in Nat : w = Data /\ d = Offset
      BY <1>1
    <3>3. InPages(w, q, d, n) /\ d + Len(w) = n * (Len(q) - 1) + k
      BY <1>7, <3>1, <3>2
    <3>4. InPages(Append(w, t), q, d, n)
      BY <3>1, <3>3, OneWordMore
    <3> QED
      BY <1>5, <3>2, <3>4
  <2>5. Offset' + Len(Data') = IF writeWordCnt' = 0 THEN n * m
                               ELSE n * (m - 1) + writeWordCnt'
    <3>1. CASE k = n - 1
      <4>1. writeWordCnt' = 0
        BY <1>2, <1>3, <3>1
      <4>2. l + 1 = n * m
        BY <1>2, <1>8, <2>1, <3>1
      <4> QED
        BY <1>9, <4>1, <4>2
    <3>2. CASE k # n - 1
      <4>1. writeWordCnt' = k + 1 /\ k + 1 # 0
        BY <1>2, <1>3, <3>2
      <4>2. l + 1 = n * (m - 1) + (k + 1)
        BY <1>2, <1>3, <1>8, <2>1
      <4> QED
        BY <1>9, <4>1, <4>2
    <3> QED
      BY <3>1, <3>2
  <2> QED
    BY <1>2, <1>4, <1>7, <2>2, <2>3, <2>4, <2>5 DEF BuffersFit
<1> QED
  BY <1>3, <1>11, <1>12

(* Something is left of n after less than n.                               *)
LEMMA SomeLeft ==
  ASSUME NEW n \in Nat, NEW k \in Nat, k < n, NEW l, l = n - k
  PROVE  l > 0
  OBVIOUS

(* The user sends a word.                                                  *)
LEMMA SendWrites ==
  ASSUME TypeOK, Control, Positions, Owners, WriteFits, NEW t \in Tags, WriteWord(t)
  PROVE  WriteFits'
<1>0. /\ Fetching(t)
      /\ writePageBufBack' = Append(writePageBufBack, t)
      /\ writeWordCnt' = IF writeWordCnt = PageWords - 1 THEN 0 ELSE writeWordCnt + 1
      /\ out' = [out EXCEPT ![t].left = out[t].left - 1]
      /\ UNCHANGED <<writeFetchSt, wrDataReqQ, wrState, wdataCnt,
                     wrDataBufReqQ, wrDataTransReqQ, writePageBufFront, encodeOutQ,
                     wdataRdy, wdataRdyR,
                     chipQs, chipStages, chipBusy, cmdOutQ, state, cmdR, dataCnt>>
  BY DEF WriteWord, Fetching, xferVars, reqVars, rest, sbVars, bcVars
<1>1. \A u : (Requested(u)' <=> Requested(u)) /\ (Started(u)' <=> Started(u))
  BY <1>0, StagesStay
<1>2. /\ (Writing' <=> Writing) /\ (Moving' <=> Moving) /\ (Commanded' <=> Commanded)
      /\ (Full' <=> Full)
  BY <1>0 DEF Writing, Moving, ToTransfer, Commanded, Full
<1>3. /\ Requested(t) /\ out[t].left = PageWords - writeWordCnt /\ wrDataReqQ = <<>>
      /\ \A u \in Tags : Fetching(u) => u = t
  BY <1>0 DEF WriteFits, FetchFits, NoFetch
<1>4. /\ PageWords \in Nat /\ PageWords > 1 /\ writeWordCnt \in 0 .. PageWords - 1
  BY WriteTypes
<1>5. /\ \A u \in Tags : u # t => out'[u] = out[u]
      /\ out[t].phase = "sending" /\ out'[t].phase = "sending"
      /\ out'[t].left = out[t].left - 1
  BY <1>0, WriteTypes DEF OutValues, Fetching
<1>6. /\ out'[t].left = IF writeWordCnt' > 0 THEN PageWords - writeWordCnt' ELSE 0
      /\ writeWordCnt = 0 => writeWordCnt' > 0
      /\ writeWordCnt' \in 0 .. PageWords - 1
  BY <1>0, <1>3, <1>4, <1>5
<1>7. AskedFits'
  <2>1. \A u \in Tags : nAsked(u)' = nAsked(u)
    <3>1. \A u \in Tags : CountIn(cmdOutQ', BufReqs(u)) = CountIn(cmdOutQ, BufReqs(u))
      BY <1>0
    <3> QED
      BY <1>0, <3>1, SameAsked
  <2>2. \A u \in Tags : out'[u].phase = out[u].phase
    BY <1>5
  <2> QED
    BY <1>1, <2>1, <2>2, AskedStays DEF WriteFits
<1>8. SendingFits'
  BY <1>1, <1>5, SendingStays DEF WriteFits
<1>9. FetchFits'
  <2>1. \A u \in Tags : Fetching(u)' => u = t
    BY <1>3, <1>5 DEF Fetching
  <2>2. Fetching(t)' <=> writeWordCnt' > 0
    <3>1. Fetching(t)' <=> out'[t].left > 0
      BY <1>5 DEF Fetching
    <3>2. PICK k \in Nat : k = writeWordCnt' /\ k < PageWords
      BY <1>4, <1>6
    <3>3. out'[t].left = IF k > 0 THEN PageWords - k ELSE 0
      BY <1>6, <3>2
    <3>4. PICK l : l = out'[t].left
      OBVIOUS
    <3>5. l > 0 <=> k > 0
      <4>1. CASE k > 0
        <5>1. l = PageWords - k
          BY <3>3, <3>4, <4>1
        <5>2. l > 0
          BY <1>4, <3>2, <5>1, SomeLeft
        <5> QED
          BY <4>1, <5>2
      <4>2. CASE k = 0
        <5>1. l = 0
          BY <3>3, <3>4, <4>2
        <5> QED
          BY <4>2, <5>1
      <4> QED
        BY <3>2, <4>1, <4>2
    <3> QED
      BY <3>1, <3>2, <3>4, <3>5
  <2>3. writeWordCnt' = 0 => NoFetch'
    BY <2>1, <2>2 DEF NoFetch
  <2>4. \A u \in Tags : Fetching(u)' => Requested(u)' /\ out'[u].left = PageWords - writeWordCnt'
    BY <1>1, <1>3, <1>6, <2>1, <2>2
  <2>5. \A u, v \in Tags : Fetching(u)' /\ Fetching(v)' => u = v
    BY <2>1
  <2> QED
    BY <1>0, <1>3, <2>3, <2>4, <2>5 DEF FetchFits
<1>10. TransferFits'
  BY <1>0, <1>2, TransferStays DEF WriteFits
<1>11. Announced(wdataRdy)' /\ Announced(wdataRdyR)'
  BY <1>0, <1>1, AnnouncedStays DEF WriteFits
<1>12. PICK q \in Seq(Tags) : PagesFit(q)
  BY DEF WriteFits
<1>13. \A p \in 1 .. Len(q) : PageFits(q, p) /\ q[p] \in Tags
  BY <1>12 DEF PagesFit
<1>14. CASE writeWordCnt = 0
  <2>1. PICK z \in Seq(Tags) : /\ z = Append(q, t) /\ Len(z) = Len(q) + 1 /\ z[Len(q) + 1] = t
                               /\ \A p \in 1 .. Len(q) : z[p] = q[p]
                               /\ \A p \in 1 .. Len(z) : p \in 1 .. Len(q) \/ p = Len(q) + 1
                               /\ Len(q) \in Nat
    BY Enqueued
  <2>2. BuffersFit(z)'
    BY <1>0, <1>12, <1>14, <2>1, SendBuffers
  <2>3. FrontFits(z)'
    <3>1. FrontFits(q)'
      BY <1>0, <1>2, <1>12, FrontStays DEF PagesFit
    <3>2. Len(q) > 0 => Len(z) > 0 /\ z[1] = q[1]
      BY <2>1
    <3> QED
      BY <3>1, <3>2 DEF FrontFits
  <2>4. ASSUME NEW p \in 1 .. Len(z) PROVE PageFits(z, p)'
    <3>1. CASE p = Len(z)
      <4>1. z[p] = t
        BY <2>1, <3>1
      <4> QED
        BY <1>1, <1>3, <1>5, <1>6, <1>14, <3>1, <4>1 DEF PageFits
    <3>2. CASE p \in 1 .. Len(q)
      <4>1. PageFits(q, p) /\ z[p] = q[p] /\ p # Len(z)
        BY <1>13, <2>1, <3>2
      <4>2. out[q[p]].left = 0
        BY <1>14, <4>1 DEF PageFits
      <4>3. q[p] # t
        BY <1>0, <4>2 DEF Fetching
      <4>4. out'[z[p]] = out[q[p]]
        BY <1>5, <1>13, <3>2, <4>1, <4>3
      <4> QED
        BY <1>1, <1>2, <4>1, <4>2, <4>4 DEF PageFits
    <3> QED
      BY <2>1, <3>1, <3>2
  <2>5. PagesFit(z)'
    BY <2>2, <2>3, <2>4 DEF PagesFit
  <2> QED
    BY <1>7, <1>8, <1>9, <1>10, <1>11, <2>5 DEF WriteFits
<1>15. CASE writeWordCnt > 0
  <2>1. BuffersFit(q)' /\ Len(q) > 0 /\ q[Len(q)] = t /\ Len(q) \in 1 .. Len(q)
    BY <1>0, <1>12, <1>15, SendBuffers
  <2>2. FrontFits(q)'
    BY <1>0, <1>2, <1>12, FrontStays DEF PagesFit
  <2>3. ASSUME NEW p \in 1 .. Len(q) PROVE PageFits(q, p)'
    <3>1. CASE p = Len(q)
      BY <1>1, <1>3, <1>5, <1>6, <2>1, <3>1 DEF PageFits
    <3>2. CASE p # Len(q)
      <4>1. q[p] # t
        BY <1>12, <2>1, <3>2 DEF PagesFit, BuffersFit
      <4>2. PageFits(q, p) /\ out'[q[p]] = out[q[p]]
        BY <1>5, <1>13, <4>1
      <4> QED
        BY <1>1, <1>2, <3>2, <4>2 DEF PageFits
    <3> QED
      BY <3>1, <3>2
  <2>4. PagesFit(q)'
    BY <2>1, <2>2, <2>3 DEF PagesFit
  <2> QED
    BY <1>7, <1>8, <1>9, <1>10, <1>11, <2>4 DEF WriteFits
<1> QED
  BY <1>4, <1>14, <1>15

(* The fetch of a page ends.                                               *)
LEMMA FetchEnds ==
  ASSUME TypeOK, Control, Positions, Owners, WriteFits, DoWriteFetchWait
  PROVE  WriteFits'
<1>0. /\ writeWordCnt = PageWords - 1
      /\ UNCHANGED <<writePageBufBack, writeWordCnt, wrDataReqQ, wrState, wdataCnt,
                     wrDataBufReqQ, wrDataTransReqQ, writePageBufFront, encodeOutQ, out,
                     wdataRdy, wdataRdyR,
                     chipQs, chipStages, chipBusy, cmdOutQ, state, cmdR, dataCnt>>
  BY DEF DoWriteFetchWait, FetchWaitDue, xferVars, reqVars, rest, sbVars, bcVars
<1>1. \A u : (Requested(u)' <=> Requested(u)) /\ (Started(u)' <=> Started(u))
  BY <1>0, StagesStay
<1>2. (Writing' <=> Writing) /\ (Moving' <=> Moving) /\ (Commanded' <=> Commanded)
  BY <1>0 DEF Writing, Moving, ToTransfer, Commanded
<1>3. AskedFits'
  <2>1. \A u \in Tags : nAsked(u)' = nAsked(u)
    <3>1. \A u \in Tags : CountIn(cmdOutQ', BufReqs(u)) = CountIn(cmdOutQ, BufReqs(u))
      BY <1>0
    <3> QED
      BY <1>0, <3>1, SameAsked
  <2> QED
    BY <1>0, <1>1, <2>1, AskedStays DEF WriteFits
<1>4. SendingFits'
  BY <1>0, <1>1, SendingStays DEF WriteFits
<1>5. FetchFits'
  <2>1. writeWordCnt # 0
    BY <1>0, WriteTypes
  <2>2. \A u \in Tags : (Fetching(u)' <=> Fetching(u)) /\ (Requested(u)' <=> Requested(u))
    BY <1>0, <1>1 DEF Fetching
  <2>3. NoFetch' <=> NoFetch
    BY <2>2 DEF NoFetch
  <2> QED
    BY <1>0, <2>1, <2>2, <2>3 DEF WriteFits, FetchFits
<1>6. TransferFits'
  BY <1>0, <1>2, TransferStays DEF WriteFits
<1>7. Announced(wdataRdy)' /\ Announced(wdataRdyR)'
  BY <1>0, <1>1, AnnouncedStays DEF WriteFits
<1>8. PICK q \in Seq(Tags) : PagesFit(q)
  BY DEF WriteFits
<1>9. BuffersFit(q)' /\ FrontFits(q)'
  BY <1>0, <1>2, <1>8, BuffersStay, FrontStays DEF PagesFit
<1>10. \A p \in 1 .. Len(q) : PageFits(q, p)'
  BY <1>0, <1>1, <1>2, <1>8, PageStays DEF PagesFit
<1>11. PagesFit(q)'
  BY <1>9, <1>10 DEF PagesFit
<1> QED
  BY <1>3, <1>4, <1>5, <1>6, <1>7, <1>11 DEF WriteFits

(* A word moves to the front buffer, which is not full: no page is to be   *)
(* transferred as a whole.                                                 *)
LEMMA MoveWrites ==
  ASSUME TypeOK, Control, Positions, Owners, WriteFits, DoWriteBufTransfer
  PROVE  WriteFits'
<1>0. /\ NotEmpty(writePageBufBack) /\ ~Full
      /\ writePageBufBack' = Tail(writePageBufBack)
      /\ writePageBufFront' = Append(writePageBufFront, Head(writePageBufBack))
      /\ UNCHANGED <<writeFetchSt, writeWordCnt, wrDataReqQ, wrState, wdataCnt,
                     wrDataBufReqQ, wrDataTransReqQ, encodeOutQ, out, wdataRdy, wdataRdyR,
                     chipQs, chipStages, chipBusy, cmdOutQ, state, cmdR, dataCnt>>
  <2>1. /\ NotEmpty(writePageBufBack) /\ NotFull(writePageBufFront, PageWords)
        /\ writePageBufBack' = Tail(writePageBufBack)
        /\ writePageBufFront' = Append(writePageBufFront, Head(writePageBufBack))
        /\ UNCHANGED <<writeFetchSt, writeWordCnt, wrDataReqQ, wrState, wdataCnt,
                       wrDataBufReqQ, wrDataTransReqQ, encodeOutQ, out, wdataRdy, wdataRdyR,
                       chipQs, chipStages, chipBusy, cmdOutQ, state, cmdR, dataCnt>>
    BY DEF DoWriteBufTransfer, xferVars, reqVars, sbVars, bcVars
  <2>2. ~Full
    BY <2>1, WriteTypes DEF NotFull, Full
  <2> QED
    BY <2>1, <2>2
<1>1. \A u : (Requested(u)' <=> Requested(u)) /\ (Started(u)' <=> Started(u))
  BY <1>0, StagesStay
<1>2. /\ (Writing' <=> Writing) /\ (Moving' <=> Moving) /\ (Commanded' <=> Commanded)
      /\ ToTransfer' = ToTransfer /\ Offset' = Offset
  BY <1>0 DEF Writing, Moving, ToTransfer, Offset, Commanded
<1>3. Data' = Data
  BY <1>0, WriteTypes, OneQueue DEF Data
<1>4. PICK q \in Seq(Tags) : PagesFit(q)
  BY DEF WriteFits
<1>5. \A i \in 1 .. Len(cmdOutQ) : cmdOutQ[i].busOp # "WRITE_CMD_DATA"
  BY <1>0, <1>4 DEF PagesFit, FrontFits
<1>6. wrDataTransReqQ = <<>>
  BY <1>0 DEF WriteFits, TransferFits
<1>7. AskedFits'
  <2>1. \A u \in Tags : nAsked(u)' = nAsked(u)
    <3>1. \A u \in Tags : CountIn(cmdOutQ', BufReqs(u)) = CountIn(cmdOutQ, BufReqs(u))
      BY <1>0
    <3> QED
      BY <1>0, <3>1, SameAsked
  <2> QED
    BY <1>0, <1>1, <2>1, AskedStays DEF WriteFits
<1>8. SendingFits' /\ FetchFits'
  BY <1>0, <1>1, SendingStays, FetchStays DEF WriteFits
<1>9. TransferFits'
  <2>1. Writing' => dataCnt' + Len(encodeOutQ') + ToTransfer'
                      = IF wrDataTransReqQ' = <<>> THEN PageWords ELSE 0
    BY <1>0, <1>2 DEF WriteFits, TransferFits
  <2> QED
    BY <1>0, <1>2, <1>6, <2>1 DEF WriteFits, TransferFits
<1>10. Announced(wdataRdy)' /\ Announced(wdataRdyR)'
  BY <1>0, <1>1 DEF WriteFits, Announced
<1>11. BuffersFit(q)'
  BY <1>0, <1>2, <1>3, <1>4 DEF PagesFit, BuffersFit, InPages
<1>12. FrontFits(q)'
  BY <1>0, <1>2, <1>4, <1>5 DEF PagesFit, FrontFits
<1>13. \A p \in 1 .. Len(q) : PageFits(q, p)'
  BY <1>0, <1>1, <1>2, <1>4, PageStays DEF PagesFit
<1>14. PagesFit(q)'
  BY <1>11, <1>12, <1>13 DEF PagesFit
<1> QED
  BY <1>7, <1>8, <1>9, <1>10, <1>14 DEF WriteFits

-----------------------------------------------------------------------------
(* The page goes to the bus.                                               *)

(* The registers that announce a page are loaded.                          *)
LEMMA AnnounceWrites ==
  ASSUME TypeOK, Control, Positions, Owners, WriteFits, SetWriteDataRdy
  PROVE  WriteFits'
<1>0. /\ wdataRdyR' = FrontReady /\ wdataRdy' = wdataRdyR
      /\ UNCHANGED <<writePageBufBack, writeWordCnt, writeFetchSt, wrDataReqQ, wrState, wdataCnt,
                     wrDataBufReqQ, wrDataTransReqQ, writePageBufFront, encodeOutQ, out,
                     chipQs, chipStages, chipBusy, cmdOutQ, state, cmdR, dataCnt>>
  BY DEF SetWriteDataRdy, SetWdataRdy, fetchVars, xferVars, reqVars, bcVars
<1>1. \A u : (Requested(u)' <=> Requested(u)) /\ (Started(u)' <=> Started(u))
  BY <1>0, StagesStay
<1>2. /\ (Writing' <=> Writing) /\ (Moving' <=> Moving) /\ (Commanded' <=> Commanded)
      /\ (Full' <=> Full)
  BY <1>0 DEF Writing, Moving, ToTransfer, Commanded, Full
<1>3. AskedFits'
  <2>1. \A u \in Tags : nAsked(u)' = nAsked(u)
    <3>1. \A u \in Tags : CountIn(cmdOutQ', BufReqs(u)) = CountIn(cmdOutQ, BufReqs(u))
      BY <1>0
    <3> QED
      BY <1>0, <3>1, SameAsked
  <2> QED
    BY <1>0, <1>1, <2>1, AskedStays DEF WriteFits
<1>4. SendingFits' /\ FetchFits'
  BY <1>0, <1>1, SendingStays, FetchStays DEF WriteFits
<1>5. TransferFits'
  BY <1>0, <1>2, TransferStays DEF WriteFits
<1>6. Announced(wdataRdy)'
  BY <1>0, <1>1, <1>2 DEF WriteFits, Announced
<1>7. Announced(wdataRdyR)'
  <2>1. Len(writePageBufFront) \in Nat /\ Len(writePageBufFront) <= PageWords /\ PageWords \in Nat
    BY WriteTypes
  <2>2. FrontReady.rdy => Full /\ Head(writePageBufFront) = FrontReady.tag
    BY <2>1 DEF FrontReady, NotReady, Full, NotFull
  <2> QED
    BY <1>0, <1>2, <2>2 DEF Announced
<1>8. PICK q \in Seq(Tags) : PagesFit(q)
  BY DEF WriteFits
<1>9. BuffersFit(q)' /\ FrontFits(q)'
  BY <1>0, <1>2, <1>8, BuffersStay, FrontStays DEF PagesFit
<1>10. \A p \in 1 .. Len(q) : PageFits(q, p)'
  BY <1>0, <1>1, <1>2, <1>8, PageStays DEF PagesFit
<1>11. PagesFit(q)'
  BY <1>9, <1>10 DEF PagesFit
<1> QED
  BY <1>3, <1>4, <1>5, <1>6, <1>7, <1>11 DEF WriteFits

(* The transfer of a page begins: it is the page at the head of the        *)
(* buffers, and nothing of it has been sent.                               *)
LEMMA BeginWrites ==
  ASSUME TypeOK, Control, Positions, Owners, WriteFits, DoWriteDataTransferReq
  PROVE  WriteFits'
<1>0. /\ NotEmpty(wrDataTransReqQ) /\ wrDataTransReqQ' = Tail(wrDataTransReqQ)
      /\ wrState = 0 /\ wdataCnt' = 0 /\ wrState' = 1
      /\ UNCHANGED <<writePageBufBack, writeWordCnt, writeFetchSt, wrDataReqQ, wrDataBufReqQ,
                     writePageBufFront, encodeOutQ, out, wdataRdy, wdataRdyR,
                     chipQs, chipStages, chipBusy, cmdOutQ, state, cmdR, dataCnt>>
  BY DEF DoWriteDataTransferReq, fetchVars, rest, sbVars, bcVars
<1>1. \A u : (Requested(u)' <=> Requested(u)) /\ (Started(u)' <=> Started(u))
  BY <1>0, StagesStay
<1>2. /\ (Writing' <=> Writing) /\ (Commanded' <=> Commanded) /\ Data' = Data
  BY <1>0 DEF Writing, Commanded, Data
<1>3. PageWords \in Nat /\ PageWords > 1 /\ dataCnt \in Nat /\ Len(encodeOutQ) \in Nat
  BY WriteTypes
<1>4. /\ ToTransfer = 0 /\ ToTransfer' = PageWords /\ Offset = 0 /\ Offset' = 0
  BY <1>0, <1>3 DEF ToTransfer, Offset
<1>5. wrDataTransReqQ # <<>>
  BY <1>0, WriteTypes, EmptyIff
<1>6. Moving /\ Moving' /\ Writing /\ ~Commanded
  <2>1. Moving /\ Moving'
    BY <1>3, <1>4, <1>5 DEF Moving
  <2> QED
    BY <2>1 DEF WriteFits, TransferFits
<1>7. wrDataTransReqQ' = <<>>
  <2>1. Len(wrDataTransReqQ) = 1
    BY <1>5 DEF WriteFits, TransferFits
  <2>2. wrDataTransReqQ' \in Seq({1}) /\ Len(wrDataTransReqQ') = 0
    BY <1>0, <2>1, WriteTypes, Dequeued
  <2> QED
    BY <2>2, EmptyIff
<1>8. AskedFits'
  <2>1. \A u \in Tags : nAsked(u)' = nAsked(u)
    <3>1. \A u \in Tags : CountIn(cmdOutQ', BufReqs(u)) = CountIn(cmdOutQ, BufReqs(u))
      BY <1>0
    <3> QED
      BY <1>0, <3>1, SameAsked
  <2> QED
    BY <1>0, <1>1, <2>1, AskedStays DEF WriteFits
<1>9. SendingFits' /\ FetchFits'
  BY <1>0, <1>1, SendingStays, FetchStays DEF WriteFits
<1>10. TransferFits'
  <2>1. dataCnt + Len(encodeOutQ) = 0
    BY <1>3, <1>4, <1>5, <1>6 DEF WriteFits, TransferFits
  <2>2. dataCnt' + Len(encodeOutQ') + ToTransfer' = PageWords
    BY <1>0, <1>3, <1>4, <2>1
  <2>3. \A i \in 1 .. Len(encodeOutQ') : encodeOutQ'[i] = cmdR'.tag
    BY <1>0 DEF WriteFits, TransferFits
  <2>4. state' = "WRITE_PAGE_WAIT" => dataCnt' = 0
    BY <1>0 DEF WriteFits, TransferFits
  <2> QED
    BY <1>2, <1>6, <1>7, <2>2, <2>3, <2>4 DEF TransferFits
<1>11. Announced(wdataRdy)' /\ Announced(wdataRdyR)'
  BY <1>0, <1>1, AnnouncedStays DEF WriteFits
<1>12. PICK q \in Seq(Tags) : PagesFit(q)
  BY DEF WriteFits
<1>13. BuffersFit(q)'
  BY <1>0, <1>2, <1>4, <1>12 DEF PagesFit, BuffersFit, InPages
<1>14. FrontFits(q)'
  BY <1>0, <1>6, <1>12, FrontStays DEF PagesFit
<1>15. \A p \in 1 .. Len(q) : PageFits(q, p)'
  BY <1>0, <1>1, <1>6, <1>12, PageStays DEF PagesFit
<1>16. PagesFit(q)'
  BY <1>13, <1>14, <1>15 DEF PagesFit
<1> QED
  BY <1>8, <1>9, <1>10, <1>11, <1>16 DEF WriteFits

(* The buffers after a word has been taken from them.                      *)
LEMMA TakeBuffers ==
  ASSUME TypeOK, NEW q \in Seq(Tags), BuffersFit(q), NEW n \in Nat, n = PageWords,
         NEW k \in 0 .. n - 1, k = Offset, NotEmpty(Data), NotEmpty(q),
         Data' = Tail(Data), UNCHANGED writeWordCnt
  PROVE  /\ Offset' = k + 1 => BuffersFit(q)'
         /\ k = n - 1 /\ Offset' = 0 => BuffersFit(Tail(q))'
<1>1. Data \in Seq(Tags) /\ Len(Data) \in Nat /\ n > 1 /\ writeWordCnt \in 0 .. n - 1
  BY WriteTypes
<1>2. Data' \in Seq(Tags) /\ Len(Data') = Len(Data) - 1
  BY <1>1, Dequeued
<1>3. /\ InPages(Data, q, k, n)
      /\ k + Len(Data) = IF writeWordCnt = 0 THEN n * Len(q) ELSE n * (Len(q) - 1) + writeWordCnt
      /\ \A p, r \in 1 .. Len(q) : q[p] = q[r] => p = r
  BY DEF BuffersFit
<1>4. PICK w \in Seq(Tags) : w = Data
  BY <1>1
<1>5. PICK l \in Nat : l = Len(Data)
  BY <1>1
<1>6. PICK m \in Nat : m = Len(q)
  OBVIOUS
<1>7. PICK c \in Nat : c = writeWordCnt
  BY <1>1
<1>8. k + l = IF c = 0 THEN n * m ELSE n * (m - 1) + c
  BY <1>3, <1>5, <1>6, <1>7
<1>9. ASSUME Offset' = k + 1 PROVE BuffersFit(q)'
  <2>1. InPages(Tail(w), q, k + 1, n)
    BY <1>3, <1>4, NextWord
  <2>2. (k + 1) + (l - 1) = k + l
    OBVIOUS
  <2>3. Offset' + Len(Data') = IF writeWordCnt' = 0 THEN n * Len(q)
                               ELSE n * (Len(q) - 1) + writeWordCnt'
    BY <1>2, <1>3, <1>5, <1>9, <2>2
  <2> QED
    BY <1>3, <1>4, <1>9, <2>1, <2>3 DEF BuffersFit
<1>10. ASSUME k = n - 1, Offset' = 0 PROVE BuffersFit(Tail(q))'
  <2>1. InPages(Tail(w), Tail(q), 0, n)
    BY <1>3, <1>4, <1>10, NextPage
  <2>2. PICK z \in Seq(Tags) : /\ z = Tail(q) /\ Len(z) = m - 1
                               /\ \A p \in 1 .. Len(z) : z[p] = q[p + 1] /\ p + 1 \in 1 .. Len(q)
                               /\ Len(z) \in Nat
    <3>1. /\ Tail(q) \in Seq(Tags) /\ Len(Tail(q)) = Len(q) - 1
          /\ \A p \in 1 .. Len(Tail(q)) : Tail(q)[p] = q[p + 1] /\ p + 1 \in 1 .. Len(q)
      BY Dequeued
    <3>2. PICK z \in Seq(Tags) : z = Tail(q)
      BY <3>1
    <3>3. Len(z) \in Nat /\ Len(z) = m - 1
      BY <1>6, <3>1, <3>2
    <3>4. \A p \in 1 .. Len(z) : z[p] = q[p + 1] /\ p + 1 \in 1 .. Len(q)
      BY <3>1, <3>2
    <3> QED
      BY <3>2, <3>3, <3>4
  <2>3. /\ n * (m - 1) = n * m - n /\ n * ((m - 1) - 1) = n * (m - 1) - n
        /\ n * m \in Int /\ n * (m - 1) \in Int /\ n * ((m - 1) - 1) \in Int
    BY Multiples
  <2>4. l - 1 = IF c = 0 THEN n * (m - 1) ELSE n * ((m - 1) - 1) + c
    <3>1. PICK x \in Int, y \in Int : x = n * m /\ y = n * (m - 1)
      BY <2>3
    <3>2. y = x - n /\ k + l = IF c = 0 THEN x ELSE y + c
      BY <1>8, <2>3, <3>1
    <3>3. CASE c = 0
      <4>1. l - 1 = y
        BY <1>10, <3>2, <3>3
      <4> QED
        BY <3>1, <3>3, <4>1
    <3>4. CASE c # 0
      <4>1. l - 1 = (y - n) + c
        BY <1>10, <3>2, <3>4
      <4> QED
        BY <2>3, <3>1, <3>4, <4>1
    <3> QED
      BY <3>3, <3>4
  <2>5. Offset' + Len(Data') = IF writeWordCnt' = 0 THEN n * Len(z)
                               ELSE n * (Len(z) - 1) + writeWordCnt'
    <3>1. Offset' + Len(Data') = l - 1
      BY <1>2, <1>5, <1>10
    <3> QED
      BY <1>7, <2>2, <2>4, <3>1
  <2>6. \A p, r \in 1 .. Len(z) : z[p] = z[r] => p = r
    <3> SUFFICES ASSUME NEW p \in 1 .. Len(z), NEW r \in 1 .. Len(z), z[p] = z[r] PROVE p = r
      OBVIOUS
    <3>1. p + 1 = r + 1
      BY <1>3, <2>2
    <3> QED
      BY <3>1
  <2> QED
    BY <1>4, <1>10, <2>1, <2>2, <2>5, <2>6 DEF BuffersFit
<1> QED
  BY <1>9, <1>10

(* A word of the page goes to the encoder; it belongs to the page the bus  *)
(* programs.  With the last word the page leaves the buffers.              *)
LEMMA WordWrites ==
  ASSUME TypeOK, Control, Positions, Owners, WriteFits, DoWriteDataTransferToBus,
         MoreToTransfer
  PROVE  WriteFits'
<1>0. /\ NotEmpty(writePageBufFront) /\ wrState = 1 /\ wrState' = 1
      /\ writePageBufFront' = Tail(writePageBufFront)
      /\ encodeOutQ' = Append(encodeOutQ, Head(writePageBufFront))
      /\ wdataCnt < PageWords /\ wdataCnt' = wdataCnt + 1
      /\ UNCHANGED <<writePageBufBack, writeWordCnt, writeFetchSt, wrDataReqQ, wrDataBufReqQ,
                     wrDataTransReqQ, out, wdataRdy, wdataRdyR,
                     chipQs, chipStages, chipBusy, cmdOutQ, state, cmdR, dataCnt>>
  BY DEF DoWriteDataTransferToBus, MoreToTransfer, fetchVars, reqVars, sbVars, bcVars
<1>1. \A u : (Requested(u)' <=> Requested(u)) /\ (Started(u)' <=> Started(u))
  BY <1>0, StagesStay
<1>2. (Writing' <=> Writing) /\ (Commanded' <=> Commanded)
  BY <1>0 DEF Writing, Commanded
<1>3. /\ PageWords \in Nat /\ PageWords > 1 /\ dataCnt \in Nat /\ Len(encodeOutQ) \in Nat
      /\ wdataCnt \in Nat /\ encodeOutQ \in Seq(Tags) /\ writePageBufFront \in Seq(Tags)
      /\ writePageBufBack \in Seq(Tags)
  BY WriteTypes
<1>4. /\ ToTransfer = PageWords - wdataCnt /\ ToTransfer' = PageWords - (wdataCnt + 1)
      /\ ToTransfer > 0 /\ Offset = wdataCnt
      /\ Offset' = IF wdataCnt + 1 < PageWords THEN wdataCnt + 1 ELSE 0
  BY <1>0, <1>3 DEF ToTransfer, Offset
<1>5. Moving /\ Writing /\ ~Commanded /\ wrDataTransReqQ = <<>>
  <2>1. Moving
    BY <1>4 DEF Moving
  <2> QED
    BY <1>4, <2>1 DEF WriteFits, TransferFits
<1>6. Data' = Tail(Data) /\ NotEmpty(Data)
  BY <1>0, <1>3, OneQueue DEF Data
<1>7. PICK q \in Seq(Tags) : PagesFit(q)
  BY DEF WriteFits
<1>8. /\ Len(q) > 0 /\ NotEmpty(q) /\ q[1] = cmdR.tag /\ Head(writePageBufFront) = cmdR.tag
      /\ cmdR.tag \in Tags
  <2>1. Len(q) > 0 /\ 1 \in 1 .. Len(q) /\ q[1] = Head(writePageBufFront)
    BY <1>0, <1>7, HeadPage DEF PagesFit
  <2>2. q[1] = cmdR.tag
    BY <1>5, <1>7 DEF PagesFit, FrontFits
  <2>3. NotEmpty(q)
    BY <2>1 DEF NotEmpty
  <2> QED
    BY <2>1, <2>2, <2>3
<1>9. AskedFits'
  <2>1. \A u \in Tags : nAsked(u)' = nAsked(u)
    <3>1. \A u \in Tags : CountIn(cmdOutQ', BufReqs(u)) = CountIn(cmdOutQ, BufReqs(u))
      BY <1>0
    <3> QED
      BY <1>0, <3>1, SameAsked
  <2> QED
    BY <1>0, <1>1, <2>1, AskedStays DEF WriteFits
<1>10. SendingFits' /\ FetchFits'
  BY <1>0, <1>1, SendingStays, FetchStays DEF WriteFits
<1>11. TransferFits'
  <2>1. PICK z \in Seq(Tags) : z = encodeOutQ
    BY <1>3
  <2>2. /\ Len(encodeOutQ') = Len(z) + 1
        /\ \A i \in 1 .. Len(z) : encodeOutQ'[i] = z[i]
        /\ \A i \in 1 .. Len(encodeOutQ') : i \in 1 .. Len(z) \/ i = Len(z) + 1
        /\ encodeOutQ'[Len(z) + 1] = cmdR.tag
    BY <1>0, <1>8, <2>1, Enqueued
  <2>3. \A i \in 1 .. Len(encodeOutQ') : encodeOutQ'[i] = cmdR'.tag
    <3>1. \A i \in 1 .. Len(z) : z[i] = cmdR.tag
      BY <2>1 DEF WriteFits, TransferFits
    <3> QED
      BY <1>0, <2>2, <3>1
  <2>4. dataCnt + Len(encodeOutQ) + ToTransfer = PageWords
    BY <1>5 DEF WriteFits, TransferFits
  <2>5. dataCnt' + Len(encodeOutQ') + ToTransfer' = PageWords
    <3>1. PICK d \in Nat, e \in Nat, k \in Nat : d = dataCnt /\ e = Len(encodeOutQ) /\ k = wdataCnt
      BY <1>3
    <3>2. d + e + (PageWords - k) = PageWords
      BY <1>4, <2>4, <3>1
    <3>3. d + (e + 1) + (PageWords - (k + 1)) = PageWords
      BY <1>3, <3>2
    <3>4. dataCnt' = d /\ Len(encodeOutQ') = e + 1 /\ ToTransfer' = PageWords - (k + 1)
      BY <1>0, <1>4, <2>1, <2>2, <3>1
    <3> QED
      BY <3>3, <3>4
  <2>6. state' = "WRITE_PAGE_WAIT" => dataCnt' = 0
    BY <1>0 DEF WriteFits, TransferFits
  <2> QED
    BY <1>0, <1>2, <1>5, <2>3, <2>5, <2>6 DEF TransferFits
<1>12. Announced(wdataRdy)' /\ Announced(wdataRdyR)'
  <2>1. Started(cmdR.tag)
    BY <1>5, WritingHead
  <2> QED
    BY <1>0, <1>1, <1>8, <2>1 DEF WriteFits, Announced
<1>13. /\ Offset' = wdataCnt + 1 => BuffersFit(q)'
       /\ wdataCnt = PageWords - 1 /\ Offset' = 0 => BuffersFit(Tail(q))'
  <2>1. PICK k \in 0 .. PageWords - 1 : k = Offset /\ k = wdataCnt
    BY <1>4, WriteTypes
  <2>2. BuffersFit(q) /\ UNCHANGED writeWordCnt
    BY <1>0, <1>7 DEF PagesFit
  <2>3. /\ Offset' = k + 1 => BuffersFit(q)'
        /\ k = PageWords - 1 /\ Offset' = 0 => BuffersFit(Tail(q))'
    BY <1>3, <1>6, <1>8, <2>1, <2>2, TakeBuffers
  <2> QED
    BY <2>1, <2>3
<1>14. CASE wdataCnt + 1 < PageWords
  <2>1. Moving'
    BY <1>3, <1>4, <1>14 DEF Moving
  <2>2. BuffersFit(q)'
    BY <1>4, <1>13, <1>14
  <2>3. FrontFits(q)'
    <3>1. ~Commanded'
      BY <1>2, <1>5
    <3>2. \A i \in 1 .. Len(cmdOutQ') : cmdOutQ'[i].busOp # "WRITE_CMD_DATA"
      BY <3>1 DEF Commanded
    <3> QED
      BY <1>0, <1>8, <3>2 DEF FrontFits
  <2>4. \A p \in 1 .. Len(q) : PageFits(q, p)'
    BY <1>0, <1>1, <1>7, <2>1, PageStays DEF PagesFit
  <2>5. PagesFit(q)'
    BY <2>2, <2>3, <2>4 DEF PagesFit
  <2> QED
    BY <1>9, <1>10, <1>11, <1>12, <2>5 DEF WriteFits
<1>15. CASE wdataCnt + 1 >= PageWords
  <2>1. wdataCnt = PageWords - 1 /\ Offset' = 0 /\ ToTransfer' = 0
    BY <1>0, <1>3, <1>4, <1>15
  <2>2. ~Moving'
    BY <1>0, <1>5, <2>1 DEF Moving
  <2>3. PICK z \in Seq(Tags) : /\ z = Tail(q) /\ Len(z) = Len(q) - 1 /\ Len(q) \in Nat
                               /\ \A p \in 1 .. Len(z) : z[p] = q[p + 1] /\ p + 1 \in 1 .. Len(q)
    BY <1>8, Dequeued
  <2>4. BuffersFit(z)'
    BY <1>13, <2>1, <2>3
  <2>5. FrontFits(z)'
    <3>1. ~Commanded'
      BY <1>2, <1>5
    <3>2. \A i \in 1 .. Len(cmdOutQ') : cmdOutQ'[i].busOp # "WRITE_CMD_DATA"
      BY <3>1 DEF Commanded
    <3> QED
      BY <2>2, <3>2 DEF FrontFits
  <2>6. ASSUME NEW p \in 1 .. Len(z) PROVE PageFits(z, p)'
    <3>1. /\ p + 1 \in 1 .. Len(q) /\ z[p] = q[p + 1] /\ p + 1 # 1
          /\ p = Len(z) <=> p + 1 = Len(q)
      BY <2>3
    <3>2. PageFits(q, p + 1)
      BY <1>7, <3>1 DEF PagesFit
    <3> QED
      BY <1>0, <1>1, <3>1, <3>2 DEF PageFits
  <2>7. PagesFit(z)'
    BY <2>4, <2>5, <2>6 DEF PagesFit
  <2> QED
    BY <1>9, <1>10, <1>11, <1>12, <2>7 DEF WriteFits
<1> QED
  BY <1>3, <1>14, <1>15

(* The transfer ends.                                                      *)
LEMMA EndWrites ==
  ASSUME TypeOK, Control, Positions, Owners, WriteFits, DoWriteDataTransferToBus,
         ~MoreToTransfer
  PROVE  WriteFits'
<1>0. /\ wrState = 1 /\ wrState' = 0 /\ ~(wdataCnt < PageWords)
      /\ UNCHANGED <<writePageBufBack, writeWordCnt, writeFetchSt, wrDataReqQ, wrDataBufReqQ,
                     wdataCnt, writePageBufFront, encodeOutQ,
                     wrDataTransReqQ, out, wdataRdy, wdataRdyR,
                     chipQs, chipStages, chipBusy, cmdOutQ, state, cmdR, dataCnt>>
  BY DEF DoWriteDataTransferToBus, MoreToTransfer, fetchVars, reqVars, sbVars, bcVars
<1>1. \A u : (Requested(u)' <=> Requested(u)) /\ (Started(u)' <=> Started(u))
  BY <1>0, StagesStay
<1>2. /\ (Writing' <=> Writing) /\ (Commanded' <=> Commanded) /\ Data' = Data
      /\ (Full' <=> Full)
  BY <1>0 DEF Writing, Commanded, Data, Full
<1>3. ToTransfer = 0 /\ ToTransfer' = 0 /\ Offset' = Offset
  <2>0. wdataCnt \in 0 .. PageWords /\ PageWords \in Nat
    BY WriteTypes
  <2>1. wdataCnt = PageWords
    BY <1>0, <2>0
  <2>2. PageWords \in Nat /\ PageWords - PageWords = 0 /\ ~(PageWords < PageWords)
    BY <2>0
  <2>3. ToTransfer = 0 /\ ToTransfer' = 0
    BY <1>0, <2>1, <2>2 DEF ToTransfer
  <2>4. Offset = 0 /\ Offset' = 0
    BY <1>0, <2>1, <2>2 DEF Offset
  <2> QED
    BY <2>3, <2>4
<1>4. Moving' <=> Moving
  BY <1>0, <1>3 DEF Moving
<1>5. AskedFits'
  <2>1. \A u \in Tags : nAsked(u)' = nAsked(u)
    <3>1. \A u \in Tags : CountIn(cmdOutQ', BufReqs(u)) = CountIn(cmdOutQ, BufReqs(u))
      BY <1>0
    <3> QED
      BY <1>0, <3>1, SameAsked
  <2> QED
    BY <1>0, <1>1, <2>1, AskedStays DEF WriteFits
<1>6. SendingFits' /\ FetchFits'
  BY <1>0, <1>1, SendingStays, FetchStays DEF WriteFits
<1>7. TransferFits'
  <2>1. Writing' => dataCnt' + Len(encodeOutQ') + ToTransfer'
                      = IF wrDataTransReqQ' = <<>> THEN PageWords ELSE 0
    BY <1>0, <1>2, <1>3 DEF WriteFits, TransferFits
  <2> QED
    BY <1>0, <1>2, <1>3, <1>4, <2>1 DEF WriteFits, TransferFits
<1>8. Announced(wdataRdy)' /\ Announced(wdataRdyR)'
  BY <1>0, <1>1, AnnouncedStays DEF WriteFits
<1>9. PICK q \in Seq(Tags) : PagesFit(q)
  BY DEF WriteFits
<1>10. BuffersFit(q)'
  BY <1>0, <1>2, <1>3, <1>9 DEF PagesFit, BuffersFit, InPages
<1>11. FrontFits(q)'
  BY <1>0, <1>4, <1>9, FrontStays DEF PagesFit
<1>12. \A p \in 1 .. Len(q) : PageFits(q, p)'
  BY <1>0, <1>1, <1>2, <1>4, <1>9, PageStays DEF PagesFit
<1>13. PagesFit(q)'
  BY <1>10, <1>11, <1>12 DEF PagesFit
<1> QED
  BY <1>5, <1>6, <1>7, <1>8, <1>13 DEF WriteFits

-----------------------------------------------------------------------------
(* Together.                                                               *)

(* The answers to the user: a tag that is answered was done.               *)
LEMMA EndOfTagWrites ==
  ASSUME TypeOK, Control, Positions, Owners, WriteFits, DoReadDataCollect \/ DoAckStatus
  PROVE  WriteFits'
<1>1. CASE DoReadDataCollect
  <2>1. PICK t \in Tags : t = Head(readTagQ) /\ Done(t)
    <3>1. NotEmpty(readTagQ) /\ 1 \in 1 .. Len(readTagQ)
      BY <1>1, OwnerTypes DEF DoReadDataCollect, NotEmpty
    <3> QED
      BY <3>1, OwnerTypes, Dequeued DEF Owners, PagesOwed
  <2>2. PICK x : out' = [out EXCEPT ![t] = x] /\ x.phase # "sending"
    <3>1. PICK left : /\ left = out[t].left - 1
                      /\ out' = [out EXCEPT ![t] = IF left <= 0 THEN Unused
                                                   ELSE [out[t] EXCEPT !.left = left]]
      BY <1>1, <2>1 DEF DoReadDataCollect
    <3>2. Unused.phase # "sending" /\ [out[t] EXCEPT !.left = left].phase # "sending"
      BY <2>1, OwnerTypes DEF Unused, Done, OutValues
    <3> QED
      BY <3>1, <3>2
  <2>3. \A u \in Tags : out'[u] # out[u] => u = t /\ out'[u].phase # "sending"
    BY <2>2, OwnerTypes
  <2>4. ~Owed(t)
    BY <2>1 DEF Owed, Done
  <2>5. UNCHANGED <<fetchVars, xferVars, reqVars, encodeOutQ, writePageBufFront,
                    chipQs, chipStages, chipBusy, cmdOutQ, wdataRdy, wdataRdyR,
                    state, dataCnt, cmdR>>
    BY <1>1 DEF DoReadDataCollect, sbVars, bcVars, rest
  <2> QED
    BY <2>3, <2>4, <2>5, TagWrites
<1>2. CASE DoAckStatus
  <2>1. PICK t \in Tags : t = Head(ackQ).tag /\ Done(t)
    <3>1. NotEmpty(ackQ) /\ 1 \in 1 .. Len(ackQ) /\ Head(ackQ) = ackQ[1]
      BY <1>2, OwnerTypes, Dequeued DEF DoAckStatus, NotEmpty
    <3> QED
      BY <3>1, OwnerTypes DEF Owners, AcksOwed
  <2>2. out' = [out EXCEPT ![t] = Unused] /\ Unused.phase # "sending"
    BY <1>2, <2>1 DEF DoAckStatus, Unused
  <2>3. \A u \in Tags : out'[u] # out[u] => u = t /\ out'[u].phase # "sending"
    BY <2>2, OwnerTypes
  <2>4. ~Owed(t)
    BY <2>1 DEF Owed, Done
  <2>5. UNCHANGED <<fetchVars, xferVars, reqVars, encodeOutQ, writePageBufFront,
                    chipQs, chipStages, chipBusy, cmdOutQ, wdataRdy, wdataRdyR,
                    state, dataCnt, cmdR>>
    BY <1>2 DEF DoAckStatus, sbVars, bcVars, rest
  <2> QED
    BY <2>3, <2>4, <2>5, TagWrites
<1> QED
  BY <1>1, <1>2

(* A command is accepted under a free tag, and a chip finishes what it has *)
(* begun: neither tag has a page on its way.                               *)
LEMMA OutsideWrites ==
  ASSUME TypeOK, Control, Positions, Owners, WriteFits,
         (\E cmd \in UserCmds : DoIdleAcceptCmd(cmd)) \/ (\E c \in Chips : ChipDone(c))
  PROVE  WriteFits'
<1>1. ASSUME NEW cmd \in UserCmds, DoIdleAcceptCmd(cmd) PROVE WriteFits'
  <2>1. PICK t \in Tags : t = cmd.tag
    BY FlashBusAssumption DEF FlashCmds
  <2>2. PICK x : out' = [out EXCEPT ![t] = x] /\ x.phase # "sending"
    <3>1. PICK x : /\ x = [op |-> cmd.op, phase |-> "accepted",
                           left |-> IF cmd.op = "ERASE_BLOCK" THEN 0 ELSE PageWords]
                   /\ out' = [out EXCEPT ![cmd.tag] = x]
      BY <1>1 DEF DoIdleAcceptCmd
    <3>2. x.phase = "accepted"
      BY <3>1
    <3> QED
      BY <2>1, <3>1, <3>2
  <2>3. \A u \in Tags : out'[u] # out[u] => u = t /\ out'[u].phase # "sending"
    BY <2>2, OwnerTypes
  <2>4. ~Owed(t)
    BY <1>1, <2>1 DEF DoIdleAcceptCmd, Owed, Unused
  <2>5. UNCHANGED <<fetchVars, xferVars, reqVars, encodeOutQ, writePageBufFront,
                    chipQs, chipStages, chipBusy, cmdOutQ, wdataRdy, wdataRdyR,
                    state, dataCnt, cmdR>>
    BY <1>1 DEF DoIdleAcceptCmd, sbVars, bcVars, rest
  <2> QED
    BY <2>3, <2>4, <2>5, TagWrites
<1>2. ASSUME NEW c \in Chips, ChipDone(c) PROVE WriteFits'
  <2>1. Begun(c)
    BY <1>2 DEF ChipDone, Control, ChipControl, ChipFits
  <2>2. PICK t \in Tags : t = chip[c].tag
    BY <2>1 DEF Owners, BegunFits
  <2>3. ~NotBegun(t)
    BY <2>1, <2>2 DEF NotBegun
  <2>4. out' = [out EXCEPT ![t].phase = "done"]
    BY <1>2, <2>2 DEF ChipDone
  <2>5. \A u \in Tags : out'[u] # out[u] => u = t /\ out'[u].phase # "sending"
    BY <2>4, OwnerTypes DEF OutValues
  <2>6. UNCHANGED <<fetchVars, xferVars, reqVars, encodeOutQ, writePageBufFront,
                    chipQs, chipStages, chipBusy, cmdOutQ, wdataRdy, wdataRdyR,
                    state, dataCnt, cmdR>>
    BY <1>2 DEF ChipDone, sbVars, bcVars, rest
  <2> QED
    BY <2>3, <2>5, <2>6, TagWrites
<1> QED
  BY <1>1, <1>2

(* Every step keeps what is said of the write path.                        *)
LEMMA WritesKept ==
  ASSUME TypeOK, Control, Positions, Owners, WriteFits, [Next]_vars
  PROVE  WriteFits'
<1>1. ASSUME UNCHANGED <<fetchVars, xferVars, reqVars, encodeOutQ, writePageBufFront, out,
                         chipQs, chipStages, chipBusy, wdataRdy, wdataRdyR, cmdOutQ>>,
             Writing' <=> Writing, Writing => UNCHANGED <<dataCnt, cmdR>>,
             state' = "WRITE_PAGE_WAIT" => state = "WRITE_PAGE_WAIT"
      PROVE  WriteFits'
  BY <1>1, MachineWrites
<1>2. ASSUME UNCHANGED <<fetchVars, xferVars, reqVars, encodeOutQ, writePageBufFront, out,
                         chipQs, chipStages, chipBusy, wdataRdy, wdataRdyR, cmdOutQ, state,
                         dataCnt, cmdR>>
      PROVE  WriteFits'
  BY <1>1, <1>2 DEF Writing
<1>3. CASE ScoreboardRule
  <2>1. CASE ChooseChip
    BY <1>2, <2>1 DEF ChooseChip, Scoreboards, DoChooseChip, bcVars, rest
  <2>2. CASE \E c \in Chips : BusyTimer(c)
    BY <1>2, <2>2 DEF BusyTimer, Scoreboards, DecBusyTimer, bcVars, rest
  <2> QED
    BY <1>3, <2>1, <2>2, ServiceWrites DEF ScoreboardRule
<1>4. CASE BusRule
  <2>1. CASE SendPhyCmds
    BY <1>1, <2>1 DEF SendPhyCmds, sbVars, rest, Writing
  <2>2. CASE DoReadPageWait
    BY <1>1, <2>2 DEF DoReadPageWait, GoTo, sbVars, rest, Writing
  <2>3. CASE DoReadDataWaitBuf
    BY <1>1, <2>3 DEF DoReadDataWaitBuf, GoTo, sbVars, rest, Writing
  <2>4. CASE DoReadDataDDR
    <3>1. state = "READ_DATA" /\ state' \in {"READ_DATA", "READ_ERROR"}
      BY <2>4 DEF DoReadDataDDR
    <3>2. UNCHANGED <<fetchVars, xferVars, reqVars, encodeOutQ, writePageBufFront, out,
                      chipQs, chipStages, chipBusy, wdataRdy, wdataRdyR, cmdOutQ>>
      BY <2>4 DEF DoReadDataDDR, sbVars, rest
    <3> QED
      BY <1>1, <3>1, <3>2 DEF Writing
  <2>5. CASE DoReadDataDone
    BY <1>1, <2>5 DEF DoReadDataDone, GoTo, sbVars, rest, Writing
  <2>6. CASE DoWriteDataWait
    BY <1>1, <2>6 DEF DoWriteDataWait, GoTo, sbVars, rest, Writing
  <2> QED
    BY <1>4, <2>1, <2>2, <2>3, <2>4, <2>5, <2>6, DecodeWrites, BurstWrites, StartWrites,
       StatusWrites, Zenon DEF BusRule
<1>5. CASE DataRule
  <2>1. CASE DoDecoderDataBuf
    BY <1>2, <2>1 DEF DoDecoderDataBuf, sbVars, bcVars, rest
  <2> QED
    BY <1>5, <2>1, EndOfTagWrites, PassWrites, FetchEnds, MoveWrites, AnnounceWrites,
       BeginWrites, WordWrites, EndWrites, Zenon DEF DataRule
<1>6. CASE Environment
  BY <1>6, OutsideWrites, AnswerWrites, SendWrites, Zenon DEF Environment
<1>7. CASE UNCHANGED vars
  BY <1>2, <1>7 DEF vars, sbVars, bcVars, rest
<1> QED
  BY <1>3, <1>4, <1>5, <1>6, <1>7, QueueWrites, Zenon DEF Next

-----------------------------------------------------------------------------
(* The theorems.                                                           *)

OrderInv == Inv /\ Positions /\ Owners /\ WriteFits

(* At the start nothing is pending, owed or on its way.                    *)
LEMMA OrderInitHolds ==
  ASSUME Init
  PROVE  OrderInv
<1>1. Inv
  BY InitHolds
<1>2. /\ pending = [c \in Chips |-> <<>>] /\ flashCmdQ = <<>> /\ chipQs = [c \in Chips |-> <<>>]
      /\ chipStages = [c \in Chips |-> "INIT"] /\ chipBusy = [c \in Chips |-> <<>>]
      /\ out = [t \in Tags |-> Unused] /\ readTagQ = <<>> /\ ackQ = <<>> /\ cmdOutQ = <<>>
      /\ state = "IDLE" /\ encodeOutQ = <<>> /\ wrDataBufReqQ = <<>> /\ wrDataReqQ = <<>>
      /\ wrDataTransReqQ = <<>> /\ writePageBufBack = <<>> /\ writePageBufFront = <<>>
      /\ writeWordCnt = 0 /\ writeFetchSt = 0 /\ wrState = 0 /\ wdataCnt = 0
      /\ wdataRdy = NotReady /\ wdataRdyR = NotReady
  BY DEF Init, SbInit
<1>3. \A c \in Chips : ~Begun(c) /\ ~Finished(c)
  BY <1>2 DEF Begun, Finished, Issued, Polled
<1>4. Positions
  <2>1. pending \in [Chips -> Seq(PendingCmds)]
    BY <1>2
  <2>2. ASSUME NEW c \in Chips
        PROVE  InPlace(pending[c], chipQs[c], Gone(c), flashCmdQ, c)
    <3>1. Gone(c) = 0 /\ CountIn(flashCmdQ, Ours(c)) = 0
      BY <1>2, <1>3, CountEmpty DEF Gone
    <3> QED
      BY <1>2, <3>1 DEF InPlace
  <2> QED
    BY <2>1, <2>2 DEF Positions
<1>5. Owners
  <2>1. \A t \in Tags : out[t] = Unused /\ out[t].phase = "free"
    BY <1>2 DEF Unused
  <2>2. OutFits /\ PendingOwed /\ PendingOnce /\ PendingApart
    BY <1>2, <2>1 DEF OutFits, PendingOwed, PendingOnce, PendingApart
  <2>3. BegunFits /\ BegunOnce
    BY <1>3 DEF BegunFits, BegunOnce
  <2>4. ReadOutFits
    BY <1>2 DEF ReadOutFits, ReadOut, DataStates
  <2>5. PagesOwed /\ PagesOnce /\ AcksOwed /\ AcksOnce
    BY <1>2 DEF PagesOwed, PagesOnce, AcksOwed, AcksOnce
  <2> QED
    BY <2>2, <2>3, <2>4, <2>5 DEF Owners
<1>6. WriteFits
  <2>1. PageWords \in Nat /\ PageWords > 1
    BY FlashBusAssumption
  <2>2. AskedFits
    <3>1. \A u \in Tags : nAsked(u) = 0
      BY <1>2, CountEmpty DEF nAsked
    <3> QED
      BY <3>1 DEF AskedFits
  <2>3. SendingFits /\ FetchFits
    <3>1. \A t \in Tags : out[t].phase = "free"
      BY <1>2 DEF Unused
    <3> QED
      BY <1>2, <3>1 DEF SendingFits, FetchFits, NoFetch, Fetching
  <2>4. ~Commanded /\ ~Moving /\ ~Writing /\ Offset = 0
    BY <1>2 DEF Commanded, Moving, ToTransfer, Writing, Offset
  <2>5. TransferFits
    BY <1>2, <2>4 DEF TransferFits
  <2>6. Announced(wdataRdy) /\ Announced(wdataRdyR)
    BY <1>2 DEF Announced, NotReady
  <2>7. PagesFit(<<>>)
    <3>1. Data = <<>> /\ Len(Data) = 0 /\ Len(<<>>) = 0
      BY <1>2 DEF Data
    <3>2. PageWords * 0 = 0
      BY <2>1
    <3>3. BuffersFit(<<>>)
      BY <1>2, <2>4, <3>1, <3>2 DEF BuffersFit, InPages
    <3> QED
      BY <1>2, <2>4, <3>1, <3>3 DEF PagesFit, FrontFits
  <2>8. <<>> \in Seq(Tags)
    OBVIOUS
  <2> QED
    BY <2>2, <2>3, <2>5, <2>6, <2>7, <2>8 DEF WriteFits
<1> QED
  BY <1>1, <1>4, <1>5, <1>6 DEF OrderInv

(* In every state what the chips have not begun stands, in the order of    *)
(* the user, in the queues of their commands; a tag stands for one command *)
(* at a time; and the buffers of the write path hold the pages of commands *)
(* that wait for their data, the first of them the one the bus programs.   *)
THEOREM OrderInvariance == Spec => []OrderInv
<1>1. ASSUME OrderInv, [Next]_vars PROVE OrderInv'
  <2>1. TypeOK /\ Control /\ ReadsFit /\ Positions /\ Owners /\ WriteFits /\ AskedFits
    BY <1>1 DEF OrderInv, Inv, WriteFits
  <2>2. Inv'
    BY <1>1, <2>1, TypesKept, ControlKept, ReadsKept DEF Inv
  <2>3. Positions'
    BY <1>1, <2>1, PositionsKept
  <2>4. Owners'
    BY <1>1, <2>1, OwnersKept
  <2>5. WriteFits'
    BY <1>1, <2>1, WritesKept
  <2> QED
    BY <2>2, <2>3, <2>4, <2>5 DEF OrderInv
<1> QED
  BY <1>1, OrderInitHolds, PTL DEF Spec

(* The bus programs the page of the command: what is in the encoder and    *)
(* what is still to come from the front buffer was sent for its tag.       *)
THEOREM PageOfCommand == Spec => []WriteDataMatchesCommand
<1>1. ASSUME OrderInv PROVE WriteDataMatchesCommand
  <2>1. TypeOK /\ WriteFits /\ TransferFits
    BY <1>1 DEF OrderInv, Inv, WriteFits
  <2>2. ASSUME wrState = 1, NEW i \in 1 .. Len(writePageBufFront), i <= PageWords - wdataCnt
        PROVE  writePageBufFront[i] = cmdR.tag
    <3>1. /\ PageWords \in Nat /\ PageWords > 1 /\ wdataCnt \in Nat
          /\ Len(writePageBufFront) \in Nat /\ Len(writePageBufBack) \in Nat
          /\ writePageBufFront \in Seq(Tags) /\ writePageBufBack \in Seq(Tags)
          /\ Len(Data) = Len(writePageBufFront) + Len(writePageBufBack)
      BY <2>1, WriteTypes
    <3>2. PICK n \in Nat, d \in Nat, k \in Nat : n = PageWords /\ d = wdataCnt /\ k = i
      BY <3>1
    <3>3. k >= 1 /\ d + k <= n /\ d < n
      BY <2>2, <3>2
    <3>4. ToTransfer > 0 /\ Offset = d
      <4>1. ToTransfer = n - d /\ Offset = d
        BY <2>2, <3>2, <3>3 DEF ToTransfer, Offset
      <4> QED
        BY <3>3, <4>1
    <3>5. PICK q \in Seq(Tags) : PagesFit(q)
      BY <2>1 DEF WriteFits
    <3>6. Len(q) > 0 /\ q[1] = cmdR.tag
      BY <3>4, <3>5 DEF PagesFit, FrontFits, Moving
    <3>7. i \in 1 .. Len(Data) /\ Data[i] = writePageBufFront[i]
      <4>1. i \in 1 .. Len(Data)
        BY <3>1
      <4>2. Data[i] = writePageBufFront[i]
        BY <3>1, ConcatProperties DEF Data
      <4> QED
        BY <4>1, <4>2
    <3>8. n * (1 - 1) <= d + k - 1 /\ d + k - 1 < n * 1
      <4>1. n * (1 - 1) = 0 /\ n * 1 = n
        BY <3>2
      <4> QED
        BY <3>3, <4>1
    <3>9. 1 \in 1 .. Len(q)
      BY <3>6
    <3>10. Data[i] = q[1]
      BY <3>2, <3>4, <3>5, <3>7, <3>8, <3>9 DEF PagesFit, BuffersFit, InPages
    <3> QED
      BY <3>6, <3>7, <3>10
  <2> QED
    BY <2>1, <2>2 DEF WriteDataMatchesCommand, TransferFits
<1> QED
  BY <1>1, OrderInvariance, PTL

-----------------------------------------------------------------------------
(* The order of the commands.                                              *)

(* What a tag is to ChipOrderSpec.                                         *)
Class(t) == IF out[t].phase \in {"accepted", "sending"} THEN "owed" ELSE out[t].phase
AbsOwed  == [t \in Tags |-> IF out[t].phase \in {"accepted", "sending"} THEN "owed"
                            ELSE out[t].phase]

(* The step of ChipOrderSpec a step of the bus is.                         *)
OrderStep == [Order!Next]_<<pending, chip, AbsOwed>>

(* A tag that changes, changes its entry of the abstract state.            *)
LEMMA OwedSet ==
  ASSUME NEW t \in Tags, NEW v, \A u \in Tags : u # t => out'[u] = out[u], Class(t)' = v
  PROVE  AbsOwed' = [AbsOwed EXCEPT ![t] = v]
  BY DEF AbsOwed, Class

(* Steps that do not concern the chips and the phase of any tag.           *)
LEMMA Stutters ==
  ASSUME UNCHANGED <<pending, chip>>, \A u \in Tags : Class(u)' = Class(u)
  PROVE  OrderStep
<1>1. AbsOwed' = AbsOwed
  BY DEF AbsOwed, Class
<1> QED
  BY <1>1 DEF OrderStep

(* A command is accepted.                                                  *)
LEMMA AcceptsInOrder ==
  ASSUME OrderInv, NEW cmd \in UserCmds, DoIdleAcceptCmd(cmd)
  PROVE  OrderStep
<1>1. PICK t \in Tags, op \in FlashOps, c \in Chips : t = cmd.tag /\ op = cmd.op /\ c = cmd.chip
  BY FlashBusAssumption DEF FlashCmds
<1>2. PICK x : /\ x.phase = "accepted"
               /\ out' = [out EXCEPT ![t] = x]
  <2>1. PICK x : /\ x = [op |-> cmd.op, phase |-> "accepted",
                         left |-> IF cmd.op = "ERASE_BLOCK" THEN 0 ELSE PageWords]
                 /\ out' = [out EXCEPT ![cmd.tag] = x]
    BY DEF DoIdleAcceptCmd
  <2>2. x.phase = "accepted"
    BY <2>1
  <2> QED
    BY <1>1, <2>1, <2>2
<1>3. /\ pending' = [pending EXCEPT ![c] = Append(pending[c], [tag |-> t, op |-> op])]
      /\ chip' = chip
  BY <1>1 DEF DoIdleAcceptCmd
<1>4. out[t].phase = "free"
  BY <1>1 DEF DoIdleAcceptCmd, Unused
<1>5. /\ \A u \in Tags : u # t => out'[u] = out[u]
      /\ out'[t].phase = "accepted"
  BY <1>2, OwnerTypes DEF OrderInv, Inv
<1>6. AbsOwed' = [AbsOwed EXCEPT ![t] = "owed"]
  BY <1>5, OwedSet DEF Class
<1>7. AbsOwed[t] = "free"
  BY <1>4 DEF AbsOwed
<1>8. Order!Accept(t, op, c)
  BY <1>3, <1>6, <1>7 DEF Order!Accept, AbsOwed
<1> QED
  BY <1>8 DEF OrderStep, Order!Next

(* A chip begins what comes first for it.                                  *)
LEMMA BeginsInOrder ==
  ASSUME OrderInv, Starting
  PROVE  OrderStep
<1>1. PICK c \in Chips :
        /\ c = cmdR.chip /\ chip[c].st = "ready"
        /\ pending[c] # <<>> /\ Head(pending[c]).tag = cmdR.tag
        /\ Head(pending[c]).op = OpOfState[state]
  BY StartPlaces DEF OrderInv, Inv
<1>2. /\ chip' = [chip EXCEPT ![c] = [st |-> "busy", op |-> Head(pending[c]).op,
                                      tag |-> Head(pending[c]).tag]]
      /\ pending' = [pending EXCEPT ![c] = Tail(pending[c])]
      /\ out' = out
  BY <1>1 DEF Starting, StartChip
<1>3. AbsOwed' = AbsOwed
  BY <1>2 DEF AbsOwed
<1>4. Order!Begin(c)
  BY <1>1, <1>2, <1>3 DEF Order!Begin, AbsOwed
<1> QED
  BY <1>4 DEF OrderStep, Order!Next

(* A chip finishes.                                                        *)
LEMMA FinishesInOrder ==
  ASSUME OrderInv, NEW c \in Chips, ChipDone(c)
  PROVE  OrderStep
<1>1. chip[c].st = "busy" /\ Begun(c)
  BY DEF ChipDone, OrderInv, Inv, Control, ChipControl, ChipFits
<1>2. PICK t \in Tags : t = chip[c].tag
  BY <1>1 DEF OrderInv, Owners, BegunFits
<1>3. /\ chip' = [chip EXCEPT ![c].st = "ready"] /\ out' = [out EXCEPT ![t].phase = "done"]
      /\ pending' = pending
  BY <1>2 DEF ChipDone
<1>4. /\ \A u \in Tags : u # t => out'[u] = out[u]
      /\ out'[t].phase = "done"
  BY <1>3, OwnerTypes DEF OrderInv, Inv, OutValues
<1>5. AbsOwed' = [AbsOwed EXCEPT ![chip[c].tag] = "done"]
  BY <1>2, <1>4, OwedSet DEF Class
<1>6. Order!Finish(c)
  BY <1>1, <1>3, <1>5 DEF Order!Finish, AbsOwed
<1> QED
  BY <1>6 DEF OrderStep, Order!Next

(* A tag that is done is answered.                                         *)
LEMMA Answers ==
  ASSUME OrderInv, NEW t \in Tags, Done(t), UNCHANGED <<pending, chip>>,
         out' = [out EXCEPT ![t] = Unused]
  PROVE  OrderStep
<1>1. /\ \A u \in Tags : u # t => out'[u] = out[u]
      /\ out'[t].phase = "free"
  BY OwnerTypes DEF OrderInv, Inv, Unused
<1>2. AbsOwed' = [AbsOwed EXCEPT ![t] = "free"]
  BY <1>1, OwedSet DEF Class
<1>3. AbsOwed[t] = "done"
  BY DEF AbsOwed, Done
<1>4. Order!Answer(t)
  BY <1>2, <1>3 DEF Order!Answer, AbsOwed
<1> QED
  BY <1>4 DEF OrderStep, Order!Next

(* A read is answered with the last word of its page, the others with a    *)
(* status.                                                                 *)
LEMMA AnswersInOrder ==
  ASSUME OrderInv, DoReadDataCollect \/ DoAckStatus
  PROVE  OrderStep
<1>1. CASE DoReadDataCollect
  <2>1. PICK t \in Tags : t = Head(readTagQ) /\ Done(t)
    <3>1. NotEmpty(readTagQ) /\ 1 \in 1 .. Len(readTagQ)
      BY <1>1, OwnerTypes DEF OrderInv, Inv, DoReadDataCollect, NotEmpty
    <3> QED
      BY <3>1, OwnerTypes, Dequeued DEF OrderInv, Inv, Owners, PagesOwed
  <2>2. PICK left : /\ left = out[t].left - 1
                    /\ out' = [out EXCEPT ![t] = IF left <= 0 THEN Unused
                                                 ELSE [out[t] EXCEPT !.left = left]]
    BY <1>1, <2>1 DEF DoReadDataCollect
  <2>3. UNCHANGED <<pending, chip>>
    BY <1>1 DEF DoReadDataCollect
  <2>4. CASE left <= 0
    <3>1. out' = [out EXCEPT ![t] = Unused]
      BY <2>2, <2>4
    <3> QED
      BY <2>1, <2>3, <3>1, Answers
  <2>5. CASE ~(left <= 0)
    <3>1. out' = [out EXCEPT ![t] = [out[t] EXCEPT !.left = left]]
      BY <2>2, <2>5
    <3>2. \A u \in Tags : out'[u].phase = out[u].phase
      BY <3>1, OwnerTypes DEF OrderInv, Inv, OutValues
    <3> QED
      BY <2>3, <3>2, Stutters DEF Class
  <2> QED
    BY <2>4, <2>5
<1>2. CASE DoAckStatus
  <2>1. PICK t \in Tags : t = Head(ackQ).tag /\ Done(t)
    <3>1. NotEmpty(ackQ) /\ 1 \in 1 .. Len(ackQ) /\ Head(ackQ) = ackQ[1]
      BY <1>2, OwnerTypes, Dequeued DEF OrderInv, Inv, DoAckStatus, NotEmpty
    <3> QED
      BY <3>1, OwnerTypes DEF OrderInv, Inv, Owners, AcksOwed
  <2>2. out' = [out EXCEPT ![t] = Unused] /\ UNCHANGED <<pending, chip>>
    BY <1>2, <2>1 DEF DoAckStatus
  <2> QED
    BY <2>1, <2>2, Answers
<1> QED
  BY <1>1, <1>2

(* The user sends a page: the command stays owed.                          *)
LEMMA SendsInOrder ==
  ASSUME OrderInv, WriteDataReq \/ \E t \in Tags : WriteWord(t)
  PROVE  OrderStep
<1>1. CASE WriteDataReq
  <2>1. PICK t \in Tags : t = Head(wrDataReqQ) /\ out[t].phase = "accepted"
    BY <1>1, AskedTag DEF OrderInv, Inv, WriteFits, WriteDataReq
  <2>2. out' = [out EXCEPT ![t].phase = "sending"] /\ UNCHANGED <<pending, chip>>
    BY <1>1, <2>1 DEF WriteDataReq
  <2>3. /\ \A u \in Tags : u # t => out'[u] = out[u]
        /\ out'[t].phase = "sending"
    BY <2>2, OwnerTypes DEF OrderInv, Inv, OutValues
  <2>4. \A u \in Tags : Class(u)' = Class(u)
    BY <2>1, <2>3 DEF Class
  <2> QED
    BY <2>2, <2>4, Stutters
<1>2. ASSUME NEW t \in Tags, WriteWord(t) PROVE OrderStep
  <2>1. out' = [out EXCEPT ![t].left = out[t].left - 1] /\ UNCHANGED <<pending, chip>>
    BY <1>2 DEF WriteWord
  <2>2. \A u \in Tags : out'[u].phase = out[u].phase
    BY <2>1, OwnerTypes DEF OrderInv, Inv, OutValues
  <2> QED
    BY <2>1, <2>2, Stutters DEF Class
<1> QED
  BY <1>1, <1>2

(* The chips of a bus do their commands in the order in which the user     *)
(* gave them, and no command is answered before its chip has done it.      *)
THEOREM KeepsOrder == Spec => ImplementsOrder
<1>1. Init => Order!Init
  <2> SUFFICES ASSUME Init PROVE Order!Init
    OBVIOUS
  <2>1. AbsOwed = [t \in Tags |-> "free"]
    BY DEF Init, AbsOwed, Unused
  <2>2. /\ pending = [c \in Chips |-> <<>>]
        /\ chip = [c \in Chips |-> [st |-> "ready", op |-> "NONE", tag |-> NoTag]]
    BY DEF Init, Idle
  <2> QED
    BY <2>1, <2>2 DEF Order!Init, AbsOwed
<1>2. ASSUME OrderInv, [Next]_vars PROVE OrderStep
  <2>1. ASSUME UNCHANGED <<pending, chip, out>> PROVE OrderStep
    BY <2>1, Stutters DEF Class
  <2>2. CASE ServiceReq
    BY <2>1, <2>2 DEF ServiceReq, Scoreboards
  <2>3. CASE DoSBCmd
    BY <2>1, <2>3 DEF DoSBCmd
  <2>4. CASE \E failed \in BOOLEAN : DoGetStatusData(failed)
    BY <2>1, <2>4 DEF DoGetStatusData
  <2>5. CASE ChooseChip \/ \E c \in Chips : BusyTimer(c)
    BY <2>1, <2>5 DEF ChooseChip, BusyTimer, Scoreboards
  <2>6. CASE MachineRule
    BY <2>1, <2>6 DEF MachineRule, DoDecodeCmd, SendPhyCmds, DoReadPageWait, GoTo,
       DoReadDataWaitBuf, DoReadDataDDR, DoReadDataDone, DoWriteDataWait, DoWritePageDataDDR
  <2>7. CASE DataRule
    <3>1. CASE DoReadDataCollect \/ DoAckStatus
      BY <1>2, <3>1, AnswersInOrder
    <3>2. CASE ~(DoReadDataCollect \/ DoAckStatus)
      <4>1. UNCHANGED <<pending, chip, out>>
        BY <2>7, <3>2 DEF DataRule, DoDecoderDataBuf, DoHandleWriteDataReqFromBus,
           DoWriteFetchWait, DoWriteBufTransfer, SetWriteDataRdy, DoWriteDataTransferReq,
           DoWriteDataTransferToBus
      <4> QED
        BY <2>1, <4>1
    <3> QED
      BY <3>1, <3>2
  <2>8. CASE UNCHANGED vars
    BY <2>1, <2>8 DEF vars
  <2>9. CASE Elsewhere
    BY <1>2, <2>5, <2>6, <2>7, <2>8, <2>9, SendsInOrder, FinishesInOrder, Zenon DEF Elsewhere
  <2> QED
    BY <1>2, <2>2, <2>3, <2>4, <2>9, StepCases, AcceptsInOrder, BeginsInOrder, Zenon
<1>3. OrderInv /\ [Next]_vars => OrderStep
  BY <1>2
<1> QED
  BY <1>1, <1>3, OrderInvariance, PTL DEF Spec, ImplementsOrder, Order!Spec, OrderStep, AbsOwed
=============================================================================
