----------------------------- MODULE Scoreboard -----------------------------
(***************************************************************************)
(* The scoreboard of one flash bus (flash_ctrl/hw_artix/Scoreboard.bsv).   *)
(* It keeps a queue of commands per chip, visits the chips round robin and *)
(* breaks the command at the head of a queue into commands for the bus:    *)
(* start the operation, wait about as long as it takes, ask for the        *)
(* status, and again if the chip is still busy.  The three busy times and  *)
(* the three times between polls are one constant, BusyTime.               *)
(***************************************************************************)
EXTENDS BsvFifo

CONSTANTS
  Tags,       (* 128 in the code                                           *)
  NumChips,   (* ChipsPerBus, 8 in the code                                *)
  BusyTime,   (* t_R, t_PROG, t_BERS and the PollWaits: 500 .. 50000 cycles *)
  NoTag       (* the tag of wdataRdyTag while wdataRdy is false            *)

ASSUME ScoreboardAssumption ==
  /\ NumChips \in Nat \ {0} /\ BusyTime \in Nat \ {0} /\ NoTag \notin Tags

VARIABLES
  chipQs,      (* chipQs[c]: commands waiting for chip c, the head in work *)
  chipBusy,    (* chipBusy[c]: the answers to the polls of chip c          *)
  busyTimers, chipStages,
  cmdOutQ,     (* commands for the bus controller                          *)
  currChip,
  sbState,     (* state                                                    *)
  wdataRdy     (* wdataRdy and wdataRdyTag                                 *)

sbVars == <<chipQs, chipBusy, busyTimers, chipStages, cmdOutQ, currChip, sbState, wdataRdy>>

Chips       == 0 .. NumChips - 1
ChipQDepth  == 8
FlashOps    == {"READ_PAGE", "WRITE_PAGE", "ERASE_BLOCK"}
BusOps      == {"READ_CMD", "GET_STATUS_READ_DATA", "WRITE_DATA_BUF_REQ", "WRITE_CMD_DATA",
                "WRITE_GET_STATUS", "ERASE_CMD", "ERASE_GET_STATUS"}
FlashCmds   == [tag : Tags, op : FlashOps, chip : Chips]
BusCmds     == [tag : Tags, chip : Chips, busOp : BusOps]
Stages      == {"INIT", "RD_ISSUED", "RD_DATA", "WR_BUF_REQ_ISSUED", "WR_ISSUED",
                "ER_ISSUED", "WAIT_STATUS"}
NotReady    == [rdy |-> FALSE, tag |-> NoTag]

(* A mutant: the round leaves out the last chip.                           *)
NextChipShort(c) == (c + 1) % (NumChips - 1)

NextChip(c) == (c + 1) % NumChips

SbInit ==
  /\ chipQs = [c \in Chips |-> <<>>]
  /\ chipBusy = [c \in Chips |-> <<>>]
  /\ busyTimers = [c \in Chips |-> 0]
  /\ chipStages = [c \in Chips |-> "INIT"]
  /\ cmdOutQ = <<>>
  /\ currChip = 0
  /\ sbState = "NEXT_REQ"
  /\ wdataRdy = NotReady

DoChooseChip ==
  /\ sbState = "NEXT_REQ"
  /\ IF NotEmpty(chipQs[currChip]) /\ busyTimers[currChip] = 0
     THEN sbState' = "SERVICE_REQ" /\ UNCHANGED currChip
     ELSE currChip' = NextChip(currChip) /\ UNCHANGED sbState
  /\ UNCHANGED <<chipQs, chipBusy, busyTimers, chipStages, cmdOutQ, wdataRdy>>

(* A step of the head command of chip c that goes to the bus as busOp.     *)
Issue(c, op, from, busOp, to, timer) ==
  LET req == Head(chipQs[c]) IN
  /\ req.op = op /\ chipStages[c] = from
  /\ NotFull(cmdOutQ, MkFIFO)
  /\ cmdOutQ' = Append(cmdOutQ, [tag |-> req.tag, chip |-> req.chip, busOp |-> busOp])
  /\ chipStages' = [chipStages EXCEPT ![c] = to]
  /\ busyTimers' = [busyTimers EXCEPT ![c] = timer]
  /\ UNCHANGED <<chipQs, chipBusy>>

TakeAnswer(c) == chipBusy' = [chipBusy EXCEPT ![c] = Tail(@)]

(* A mutant: a chip that is still busy is taken to have finished.          *)
StillBusyNever(c) == FALSE

StillBusy(c) == Head(chipBusy[c])

(* The answer to the poll: poll again later, or the command is finished.   *)
TakeStatus(c, op, from, poll) ==
  /\ Head(chipQs[c]).op = op /\ chipStages[c] = from
  /\ NotEmpty(chipBusy[c])
  /\ TakeAnswer(c)
  /\ IF StillBusy(c)
     THEN /\ chipStages' = [chipStages EXCEPT ![c] = poll]
          /\ busyTimers' = [busyTimers EXCEPT ![c] = BusyTime]
          /\ UNCHANGED chipQs
     ELSE /\ chipStages' = [chipStages EXCEPT ![c] = "INIT"]
          /\ chipQs' = [chipQs EXCEPT ![c] = Tail(@)]
          /\ UNCHANGED busyTimers
  /\ UNCHANGED cmdOutQ

(* A mutant: the tag of the page that is ready is not compared.            *)
WriteDataReadyAnyTag(c) == wdataRdy.rdy

WriteDataReady(c) == wdataRdy.rdy /\ wdataRdy.tag = Head(chipQs[c]).tag

AwaitWriteData(c) ==
  /\ Head(chipQs[c]).op = "WRITE_PAGE" /\ chipStages[c] = "WR_BUF_REQ_ISSUED"
  /\ ~WriteDataReady(c)
  /\ UNCHANGED <<chipQs, chipBusy, busyTimers, chipStages, cmdOutQ>>

DoServiceReq ==
  LET c == currChip
      t == busyTimers[c] IN
  /\ sbState = "SERVICE_REQ" /\ NotEmpty(chipQs[c])
  /\ \/ Issue(c, "READ_PAGE", "INIT", "READ_CMD", "RD_ISSUED", BusyTime)
     \/ Issue(c, "READ_PAGE", "RD_ISSUED", "GET_STATUS_READ_DATA", "RD_DATA", t)
     \/ TakeStatus(c, "READ_PAGE", "RD_DATA", "RD_ISSUED")
     \/ Issue(c, "WRITE_PAGE", "INIT", "WRITE_DATA_BUF_REQ", "WR_BUF_REQ_ISSUED", 0)
     \/ /\ WriteDataReady(c)
        /\ Issue(c, "WRITE_PAGE", "WR_BUF_REQ_ISSUED", "WRITE_CMD_DATA", "WR_ISSUED", BusyTime)
     \/ AwaitWriteData(c)
     \/ Issue(c, "WRITE_PAGE", "WR_ISSUED", "WRITE_GET_STATUS", "WAIT_STATUS", t)
     \/ TakeStatus(c, "WRITE_PAGE", "WAIT_STATUS", "WR_ISSUED")
     \/ Issue(c, "ERASE_BLOCK", "INIT", "ERASE_CMD", "ER_ISSUED", BusyTime)
     \/ Issue(c, "ERASE_BLOCK", "ER_ISSUED", "ERASE_GET_STATUS", "WAIT_STATUS", t)
     \/ TakeStatus(c, "ERASE_BLOCK", "WAIT_STATUS", "ER_ISSUED")
  /\ sbState' = "NEXT_REQ"
  /\ currChip' = NextChip(c)
  /\ UNCHANGED wdataRdy

DecBusyTimer(c) ==
  /\ busyTimers[c] > 0
  /\ busyTimers' = [busyTimers EXCEPT ![c] = @ - 1]
  /\ UNCHANGED <<chipQs, chipBusy, chipStages, cmdOutQ, currChip, sbState, wdataRdy>>

(* The methods, for the steps of the bus controller that call them.        *)

CmdInPut(cmd) ==
  /\ NotFull(chipQs[cmd.chip], ChipQDepth)
  /\ chipQs' = [chipQs EXCEPT ![cmd.chip] = Append(@, cmd)]
  /\ UNCHANGED <<chipBusy, busyTimers, chipStages, cmdOutQ, currChip, sbState, wdataRdy>>

CmdOutGet ==
  /\ NotEmpty(cmdOutQ)
  /\ cmdOutQ' = Tail(cmdOutQ)
  /\ UNCHANGED <<chipQs, chipBusy, busyTimers, chipStages, currChip, sbState, wdataRdy>>

BusyInPut(c, st) ==
  /\ NotFull(chipBusy[c], MkFIFO)
  /\ chipBusy' = [chipBusy EXCEPT ![c] = Append(@, st)]
  /\ UNCHANGED <<chipQs, busyTimers, chipStages, cmdOutQ, currChip, sbState, wdataRdy>>

SetWdataRdy(r) ==
  /\ wdataRdy' = r
  /\ UNCHANGED <<chipQs, chipBusy, busyTimers, chipStages, cmdOutQ, currChip, sbState>>

SbTypeOK ==
  /\ chipQs \in [Chips -> Seq(FlashCmds)]
  /\ chipBusy \in [Chips -> Seq(BOOLEAN)]
  /\ busyTimers \in [Chips -> 0 .. BusyTime]
  /\ chipStages \in [Chips -> Stages]
  /\ cmdOutQ \in Seq(BusCmds)
  /\ currChip \in Chips
  /\ sbState \in {"NEXT_REQ", "SERVICE_REQ"}
  /\ wdataRdy \in [rdy : {TRUE}, tag : Tags] \union {NotReady}
=============================================================================
