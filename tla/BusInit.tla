------------------------------ MODULE BusInit -------------------------------
(***************************************************************************)
(* The start of the flash controller: the rules doInit and doInitWait of   *)
(* FlashController.bsv bring up one bus after the other, three times over  *)
(* (reset the chips, switch them to synchronous mode, calibrate), and the  *)
(* state machines of the bus controllers carry each command out.           *)
(*                                                                         *)
(* A sequence of phy commands counts as one; phyBusy says that the phy is  *)
(* still carrying out what it was sent.  A chip is an environment.         *)
(***************************************************************************)
EXTENDS BsvFifo, FiniteSets

CONSTANTS
  NumBuses, NumChips,   (* 8 and 8                                         *)
  MaxUserCmds           (* bound: user commands waiting for one scoreboard *)

ASSUME BusInitAssumption ==
  /\ NumBuses \in Nat \ {0} /\ NumChips \in Nat \ {0} /\ MaxUserCmds \in Nat

VARIABLES
  ctrlState, busInd, initCmd,             (* FlashController.bsv           *)
  state, rdyReturnState, chipR, cmdCnt,   (* per bus, BusController.bsv    *)
  flashCmdQ, inSyncMode,
  sbQ,                                    (* what reached the scoreboard   *)
  phyBusy,
  chip                                    (* chip[b][c]: the chip's mode   *)

ctrlVars == <<ctrlState, busInd, initCmd>>
vars == <<ctrlVars, state, rdyReturnState, chipR, cmdCnt, flashCmdQ, inSyncMode, sbQ,
          phyBusy, chip>>

Buses == 0 .. NumBuses - 1
Chips == 0 .. NumChips - 1
FlashCmdQDepth == 4

Init ==
  /\ ctrlState = "INIT" /\ busInd = 0 /\ initCmd = "INIT_BUS"
  /\ state = [b \in Buses |-> "UNINIT"]
  /\ rdyReturnState = [b \in Buses |-> "IDLE"]
  /\ chipR = [b \in Buses |-> 0] /\ cmdCnt = [b \in Buses |-> 0]
  /\ flashCmdQ = [b \in Buses |-> <<>>] /\ sbQ = [b \in Buses |-> <<>>]
  /\ inSyncMode = [b \in Buses |-> FALSE] /\ phyBusy = [b \in Buses |-> FALSE]
  /\ chip = [b \in Buses |-> [c \in Chips |-> "off"]]

-----------------------------------------------------------------------------
(* The flash controller.                                                   *)

SendCmd(b, op) ==
  /\ NotFull(flashCmdQ[b], FlashCmdQDepth)
  /\ flashCmdQ' = [flashCmdQ EXCEPT ![b] = Append(@, op)]

(* A mutant: a command that the bus has not taken yet is overlooked.       *)
IsInitIdleEarly(b) == state[b] \in {"UNINIT", "IDLE"} /\ ~phyBusy[b]

IsInitIdle(b) == state[b] \in {"UNINIT", "IDLE"} /\ flashCmdQ[b] = <<>> /\ ~phyBusy[b]

DoInit ==
  /\ ctrlState = "INIT"
  /\ SendCmd(busInd, initCmd)
  /\ ctrlState' = "INIT_WAIT"
  /\ UNCHANGED <<busInd, initCmd, state, rdyReturnState, chipR, cmdCnt, inSyncMode, sbQ,
                 phyBusy, chip>>

NextPass == [INIT_BUS |-> "EN_SYNC", EN_SYNC |-> "INIT_SYNC"]

DoInitWait ==
  /\ ctrlState = "INIT_WAIT" /\ IsInitIdle(busInd)
  /\ IF busInd < NumBuses - 1
     THEN busInd' = busInd + 1 /\ ctrlState' = "INIT" /\ UNCHANGED initCmd
     ELSE /\ busInd' = 0
          /\ IF initCmd = "INIT_SYNC" THEN ctrlState' = "ACCEPT_CMD" /\ UNCHANGED initCmd
             ELSE ctrlState' = "INIT" /\ initCmd' = NextPass[initCmd]
  /\ UNCHANGED <<state, rdyReturnState, chipR, cmdCnt, flashCmdQ, inSyncMode, sbQ,
                 phyBusy, chip>>

DoIdleAcceptCmd(b) ==
  /\ ctrlState = "ACCEPT_CMD"
  /\ Len(sbQ[b]) + Len(flashCmdQ[b]) < MaxUserCmds
  /\ SendCmd(b, "USER")
  /\ UNCHANGED <<ctrlVars, state, rdyReturnState, chipR, cmdCnt, inSyncMode, sbQ,
                 phyBusy, chip>>

-----------------------------------------------------------------------------
(* The bus controller.                                                     *)

Go(b, s) == state' = [state EXCEPT ![b] = s]

Others == UNCHANGED <<ctrlVars, flashCmdQ, sbQ>>

DoUninitialized(b) ==
  /\ state[b] = "UNINIT" /\ NotEmpty(flashCmdQ[b])
  /\ flashCmdQ' = [flashCmdQ EXCEPT ![b] = Tail(@)]
  /\ cmdCnt' = [cmdCnt EXCEPT ![b] = 0]
  /\ chipR' = [chipR EXCEPT ![b] = 0]
  /\ Go(b, CASE Head(flashCmdQ[b]) = "INIT_BUS"  -> "INIT"
             [] Head(flashCmdQ[b]) = "EN_SYNC"   -> "EN_SYNC"
             [] Head(flashCmdQ[b]) = "INIT_SYNC" -> "INIT_EN_NANDCLK"
             [] OTHER -> "UNINIT")
  /\ UNCHANGED <<ctrlVars, rdyReturnState, inSyncMode, sbQ, phyBusy, chip>>

DoSBCmd(b) ==
  /\ state[b] # "UNINIT" /\ NotEmpty(flashCmdQ[b])
  /\ flashCmdQ' = [flashCmdQ EXCEPT ![b] = Tail(@)]
  /\ sbQ' = [sbQ EXCEPT ![b] = Append(@, Head(flashCmdQ[b]))]
  /\ UNCHANGED <<ctrlVars, state, rdyReturnState, chipR, cmdCnt, inSyncMode, phyBusy, chip>>

(* doInitCmd, doReadStatusCmd, doInitActSync, doInitCalib and the rules    *)
(* that send their addresses and data.                                     *)
SendPhyCmds(b) ==
  /\ state[b] \in {"INIT", "POLL_STATUS_POLL", "EN_SYNC", "INIT_CALIB"}
  /\ cmdCnt[b] = 0
  /\ cmdCnt' = [cmdCnt EXCEPT ![b] = 1]
  /\ phyBusy' = [phyBusy EXCEPT ![b] = TRUE]
  /\ UNCHANGED <<state, rdyReturnState, chipR, inSyncMode, chip>> /\ Others

(* The chip is reset when the phy gets to the command, at the latest       *)
(* before the status that is asked for next.                               *)
DoInitWaitChip(b) ==
  /\ state[b] = "INIT" /\ cmdCnt[b] = 1
  /\ Go(b, "POLL_STATUS")
  /\ rdyReturnState' = [rdyReturnState EXCEPT ![b] = "INIT_INC"]
  /\ chip' = [chip EXCEPT ![b][chipR[b]] = "resetting"]
  /\ UNCHANGED <<chipR, cmdCnt, inSyncMode, phyBusy>> /\ Others

DoStatusCntReset(b) ==
  /\ state[b] = "POLL_STATUS"
  /\ Go(b, "POLL_STATUS_POLL")
  /\ cmdCnt' = [cmdCnt EXCEPT ![b] = 0]
  /\ UNCHANGED <<rdyReturnState, chipR, inSyncMode, phyBusy, chip>> /\ Others

DoReadStatusGet(b) ==
  /\ state[b] = "POLL_STATUS_POLL" /\ cmdCnt[b] = 1 /\ ~phyBusy[b]
  /\ cmdCnt' = [cmdCnt EXCEPT ![b] = 0]
  /\ Go(b, IF rdyReturnState[b] = "INIT_CALIB" \/ chip[b][chipR[b]] # "resetting"
           THEN rdyReturnState[b] ELSE "WAIT_CYCLES")
  /\ UNCHANGED <<rdyReturnState, chipR, inSyncMode, phyBusy, chip>> /\ Others

DoWaitCycles(b) ==
  /\ state[b] = "WAIT_CYCLES"
  /\ Go(b, "POLL_STATUS_POLL")
  /\ UNCHANGED <<rdyReturnState, chipR, cmdCnt, inSyncMode, phyBusy, chip>> /\ Others

(* A mutant: the count of the chips is not advanced.                       *)
NextChipSame(c) == c

NextChip(c) == c + 1

MoreChips(c) == c < NumChips - 1

DoInitInc(b) ==
  /\ state[b] = "INIT_INC"
  /\ IF MoreChips(chipR[b])
     THEN chipR' = [chipR EXCEPT ![b] = NextChip(@)] /\ Go(b, "INIT")
     ELSE chipR' = [chipR EXCEPT ![b] = 0] /\ Go(b, "UNINIT")
  /\ UNCHANGED <<rdyReturnState, cmdCnt, inSyncMode, phyBusy, chip>> /\ Others

DoSyncInitDone(b) ==
  /\ state[b] = "EN_SYNC" /\ cmdCnt[b] = 1
  /\ chip' = [chip EXCEPT ![b][chipR[b]] = "sync"]
  /\ IF chipR[b] < NumChips - 1
     THEN /\ chipR' = [chipR EXCEPT ![b] = @ + 1]
          /\ cmdCnt' = [cmdCnt EXCEPT ![b] = 0]
          /\ UNCHANGED state
     ELSE Go(b, "UNINIT") /\ UNCHANGED <<chipR, cmdCnt>>
  /\ UNCHANGED <<rdyReturnState, inSyncMode, phyBusy>> /\ Others

DoEnNandClk(b) ==
  /\ state[b] = "INIT_EN_NANDCLK"
  /\ Go(b, "POLL_STATUS")
  /\ rdyReturnState' = [rdyReturnState EXCEPT ![b] = "INIT_CALIB"]
  /\ cmdCnt' = [cmdCnt EXCEPT ![b] = 0]
  /\ inSyncMode' = [inSyncMode EXCEPT ![b] = TRUE]
  /\ phyBusy' = [phyBusy EXCEPT ![b] = TRUE]
  /\ UNCHANGED <<chipR, chip>> /\ Others

DoInitCalibDone(b) ==
  /\ state[b] = "INIT_CALIB" /\ cmdCnt[b] = 1
  /\ Go(b, "IDLE")
  /\ UNCHANGED <<rdyReturnState, chipR, cmdCnt, inSyncMode, phyBusy, chip>> /\ Others

(* The environment: the phy and the chips.                                 *)
PhyDone(b) ==
  /\ phyBusy[b]
  /\ phyBusy' = [phyBusy EXCEPT ![b] = FALSE]
  /\ UNCHANGED <<state, rdyReturnState, chipR, cmdCnt, inSyncMode, chip>> /\ Others

ResetDone(b, c) ==
  /\ chip[b][c] = "resetting"
  /\ chip' = [chip EXCEPT ![b][c] = "async"]
  /\ UNCHANGED <<state, rdyReturnState, chipR, cmdCnt, inSyncMode, phyBusy>> /\ Others

(* The scoreboard serves reads, writes and erases; anything else stays at  *)
(* the head of its queue.                                                  *)
ServeCmd(b) ==
  /\ NotEmpty(sbQ[b]) /\ Head(sbQ[b]) = "USER"
  /\ sbQ' = [sbQ EXCEPT ![b] = Tail(@)]
  /\ UNCHANGED <<ctrlVars, state, rdyReturnState, chipR, cmdCnt, flashCmdQ, inSyncMode,
                 phyBusy, chip>>

Bus(b) ==
  \/ DoUninitialized(b) \/ SendPhyCmds(b) \/ DoInitWaitChip(b) \/ DoStatusCntReset(b)
  \/ DoReadStatusGet(b) \/ DoWaitCycles(b) \/ DoInitInc(b) \/ DoSyncInitDone(b)
  \/ DoEnNandClk(b) \/ DoInitCalibDone(b)

Next ==
  \/ DoInit \/ DoInitWait
  \/ \E b \in Buses : \/ DoIdleAcceptCmd(b) \/ DoSBCmd(b) \/ ServeCmd(b) \/ Bus(b) \/ PhyDone(b)
                      \/ \E c \in Chips : ResetDone(b, c)

Spec == Init /\ [][Next]_vars

(* The rules fire when they can, and the phy and the chips get ready.      *)
FairSpec ==
  /\ Spec /\ WF_vars(DoInit) /\ WF_vars(DoInitWait)
  /\ \A b \in Buses :
       /\ WF_vars(Bus(b)) /\ WF_vars(DoSBCmd(b)) /\ WF_vars(PhyDone(b))
       /\ \A c \in Chips : WF_vars(ResetDone(b, c))

-----------------------------------------------------------------------------
(* The buses share the WEN and NCLK pins, so each step of the start must   *)
(* be done on one bus at a time (FlashController.bsv:165).                 *)
OneBusAtATime ==
  ctrlState # "ACCEPT_CMD" =>
    Cardinality({b \in Buses : ~IsInitIdle(b)} \union {b \in Buses : phyBusy[b]}) <= 1

(* A command of the start never reaches a scoreboard, which could not      *)
(* serve it and would keep it at the head of a chip's queue for ever.      *)
ScoreboardGetsUserCmds ==
  \A b \in Buses : \A i \in 1 .. Len(sbQ[b]) : sbQ[b][i] = "USER"

(* A chip is talked to in the mode it is in: the bus and its chips are     *)
(* synchronous together, a chip is switched only after its reset, and when *)
(* the controller takes commands every bus is calibrated.                  *)
ModesAgree ==
  /\ \A b \in Buses :
       /\ inSyncMode[b] => \A c \in Chips : chip[b][c] = "sync"
       /\ state[b] = "EN_SYNC" => chip[b][chipR[b]] = "async"
  /\ ctrlState = "ACCEPT_CMD" => \A b \in Buses : state[b] = "IDLE" /\ inSyncMode[b]

(* The start drives no pins from two buses and no chip in the wrong mode,  *)
(* and leaves nothing behind in the queues of the commands of users.       *)
StartIsOrderly == OneBusAtATime /\ ModesAgree /\ ScoreboardGetsUserCmds

(* The controller comes up and takes commands.                             *)
Starts == <>(ctrlState = "ACCEPT_CMD")
=============================================================================
