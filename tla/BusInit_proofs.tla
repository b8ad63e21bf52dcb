--------------------------- MODULE BusInit_proofs ---------------------------
(***************************************************************************)
(* Proofs about the start of the flash controller, for every number of     *)
(* buses and of chips: doInit and doInitWait bring up one bus at a time,   *)
(* no chip is talked to in the wrong mode, and no command of the start     *)
(* gets behind the commands of users.                                      *)
(***************************************************************************)
EXTENDS BusInit, FiniteSetTheorems, TLAPS

CtrlStates == {"INIT", "INIT_WAIT", "ACCEPT_CMD"}
Passes     == {"INIT_BUS", "EN_SYNC", "INIT_SYNC"}
BusStates  == {"UNINIT", "IDLE", "INIT", "POLL_STATUS", "POLL_STATUS_POLL", "WAIT_CYCLES",
               "INIT_INC", "EN_SYNC", "INIT_EN_NANDCLK", "INIT_CALIB"}
Modes      == {"off", "resetting", "async", "sync"}

TypeOK ==
  /\ ctrlState \in CtrlStates /\ busInd \in Buses /\ initCmd \in Passes
  /\ state \in [Buses -> BusStates]
  /\ rdyReturnState \in [Buses -> {"IDLE", "INIT_INC", "INIT_CALIB"}]
  /\ chipR \in [Buses -> Chips] /\ cmdCnt \in [Buses -> {0, 1}]
  /\ flashCmdQ \in [Buses -> Seq(Passes \union {"USER"})]
  /\ sbQ \in [Buses -> Seq(Passes \union {"USER"})]
  /\ inSyncMode \in [Buses -> BOOLEAN] /\ phyBusy \in [Buses -> BOOLEAN]
  /\ chip \in [Buses -> [Chips -> Modes]]

-----------------------------------------------------------------------------
(* Where a bus is in a pass of the start.                                  *)

AllChips(b, mode) == \A c \in Chips : chip[b][c] = mode

Quiet(b) == flashCmdQ[b] = <<>> /\ ~phyBusy[b]

ModeBefore(pass) ==
  CASE pass = "INIT_BUS" -> "off" [] pass = "EN_SYNC" -> "async" [] OTHER -> "sync"

(* The bus waits for the pass.                                             *)
Ready(b, pass) == state[b] = "UNINIT" /\ ~inSyncMode[b] /\ AllChips(b, ModeBefore(pass))

Calibrated(b) == state[b] = "IDLE" /\ inSyncMode[b] /\ AllChips(b, "sync")

(* The bus is through with the pass.                                       *)
Finished(b, pass) ==
  /\ pass = "INIT_BUS"  => Ready(b, "EN_SYNC")
  /\ pass = "EN_SYNC"   => Ready(b, "INIT_SYNC")
  /\ pass = "INIT_SYNC" => Calibrated(b)

(* The chips before chipR are done, those after it have not been touched.  *)
SplitAt(b, done, todo) ==
  \A c \in Chips : /\ c < chipR[b] => chip[b][c] = done
                   /\ c > chipR[b] => chip[b][c] = todo

Polling(b) == state[b] \in {"POLL_STATUS", "POLL_STATUS_POLL", "WAIT_CYCLES"}

Resetting(b) ==
  /\ ~inSyncMode[b] /\ SplitAt(b, "async", "off")
  /\ \/ state[b] = "INIT" /\ chip[b][chipR[b]] = "off"
     \/ /\ Polling(b) /\ rdyReturnState[b] = "INIT_INC"
        /\ chip[b][chipR[b]] \in {"resetting", "async"}
     \/ state[b] = "INIT_INC" /\ chip[b][chipR[b]] = "async"

Switching(b) ==
  /\ ~inSyncMode[b] /\ SplitAt(b, "sync", "async")
  /\ state[b] = "EN_SYNC" /\ chip[b][chipR[b]] = "async"

Calibrating(b) ==
  /\ AllChips(b, "sync")
  /\ \/ state[b] = "INIT_EN_NANDCLK" /\ ~inSyncMode[b]
     \/ Polling(b) /\ rdyReturnState[b] = "INIT_CALIB" /\ inSyncMode[b]
     \/ state[b] = "INIT_CALIB" /\ inSyncMode[b]

(* The bus is carrying the pass out.                                       *)
Running(b, pass) ==
  /\ pass = "INIT_BUS"  => Resetting(b)
  /\ pass = "EN_SYNC"   => Switching(b)
  /\ pass = "INIT_SYNC" => Calibrating(b)

(* The bus whose turn it is: the command waits for it, or it is at work or *)
(* done.                                                                   *)
Turn(b) ==
  \/ flashCmdQ[b] = <<initCmd>> /\ ~phyBusy[b] /\ Ready(b, initCmd)
  \/ flashCmdQ[b] = <<>> /\ (Running(b, initCmd) \/ Finished(b, initCmd))

(* The buses before busInd are through with the pass, those after it wait  *)
(* for it, and only the bus at busInd is at work.                          *)
Starting(b) ==
  /\ b < busInd => Quiet(b) /\ Finished(b, initCmd)
  /\ b > busInd => Quiet(b) /\ Ready(b, initCmd)
  /\ b = busInd => IF ctrlState = "INIT" THEN Quiet(b) /\ Ready(b, initCmd) ELSE Turn(b)

UserCmdsOnly(q) == \A i \in 1 .. Len(q) : q[i] = "USER"

Started(b) == ~phyBusy[b] /\ Calibrated(b) /\ UserCmdsOnly(flashCmdQ[b])

(* The inductive invariant: what StartIsOrderly says of each state of a    *)
(* bus follows from the pass the controller is in and from the place of    *)
(* the bus in it.                                                          *)
IInv ==
  /\ TypeOK
  /\ \A b \in Buses : UserCmdsOnly(sbQ[b])
  /\ \A b \in Buses : IF ctrlState = "ACCEPT_CMD" THEN Started(b) ELSE Starting(b)

-----------------------------------------------------------------------------
(* After reset nothing is started and nothing is in flight.                *)
LEMMA InitIInv == Init => IInv
<1> SUFFICES ASSUME Init PROVE IInv
  OBVIOUS
<1> USE BusInitAssumption DEF Init
<1>1. 0 \in Buses /\ 0 \in Chips
  BY DEF Buses, Chips
<1>2. TypeOK
  BY <1>1 DEF TypeOK, CtrlStates, Passes, BusStates, Modes
<1>3. \A b \in Buses : Quiet(b) /\ Ready(b, "INIT_BUS")
  BY DEF Quiet, Ready, ModeBefore, AllChips
<1>4. \A b \in Buses : b < 0 => FALSE
  BY DEF Buses
<1> QED
  BY <1>2, <1>3, <1>4 DEF IInv, Starting, UserCmdsOnly

(* The part of the state that belongs to one bus stays as it is.           *)
Keeps(b) ==
  /\ state'[b] = state[b] /\ rdyReturnState'[b] = rdyReturnState[b] /\ chipR'[b] = chipR[b]
  /\ flashCmdQ'[b] = flashCmdQ[b] /\ inSyncMode'[b] = inSyncMode[b]
  /\ phyBusy'[b] = phyBusy[b] /\ chip'[b] = chip[b]

(* The invariant of a bus depends on nothing else.                         *)
LEMMA KeptBus ==
  ASSUME NEW b \in Buses, Keeps(b), UNCHANGED ctrlVars
  PROVE  (Starting(b) => Starting(b)') /\ (Started(b) => Started(b)')
<1> USE DEF Keeps, ctrlVars
<1>1. Quiet(b) => Quiet(b)'
  BY DEF Quiet
<1>2. Ready(b, initCmd) => Ready(b, initCmd)'
  BY DEF Ready, AllChips
<1>3. Calibrated(b) => Calibrated(b)'
  BY DEF Calibrated, AllChips
<1>4. Finished(b, initCmd) => Finished(b, initCmd)'
  BY <1>3 DEF Finished, Ready, AllChips
<1>5. Running(b, initCmd) => Running(b, initCmd)'
  <2>1. Resetting(b) => Resetting(b)'
    BY DEF Resetting, SplitAt, Polling
  <2>2. Switching(b) => Switching(b)'
    BY DEF Switching, SplitAt
  <2>3. Calibrating(b) => Calibrating(b)'
    BY DEF Calibrating, AllChips, Polling
  <2> QED
    BY <2>1, <2>2, <2>3 DEF Running
<1>6. Turn(b) => Turn(b)'
  BY <1>2, <1>4, <1>5 DEF Turn
<1>7. Starting(b) => Starting(b)'
  BY <1>1, <1>2, <1>4, <1>6 DEF Starting
<1>8. Started(b) => Started(b)'
  BY <1>3 DEF Started, UserCmdsOnly
<1> QED
  BY <1>7, <1>8

(* The phy and the count of the commands sent to it play no part in it.    *)
LEMMA KeptWork ==
  ASSUME NEW b \in Buses, UNCHANGED ctrlVars,
         state'[b] = state[b], rdyReturnState'[b] = rdyReturnState[b], chipR'[b] = chipR[b],
         inSyncMode'[b] = inSyncMode[b], chip'[b] = chip[b]
  PROVE  /\ Running(b, initCmd) => Running(b, initCmd)'
         /\ Finished(b, initCmd) => Finished(b, initCmd)'
<1> USE DEF ctrlVars
<1>1. Resetting(b) => Resetting(b)'
  BY DEF Resetting, SplitAt, Polling
<1>2. Switching(b) => Switching(b)'
  BY DEF Switching, SplitAt
<1>3. Calibrating(b) => Calibrating(b)'
  BY DEF Calibrating, AllChips, Polling
<1>4. Finished(b, initCmd) => Finished(b, initCmd)'
  BY DEF Finished, Ready, Calibrated, AllChips
<1> QED
  BY <1>1, <1>2, <1>3, <1>4 DEF Running

(* A step of the bus whose turn it is keeps the invariant when the bus is  *)
(* in its turn again and no other bus is touched.                          *)
LEMMA StepOfTheTurn ==
  ASSUME IInv, NEW b \in Buses, b = busInd, ctrlState = "INIT_WAIT", UNCHANGED <<ctrlVars, sbQ>>,
         TypeOK', Turn(b)', \A o \in Buses \ {b} : Keeps(o)
  PROVE  IInv'
<1>1. ASSUME NEW o \in Buses \ {b} PROVE Starting(o)'
  BY KeptBus DEF IInv
<1>2. Starting(b)'
  BY DEF Starting, ctrlVars, Buses
<1> QED
  BY <1>1, <1>2 DEF IInv, UserCmdsOnly, ctrlVars

(* A bus that is not at rest is the one whose turn it is.                  *)
LEMMA BusAtWork ==
  ASSUME IInv, NEW b \in Buses, state[b] \notin {"UNINIT", "IDLE"}
  PROVE  b = busInd /\ ctrlState = "INIT_WAIT" /\ flashCmdQ[b] = <<>> /\ Running(b, initCmd)
<1>1. \A pass \in Passes : ~Ready(b, pass) /\ ~Finished(b, pass)
  BY DEF Ready, Finished, Calibrated, Passes
<1>2. ctrlState # "ACCEPT_CMD" /\ Starting(b) /\ initCmd \in Passes
  BY DEF IInv, TypeOK, Started, Calibrated
<1>3. b = busInd
  BY <1>1, <1>2 DEF Starting, IInv, TypeOK, Buses
<1> QED
  BY <1>1, <1>2, <1>3 DEF Starting, Turn, IInv, TypeOK, CtrlStates
(* A chip is being reset only while its bus waits for it in the first pass.*)
LEMMA ResettingChip ==
  ASSUME TypeOK, NEW b \in Buses, NEW c \in Chips, NEW pass \in Passes,
         chip[b][c] = "resetting", Running(b, pass)
  PROVE  pass = "INIT_BUS" /\ Resetting(b) /\ c = chipR[b] /\ Polling(b)
<1>1. chipR[b] \in Int /\ c \in Int
  BY BusInitAssumption DEF TypeOK, Chips
<1>2. pass # "INIT_SYNC"
  BY DEF Running, Calibrating, AllChips
<1>3. ASSUME NEW done \in {"async", "sync"}, NEW todo \in {"off", "async"}, SplitAt(b, done, todo)
      PROVE  c = chipR[b]
  BY <1>1, <1>3 DEF SplitAt
<1>4. pass # "EN_SYNC"
  <2> SUFFICES ASSUME Switching(b) PROVE FALSE
    BY DEF Running
  <2> QED
    BY <1>3 DEF Switching
<1>5. pass = "INIT_BUS" /\ Resetting(b)
  BY <1>2, <1>4 DEF Running, Passes
<1> QED
  BY <1>3, <1>5 DEF Resetting

(* Every step keeps the inductive invariant.                               *)
LEMMA StepIInv == IInv /\ [Next]_vars => IInv'
<1> SUFFICES ASSUME IInv, [Next]_vars PROVE IInv'
  OBVIOUS
<1> USE BusInitAssumption
<1>0. TypeOK /\ \A b \in Buses : UserCmdsOnly(sbQ[b])
  BY DEF IInv
<1>1. CASE DoInit
  <2> USE DEF DoInit, SendCmd
  <2>1. \A b \in Buses : Starting(b)
    BY <1>1 DEF IInv
  <2>2. TypeOK'
    BY <1>0, <1>1 DEF TypeOK, CtrlStates
  <2>3. Turn(busInd)'
    <3>1. Starting(busInd) /\ busInd \in Buses
      BY <1>0, <2>1 DEF TypeOK
    <3>2. Quiet(busInd) /\ Ready(busInd, initCmd) /\ initCmd \in Passes
      BY <1>0, <1>1, <3>1 DEF Starting, TypeOK
    <3>3. flashCmdQ'[busInd] = <<initCmd>>
      BY <1>0, <1>1, <3>1, <3>2 DEF Quiet, TypeOK
    <3> QED
      BY <1>1, <3>2, <3>3 DEF Turn, Quiet, Ready, AllChips
  <2>4. ASSUME NEW b \in Buses PROVE Starting(b)'
    <3>1. CASE b = busInd
      BY <1>1, <2>3, <3>1 DEF Starting, Buses
    <3>2. CASE b # busInd
      <4>1. Starting(b) /\ flashCmdQ'[b] = flashCmdQ[b]
        BY <1>0, <1>1, <2>1, <3>2 DEF TypeOK
      <4> QED
        BY <1>1, <3>2, <4>1 DEF Starting, Quiet, Finished, Ready, Calibrated, AllChips
    <3> QED
      BY <3>1, <3>2
  <2> QED
    BY <1>0, <1>1, <2>2, <2>4 DEF IInv, UserCmdsOnly
<1>2. CASE DoInitWait
  <2> USE DEF DoInitWait, IsInitIdle
  <2>1. TypeOK'
    <3>1. ctrlState' \in CtrlStates /\ initCmd' \in Passes
      BY <1>0, <1>2 DEF TypeOK, CtrlStates, NextPass, Passes
    <3>2. busInd' \in Buses
      <4>1. busInd' = 0 \/ (busInd < NumBuses - 1 /\ busInd' = busInd + 1)
        BY <1>2
      <4> QED
        BY <1>0, <4>1 DEF TypeOK, Buses
    <3> QED
      BY <1>0, <1>2, <3>1, <3>2 DEF TypeOK
  <2>2. busInd \in Buses /\ initCmd \in Passes /\ (\A b \in Buses : Starting(b))
    BY <1>0, <1>2 DEF IInv, TypeOK
  <2>3. Quiet(busInd) /\ Finished(busInd, initCmd)
    BY <1>2, <2>2 DEF Starting, Turn, Running, Resetting, Switching, Calibrating, Polling,
                      Quiet, Passes, Buses
  <2>4. ASSUME NEW b \in Buses
        PROVE  /\ Quiet(b)' = Quiet(b) /\ flashCmdQ'[b] = flashCmdQ[b]
               /\ \A pass : /\ Ready(b, pass) => Ready(b, pass)'
                            /\ Finished(b, pass) => Finished(b, pass)'
               /\ Calibrated(b) => Calibrated(b)'
    BY <1>2 DEF Quiet, Ready, Finished, Calibrated, AllChips
  <2>5. \A b \in Buses : UserCmdsOnly(sbQ[b])'
    BY <1>0, <1>2 DEF UserCmdsOnly
  <2>6. CASE busInd < NumBuses - 1
    <3>1. ASSUME NEW b \in Buses PROVE Starting(b)'
      <4>1. Starting(b) /\ busInd' = busInd + 1 /\ initCmd' = initCmd /\ ctrlState' = "INIT"
        BY <1>2, <2>2, <2>6
      <4>2. CASE b <= busInd
        BY <2>2, <2>3, <2>4, <4>1, <4>2 DEF Starting, Buses
      <4>3. CASE b > busInd
        BY <2>2, <2>3, <2>4, <4>1, <4>3 DEF Starting, Buses
      <4> QED
        BY <4>2, <4>3, <2>2 DEF Buses
    <3> QED
      BY <1>2, <2>1, <2>5, <2>6, <3>1 DEF IInv
  <2>7. CASE ~(busInd < NumBuses - 1)
    <3>1. \A b \in Buses : Quiet(b) /\ Finished(b, initCmd)
      <4> SUFFICES ASSUME NEW b \in Buses PROVE Quiet(b) /\ Finished(b, initCmd)
        OBVIOUS
      <4>1. Starting(b) /\ b <= busInd
        BY <1>2, <2>2, <2>7 DEF Buses
      <4> QED
        BY <2>2, <2>3, <4>1 DEF Starting, Buses
    <3>2. CASE initCmd = "INIT_SYNC"
      <4>1. ASSUME NEW b \in Buses PROVE Started(b)'
        BY <2>4, <3>1, <3>2 DEF Started, Quiet, Finished, UserCmdsOnly
      <4> QED
        BY <1>2, <2>1, <2>5, <2>7, <3>2, <4>1 DEF IInv
    <3>3. CASE initCmd # "INIT_SYNC"
      <4>1. busInd' = 0 /\ ctrlState' = "INIT" /\ initCmd' = NextPass[initCmd]
        BY <1>2, <2>7, <3>3
      <4>2. ASSUME NEW b \in Buses PROVE Quiet(b)' /\ Ready(b, initCmd)'
        <5>1. Quiet(b)' /\ Ready(b, NextPass[initCmd])
          BY <2>2, <2>4, <3>1, <3>3 DEF Finished, NextPass, Passes
        <5> QED
          BY <1>2, <4>1, <5>1 DEF Ready, AllChips
      <4>3. ASSUME NEW b \in Buses PROVE Starting(b)'
        <5>1. b >= 0 /\ b \in Int
          BY DEF Buses
        <5> QED
          BY <4>1, <4>2, <5>1 DEF Starting
      <4> QED
        BY <1>2, <2>1, <2>5, <4>1, <4>3 DEF IInv
    <3> QED
      BY <3>2, <3>3
  <2> QED
    BY <2>6, <2>7
<1>3. ASSUME NEW b \in Buses, DoIdleAcceptCmd(b) PROVE IInv'
  <2> USE <1>3 DEF DoIdleAcceptCmd, SendCmd
  <2>1. TypeOK'
    <3>1. flashCmdQ' \in [Buses -> Seq(Passes \union {"USER"})]
      BY <1>0 DEF TypeOK
    <3> QED
      BY <1>0, <3>1 DEF TypeOK, ctrlVars
  <2>2. \A o \in Buses : Started(o)
    BY DEF IInv
  <2>3. UserCmdsOnly(flashCmdQ'[b])
    <3>1. UserCmdsOnly(flashCmdQ[b]) /\ flashCmdQ'[b] = Append(flashCmdQ[b], "USER")
      BY <1>0, <2>2 DEF Started, TypeOK
    <3> QED
      BY <1>0, <3>1 DEF UserCmdsOnly, TypeOK
  <2>4. ASSUME NEW o \in Buses PROVE Started(o)'
    <3>1. Started(o) /\ (o # b => flashCmdQ'[o] = flashCmdQ[o])
      BY <1>0, <2>2 DEF TypeOK
    <3> QED
      BY <2>3, <3>1 DEF Started, Calibrated, AllChips, UserCmdsOnly
  <2>5. \A o \in Buses : UserCmdsOnly(sbQ[o])'
    BY <1>0 DEF UserCmdsOnly
  <2> QED
    BY <2>1, <2>4, <2>5 DEF IInv, ctrlVars
<1>4. ASSUME NEW b \in Buses, DoSBCmd(b) PROVE IInv'
  <2> USE <1>4 DEF DoSBCmd, NotEmpty
  <2>1. ctrlState = "ACCEPT_CMD" /\ ctrlState' = ctrlState
    BY <1>0 DEF IInv, Starting, Turn, Quiet, Ready, TypeOK, Buses, ctrlVars
  <2>2. \A o \in Buses : Started(o)
    BY <2>1 DEF IInv
  <2>3. UserCmdsOnly(flashCmdQ[b]) /\ Head(flashCmdQ[b]) = "USER"
    BY <1>0, <2>2 DEF Started, UserCmdsOnly, TypeOK
  <2>4. TypeOK'
    <3>1. flashCmdQ' \in [Buses -> Seq(Passes \union {"USER"})]
      BY <1>0 DEF TypeOK
    <3>2. sbQ' \in [Buses -> Seq(Passes \union {"USER"})]
      BY <1>0, <2>3 DEF TypeOK
    <3> QED
      BY <1>0, <3>1, <3>2 DEF TypeOK, ctrlVars
  <2>5. UserCmdsOnly(Tail(flashCmdQ[b])) /\ UserCmdsOnly(Append(sbQ[b], Head(flashCmdQ[b])))
    BY <1>0, <2>3 DEF UserCmdsOnly, TypeOK
  <2>6. \A o \in Buses : UserCmdsOnly(sbQ'[o])
    BY <1>0, <2>5 DEF TypeOK
  <2>7. \A o \in Buses : UserCmdsOnly(flashCmdQ'[o])
    BY <1>0, <2>2, <2>5 DEF TypeOK, Started
  <2>8. \A o \in Buses : Started(o)'
    BY <2>2, <2>7 DEF Started, Calibrated, AllChips, UserCmdsOnly
  <2> QED
    BY <2>1, <2>4, <2>6, <2>8 DEF IInv, UserCmdsOnly
<1>5. ASSUME NEW b \in Buses, ServeCmd(b) PROVE IInv'
  <2> USE <1>5 DEF ServeCmd, NotEmpty
  <2>1. TypeOK'
    <3>1. sbQ' \in [Buses -> Seq(Passes \union {"USER"})]
      BY <1>0 DEF TypeOK
    <3> QED
      BY <1>0, <3>1 DEF TypeOK, ctrlVars
  <2>2. UserCmdsOnly(Tail(sbQ[b]))
    BY <1>0 DEF UserCmdsOnly, TypeOK
  <2>3. \A o \in Buses : UserCmdsOnly(sbQ'[o])
    BY <1>0, <2>2 DEF TypeOK
  <2>4. \A o \in Buses : Keeps(o) /\ UNCHANGED ctrlVars
    BY DEF Keeps
  <2>5. \A o \in Buses : IF ctrlState = "ACCEPT_CMD" THEN Started(o)' ELSE Starting(o)'
    BY <2>4, KeptBus DEF IInv
  <2> QED
    BY <2>1, <2>3, <2>4, <2>5 DEF IInv, UserCmdsOnly, ctrlVars
<1>6. ASSUME NEW b \in Buses, DoUninitialized(b) PROVE IInv'
  <2> USE <1>6 DEF DoUninitialized, Go, NotEmpty
  <2>1. /\ b = busInd /\ ctrlState = "INIT_WAIT"
        /\ flashCmdQ[b] = <<initCmd>> /\ ~phyBusy[b] /\ Ready(b, initCmd) /\ initCmd \in Passes
    BY DEF IInv, Started, Calibrated, Starting, Turn, Quiet, TypeOK, CtrlStates, Buses
  <2>2. flashCmdQ'[b] = <<>>
    BY <1>0, <2>1 DEF TypeOK
  <2>3. state'[b] = CASE initCmd = "INIT_BUS" -> "INIT" [] initCmd = "EN_SYNC" -> "EN_SYNC"
                      [] OTHER -> "INIT_EN_NANDCLK"
    BY <1>0, <2>1 DEF TypeOK, Passes
  <2>4. 0 \in Chips /\ chipR'[b] = 0 /\ (\A c \in Chips : c >= 0) /\ chip' = chip
    BY <1>0 DEF Chips, TypeOK
  <2>5. TypeOK'
    <3>1. state' \in [Buses -> BusStates]
      BY <1>0, <2>1, <2>3 DEF TypeOK, BusStates
    <3>2. chipR' \in [Buses -> Chips] /\ cmdCnt' \in [Buses -> {0, 1}]
      BY <1>0 DEF TypeOK, Chips
    <3>3. flashCmdQ' \in [Buses -> Seq(Passes \union {"USER"})]
      BY <1>0, <2>2 DEF TypeOK
    <3> QED
      BY <1>0, <3>1, <3>2, <3>3 DEF TypeOK, ctrlVars
  <2>6. Running(b, initCmd)'
    <3>1. initCmd' = initCmd /\ inSyncMode'[b] = inSyncMode[b]
      BY DEF ctrlVars
    <3>2. ~inSyncMode'[b] /\ \A c \in Chips : chip'[b][c] = ModeBefore(initCmd)
      BY <2>1, <2>4, <3>1 DEF Ready, AllChips
    <3>3. CASE initCmd = "INIT_BUS"
      BY <2>3, <2>4, <3>1, <3>2, <3>3 DEF Running, Resetting, SplitAt, ModeBefore, Chips
    <3>4. CASE initCmd = "EN_SYNC"
      BY <2>3, <2>4, <3>1, <3>2, <3>4 DEF Running, Switching, SplitAt, ModeBefore, Chips
    <3>5. CASE initCmd = "INIT_SYNC"
      BY <2>3, <3>1, <3>2, <3>5 DEF Running, Calibrating, AllChips, ModeBefore
    <3> QED
      BY <2>1, <3>3, <3>4, <3>5 DEF Passes
  <2>7. \A o \in Buses \ {b} : Keeps(o)
    BY <1>0 DEF Keeps, TypeOK
  <2> QED
    BY <2>1, <2>2, <2>5, <2>6, <2>7, StepOfTheTurn DEF ctrlVars, Turn
<1>7. ASSUME NEW b \in Buses, SendPhyCmds(b) PROVE IInv'
  <2> USE <1>7 DEF SendPhyCmds, Go, Others
  <2>1. /\ b = busInd /\ ctrlState = "INIT_WAIT" /\ flashCmdQ[b] = <<>> /\ Running(b, initCmd)
        /\ initCmd \in Passes /\ initCmd' = initCmd /\ flashCmdQ'[b] = <<>>
    BY <1>0, BusAtWork DEF ctrlVars, TypeOK
  <2>2. TypeOK'
    <3>1. cmdCnt' \in [Buses -> {0, 1}]
      BY <1>0, <2>1 DEF TypeOK
    <3>2. phyBusy' \in [Buses -> BOOLEAN]
      BY <1>0, <2>1 DEF TypeOK
    <3> QED
      BY <1>0, <3>1, <3>2 DEF TypeOK, ctrlVars
  <2>3. Turn(b)'
    BY <2>1, KeptWork DEF Turn
  <2>4. \A o \in Buses \ {b} : Keeps(o)
    BY <1>0 DEF Keeps, TypeOK
  <2> QED
    BY <2>1, <2>2, <2>3, <2>4, StepOfTheTurn DEF ctrlVars
<1>8. ASSUME NEW b \in Buses, DoInitWaitChip(b) PROVE IInv'
  <2> USE <1>8 DEF DoInitWaitChip, Go, Others
  <2>1. /\ b = busInd /\ ctrlState = "INIT_WAIT" /\ flashCmdQ[b] = <<>> /\ Running(b, initCmd)
        /\ initCmd \in Passes /\ initCmd' = initCmd /\ flashCmdQ'[b] = <<>>
    BY <1>0, BusAtWork DEF ctrlVars, TypeOK
  <2>2. TypeOK'
    <3>1. state' \in [Buses -> BusStates]
      BY <1>0, <2>1 DEF TypeOK, BusStates
    <3>2. rdyReturnState' \in [Buses -> {"IDLE", "INIT_INC", "INIT_CALIB"}]
      BY <1>0, <2>1 DEF TypeOK
    <3>3. chip' \in [Buses -> [Chips -> Modes]]
      BY <1>0, <2>1 DEF TypeOK, Modes
    <3> QED
      BY <1>0, <3>1, <3>2, <3>3 DEF TypeOK, ctrlVars
  <2>3. Turn(b)'
    <3>1. initCmd = "INIT_BUS" /\ Resetting(b)
      BY <1>0, <2>1 DEF Running, Resetting, Switching, Calibrating, Polling, Passes, TypeOK
    <3>2. Resetting(b)'
      BY <1>0, <3>1 DEF Resetting, SplitAt, Polling, Chips, TypeOK
    <3> QED
      BY <2>1, <3>1, <3>2 DEF Turn, Running
  <2>4. \A o \in Buses \ {b} : Keeps(o)
    BY <1>0 DEF Keeps, TypeOK
  <2> QED
    BY <2>1, <2>2, <2>3, <2>4, StepOfTheTurn DEF ctrlVars
<1>9. ASSUME NEW b \in Buses, DoStatusCntReset(b) PROVE IInv'
  <2> USE <1>9 DEF DoStatusCntReset, Go, Others
  <2>1. /\ b = busInd /\ ctrlState = "INIT_WAIT" /\ flashCmdQ[b] = <<>> /\ Running(b, initCmd)
        /\ initCmd \in Passes /\ initCmd' = initCmd /\ flashCmdQ'[b] = <<>>
    BY <1>0, BusAtWork DEF ctrlVars, TypeOK
  <2>2. TypeOK'
    <3>1. state' \in [Buses -> BusStates]
      BY <1>0, <2>1 DEF TypeOK, BusStates
    <3>2. cmdCnt' \in [Buses -> {0, 1}]
      BY <1>0, <2>1 DEF TypeOK
    <3> QED
      BY <1>0, <3>1, <3>2 DEF TypeOK, ctrlVars
  <2>3. Turn(b)'
    <3>1. CASE initCmd = "INIT_BUS"
      BY <1>0, <2>1, <3>1 DEF Turn, Running, Resetting, SplitAt, Polling, TypeOK
    <3>2. CASE initCmd = "EN_SYNC"
      BY <1>0, <2>1, <3>2 DEF Turn, Running, Switching, TypeOK
    <3>3. CASE initCmd = "INIT_SYNC"
      BY <1>0, <2>1, <3>3 DEF Turn, Running, Calibrating, AllChips, Polling, TypeOK
    <3> QED
      BY <2>1, <3>1, <3>2, <3>3 DEF Passes
  <2>4. \A o \in Buses \ {b} : Keeps(o)
    BY <1>0 DEF Keeps, TypeOK
  <2> QED
    BY <2>1, <2>2, <2>3, <2>4, StepOfTheTurn DEF ctrlVars
<1>10. ASSUME NEW b \in Buses, DoReadStatusGet(b) PROVE IInv'
  <2> USE <1>10 DEF DoReadStatusGet, Go, Others
  <2>1. /\ b = busInd /\ ctrlState = "INIT_WAIT" /\ flashCmdQ[b] = <<>> /\ Running(b, initCmd)
        /\ initCmd \in Passes /\ initCmd' = initCmd /\ flashCmdQ'[b] = <<>>
    BY <1>0, BusAtWork DEF ctrlVars, TypeOK
  <2>2. TypeOK'
    <3>1. state' \in [Buses -> BusStates]
      BY <1>0, <2>1 DEF TypeOK, BusStates
    <3>2. cmdCnt' \in [Buses -> {0, 1}]
      BY <1>0, <2>1 DEF TypeOK
    <3> QED
      BY <1>0, <3>1, <3>2 DEF TypeOK, ctrlVars
  <2>3. Turn(b)'
    <3>1. CASE initCmd = "INIT_BUS"
      BY <1>0, <2>1, <3>1 DEF Turn, Running, Resetting, SplitAt, Polling, TypeOK
    <3>2. CASE initCmd = "EN_SYNC"
      BY <1>0, <2>1, <3>2 DEF Turn, Running, Switching, TypeOK
    <3>3. CASE initCmd = "INIT_SYNC"
      BY <1>0, <2>1, <3>3 DEF Turn, Running, Calibrating, AllChips, Polling, TypeOK
    <3> QED
      BY <2>1, <3>1, <3>2, <3>3 DEF Passes
  <2>4. \A o \in Buses \ {b} : Keeps(o)
    BY <1>0 DEF Keeps, TypeOK
  <2> QED
    BY <2>1, <2>2, <2>3, <2>4, StepOfTheTurn DEF ctrlVars
<1>11. ASSUME NEW b \in Buses, DoWaitCycles(b) PROVE IInv'
  <2> USE <1>11 DEF DoWaitCycles, Go, Others
  <2>1. /\ b = busInd /\ ctrlState = "INIT_WAIT" /\ flashCmdQ[b] = <<>> /\ Running(b, initCmd)
        /\ initCmd \in Passes /\ initCmd' = initCmd /\ flashCmdQ'[b] = <<>>
    BY <1>0, BusAtWork DEF ctrlVars, TypeOK
  <2>2. TypeOK'
    <3>1. state' \in [Buses -> BusStates]
      BY <1>0, <2>1 DEF TypeOK, BusStates
    <3> QED
      BY <1>0, <3>1 DEF TypeOK, ctrlVars
  <2>3. Turn(b)'
    <3>1. CASE initCmd = "INIT_BUS"
      BY <1>0, <2>1, <3>1 DEF Turn, Running, Resetting, SplitAt, Polling, TypeOK
    <3>2. CASE initCmd = "EN_SYNC"
      BY <1>0, <2>1, <3>2 DEF Turn, Running, Switching, TypeOK
    <3>3. CASE initCmd = "INIT_SYNC"
      BY <1>0, <2>1, <3>3 DEF Turn, Running, Calibrating, AllChips, Polling, TypeOK
    <3> QED
      BY <2>1, <3>1, <3>2, <3>3 DEF Passes
  <2>4. \A o \in Buses \ {b} : Keeps(o)
    BY <1>0 DEF Keeps, TypeOK
  <2> QED
    BY <2>1, <2>2, <2>3, <2>4, StepOfTheTurn DEF ctrlVars
<1>12. ASSUME NEW b \in Buses, DoInitInc(b) PROVE IInv'
  <2> USE <1>12 DEF DoInitInc, Go, Others, MoreChips, NextChip
  <2>1. /\ b = busInd /\ ctrlState = "INIT_WAIT" /\ flashCmdQ[b] = <<>> /\ Running(b, initCmd)
        /\ initCmd \in Passes /\ initCmd' = initCmd /\ flashCmdQ'[b] = <<>>
    BY <1>0, BusAtWork DEF ctrlVars, TypeOK
  <2>2. TypeOK'
    <3>1. state' \in [Buses -> BusStates]
      <4>1. \E st \in BusStates : state' = [state EXCEPT ![b] = st]
        <5>1. state[b] \in BusStates /\ state = [state EXCEPT ![b] = state[b]]
          BY <1>0 DEF TypeOK
        <5> QED
          BY <5>1 DEF BusStates
      <4> QED
        BY <1>0, <4>1 DEF TypeOK
    <3>2. chipR' \in [Buses -> Chips]
      <4>1. chipR[b] \in Chips /\ 0 \in Chips /\ (chipR[b] < NumChips - 1 => chipR[b] + 1 \in Chips)
        BY <1>0 DEF TypeOK, Chips
      <4>2. \E c \in Chips : chipR' = [chipR EXCEPT ![b] = c]
        BY <1>0, <4>1 DEF TypeOK
      <4> QED
        BY <1>0, <4>2 DEF TypeOK
    <3> QED
      BY <1>0, <3>1, <3>2 DEF TypeOK, ctrlVars
  <2>3. Turn(b)'
    <3>1. initCmd = "INIT_BUS" /\ Resetting(b) /\ chip[b][chipR[b]] = "async"
      BY <1>0, <2>1 DEF Running, Resetting, Switching, Calibrating, Polling, Passes, TypeOK
    <3>2. CASE chipR[b] < NumChips - 1
      <4>1. Resetting(b)'
        BY <1>0, <3>1, <3>2 DEF Resetting, SplitAt, Polling, Chips, TypeOK
      <4> QED
        BY <2>1, <3>1, <4>1 DEF Turn, Running
    <3>3. CASE ~(chipR[b] < NumChips - 1)
      <4>1. Ready(b, "EN_SYNC")'
        BY <1>0, <3>1, <3>3 DEF Resetting, SplitAt, Ready, AllChips, ModeBefore, Chips, TypeOK
      <4> QED
        BY <2>1, <3>1, <4>1 DEF Turn, Finished
    <3> QED
      BY <3>2, <3>3
  <2>4. \A o \in Buses \ {b} : Keeps(o)
    BY <1>0 DEF Keeps, TypeOK
  <2> QED
    BY <2>1, <2>2, <2>3, <2>4, StepOfTheTurn DEF ctrlVars
<1>13. ASSUME NEW b \in Buses, DoSyncInitDone(b) PROVE IInv'
  <2> USE <1>13 DEF DoSyncInitDone, Go, Others
  <2>1. /\ b = busInd /\ ctrlState = "INIT_WAIT" /\ flashCmdQ[b] = <<>> /\ Running(b, initCmd)
        /\ initCmd \in Passes /\ initCmd' = initCmd /\ flashCmdQ'[b] = <<>>
    BY <1>0, BusAtWork DEF ctrlVars, TypeOK
  <2>2. TypeOK'
    <3>1. state' \in [Buses -> BusStates]
      <4>1. \E st \in BusStates : state' = [state EXCEPT ![b] = st]
        <5>1. state[b] \in BusStates /\ state = [state EXCEPT ![b] = state[b]]
          BY <1>0 DEF TypeOK
        <5> QED
          BY <5>1 DEF BusStates
      <4> QED
        BY <1>0, <4>1 DEF TypeOK
    <3>2. chipR' \in [Buses -> Chips]
      <4>1. chipR[b] \in Chips /\ 0 \in Chips /\ (chipR[b] < NumChips - 1 => chipR[b] + 1 \in Chips)
        BY <1>0 DEF TypeOK, Chips
      <4>2. \E c \in Chips : chipR' = [chipR EXCEPT ![b] = c]
        BY <1>0, <4>1 DEF TypeOK
      <4> QED
        BY <1>0, <4>2 DEF TypeOK
    <3>3. cmdCnt' \in [Buses -> {0, 1}]
      BY <1>0, <2>1, ZenonT(30) DEF TypeOK
    <3>4. chip' \in [Buses -> [Chips -> Modes]]
      BY <1>0, <2>1 DEF TypeOK, Modes
    <3> QED
      BY <1>0, <3>1, <3>2, <3>3, <3>4 DEF TypeOK, ctrlVars
  <2>3. Turn(b)'
    <3>1. initCmd = "EN_SYNC" /\ Switching(b)
      BY <1>0, <2>1 DEF Running, Resetting, Switching, Calibrating, Polling, Passes, TypeOK
    <3>2. CASE chipR[b] < NumChips - 1
      <4>1. Switching(b)'
        BY <1>0, <3>1, <3>2 DEF Switching, SplitAt, Polling, Chips, TypeOK
      <4> QED
        BY <2>1, <3>1, <4>1 DEF Turn, Running
    <3>3. CASE ~(chipR[b] < NumChips - 1)
      <4>1. Ready(b, "INIT_SYNC")'
        BY <1>0, <3>1, <3>3 DEF Switching, SplitAt, Ready, AllChips, ModeBefore, Chips, TypeOK
      <4> QED
        BY <2>1, <3>1, <4>1 DEF Turn, Finished
    <3> QED
      BY <3>2, <3>3
  <2>4. \A o \in Buses \ {b} : Keeps(o)
    BY <1>0 DEF Keeps, TypeOK
  <2> QED
    BY <2>1, <2>2, <2>3, <2>4, StepOfTheTurn DEF ctrlVars
<1>14. ASSUME NEW b \in Buses, DoEnNandClk(b) PROVE IInv'
  <2> USE <1>14 DEF DoEnNandClk, Go, Others
  <2>1. /\ b = busInd /\ ctrlState = "INIT_WAIT" /\ flashCmdQ[b] = <<>> /\ Running(b, initCmd)
        /\ initCmd \in Passes /\ initCmd' = initCmd /\ flashCmdQ'[b] = <<>>
    BY <1>0, BusAtWork DEF ctrlVars, TypeOK
  <2>2. TypeOK'
    <3>1. state' \in [Buses -> BusStates]
      BY <1>0, <2>1 DEF TypeOK, BusStates
    <3>2. rdyReturnState' \in [Buses -> {"IDLE", "INIT_INC", "INIT_CALIB"}]
      BY <1>0, <2>1 DEF TypeOK
    <3>3. cmdCnt' \in [Buses -> {0, 1}]
      BY <1>0, <2>1 DEF TypeOK
    <3>4. inSyncMode' \in [Buses -> BOOLEAN]
      BY <1>0, <2>1 DEF TypeOK
    <3>5. phyBusy' \in [Buses -> BOOLEAN]
      BY <1>0, <2>1 DEF TypeOK
    <3> QED
      BY <1>0, <3>1, <3>2, <3>3, <3>4, <3>5 DEF TypeOK, ctrlVars
  <2>3. Turn(b)'
    <3>1. initCmd = "INIT_SYNC" /\ Calibrating(b)
      BY <1>0, <2>1 DEF Running, Resetting, Switching, Calibrating, Polling, Passes, TypeOK
    <3>2. Calibrating(b)'
      BY <1>0, <3>1 DEF Calibrating, AllChips, Polling, TypeOK
    <3> QED
      BY <2>1, <3>1, <3>2 DEF Turn, Running
  <2>4. \A o \in Buses \ {b} : Keeps(o)
    BY <1>0 DEF Keeps, TypeOK
  <2> QED
    BY <2>1, <2>2, <2>3, <2>4, StepOfTheTurn DEF ctrlVars
<1>15. ASSUME NEW b \in Buses, DoInitCalibDone(b) PROVE IInv'
  <2> USE <1>15 DEF DoInitCalibDone, Go, Others
  <2>1. /\ b = busInd /\ ctrlState = "INIT_WAIT" /\ flashCmdQ[b] = <<>> /\ Running(b, initCmd)
        /\ initCmd \in Passes /\ initCmd' = initCmd /\ flashCmdQ'[b] = <<>>
    BY <1>0, BusAtWork DEF ctrlVars, TypeOK
  <2>2. TypeOK'
    <3>1. state' \in [Buses -> BusStates]
      BY <1>0, <2>1 DEF TypeOK, BusStates
    <3> QED
      BY <1>0, <3>1 DEF TypeOK, ctrlVars
  <2>3. Turn(b)'
    <3>1. initCmd = "INIT_SYNC" /\ Calibrating(b)
      BY <1>0, <2>1 DEF Running, Resetting, Switching, Calibrating, Polling, Passes, TypeOK
    <3>2. Calibrated(b)'
      BY <1>0, <3>1 DEF Calibrating, AllChips, Calibrated, TypeOK
    <3> QED
      BY <2>1, <3>1, <3>2 DEF Turn, Finished
  <2>4. \A o \in Buses \ {b} : Keeps(o)
    BY <1>0 DEF Keeps, TypeOK
  <2> QED
    BY <2>1, <2>2, <2>3, <2>4, StepOfTheTurn DEF ctrlVars
<1>16. ASSUME NEW b \in Buses, PhyDone(b) PROVE IInv'
  <2> USE <1>16 DEF PhyDone, Others
  <2>1. b = busInd /\ ctrlState = "INIT_WAIT" /\ Turn(b) /\ initCmd' = initCmd
    BY DEF IInv, Started, Starting, Quiet, Turn, TypeOK, CtrlStates, Buses, ctrlVars
  <2>2. TypeOK'
    <3>1. phyBusy' \in [Buses -> BOOLEAN]
      BY <1>0 DEF TypeOK
    <3> QED
      BY <1>0, <3>1 DEF TypeOK, ctrlVars
  <2>3. Turn(b)'
    <3>1. flashCmdQ[b] = <<>> /\ flashCmdQ'[b] = flashCmdQ[b]
      BY <2>1 DEF Turn
    <3> QED
      BY <2>1, <3>1, KeptWork DEF Turn
  <2>4. \A o \in Buses \ {b} : Keeps(o)
    BY <1>0 DEF Keeps, TypeOK
  <2> QED
    BY <2>1, <2>2, <2>3, <2>4, StepOfTheTurn DEF ctrlVars
<1>17. ASSUME NEW b \in Buses, NEW c \in Chips, ResetDone(b, c) PROVE IInv'
  <2> USE <1>17 DEF ResetDone, Others
  <2>1. \A pass \in Passes : ~Ready(b, pass) /\ ~Finished(b, pass)
    BY DEF Ready, Finished, Calibrated, AllChips, ModeBefore, Passes
  <2>2. /\ b = busInd /\ ctrlState = "INIT_WAIT" /\ flashCmdQ[b] = <<>> /\ Running(b, initCmd)
        /\ initCmd \in Passes /\ initCmd' = initCmd /\ flashCmdQ'[b] = <<>>
    <3>1. initCmd \in Passes /\ initCmd' = initCmd /\ flashCmdQ' = flashCmdQ
      BY <1>0 DEF TypeOK, ctrlVars
    <3>2. ctrlState # "ACCEPT_CMD" /\ Starting(b)
      BY <1>0 DEF IInv, Started, Calibrated, AllChips
    <3>3. b = busInd /\ ctrlState = "INIT_WAIT"
      BY <1>0, <2>1, <3>1, <3>2 DEF Starting, TypeOK, CtrlStates, Buses
    <3> QED
      BY <2>1, <3>1, <3>2, <3>3 DEF Starting, Turn
  <2>3. initCmd = "INIT_BUS" /\ Resetting(b) /\ c = chipR[b] /\ Polling(b)
    BY <1>0, <2>2, ResettingChip
  <2>4. TypeOK'
    <3>1. chip' \in [Buses -> [Chips -> Modes]]
      BY <1>0 DEF TypeOK, Modes
    <3> QED
      BY <1>0, <3>1 DEF TypeOK, ctrlVars
  <2>5. Turn(b)'
    BY <1>0, <2>2, <2>3 DEF Turn, Running, Resetting, Polling, SplitAt, TypeOK
  <2>6. \A o \in Buses \ {b} : Keeps(o)
    BY <1>0 DEF Keeps, TypeOK
  <2> QED
    BY <2>2, <2>4, <2>5, <2>6, StepOfTheTurn DEF ctrlVars
<1>18. CASE UNCHANGED vars
  <2>1. \A b \in Buses : Keeps(b)
    BY <1>18 DEF vars, Keeps
  <2>2. UNCHANGED <<ctrlVars, sbQ>> /\ TypeOK'
    BY <1>0, <1>18 DEF vars, ctrlVars, TypeOK
  <2> QED
    BY <2>1, <2>2, KeptBus DEF IInv, ctrlVars, UserCmdsOnly
<1> QED
  BY <1>1, <1>2, <1>3, <1>4, <1>5, <1>6, <1>7, <1>8, <1>9, <1>10, <1>11, <1>12, <1>13, <1>14, <1>15,
     <1>16, <1>17, <1>18 DEF Next, Bus

-----------------------------------------------------------------------------
(* What the inductive invariant says of StartIsOrderly.                    *)
LEMMA OneBus == IInv => OneBusAtATime
<1> SUFFICES ASSUME IInv, ctrlState # "ACCEPT_CMD"
             PROVE  Cardinality({b \in Buses : ~IsInitIdle(b)} \union {b \in Buses : phyBusy[b]}) <= 1
  BY DEF OneBusAtATime
<1> DEFINE S == {b \in Buses : ~IsInitIdle(b)} \union {b \in Buses : phyBusy[b]}
<1>1. \A b \in S : b = busInd
  <2> SUFFICES ASSUME NEW b \in Buses, b # busInd PROVE IsInitIdle(b)
    BY DEF IsInitIdle
  <2>1. Starting(b) /\ initCmd \in Passes /\ busInd \in Buses
    BY DEF IInv, TypeOK
  <2> QED
    BY <2>1 DEF Starting, Quiet, Ready, Finished, Calibrated, IsInitIdle, Passes, Buses
<1>2. S \subseteq {busInd}
  BY <1>1
<1>3. IsFiniteSet({busInd}) /\ Cardinality({busInd}) = 1
  BY FS_Singleton
<1>4. Cardinality(S) <= 1
  BY <1>2, <1>3, FS_Subset
<1> QED
  BY <1>4

(* The modes of the controller and of its chips agree by the invariant.    *)
LEMMA ModesFollow == IInv => ModesAgree
<1> SUFFICES ASSUME IInv PROVE ModesAgree
  OBVIOUS
<1>1. ASSUME NEW b \in Buses
      PROVE  /\ inSyncMode[b] => AllChips(b, "sync")
             /\ state[b] = "EN_SYNC" => chip[b][chipR[b]] = "async"
  BY DEF IInv, TypeOK, Passes, Started, Calibrated, Starting, Finished, Ready, Turn, Running, Resetting,
         Switching, Calibrating, Polling, Buses
<1> QED
  BY <1>1 DEF IInv, ModesAgree, AllChips, Started, Calibrated

(* Whatever the number of buses and of chips, the start works on one bus   *)
(* at a time, talks to every chip in the mode it is in, and leaves no      *)
(* command of its own in the queues of a scoreboard.                       *)
THEOREM StartOrderly == Spec => []StartIsOrderly
<1>1. Init => IInv
  BY InitIInv
<1>2. IInv /\ [Next]_vars => IInv'
  BY StepIInv
<1>3. IInv => StartIsOrderly
  BY OneBus, ModesFollow DEF StartIsOrderly, IInv, ScoreboardGetsUserCmds, UserCmdsOnly
<1> QED
  BY <1>1, <1>2, <1>3, PTL DEF Spec
=============================================================================
