---------------------------- MODULE AFTL_proofs -----------------------------
(***************************************************************************)
(* Proofs about the address translation layer, for every number of chips,  *)
(* blocks, lanes and commands, and every agreeing pair of restored tables: *)
(* the types, that inProgress admits one command at a time, and that no    *)
(* two virtual blocks are mapped to one physical block and no mapped block *)
(* is free.  The second half proves that the pipeline implements AFTLSpec. *)
(***************************************************************************)
EXTENDS AFTLProperties, QueueLemmas, SequenceTheorems, TLAPS

UpdateCmds == (0 .. 2) \X Items
ErrorCmds  == Reqs \cup [tag : {r.tag : r \in Reqs}, cmd : {"AftlWRITE"}, addr : MapAddrs,
                         page : {0} \cup {r.page : r \in Reqs}]
HostSteps  == (({"blkinfo"} \X Chips \X (0 .. Words - 1)) \cup ({"map"} \X MapAddrs))
              \cup {<<"loaded">>}

(* TypeOK with the queues as sequences, for the induction.                 *)
Typed ==
  /\ blockmap \in [MapAddrs -> MapEntries]
  /\ blkinfo \in [Chips -> [Blocks -> BlkEntries]]
  /\ mapResp \in Seq(MapEntries) /\ blkResp \in Seq([LaneSet -> BlkEntries])
  /\ reqQ \in Seq(Reqs) /\ procQ \in Seq(Reqs)
  /\ procQs \in [ProcNames -> Seq(Items)]
  /\ procUpdateQs \in [0 .. 5 -> Seq(UpdateCmds)]
  /\ respQ_pre \in Seq(FlashCmds) /\ respQ \in Seq(FlashCmds)
  /\ resp_errorQ \in Seq(ErrorCmds)
  /\ markBadDoneQ \in Seq({TRUE})
  /\ inProgress \in BOOLEAN /\ blkScanIssued \in BOOLEAN
  /\ blkScanReqCnt \in 0 .. Words - 1 /\ blkScanRespCnt \in 0 .. Words - 1
  /\ blkScanFinalCnt \in 0 .. Lanes - 1
  /\ curMinEnt \in [LaneSet -> MinEntries] /\ minEnt \in [LaneSet -> MinEntries]
  /\ minEntVecQ \in Seq([LaneSet -> MinEntries])
  /\ theMinEntry \in MinEntries /\ minPeEntryQ \in Seq(Blocks \X (0 .. EraseMod - 1))
  /\ image \in Images /\ restoring \in Seq(HostSteps)

Fits ==
  /\ Len(mapResp) <= BramDepth /\ Len(blkResp) <= BramDepth /\ Len(reqQ) <= CmdQDepth

-----------------------------------------------------------------------------
(* What is in the pipeline with the command.                               *)

(* The looked-up entry is that of the command.                             *)
LookupFits ==
  /\ Len(mapResp) = Len(procQ)
  /\ Len(procQ) > 0 => mapResp[1] = blockmap[procQ[1].addr]

(* The status under which checkMapping0 sends a command where it waits.    *)
StatusFor(n, status) ==
  /\ n \in {"R", "W", "E"} => status = "ALLOCATED"
  /\ n = "W_trig" => status = "NOT_ALLOCATED"

ItemFits(item) ==
  item.cmd.chip = ChipOf[item.addr] /\ item.cmd.block = blockmap[item.addr].block

ProcFits ==
  \A n \in ProcNames : Len(procQs[n]) > 0 =>
    /\ ItemFits(procQs[n][1])
    /\ StatusFor(n, blockmap[procQs[n][1].addr].status)

(* The update at the head of stage n.                                      *)
Cur(n) == procUpdateQs[n][1]
At(n)  == Len(procUpdateQs[n]) > 0

(* An erase works on a mapped address, an allocation on an unmapped one.   *)
UpdateFits(u) ==
  /\ u[2].cmd.chip = ChipOf[u[2].addr]
  /\ u[1] = 1 => blockmap[u[2].addr].status = "ALLOCATED"
  /\ u[1] = 2 => blockmap[u[2].addr].status = "NOT_ALLOCATED"
  /\ u[1] <= 1 => u[2].cmd.block = blockmap[u[2].addr].block

UpdatesFit ==
  /\ \A n \in 0 .. 5 : At(n) => UpdateFits(Cur(n))
  /\ \A n \in 1 .. 2 : At(n) => Cur(n)[1] = 2
  /\ At(0) /\ At(1) => Cur(0) = Cur(1)

(* A candidate is a free block of the chip.                                *)
IsFree(c, b)   == blkinfo[c][b].status = "FREE_BLK"
Candidate(c, e) == e # Invalid => IsFree(c, e[1])

(* The scan: the lines requested and not yet collected wait in blkResp.    *)
Requested == IF blkScanReqCnt = 0 THEN Words ELSE blkScanReqCnt

ScanFits ==
  /\ blkScanReqCnt # 0 => At(0) /\ At(1)
  /\ IF At(1)
     THEN LET c == Cur(1)[2].cmd.chip IN
          /\ blkScanRespCnt + Len(blkResp) = Requested
          /\ \A i \in 1 .. Len(blkResp) : blkResp[i] = Line(c, blkScanRespCnt + i - 1)
          /\ \A l \in LaneSet : Candidate(c, curMinEnt[l])
     ELSE blkScanRespCnt = 0 /\ curMinEnt = [l \in LaneSet |-> Invalid]

(* The choice among the lanes.                                             *)
ChoiceFits ==
  IF At(2)
  THEN LET c == Cur(2)[2].cmd.chip IN
       /\ Candidate(c, theMinEntry)
       /\ IF blkScanFinalCnt = 0
          THEN /\ Len(minEntVecQ) = 1
               /\ \A l \in LaneSet : Candidate(c, minEntVecQ[1][l])
          ELSE minEntVecQ = <<>> /\ \A l \in LaneSet : Candidate(c, minEnt[l])
  ELSE minEntVecQ = <<>> /\ blkScanFinalCnt = 0 /\ theMinEntry = Invalid

(* The chosen block waits for its allocation, still free.                  *)
Allocating(n) == At(n) /\ Cur(n)[1] = 2

PickFits ==
  IF Allocating(3) \/ Allocating(4)
  THEN /\ Len(minPeEntryQ) = 1
       /\ \A n \in 3 .. 4 : Allocating(n) => IsFree(Cur(n)[2].cmd.chip, minPeEntryQ[1][1])
       /\ Allocating(4) => Cur(4)[2].cmd.block = minPeEntryQ[1][1]
  ELSE minPeEntryQ = <<>>

(* The line to be written back is the one in the table.                    *)
LineFits ==
  /\ At(4) => blkResp = <<Line(Cur(4)[2].cmd.chip, Cur(4)[2].cmd.block \div Lanes)>>
  /\ ~At(1) /\ ~At(4) => blkResp = <<>>

(* Between the two writes the block of an allocation is taken and nobody   *)
(* else's.                                                                 *)
Owed ==
  Allocating(5) =>
    LET item == Cur(5)[2] IN
    /\ ~IsFree(item.cmd.chip, item.cmd.block)
    /\ \A a \in MapAddrs : (blockmap[a].status = "ALLOCATED" /\ ChipOf[a] = item.cmd.chip)
         => blockmap[a].block # item.cmd.block

-----------------------------------------------------------------------------
(* The restore: what is not written yet is still to come, and no command   *)
(* has been put.                                                           *)
ToCome(x) == \E i \in 1 .. Len(restoring) : restoring[i] = x

Restoring ==
  restoring # <<>> =>
    /\ restoring[Len(restoring)] = <<"loaded">>
    /\ reqQ = <<>> /\ ~inProgress
    /\ \A a \in MapAddrs :
         \/ blockmap[a] = image.map[a]
         \/ ToCome(<<"map", a>>) /\ blockmap[a].status = "NOT_ALLOCATED"
    /\ \A c \in Chips, b \in Blocks :
         blkinfo[c][b] = image.info[c][b] \/ ToCome(<<"blkinfo", c, b \div Lanes>>)

(* The inductive invariant.                                                *)
Stages   == UpdatesFit /\ ScanFits /\ ChoiceFits /\ PickFits /\ LineFits /\ Owed
Pipeline == InProgressExact /\ LookupFits /\ ProcFits /\ Stages

IInv == Typed /\ Fits /\ Pipeline /\ Restoring /\ TablesAgree

-----------------------------------------------------------------------------
(* Facts about blocks, lines and lanes.                                    *)

(* Quotient and remainder, in one place for the leaves that need both.     *)
LEMMA Divide ==
  ASSUME NEW b \in Nat, NEW n \in Nat \ {0}
  PROVE  /\ b \div n \in Nat /\ b % n \in 0 .. n - 1
         /\ b = (b \div n) * n + (b % n)
  OBVIOUS

(* A block is a lane of a line: the shift and truncate of its address.     *)
LEMMA LanesOfABlock ==
  ASSUME NEW b \in Blocks
  PROVE  /\ b \div Lanes \in 0 .. Words - 1 /\ b % Lanes \in LaneSet
         /\ (b \div Lanes) * Lanes + (b % Lanes) = b
<1>0. b \in Nat /\ Lanes \in Nat \ {0}
  BY AFTLAssumption DEF Blocks
<1>1. b \div Lanes \in Nat /\ b % Lanes \in LaneSet /\ b = (b \div Lanes) * Lanes + (b % Lanes)
  BY <1>0, Divide DEF LaneSet
<1>2. b \div Lanes <= Words - 1
  <2> SUFFICES ASSUME b \div Lanes >= Words PROVE FALSE
    BY <1>1, AFTLAssumption
  <2>1. (b \div Lanes) * Lanes >= Words * Lanes
    BY <1>1, AFTLAssumption
  <2> QED
    BY <1>0, <1>1, <2>1, AFTLAssumption DEF Blocks, LaneSet
<1> QED
  BY <1>1, <1>2, AFTLAssumption

(* Every lane of every line is a block.                                    *)
LEMMA BlockOfALane ==
  ASSUME NEW w \in 0 .. Words - 1, NEW l \in LaneSet
  PROVE  w * Lanes + l \in Blocks
  BY AFTLAssumption DEF Blocks, LaneSet

(* Block 0 with no erasures, the field contents of an invalid minimum.     *)
LEMMA ZeroBlock == 0 \in Blocks /\ 0 \in 0 .. EraseMod - 1
<1>1. Words * Lanes > 0
  BY AFTLAssumption
<1> QED
  BY <1>1, AFTLAssumption DEF Blocks

(* Line and lane of a block give the block back.                           *)
LEMMA DivideBlock ==
  ASSUME NEW w \in 0 .. Words - 1, NEW l \in LaneSet
  PROVE  (w * Lanes + l) \div Lanes = w /\ (w * Lanes + l) % Lanes = l
<1> DEFINE b == w * Lanes + l
<1>1. b \in Nat /\ l \in 0 .. Lanes - 1 /\ w \in Nat
  BY BlockOfALane, AFTLAssumption DEF Blocks, LaneSet
<1>2. b = (b \div Lanes) * Lanes + (b % Lanes) /\ b \div Lanes \in Nat /\ b % Lanes \in 0 .. Lanes - 1
  BY <1>1, Divide, AFTLAssumption
<1>3. b \div Lanes = w
  BY <1>1, <1>2, AFTLAssumption
<1> QED
  BY <1>1, <1>2, <1>3, AFTLAssumption

(* A line of the block table holds one entry per lane.                     *)
LEMMA LineTyped ==
  ASSUME blkinfo \in [Chips -> [Blocks -> BlkEntries]], NEW c \in Chips, NEW w \in 0 .. Words - 1
  PROVE  Line(c, w) \in [LaneSet -> BlkEntries]
  BY BlockOfALane DEF Line

-----------------------------------------------------------------------------
(* Where the command is.                                                   *)

(* Taking the only element of a queue leaves it empty.                     *)
LEMMA TailOfOne ==
  ASSUME NEW S, NEW q \in Seq(S), Len(q) = 1
  PROVE  Tail(q) = <<>> /\ Head(q) = q[1] /\ q[1] \in S
<1>1. Tail(q) \in Seq(S) /\ Len(Tail(q)) = 0
  BY HeadTailProperties, EmptySeq
<1> QED
  BY <1>1, EmptySeq, ElementOfSeq

(* The sum over procQs, when at most one of them is not empty.             *)
LEMMA LookupSum ==
  ASSUME NEW qs \in [ProcNames -> Seq(Items)]
  PROVE  /\ ProcsLen(qs) \in Nat
         /\ (\A n \in ProcNames : qs[n] = <<>>) => ProcsLen(qs) = 0
         /\ \A n \in ProcNames :
              (\A m \in ProcNames \ {n} : qs[m] = <<>>) => ProcsLen(qs) = Len(qs[n])
<1> DEFINE r == Len(qs["R"])
           w == Len(qs["W"])
           t == Len(qs["W_trig"])
           e == Len(qs["E"])
           b == Len(qs["MB"])
<1>1. r \in Nat /\ w \in Nat /\ t \in Nat /\ e \in Nat /\ b \in Nat
  BY DEF ProcNames
<1>2. \A n \in ProcNames : qs[n] = <<>> => Len(qs[n]) = 0
  BY EmptySeq
<1>3. ProcsLen(qs) = r + w + t + e + b
  BY DEF ProcsLen
<1>4. ASSUME NEW n \in ProcNames, \A m \in ProcNames \ {n} : qs[m] = <<>>
      PROVE  ProcsLen(qs) = Len(qs[n])
  <2>1. \A m \in ProcNames \ {n} : Len(qs[m]) = 0
    BY <1>2, <1>4
  <2>2. /\ n # "R" => r = 0
        /\ n # "W" => w = 0
        /\ n # "W_trig" => t = 0
        /\ n # "E" => e = 0
        /\ n # "MB" => b = 0
    BY <2>1 DEF ProcNames
  <2>3. /\ n = "R" => Len(qs[n]) = r
        /\ n = "W" => Len(qs[n]) = w
        /\ n = "W_trig" => Len(qs[n]) = t
        /\ n = "E" => Len(qs[n]) = e
        /\ n = "MB" => Len(qs[n]) = b
    OBVIOUS
  <2> HIDE DEF r, w, t, e, b
  <2>4. /\ n = "R" => ProcsLen(qs) = r
        /\ n = "W" => ProcsLen(qs) = w
        /\ n = "W_trig" => ProcsLen(qs) = t
        /\ n = "E" => ProcsLen(qs) = e
        /\ n = "MB" => ProcsLen(qs) = b
    BY <1>1, <1>3, <2>2
  <2> QED
    BY <2>3, <2>4 DEF ProcNames
<1>5. ASSUME \A n \in ProcNames : qs[n] = <<>>
      PROVE  ProcsLen(qs) = 0
  <2>1. r = 0 /\ w = 0 /\ t = 0 /\ e = 0 /\ b = 0
    BY <1>2, <1>5 DEF ProcNames
  <2> HIDE DEF r, w, t, e, b
  <2> QED
    BY <1>1, <1>3, <2>1
<1> HIDE DEF r, w, t, e, b
<1> QED
  BY <1>1, <1>3, <1>4, <1>5

(* The sum over procUpdateQs, when at most one is not empty, or the first  *)
(* two.                                                                    *)
LEMMA UpdateSum ==
  ASSUME NEW us \in [0 .. 5 -> Seq(UpdateCmds)]
  PROVE  /\ StagesLen(us) \in Nat
         /\ (\A n \in 0 .. 5 : us[n] = <<>>) => StagesLen(us) = 0
         /\ \A n \in 0 .. 5 :
              (\A m \in (0 .. 5) \ {n} : us[m] = <<>>) => StagesLen(us) = Len(us[n])
         /\ (\A m \in 2 .. 5 : us[m] = <<>>) => StagesLen(us) = Len(us[0]) + Len(us[1])
<1> DEFINE u0 == Len(us[0])
           u1 == Len(us[1])
           u2 == Len(us[2])
           u3 == Len(us[3])
           u4 == Len(us[4])
           u5 == Len(us[5])
<1>1. u0 \in Nat /\ u1 \in Nat /\ u2 \in Nat /\ u3 \in Nat /\ u4 \in Nat /\ u5 \in Nat
  OBVIOUS
<1>2. \A n \in 0 .. 5 : us[n] = <<>> => Len(us[n]) = 0
  BY EmptySeq
<1>3. StagesLen(us) = u0 + u1 + u2 + u3 + u4 + u5
  BY DEF StagesLen
<1>4. ASSUME NEW n \in 0 .. 5, \A m \in (0 .. 5) \ {n} : us[m] = <<>>
      PROVE  StagesLen(us) = Len(us[n])
  <2>1. \A m \in (0 .. 5) \ {n} : Len(us[m]) = 0
    BY <1>2, <1>4
  <2>2. /\ n # 0 => u0 = 0
        /\ n # 1 => u1 = 0
        /\ n # 2 => u2 = 0
        /\ n # 3 => u3 = 0
        /\ n # 4 => u4 = 0
        /\ n # 5 => u5 = 0
    BY <2>1
  <2>3. /\ n = 0 => Len(us[n]) = u0
        /\ n = 1 => Len(us[n]) = u1
        /\ n = 2 => Len(us[n]) = u2
        /\ n = 3 => Len(us[n]) = u3
        /\ n = 4 => Len(us[n]) = u4
        /\ n = 5 => Len(us[n]) = u5
    OBVIOUS
  <2> HIDE DEF u0, u1, u2, u3, u4, u5
  <2>4. /\ n = 0 => StagesLen(us) = u0
        /\ n = 1 => StagesLen(us) = u1
        /\ n = 2 => StagesLen(us) = u2
        /\ n = 3 => StagesLen(us) = u3
        /\ n = 4 => StagesLen(us) = u4
        /\ n = 5 => StagesLen(us) = u5
    BY <1>1, <1>3, <2>2
  <2>5. n \in {0, 1, 2, 3, 4, 5}
    OBVIOUS
  <2> QED
    BY <2>3, <2>4, <2>5
<1>5. ASSUME \A m \in 2 .. 5 : us[m] = <<>>
      PROVE  StagesLen(us) = u0 + u1
  <2>1. u2 = 0 /\ u3 = 0 /\ u4 = 0 /\ u5 = 0
    BY <1>2, <1>5
  <2> HIDE DEF u0, u1, u2, u3, u4, u5
  <2> QED
    BY <1>1, <1>3, <2>1
<1>6. ASSUME \A n \in 0 .. 5 : us[n] = <<>>
      PROVE  StagesLen(us) = 0
  <2>1. u0 = 0 /\ u1 = 0 /\ u2 = 0 /\ u3 = 0 /\ u4 = 0 /\ u5 = 0
    BY <1>2, <1>6
  <2> HIDE DEF u0, u1, u2, u3, u4, u5
  <2> QED
    BY <1>3, <2>1
<1>7. StagesLen(us) \in Nat
  <2> HIDE DEF u0, u1, u2, u3, u4, u5
  <2> QED
    BY <1>1, <1>3
<1> QED
  BY <1>4, <1>5, <1>6, <1>7

(* The lengths of all queues are naturals.                                 *)
LEMMA Lengths ==
  ASSUME Typed
  PROVE  /\ Len(procQ) \in Nat /\ Len(mapResp) \in Nat /\ Len(reqQ) \in Nat
         /\ Len(blkResp) \in Nat
         /\ \A n \in ProcNames : Len(procQs[n]) \in Nat
         /\ \A n \in 0 .. 5 : Len(procUpdateQs[n]) \in Nat
         /\ Len(respQ_pre) \in Nat /\ Len(respQ) \in Nat /\ Len(resp_errorQ) \in Nat
         /\ Len(markBadDoneQ) \in Nat /\ Len(minEntVecQ) \in Nat /\ Len(minPeEntryQ) \in Nat
<1>1. \A n \in ProcNames : Len(procQs[n]) \in Nat
  BY DEF Typed
<1>2. \A n \in 0 .. 5 : Len(procUpdateQs[n]) \in Nat
  BY DEF Typed
<1>3. /\ Len(procQ) \in Nat /\ Len(mapResp) \in Nat /\ Len(reqQ) \in Nat /\ Len(blkResp) \in Nat
      /\ Len(respQ_pre) \in Nat /\ Len(respQ) \in Nat /\ Len(resp_errorQ) \in Nat
      /\ Len(minEntVecQ) \in Nat /\ Len(minPeEntryQ) \in Nat
  <2>1. /\ procQ \in Seq(Reqs) /\ mapResp \in Seq(MapEntries) /\ reqQ \in Seq(Reqs)
        /\ blkResp \in Seq([LaneSet -> BlkEntries])
        /\ respQ_pre \in Seq(FlashCmds) /\ respQ \in Seq(FlashCmds) /\ resp_errorQ \in Seq(ErrorCmds)
        /\ minEntVecQ \in Seq([LaneSet -> MinEntries])
        /\ minPeEntryQ \in Seq(Blocks \X (0 .. EraseMod - 1))
    BY DEF Typed
  <2> QED
    BY <2>1
<1>4. Len(markBadDoneQ) \in Nat
  BY LenProperties DEF Typed
<1> QED
  BY <1>1, <1>2, <1>3, <1>4

(* Everything is empty except the given queues.                            *)
Rest(names, stages) ==
  /\ \A n \in ProcNames \ names : procQs[n] = <<>>
  /\ \A n \in (0 .. 5) \ stages : procUpdateQs[n] = <<>>
  /\ respQ_pre = <<>> /\ respQ = <<>> /\ resp_errorQ = <<>> /\ markBadDoneQ = <<>>

(* A queue of length 0 is empty.                                           *)
LEMMA EmptyQueues ==
  ASSUME Typed
  PROVE  /\ \A n \in ProcNames : Len(procQs[n]) = 0 => procQs[n] = <<>>
         /\ \A n \in 0 .. 5 : Len(procUpdateQs[n]) = 0 => procUpdateQs[n] = <<>>
         /\ Len(procQ) = 0 => procQ = <<>>
         /\ Len(respQ_pre) = 0 => respQ_pre = <<>>
         /\ Len(respQ) = 0 => respQ = <<>>
         /\ Len(resp_errorQ) = 0 => resp_errorQ = <<>>
         /\ Len(markBadDoneQ) = 0 => markBadDoneQ = <<>>
         /\ Len(blkResp) = 0 => blkResp = <<>>
  BY DEF Typed

(* What InLookup says of the queues it counts.                             *)
LEMMA LookupCount ==
  ASSUME Typed
  PROVE  /\ InLookup \in Nat
         /\ InLookup = 0 => procQ = <<>> /\ \A n \in ProcNames : procQs[n] = <<>>
         /\ Len(procQ) > 0 => InLookup >= Len(procQ)
         /\ \A n \in ProcNames : Len(procQs[n]) > 0 => InLookup >= Len(procQs[n])
         /\ Len(procQ) > 0 /\ InLookup <= 1 => \A n \in ProcNames : procQs[n] = <<>>
         /\ \A n \in ProcNames : Len(procQs[n]) > 0 /\ InLookup <= 1 =>
              procQ = <<>> /\ \A m \in ProcNames \ {n} : procQs[m] = <<>>
<1> DEFINE q == Len(procQ)
           r == Len(procQs["R"])
           w == Len(procQs["W"])
           t == Len(procQs["W_trig"])
           e == Len(procQs["E"])
           b == Len(procQs["MB"])
<1>1. q \in Nat /\ r \in Nat /\ w \in Nat /\ t \in Nat /\ e \in Nat /\ b \in Nat
  BY Lengths DEF ProcNames
<1>2. InLookup = q + r + w + t + e + b
  <2>1. InLookup = q + (r + w + t + e + b)
    BY DEF InLookup, ProcsLen
  <2> HIDE DEF q, r, w, t, e, b
  <2> QED
    BY <1>1, <2>1
<1>3. /\ q = 0 => procQ = <<>>
      /\ r = 0 => procQs["R"] = <<>>
      /\ w = 0 => procQs["W"] = <<>>
      /\ t = 0 => procQs["W_trig"] = <<>>
      /\ e = 0 => procQs["E"] = <<>>
      /\ b = 0 => procQs["MB"] = <<>>
  BY EmptyQueues DEF ProcNames
<1> HIDE DEF q, r, w, t, e, b
<1>4. /\ InLookup \in Nat
      /\ InLookup = 0 => q = 0 /\ r = 0 /\ w = 0 /\ t = 0 /\ e = 0 /\ b = 0
      /\ q > 0 => InLookup >= q /\ (InLookup <= 1 => r = 0 /\ w = 0 /\ t = 0 /\ e = 0 /\ b = 0)
      /\ r > 0 => InLookup >= r /\ (InLookup <= 1 => q = 0 /\ w = 0 /\ t = 0 /\ e = 0 /\ b = 0)
      /\ w > 0 => InLookup >= w /\ (InLookup <= 1 => q = 0 /\ r = 0 /\ t = 0 /\ e = 0 /\ b = 0)
      /\ t > 0 => InLookup >= t /\ (InLookup <= 1 => q = 0 /\ r = 0 /\ w = 0 /\ e = 0 /\ b = 0)
      /\ e > 0 => InLookup >= e /\ (InLookup <= 1 => q = 0 /\ r = 0 /\ w = 0 /\ t = 0 /\ b = 0)
      /\ b > 0 => InLookup >= b /\ (InLookup <= 1 => q = 0 /\ r = 0 /\ w = 0 /\ t = 0 /\ e = 0)
  BY <1>1, <1>2
<1>5. /\ InLookup = 0 => procQ = <<>> /\ \A n \in ProcNames : procQs[n] = <<>>
      /\ q > 0 /\ InLookup <= 1 => \A n \in ProcNames : procQs[n] = <<>>
  BY <1>3, <1>4 DEF ProcNames
<1>6. ASSUME NEW n \in ProcNames, Len(procQs[n]) > 0
      PROVE  /\ InLookup >= Len(procQs[n])
             /\ InLookup <= 1 => procQ = <<>> /\ \A m \in ProcNames \ {n} : procQs[m] = <<>>
  BY <1>3, <1>4, <1>6 DEF ProcNames, r, w, t, e, b
<1> QED
  BY <1>4, <1>5, <1>6 DEF q

(* What InUpdate says of the stages; while lines are requested the command *)
(* is in stages 0 and 1 and is counted once.                               *)
LEMMA UpdateCount ==
  ASSUME Typed, ScanFits
  PROVE  /\ InUpdate \in Nat
         /\ blkScanReqCnt # 0 => Len(procUpdateQs[0]) > 0 /\ Len(procUpdateQs[1]) > 0
         /\ InUpdate = 0 => blkScanReqCnt = 0 /\ \A n \in 0 .. 5 : procUpdateQs[n] = <<>>
         /\ blkScanReqCnt # 0 /\ InUpdate <= 1 =>
              /\ InUpdate = 1 /\ Len(procUpdateQs[0]) = 1 /\ Len(procUpdateQs[1]) = 1
              /\ \A n \in 2 .. 5 : procUpdateQs[n] = <<>>
         /\ \A n \in 0 .. 5 :
              (Len(procUpdateQs[n]) > 0 /\ InUpdate <= 1 /\ (blkScanReqCnt = 0 \/ n > 1)) =>
              /\ InUpdate = 1 /\ Len(procUpdateQs[n]) = 1 /\ blkScanReqCnt = 0
              /\ \A m \in (0 .. 5) \ {n} : procUpdateQs[m] = <<>>
<1> DEFINE u0 == Len(procUpdateQs[0])
           u1 == Len(procUpdateQs[1])
           u2 == Len(procUpdateQs[2])
           u3 == Len(procUpdateQs[3])
           u4 == Len(procUpdateQs[4])
           u5 == Len(procUpdateQs[5])
<1>1. u0 \in Nat /\ u1 \in Nat /\ u2 \in Nat /\ u3 \in Nat /\ u4 \in Nat /\ u5 \in Nat
  BY Lengths
<1>2. InUpdate = u0 + u1 + u2 + u3 + u4 + u5 - (IF blkScanReqCnt = 0 THEN 0 ELSE 1)
  BY DEF InUpdate, StagesLen
<1>3. blkScanReqCnt # 0 => u0 > 0 /\ u1 > 0
  BY DEF ScanFits, At
<1>4. /\ u0 = 0 => procUpdateQs[0] = <<>>
      /\ u1 = 0 => procUpdateQs[1] = <<>>
      /\ u2 = 0 => procUpdateQs[2] = <<>>
      /\ u3 = 0 => procUpdateQs[3] = <<>>
      /\ u4 = 0 => procUpdateQs[4] = <<>>
      /\ u5 = 0 => procUpdateQs[5] = <<>>
  BY EmptyQueues
<1> HIDE DEF u0, u1, u2, u3, u4, u5
<1>5. /\ InUpdate \in Nat
      /\ InUpdate = 0 => /\ blkScanReqCnt = 0 
                         /\ u0 = 0 /\ u1 = 0 /\ u2 = 0 /\ u3 = 0 /\ u4 = 0 /\ u5 = 0
      /\ blkScanReqCnt # 0 /\ InUpdate <= 1 =>
           InUpdate = 1 /\ u0 = 1 /\ u1 = 1 /\ u2 = 0 /\ u3 = 0 /\ u4 = 0 /\ u5 = 0
  BY <1>1, <1>2, <1>3
<1>6. ASSUME InUpdate <= 1
      PROVE  /\ blkScanReqCnt = 0 /\ u0 > 0 =>
                  InUpdate = 1 /\ u0 = 1 /\ u1 = 0 /\ u2 = 0 /\ u3 = 0 /\ u4 = 0 /\ u5 = 0
             /\ blkScanReqCnt = 0 /\ u1 > 0 =>
                  InUpdate = 1 /\ u0 = 0 /\ u1 = 1 /\ u2 = 0 /\ u3 = 0 /\ u4 = 0 /\ u5 = 0
             /\ u2 > 0 => /\ InUpdate = 1 /\ blkScanReqCnt = 0
                          /\ u0 = 0 /\ u1 = 0 /\ u2 = 1 /\ u3 = 0 /\ u4 = 0 /\ u5 = 0
             /\ u3 > 0 => /\ InUpdate = 1 /\ blkScanReqCnt = 0
                          /\ u0 = 0 /\ u1 = 0 /\ u2 = 0 /\ u3 = 1 /\ u4 = 0 /\ u5 = 0
             /\ u4 > 0 => /\ InUpdate = 1 /\ blkScanReqCnt = 0
                          /\ u0 = 0 /\ u1 = 0 /\ u2 = 0 /\ u3 = 0 /\ u4 = 1 /\ u5 = 0
             /\ u5 > 0 => /\ InUpdate = 1 /\ blkScanReqCnt = 0
                          /\ u0 = 0 /\ u1 = 0 /\ u2 = 0 /\ u3 = 0 /\ u4 = 0 /\ u5 = 1
  BY <1>1, <1>2, <1>3, <1>6
<1>7. ASSUME NEW n \in 0 .. 5, Len(procUpdateQs[n]) > 0, InUpdate <= 1, blkScanReqCnt = 0 \/ n > 1
      PROVE  /\ InUpdate = 1 /\ Len(procUpdateQs[n]) = 1 /\ blkScanReqCnt = 0
             /\ \A m \in (0 .. 5) \ {n} : procUpdateQs[m] = <<>>
  <2>1. n \in {0, 1, 2, 3, 4, 5} /\ \A m \in 0 .. 5 : m \in {0, 1, 2, 3, 4, 5}
    OBVIOUS
  <2> QED
    BY <1>4, <1>6, <1>7, <2>1 DEF u0, u1, u2, u3, u4, u5
<1> QED
  <2>1. \A m \in 0 .. 5 : m \in {0, 1, 2, 3, 4, 5}
    OBVIOUS
  <2> QED
    BY <1>3, <1>4, <1>5, <1>7, <2>1 DEF u0, u1

(* What InAnswer says of the queues behind the pipeline.                   *)
LEMMA AnswerCount ==
  ASSUME Typed
  PROVE  /\ InAnswer \in Nat
         /\ InAnswer >= Len(respQ_pre) /\ InAnswer >= Len(respQ)
         /\ InAnswer >= Len(resp_errorQ) /\ InAnswer >= Len(markBadDoneQ)
         /\ InAnswer = 0 =>
              respQ_pre = <<>> /\ respQ = <<>> /\ resp_errorQ = <<>> /\ markBadDoneQ = <<>>
         /\ InAnswer <= 1 =>
              /\ Len(respQ_pre) > 0 => /\ Len(respQ_pre) = 1 /\ respQ = <<>>
                                       /\ resp_errorQ = <<>> /\ markBadDoneQ = <<>>
              /\ Len(respQ) > 0 => /\ Len(respQ) = 1 /\ respQ_pre = <<>>
                                   /\ resp_errorQ = <<>> /\ markBadDoneQ = <<>>
              /\ Len(resp_errorQ) > 0 => /\ Len(resp_errorQ) = 1 /\ respQ_pre = <<>>
                                         /\ respQ = <<>> /\ markBadDoneQ = <<>>
              /\ Len(markBadDoneQ) > 0 => /\ Len(markBadDoneQ) = 1 /\ respQ_pre = <<>>
                                          /\ respQ = <<>> /\ resp_errorQ = <<>>
<1> DEFINE p == Len(respQ_pre)
           r == Len(respQ)
           e == Len(resp_errorQ)
           d == Len(markBadDoneQ)
<1>1. p \in Nat /\ r \in Nat /\ e \in Nat /\ d \in Nat
  BY Lengths
<1>2. InAnswer = p + r + e + d
  BY DEF InAnswer
<1>3. /\ p = 0 => respQ_pre = <<>>
      /\ r = 0 => respQ = <<>>
      /\ e = 0 => resp_errorQ = <<>>
      /\ d = 0 => markBadDoneQ = <<>>
  BY EmptyQueues
<1> HIDE DEF p, r, e, d
<1>4. /\ InAnswer \in Nat /\ InAnswer >= p /\ InAnswer >= r /\ InAnswer >= e /\ InAnswer >= d
      /\ InAnswer = 0 => p = 0 /\ r = 0 /\ e = 0 /\ d = 0
      /\ InAnswer <= 1 => /\ p > 0 => p = 1 /\ r = 0 /\ e = 0 /\ d = 0
                          /\ r > 0 => p = 0 /\ r = 1 /\ e = 0 /\ d = 0
                          /\ e > 0 => p = 0 /\ r = 0 /\ e = 1 /\ d = 0
                          /\ d > 0 => p = 0 /\ r = 0 /\ e = 0 /\ d = 1
  BY <1>1, <1>2
<1> QED
  BY <1>3, <1>4 DEF p, r, e, d

(* inProgress and the three counts.                                        *)
LEMMA Alone ==
  ASSUME Typed, ScanFits, InProgressExact
  PROVE  /\ InLookup \in Nat /\ InUpdate \in Nat /\ InAnswer \in Nat
         /\ inProgress => InLookup + InUpdate + InAnswer = 1
         /\ ~inProgress => InLookup = 0 /\ InUpdate = 0 /\ InAnswer = 0
  BY LookupCount, UpdateCount, AnswerCount DEF InProgressExact, InPipe

(* A command waiting in a procQ is the only one.                           *)
LEMMA AtProc ==
  ASSUME Typed, InProgressExact, ScanFits, NEW n \in ProcNames, NotEmpty(procQs[n])
  PROVE  /\ inProgress /\ Len(procQs[n]) = 1 /\ procQ = <<>> /\ Rest({n}, {})
         /\ blkScanReqCnt = 0
<1> DEFINE q == Len(procQs[n])
<1>1. q \in Nat /\ q > 0
  BY Lengths DEF NotEmpty
<1>2. InLookup >= q
  BY <1>1, LookupCount
<1> HIDE DEF q
<1>3. InLookup = 1 /\ InUpdate = 0 /\ InAnswer = 0 /\ inProgress /\ q = 1
  BY <1>1, <1>2, Alone
<1>4. procQ = <<>> /\ \A m \in ProcNames \ {n} : procQs[m] = <<>>
  BY <1>1, <1>3, LookupCount DEF q
<1>5. blkScanReqCnt = 0 /\ \A m \in 0 .. 5 : procUpdateQs[m] = <<>>
  BY <1>3, UpdateCount
<1>6. respQ_pre = <<>> /\ respQ = <<>> /\ resp_errorQ = <<>> /\ markBadDoneQ = <<>>
  BY <1>3, AnswerCount
<1> QED
  BY <1>3, <1>4, <1>5, <1>6 DEF Rest, q

(* A command at an update stage is the only one.                           *)
LEMMA AtStage ==
  ASSUME Typed, InProgressExact, ScanFits, NEW n \in 0 .. 5, NotEmpty(procUpdateQs[n]),
         n > 1 \/ blkScanReqCnt = 0
  PROVE  /\ inProgress /\ Len(procUpdateQs[n]) = 1 /\ procQ = <<>> /\ Rest({}, {n})
         /\ blkScanReqCnt = 0
<1>1. InUpdate <= 1
  BY Alone
<1>2. InUpdate = 1 /\ Len(procUpdateQs[n]) = 1 /\ blkScanReqCnt = 0
  BY <1>1, UpdateCount DEF NotEmpty
<1>3. InLookup = 0 /\ InAnswer = 0 /\ inProgress
  BY <1>2, Alone
<1> QED
  BY <1>2, <1>3, LookupCount, UpdateCount, AnswerCount DEF Rest, NotEmpty

(* While the lines are requested the command is in stages 0 and 1 only.    *)
LEMMA AtScan ==
  ASSUME Typed, InProgressExact, ScanFits, blkScanReqCnt # 0
  PROVE  /\ inProgress /\ Len(procUpdateQs[0]) = 1 /\ Len(procUpdateQs[1]) = 1
         /\ procQ = <<>> /\ Rest({}, {0, 1})
<1>1. InUpdate = 1
  BY Alone, UpdateCount
<1>2. InLookup = 0 /\ InAnswer = 0 /\ inProgress
  BY <1>1, Alone
<1> QED
  BY <1>1, <1>2, LookupCount, UpdateCount, AnswerCount DEF Rest

(* Before its lookup and at its answer the command is nowhere else.        *)
LEMMA AtEnd ==
  ASSUME Typed, InProgressExact, ScanFits,
         \/ ~inProgress \/ NotEmpty(respQ) \/ NotEmpty(respQ_pre)
         \/ NotEmpty(resp_errorQ) \/ NotEmpty(markBadDoneQ) \/ NotEmpty(procQ)
  PROVE  /\ \A n \in ProcNames : procQs[n] = <<>>
         /\ \A n \in 0 .. 5 : procUpdateQs[n] = <<>>
         /\ blkScanReqCnt = 0
         /\ Len(procQ) + InAnswer = IF inProgress THEN 1 ELSE 0
<1>1. /\ InLookup <= 1 /\ InUpdate = 0
      /\ InLookup + InAnswer = IF inProgress THEN 1 ELSE 0
      /\ Len(procQ) > 0 \/ InLookup = 0
  <2>1. CASE NotEmpty(procQ)
    <3>1. InLookup >= Len(procQ) /\ Len(procQ) > 0 /\ Len(procQ) \in Nat
      BY <2>1, LookupCount, Lengths DEF NotEmpty
    <3> QED
      BY <3>1, Alone
  <2>2. CASE NotEmpty(respQ) \/ NotEmpty(respQ_pre) \/ NotEmpty(resp_errorQ) \/ NotEmpty(markBadDoneQ)
    <3>1. InAnswer > 0
      <4>1. /\ Len(respQ) \in Nat /\ Len(respQ_pre) \in Nat
            /\ Len(resp_errorQ) \in Nat /\ Len(markBadDoneQ) \in Nat
        BY Lengths
      <4> QED
        BY <2>2, <4>1, AnswerCount DEF NotEmpty
    <3> QED
      BY <3>1, Alone
  <2>3. CASE ~inProgress
    BY <2>3, Alone
  <2> QED
    BY <2>1, <2>2, <2>3
<1>2. \A n \in ProcNames : procQs[n] = <<>>
  BY <1>1, LookupCount
<1>3. InLookup = Len(procQ)
  <2>1. Len(procQ) \in Nat /\ \A n \in ProcNames : Len(procQs[n]) = 0
    BY <1>2, Lengths
  <2>2. ProcsLen(procQs) = 0
    BY <1>2, LookupSum DEF Typed
  <2> QED
    BY <2>1, <2>2 DEF InLookup
<1> QED
  BY <1>1, <1>2, <1>3, UpdateCount

(* The count, where a command can be.                                      *)
NoStage == (\A n \in ProcNames : procQs[n] = <<>>) /\ (\A n \in 0 .. 5 : procUpdateQs[n] = <<>>)
Places ==
  /\ \A n \in ProcNames : (procQ = <<>> /\ Rest({n}, {}) /\ blkScanReqCnt = 0)
       => InPipe = Len(procQs[n])
  /\ \A n \in 0 .. 5 : (procQ = <<>> /\ Rest({}, {n}) /\ blkScanReqCnt = 0)
       => InPipe = Len(procUpdateQs[n])
  /\ procQ = <<>> /\ Rest({}, {0, 1}) =>
       InPipe = Len(procUpdateQs[0]) + Len(procUpdateQs[1]) - (IF blkScanReqCnt = 0 THEN 0 ELSE 1)
  /\ NoStage /\ blkScanReqCnt = 0 => InPipe = Len(procQ) + InAnswer

(* The converse: a command that is in one place only is counted once.      *)
LEMMA CountPlaces == Typed => Places
<1> SUFFICES ASSUME Typed PROVE Places
  OBVIOUS
<1>0. /\ procQs \in [ProcNames -> Seq(Items)] /\ procUpdateQs \in [0 .. 5 -> Seq(UpdateCmds)]
      /\ Len(<<>>) = 0 /\ Len(procQ) \in Nat
      /\ \A n \in ProcNames : Len(procQs[n]) \in Nat
      /\ \A n \in 0 .. 5 : Len(procUpdateQs[n]) \in Nat
  BY EmptySeq, Lengths DEF Typed
<1>1. ASSUME NEW names, NEW stages, procQ = <<>>, Rest(names, stages)
      PROVE  InPipe = ProcsLen(procQs) + StagesLen(procUpdateQs)
                      - (IF blkScanReqCnt = 0 THEN 0 ELSE 1)
  <2>1. InAnswer = 0
    BY <1>0, <1>1 DEF InAnswer, Rest
  <2>2. ProcsLen(procQs) \in Nat /\ StagesLen(procUpdateQs) \in Nat
    BY <1>0, LookupSum, UpdateSum
  <2> QED
    BY <1>0, <1>1, <2>1, <2>2 DEF InPipe, InLookup, InUpdate
<1>2. ASSUME NEW n \in ProcNames, procQ = <<>>, Rest({n}, {}), blkScanReqCnt = 0
      PROVE  InPipe = Len(procQs[n])
  <2>1. ProcsLen(procQs) = Len(procQs[n])
    BY <1>0, <1>2, LookupSum DEF Rest
  <2>2. StagesLen(procUpdateQs) = 0
    BY <1>0, <1>2, UpdateSum DEF Rest
  <2> QED
    BY <1>0, <1>1, <1>2, <2>1, <2>2
<1>3. ASSUME NEW n \in 0 .. 5, procQ = <<>>, Rest({}, {n}), blkScanReqCnt = 0
      PROVE  InPipe = Len(procUpdateQs[n])
  <2>1. ProcsLen(procQs) = 0
    BY <1>0, <1>3, LookupSum DEF Rest
  <2>2. StagesLen(procUpdateQs) = Len(procUpdateQs[n])
    BY <1>0, <1>3, UpdateSum DEF Rest
  <2> QED
    BY <1>0, <1>1, <1>3, <2>1, <2>2
<1>4. ASSUME procQ = <<>>, Rest({}, {0, 1})
      PROVE  InPipe = Len(procUpdateQs[0]) + Len(procUpdateQs[1])
                      - (IF blkScanReqCnt = 0 THEN 0 ELSE 1)
  <2>1. ProcsLen(procQs) = 0
    BY <1>0, <1>4, LookupSum DEF Rest
  <2>2. StagesLen(procUpdateQs) = Len(procUpdateQs[0]) + Len(procUpdateQs[1])
    <3>1. \A m \in 2 .. 5 : procUpdateQs[m] = <<>>
      BY <1>4 DEF Rest
    <3> QED
      BY <1>0, <3>1, UpdateSum
  <2> QED
    BY <1>0, <1>1, <1>4, <2>1, <2>2
<1>5. ASSUME NoStage, blkScanReqCnt = 0
      PROVE  InPipe = Len(procQ) + InAnswer
  <2>1. ProcsLen(procQs) = 0
    BY <1>0, <1>5, LookupSum DEF NoStage
  <2>2. StagesLen(procUpdateQs) = 0
    BY <1>0, <1>5, UpdateSum DEF NoStage
  <2>3. InAnswer \in Nat
    BY AnswerCount
  <2> QED
    BY <1>0, <1>5, <2>1, <2>2, <2>3 DEF InPipe, InLookup, InUpdate
<1> QED
  BY <1>2, <1>3, <1>4, <1>5 DEF Places

-----------------------------------------------------------------------------
(* What a step leaves alone.                                               *)

(* A step that leaves the update stages alone keeps what fits them.        *)
LEMMA KeptStages ==
  ASSUME Stages, UNCHANGED <<tables, procUpdateQs, blkResp, scanRegs>>
  PROVE  Stages'
<1> USE DEF tables, scanRegs
<1>1. UpdatesFit'
  <2>1. \A n \in 0 .. 5 : Cur(n)' = Cur(n) /\ (At(n)' <=> At(n))
    BY DEF Cur, At
  <2>2. ASSUME NEW u PROVE UpdateFits(u)' <=> UpdateFits(u)
    BY DEF UpdateFits
  <2> QED
    BY <2>1, <2>2 DEF Stages, UpdatesFit
<1>2. ScanFits'
  BY ZenonT(30) DEF Stages, ScanFits, Requested, Candidate, IsFree, Line, Cur, At
<1>3. ChoiceFits'
  BY DEF Stages, ChoiceFits, Candidate, IsFree, Cur, At
<1>4. PickFits'
  BY DEF Stages, PickFits, Allocating, IsFree, Cur, At
<1>5. LineFits'
  BY DEF Stages, LineFits, Line, Cur, At
<1>6. Owed'
  BY DEF Stages, Owed, Allocating, IsFree, Cur, At
<1> QED
  BY <1>1, <1>2, <1>3, <1>4, <1>5, <1>6 DEF Stages

(* The update pipeline without a command, in any state of the tables.      *)
Resting ==
  /\ \A n \in 0 .. 5 : procUpdateQs[n] = <<>>
  /\ blkResp = <<>> /\ blkScanReqCnt = 0 /\ blkScanRespCnt = 0 /\ blkScanFinalCnt = 0
  /\ curMinEnt = [l \in LaneSet |-> Invalid] /\ minEntVecQ = <<>> /\ theMinEntry = Invalid
  /\ minPeEntryQ = <<>>

(* Resting is Stages with no command in the update stages.                 *)
LEMMA StagesRest ==
  /\ Resting => Stages
  /\ Stages /\ blkScanReqCnt = 0 /\ (\A n \in 0 .. 5 : procUpdateQs[n] = <<>>) => Resting
<1>1. ASSUME \A n \in 0 .. 5 : procUpdateQs[n] = <<>> PROVE \A n \in 0 .. 5 : ~At(n)
  BY <1>1 DEF At
<1>2. ASSUME \A n \in 0 .. 5 : ~At(n) PROVE UpdatesFit /\ Owed
  BY <1>2 DEF UpdatesFit, Owed, Allocating
<1>3. ASSUME \A n \in 0 .. 5 : ~At(n)
      PROVE  /\ ScanFits <=> /\ blkScanReqCnt = 0 /\ blkScanRespCnt = 0
                             /\ curMinEnt = [l \in LaneSet |-> Invalid]
             /\ ChoiceFits <=> minEntVecQ = <<>> /\ blkScanFinalCnt = 0 /\ theMinEntry = Invalid
             /\ PickFits <=> minPeEntryQ = <<>>
             /\ LineFits <=> blkResp = <<>>
  BY <1>3 DEF ScanFits, ChoiceFits, PickFits, LineFits, Allocating
<1> QED
  BY <1>1, <1>2, <1>3 DEF Stages, Resting

(* A step that leaves tables, stages and restore alone keeps their         *)
(* agreement.                                                              *)
LEMMA KeptTables ==
  ASSUME UNCHANGED <<blockmap, blkinfo, procUpdateQs, restoring>>, TablesAgree
  PROVE  TablesAgree'
  BY DEF TablesAgree, MappedBlocksDistinct, MappedNeverFree, MapPending

(* Once the tables are loaded there is nothing left to restore.            *)
LEMMA Loaded ==
  ASSUME Typed, InProgressExact, Restoring, ScanFits,
         inProgress \/ NotEmpty(reqQ) \/ NotEmpty(respQ_pre)
  PROVE  restoring = <<>>
<1> SUFFICES ASSUME restoring # <<>> PROVE FALSE
  OBVIOUS
<1>1. reqQ = <<>> /\ ~inProgress
  BY DEF Restoring
<1>2. InAnswer = 0
  BY <1>1, Alone
<1> QED
  BY <1>1, <1>2, AnswerCount DEF NotEmpty

(* What the host writes holds every line of the block table.               *)
LEMMA ImageOrder ==
  ASSUME NEW im \in Images
  PROVE  \A c \in Chips, w \in 0 .. Words - 1 :
           \E i \in 1 .. Len(im.order) : im.order[i] = <<"blkinfo", c, w>>
BY ImagesAssumption, Zenon

(* The initial state: tables empty, the whole restore to come.             *)
LEMMA InitIInv == Init => IInv
<1> SUFFICES ASSUME Init PROVE IInv
  OBVIOUS
<1> USE AFTLAssumption DEF Init
<1>1. Typed
  <2>1. blockmap \in [MapAddrs -> MapEntries] /\ blkinfo \in [Chips -> [Blocks -> BlkEntries]]
    BY ZeroBlock DEF MapEntries, BlkEntries
  <2>2. restoring \in Seq(HostSteps)
    BY ImagesAssumption DEF HostSteps
  <2>3. curMinEnt \in [LaneSet -> MinEntries] /\ minEnt \in [LaneSet -> MinEntries]
        /\ theMinEntry \in MinEntries
    BY DEF MinEntries
  <2>4. procQs \in [ProcNames -> Seq(Items)] /\ procUpdateQs \in [0 .. 5 -> Seq(UpdateCmds)]
    OBVIOUS
  <2>5. 0 \in 0 .. Words - 1 /\ 0 \in 0 .. Lanes - 1
    OBVIOUS
  <2> QED
    BY <2>1, <2>2, <2>3, <2>4, <2>5, EmptySeq DEF Typed
<1>2. Fits
  BY DEF Fits
<1>3. Resting
  BY DEF Resting
<1>4. InProgressExact
  BY DEF InProgressExact, InPipe, InLookup, InUpdate, InAnswer, ProcsLen, StagesLen, ProcNames
<1>5. LookupFits /\ ProcFits
  BY DEF LookupFits, ProcFits
<1>6. Restoring
  <2>1. /\ image \in Images /\ restoring = image.order /\ reqQ = <<>> /\ ~inProgress
        /\ \A a \in MapAddrs : blockmap[a].status = "NOT_ALLOCATED"
    OBVIOUS
  <2> HIDE DEF Init
  <2>2. restoring[Len(restoring)] = <<"loaded">>
    BY <2>1, ImagesAssumption
  <2>3. \A a \in MapAddrs : ToCome(<<"map", a>>)
    BY <2>1, ImagesAssumption DEF ToCome
  <2>4. \A c \in Chips, w \in 0 .. Words - 1 : ToCome(<<"blkinfo", c, w>>)
    BY <2>1, ImageOrder DEF ToCome
  <2>5. \A b \in Blocks : b \div Lanes \in 0 .. Words - 1
    BY LanesOfABlock
  <2> QED
    BY <2>1, <2>2, <2>3, <2>4, <2>5, Zenon DEF Restoring
<1>7. TablesAgree
  BY ImagesAssumption DEF TablesAgree, MappedBlocksDistinct, MappedNeverFree
<1> QED
  BY <1>1, <1>2, <1>3, <1>4, <1>5, <1>6, <1>7, StagesRest DEF IInv, Pipeline

-----------------------------------------------------------------------------
(* The host.                                                               *)

(* translateReq: a request is queued, the pipeline is as before.           *)
LEMMA TranslateReqStep ==
  ASSUME IInv, NEW r \in Reqs, TranslateReq(r)
  PROVE  IInv'
<1> USE DEF TranslateReq, NotFull
<1>0. Typed /\ Fits /\ Pipeline /\ TablesAgree
  BY DEF IInv
<1>1. reqQ' \in Seq(Reqs) /\ Len(reqQ') = Len(reqQ) + 1 /\ Len(reqQ) \in Nat
  <2>1. reqQ \in Seq(Reqs)
    BY <1>0 DEF Typed
  <2> QED
    BY <2>1
<1>2. Typed'
  BY <1>0, <1>1 DEF Typed, tables, outputs, scanRegs, host
<1>3. Fits'
  BY <1>0, <1>1, AFTLAssumption DEF Fits
<1>4. InProgressExact' /\ LookupFits' /\ ProcFits'
  BY <1>0 DEF Pipeline, InProgressExact, InPipe, InLookup, InUpdate, InAnswer, LookupFits, ProcFits, ItemFits,
              tables, outputs, scanRegs
<1>5. Stages'
  BY <1>0, KeptStages DEF Pipeline
<1>6. TablesAgree'
  BY <1>0, KeptTables DEF tables, host
<1>7. Restoring'
  BY DEF Restoring, host
<1> QED
  BY <1>2, <1>3, <1>4, <1>5, <1>6, <1>7 DEF IInv, Pipeline

(* resp.get and respError.get: the answered command leaves the module.     *)
LEMMA AnsweredStep ==
  ASSUME IInv, Answered
  PROVE  IInv'
<1> USE DEF Answered, RespGet, RespErrorGet
<1>0. Typed /\ Fits /\ Pipeline /\ TablesAgree /\ Restoring /\ ScanFits /\ InProgressExact
  BY DEF IInv, Pipeline, Stages
<1>1. NotEmpty(respQ) \/ NotEmpty(resp_errorQ)
  OBVIOUS
<1>2. /\ \A n \in ProcNames : procQs[n] = <<>>
      /\ \A n \in 0 .. 5 : procUpdateQs[n] = <<>>
      /\ blkScanReqCnt = 0 /\ Len(procQ) + InAnswer = 1
  BY <1>0, <1>1, AtEnd
<1>3. /\ procQ = <<>> /\ respQ_pre = <<>> /\ markBadDoneQ = <<>>
      /\ respQ' = <<>> /\ resp_errorQ' = <<>>
  <2>1. Len(procQ) \in Nat /\ InAnswer \in Nat /\ InAnswer >= Len(respQ) /\ InAnswer >= Len(resp_errorQ)
    BY <1>0, Lengths, AnswerCount
  <2>2. InAnswer >= 1
    <3>1. Len(respQ) \in Nat /\ Len(resp_errorQ) \in Nat
      BY <1>0, Lengths
    <3> QED
      BY <1>1, <2>1, <3>1 DEF NotEmpty
  <2>3. Len(procQ) = 0 /\ InAnswer = 1
    BY <1>2, <2>1, <2>2
  <2>4. CASE RespGet
    <3>1. Len(respQ) = 1 /\ respQ_pre = <<>> /\ resp_errorQ = <<>> /\ markBadDoneQ = <<>>
      BY <1>0, <2>3, <2>4, AnswerCount DEF NotEmpty
    <3> QED
      BY <1>0, <2>3, <2>4, <3>1, EmptyQueues, TailOfOne DEF Typed
  <2>5. CASE RespErrorGet
    <3>1. Len(resp_errorQ) = 1 /\ respQ_pre = <<>> /\ respQ = <<>> /\ markBadDoneQ = <<>>
      BY <1>0, <2>3, <2>5, AnswerCount DEF NotEmpty
    <3> QED
      BY <1>0, <2>3, <2>5, <3>1, EmptyQueues, TailOfOne DEF Typed
  <2> QED
    BY <2>4, <2>5
<1>4. Typed'
  <2>1. inProgress' = FALSE
    OBVIOUS
  <2> QED
    BY <1>0, <1>3, <2>1, EmptySeq DEF Typed, tables, outputs, scanRegs, host
<1>5. Fits'
  BY <1>0 DEF Fits
<1>6. InProgressExact'
  <2>1. /\ procQ' = <<>> /\ procQs' = procQs /\ procUpdateQs' = procUpdateQs
        /\ respQ_pre' = <<>> /\ markBadDoneQ' = <<>> /\ inProgress' = FALSE /\ blkScanReqCnt' = 0
    BY <1>2, <1>3 DEF scanRegs
  <2>2. Typed' => Places'
    BY CountPlaces, PTL
  <2>3. InAnswer' = 0
    BY <1>3, <2>1, EmptySeq DEF InAnswer
  <2>4. NoStage'
    BY <1>2, <2>1 DEF NoStage
  <2>5. Len(procQ') = 0
    BY <2>1, EmptySeq
  <2> QED
    BY <1>4, <2>1, <2>2, <2>3, <2>4, <2>5 DEF InProgressExact, Places
<1>7. LookupFits' /\ ProcFits'
  BY <1>0, <1>2 DEF Pipeline, LookupFits, ProcFits, ItemFits, tables
<1>8. Stages'
  BY <1>0, KeptStages DEF Pipeline
<1>9. TablesAgree' /\ Restoring'
  <2>1. restoring = <<>>
    BY <1>0, Loaded
  <2> QED
    BY <1>0, <2>1, KeptTables DEF Restoring, tables, host
<1> QED
  BY <1>4, <1>5, <1>6, <1>7, <1>8, <1>9 DEF IInv, Pipeline

(* routeRespQ and drainMarkBadDone: the last two rules a command meets.    *)
LEMMA OutputStep ==
  ASSUME IInv, RouteRespQ \/ DrainMarkBadDone
  PROVE  IInv'
<1> USE DEF RouteRespQ, DrainMarkBadDone
<1>0. Typed /\ Fits /\ Pipeline /\ TablesAgree /\ Restoring /\ ScanFits /\ InProgressExact
  BY DEF IInv, Pipeline, Stages
<1>1. NotEmpty(respQ_pre) \/ NotEmpty(markBadDoneQ)
  OBVIOUS
<1>2. NoStage /\ blkScanReqCnt = 0 /\ Len(procQ) + InAnswer = IF inProgress THEN 1 ELSE 0
  BY <1>0, <1>1, AtEnd DEF NoStage
<1>3. procQ = <<>> /\ InAnswer = 1 /\ inProgress
  <2>1. /\ Len(procQ) \in Nat /\ InAnswer \in Nat
        /\ InAnswer >= Len(respQ_pre) /\ InAnswer >= Len(markBadDoneQ)
    BY <1>0, Lengths, AnswerCount
  <2>2. InAnswer >= 1
    <3>1. Len(respQ_pre) \in Nat /\ Len(markBadDoneQ) \in Nat
      BY <1>0, Lengths
    <3> QED
      BY <1>1, <2>1, <3>1 DEF NotEmpty
  <2>3. Len(procQ) = 0 /\ InAnswer = 1 /\ inProgress
    BY <1>2, <2>1, <2>2
  <2> QED
    BY <1>0, <2>3, EmptyQueues
<1>4. restoring = <<>>
  BY <1>0, <1>3, Loaded
<1>5. Typed'
  <2>1. CASE RouteRespQ
    <3>1. respQ_pre \in Seq(FlashCmds) /\ respQ \in Seq(FlashCmds) /\ respQ_pre # <<>>
      BY <1>0, <2>1 DEF Typed, NotEmpty
    <3>2. respQ_pre' \in Seq(FlashCmds) /\ respQ' \in Seq(FlashCmds)
      BY <2>1, <3>1
    <3> QED
      BY <1>0, <2>1, <3>2 DEF Typed, tables, scanRegs, host
  <2>2. CASE DrainMarkBadDone
    <3>1. markBadDoneQ' \in Seq({TRUE}) /\ inProgress' = FALSE
      BY <1>0, <2>2, HeadTailProperties, EmptySeq DEF Typed, NotEmpty
    <3> QED
      BY <1>0, <2>2, <3>1 DEF Typed, tables, scanRegs, host
  <2> QED
    BY <2>1, <2>2
<1>6. Fits'
  BY <1>0 DEF Fits
<1>7. InProgressExact'
  <2>1. InAnswer' = IF inProgress' THEN 1 ELSE 0
    <3>1. CASE RouteRespQ
      <4>1. Len(respQ_pre) = 1 /\ respQ = <<>> /\ resp_errorQ = <<>> /\ markBadDoneQ = <<>>
        BY <1>0, <1>3, <3>1, AnswerCount DEF NotEmpty
      <4>2. respQ_pre' = <<>> /\ Len(respQ') = 1 /\ resp_errorQ' = <<>> /\ markBadDoneQ' = <<>>
            /\ inProgress'
        <5>1. respQ_pre \in Seq(FlashCmds)
          BY <1>0 DEF Typed
        <5>2. respQ_pre' = <<>>
          BY <3>1, <4>1, <5>1, TailOfOne
        <5>3. Len(respQ') = 1
          BY <3>1, <4>1, EmptySeq
        <5> QED
          BY <1>3, <3>1, <4>1, <5>2, <5>3
      <4> QED
        BY <4>2, EmptySeq DEF InAnswer
    <3>2. CASE DrainMarkBadDone
      <4>1. Len(markBadDoneQ) = 1 /\ respQ_pre = <<>> /\ respQ = <<>> /\ resp_errorQ = <<>>
        BY <1>0, <1>3, <3>2, AnswerCount DEF NotEmpty
      <4>2. respQ_pre' = <<>> /\ respQ' = <<>> /\ resp_errorQ' = <<>> /\ markBadDoneQ' = <<>>
            /\ inProgress' = FALSE
        <5>1. markBadDoneQ \in Seq({TRUE})
          BY <1>0 DEF Typed
        <5>2. markBadDoneQ' = <<>>
          BY <3>2, <4>1, <5>1, TailOfOne
        <5> QED
          BY <3>2, <4>1, <5>2
      <4> QED
        BY <4>2, EmptySeq DEF InAnswer
    <3> QED
      BY <3>1, <3>2
  <2>2. NoStage' /\ blkScanReqCnt' = 0 /\ Len(procQ') = 0
    BY <1>2, <1>3, EmptySeq DEF NoStage, scanRegs
  <2>3. Typed' => Places'
    BY CountPlaces, PTL
  <2> QED
    BY <1>5, <2>1, <2>2, <2>3 DEF InProgressExact, Places
<1>8. LookupFits' /\ ProcFits'
  BY <1>0 DEF Pipeline, LookupFits, ProcFits, ItemFits, tables
<1>9. Stages'
  BY <1>0, KeptStages DEF Pipeline
<1>10. TablesAgree' /\ Restoring'
  BY <1>0, <1>4, KeptTables DEF Restoring, tables, host
<1> QED
  BY <1>5, <1>6, <1>7, <1>8, <1>9, <1>10 DEF IInv, Pipeline

-----------------------------------------------------------------------------
(* The lookup.                                                             *)

(* requestMapping: the next command enters, alone, with its looked-up      *)
(* entry.                                                                  *)
LEMMA RequestMappingStep ==
  ASSUME IInv, RequestMapping
  PROVE  IInv'
<1> USE DEF RequestMapping
<1>0. Typed /\ Fits /\ Pipeline /\ TablesAgree /\ Restoring /\ ScanFits /\ InProgressExact
      /\ LookupFits
  BY DEF IInv, Pipeline, Stages
<1>1. reqQ \in Seq(Reqs) /\ reqQ # <<>> /\ Head(reqQ) \in Reqs /\ IsFtlCmd(Head(reqQ))
  <2>1. reqQ \in Seq(Reqs) /\ reqQ # <<>>
    BY <1>0 DEF Typed, NotEmpty
  <2> QED
    BY <2>1, ReqsAssumption
<1>2. /\ NoStage /\ blkScanReqCnt = 0 /\ procQ = <<>> /\ mapResp = <<>>
      /\ respQ_pre = <<>> /\ respQ = <<>> /\ resp_errorQ = <<>> /\ markBadDoneQ = <<>>
  <2>1. NoStage /\ blkScanReqCnt = 0 /\ Len(procQ) + InAnswer = 0
    BY <1>0, AtEnd DEF NoStage
  <2>2. Len(procQ) = 0 /\ InAnswer = 0
    <3>1. Len(procQ) \in Nat /\ InAnswer \in Nat
      BY <1>0, Lengths, AnswerCount
    <3> QED
      BY <2>1, <3>1
  <2>3. mapResp = <<>>
    BY <1>0, <2>2 DEF LookupFits, Typed
  <2> QED
    BY <1>0, <2>1, <2>2, <2>3, EmptyQueues, AnswerCount
<1>3. restoring = <<>>
  BY <1>0, Loaded
<1>4. /\ procQ' = <<Head(reqQ)>> /\ mapResp' = <<blockmap[Head(reqQ).addr]>> /\ inProgress' = TRUE
      /\ reqQ' = Tail(reqQ) /\ UNCHANGED resp_errorQ
  BY <1>1, <1>2
<1>5. Typed'
  <2>1. reqQ' \in Seq(Reqs) /\ procQ' \in Seq(Reqs)
    BY <1>1, <1>4
  <2>2. blockmap[Head(reqQ).addr] \in MapEntries
    BY <1>0, <1>1, ReqsAssumption DEF Typed
  <2>3. mapResp' \in Seq(MapEntries)
    BY <1>4, <2>2
  <2> QED
    BY <1>0, <1>4, <2>1, <2>3 DEF Typed, tables, scanRegs, host
<1>6. Fits'
  <2>1. Len(mapResp') = 1 /\ Len(reqQ') <= CmdQDepth
    BY <1>0, <1>1, <1>4, AFTLAssumption DEF Fits
  <2> QED
    BY <1>0, <2>1, AFTLAssumption DEF Fits
<1>7. InProgressExact'
  <2>1. InAnswer' = 0 /\ NoStage' /\ blkScanReqCnt' = 0 /\ Len(procQ') = 1
    BY <1>2, <1>4, EmptySeq DEF InAnswer, NoStage, scanRegs
  <2>2. Typed' => Places'
    BY CountPlaces, PTL
  <2> QED
    BY <1>4, <1>5, <2>1, <2>2 DEF InProgressExact, Places
<1>8. LookupFits' /\ ProcFits'
  <2>1. Len(procQ') = 1 /\ Len(mapResp') = 1 /\ mapResp'[1] = blockmap'[procQ'[1].addr]
    BY <1>4 DEF tables
  <2> QED
    BY <1>2, <2>1, EmptySeq DEF LookupFits, ProcFits, NoStage
<1>9. Stages'
  BY <1>0, KeptStages DEF Pipeline
<1>10. TablesAgree' /\ Restoring'
  BY <1>0, <1>3, KeptTables DEF Restoring, tables, host
<1> QED
  BY <1>5, <1>6, <1>7, <1>8, <1>9, <1>10 DEF IInv, Pipeline

(* Where checkMapping0 sends a command, and under which status.            *)
LEMMA DestCases ==
  ASSUME NEW cmd, NEW status
  PROVE  \/ Dest(cmd, status) = "error"
         \/ Dest(cmd, status) \in ProcNames /\ StatusFor(Dest(cmd, status), status)
<1>1. CASE status = "ALLOCATED"
  <2>1. CASE cmd \in {"AftlREAD", "AftlWRITE", "AftlERASE", "AftlMARKBAD"}
    BY <1>1, <2>1 DEF Dest, ProcNames, StatusFor
  <2>2. CASE cmd \notin {"AftlREAD", "AftlWRITE", "AftlERASE", "AftlMARKBAD"}
    BY <1>1, <2>2 DEF Dest
  <2> QED
    BY <2>1, <2>2
<1>2. CASE status = "NOT_ALLOCATED"
  <2>1. CASE cmd \in {"AftlWRITE", "AftlMARKBAD"}
    BY <1>2, <2>1 DEF Dest, ProcNames, StatusFor
  <2>2. CASE cmd \notin {"AftlWRITE", "AftlMARKBAD"}
    BY <1>2, <2>2 DEF Dest
  <2> QED
    BY <2>1, <2>2
<1>3. CASE status \notin {"ALLOCATED", "NOT_ALLOCATED"}
  BY <1>3 DEF Dest
<1> QED
  BY <1>1, <1>2, <1>3

(* checkMapping0: the command goes where its entry sends it, or is         *)
(* refused.                                                                *)
LEMMA CheckMapping0Step ==
  ASSUME IInv, CheckMapping0
  PROVE  IInv'
<1>a. /\ inProgress /\ NotEmpty(mapResp) /\ NotEmpty(procQ)
      /\ mapResp' = Tail(mapResp) /\ procQ' = Tail(procQ)
      /\ UNCHANGED <<tables, blkResp, reqQ, procUpdateQs, respQ_pre, respQ, markBadDoneQ,
                     inProgress, blkScanIssued, scanRegs, host>>
  BY DEF CheckMapping0
<1>0. Typed /\ Fits /\ Pipeline /\ TablesAgree /\ Restoring /\ ScanFits /\ InProgressExact
      /\ LookupFits
  BY DEF IInv, Pipeline, Stages
<1>1. /\ NoStage /\ blkScanReqCnt = 0 /\ Len(procQ) = 1 /\ Len(mapResp) = 1
      /\ respQ_pre = <<>> /\ respQ = <<>> /\ resp_errorQ = <<>> /\ markBadDoneQ = <<>>
  <2>1. NoStage /\ blkScanReqCnt = 0 /\ Len(procQ) + InAnswer = 1
    BY <1>0, <1>a, AtEnd DEF NoStage
  <2>2. Len(procQ) = 1 /\ InAnswer = 0
    <3> DEFINE q == Len(procQ)
    <3>1. q \in Nat /\ q > 0 /\ InAnswer \in Nat
      BY <1>0, <1>a, Lengths, AnswerCount DEF NotEmpty
    <3>2. q + InAnswer = 1
      BY <2>1
    <3> HIDE DEF q
    <3>3. q = 1 /\ InAnswer = 0
      BY <3>1, <3>2
    <3> QED
      BY <3>3 DEF q
  <2> QED
    BY <1>0, <2>1, <2>2, AnswerCount DEF LookupFits
<1>2. /\ Head(procQ) \in Reqs /\ Head(mapResp) \in MapEntries
      /\ Head(mapResp) = blockmap[Head(procQ).addr]
      /\ procQ' = <<>> /\ mapResp' = <<>>
  <2>1. Head(procQ) \in Reqs /\ Head(procQ) = procQ[1] /\ procQ' = <<>>
    <3>1. PICK q \in Seq(Reqs) : q = procQ
      BY <1>0 DEF Typed
    <3>2. Len(q) = 1 /\ procQ' = Tail(q)
      BY <1>1, <1>a, <3>1
    <3> QED
      BY <3>1, <3>2, TailOfOne
  <2>2. Head(mapResp) \in MapEntries /\ Head(mapResp) = mapResp[1] /\ mapResp' = <<>>
    <3>1. PICK q \in Seq(MapEntries) : q = mapResp
      BY <1>0 DEF Typed
    <3>2. Len(q) = 1 /\ mapResp' = Tail(q)
      BY <1>1, <1>a, <3>1
    <3> QED
      BY <3>1, <3>2, TailOfOne
  <2> QED
    BY <1>0, <1>1, <2>1, <2>2 DEF LookupFits
<1>3. restoring = <<>>
  BY <1>0, <1>a, Loaded
<1>4. PICK item, dest :
        /\ item \in Items /\ ItemFits(item)
        /\ \/ resp_errorQ' = <<Head(procQ)>> /\ UNCHANGED procQs
           \/ /\ dest \in ProcNames /\ StatusFor(dest, blockmap[item.addr].status)
              /\ procQs' = [procQs EXCEPT ![dest] = <<item>>] /\ UNCHANGED resp_errorQ
  <2>1. PICK req, entry, dest, item :
          /\ req = Head(procQ) /\ entry = Head(mapResp)
          /\ dest = Dest(req.cmd, entry.status) /\ item = LPACmd(req, entry.block)
    OBVIOUS
  <2>2. item \in Items /\ ItemFits(item) /\ item.addr = req.addr
    <3>1. /\ req.addr \in MapAddrs /\ ChipOf[req.addr] \in Chips /\ entry.block \in Blocks
          /\ req \in Reqs
      BY <1>2, <2>1, ReqsAssumption, AFTLAssumption DEF MapEntries
    <3>2. FlashOp(req.cmd) \in {"READ_PAGE", "WRITE_PAGE", "ERASE_BLOCK", "INVALID"}
      BY DEF FlashOp
    <3>3. item = [addr |-> req.addr,
                  cmd |-> [tag |-> req.tag, op |-> FlashOp(req.cmd), chip |-> ChipOf[req.addr],
                           block |-> entry.block, page |-> req.page]]
      BY <2>1 DEF LPACmd
    <3>4. item \in Items
      BY <3>1, <3>2, <3>3 DEF Items, FlashCmds
    <3> QED
      BY <1>2, <2>1, <3>3, <3>4 DEF ItemFits
  <2>3. CASE dest = "error"
    <3>1. resp_errorQ' = <<Head(procQ)>> /\ UNCHANGED procQs
      BY <1>1, <2>1, <2>3 DEF CheckMapping0
    <3> QED
      BY <2>2, <3>1
  <2>4. CASE dest # "error"
    <3>1. dest \in ProcNames /\ StatusFor(dest, entry.status)
      BY <2>1, <2>4, DestCases
    <3>2. procQs[dest] = <<>>
      BY <1>1, <3>1 DEF NoStage
    <3>3. procQs' = [procQs EXCEPT ![dest] = Append(procQs[dest], item)] /\ UNCHANGED resp_errorQ
      BY <2>1, <2>4 DEF CheckMapping0
    <3>4. procQs' = [procQs EXCEPT ![dest] = <<item>>]
      BY <3>2, <3>3
    <3>5. StatusFor(dest, blockmap[item.addr].status)
      BY <1>2, <2>1, <2>2, <3>1
    <3> QED
      BY <2>2, <3>1, <3>3, <3>4, <3>5
  <2> QED
    BY <2>3, <2>4
<1>5. Typed'
  <2>1. procQs' \in [ProcNames -> Seq(Items)] /\ resp_errorQ' \in Seq(ErrorCmds)
    <3>1. procQs \in [ProcNames -> Seq(Items)] /\ resp_errorQ \in Seq(ErrorCmds)
      BY <1>0 DEF Typed
    <3>2. <<Head(procQ)>> \in Seq(ErrorCmds) /\ <<item>> \in Seq(Items)
      BY <1>2, <1>4 DEF ErrorCmds
    <3> QED
      BY <1>4, <3>1, <3>2
  <2> QED
    BY <1>0, <1>2, <1>a, <2>1, EmptySeq DEF Typed, tables, scanRegs, host
<1>6. Fits'
  BY <1>0, <1>2, <1>a, EmptySeq, AFTLAssumption DEF Fits
<1>7. LookupFits'
  BY <1>2, EmptySeq DEF LookupFits
<1>8. InProgressExact' /\ ProcFits'
  <2>1. Typed' => Places'
    BY CountPlaces, PTL
  <2>2. CASE resp_errorQ' = <<Head(procQ)>> /\ UNCHANGED procQs
    <3>1. NoStage' /\ blkScanReqCnt' = 0 /\ Len(procQ') = 0
      BY <1>1, <1>2, <1>a, <2>2, EmptySeq DEF NoStage, scanRegs
    <3>2. InAnswer' = 1
      BY <1>1, <1>a, <2>2, EmptySeq DEF InAnswer
    <3>3. ProcFits'
      BY <3>1, EmptySeq DEF ProcFits, NoStage
    <3>4. InPipe' = Len(procQ') + InAnswer'
      BY <1>5, <2>1, <3>1 DEF Places
    <3>5. InPipe' = 1
      BY <3>1, <3>2, <3>4
    <3> QED
      BY <1>a, <3>3, <3>5 DEF InProgressExact
  <2>3. CASE /\ dest \in ProcNames /\ StatusFor(dest, blockmap[item.addr].status)
             /\ procQs' = [procQs EXCEPT ![dest] = <<item>>] /\ UNCHANGED resp_errorQ
    <3>1. Len(procQs'[dest]) = 1 /\ procQs'[dest][1] = item
      BY <1>0, <2>3 DEF Typed
    <3>2. \A n \in ProcNames \ {dest} : procQs'[n] = <<>>
      BY <1>0, <1>1, <2>3 DEF Typed, NoStage
    <3>3. Rest({dest}, {})' /\ blkScanReqCnt' = 0
      BY <1>1, <1>a, <2>3, <3>2 DEF Rest, NoStage, scanRegs
    <3>4. InProgressExact'
      BY <1>2, <1>a, <1>5, <2>1, <2>3, <3>1, <3>3 DEF InProgressExact, Places
    <3>5. \A n \in ProcNames : Len(procQs'[n]) > 0 => n = dest
      BY <3>2, EmptySeq
    <3> QED
      BY <1>4, <1>a, <2>3, <3>1, <3>4, <3>5 DEF ProcFits, ItemFits, tables
  <2> QED
    BY <1>4, <2>2, <2>3
<1>9. Stages'
  BY <1>0, <1>a, KeptStages DEF Pipeline
<1>10. TablesAgree' /\ Restoring'
  BY <1>0, <1>3, <1>a, KeptTables DEF Restoring, tables, host
<1> QED
  BY <1>5, <1>6, <1>7, <1>8, <1>9, <1>10 DEF IInv, Pipeline

(* What leaves a procQ stays with the tables it was looked up in.          *)
LEMMA LeavesProc ==
  ASSUME IInv, NEW n \in ProcNames, inProgress, NotEmpty(procQs[n]),
         procQs' = [procQs EXCEPT ![n] = Tail(@)],
         UNCHANGED <<tables, blkResp, procQ, mapResp, scanRegs, host>>
  PROVE  /\ Len(procQs[n]) = 1 /\ Head(procQs[n]) = procQs[n][1]
         /\ Head(procQs[n]) \in Items /\ ItemFits(Head(procQs[n]))
         /\ StatusFor(n, blockmap[Head(procQs[n]).addr].status)
         /\ procQ = <<>> /\ Rest({n}, {}) /\ blkScanReqCnt = 0
         /\ procQs' \in [ProcNames -> Seq(Items)] /\ \A m \in ProcNames : procQs'[m] = <<>>
         /\ LookupFits' /\ ProcFits' /\ Restoring' /\ restoring = <<>>
<1>0. Typed /\ Pipeline /\ Restoring /\ ScanFits /\ InProgressExact /\ LookupFits /\ ProcFits
  BY DEF IInv, Pipeline, Stages
<1>1. Len(procQs[n]) = 1 /\ procQ = <<>> /\ Rest({n}, {}) /\ blkScanReqCnt = 0
  BY <1>0, AtProc
<1>2. procQs \in [ProcNames -> Seq(Items)] /\ procQs[n] \in Seq(Items)
  BY <1>0 DEF Typed
<1>3. Head(procQs[n]) = procQs[n][1] /\ Head(procQs[n]) \in Items /\ Tail(procQs[n]) = <<>>
  BY <1>1, <1>2, TailOfOne
<1>4. ItemFits(procQs[n][1]) /\ StatusFor(n, blockmap[procQs[n][1].addr].status)
  BY <1>0, <1>1 DEF ProcFits
<1>5. procQs' \in [ProcNames -> Seq(Items)] /\ \A m \in ProcNames : procQs'[m] = <<>>
  BY <1>1, <1>2, <1>3, EmptySeq DEF Rest
<1>6. restoring = <<>> /\ Restoring'
  BY <1>0, Loaded DEF Restoring, host
<1>7. LookupFits'
  BY <1>0 DEF LookupFits, tables
<1>8. ProcFits'
  <2>1. \A m \in ProcNames : Len(procQs'[m]) = 0
    BY <1>5, EmptySeq
  <2> QED
    BY <2>1 DEF ProcFits
<1> QED
  BY <1>1, <1>3, <1>4, <1>5, <1>6, <1>7, <1>8

(* procAftlRead and procAftlWriteAllocated: the answer leaves for respQ.   *)
LEMMA AnswerMappedStep ==
  ASSUME IInv, NEW n \in ProcNames, AnswerMapped(n)
  PROVE  IInv'
<1>0. Typed /\ Fits /\ Pipeline /\ TablesAgree
  BY DEF IInv
<1>1. /\ inProgress /\ NotEmpty(procQs[n]) /\ procQs' = [procQs EXCEPT ![n] = Tail(@)]
      /\ respQ' = Append(respQ, Head(procQs[n]).cmd)
      /\ UNCHANGED <<tables, mapResp, blkResp, reqQ, procQ, procUpdateQs, respQ_pre, resp_errorQ,
                     markBadDoneQ, inProgress, blkScanIssued, scanRegs, host>>
  BY DEF AnswerMapped
<1>2. /\ Head(procQs[n]) \in Items /\ procQ = <<>> /\ Rest({n}, {}) /\ blkScanReqCnt = 0
      /\ procQs' \in [ProcNames -> Seq(Items)] /\ \A m \in ProcNames : procQs'[m] = <<>>
      /\ LookupFits' /\ ProcFits' /\ Restoring'
  BY <1>1, LeavesProc
<1>3. respQ' = <<Head(procQs[n]).cmd>> /\ respQ' \in Seq(FlashCmds)
  BY <1>1, <1>2 DEF Rest, Items
<1>4. Typed'
  BY <1>0, <1>1, <1>2, <1>3 DEF Typed, tables, scanRegs, host
<1>5. Fits'
  BY <1>0, <1>1 DEF Fits
<1>6. InProgressExact'
  <2>1. NoStage' /\ blkScanReqCnt' = 0 /\ Len(procQ') = 0
    BY <1>1, <1>2, EmptySeq DEF NoStage, Rest, scanRegs
  <2>2. InAnswer' = 1
    BY <1>1, <1>2, <1>3, EmptySeq DEF InAnswer, Rest
  <2>3. Typed' => Places'
    BY CountPlaces, PTL
  <2>4. InPipe' = Len(procQ') + InAnswer'
    BY <1>4, <2>1, <2>3 DEF Places
  <2>5. InPipe' = 1
    BY <2>1, <2>2, <2>4
  <2> QED
    BY <1>1, <2>5 DEF InProgressExact
<1>7. Stages'
  BY <1>0, <1>1, KeptStages DEF Pipeline
<1>8. TablesAgree'
  BY <1>0, <1>1, KeptTables DEF tables, host
<1> QED
  BY <1>2, <1>4, <1>5, <1>6, <1>7, <1>8 DEF IInv, Pipeline

(* The three rules that start an update of the tables.                     *)
LEMMA StartUpdateStep ==
  ASSUME IInv, NEW n \in {"MB", "E", "W_trig"}, NEW type \in 0 .. 2, NEW item \in Items,
         StartUpdate(n, type, item),
         NotEmpty(procQs[n]) => /\ item.addr = Head(procQs[n]).addr
                                /\ item.cmd.chip = Head(procQs[n]).cmd.chip
                                /\ item.cmd.block = Head(procQs[n]).cmd.block,
         n = "MB" <=> type = 0, n = "E" <=> type = 1
  PROVE  IInv'
<1>0. Typed /\ Fits /\ Pipeline /\ TablesAgree /\ Stages /\ n \in ProcNames
  BY DEF IInv, Pipeline, ProcNames
<1>1. /\ inProgress /\ NotEmpty(procQs[n]) /\ procQs' = [procQs EXCEPT ![n] = Tail(@)]
      /\ procUpdateQs' = [procUpdateQs EXCEPT ![0] = Append(@, <<type, item>>)]
      /\ UNCHANGED <<tables, mapResp, blkResp, reqQ, procQ, outputs, inProgress,
                     blkScanIssued, scanRegs, host>>
  BY DEF StartUpdate
<1>2. /\ ItemFits(Head(procQs[n])) /\ StatusFor(n, blockmap[Head(procQs[n]).addr].status)
      /\ procQ = <<>> /\ Rest({n}, {}) /\ blkScanReqCnt = 0
      /\ procQs' \in [ProcNames -> Seq(Items)] /\ \A m \in ProcNames : procQs'[m] = <<>>
      /\ LookupFits' /\ ProcFits' /\ Restoring'
  BY <1>0, <1>1, LeavesProc
<1>3. /\ procUpdateQs' \in [0 .. 5 -> Seq(UpdateCmds)] /\ procUpdateQs'[0] = << <<type, item>> >>
      /\ \A m \in 1 .. 5 : procUpdateQs'[m] = <<>>
  <2>1. procUpdateQs \in [0 .. 5 -> Seq(UpdateCmds)] /\ \A m \in 0 .. 5 : procUpdateQs[m] = <<>>
    BY <1>0, <1>2 DEF Typed, Rest
  <2>2. << <<type, item>> >> \in Seq(UpdateCmds)
    BY DEF UpdateCmds
  <2>3. procUpdateQs' = [procUpdateQs EXCEPT ![0] = << <<type, item>> >>]
    <3>1. procUpdateQs[0] = <<>> /\ procUpdateQs' = [procUpdateQs EXCEPT ![0] = Append(procUpdateQs[0], <<type, item>>)]
      BY <1>1, <2>1
    <3>2. Append(<<>>, <<type, item>>) = << <<type, item>> >>
      OBVIOUS
    <3> QED
      BY <3>1, <3>2
  <2>4. procUpdateQs' \in [0 .. 5 -> Seq(UpdateCmds)]
    BY <2>1, <2>2, <2>3
  <2>5. procUpdateQs'[0] = << <<type, item>> >> /\ \A m \in 1 .. 5 : procUpdateQs'[m] = procUpdateQs[m]
    BY <2>1, <2>3
  <2> QED
    BY <2>1, <2>4, <2>5
<1>4. Typed'
  BY <1>0, <1>1, <1>2, <1>3 DEF Typed, tables, outputs, scanRegs, host
<1>5. Fits'
  BY <1>0, <1>1 DEF Fits
<1>6. InProgressExact'
  <2>1. procQ' = <<>> /\ Rest({}, {0})' /\ blkScanReqCnt' = 0 /\ Len(procUpdateQs'[0]) = 1
    <3>1. \A m \in (0 .. 5) \ {0} : procUpdateQs'[m] = <<>>
      BY <1>3
    <3>2. Rest({}, {0})'
      BY <1>1, <1>2, <3>1 DEF Rest, outputs
    <3> QED
      BY <1>1, <1>2, <1>3, <3>2 DEF scanRegs
  <2>2. Typed' => Places'
    BY CountPlaces, PTL
  <2>3. InPipe' = 1
    <3>1. procQ' = <<>> /\ Rest({}, {0})' /\ blkScanReqCnt' = 0 => InPipe' = Len(procUpdateQs'[0])
      BY <1>4, <2>2 DEF Places
    <3> QED
      BY <2>1, <3>1
  <2> QED
    BY <1>1, <2>3 DEF InProgressExact
<1>7. Stages'
  <2>1. /\ \A m \in 1 .. 5 : ~At(m)'
        /\ Cur(0)' = <<type, item>>
    BY <1>3, EmptySeq DEF At, Cur
  <2>2. UpdateFits(<<type, item>>)'
    BY <1>1, <1>2 DEF UpdateFits, ItemFits, StatusFor, tables
  <2>3. Resting
    BY <1>0, <1>2, StagesRest DEF Rest
  <2>4. UpdatesFit'
    BY <2>1, <2>2 DEF UpdatesFit
  <2>5. ScanFits' /\ ChoiceFits' /\ PickFits' /\ LineFits' /\ Owed'
    BY <1>1, <2>1, <2>3 DEF Resting, ScanFits, ChoiceFits, PickFits, LineFits, Owed, Allocating, scanRegs
  <2> QED
    BY <2>4, <2>5 DEF Stages
<1>8. TablesAgree'
  <2>1. \A a : MapPending(a)' => MapPending(a)
    BY <1>3, EmptySeq DEF MapPending
  <2>2. \A a : ~MapPending(a)
    BY <1>2, EmptySeq DEF MapPending, Rest
  <2> QED
    BY <1>0, <1>1, <2>2 DEF TablesAgree, MappedBlocksDistinct, MappedNeverFree, tables, host
<1> QED
  BY <1>2, <1>4, <1>5, <1>6, <1>7, <1>8 DEF IInv, Pipeline

-----------------------------------------------------------------------------
(* The update pipeline.                                                    *)

(* The command at a stage is alone there, fits, and leaves it empty.       *)
LEMMA AtUpdate ==
  ASSUME IInv, NEW n \in 0 .. 5, NotEmpty(procUpdateQs[n]), n > 1 \/ blkScanReqCnt = 0
  PROVE  /\ inProgress /\ procQ = <<>> /\ mapResp = <<>> /\ Rest({}, {n})
         /\ blkScanReqCnt = 0 /\ restoring = <<>>
         /\ procUpdateQs \in [0 .. 5 -> Seq(UpdateCmds)]
         /\ At(n) /\ \A m \in (0 .. 5) \ {n} : ~At(m)
         /\ Head(procUpdateQs[n]) = Cur(n) /\ Cur(n) \in UpdateCmds /\ UpdateFits(Cur(n))
         /\ Len(procUpdateQs[n]) = 1 /\ Tail(procUpdateQs[n]) = <<>>
<1>0. Typed /\ Pipeline /\ Restoring /\ ScanFits /\ InProgressExact /\ LookupFits /\ UpdatesFit
  BY DEF IInv, Pipeline, Stages
<1>1. /\ inProgress /\ Len(procUpdateQs[n]) = 1 /\ procQ = <<>> /\ Rest({}, {n}) /\ blkScanReqCnt = 0
  BY <1>0, AtStage
<1>2. procUpdateQs \in [0 .. 5 -> Seq(UpdateCmds)] /\ procUpdateQs[n] \in Seq(UpdateCmds)
  BY <1>0 DEF Typed
<1>3. Head(procUpdateQs[n]) = Cur(n) /\ Cur(n) \in UpdateCmds /\ Tail(procUpdateQs[n]) = <<>>
  BY <1>1, <1>2, TailOfOne DEF Cur
<1>4. restoring = <<>>
  BY <1>0, <1>1, Loaded
<1>5. \A m \in (0 .. 5) \ {n} : ~At(m)
  BY <1>1, EmptySeq DEF At, Rest
<1>6. mapResp = <<>>
  <2>1. PICK q \in Seq(MapEntries) : q = mapResp
    BY <1>0 DEF Typed
  <2>2. Len(q) = 0
    BY <1>0, <1>1, <2>1 DEF LookupFits
  <2> QED
    BY <2>1, <2>2, EmptySeq
<1>7. At(n)
  BY <1>1 DEF At
<1>8. UpdateFits(Cur(n))
  BY <1>0, <1>7 DEF UpdatesFit
<1> QED
  BY <1>1, <1>2, <1>3, <1>4, <1>5, <1>6, <1>7, <1>8

(* It moves to the next stage, and nothing else does.                      *)
Moves(n, m, u) == procUpdateQs' = [procUpdateQs EXCEPT ![n] = Tail(@), ![m] = Append(@, u)]

(* The command moves from one update stage to another and is alone there.  *)
LEMMA MoveUpdate ==
  ASSUME IInv, NEW n \in 0 .. 5, NotEmpty(procUpdateQs[n]), n > 1 \/ blkScanReqCnt = 0,
         NEW m \in 0 .. 5, m # n, NEW u \in UpdateCmds,
         Moves(n, m, u), UNCHANGED <<procQ, procQs, mapResp, outputs>>
  PROVE  /\ procUpdateQs' \in [0 .. 5 -> Seq(UpdateCmds)]
         /\ Len(procUpdateQs'[m]) = 1 /\ At(m)' /\ Cur(m)' = u
         /\ \A k \in (0 .. 5) \ {m} : procUpdateQs'[k] = <<>> /\ ~At(k)'
         /\ procQ' = <<>> /\ Rest({}, {m})' /\ LookupFits' /\ ProcFits'
<1>1. /\ procUpdateQs \in [0 .. 5 -> Seq(UpdateCmds)] /\ procQ = <<>> /\ mapResp = <<>>
      /\ Rest({}, {n}) /\ Tail(procUpdateQs[n]) = <<>>
  BY AtUpdate
<1>2. procUpdateQs[m] = <<>> /\ \A k \in (0 .. 5) \ {n} : procUpdateQs[k] = <<>>
  BY <1>1 DEF Rest
<1>3. procUpdateQs' = [procUpdateQs EXCEPT ![n] = <<>>, ![m] = <<u>>]
  <2>1. procUpdateQs' = [procUpdateQs EXCEPT ![n] = Tail(procUpdateQs[n]), ![m] = Append(procUpdateQs[m], u)]
    BY DEF Moves
  <2>2. Append(<<>>, u) = <<u>>
    OBVIOUS
  <2> QED
    BY <1>1, <1>2, <2>1, <2>2
<1>4. procUpdateQs'[m] = <<u>> /\ \A k \in (0 .. 5) \ {m} : procUpdateQs'[k] = <<>>
  BY <1>1, <1>2, <1>3
<1>5. procUpdateQs' \in [0 .. 5 -> Seq(UpdateCmds)]
  <2>1. <<u>> \in Seq(UpdateCmds) /\ <<>> \in Seq(UpdateCmds)
    OBVIOUS
  <2> QED
    BY <1>1, <1>3, <2>1
<1>6. Len(procUpdateQs'[m]) = 1 /\ At(m)' /\ Cur(m)' = u
  <2>1. Len(procUpdateQs'[m]) = 1 /\ procUpdateQs'[m][1] = u
    BY <1>4
  <2>2. Len(procUpdateQs'[m]) > 0
    BY <2>1
  <2> QED
    BY <2>1, <2>2, Zenon DEF At, Cur
<1>7. \A k \in (0 .. 5) \ {m} : ~At(k)'
  <2>1. \A k \in (0 .. 5) \ {m} : Len(procUpdateQs'[k]) = 0
    BY <1>4, EmptySeq
  <2>2. \A k \in (0 .. 5) \ {m} : ~(Len(procUpdateQs'[k]) > 0)
    BY <2>1
  <2> QED
    BY <2>2, Zenon DEF At
<1>8. Rest({}, {m})'
  BY <1>1, <1>4 DEF Rest, outputs
<1>9. LookupFits'
  BY <1>1, EmptySeq DEF LookupFits
<1>10. ProcFits'
  <2>1. \A k \in ProcNames : Len(procQs'[k]) = 0
    BY <1>1, EmptySeq DEF Rest
  <2> QED
    BY <2>1 DEF ProcFits
<1> QED
  BY <1>1, <1>4, <1>5, <1>6, <1>7, <1>8, <1>9, <1>10

(* A command alone at one update stage is exactly what inProgress counts.  *)
LEMMA ExactAt ==
  ASSUME Typed', NEW m \in 0 .. 5, procQ' = <<>>, Rest({}, {m})', blkScanReqCnt' = 0,
         Len(procUpdateQs'[m]) = 1, inProgress'
  PROVE  InProgressExact'
<1>1. Typed' => Places'
  BY CountPlaces, PTL
<1>2. InPipe' = 1
  BY <1>1 DEF Places
<1> QED
  BY <1>2 DEF InProgressExact

(* updateBlkInfo0 of an erase or MARKBAD: straight to stage 3.             *)
LEMMA UpdateBlkInfo0SkipStep ==
  ASSUME IInv, UpdateBlkInfo0Skip
  PROVE  IInv'
<1>0. Typed /\ Fits /\ Pipeline /\ TablesAgree /\ Stages /\ UpdatesFit /\ ScanFits
  BY DEF IInv, Pipeline, Stages
<1>1. /\ inProgress /\ NotEmpty(procUpdateQs[0]) /\ Head(procUpdateQs[0])[1] <= 1
      /\ blkScanIssued' = TRUE
      /\ UNCHANGED <<tables, mapResp, blkResp, reqQ, procQ, procQs, outputs, inProgress, scanRegs, host>>
  BY DEF UpdateBlkInfo0Skip
<1>2. blkScanReqCnt = 0
  <2> SUFFICES ASSUME blkScanReqCnt # 0 PROVE FALSE
    OBVIOUS
  <2>1. At(0) /\ At(1) /\ Cur(0) = Cur(1) /\ Cur(1)[1] = 2
    BY <1>0 DEF ScanFits, UpdatesFit
  <2>2. Head(procUpdateQs[0]) = Cur(0)
    BY <1>0, <1>1 DEF Cur, Typed, NotEmpty
  <2> QED
    BY <1>1, <2>1, <2>2
<1>u. PICK u : u = Cur(0)
  OBVIOUS
<1>3. /\ Head(procUpdateQs[0]) = u /\ u \in UpdateCmds /\ UpdateFits(u) /\ restoring = <<>>
      /\ \A m \in 1 .. 5 : ~At(m) /\ procUpdateQs[m] = <<>>
  <2>1. Rest({}, {0}) /\ \A m \in (0 .. 5) \ {0} : ~At(m)
    BY <1>1, <1>2, AtUpdate
  <2> QED
    BY <1>1, <1>2, <1>u, <2>1, AtUpdate DEF Rest
<1>4. /\ procUpdateQs' \in [0 .. 5 -> Seq(UpdateCmds)]
      /\ Len(procUpdateQs'[3]) = 1 /\ At(3)' /\ Cur(3)' = u
      /\ \A k \in (0 .. 5) \ {3} : procUpdateQs'[k] = <<>> /\ ~At(k)'
      /\ procQ' = <<>> /\ Rest({}, {3})' /\ LookupFits' /\ ProcFits'
  <2>1. Moves(0, 3, u)
    BY <1>3 DEF Moves, UpdateBlkInfo0Skip
  <2> QED
    BY <1>1, <1>2, <1>3, <2>1, MoveUpdate
<1>5. Typed'
  BY <1>0, <1>1, <1>4 DEF Typed, tables, outputs, scanRegs, host
<1>6. Fits'
  BY <1>0, <1>1 DEF Fits
<1>7. InProgressExact'
  BY <1>1, <1>2, <1>4, <1>5, ExactAt DEF scanRegs
<1>8. Stages'
  <2>1. UpdateFits(u)'
    BY <1>1, <1>3 DEF UpdateFits, tables
  <2>2. UpdatesFit'
    BY <1>4, <2>1 DEF UpdatesFit
  <2>3. u[1] # 2
    BY <1>1, <1>3
  <2>4. ScanFits' /\ ChoiceFits'
    BY <1>0, <1>1, <1>2, <1>3, <1>4 DEF Stages, ScanFits, ChoiceFits, scanRegs
  <2>5. PickFits'
    BY <1>0, <1>1, <1>3, <1>4, <2>3 DEF Stages, PickFits, Allocating, scanRegs
  <2>6. LineFits' /\ Owed'
    BY <1>0, <1>1, <1>3, <1>4 DEF Stages, LineFits, Owed, Allocating
  <2> QED
    BY <2>2, <2>4, <2>5, <2>6 DEF Stages
<1>9. TablesAgree' /\ Restoring'
  <2>1. \A a : ~MapPending(a)
    BY <1>3, EmptySeq DEF MapPending
  <2> QED
    BY <1>0, <1>1, <1>3, <2>1 DEF TablesAgree, MappedBlocksDistinct, MappedNeverFree, Restoring, tables, host
<1> QED
  BY <1>4, <1>5, <1>6, <1>7, <1>8, <1>9 DEF IInv, Pipeline

(* The better of two candidates is a candidate.                            *)
LEMMA GetMinCandidate ==
  ASSUME NEW c, NEW e \in MinEntries, NEW f \in MinEntries, Candidate(c, e), Candidate(c, f)
  PROVE  GetMinEntries(e, f) \in MinEntries /\ Candidate(c, GetMinEntries(e, f))
  BY DEF GetMinEntries

(* updateBlkInfo2 at its last lane: the chosen block, or a refusal.        *)
LEMMA UpdateBlkInfo2FinalStep ==
  ASSUME IInv, UpdateBlkInfo2Final
  PROVE  IInv'
<1>0. /\ Typed /\ Fits /\ Pipeline /\ TablesAgree /\ Stages /\ UpdatesFit /\ ScanFits /\ ChoiceFits
      /\ PickFits /\ LineFits
  BY DEF IInv, Pipeline, Stages
<1>1. /\ inProgress /\ NotEmpty(procUpdateQs[2]) /\ blkScanFinalCnt = Lanes - 1
      /\ blkScanFinalCnt' = 0 /\ minEnt' = [l \in LaneSet |-> Invalid] /\ theMinEntry' = Invalid
      /\ UNCHANGED <<tables, mapResp, blkResp, reqQ, procQ, procQs, respQ_pre, respQ, markBadDoneQ,
                     inProgress, blkScanIssued, blkScanReqCnt, blkScanRespCnt, curMinEnt,
                     minEntVecQ, host>>
  BY DEF UpdateBlkInfo2Final
<1>u. PICK u, f : u = Cur(2) /\ f = GetMinEntries(theMinEntry, minEnt[0])
  OBVIOUS
<1>2. /\ procQ = <<>> /\ mapResp = <<>> /\ Rest({}, {2}) /\ blkScanReqCnt = 0 /\ restoring = <<>>
      /\ procUpdateQs \in [0 .. 5 -> Seq(UpdateCmds)]
      /\ At(2) /\ \A m \in (0 .. 5) \ {2} : ~At(m)
      /\ Head(procUpdateQs[2]) = u /\ u \in UpdateCmds /\ UpdateFits(u) /\ u[1] = 2
      /\ Tail(procUpdateQs[2]) = <<>>
  <2>1. Cur(2)[1] = 2
    BY <1>0, <1>1 DEF UpdatesFit, At, NotEmpty
  <2> QED
    BY <1>1, <1>u, <2>1, AtUpdate
<1>3. /\ minEntVecQ = <<>> /\ minPeEntryQ = <<>> /\ blkResp = <<>>
      /\ blkScanRespCnt = 0 /\ curMinEnt = [l \in LaneSet |-> Invalid]
      /\ f \in MinEntries /\ Candidate(u[2].cmd.chip, f)
  <2>1. blkScanFinalCnt # 0 /\ 0 \in LaneSet
    BY <1>1, AFTLAssumption DEF LaneSet
  <2>2. minEntVecQ = <<>> /\ Candidate(u[2].cmd.chip, theMinEntry) /\ Candidate(u[2].cmd.chip, minEnt[0])
    BY <1>0, <1>2, <1>u, <2>1 DEF ChoiceFits
  <2>3. minPeEntryQ = <<>> /\ blkResp = <<>>
    BY <1>0, <1>2 DEF PickFits, Allocating, LineFits
  <2>4. blkScanRespCnt = 0 /\ curMinEnt = [l \in LaneSet |-> Invalid]
    BY <1>0, <1>2 DEF ScanFits
  <2>5. theMinEntry \in MinEntries /\ minEnt[0] \in MinEntries
    BY <1>0, <2>1 DEF Typed
  <2> QED
    BY <1>u, <2>2, <2>3, <2>4, <2>5, GetMinCandidate
<1>4. minEnt' \in [LaneSet -> MinEntries] /\ theMinEntry' \in MinEntries /\ 0 \in 0 .. Lanes - 1
  BY <1>1, AFTLAssumption DEF MinEntries
<1>5. \A a : ~MapPending(a)
  BY <1>2, EmptySeq DEF MapPending, Rest
<1>6. CASE f # Invalid
  <2>0. /\ minPeEntryQ' = Append(minPeEntryQ, f) /\ UNCHANGED resp_errorQ
        /\ Moves(2, 3, Head(procUpdateQs[2]))
    <3>1. GetMinEntries(theMinEntry, minEnt[0]) # Invalid
      BY <1>6, <1>u
    <3> QED
      BY <3>1, <1>u, Zenon DEF UpdateBlkInfo2Final, Moves
  <2>1. minPeEntryQ' = <<f>> /\ UNCHANGED resp_errorQ /\ Moves(2, 3, u)
    <3>1. Append(<<>>, f) = <<f>>
      OBVIOUS
    <3> QED
      BY <1>2, <1>3, <2>0, <3>1, Zenon
  <2>2. /\ procUpdateQs' \in [0 .. 5 -> Seq(UpdateCmds)]
        /\ Len(procUpdateQs'[3]) = 1 /\ At(3)' /\ Cur(3)' = u
        /\ \A k \in (0 .. 5) \ {3} : procUpdateQs'[k] = <<>> /\ ~At(k)'
        /\ procQ' = <<>> /\ Rest({}, {3})' /\ LookupFits' /\ ProcFits'
    BY <1>1, <1>2, <2>1, MoveUpdate, SMTT(30) DEF outputs
  <2>3. f \in Blocks \X (0 .. EraseMod - 1) /\ minPeEntryQ' \in Seq(Blocks \X (0 .. EraseMod - 1))
    BY <1>3, <1>6, <2>1 DEF MinEntries
  <2>4. Typed'
    BY <1>0, <1>1, <1>4, <2>1, <2>2, <2>3 DEF Typed, tables, host
  <2>5. Fits'
    BY <1>0, <1>1 DEF Fits
  <2>6. InProgressExact'
    BY <1>1, <1>2, <2>2, <2>4, ExactAt
  <2>7. Stages'
    <3>1. UpdateFits(u)'
      BY <1>1, <1>2 DEF UpdateFits, tables
    <3>2. UpdatesFit'
      BY <2>2, <3>1 DEF UpdatesFit
    <3>3. ScanFits' /\ ChoiceFits'
      BY <1>1, <1>2, <1>3, <2>2 DEF ScanFits, ChoiceFits
    <3>4. PickFits'
      <4>1. Allocating(3)' /\ ~Allocating(4)'
        BY <1>2, <2>2 DEF Allocating
      <4>2. IsFree(u[2].cmd.chip, f[1])'
        BY <1>1, <1>3, <1>6 DEF Candidate, IsFree, tables
      <4>3. Len(minPeEntryQ') = 1 /\ minPeEntryQ'[1] = f
        BY <2>1
      <4> QED
        BY <2>2, <4>1, <4>2, <4>3 DEF PickFits, IsFree
    <3>5. LineFits' /\ Owed'
      BY <1>1, <1>3, <2>2 DEF LineFits, Owed, Allocating
    <3> QED
      BY <3>2, <3>3, <3>4, <3>5 DEF Stages
  <2>8. TablesAgree' /\ Restoring'
    BY <1>0, <1>1, <1>2, <1>5 DEF TablesAgree, MappedBlocksDistinct, MappedNeverFree, Restoring,
                                  tables, host
  <2> QED
    BY <2>2, <2>4, <2>5, <2>6, <2>7, <2>8 DEF IInv, Pipeline
<1>7. CASE f = Invalid
  <2> DEFINE r == [tag |-> u[2].cmd.tag, cmd |-> "AftlWRITE", addr |-> u[2].addr,
                   page |-> u[2].cmd.page]
  <2>1. /\ resp_errorQ' = Append(resp_errorQ, r) /\ UNCHANGED minPeEntryQ
        /\ procUpdateQs' = [procUpdateQs EXCEPT ![2] = Tail(@)]
    BY <1>2, <1>7, <1>u DEF UpdateBlkInfo2Final
  <2>2. resp_errorQ' = <<r>> /\ \A k \in 0 .. 5 : procUpdateQs'[k] = <<>>
    <3>1. resp_errorQ = <<>> /\ \A k \in (0 .. 5) \ {2} : procUpdateQs[k] = <<>>
      BY <1>2 DEF Rest
    <3> HIDE DEF r
    <3>2. \A k \in 0 .. 5 : procUpdateQs'[k] = IF k = 2 THEN Tail(procUpdateQs[2]) ELSE procUpdateQs[k]
      BY <1>2, <2>1
    <3> QED
      BY <1>2, <2>1, <3>1, <3>2
  <2>3. resp_errorQ' \in Seq(ErrorCmds)
    <3>1. r \in ErrorCmds
      BY <1>2 DEF UpdateCmds, Items, FlashCmds, ErrorCmds
    <3> HIDE DEF r
    <3> QED
      BY <2>2, <3>1
  <2>4. procUpdateQs' \in [0 .. 5 -> Seq(UpdateCmds)]
    <3>1. procUpdateQs' = [procUpdateQs EXCEPT ![2] = <<>>]
      BY <1>2, <2>1
    <3> QED
      BY <1>2, <3>1
  <2> HIDE DEF r
  <2>5. Typed'
    BY <1>0, <1>1, <1>4, <2>1, <2>3, <2>4 DEF Typed, tables, host
  <2>6. Fits'
    BY <1>0, <1>1 DEF Fits
  <2>7. InProgressExact' /\ LookupFits' /\ ProcFits'
    <3>1. Typed' => Places'
      BY CountPlaces, PTL
    <3>2. NoStage' /\ blkScanReqCnt' = 0 /\ Len(procQ') = 0 /\ mapResp' = <<>>
      BY <1>1, <1>2, <2>2, EmptySeq DEF NoStage, Rest
    <3>3. InAnswer' = 1
      BY <1>1, <1>2, <2>2, EmptySeq DEF InAnswer, Rest
    <3>4. InPipe' = Len(procQ') + InAnswer'
      BY <2>5, <3>1, <3>2 DEF Places
    <3>5. InPipe' = 1
      BY <3>2, <3>3, <3>4
    <3>6. LookupFits'
      BY <3>2, EmptySeq DEF LookupFits
    <3>7. \A n \in ProcNames : Len(procQs'[n]) = 0
      BY <3>2, EmptySeq DEF NoStage
    <3> QED
      BY <1>1, <3>5, <3>6, <3>7 DEF InProgressExact, ProcFits
  <2>8. Stages'
    <3>1. Resting'
      BY <1>1, <1>2, <1>3, <2>1, <2>2 DEF Resting
    <3>2. \A k \in 0 .. 5 : ~At(k)'
      <4>1. \A k \in 0 .. 5 : Len(procUpdateQs'[k]) = 0
        BY <2>2, EmptySeq
      <4> QED
        BY <4>1 DEF At
    <3> QED
      BY <3>1, <3>2 DEF Resting, Stages, UpdatesFit, ScanFits, ChoiceFits, PickFits, LineFits, Owed, Allocating
  <2>9. TablesAgree' /\ Restoring'
    BY <1>0, <1>1, <1>2, <1>5 DEF TablesAgree, MappedBlocksDistinct, MappedNeverFree, Restoring,
                                  tables, host
  <2> QED
    BY <2>5, <2>6, <2>7, <2>8, <2>9 DEF IInv, Pipeline
<1> QED
  BY <1>6, <1>7

(* updateBlkInfo3 takes the chosen block for an allocation, and reads the  *)
(* line it is in.                                                          *)
LEMMA UpdateBlkInfo3Step ==
  ASSUME IInv, UpdateBlkInfo3
  PROVE  IInv'
<1>0. /\ Typed /\ Fits /\ Pipeline /\ TablesAgree /\ Stages /\ UpdatesFit /\ ScanFits /\ ChoiceFits
      /\ PickFits /\ LineFits
  BY DEF IInv, Pipeline, Stages
<1>1. /\ inProgress /\ blkScanIssued /\ NotEmpty(procUpdateQs[3])
      /\ UNCHANGED <<tables, mapResp, reqQ, procQ, procQs, outputs, inProgress, blkScanIssued,
                     scanRegs, host>>
  BY DEF UpdateBlkInfo3
<1>u. PICK u : u = Cur(3)
  OBVIOUS
<1>2. /\ procQ = <<>> /\ Rest({}, {3}) /\ blkScanReqCnt = 0 /\ restoring = <<>>
      /\ At(3) /\ \A m \in (0 .. 5) \ {3} : ~At(m)
      /\ Head(procUpdateQs[3]) = u /\ u \in UpdateCmds /\ UpdateFits(u)
  BY <1>1, <1>u, AtUpdate
<1>3. PICK block, v :
        /\ block = IF u[1] > 1 THEN Head(minPeEntryQ)[1] ELSE u[2].cmd.block
        /\ v = <<u[1], [addr |-> u[2].addr, cmd |-> [u[2].cmd EXCEPT !.block = block]]>>
  OBVIOUS
<1>4. /\ block \in Blocks /\ u[1] \in 0 .. 2 /\ u[2] \in Items
      /\ u[1] = 2 => Len(minPeEntryQ) = 1 /\ block = minPeEntryQ[1][1] /\ IsFree(u[2].cmd.chip, block)
      /\ u[1] # 2 => minPeEntryQ = <<>> /\ block = u[2].cmd.block
  <2>1. u[1] \in 0 .. 2 /\ u[2] \in Items /\ u[2].cmd.block \in Blocks
    BY <1>2 DEF UpdateCmds, Items, FlashCmds
  <2>2. minPeEntryQ \in Seq(Blocks \X (0 .. EraseMod - 1))
    BY <1>0 DEF Typed
  <2>3. CASE u[1] = 2
    <3>1. Len(minPeEntryQ) = 1 /\ IsFree(u[2].cmd.chip, minPeEntryQ[1][1])
      BY <1>0, <1>2, <1>u, <2>3 DEF PickFits, Allocating
    <3>2. Head(minPeEntryQ) = minPeEntryQ[1] /\ minPeEntryQ[1] \in Blocks \X (0 .. EraseMod - 1)
      BY <2>2, <3>1, TailOfOne
    <3> QED
      BY <1>3, <2>1, <2>3, <3>1, <3>2
  <2>4. CASE u[1] # 2
    <3>1. minPeEntryQ = <<>>
      BY <1>0, <1>2, <1>u, <2>4 DEF PickFits, Allocating
    <3> QED
      BY <1>3, <2>1, <2>4, <3>1
  <2> QED
    BY <2>3, <2>4
<1>5. /\ v \in UpdateCmds /\ v[1] = u[1] /\ v[2].addr = u[2].addr /\ v[2].cmd.chip = u[2].cmd.chip
      /\ v[2].cmd.block = block /\ v[2].cmd = [u[2].cmd EXCEPT !.block = block]
  <2>1. [u[2].cmd EXCEPT !.block = block] \in FlashCmds
    BY <1>4 DEF Items, FlashCmds
  <2>2. /\ [u[2].cmd EXCEPT !.block = block].chip = u[2].cmd.chip
        /\ [u[2].cmd EXCEPT !.block = block].block = block
    BY <1>4 DEF Items, FlashCmds
  <2> QED
    BY <1>3, <1>4, <2>1, <2>2 DEF UpdateCmds, Items
<1>6. blkResp' = <<Line(v[2].cmd.chip, v[2].cmd.block \div Lanes)>> /\ Moves(3, 4, v)
  <2>1. [u[2].cmd EXCEPT !.block = u[2].cmd.block] = u[2].cmd
    BY <1>4 DEF Items, FlashCmds
  <2>2. blkResp = <<>>
    BY <1>0, <1>2 DEF LineFits
  <2>3. v[2].cmd = IF u[1] > 1 THEN [u[2].cmd EXCEPT !.block = Head(minPeEntryQ)[1]] ELSE u[2].cmd
    <3>1. v[2].cmd = [u[2].cmd EXCEPT !.block = block]
      BY <1>5
    <3> QED
      BY <1>3, <2>1, <3>1
  <2>4. PICK cmd : cmd = v[2].cmd
    OBVIOUS
  <2>5. v = <<u[1], [addr |-> u[2].addr, cmd |-> cmd]>>
    BY <1>3, <1>5, <2>4
  <2>6. /\ blkResp' = Append(blkResp, Line(cmd.chip, cmd.block \div Lanes))
        /\ procUpdateQs' = [procUpdateQs EXCEPT ![3] = Tail(@),
             ![4] = Append(@, <<u[1], [addr |-> u[2].addr, cmd |-> cmd]>>)]
    BY <1>2, <2>3, <2>4 DEF UpdateBlkInfo3
  <2> QED
    BY <2>2, <2>4, <2>5, <2>6 DEF Moves
<1>7. /\ procUpdateQs' \in [0 .. 5 -> Seq(UpdateCmds)]
      /\ Len(procUpdateQs'[4]) = 1 /\ At(4)' /\ Cur(4)' = v
      /\ \A k \in (0 .. 5) \ {4} : procUpdateQs'[k] = <<>> /\ ~At(k)'
      /\ procQ' = <<>> /\ Rest({}, {4})' /\ LookupFits' /\ ProcFits'
  <2>1. v \in UpdateCmds /\ Moves(3, 4, v)
    BY <1>5, <1>6
  <2>2. UNCHANGED <<procQ, procQs, mapResp, outputs>>
    BY <1>1
  <2> QED
    BY <1>1, <2>1, <2>2, MoveUpdate
<1>8. Line(v[2].cmd.chip, v[2].cmd.block \div Lanes) \in [LaneSet -> BlkEntries]
  <2>1. v[2].cmd.chip \in Chips /\ v[2].cmd.block \in Blocks
    BY <1>4, <1>5 DEF Items, FlashCmds
  <2>2. v[2].cmd.block \div Lanes \in 0 .. Words - 1
    BY <2>1, LanesOfABlock
  <2> QED
    BY <1>0, <2>1, <2>2, LineTyped DEF Typed
<1>9. Typed'
  <2>1. blkResp' \in Seq([LaneSet -> BlkEntries])
    <3> DEFINE line == Line(v[2].cmd.chip, v[2].cmd.block \div Lanes)
    <3>1. line \in [LaneSet -> BlkEntries] /\ blkResp' = <<line>>
      BY <1>6, <1>8
    <3> HIDE DEF line
    <3> QED
      BY <3>1
  <2>2. /\ UNCHANGED <<blockmap, blkinfo, mapResp, reqQ, procQ, procQs, respQ_pre, respQ, resp_errorQ>>
        /\ UNCHANGED <<markBadDoneQ, inProgress, blkScanIssued, blkScanReqCnt, blkScanRespCnt>>
        /\ UNCHANGED <<blkScanFinalCnt, curMinEnt, minEntVecQ, minEnt, theMinEntry, minPeEntryQ>>
        /\ UNCHANGED <<image, restoring>>
    BY <1>1 DEF tables, outputs, scanRegs, host
  <2>3. procUpdateQs' \in [0 .. 5 -> Seq(UpdateCmds)]
    BY <1>7
  <2> QED
    BY <1>0, <2>1, <2>2, <2>3 DEF Typed
<1>10. Fits'
  BY <1>0, <1>1, <1>6, AFTLAssumption DEF Fits
<1>11. InProgressExact'
  BY <1>1, <1>2, <1>7, <1>9, ExactAt DEF scanRegs
<1>12. Stages'
  <2>1. UpdateFits(v)'
    BY <1>1, <1>2, <1>4, <1>5 DEF UpdateFits, tables
  <2>2. UpdatesFit'
    BY <1>7, <2>1 DEF UpdatesFit
  <2>3. ScanFits' /\ ChoiceFits'
    BY <1>0, <1>1, <1>2, <1>7 DEF ScanFits, ChoiceFits, scanRegs
  <2>4. PickFits'
    <3>1. blkinfo' = blkinfo /\ minPeEntryQ' = minPeEntryQ
      BY <1>1 DEF tables, scanRegs
    <3>2. ~Allocating(3)' /\ (Allocating(4)' <=> v[1] = 2)
      BY <1>7 DEF Allocating
    <3>3. v[1] = 2 => /\ Len(minPeEntryQ') = 1 /\ v[2].cmd.block = minPeEntryQ'[1][1]
                      /\ IsFree(v[2].cmd.chip, minPeEntryQ[1][1])'
      BY <1>4, <1>5, <3>1 DEF IsFree
    <3>4. v[1] # 2 => minPeEntryQ' = <<>>
      BY <1>4, <1>5, <3>1
    <3>5. Cur(4)' = v
      BY <1>7
    <3>6. CASE v[1] = 2
      <4>1. \A n \in 3 .. 4 : Allocating(n)' => n = 4
        BY <3>2
      <4> QED
        BY <3>2, <3>3, <3>5, <3>6, <4>1, ZenonT(30) DEF PickFits, IsFree
    <3>7. CASE v[1] # 2
      BY <3>2, <3>4, <3>7 DEF PickFits
    <3> QED
      BY <3>6, <3>7
  <2>5. LineFits'
    BY <1>1, <1>6, <1>7 DEF LineFits, Line, tables
  <2>6. Owed'
    BY <1>7 DEF Owed, Allocating
  <2> QED
    BY <2>2, <2>3, <2>4, <2>5, <2>6 DEF Stages
<1>13. TablesAgree' /\ Restoring'
  <2>1. \A a : ~MapPending(a)
    BY <1>2, EmptySeq DEF MapPending, Rest
  <2> QED
    BY <1>0, <1>1, <1>2, <2>1 DEF TablesAgree, MappedBlocksDistinct, MappedNeverFree, Restoring,
                                  tables, host
<1> QED
  BY <1>7, <1>9, <1>10, <1>11, <1>12, <1>13 DEF IInv, Pipeline

(* The entry written back is free after an erase and only then.            *)
LEMMA UpdatedStatus ==
  ASSUME NEW type \in 0 .. 2, NEW e \in BlkEntries,
         type = 2 => Head(minPeEntryQ) \in Blocks \X (0 .. EraseMod - 1)
  PROVE  /\ UpdatedEntry(type, e) \in BlkEntries
         /\ UpdatedEntry(type, e).status = "FREE_BLK" <=> type = 1
<1>1. e.erase \in 0 .. EraseMod - 1 /\ EraseMod \in Nat \ {0}
  BY AFTLAssumption DEF BlkEntries
<1>2. (e.erase + 1) % EraseMod \in 0 .. EraseMod - 1
  <2>1. e.erase + 1 \in Nat
    BY <1>1
  <2> QED
    BY <1>1, <2>1, Divide
<1>3. CASE type = 0
  BY <1>1, <1>3 DEF UpdatedEntry, MarkBadEntry, BlkEntries
<1>4. CASE type = 1
  BY <1>2, <1>4 DEF UpdatedEntry, EraseBlkInfoEntry, BlkEntries
<1>5. CASE type = 2
  <2>1. UpdatedEntry(type, e) = [status |-> "USED_BLK", erase |-> Head(minPeEntryQ)[2]]
    BY <1>5 DEF UpdatedEntry
  <2> QED
    BY <1>5, <2>1 DEF BlkEntries
<1> QED
  BY <1>3, <1>4, <1>5

(* updateBlkInfo4 writes the whole line of the entry its command is about, *)
(* but changes that entry only.                                            *)
LEMMA OneEntry ==
  ASSUME Typed, NEW c \in Chips, NEW block \in Blocks, NEW type,
         UpdatedEntry(type, blkinfo[c][block]) \in BlkEntries, NEW f,
         f = WriteLine(blkinfo[c], block \div Lanes,
                       UpdatedLine(type, Line(c, block \div Lanes), block % Lanes))
  PROVE  /\ f \in [Blocks -> BlkEntries]
         /\ \A b \in Blocks : f[b] = IF b = block THEN UpdatedEntry(type, blkinfo[c][block])
                                                  ELSE blkinfo[c][b]
<1>1. PICK w, lane, e, line :
        /\ w = block \div Lanes /\ lane = block % Lanes /\ e = UpdatedEntry(type, blkinfo[c][block])
        /\ line = UpdatedLine(type, Line(c, block \div Lanes), block % Lanes)
  OBVIOUS
<1>2. w \in 0 .. Words - 1 /\ lane \in LaneSet /\ w * Lanes + lane = block
  BY <1>1, LanesOfABlock
<1>3. \A l \in LaneSet : line[l] = IF l = lane THEN e ELSE blkinfo[c][w * Lanes + l]
  BY <1>1, <1>2 DEF UpdatedLine, Line
<1>4. f = [b \in Blocks |-> IF b \div Lanes = w THEN line[b % Lanes] ELSE blkinfo[c][b]]
  BY <1>1 DEF WriteLine
<1>5. ASSUME NEW b \in Blocks
      PROVE  (IF b \div Lanes = w THEN line[b % Lanes] ELSE blkinfo[c][b])
             = IF b = block THEN e ELSE blkinfo[c][b]
  <2>1. PICK x, l : x = b \div Lanes /\ l = b % Lanes
    OBVIOUS
  <2>2. x \in 0 .. Words - 1 /\ l \in LaneSet /\ x * Lanes + l = b
    BY <2>1, LanesOfABlock
  <2>3. b = block <=> (x = w /\ l = lane)
    <3>1. b = block => x = w /\ l = lane
      BY <1>1, <2>1
    <3> QED
      BY <1>2, <2>2, <3>1
  <2> QED
    BY <1>3, <2>1, <2>2, <2>3
<1>6. \A b \in Blocks : f[b] = IF b = block THEN e ELSE blkinfo[c][b]
  BY <1>4, <1>5
<1>7. \A b \in Blocks : (IF b = block THEN e ELSE blkinfo[c][b]) \in BlkEntries
  BY <1>1 DEF Typed
<1>8. f \in [Blocks -> BlkEntries]
  BY <1>4, <1>5, <1>7
<1> QED
  BY <1>1, <1>6, <1>8

(* updateBlkInfo4: the block table gets the changed line.                  *)
LEMMA UpdateBlkInfo4Step ==
  ASSUME IInv, UpdateBlkInfo4
  PROVE  IInv'
<1>0. /\ Typed /\ Fits /\ Pipeline /\ TablesAgree /\ Stages /\ UpdatesFit /\ ScanFits /\ ChoiceFits
      /\ PickFits /\ LineFits
  BY DEF IInv, Pipeline, Stages
<1>1. /\ inProgress /\ blkScanIssued /\ NotEmpty(procUpdateQs[4])
      /\ blkResp' = Tail(blkResp)
      /\ UNCHANGED <<blockmap, mapResp, reqQ, procQ, procQs, outputs, inProgress, blkScanIssued,
                     blkScanReqCnt, blkScanRespCnt, blkScanFinalCnt, curMinEnt, minEntVecQ, minEnt,
                     theMinEntry, host>>
  BY DEF UpdateBlkInfo4
<1>u. PICK u, type, addr, c, block :
        /\ u = Cur(4) /\ type = u[1] /\ addr = u[2].addr /\ c = u[2].cmd.chip /\ block = u[2].cmd.block
  OBVIOUS
<1>2. /\ procQ = <<>> /\ Rest({}, {4}) /\ blkScanReqCnt = 0 /\ restoring = <<>>
      /\ At(4) /\ \A m \in (0 .. 5) \ {4} : ~At(m)
      /\ Head(procUpdateQs[4]) = u /\ u \in UpdateCmds /\ UpdateFits(u)
  BY <1>1, <1>u, AtUpdate
<1>3. /\ type \in 0 .. 2 /\ addr \in MapAddrs /\ c \in Chips /\ block \in Blocks /\ c = ChipOf[addr]
      /\ type = 1 => blockmap[addr].status = "ALLOCATED" /\ blockmap[addr].block = block
  BY <1>2, <1>u DEF UpdateCmds, Items, FlashCmds, UpdateFits
<1>4. /\ type = 2 => /\ Len(minPeEntryQ) = 1 /\ IsFree(c, block)
                     /\ Head(minPeEntryQ) \in Blocks \X (0 .. EraseMod - 1) /\ Tail(minPeEntryQ) = <<>>
      /\ type # 2 => minPeEntryQ = <<>>
  <2>1. minPeEntryQ \in Seq(Blocks \X (0 .. EraseMod - 1))
    BY <1>0 DEF Typed
  <2>2. CASE type = 2
    <3>1. Len(minPeEntryQ) = 1 /\ IsFree(c, block)
      BY <1>0, <1>2, <1>u, <2>2 DEF PickFits, Allocating
    <3> QED
      BY <2>1, <2>2, <3>1, TailOfOne
  <2>3. CASE type # 2
    BY <1>0, <1>2, <1>u, <2>3 DEF PickFits, Allocating
  <2> QED
    BY <2>2, <2>3
<1>5. PICK e : e = UpdatedEntry(type, blkinfo[c][block])
  OBVIOUS
<1>6. e \in BlkEntries /\ (e.status = "FREE_BLK" <=> type = 1)
  <2>1. blkinfo[c][block] \in BlkEntries
    BY <1>0, <1>3 DEF Typed
  <2> QED
    BY <1>3, <1>4, <1>5, <2>1, UpdatedStatus
<1>7. PICK f :
        /\ f = WriteLine(blkinfo[c], block \div Lanes,
                         UpdatedLine(type, Line(c, block \div Lanes), block % Lanes))
        /\ blkinfo' = [blkinfo EXCEPT ![c] = f]
  <2>1. Head(blkResp) = Line(c, block \div Lanes)
    BY <1>0, <1>2, <1>u DEF LineFits
  <2> QED
    BY <1>2, <1>u, <2>1 DEF UpdateBlkInfo4
<1>8. /\ blkinfo' \in [Chips -> [Blocks -> BlkEntries]]
      /\ \A k \in Chips, b \in Blocks :
           blkinfo'[k][b] = IF k = c /\ b = block THEN e ELSE blkinfo[k][b]
  <2>1. f \in [Blocks -> BlkEntries] /\ \A b \in Blocks : f[b] = IF b = block THEN e ELSE blkinfo[c][b]
    BY <1>0, <1>3, <1>5, <1>6, <1>7, OneEntry
  <2> QED
    BY <1>0, <1>3, <1>7, <2>1 DEF Typed
<1>9. /\ procUpdateQs' \in [0 .. 5 -> Seq(UpdateCmds)]
      /\ Len(procUpdateQs'[5]) = 1 /\ At(5)' /\ Cur(5)' = u
      /\ \A k \in (0 .. 5) \ {5} : procUpdateQs'[k] = <<>> /\ ~At(k)'
      /\ procQ' = <<>> /\ Rest({}, {5})' /\ LookupFits' /\ ProcFits'
  <2>1. u \in UpdateCmds /\ Moves(4, 5, u)
    BY <1>2 DEF UpdateBlkInfo4, Moves
  <2>2. UNCHANGED <<procQ, procQs, mapResp, outputs>>
    BY <1>1
  <2> QED
    BY <1>1, <2>1, <2>2, MoveUpdate
<1>10. blkResp' = <<>> /\ minPeEntryQ' = <<>>
  <2>1. minPeEntryQ' = IF type > 1 THEN Tail(minPeEntryQ) ELSE minPeEntryQ
    BY <1>2, <1>u DEF UpdateBlkInfo4
  <2>2. Len(blkResp) = 1 /\ blkResp \in Seq([LaneSet -> BlkEntries])
    BY <1>0, <1>2 DEF LineFits, Typed
  <2>3. blkResp' = <<>>
    BY <1>1, <2>2, TailOfOne
  <2> QED
    BY <1>3, <1>4, <2>1, <2>3
<1>11. Typed'
  <2>1. blkinfo' \in [Chips -> [Blocks -> BlkEntries]]
    BY <1>8
  <2>2. /\ UNCHANGED <<blockmap, mapResp, reqQ, procQ, procQs, respQ_pre, respQ, resp_errorQ>>
        /\ UNCHANGED <<markBadDoneQ, inProgress, blkScanIssued, blkScanReqCnt, blkScanRespCnt>>
        /\ UNCHANGED <<blkScanFinalCnt, curMinEnt, minEntVecQ, minEnt, theMinEntry>>
        /\ UNCHANGED <<image, restoring>>
    BY <1>1 DEF outputs, host
  <2>3. blkResp' \in Seq([LaneSet -> BlkEntries]) /\ minPeEntryQ' \in Seq(Blocks \X (0 .. EraseMod - 1))
    BY <1>10, EmptySeq
  <2>4. procUpdateQs' \in [0 .. 5 -> Seq(UpdateCmds)]
    BY <1>9
  <2> QED
    BY <1>0, <2>1, <2>2, <2>3, <2>4 DEF Typed
<1>12. Fits'
  BY <1>0, <1>1, <1>10, EmptySeq, AFTLAssumption DEF Fits
<1>13. InProgressExact'
  BY <1>1, <1>2, <1>9, <1>11, ExactAt
(* The tables before: nobody waits for its map entry.                      *)
<1>14. \A a \in MapAddrs : blockmap[a].status = "ALLOCATED" =>
         blkinfo[ChipOf[a]][blockmap[a].block].status # "FREE_BLK"
  <2>1. \A a : ~MapPending(a)
    BY <1>2, EmptySeq DEF MapPending, Rest
  <2> QED
    BY <1>0, <1>2, <2>1 DEF TablesAgree, MappedNeverFree
<1>15. Stages'
  <2>1. UpdateFits(u)'
    BY <1>1, <1>2 DEF UpdateFits
  <2>2. UpdatesFit'
    BY <1>9, <2>1 DEF UpdatesFit
  <2>3. ScanFits' /\ ChoiceFits'
    BY <1>0, <1>1, <1>2, <1>9 DEF ScanFits, ChoiceFits
  <2>4. PickFits' /\ LineFits'
    BY <1>9, <1>10 DEF PickFits, LineFits, Allocating
  <2>5. Owed'
    <3> SUFFICES ASSUME type = 2
                 PROVE  /\ ~IsFree(c, block)'
                        /\ \A a \in MapAddrs : (blockmap'[a].status = "ALLOCATED" /\ ChipOf[a] = c)
                             => blockmap'[a].block # block
      BY <1>9, <1>u DEF Owed, Allocating, IsFree
    <3>1. ~IsFree(c, block)'
      BY <1>3, <1>6, <1>8 DEF IsFree
    <3> QED
      BY <1>1, <1>4, <1>14, <3>1 DEF IsFree
  <2> QED
    BY <2>2, <2>3, <2>4, <2>5 DEF Stages
<1>16. TablesAgree'
  <2>1. MappedBlocksDistinct'
    BY <1>0, <1>1 DEF TablesAgree, MappedBlocksDistinct
  <2>2. MapPending(addr)'
    <3>1. Len(procUpdateQs'[5]) = 1 /\ procUpdateQs'[5][1] = u
      BY <1>9 DEF Cur
    <3> QED
      BY <1>u, <3>1 DEF MapPending
  <2>3. ASSUME NEW a \in MapAddrs, blockmap'[a].status = "ALLOCATED", a # addr
        PROVE  blkinfo'[ChipOf[a]][blockmap'[a].block].status # "FREE_BLK"
    <3>1. ChipOf[a] \in Chips /\ blockmap[a].block \in Blocks /\ blockmap[a].status = "ALLOCATED"
      BY <1>0, <1>1, <2>3, AFTLAssumption DEF Typed, MapEntries
    <3>2. CASE ChipOf[a] = c /\ blockmap[a].block = block
      <4>1. type # 1
        BY <1>0, <1>3, <2>3, <3>1, <3>2 DEF TablesAgree, MappedBlocksDistinct
      <4> QED
        BY <1>1, <1>6, <1>8, <3>1, <3>2, <4>1
    <3>3. CASE ~(ChipOf[a] = c /\ blockmap[a].block = block)
      <4>1. blkinfo'[ChipOf[a]][blockmap[a].block] = blkinfo[ChipOf[a]][blockmap[a].block]
        BY <1>8, <3>1, <3>3
      <4> QED
        BY <1>1, <1>14, <3>1, <4>1
    <3> QED
      BY <3>2, <3>3
  <2>4. MappedNeverFree'
    BY <2>2, <2>3 DEF MappedNeverFree
  <2> QED
    BY <2>1, <2>4 DEF TablesAgree
<1>17. Restoring'
  BY <1>1, <1>2 DEF Restoring, host
<1> QED
  BY <1>9, <1>11, <1>12, <1>13, <1>15, <1>16, <1>17 DEF IInv, Pipeline

(* updateBlkInfo5: the block map follows the block table.                  *)
LEMMA UpdateBlkInfo5Step ==
  ASSUME IInv, UpdateBlkInfo5
  PROVE  IInv'
<1>0. /\ Typed /\ Fits /\ Pipeline /\ TablesAgree /\ Stages /\ UpdatesFit /\ ScanFits /\ ChoiceFits
      /\ PickFits /\ LineFits /\ Owed
  BY DEF IInv, Pipeline, Stages
<1>1. /\ inProgress /\ NotEmpty(procUpdateQs[5]) /\ blkScanIssued' = FALSE
      /\ procUpdateQs' = [procUpdateQs EXCEPT ![5] = Tail(@)]
      /\ UNCHANGED <<blkinfo, mapResp, blkResp, reqQ, procQ, procQs, respQ, resp_errorQ, inProgress,
                     scanRegs, host>>
  BY DEF UpdateBlkInfo5
<1>u. PICK u, type, item, addr, c, block :
        /\ u = Cur(5) /\ type = u[1] /\ item = u[2]
        /\ addr = item.addr /\ c = item.cmd.chip /\ block = item.cmd.block
  OBVIOUS
<1>2. /\ procQ = <<>> /\ mapResp = <<>> /\ Rest({}, {5}) /\ blkScanReqCnt = 0 /\ restoring = <<>>
      /\ procUpdateQs \in [0 .. 5 -> Seq(UpdateCmds)]
      /\ At(5) /\ \A m \in (0 .. 5) \ {5} : ~At(m)
      /\ Head(procUpdateQs[5]) = u /\ u \in UpdateCmds /\ UpdateFits(u)
      /\ Len(procUpdateQs[5]) = 1 /\ Tail(procUpdateQs[5]) = <<>>
  BY <1>1, <1>u, AtUpdate
<1>3. /\ type \in 0 .. 2 /\ addr \in MapAddrs /\ c \in Chips /\ block \in Blocks /\ c = ChipOf[addr]
      /\ item.cmd \in FlashCmds
  BY <1>2, <1>u DEF UpdateCmds, Items, FlashCmds, UpdateFits
<1>4. /\ blockmap' = [blockmap EXCEPT ![addr] = MapEntry(type, block)]
      /\ type = 0 => markBadDoneQ' = <<TRUE>> /\ respQ_pre' = <<>>
      /\ type # 0 => respQ_pre' = <<item.cmd>> /\ markBadDoneQ' = <<>>
  <2>1. respQ_pre = <<>> /\ markBadDoneQ = <<>>
    BY <1>2 DEF Rest
  <2>2. Append(<<>>, TRUE) = <<TRUE>> /\ Append(<<>>, item.cmd) = <<item.cmd>>
    OBVIOUS
  <2>3. /\ type = 0 => markBadDoneQ' = Append(markBadDoneQ, TRUE) /\ UNCHANGED respQ_pre
        /\ type # 0 => respQ_pre' = Append(respQ_pre, item.cmd) /\ UNCHANGED markBadDoneQ
    BY <1>2, <1>u DEF UpdateBlkInfo5
  <2>4. blockmap' = [blockmap EXCEPT ![addr] = MapEntry(type, block)]
    BY <1>2, <1>u DEF UpdateBlkInfo5
  <2> QED
    BY <2>1, <2>2, <2>3, <2>4
<1>5. /\ MapEntry(type, block) \in MapEntries /\ MapEntry(type, block).block = block
      /\ MapEntry(type, block).status = "ALLOCATED" <=> type = 2
  BY <1>3 DEF MapEntry, MapEntries
<1>6. /\ blockmap' \in [MapAddrs -> MapEntries]
      /\ \A a \in MapAddrs : blockmap'[a] = IF a = addr THEN MapEntry(type, block) ELSE blockmap[a]
  BY <1>0, <1>3, <1>4, <1>5 DEF Typed
<1>7. procUpdateQs' \in [0 .. 5 -> Seq(UpdateCmds)] /\ \A k \in 0 .. 5 : procUpdateQs'[k] = <<>>
  <2>1. procUpdateQs' = [procUpdateQs EXCEPT ![5] = <<>>]
    BY <1>1, <1>2
  <2>2. \A k \in (0 .. 5) \ {5} : procUpdateQs[k] = <<>>
    BY <1>2 DEF Rest
  <2> QED
    BY <1>2, <2>1, <2>2
<1>8. Typed'
  <2>1. respQ_pre' \in Seq(FlashCmds) /\ markBadDoneQ' \in Seq({TRUE})
    <3>1. /\ <<item.cmd>> \in Seq(FlashCmds) /\ <<TRUE>> \in Seq({TRUE})
          /\ <<>> \in Seq(FlashCmds) /\ <<>> \in Seq({TRUE})
      BY <1>3
    <3>2. CASE type = 0
      BY <1>4, <3>1, <3>2
    <3>3. CASE type # 0
      BY <1>4, <3>1, <3>3
    <3> QED
      BY <3>2, <3>3
  <2>2. /\ UNCHANGED <<blkinfo, mapResp, blkResp, reqQ, procQ, procQs, respQ, resp_errorQ>>
        /\ UNCHANGED <<inProgress, blkScanReqCnt, blkScanRespCnt>>
        /\ UNCHANGED <<blkScanFinalCnt, curMinEnt, minEntVecQ, minEnt, theMinEntry, minPeEntryQ>>
        /\ UNCHANGED <<image, restoring>> /\ blkScanIssued' \in BOOLEAN
    BY <1>1 DEF scanRegs, host
  <2> QED
    BY <1>0, <1>6, <1>7, <2>1, <2>2 DEF Typed
<1>9. Fits'
  BY <1>0, <1>1 DEF Fits
<1>10. InProgressExact' /\ LookupFits' /\ ProcFits'
  <2>1. Typed' => Places'
    BY CountPlaces, PTL
  <2>2. NoStage' /\ blkScanReqCnt' = 0 /\ Len(procQ') = 0 /\ mapResp' = <<>>
    BY <1>1, <1>2, <1>7, EmptySeq DEF NoStage, Rest, scanRegs
  <2>3. InAnswer' = 1
    <3>1. Len(respQ') = 0 /\ Len(resp_errorQ') = 0
      BY <1>1, <1>2, EmptySeq DEF Rest
    <3>2. /\ type = 0 => Len(markBadDoneQ') = 1 /\ Len(respQ_pre') = 0
          /\ type # 0 => Len(respQ_pre') = 1 /\ Len(markBadDoneQ') = 0
      <4>1. Len(<<TRUE>>) = 1 /\ Len(<<item.cmd>>) = 1 /\ Len(<<>>) = 0
        OBVIOUS
      <4> QED
        BY <1>4, <4>1
    <3> DEFINE p == Len(respQ_pre')
               d == Len(markBadDoneQ')
    <3>3. InAnswer' = p + Len(respQ') + Len(resp_errorQ') + d
      BY DEF InAnswer
    <3>4. (type = 0 => d = 1 /\ p = 0) /\ (type # 0 => p = 1 /\ d = 0)
      BY <3>2
    <3> HIDE DEF p, d
    <3>5. p + 0 + 0 + d = 1
      BY <3>4
    <3> QED
      BY <3>1, <3>3, <3>5
  <2>4. InPipe' = Len(procQ') + InAnswer'
    BY <1>8, <2>1, <2>2 DEF Places
  <2>5. InPipe' = 1
    BY <2>2, <2>3, <2>4
  <2>6. LookupFits'
    BY <2>2, EmptySeq DEF LookupFits
  <2>7. \A n \in ProcNames : Len(procQs'[n]) = 0
    BY <2>2, EmptySeq DEF NoStage
  <2> QED
    BY <1>1, <2>5, <2>6, <2>7 DEF InProgressExact, ProcFits
<1>11. Stages'
  <2>1. minPeEntryQ = <<>>
    BY <1>0, <1>2 DEF PickFits, Allocating
  <2>2. blkResp = <<>>
    BY <1>0, <1>2 DEF LineFits
  <2>3. blkScanRespCnt = 0 /\ curMinEnt = [l \in LaneSet |-> Invalid]
    BY <1>0, <1>2 DEF ScanFits
  <2>4. minEntVecQ = <<>> /\ blkScanFinalCnt = 0 /\ theMinEntry = Invalid
    BY <1>0, <1>2 DEF ChoiceFits
  <2>5. Resting'
    BY <1>1, <1>2, <1>7, <2>1, <2>2, <2>3, <2>4 DEF Resting, scanRegs
  <2>6. Resting' => Stages'
    BY StagesRest, PTL
  <2> QED
    BY <2>5, <2>6
<1>12. TablesAgree'
  <2>1. \A a : MapPending(a) <=> a = addr
    <3>1. \A i \in 1 .. Len(procUpdateQs[5]) : procUpdateQs[5][i] = u
      BY <1>2, <1>u DEF Cur
    <3>2. 1 \in 1 .. Len(procUpdateQs[5])
      BY <1>2
    <3> QED
      BY <1>u, <3>1, <3>2 DEF MapPending
  <2>2. type = 2 => /\ ~IsFree(c, block)
                    /\ \A a \in MapAddrs : (blockmap[a].status = "ALLOCATED" /\ ChipOf[a] = c)
                         => blockmap[a].block # block
    BY <1>0, <1>2, <1>u DEF Owed, Allocating
  <2>3. MappedBlocksDistinct'
    <3> SUFFICES ASSUME NEW a \in MapAddrs, NEW b \in MapAddrs, a # b, ChipOf[a] = ChipOf[b],
                        blockmap'[a].status = "ALLOCATED", blockmap'[b].status = "ALLOCATED"
                 PROVE  blockmap'[a].block # blockmap'[b].block
      BY DEF MappedBlocksDistinct
    <3>1. CASE a = addr
      BY <1>3, <1>5, <1>6, <2>2, <3>1
    <3>2. CASE b = addr
      BY <1>3, <1>5, <1>6, <2>2, <3>2
    <3>3. CASE a # addr /\ b # addr
      BY <1>0, <1>6, <3>3 DEF TablesAgree, MappedBlocksDistinct
    <3> QED
      BY <3>1, <3>2, <3>3
  <2>4. MappedNeverFree'
    <3> SUFFICES ASSUME NEW a \in MapAddrs, blockmap'[a].status = "ALLOCATED"
                 PROVE  blkinfo'[ChipOf[a]][blockmap'[a].block].status # "FREE_BLK"
      BY DEF MappedNeverFree
    <3>1. CASE a = addr
      BY <1>1, <1>3, <1>5, <1>6, <2>2, <3>1 DEF IsFree
    <3>2. CASE a # addr
      BY <1>0, <1>1, <1>2, <1>6, <2>1, <3>2 DEF TablesAgree, MappedNeverFree
    <3> QED
      BY <3>1, <3>2
  <2> QED
    BY <2>3, <2>4 DEF TablesAgree
<1>13. Restoring'
  BY <1>1, <1>2 DEF Restoring, host
<1> QED
  BY <1>8, <1>9, <1>10, <1>11, <1>12, <1>13 DEF IInv, Pipeline

-----------------------------------------------------------------------------
(* The scan.                                                               *)

(* A queue of length 1 is its first element.                               *)
LEMMA OneElement ==
  ASSUME NEW S, NEW q \in Seq(S), Len(q) = 1
  PROVE  q = <<q[1]>>
  OBVIOUS

(* What surrounds the command while its scan is requested.                 *)
LEMMA BeforeScan ==
  ASSUME IInv, NotEmpty(procUpdateQs[0]), Head(procUpdateQs[0])[1] > 1
  PROVE  /\ Head(procUpdateQs[0]) = Cur(0) /\ Cur(0) \in UpdateCmds /\ UpdateFits(Cur(0))
         /\ Cur(0)[1] = 2 /\ procUpdateQs[0] = <<Cur(0)>>
         /\ procUpdateQs[1] = IF blkScanReqCnt = 0 THEN <<>> ELSE <<Cur(0)>>
         /\ \A m \in 2 .. 5 : procUpdateQs[m] = <<>>
         /\ procQ = <<>> /\ mapResp = <<>> /\ Rest({}, {0, 1}) /\ restoring = <<>> /\ inProgress
         /\ blkScanRespCnt + Len(blkResp) = blkScanReqCnt
         /\ \A i \in 1 .. Len(blkResp) : blkResp[i] = Line(Cur(0)[2].cmd.chip, blkScanRespCnt + i - 1)
         /\ \A l \in LaneSet : Candidate(Cur(0)[2].cmd.chip, curMinEnt[l])
<1>0. /\ Typed /\ Pipeline /\ Restoring /\ Stages /\ UpdatesFit /\ ScanFits /\ LineFits
      /\ InProgressExact /\ LookupFits
  BY DEF IInv, Pipeline, Stages
<1>1. procUpdateQs \in [0 .. 5 -> Seq(UpdateCmds)]
  BY <1>0 DEF Typed
<1>2. /\ inProgress /\ procQ = <<>> /\ Rest({}, {0, 1}) /\ Len(procUpdateQs[0]) = 1
      /\ blkScanReqCnt = 0 => procUpdateQs[1] = <<>>
      /\ blkScanReqCnt # 0 => Len(procUpdateQs[1]) = 1
  <2>1. CASE blkScanReqCnt = 0
    <3>1. Rest({}, {0}) /\ inProgress /\ procQ = <<>> /\ Len(procUpdateQs[0]) = 1
      BY <1>0, <2>1, AtStage
    <3> QED
      BY <2>1, <3>1 DEF Rest
  <2>2. CASE blkScanReqCnt # 0
    BY <1>0, <2>2, AtScan
  <2> QED
    BY <2>1, <2>2
<1>3. procUpdateQs[0] = <<Cur(0)>> /\ Head(procUpdateQs[0]) = Cur(0) /\ Cur(0) \in UpdateCmds
  <2>1. PICK q : q = procUpdateQs[0]
    OBVIOUS
  <2>2. q \in Seq(UpdateCmds) /\ Len(q) = 1
    BY <1>1, <1>2, <2>1
  <2>3. q = <<q[1]>> /\ Head(q) = q[1] /\ q[1] \in UpdateCmds
    BY <2>2, OneElement, TailOfOne
  <2> QED
    BY <2>1, <2>3 DEF Cur
<1>4. UpdateFits(Cur(0)) /\ Cur(0)[1] = 2
  <2>1. At(0)
    BY <1>2 DEF At
  <2>2. Cur(0)[1] \in 0 .. 2
    BY <1>3 DEF UpdateCmds
  <2> QED
    BY <1>0, <1>3, <2>1, <2>2 DEF UpdatesFit
<1>5. \A m \in 2 .. 5 : procUpdateQs[m] = <<>>
  BY <1>2 DEF Rest
<1>6. restoring = <<>> /\ mapResp = <<>>
  BY <1>0, <1>2, EmptySeq, Loaded DEF LookupFits, Typed
<1>7. CASE blkScanReqCnt = 0
  <2>1. ~At(1) /\ ~At(4)
    BY <1>2, <1>5, <1>7, EmptySeq DEF At
  <2>2. blkScanRespCnt = 0 /\ blkResp = <<>> /\ curMinEnt = [l \in LaneSet |-> Invalid]
    BY <1>0, <2>1 DEF ScanFits, LineFits
  <2> QED
    BY <1>2, <1>3, <1>4, <1>5, <1>6, <1>7, <2>2, EmptySeq DEF Candidate
<1>8. CASE blkScanReqCnt # 0
  <2>1. At(0) /\ At(1) /\ Cur(0) = Cur(1)
    BY <1>0, <1>8 DEF ScanFits, UpdatesFit
  <2>2. procUpdateQs[1] = <<Cur(0)>>
    <3>1. procUpdateQs[1] = <<Cur(1)>>
      BY <1>1, <1>2, <1>8, OneElement DEF Cur
    <3> QED
      BY <2>1, <3>1
  <2>3. /\ blkScanRespCnt + Len(blkResp) = blkScanReqCnt
        /\ \A i \in 1 .. Len(blkResp) : blkResp[i] = Line(Cur(0)[2].cmd.chip, blkScanRespCnt + i - 1)
        /\ \A l \in LaneSet : Candidate(Cur(0)[2].cmd.chip, curMinEnt[l])
    BY <1>0, <1>8, <2>1 DEF ScanFits, Requested
  <2> QED
    BY <1>2, <1>3, <1>4, <1>5, <1>6, <1>8, <2>2, <2>3
<1> QED
  BY <1>7, <1>8

(* updateBlkInfo0 of an allocation: one more line of the chip is           *)
(* requested.                                                              *)
LEMMA UpdateBlkInfo0ScanStep ==
  ASSUME IInv, UpdateBlkInfo0Scan
  PROVE  IInv'
<1>0. /\ Typed /\ Fits /\ TablesAgree /\ Pipeline /\ Stages /\ ChoiceFits /\ PickFits
  BY DEF IInv, Pipeline, Stages
<1>1. /\ NotEmpty(procUpdateQs[0]) /\ Head(procUpdateQs[0])[1] > 1 /\ NotFull(blkResp, BramDepth)
      /\ blkResp' = Append(blkResp, Line(Head(procUpdateQs[0])[2].cmd.chip, blkScanReqCnt))
      /\ UNCHANGED <<tables, mapResp, reqQ, procQ, procQs, outputs, inProgress, blkScanRespCnt,
                     blkScanFinalCnt, curMinEnt, minEntVecQ, minEnt, theMinEntry, minPeEntryQ, host>>
  BY DEF UpdateBlkInfo0Scan
<1>u. PICK u, c : u = Cur(0) /\ c = u[2].cmd.chip
  OBVIOUS
<1>2. /\ Head(procUpdateQs[0]) = u /\ u \in UpdateCmds /\ UpdateFits(u)
      /\ u[1] = 2 /\ procUpdateQs[0] = <<u>>
      /\ procUpdateQs[1] = IF blkScanReqCnt = 0 THEN <<>> ELSE <<u>>
      /\ \A m \in 2 .. 5 : procUpdateQs[m] = <<>>
      /\ procQ = <<>> /\ mapResp = <<>> /\ Rest({}, {0, 1}) /\ restoring = <<>> /\ inProgress
      /\ blkScanRespCnt + Len(blkResp) = blkScanReqCnt
      /\ \A i \in 1 .. Len(blkResp) : blkResp[i] = Line(c, blkScanRespCnt + i - 1)
      /\ \A l \in LaneSet : Candidate(c, curMinEnt[l])
  BY <1>1, <1>u, BeforeScan
<1>3. /\ blkScanReqCnt \in 0 .. Words - 1 /\ Words - 1 > 0 /\ Words \in Nat
      /\ blkScanRespCnt \in 0 .. Words - 1 /\ Len(blkResp) \in Nat
      /\ procUpdateQs \in [0 .. 5 -> Seq(UpdateCmds)]
  <2>1. Words \in Nat /\ Words - 1 > 0
    BY AFTLAssumption
  <2> QED
    BY <1>0, <2>1, Lengths DEF Typed
<1>4. /\ procUpdateQs' \in [0 .. 5 -> Seq(UpdateCmds)]
      /\ procUpdateQs'[0] = IF blkScanReqCnt = Words - 1 THEN <<>> ELSE <<u>>
      /\ procUpdateQs'[1] = <<u>> /\ \A m \in 2 .. 5 : procUpdateQs'[m] = <<>>
      /\ blkScanReqCnt' = IF blkScanReqCnt = Words - 1 THEN 0 ELSE blkScanReqCnt + 1
      /\ blkScanIssued' \in BOOLEAN
  <2>0. <<u>> \in Seq(UpdateCmds) /\ Append(<<>>, u) = <<u>> /\ Tail(<<u>>) = <<>>
        /\ blkScanIssued \in BOOLEAN
    BY <1>0, <1>2 DEF Typed
  <2>1. CASE blkScanReqCnt = 0
    <3>1. procUpdateQs' = [procUpdateQs EXCEPT ![1] = Append(procUpdateQs[1], u)]
          /\ blkScanReqCnt' = blkScanReqCnt + 1 /\ UNCHANGED blkScanIssued
      BY <1>2, <1>3, <2>1 DEF UpdateBlkInfo0Scan
    <3>2. procUpdateQs' = [procUpdateQs EXCEPT ![1] = <<u>>]
      BY <1>2, <2>0, <2>1, <3>1
    <3> QED
      BY <1>2, <1>3, <2>0, <2>1, <3>1, <3>2
  <2>2. CASE blkScanReqCnt = Words - 1
    <3>1. procUpdateQs' = [procUpdateQs EXCEPT ![0] = Tail(procUpdateQs[0])]
          /\ blkScanReqCnt' = 0 /\ blkScanIssued' = TRUE
      BY <1>2, <1>3, <2>2 DEF UpdateBlkInfo0Scan
    <3>2. procUpdateQs' = [procUpdateQs EXCEPT ![0] = <<>>]
      BY <1>2, <2>0, <3>1
    <3> QED
      BY <1>2, <1>3, <2>0, <2>2, <3>1, <3>2
  <2>3. CASE blkScanReqCnt \notin {0, Words - 1}
    <3>1. procUpdateQs' = procUpdateQs /\ blkScanReqCnt' = blkScanReqCnt + 1 /\ UNCHANGED blkScanIssued
      BY <2>3 DEF UpdateBlkInfo0Scan
    <3> QED
      BY <1>2, <1>3, <2>0, <2>3, <3>1
  <2> QED
    BY <2>1, <2>2, <2>3
<1>5. /\ blkResp' \in Seq([LaneSet -> BlkEntries]) /\ Len(blkResp') = Len(blkResp) + 1
      /\ \A i \in 1 .. Len(blkResp') : blkResp'[i] = Line(c, blkScanRespCnt + i - 1)
  <2>1. PICK line : line = Line(c, blkScanReqCnt)
    OBVIOUS
  <2>2. line \in [LaneSet -> BlkEntries]
    <3>1. c \in Chips
      BY <1>2, <1>u DEF UpdateCmds, Items, FlashCmds
    <3> QED
      BY <1>0, <1>3, <2>1, <3>1, LineTyped DEF Typed
  <2>3. blkResp' = Append(blkResp, line) /\ blkResp \in Seq([LaneSet -> BlkEntries])
    BY <1>0, <1>1, <1>2, <1>u, <2>1 DEF Typed
  <2>4. /\ blkResp' \in Seq([LaneSet -> BlkEntries]) /\ Len(blkResp') = Len(blkResp) + 1
        /\ \A i \in 1 .. Len(blkResp) : blkResp'[i] = blkResp[i]
        /\ blkResp'[Len(blkResp) + 1] = line
    BY <2>2, <2>3
  <2>5. ASSUME NEW i \in 1 .. Len(blkResp')
        PROVE  blkResp'[i] = Line(c, blkScanRespCnt + i - 1)
    <3>1. CASE i \in 1 .. Len(blkResp)
      BY <1>2, <2>4, <3>1
    <3>2. CASE i = Len(blkResp) + 1
      <4>1. blkScanRespCnt + i - 1 = blkScanReqCnt
        BY <1>2, <1>3, <3>2
      <4> QED
        BY <2>1, <2>4, <3>2, <4>1
    <3>3. i \in 1 .. Len(blkResp) \/ i = Len(blkResp) + 1
      BY <2>3, <2>4
    <3> QED
      BY <3>1, <3>2, <3>3
  <2> QED
    BY <2>4, <2>5
<1>6. Typed'
  <2>1. /\ UNCHANGED <<blockmap, blkinfo, mapResp, reqQ, procQ, procQs, respQ_pre, respQ, resp_errorQ>>
        /\ UNCHANGED <<markBadDoneQ, inProgress, blkScanRespCnt, blkScanFinalCnt>>
        /\ UNCHANGED <<curMinEnt, minEntVecQ, minEnt, theMinEntry, minPeEntryQ>>
        /\ UNCHANGED <<image, restoring>>
    BY <1>1 DEF tables, outputs, host
  <2>2. blkScanReqCnt' \in 0 .. Words - 1
    BY <1>3, <1>4
  <2>3. procUpdateQs' \in [0 .. 5 -> Seq(UpdateCmds)] /\ blkScanIssued' \in BOOLEAN
    BY <1>4
  <2> QED
    BY <1>0, <1>5, <2>1, <2>2, <2>3 DEF Typed
<1>7. Fits'
  BY <1>0, <1>1, <1>3, <1>5, AFTLAssumption DEF Fits, NotFull
<1>8. Rest({}, {0, 1})' /\ procQ' = <<>> /\ LookupFits' /\ ProcFits'
  <2>1. \A m \in (0 .. 5) \ {0, 1} : procUpdateQs'[m] = <<>>
    BY <1>4
  <2>2. Rest({}, {0, 1})' /\ procQ' = <<>> /\ mapResp' = <<>>
    BY <1>1, <1>2, <2>1 DEF Rest, outputs
  <2>3. \A k \in ProcNames : Len(procQs'[k]) = 0
    BY <2>2, EmptySeq DEF Rest
  <2> QED
    BY <2>2, <2>3, EmptySeq DEF LookupFits, ProcFits
<1>9. InProgressExact'
  <2>1. Typed' => Places'
    BY CountPlaces, PTL
  <2>2. InPipe' = Len(procUpdateQs'[0]) + Len(procUpdateQs'[1])
                  - (IF blkScanReqCnt' = 0 THEN 0 ELSE 1)
    BY <1>6, <1>8, <2>1 DEF Places
  <2>3. InPipe' = 1
    <3>1. Len(<<u>>) = 1 /\ Len(<<>>) = 0
      OBVIOUS
    <3>2. CASE blkScanReqCnt = Words - 1
      BY <1>4, <2>2, <3>1, <3>2
    <3>3. CASE blkScanReqCnt # Words - 1
      <4>1. Len(procUpdateQs'[0]) = 1 /\ Len(procUpdateQs'[1]) = 1 /\ blkScanReqCnt' # 0
        BY <1>3, <1>4, <3>1, <3>3
      <4> QED
        BY <2>2, <4>1
    <3> QED
      BY <3>2, <3>3
  <2> QED
    BY <1>1, <1>2, <2>3 DEF InProgressExact
<1>10. Stages'
  <2>1. /\ At(1)' /\ Cur(1)' = u /\ \A m \in 2 .. 5 : ~At(m)'
        /\ blkScanReqCnt' # 0 => At(0)'
        /\ At(0)' => Cur(0)' = u
    <3>1. Len(<<u>>) = 1 /\ <<u>>[1] = u /\ Len(<<>>) = 0
      OBVIOUS
    <3>2. /\ Len(procUpdateQs'[1]) = 1 /\ procUpdateQs'[1][1] = u
          /\ \A m \in 2 .. 5 : Len(procUpdateQs'[m]) = 0
      BY <1>4, <3>1
    <3>3. IF blkScanReqCnt = Words - 1
          THEN Len(procUpdateQs'[0]) = 0 /\ blkScanReqCnt' = 0
          ELSE Len(procUpdateQs'[0]) = 1 /\ procUpdateQs'[0][1] = u
      BY <1>4, <3>1
    <3> QED
      BY <3>2, <3>3 DEF At, Cur
  <2>2. UpdateFits(u)'
    BY <1>1, <1>2 DEF UpdateFits, tables
  <2>3. UpdatesFit'
    <3>1. \A n \in 0 .. 5 : n = 0 \/ n = 1 \/ n \in 2 .. 5
      OBVIOUS
    <3> QED
      BY <1>2, <2>1, <2>2, <3>1, SMTT(30) DEF UpdatesFit
  <2>4. ScanFits'
    <3>1. Requested' = blkScanReqCnt + 1
      BY <1>3, <1>4, SMTT(30) DEF Requested
    <3>2. blkScanRespCnt' + Len(blkResp') = Requested'
      BY <1>1, <1>2, <1>3, <1>5, <3>1, SMTT(30)
    <3>3. /\ \A i \in 1 .. Len(blkResp') : blkResp'[i] = Line(c, blkScanRespCnt + i - 1)'
          /\ \A l \in LaneSet : Candidate(c, curMinEnt[l])'
      BY <1>1, <1>2, <1>5, ZenonT(30) DEF Line, Candidate, IsFree, tables
    <3>4. Cur(1)'[2].cmd.chip = c
      BY <1>u, <2>1
    <3>5. blkScanReqCnt' # 0 => At(0)' /\ At(1)'
      BY <2>1
    <3> HIDE DEF Cur
    <3> QED
      BY <2>1, <3>2, <3>3, <3>4, <3>5, ZenonT(30) DEF ScanFits, Candidate, Line, IsFree
  <2>5. ChoiceFits'
    <3>1. ~At(2)
      BY <1>2, EmptySeq DEF At
    <3> QED
      BY <1>0, <1>1, <2>1, <3>1 DEF ChoiceFits
  <2>6. PickFits'
    <3>1. ~At(3) /\ ~At(4)
      BY <1>2, EmptySeq DEF At
    <3> QED
      BY <1>0, <1>1, <2>1, <3>1 DEF PickFits, Allocating
  <2>7. LineFits' /\ Owed'
    BY <2>1 DEF LineFits, Owed, Allocating
  <2> QED
    BY <2>3, <2>4, <2>5, <2>6, <2>7 DEF Stages
<1>11. TablesAgree' /\ Restoring'
  <2>1. \A a : ~MapPending(a)
    BY <1>2, EmptySeq DEF MapPending
  <2> QED
    BY <1>0, <1>1, <1>2, <2>1 DEF TablesAgree, MappedBlocksDistinct, MappedNeverFree, Restoring,
                                  tables, host
<1> QED
  BY <1>6, <1>7, <1>8, <1>9, <1>10, <1>11 DEF IInv, Pipeline

(* The command whose lines are collected.                                  *)
LEMMA WhileScanning ==
  ASSUME IInv, NotEmpty(procUpdateQs[1])
  PROVE  /\ inProgress /\ procQ = <<>> /\ mapResp = <<>> /\ Rest({}, {0, 1}) /\ restoring = <<>>
         /\ At(1) /\ \A m \in 2 .. 5 : ~At(m) /\ procUpdateQs[m] = <<>>
         /\ procUpdateQs \in [0 .. 5 -> Seq(UpdateCmds)]
         /\ Head(procUpdateQs[1]) = Cur(1) /\ Cur(1) \in UpdateCmds /\ UpdateFits(Cur(1))
         /\ Cur(1)[1] = 2
<1>0. /\ Typed /\ Pipeline /\ Restoring /\ Stages /\ UpdatesFit /\ ScanFits
      /\ InProgressExact /\ LookupFits
  BY DEF IInv, Pipeline, Stages
<1>1. procUpdateQs \in [0 .. 5 -> Seq(UpdateCmds)] /\ procUpdateQs[1] \in Seq(UpdateCmds)
  BY <1>0 DEF Typed
<1>2. inProgress /\ procQ = <<>> /\ Rest({}, {0, 1}) /\ Len(procUpdateQs[1]) = 1
  <2>1. CASE blkScanReqCnt = 0
    <3>1. Rest({}, {1}) /\ inProgress /\ procQ = <<>> /\ Len(procUpdateQs[1]) = 1
      BY <1>0, <2>1, AtStage
    <3> QED
      BY <3>1 DEF Rest
  <2>2. CASE blkScanReqCnt # 0
    BY <1>0, <2>2, AtScan
  <2> QED
    BY <2>1, <2>2
<1>3. Head(procUpdateQs[1]) = Cur(1) /\ Cur(1) \in UpdateCmds
  BY <1>1, <1>2, TailOfOne DEF Cur
<1>4. At(1) /\ UpdateFits(Cur(1)) /\ Cur(1)[1] = 2
  BY <1>0, <1>2 DEF UpdatesFit, At
<1>5. \A m \in 2 .. 5 : procUpdateQs[m] = <<>>
  BY <1>2 DEF Rest
<1>6. \A m \in 2 .. 5 : ~At(m)
  BY <1>5, EmptySeq DEF At
<1>7. restoring = <<>> /\ mapResp = <<>>
  BY <1>0, <1>2, EmptySeq, Loaded DEF LookupFits, Typed
<1> QED
  BY <1>1, <1>2, <1>3, <1>4, <1>5, <1>6, <1>7

(* Only free blocks become candidates.                                     *)
LEMMA UpdateMinCandidate ==
  ASSUME Typed, NEW c \in Chips, NEW b \in Blocks, NEW e \in MinEntries, Candidate(c, e)
  PROVE  /\ UpdateMinEntries(e, blkinfo[c][b], b) \in MinEntries
         /\ Candidate(c, UpdateMinEntries(e, blkinfo[c][b], b))
<1>1. blkinfo[c][b] \in BlkEntries
  BY DEF Typed
<1>2. PICK entry : entry = blkinfo[c][b]
  OBVIOUS
<1>3. entry.erase \in 0 .. EraseMod - 1
  BY <1>1, <1>2 DEF BlkEntries
<1>4. <<b, entry.erase>> \in MinEntries /\ (entry.status = "FREE_BLK" => Candidate(c, <<b, entry.erase>>))
  BY <1>2, <1>3 DEF MinEntries, Candidate, IsFree
<1>5. \/ UpdateMinEntries(e, entry, b) = e
      \/ entry.status = "FREE_BLK" /\ UpdateMinEntries(e, entry, b) = <<b, entry.erase>>
  BY DEF UpdateMinEntries
<1> QED
  BY <1>2, <1>4, <1>5

(* updateBlkInfo1: one more line is folded into the minima of the lanes.   *)
LEMMA UpdateBlkInfo1Step ==
  ASSUME IInv, UpdateBlkInfo1
  PROVE  IInv'
<1>0. /\ Typed /\ Fits /\ TablesAgree /\ Pipeline /\ Stages /\ UpdatesFit /\ ScanFits /\ ChoiceFits
      /\ PickFits /\ LineFits /\ InProgressExact /\ ProcFits /\ LookupFits
  BY DEF IInv, Pipeline, Stages
<1>1. /\ inProgress /\ NotEmpty(procUpdateQs[1]) /\ NotEmpty(blkResp) /\ blkResp' = Tail(blkResp)
      /\ UNCHANGED <<tables, mapResp, reqQ, procQ, procQs, outputs, inProgress, blkScanIssued,
                     blkScanReqCnt, blkScanFinalCnt, minEnt, theMinEntry, minPeEntryQ, host>>
  BY DEF UpdateBlkInfo1
<1>u. PICK u, c, new : /\ u = Cur(1) /\ c = u[2].cmd.chip
                       /\ new = [l \in LaneSet |-> UpdateMinEntries(curMinEnt[l], Head(blkResp)[l],
                                                                    blkScanRespCnt * Lanes + l)]
  OBVIOUS
<1>2. /\ procQ = <<>> /\ mapResp = <<>> /\ Rest({}, {0, 1}) /\ restoring = <<>>
      /\ At(1) /\ \A m \in 2 .. 5 : ~At(m) /\ procUpdateQs[m] = <<>>
      /\ procUpdateQs \in [0 .. 5 -> Seq(UpdateCmds)]
      /\ Head(procUpdateQs[1]) = u /\ u \in UpdateCmds /\ UpdateFits(u) /\ u[1] = 2
  BY <1>1, <1>u, WhileScanning
<1>3. /\ blkScanReqCnt \in 0 .. Words - 1 /\ Words - 1 > 0 /\ Words \in Nat
      /\ blkScanRespCnt \in 0 .. Words - 1 /\ Len(blkResp) \in Nat /\ Len(blkResp) > 0
      /\ blkResp \in Seq([LaneSet -> BlkEntries]) /\ c \in Chips
  <2>1. Words \in Nat /\ Words - 1 > 0
    BY AFTLAssumption
  <2>2. c \in Chips
    BY <1>2, <1>u DEF UpdateCmds, Items, FlashCmds
  <2>3. blkResp \in Seq([LaneSet -> BlkEntries]) /\ blkResp # <<>>
    BY <1>0, <1>1 DEF Typed, NotEmpty
  <2>4. Len(blkResp) > 0 /\ Len(blkResp) \in Nat
    BY <2>3
  <2> QED
    BY <1>0, <2>1, <2>2, <2>3, <2>4 DEF Typed
<1>4. /\ blkScanRespCnt + Len(blkResp) = Requested
      /\ \A i \in 1 .. Len(blkResp) : blkResp[i] = Line(c, blkScanRespCnt + i - 1)
      /\ \A l \in LaneSet : Candidate(c, curMinEnt[l])
  BY <1>0, <1>2, <1>u DEF ScanFits
<1>5. new \in [LaneSet -> MinEntries] /\ \A l \in LaneSet : Candidate(c, new[l])
  <2>1. Head(blkResp) = Line(c, blkScanRespCnt)
    <3>1. Head(blkResp) = blkResp[1] /\ 1 \in 1 .. Len(blkResp) /\ blkScanRespCnt + 1 - 1 = blkScanRespCnt
      BY <1>3
    <3> QED
      BY <1>4, <3>1
  <2>2. ASSUME NEW l \in LaneSet
        PROVE  new[l] \in MinEntries /\ Candidate(c, new[l])
    <3>1. PICK b : b = blkScanRespCnt * Lanes + l
      OBVIOUS
    <3>2. b \in Blocks /\ Head(blkResp)[l] = blkinfo[c][b]
      BY <1>3, <2>1, <3>1, BlockOfALane DEF Line
    <3>3. new[l] = UpdateMinEntries(curMinEnt[l], blkinfo[c][b], b)
      BY <1>u, <3>1, <3>2
    <3>4. curMinEnt[l] \in MinEntries
      BY <1>0 DEF Typed
    <3> QED
      BY <1>0, <1>3, <1>4, <3>2, <3>3, <3>4, UpdateMinCandidate
  <2>3. new = [l \in LaneSet |-> new[l]]
    BY <1>u
  <2> QED
    BY <2>2, <2>3
<1>6. /\ blkResp' \in Seq([LaneSet -> BlkEntries]) /\ Len(blkResp') = Len(blkResp) - 1
      /\ \A i \in 1 .. Len(blkResp') : blkResp'[i] = blkResp[i + 1]
  BY <1>1, <1>3
<1>7. Fits'
  BY <1>0, <1>1, <1>3, <1>6, AFTLAssumption DEF Fits
<1>8. TablesAgree' /\ Restoring'
  <2>1. \A a : ~MapPending(a)
    BY <1>2, EmptySeq DEF MapPending
  <2> QED
    BY <1>0, <1>1, <1>2, <2>1 DEF TablesAgree, MappedBlocksDistinct, MappedNeverFree, Restoring,
                                  tables, host
<1>9. /\ UNCHANGED <<blockmap, blkinfo, mapResp, reqQ, procQ, procQs, respQ_pre, respQ, resp_errorQ>>
      /\ UNCHANGED <<markBadDoneQ, inProgress, blkScanIssued, blkScanReqCnt, blkScanFinalCnt>>
      /\ UNCHANGED <<minEnt, theMinEntry, minPeEntryQ, image, restoring>>
  BY <1>1 DEF tables, outputs, host
<1>10. CASE blkScanRespCnt = Words - 1
  <2>1. blkScanReqCnt = 0 /\ Len(blkResp) = 1
    <3>1. PICK n : n = Len(blkResp)
      OBVIOUS
    <3>2. n \in Nat /\ n > 0 /\ Words - 1 + n = Requested
      BY <1>3, <1>4, <1>10, <3>1
    <3>3. blkScanReqCnt = 0 /\ n = 1
      BY <1>3, <3>2 DEF Requested
    <3> QED
      BY <3>1, <3>3
  <2>2. /\ blkScanRespCnt' = 0 /\ curMinEnt' = [l \in LaneSet |-> Invalid]
        /\ minEntVecQ' = Append(minEntVecQ, new) /\ Moves(1, 2, u)
    BY <1>2, <1>10, <1>u DEF UpdateBlkInfo1, Moves
  <2>3. /\ procUpdateQs' \in [0 .. 5 -> Seq(UpdateCmds)]
        /\ Len(procUpdateQs'[2]) = 1 /\ At(2)' /\ Cur(2)' = u
        /\ \A k \in (0 .. 5) \ {2} : procUpdateQs'[k] = <<>> /\ ~At(k)'
        /\ procQ' = <<>> /\ Rest({}, {2})' /\ LookupFits' /\ ProcFits'
    <3>1. UNCHANGED <<procQ, procQs, mapResp, outputs>> /\ u \in UpdateCmds /\ Moves(1, 2, u)
      BY <1>1, <1>2, <2>2
    <3> QED
      BY <1>1, <2>1, <3>1, MoveUpdate
  <2>4. minEntVecQ' = <<new>> /\ blkScanFinalCnt = 0 /\ theMinEntry = Invalid
    <3>1. minEntVecQ = <<>> /\ blkScanFinalCnt = 0 /\ theMinEntry = Invalid
      BY <1>0, <1>2 DEF ChoiceFits
    <3>2. Append(<<>>, new) = <<new>>
      OBVIOUS
    <3> QED
      BY <2>2, <3>1, <3>2
  <2>5. Typed'
    <3>1. minEntVecQ' \in Seq([LaneSet -> MinEntries])
      BY <1>5, <2>4
    <3>2. curMinEnt' \in [LaneSet -> MinEntries] /\ blkScanRespCnt' \in 0 .. Words - 1
      BY <1>3, <2>2 DEF MinEntries
    <3>3. procUpdateQs' \in [0 .. 5 -> Seq(UpdateCmds)]
      BY <2>3
    <3> QED
      BY <1>0, <1>6, <1>9, <3>1, <3>2, <3>3 DEF Typed
  <2>6. InProgressExact'
    BY <1>1, <2>1, <2>3, <2>5, ExactAt
  <2>7. Stages'
    <3>1. UpdateFits(u)'
      BY <1>2, <1>9 DEF UpdateFits
    <3>2. UpdatesFit'
      BY <1>2, <2>3, <3>1 DEF UpdatesFit
    <3>3. ScanFits'
      BY <1>9, <2>1, <2>2, <2>3 DEF ScanFits
    <3>4. ChoiceFits'
      <4>1. Len(minEntVecQ') = 1 /\ minEntVecQ'[1] = new
        BY <2>4
      <4>2. (\A l \in LaneSet : Candidate(c, new[l]))' /\ Candidate(c, theMinEntry)'
        BY <1>5, <1>9, <2>4 DEF Candidate, IsFree
      <4> QED
        BY <1>9, <1>u, <2>3, <2>4, <4>1, <4>2 DEF ChoiceFits, Candidate, IsFree
    <3>5. PickFits'
      BY <1>0, <1>2, <1>9, <2>3 DEF PickFits, Allocating
    <3>6. LineFits'
      <4>1. blkResp' = <<>>
        BY <1>6, <2>1
      <4> QED
        BY <2>3, <4>1 DEF LineFits
    <3>7. Owed'
      BY <2>3 DEF Owed, Allocating
    <3> QED
      BY <3>1, <3>2, <3>3, <3>4, <3>5, <3>6, <3>7 DEF Stages
  <2> QED
    BY <1>7, <1>8, <2>3, <2>5, <2>6, <2>7 DEF IInv, Pipeline
<1>11. CASE blkScanRespCnt # Words - 1
  <2>1. /\ blkScanRespCnt' = blkScanRespCnt + 1 /\ curMinEnt' = new
        /\ UNCHANGED <<minEntVecQ, procUpdateQs>>
    BY <1>11, <1>u DEF UpdateBlkInfo1
  <2>2. Typed'
    <3>1. blkScanRespCnt' \in 0 .. Words - 1
      BY <1>3, <1>11, <2>1
    <3> QED
      BY <1>0, <1>5, <1>6, <1>9, <2>1, <3>1 DEF Typed
  <2>3. InProgressExact' /\ LookupFits' /\ ProcFits'
    BY <1>0, <1>9, <2>1 DEF InProgressExact, InPipe, InLookup, InUpdate, InAnswer, LookupFits,
                            ProcFits, ItemFits
  <2>4. Stages'
    <3>1. UpdatesFit'
      BY <1>0, <1>9, <2>1 DEF UpdatesFit, UpdateFits, Cur, At
    <3>2. ScanFits'
      <4>1. At(1)' /\ Cur(1)' = u /\ (At(0)' <=> At(0)) /\ Requested' = Requested
        BY <1>2, <1>9, <1>u, <2>1 DEF At, Cur, Requested
      <4>2. blkScanRespCnt' + Len(blkResp') = Requested'
        <5>1. Requested \in Nat
          BY <1>3 DEF Requested
        <5> QED
          BY <1>3, <1>4, <1>6, <2>1, <4>1, <5>1
      <4>3. ASSUME NEW i \in 1 .. Len(blkResp')
            PROVE  blkResp'[i] = Line(c, blkScanRespCnt + i - 1)'
        <5>0. i \in Nat /\ i + 1 \in 1 .. Len(blkResp) /\ blkResp'[i] = blkResp[i + 1]
          BY <1>3, <1>6
        <5>1. /\ i + 1 \in 1 .. Len(blkResp) /\ blkResp'[i] = blkResp[i + 1]
              /\ blkScanRespCnt + (i + 1) - 1 = blkScanRespCnt' + i - 1
          <6>1. blkScanRespCnt' = blkScanRespCnt + 1 /\ blkScanRespCnt \in Nat
            BY <1>3, <2>1
          <6> QED
            BY <5>0, <6>1
        <5>2. blkResp[i + 1] = Line(c, blkScanRespCnt + (i + 1) - 1)
          BY <1>4, <5>1
        <5> QED
          BY <1>9, <5>1, <5>2 DEF Line
      <4>4. \A l \in LaneSet : Candidate(c, curMinEnt[l])'
        BY <1>5, <1>9, <2>1 DEF Candidate, IsFree
      <4>5. blkScanReqCnt' # 0 => At(0)' /\ At(1)'
        BY <1>0, <1>9, <4>1 DEF ScanFits
      <4>6. Cur(1)'[2].cmd.chip = c
        BY <1>u, <4>1
      <4> QED
        BY <4>1, <4>2, <4>3, <4>4, <4>5, <4>6, ZenonT(30) DEF ScanFits, Candidate, Line, IsFree
    <3>3. ChoiceFits'
      BY <1>0, <1>9, <2>1 DEF ChoiceFits, Candidate, IsFree, Cur, At
    <3>4. PickFits'
      BY <1>0, <1>9, <2>1 DEF PickFits, Allocating, IsFree, Cur, At
    <3>5. LineFits' /\ Owed'
      BY <1>2, <2>1 DEF LineFits, Owed, Allocating, At
    <3> QED
      BY <3>1, <3>2, <3>3, <3>4, <3>5 DEF Stages
  <2> QED
    BY <1>7, <1>8, <2>2, <2>3, <2>4 DEF IInv, Pipeline
<1> QED
  BY <1>10, <1>11

(* rotate moves the lanes and changes none.                                *)
LEMMA RotateLanes ==
  ASSUME NEW S, NEW v \in [LaneSet -> S]
  PROVE  /\ Rotate(v) \in [LaneSet -> S]
         /\ \A l \in LaneSet : \E k \in LaneSet : Rotate(v)[l] = v[k]
<1>1. ASSUME NEW l \in LaneSet PROVE (l + 1) % Lanes \in LaneSet
  <2>1. l + 1 \in Nat /\ Lanes \in Nat \ {0}
    BY AFTLAssumption DEF LaneSet
  <2> QED
    BY <2>1, Divide DEF LaneSet
<1> QED
  BY <1>1 DEF Rotate

(* updateBlkInfo2 before its last lane: one more lane is compared.         *)
LEMMA UpdateBlkInfo2StepStep ==
  ASSUME IInv, UpdateBlkInfo2Step
  PROVE  IInv'
<1>0. /\ Typed /\ Fits /\ TablesAgree /\ Pipeline /\ Stages /\ UpdatesFit /\ ScanFits /\ ChoiceFits
      /\ PickFits /\ LineFits /\ Owed /\ InProgressExact /\ ProcFits /\ LookupFits
  BY DEF IInv, Pipeline, Stages
<1>1. /\ inProgress /\ NotEmpty(procUpdateQs[2]) /\ blkScanFinalCnt # Lanes - 1
      /\ blkScanFinalCnt' = blkScanFinalCnt + 1
      /\ UNCHANGED <<tables, mapResp, blkResp, reqQ, procQ, procQs, procUpdateQs, outputs, inProgress,
                     blkScanIssued, blkScanReqCnt, blkScanRespCnt, curMinEnt, minPeEntryQ, host>>
  BY DEF UpdateBlkInfo2Step
<1>u. PICK c : c = Cur(2)[2].cmd.chip
  OBVIOUS
<1>2. restoring = <<>> /\ At(2)
  BY <1>1, AtUpdate
<1>3. /\ UNCHANGED <<blockmap, blkinfo, mapResp, blkResp, reqQ, procQ, procQs, procUpdateQs>>
      /\ UNCHANGED <<respQ_pre, respQ, resp_errorQ, markBadDoneQ, inProgress, blkScanIssued>>
      /\ UNCHANGED <<blkScanReqCnt, blkScanRespCnt, curMinEnt, minPeEntryQ, image, restoring>>
  BY <1>1 DEF tables, outputs, host
<1>4. PICK v : /\ v \in [LaneSet -> MinEntries] /\ \A l \in LaneSet : Candidate(c, v[l])
               /\ minEntVecQ' = <<>> /\ minEnt' = Rotate(v)
               /\ theMinEntry' = GetMinEntries(theMinEntry, v[0])
  <2>1. CASE blkScanFinalCnt = 0
    <3>1. minEntVecQ \in Seq([LaneSet -> MinEntries])
      BY <1>0 DEF Typed
    <3>2. Len(minEntVecQ) = 1 /\ \A l \in LaneSet : Candidate(c, minEntVecQ[1][l])
      BY <1>0, <1>2, <1>u, <2>1 DEF ChoiceFits
    <3>3. /\ Head(minEntVecQ) = minEntVecQ[1] /\ Tail(minEntVecQ) = <<>>
          /\ minEntVecQ[1] \in [LaneSet -> MinEntries]
      BY <3>1, <3>2, TailOfOne
    <3>4. /\ minEntVecQ' = Tail(minEntVecQ) /\ minEnt' = Rotate(Head(minEntVecQ))
          /\ theMinEntry' = GetMinEntries(theMinEntry, Head(minEntVecQ)[0])
      BY <2>1 DEF UpdateBlkInfo2Step
    <3> QED
      BY <3>2, <3>3, <3>4
  <2>2. CASE blkScanFinalCnt # 0
    <3>1. minEntVecQ = <<>> /\ \A l \in LaneSet : Candidate(c, minEnt[l])
      BY <1>0, <1>2, <1>u, <2>2 DEF ChoiceFits
    <3>2. /\ minEnt' = Rotate(minEnt) /\ theMinEntry' = GetMinEntries(theMinEntry, minEnt[0])
          /\ UNCHANGED minEntVecQ
      BY <2>2 DEF UpdateBlkInfo2Step
    <3>3. minEnt \in [LaneSet -> MinEntries]
      BY <1>0 DEF Typed
    <3> QED
      BY <3>1, <3>2, <3>3
  <2> QED
    BY <2>1, <2>2
<1>5. theMinEntry' \in MinEntries /\ Candidate(c, theMinEntry')
  <2>1. 0 \in LaneSet
    BY AFTLAssumption DEF LaneSet
  <2>2. v[0] \in MinEntries /\ Candidate(c, v[0]) /\ theMinEntry \in MinEntries
    BY <1>0, <1>4, <2>1 DEF Typed
  <2>3. Candidate(c, theMinEntry)
    BY <1>0, <1>2, <1>u DEF ChoiceFits
  <2> QED
    BY <1>4, <2>2, <2>3, GetMinCandidate
<1>6. minEnt' \in [LaneSet -> MinEntries] /\ \A l \in LaneSet : Candidate(c, minEnt'[l])
  BY <1>4, RotateLanes
<1>7. blkScanFinalCnt' \in 0 .. Lanes - 1 /\ blkScanFinalCnt' # 0
  <2>1. blkScanFinalCnt \in 0 .. Lanes - 1 /\ Lanes \in Nat
    BY <1>0, AFTLAssumption DEF Typed
  <2> QED
    BY <1>1, <2>1
<1>8. Typed'
  <2>1. minEntVecQ' \in Seq([LaneSet -> MinEntries])
    BY <1>4, EmptySeq
  <2> QED
    BY <1>0, <1>3, <1>5, <1>6, <1>7, <2>1 DEF Typed
<1>9. Fits' /\ InProgressExact' /\ LookupFits' /\ ProcFits'
  BY <1>0, <1>3 DEF Fits, InProgressExact, InPipe, InLookup, InUpdate, InAnswer, LookupFits,
                    ProcFits, ItemFits
<1>10. Stages'
  <2>1. UpdatesFit' /\ Owed'
    BY <1>0, <1>3, ZenonT(30) DEF UpdatesFit, UpdateFits, Owed, Allocating, IsFree, Cur, At
  <2>2. ScanFits'
    BY <1>0, <1>3, ZenonT(30) DEF ScanFits, Requested, Candidate, IsFree, Line, Cur, At
  <2>3. ChoiceFits'
    <3>1. At(2)' /\ Cur(2)'[2].cmd.chip = c
      BY <1>2, <1>3, <1>u DEF At, Cur
    <3>2. Candidate(c, theMinEntry)' /\ \A l \in LaneSet : Candidate(c, minEnt[l])'
      BY <1>3, <1>5, <1>6 DEF Candidate, IsFree
    <3> QED
      BY <1>4, <1>7, <3>1, <3>2 DEF ChoiceFits, Candidate, IsFree
  <2>4. PickFits' /\ LineFits'
    BY <1>0, <1>3 DEF PickFits, LineFits, Line, Allocating, IsFree, Cur, At
  <2> QED
    BY <2>1, <2>2, <2>3, <2>4 DEF Stages
<1>11. TablesAgree' /\ Restoring'
  BY <1>0, <1>2, <1>3, KeptTables DEF Restoring
<1> QED
  BY <1>8, <1>9, <1>10, <1>11 DEF IInv, Pipeline

-----------------------------------------------------------------------------
(* The restore, before any command.                                        *)

(* A step of the restore finds and leaves the pipeline empty.              *)
LEMMA RestoreKeeps ==
  ASSUME IInv, restoring # <<>>, restoring' = Tail(restoring),
         blockmap' \in [MapAddrs -> MapEntries], blkinfo' \in [Chips -> [Blocks -> BlkEntries]],
         UNCHANGED <<mapResp, blkResp, reqQ, procQ, procQs, procUpdateQs, outputs, inProgress,
                     blkScanIssued, scanRegs, image>>
  PROVE  Typed' /\ Fits' /\ Pipeline' /\ (\A a : ~MapPending(a)')
<1>0. Typed /\ Fits /\ Pipeline /\ Restoring /\ ScanFits /\ InProgressExact /\ Stages /\ LookupFits
  BY DEF IInv, Pipeline, Stages
<1>1. ~inProgress
  BY <1>0 DEF Restoring
<1>2. /\ \A n \in ProcNames : procQs[n] = <<>>
      /\ \A n \in 0 .. 5 : procUpdateQs[n] = <<>>
      /\ blkScanReqCnt = 0 /\ procQ = <<>>
  BY <1>0, <1>1, Alone, LookupCount, UpdateCount
<1>3. restoring' \in Seq(HostSteps)
  BY <1>0 DEF Typed
<1>4. Typed'
  <2>1. /\ UNCHANGED <<mapResp, blkResp, reqQ, procQ, procQs, procUpdateQs, respQ_pre, respQ>>
        /\ UNCHANGED <<resp_errorQ, markBadDoneQ, inProgress, blkScanIssued, blkScanReqCnt>>
        /\ UNCHANGED <<blkScanRespCnt, blkScanFinalCnt, curMinEnt, minEntVecQ, minEnt>>
        /\ UNCHANGED <<theMinEntry, minPeEntryQ, image>>
    BY DEF outputs, scanRegs
  <2> QED
    BY <1>0, <1>3, <2>1 DEF Typed
<1>5. Fits'
  BY <1>0 DEF Fits
<1>6. InProgressExact'
  BY <1>0 DEF InProgressExact, InPipe, InLookup, InUpdate, InAnswer, outputs, scanRegs
<1>7. LookupFits' /\ ProcFits'
  <2>1. Len(procQ') = 0 /\ Len(mapResp') = Len(procQ') /\ \A n \in ProcNames : Len(procQs'[n]) = 0
    BY <1>0, <1>2, EmptySeq DEF LookupFits
  <2> QED
    BY <2>1 DEF LookupFits, ProcFits
<1>8. Stages'
  <2>1. Resting
    BY <1>0, <1>2, StagesRest
  <2>2. Resting'
    BY <2>1 DEF Resting, scanRegs
  <2>3. Resting' => Stages'
    BY StagesRest, PTL
  <2> QED
    BY <2>2, <2>3
<1>9. \A a : ~MapPending(a)'
  BY <1>2, EmptySeq DEF MapPending
<1> QED
  BY <1>4, <1>5, <1>6, <1>7, <1>8, <1>9 DEF Pipeline

(* What the restore has not done yet is still to come.                     *)
LEMMA StillToCome ==
  ASSUME IInv, restoring # <<>>, restoring' = Tail(restoring), Head(restoring) # <<"loaded">>
  PROVE  /\ restoring' # <<>> /\ restoring'[Len(restoring')] = <<"loaded">>
         /\ \A x : ToCome(x) /\ x # Head(restoring) => ToCome(x)'
<1>1. restoring \in Seq(HostSteps) /\ restoring[Len(restoring)] = <<"loaded">>
  BY DEF IInv, Typed, Restoring
<1>2. /\ Len(restoring) \in Nat /\ Len(restoring) > 0 /\ Head(restoring) = restoring[1]
      /\ restoring' \in Seq(HostSteps) /\ Len(restoring') = Len(restoring) - 1
      /\ \A i \in 1 .. Len(restoring) - 1 : restoring'[i] = restoring[i + 1]
  BY <1>1
<1>3. Len(restoring) > 1
  BY <1>1, <1>2
<1>4. restoring' # <<>> /\ restoring'[Len(restoring')] = <<"loaded">>
  <2>1. Len(restoring') > 0 /\ restoring'[Len(restoring')] = restoring[Len(restoring)]
    BY <1>2, <1>3
  <2> QED
    BY <1>1, <1>2, <2>1
<1>5. ASSUME NEW x, ToCome(x), x # Head(restoring)
      PROVE  ToCome(x)'
  <2>1. PICK i \in 1 .. Len(restoring) : restoring[i] = x
    BY <1>5 DEF ToCome
  <2>2. i # 1
    BY <1>2, <1>5, <2>1
  <2>3. i - 1 \in 1 .. Len(restoring') /\ restoring'[i - 1] = x
    BY <1>2, <2>1, <2>2
  <2> QED
    BY <2>3 DEF ToCome
<1> QED
  BY <1>4, <1>5

(* updateBlkInfo of the host: one line of the block table is restored.     *)
LEMMA UpdateBlkInfoStep ==
  ASSUME IInv, NEW c \in Chips, NEW w \in 0 .. Words - 1, UpdateBlkInfo(c, w)
  PROVE  IInv'
<1>0. Typed /\ TablesAgree /\ Restoring
  BY DEF IInv
<1>1. /\ restoring # <<>> /\ Head(restoring) = <<"blkinfo", c, w>> /\ restoring' = Tail(restoring)
      /\ UNCHANGED <<blockmap, mapResp, blkResp, reqQ, procQ, procQs, procUpdateQs,
                     outputs, inProgress, blkScanIssued, scanRegs, image>>
  BY DEF UpdateBlkInfo
<1>2. /\ blkinfo' \in [Chips -> [Blocks -> BlkEntries]]
      /\ \A k \in Chips, b \in Blocks : blkinfo'[k][b] =
           IF k = c /\ b \div Lanes = w THEN image.info[c][b] ELSE blkinfo[k][b]
  <2>1. PICK f : /\ f = [b \in Blocks |-> IF b \div Lanes = w THEN image.info[c][b] ELSE blkinfo[c][b]]
                 /\ blkinfo' = [blkinfo EXCEPT ![c] = f]
    BY DEF UpdateBlkInfo
  <2>2. image.info \in [Chips -> [Blocks -> BlkEntries]]
    BY <1>0, ImagesAssumption DEF Typed
  <2>3. f \in [Blocks -> BlkEntries]
    <3>1. image.info[c] \in [Blocks -> BlkEntries] /\ blkinfo[c] \in [Blocks -> BlkEntries]
      BY <1>0, <2>2 DEF Typed
    <3>2. \A b \in Blocks :
            (IF b \div Lanes = w THEN image.info[c][b] ELSE blkinfo[c][b]) \in BlkEntries
      BY <3>1
    <3> QED
      BY <2>1, <3>2
  <2> QED
    BY <1>0, <2>1, <2>3 DEF Typed
<1>3. Typed' /\ Fits' /\ Pipeline'
  BY <1>0, <1>1, <1>2, RestoreKeeps DEF Typed
<1>4. /\ restoring' # <<>> /\ restoring'[Len(restoring')] = <<"loaded">>
      /\ \A x : ToCome(x) /\ x # <<"blkinfo", c, w>> => ToCome(x)'
  <2>1. <<"blkinfo", c, w>> # <<"loaded">>
    <3>1. <<"blkinfo", c, w>>[1] # <<"loaded">>[1]
      OBVIOUS
    <3> QED
      BY <3>1
  <2>2. Head(restoring) # <<"loaded">>
    BY <1>1, <2>1
  <2> QED
    BY <1>1, <2>2, StillToCome
<1>5. Restoring'
  <2>1. ASSUME NEW a \in MapAddrs
        PROVE  \/ blockmap'[a] = image'.map[a]
               \/ ToCome(<<"map", a>>)' /\ blockmap'[a].status = "NOT_ALLOCATED"
    BY <1>0, <1>1, <1>4 DEF Restoring
  <2>2. ASSUME NEW k \in Chips, NEW b \in Blocks
        PROVE  blkinfo'[k][b] = image'.info[k][b] \/ ToCome(<<"blkinfo", k, b \div Lanes>>)'
    <3>1. CASE k = c /\ b \div Lanes = w
      BY <1>1, <1>2, <3>1
    <3>2. CASE ~(k = c /\ b \div Lanes = w)
      BY <1>0, <1>1, <1>2, <1>4, <3>2 DEF Restoring
    <3> QED
      BY <3>1, <3>2
  <2>3. reqQ' = <<>> /\ ~inProgress'
    BY <1>0, <1>1 DEF Restoring
  <2> QED
    BY <1>4, <2>1, <2>2, <2>3 DEF Restoring
<1>6. TablesAgree'
  BY <1>0, <1>1, <1>4 DEF TablesAgree, MappedBlocksDistinct, MappedNeverFree
<1> QED
  BY <1>3, <1>5, <1>6 DEF IInv

(* updateMapping of the host: one entry of the block map is restored.      *)
LEMMA UpdateMappingStep ==
  ASSUME IInv, NEW m \in MapAddrs, UpdateMapping(m)
  PROVE  IInv'
<1>0. Typed /\ TablesAgree /\ Restoring
  BY DEF IInv
<1>1. /\ restoring # <<>> /\ Head(restoring) = <<"map", m>> /\ restoring' = Tail(restoring)
      /\ blockmap' = [blockmap EXCEPT ![m] = image.map[m]]
      /\ UNCHANGED <<blkinfo, mapResp, blkResp, reqQ, procQ, procQs, procUpdateQs,
                     outputs, inProgress, blkScanIssued, scanRegs, image>>
  BY DEF UpdateMapping
<1>2. /\ blockmap' \in [MapAddrs -> MapEntries]
      /\ \A a \in MapAddrs : blockmap'[a] = IF a = m THEN image.map[m] ELSE blockmap[a]
  <2>1. image.map \in [MapAddrs -> MapEntries]
    BY <1>0, ImagesAssumption DEF Typed
  <2> QED
    BY <1>0, <1>1, <2>1 DEF Typed
<1>3. Typed' /\ Fits' /\ Pipeline'
  BY <1>0, <1>1, <1>2, RestoreKeeps DEF Typed
<1>4. /\ restoring' # <<>> /\ restoring'[Len(restoring')] = <<"loaded">>
      /\ \A x : ToCome(x) /\ x # <<"map", m>> => ToCome(x)'
  <2>1. <<"map", m>> # <<"loaded">>
    <3>1. <<"map", m>>[1] # <<"loaded">>[1]
      OBVIOUS
    <3> QED
      BY <3>1
  <2>2. Head(restoring) # <<"loaded">>
    BY <1>1, <2>1
  <2> QED
    BY <1>1, <2>2, StillToCome
<1>5. \A a \in MapAddrs : \/ blockmap'[a] = image'.map[a]
                          \/ ToCome(<<"map", a>>)' /\ blockmap'[a].status = "NOT_ALLOCATED"
  <2> TAKE a \in MapAddrs
  <2>1. CASE a = m
    BY <1>1, <1>2, <2>1
  <2>2. CASE a # m
    BY <1>0, <1>1, <1>2, <1>4, <2>2 DEF Restoring
  <2> QED
    BY <2>1, <2>2
<1>6. Restoring'
  <2>1. \A k \in Chips, b \in Blocks :
          blkinfo'[k][b] = image'.info[k][b] \/ ToCome(<<"blkinfo", k, b \div Lanes>>)'
    BY <1>0, <1>1, <1>4 DEF Restoring
  <2>2. reqQ' = <<>> /\ ~inProgress'
    BY <1>0, <1>1 DEF Restoring
  <2> QED
    BY <1>4, <1>5, <2>1, <2>2 DEF Restoring
<1>7. TablesAgree'
  <2>1. MappedBlocksDistinct'
    <3> SUFFICES ASSUME NEW a \in MapAddrs, NEW b \in MapAddrs, a # b, ChipOf[a] = ChipOf[b],
                        blockmap'[a].status = "ALLOCATED", blockmap'[b].status = "ALLOCATED"
                 PROVE  blockmap'[a].block # blockmap'[b].block
      BY DEF MappedBlocksDistinct
    <3>1. blockmap'[a] = image.map[a] /\ blockmap'[b] = image.map[b]
      BY <1>1, <1>5
    <3>2. image \in Images
      BY <1>0 DEF Typed
    <3> QED
      BY <3>1, <3>2, ImagesAssumption
  <2> QED
    BY <1>4, <2>1 DEF TablesAgree, MappedNeverFree
<1> QED
  BY <1>3, <1>6, <1>7 DEF IInv

(* setAftlLoaded: both tables are those of the image, which agree.         *)
LEMMA SetAftlLoadedStep ==
  ASSUME IInv, SetAftlLoaded
  PROVE  IInv'
<1>0. Typed /\ TablesAgree /\ Restoring
  BY DEF IInv
<1>1. /\ restoring = << <<"loaded">> >> /\ restoring' = <<>>
      /\ UNCHANGED <<tables, mapResp, blkResp, reqQ, procQ, procQs, procUpdateQs,
                     outputs, inProgress, blkScanIssued, scanRegs, image>>
  BY DEF SetAftlLoaded
<1>2. restoring # <<>> /\ Tail(restoring) = <<>> /\ \A x : ToCome(x) => x = <<"loaded">>
  BY <1>1 DEF ToCome
<1>3. Typed' /\ Fits' /\ Pipeline'
  BY <1>0, <1>1, <1>2, RestoreKeeps DEF Typed, tables
<1>4. /\ \A a \in MapAddrs : blockmap[a] = image.map[a]
      /\ \A c \in Chips, b \in Blocks : blkinfo[c][b] = image.info[c][b]
  BY <1>0, <1>2 DEF Restoring
<1>5. TablesAgree'
  <2>1. image \in Images /\ blockmap \in [MapAddrs -> MapEntries]
    BY <1>0 DEF Typed
  <2>2. MappedNeverFree'
    <3> SUFFICES ASSUME NEW a \in MapAddrs, blockmap'[a].status = "ALLOCATED"
                 PROVE  blkinfo'[ChipOf[a]][blockmap'[a].block].status # "FREE_BLK"
      BY DEF MappedNeverFree
    <3>1. ChipOf[a] \in Chips /\ blockmap[a].block \in Blocks /\ blockmap[a] = image.map[a]
      BY <1>4, <2>1, AFTLAssumption DEF MapEntries
    <3>2. image.info[ChipOf[a]][image.map[a].block].status # "FREE_BLK"
      BY <1>1, <2>1, <3>1, ImagesAssumption DEF tables
    <3> QED
      BY <1>1, <1>4, <3>1, <3>2 DEF tables
  <2>3. MappedBlocksDistinct'
    BY <1>0, <1>1 DEF TablesAgree, MappedBlocksDistinct, tables
  <2> QED
    BY <2>2, <2>3 DEF TablesAgree
<1>6. Restoring'
  BY <1>1 DEF Restoring
<1> QED
  BY <1>3, <1>5, <1>6 DEF IInv

-----------------------------------------------------------------------------
(* Every step keeps the invariant.                                         *)

(* What leaves a procQ is an item.                                         *)
LEMMA HeadInItems ==
  ASSUME IInv, NEW n \in ProcNames, NotEmpty(procQs[n])
  PROVE  Head(procQs[n]) \in Items
<1>1. procQs[n] \in Seq(Items)
  BY DEF IInv, Typed
<1> QED
  BY <1>1 DEF NotEmpty

(* Every step keeps the inductive invariant, rule by rule.                 *)
LEMMA StepIInv == IInv /\ [Next]_vars => IInv'
<1> SUFFICES ASSUME IInv, [Next]_vars PROVE IInv'
  OBVIOUS
<1>1. ASSUME NEW c \in Chips, NEW w \in 0 .. Words - 1, UpdateBlkInfo(c, w) PROVE IInv'
  BY <1>1, UpdateBlkInfoStep
<1>2. ASSUME NEW a \in MapAddrs, UpdateMapping(a) PROVE IInv'
  BY <1>2, UpdateMappingStep
<1>3. CASE SetAftlLoaded
  BY <1>3, SetAftlLoadedStep
<1>4. ASSUME NEW r \in Reqs, TranslateReq(r) PROVE IInv'
  BY <1>4, TranslateReqStep
<1>5. CASE Answered
  BY <1>5, AnsweredStep
<1>6. CASE RequestMapping
  BY <1>6, RequestMappingStep
<1>7. CASE CheckMapping0
  BY <1>7, CheckMapping0Step
<1>8. CASE ProcAftlRead
  BY <1>8, AnswerMappedStep DEF ProcAftlRead, ProcNames
<1>9. CASE ProcAftlWriteAllocated
  BY <1>9, AnswerMappedStep DEF ProcAftlWriteAllocated, ProcNames
<1>10. CASE ProcAftlMarkBadBlock
  <2>1. StartUpdate("MB", 0, Head(procQs["MB"])) /\ NotEmpty(procQs["MB"])
    BY <1>10 DEF ProcAftlMarkBadBlock, StartUpdate
  <2>2. Head(procQs["MB"]) \in Items
    BY <2>1, HeadInItems DEF ProcNames
  <2> QED
    BY <2>1, <2>2, StartUpdateStep
<1>11. CASE ProcAftlErase
  <2>1. StartUpdate("E", 1, [Head(procQs["E"]) EXCEPT !.cmd.page = 0]) /\ NotEmpty(procQs["E"])
    BY <1>11 DEF ProcAftlErase, StartUpdate
  <2>2. Head(procQs["E"]) \in Items
    BY <2>1, HeadInItems DEF ProcNames
  <2>3. PICK item, cmd : /\ item = [Head(procQs["E"]) EXCEPT !.cmd.page = 0]
                         /\ cmd = [Head(procQs["E"]).cmd EXCEPT !.page = 0]
    OBVIOUS
  <2>4. cmd \in FlashCmds /\ cmd.chip = Head(procQs["E"]).cmd.chip /\ cmd.block = Head(procQs["E"]).cmd.block
    BY <2>2, <2>3 DEF Items, FlashCmds
  <2>5. item \in Items /\ item.cmd = cmd /\ item.addr = Head(procQs["E"]).addr
    BY <2>2, <2>3, <2>4 DEF Items
  <2>6. StartUpdate("E", 1, item)
    BY <2>1, <2>3
  <2> QED
    BY <2>4, <2>5, <2>6, StartUpdateStep
<1>12. CASE ProcAftlWriteNotAllocated
  <2>1. StartUpdate("W_trig", 2, Head(procQs["W_trig"])) /\ NotEmpty(procQs["W_trig"])
    BY <1>12 DEF ProcAftlWriteNotAllocated, StartUpdate
  <2>2. Head(procQs["W_trig"]) \in Items
    BY <2>1, HeadInItems DEF ProcNames
  <2> QED
    BY <2>1, <2>2, StartUpdateStep
<1>13. CASE UpdateBlkInfo0Skip
  BY <1>13, UpdateBlkInfo0SkipStep
<1>14. CASE UpdateBlkInfo0Scan
  BY <1>14, UpdateBlkInfo0ScanStep
<1>15. CASE UpdateBlkInfo1
  BY <1>15, UpdateBlkInfo1Step
<1>16. CASE UpdateBlkInfo2Step
  BY <1>16, UpdateBlkInfo2StepStep
<1>17. CASE UpdateBlkInfo2Final
  BY <1>17, UpdateBlkInfo2FinalStep
<1>18. CASE UpdateBlkInfo3
  BY <1>18, UpdateBlkInfo3Step
<1>19. CASE UpdateBlkInfo4
  BY <1>19, UpdateBlkInfo4Step
<1>20. CASE UpdateBlkInfo5
  BY <1>20, UpdateBlkInfo5Step
<1>21. CASE RouteRespQ \/ DrainMarkBadDone
  BY <1>21, OutputStep
<1>22. CASE UNCHANGED vars
  <2>1. /\ UNCHANGED <<blockmap, blkinfo, mapResp, blkResp, reqQ, procQ, procQs, procUpdateQs>>
        /\ UNCHANGED <<respQ_pre, respQ, resp_errorQ, markBadDoneQ, inProgress, blkScanIssued>>
        /\ UNCHANGED <<blkScanReqCnt, blkScanRespCnt, blkScanFinalCnt, curMinEnt, minEntVecQ>>
        /\ UNCHANGED <<minEnt, theMinEntry, minPeEntryQ, image, restoring>>
    BY <1>22 DEF vars, tables, outputs, scanRegs, host
  <2>2. Typed /\ Fits /\ Pipeline /\ TablesAgree /\ Restoring
    BY DEF IInv
  <2>3. Typed' /\ Fits'
    BY <2>1, <2>2 DEF Typed, Fits
  <2>4. InProgressExact' /\ LookupFits' /\ ProcFits'
    BY <2>1, <2>2 DEF Pipeline, InProgressExact, InPipe, InLookup, InUpdate, InAnswer, LookupFits,
                      ProcFits, ItemFits
  <2>5. Stages'
    BY <2>1, <2>2, KeptStages DEF Pipeline, tables, scanRegs
  <2>6. TablesAgree' /\ Restoring'
    BY <2>1, <2>2, KeptTables DEF Restoring, ToCome
  <2> QED
    BY <2>3, <2>4, <2>5, <2>6 DEF IInv, Pipeline
<1>23. CASE HostStep
  BY <1>1, <1>2, <1>3, <1>4, <1>23 DEF HostStep
<1>24. CASE Rule
  BY <1>6, <1>7, <1>8, <1>9, <1>10, <1>11, <1>12, <1>13, <1>14, <1>15, <1>16, <1>17, <1>18,
     <1>19, <1>20, <1>21, <1>24 DEF Rule
<1> QED
  BY <1>5, <1>22, <1>23, <1>24 DEF Next

(* The inductive invariant holds in every reachable state: one command at  *)
(* a time, with what it looked up and chose, and tables that agree.        *)
THEOREM Invariance == Spec => []IInv
<1>1. Init => IInv
  BY InitIInv
<1>2. IInv /\ [Next]_vars => IInv'
  BY StepIInv
<1> QED
  BY <1>1, <1>2, PTL DEF Spec

(* One command at a time fills no queue beyond its first place.            *)
LEMMA ShortQueues ==
  ASSUME IInv
  PROVE  /\ Len(procQ) <= 1 /\ \A n \in ProcNames : Len(procQs[n]) <= 1
         /\ \A n \in 0 .. 5 : Len(procUpdateQs[n]) <= 1
         /\ Len(respQ_pre) <= 1 /\ Len(respQ) <= 1 /\ Len(resp_errorQ) <= 1
         /\ Len(markBadDoneQ) <= 1 /\ Len(minEntVecQ) <= 1 /\ Len(minPeEntryQ) <= 1
<1>0. Typed /\ ScanFits /\ InProgressExact /\ ChoiceFits /\ PickFits
  BY DEF IInv, Pipeline, Stages
<1>1. /\ InLookup \in Nat /\ InUpdate \in Nat /\ InAnswer \in Nat
      /\ InLookup <= 1 /\ InUpdate <= 1 /\ InAnswer <= 1
  BY <1>0, Alone
<1>2. Len(procQ) <= 1 /\ \A n \in ProcNames : Len(procQs[n]) <= 1
  <2>1. ASSUME NEW k \in Nat, k > 0 => InLookup >= k PROVE k <= 1
    BY <1>1, <2>1
  <2> QED
    BY <1>0, <2>1, Lengths, LookupCount
<1>3. \A n \in 0 .. 5 : Len(procUpdateQs[n]) <= 1
  <2> TAKE n \in 0 .. 5
  <2>1. Len(procUpdateQs[n]) \in Nat
    BY <1>0, Lengths
  <2>2. CASE Len(procUpdateQs[n]) > 0 /\ (n > 1 \/ blkScanReqCnt = 0)
    BY <1>0, <1>1, <2>2, UpdateCount
  <2>3. CASE Len(procUpdateQs[n]) > 0 /\ n <= 1 /\ blkScanReqCnt # 0
    <3>1. n = 0 \/ n = 1
      BY <2>3
    <3>2. Len(procUpdateQs[0]) = 1 /\ Len(procUpdateQs[1]) = 1
      BY <1>0, <2>3, AtScan
    <3>3. Len(procUpdateQs[n]) = 1
      BY <3>1, <3>2
    <3> QED
      BY <3>3
  <2>4. CASE ~(Len(procUpdateQs[n]) > 0)
    <3> DEFINE k == Len(procUpdateQs[n])
    <3>1. k \in Nat /\ ~(k > 0)
      BY <2>1, <2>4
    <3> HIDE DEF k
    <3>2. k <= 1
      BY <3>1
    <3> QED
      BY <3>2 DEF k
  <2> QED
    BY <2>2, <2>3, <2>4
<1>4. Len(respQ_pre) <= 1 /\ Len(respQ) <= 1 /\ Len(resp_errorQ) <= 1 /\ Len(markBadDoneQ) <= 1
  <2>1. ASSUME NEW k \in Nat, InAnswer >= k PROVE k <= 1
    BY <1>1, <2>1
  <2> QED
    BY <1>0, <2>1, Lengths, AnswerCount
<1>5. Len(minEntVecQ) <= 1 /\ Len(minPeEntryQ) <= 1
  <2>1. minEntVecQ = <<>> \/ Len(minEntVecQ) = 1
    BY <1>0 DEF ChoiceFits
  <2>2. minPeEntryQ = <<>> \/ Len(minPeEntryQ) = 1
    BY <1>0 DEF PickFits
  <2>3. Len(<<>>) <= 1 /\ \A k : k = 1 => k <= 1
    OBVIOUS
  <2>4. Len(minEntVecQ) <= 1
    BY <2>1, <2>3, Zenon
  <2>5. Len(minPeEntryQ) <= 1
    BY <2>2, <2>3, Zenon
  <2> QED
    BY <2>4, <2>5
<1> QED
  BY <1>2, <1>3, <1>4, <1>5

(* Every variable keeps its type, and no FIFO of the pipeline is asked to  *)
(* hold more than it can: the hardware never waits for a full one.         *)
THEOREM TypeCorrect == Spec => []TypeOK
<1>1. IInv => TypeOK
  <2> SUFFICES ASSUME IInv PROVE TypeOK
    OBVIOUS
  <2>0. Typed /\ Fits
    BY DEF IInv
  <2>1. \A k \in {Len(procQ), Len(respQ), Len(respQ_pre), Len(resp_errorQ), Len(markBadDoneQ),
                  Len(minEntVecQ), Len(minPeEntryQ)}
           \cup {Len(procQs[m]) : m \in ProcNames} \cup {Len(procUpdateQs[m]) : m \in 0..5} :
          k <= MkFIFO
    <3>1. ASSUME NEW k \in Nat, k <= 1 PROVE k <= MkFIFO
      BY <3>1 DEF MkFIFO
    <3> QED
      BY <2>0, <3>1, ShortQueues, Lengths
  <2>2. /\ \A i \in 1 .. Len(procQ) : procQ[i] \in Reqs /\ IsFtlCmd(procQ[i])
        /\ \A i \in 1 .. Len(reqQ) : reqQ[i] \in Reqs
    <3>1. procQ \in Seq(Reqs) /\ reqQ \in Seq(Reqs)
      BY <2>0 DEF Typed
    <3> QED
      BY <3>1, ReqsAssumption
  <2>3. /\ \A n \in ProcNames : \A i \in 1 .. Len(procQs[n]) : procQs[n][i] \in Items
        /\ \A n \in 0 .. 5 : \A i \in 1 .. Len(procUpdateQs[n]) : procUpdateQs[n][i] \in (0 .. 2) \X Items
    <3>1. /\ \A n \in ProcNames : procQs[n] \in Seq(Items)
          /\ \A n \in 0 .. 5 : procUpdateQs[n] \in Seq(UpdateCmds)
      BY <2>0 DEF Typed
    <3>2. \A n \in 0 .. 5 : \A i \in 1 .. Len(procUpdateQs[n]) : procUpdateQs[n][i] \in UpdateCmds
      BY <3>1, ElementOfSeq
    <3>3. \A n \in ProcNames : \A i \in 1 .. Len(procQs[n]) : procQs[n][i] \in Items
      BY <3>1, ElementOfSeq
    <3> QED
      BY <3>2, <3>3 DEF UpdateCmds
  <2>4. /\ \A i \in 1 .. Len(blkResp) : blkResp[i] \in [LaneSet -> BlkEntries]
        /\ \A i \in 1 .. Len(respQ) : respQ[i] \in FlashCmds
        /\ \A i \in 1 .. Len(respQ_pre) : respQ_pre[i] \in FlashCmds
    <3>1. /\ blkResp \in Seq([LaneSet -> BlkEntries])
          /\ respQ \in Seq(FlashCmds) /\ respQ_pre \in Seq(FlashCmds)
      BY <2>0 DEF Typed
    <3> QED
      BY <3>1
  <2>5. \A q \in {respQ, respQ_pre} : \A i \in 1 .. Len(q) : q[i] \in FlashCmds
    BY <2>4
  <2> QED
    BY <2>0, <2>1, <2>2, <2>3, <2>4, <2>5, Zenon DEF TypeOK, Typed, Fits
<1> QED
  BY <1>1, Invariance, PTL

(* The register inProgress of AFTL.bsv does what it is there for: it is    *)
(* set exactly while one command is between its lookup and its answer, and *)
(* the pipeline holds no other.                                            *)
THEOREM OneCommandAtATime == Spec => []InProgressExact
<1>1. IInv => InProgressExact
  BY DEF IInv, Pipeline
<1> QED
  BY <1>1, Invariance, PTL

(* Whatever is written, erased and marked bad: two virtual blocks are      *)
(* never mapped to one physical block, and no mapped block is free in the  *)
(* block table, though the two tables are written in two steps.            *)
THEOREM TablesAlwaysAgree == Spec => []TablesAgree
<1>1. IInv => TablesAgree
  BY DEF IInv
<1> QED
  BY <1>1, Invariance, PTL

-----------------------------------------------------------------------------
(* The proof that the pipeline implements the translation in one step      *)
(* (module AFTLSpec).  Each action has a lemma that says what its step     *)
(* shows of the abstract one: the translation of the oldest command when   *)
(* the lookup answers or refuses it or when updateBlkInfo4 writes the      *)
(* block table, nothing when the command only moves.                       *)

(* What the command carries, beyond what fits the tables.                  *)

CmdOfProc(n) ==
  CASE n = "R" -> "AftlREAD" [] n = "E" -> "AftlERASE" [] n = "MB" -> "AftlMARKBAD"
    [] OTHER   -> "AftlWRITE"

(* The flash command is the one that was asked for, and the looked-up map  *)
(* entry of a bad block mark is no dead one.                               *)
ItemCarries(n, item) ==
  /\ item.cmd.op = FlashOp(CmdOfProc(n))
  /\ n = "MB" => blockmap[item.addr].status # "DEAD"

UpdateCarries(u) ==
  /\ u[1] = 0 => blockmap[u[2].addr].status # "DEAD"
  /\ u[1] = 1 => u[2].cmd.op = "ERASE_BLOCK" /\ u[2].cmd.page = 0
  /\ u[1] = 2 => u[2].cmd.op = "WRITE_PAGE"

ProcsCarry  == \A n \in ProcNames : Len(procQs[n]) > 0 => ItemCarries(n, procQs[n][1])
StagesCarry == \A n \in 0 .. 5 : At(n) => UpdateCarries(Cur(n))

(* A minimum of the scan is the least erased of the free blocks in B.      *)
Least(e, c, B) ==
  /\ e = Invalid => \A b \in B : ~IsFree(c, b)
  /\ e # Invalid => /\ e[1] \in B /\ IsFree(c, e[1]) /\ e[2] = blkinfo[c][e[1]].erase
                    /\ \A b \in B : IsFree(c, b) => e[2] <= blkinfo[c][b].erase

(* The blocks of a lane in the first n lines, and those of the first lanes.*)
InLane(l, n) == {b \in Blocks : b % Lanes = l /\ b \div Lanes < n}
InLanes(n)   == {b \in Blocks : b % Lanes < n}

LeastInLanes ==
  At(1) => \A l \in LaneSet :
    Least(curMinEnt[l], Cur(1)[2].cmd.chip, InLane(l, blkScanRespCnt))

LeastOfLanes ==
  At(2) =>
    LET c == Cur(2)[2].cmd.chip IN
    /\ Least(theMinEntry, c, InLanes(blkScanFinalCnt))
    /\ IF blkScanFinalCnt = 0
       THEN \A l \in LaneSet : Least(minEntVecQ[1][l], c, InLane(l, Words))
       ELSE \A l \in LaneSet : l + blkScanFinalCnt \in LaneSet =>
              Least(minEnt[l], c, InLane(l + blkScanFinalCnt, Words))

LeastPicked ==
  \A n \in 3 .. 4 : Allocating(n) => Least(minPeEntryQ[1], Cur(n)[2].cmd.chip, Blocks)

Carried == ProcsCarry /\ StagesCarry /\ LeastInLanes /\ LeastOfLanes /\ LeastPicked

RInv == IInv /\ Carried

-----------------------------------------------------------------------------
(* The commands that wait, as the refinement lists them.                   *)

AllCmds == [tag : {r.tag : r \in Reqs},
            cmd : {"AftlREAD", "AftlWRITE", "AftlERASE", "AftlMARKBAD"},
            addr : MapAddrs, page : {0} \cup {r.page : r \in Reqs}]

(* The commands of the host, and those put together again in the pipeline. *)
LEMMA Commands ==
  /\ Reqs \subseteq AllCmds /\ ErrorCmds \subseteq AllCmds
  /\ \A cmd \in {"AftlREAD", "AftlWRITE", "AftlERASE", "AftlMARKBAD"} : \A item \in Items :
       ReqOf(cmd, item) \in AllCmds
  /\ \A r \in AllCmds : Norm(r) \in AllCmds
<1>1. ASSUME NEW r \in Reqs PROVE r \in AllCmds
  <2>1. /\ r.addr \in MapAddrs /\ r.cmd \in {"AftlREAD", "AftlWRITE", "AftlERASE", "AftlMARKBAD"}
        /\ r = [tag |-> r.tag, cmd |-> r.cmd, addr |-> r.addr, page |-> r.page]
    BY ReqsAssumption DEF IsFtlCmd
  <2>2. PICK t, c, a, p : t = r.tag /\ c = r.cmd /\ a = r.addr /\ p = r.page
    OBVIOUS
  <2>3. [tag |-> t, cmd |-> c, addr |-> a, page |-> p] \in AllCmds
    BY <2>1, <2>2 DEF AllCmds
  <2> QED
    BY <2>1, <2>2, <2>3
<1>2. ErrorCmds \subseteq AllCmds
  BY <1>1 DEF ErrorCmds, AllCmds
<1>3. ASSUME NEW cmd \in {"AftlREAD", "AftlWRITE", "AftlERASE", "AftlMARKBAD"}, NEW item \in Items
      PROVE  ReqOf(cmd, item) \in AllCmds
  <2>1. item.addr \in MapAddrs /\ item.cmd \in FlashCmds
    BY DEF Items
  <2>2. item.cmd.tag \in {r.tag : r \in Reqs} /\ item.cmd.page \in {0} \cup {r.page : r \in Reqs}
    BY <2>1 DEF FlashCmds
  <2> QED
    BY <2>1, <2>2 DEF ReqOf, AllCmds
<1>4. ASSUME NEW r \in AllCmds PROVE Norm(r) \in AllCmds
  BY DEF Norm, AllCmds
<1> QED
  BY <1>1, <1>2, <1>3, <1>4

(* Normalising a queue keeps its order.                                    *)
LEMMA NormQueue ==
  ASSUME NEW q \in Seq(AllCmds)
  PROVE  /\ NormAll(q) \in Seq(AllCmds) /\ Len(NormAll(q)) = Len(q) /\ Len(q) \in Nat
         /\ \A i \in 1 .. Len(q) : NormAll(q)[i] = Norm(q[i])
<1>1. Len(q) \in Nat /\ \A i \in 1 .. Len(q) : q[i] \in AllCmds
  BY ElementOfSeq, LenProperties
<1>2. \A i \in 1 .. Len(q) : Norm(q[i]) \in AllCmds
  BY <1>1, Commands
<1>3. NormAll(q) \in [1 .. Len(q) -> AllCmds]
  BY <1>2 DEF NormAll
<1>4. NormAll(q) \in Seq(AllCmds)
  BY <1>1, <1>3, SeqDef
<1>5. Len(NormAll(q)) = Len(q)
  BY <1>1, <1>3, <1>4, LenProperties
<1> QED
  BY <1>1, <1>4, <1>5 DEF NormAll

(* Normalising an empty queue, one with an element added, one with an      *)
(* element in front.                                                       *)
LEMMA NormOf ==
  ASSUME NEW q \in Seq(AllCmds), NEW x \in AllCmds
  PROVE  /\ NormAll(<<>>) = <<>> /\ NormAll(<<x>>) = <<Norm(x)>>
         /\ NormAll(Append(q, x)) = Append(NormAll(q), Norm(x))
         /\ NormAll(<<x>> \o q) = <<Norm(x)>> \o NormAll(q)
         /\ Norm(x) \in AllCmds /\ NormAll(q) \in Seq(AllCmds)
<1>0. Norm(x) \in AllCmds
  BY Commands
<1>1. NormAll(<<>>) = <<>>
  <2>1. <<>> \in Seq(AllCmds) /\ Len(<<>>) = 0
    BY EmptySeq
  <2> QED
    BY <2>1, NormQueue, EmptySeq
<1>2. NormAll(<<x>>) = <<Norm(x)>>
  <2>1. PICK y : y = <<x>>
    OBVIOUS
  <2>2. y \in Seq(AllCmds) /\ Len(y) = 1 /\ y[1] = x
    BY <2>1
  <2>3. Len(NormAll(y)) = 1 /\ NormAll(y)[1] = Norm(x) /\ NormAll(y) \in Seq(AllCmds)
    BY <2>2, NormQueue
  <2>4. NormAll(y) = <<NormAll(y)[1]>>
    BY <2>3, OneElement
  <2> QED
    BY <2>1, <2>3, <2>4
<1>3. NormAll(Append(q, x)) = Append(NormAll(q), Norm(x))
  <2>1. /\ Append(q, x) \in Seq(AllCmds) /\ Len(Append(q, x)) = Len(q) + 1 /\ Len(q) \in Nat
        /\ Append(q, x)[Len(q) + 1] = x
        /\ \A i \in 1 .. Len(q) : Append(q, x)[i] = q[i]
    BY Enqueued
  <2> DEFINE s == NormAll(Append(q, x))
             t == Append(NormAll(q), Norm(x))
  <2>2. /\ s \in Seq(AllCmds) /\ Len(s) = Len(q) + 1
        /\ \A i \in 1 .. Len(q) + 1 : s[i] = Norm(Append(q, x)[i])
    BY <2>1, NormQueue
  <2>3. NormAll(q) \in Seq(AllCmds) /\ Len(NormAll(q)) = Len(q)
        /\ \A i \in 1 .. Len(q) : NormAll(q)[i] = Norm(q[i])
    BY NormQueue
  <2>4. /\ t \in Seq(AllCmds) /\ Len(t) = Len(q) + 1 /\ t[Len(q) + 1] = Norm(x)
        /\ \A i \in 1 .. Len(q) : t[i] = NormAll(q)[i]
    BY <1>0, <2>3, Enqueued
  <2> HIDE DEF s, t
  <2>5. \A i \in 1 .. Len(s) : s[i] = t[i]
    BY <2>1, <2>2, <2>3, <2>4
  <2>6. s = t
    BY <2>2, <2>4, <2>5, SeqEqual
  <2> QED
    BY <2>6 DEF s, t
<1>4. NormAll(<<x>> \o q) = <<Norm(x)>> \o NormAll(q)
  <2>1. /\ <<x>> \in Seq(AllCmds) /\ Len(<<x>>) = 1 /\ <<x>>[1] = x /\ Len(q) \in Nat
        /\ <<Norm(x)>> \in Seq(AllCmds) /\ Len(<<Norm(x)>>) = 1 /\ <<Norm(x)>>[1] = Norm(x)
    BY <1>0
  <2>2. /\ <<x>> \o q \in Seq(AllCmds) /\ Len(<<x>> \o q) = Len(q) + 1
        /\ \A i \in 1 .. Len(q) + 1 : (<<x>> \o q)[i] = IF i <= 1 THEN x ELSE q[i - 1]
    BY <2>1, ConcatProperties
  <2> DEFINE s == NormAll(<<x>> \o q)
             t == <<Norm(x)>> \o NormAll(q)
  <2>3. /\ s \in Seq(AllCmds) /\ Len(s) = Len(q) + 1
        /\ \A i \in 1 .. Len(q) + 1 : s[i] = Norm((<<x>> \o q)[i])
    BY <2>2, NormQueue
  <2>4. NormAll(q) \in Seq(AllCmds) /\ Len(NormAll(q)) = Len(q)
        /\ \A i \in 1 .. Len(q) : NormAll(q)[i] = Norm(q[i])
    BY NormQueue
  <2>5. /\ t \in Seq(AllCmds) /\ Len(t) = Len(q) + 1
        /\ \A i \in 1 .. Len(q) + 1 : t[i] = IF i <= 1 THEN Norm(x) ELSE NormAll(q)[i - 1]
    BY <2>1, <2>4, ConcatProperties
  <2> HIDE DEF s, t
  <2>6. ASSUME NEW i \in 1 .. Len(q) + 1 PROVE s[i] = t[i]
    <3>1. CASE i = 1
      BY <2>1, <2>2, <2>3, <2>5, <3>1
    <3>2. CASE i > 1
      <4>1. i - 1 \in 1 .. Len(q) /\ ~(i <= 1)
        BY <2>1, <3>2
      <4> QED
        BY <2>2, <2>3, <2>4, <2>5, <4>1
    <3> QED
      BY <2>1, <3>1, <3>2
  <2>7. s = t
    BY <2>3, <2>5, <2>6, SeqEqual
  <2> QED
    BY <2>7 DEF s, t
<1> QED
  BY <1>0, <1>1, <1>2, <1>3, <1>4, NormQueue

-----------------------------------------------------------------------------
(* What the refinement shows, by the place of the command.                 *)

(* A queue of the pipeline, as the commands it holds.                      *)
Before(n) == ReqsOf(CmdOfProc(n), procQs[n])

(* Only the place of the command contributes to what waits.                *)
WaitsAt ==
  /\ NoStage /\ blkScanReqCnt = 0 => AbsReqs = NormAll(procQ \o reqQ)
  /\ \A n \in ProcNames : (procQ = <<>> /\ Rest({n}, {}) /\ blkScanReqCnt = 0)
       => AbsReqs = NormAll(Before(n) \o reqQ)
  /\ \A n \in 0 .. 4 : (procQ = <<>> /\ Rest({}, {n}) /\ blkScanReqCnt = 0)
       => AbsReqs = NormAll(Updates(procUpdateQs[n]) \o reqQ)
  /\ procQ = <<>> /\ Rest({}, {5}) => AbsReqs = NormAll(reqQ)
  /\ procQ = <<>> /\ Rest({}, {0, 1}) /\ blkScanReqCnt # 0 =>
       AbsReqs = NormAll(Updates(procUpdateQs[1]) \o reqQ)

(* An empty queue contributes nothing.                                     *)
LEMMA NothingThere ==
  /\ Updates(<<>>) = <<>> /\ \A cmd : ReqsOf(cmd, <<>>) = <<>>
<1>1. \A i \in 1 .. Len(<<>>) : FALSE
  BY EmptySeq
<1>2. 1 .. Len(<<>>) = {}
  BY <1>1
<1>3. ASSUME NEW f, DOMAIN f = {}, f = [i \in {} |-> f[i]] PROVE f = <<>>
  BY <1>3
<1> QED
  BY <1>2 DEF Updates, ReqsOf

(* All places in their order, the oldest command first.                    *)
InOrder(u4, u3, u2, u1, u0, r, w, t, e, b, p, q) ==
  u4 \o u3 \o u2 \o u1 \o u0 \o r \o w \o t \o e \o b \o p \o q

(* With one place taken the others drop out.                               *)
LEMMA OnePlace ==
  ASSUME NEW x \in Seq(AllCmds), NEW q \in Seq(AllCmds), NEW n, n = <<>>
  PROVE  /\ InOrder(x, n, n, n, n, n, n, n, n, n, n, q) = x \o q
         /\ InOrder(n, x, n, n, n, n, n, n, n, n, n, q) = x \o q
         /\ InOrder(n, n, x, n, n, n, n, n, n, n, n, q) = x \o q
         /\ InOrder(n, n, n, x, n, n, n, n, n, n, n, q) = x \o q
         /\ InOrder(n, n, n, n, x, n, n, n, n, n, n, q) = x \o q
         /\ InOrder(n, n, n, n, n, x, n, n, n, n, n, q) = x \o q
         /\ InOrder(n, n, n, n, n, n, x, n, n, n, n, q) = x \o q
         /\ InOrder(n, n, n, n, n, n, n, x, n, n, n, q) = x \o q
         /\ InOrder(n, n, n, n, n, n, n, n, x, n, n, q) = x \o q
         /\ InOrder(n, n, n, n, n, n, n, n, n, x, n, q) = x \o q
         /\ InOrder(n, n, n, n, n, n, n, n, n, n, x, q) = x \o q
         /\ InOrder(n, n, n, n, n, n, n, n, n, n, n, q) = q
<1>1. n \o n = n /\ n \o x = x /\ x \o n = x /\ n \o q = q
  BY ConcatEmptySeq, EmptySeq
<1> QED
  BY <1>1, Zenon DEF InOrder

(* The queues of the pipeline hold commands.                               *)
LEMMA PlacesTyped ==
  ASSUME Typed
  PROVE  /\ \A n \in 0 .. 5 : Updates(procUpdateQs[n]) \in Seq(AllCmds)
         /\ \A n \in ProcNames : Before(n) \in Seq(AllCmds)
         /\ procQ \in Seq(AllCmds) /\ reqQ \in Seq(AllCmds)
<1>0. Reqs \subseteq AllCmds
  BY Commands
<1>1. ASSUME NEW n \in 0 .. 5 PROVE Updates(procUpdateQs[n]) \in Seq(AllCmds)
  <2>1. PICK q \in Seq(UpdateCmds) : q = procUpdateQs[n]
    BY DEF Typed
  <2>2. Len(q) \in Nat /\ \A i \in 1 .. Len(q) : q[i] \in UpdateCmds
    BY LenProperties, ElementOfSeq
  <2>3. ASSUME NEW i \in 1 .. Len(q) PROVE ReqOf(CmdOfType(q[i][1]), q[i][2]) \in AllCmds
    <3>1. q[i][1] \in 0 .. 2 /\ q[i][2] \in Items
      BY <2>2 DEF UpdateCmds
    <3>2. CmdOfType(q[i][1]) \in {"AftlREAD", "AftlWRITE", "AftlERASE", "AftlMARKBAD"}
      BY <3>1 DEF CmdOfType
    <3> QED
      BY <3>1, <3>2, Commands
  <2>4. Updates(q) \in [1 .. Len(q) -> AllCmds]
    BY <2>3 DEF Updates
  <2> QED
    BY <2>1, <2>2, <2>4, SeqDef
<1>2. ASSUME NEW n \in ProcNames PROVE Before(n) \in Seq(AllCmds)
  <2>1. PICK q \in Seq(Items) : q = procQs[n]
    BY DEF Typed
  <2>2. Len(q) \in Nat /\ \A i \in 1 .. Len(q) : q[i] \in Items
    BY LenProperties, ElementOfSeq
  <2>3. CmdOfProc(n) \in {"AftlREAD", "AftlWRITE", "AftlERASE", "AftlMARKBAD"}
    BY DEF CmdOfProc
  <2>4. ReqsOf(CmdOfProc(n), q) \in [1 .. Len(q) -> AllCmds]
    BY <2>2, <2>3, Commands DEF ReqsOf
  <2> QED
    BY <2>1, <2>2, <2>4, SeqDef DEF Before
<1> QED
  BY <1>0, <1>1, <1>2, SeqMonotonic DEF Typed

(* The commands that wait are those of the one place taken and of reqQ.    *)
LEMMA Waits == Typed => WaitsAt
<1> SUFFICES ASSUME Typed PROVE WaitsAt
  OBVIOUS
<1> DEFINE U(n) == Updates(procUpdateQs[n])
           Scan == IF blkScanReqCnt = 0 THEN U(0) ELSE <<>>
<1>1. AbsReqs = NormAll(InOrder(U(4), U(3), U(2), U(1), Scan, Before("R"), Before("W"),
                                Before("W_trig"), Before("E"), Before("MB"), procQ, reqQ))
  BY Zenon DEF AbsReqs, InOrder, Before, CmdOfProc
<1>2. /\ \A n \in 0 .. 5 : U(n) \in Seq(AllCmds) /\ (procUpdateQs[n] = <<>> => U(n) = <<>>)
      /\ \A n \in ProcNames : Before(n) \in Seq(AllCmds) /\ (procQs[n] = <<>> => Before(n) = <<>>)
      /\ procQ \in Seq(AllCmds) /\ reqQ \in Seq(AllCmds)
  BY PlacesTyped, NothingThere DEF Before
<1> HIDE DEF U, Scan
<1>s. (blkScanReqCnt = 0 => Scan = U(0)) /\ (blkScanReqCnt # 0 => Scan = <<>>)
  BY DEF Scan
<1>3. PICK none : none = <<>>
  OBVIOUS
<1>4. ASSUME NoStage, blkScanReqCnt = 0 PROVE AbsReqs = NormAll(procQ \o reqQ)
  <2>1. /\ U(0) = none /\ U(1) = none /\ U(2) = none /\ U(3) = none /\ U(4) = none
        /\ Before("R") = none /\ Before("W") = none /\ Before("W_trig") = none
        /\ Before("E") = none /\ Before("MB") = none /\ Scan = none
    BY <1>2, <1>3, <1>4, <1>s DEF NoStage, ProcNames
  <2>2. InOrder(none, none, none, none, none, none, none, none, none, none, procQ, reqQ)
          = procQ \o reqQ
    BY <1>2, <1>3, OnePlace
  <2> QED
    BY <1>1, <2>1, <2>2
<1>5. ASSUME NEW n \in ProcNames, procQ = <<>>, Rest({n}, {}), blkScanReqCnt = 0
      PROVE  AbsReqs = NormAll(Before(n) \o reqQ)
  <2>1. /\ U(0) = none /\ U(1) = none /\ U(2) = none /\ U(3) = none /\ U(4) = none /\ Scan = none
        /\ procQ = none /\ \A m \in ProcNames \ {n} : Before(m) = none
    BY <1>2, <1>3, <1>5, <1>s DEF Rest
  <2>2. PICK b : b = Before(n)
    OBVIOUS
  <2>3. /\ InOrder(none, none, none, none, none, b, none, none, none, none, none, reqQ) = b \o reqQ
        /\ InOrder(none, none, none, none, none, none, b, none, none, none, none, reqQ) = b \o reqQ
        /\ InOrder(none, none, none, none, none, none, none, b, none, none, none, reqQ) = b \o reqQ
        /\ InOrder(none, none, none, none, none, none, none, none, b, none, none, reqQ) = b \o reqQ
        /\ InOrder(none, none, none, none, none, none, none, none, none, b, none, reqQ) = b \o reqQ
    <3>1. b \in Seq(AllCmds) /\ reqQ \in Seq(AllCmds)
      BY <1>2, <2>2
    <3> QED
      BY <1>3, <3>1, OnePlace
  <2>4. /\ Before("R") = IF n = "R" THEN b ELSE none
        /\ Before("W") = IF n = "W" THEN b ELSE none
        /\ Before("W_trig") = IF n = "W_trig" THEN b ELSE none
        /\ Before("E") = IF n = "E" THEN b ELSE none
        /\ Before("MB") = IF n = "MB" THEN b ELSE none
    BY <2>1, <2>2 DEF ProcNames
  <2>5. n \in {"R", "W", "W_trig", "E", "MB"}
    BY DEF ProcNames
  <2> QED
    BY <1>1, <2>1, <2>2, <2>3, <2>4, <2>5
<1>6. ASSUME NEW n \in 0 .. 4, procQ = <<>>, Rest({}, {n}), blkScanReqCnt = 0
      PROVE  AbsReqs = NormAll(U(n) \o reqQ)
  <2>1. /\ \A m \in (0 .. 4) \ {n} : U(m) = none
        /\ Before("R") = none /\ Before("W") = none /\ Before("W_trig") = none
        /\ Before("E") = none /\ Before("MB") = none /\ procQ = none
    BY <1>2, <1>3, <1>6 DEF Rest, ProcNames
  <2>2. PICK b : b = U(n)
    OBVIOUS
  <2>3. /\ InOrder(b, none, none, none, none, none, none, none, none, none, none, reqQ) = b \o reqQ
        /\ InOrder(none, b, none, none, none, none, none, none, none, none, none, reqQ) = b \o reqQ
        /\ InOrder(none, none, b, none, none, none, none, none, none, none, none, reqQ) = b \o reqQ
        /\ InOrder(none, none, none, b, none, none, none, none, none, none, none, reqQ) = b \o reqQ
        /\ InOrder(none, none, none, none, b, none, none, none, none, none, none, reqQ) = b \o reqQ
    <3>1. b \in Seq(AllCmds) /\ reqQ \in Seq(AllCmds)
      BY <1>2, <2>2
    <3> QED
      BY <1>3, <3>1, OnePlace
  <2>4. /\ U(0) = IF n = 0 THEN b ELSE none
        /\ U(1) = IF n = 1 THEN b ELSE none
        /\ U(2) = IF n = 2 THEN b ELSE none
        /\ U(3) = IF n = 3 THEN b ELSE none
        /\ U(4) = IF n = 4 THEN b ELSE none
    BY <2>1, <2>2
  <2>5. Scan = U(0) /\ n \in {0, 1, 2, 3, 4}
    BY <1>6, <1>s
  <2>6. AbsReqs = NormAll(InOrder(U(4), U(3), U(2), U(1), U(0), none, none, none, none, none,
                                  none, reqQ))
    BY <1>1, <2>1, <2>5
  <2>7. InOrder(U(4), U(3), U(2), U(1), U(0), none, none, none, none, none, none, reqQ) = b \o reqQ
    <3>1. CASE n = 0
      <4>1. U(0) = b /\ U(1) = none /\ U(2) = none /\ U(3) = none /\ U(4) = none
        BY <2>4, <3>1
      <4> QED
        BY <2>3, <4>1
    <3>2. CASE n = 1
      <4>1. U(0) = none /\ U(1) = b /\ U(2) = none /\ U(3) = none /\ U(4) = none
        BY <2>4, <3>2
      <4> QED
        BY <2>3, <4>1
    <3>3. CASE n = 2
      <4>1. U(0) = none /\ U(1) = none /\ U(2) = b /\ U(3) = none /\ U(4) = none
        BY <2>4, <3>3
      <4> QED
        BY <2>3, <4>1
    <3>4. CASE n = 3
      <4>1. U(0) = none /\ U(1) = none /\ U(2) = none /\ U(3) = b /\ U(4) = none
        BY <2>4, <3>4
      <4> QED
        BY <2>3, <4>1
    <3>5. CASE n = 4
      <4>1. U(0) = none /\ U(1) = none /\ U(2) = none /\ U(3) = none /\ U(4) = b
        BY <2>4, <3>5
      <4> QED
        BY <2>3, <4>1
    <3> QED
      BY <2>5, <3>1, <3>2, <3>3, <3>4, <3>5
  <2> QED
    BY <2>2, <2>6, <2>7
<1>7. ASSUME procQ = <<>>, Rest({}, {5}) PROVE AbsReqs = NormAll(reqQ)
  <2>1. /\ U(0) = none /\ U(1) = none /\ U(2) = none /\ U(3) = none /\ U(4) = none
        /\ Before("R") = none /\ Before("W") = none /\ Before("W_trig") = none
        /\ Before("E") = none /\ Before("MB") = none /\ Scan = none /\ procQ = none
    BY <1>2, <1>3, <1>7, <1>s DEF Rest, ProcNames
  <2>2. InOrder(none, none, none, none, none, none, none, none, none, none, none, reqQ) = reqQ
    BY <1>2, <1>3, OnePlace
  <2> QED
    BY <1>1, <2>1, <2>2
<1>8. ASSUME procQ = <<>>, Rest({}, {0, 1}), blkScanReqCnt # 0
      PROVE  AbsReqs = NormAll(U(1) \o reqQ)
  <2>1. /\ U(2) = none /\ U(3) = none /\ U(4) = none
        /\ Before("R") = none /\ Before("W") = none /\ Before("W_trig") = none
        /\ Before("E") = none /\ Before("MB") = none /\ Scan = none /\ procQ = none
    BY <1>2, <1>3, <1>8, <1>s DEF Rest, ProcNames
  <2>2. PICK b : b = U(1)
    OBVIOUS
  <2>3. InOrder(none, none, none, b, none, none, none, none, none, none, none, reqQ) = b \o reqQ
    <3>1. b \in Seq(AllCmds) /\ reqQ \in Seq(AllCmds)
      BY <1>2, <2>2
    <3> QED
      BY <1>3, <3>1, OnePlace
  <2> QED
    BY <1>1, <2>1, <2>2, <2>3
<1> QED
  BY <1>4, <1>5, <1>6, <1>7, <1>8 DEF WaitsAt, U

(* The command of an update, and of an item that waits before it.          *)
CmdOf(u)         == Norm(ReqOf(CmdOfType(u[1]), u[2]))
CmdAt(n, item)   == Norm(ReqOf(CmdOfProc(n), item))
AnswerOf(u)      == IF u[1] # 0 THEN <<u[2].cmd>> ELSE <<>>

(* What the refinement shows: the commands that wait,                      *)
ShowsReqs ==
  /\ NoStage /\ blkScanReqCnt = 0 /\ procQ = <<>> => AbsReqs = NormAll(reqQ)
  /\ \A r \in AllCmds : NoStage /\ blkScanReqCnt = 0 /\ procQ = <<r>>
       => AbsReqs = <<Norm(r)>> \o NormAll(reqQ)
  /\ \A n \in ProcNames : \A item \in Items :
       (procQ = <<>> /\ Rest({n}, {}) /\ blkScanReqCnt = 0 /\ procQs[n] = <<item>>)
       => AbsReqs = <<CmdAt(n, item)>> \o NormAll(reqQ)
  /\ \A n \in 0 .. 4 : \A u \in UpdateCmds :
       (procQ = <<>> /\ Rest({}, {n}) /\ blkScanReqCnt = 0 /\ procUpdateQs[n] = <<u>>)
       => AbsReqs = <<CmdOf(u)>> \o NormAll(reqQ)
  /\ procQ = <<>> /\ Rest({}, {5}) => AbsReqs = NormAll(reqQ)
  /\ \A u \in UpdateCmds :
       (procQ = <<>> /\ Rest({}, {0, 1}) /\ blkScanReqCnt # 0 /\ procUpdateQs[1] = <<u>>)
       => AbsReqs = <<CmdOf(u)>> \o NormAll(reqQ)

(* and the map and the answers, with the update whose map write is owed.   *)
ShowsMap ==
  /\ procUpdateQs[5] = <<>> => AbsMap = blockmap /\ AbsAnswers = respQ \o respQ_pre
  /\ \A u \in UpdateCmds : (procUpdateQs[5] = <<u>> /\ respQ = <<>> /\ respQ_pre = <<>>) =>
       /\ AbsMap = [blockmap EXCEPT ![u[2].addr] = MapEntry(u[1], u[2].cmd.block)]
       /\ AbsAnswers = AnswerOf(u)

(* A queue of one element.                                                 *)
LEMMA OneIn ==
  ASSUME NEW x
  PROVE  /\ Len(<<x>>) = 1 /\ Head(<<x>>) = x /\ Tail(<<x>>) = <<>> /\ <<x>>[1] = x
         /\ <<x>> # <<>> /\ NotEmpty(<<x>>) /\ Append(<<>>, x) = <<x>>
<1>1. <<x>> \in Seq({x})
  OBVIOUS
<1>2. Len(<<x>>) = 1 /\ <<x>>[1] = x
  OBVIOUS
<1>3. <<x>> # <<>>
  BY <1>1, <1>2, EmptySeq
<1>4. Tail(<<x>>) = <<>> /\ Head(<<x>>) = x
  BY <1>1, <1>2, TailOfOne
<1>5. Append(<<>>, x) = <<x>>
  OBVIOUS
<1> QED
  BY <1>2, <1>3, <1>4, <1>5 DEF NotEmpty

(* The element of a queue, as the command it holds.                        *)
LEMMA OneOf ==
  /\ \A n \in ProcNames : \A item \in Items :
       /\ ReqsOf(CmdOfProc(n), <<item>>) = <<ReqOf(CmdOfProc(n), item)>>
       /\ ReqOf(CmdOfProc(n), item) \in AllCmds
  /\ \A u \in UpdateCmds :
       /\ Updates(<<u>>) = <<ReqOf(CmdOfType(u[1]), u[2])>>
       /\ ReqOf(CmdOfType(u[1]), u[2]) \in AllCmds
<1>1. ASSUME NEW n \in ProcNames, NEW item \in Items
      PROVE  /\ ReqsOf(CmdOfProc(n), <<item>>) = <<ReqOf(CmdOfProc(n), item)>>
             /\ ReqOf(CmdOfProc(n), item) \in AllCmds
  <2>1. CmdOfProc(n) \in {"AftlREAD", "AftlWRITE", "AftlERASE", "AftlMARKBAD"}
    BY DEF CmdOfProc
  <2>2. ReqOf(CmdOfProc(n), item) \in AllCmds
    BY <2>1, Commands
  <2>3. PICK q : q = <<item>>
    OBVIOUS
  <2>4. Len(q) = 1 /\ q[1] = item /\ 1 .. Len(q) = {1}
    BY <2>3
  <2>5. PICK r : r = ReqOf(CmdOfProc(n), item)
    OBVIOUS
  <2>6. ReqsOf(CmdOfProc(n), q) = [i \in {1} |-> r]
    BY <2>4, <2>5 DEF ReqsOf
  <2>7. [i \in {1} |-> r] = <<r>>
    OBVIOUS
  <2> QED
    BY <2>2, <2>3, <2>5, <2>6, <2>7
<1>2. ASSUME NEW u \in UpdateCmds
      PROVE  /\ Updates(<<u>>) = <<ReqOf(CmdOfType(u[1]), u[2])>>
             /\ ReqOf(CmdOfType(u[1]), u[2]) \in AllCmds
  <2>1. u[1] \in 0 .. 2 /\ u[2] \in Items
    BY DEF UpdateCmds
  <2>2. CmdOfType(u[1]) \in {"AftlREAD", "AftlWRITE", "AftlERASE", "AftlMARKBAD"}
    BY <2>1 DEF CmdOfType
  <2>3. ReqOf(CmdOfType(u[1]), u[2]) \in AllCmds
    BY <2>1, <2>2, Commands
  <2>4. PICK q : q = <<u>>
    OBVIOUS
  <2>5. Len(q) = 1 /\ q[1] = u /\ 1 .. Len(q) = {1}
    BY <2>4
  <2>6. PICK r : r = ReqOf(CmdOfType(u[1]), u[2])
    OBVIOUS
  <2>7. Updates(q) = [i \in {1} |-> r]
    BY <2>5, <2>6 DEF Updates
  <2>8. [i \in {1} |-> r] = <<r>>
    OBVIOUS
  <2> QED
    BY <2>3, <2>4, <2>6, <2>7, <2>8
<1> QED
  BY <1>1, <1>2

(* What the refinement shows, place by place.                              *)
LEMMA Shows == Typed => ShowsReqs /\ ShowsMap
<1> SUFFICES ASSUME Typed PROVE ShowsReqs /\ ShowsMap
  OBVIOUS
<1>0. WaitsAt /\ reqQ \in Seq(AllCmds)
  BY Waits, PlacesTyped
<1>1. \A x \in AllCmds : NormAll(<<x>> \o reqQ) = <<Norm(x)>> \o NormAll(reqQ)
  BY <1>0, NormOf
<1>2. <<>> \o reqQ = reqQ
  BY <1>0, ConcatEmptySeq
<1>3. ASSUME NoStage, blkScanReqCnt = 0
      PROVE  /\ procQ = <<>> => AbsReqs = NormAll(reqQ)
             /\ \A r \in AllCmds : procQ = <<r>> => AbsReqs = <<Norm(r)>> \o NormAll(reqQ)
  BY <1>0, <1>1, <1>2, <1>3, Zenon DEF WaitsAt
<1>4. ASSUME NEW n \in ProcNames, NEW item \in Items,
             procQ = <<>>, Rest({n}, {}), blkScanReqCnt = 0, procQs[n] = <<item>>
      PROVE  AbsReqs = <<CmdAt(n, item)>> \o NormAll(reqQ)
  <2>1. AbsReqs = NormAll(Before(n) \o reqQ)
    BY <1>0, <1>4 DEF WaitsAt
  <2>2. /\ Before(n) = <<ReqOf(CmdOfProc(n), item)>>
        /\ ReqOf(CmdOfProc(n), item) \in AllCmds
    BY <1>4, OneOf, Zenon DEF Before
  <2> QED
    BY <1>1, <2>1, <2>2, Zenon DEF CmdAt
<1>5. ASSUME NEW u \in UpdateCmds, NEW q, q = <<u>>
      PROVE  NormAll(Updates(q) \o reqQ) = <<CmdOf(u)>> \o NormAll(reqQ)
  BY <1>1, <1>5, OneOf, Zenon DEF CmdOf
<1>6. ASSUME NEW n \in 0 .. 4, NEW u \in UpdateCmds,
             procQ = <<>>, Rest({}, {n}), blkScanReqCnt = 0, procUpdateQs[n] = <<u>>
      PROVE  AbsReqs = <<CmdOf(u)>> \o NormAll(reqQ)
  <2>1. AbsReqs = NormAll(Updates(procUpdateQs[n]) \o reqQ)
    BY <1>0, <1>6 DEF WaitsAt
  <2> QED
    BY <1>5, <1>6, <2>1
<1>7. procQ = <<>> /\ Rest({}, {5}) => AbsReqs = NormAll(reqQ)
  BY <1>0 DEF WaitsAt
<1>8. ASSUME NEW u \in UpdateCmds,
             procQ = <<>>, Rest({}, {0, 1}), blkScanReqCnt # 0, procUpdateQs[1] = <<u>>
      PROVE  AbsReqs = <<CmdOf(u)>> \o NormAll(reqQ)
  <2>1. AbsReqs = NormAll(Updates(procUpdateQs[1]) \o reqQ)
    BY <1>0, <1>8 DEF WaitsAt
  <2> QED
    BY <1>5, <1>8, <2>1
<1>9. ShowsReqs
  BY <1>3, <1>4, <1>6, <1>7, <1>8 DEF ShowsReqs
<1>10. blockmap \in [MapAddrs -> MapEntries] /\ respQ \o respQ_pre \in Seq(FlashCmds)
  BY ConcatProperties DEF Typed
<1>11. ASSUME procUpdateQs[5] = <<>>
       PROVE  AbsMap = blockmap /\ AbsAnswers = respQ \o respQ_pre
  <2>1. /\ Len(procUpdateQs[5]) = 0 /\ ~NotEmpty(procUpdateQs[5])
        /\ \A a \in MapAddrs : ~MapPending(a)
    BY <1>11, EmptySeq DEF NotEmpty, MapPending
  <2>2. AbsMap = [a \in MapAddrs |-> blockmap[a]]
    BY <2>1 DEF AbsMap
  <2>3. AbsAnswers = (respQ \o respQ_pre) \o <<>>
    BY <2>1 DEF AbsAnswers
  <2> QED
    BY <1>10, <2>2, <2>3, ConcatEmptySeq
<1>12. ASSUME NEW u \in UpdateCmds, procUpdateQs[5] = <<u>>, respQ = <<>>, respQ_pre = <<>>
       PROVE  /\ AbsMap = [blockmap EXCEPT ![u[2].addr] = MapEntry(u[1], u[2].cmd.block)]
              /\ AbsAnswers = AnswerOf(u)
  <2>1. PICK q : q = procUpdateQs[5]
    OBVIOUS
  <2>2. Len(q) = 1 /\ q[1] = u /\ Head(q) = u /\ NotEmpty(q) /\ 1 .. Len(q) = {1}
    BY <1>12, <2>1, OneIn
  <2>3. \A a \in MapAddrs : MapPending(a) <=> a = u[2].addr
    BY <2>1, <2>2 DEF MapPending
  <2>4. AbsMap = [a \in MapAddrs |-> IF a = u[2].addr THEN MapEntry(u[1], u[2].cmd.block)
                                                      ELSE blockmap[a]]
    BY <2>1, <2>2, <2>3 DEF AbsMap
  <2>5. AbsAnswers = (<<>> \o <<>>) \o AnswerOf(u)
    BY <1>12, <2>1, <2>2, Zenon DEF AbsAnswers, AnswerOf
  <2>6. PICK cmd : cmd = u[2].cmd
    OBVIOUS
  <2>7. <<cmd>> \in Seq({cmd}) /\ <<>> \in Seq({cmd})
    OBVIOUS
  <2>8. AnswerOf(u) \in Seq({cmd})
    BY <2>6, <2>7 DEF AnswerOf
  <2>9. (<<>> \o <<>>) \o AnswerOf(u) = AnswerOf(u)
    BY <2>7, <2>8, ConcatEmptySeq
  <2> QED
    BY <1>10, <2>4, <2>5, <2>9
<1> QED
  BY <1>9, <1>11, <1>12 DEF ShowsMap

-----------------------------------------------------------------------------
(* The steps of the abstract specification.                                *)

(* A step that shows nothing.                                              *)
LEMMA Silent ==
  ASSUME AbsMap' = AbsMap, blkinfo' = blkinfo, restoring' = restoring, AbsReqs' = AbsReqs,
         AbsAnswers' = AbsAnswers, resp_errorQ' = resp_errorQ
  PROVE  [FTL!Next]_FTL!vars
<1>1. NormAll(resp_errorQ)' = NormAll(resp_errorQ)
  OBVIOUS
<1>2. (restoring = <<>>)' <=> (restoring = <<>>)
  OBVIOUS
<1> QED
  BY <1>1, <1>2, Zenon DEF FTL!vars

(* A step that translates the oldest command, whatever the outcome.        *)
LEMMA Translating ==
  ASSUME NEW r \in AllCmds, NEW q \in Seq(AllCmds), AbsReqs = <<r>> \o q, AbsReqs' = q,
         AbsAnswers = <<>>, resp_errorQ = <<>>, restoring' = restoring,
         r.cmd = "AftlREAD" => FTL!TranslateRead(r),
         r.cmd = "AftlWRITE" => FTL!TranslateWrite(r),
         r.cmd = "AftlERASE" => FTL!TranslateErase(r),
         r.cmd = "AftlMARKBAD" => FTL!MarkBad(r)
  PROVE  [FTL!Next]_FTL!vars
<1>1. AbsReqs # <<>> /\ Head(AbsReqs) = r /\ Tail(AbsReqs) = q
  BY InFront
<1>2. NormAll(resp_errorQ) = <<>>
  BY NormOf, Commands
<1>3. (restoring = <<>>)' <=> (restoring = <<>>)
  OBVIOUS
<1>4. r.cmd \in {"AftlREAD", "AftlWRITE", "AftlERASE", "AftlMARKBAD"}
  BY DEF AllCmds
<1>5. CASE r.cmd = "AftlREAD"
  BY <1>1, <1>2, <1>3, <1>5, Zenon DEF FTL!Next, FTL!Translate
<1>6. CASE r.cmd = "AftlWRITE"
  BY <1>1, <1>2, <1>3, <1>6, Zenon DEF FTL!Next, FTL!Translate
<1>7. CASE r.cmd = "AftlERASE"
  BY <1>1, <1>2, <1>3, <1>7, Zenon DEF FTL!Next, FTL!Translate
<1>8. CASE r.cmd = "AftlMARKBAD"
  BY <1>1, <1>2, <1>3, <1>8, Zenon DEF FTL!Next, FTL!Translate
<1> QED
  BY <1>4, <1>5, <1>6, <1>7, <1>8

(* A refusal: the looked-up status does not allow the command, or there is *)
(* no free block for it.                                                   *)
LEMMA Refusing ==
  ASSUME NEW r \in AllCmds, NEW q \in Seq(AllCmds), AbsReqs = <<r>> \o q, AbsReqs' = q,
         AbsAnswers = <<>>, AbsAnswers' = <<>>, resp_errorQ = <<>>, NormAll(resp_errorQ') = <<r>>,
         restoring' = restoring, AbsMap' = AbsMap, blkinfo' = blkinfo,
         r.cmd \in {"AftlREAD", "AftlERASE"} => AbsMap[r.addr].status # "ALLOCATED",
         r.cmd = "AftlMARKBAD" => AbsMap[r.addr].status \notin {"ALLOCATED", "NOT_ALLOCATED"},
         r.cmd = "AftlWRITE" =>
           /\ AbsMap[r.addr].status # "ALLOCATED"
           /\ AbsMap[r.addr].status = "NOT_ALLOCATED" =>
                \A b \in Blocks : blkinfo[ChipOf[r.addr]][b].status # "FREE_BLK"
  PROVE  [FTL!Next]_FTL!vars
<1>1. NormAll(resp_errorQ) = <<>> /\ Append(<<>>, r) = <<r>>
  BY NormOf, Commands, OneIn
<1>2. FTL!Refuse(r)
  BY <1>1, Zenon DEF FTL!Refuse
<1>3. r.cmd = "AftlREAD" => FTL!TranslateRead(r)
  BY <1>2, Zenon DEF FTL!TranslateRead
<1>4. r.cmd = "AftlERASE" => FTL!TranslateErase(r)
  BY <1>2, Zenon DEF FTL!TranslateErase
<1>5. r.cmd = "AftlMARKBAD" => FTL!MarkBad(r)
  BY <1>2, Zenon DEF FTL!MarkBad
<1>6. ASSUME r.cmd = "AftlWRITE" PROVE FTL!TranslateWrite(r)
  <2>1. AbsMap[r.addr].status = "NOT_ALLOCATED" => FTL!FreeBlocks(ChipOf[r.addr]) = {}
    BY <1>6 DEF FTL!FreeBlocks
  <2>2. AbsMap[r.addr].status # "ALLOCATED"
    BY <1>6
  <2> QED
    BY <1>2, <2>1, <2>2, Zenon DEF FTL!TranslateWrite
<1> QED
  BY <1>3, <1>4, <1>5, <1>6, Translating

(* A read or write of a mapped address is answered from the map.           *)
LEMMA Answering ==
  ASSUME NEW r \in AllCmds, NEW q \in Seq(AllCmds), AbsReqs = <<r>> \o q, AbsReqs' = q,
         AbsAnswers = <<>>, resp_errorQ = <<>>, resp_errorQ' = <<>>,
         restoring' = restoring, AbsMap' = AbsMap, blkinfo' = blkinfo,
         r.cmd \in {"AftlREAD", "AftlWRITE"}, AbsMap[r.addr].status = "ALLOCATED",
         NEW op, r.cmd = "AftlREAD" => op = "READ_PAGE", r.cmd = "AftlWRITE" => op = "WRITE_PAGE",
         AbsAnswers' = <<[tag |-> r.tag, op |-> op, chip |-> ChipOf[r.addr],
                          block |-> AbsMap[r.addr].block, page |-> r.page]>>
  PROVE  [FTL!Next]_FTL!vars
<1>1. NormAll(resp_errorQ)' = NormAll(resp_errorQ)
  OBVIOUS
<1>2. FTL!Answer(r, op, AbsMap[r.addr].block, r.page)
  BY OneIn, Zenon DEF FTL!Answer
<1>3. r.cmd = "AftlREAD" => FTL!TranslateRead(r)
  BY <1>1, <1>2, Zenon DEF FTL!TranslateRead
<1>4. r.cmd = "AftlWRITE" => FTL!TranslateWrite(r)
  BY <1>1, <1>2, Zenon DEF FTL!TranslateWrite
<1>5. r.cmd # "AftlERASE" /\ r.cmd # "AftlMARKBAD"
  OBVIOUS
<1> QED
  BY <1>3, <1>4, <1>5, Translating

-----------------------------------------------------------------------------
(* What the command carries is kept.                                       *)

(* A step that leaves the queues, tables and minima alone.                 *)
LEMMA KeptCarried ==
  ASSUME Carried, UNCHANGED <<tables, procQs, procUpdateQs, scanRegs>>
  PROVE  Carried'
<1>1. ProcsCarry'
  BY DEF Carried, ProcsCarry, ItemCarries, tables
<1>2. StagesCarry'
  BY DEF Carried, StagesCarry, UpdateCarries, Cur, At, tables
<1>3. LeastInLanes'
  BY DEF Carried, LeastInLanes, Least, IsFree, Cur, At, tables, scanRegs
<1>4. LeastOfLanes'
  BY DEF Carried, LeastOfLanes, Least, IsFree, Cur, At, tables, scanRegs
<1>5. LeastPicked'
  BY DEF Carried, LeastPicked, Allocating, Least, IsFree, Cur, At, tables, scanRegs
<1> QED
  BY <1>1, <1>2, <1>3, <1>4, <1>5 DEF Carried

(* With nothing in the queues there is nothing to carry.                   *)
LEMMA NothingCarried == NoStage => Carried
<1> SUFFICES ASSUME NoStage PROVE Carried
  OBVIOUS
<1>1. /\ \A n \in ProcNames : Len(procQs[n]) = 0
      /\ \A n \in 0 .. 5 : ~At(n)
  BY EmptySeq DEF NoStage, At
<1> QED
  BY <1>1 DEF Carried, ProcsCarry, StagesCarry, LeastInLanes, LeastOfLanes, LeastPicked, Allocating

(* Only the place of the command carries something.                        *)
CarriedHere ==
  /\ NoStage => Carried
  /\ \A n \in ProcNames : (Rest({n}, {}) /\ ItemCarries(n, procQs[n][1])) => Carried
  /\ \A n \in 0 .. 5 :
       (Rest({}, {n}) /\ UpdateCarries(Cur(n)) /\ LeastInLanes /\ LeastOfLanes /\ LeastPicked)
       => Carried
  /\ Rest({}, {0}) \/ Rest({}, {5}) => LeastInLanes /\ LeastOfLanes /\ LeastPicked
  /\ Rest({}, {1}) \/ Rest({}, {0, 1}) => LeastOfLanes /\ LeastPicked
  /\ Rest({}, {2}) => LeastInLanes /\ LeastPicked
  /\ Rest({}, {3}) \/ Rest({}, {4}) => LeastInLanes /\ LeastOfLanes

(* Which parts of Carried a place of the command has to establish itself:  *)
(* the others hold as their queues are empty.                              *)
LEMMA CarriedAt == CarriedHere
<1>1. \A names, stages : Rest(names, stages) =>
        /\ \A n \in ProcNames \ names : Len(procQs[n]) = 0
        /\ \A n \in (0 .. 5) \ stages : ~At(n)
  BY EmptySeq DEF Rest, At
<1>2. ASSUME NEW n \in ProcNames, Rest({n}, {}), ItemCarries(n, procQs[n][1]) PROVE Carried
  <2>1. (\A m \in ProcNames \ {n} : Len(procQs[m]) = 0) /\ \A m \in 0 .. 5 : ~At(m)
    BY <1>1, <1>2
  <2> QED
    BY <1>2, <2>1
       DEF Carried, ProcsCarry, StagesCarry, LeastInLanes, LeastOfLanes, LeastPicked, Allocating
<1>3. ASSUME NEW n \in 0 .. 5, Rest({}, {n}), UpdateCarries(Cur(n)),
             LeastInLanes, LeastOfLanes, LeastPicked
      PROVE  Carried
  <2>1. (\A m \in ProcNames : Len(procQs[m]) = 0) /\ \A m \in (0 .. 5) \ {n} : ~At(m)
    BY <1>1, <1>3
  <2> QED
    BY <1>3, <2>1 DEF Carried, ProcsCarry, StagesCarry
<1>4. /\ ~At(1) => LeastInLanes
      /\ ~At(2) => LeastOfLanes
      /\ ~At(3) /\ ~At(4) => LeastPicked
  BY DEF LeastInLanes, LeastOfLanes, LeastPicked, Allocating
<1>5. /\ Rest({}, {0}) => ~At(1) /\ ~At(2) /\ ~At(3) /\ ~At(4)
      /\ Rest({}, {1}) => ~At(2) /\ ~At(3) /\ ~At(4)
      /\ Rest({}, {0, 1}) => ~At(2) /\ ~At(3) /\ ~At(4)
      /\ Rest({}, {2}) => ~At(1) /\ ~At(3) /\ ~At(4)
      /\ Rest({}, {3}) => ~At(1) /\ ~At(2)
      /\ Rest({}, {4}) => ~At(1) /\ ~At(2)
      /\ Rest({}, {5}) => ~At(1) /\ ~At(2) /\ ~At(3) /\ ~At(4)
  BY <1>1
<1> QED
  BY <1>2, <1>3, <1>4, <1>5, NothingCarried DEF CarriedHere

(* The less erased of two minima is a minimum of both sets of blocks.      *)
LEMMA LeastOfTwo ==
  ASSUME Typed, NEW c \in Chips, NEW A \in SUBSET Blocks, NEW B \in SUBSET Blocks,
         NEW e \in MinEntries, NEW f \in MinEntries, Least(e, c, A), Least(f, c, B)
  PROVE  Least(GetMinEntries(e, f), c, A \cup B)
<1>1. \A b \in Blocks : blkinfo[c][b].erase \in Nat
  <2>1. \A b \in Blocks : blkinfo[c][b] \in BlkEntries
    BY DEF Typed
  <2> QED
    BY <2>1, AFTLAssumption DEF BlkEntries
<1>2. /\ e # Invalid => e[2] \in Nat
      /\ f # Invalid => f[2] \in Nat
  BY AFTLAssumption DEF MinEntries
<1>3. CASE f = Invalid
  BY <1>3 DEF Least, GetMinEntries
<1>4. CASE f # Invalid /\ e = Invalid
  BY <1>4 DEF Least, GetMinEntries
<1>5. CASE f # Invalid /\ e # Invalid
  <2>1. CASE e[2] <= f[2]
    <3>1. GetMinEntries(e, f) = e
      BY <1>5, <2>1 DEF GetMinEntries
    <3> QED
      BY <1>1, <1>2, <1>5, <2>1, <3>1 DEF Least
  <2>2. CASE f[2] <= e[2] /\ ~(e[2] <= f[2])
    <3>1. GetMinEntries(e, f) = f
      BY <1>5, <2>2 DEF GetMinEntries
    <3> QED
      BY <1>1, <1>2, <1>5, <2>2, <3>1 DEF Least
  <2> QED
    BY <1>2, <1>5, <2>1, <2>2
<1> QED
  BY <1>3, <1>4, <1>5

(* One more entry collected.                                               *)
LEMMA LeastWithEntry ==
  ASSUME Typed, NEW c \in Chips, NEW B \in SUBSET Blocks, NEW b \in Blocks,
         NEW e \in MinEntries, Least(e, c, B)
  PROVE  Least(UpdateMinEntries(e, blkinfo[c][b], b), c, B \cup {b})
<1>1. \A o \in Blocks : blkinfo[c][o].erase \in Nat
  <2>1. \A o \in Blocks : blkinfo[c][o] \in BlkEntries
    BY DEF Typed
  <2> QED
    BY <2>1, AFTLAssumption DEF BlkEntries
<1>2. e # Invalid => e[2] \in Nat
  BY AFTLAssumption DEF MinEntries
<1>3. CASE ~IsFree(c, b)
  <2>1. UpdateMinEntries(e, blkinfo[c][b], b) = e
    BY <1>3 DEF UpdateMinEntries, IsFree
  <2> QED
    BY <1>3, <2>1 DEF Least
<1>4. CASE IsFree(c, b) /\ e # Invalid /\ e[2] <= blkinfo[c][b].erase
  <2>1. UpdateMinEntries(e, blkinfo[c][b], b) = e
    BY <1>4 DEF UpdateMinEntries, IsFree
  <2> QED
    BY <1>4, <2>1 DEF Least
<1>5. CASE IsFree(c, b) /\ ~(e # Invalid /\ e[2] <= blkinfo[c][b].erase)
  <2>1. PICK n \in Nat : n = blkinfo[c][b].erase
    BY <1>1
  <2>2. PICK m : m = <<b, n>>
    OBVIOUS
  <2>3. UpdateMinEntries(e, blkinfo[c][b], b) = m
    BY <1>5, <2>1, <2>2 DEF UpdateMinEntries, IsFree
  <2>4. m # Invalid /\ m[1] = b /\ m[2] = n
    BY <2>2, OneIn DEF Invalid
  <2>5. \A o \in B : IsFree(c, o) => n <= blkinfo[c][o].erase
    BY <1>1, <1>2, <1>5, <2>1 DEF Least
  <2> QED
    BY <1>5, <2>1, <2>3, <2>4, <2>5 DEF Least
<1> QED
  BY <1>3, <1>4, <1>5

(* The blocks of a lane, line by line, and of the lanes.                   *)
LEMMA LaneBlocks ==
  /\ InLanes(0) = {} /\ \A l \in LaneSet : InLane(l, 0) = {}
  /\ \A l \in LaneSet : \A n \in 0 .. Words - 1 :
       InLane(l, n + 1) = InLane(l, n) \cup {n * Lanes + l}
  /\ \A l \in LaneSet : InLanes(l + 1) = InLanes(l) \cup InLane(l, Words)
  /\ InLanes(Lanes) = Blocks
  /\ \A l \in LaneSet : \A n \in 0 .. Words : InLane(l, n) \in SUBSET Blocks
  /\ \A n \in 0 .. Lanes : InLanes(n) \in SUBSET Blocks
<1>1. ASSUME NEW b \in Blocks
      PROVE  b \div Lanes \in 0 .. Words - 1 /\ b % Lanes \in LaneSet
             /\ (b \div Lanes) * Lanes + (b % Lanes) = b
  BY LanesOfABlock
<1>2. Lanes \in Nat \ {0} /\ Words \in Nat \ {0}
  BY AFTLAssumption
<1>3. InLanes(0) = {} /\ \A l \in LaneSet : InLane(l, 0) = {}
  BY <1>1, <1>2 DEF InLanes, InLane, LaneSet
<1>4. ASSUME NEW l \in LaneSet, NEW n \in 0 .. Words - 1
      PROVE  InLane(l, n + 1) = InLane(l, n) \cup {n * Lanes + l}
  <2>1. PICK x : x = n * Lanes + l
    OBVIOUS
  <2>2. x \in Blocks /\ x \div Lanes = n /\ x % Lanes = l
    BY <2>1, BlockOfALane, DivideBlock
  <2>3. ASSUME NEW b \in Blocks, b \div Lanes = n, b % Lanes = l PROVE b = x
    BY <1>1, <2>1, <2>3
  <2>4. \A b \in Blocks : b \div Lanes < n + 1 <=> b \div Lanes < n \/ b \div Lanes = n
    BY <1>1
  <2>5. n < n + 1
    OBVIOUS
  <2> QED
    BY <2>1, <2>2, <2>3, <2>4, <2>5 DEF InLane
<1>5. ASSUME NEW l \in LaneSet
      PROVE  InLanes(l + 1) = InLanes(l) \cup InLane(l, Words)
  <2>1. \A b \in Blocks : b \div Lanes < Words
    BY <1>1, <1>2
  <2>2. \A b \in Blocks : b % Lanes < l + 1 <=> b % Lanes < l \/ b % Lanes = l
    BY <1>1 DEF LaneSet
  <2> QED
    BY <2>1, <2>2 DEF InLane, InLanes
<1>6. InLanes(Lanes) = Blocks
  <2>1. \A b \in Blocks : b % Lanes < Lanes
    BY <1>1, <1>2 DEF LaneSet
  <2> QED
    BY <2>1 DEF InLanes
<1> QED
  BY <1>3, <1>4, <1>5, <1>6 DEF InLane, InLanes

(* Before and after a step that keeps the invariant.                       *)
LEMMA Both ==
  ASSUME IInv, IInv'
  PROVE  ShowsReqs /\ ShowsMap /\ ShowsReqs' /\ ShowsMap' /\ CarriedHere'
<1>1. Typed /\ Typed'
  BY DEF IInv
<1>2. Typed' => ShowsReqs' /\ ShowsMap'
  BY Shows, PTL
<1>3. CarriedHere'
  BY CarriedAt, PTL
<1> QED
  BY <1>1, <1>2, <1>3, Shows

(* A step while no command is between its lookup and its answer.           *)
LEMMA Quiet ==
  ASSUME IInv, IInv', NoStage, NoStage', blkScanReqCnt = 0, blkScanReqCnt' = 0
  PROVE  /\ procQ = <<>> => AbsReqs = NormAll(reqQ)
         /\ procQ' = <<>> => AbsReqs' = NormAll(reqQ')
         /\ \A r \in AllCmds : procQ = <<r>> => AbsReqs = <<Norm(r)>> \o NormAll(reqQ)
         /\ \A r \in AllCmds : procQ' = <<r>> => AbsReqs' = <<Norm(r)>> \o NormAll(reqQ')
         /\ AbsMap = blockmap /\ AbsMap' = blockmap'
         /\ AbsAnswers = respQ \o respQ_pre /\ AbsAnswers' = respQ' \o respQ_pre'
         /\ Carried'
<1>1. ShowsReqs /\ ShowsMap /\ ShowsReqs' /\ ShowsMap' /\ CarriedHere'
  BY Both
<1>2. /\ procQ = <<>> => AbsReqs = NormAll(reqQ)
      /\ \A r \in AllCmds : procQ = <<r>> => AbsReqs = <<Norm(r)>> \o NormAll(reqQ)
  BY <1>1, Zenon DEF ShowsReqs
<1>3. /\ procQ' = <<>> => AbsReqs' = NormAll(reqQ')
      /\ \A r \in AllCmds : procQ' = <<r>> => AbsReqs' = <<Norm(r)>> \o NormAll(reqQ')
  BY <1>1, Zenon DEF ShowsReqs
<1>4. procUpdateQs[5] = <<>> /\ procUpdateQs'[5] = <<>>
  BY DEF NoStage
<1>5. /\ AbsMap = blockmap /\ AbsMap' = blockmap'
      /\ AbsAnswers = respQ \o respQ_pre /\ AbsAnswers' = respQ' \o respQ_pre'
  BY <1>1, <1>4, Zenon DEF ShowsMap
<1>6. Carried'
  BY <1>1, Zenon DEF CarriedHere
<1> QED
  BY <1>2, <1>3, <1>5, <1>6

-----------------------------------------------------------------------------
(* Every rule shows a step of the abstract specification, or none.  First  *)
(* the host: it restores the tables,                                       *)

(* Before its commands the pipeline is empty.                              *)
LEMMA WhileRestoring ==
  ASSUME IInv, restoring # <<>>
  PROVE  NoStage /\ blkScanReqCnt = 0 /\ procQ = <<>> /\ reqQ = <<>>
<1>0. Typed /\ Pipeline /\ ScanFits /\ InProgressExact /\ Restoring
  BY DEF IInv, Pipeline, Stages
<1>1. reqQ = <<>> /\ ~inProgress
  BY <1>0 DEF Restoring
<1>2. NoStage /\ blkScanReqCnt = 0 /\ Len(procQ) + InAnswer = 0
  BY <1>0, <1>1, AtEnd DEF NoStage
<1>3. Len(procQ) \in Nat /\ InAnswer \in Nat
  BY <1>0, Lengths, AnswerCount
<1> QED
  BY <1>0, <1>1, <1>2, <1>3, EmptyQueues

(* The host restores a line of the block table: Restore.                   *)
LEMMA UpdateBlkInfoRefines ==
  ASSUME IInv, IInv', NEW c \in Chips, NEW w \in 0 .. Words - 1, UpdateBlkInfo(c, w)
  PROVE  Carried' /\ [FTL!Next]_FTL!vars
<1>1. /\ restoring # <<>> /\ restoring' = Tail(restoring) /\ Head(restoring) = <<"blkinfo", c, w>>
      /\ UNCHANGED <<blockmap, reqQ, procQ, procQs, procUpdateQs, outputs, scanRegs>>
  BY DEF UpdateBlkInfo
<1>2. NoStage /\ blkScanReqCnt = 0 /\ procQ = <<>> /\ reqQ = <<>>
  BY <1>1, WhileRestoring
<1>3. NoStage' /\ blkScanReqCnt' = 0 /\ procQ' = <<>>
  BY <1>1, <1>2 DEF NoStage, scanRegs
<1>4. AbsReqs' = AbsReqs /\ AbsMap' = AbsMap /\ AbsAnswers' = AbsAnswers /\ Carried'
  BY <1>1, <1>2, <1>3, Quiet DEF outputs
<1>5. restoring' # <<>>
  BY <1>1, StillToCome
<1>6. /\ \A d \in Chips \ {c} : blkinfo'[d] = blkinfo[d]
      /\ \A b \in Blocks \ {x \in Blocks : x \div Lanes = w} : blkinfo'[c][b] = blkinfo[c][b]
  <2>1. blkinfo \in [Chips -> [Blocks -> BlkEntries]]
    BY DEF IInv, Typed
  <2>2. PICK f : f = [b \in Blocks |-> IF b \div Lanes = w THEN image.info[c][b] ELSE blkinfo[c][b]]
    OBVIOUS
  <2>3. blkinfo' = [blkinfo EXCEPT ![c] = f]
    BY <2>2 DEF UpdateBlkInfo
  <2> QED
    BY <2>1, <2>2, <2>3
<1>7. resp_errorQ' = resp_errorQ
  BY <1>1 DEF outputs
<1>8. FTL!Restore
  <2>1. {x \in Blocks : x \div Lanes = w} \in SUBSET Blocks
    OBVIOUS
  <2>2. NormAll(resp_errorQ)' = NormAll(resp_errorQ)
    BY <1>7
  <2>3. (restoring = <<>>)' <=> (restoring = <<>>)
    BY <1>1, <1>5
  <2>4. \E line \in SUBSET Blocks :
          /\ \A b \in Blocks \ line : blkinfo'[c][b] = blkinfo[c][b]
          /\ \A d \in Chips \ {c} : blkinfo'[d] = blkinfo[d]
          /\ AbsMap' = AbsMap
    BY <1>4, <1>6, <2>1
  <2> QED
    BY <1>1, <1>4, <2>2, <2>3, <2>4, Zenon DEF FTL!Restore
<1> QED
  BY <1>4, <1>8 DEF FTL!Next

(* The host restores an entry of the map: Restore.                         *)
LEMMA UpdateMappingRefines ==
  ASSUME IInv, IInv', NEW a \in MapAddrs, UpdateMapping(a)
  PROVE  Carried' /\ [FTL!Next]_FTL!vars
<1>1. /\ restoring # <<>> /\ restoring' = Tail(restoring) /\ Head(restoring) = <<"map", a>>
      /\ blockmap' = [blockmap EXCEPT ![a] = image.map[a]] /\ blkinfo' = blkinfo
      /\ UNCHANGED <<reqQ, procQ, procQs, procUpdateQs, outputs, scanRegs>>
  BY DEF UpdateMapping
<1>2. NoStage /\ blkScanReqCnt = 0 /\ procQ = <<>> /\ reqQ = <<>>
  BY <1>1, WhileRestoring
<1>3. NoStage' /\ blkScanReqCnt' = 0 /\ procQ' = <<>>
  BY <1>1, <1>2 DEF NoStage, scanRegs
<1>4. /\ AbsReqs' = AbsReqs /\ AbsAnswers' = AbsAnswers /\ Carried'
      /\ AbsMap = blockmap /\ AbsMap' = blockmap'
  BY <1>1, <1>2, <1>3, Quiet DEF outputs
<1>5. restoring' # <<>>
  BY <1>1, StillToCome
<1>6. PICK e \in MapEntries : e = image.map[a]
  <2>1. image \in Images
    BY DEF IInv, Typed
  <2> QED
    BY <2>1, ImagesAssumption
<1>7. PICK s \in {"ALLOCATED", "NOT_ALLOCATED", "DEAD"}, b \in Blocks :
        e = [status |-> s, block |-> b]
  BY DEF MapEntries
<1>8. AbsMap' = [AbsMap EXCEPT ![a] = [status |-> s, block |-> b]]
  BY <1>1, <1>4, <1>6, <1>7
<1>9. NormAll(resp_errorQ)' = NormAll(resp_errorQ)
  BY <1>1 DEF outputs
<1>10. (restoring = <<>>)' <=> (restoring = <<>>)
  BY <1>1, <1>5
<1>11. FTL!Restore
  <2>1. \E x \in MapAddrs, t \in {"ALLOCATED", "NOT_ALLOCATED", "DEAD"}, y \in Blocks :
          AbsMap' = [AbsMap EXCEPT ![x] = [status |-> t, block |-> y]] /\ UNCHANGED blkinfo
    BY <1>1, <1>8
  <2>2. UNCHANGED <<restoring = <<>>, AbsReqs, AbsAnswers, NormAll(resp_errorQ)>>
    BY <1>4, <1>9, <1>10
  <2> QED
    BY <1>1, <2>1, <2>2, Zenon DEF FTL!Restore
<1> QED
  BY <1>4, <1>11 DEF FTL!Next

(* The last restoring step opens the pipeline: Loaded.                     *)
LEMMA SetAftlLoadedRefines ==
  ASSUME IInv, IInv', SetAftlLoaded
  PROVE  Carried' /\ [FTL!Next]_FTL!vars
<1>1. /\ restoring = << <<"loaded">> >> /\ restoring' = <<>>
      /\ UNCHANGED <<tables, reqQ, procQ, procQs, procUpdateQs, outputs, scanRegs>>
  BY DEF SetAftlLoaded
<1>2. restoring # <<>>
  BY <1>1, OneIn
<1>3. NoStage /\ blkScanReqCnt = 0 /\ procQ = <<>> /\ reqQ = <<>>
  BY <1>2, WhileRestoring
<1>4. NoStage' /\ blkScanReqCnt' = 0 /\ procQ' = <<>>
  BY <1>1, <1>3 DEF NoStage, scanRegs
<1>5. AbsReqs' = AbsReqs /\ AbsMap' = AbsMap /\ AbsAnswers' = AbsAnswers /\ Carried'
  BY <1>1, <1>3, <1>4, Quiet DEF outputs, tables
<1>6. NormAll(resp_errorQ)' = NormAll(resp_errorQ) /\ blkinfo' = blkinfo
  BY <1>1 DEF outputs, tables
<1>7. (restoring = <<>>)' = TRUE
  BY <1>1
<1>8. FTL!Loaded
  BY <1>5, <1>6, <1>7, Zenon DEF FTL!Loaded
<1> QED
  BY <1>5, <1>8 DEF FTL!Next

(* puts commands,                                                          *)
LEMMA TranslateReqRefines ==
  ASSUME IInv, IInv', Carried, NEW r \in Reqs, TranslateReq(r)
  PROVE  Carried' /\ [FTL!Next]_FTL!vars
<1>1. /\ restoring = <<>> /\ reqQ' = Append(reqQ, r)
      /\ UNCHANGED <<tables, procQ, procQs, procUpdateQs, outputs, scanRegs, host>>
  BY DEF TranslateReq
<1>2. /\ blockmap' = blockmap /\ blkinfo' = blkinfo /\ respQ' = respQ /\ respQ_pre' = respQ_pre
      /\ resp_errorQ' = resp_errorQ /\ restoring' = restoring /\ blkScanReqCnt' = blkScanReqCnt
  BY <1>1 DEF tables, outputs, scanRegs, host
<1>3. Typed /\ r \in AllCmds /\ reqQ \in Seq(AllCmds) /\ reqQ' \in Seq(AllCmds)
  <2>1. Typed /\ r \in AllCmds
    BY Commands DEF IInv
  <2>2. reqQ \in Seq(AllCmds)
    BY <2>1, PlacesTyped
  <2> QED
    BY <1>1, <2>1, <2>2, AppendProperties
<1>4. PICK y \in Seq(AllCmds) : AbsReqs = NormAll(y \o reqQ) /\ AbsReqs' = NormAll(y \o reqQ')
  <2> DEFINE y == Updates(procUpdateQs[4]) \o Updates(procUpdateQs[3]) \o Updates(procUpdateQs[2])
                  \o Updates(procUpdateQs[1])
                  \o (IF blkScanReqCnt = 0 THEN Updates(procUpdateQs[0]) ELSE <<>>)
                  \o Before("R") \o Before("W") \o Before("W_trig") \o Before("E") \o Before("MB")
                  \o procQ
  <2>1. AbsReqs = NormAll(y \o reqQ)
    BY Zenon DEF AbsReqs, Before, CmdOfProc
  <2>2. AbsReqs' = NormAll(y \o reqQ')
    BY <1>1, <1>2, Zenon DEF AbsReqs, Before, CmdOfProc
  <2>3. y \in Seq(AllCmds)
    <3>1. /\ \A n \in 0 .. 5 : Updates(procUpdateQs[n]) \in Seq(AllCmds)
          /\ \A n \in ProcNames : Before(n) \in Seq(AllCmds)
          /\ procQ \in Seq(AllCmds)
      BY <1>3, PlacesTyped
    <3>2. /\ Before("R") \in Seq(AllCmds) /\ Before("W") \in Seq(AllCmds)
          /\ Before("W_trig") \in Seq(AllCmds) /\ Before("E") \in Seq(AllCmds)
          /\ Before("MB") \in Seq(AllCmds)
      BY <3>1 DEF ProcNames
    <3>3. (IF blkScanReqCnt = 0 THEN Updates(procUpdateQs[0]) ELSE <<>>) \in Seq(AllCmds)
      BY <3>1
    <3>4. \A s, t \in Seq(AllCmds) : s \o t \in Seq(AllCmds)
      BY ConcatProperties
    <3>5. /\ Updates(procUpdateQs[4]) \in Seq(AllCmds) /\ Updates(procUpdateQs[3]) \in Seq(AllCmds)
          /\ Updates(procUpdateQs[2]) \in Seq(AllCmds) /\ Updates(procUpdateQs[1]) \in Seq(AllCmds)
      BY <3>1
    <3> QED
      BY <3>1, <3>2, <3>3, <3>4, <3>5, Zenon
  <2> QED
    BY <2>1, <2>2, <2>3
<1>5. /\ y \o reqQ \in Seq(AllCmds) /\ y \o reqQ' = Append(y \o reqQ, r)
  <2>1. PICK q \in Seq(AllCmds) : q = reqQ
    BY <1>3
  <2>2. y \o Append(q, r) = Append(y \o q, r) /\ y \o q \in Seq(AllCmds)
    BY <1>3
  <2> QED
    BY <1>1, <2>1, <2>2
<1>6. PICK s \in Seq(AllCmds), x \in AllCmds : AbsReqs = s /\ AbsReqs' = Append(s, x)
  <2>1. PICK z \in Seq(AllCmds) : z = y \o reqQ
    BY <1>5
  <2>2. /\ NormAll(Append(z, r)) = Append(NormAll(z), Norm(r))
        /\ NormAll(z) \in Seq(AllCmds) /\ Norm(r) \in AllCmds
    BY <1>3, NormOf
  <2>3. AbsReqs = NormAll(z) /\ AbsReqs' = NormAll(Append(z, r))
    BY <1>4, <1>5, <2>1
  <2> QED
    BY <2>2, <2>3
<1>7. Len(Append(s, x)) = Len(s) + 1 /\ SubSeq(Append(s, x), 1, Len(s)) = s
  OBVIOUS
<1>8. AbsMap' = AbsMap /\ AbsAnswers' = AbsAnswers
  BY <1>1, <1>2, Zenon DEF AbsMap, AbsAnswers, MapPending
<1>9. FTL!Put
  <2>1. NormAll(resp_errorQ)' = NormAll(resp_errorQ) /\ ((restoring = <<>>)' <=> (restoring = <<>>))
    BY <1>2
  <2> QED
    BY <1>1, <1>2, <1>6, <1>7, <1>8, <2>1, Zenon DEF FTL!Put
<1>10. Carried'
  BY <1>1, KeptCarried
<1> QED
  BY <1>9, <1>10 DEF FTL!Next

(* An answer waits alone.                                                  *)
LEMMA AtAnswer ==
  ASSUME IInv, \/ NotEmpty(respQ) \/ NotEmpty(respQ_pre)
               \/ NotEmpty(resp_errorQ) \/ NotEmpty(markBadDoneQ)
  PROVE  /\ NoStage /\ blkScanReqCnt = 0 /\ procQ = <<>> /\ restoring = <<>>
         /\ NotEmpty(respQ) => /\ Len(respQ) = 1 /\ respQ_pre = <<>> /\ resp_errorQ = <<>>
         /\ NotEmpty(respQ_pre) => /\ Len(respQ_pre) = 1 /\ respQ = <<>> /\ resp_errorQ = <<>>
         /\ NotEmpty(resp_errorQ) => /\ Len(resp_errorQ) = 1 /\ respQ = <<>> /\ respQ_pre = <<>>
<1>0. Typed /\ Pipeline /\ ScanFits /\ InProgressExact /\ Restoring
  BY DEF IInv, Pipeline, Stages
<1>1. NoStage /\ blkScanReqCnt = 0 /\ Len(procQ) + InAnswer = IF inProgress THEN 1 ELSE 0
  BY <1>0, AtEnd DEF NoStage
<1>2. /\ Len(procQ) \in Nat /\ InAnswer \in Nat
      /\ InAnswer >= Len(respQ_pre) /\ InAnswer >= Len(markBadDoneQ)
      /\ InAnswer >= Len(respQ) /\ InAnswer >= Len(resp_errorQ)
      /\ Len(respQ) \in Nat /\ Len(resp_errorQ) \in Nat
      /\ Len(respQ_pre) \in Nat /\ Len(markBadDoneQ) \in Nat
  BY <1>0, Lengths, AnswerCount
<1>3. InAnswer >= 1
  BY <1>2 DEF NotEmpty
<1>4. Len(procQ) = 0 /\ InAnswer = 1 /\ inProgress
  BY <1>1, <1>2, <1>3
<1>5. restoring = <<>>
  BY <1>0, <1>4, Loaded
<1> QED
  BY <1>0, <1>1, <1>4, <1>5, EmptyQueues, AnswerCount DEF NotEmpty

(* and takes the answers.                                                  *)
LEMMA AnsweredRefines ==
  ASSUME IInv, IInv', Answered
  PROVE  Carried' /\ [FTL!Next]_FTL!vars
<1>1. UNCHANGED <<tables, reqQ, procQ, procQs, procUpdateQs, respQ_pre, scanRegs, host>>
  BY DEF Answered, RespGet, RespErrorGet
<1>2. NotEmpty(respQ) \/ NotEmpty(resp_errorQ)
  BY DEF Answered, RespGet, RespErrorGet
<1>3. NoStage /\ blkScanReqCnt = 0 /\ procQ = <<>>
  BY <1>2, AtAnswer
<1>4. NoStage' /\ blkScanReqCnt' = 0 /\ procQ' = <<>>
  BY <1>1, <1>3 DEF NoStage, scanRegs
<1>5. /\ AbsReqs' = AbsReqs /\ AbsMap' = AbsMap /\ Carried'
      /\ AbsAnswers = respQ \o respQ_pre /\ AbsAnswers' = respQ' \o respQ_pre'
  BY <1>1, <1>3, <1>4, Quiet DEF tables
<1>6. blkinfo' = blkinfo /\ ((restoring = <<>>)' <=> (restoring = <<>>))
  BY <1>1 DEF tables, host
<1>7. Typed
  BY DEF IInv
<1>8. CASE RespGet
  <2>1. Len(respQ) = 1 /\ respQ_pre = <<>> /\ resp_errorQ' = resp_errorQ /\ respQ' = Tail(respQ)
    BY <1>8, AtAnswer DEF RespGet
  <2>2. PICK q \in Seq(FlashCmds) : q = respQ
    BY <1>7 DEF Typed
  <2>3. PICK none : none = <<>>
    OBVIOUS
  <2>4. Tail(q) = none /\ q # none /\ none \o none = none /\ q \o none = q
    BY <2>1, <2>2, <2>3, TailOfOne, ConcatEmptySeq, EmptySeq
  <2>5. AbsAnswers = q /\ AbsAnswers' = none
    BY <1>1, <1>5, <2>1, <2>2, <2>3, <2>4
  <2>6. NormAll(resp_errorQ)' = NormAll(resp_errorQ)
    BY <2>1
  <2>7. FTL!Take
    BY <1>5, <1>6, <2>3, <2>4, <2>5, <2>6, Zenon DEF FTL!Take
  <2> QED
    BY <1>5, <2>7 DEF FTL!Next
<1>9. CASE RespErrorGet
  <2>1. /\ Len(resp_errorQ) = 1 /\ respQ_pre = <<>> /\ respQ = <<>>
        /\ respQ' = respQ /\ resp_errorQ' = Tail(resp_errorQ)
    BY <1>9, AtAnswer DEF RespErrorGet
  <2>2. AbsAnswers' = AbsAnswers
    BY <1>1, <1>5, <2>1
  <2>3. PICK q \in Seq(ErrorCmds) : q = resp_errorQ
    BY <1>7 DEF Typed
  <2>4. PICK x \in AllCmds : q = <<x>>
    BY <2>1, <2>3, OneElement, TailOfOne, Commands
  <2>5. Tail(q) = <<>>
    BY <2>1, <2>3, TailOfOne
  <2>6. NormAll(resp_errorQ) = <<Norm(x)>> /\ NormAll(resp_errorQ)' = <<>>
    <3>1. NormAll(<<x>>) = <<Norm(x)>> /\ NormAll(<<>>) = <<>>
      BY NormOf, EmptySeq
    <3> QED
      BY <2>1, <2>3, <2>4, <2>5, <3>1
  <2>7. <<Norm(x)>> # <<>> /\ Tail(<<Norm(x)>>) = <<>>
    BY OneIn
  <2>8. FTL!Take
    BY <1>5, <1>6, <2>2, <2>6, <2>7, Zenon DEF FTL!Take
  <2> QED
    BY <1>5, <2>8 DEF FTL!Next
<1> QED
  BY <1>8, <1>9 DEF Answered

(* routeRespQ and drainMarkBadDone show nothing.                           *)
LEMMA OutputRefines ==
  ASSUME IInv, IInv', RouteRespQ \/ DrainMarkBadDone
  PROVE  Carried' /\ [FTL!Next]_FTL!vars
<1>1. /\ UNCHANGED <<tables, reqQ, procQ, procQs, procUpdateQs, resp_errorQ, scanRegs, host>>
      /\ NotEmpty(respQ_pre) \/ NotEmpty(markBadDoneQ)
  BY DEF RouteRespQ, DrainMarkBadDone
<1>2. NoStage /\ blkScanReqCnt = 0 /\ procQ = <<>>
  BY <1>1, AtAnswer
<1>3. NoStage' /\ blkScanReqCnt' = 0 /\ procQ' = <<>>
  BY <1>1, <1>2 DEF NoStage, scanRegs
<1>4. /\ AbsReqs' = AbsReqs /\ AbsMap' = AbsMap /\ Carried'
      /\ AbsAnswers = respQ \o respQ_pre /\ AbsAnswers' = respQ' \o respQ_pre'
  BY <1>1, <1>2, <1>3, Quiet DEF tables
<1>5. AbsAnswers' = AbsAnswers
  <2>1. CASE RouteRespQ
    <3>1. /\ respQ = <<>> /\ respQ_pre' = Tail(respQ_pre) /\ respQ' = Append(respQ, Head(respQ_pre))
          /\ Len(respQ_pre) = 1
      BY <2>1, AtAnswer DEF RouteRespQ
    <3>2. PICK q \in Seq(FlashCmds) : q = respQ_pre
      BY DEF IInv, Typed
    <3>3. PICK x \in FlashCmds : Head(q) = x /\ Tail(q) = <<>> /\ q = <<x>>
      BY <3>1, <3>2, TailOfOne, OneElement
    <3>4. PICK none : none = <<>>
      OBVIOUS
    <3>5. none \o q = q /\ q \o none = q /\ Append(none, x) = q
      BY <3>2, <3>3, <3>4, ConcatEmptySeq
    <3> QED
      BY <1>4, <3>1, <3>2, <3>3, <3>4, <3>5
  <2>2. CASE DrainMarkBadDone
    BY <1>4, <2>2 DEF DrainMarkBadDone
  <2> QED
    BY <2>1, <2>2
<1>6. blkinfo' = blkinfo /\ restoring' = restoring
  BY <1>1 DEF tables, host
<1> QED
  BY <1>1, <1>4, <1>5, <1>6, Silent

-----------------------------------------------------------------------------
(* The lookup.  requestMapping shows nothing,                              *)
LEMMA RequestMappingRefines ==
  ASSUME IInv, IInv', RequestMapping
  PROVE  Carried' /\ [FTL!Next]_FTL!vars
<1>0. Typed /\ Pipeline /\ ScanFits /\ InProgressExact /\ LookupFits
  BY DEF IInv, Pipeline, Stages
<1>1. /\ ~inProgress /\ NotEmpty(reqQ) /\ reqQ' = Tail(reqQ)
      /\ UNCHANGED <<tables, procQs, procUpdateQs, respQ_pre, respQ, scanRegs, host>>
  BY DEF RequestMapping
<1>2. NoStage /\ blkScanReqCnt = 0 /\ Len(procQ) + InAnswer = 0
  BY <1>0, <1>1, AtEnd DEF NoStage
<1>3. procQ = <<>>
  <2>1. Len(procQ) \in Nat /\ InAnswer \in Nat
    BY <1>0, Lengths, AnswerCount
  <2> QED
    BY <1>0, <1>2, <2>1, EmptyQueues
<1>4. PICK q \in Seq(Reqs) : q = reqQ
  BY <1>0 DEF Typed
<1>5. /\ Head(q) \in Reqs /\ Tail(q) \in Seq(Reqs) /\ q = <<Head(q)>> \o Tail(q)
  BY <1>1, <1>4, Dequeued, FirstAndOthers
<1>6. PICK r \in Reqs, rest \in Seq(Reqs) : r = Head(q) /\ rest = Tail(q)
  BY <1>5
<1>7. IsFtlCmd(r)
  BY ReqsAssumption
<1>8. procQ' = <<r>> /\ resp_errorQ' = resp_errorQ
  <2>1. procQ' = Append(procQ, r) /\ resp_errorQ' = resp_errorQ
    BY <1>4, <1>6, <1>7 DEF RequestMapping
  <2> QED
    BY <1>3, <2>1, OneIn
<1>9. NoStage' /\ blkScanReqCnt' = 0
  BY <1>1, <1>2 DEF NoStage, scanRegs
<1>10. r \in AllCmds /\ rest \in Seq(AllCmds)
  BY Commands, SeqMonotonic
<1>11. /\ AbsReqs = NormAll(reqQ) /\ AbsReqs' = <<Norm(r)>> \o NormAll(reqQ')
       /\ AbsMap' = AbsMap /\ AbsAnswers' = AbsAnswers /\ Carried'
  BY <1>1, <1>2, <1>3, <1>8, <1>9, <1>10, Quiet DEF tables
<1>12. AbsReqs' = AbsReqs
  <2>1. NormAll(<<r>> \o rest) = <<Norm(r)>> \o NormAll(rest)
    BY <1>10, NormOf
  <2> QED
    BY <1>1, <1>4, <1>5, <1>6, <1>11, <2>1
<1>13. blkinfo' = blkinfo /\ restoring' = restoring
  BY <1>1 DEF tables, host
<1> QED
  BY <1>8, <1>11, <1>12, <1>13, Silent

(* Where a command waits tells which it is.                                *)
LEMMA DestOf ==
  ASSUME NEW cmd \in {"AftlREAD", "AftlWRITE", "AftlERASE", "AftlMARKBAD"},
         NEW status \in {"ALLOCATED", "NOT_ALLOCATED", "DEAD"}
  PROVE  /\ Dest(cmd, status) # "error" =>
              /\ Dest(cmd, status) \in ProcNames /\ cmd = CmdOfProc(Dest(cmd, status))
              /\ Dest(cmd, status) = "MB" => status # "DEAD"
         /\ Dest(cmd, status) = "error" =>
              /\ cmd \in {"AftlREAD", "AftlERASE"} => status # "ALLOCATED"
              /\ cmd = "AftlMARKBAD" => status \notin {"ALLOCATED", "NOT_ALLOCATED"}
              /\ cmd = "AftlWRITE" => status \notin {"ALLOCATED", "NOT_ALLOCATED"}
<1>1. CASE status = "ALLOCATED"
  BY <1>1 DEF Dest, ProcNames, CmdOfProc
<1>2. CASE status = "NOT_ALLOCATED"
  BY <1>2 DEF Dest, ProcNames, CmdOfProc
<1>3. CASE status = "DEAD"
  BY <1>3 DEF Dest, ProcNames, CmdOfProc
<1> QED
  BY <1>1, <1>2, <1>3

(* and checkMapping0 shows a refusal or nothing.                           *)
LEMMA CheckMapping0Refines ==
  ASSUME IInv, IInv', CheckMapping0
  PROVE  Carried' /\ [FTL!Next]_FTL!vars
<1>0. Typed /\ Pipeline /\ ScanFits /\ InProgressExact /\ LookupFits
  BY DEF IInv, Pipeline, Stages
<1>1. /\ NotEmpty(procQ) /\ NotEmpty(mapResp) /\ procQ' = Tail(procQ) /\ inProgress
      /\ UNCHANGED <<tables, reqQ, procUpdateQs, respQ_pre, respQ, markBadDoneQ, scanRegs, host>>
  BY DEF CheckMapping0
<1>2. /\ NoStage /\ blkScanReqCnt = 0 /\ Len(procQ) = 1
      /\ respQ_pre = <<>> /\ respQ = <<>> /\ resp_errorQ = <<>> /\ markBadDoneQ = <<>>
  <2>1. NoStage /\ blkScanReqCnt = 0 /\ Len(procQ) + InAnswer = 1
    BY <1>0, <1>1, AtEnd DEF NoStage
  <2>2. Len(procQ) \in Nat /\ Len(procQ) > 0 /\ InAnswer \in Nat
    BY <1>0, <1>1, Lengths, AnswerCount DEF NotEmpty
  <2>3. Len(procQ) = 1 /\ InAnswer = 0
    BY <2>1, <2>2
  <2> QED
    <3>1. InAnswer = 0 =>
            respQ_pre = <<>> /\ respQ = <<>> /\ resp_errorQ = <<>> /\ markBadDoneQ = <<>>
      BY <1>0, AnswerCount, Zenon
    <3> QED
      BY <2>1, <2>3, <3>1
<1>3. PICK q \in Seq(Reqs) : q = procQ
  BY <1>0 DEF Typed
<1>4. PICK r \in Reqs : q = <<r>> /\ Head(q) = r /\ Tail(q) = <<>> /\ q[1] = r
  BY <1>2, <1>3, TailOfOne, OneElement
<1>5. PICK entry \in MapEntries : entry = Head(mapResp) /\ entry = blockmap[r.addr]
  <2>1. PICK m \in Seq(MapEntries) : m = mapResp
    BY <1>0 DEF Typed
  <2>2. Len(m) = 1 /\ m[1] = blockmap[r.addr]
    BY <1>0, <1>2, <1>3, <1>4, <2>1 DEF LookupFits
  <2> QED
    BY <2>1, <2>2, TailOfOne
<1>6. /\ r \in AllCmds /\ r.addr \in MapAddrs
      /\ r.cmd \in {"AftlREAD", "AftlWRITE", "AftlERASE", "AftlMARKBAD"}
      /\ r = [tag |-> r.tag, cmd |-> r.cmd, addr |-> r.addr, page |-> r.page]
  BY Commands, ReqsAssumption DEF IsFtlCmd
<1>7. entry.status \in {"ALLOCATED", "NOT_ALLOCATED", "DEAD"}
  BY DEF MapEntries
<1>8. /\ AbsReqs = <<Norm(r)>> \o NormAll(reqQ) /\ AbsMap = blockmap /\ AbsAnswers = <<>>
      /\ reqQ \in Seq(AllCmds) /\ NormAll(reqQ) \in Seq(AllCmds) /\ Norm(r) \in AllCmds
  <2>1. ShowsReqs /\ ShowsMap
    BY Both
  <2>2. AbsReqs = <<Norm(r)>> \o NormAll(reqQ)
    BY <1>2, <1>3, <1>4, <1>6, <2>1, Zenon DEF ShowsReqs
  <2>3. procUpdateQs[5] = <<>>
    BY <1>2 DEF NoStage
  <2>4. AbsMap = blockmap /\ AbsAnswers = respQ \o respQ_pre
    BY <2>1, <2>3 DEF ShowsMap
  <2>5. AbsAnswers = <<>>
    BY <1>2, <2>4
  <2> QED
    BY <1>0, <1>6, <2>2, <2>4, <2>5, PlacesTyped, NormOf
<1>9. PICK dest : dest = Dest(r.cmd, entry.status)
  OBVIOUS
<1>10. procQ' = <<>> /\ reqQ' = reqQ /\ restoring' = restoring /\ blkScanReqCnt' = 0
       /\ blockmap' = blockmap /\ blkinfo' = blkinfo /\ respQ' = <<>> /\ respQ_pre' = <<>>
       /\ procUpdateQs' = procUpdateQs
  BY <1>1, <1>2, <1>3, <1>4 DEF tables, scanRegs, host
<1>11. AbsMap' = AbsMap /\ AbsAnswers' = <<>>
  <2>1. ShowsMap'
    BY Both
  <2>2. procUpdateQs'[5] = <<>>
    BY <1>2, <1>10 DEF NoStage
  <2>3. AbsMap' = blockmap' /\ AbsAnswers' = respQ' \o respQ_pre'
    BY <2>1, <2>2 DEF ShowsMap
  <2> QED
    BY <1>8, <1>10, <2>3
<1>12. CASE dest = "error"
  <2>1. resp_errorQ' = <<r>> /\ procQs' = procQs
    <3>1. resp_errorQ' = Append(resp_errorQ, r) /\ procQs' = procQs
      BY <1>3, <1>4, <1>5, <1>9, <1>12 DEF CheckMapping0
    <3> QED
      BY <1>2, <3>1, OneIn
  <2>2. NoStage'
    BY <1>2, <1>10, <2>1 DEF NoStage
  <2>3. AbsReqs' = NormAll(reqQ) /\ Carried'
    BY <1>2, <1>10, <2>2, Quiet
  <2>4. NormAll(resp_errorQ') = <<Norm(r)>>
    BY <1>6, <2>1, NormOf, EmptySeq
  <2>5. Norm(r).cmd = r.cmd /\ Norm(r).addr = r.addr
    BY <1>6 DEF Norm, AllCmds
  <2>6. /\ r.cmd \in {"AftlREAD", "AftlERASE"} => entry.status # "ALLOCATED"
        /\ r.cmd = "AftlMARKBAD" => entry.status \notin {"ALLOCATED", "NOT_ALLOCATED"}
        /\ r.cmd = "AftlWRITE" => entry.status \notin {"ALLOCATED", "NOT_ALLOCATED"}
    BY <1>6, <1>7, <1>9, <1>12, DestOf
  <2>7. AbsMap[r.addr].status = entry.status
    BY <1>5, <1>8
  <2>8. [FTL!Next]_FTL!vars
    <3>1. PICK n \in AllCmds, rest \in Seq(AllCmds) : n = Norm(r) /\ rest = NormAll(reqQ)
      BY <1>8
    <3> QED
      BY <1>2, <1>8, <1>10, <1>11, <2>3, <2>4, <2>5, <2>6, <2>7, <3>1, Refusing
  <2> QED
    BY <2>3, <2>8
<1>13. CASE dest # "error"
  <2>1. PICK item : item = LPACmd(r, entry.block)
    OBVIOUS
  <2>2. dest \in ProcNames /\ r.cmd = CmdOfProc(dest) /\ (dest = "MB" => entry.status # "DEAD")
    BY <1>6, <1>7, <1>9, <1>13, DestOf
  <2>3. procQs' = [procQs EXCEPT ![dest] = Append(procQs[dest], item)] /\ resp_errorQ' = resp_errorQ
    BY <1>3, <1>4, <1>5, <1>9, <1>13, <2>1 DEF CheckMapping0
  <2>4. procQs \in [ProcNames -> Seq(Items)] /\ procQs' \in [ProcNames -> Seq(Items)]
    BY DEF IInv, Typed
  <2>5. procQs'[dest] = <<item>> /\ \A n \in ProcNames \ {dest} : procQs'[n] = <<>>
    BY <1>2, <2>2, <2>3, <2>4, OneIn DEF NoStage
  <2>6. item \in Items
    <3>1. PICK qi \in Seq(Items) : qi = procQs'[dest]
      BY <2>2, <2>4
    <3>2. Len(qi) = 1 /\ qi[1] = item
      BY <2>5, <3>1, OneIn
    <3> QED
      BY <3>1, <3>2, TailOfOne
  <2>7. Rest({dest}, {})'
    BY <1>1, <1>2, <1>10, <2>3, <2>5 DEF Rest, NoStage
  <2>8. AbsReqs' = <<CmdAt(dest, item)>> \o NormAll(reqQ)
    <3>1. ShowsReqs'
      BY Both
    <3> QED
      BY <1>10, <2>2, <2>5, <2>6, <2>7, <3>1 DEF ShowsReqs
  <2>9. ReqOf(CmdOfProc(dest), item) = r
    BY <1>6, <2>1, <2>2 DEF ReqOf, LPACmd
  <2>10. AbsReqs' = AbsReqs
    BY <1>8, <2>8, <2>9 DEF CmdAt
  <2>11. ItemCarries(dest, procQs[dest][1])'
    <3>1. procQs'[dest][1] = item
      BY <2>5, OneIn
    <3>2. item.cmd.op = FlashOp(r.cmd) /\ item.addr = r.addr
      BY <2>1 DEF LPACmd
    <3> QED
      BY <1>5, <1>10, <2>2, <3>1, <3>2 DEF ItemCarries
  <2>12. Carried'
    <3>1. CarriedHere'
      BY Both
    <3> QED
      BY <2>2, <2>7, <2>11, <3>1 DEF CarriedHere
  <2> QED
    BY <1>8, <1>10, <1>11, <2>3, <2>10, <2>12, Silent
<1> QED
  BY <1>12, <1>13

(* A mapped read or write is answered.                                     *)
LEMMA AnswerMappedRefines ==
  ASSUME IInv, IInv', Carried, NEW n \in {"R", "W"}, AnswerMapped(n)
  PROVE  Carried' /\ [FTL!Next]_FTL!vars
<1>1. /\ inProgress /\ NotEmpty(procQs[n]) /\ procQs' = [procQs EXCEPT ![n] = Tail(@)]
      /\ respQ' = Append(respQ, Head(procQs[n]).cmd)
      /\ UNCHANGED <<tables, mapResp, blkResp, reqQ, procQ, procUpdateQs, respQ_pre, resp_errorQ,
                     markBadDoneQ, scanRegs, host>>
  BY DEF AnswerMapped
<1>2. PICK item \in Items : item = Head(procQs[n])
  BY <1>1, HeadInItems DEF ProcNames
<1>3. /\ procQs[n] = <<item>> /\ ItemFits(item) /\ ItemCarries(n, item)
      /\ blockmap[item.addr].status = "ALLOCATED"
      /\ procQ = <<>> /\ Rest({n}, {}) /\ blkScanReqCnt = 0
      /\ \A m \in ProcNames : procQs'[m] = <<>>
  <2>1. n \in ProcNames
    BY DEF ProcNames
  <2>2. /\ Len(procQs[n]) = 1 /\ item = procQs[n][1] /\ ItemFits(item)
        /\ StatusFor(n, blockmap[item.addr].status)
        /\ procQ = <<>> /\ Rest({n}, {}) /\ blkScanReqCnt = 0
        /\ \A m \in ProcNames : procQs'[m] = <<>>
    BY <1>1, <1>2, <2>1, LeavesProc
  <2>3. procQs[n] = <<item>>
    <3>1. PICK q \in Seq(Items) : q = procQs[n]
      BY <2>1 DEF IInv, Typed
    <3> QED
      BY <2>2, <3>1, OneElement
  <2>4. ItemCarries(n, item)
    BY <2>1, <2>2 DEF Carried, ProcsCarry
  <2> QED
    BY <2>2, <2>3, <2>4 DEF StatusFor
<1>4. /\ respQ = <<>> /\ respQ_pre = <<>> /\ resp_errorQ = <<>>
      /\ \A m \in 0 .. 5 : procUpdateQs[m] = <<>>
  BY <1>3 DEF Rest
<1>5. /\ procQ' = <<>> /\ reqQ' = reqQ /\ restoring' = restoring /\ blkScanReqCnt' = 0
      /\ blockmap' = blockmap /\ blkinfo' = blkinfo /\ respQ' = <<item.cmd>> /\ respQ_pre' = <<>>
      /\ resp_errorQ' = <<>> /\ procUpdateQs' = procUpdateQs
  BY <1>1, <1>2, <1>3, <1>4, OneIn DEF tables, scanRegs, host
<1>6. NoStage'
  BY <1>3, <1>4, <1>5 DEF NoStage
<1>7. ShowsReqs /\ ShowsMap /\ ShowsReqs' /\ ShowsMap' /\ CarriedHere'
  BY Both
<1>8. AbsReqs = <<CmdAt(n, item)>> \o NormAll(reqQ) /\ AbsReqs' = NormAll(reqQ)
  <2>1. n \in ProcNames
    BY DEF ProcNames
  <2> QED
    BY <1>3, <1>5, <1>6, <1>7, <2>1 DEF ShowsReqs
<1>9. AbsMap = blockmap /\ AbsMap' = blockmap /\ AbsAnswers = <<>> /\ AbsAnswers' = <<item.cmd>>
  <2>1. AbsMap = blockmap /\ AbsAnswers = respQ \o respQ_pre
    BY <1>4, <1>7 DEF ShowsMap
  <2>2. AbsMap' = blockmap' /\ AbsAnswers' = respQ' \o respQ_pre'
    <3>1. procUpdateQs'[5] = <<>>
      BY <1>4, <1>5
    <3> QED
      BY <1>7, <3>1 DEF ShowsMap
  <2>3. PICK cmd : cmd = item.cmd
    OBVIOUS
  <2>4. <<cmd>> \o <<>> = <<cmd>> /\ <<>> \o <<>> = <<>>
    OBVIOUS
  <2> QED
    BY <1>4, <1>5, <2>1, <2>2, <2>3, <2>4
<1>10. PICK r \in AllCmds :
         /\ r = CmdAt(n, item) /\ r.cmd = CmdOfProc(n) /\ r.addr = item.addr
         /\ r.tag = item.cmd.tag /\ r.page = item.cmd.page
  <2>1. ReqOf(CmdOfProc(n), item) \in AllCmds
    BY OneOf DEF ProcNames
  <2>2. CmdOfProc(n) # "AftlERASE"
    BY DEF CmdOfProc
  <2> QED
    BY <2>1, <2>2 DEF CmdAt, Norm, ReqOf
<1>11. /\ r.cmd \in {"AftlREAD", "AftlWRITE"}
       /\ r.cmd = "AftlREAD" => item.cmd.op = "READ_PAGE"
       /\ r.cmd = "AftlWRITE" => item.cmd.op = "WRITE_PAGE"
  BY <1>3, <1>10 DEF CmdOfProc, ItemCarries, FlashOp
<1>12. item.cmd = [tag |-> r.tag, op |-> item.cmd.op, chip |-> ChipOf[r.addr],
                   block |-> AbsMap[r.addr].block, page |-> r.page]
  <2>1. item.cmd \in FlashCmds
    BY DEF Items
  <2> QED
    BY <1>3, <1>9, <1>10, <2>1 DEF FlashCmds, ItemFits
<1>13. [FTL!Next]_FTL!vars
  <2>1. PICK rest \in Seq(AllCmds) : rest = NormAll(reqQ)
    <3>1. Typed
      BY DEF IInv
    <3>2. reqQ \in Seq(AllCmds)
      BY <3>1, PlacesTyped
    <3> QED
      BY <3>2, NormQueue
  <2>2. PICK op, ans : op = item.cmd.op /\ ans = item.cmd
    OBVIOUS
  <2>3. AbsMap[r.addr].status = "ALLOCATED"
    BY <1>3, <1>9, <1>10
  <2>4. AbsMap' = AbsMap
    BY <1>9
  <2>5. AbsAnswers' = <<[tag |-> r.tag, op |-> op, chip |-> ChipOf[r.addr],
                         block |-> AbsMap[r.addr].block, page |-> r.page]>>
    BY <1>9, <1>12, <2>2
  <2> QED
    BY <1>4, <1>5, <1>8, <1>9, <1>10, <1>11, <2>1, <2>2, <2>3, <2>4, <2>5, Answering
<1>14. Carried'
  BY <1>6, <1>7 DEF CarriedHere
<1> QED
  BY <1>13, <1>14

(* The start of an update shows nothing.                                   *)
LEMMA StartUpdateRefines ==
  ASSUME IInv, IInv', Carried, NEW n \in {"MB", "E", "W_trig"}, NEW type \in 0 .. 2,
         NEW item \in Items, StartUpdate(n, type, item),
         NotEmpty(procQs[n]) =>
           item = IF n = "E" THEN [Head(procQs[n]) EXCEPT !.cmd.page = 0] ELSE Head(procQs[n]),
         n = "MB" => type = 0, n = "E" => type = 1, n = "W_trig" => type = 2
  PROVE  Carried' /\ [FTL!Next]_FTL!vars
<1>0. n \in ProcNames
  BY DEF ProcNames
<1>1. /\ inProgress /\ NotEmpty(procQs[n]) /\ procQs' = [procQs EXCEPT ![n] = Tail(@)]
      /\ procUpdateQs' = [procUpdateQs EXCEPT ![0] = Append(@, <<type, item>>)]
      /\ UNCHANGED <<tables, mapResp, blkResp, reqQ, procQ, outputs, scanRegs, host>>
  BY DEF StartUpdate
<1>2. PICK head \in Items : head = Head(procQs[n])
  BY <1>0, <1>1, HeadInItems
<1>3. /\ procQs[n] = <<head>> /\ ItemCarries(n, head)
      /\ procQ = <<>> /\ Rest({n}, {}) /\ blkScanReqCnt = 0
      /\ \A m \in ProcNames : procQs'[m] = <<>>
  <2>1. /\ Len(procQs[n]) = 1 /\ head = procQs[n][1]
        /\ procQ = <<>> /\ Rest({n}, {}) /\ blkScanReqCnt = 0
        /\ \A m \in ProcNames : procQs'[m] = <<>>
    BY <1>0, <1>1, <1>2, LeavesProc
  <2>2. procQs[n] = <<head>>
    <3>1. PICK q \in Seq(Items) : q = procQs[n]
      BY <1>0 DEF IInv, Typed
    <3> QED
      BY <2>1, <3>1, OneElement
  <2>3. ItemCarries(n, head)
    BY <1>0, <2>1 DEF Carried, ProcsCarry
  <2> QED
    BY <2>1, <2>2, <2>3
<1>4. PICK u \in UpdateCmds : u = <<type, item>> /\ u[1] = type /\ u[2] = item
  <2>1. PICK t, i : t = type /\ i = item
    OBVIOUS
  <2>2. <<t, i>> \in UpdateCmds /\ <<t, i>>[1] = t /\ <<t, i>>[2] = i
    BY <2>1 DEF UpdateCmds
  <2> QED
    BY <2>1, <2>2
<1>5. procUpdateQs'[0] = <<u>> /\ \A m \in (0 .. 5) \ {0} : procUpdateQs'[m] = <<>>
  <2>1. procUpdateQs \in [0 .. 5 -> Seq(UpdateCmds)] /\ \A m \in 0 .. 5 : procUpdateQs[m] = <<>>
    BY <1>3 DEF IInv, Typed, Rest
  <2>2. procUpdateQs' = [procUpdateQs EXCEPT ![0] = Append(procUpdateQs[0], u)]
    BY <1>1, <1>4
  <2>3. Append(<<>>, u) = <<u>>
    BY OneIn
  <2> QED
    BY <2>1, <2>2, <2>3
<1>6. /\ procQ' = <<>> /\ reqQ' = reqQ /\ restoring' = restoring /\ blkScanReqCnt' = 0
      /\ blockmap' = blockmap /\ blkinfo' = blkinfo /\ respQ' = respQ /\ respQ_pre' = respQ_pre
      /\ resp_errorQ' = resp_errorQ
  BY <1>1, <1>3 DEF tables, outputs, scanRegs, host
<1>7. Rest({}, {0})'
  BY <1>1, <1>3, <1>5 DEF Rest, outputs
<1>8. ShowsReqs /\ ShowsMap /\ ShowsReqs' /\ ShowsMap' /\ CarriedHere'
  BY Both
<1>9. AbsReqs = <<CmdAt(n, head)>> \o NormAll(reqQ)
  BY <1>0, <1>3, <1>8 DEF ShowsReqs
<1>10. AbsReqs' = <<CmdOf(u)>> \o NormAll(reqQ)
  BY <1>5, <1>6, <1>7, <1>8 DEF ShowsReqs
<1>11. CmdOf(u) = CmdAt(n, head) /\ UpdateCarries(u)'
  <2>1. head.cmd \in FlashCmds /\ head.addr \in MapAddrs
    BY DEF Items
  <2>2. CASE n = "MB"
    <3>1. type = 0 /\ item = head
      BY <1>1, <1>2, <2>2
    <3>2. CmdOfType(u[1]) = "AftlMARKBAD" /\ CmdOfProc(n) = "AftlMARKBAD"
      BY <1>4, <2>2, <3>1 DEF CmdOfType, CmdOfProc
    <3>3. blockmap[item.addr].status # "DEAD"
      BY <1>3, <2>2, <3>1 DEF ItemCarries
    <3> QED
      BY <1>4, <1>6, <3>1, <3>2, <3>3 DEF CmdOf, CmdAt, UpdateCarries
  <2>3. CASE n = "E"
    <3>1. type = 1 /\ item = [head EXCEPT !.cmd.page = 0]
      BY <1>1, <1>2, <2>3
    <3>2. CmdOfType(u[1]) = "AftlERASE" /\ CmdOfProc(n) = "AftlERASE"
      BY <1>4, <2>3, <3>1 DEF CmdOfType, CmdOfProc
    <3>3. /\ item.addr = head.addr /\ item.cmd.tag = head.cmd.tag /\ item.cmd.op = head.cmd.op
          /\ item.cmd.page = 0
      BY <2>1, <3>1 DEF Items, FlashCmds
    <3>4. Norm(ReqOf("AftlERASE", item)) = Norm(ReqOf("AftlERASE", head))
      BY <3>3 DEF Norm, ReqOf
    <3>5. item.cmd.op = "ERASE_BLOCK"
      BY <1>3, <3>2, <3>3 DEF ItemCarries, FlashOp
    <3>6. CmdOf(u) = CmdAt(n, head)
      BY <1>4, <3>2, <3>4 DEF CmdOf, CmdAt
    <3>7. u[1] = 1 /\ u[2].cmd.op = "ERASE_BLOCK" /\ u[2].cmd.page = 0
      BY <1>4, <3>1, <3>3, <3>5
    <3>8. UpdateCarries(u)'
      BY <3>7 DEF UpdateCarries
    <3> QED
      BY <3>6, <3>8
  <2>4. CASE n = "W_trig"
    <3>1. type = 2 /\ item = head
      BY <1>1, <1>2, <2>4
    <3>2. CmdOfType(u[1]) = "AftlWRITE" /\ CmdOfProc(n) = "AftlWRITE"
      BY <1>4, <2>4, <3>1 DEF CmdOfType, CmdOfProc
    <3>3. item.cmd.op = "WRITE_PAGE"
      BY <1>3, <3>1, <3>2 DEF ItemCarries, FlashOp
    <3> QED
      BY <1>4, <3>1, <3>2, <3>3 DEF CmdOf, CmdAt, UpdateCarries
  <2> QED
    BY <2>2, <2>3, <2>4
<1>12. AbsMap' = AbsMap /\ AbsAnswers' = AbsAnswers
  <2>1. procUpdateQs[5] = <<>> /\ procUpdateQs'[5] = <<>>
    BY <1>3, <1>5 DEF Rest
  <2> QED
    BY <1>6, <1>8, <2>1 DEF ShowsMap
<1>13. Carried'
  <2>1. Cur(0)' = u
    BY <1>5, OneIn DEF Cur
  <2> QED
    BY <1>7, <1>8, <1>11, <2>1 DEF CarriedHere
<1> QED
  BY <1>6, <1>9, <1>10, <1>11, <1>12, <1>13, Silent

-----------------------------------------------------------------------------
(* The update pipeline: nothing shows until its tables change.             *)

(* A move from stage to stage, of the same command.                        *)
LEMMA MoveShows ==
  ASSUME IInv, IInv', NEW n \in 0 .. 4, NotEmpty(procUpdateQs[n]), n > 1 \/ blkScanReqCnt = 0,
         NEW m \in 0 .. 4, m # n, NEW u \in UpdateCmds, CmdOf(u) = CmdOf(Cur(n)),
         Moves(n, m, u), blkScanReqCnt' = 0,
         UNCHANGED <<tables, mapResp, reqQ, procQ, procQs, outputs, host>>
  PROVE  /\ Rest({}, {m})' /\ Cur(m)' = u /\ (\A k \in (0 .. 5) \ {m} : ~At(k)')
         /\ [FTL!Next]_FTL!vars
<1>0. n \in 0 .. 5 /\ m \in 0 .. 5 /\ n # 5 /\ m # 5
  OBVIOUS
<1>1. /\ procQ = <<>> /\ Rest({}, {n}) /\ blkScanReqCnt = 0 /\ Cur(n) \in UpdateCmds
      /\ Len(procUpdateQs[n]) = 1 /\ procUpdateQs \in [0 .. 5 -> Seq(UpdateCmds)]
  BY <1>0, AtUpdate
<1>2. /\ procUpdateQs' \in [0 .. 5 -> Seq(UpdateCmds)] /\ Len(procUpdateQs'[m]) = 1
      /\ Cur(m)' = u /\ \A k \in (0 .. 5) \ {m} : procUpdateQs'[k] = <<>> /\ ~At(k)'
      /\ procQ' = <<>> /\ Rest({}, {m})'
  BY <1>0, MoveUpdate
<1>3. procUpdateQs[n] = <<Cur(n)>> /\ procUpdateQs'[m] = <<u>>
  <2>1. procUpdateQs[n] \in Seq(UpdateCmds) /\ procUpdateQs'[m] \in Seq(UpdateCmds)
    BY <1>0, <1>1, <1>2
  <2>2. procUpdateQs[n] = <<procUpdateQs[n][1]>> /\ procUpdateQs'[m] = <<procUpdateQs'[m][1]>>
    BY <1>1, <1>2, <2>1, OneElement
  <2> QED
    BY <1>2, <2>2 DEF Cur
<1>4. ShowsReqs /\ ShowsMap /\ ShowsReqs' /\ ShowsMap'
  BY Both
<1>5. AbsReqs = <<CmdOf(u)>> \o NormAll(reqQ)
  <2>1. PICK v \in UpdateCmds : v = Cur(n)
    BY <1>1
  <2> QED
    BY <1>1, <1>3, <1>4, <2>1, Zenon DEF ShowsReqs
<1>6. AbsReqs' = <<CmdOf(u)>> \o NormAll(reqQ')
  BY <1>2, <1>3, <1>4, Zenon DEF ShowsReqs
<1>7. AbsMap' = AbsMap /\ AbsAnswers' = AbsAnswers
  <2>1. procUpdateQs[5] = <<>> /\ procUpdateQs'[5] = <<>>
    BY <1>0, <1>1, <1>2 DEF Rest
  <2> QED
    BY <1>4, <2>1 DEF ShowsMap, tables, outputs
<1>8. blkinfo' = blkinfo /\ restoring' = restoring /\ resp_errorQ' = resp_errorQ
  BY DEF tables, host, outputs
<1>9. [FTL!Next]_FTL!vars
  BY <1>5, <1>6, <1>7, <1>8, Silent
<1> QED
  BY <1>2, <1>9

(* What an update carries stays while the map does.                        *)
LEMMA KeptUpdate ==
  ASSUME NEW u, UpdateCarries(u), blockmap' = blockmap
  PROVE  UpdateCarries(u)'
BY DEF UpdateCarries

(* updateBlkInfo0 of an erase or a bad block mark.                         *)
LEMMA UpdateBlkInfo0SkipRefines ==
  ASSUME IInv, IInv', Carried, UpdateBlkInfo0Skip
  PROVE  Carried' /\ [FTL!Next]_FTL!vars
<1>0. Typed /\ UpdatesFit /\ ScanFits
  BY DEF IInv, Pipeline, Stages
<1>1. /\ NotEmpty(procUpdateQs[0]) /\ Head(procUpdateQs[0])[1] <= 1
      /\ UNCHANGED <<tables, mapResp, reqQ, procQ, procQs, outputs, scanRegs, host>>
  BY DEF UpdateBlkInfo0Skip
<1>2. blkScanReqCnt = 0
  <2> SUFFICES ASSUME blkScanReqCnt # 0 PROVE FALSE
    OBVIOUS
  <2>1. At(0) /\ At(1) /\ Cur(0) = Cur(1) /\ Cur(1)[1] = 2
    BY <1>0 DEF ScanFits, UpdatesFit
  <2>2. Head(procUpdateQs[0]) = Cur(0)
    BY <1>0, <1>1 DEF Cur, Typed, NotEmpty
  <2> QED
    BY <1>1, <2>1, <2>2
<1>3. PICK u \in UpdateCmds : u = Cur(0) /\ u = Head(procUpdateQs[0]) /\ UpdateCarries(u)
  <2>1. Cur(0) \in UpdateCmds /\ Cur(0) = Head(procUpdateQs[0]) /\ At(0)
    BY <1>1, <1>2, AtUpdate
  <2> QED
    BY <2>1 DEF Carried, StagesCarry
<1>4. Moves(0, 3, u)
  BY <1>3 DEF Moves, UpdateBlkInfo0Skip
<1>5. blkScanReqCnt' = 0
  BY <1>1, <1>2 DEF scanRegs
<1>6. /\ Rest({}, {3})' /\ Cur(3)' = u /\ (\A k \in (0 .. 5) \ {3} : ~At(k)')
      /\ [FTL!Next]_FTL!vars
  BY <1>1, <1>2, <1>3, <1>4, <1>5, MoveShows
<1>7. u[1] # 2
  BY <1>1, <1>3
<1>8. Carried'
  <2>1. CarriedHere'
    BY Both
  <2>2. LeastInLanes' /\ LeastOfLanes'
    BY <1>6, <2>1, Zenon DEF CarriedHere
  <2>3. LeastPicked'
    <3>1. ~Allocating(3)' /\ ~Allocating(4)'
      BY <1>6, <1>7 DEF Allocating
    <3>2. \A n \in 3 .. 4 : n = 3 \/ n = 4
      OBVIOUS
    <3>3. \A n \in 3 .. 4 : ~Allocating(n)'
      BY <3>1, <3>2
    <3> QED
      BY <3>3 DEF LeastPicked
  <2>4. UpdateCarries(u)'
    BY <1>1, <1>3, KeptUpdate DEF tables
  <2>5. UpdateCarries(Cur(3))'
    BY <1>6, <2>4 DEF UpdateCarries
  <2> QED
    BY <1>6, <2>1, <2>2, <2>3, <2>5 DEF CarriedHere
<1> QED
  BY <1>6, <1>8

(* updateBlkInfo0 of an allocation.                                        *)
LEMMA UpdateBlkInfo0ScanRefines ==
  ASSUME IInv, IInv', Carried, UpdateBlkInfo0Scan
  PROVE  Carried' /\ [FTL!Next]_FTL!vars
<1>0. Typed /\ Stages /\ ScanFits
  BY DEF IInv, Pipeline, Stages
<1>1. /\ NotEmpty(procUpdateQs[0]) /\ Head(procUpdateQs[0])[1] > 1
      /\ UNCHANGED <<tables, mapResp, reqQ, procQ, procQs, outputs, blkScanRespCnt, curMinEnt,
                     host>>
  BY DEF UpdateBlkInfo0Scan
<1>2. PICK u \in UpdateCmds :
        /\ u = Cur(0) /\ Head(procUpdateQs[0]) = u /\ u[1] = 2 /\ procUpdateQs[0] = <<u>>
        /\ procUpdateQs[1] = IF blkScanReqCnt = 0 THEN <<>> ELSE <<u>>
        /\ \A m \in 2 .. 5 : procUpdateQs[m] = <<>>
        /\ procQ = <<>> /\ Rest({}, {0, 1}) /\ restoring = <<>>
  BY <1>1, BeforeScan
<1>3. /\ blkScanReqCnt \in 0 .. Words - 1 /\ Words - 1 > 0 /\ Words \in Nat
      /\ procUpdateQs \in [0 .. 5 -> Seq(UpdateCmds)]
  <2>1. Words \in Nat /\ Words - 1 > 0
    BY AFTLAssumption
  <2> QED
    BY <1>0, <2>1 DEF Typed
<1>4. /\ procUpdateQs'[0] = IF blkScanReqCnt = Words - 1 THEN <<>> ELSE <<u>>
      /\ procUpdateQs'[1] = <<u>> /\ \A m \in 2 .. 5 : procUpdateQs'[m] = <<>>
      /\ blkScanReqCnt' = IF blkScanReqCnt = Words - 1 THEN 0 ELSE blkScanReqCnt + 1
  <2>0. Append(<<>>, u) = <<u>> /\ Tail(<<u>>) = <<>>
    BY OneIn
  <2>1. CASE blkScanReqCnt = 0
    <3>1. procUpdateQs' = [procUpdateQs EXCEPT ![1] = Append(procUpdateQs[1], u)]
          /\ blkScanReqCnt' = blkScanReqCnt + 1
      BY <1>2, <1>3, <2>1 DEF UpdateBlkInfo0Scan
    <3>2. procUpdateQs' = [procUpdateQs EXCEPT ![1] = <<u>>]
      BY <1>2, <2>0, <2>1, <3>1
    <3> QED
      BY <1>2, <1>3, <2>1, <3>1, <3>2
  <2>2. CASE blkScanReqCnt = Words - 1
    <3>1. procUpdateQs' = [procUpdateQs EXCEPT ![0] = Tail(procUpdateQs[0])] /\ blkScanReqCnt' = 0
      BY <1>2, <1>3, <2>2 DEF UpdateBlkInfo0Scan
    <3>2. procUpdateQs' = [procUpdateQs EXCEPT ![0] = <<>>]
      BY <1>2, <2>0, <3>1
    <3> QED
      BY <1>2, <1>3, <2>2, <3>1, <3>2
  <2>3. CASE blkScanReqCnt \notin {0, Words - 1}
    <3>1. procUpdateQs' = procUpdateQs /\ blkScanReqCnt' = blkScanReqCnt + 1
      BY <2>3 DEF UpdateBlkInfo0Scan
    <3> QED
      BY <1>2, <1>3, <2>3, <3>1
  <2> QED
    BY <2>1, <2>2, <2>3
<1>5. procQ' = <<>> /\ Rest({}, {0, 1})'
  <2>1. \A m \in (0 .. 5) \ {0, 1} : procUpdateQs'[m] = <<>>
    BY <1>4
  <2> QED
    BY <1>1, <1>2, <2>1 DEF Rest, outputs
<1>6. ShowsReqs /\ ShowsMap /\ ShowsReqs' /\ ShowsMap' /\ CarriedHere'
  BY Both
<1>7. AbsReqs = <<CmdOf(u)>> \o NormAll(reqQ)
  <2>1. CASE blkScanReqCnt = 0
    <3>1. Rest({}, {0})
      BY <1>2, <2>1 DEF Rest
    <3> QED
      BY <1>2, <1>6, <2>1, <3>1 DEF ShowsReqs
  <2>2. CASE blkScanReqCnt # 0
    BY <1>2, <1>6, <2>2 DEF ShowsReqs
  <2> QED
    BY <2>1, <2>2
<1>8. AbsReqs' = <<CmdOf(u)>> \o NormAll(reqQ')
  <2>1. CASE blkScanReqCnt = Words - 1
    <3>1. Rest({}, {1})' /\ blkScanReqCnt' = 0
      BY <1>4, <1>5, <2>1 DEF Rest
    <3> QED
      BY <1>4, <1>5, <1>6, <3>1 DEF ShowsReqs
  <2>2. CASE blkScanReqCnt # Words - 1
    <3>1. blkScanReqCnt' # 0
      BY <1>3, <1>4, <2>2
    <3> QED
      BY <1>4, <1>5, <1>6, <3>1 DEF ShowsReqs
  <2> QED
    BY <2>1, <2>2
<1>9. AbsMap' = AbsMap /\ AbsAnswers' = AbsAnswers
  <2>1. procUpdateQs[5] = <<>> /\ procUpdateQs'[5] = <<>>
    BY <1>2, <1>4
  <2> QED
    BY <1>1, <1>6, <2>1 DEF ShowsMap, tables, outputs
<1>10. [FTL!Next]_FTL!vars
  <2>1. blkinfo' = blkinfo /\ restoring' = restoring /\ resp_errorQ' = resp_errorQ /\ reqQ' = reqQ
    BY <1>1 DEF tables, host, outputs
  <2> QED
    BY <1>7, <1>8, <1>9, <2>1, Silent
<1>11. Len(<<u>>) = 1 /\ <<u>>[1] = u /\ Len(<<>>) = 0
  BY OneIn, EmptySeq
<1>12. At(1)' /\ Cur(1)' = u /\ (At(0)' => Cur(0)' = u) /\ \A m \in 2 .. 5 : ~At(m)'
  <2>1. /\ Len(procUpdateQs'[1]) = 1 /\ procUpdateQs'[1][1] = u
        /\ \A m \in 2 .. 5 : Len(procUpdateQs'[m]) = 0
    BY <1>4, <1>11
  <2>2. Len(procUpdateQs'[0]) = 0 \/ procUpdateQs'[0][1] = u
    BY <1>4, <1>11
  <2> QED
    BY <2>1, <2>2 DEF At, Cur
<1>13. At(0) /\ Cur(0) = u /\ UpdateCarries(u)
  <2>1. At(0)
    BY <1>2, <1>11 DEF At
  <2> QED
    BY <1>2, <2>1 DEF Carried, StagesCarry
<1>14. LeastInLanes'
  <2> DEFINE c == u[2].cmd.chip
  <2>1. \A l \in LaneSet : Least(curMinEnt[l], c, InLane(l, blkScanRespCnt))
    <3>1. CASE blkScanReqCnt = 0
      <4>1. ~At(1)
        BY <1>2, <1>11, <3>1 DEF At
      <4>2. blkScanRespCnt = 0 /\ curMinEnt = [l \in LaneSet |-> Invalid]
        BY <1>0, <4>1 DEF ScanFits
      <4> QED
        BY <4>2, LaneBlocks DEF Least
    <3>2. CASE blkScanReqCnt # 0
      <4>1. At(1) /\ Cur(1) = u
        BY <1>2, <1>11, <3>2 DEF At, Cur
      <4> QED
        BY <4>1 DEF Carried, LeastInLanes
    <3> QED
      BY <3>1, <3>2
  <2>2. UNCHANGED <<blkinfo, curMinEnt, blkScanRespCnt>>
    BY <1>1 DEF tables
  <2> QED
    BY <1>12, <2>1, <2>2 DEF LeastInLanes, Least, IsFree, InLane
<1>15. LeastOfLanes' /\ LeastPicked'
  BY <1>12 DEF LeastOfLanes, LeastPicked, Allocating
<1>16. StagesCarry'
  <2>1. UpdateCarries(u)'
    BY <1>1, <1>13, KeptUpdate DEF tables
  <2>2. \A n \in 0 .. 5 : n = 0 \/ n = 1 \/ n \in 2 .. 5
    OBVIOUS
  <2>3. \A n \in 0 .. 5 : At(n)' => Cur(n)' = u
    BY <1>12, <2>2
  <2> QED
    BY <2>1, <2>3 DEF StagesCarry, UpdateCarries
<1>17. ProcsCarry'
  <2>1. \A n \in ProcNames : Len(procQs'[n]) = 0
    BY <1>5, EmptySeq DEF Rest
  <2> QED
    BY <2>1 DEF ProcsCarry
<1> QED
  BY <1>10, <1>14, <1>15, <1>16, <1>17 DEF Carried

(* updateBlkInfo1 collects one more line.                                  *)
LEMMA UpdateBlkInfo1Refines ==
  ASSUME IInv, IInv', Carried, UpdateBlkInfo1
  PROVE  Carried' /\ [FTL!Next]_FTL!vars
<1>0. Typed /\ Stages /\ ScanFits /\ ChoiceFits
  BY DEF IInv, Pipeline, Stages
<1>1. /\ NotEmpty(procUpdateQs[1]) /\ NotEmpty(blkResp)
      /\ UNCHANGED <<tables, mapResp, reqQ, procQ, procQs, outputs, blkScanReqCnt,
                     blkScanFinalCnt, minEnt, theMinEntry, minPeEntryQ, host>>
  BY DEF UpdateBlkInfo1
<1>u. PICK u, c, new : /\ u = Cur(1) /\ c = u[2].cmd.chip
                       /\ new = [l \in LaneSet |-> UpdateMinEntries(curMinEnt[l], Head(blkResp)[l],
                                                                    blkScanRespCnt * Lanes + l)]
  OBVIOUS
<1>2. /\ procQ = <<>> /\ Rest({}, {0, 1}) /\ At(1) /\ \A m \in 2 .. 5 : ~At(m) /\ procUpdateQs[m] = <<>>
      /\ procUpdateQs \in [0 .. 5 -> Seq(UpdateCmds)]
      /\ Head(procUpdateQs[1]) = u /\ u \in UpdateCmds /\ u[1] = 2
  BY <1>1, <1>u, WhileScanning
<1>3. /\ Words \in Nat /\ Words - 1 > 0 /\ blkScanRespCnt \in 0 .. Words - 1 /\ c \in Chips
      /\ blkScanReqCnt \in 0 .. Words - 1
      /\ blkResp \in Seq([LaneSet -> BlkEntries]) /\ Len(blkResp) \in Nat /\ Len(blkResp) > 0
  <2>1. Words \in Nat /\ Words - 1 > 0
    BY AFTLAssumption
  <2>2. c \in Chips
    BY <1>2, <1>u DEF UpdateCmds, Items, FlashCmds
  <2>3. blkResp \in Seq([LaneSet -> BlkEntries]) /\ blkResp # <<>>
    BY <1>0, <1>1 DEF Typed, NotEmpty
  <2>4. Len(blkResp) > 0 /\ Len(blkResp) \in Nat
    BY <2>3
  <2> QED
    BY <1>0, <2>1, <2>2, <2>3, <2>4 DEF Typed
<1>4. /\ blkScanRespCnt + Len(blkResp) = Requested
      /\ Head(blkResp) = Line(c, blkScanRespCnt)
      /\ \A l \in LaneSet : Least(curMinEnt[l], c, InLane(l, blkScanRespCnt))
  <2>1. /\ blkScanRespCnt + Len(blkResp) = Requested
        /\ \A i \in 1 .. Len(blkResp) : blkResp[i] = Line(c, blkScanRespCnt + i - 1)
    BY <1>0, <1>2, <1>u DEF ScanFits
  <2>2. Head(blkResp) = blkResp[1] /\ 1 \in 1 .. Len(blkResp) /\ blkScanRespCnt + 1 - 1 = blkScanRespCnt
    BY <1>3
  <2>3. \A l \in LaneSet : Least(curMinEnt[l], c, InLane(l, blkScanRespCnt))
    BY <1>2, <1>u DEF Carried, LeastInLanes
  <2> QED
    BY <2>1, <2>2, <2>3
<1>5. \A l \in LaneSet : Least(new[l], c, InLane(l, blkScanRespCnt + 1))
  <2> SUFFICES ASSUME NEW l \in LaneSet PROVE Least(new[l], c, InLane(l, blkScanRespCnt + 1))
    OBVIOUS
  <2>1. PICK b : b = blkScanRespCnt * Lanes + l
    OBVIOUS
  <2>2. b \in Blocks /\ Head(blkResp)[l] = blkinfo[c][b]
    BY <1>3, <1>4, <2>1, BlockOfALane DEF Line
  <2>3. new[l] = UpdateMinEntries(curMinEnt[l], blkinfo[c][b], b)
    BY <1>u, <2>1, <2>2
  <2>4. curMinEnt[l] \in MinEntries
    BY <1>0 DEF Typed
  <2>5. PICK B \in SUBSET Blocks : B = InLane(l, blkScanRespCnt)
    BY DEF InLane
  <2>6. Least(new[l], c, B \cup {b})
    <3>1. c \in Chips /\ Least(curMinEnt[l], c, B)
      BY <1>3, <1>4, <2>5
    <3>2. Least(UpdateMinEntries(curMinEnt[l], blkinfo[c][b], b), c, B \cup {b})
      BY <1>0, <2>2, <2>4, <3>1, LeastWithEntry
    <3> QED
      BY <2>3, <3>2
  <2>7. InLane(l, blkScanRespCnt + 1) = B \cup {b}
    <3>1. \A n \in 0 .. Words - 1 : InLane(l, n + 1) = InLane(l, n) \cup {n * Lanes + l}
      BY LaneBlocks, Zenon
    <3> QED
      BY <1>3, <2>1, <2>5, <3>1
  <2> QED
    BY <2>6, <2>7
<1>6. UpdateCarries(u)
  BY <1>2, <1>u DEF Carried, StagesCarry
<1>7. blkinfo' = blkinfo /\ blockmap' = blockmap
  BY <1>1 DEF tables
<1>8. CASE blkScanRespCnt = Words - 1
  <2>1. blkScanReqCnt = 0
    <3>1. PICK n : n = Len(blkResp)
      OBVIOUS
    <3>2. n \in Nat /\ n > 0 /\ Words - 1 + n = Requested
      BY <1>3, <1>4, <1>8, <3>1
    <3> QED
      BY <1>3, <3>2 DEF Requested
  <2>2. minEntVecQ' = Append(minEntVecQ, new) /\ Moves(1, 2, u)
    BY <1>2, <1>8, <1>u DEF UpdateBlkInfo1, Moves
  <2>3. /\ Rest({}, {2})' /\ Cur(2)' = u /\ (\A k \in (0 .. 5) \ {2} : ~At(k)')
        /\ [FTL!Next]_FTL!vars
    BY <1>1, <1>2, <1>u, <2>1, <2>2, MoveShows
  <2>4. minEntVecQ' = <<new>> /\ blkScanFinalCnt' = 0 /\ theMinEntry' = Invalid
    <3>1. minEntVecQ = <<>> /\ blkScanFinalCnt = 0 /\ theMinEntry = Invalid
      BY <1>0, <1>2 DEF ChoiceFits
    <3> QED
      BY <1>1, <2>2, <3>1, OneIn
  <2>5. LeastOfLanes'
    <3>1. minEntVecQ'[1] = new
      BY <2>4, OneIn
    <3>2. \A l \in LaneSet : Least(new[l], c, InLane(l, Words))
      <4>1. blkScanRespCnt + 1 = Words
        BY <1>3, <1>8
      <4> QED
        BY <1>5, <4>1
    <3>3. \A l \in LaneSet : Least(new[l], c, InLane(l, Words))'
      BY <1>7, <3>2 DEF Least, IsFree
    <3>4. InLanes(0) = {}
      BY LaneBlocks
    <3>5. Least(theMinEntry, c, InLanes(0))'
      BY <2>4, <3>4 DEF Least
    <3>6. Cur(2)'[2].cmd.chip = c
      BY <1>u, <2>3
    <3> QED
      BY <2>4, <3>1, <3>3, <3>5, <3>6 DEF LeastOfLanes, Least, IsFree
  <2>6. Carried'
    <3>1. CarriedHere'
      BY Both
    <3>2. LeastInLanes' /\ LeastPicked'
      BY <2>3, <3>1, Zenon DEF CarriedHere
    <3>3. UpdateCarries(Cur(2))'
      BY <1>6, <1>7, <2>3 DEF UpdateCarries
    <3> QED
      BY <2>3, <2>5, <3>1, <3>2, <3>3 DEF CarriedHere
  <2> QED
    BY <2>3, <2>6
<1>9. CASE blkScanRespCnt # Words - 1
  <2>1. /\ blkScanRespCnt' = blkScanRespCnt + 1 /\ curMinEnt' = new
        /\ UNCHANGED <<minEntVecQ, procUpdateQs>>
    BY <1>9, <1>u DEF UpdateBlkInfo1
  <2>2. /\ UNCHANGED <<blockmap, blkinfo, reqQ, procQ, procQs, procUpdateQs, blkScanReqCnt>>
        /\ UNCHANGED <<respQ_pre, respQ, resp_errorQ, restoring>>
        /\ UNCHANGED <<blkScanFinalCnt, minEntVecQ, minEnt, theMinEntry, minPeEntryQ>>
    BY <1>1, <2>1 DEF tables, outputs, host
  <2>3. AbsReqs' = AbsReqs /\ AbsMap' = AbsMap /\ AbsAnswers' = AbsAnswers
    <3>1. AbsReqs' = AbsReqs
      BY <2>2 DEF AbsReqs
    <3>2. AbsMap' = AbsMap
      BY <2>2 DEF AbsMap, MapPending
    <3>3. AbsAnswers' = AbsAnswers
      BY <2>2 DEF AbsAnswers
    <3> QED
      BY <3>1, <3>2, <3>3
  <2>4. [FTL!Next]_FTL!vars
    BY <2>2, <2>3, Silent
  <2>5. ProcsCarry'
    BY <2>2 DEF Carried, ProcsCarry, ItemCarries
  <2>6. StagesCarry'
    BY <2>2 DEF Carried, StagesCarry, UpdateCarries, Cur, At
  <2>7. LeastInLanes'
    <3>2. Cur(1)'[2].cmd.chip = c
      BY <1>u, <2>1 DEF Cur
    <3>3. \A l \in LaneSet : Least(curMinEnt[l], c, InLane(l, blkScanRespCnt))'
      BY <1>5, <1>7, <2>1 DEF Least, IsFree, InLane
    <3> QED
      BY <3>2, <3>3 DEF LeastInLanes, Least, IsFree, InLane
  <2>8. LeastOfLanes'
    BY <2>2 DEF Carried, LeastOfLanes, Least, IsFree, Cur, At
  <2>9. LeastPicked'
    BY <2>2 DEF Carried, LeastPicked, Allocating, Least, IsFree, Cur, At
  <2> QED
    BY <2>4, <2>5, <2>6, <2>7, <2>8, <2>9 DEF Carried
<1> QED
  BY <1>8, <1>9

(* updateBlkInfo2 compares one more lane.                                  *)
LEMMA UpdateBlkInfo2StepRefines ==
  ASSUME IInv, IInv', Carried, UpdateBlkInfo2Step
  PROVE  Carried' /\ [FTL!Next]_FTL!vars
<1>0. Typed /\ Stages /\ ScanFits /\ ChoiceFits
  BY DEF IInv, Pipeline, Stages
<1>1. /\ NotEmpty(procUpdateQs[2]) /\ blkScanFinalCnt # Lanes - 1
      /\ blkScanFinalCnt' = blkScanFinalCnt + 1
      /\ UNCHANGED <<tables, mapResp, blkResp, reqQ, procQ, procQs, procUpdateQs, outputs,
                     blkScanReqCnt, blkScanRespCnt, curMinEnt, minPeEntryQ, host>>
  BY DEF UpdateBlkInfo2Step
<1>2. /\ UNCHANGED <<blockmap, blkinfo, reqQ, procQ, procQs, procUpdateQs, blkScanReqCnt>>
      /\ UNCHANGED <<respQ_pre, respQ, resp_errorQ, restoring>>
      /\ UNCHANGED <<blkScanRespCnt, curMinEnt, minPeEntryQ>>
  BY <1>1 DEF tables, outputs, host
<1>3. PICK c \in Chips : c = Cur(2)[2].cmd.chip
  <2>1. Cur(2) \in UpdateCmds
    BY <1>1, AtUpdate
  <2> QED
    BY <2>1 DEF UpdateCmds, Items, FlashCmds
<1>4. At(2) /\ blkScanFinalCnt \in 0 .. Lanes - 1 /\ Lanes \in Nat \ {0, 1}
  BY <1>0, <1>1, AtUpdate, AFTLAssumption DEF Typed
<1>5. PICK v : /\ v \in [LaneSet -> MinEntries]
               /\ \A l \in LaneSet : l + blkScanFinalCnt \in LaneSet =>
                    Least(v[l], c, InLane(l + blkScanFinalCnt, Words))
               /\ minEnt' = Rotate(v) /\ theMinEntry' = GetMinEntries(theMinEntry, v[0])
  <2>1. CASE blkScanFinalCnt = 0
    <3>1. minEntVecQ \in Seq([LaneSet -> MinEntries])
      BY <1>0 DEF Typed
    <3>2. Len(minEntVecQ) = 1 /\ \A l \in LaneSet : Least(minEntVecQ[1][l], c, InLane(l, Words))
      BY <1>0, <1>3, <1>4, <2>1 DEF ChoiceFits, Carried, LeastOfLanes
    <3>3. Head(minEntVecQ) = minEntVecQ[1] /\ minEntVecQ[1] \in [LaneSet -> MinEntries]
      BY <3>1, <3>2, TailOfOne
    <3>4. /\ minEnt' = Rotate(Head(minEntVecQ))
          /\ theMinEntry' = GetMinEntries(theMinEntry, Head(minEntVecQ)[0])
      BY <2>1 DEF UpdateBlkInfo2Step
    <3>5. \A l \in LaneSet : l + blkScanFinalCnt = l
      BY <2>1 DEF LaneSet
    <3> QED
      BY <3>2, <3>3, <3>4, <3>5
  <2>2. CASE blkScanFinalCnt # 0
    <3>1. \A l \in LaneSet : l + blkScanFinalCnt \in LaneSet =>
            Least(minEnt[l], c, InLane(l + blkScanFinalCnt, Words))
      BY <1>3, <1>4, <2>2 DEF Carried, LeastOfLanes
    <3>2. minEnt' = Rotate(minEnt) /\ theMinEntry' = GetMinEntries(theMinEntry, minEnt[0])
      BY <2>2 DEF UpdateBlkInfo2Step
    <3>3. minEnt \in [LaneSet -> MinEntries]
      BY <1>0 DEF Typed
    <3> QED
      BY <3>1, <3>2, <3>3
  <2> QED
    BY <2>1, <2>2
<1>6. Least(theMinEntry', c, InLanes(blkScanFinalCnt + 1))
  <2>1. 0 \in LaneSet /\ blkScanFinalCnt \in LaneSet /\ 0 + blkScanFinalCnt = blkScanFinalCnt
        /\ blkScanFinalCnt \in 0 .. Lanes
    BY <1>4 DEF LaneSet
  <2>2. Least(v[0], c, InLane(blkScanFinalCnt, Words)) /\ v[0] \in MinEntries
    BY <1>5, <2>1
  <2>3. Least(theMinEntry, c, InLanes(blkScanFinalCnt)) /\ theMinEntry \in MinEntries
    BY <1>0, <1>3, <1>4 DEF Carried, LeastOfLanes, Typed
  <2>4. PICK A \in SUBSET Blocks, B \in SUBSET Blocks :
          A = InLanes(blkScanFinalCnt) /\ B = InLane(blkScanFinalCnt, Words)
    BY DEF InLanes, InLane
  <2>5. Least(GetMinEntries(theMinEntry, v[0]), c, A \cup B)
    BY <1>0, <2>2, <2>3, <2>4, LeastOfTwo
  <2>6. InLanes(blkScanFinalCnt + 1) = A \cup B
    BY <2>1, <2>4, LaneBlocks
  <2> QED
    BY <1>5, <2>5, <2>6
<1>7. ASSUME NEW l \in LaneSet, l + (blkScanFinalCnt + 1) \in LaneSet
      PROVE  Least(minEnt'[l], c, InLane(l + (blkScanFinalCnt + 1), Words))
  <2>1. l + 1 \in LaneSet /\ (l + 1) + blkScanFinalCnt = l + (blkScanFinalCnt + 1)
    BY <1>4, <1>7 DEF LaneSet
  <2>2. (l + 1) % Lanes = l + 1
    BY <1>4, <2>1 DEF LaneSet
  <2>3. minEnt'[l] = v[l + 1]
    BY <1>5, <2>2 DEF Rotate
  <2> QED
    BY <1>5, <1>7, <2>1, <2>3
<1>8. AbsReqs' = AbsReqs /\ AbsMap' = AbsMap /\ AbsAnswers' = AbsAnswers
  <2>1. AbsReqs' = AbsReqs
    BY <1>2 DEF AbsReqs
  <2>2. AbsMap' = AbsMap
    BY <1>2 DEF AbsMap, MapPending
  <2>3. AbsAnswers' = AbsAnswers
    BY <1>2 DEF AbsAnswers
  <2> QED
    BY <2>1, <2>2, <2>3
<1>9. [FTL!Next]_FTL!vars
  BY <1>2, <1>8, Silent
<1>10. LeastOfLanes'
  <2>1. Cur(2)'[2].cmd.chip = c
    BY <1>2, <1>3 DEF Cur
  <2>2. blkScanFinalCnt' # 0
    BY <1>1, <1>4
  <2>3. Least(theMinEntry, c, InLanes(blkScanFinalCnt))'
    BY <1>1, <1>2, <1>6 DEF Least, IsFree, InLanes
  <2>4. \A l \in LaneSet : l + blkScanFinalCnt' \in LaneSet =>
          Least(minEnt[l], c, InLane(l + blkScanFinalCnt, Words))'
    BY <1>1, <1>2, <1>7 DEF Least, IsFree, InLane
  <2> QED
    BY <2>1, <2>2, <2>3, <2>4 DEF LeastOfLanes, Least, IsFree, InLane, InLanes
<1>11. ProcsCarry' /\ StagesCarry'
  BY <1>2 DEF Carried, ProcsCarry, ItemCarries, StagesCarry, UpdateCarries, Cur, At
<1>12. LeastInLanes' /\ LeastPicked'
  BY <1>2 DEF Carried, LeastInLanes, LeastPicked, Allocating, Least, IsFree, InLane, Cur, At
<1> QED
  BY <1>9, <1>10, <1>11, <1>12 DEF Carried

(* The blocks taken together are all of the chip.                          *)
LEMMA FinalLeast ==
  ASSUME IInv, Carried, NotEmpty(procUpdateQs[2]), blkScanFinalCnt = Lanes - 1
  PROVE  Least(GetMinEntries(theMinEntry, minEnt[0]), Cur(2)[2].cmd.chip, Blocks)
<1>0. Typed
  BY DEF IInv
<1>1. At(2) /\ Lanes \in Nat \ {0, 1}
  BY AtUpdate, AFTLAssumption
<1>2. PICK c \in Chips : c = Cur(2)[2].cmd.chip
  <2>1. Cur(2) \in UpdateCmds
    BY AtUpdate
  <2> QED
    BY <2>1 DEF UpdateCmds, Items, FlashCmds
<1>3. /\ Lanes - 1 # 0 /\ 0 \in LaneSet /\ Lanes - 1 \in LaneSet /\ 0 + (Lanes - 1) = Lanes - 1
      /\ (Lanes - 1) + 1 = Lanes /\ Lanes - 1 \in 0 .. Lanes
  BY <1>1 DEF LaneSet
<1>4. Least(theMinEntry, c, InLanes(Lanes - 1)) /\ Least(minEnt[0], c, InLane(Lanes - 1, Words))
  <2>1. /\ Least(theMinEntry, c, InLanes(blkScanFinalCnt))
        /\ \A l \in LaneSet : l + blkScanFinalCnt \in LaneSet =>
             Least(minEnt[l], c, InLane(l + blkScanFinalCnt, Words))
    BY <1>1, <1>2, <1>3 DEF Carried, LeastOfLanes
  <2> QED
    BY <1>3, <2>1
<1>5. theMinEntry \in MinEntries /\ minEnt[0] \in MinEntries
  BY <1>0, <1>3 DEF Typed
<1>6. PICK A \in SUBSET Blocks, B \in SUBSET Blocks :
        A = InLanes(Lanes - 1) /\ B = InLane(Lanes - 1, Words)
  BY DEF InLanes, InLane
<1>7. A \cup B = Blocks
  <2>1. InLanes((Lanes - 1) + 1) = A \cup B
    BY <1>3, <1>6, LaneBlocks
  <2> QED
    BY <1>3, <2>1, LaneBlocks
<1> QED
  BY <1>0, <1>2, <1>4, <1>5, <1>6, <1>7, LeastOfTwo

(* updateBlkInfo2 at its last lane: a free block of the least erased is    *)
(* picked, or there is none and the write is refused.                      *)
LEMMA UpdateBlkInfo2FinalRefines ==
  ASSUME IInv, IInv', Carried, UpdateBlkInfo2Final
  PROVE  Carried' /\ [FTL!Next]_FTL!vars
<1>0. Typed /\ Stages /\ ChoiceFits /\ PickFits /\ UpdatesFit
  BY DEF IInv, Pipeline, Stages
<1>1. /\ NotEmpty(procUpdateQs[2]) /\ blkScanFinalCnt = Lanes - 1
      /\ UNCHANGED <<tables, mapResp, reqQ, procQ, procQs, respQ_pre, respQ, markBadDoneQ,
                     blkScanReqCnt, host>>
  BY DEF UpdateBlkInfo2Final
<1>2. PICK u \in UpdateCmds :
        /\ u = Cur(2) /\ Head(procUpdateQs[2]) = u /\ UpdateFits(u) /\ u[1] = 2
        /\ procQ = <<>> /\ Rest({}, {2}) /\ blkScanReqCnt = 0 /\ restoring = <<>>
        /\ procUpdateQs[2] = <<u>> /\ Tail(procUpdateQs[2]) = <<>> /\ At(2)
        /\ \A m \in (0 .. 5) \ {2} : ~At(m)
  <2>1. /\ Cur(2) \in UpdateCmds /\ Head(procUpdateQs[2]) = Cur(2) /\ UpdateFits(Cur(2))
        /\ procQ = <<>> /\ Rest({}, {2}) /\ blkScanReqCnt = 0 /\ restoring = <<>>
        /\ Tail(procUpdateQs[2]) = <<>> /\ At(2) /\ Len(procUpdateQs[2]) = 1
        /\ procUpdateQs \in [0 .. 5 -> Seq(UpdateCmds)] /\ \A m \in (0 .. 5) \ {2} : ~At(m)
    BY <1>1, AtUpdate
  <2>2. Cur(2)[1] = 2
    BY <1>0, <2>1 DEF UpdatesFit
  <2>3. procUpdateQs[2] = <<Cur(2)>>
    <3>1. PICK q \in Seq(UpdateCmds) : q = procUpdateQs[2]
      BY <2>1
    <3> QED
      BY <2>1, <3>1, OneElement DEF Cur
  <2> QED
    BY <2>1, <2>2, <2>3
<1>3. PICK f : /\ f = GetMinEntries(theMinEntry, minEnt[0])
               /\ Least(f, u[2].cmd.chip, Blocks)
  BY <1>1, <1>2, FinalLeast
<1>4. /\ respQ = <<>> /\ respQ_pre = <<>> /\ resp_errorQ = <<>> /\ minPeEntryQ = <<>>
      /\ \A m \in (0 .. 5) \ {2} : procUpdateQs[m] = <<>>
      /\ \A n \in ProcNames : procQs[n] = <<>>
  BY <1>0, <1>2 DEF Rest, PickFits, Allocating
<1>5. UpdateCarries(u)
  BY <1>2 DEF Carried, StagesCarry
<1>6. blkinfo' = blkinfo /\ blockmap' = blockmap /\ restoring' = restoring
  BY <1>1 DEF tables, host
<1>7. CASE f # Invalid
  <2>1. /\ minPeEntryQ' = Append(minPeEntryQ, f) /\ UNCHANGED resp_errorQ
        /\ Moves(2, 3, Head(procUpdateQs[2]))
    <3>1. GetMinEntries(theMinEntry, minEnt[0]) # Invalid
      BY <1>3, <1>7
    <3> QED
      BY <3>1, <1>3, Zenon DEF UpdateBlkInfo2Final, Moves
  <2>2. Moves(2, 3, u) /\ UNCHANGED outputs /\ blkScanReqCnt' = 0
    BY <1>1, <1>2, <2>1 DEF outputs
  <2>3. /\ Rest({}, {3})' /\ Cur(3)' = u /\ (\A k \in (0 .. 5) \ {3} : ~At(k)')
        /\ [FTL!Next]_FTL!vars
    BY <1>1, <1>2, <2>2, MoveShows
  <2>4. LeastPicked'
    <3>1. minPeEntryQ'[1] = f
      BY <1>4, <2>1, OneIn
    <3>2. Least(f, u[2].cmd.chip, Blocks)'
      BY <1>3, <1>6 DEF Least, IsFree
    <3>3. \A n \in 3 .. 4 : Allocating(n)' => n = 3
      <4>1. ~Allocating(4)'
        BY <2>3 DEF Allocating
      <4>2. \A n \in 3 .. 4 : n = 3 \/ n = 4
        OBVIOUS
      <4> QED
        BY <4>1, <4>2
    <3> QED
      BY <2>3, <3>1, <3>2, <3>3 DEF LeastPicked, Least, IsFree
  <2>5. Carried'
    <3>1. CarriedHere'
      BY Both
    <3>2. LeastInLanes' /\ LeastOfLanes'
      BY <2>3, <3>1, Zenon DEF CarriedHere
    <3>3. UpdateCarries(Cur(3))'
      BY <1>5, <1>6, <2>3 DEF UpdateCarries
    <3> QED
      BY <2>3, <2>4, <3>1, <3>2, <3>3 DEF CarriedHere
  <2> QED
    BY <2>3, <2>5
<1>8. CASE f = Invalid
  <2>1. PICK r \in AllCmds :
          /\ r = CmdOf(u) /\ r.cmd = "AftlWRITE" /\ r.addr = u[2].addr /\ Norm(r) = r
          /\ r = [tag |-> u[2].cmd.tag, cmd |-> "AftlWRITE", addr |-> u[2].addr,
                  page |-> u[2].cmd.page]
    <3>1. ReqOf(CmdOfType(u[1]), u[2]) \in AllCmds
      BY OneOf
    <3>2. CmdOfType(u[1]) = "AftlWRITE"
      BY <1>2 DEF CmdOfType
    <3>3. ReqOf("AftlWRITE", u[2]) = [tag |-> u[2].cmd.tag, cmd |-> "AftlWRITE",
                                      addr |-> u[2].addr, page |-> u[2].cmd.page]
      BY DEF ReqOf
    <3>4. CmdOf(u) = ReqOf("AftlWRITE", u[2])
      BY <3>2, <3>3 DEF CmdOf, Norm
    <3> QED
      BY <3>1, <3>2, <3>3, <3>4 DEF Norm
  <2>2. resp_errorQ' = Append(resp_errorQ, r) /\ procUpdateQs' = [procUpdateQs EXCEPT ![2] = Tail(@)]
    BY <1>2, <1>3, <1>8, <2>1 DEF UpdateBlkInfo2Final
  <2>3. resp_errorQ' = <<r>>
    BY <1>4, <2>2, OneIn
  <2>4. \A k \in 0 .. 5 : procUpdateQs'[k] = <<>>
    <3>1. procUpdateQs \in [0 .. 5 -> Seq(UpdateCmds)]
      BY <1>0 DEF Typed
    <3>2. \A k \in 0 .. 5 : procUpdateQs'[k] = IF k = 2 THEN Tail(procUpdateQs[2]) ELSE procUpdateQs[k]
      BY <2>2, <3>1
    <3> QED
      BY <1>2, <1>4, <3>2
  <2>5. NoStage' /\ procQ' = <<>> /\ blkScanReqCnt' = 0
    BY <1>1, <1>2, <1>4, <2>4 DEF NoStage
  <2>6. ShowsReqs /\ ShowsMap /\ ShowsReqs' /\ ShowsMap' /\ CarriedHere'
    BY Both
  <2>7. AbsReqs = <<r>> \o NormAll(reqQ) /\ AbsReqs' = NormAll(reqQ)
    <3>1. AbsReqs = <<CmdOf(u)>> \o NormAll(reqQ)
      BY <1>2, <2>6 DEF ShowsReqs
    <3>2. AbsReqs' = NormAll(reqQ')
      BY <2>5, <2>6, Zenon DEF ShowsReqs
    <3> QED
      BY <1>1, <2>1, <3>1, <3>2
  <2>8. AbsMap = blockmap /\ AbsMap' = blockmap /\ AbsAnswers = <<>> /\ AbsAnswers' = <<>>
    <3>1. procUpdateQs[5] = <<>> /\ procUpdateQs'[5] = <<>>
      BY <1>4, <2>4
    <3>2. AbsMap = blockmap /\ AbsAnswers = respQ \o respQ_pre
      BY <2>6, <3>1 DEF ShowsMap
    <3>3. AbsMap' = blockmap' /\ AbsAnswers' = respQ' \o respQ_pre'
      BY <2>6, <3>1 DEF ShowsMap
    <3>4. <<>> \o <<>> = <<>>
      OBVIOUS
    <3> QED
      BY <1>1, <1>4, <1>6, <3>2, <3>3, <3>4
  <2>9. [FTL!Next]_FTL!vars
    <3>1. PICK rest \in Seq(AllCmds) : rest = NormAll(reqQ)
      <4>1. reqQ \in Seq(AllCmds)
        BY <1>0, PlacesTyped
      <4> QED
        BY <4>1, NormQueue
    <3>2. NormAll(resp_errorQ') = <<r>>
      BY <2>1, <2>3, NormOf, <3>1
    <3>3. /\ AbsMap[r.addr].status = "NOT_ALLOCATED" /\ u[2].cmd.chip = ChipOf[r.addr]
      BY <1>2, <2>1, <2>8 DEF UpdateFits
    <3>4. \A b \in Blocks : blkinfo[ChipOf[r.addr]][b].status # "FREE_BLK"
      BY <1>3, <1>8, <3>3 DEF Least, IsFree
    <3> QED
      BY <1>4, <1>6, <2>1, <2>7, <2>8, <3>1, <3>2, <3>3, <3>4, Refusing
  <2>10. Carried'
    BY <2>5, <2>6 DEF CarriedHere
  <2> QED
    BY <2>9, <2>10
<1> QED
  BY <1>7, <1>8

(* updateBlkInfo3 gives the picked block to an allocation.                 *)
LEMMA UpdateBlkInfo3Refines ==
  ASSUME IInv, IInv', Carried, UpdateBlkInfo3
  PROVE  Carried' /\ [FTL!Next]_FTL!vars
<1>0. Typed /\ Stages /\ PickFits
  BY DEF IInv, Pipeline, Stages
<1>1. /\ NotEmpty(procUpdateQs[3])
      /\ UNCHANGED <<tables, mapResp, reqQ, procQ, procQs, outputs, scanRegs, host>>
  BY DEF UpdateBlkInfo3
<1>2. PICK u \in UpdateCmds :
        u = Cur(3) /\ Head(procUpdateQs[3]) = u /\ At(3) /\ blkScanReqCnt = 0
  BY <1>1, AtUpdate
<1>3. u[1] \in 0 .. 2 /\ u[2] \in Items /\ u[2].cmd \in FlashCmds /\ u[2].cmd.block \in Blocks
  BY DEF UpdateCmds, Items, FlashCmds
<1>4. PICK block, v :
        /\ block = IF u[1] > 1 THEN Head(minPeEntryQ)[1] ELSE u[2].cmd.block
        /\ v = <<u[1], [addr |-> u[2].addr, cmd |-> [u[2].cmd EXCEPT !.block = block]]>>
  OBVIOUS
<1>5. block \in Blocks
  <2>1. CASE u[1] = 2
    <3>1. Len(minPeEntryQ) = 1 /\ minPeEntryQ \in Seq(Blocks \X (0 .. EraseMod - 1))
      BY <1>0, <1>2, <2>1 DEF PickFits, Allocating, Typed
    <3>2. Head(minPeEntryQ) = minPeEntryQ[1] /\ minPeEntryQ[1] \in Blocks \X (0 .. EraseMod - 1)
      BY <3>1, TailOfOne
    <3> QED
      BY <1>4, <2>1, <3>2
  <2>2. CASE u[1] # 2
    BY <1>3, <1>4, <2>2
  <2> QED
    BY <2>1, <2>2
<1>6. /\ v \in UpdateCmds /\ v[1] = u[1] /\ v[2].addr = u[2].addr /\ v[2].cmd.chip = u[2].cmd.chip
      /\ v[2].cmd.tag = u[2].cmd.tag /\ v[2].cmd.op = u[2].cmd.op /\ v[2].cmd.page = u[2].cmd.page
      /\ v[2].cmd = [u[2].cmd EXCEPT !.block = block]
  <2>1. PICK cmd : cmd = [u[2].cmd EXCEPT !.block = block]
    OBVIOUS
  <2>2. /\ cmd \in FlashCmds /\ cmd.chip = u[2].cmd.chip /\ cmd.tag = u[2].cmd.tag
        /\ cmd.op = u[2].cmd.op /\ cmd.page = u[2].cmd.page
    BY <1>3, <1>5, <2>1 DEF FlashCmds
  <2>3. PICK t, i : t = u[1] /\ i = [addr |-> u[2].addr, cmd |-> cmd]
    OBVIOUS
  <2>4. v = <<t, i>> /\ t \in 0 .. 2 /\ i \in Items /\ i.addr = u[2].addr /\ i.cmd = cmd
    BY <1>3, <1>4, <2>1, <2>2, <2>3 DEF Items
  <2>5. v \in UpdateCmds /\ v[1] = t /\ v[2] = i
    BY <2>4 DEF UpdateCmds
  <2> QED
    BY <2>1, <2>2, <2>3, <2>4, <2>5
<1>7. Moves(3, 4, v)
  <2>1. [u[2].cmd EXCEPT !.block = u[2].cmd.block] = u[2].cmd
    BY <1>3 DEF FlashCmds
  <2>2. PICK cmd : cmd = v[2].cmd
    OBVIOUS
  <2>3. cmd = IF u[1] > 1 THEN [u[2].cmd EXCEPT !.block = Head(minPeEntryQ)[1]] ELSE u[2].cmd
    BY <1>4, <1>6, <2>1, <2>2
  <2>4. v = <<u[1], [addr |-> u[2].addr, cmd |-> cmd]>>
    BY <1>4, <1>6, <2>2
  <2>5. procUpdateQs' = [procUpdateQs EXCEPT ![3] = Tail(@),
             ![4] = Append(@, <<u[1], [addr |-> u[2].addr, cmd |-> cmd]>>)]
    BY <1>2, <2>3 DEF UpdateBlkInfo3
  <2> QED
    BY <2>4, <2>5 DEF Moves
<1>8. CmdOf(v) = CmdOf(u)
  BY <1>6, Zenon DEF CmdOf, ReqOf
<1>9. blkScanReqCnt' = 0 /\ minPeEntryQ' = minPeEntryQ /\ blkinfo' = blkinfo /\ blockmap' = blockmap
  BY <1>1, <1>2 DEF scanRegs, tables
<1>10. /\ Rest({}, {4})' /\ Cur(4)' = v /\ (\A k \in (0 .. 5) \ {4} : ~At(k)')
       /\ [FTL!Next]_FTL!vars
  BY <1>1, <1>2, <1>6, <1>7, <1>8, <1>9, MoveShows
<1>11. LeastPicked'
  <2>1. \A n \in 3 .. 4 : Allocating(n)' => n = 4
    <3>1. ~Allocating(3)'
      BY <1>10 DEF Allocating
    <3>2. \A n \in 3 .. 4 : n = 3 \/ n = 4
      OBVIOUS
    <3> QED
      BY <3>1, <3>2
  <2>2. Allocating(4)' => Least(minPeEntryQ[1], u[2].cmd.chip, Blocks)
    BY <1>2, <1>6, <1>10 DEF Carried, LeastPicked, Allocating
  <2> QED
    BY <1>6, <1>9, <1>10, <2>1, <2>2 DEF LeastPicked, Least, IsFree
<1>12. Carried'
  <2>1. CarriedHere'
    BY Both
  <2>2. LeastInLanes' /\ LeastOfLanes'
    BY <1>10, <2>1, Zenon DEF CarriedHere
  <2>3. UpdateCarries(u)
    BY <1>2 DEF Carried, StagesCarry
  <2>4. UpdateCarries(v)
    BY <1>6, <2>3 DEF UpdateCarries
  <2>5. UpdateCarries(Cur(4))'
    BY <1>9, <1>10, <2>4 DEF UpdateCarries
  <2> QED
    BY <1>10, <1>11, <2>1, <2>2, <2>5 DEF CarriedHere
<1> QED
  BY <1>10, <1>12

(* updateBlkInfo4 is where an update shows: both tables change at once.    *)
LEMMA UpdateBlkInfo4Refines ==
  ASSUME IInv, IInv', Carried, UpdateBlkInfo4
  PROVE  Carried' /\ [FTL!Next]_FTL!vars
<1>0. Typed /\ Stages /\ PickFits /\ LineFits
  BY DEF IInv, Pipeline, Stages
<1>1. /\ NotEmpty(procUpdateQs[4])
      /\ UNCHANGED <<blockmap, mapResp, reqQ, procQ, procQs, outputs, blkScanReqCnt, host>>
  BY DEF UpdateBlkInfo4
<1>2. PICK u, type, addr, c, block :
        /\ u = Cur(4) /\ type = u[1] /\ addr = u[2].addr /\ c = u[2].cmd.chip /\ block = u[2].cmd.block
  OBVIOUS
<1>3. /\ procQ = <<>> /\ Rest({}, {4}) /\ blkScanReqCnt = 0 /\ restoring = <<>>
      /\ At(4) /\ Head(procUpdateQs[4]) = u /\ u \in UpdateCmds /\ UpdateFits(u)
      /\ procUpdateQs[4] = <<u>>
  <2>1. /\ Cur(4) \in UpdateCmds /\ Head(procUpdateQs[4]) = Cur(4) /\ UpdateFits(Cur(4))
        /\ procQ = <<>> /\ Rest({}, {4}) /\ blkScanReqCnt = 0 /\ restoring = <<>>
        /\ At(4) /\ Len(procUpdateQs[4]) = 1 /\ procUpdateQs \in [0 .. 5 -> Seq(UpdateCmds)]
    BY <1>1, AtUpdate
  <2>2. procUpdateQs[4] = <<Cur(4)>>
    <3>1. PICK q \in Seq(UpdateCmds) : q = procUpdateQs[4]
      BY <2>1
    <3> QED
      BY <2>1, <3>1, OneElement DEF Cur
  <2> QED
    BY <1>2, <2>1, <2>2
<1>4. /\ type \in 0 .. 2 /\ addr \in MapAddrs /\ c \in Chips /\ block \in Blocks /\ c = ChipOf[addr]
      /\ type = 1 => blockmap[addr].status = "ALLOCATED"
      /\ type = 2 => blockmap[addr].status = "NOT_ALLOCATED"
      /\ type <= 1 => blockmap[addr].block = block
      /\ u[2].cmd \in FlashCmds /\ u[2] \in Items
  BY <1>3, <1>2 DEF UpdateCmds, Items, FlashCmds, UpdateFits
<1>5. type = 2 => /\ Head(minPeEntryQ) \in Blocks \X (0 .. EraseMod - 1)
                  /\ Least(Head(minPeEntryQ), c, Blocks) /\ Head(minPeEntryQ)[1] = block
  <2> SUFFICES ASSUME type = 2
               PROVE  /\ Head(minPeEntryQ) \in Blocks \X (0 .. EraseMod - 1)
                      /\ Least(Head(minPeEntryQ), c, Blocks) /\ Head(minPeEntryQ)[1] = block
    OBVIOUS
  <2>1. Allocating(4)
    BY <1>3, <1>2 DEF Allocating
  <2>2. Len(minPeEntryQ) = 1 /\ block = minPeEntryQ[1][1]
    BY <1>0, <1>2, <2>1 DEF PickFits
  <2>3. minPeEntryQ \in Seq(Blocks \X (0 .. EraseMod - 1))
    BY <1>0 DEF Typed
  <2>4. Head(minPeEntryQ) = minPeEntryQ[1] /\ minPeEntryQ[1] \in Blocks \X (0 .. EraseMod - 1)
    BY <2>2, <2>3, TailOfOne
  <2>5. Least(minPeEntryQ[1], c, Blocks)
    BY <1>2, <2>1 DEF Carried, LeastPicked
  <2> QED
    BY <2>2, <2>4, <2>5
<1>6. PICK x, e : x \in BlkEntries /\ x = blkinfo[c][block] /\ e = UpdatedEntry(type, x)
  BY <1>0, <1>4 DEF Typed
<1>7. e \in BlkEntries
  BY <1>4, <1>5, <1>6, UpdatedStatus
<1>8. blkinfo' = [blkinfo EXCEPT ![c] = [blkinfo[c] EXCEPT ![block] = e]]
  <2>1. Head(blkResp) = Line(c, block \div Lanes)
    BY <1>0, <1>3, <1>2 DEF LineFits
  <2>2. PICK f : /\ f = WriteLine(blkinfo[c], block \div Lanes,
                         UpdatedLine(type, Line(c, block \div Lanes), block % Lanes))
                 /\ blkinfo' = [blkinfo EXCEPT ![c] = f]
    BY <1>3, <1>2, <2>1 DEF UpdateBlkInfo4
  <2>3. f \in [Blocks -> BlkEntries] /\ \A b \in Blocks : f[b] = IF b = block THEN e ELSE blkinfo[c][b]
    BY <1>0, <1>4, <1>6, <1>7, <2>2, OneEntry
  <2>4. blkinfo[c] \in [Blocks -> BlkEntries]
    BY <1>0, <1>4 DEF Typed
  <2>5. f = [blkinfo[c] EXCEPT ![block] = e]
    BY <1>4, <2>3, <2>4
  <2> QED
    BY <2>2, <2>5
<1>9. Rest({}, {5})' /\ procUpdateQs'[5] = <<u>> /\ Cur(5)' = u /\ procQ' = <<>>
  <2>1. u \in UpdateCmds /\ Moves(4, 5, u)
    BY <1>3 DEF UpdateBlkInfo4, Moves
  <2>2. /\ procUpdateQs' \in [0 .. 5 -> Seq(UpdateCmds)] /\ Len(procUpdateQs'[5]) = 1
        /\ Cur(5)' = u /\ procQ' = <<>> /\ Rest({}, {5})'
    BY <1>1, <2>1, MoveUpdate
  <2>3. procUpdateQs'[5] = <<u>>
    <3>1. PICK q \in Seq(UpdateCmds) : q = procUpdateQs'[5]
      BY <2>2
    <3> QED
      BY <2>2, <3>1, OneElement DEF Cur
  <2> QED
    BY <2>2, <2>3
<1>10. ShowsReqs /\ ShowsMap /\ ShowsReqs' /\ ShowsMap' /\ CarriedHere'
  BY Both
<1>11. /\ procUpdateQs[5] = <<>> /\ respQ = <<>> /\ respQ_pre = <<>> /\ resp_errorQ = <<>>
       /\ respQ' = <<>> /\ respQ_pre' = <<>> /\ resp_errorQ' = <<>> /\ restoring' = restoring
       /\ blockmap' = blockmap
  BY <1>1, <1>3 DEF Rest, outputs, host
<1>12. PICK r \in AllCmds :
         /\ r = CmdOf(u) /\ r.cmd = CmdOfType(type) /\ r.addr = addr /\ r.tag = u[2].cmd.tag
         /\ type # 1 => r.page = u[2].cmd.page
  <2>1. ReqOf(CmdOfType(u[1]), u[2]) \in AllCmds
    BY <1>3, OneOf
  <2>2. PICK cmd \in {"AftlREAD", "AftlWRITE", "AftlERASE", "AftlMARKBAD"} :
          cmd = CmdOfType(type) /\ (type # 1 => cmd # "AftlERASE")
    BY <1>4 DEF CmdOfType
  <2>3. ReqOf(cmd, u[2]) \in AllCmds /\ CmdOf(u) = Norm(ReqOf(cmd, u[2]))
    BY <1>2, <2>1, <2>2 DEF CmdOf
  <2>4. Norm(ReqOf(cmd, u[2])) \in AllCmds
    BY <2>3, Commands
  <2>5. PICK q : q = ReqOf(cmd, u[2])
    OBVIOUS
  <2>6. /\ q.cmd = cmd /\ q.addr = addr /\ q.tag = u[2].cmd.tag /\ q.page = u[2].cmd.page
        /\ q \in AllCmds
    BY <1>2, <2>3, <2>5 DEF ReqOf
  <2>7. /\ Norm(q).cmd = cmd /\ Norm(q).addr = addr /\ Norm(q).tag = u[2].cmd.tag
        /\ type # 1 => Norm(q).page = u[2].cmd.page
    BY <2>2, <2>6 DEF Norm, AllCmds
  <2> QED
    BY <2>2, <2>3, <2>4, <2>5, <2>7
<1>13. AbsReqs = <<r>> \o NormAll(reqQ) /\ AbsReqs' = NormAll(reqQ)
  <2>1. AbsReqs = <<CmdOf(u)>> \o NormAll(reqQ)
    BY <1>3, <1>10 DEF ShowsReqs
  <2>2. AbsReqs' = NormAll(reqQ')
    BY <1>9, <1>10, Zenon DEF ShowsReqs
  <2> QED
    BY <1>1, <1>12, <2>1, <2>2
<1>14. /\ AbsMap = blockmap /\ AbsAnswers = <<>>
       /\ AbsMap' = [blockmap EXCEPT ![addr] = MapEntry(type, block)] /\ AbsAnswers' = AnswerOf(u)
  <2>1. AbsMap = blockmap /\ AbsAnswers = respQ \o respQ_pre
    BY <1>10, <1>11 DEF ShowsMap
  <2>2. AbsMap' = [blockmap' EXCEPT ![u[2].addr] = MapEntry(u[1], u[2].cmd.block)] /\ AbsAnswers' = AnswerOf(u)
    BY <1>3, <1>9, <1>10, <1>11, Zenon DEF ShowsMap
  <2>3. <<>> \o <<>> = <<>>
    OBVIOUS
  <2> QED
    BY <1>2, <1>11, <2>1, <2>2, <2>3
<1>15. PICK rest \in Seq(AllCmds) : rest = NormAll(reqQ)
  <2>1. reqQ \in Seq(AllCmds)
    BY <1>0, PlacesTyped
  <2> QED
    BY <2>1, NormQueue
<1>16. /\ AbsReqs = <<r>> \o rest /\ AbsReqs' = rest /\ AbsAnswers = <<>> /\ resp_errorQ = <<>>
       /\ resp_errorQ' = <<>> /\ restoring' = restoring
  BY <1>11, <1>13, <1>14, <1>15
<1>17. PICK m \in MapEntries : m = blockmap[addr]
  BY <1>0, <1>4 DEF Typed
<1>18. blkinfo \in [Chips -> [Blocks -> BlkEntries]] /\ blockmap \in [MapAddrs -> MapEntries]
  BY <1>0 DEF Typed
<1>19. NormAll(resp_errorQ)' = NormAll(resp_errorQ)
  BY <1>11
<1>20. UpdateCarries(u)
  BY <1>3, <1>2 DEF Carried, StagesCarry
<1>21. ASSUME type = 0
      PROVE  /\ r.cmd = "AftlREAD" => FTL!TranslateRead(r)
             /\ r.cmd = "AftlWRITE" => FTL!TranslateWrite(r)
             /\ r.cmd = "AftlERASE" => FTL!TranslateErase(r)
             /\ r.cmd = "AftlMARKBAD" => FTL!MarkBad(r)
  <2>1. r.cmd = "AftlMARKBAD" /\ AnswerOf(u) = <<>>
    BY <1>12, <1>21, <1>2 DEF CmdOfType, AnswerOf
  <2>2. AbsMap[r.addr].status \in {"ALLOCATED", "NOT_ALLOCATED"} /\ AbsMap[r.addr].block = block
    <3>1. m.status # "DEAD"
      BY <1>17, <1>20, <1>21, <1>2 DEF UpdateCarries
    <3> QED
      BY <1>4, <1>12, <1>14, <1>17, <1>21, <3>1 DEF MapEntries
  <2>3. blkinfo' = [blkinfo EXCEPT ![ChipOf[r.addr]][AbsMap[r.addr].block].status = "BAD_BLK"]
    <3>1. e = [x EXCEPT !.status = "BAD_BLK"]
      BY <1>6, <1>21 DEF UpdatedEntry, MarkBadEntry, BlkEntries
    <3> QED
      BY <1>4, <1>6, <1>8, <1>12, <1>18, <2>2, <3>1
  <2>4. AbsMap' = [AbsMap EXCEPT ![r.addr].status = "NOT_ALLOCATED"]
    <3>1. MapEntry(type, block) = [m EXCEPT !.status = "NOT_ALLOCATED"]
      BY <1>4, <1>17, <1>21 DEF MapEntry, MapEntries
    <3> QED
      BY <1>4, <1>12, <1>14, <1>17, <1>18, <3>1
  <2>5. AbsAnswers' = <<>>
    BY <1>14, <2>1
  <2>6. AbsAnswers' = AbsAnswers
    BY <1>14, <2>5
  <2>7. FTL!MarkBad(r)
    BY <1>19, <2>2, <2>3, <2>4, <2>6, Zenon DEF FTL!MarkBad
  <2> QED
    BY <2>1, <2>7
<1>22. ASSUME type = 1
      PROVE  /\ r.cmd = "AftlREAD" => FTL!TranslateRead(r)
             /\ r.cmd = "AftlWRITE" => FTL!TranslateWrite(r)
             /\ r.cmd = "AftlERASE" => FTL!TranslateErase(r)
             /\ r.cmd = "AftlMARKBAD" => FTL!MarkBad(r)
  <2>1. r.cmd = "AftlERASE" /\ AnswerOf(u) = <<u[2].cmd>>
    BY <1>12, <1>22, <1>2 DEF CmdOfType, AnswerOf
  <2>2. AbsMap[r.addr].status = "ALLOCATED" /\ block = AbsMap[r.addr].block
    BY <1>4, <1>12, <1>14, <1>22
  <2>3. blkinfo' = [blkinfo EXCEPT ![ChipOf[r.addr]][AbsMap[r.addr].block] =
                       [status |-> "FREE_BLK", erase |-> (@.erase + 1) % EraseMod]]
    <3>1. e = [status |-> "FREE_BLK", erase |-> (x.erase + 1) % EraseMod]
      BY <1>6, <1>22 DEF UpdatedEntry, EraseBlkInfoEntry
    <3> QED
      BY <1>4, <1>6, <1>8, <1>12, <1>18, <2>2, <3>1
  <2>4. AbsMap' = [AbsMap EXCEPT ![r.addr].status = "NOT_ALLOCATED"]
    <3>1. MapEntry(type, block) = [m EXCEPT !.status = "NOT_ALLOCATED"]
      BY <1>4, <1>17, <1>22 DEF MapEntry, MapEntries
    <3> QED
      BY <1>4, <1>12, <1>14, <1>17, <1>18, <3>1
  <2>7. u[2].cmd = [tag |-> r.tag, op |-> "ERASE_BLOCK", chip |-> ChipOf[r.addr], block |-> block,
                    page |-> 0]
    <3>1. u[2].cmd.op = "ERASE_BLOCK" /\ u[2].cmd.page = 0
      BY <1>20, <1>22, <1>2 DEF UpdateCarries
    <3>2. PICK cmd \in FlashCmds : cmd = u[2].cmd
      BY <1>4
    <3> QED
      BY <1>4, <1>12, <1>2, <3>1, <3>2 DEF FlashCmds
  <2>8. AbsAnswers' = <<[tag |-> r.tag, op |-> "ERASE_BLOCK", chip |-> ChipOf[r.addr],
                         block |-> block, page |-> 0]>>
    BY <1>14, <2>1, <2>7
  <2>9. FTL!Answer(r, "ERASE_BLOCK", AbsMap[r.addr].block, 0)
    BY <1>16, <2>2, <2>8, OneIn, Zenon DEF FTL!Answer
  <2>10. FTL!TranslateErase(r)
    BY <1>19, <2>2, <2>3, <2>4, <2>9, Zenon DEF FTL!TranslateErase
  <2> QED
    BY <2>1, <2>10
<1>23. ASSUME type = 2
      PROVE  /\ r.cmd = "AftlREAD" => FTL!TranslateRead(r)
             /\ r.cmd = "AftlWRITE" => FTL!TranslateWrite(r)
             /\ r.cmd = "AftlERASE" => FTL!TranslateErase(r)
             /\ r.cmd = "AftlMARKBAD" => FTL!MarkBad(r)
  <2>1. r.cmd = "AftlWRITE" /\ AnswerOf(u) = <<u[2].cmd>>
    BY <1>12, <1>23, <1>2 DEF CmdOfType, AnswerOf
  <2>2. AbsMap[r.addr].status = "NOT_ALLOCATED"
    BY <1>4, <1>12, <1>14, <1>23
  <2>3. /\ blkinfo[c][block].status = "FREE_BLK" /\ Head(minPeEntryQ)[2] = blkinfo[c][block].erase
        /\ \A o \in Blocks : blkinfo[c][o].status = "FREE_BLK" =>
             blkinfo[c][block].erase <= blkinfo[c][o].erase
    <3>1. PICK p \in Blocks \X (0 .. EraseMod - 1) : p = Head(minPeEntryQ)
      BY <1>5, <1>23
    <3>2. p # Invalid
      <4>1. PICK b, n : p = <<b, n>>
        BY <3>1
      <4>2. <<b, n>> # <<>>
        OBVIOUS
      <4> QED
        BY <4>1, <4>2 DEF Invalid
    <3> QED
      BY <1>5, <1>23, <3>1, <3>2 DEF Least, IsFree
  <2>4. blkinfo' = [blkinfo EXCEPT ![ChipOf[r.addr]][block].status = "USED_BLK"]
    <3>1. e = [x EXCEPT !.status = "USED_BLK"]
      BY <1>6, <1>23, <2>3 DEF UpdatedEntry, BlkEntries
    <3> QED
      BY <1>4, <1>6, <1>8, <1>12, <1>18, <3>1
  <2>5. AbsMap' = [AbsMap EXCEPT ![r.addr] = [status |-> "ALLOCATED", block |-> block]]
    <3>1. (type <= 1) = FALSE
      BY <1>23
    <3>2. MapEntry(type, block) = [status |-> "ALLOCATED", block |-> block]
      BY <3>1, Zenon DEF MapEntry
    <3> QED
      BY <1>12, <1>14, <3>2
  <2>7. u[2].cmd = [tag |-> r.tag, op |-> "WRITE_PAGE", chip |-> ChipOf[r.addr], block |-> block,
                    page |-> r.page]
    <3>1. u[2].cmd.op = "WRITE_PAGE"
      BY <1>20, <1>23, <1>2 DEF UpdateCarries
    <3>2. PICK cmd \in FlashCmds : cmd = u[2].cmd
      BY <1>4
    <3> QED
      BY <1>4, <1>12, <1>23, <1>2, <3>1, <3>2 DEF FlashCmds
  <2>8. AbsAnswers' = <<[tag |-> r.tag, op |-> "WRITE_PAGE", chip |-> ChipOf[r.addr],
                         block |-> block, page |-> r.page]>>
    BY <1>14, <2>1, <2>7
  <2>9. /\ blkinfo[ChipOf[r.addr]][block].status = "FREE_BLK"
        /\ \A o \in Blocks : blkinfo[ChipOf[r.addr]][o].status = "FREE_BLK" =>
             blkinfo[ChipOf[r.addr]][block].erase <= blkinfo[ChipOf[r.addr]][o].erase
    BY <1>4, <1>12, <2>3
  <2>10. FTL!Answer(r, "WRITE_PAGE", block, r.page)
    BY <1>16, <2>8, OneIn, Zenon DEF FTL!Answer
  <2>11. block \in FTL!FreeBlocks(ChipOf[r.addr])
    BY <1>4, <2>9 DEF FTL!FreeBlocks
  <2>12. block \in FTL!LeastErased(ChipOf[r.addr])
    BY <2>9, <2>11 DEF FTL!FreeBlocks, FTL!LeastErased
  <2>13. AbsMap[r.addr].status # "ALLOCATED" /\ FTL!FreeBlocks(ChipOf[r.addr]) # {}
    BY <2>2, <2>11
  <2>14. FTL!TranslateWrite(r)
    BY <1>19, <2>2, <2>4, <2>5, <2>10, <2>12, <2>13, Zenon DEF FTL!TranslateWrite
  <2> QED
    BY <2>1, <2>14
<1>24. /\ r.cmd = "AftlREAD" => FTL!TranslateRead(r)
       /\ r.cmd = "AftlWRITE" => FTL!TranslateWrite(r)
       /\ r.cmd = "AftlERASE" => FTL!TranslateErase(r)
       /\ r.cmd = "AftlMARKBAD" => FTL!MarkBad(r)
  BY <1>4, <1>21, <1>22, <1>23
<1>25. [FTL!Next]_FTL!vars
  BY <1>12, <1>15, <1>16, <1>24, Translating
<1>26. Carried'
  <2>1. UpdateCarries(Cur(5))'
    BY <1>9, <1>11, <1>20 DEF UpdateCarries
  <2>2. LeastInLanes' /\ LeastOfLanes' /\ LeastPicked'
    BY <1>9, <1>10 DEF CarriedHere
  <2> QED
    BY <1>9, <1>10, <2>1, <2>2 DEF CarriedHere
<1> QED
  BY <1>26, <1>25

(* updateBlkInfo5 writes the map entry that was counted as written.        *)
LEMMA UpdateBlkInfo5Refines ==
  ASSUME IInv, IInv', UpdateBlkInfo5
  PROVE  Carried' /\ [FTL!Next]_FTL!vars
<1>1. /\ NotEmpty(procUpdateQs[5]) /\ procUpdateQs' = [procUpdateQs EXCEPT ![5] = Tail(@)]
      /\ UNCHANGED <<blkinfo, reqQ, procQ, procQs, respQ, resp_errorQ, scanRegs, host>>
  BY DEF UpdateBlkInfo5
<1>2. PICK u \in UpdateCmds :
        /\ u = Cur(5) /\ Head(procUpdateQs[5]) = u /\ procUpdateQs[5] = <<u>>
        /\ procQ = <<>> /\ Rest({}, {5}) /\ blkScanReqCnt = 0
        /\ procUpdateQs \in [0 .. 5 -> Seq(UpdateCmds)] /\ Tail(procUpdateQs[5]) = <<>>
  <2>1. /\ Cur(5) \in UpdateCmds /\ Head(procUpdateQs[5]) = Cur(5)
        /\ procQ = <<>> /\ Rest({}, {5}) /\ blkScanReqCnt = 0 /\ Tail(procUpdateQs[5]) = <<>>
        /\ Len(procUpdateQs[5]) = 1 /\ procUpdateQs \in [0 .. 5 -> Seq(UpdateCmds)]
    BY <1>1, AtUpdate
  <2>2. procUpdateQs[5] = <<Cur(5)>>
    <3>1. PICK q \in Seq(UpdateCmds) : q = procUpdateQs[5]
      BY <2>1
    <3> QED
      BY <2>1, <3>1, OneElement DEF Cur
  <2> QED
    BY <2>1, <2>2
<1>3. /\ respQ = <<>> /\ respQ_pre = <<>> /\ \A m \in 0 .. 4 : procUpdateQs[m] = <<>>
      /\ \A n \in ProcNames : procQs[n] = <<>>
  BY <1>2 DEF Rest
<1>4. /\ blockmap' = [blockmap EXCEPT ![u[2].addr] = MapEntry(u[1], u[2].cmd.block)]
      /\ respQ_pre' = AnswerOf(u)
  <2>1. Append(<<>>, u[2].cmd) = <<u[2].cmd>>
    BY OneIn
  <2>2. /\ u[1] = 0 => UNCHANGED respQ_pre
        /\ u[1] # 0 => respQ_pre' = Append(respQ_pre, u[2].cmd)
    BY <1>2 DEF UpdateBlkInfo5
  <2>3. blockmap' = [blockmap EXCEPT ![u[2].addr] = MapEntry(u[1], u[2].cmd.block)]
    BY <1>2 DEF UpdateBlkInfo5
  <2> QED
    BY <1>3, <2>1, <2>2, <2>3 DEF AnswerOf
<1>5. \A k \in 0 .. 5 : procUpdateQs'[k] = <<>>
  <2>1. \A k \in 0 .. 5 : procUpdateQs'[k] = IF k = 5 THEN Tail(procUpdateQs[5]) ELSE procUpdateQs[k]
    BY <1>1, <1>2
  <2> QED
    BY <1>2, <1>3, <2>1
<1>6. NoStage' /\ procQ' = <<>> /\ blkScanReqCnt' = 0
  BY <1>1, <1>2, <1>3, <1>5 DEF NoStage, scanRegs
<1>7. ShowsReqs /\ ShowsMap /\ ShowsReqs' /\ ShowsMap' /\ CarriedHere'
  BY Both
<1>8. AbsReqs' = AbsReqs
  <2>1. AbsReqs = NormAll(reqQ)
    BY <1>2, <1>7, Zenon DEF ShowsReqs
  <2>2. AbsReqs' = NormAll(reqQ')
    BY <1>6, <1>7, Zenon DEF ShowsReqs
  <2> QED
    BY <1>1, <2>1, <2>2
<1>9. AbsMap' = AbsMap /\ AbsAnswers' = AbsAnswers
  <2>1. AbsMap = [blockmap EXCEPT ![u[2].addr] = MapEntry(u[1], u[2].cmd.block)] /\ AbsAnswers = AnswerOf(u)
    BY <1>2, <1>3, <1>7, Zenon DEF ShowsMap
  <2>2. AbsMap' = blockmap' /\ AbsAnswers' = respQ' \o respQ_pre'
    <3>1. procUpdateQs'[5] = <<>>
      BY <1>5
    <3> QED
      BY <1>7, <3>1 DEF ShowsMap
  <2>3. <<>> \o AnswerOf(u) = AnswerOf(u)
    <3>1. PICK cmd : cmd = u[2].cmd
      OBVIOUS
    <3>2. <<cmd>> \in Seq({cmd}) /\ <<>> \in Seq({cmd})
      OBVIOUS
    <3>3. AnswerOf(u) \in Seq({cmd})
      BY <3>1, <3>2 DEF AnswerOf
    <3> QED
      BY <3>3, ConcatEmptySeq
  <2> QED
    BY <1>1, <1>3, <1>4, <2>1, <2>2, <2>3
<1>10. [FTL!Next]_FTL!vars
  BY <1>1, <1>8, <1>9, Silent DEF host
<1>11. Carried'
  BY <1>6, <1>7 DEF CarriedHere
<1> QED
  BY <1>10, <1>11

(* Every step keeps what the command carries, and shows as a step of the   *)
(* abstract specification, or not at all.                                  *)
LEMMA StepRefines == RInv /\ [Next]_vars => RInv' /\ [FTL!Next]_FTL!vars
<1> SUFFICES ASSUME RInv, [Next]_vars PROVE RInv' /\ [FTL!Next]_FTL!vars
  OBVIOUS
<1>0. IInv /\ Carried /\ IInv'
  BY StepIInv DEF RInv
<1> DEFINE Goal == Carried' /\ [FTL!Next]_FTL!vars
<1>1. ASSUME HostStep PROVE Goal
  <2>1. ASSUME NEW c \in Chips, NEW w \in 0 .. Words - 1, UpdateBlkInfo(c, w) PROVE Goal
    BY <1>0, <2>1, UpdateBlkInfoRefines
  <2>2. ASSUME NEW a \in MapAddrs, UpdateMapping(a) PROVE Goal
    BY <1>0, <2>2, UpdateMappingRefines
  <2>3. ASSUME SetAftlLoaded PROVE Goal
    BY <1>0, <2>3, SetAftlLoadedRefines
  <2>4. ASSUME NEW r \in Reqs, TranslateReq(r) PROVE Goal
    BY <1>0, <2>4, TranslateReqRefines
  <2> QED
    BY <1>1, <2>1, <2>2, <2>3, <2>4, Zenon DEF HostStep
<1>2. ASSUME Answered PROVE Goal
  BY <1>0, <1>2, AnsweredRefines
<1>3. ASSUME RequestMapping \/ CheckMapping0 PROVE Goal
  BY <1>0, <1>3, RequestMappingRefines, CheckMapping0Refines
<1>4. ASSUME ProcAftlRead \/ ProcAftlWriteAllocated PROVE Goal
  <2>1. ASSUME NEW n \in {"R", "W"}, AnswerMapped(n) PROVE Goal
    BY <1>0, <2>1, AnswerMappedRefines
  <2> QED
    BY <1>4, <2>1 DEF ProcAftlRead, ProcAftlWriteAllocated
<1>5. ASSUME ProcAftlMarkBadBlock PROVE Goal
  <2>1. PICK item : item = Head(procQs["MB"])
    OBVIOUS
  <2>2. StartUpdate("MB", 0, item) /\ NotEmpty(procQs["MB"])
    BY <1>5, <2>1 DEF ProcAftlMarkBadBlock, StartUpdate
  <2>3. item \in Items
    BY <1>0, <2>1, <2>2, HeadInItems DEF ProcNames
  <2> QED
    BY <1>0, <2>1, <2>2, <2>3, StartUpdateRefines
<1>6. ASSUME ProcAftlErase PROVE Goal
  <2>1. PICK item : item = [Head(procQs["E"]) EXCEPT !.cmd.page = 0]
    OBVIOUS
  <2>2. StartUpdate("E", 1, item) /\ NotEmpty(procQs["E"])
    BY <1>6, <2>1 DEF ProcAftlErase, StartUpdate
  <2>3. Head(procQs["E"]) \in Items
    BY <1>0, <2>2, HeadInItems DEF ProcNames
  <2>4. PICK cmd : cmd = [Head(procQs["E"]).cmd EXCEPT !.page = 0]
    OBVIOUS
  <2>5. cmd \in FlashCmds
    BY <2>3, <2>4 DEF Items, FlashCmds
  <2>6. item \in Items
    BY <2>1, <2>3, <2>4, <2>5 DEF Items
  <2> QED
    BY <1>0, <2>1, <2>2, <2>6, StartUpdateRefines
<1>7. ASSUME ProcAftlWriteNotAllocated PROVE Goal
  <2>1. PICK item : item = Head(procQs["W_trig"])
    OBVIOUS
  <2>2. StartUpdate("W_trig", 2, item) /\ NotEmpty(procQs["W_trig"])
    BY <1>7, <2>1 DEF ProcAftlWriteNotAllocated, StartUpdate
  <2>3. item \in Items
    BY <1>0, <2>1, <2>2, HeadInItems DEF ProcNames
  <2> QED
    BY <1>0, <2>1, <2>2, <2>3, StartUpdateRefines
<1>8. ASSUME UpdateBlkInfo0Skip \/ UpdateBlkInfo0Scan \/ UpdateBlkInfo1 PROVE Goal
  BY <1>0, <1>8, UpdateBlkInfo0SkipRefines, UpdateBlkInfo0ScanRefines, UpdateBlkInfo1Refines
<1>9. ASSUME UpdateBlkInfo2Step \/ UpdateBlkInfo2Final \/ UpdateBlkInfo3 PROVE Goal
  BY <1>0, <1>9, UpdateBlkInfo2StepRefines, UpdateBlkInfo2FinalRefines, UpdateBlkInfo3Refines
<1>10. ASSUME UpdateBlkInfo4 \/ UpdateBlkInfo5 PROVE Goal
  BY <1>0, <1>10, UpdateBlkInfo4Refines, UpdateBlkInfo5Refines
<1>11. ASSUME RouteRespQ \/ DrainMarkBadDone PROVE Goal
  BY <1>0, <1>11, OutputRefines
<1>12. ASSUME UNCHANGED vars PROVE Goal
  <2>1. /\ UNCHANGED <<tables, procQs, procUpdateQs, scanRegs>>
        /\ UNCHANGED <<blockmap, blkinfo, reqQ, procQ, procQs, procUpdateQs>>
        /\ UNCHANGED <<respQ_pre, respQ, resp_errorQ, blkScanReqCnt, restoring>>
    BY <1>12 DEF vars, tables, outputs, scanRegs, host
  <2>2. Carried'
    BY <1>0, <2>1, KeptCarried
  <2>3. AbsMap' = AbsMap /\ AbsAnswers' = AbsAnswers /\ AbsReqs' = AbsReqs
    BY <2>1, Zenon DEF AbsMap, AbsAnswers, AbsReqs, MapPending
  <2> QED
    BY <2>1, <2>2, <2>3, Silent
<1>13. ASSUME Rule PROVE Goal
  BY <1>3, <1>4, <1>5, <1>6, <1>7, <1>8, <1>9, <1>10, <1>11, <1>13, Zenon DEF Rule
<1>14. Goal
  BY <1>1, <1>2, <1>12, <1>13, Zenon DEF Next
<1> QED
  BY <1>0, <1>14 DEF RInv

(* The empty pipeline carries nothing and shows the empty translation      *)
(* layer, whose tables are yet to be restored.                             *)
LEMMA InitRefines == Init => RInv /\ FTL!Init
<1> SUFFICES ASSUME Init PROVE RInv /\ FTL!Init
  OBVIOUS
<1>1. IInv /\ Typed
  BY InitIInv DEF IInv
<1>2. NoStage /\ procQ = <<>> /\ blkScanReqCnt = 0 /\ procUpdateQs[5] = <<>>
  BY DEF Init, NoStage
<1>3. Carried
  BY <1>2, NothingCarried
<1>4. ShowsReqs /\ ShowsMap
  BY <1>1, Shows
<1>5. NormAll(<<>>) = <<>>
  <2>1. NormAll(<<>>) \in Seq(AllCmds) /\ Len(NormAll(<<>>)) = 0
    <3>1. <<>> \in Seq(AllCmds) /\ Len(<<>>) = 0
      OBVIOUS
    <3> QED
      BY <3>1, NormQueue
  <2> QED
    BY <2>1, EmptySeq
<1>6. AbsReqs = <<>>
  <2>1. AbsReqs = NormAll(reqQ)
    BY <1>2, <1>4, Zenon DEF ShowsReqs
  <2> QED
    BY <1>5, <2>1 DEF Init
<1>7. AbsMap = blockmap /\ AbsAnswers = <<>>
  <2>1. AbsMap = blockmap /\ AbsAnswers = respQ \o respQ_pre
    BY <1>2, <1>4, Zenon DEF ShowsMap
  <2>2. <<>> \o <<>> = <<>>
    OBVIOUS
  <2> QED
    BY <2>1, <2>2 DEF Init
<1>8. restoring # <<>>
  <2>1. restoring = image.order /\ Len(image.order) > 0
    BY ImagesAssumption DEF Init
  <2> QED
    BY <2>1
<1>9. /\ NormAll(resp_errorQ) = <<>>
      /\ blockmap = [a \in MapAddrs |-> [status |-> "NOT_ALLOCATED", block |-> 0]]
      /\ blkinfo = [c \in Chips |-> [b \in Blocks |-> [status |-> "FREE_BLK", erase |-> 0]]]
  BY <1>5 DEF Init
<1>10. FTL!Init
  BY <1>6, <1>7, <1>8, <1>9, Zenon DEF FTL!Init
<1> QED
  BY <1>1, <1>3, <1>10 DEF RInv

(* The pipeline of AFTL.bsv, with its scan of the block table and its two  *)
(* tables written apart, answers as if every command were translated in    *)
(* one step, in the order of arrival, a new mapping taking a least erased  *)
(* free block of its chip.                                                 *)
THEOREM ImplementsTranslation == Spec => Translates
<1>1. Init => RInv /\ FTL!Init
  BY InitRefines
<1>2. RInv /\ [Next]_vars => RInv' /\ [FTL!Next]_FTL!vars
  BY StepRefines
<1> QED
  BY <1>1, <1>2, PTL DEF Spec, Translates, FTL!Spec

=============================================================================
