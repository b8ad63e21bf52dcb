--------------------------- MODULE KtAddrManager ----------------------------
(***************************************************************************)
(* The lists of flash addresses of a compaction                            *)
(* (modules/keytable_merger/KtAddrManager.bsv): for each of the three      *)
(* lists bursts are read from host memory, taken apart into words and the  *)
(* words into addresses, which are given out one by one. Counts of valid   *)
(* entries have no room for the full count, which is written as 0.         *)
(***************************************************************************)
EXTENDS BsvFifo, Integers, SequencesExt

CONSTANTS
  PpasPerWord,     (* 4: addresses in a word                               *)
  WordsPerBurst,   (* 8: words in a burst                                  *)
  NoPpa            (* what is in a buffer of the host before it is filled  *)

PpasPerBurst == PpasPerWord * WordsPerBurst

ASSUME BurstAssumption ==
  /\ PpasPerWord \in Nat \ {0} /\ WordsPerBurst \in Nat \ {0}

Dest  == 0
LowL  == 1
HighL == 2
Lists == {Dest, LowL, HighL}

VARIABLES
  ppaBuf,           \* the memory of the host: lists by reference, ppaBuf[ref][entry]
  dmaPpaSgid, dmaPpaFlag,
  genPpaReq, ppaReqSent,
  dmaPpaReqToResp,  \* with the command that waits in the read engine
  ppaRespBeat, ppaList4Elem, parsePnt, ppaList,
  ppaCnt, ppaTotal  \* destPpaCnt, lowPpaCnt, highPpaCnt and their totals

listVars == <<dmaPpaSgid, dmaPpaFlag, genPpaReq, ppaReqSent, dmaPpaReqToResp, ppaRespBeat,
              ppaList4Elem, parsePnt, ppaList, ppaCnt, ppaTotal>>

NoRef   == "no reference"
NoQueue == [i \in Lists |-> <<>>]
AtZero  == [i \in Lists |-> 0]

ListInit ==
  /\ dmaPpaSgid = [i \in Lists |-> <<NoRef, NoRef>>] /\ dmaPpaFlag = AtZero
  /\ genPpaReq = NoQueue /\ dmaPpaReqToResp = NoQueue
  /\ ppaList4Elem = NoQueue /\ ppaList = NoQueue
  /\ ppaReqSent = AtZero /\ ppaRespBeat = AtZero /\ parsePnt = AtZero
  /\ ppaCnt = AtZero /\ ppaTotal = AtZero

(* The reset before a compaction reaches all of it.                        *)
ResetLists ==
  /\ dmaPpaSgid' = [i \in Lists |-> <<NoRef, NoRef>>] /\ dmaPpaFlag' = AtZero
  /\ genPpaReq' = NoQueue /\ dmaPpaReqToResp' = NoQueue
  /\ ppaList4Elem' = NoQueue /\ ppaList' = NoQueue
  /\ ppaReqSent' = AtZero /\ ppaRespBeat' = AtZero /\ parsePnt' = AtZero
  /\ ppaCnt' = AtZero /\ ppaTotal' = AtZero

-----------------------------------------------------------------------------
(* A mutant: takes the number of entries for that of the entries before    *)
(* the last, as the comparison with ppaReqSent would without its -1.       *)
LastBurstLate(i) == ppaReqSent[i] >= Head(genPpaReq[i]) \div PpasPerBurst

LastBurst(i) == ppaReqSent[i] >= (Head(genPpaReq[i]) - 1) \div PpasPerBurst

generatePpaReq(i) ==
  LET last == LastBurst(i) IN
  /\ NotEmpty(genPpaReq[i]) /\ NotFull(dmaPpaReqToResp[i], 2)
  /\ dmaPpaReqToResp' = [dmaPpaReqToResp EXCEPT ![i] = Append(@,
       [sglId |-> dmaPpaSgid[i][dmaPpaFlag[i] + 1], base |-> ppaReqSent[i] * PpasPerBurst,
        last |-> last, valid |-> IF last THEN Head(genPpaReq[i]) % PpasPerBurst ELSE 0])]
  /\ ppaReqSent' = [ppaReqSent EXCEPT ![i] = IF last THEN 0 ELSE @ + 1]
  /\ genPpaReq' = IF last THEN [genPpaReq EXCEPT ![i] = Tail(@)] ELSE genPpaReq
  /\ UNCHANGED <<dmaPpaSgid, dmaPpaFlag, ppaRespBeat, ppaList4Elem, parsePnt, ppaList, ppaCnt,
                 ppaTotal>>

(* A mutant: takes the last word for a full one.                           *)
ValidInWordAlwaysAll(left) == 0

(* How many of the entries left are in this word; 0 means all of it.       *)
ValidInWord(left) == left % PpasPerWord

(* A word of the burst comes in, as it is in the memory now. The words     *)
(* behind the last entry, which need no room, are dropped along with it.   *)
collectPpaResp(i) ==
  LET req  == Head(dmaPpaReqToResp[i])
      beat == ppaRespBeat[i]
      numValidElem == IF req.valid = 0 THEN PpasPerBurst ELSE req.valid
      endsList == req.last /\ (beat + 1) * PpasPerWord >= numValidElem
      numVal == IF endsList THEN ValidInWord(numValidElem - beat * PpasPerWord) ELSE 0
      done == endsList \/ beat = WordsPerBurst - 1 IN
  /\ NotEmpty(dmaPpaReqToResp[i]) /\ NotFull(ppaList4Elem[i], WordsPerBurst)
  /\ ppaList4Elem' = [ppaList4Elem EXCEPT ![i] = Append(@,
       [numVal |-> numVal,
        d |-> [e \in 0 .. PpasPerWord - 1 |->
                 ppaBuf[req.sglId][req.base + beat * PpasPerWord + e]]])]
  /\ ppaRespBeat' = [ppaRespBeat EXCEPT ![i] = IF done THEN 0 ELSE @ + 1]
  /\ dmaPpaReqToResp' = IF done THEN [dmaPpaReqToResp EXCEPT ![i] = Tail(@)] ELSE dmaPpaReqToResp
  /\ UNCHANGED <<dmaPpaSgid, dmaPpaFlag, genPpaReq, ppaReqSent, parsePnt, ppaList, ppaCnt,
                 ppaTotal>>

parsePpa4to1(i) ==
  LET elem == Head(ppaList4Elem[i])
      done == parsePnt[i] = PpasPerWord - 1 \/ (parsePnt[i] + 1) % PpasPerWord = elem.numVal IN
  /\ NotEmpty(ppaList4Elem[i]) /\ NotFull(ppaList[i], PpasPerWord)
  /\ ppaList' = [ppaList EXCEPT ![i] = Append(@, elem.d[parsePnt[i]])]
  /\ parsePnt' = [parsePnt EXCEPT ![i] = IF done THEN 0 ELSE @ + 1]
  /\ ppaList4Elem' = IF done THEN [ppaList4Elem EXCEPT ![i] = Tail(@)] ELSE ppaList4Elem
  /\ UNCHANGED <<dmaPpaSgid, dmaPpaFlag, genPpaReq, ppaReqSent, dmaPpaReqToResp, ppaRespBeat,
                 ppaCnt, ppaTotal>>

ListRule == \E i \in Lists : generatePpaReq(i) \/ collectPpaResp(i) \/ parsePpa4to1(i)

-----------------------------------------------------------------------------
(* The methods.                                                            *)
AllGiven(i) == ppaCnt[i] = ppaTotal[i]

getPpa(i) ==
  /\ NotEmpty(ppaList[i])
  /\ ppaList' = [ppaList EXCEPT ![i] = Tail(@)]
  /\ ppaCnt' = [ppaCnt EXCEPT ![i] = @ + 1]
  /\ UNCHANGED <<dmaPpaSgid, dmaPpaFlag, genPpaReq, ppaReqSent, dmaPpaReqToResp, ppaRespBeat,
                 ppaList4Elem, parsePnt, ppaTotal>>

StartList(is, num) ==
  /\ \A i \in is : AllGiven(i) /\ NotFull(genPpaReq[i], MkFIFO)
  /\ genPpaReq' = [i \in Lists |-> IF i \in is THEN Append(genPpaReq[i], num[i]) ELSE genPpaReq[i]]
  /\ ppaCnt' = [i \in Lists |-> IF i \in is THEN 0 ELSE ppaCnt[i]]
  /\ ppaTotal' = [i \in Lists |-> IF i \in is THEN num[i] ELSE ppaTotal[i]]
  /\ UNCHANGED <<ppaReqSent, dmaPpaReqToResp, ppaRespBeat, ppaList4Elem, parsePnt, ppaList>>

startGetPpaDest(num) ==
  StartList({Dest}, [i \in {Dest} |-> num]) /\ UNCHANGED <<dmaPpaSgid, dmaPpaFlag>>
startGetPpa(num) == StartList({LowL, HighL}, num)

setDestPpaFlag(flag) == dmaPpaFlag' = [dmaPpaFlag EXCEPT ![Dest] = flag]
setDmaKtPpaRef(high, low, res1, res2) ==
  dmaPpaSgid' = (Dest :> <<res1, res2>>) @@ (HighL :> <<high, high>>) @@ (LowL :> <<low, low>>)
=============================================================================
