------------------------------ MODULE KtOutput ------------------------------
(***************************************************************************)
(* LightStoreKtMerger (modules/keytable_merger/LightStoreKtMerger.bsv):    *)
(* fetches the tables of the two lists, feeds the merger, spreads merged   *)
(* tables over several DMA engines, collects the invalidated addresses in  *)
(* bursts of a last engine, and reports the end when all of it is in the   *)
(* memory of the host.                                                     *)
(*                                                                         *)
(* The merger is the promise of KeytableMerger: from the tables that went  *)
(* in come so many tables and addresses, then their ends. FIFOs that only  *)
(* delay are left out, and times.                                          *)
(***************************************************************************)
EXTENDS KtAddrManager

CONSTANTS
  Engines,         (* 4: DMA engines for merged tables                     *)
  KeytableWords,   (* 512: words of a merged table                         *)
  Merges,          (* the merges: [high, low, merged, invalid], of tables  *)
                   (* in, tables out and invalidated addresses             *)
  NoWord           (* what is in a buffer before it is filled              *)

EngineNos == 0 .. Engines - 1

ASSUME OutputAssumption ==
  /\ Engines \in Nat \ {0} /\ KeytableWords \in Nat \ {0, 1}
  /\ \A n \in DOMAIN Merges :
       /\ Merges[n].high \in Nat \ {0} /\ Merges[n].low \in Nat \ {0}
       /\ Merges[n].merged \in 1 .. Merges[n].high + Merges[n].low /\ Merges[n].invalid \in Nat

VARIABLES
  merge,             \* the merger: the number of the merge,
  consumed,          \* the tables that went in,
  addrsOut, ended,   \* the addresses and the ends that came out
  mergedKtBufSgid, invalPPAListSgid,
  mergerOutputCnt, phase1, dmaWriteOut, dmaWriteReqQ,
  ktLastPageTrig, ktResultReqSent, phase2, dmaWriteReqToRespQ,
  engine,            \* DMA engines: commands, words written, requests done
  ktGenerated, ktGeneratedDone,
  collectedCnt, ppa4BBuf, ppaDmaWordBuf, invalAddrFlush, padCnt, padPhase, ppaWDmaDoneSignal,
  dmaPpaWriteOut, dmaPpaWriteReqQ, ppaOutBeatCnt, ppaOutDmaReqSent, dmaPpaWReqToRespQ,
  ppaEngine, ppaOutDmaRespRecv, invalPpaDoneQ,
  mergeDoneQ,
  mergedKtBuf, invalPpaBuf  \* the results in the memory of the host

mergerVars == <<merge, consumed, addrsOut, ended>>
tableVars  == <<mergerOutputCnt, phase1, dmaWriteOut, dmaWriteReqQ, ktLastPageTrig,
                ktResultReqSent, phase2, dmaWriteReqToRespQ, engine, ktGenerated, mergedKtBuf>>
invalVars  == <<collectedCnt, ppa4BBuf, ppaDmaWordBuf, invalAddrFlush, padCnt, padPhase,
                ppaWDmaDoneSignal, dmaPpaWriteOut, dmaPpaWriteReqQ, ppaOutBeatCnt,
                ppaOutDmaReqSent, dmaPpaWReqToRespQ, ppaEngine, ppaOutDmaRespRecv, invalPpaBuf>>
refVars    == <<mergedKtBufSgid, invalPPAListSgid>>
doneVars   == <<ktGeneratedDone, invalPpaDoneQ, mergeDoneQ>>
outputVars == <<listVars, mergerVars, refVars, tableVars, invalVars, doneVars>>

(* The references to the buffers of the results.                           *)
KtBuf    == "mergedKt"
InvalBuf == "invalPpa"

Idle == [cmds |-> <<>>, words |-> 0, done |-> 0]
PerEngine(x) == [i \in EngineNos |-> x]
PerPpa(x)    == [e \in 0 .. PpasPerWord - 1 |-> x]

-----------------------------------------------------------------------------
(* What the merger puts out: table k of merge n.                           *)
Word(n, k, w) == [merge |-> n, table |-> k, word |-> w]
Addr(n, k)    == [merge |-> n, addr |-> k]
TableOf(n, k) == [w \in 0 .. KeytableWords - 1 |-> Word(n, k, w)]

Job == Merges[merge]
Read == Len(consumed[LowL]) + Len(consumed[HighL])
AllRead == Read = Job.high + Job.low

(* driveReadFlashPPAHigh and Low, driveKtHighLvl and Low: the page at an   *)
(* address of the list is read, and its words but the last two go in.      *)
ReadTable(i) ==
  /\ i \in {LowL, HighL} /\ getPpa(i)
  /\ consumed' = [consumed EXCEPT ![i] = Append(@, Head(ppaList[i]))]
  /\ UNCHANGED <<merge, addrsOut, ended, refVars, tableVars, invalVars, doneVars>>

-----------------------------------------------------------------------------
(* The merged tables.                                                      *)
TableNo == mergerOutputCnt \div KeytableWords + 1
BeatNo  == mergerOutputCnt % KeytableWords

(* No more tables come out than went in, and the last one after all of     *)
(* them.                                                                   *)
MergerHasWord ==
  /\ merge > 0 /\ TableNo <= Job.merged /\ Read >= TableNo
  /\ TableNo = Job.merged => AllRead

getMergedKeytable ==
  LET last == TableNo = Job.merged IN
  /\ MergerHasWord
  /\ NotFull(dmaWriteOut[phase1], KeytableWords)
  /\ dmaWriteOut' = [dmaWriteOut EXCEPT ![phase1] = Append(@, Word(merge, TableNo, BeatNo))]
  /\ mergerOutputCnt' = mergerOutputCnt + 1
  /\ BeatNo = 0 => NotFull(dmaWriteReqQ, MkFIFO)
  /\ dmaWriteReqQ' = IF BeatNo = 0 THEN Append(dmaWriteReqQ, last) ELSE dmaWriteReqQ
  /\ phase1' = IF BeatNo # KeytableWords - 1 THEN phase1
               ELSE IF last THEN 0 ELSE (phase1 + 1) % Engines
  /\ UNCHANGED <<ktLastPageTrig, ktResultReqSent, phase2, dmaWriteReqToRespQ, engine,
                 ktGenerated, mergedKtBuf, ktGeneratedDone>>

genDmaWReq ==
  LET last == Head(dmaWriteReqQ) IN
  /\ NotEmpty(dmaWriteReqQ)
  /\ NotFull(engine[phase2].cmds, MkFIFO) /\ NotFull(dmaWriteReqToRespQ[phase2], 8)
  /\ last => NotFull(ktLastPageTrig, MkFIFO)
  /\ dmaWriteReqQ' = Tail(dmaWriteReqQ)
  /\ engine' = [engine EXCEPT ![phase2].cmds = Append(@,
       [sglId |-> mergedKtBufSgid, base |-> ktResultReqSent])]
  /\ dmaWriteReqToRespQ' = [dmaWriteReqToRespQ EXCEPT ![phase2] = Append(@, FALSE)]
  /\ ktResultReqSent' = IF last THEN 0 ELSE ktResultReqSent + 1
  /\ phase2' = IF last THEN 0 ELSE (phase2 + 1) % Engines
  /\ ktLastPageTrig' = IF last THEN Append(ktLastPageTrig, ktResultReqSent + 1) ELSE ktLastPageTrig
  /\ UNCHANGED <<mergerOutputCnt, phase1, dmaWriteOut, ktGenerated, mergedKtBuf, ktGeneratedDone>>

(* sendDmaWriteData, and the engine, which writes the words of its first   *)
(* command and is done with it after the last.                             *)
sendDmaWriteData(i) ==
  LET cmd == Head(engine[i].cmds)
      w == engine[i].words
      lastWord == w = KeytableWords - 1 IN
  /\ NotEmpty(engine[i].cmds) /\ NotEmpty(dmaWriteOut[i])
  /\ dmaWriteOut' = [dmaWriteOut EXCEPT ![i] = Tail(@)]
  /\ mergedKtBuf' = IF cmd.sglId = KtBuf
                    THEN [mergedKtBuf EXCEPT ![cmd.base][w] = Head(dmaWriteOut[i])]
                    ELSE mergedKtBuf
  /\ engine' = [engine EXCEPT ![i] =
       IF lastWord THEN [cmds |-> Tail(@.cmds), words |-> 0, done |-> @.done + 1]
       ELSE [@ EXCEPT !.words = w + 1]]
  /\ UNCHANGED <<mergerOutputCnt, phase1, dmaWriteReqQ, ktLastPageTrig, ktResultReqSent, phase2,
                 dmaWriteReqToRespQ, ktGenerated, ktGeneratedDone>>

(* A mutant: does not wait for the engine to be done.                      *)
EngineIsDoneNotAwaited(i) == TRUE

EngineIsDone(i) == engine[i].done > 0

dmaWriteGetResponse(i) ==
  LET end == Head(dmaWriteReqToRespQ[i]) IN
  /\ NotEmpty(dmaWriteReqToRespQ[i])
  /\ dmaWriteReqToRespQ' = [dmaWriteReqToRespQ EXCEPT ![i] = Tail(@)]
  /\ \/ /\ ~end /\ EngineIsDone(i)
        /\ engine' = [engine EXCEPT ![i].done = @ - 1]
        /\ ktGenerated' = [ktGenerated EXCEPT ![i] = @ + 1]
        /\ UNCHANGED ktGeneratedDone
     \/ /\ end /\ NotFull(ktGeneratedDone[i], MkFIFO)
        /\ ktGeneratedDone' = [ktGeneratedDone EXCEPT ![i] = Append(@, ktGenerated[i])]
        /\ ktGenerated' = [ktGenerated EXCEPT ![i] = 0]
        /\ UNCHANGED engine
  /\ UNCHANGED <<mergerOutputCnt, phase1, dmaWriteOut, dmaWriteReqQ, ktLastPageTrig,
                 ktResultReqSent, phase2, mergedKtBuf>>

(* The last table is asked for: mark the end for all engines and start to  *)
(* fetch the destinations.                                                 *)
trigLastPage ==
  /\ NotEmpty(ktLastPageTrig)
  /\ \A i \in EngineNos : NotFull(dmaWriteReqToRespQ[i], 8)
  /\ dmaWriteReqToRespQ' = [i \in EngineNos |-> Append(dmaWriteReqToRespQ[i], TRUE)]
  /\ ktLastPageTrig' = Tail(ktLastPageTrig)
  /\ startGetPpaDest(Head(ktLastPageTrig))
  /\ UNCHANGED <<mergerVars, refVars, mergerOutputCnt, phase1, dmaWriteOut, dmaWriteReqQ,
                 ktResultReqSent, phase2, engine, ktGenerated, mergedKtBuf, invalVars, doneVars>>

TableRule ==
  /\ \/ getMergedKeytable \/ genDmaWReq
     \/ \E i \in EngineNos : sendDmaWriteData(i) \/ dmaWriteGetResponse(i)
  /\ UNCHANGED <<listVars, mergerVars, refVars, invalVars, invalPpaDoneQ, mergeDoneQ>>

-----------------------------------------------------------------------------
(* The invalidated addresses, gathered to words and the words to bursts;   *)
(* the last burst is filled up with zeros.                                 *)
Zero == [merge |-> 0, addr |-> 0]   \* no address

(* Numbers of addresses in a burst and in a word, in their registers.      *)
InBurst(n) == n % PpasPerBurst
InWord(n)  == n % PpasPerWord
LastOfWord(n) == InWord(n) = PpasPerWord - 1

MergerHasAddr == merge > 0 /\ addrsOut < Job.invalid
                 /\ \A i \in {LowL, HighL} : consumed[i] # <<>>
MergerHasAddrEnd == merge > 0 /\ AllRead /\ addrsOut = Job.invalid /\ ~ended

CollectAddr ==
  LET addr == Addr(merge, addrsOut + 1) IN
  /\ MergerHasAddr
  /\ addrsOut' = addrsOut + 1 /\ collectedCnt' = collectedCnt + 1
  /\ ppa4BBuf' = [ppa4BBuf EXCEPT ![InWord(collectedCnt)] = addr]
  /\ LastOfWord(collectedCnt) => NotFull(ppaDmaWordBuf, MkFIFO)
  /\ ppaDmaWordBuf' = IF LastOfWord(collectedCnt)
                      THEN Append(ppaDmaWordBuf, [ppa4BBuf EXCEPT ![PpasPerWord - 1] = addr])
                      ELSE ppaDmaWordBuf
  /\ UNCHANGED <<ended, ppaWDmaDoneSignal, padCnt, padPhase, invalAddrFlush>>

CollectEnd ==
  LET entriesInBurst == InBurst(collectedCnt) IN
  /\ MergerHasAddrEnd /\ NotFull(ppaWDmaDoneSignal, MkFIFO)
  /\ ended' = TRUE /\ collectedCnt' = 0
  /\ ppaWDmaDoneSignal' = Append(ppaWDmaDoneSignal, collectedCnt)
  /\ IF entriesInBurst # 0
     THEN /\ padCnt' = InBurst(PpasPerBurst - entriesInBurst) /\ padPhase' = InWord(collectedCnt)
          /\ invalAddrFlush' = TRUE
     ELSE UNCHANGED <<padCnt, padPhase, invalAddrFlush>>
  /\ UNCHANGED <<addrsOut, ppa4BBuf, ppaDmaWordBuf>>

collectInvalAddr ==
  /\ ~invalAddrFlush /\ (CollectAddr \/ CollectEnd)
  /\ UNCHANGED <<merge, consumed, dmaPpaWriteOut, dmaPpaWriteReqQ, ppaOutBeatCnt,
                 ppaOutDmaReqSent, dmaPpaWReqToRespQ, ppaEngine, ppaOutDmaRespRecv, invalPpaBuf,
                 invalPpaDoneQ>>

PadDone == padCnt = 1

collectInvalAddr2 ==
  LET full == padPhase = PpasPerWord - 1 IN
  /\ invalAddrFlush
  /\ ppa4BBuf' = [ppa4BBuf EXCEPT ![padPhase] = Zero]
  /\ full => NotFull(ppaDmaWordBuf, MkFIFO)
  /\ ppaDmaWordBuf' = IF full THEN Append(ppaDmaWordBuf, [ppa4BBuf EXCEPT ![padPhase] = Zero])
                      ELSE ppaDmaWordBuf
  /\ padPhase' = InWord(padPhase + 1) /\ padCnt' = InBurst(padCnt + PpasPerBurst - 1)
  /\ invalAddrFlush' = ~PadDone
  /\ UNCHANGED <<mergerVars, collectedCnt, ppaWDmaDoneSignal, dmaPpaWriteOut, dmaPpaWriteReqQ,
                 ppaOutBeatCnt, ppaOutDmaReqSent, dmaPpaWReqToRespQ, ppaEngine,
                 ppaOutDmaRespRecv, invalPpaBuf, invalPpaDoneQ>>

sendPpaToHost ==
  LET last == ppaOutBeatCnt = WordsPerBurst - 1 IN
  /\ NotEmpty(ppaDmaWordBuf) /\ NotFull(dmaPpaWriteOut, WordsPerBurst)
  /\ dmaPpaWriteOut' = Append(dmaPpaWriteOut, Head(ppaDmaWordBuf))
  /\ ppaDmaWordBuf' = Tail(ppaDmaWordBuf)
  /\ last => NotFull(dmaPpaWriteReqQ, MkFIFO)
  /\ dmaPpaWriteReqQ' = IF last THEN Append(dmaPpaWriteReqQ, TRUE) ELSE dmaPpaWriteReqQ
  /\ ppaOutBeatCnt' = IF last THEN 0 ELSE ppaOutBeatCnt + 1
  /\ UNCHANGED <<mergerVars, collectedCnt, ppa4BBuf, invalAddrFlush, padCnt, padPhase,
                 ppaWDmaDoneSignal, ppaOutDmaReqSent, dmaPpaWReqToRespQ, ppaEngine,
                 ppaOutDmaRespRecv, invalPpaBuf, invalPpaDoneQ>>

genDmaPpaWReq ==
  /\ NotEmpty(dmaPpaWriteReqQ)
  /\ NotFull(ppaEngine.cmds, MkFIFO) /\ NotFull(dmaPpaWReqToRespQ, MkFIFO)
  /\ dmaPpaWriteReqQ' = Tail(dmaPpaWriteReqQ)
  /\ ppaEngine' = [ppaEngine EXCEPT !.cmds = Append(@,
       [sglId |-> invalPPAListSgid, base |-> ppaOutDmaReqSent])]
  /\ dmaPpaWReqToRespQ' = Append(dmaPpaWReqToRespQ, TRUE)
  /\ ppaOutDmaReqSent' = ppaOutDmaReqSent + 1
  /\ UNCHANGED <<mergerVars, collectedCnt, ppa4BBuf, ppaDmaWordBuf, invalAddrFlush, padCnt,
                 padPhase, ppaWDmaDoneSignal, dmaPpaWriteOut, ppaOutBeatCnt, ppaOutDmaRespRecv,
                 invalPpaBuf, invalPpaDoneQ>>

sendPpaDmaData ==
  LET cmd == Head(ppaEngine.cmds)
      at == (cmd.base * WordsPerBurst + ppaEngine.words) * PpasPerWord
      lastWord == ppaEngine.words = WordsPerBurst - 1 IN
  /\ NotEmpty(ppaEngine.cmds) /\ NotEmpty(dmaPpaWriteOut)
  /\ dmaPpaWriteOut' = Tail(dmaPpaWriteOut)
  /\ invalPpaBuf' = [e \in DOMAIN invalPpaBuf |->
       IF cmd.sglId = InvalBuf /\ e \in at .. at + PpasPerWord - 1
       THEN Head(dmaPpaWriteOut)[e - at] ELSE invalPpaBuf[e]]
  /\ ppaEngine' = IF lastWord
       THEN [cmds |-> Tail(ppaEngine.cmds), words |-> 0, done |-> ppaEngine.done + 1]
       ELSE [ppaEngine EXCEPT !.words = @ + 1]
  /\ UNCHANGED <<mergerVars, collectedCnt, ppa4BBuf, ppaDmaWordBuf, invalAddrFlush, padCnt,
                 padPhase, ppaWDmaDoneSignal, dmaPpaWriteReqQ, ppaOutBeatCnt, ppaOutDmaReqSent,
                 dmaPpaWReqToRespQ, ppaOutDmaRespRecv, invalPpaDoneQ>>

ppaDmaGetResponse ==
  /\ NotEmpty(dmaPpaWReqToRespQ) /\ ppaEngine.done > 0
  /\ dmaPpaWReqToRespQ' = Tail(dmaPpaWReqToRespQ)
  /\ ppaEngine' = [ppaEngine EXCEPT !.done = @ - 1]
  /\ ppaOutDmaRespRecv' = ppaOutDmaRespRecv + 1
  /\ UNCHANGED <<mergerVars, collectedCnt, ppa4BBuf, ppaDmaWordBuf, invalAddrFlush, padCnt,
                 padPhase, ppaWDmaDoneSignal, dmaPpaWriteOut, dmaPpaWriteReqQ, ppaOutBeatCnt,
                 ppaOutDmaReqSent, invalPpaBuf, invalPpaDoneQ>>

BurstsOf(n) == n \div PpasPerBurst + (IF InBurst(n) # 0 THEN 1 ELSE 0)

doneDma ==
  LET numPpas == Head(ppaWDmaDoneSignal) IN
  /\ NotEmpty(ppaWDmaDoneSignal) /\ ppaOutDmaRespRecv = BurstsOf(numPpas)
  /\ NotFull(invalPpaDoneQ, MkFIFO)
  /\ invalPpaDoneQ' = Append(invalPpaDoneQ, numPpas)
  /\ ppaWDmaDoneSignal' = Tail(ppaWDmaDoneSignal)
  /\ ppaOutDmaReqSent' = 0 /\ ppaOutDmaRespRecv' = 0
  /\ UNCHANGED <<mergerVars, collectedCnt, ppa4BBuf, ppaDmaWordBuf, invalAddrFlush, padCnt,
                 padPhase, dmaPpaWriteOut, dmaPpaWriteReqQ, ppaOutBeatCnt, dmaPpaWReqToRespQ,
                 ppaEngine, invalPpaBuf>>

InvalRule ==
  /\ \/ collectInvalAddr \/ collectInvalAddr2 \/ sendPpaToHost \/ genDmaPpaWReq
     \/ sendPpaDmaData \/ ppaDmaGetResponse \/ doneDma
  /\ UNCHANGED <<listVars, refVars, tableVars, ktGeneratedDone, mergeDoneQ>>

-----------------------------------------------------------------------------
(* A merge is done when every engine and the addresses are.                *)
indMergeDone ==
  /\ \A i \in EngineNos : NotEmpty(ktGeneratedDone[i])
  /\ NotEmpty(invalPpaDoneQ) /\ NotFull(mergeDoneQ, MkFIFO)
  /\ mergeDoneQ' = Append(mergeDoneQ,
       [numKt |-> SumFunction([i \in EngineNos |-> Head(ktGeneratedDone[i])]),
        numInvalAddr |-> Head(invalPpaDoneQ)])
  /\ ktGeneratedDone' = [i \in EngineNos |-> Tail(ktGeneratedDone[i])]
  /\ invalPpaDoneQ' = Tail(invalPpaDoneQ)
  /\ UNCHANGED <<listVars, mergerVars, refVars, tableVars, invalVars>>

(* What the host reserves for the results.                                 *)
MaxTables == Max({Merges[n].merged : n \in DOMAIN Merges})
MaxBursts == Max({BurstsOf(Merges[n].invalid) : n \in DOMAIN Merges})

(* startCompaction, setDmaKtPpaRef and setDmaKtOutputRef, which one rule   *)
(* of pink calls together.                                                 *)
startMerge(n, num, destPpaFlag, ref) ==
  /\ setDestPpaFlag(destPpaFlag) /\ startGetPpa(num)
  /\ setDmaKtPpaRef(ref.high, ref.low, ref.res1, ref.res2)
  /\ mergedKtBufSgid' = ref.ktBuf /\ invalPPAListSgid' = ref.invalPpa
  /\ merge' = n /\ consumed' = NoQueue /\ addrsOut' = 0 /\ ended' = FALSE
  /\ UNCHANGED <<tableVars, invalVars, doneVars>>

OutputInit ==
  /\ ListInit /\ mergedKtBufSgid = NoRef /\ invalPPAListSgid = NoRef
  /\ merge = 0 /\ consumed = NoQueue /\ addrsOut = 0 /\ ended = FALSE
  /\ mergerOutputCnt = 0 /\ phase1 = 0 /\ dmaWriteOut = PerEngine(<<>>) /\ dmaWriteReqQ = <<>>
  /\ ktLastPageTrig = <<>> /\ ktResultReqSent = 0 /\ phase2 = 0
  /\ dmaWriteReqToRespQ = PerEngine(<<>>) /\ engine = PerEngine(Idle)
  /\ ktGenerated = PerEngine(0) /\ ktGeneratedDone = PerEngine(<<>>)
  /\ collectedCnt = 0 /\ ppa4BBuf = PerPpa(Zero) /\ ppaDmaWordBuf = <<>>
  /\ invalAddrFlush = FALSE /\ padCnt = 0 /\ padPhase = 0 /\ ppaWDmaDoneSignal = <<>>
  /\ dmaPpaWriteOut = <<>> /\ dmaPpaWriteReqQ = <<>> /\ ppaOutBeatCnt = 0
  /\ ppaOutDmaReqSent = 0 /\ dmaPpaWReqToRespQ = <<>> /\ ppaEngine = Idle
  /\ ppaOutDmaRespRecv = 0 /\ invalPpaDoneQ = <<>> /\ mergeDoneQ = <<>>
  /\ mergedKtBuf = [k \in 0 .. MaxTables - 1 |-> [w \in 0 .. KeytableWords - 1 |-> NoWord]]
  /\ invalPpaBuf = [e \in 0 .. MaxBursts * PpasPerBurst - 1 |-> NoWord]

(* The reset before a compaction: all of it but the engines and what they  *)
(* have written.                                                           *)
ResetOutput ==
  /\ ResetLists /\ mergedKtBufSgid' = NoRef /\ invalPPAListSgid' = NoRef
  /\ merge' = 0 /\ consumed' = NoQueue /\ addrsOut' = 0 /\ ended' = FALSE
  /\ mergerOutputCnt' = 0 /\ phase1' = 0 /\ dmaWriteOut' = PerEngine(<<>>) /\ dmaWriteReqQ' = <<>>
  /\ ktLastPageTrig' = <<>> /\ ktResultReqSent' = 0 /\ phase2' = 0
  /\ dmaWriteReqToRespQ' = PerEngine(<<>>)
  /\ ktGenerated' = PerEngine(0) /\ ktGeneratedDone' = PerEngine(<<>>)
  /\ collectedCnt' = 0 /\ ppa4BBuf' = PerPpa(Zero) /\ ppaDmaWordBuf' = <<>>
  /\ invalAddrFlush' = FALSE /\ padCnt' = 0 /\ padPhase' = 0 /\ ppaWDmaDoneSignal' = <<>>
  /\ dmaPpaWriteOut' = <<>> /\ dmaPpaWriteReqQ' = <<>> /\ ppaOutBeatCnt' = 0
  /\ ppaOutDmaReqSent' = 0 /\ dmaPpaWReqToRespQ' = <<>>
  /\ ppaOutDmaRespRecv' = 0 /\ invalPpaDoneQ' = <<>> /\ mergeDoneQ' = <<>>
  /\ UNCHANGED <<engine, ppaEngine, mergedKtBuf, invalPpaBuf>>
=============================================================================
