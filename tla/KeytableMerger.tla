--------------------------- MODULE KeytableMerger ---------------------------
(***************************************************************************)
(* The merger of key tables (modules/keytable_merger/KeytableMerger.bsv):  *)
(* two levels of sorted tables go in word by word, one level of sorted     *)
(* tables comes out.  Of two entries with the same key the high level's    *)
(* stays; the address of the other one is reported as invalid.             *)
(*                                                                         *)
(* A table is a sequence of entries, an entry an address and a key; a key  *)
(* has one symbol per word and keys are ordered like byte strings.  Words  *)
(* are counted where the code counts bytes and shifts.  The FIFOs that the *)
(* tables come in and go out by only delay, so splitHeader reads its word  *)
(* from the table and newKT adds its word to created, the words put out.   *)
(***************************************************************************)
EXTENDS BsvFifo, Integers, SequencesExt

CONSTANTS
  KtHeaderWords,  (* 64: words of a table's header                         *)
  KeytableWords,  (* 512: words of a table                                 *)
  WordElems,      (* 8: elements of a header word                          *)
  MaxBeats,       (* 16: words of an entry                                 *)
  Inputs,         (* bound: the pairs of levels to merge                   *)
  NoWord          (* no word                                               *)

High == 0
Low  == 1
Levels == {High, Low}
Other(i) == 1 - i
Pad   == -1       (* an element, or the elements, of no meaning            *)
Ended == -1       (* "tagged Invalid" behind the last entry                *)

KtHeaderElems == KtHeaderWords * WordElems
BodyWords     == KeytableWords - KtHeaderWords

ASSUME KeytableAssumption ==
  /\ WordElems \in Nat /\ WordElems > 3
  /\ KtHeaderWords \in Nat /\ MaxBeats \in 1 .. KtHeaderWords
  /\ KeytableWords \in Nat /\ BodyWords \in MaxBeats .. KtHeaderElems - 2

-----------------------------------------------------------------------------
(* The format of a table: in the header the number of entries and where    *)
(* each of them starts and the last one ends, then the entries.            *)
Beats(e) == Len(e.key)
SizeOf(t) == FoldLeft(LAMBDA n, e : n + Beats(e), 0, t)
WordsOf(e) == [k \in 1 .. Beats(e) |->
                 [sym |-> e.key[k], addr |-> IF k = 1 THEN e.addr ELSE Pad]]
Body(t) == FlattenSeq([n \in DOMAIN t |-> WordsOf(t[n])])

HeaderElem(t, k) ==
  IF k = 0 THEN Len(t)
  ELSE IF k <= Len(t) + 1 THEN KtHeaderWords + SizeOf(SubSeq(t, 1, k - 1)) ELSE Pad

TableWord(t, beat) ==
  IF beat < KtHeaderWords
  THEN [elems |-> [j \in 0 .. WordElems - 1 |-> HeaderElem(t, beat * WordElems + j)]]
  ELSE IF beat - KtHeaderWords < SizeOf(t) THEN Body(t)[beat - KtHeaderWords + 1]
  ELSE NoWord
PadHeader == [j \in 0 .. WordElems - 1 |-> Pad]

(* How the code's two comparisons order two words.                         *)
Compare(w, v) == IF w.sym > v.sym THEN "GT" ELSE IF w.sym < v.sym THEN "LT" ELSE "EQ"

-----------------------------------------------------------------------------
VARIABLES
  levels,            \* the tables of this merge: levels[i]
  numKeytable, keytableInBeat, numEnt, lastEntOffset,        \* [i]
  hdrParserBuf,      \* [i][j]
  hdrParserIsLast, scannedHdrElems, numKtEntries, prevOffset, \* [i]
  ktEntryStream, ktBeatCntStream,                            \* [i]
  curMStatus, decPhaseCnt,
  entryBuf,          \* [i]: h_entryBuf and l_entryBuf
  entryBeatSent,     \* [i]
  newEntryBuf, mergedSizeInfo, collectedAddrQ,
  newHeaderEntries, newHdrCnt, ktOffset, newHeaderBuf, newKtTrig,
  outKtBeatCnt,
  created,           \* ghost: what getMergedKt gave: [last, word]
  invalidated        \* ghost: what getInvalidatedAddr gave

splitVars == <<numKeytable, keytableInBeat, numEnt, lastEntOffset>>
parseVars == <<scannedHdrElems, numKtEntries, prevOffset>>
hdrVars   == <<hdrParserBuf, hdrParserIsLast>>
mergeVars == <<curMStatus, decPhaseCnt, entryBuf, entryBeatSent>>
headVars  == <<newHeaderEntries, newHdrCnt, ktOffset>>
outVars   == <<outKtBeatCnt, created>>
addrVars  == <<collectedAddrQ, invalidated>>
vars == <<levels, splitVars, parseVars, hdrVars, ktEntryStream, ktBeatCntStream, mergeVars,
          newEntryBuf, mergedSizeInfo, headVars, newHeaderBuf, newKtTrig, outVars, addrVars>>

Init ==
  /\ levels \in Inputs
  /\ numKeytable = [i \in Levels |-> Len(levels[i])]
  /\ keytableInBeat = [i \in Levels |-> 0]
  /\ numEnt = [i \in Levels |-> 0] /\ lastEntOffset = [i \in Levels |-> 0]
  /\ hdrParserBuf = [i \in Levels |-> [j \in 0 .. WordElems - 1 |-> <<>>]]
  /\ hdrParserIsLast = [i \in Levels |-> <<>>]
  /\ scannedHdrElems = [i \in Levels |-> 0]
  /\ numKtEntries = [i \in Levels |-> 0] /\ prevOffset = [i \in Levels |-> 0]
  /\ ktEntryStream = [i \in Levels |-> <<>>] /\ ktBeatCntStream = [i \in Levels |-> <<>>]
  /\ curMStatus = "DECISION" /\ decPhaseCnt = 0
  /\ entryBuf = [i \in Levels |-> [k \in 0 .. MaxBeats - 1 |-> NoWord]]
  /\ entryBeatSent = [i \in Levels |-> 0]
  /\ newEntryBuf = <<>> /\ mergedSizeInfo = <<>> /\ collectedAddrQ = <<>>
  /\ newHeaderEntries = PadHeader /\ newHdrCnt = 0 /\ ktOffset = 0
  /\ newHeaderBuf = <<>> /\ newKtTrig = <<>> /\ outKtBeatCnt = 0
  /\ created = <<>> /\ invalidated = <<>>

(* A merge has ended when the last table and the end of the addresses are  *)
(* out; the user starts the next one then, and nothing is reset.           *)
MergeEnded ==
  /\ created # <<>> /\ created[Len(created)].last /\ Len(created) % KeytableWords = 0
  /\ invalidated # <<>> /\ invalidated[Len(invalidated)] = Ended

RunMerge ==
  /\ MergeEnded /\ \A i \in Levels : numKeytable[i] = 0
  /\ levels' \in Inputs
  /\ numKeytable' = [i \in Levels |-> Len(levels'[i])]
  /\ keytableInBeat' = [i \in Levels |-> 0]
  /\ created' = <<>> /\ invalidated' = <<>>
  /\ UNCHANGED <<numEnt, lastEntOffset, parseVars, hdrVars, ktEntryStream, ktBeatCntStream,
                 mergeVars, newEntryBuf, mergedSizeInfo, headVars, newHeaderBuf, newKtTrig,
                 outKtBeatCnt, collectedAddrQ>>

-----------------------------------------------------------------------------
(* The tables of a level are taken apart: elements of the header go to the *)
(* parser, words of the entries to the merge, the rest is dropped.         *)
InTable(i) == levels[i][Len(levels[i]) - numKeytable[i] + 1]
InWord(i)  == TableWord(InTable(i), keytableInBeat[i])

SplitHeaderWord(i) ==
  LET w == InWord(i).elems
      first == keytableInBeat[i] = 0
      n == IF first THEN w[0] ELSE numEnt[i] IN   \* entries of this table
  /\ numKeytable[i] > 0 /\ keytableInBeat[i] < KtHeaderWords
  /\ \A j \in 0 .. WordElems - 1 : NotFull(hdrParserBuf[i][j], KtHeaderWords)
  /\ hdrParserBuf' = [hdrParserBuf EXCEPT ![i] = [j \in 0 .. WordElems - 1 |-> Append(@[j], w[j])]]
  /\ keytableInBeat' = [keytableInBeat EXCEPT ![i] = @ + 1]
  /\ numEnt' = [numEnt EXCEPT ![i] = n]
  /\ first => NotFull(hdrParserIsLast[i], MkFIFO)
  /\ hdrParserIsLast' = IF first THEN [hdrParserIsLast EXCEPT ![i] = Append(@, numKeytable[i] = 1)]
                        ELSE hdrParserIsLast
  /\ lastEntOffset' = IF keytableInBeat[i] = (n + 1) \div WordElems
                      THEN [lastEntOffset EXCEPT ![i] = w[(n + 1) % WordElems]] ELSE lastEntOffset
  /\ UNCHANGED numKeytable

SplitBodyWord(i) ==
  LET passed == keytableInBeat[i] < lastEntOffset[i]
      last == keytableInBeat[i] = KeytableWords - 1 IN
  /\ numKeytable[i] > 0 /\ keytableInBeat[i] >= KtHeaderWords
  /\ passed => NotFull(ktEntryStream[i], MkFIFO)
  /\ ktEntryStream' = IF passed THEN [ktEntryStream EXCEPT ![i] = Append(@, InWord(i))]
                      ELSE ktEntryStream
  /\ keytableInBeat' = [keytableInBeat EXCEPT ![i] = IF last THEN 0 ELSE @ + 1]
  /\ numKeytable' = [numKeytable EXCEPT ![i] = IF last THEN @ - 1 ELSE @]
  /\ UNCHANGED <<numEnt, lastEntOffset>>

splitHeader(i) ==
  /\ \/ SplitHeaderWord(i) /\ UNCHANGED ktEntryStream
     \/ SplitBodyWord(i) /\ UNCHANGED hdrVars
  /\ UNCHANGED <<levels, parseVars, ktBeatCntStream, mergeVars, newEntryBuf, mergedSizeInfo,
                 headVars, newHeaderBuf, newKtTrig, outVars, addrVars>>

(* The parser takes elements from the heads of the given buffers.          *)
TakeElems(i, bufs) ==
  /\ \A j \in bufs : NotEmpty(hdrParserBuf[i][j])
  /\ hdrParserBuf' = [hdrParserBuf EXCEPT ![i] =
                        [j \in 0 .. WordElems - 1 |-> IF j \in bufs THEN Tail(@[j]) ELSE @[j]]]
Scanned(i, n) == scannedHdrElems' = [scannedHdrElems EXCEPT ![i] = IF @ + n = KtHeaderElems THEN 0 ELSE @ + n]
BufOf(elem) == elem % WordElems

ParseCount(i) ==
  /\ scannedHdrElems[i] = 0
  /\ TakeElems(i, {0, 1}) /\ Scanned(i, 2)
  /\ numKtEntries' = [numKtEntries EXCEPT ![i] =
       IF Head(hdrParserBuf[i][0]) > KtHeaderElems - 2 THEN KtHeaderElems - 2
       ELSE Head(hdrParserBuf[i][0])]
  /\ prevOffset' = [prevOffset EXCEPT ![i] = KtHeaderWords]
  /\ UNCHANGED <<hdrParserIsLast, ktBeatCntStream>>

ParseOffset(i) ==
  LET b == BufOf(scannedHdrElems[i])
      nextOffset == Head(hdrParserBuf[i][b]) IN
  /\ scannedHdrElems[i] # 0 /\ scannedHdrElems[i] < numKtEntries[i] + 2
  /\ TakeElems(i, {b}) /\ Scanned(i, 1) /\ NotFull(ktBeatCntStream[i], MkFIFO)
  /\ ktBeatCntStream' = [ktBeatCntStream EXCEPT ![i] = Append(@, nextOffset - prevOffset[i])]
  /\ prevOffset' = [prevOffset EXCEPT ![i] = nextOffset]
  /\ UNCHANGED <<hdrParserIsLast, numKtEntries>>

(* A mutant: looks one element behind the end of the last entry.           *)
BehindLastEntryLate(i) == scannedHdrElems[i] = numKtEntries[i] + 3

BehindLastEntry(i) == scannedHdrElems[i] = numKtEntries[i] + 2

(* The rest of the header, a word's worth of elements at a time.           *)
ParseRest(i) ==
  LET s == scannedHdrElems[i]
      lastTable == BehindLastEntry(i) /\ Head(hdrParserIsLast[i]) IN
  /\ s # 0 /\ s >= numKtEntries[i] + 2
  /\ IF KtHeaderElems - s >= WordElems THEN TakeElems(i, 0 .. WordElems - 1) /\ Scanned(i, WordElems)
     ELSE TakeElems(i, {BufOf(s)}) /\ Scanned(i, 1)
  /\ lastTable => NotFull(ktBeatCntStream[i], MkFIFO)
  /\ hdrParserIsLast' = IF BehindLastEntry(i) THEN [hdrParserIsLast EXCEPT ![i] = Tail(@)] ELSE hdrParserIsLast
  /\ ktBeatCntStream' = IF lastTable THEN [ktBeatCntStream EXCEPT ![i] = Append(@, Ended)]
                        ELSE ktBeatCntStream
  /\ UNCHANGED <<numKtEntries, prevOffset>>

parseHeader(i) ==
  /\ ParseCount(i) \/ ParseOffset(i) \/ ParseRest(i)
  /\ UNCHANGED <<levels, splitVars, ktEntryStream, mergeVars, newEntryBuf, mergedSizeInfo,
                 headVars, newHeaderBuf, newKtTrig, outVars, addrVars>>
-----------------------------------------------------------------------------
(* The merge.  Words of an entry that were compared and found equal wait   *)
(* in entryBuf; the others are still in the stream.                        *)
InBuf(i, k)   == entryBuf[i][k] # NoWord
HasWord(i, k) == InBuf(i, k) \/ NotEmpty(ktEntryStream[i])
WordAt(i, k)  == IF InBuf(i, k) THEN entryBuf[i][k] ELSE Head(ktEntryStream[i])
IsEnded(i)    == Head(ktBeatCntStream[i]) = Ended
BeatsOf(i)    == Head(ktBeatCntStream[i])
MoreBeats(i)  == BeatsOf(i) - decPhaseCnt > 1
Flush(i)      == IF i = High THEN "HIGH_FLUSH" ELSE "LOW_FLUSH"

BothCounted == \A i \in Levels : NotEmpty(ktBeatCntStream[i])

TakeFromStream(i, k) ==
  ktEntryStream' = IF InBuf(i, k) THEN ktEntryStream ELSE [ktEntryStream EXCEPT ![i] = Tail(@)]

(* A word of the entry at the head of level i goes to the new table.       *)
PassWord(i, k) ==
  /\ HasWord(i, k) /\ NotFull(newEntryBuf, KeytableWords)
  /\ newEntryBuf' = Append(newEntryBuf, WordAt(i, k))
  /\ entryBuf' = [entryBuf EXCEPT ![i][k] = NoWord]
  /\ TakeFromStream(i, k)

EntryPassed(i) ==
  /\ NotFull(mergedSizeInfo, MkFIFO)
  /\ mergedSizeInfo' = Append(mergedSizeInfo, BeatsOf(i))
  /\ ktBeatCntStream' = [ktBeatCntStream EXCEPT ![i] = Tail(@)]

(* In flushTable, where one level has ended, decPhaseCnt is 0 already.     *)
PassFirstWord(i) ==
  /\ PassWord(i, 0)
  /\ \/ /\ BeatsOf(i) = 1 /\ EntryPassed(i)
        /\ UNCHANGED <<curMStatus, decPhaseCnt, entryBeatSent>>
     \/ /\ BeatsOf(i) # 1
        /\ curMStatus' = Flush(i) /\ decPhaseCnt' = 0
        /\ entryBeatSent' = [entryBeatSent EXCEPT ![i] = 1]
        /\ UNCHANGED <<mergedSizeInfo, ktBeatCntStream>>
  /\ UNCHANGED addrVars

BothEnd ==
  /\ \A i \in Levels : IsEnded(i)
  /\ NotFull(mergedSizeInfo, MkFIFO) /\ NotFull(collectedAddrQ, MkFIFO)
  /\ ktBeatCntStream' = [i \in Levels |-> Tail(ktBeatCntStream[i])]
  /\ mergedSizeInfo' = Append(mergedSizeInfo, Ended)
  /\ collectedAddrQ' = Append(collectedAddrQ, Ended)
  /\ UNCHANGED <<ktEntryStream, mergeVars, newEntryBuf, invalidated>>

flushTable ==
  /\ curMStatus = "DECISION" /\ BothCounted
  /\ \/ BothEnd
     \/ \E i \in Levels : IsEnded(Other(i)) /\ ~IsEnded(i) /\ PassFirstWord(i)

(* Word decPhaseCnt of both entries is compared; the smaller entry goes.   *)
decision1 ==
  LET res == Compare(WordAt(High, decPhaseCnt), WordAt(Low, decPhaseCnt)) IN
  /\ curMStatus = "DECISION" /\ BothCounted
  /\ \A i \in Levels : ~IsEnded(i) /\ HasWord(i, decPhaseCnt)
  /\ \/ res = "GT" /\ PassFirstWord(Low)
     \/ res = "LT" /\ PassFirstWord(High)
     \/ /\ res = "EQ" /\ curMStatus' = "PROC_EQ"
        /\ UNCHANGED <<ktEntryStream, ktBeatCntStream, decPhaseCnt, entryBuf, entryBeatSent,
                       newEntryBuf, mergedSizeInfo, addrVars>>

(* The words are equal and both entries go on: keep them and compare the   *)
(* next ones.                                                              *)
CompareNext ==
  /\ \A i \in Levels : MoreBeats(i) /\ HasWord(i, decPhaseCnt)
  /\ curMStatus' = "DECISION" /\ decPhaseCnt' = decPhaseCnt + 1
  /\ entryBuf' = [i \in Levels |-> [entryBuf[i] EXCEPT ![decPhaseCnt] = WordAt(i, decPhaseCnt)]]
  /\ ktEntryStream' = [i \in Levels |->
       IF InBuf(i, decPhaseCnt) THEN ktEntryStream[i] ELSE Tail(ktEntryStream[i])]
  /\ UNCHANGED <<ktBeatCntStream, collectedAddrQ>>

(* One key is the beginning of the other one: the shorter entry goes.      *)
ShorterGoes(i) ==
  /\ ~MoreBeats(i) /\ MoreBeats(Other(i))
  /\ curMStatus' = Flush(i) /\ decPhaseCnt' = 0
  /\ UNCHANGED <<ktEntryStream, ktBeatCntStream, entryBuf, collectedAddrQ>>

(* A mutant: leaves the words of the removed entry in the buffer.          *)
EqualKeysKeepsWords ==
  /\ \A i \in Levels : ~MoreBeats(i)
  /\ HasWord(Low, decPhaseCnt)
  /\ curMStatus' = "HIGH_FLUSH" /\ decPhaseCnt' = 0
  /\ TakeFromStream(Low, decPhaseCnt)
  /\ ktBeatCntStream' = [ktBeatCntStream EXCEPT ![Low] = Tail(@)]
  /\ collectedAddrQ' = IF NotFull(collectedAddrQ, MkFIFO)
                       THEN Append(collectedAddrQ, WordAt(Low, 0).addr) ELSE collectedAddrQ
  /\ UNCHANGED entryBuf

(* The keys are equal: the high level's entry goes, the low level's is     *)
(* removed. Its address is dropped if nobody has room for it.              *)
EqualKeys ==
  /\ \A i \in Levels : ~MoreBeats(i)
  /\ HasWord(Low, decPhaseCnt)
  /\ curMStatus' = "HIGH_FLUSH" /\ decPhaseCnt' = 0
  /\ TakeFromStream(Low, decPhaseCnt)
  /\ ktBeatCntStream' = [ktBeatCntStream EXCEPT ![Low] = Tail(@)]
  /\ entryBuf' = [entryBuf EXCEPT ![Low] = [k \in 0 .. MaxBeats - 1 |-> NoWord]]
  /\ collectedAddrQ' = IF NotFull(collectedAddrQ, MkFIFO)
                       THEN Append(collectedAddrQ, WordAt(Low, 0).addr) ELSE collectedAddrQ

procEq ==
  /\ curMStatus = "PROC_EQ"
  /\ CompareNext \/ (\E i \in Levels : ShorterGoes(i)) \/ EqualKeys
  /\ UNCHANGED <<entryBeatSent, newEntryBuf, mergedSizeInfo, invalidated>>

(* h_flushEntry and l_flushEntry: the rest of the smaller entry.           *)
LastBeat(i) == entryBeatSent[i] >= BeatsOf(i) - 1
flushEntry(i) ==
  /\ curMStatus = Flush(i) /\ NotEmpty(ktBeatCntStream[i])
  /\ PassWord(i, entryBeatSent[i])
  /\ \/ /\ ~LastBeat(i)
        /\ entryBeatSent' = [entryBeatSent EXCEPT ![i] = @ + 1]
        /\ UNCHANGED <<curMStatus, mergedSizeInfo, ktBeatCntStream>>
     \/ /\ LastBeat(i) /\ EntryPassed(i)
        /\ entryBeatSent' = [entryBeatSent EXCEPT ![i] = 0]
        /\ curMStatus' = "DECISION"
  /\ UNCHANGED <<decPhaseCnt, addrVars>>

Merge ==
  /\ flushTable \/ decision1 \/ procEq \/ (\E i \in Levels : flushEntry(i))
  /\ UNCHANGED <<levels, splitVars, parseVars, hdrVars, headVars, newHeaderBuf, newKtTrig, outVars>>

(* getInvalidatedAddr                                                      *)
GetInvalidatedAddr ==
  /\ NotEmpty(collectedAddrQ)
  /\ invalidated' = Append(invalidated, Head(collectedAddrQ))
  /\ collectedAddrQ' = Tail(collectedAddrQ)
  /\ UNCHANGED <<levels, splitVars, parseVars, hdrVars, ktEntryStream, ktBeatCntStream, mergeVars,
                 newEntryBuf, mergedSizeInfo, headVars, newHeaderBuf, newKtTrig, outVars>>

-----------------------------------------------------------------------------
(* The header of the new table is made from the sizes of the entries.  An  *)
(* entry that does not fit any more ends the table and stays for the next. *)
NextSize == Head(mergedSizeInfo)
Fits     == ktOffset + NextSize <= KeytableWords
InHeaderWord(n) == n % WordElems

FirstElems ==
  /\ NextSize # Ended /\ newHdrCnt = 0
  /\ newHeaderEntries' = [newHeaderEntries EXCEPT ![0] = Pad, ![1] = KtHeaderWords,
                                                  ![2] = KtHeaderWords + NextSize]
  /\ ktOffset' = KtHeaderWords + NextSize /\ newHdrCnt' = newHdrCnt + 3
  /\ mergedSizeInfo' = Tail(mergedSizeInfo)
  /\ UNCHANGED <<newHeaderBuf, newKtTrig>>

NextElem ==
  LET e == InHeaderWord(newHdrCnt)
      full == e = WordElems - 1 IN
  /\ NextSize # Ended /\ newHdrCnt # 0 /\ Fits
  /\ newHeaderEntries' = [newHeaderEntries EXCEPT ![e] = ktOffset + NextSize]
  /\ ktOffset' = ktOffset + NextSize /\ newHdrCnt' = newHdrCnt + 1
  /\ mergedSizeInfo' = Tail(mergedSizeInfo)
  /\ full => NotFull(newHeaderBuf, KtHeaderWords)
  /\ newHeaderBuf' = IF full THEN Append(newHeaderBuf, newHeaderEntries') ELSE newHeaderBuf
  /\ UNCHANGED newKtTrig

EndTable ==
  LET e == InHeaderWord(newHdrCnt)
      last == NextSize = Ended IN
  /\ last \/ (newHdrCnt # 0 /\ ~Fits)
  /\ newHdrCnt' = 0
  /\ e # 0 => NotFull(newHeaderBuf, KtHeaderWords)
  /\ newHeaderBuf' = IF e = 0 THEN newHeaderBuf
                     ELSE Append(newHeaderBuf, [j \in 0 .. WordElems - 1 |->
                                                  IF e <= j THEN Pad ELSE newHeaderEntries[j]])
  /\ NotFull(newKtTrig, MkFIFO)
  /\ newKtTrig' = Append(newKtTrig, [last |-> last, hdrWords |-> ((newHdrCnt - 1) \div WordElems) + 1,
                                     end |-> ktOffset, entries |-> newHdrCnt - 2])
  /\ mergedSizeInfo' = IF last THEN Tail(mergedSizeInfo) ELSE mergedSizeInfo
  /\ UNCHANGED <<newHeaderEntries, ktOffset>>

newHeader ==
  /\ NotEmpty(mergedSizeInfo)
  /\ FirstElems \/ NextElem \/ EndTable
  /\ UNCHANGED <<levels, splitVars, parseVars, hdrVars, ktEntryStream, ktBeatCntStream, mergeVars,
                 newEntryBuf, outVars, addrVars>>

(* The words of the new table: header, entries, and padding behind both.   *)
PutOut(w) == created' = Append(created, [last |-> Head(newKtTrig).last, word |-> w])

NewHeaderWord ==
  /\ outKtBeatCnt < KtHeaderWords
  /\ IF outKtBeatCnt < Head(newKtTrig).hdrWords
     THEN /\ NotEmpty(newHeaderBuf) /\ newHeaderBuf' = Tail(newHeaderBuf)
          /\ PutOut([elems |-> IF outKtBeatCnt = 0
                               THEN [Head(newHeaderBuf) EXCEPT ![0] = Head(newKtTrig).entries]
                               ELSE Head(newHeaderBuf)])
     ELSE PutOut([elems |-> PadHeader]) /\ UNCHANGED newHeaderBuf
  /\ outKtBeatCnt' = outKtBeatCnt + 1
  /\ UNCHANGED <<newEntryBuf, newKtTrig>>

NewBodyWord ==
  LET last == outKtBeatCnt = KeytableWords - 1 IN
  /\ outKtBeatCnt >= KtHeaderWords
  /\ IF outKtBeatCnt < Head(newKtTrig).end
     THEN NotEmpty(newEntryBuf) /\ PutOut(Head(newEntryBuf)) /\ newEntryBuf' = Tail(newEntryBuf)
     ELSE PutOut(NoWord) /\ UNCHANGED newEntryBuf
  /\ outKtBeatCnt' = IF last THEN 0 ELSE outKtBeatCnt + 1
  /\ newKtTrig' = IF last THEN Tail(newKtTrig) ELSE newKtTrig
  /\ UNCHANGED newHeaderBuf

newKT ==
  /\ NotEmpty(newKtTrig) /\ (NewHeaderWord \/ NewBodyWord)
  /\ UNCHANGED <<levels, splitVars, parseVars, hdrVars, ktEntryStream, ktBeatCntStream, mergeVars,
                 mergedSizeInfo, headVars, addrVars>>

-----------------------------------------------------------------------------
Next ==
  \/ RunMerge
  \/ \E i \in Levels : splitHeader(i) \/ parseHeader(i)
  \/ Merge
  \/ GetInvalidatedAddr
  \/ newHeader
  \/ newKT

(* A rule that can fire does fire, the words and the words' takers come.   *)
Fairness == WF_vars(Next)

Spec == Init /\ [][Next]_vars /\ Fairness
=============================================================================
