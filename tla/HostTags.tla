------------------------------ MODULE HostTags ------------------------------
(* What the host programs under src/projects have in common: the tag       *)
(* tables of main.cpp, the three threads that share them, and the card the *)
(* requests go to. The programs are copies of one another that differ in   *)
(* how a read is reported, in what a check accepts and in the tests they   *)
(* run; each has a module of its own that puts these pieces together.      *)
(*                                                                         *)
(* The threads are main, the portal thread that runs the indications one   *)
(* at a time and, in the programs where the card reports a read by a word  *)
(* in memory, the checker thread. They share flashReqMutex: a critical     *)
(* section is one step, what a thread does outside of it is another. The   *)
(* one thing main reads without the mutex is a count of requests in flight *)
(* (and testPassed, when all is over), and a section writes that count     *)
(* once, after testPassed where both are written, so a step is what main   *)
(* can tell apart.                                                         *)
EXTENDS Integers, Sequences, FiniteSets
LOCAL INSTANCE SequencesExt

CONSTANTS
  NUM_TAGS,          \* tags per kind of request (128, or 64)
  NUM_CARDS, NUM_BUSES, CHIPS_PER_BUS, BLOCKS_PER_CHIP, PAGES_PER_BLOCK,
  Slots              \* page buffers in the DMA region pages are read into

ASSUME HostAssumption ==
  /\ NUM_TAGS \in Nat \ {0}
  /\ {NUM_CARDS, NUM_BUSES, CHIPS_PER_BUS, BLOCKS_PER_CHIP, PAGES_PER_BLOCK} \subseteq Nat \ {0}
  /\ 0 .. NUM_TAGS - 1 \subseteq Slots

VARIABLES
  script,        \* the steps of main in this build of the program
  at, pc, held,  \* main: its step, where it is in it, the tag it took last
  busy,          \* readTagTable, writeTagTable, eraseTagTable, keyTagTable: busy
  inFlight,      \* curReadsInFlight, curWritesInFlight, ...
  entry,         \* readTagTable: the other fields
  flashStatus,   \* what the program did to a block last
  writeBuffers, readBuffers,
  doneFlag,      \* the word behind a page that says the page is complete
  testPassed, verbose_resp,
  testBuf,       \* is testBuf allocated
  files,         \* the files of key tables: "whole", "short" or "missing"
  saved,         \* the file written last
  ending,        \* how the program ended: its last line, or -1, or a crash
  pending,       \* the card: requests it works on,
  answers,       \*   and indications (or pages in memory) not taken yet
  handling,      \* portal thread: the readDone it is in the middle of
  checking,      \* checker thread: the page it is in the middle of
  store,         \* the card: content of every page
  bad, corrupt,  \* the card: blocks that fail, the one read that goes wrong
  done           \* history: requests that were answered to the program

mainVars   == <<at, pc, held>>
tagVars    == <<busy, inFlight, entry>>
bufVars    == <<writeBuffers, readBuffers, doneFlag>>
resultVars == <<testPassed, verbose_resp, testBuf, saved, ending>>
threadVars == <<handling, checking>>
cardVars   == <<pending, answers, store>>
fixedVars  == <<script, files, bad, corrupt>>
hostVars   == <<mainVars, tagVars, flashStatus, bufVars, resultVars, threadVars, cardVars,
                fixedVars, done>>

Kinds == {"erase", "write", "read", "search"}
Tags  == 0 .. NUM_TAGS - 1
Least(a, b) == IF a < b THEN a ELSE b

(* The content of a page or of a page buffer, told apart as far as a check *)
(* tells it: what a test generates for a block, a page of a file, -1 in    *)
(* every word, 0 in every word, what the buffers are filled with at the    *)
(* start, what a page held before, anything else.                          *)
hashAddrToData(blk) == <<"hash", blk[2], blk[3], blk[4]>>
FilePage(ppa) == <<"file", ppa>>
Erased  == <<"ffffffff">>
Zeros   == <<"0">>
DEADBEEF == <<"deadbeef">>
BEEFDEAD == <<"beefdead">>
Old     == <<"old">>
Garbage == <<"garbage">>
Keep    == <<"keep">>

Blocks == (0 .. NUM_CARDS - 1) \X (0 .. NUM_BUSES - 1) \X (0 .. CHIPS_PER_BUS - 1)
          \X (0 .. BLOCKS_PER_CHIP - 1)
Pages  == [blk : Blocks, page : 0 .. PAGES_PER_BLOCK - 1]

-----------------------------------------------------------------------------
(* The steps of main. A request takes an idle tag, counts itself and is    *)
(* sent; "drain" waits until none of its kind is in flight.                *)
Request(kind, where) ==
  [op |-> "request", kind |-> kind, at |-> where, data |-> Keep, check |-> FALSE,
   slot |-> -1, last |-> FALSE, raw |-> FALSE]
Drain(kind) == [op |-> "drain", kind |-> kind]
Verbose(on) == [op |-> "verbose", on |-> on]

For(from, to, Body(_)) ==
  FlattenSeq([i \in 1 .. (IF to > from THEN to - from ELSE 0) |-> Body(from + i - 1)])

(* The three loops every test ends in, over chips, buses and cards.        *)
EachChip(cards, Body(_, _, _)) ==
  For(0, CHIPS_PER_BUS, LAMBDA chip : For(0, NUM_BUSES, LAMBDA bus :
    For(0, cards, LAMBDA card : Body(card, bus, chip))))

EraseLoop(cards, blkStart, blkEnd) ==
  For(blkStart, Least(blkEnd, BLOCKS_PER_CHIP), LAMBDA blk :
    EachChip(cards, LAMBDA card, bus, chip : <<Request("erase", [blk |-> <<card, bus, chip, blk>>, page |-> 0])>>))

(* Loops over the pages of a range of blocks; the pages are the outer loop. *)
PageLoop(cards, blkStart, blkEnd, pageStart, pageEnd, Body(_)) ==
  For(pageStart, Least(pageEnd, PAGES_PER_BLOCK), LAMBDA page :
    For(blkStart, Least(blkEnd, BLOCKS_PER_CHIP), LAMBDA blk :
      EachChip(cards, LAMBDA card, bus, chip : <<Body([blk |-> <<card, bus, chip, blk>>, page |-> page])>>)))

ReadOf(where, checkRead) == [Request("read", where) EXCEPT !.check = checkRead]
WriteOf(where, genData) ==
  IF genData THEN [Request("write", where) EXCEPT !.data = hashAddrToData(where.blk)]
             ELSE Request("write", where)

(* testErase, testRead and testWrite.                                      *)
EraseTest(cards, blkStart, blkCnt) ==
  EraseLoop(cards, blkStart, blkStart + blkCnt) \o <<Drain("erase")>>

ReadTest(cards, blkStart, blkCnt, pageStart, pageCnt, checkRead, repeat) ==
  For(0, repeat, LAMBDA rep :
    PageLoop(cards, blkStart, blkStart + blkCnt, pageStart, pageStart + pageCnt,
             LAMBDA p : ReadOf(p, checkRead)))
  \o <<Drain("read")>>

WriteTest(cards, blkStart, blkCnt, pageStart, pageCnt, genData) ==
  PageLoop(cards, blkStart, blkStart + blkCnt, pageStart, pageStart + pageCnt,
           LAMBDA p : WriteOf(p, genData))
  \o <<Drain("write")>>

(* Bus, chip, page and block of a physical page number.                    *)
AddrOf(ppa) ==
  LET chips == ppa \div NUM_BUSES
      pages == chips \div CHIPS_PER_BUS
  IN [blk  |-> <<0, ppa % NUM_BUSES, chips % CHIPS_PER_BUS, pages \div PAGES_PER_BLOCK>>,
      page |-> pages % PAGES_PER_BLOCK]

Step    == script[at]
Running == ending = "running" /\ at <= Len(script)
AtRequest(k) == Running /\ Step.op = "request" /\ Step.kind = k
At(op) == Running /\ Step.op = op
NextStep == at' = at + 1 /\ pc' = "claim" /\ UNCHANGED held

(* A mutant: the tag is not marked busy.                                   *)
WaitIdleUnmarked(k) ==
  /\ AtRequest(k) /\ pc = "claim"
  /\ \E t \in Tags : ~busy[k][t] /\ (\A u \in 0 .. t - 1 : busy[k][u]) /\ held' = t
  /\ pc' = IF k = "search" THEN "send" ELSE "count"
  /\ UNCHANGED <<at, tagVars, flashStatus, bufVars, resultVars, threadVars, cardVars, fixedVars,
                 done>>

(* Takes the lowest idle tag of a kind; main spins while there is none. A  *)
(* search is sent before it is counted, the others the other way round.    *)
WaitIdle(k) ==
  /\ AtRequest(k) /\ pc = "claim"
  /\ \E t \in Tags :
       /\ ~busy[k][t] /\ \A u \in 0 .. t - 1 : busy[k][u]
       /\ held' = t /\ busy' = [busy EXCEPT ![k][t] = TRUE]
  /\ pc' = IF k = "search" THEN "send" ELSE "count"
  /\ UNCHANGED <<at, inFlight, entry, flashStatus, bufVars, resultVars, threadVars, cardVars,
                 fixedVars, done>>

(* The last page of a file that is too short cannot be read.               *)
FileEnds == Step.last /\ files = "short"

CountRequest(k) ==
  /\ AtRequest(k) /\ pc = "count" /\ ~FileEnds
  /\ inFlight' = [inFlight EXCEPT ![k] = @ + 1]
  /\ IF k = "search" THEN NextStep ELSE pc' = "send" /\ UNCHANGED <<at, held>>
  /\ UNCHANGED <<busy, readBuffers, doneFlag, resultVars, threadVars, cardVars, fixedVars, done>>

Send(k) ==
  /\ AtRequest(k) /\ pc = "send"
  /\ pending' = pending \union {[n |-> at, tag |-> held]}
  /\ IF k = "search" THEN pc' = "count" /\ UNCHANGED <<at, held>> ELSE NextStep
  /\ UNCHANGED <<tagVars, flashStatus, bufVars, resultVars, threadVars, answers, store, fixedVars,
                 done>>

(* eraseBlock, writePage, readPage: count the request and note what it is  *)
(* for in one critical section, then send it. NewStatus is what the        *)
(* program makes of flashStatus.                                           *)
EraseBlock(NewStatus(_)) ==
  \/ /\ CountRequest("erase")
     /\ flashStatus' = [flashStatus EXCEPT ![Step.at.blk] = NewStatus(@)]
     /\ UNCHANGED <<entry, writeBuffers>>
  \/ Send("erase")

WritePage(NewStatus(_)) ==
  \/ /\ CountRequest("write")
     /\ flashStatus' = [flashStatus EXCEPT ![Step.at.blk] = NewStatus(@)]
     /\ writeBuffers' = IF Step.data = Keep THEN writeBuffers
                        ELSE [writeBuffers EXCEPT ![held] = Step.data]
     /\ UNCHANGED entry
  \/ Send("write")

(* A mutant: the check is noted for the next tag.                          *)
ReadPageNextEntry ==
  \/ /\ CountRequest("read")
     /\ entry' = [entry EXCEPT ![(held + 1) % NUM_TAGS] = [at |-> Step.at, check |-> Step.check]]
     /\ UNCHANGED <<flashStatus, writeBuffers>>
  \/ Send("read")

ReadPage ==
  \/ /\ CountRequest("read")
     /\ entry' = [entry EXCEPT ![held] = [at |-> Step.at, check |-> Step.check]]
     /\ UNCHANGED <<flashStatus, writeBuffers>>
  \/ Send("read")

(* The loops that end a test: main polls a count without the mutex.        *)
(* Polls is one turn of these loops and of the search for an idle tag.     *)
Polls ==
  /\ \/ At("drain") /\ inFlight[Step.kind] # 0
     \/ Running /\ Step.op = "request" /\ pc = "claim" /\ \A t \in Tags : busy[Step.kind][t]
  /\ UNCHANGED hostVars

(* A mutant: the count of another kind is polled.                          *)
DrainedOfWrites ==
  /\ At("drain") /\ inFlight["write"] = 0
  /\ NextStep
  /\ UNCHANGED <<tagVars, flashStatus, bufVars, resultVars, threadVars, cardVars, fixedVars, done>>

Drained ==
  /\ At("drain") /\ inFlight[Step.kind] = 0
  /\ NextStep
  /\ UNCHANGED <<tagVars, flashStatus, bufVars, resultVars, threadVars, cardVars, fixedVars, done>>

SetVerbose ==
  /\ At("verbose") /\ verbose_resp' = Step.on
  /\ NextStep
  /\ UNCHANGED <<tagVars, flashStatus, bufVars, testPassed, testBuf, saved, ending, threadVars,
                 cardVars, fixedVars, done>>

(* The last lines of main.                                                 *)
PrintResult ==
  /\ ending = "running" /\ at > Len(script)
  /\ ending' = IF testPassed THEN "TEST PASSED" ELSE "TEST FAILED"
  /\ UNCHANGED <<mainVars, tagVars, flashStatus, bufVars, testPassed, verbose_resp, testBuf, saved,
                 threadVars, cardVars, fixedVars, done>>

ReturnError ==
  /\ ending' = "-1"
  /\ UNCHANGED <<mainVars, tagVars, flashStatus, bufVars, testPassed, verbose_resp, testBuf, saved,
                 threadVars, cardVars, fixedVars, done>>

-----------------------------------------------------------------------------
(* The handlers.                                                           *)
None == [n |-> 0, tag |-> 0, passed |-> FALSE]
KindOf(r) == script[r.n].kind
Alive == ending = "running"           \* a process that ended takes nothing more
PortalIdle == Alive /\ handling = None

(* What checkReadData makes of a page: the content its block should have   *)
(* by flashStatus against the content of the buffer of the tag.            *)
PageMatches(t) ==
  LET blk == entry[t].at.blk
  IN CASE flashStatus[blk] = "WRITTEN" -> readBuffers[t] = hashAddrToData(blk)
       [] flashStatus[blk] = "ERASED"  -> readBuffers[t] = Erased
       [] OTHER -> FALSE

(* A mutant: the last page decides.                                        *)
ReleaseForgets(k, t, failed) ==
  /\ testPassed' = (~failed /\ busy[k][t])
  /\ inFlight' = [inFlight EXCEPT ![k] = IF busy[k][t] THEN @ - 1 ELSE @]
  /\ busy' = [busy EXCEPT ![k][t] = FALSE]

(* The critical section of a done: an idle tag is an error, a busy one is  *)
(* released and counted down. failed is what a check before it found.      *)
Release(k, t, failed) ==
  /\ testPassed' = (testPassed /\ ~failed /\ busy[k][t])
  /\ inFlight' = [inFlight EXCEPT ![k] = IF busy[k][t] THEN @ - 1 ELSE @]
  /\ busy' = [busy EXCEPT ![k][t] = FALSE]

WriteDone ==
  \E r \in answers :
    /\ PortalIdle /\ KindOf(r) = "write"
    /\ Release("write", r.tag, FALSE)
    /\ answers' = answers \ {r} /\ done' = done \union {r.n}
    /\ UNCHANGED <<mainVars, entry, flashStatus, bufVars, verbose_resp, testBuf, saved, ending,
                   threadVars, pending, store, fixedVars>>

(* An erase is counted down whether its tag is busy or not, and the count  *)
(* is brought back to 0 when that makes it negative.                       *)
ReleaseErase(t) ==
  /\ testPassed' = (testPassed /\ busy["erase"][t])
  /\ inFlight' = [inFlight EXCEPT !["erase"] = IF @ > 0 THEN @ - 1 ELSE 0]
  /\ busy' = [busy EXCEPT !["erase"][t] = FALSE]

EraseDone ==
  \E r \in answers :
    /\ PortalIdle /\ KindOf(r) = "erase"
    /\ ReleaseErase(r.tag)
    /\ answers' = answers \ {r} /\ done' = done \union {r.n}
    /\ UNCHANGED <<mainVars, entry, flashStatus, bufVars, verbose_resp, testBuf, saved, ending,
                   threadVars, pending, store, fixedVars>>

(* readDone before it takes the mutex, and its critical section.           *)
ReadDoneCheck(Passes(_)) ==
  \E r \in answers :
    /\ PortalIdle /\ KindOf(r) = "read"
    /\ handling' = [n |-> r.n, tag |-> r.tag, passed |-> entry[r.tag].check /\ Passes(r.tag)]
    /\ answers' = answers \ {r}
    /\ UNCHANGED <<mainVars, tagVars, flashStatus, bufVars, resultVars, checking, pending, store,
                   fixedVars, done>>

ReadDoneLocked ==
  /\ Alive /\ handling # None
  /\ Release("read", handling.tag, entry[handling.tag].check /\ ~handling.passed)
  /\ handling' = None /\ done' = done \union {handling.n}
  /\ UNCHANGED <<mainVars, entry, flashStatus, bufVars, verbose_resp, testBuf, saved, ending,
                 checking, cardVars, fixedVars>>

(* When it is verbose the readDone of two programs copies the page to      *)
(* testBuf first, which only one of their tests allocates.                 *)
CopiesNowhere == verbose_resp /\ ~testBuf
CopyCrashes ==
  /\ CopiesNowhere /\ PortalIdle /\ \E r \in answers : KindOf(r) = "read"
  /\ ending' = "crash"
  /\ UNCHANGED <<mainVars, tagVars, flashStatus, bufVars, testPassed, verbose_resp, testBuf,
                 saved, threadVars, cardVars, fixedVars, done>>

(* The checker thread looks at the done words of the tags in turn; it may  *)
(* be at any of them when a page is complete. Marked is what flashStatus   *)
(* of the page's block becomes.                                            *)
CheckDoneWord(Passes(_), Marked(_)) ==
  \E t \in Tags :
    /\ Alive /\ checking = None /\ doneFlag[t]
    /\ \E r \in answers :
         /\ KindOf(r) = "read" /\ r.tag = t
         /\ checking' = [n |-> r.n, tag |-> t, passed |-> entry[t].check /\ Passes(t)]
         /\ answers' = answers \ {r}
    /\ flashStatus' = IF entry[t].check
                      THEN [flashStatus EXCEPT ![entry[t].at.blk] = Marked(t)] ELSE flashStatus
    /\ UNCHANGED <<mainVars, tagVars, bufVars, resultVars, handling, pending, store, fixedVars,
                   done>>

CheckDoneLocked ==
  /\ Alive /\ checking # None
  /\ Release("read", checking.tag, entry[checking.tag].check /\ ~checking.passed)
  /\ doneFlag' = [doneFlag EXCEPT ![checking.tag] = FALSE]
  /\ checking' = None /\ done' = done \union {checking.n}
  /\ UNCHANGED <<mainVars, entry, flashStatus, writeBuffers, readBuffers, verbose_resp, testBuf,
                 saved, ending, handling, cardVars, fixedVars>>

-----------------------------------------------------------------------------
(* The card, as the programs use it: it answers its requests in any order. *)
(* A page that was not erased before it is written holds anything after; a *)
(* bad block reads as zeros.                                               *)
SlotOf(r) == IF script[r.n].slot >= 0 THEN script[r.n].slot ELSE r.tag
ContentOf(r, where) == IF r.n = corrupt THEN Garbage ELSE store[where]

(* The content of every page when a request for a page has been done.      *)
ContentAfter(r, where) ==
  CASE KindOf(r) = "erase" ->
         [p \in DOMAIN store |-> IF p.blk # where.blk THEN store[p]
                                 ELSE IF where.blk \in bad THEN Zeros ELSE Erased]
    [] KindOf(r) = "write" /\ where.blk \notin bad ->
         [store EXCEPT ![where] = IF @ = Erased THEN writeBuffers[r.tag] ELSE Garbage]
    [] OTHER -> store

CardAnswers(byWord) ==
  \E r \in pending :
    /\ pending' = pending \ {r} /\ answers' = answers \union {r}
    /\ store' = ContentAfter(r, script[r.n].at)
    /\ readBuffers' = IF KindOf(r) = "read" THEN [readBuffers EXCEPT ![SlotOf(r)] = ContentOf(r, script[r.n].at)]
                      ELSE readBuffers
    /\ doneFlag' = IF byWord /\ KindOf(r) = "read" THEN [doneFlag EXCEPT ![r.tag] = TRUE]
                   ELSE doneFlag
    /\ UNCHANGED <<mainVars, tagVars, flashStatus, writeBuffers, resultVars, threadVars, fixedVars,
                   done>>

HostInit ==
  /\ at = 1 /\ pc = "claim" /\ held = 0
  /\ busy = [k \in Kinds |-> [t \in Tags |-> FALSE]]
  /\ inFlight = [k \in Kinds |-> 0]
  /\ entry = [t \in Tags |-> [at |-> [blk |-> <<0, 0, 0, 0>>, page |-> 0], check |-> FALSE]]
  /\ flashStatus = [b \in Blocks |-> "UNINIT"]
  /\ writeBuffers = [t \in Tags |-> BEEFDEAD] /\ readBuffers = [s \in Slots |-> DEADBEEF]
  /\ doneFlag = [t \in Tags |-> FALSE]
  /\ testPassed = TRUE /\ verbose_resp = FALSE /\ testBuf = FALSE
  /\ saved = <<>> /\ ending = "running"
  /\ pending = {} /\ answers = {} /\ done = {}
  /\ handling = None /\ checking = None

Finished == ending # "running" /\ UNCHANGED hostVars
=============================================================================
