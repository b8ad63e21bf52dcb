---------------------------- MODULE Hosts_proofs ----------------------------
(* Proofs about the host programs, for every program of module Hosts and   *)
(* every test that keeps to TestFits.                                      *)
EXTENDS Hosts, QueueLemmas, SequenceTheorems, FiniteSetTheorems, TLAPS

-----------------------------------------------------------------------------
(* Request n is out under tag t: where it may be between the step of main  *)
(* that sends it and the critical section that lets go of its tag.         *)
Kind(n)           == script[n].kind
InPending(n, t)   == [n |-> n, tag |-> t] \in pending
InFlash(n, t)     == \E f \in flash : f.n = n /\ f.tag = t
InAnswers(n, t)   == [n |-> n, tag |-> t] \in answers
InRefusals(n, t)  == [n |-> n, tag |-> t] \in refusals
InHandling(n, t)  == handling # None /\ handling.n = n /\ handling.tag = t
InChecking(n, t)  == checking # None /\ checking.n = n /\ checking.tag = t
Out(n, t) ==
  \/ InPending(n, t) \/ InFlash(n, t) \/ InAnswers(n, t)
  \/ InRefusals(n, t) \/ InHandling(n, t) \/ InChecking(n, t)

(* What each of these places may hold; the portal thread is in the middle  *)
(* of a read, or of an erase in the program that keeps tables of blocks.   *)
Requests  == [n : TheRequests, tag : Tags]
Handles   == IF prog = "amf-dual" THEN "erase" ELSE "read"
PlacesTyped ==
  /\ pending \subseteq Requests /\ answers \subseteq Requests /\ refusals \subseteq Requests
  /\ \A f \in flash : f.n \in TheRequests /\ f.tag \in Tags
  /\ handling # None =>
       handling.n \in TheRequests /\ handling.tag \in Tags /\ Kind(handling.n) = Handles
  /\ checking # None =>
       checking.n \in TheRequests /\ checking.tag \in Tags /\ Kind(checking.n) = "read"

(* A request is in one place, and in one command of the cards.             *)
Once(n, t) ==
  /\ InPending(n, t) => ~(InFlash(n, t) \/ InAnswers(n, t) \/ InRefusals(n, t)
                          \/ InHandling(n, t) \/ InChecking(n, t))
  /\ InFlash(n, t) => ~(InAnswers(n, t) \/ InRefusals(n, t) \/ InHandling(n, t) \/ InChecking(n, t))
  /\ InAnswers(n, t) => ~(InRefusals(n, t) \/ InHandling(n, t) \/ InChecking(n, t))
  /\ InRefusals(n, t) => ~(InHandling(n, t) \/ InChecking(n, t))
  /\ InHandling(n, t) => ~InChecking(n, t)
OnePlace ==
  /\ \A n \in TheRequests, t \in Tags : Once(n, t)
  /\ \A f, g \in flash : f.n = g.n /\ f.tag = g.tag => f = g
Places == PlacesTyped /\ OnePlace

-----------------------------------------------------------------------------
(* Main has sent request n. A search is sent before it is counted, the     *)
(* others after; Holds says that the tag main took last is not yet out.    *)
Begun(n)     == n < at \/ (n = at /\ pc = "count" /\ Kind(n) = "search")
Holds        == pc # "claim" /\ ~(pc = "count" /\ Kind(at) = "search")
Uncounted(k) == pc # "claim" /\ Kind(at) = k /\ ~(pc = "send" /\ k # "search")
BusyTags(k)  == {t \in Tags : busy[k][t]}

MainTyped ==
  /\ at \in 1 .. Len(script) + 1 /\ pc \in {"claim", "count", "send"} /\ held \in Tags
  /\ pc # "claim" => at \in TheRequests
  /\ busy \in [Kinds -> [Tags -> BOOLEAN]] /\ inFlight \in [Kinds -> Int]

(* What is out was sent, is not done and has its tag marked busy, and so   *)
(* has the tag main has just taken.                                        *)
Marked ==
  /\ \A n \in TheRequests, t \in Tags : Out(n, t) => Begun(n) /\ n \notin done /\ busy[Kind(n)][t]
  /\ Holds => busy[Kind(at)][held]
(* Two requests of a kind, and the tag just taken, differ in their tags.   *)
Apart ==
  /\ \A n, m \in TheRequests, t \in Tags :
       Out(n, t) /\ Out(m, t) /\ Kind(n) = Kind(m) => n = m
  /\ \A n \in TheRequests, t, u \in Tags : Out(n, t) /\ Out(n, u) => t = u
  /\ Holds => \A n \in TheRequests : Out(n, held) => Kind(n) # Kind(at)
(* Nothing main sent is lost.                                              *)
Accounted ==
  /\ \A n \in done : n \in TheRequests /\ Begun(n)
  /\ \A n \in TheRequests : Begun(n) => n \in done \/ \E t \in Tags : Out(n, t)
(* The count of a kind is that of its busy tags, but for the one main has  *)
(* taken and not counted.                                                  *)
Counted ==
  \A k \in Kinds : inFlight[k] = Cardinality(BusyTags(k)) - (IF Uncounted(k) THEN 1 ELSE 0)
(* Behind a wait all requests of its kind before it are done.              *)
Awaited ==
  \A d \in StepsOf(script, "drain") : d < at =>
    \A n \in TheRequests : n < d /\ Kind(n) = Kind(d) => n \in done
(* Main counts a request once, and asks for each answer on a block once.   *)
InfoAsked == {n \in StepsOf(script, "readBlkInfo") : n < at}
InfoCounted ==
  /\ blkInfoReads \in Nat /\ \E S : infoResps \in Seq(S)
  /\ blkInfoReads + Len(infoResps) = Cardinality(InfoAsked)
CountsBounded ==
  \A k \in Kinds : inFlight[k] <= at - 1 + (IF pc = "send" /\ Kind(at) # "search" THEN 1 ELSE 0)
Sizes ==
  /\ DOMAIN entry = Tags /\ DOMAIN doneFlag = Tags /\ DOMAIN writeBuffers = Tags
  /\ DOMAIN readBuffers = Slots /\ DOMAIN store = Pages
  /\ ending \in {"running", "TEST PASSED", "TEST FAILED", "-1", "crash"}

Books == MainTyped /\ Marked /\ Apart /\ Accounted /\ Counted /\ Awaited
IInv  == TestFits(prog, script) /\ Places /\ Books /\ InfoCounted /\ CountsBounded /\ Sizes

-----------------------------------------------------------------------------
(* What a step of any of the programs does to the state the invariant is   *)
(* about, one kind of step per definition: main takes a tag, counts the    *)
(* request, sends it, goes on to its next step or stops.                   *)
countVars == <<busy, inFlight>>
noteVars  == <<entry, writeBuffers>>
cardPlaces == <<pending, flash>>
hostPlaces == <<answers, refusals, handling, checking>>
infoVars  == <<blkInfoReads, infoResps>>

Rests ==
  UNCHANGED <<mainVars, countVars, noteVars, readBuffers, cardPlaces, hostPlaces, done, ending,
              infoVars>>

Claims(k) ==
  /\ AtRequest(k) /\ pc = "claim" /\ held' \in Tags
  /\ ~busy[k][held'] /\ busy' = [busy EXCEPT ![k][held'] = TRUE]
  /\ pc' = IF k = "search" THEN "send" ELSE "count"
  /\ UNCHANGED <<at, inFlight, noteVars, readBuffers, cardPlaces, hostPlaces, done, ending,
                 infoVars>>

Counts(k) ==
  /\ AtRequest(k) /\ pc = "count"
  /\ inFlight' = [inFlight EXCEPT ![k] = @ + 1]
  /\ at' = (IF k = "search" THEN at + 1 ELSE at)
  /\ pc' = (IF k = "search" THEN "claim" ELSE "send")
  /\ \/ UNCHANGED writeBuffers
     \/ k = "write" /\ \E d : writeBuffers' = [writeBuffers EXCEPT ![held] = d]
  /\ \/ UNCHANGED entry
     \/ k = "read" /\ \E d : entry' = [entry EXCEPT ![held] = d]
  /\ UNCHANGED <<held, busy, readBuffers, cardPlaces, hostPlaces, done, ending, infoVars>>

Sends(k) ==
  /\ AtRequest(k) /\ pc = "send"
  /\ pending' = pending \union {[n |-> at, tag |-> held]}
  /\ at' = (IF k = "search" THEN at ELSE at + 1)
  /\ pc' = (IF k = "search" THEN "count" ELSE "claim")
  /\ UNCHANGED <<held, countVars, noteVars, readBuffers, flash, hostPlaces, done, ending, infoVars>>

GoesOn ==
  /\ Running /\ Step.op # "request" /\ at' = at + 1 /\ pc' = "claim"
  /\ Step.op = "drain" => inFlight[Step.kind] = 0
  /\ \/ /\ Step.op = "readBlkInfo" /\ UNCHANGED blkInfoReads
        /\ \E d : infoResps' = Append(infoResps, d)
     \/ Step.op # "readBlkInfo" /\ UNCHANGED infoVars
  /\ UNCHANGED <<held, countVars, noteVars, readBuffers, cardPlaces, hostPlaces, done, ending>>

Stops ==
  /\ ending = "running" /\ ending' \in {"TEST PASSED", "TEST FAILED", "-1", "crash"}
  /\ ending' \in {"TEST PASSED", "TEST FAILED"} => at > Len(script)
  /\ UNCHANGED <<mainVars, countVars, noteVars, readBuffers, cardPlaces, hostPlaces, done,
                 infoVars>>

(* The handlers: they let go of a tag, which the count follows in one of   *)
(* three ways, or have just taken an answer, or hear about a block.        *)
LetsGo(k, n, t) ==
  /\ Alive /\ done' = done \union {n} /\ busy' = [busy EXCEPT ![k][t] = FALSE]
  /\ \/ inFlight' = [inFlight EXCEPT ![k] = @ - 1]
     \/ inFlight' = [inFlight EXCEPT ![k] = IF busy[k][t] THEN @ - 1 ELSE @]
     \/ k = "erase" /\ inFlight' = [inFlight EXCEPT ![k] = IF @ > 0 THEN @ - 1 ELSE 0]
  /\ UNCHANGED <<mainVars, noteVars, readBuffers, cardPlaces, ending, infoVars>>

EndsAnswer(r) ==
  /\ LetsGo(KindOf(r), r.n, r.tag)
  /\ answers' = answers \ {r} /\ UNCHANGED <<refusals, handling, checking>>
EndsRefusal(r) ==
  /\ LetsGo(KindOf(r), r.n, r.tag)
  /\ refusals' = refusals \ {r} /\ UNCHANGED <<answers, handling, checking>>
EndsHandling ==
  /\ handling # None /\ LetsGo(Handles, handling.n, handling.tag)
  /\ handling' = None /\ UNCHANGED <<answers, refusals, checking>>
EndsChecking ==
  /\ checking # None /\ LetsGo("read", checking.n, checking.tag)
  /\ checking' = None /\ UNCHANGED <<answers, refusals, handling>>

TakesAnswer(r) ==
  /\ KindOf(r) = Handles /\ handling = None /\ answers' = answers \ {r}
  /\ \E b : handling' = [n |-> r.n, tag |-> r.tag, passed |-> b]
  /\ UNCHANGED <<mainVars, countVars, noteVars, readBuffers, cardPlaces, refusals, checking, done,
                 ending, infoVars>>
TakesPage(r) ==
  /\ KindOf(r) = "read" /\ checking = None /\ answers' = answers \ {r}
  /\ \E b : checking' = [n |-> r.n, tag |-> r.tag, passed |-> b]
  /\ UNCHANGED <<mainVars, countVars, noteVars, readBuffers, cardPlaces, refusals, handling, done,
                 ending, infoVars>>

HearsInfo ==
  /\ infoResps # <<>> /\ infoResps' = Tail(infoResps) /\ blkInfoReads' = blkInfoReads + 1
  /\ UNCHANGED <<mainVars, countVars, noteVars, readBuffers, cardPlaces, hostPlaces, done, ending>>

(* The card and the layer.                                                 *)
CardEnds(r) ==
  /\ pending' = pending \ {r} /\ answers' = answers \union {r}
  /\ \/ UNCHANGED readBuffers
     \/ KindOf(r) = "read" /\ \E d : readBuffers' = [readBuffers EXCEPT ![SlotOf(r)] = d]
  /\ UNCHANGED <<mainVars, countVars, noteVars, flash, refusals, handling, checking, done, ending,
                 infoVars>>
ToCards(r) ==
  /\ pending' = pending \ {r}
  /\ \E b : flash' = flash \union {[n |-> r.n, tag |-> r.tag, blk |-> b]}
  /\ UNCHANGED <<mainVars, countVars, noteVars, readBuffers, hostPlaces, done, ending, infoVars>>
Refuses(r) ==
  /\ pending' = pending \ {r} /\ refusals' = refusals \union {r}
  /\ UNCHANGED <<mainVars, countVars, noteVars, readBuffers, flash, answers, handling, checking,
                 done, ending, infoVars>>
CardsEnd(f) ==
  /\ flash' = flash \ {f} /\ answers' = answers \union {[n |-> f.n, tag |-> f.tag]}
  /\ \/ UNCHANGED readBuffers
     \/ /\ prog = "amf-dual" /\ Kind(f.n) = "read"
        /\ \E d : readBuffers' = [readBuffers EXCEPT ![f.tag] = d]
  /\ UNCHANGED <<mainVars, countVars, noteVars, pending, refusals, handling, checking, done, ending,
                 infoVars>>

MainDoes == (\E k \in Kinds : Claims(k) \/ Counts(k) \/ Sends(k)) \/ GoesOn \/ Stops
PortalDoes ==
  \/ (\E r \in answers : EndsAnswer(r) \/ TakesAnswer(r)) \/ (\E r \in refusals : EndsRefusal(r))
  \/ EndsHandling \/ HearsInfo \/ Stops
CheckerDoes == (\E r \in answers : TakesPage(r)) \/ EndsChecking
CardDoes ==
  \/ \E r \in pending : CardEnds(r) \/ ToCards(r) \/ Refuses(r)
  \/ \E f \in flash : CardsEnd(f)

Fixed == /\ prog' = prog /\ script' = script
         /\ DOMAIN doneFlag' = DOMAIN doneFlag /\ DOMAIN store' = DOMAIN store
HostStep == Fixed /\ (MainDoes \/ PortalDoes \/ CheckerDoes \/ CardDoes \/ Rests)

-----------------------------------------------------------------------------
(* The main thread of pink.                                                *)
LEMMA PinkMain ==
  ASSUME In("pink"), Pink!MainThread
  PROVE  HostStep
<1> USE DEF Pink!Running, Running, Pink!Step, Step, Pink!AtRequest, AtRequest, Pink!At, At,
            Pink!NextStep, NextStep, Pink!Tags, Tags, Pink!FileEnds, FileEnds, Pink!mainVars,
            mainVars, Pink!tagVars, tagVars, Pink!bufVars, bufVars, Pink!resultVars, resultVars,
            Pink!threadVars, threadVars, Pink!cardVars, cardVars, Pink!fixedVars, fixedVars,
            Pink!hostVars, hostVars, countVars, noteVars, cardPlaces, hostPlaces, infoVars,
            Fixed, amfVars, deviceVars, tableVars, In
<1>1. ASSUME Pink!waitIdleEraseTag PROVE Claims("erase") /\ Fixed
  BY <1>1 DEF Pink!waitIdleEraseTag, Pink!WaitIdle, Claims
<1>2. ASSUME Pink!waitIdleWriteBuffer PROVE Claims("write") /\ Fixed
  BY <1>2 DEF Pink!waitIdleWriteBuffer, Pink!WaitIdle, Claims
<1>3. ASSUME Pink!waitIdleReadBuffer PROVE Claims("read") /\ Fixed
  BY <1>3 DEF Pink!waitIdleReadBuffer, Pink!WaitIdle, Claims
<1>4. ASSUME Pink!waitIdleKeyBuffer PROVE Claims("search") /\ Fixed
  BY <1>4 DEF Pink!waitIdleKeyBuffer, Pink!WaitIdle, Claims
<1>5. ASSUME Pink!eraseBlock PROVE (Counts("erase") \/ Sends("erase")) /\ Fixed
  BY <1>5 DEF Pink!eraseBlock, Pink!EraseBlock, Pink!CountRequest, Pink!Send, Counts, Sends
<1>6. ASSUME Pink!writePage PROVE (Counts("write") \/ Sends("write")) /\ Fixed
  BY <1>6 DEF Pink!writePage, Pink!WritePage, Pink!CountRequest, Pink!Send, Counts, Sends
<1>7. ASSUME Pink!readPage PROVE (Counts("read") \/ Sends("read")) /\ Fixed
  BY <1>7 DEF Pink!readPage, Pink!ReadPage, Pink!CountRequest, Pink!Send, Counts, Sends
<1>8. ASSUME Pink!findKey PROVE (Counts("search") \/ Sends("search")) /\ Fixed
  BY <1>8 DEF Pink!findKey, Pink!CountRequest, Pink!Send, Counts, Sends
<1>9. ASSUME Pink!Drained PROVE GoesOn /\ Fixed
  BY <1>9 DEF Pink!Drained, GoesOn
<1>10. ASSUME Pink!Polls PROVE Rests /\ Fixed
  BY <1>10 DEF Pink!Polls, Rests
<1>11. ASSUME Pink!SetVerbose PROVE GoesOn /\ Fixed
  BY <1>11 DEF Pink!SetVerbose, GoesOn
<1>12. ASSUME Pink!AllocTestBuf PROVE GoesOn /\ Fixed
  BY <1>12 DEF Pink!AllocTestBuf, GoesOn
<1>13. ASSUME Pink!KtSteps PROVE (GoesOn \/ Stops) /\ Fixed
  BY <1>13 DEF Pink!KtSteps, Pink!OpenFiles, Pink!FreadFails, Pink!Compare, Pink!SaveMerged,
               Pink!ReturnError, GoesOn, Stops
<1>14. ASSUME Pink!PrintResult PROVE Stops /\ Fixed
  BY <1>14 DEF Pink!PrintResult, Stops
<1> QED
  BY <1>1, <1>2, <1>3, <1>4, <1>5, <1>6, <1>7, <1>8, <1>9, <1>10, <1>11, <1>12, <1>13, <1>14
  DEF Pink!MainThread, HostStep, MainDoes, Kinds

(* The portal thread of pink.                                              *)
LEMMA PinkPortal ==
  ASSUME In("pink"), Pink!PortalThread
  PROVE  HostStep
<1> USE DEF Pink!Running, Running, Pink!Step, Step, Pink!AtRequest, AtRequest, Pink!At, At,
            Pink!NextStep, NextStep, Pink!Tags, Tags, Pink!FileEnds, FileEnds, Pink!mainVars,
            mainVars, Pink!tagVars, tagVars, Pink!bufVars, bufVars, Pink!resultVars, resultVars,
            Pink!threadVars, threadVars, Pink!cardVars, cardVars, Pink!fixedVars, fixedVars,
            Pink!hostVars, hostVars, countVars, noteVars, cardPlaces, hostPlaces, infoVars,
            Fixed, amfVars, deviceVars, tableVars, In
<1>1. ASSUME Pink!findKeyDone PROVE (\E r \in answers : EndsAnswer(r)) /\ Fixed
  BY <1>1 DEF Pink!findKeyDone, EndsAnswer, LetsGo, Pink!PortalIdle, PortalIdle, Pink!Alive,
              Alive, Pink!KindOf, KindOf, Pink!None, None
<1>2. ASSUME Pink!readDone
      PROVE  ((\E r \in answers : TakesAnswer(r)) \/ EndsHandling \/ Stops) /\ Fixed
  BY <1>2 DEF Pink!readDone, Pink!ReadDoneCheck, Pink!ReadDoneLocked, Pink!CopyCrashes,
              Pink!Release, TakesAnswer, EndsHandling, LetsGo, Handles, Stops, Pink!PortalIdle,
              PortalIdle, Pink!Alive, Alive, Pink!KindOf, KindOf, Pink!None, None
<1>3. ASSUME Pink!writeDone PROVE (\E r \in answers : EndsAnswer(r)) /\ Fixed
  BY <1>3 DEF Pink!writeDone, Pink!WriteDone, Pink!Release, EndsAnswer, LetsGo, Pink!PortalIdle,
              PortalIdle, Pink!Alive, Alive, Pink!KindOf, KindOf, Pink!None, None
<1>4. ASSUME Pink!eraseDone PROVE (\E r \in answers : EndsAnswer(r)) /\ Fixed
  BY <1>4 DEF Pink!eraseDone, Pink!EraseDone, Pink!ReleaseErase, EndsAnswer, LetsGo,
              Pink!PortalIdle, PortalIdle, Pink!Alive, Alive, Pink!KindOf, KindOf, Pink!None,
              None
<1> QED
  BY <1>1, <1>2, <1>3, <1>4 DEF Pink!PortalThread, HostStep, PortalDoes, Kinds

(* The card of pink.                                                       *)
LEMMA PinkCard ==
  ASSUME In("pink"), Pink!Card
  PROVE  HostStep
<1> USE DEF Pink!Running, Running, Pink!Step, Step, Pink!AtRequest, AtRequest, Pink!At, At,
            Pink!NextStep, NextStep, Pink!Tags, Tags, Pink!FileEnds, FileEnds, Pink!mainVars,
            mainVars, Pink!tagVars, tagVars, Pink!bufVars, bufVars, Pink!resultVars, resultVars,
            Pink!threadVars, threadVars, Pink!cardVars, cardVars, Pink!fixedVars, fixedVars,
            Pink!hostVars, hostVars, countVars, noteVars, cardPlaces, hostPlaces, infoVars,
            Fixed, amfVars, deviceVars, tableVars, In
<1>1. ASSUME Pink!Card PROVE (\E r \in pending : CardEnds(r)) /\ Fixed
  BY <1>1 DEF Pink!Card, Pink!CardAnswers, Pink!ContentAfter, Pink!SlotOf, SlotOf, CardEnds,
              Pink!KindOf, KindOf
<1> QED
  BY <1>1 DEF Pink!Card, HostStep, CardDoes, Kinds

(* The main thread of flash_kt.                                            *)
LEMMA FlashKtMain ==
  ASSUME In("flash_kt"), FlashKt!MainThread
  PROVE  HostStep
<1> USE DEF FlashKt!Running, Running, FlashKt!Step, Step, FlashKt!AtRequest, AtRequest,
            FlashKt!At, At, FlashKt!NextStep, NextStep, FlashKt!Tags, Tags, FlashKt!FileEnds,
            FileEnds, FlashKt!mainVars, mainVars, FlashKt!tagVars, tagVars, FlashKt!bufVars,
            bufVars, FlashKt!resultVars, resultVars, FlashKt!threadVars, threadVars,
            FlashKt!cardVars, cardVars, FlashKt!fixedVars, fixedVars, FlashKt!hostVars,
            hostVars, countVars, noteVars, cardPlaces, hostPlaces, infoVars, Fixed, amfVars,
            deviceVars, tableVars, In
<1>1. ASSUME FlashKt!waitIdleEraseTag PROVE Claims("erase") /\ Fixed
  BY <1>1 DEF FlashKt!waitIdleEraseTag, FlashKt!WaitIdle, Claims
<1>2. ASSUME FlashKt!waitIdleWriteBuffer PROVE Claims("write") /\ Fixed
  BY <1>2 DEF FlashKt!waitIdleWriteBuffer, FlashKt!WaitIdle, Claims
<1>3. ASSUME FlashKt!waitIdleReadBuffer PROVE Claims("read") /\ Fixed
  BY <1>3 DEF FlashKt!waitIdleReadBuffer, FlashKt!WaitIdle, Claims
<1>4. ASSUME FlashKt!eraseBlock PROVE (Counts("erase") \/ Sends("erase")) /\ Fixed
  BY <1>4 DEF FlashKt!eraseBlock, FlashKt!EraseBlock, FlashKt!CountRequest, FlashKt!Send,
              Counts, Sends
<1>5. ASSUME FlashKt!writePage PROVE (Counts("write") \/ Sends("write")) /\ Fixed
  BY <1>5 DEF FlashKt!writePage, FlashKt!WritePage, FlashKt!CountRequest, FlashKt!Send, Counts,
              Sends
<1>6. ASSUME FlashKt!readPage PROVE (Counts("read") \/ Sends("read")) /\ Fixed
  BY <1>6 DEF FlashKt!readPage, FlashKt!ReadPage, FlashKt!CountRequest, FlashKt!Send, Counts,
              Sends
<1>7. ASSUME FlashKt!Drained PROVE GoesOn /\ Fixed
  BY <1>7 DEF FlashKt!Drained, GoesOn
<1>8. ASSUME FlashKt!Polls PROVE Rests /\ Fixed
  BY <1>8 DEF FlashKt!Polls, Rests
<1>9. ASSUME FlashKt!SetVerbose PROVE GoesOn /\ Fixed
  BY <1>9 DEF FlashKt!SetVerbose, GoesOn
<1>10. ASSUME FlashKt!AllocTestBuf PROVE GoesOn /\ Fixed
  BY <1>10 DEF FlashKt!AllocTestBuf, GoesOn
<1>11. ASSUME FlashKt!KtSteps PROVE (GoesOn \/ Stops) /\ Fixed
  BY <1>11 DEF FlashKt!KtSteps, FlashKt!OpenFiles, FlashKt!FreadFails, FlashKt!Compare,
               FlashKt!SaveMerged, FlashKt!ReturnError, GoesOn, Stops
<1>12. ASSUME FlashKt!PrintResult PROVE Stops /\ Fixed
  BY <1>12 DEF FlashKt!PrintResult, Stops
<1> QED
  BY <1>1, <1>2, <1>3, <1>4, <1>5, <1>6, <1>7, <1>8, <1>9, <1>10, <1>11, <1>12
  DEF FlashKt!MainThread, HostStep, MainDoes, Kinds

(* The portal thread of flash_kt.                                          *)
LEMMA FlashKtPortal ==
  ASSUME In("flash_kt"), FlashKt!PortalThread
  PROVE  HostStep
<1> USE DEF FlashKt!Running, Running, FlashKt!Step, Step, FlashKt!AtRequest, AtRequest,
            FlashKt!At, At, FlashKt!NextStep, NextStep, FlashKt!Tags, Tags, FlashKt!FileEnds,
            FileEnds, FlashKt!mainVars, mainVars, FlashKt!tagVars, tagVars, FlashKt!bufVars,
            bufVars, FlashKt!resultVars, resultVars, FlashKt!threadVars, threadVars,
            FlashKt!cardVars, cardVars, FlashKt!fixedVars, fixedVars, FlashKt!hostVars,
            hostVars, countVars, noteVars, cardPlaces, hostPlaces, infoVars, Fixed, amfVars,
            deviceVars, tableVars, In
<1>1. ASSUME FlashKt!readDone
      PROVE  ((\E r \in answers : TakesAnswer(r)) \/ EndsHandling \/ Stops) /\ Fixed
  BY <1>1 DEF FlashKt!readDone, FlashKt!ReadDoneCheck, FlashKt!ReadDoneLocked,
              FlashKt!CopyCrashes, FlashKt!Release, TakesAnswer, EndsHandling, LetsGo, Handles,
              Stops, FlashKt!PortalIdle, PortalIdle, FlashKt!Alive, Alive, FlashKt!KindOf,
              KindOf, FlashKt!None, None
<1>2. ASSUME FlashKt!writeDone PROVE (\E r \in answers : EndsAnswer(r)) /\ Fixed
  BY <1>2 DEF FlashKt!writeDone, FlashKt!WriteDone, FlashKt!Release, EndsAnswer, LetsGo,
              FlashKt!PortalIdle, PortalIdle, FlashKt!Alive, Alive, FlashKt!KindOf, KindOf,
              FlashKt!None, None
<1>3. ASSUME FlashKt!eraseDone PROVE (\E r \in answers : EndsAnswer(r)) /\ Fixed
  BY <1>3 DEF FlashKt!eraseDone, FlashKt!EraseDone, FlashKt!ReleaseErase, EndsAnswer, LetsGo,
              FlashKt!PortalIdle, PortalIdle, FlashKt!Alive, Alive, FlashKt!KindOf, KindOf,
              FlashKt!None, None
<1> QED
  BY <1>1, <1>2, <1>3 DEF FlashKt!PortalThread, HostStep, PortalDoes, Kinds

(* The card of flash_kt.                                                   *)
LEMMA FlashKtCard ==
  ASSUME In("flash_kt"), FlashKt!Card
  PROVE  HostStep
<1> USE DEF FlashKt!Running, Running, FlashKt!Step, Step, FlashKt!AtRequest, AtRequest,
            FlashKt!At, At, FlashKt!NextStep, NextStep, FlashKt!Tags, Tags, FlashKt!FileEnds,
            FileEnds, FlashKt!mainVars, mainVars, FlashKt!tagVars, tagVars, FlashKt!bufVars,
            bufVars, FlashKt!resultVars, resultVars, FlashKt!threadVars, threadVars,
            FlashKt!cardVars, cardVars, FlashKt!fixedVars, fixedVars, FlashKt!hostVars,
            hostVars, countVars, noteVars, cardPlaces, hostPlaces, infoVars, Fixed, amfVars,
            deviceVars, tableVars, In
<1>1. ASSUME FlashKt!Card PROVE (\E r \in pending : CardEnds(r)) /\ Fixed
  BY <1>1 DEF FlashKt!Card, FlashKt!CardAnswers, FlashKt!ContentAfter, FlashKt!SlotOf, SlotOf,
              CardEnds, FlashKt!KindOf, KindOf
<1> QED
  BY <1>1 DEF FlashKt!Card, HostStep, CardDoes, Kinds

(* The main thread of flash8192.                                           *)
LEMMA Flash8192Main ==
  ASSUME In("flash8192"), Flash8192!MainThread
  PROVE  HostStep
<1> USE DEF Flash8192!Running, Running, Flash8192!Step, Step, Flash8192!AtRequest, AtRequest,
            Flash8192!At, At, Flash8192!NextStep, NextStep, Flash8192!Tags, Tags,
            Flash8192!FileEnds, FileEnds, Flash8192!mainVars, mainVars, Flash8192!tagVars,
            tagVars, Flash8192!bufVars, bufVars, Flash8192!resultVars, resultVars,
            Flash8192!threadVars, threadVars, Flash8192!cardVars, cardVars, Flash8192!fixedVars,
            fixedVars, Flash8192!hostVars, hostVars, countVars, noteVars, cardPlaces,
            hostPlaces, infoVars, Fixed, amfVars, deviceVars, tableVars, In
<1>1. ASSUME Flash8192!waitIdleEraseTag PROVE Claims("erase") /\ Fixed
  BY <1>1 DEF Flash8192!waitIdleEraseTag, Flash8192!WaitIdle, Claims
<1>2. ASSUME Flash8192!waitIdleWriteBuffer PROVE Claims("write") /\ Fixed
  BY <1>2 DEF Flash8192!waitIdleWriteBuffer, Flash8192!WaitIdle, Claims
<1>3. ASSUME Flash8192!waitIdleReadBuffer PROVE Claims("read") /\ Fixed
  BY <1>3 DEF Flash8192!waitIdleReadBuffer, Flash8192!WaitIdle, Claims
<1>4. ASSUME Flash8192!eraseBlock PROVE (Counts("erase") \/ Sends("erase")) /\ Fixed
  BY <1>4 DEF Flash8192!eraseBlock, Flash8192!EraseBlock, Flash8192!CountRequest,
              Flash8192!Send, Counts, Sends
<1>5. ASSUME Flash8192!writePage PROVE (Counts("write") \/ Sends("write")) /\ Fixed
  BY <1>5 DEF Flash8192!writePage, Flash8192!WritePage, Flash8192!CountRequest, Flash8192!Send,
              Counts, Sends
<1>6. ASSUME Flash8192!readPage PROVE (Counts("read") \/ Sends("read")) /\ Fixed
  BY <1>6 DEF Flash8192!readPage, Flash8192!ReadPage, Flash8192!CountRequest, Flash8192!Send,
              Counts, Sends
<1>7. ASSUME Flash8192!Drained PROVE GoesOn /\ Fixed
  BY <1>7 DEF Flash8192!Drained, GoesOn
<1>8. ASSUME Flash8192!Polls PROVE Rests /\ Fixed
  BY <1>8 DEF Flash8192!Polls, Rests
<1>9. ASSUME Flash8192!SetVerbose PROVE GoesOn /\ Fixed
  BY <1>9 DEF Flash8192!SetVerbose, GoesOn
<1>10. ASSUME Flash8192!OpenFiles PROVE (GoesOn \/ Stops) /\ Fixed
  BY <1>10 DEF Flash8192!OpenFiles, Flash8192!ReturnError, GoesOn, Stops
<1>11. ASSUME Flash8192!FreadFails PROVE (GoesOn \/ Stops) /\ Fixed
  BY <1>11 DEF Flash8192!FreadFails, Flash8192!ReturnError, GoesOn, Stops
<1>12. ASSUME Flash8192!Compare PROVE (GoesOn \/ Stops) /\ Fixed
  BY <1>12 DEF Flash8192!Compare, Flash8192!ReturnError, GoesOn, Stops
<1>13. ASSUME Flash8192!PrintResult PROVE Stops /\ Fixed
  BY <1>13 DEF Flash8192!PrintResult, Stops
<1> QED
  BY <1>1, <1>2, <1>3, <1>4, <1>5, <1>6, <1>7, <1>8, <1>9, <1>10, <1>11, <1>12, <1>13
  DEF Flash8192!MainThread, HostStep, MainDoes, Kinds

(* The portal thread of flash8192.                                         *)
LEMMA Flash8192Portal ==
  ASSUME In("flash8192"), Flash8192!PortalThread
  PROVE  HostStep
<1> USE DEF Flash8192!Running, Running, Flash8192!Step, Step, Flash8192!AtRequest, AtRequest,
            Flash8192!At, At, Flash8192!NextStep, NextStep, Flash8192!Tags, Tags,
            Flash8192!FileEnds, FileEnds, Flash8192!mainVars, mainVars, Flash8192!tagVars,
            tagVars, Flash8192!bufVars, bufVars, Flash8192!resultVars, resultVars,
            Flash8192!threadVars, threadVars, Flash8192!cardVars, cardVars, Flash8192!fixedVars,
            fixedVars, Flash8192!hostVars, hostVars, countVars, noteVars, cardPlaces,
            hostPlaces, infoVars, Fixed, amfVars, deviceVars, tableVars, In
<1>1. ASSUME Flash8192!readDone
      PROVE  ((\E r \in answers : TakesAnswer(r)) \/ EndsHandling) /\ Fixed
  BY <1>1 DEF Flash8192!readDone, Flash8192!ReadDoneCheck, Flash8192!ReadDoneLocked,
              Flash8192!Release, TakesAnswer, EndsHandling, LetsGo, Handles,
              Flash8192!PortalIdle, PortalIdle, Flash8192!Alive, Alive, Flash8192!KindOf,
              KindOf, Flash8192!None, None
<1>2. ASSUME Flash8192!writeDone PROVE (\E r \in answers : EndsAnswer(r)) /\ Fixed
  BY <1>2 DEF Flash8192!writeDone, Flash8192!WriteDone, Flash8192!Release, EndsAnswer, LetsGo,
              Flash8192!PortalIdle, PortalIdle, Flash8192!Alive, Alive, Flash8192!KindOf,
              KindOf, Flash8192!None, None
<1>3. ASSUME Flash8192!eraseDone PROVE (\E r \in answers : EndsAnswer(r)) /\ Fixed
  BY <1>3 DEF Flash8192!eraseDone, Flash8192!EraseDone, Flash8192!ReleaseErase, EndsAnswer,
              LetsGo, Flash8192!PortalIdle, PortalIdle, Flash8192!Alive, Alive,
              Flash8192!KindOf, KindOf, Flash8192!None, None
<1> QED
  BY <1>1, <1>2, <1>3 DEF Flash8192!PortalThread, HostStep, PortalDoes, Kinds

(* The card of flash8192.                                                  *)
LEMMA Flash8192Card ==
  ASSUME In("flash8192"), Flash8192!Card
  PROVE  HostStep
<1> USE DEF Flash8192!Running, Running, Flash8192!Step, Step, Flash8192!AtRequest, AtRequest,
            Flash8192!At, At, Flash8192!NextStep, NextStep, Flash8192!Tags, Tags,
            Flash8192!FileEnds, FileEnds, Flash8192!mainVars, mainVars, Flash8192!tagVars,
            tagVars, Flash8192!bufVars, bufVars, Flash8192!resultVars, resultVars,
            Flash8192!threadVars, threadVars, Flash8192!cardVars, cardVars, Flash8192!fixedVars,
            fixedVars, Flash8192!hostVars, hostVars, countVars, noteVars, cardPlaces,
            hostPlaces, infoVars, Fixed, amfVars, deviceVars, tableVars, In
<1>1. ASSUME Flash8192!Card PROVE (\E r \in pending : CardEnds(r)) /\ Fixed
  BY <1>1 DEF Flash8192!Card, Flash8192!CardAnswers, Flash8192!ContentAfter, Flash8192!SlotOf,
              SlotOf, CardEnds, Flash8192!KindOf, KindOf
<1> QED
  BY <1>1 DEF Flash8192!Card, HostStep, CardDoes, Kinds

(* The main thread of flash8192-dual.                                      *)
LEMMA DualMain ==
  ASSUME In("flash8192-dual"), Dual!MainThread
  PROVE  HostStep
<1> USE DEF Dual!Running, Running, Dual!Step, Step, Dual!AtRequest, AtRequest, Dual!At, At,
            Dual!NextStep, NextStep, Dual!Tags, Tags, Dual!FileEnds, FileEnds, Dual!mainVars,
            mainVars, Dual!tagVars, tagVars, Dual!bufVars, bufVars, Dual!resultVars, resultVars,
            Dual!threadVars, threadVars, Dual!cardVars, cardVars, Dual!fixedVars, fixedVars,
            Dual!hostVars, hostVars, countVars, noteVars, cardPlaces, hostPlaces, infoVars,
            Fixed, amfVars, deviceVars, tableVars, In
<1>1. ASSUME Dual!waitIdleEraseTag PROVE Claims("erase") /\ Fixed
  BY <1>1 DEF Dual!waitIdleEraseTag, Dual!WaitIdle, Claims
<1>2. ASSUME Dual!waitIdleWriteBuffer PROVE Claims("write") /\ Fixed
  BY <1>2 DEF Dual!waitIdleWriteBuffer, Dual!WaitIdle, Claims
<1>3. ASSUME Dual!waitIdleReadBuffer PROVE Claims("read") /\ Fixed
  BY <1>3 DEF Dual!waitIdleReadBuffer, Dual!WaitIdle, Claims
<1>4. ASSUME Dual!eraseBlock PROVE (Counts("erase") \/ Sends("erase")) /\ Fixed
  BY <1>4 DEF Dual!eraseBlock, Dual!EraseBlock, Dual!CountRequest, Dual!Send, Counts, Sends
<1>5. ASSUME Dual!writePage PROVE (Counts("write") \/ Sends("write")) /\ Fixed
  BY <1>5 DEF Dual!writePage, Dual!WritePage, Dual!CountRequest, Dual!Send, Counts, Sends
<1>6. ASSUME Dual!readPage PROVE (Counts("read") \/ Sends("read")) /\ Fixed
  BY <1>6 DEF Dual!readPage, Dual!ReadPage, Dual!CountRequest, Dual!Send, Counts, Sends
<1>7. ASSUME Dual!Drained PROVE GoesOn /\ Fixed
  BY <1>7 DEF Dual!Drained, GoesOn
<1>8. ASSUME Dual!Polls PROVE Rests /\ Fixed
  BY <1>8 DEF Dual!Polls, Rests
<1>9. ASSUME Dual!SetVerbose PROVE GoesOn /\ Fixed
  BY <1>9 DEF Dual!SetVerbose, GoesOn
<1>10. ASSUME Dual!PrintResult PROVE Stops /\ Fixed
  BY <1>10 DEF Dual!PrintResult, Stops
<1> QED
  BY <1>1, <1>2, <1>3, <1>4, <1>5, <1>6, <1>7, <1>8, <1>9, <1>10
  DEF Dual!MainThread, HostStep, MainDoes, Kinds

(* The portal thread of flash8192-dual.                                    *)
LEMMA DualPortal ==
  ASSUME In("flash8192-dual"), Dual!PortalThread
  PROVE  HostStep
<1> USE DEF Dual!Running, Running, Dual!Step, Step, Dual!AtRequest, AtRequest, Dual!At, At,
            Dual!NextStep, NextStep, Dual!Tags, Tags, Dual!FileEnds, FileEnds, Dual!mainVars,
            mainVars, Dual!tagVars, tagVars, Dual!bufVars, bufVars, Dual!resultVars, resultVars,
            Dual!threadVars, threadVars, Dual!cardVars, cardVars, Dual!fixedVars, fixedVars,
            Dual!hostVars, hostVars, countVars, noteVars, cardPlaces, hostPlaces, infoVars,
            Fixed, amfVars, deviceVars, tableVars, In
<1>1. ASSUME Dual!writeDone PROVE (\E r \in answers : EndsAnswer(r)) /\ Fixed
  BY <1>1 DEF Dual!writeDone, Dual!WriteDone, Dual!Release, EndsAnswer, LetsGo, Dual!PortalIdle,
              PortalIdle, Dual!Alive, Alive, Dual!KindOf, KindOf, Dual!None, None
<1>2. ASSUME Dual!eraseDone PROVE (\E r \in answers : EndsAnswer(r)) /\ Fixed
  BY <1>2 DEF Dual!eraseDone, Dual!EraseDone, Dual!ReleaseErase, EndsAnswer, LetsGo,
              Dual!PortalIdle, PortalIdle, Dual!Alive, Alive, Dual!KindOf, KindOf, Dual!None,
              None
<1> QED
  BY <1>1, <1>2 DEF Dual!PortalThread, HostStep, PortalDoes, Kinds

(* The checker thread of flash8192-dual.                                   *)
LEMMA DualChecker ==
  ASSUME In("flash8192-dual"), Dual!check_read_buffer_done
  PROVE  HostStep
<1> USE DEF Dual!Running, Running, Dual!Step, Step, Dual!AtRequest, AtRequest, Dual!At, At,
            Dual!NextStep, NextStep, Dual!Tags, Tags, Dual!FileEnds, FileEnds, Dual!mainVars,
            mainVars, Dual!tagVars, tagVars, Dual!bufVars, bufVars, Dual!resultVars, resultVars,
            Dual!threadVars, threadVars, Dual!cardVars, cardVars, Dual!fixedVars, fixedVars,
            Dual!hostVars, hostVars, countVars, noteVars, cardPlaces, hostPlaces, infoVars,
            Fixed, amfVars, deviceVars, tableVars, In
<1>1. ASSUME Dual!check_read_buffer_done
      PROVE  ((\E r \in answers : TakesPage(r)) \/ EndsChecking) /\ Fixed
  BY <1>1 DEF Dual!check_read_buffer_done, Dual!CheckDoneWord, Dual!CheckDoneLocked,
              Dual!Release, TakesPage, EndsChecking, LetsGo, Dual!PortalIdle, PortalIdle,
              Dual!Alive, Alive, Dual!KindOf, KindOf, Dual!None, None
<1> QED
  BY <1>1 DEF Dual!check_read_buffer_done, HostStep, CheckerDoes, Kinds

(* The card of flash8192-dual.                                             *)
LEMMA DualCard ==
  ASSUME In("flash8192-dual"), Dual!Card
  PROVE  HostStep
<1> USE DEF Dual!Running, Running, Dual!Step, Step, Dual!AtRequest, AtRequest, Dual!At, At,
            Dual!NextStep, NextStep, Dual!Tags, Tags, Dual!FileEnds, FileEnds, Dual!mainVars,
            mainVars, Dual!tagVars, tagVars, Dual!bufVars, bufVars, Dual!resultVars, resultVars,
            Dual!threadVars, threadVars, Dual!cardVars, cardVars, Dual!fixedVars, fixedVars,
            Dual!hostVars, hostVars, countVars, noteVars, cardPlaces, hostPlaces, infoVars,
            Fixed, amfVars, deviceVars, tableVars, In
<1>1. ASSUME Dual!Card PROVE (\E r \in pending : CardEnds(r)) /\ Fixed
  BY <1>1 DEF Dual!Card, Dual!CardAnswers, Dual!ContentAfter, Dual!SlotOf, SlotOf, CardEnds,
              Dual!KindOf, KindOf
<1> QED
  BY <1>1 DEF Dual!Card, HostStep, CardDoes, Kinds

(* The main thread of main_orig.cpp of flash8192.                          *)
LEMMA OrigMain ==
  ASSUME In("main_orig"), Orig!MainThread
  PROVE  HostStep
<1> USE DEF Orig!Running, Running, Orig!Step, Step, Orig!AtRequest, AtRequest, Orig!At, At,
            Orig!NextStep, NextStep, Orig!Tags, Tags, Orig!FileEnds, FileEnds, Orig!mainVars,
            mainVars, Orig!tagVars, tagVars, Orig!bufVars, bufVars, Orig!resultVars, resultVars,
            Orig!threadVars, threadVars, Orig!cardVars, cardVars, Orig!fixedVars, fixedVars,
            Orig!hostVars, hostVars, countVars, noteVars, cardPlaces, hostPlaces, infoVars,
            Fixed, amfVars, deviceVars, tableVars, In
<1>1. ASSUME Orig!waitIdleEraseTag PROVE Claims("erase") /\ Fixed
  BY <1>1 DEF Orig!waitIdleEraseTag, Orig!WaitIdle, Claims
<1>2. ASSUME Orig!waitIdleWriteBuffer PROVE Claims("write") /\ Fixed
  BY <1>2 DEF Orig!waitIdleWriteBuffer, Orig!WaitIdle, Claims
<1>3. ASSUME Orig!waitIdleReadBuffer PROVE Claims("read") /\ Fixed
  BY <1>3 DEF Orig!waitIdleReadBuffer, Orig!WaitIdle, Claims
<1>4. ASSUME Orig!eraseBlock PROVE (Counts("erase") \/ Sends("erase")) /\ Fixed
  BY <1>4 DEF Orig!eraseBlock, Orig!EraseBlock, Orig!CountRequest, Orig!Send, Counts, Sends
<1>5. ASSUME Orig!writePage PROVE (Counts("write") \/ Sends("write")) /\ Fixed
  BY <1>5 DEF Orig!writePage, Orig!WritePage, Orig!CountRequest, Orig!Send, Counts, Sends
<1>6. ASSUME Orig!readPage PROVE (Counts("read") \/ Sends("read")) /\ Fixed
  BY <1>6 DEF Orig!readPage, Orig!ReadPage, Orig!CountRequest, Orig!Send, Counts, Sends
<1>7. ASSUME Orig!Drained PROVE GoesOn /\ Fixed
  BY <1>7 DEF Orig!Drained, GoesOn
<1>8. ASSUME Orig!Polls PROVE Rests /\ Fixed
  BY <1>8 DEF Orig!Polls, Rests
<1>9. ASSUME Orig!PrintResult PROVE Stops /\ Fixed
  BY <1>9 DEF Orig!PrintResult, Stops
<1> QED
  BY <1>1, <1>2, <1>3, <1>4, <1>5, <1>6, <1>7, <1>8, <1>9
  DEF Orig!MainThread, HostStep, MainDoes, Kinds

(* The portal thread of main_orig.cpp of flash8192.                        *)
LEMMA OrigPortal ==
  ASSUME In("main_orig"), Orig!PortalThread
  PROVE  HostStep
<1> USE DEF Orig!Running, Running, Orig!Step, Step, Orig!AtRequest, AtRequest, Orig!At, At,
            Orig!NextStep, NextStep, Orig!Tags, Tags, Orig!FileEnds, FileEnds, Orig!mainVars,
            mainVars, Orig!tagVars, tagVars, Orig!bufVars, bufVars, Orig!resultVars, resultVars,
            Orig!threadVars, threadVars, Orig!cardVars, cardVars, Orig!fixedVars, fixedVars,
            Orig!hostVars, hostVars, countVars, noteVars, cardPlaces, hostPlaces, infoVars,
            Fixed, amfVars, deviceVars, tableVars, In
<1>1. ASSUME Orig!readDone PROVE (\E r \in answers : EndsAnswer(r)) /\ Fixed
  BY <1>1 DEF Orig!readDone, Orig!Release, EndsAnswer, LetsGo, Orig!PortalIdle, PortalIdle,
              Orig!Alive, Alive, Orig!KindOf, KindOf, Orig!None, None
<1>2. ASSUME Orig!writeDone PROVE (\E r \in answers : EndsAnswer(r)) /\ Fixed
  BY <1>2 DEF Orig!writeDone, Orig!WriteDone, Orig!Release, EndsAnswer, LetsGo, Orig!PortalIdle,
              PortalIdle, Orig!Alive, Alive, Orig!KindOf, KindOf, Orig!None, None
<1>3. ASSUME Orig!eraseDone PROVE (\E r \in answers : EndsAnswer(r)) /\ Fixed
  BY <1>3 DEF Orig!eraseDone, Orig!EraseDone, Orig!ReleaseErase, EndsAnswer, LetsGo,
              Orig!PortalIdle, PortalIdle, Orig!Alive, Alive, Orig!KindOf, KindOf, Orig!None,
              None
<1> QED
  BY <1>1, <1>2, <1>3 DEF Orig!PortalThread, HostStep, PortalDoes, Kinds

(* The card of main_orig.cpp of flash8192.                                 *)
LEMMA OrigCard ==
  ASSUME In("main_orig"), Orig!Card
  PROVE  HostStep
<1> USE DEF Orig!Running, Running, Orig!Step, Step, Orig!AtRequest, AtRequest, Orig!At, At,
            Orig!NextStep, NextStep, Orig!Tags, Tags, Orig!FileEnds, FileEnds, Orig!mainVars,
            mainVars, Orig!tagVars, tagVars, Orig!bufVars, bufVars, Orig!resultVars, resultVars,
            Orig!threadVars, threadVars, Orig!cardVars, cardVars, Orig!fixedVars, fixedVars,
            Orig!hostVars, hostVars, countVars, noteVars, cardPlaces, hostPlaces, infoVars,
            Fixed, amfVars, deviceVars, tableVars, In
<1>1. ASSUME Orig!Card PROVE (\E r \in pending : CardEnds(r)) /\ Fixed
  BY <1>1 DEF Orig!Card, Orig!CardAnswers, Orig!ContentAfter, Orig!SlotOf, SlotOf, CardEnds,
              Orig!KindOf, KindOf
<1> QED
  BY <1>1 DEF Orig!Card, HostStep, CardDoes, Kinds

(* The main thread of amf-dual.                                            *)
LEMMA AmfMain ==
  ASSUME InAmf, MainThread
  PROVE  HostStep
<1> USE DEF Running, Step, AtRequest, At, NextStep, Tags, FileEnds, mainVars, tagVars, bufVars,
            resultVars, threadVars, cardVars, fixedVars, hostVars, countVars, noteVars,
            cardPlaces, hostPlaces, infoVars, Fixed, amfVars, deviceVars, tableVars, InAmf
<1>1. ASSUME waitIdleEraseTag PROVE Claims("erase") /\ Fixed
  BY <1>1 DEF waitIdleEraseTag, WaitIdle, Claims
<1>2. ASSUME waitIdleWriteBuffer PROVE Claims("write") /\ Fixed
  BY <1>2 DEF waitIdleWriteBuffer, WaitIdle, Claims
<1>3. ASSUME waitIdleReadBuffer PROVE Claims("read") /\ Fixed
  BY <1>3 DEF waitIdleReadBuffer, WaitIdle, Claims
<1>4. ASSUME eraseBlock PROVE (Counts("erase") \/ Sends("erase")) /\ Fixed
  BY <1>4 DEF eraseBlock, EraseBlock, CountRequest, Send, Counts, Sends
<1>5. ASSUME writePage PROVE (Counts("write") \/ Sends("write")) /\ Fixed
  BY <1>5 DEF writePage, WritePage, CountRequest, Send, Counts, Sends
<1>6. ASSUME readPage PROVE (Counts("read") \/ Sends("read")) /\ Fixed
  BY <1>6 DEF readPage, ReadPage, CountRequest, Send, Counts, Sends
<1>7. ASSUME Drained /\ UNCHANGED amfVars PROVE GoesOn /\ Fixed
  BY <1>7 DEF Drained, GoesOn
<1>8. ASSUME Polls /\ UNCHANGED amfVars PROVE Rests /\ Fixed
  BY <1>8 DEF Polls, Rests
<1>9. ASSUME SetVerbose /\ UNCHANGED amfVars PROVE GoesOn /\ Fixed
  BY <1>9 DEF SetVerbose, GoesOn
<1>10. ASSUME PrintResult /\ UNCHANGED amfVars PROVE Stops /\ Fixed
  BY <1>10 DEF PrintResult, Stops
<1>11. ASSUME askAftlLoaded PROVE GoesOn /\ Fixed
  BY <1>11 DEF askAftlLoaded, Main, SameHost, GoesOn
<1>12. ASSUME sem_wait PROVE GoesOn /\ Fixed
  BY <1>12 DEF sem_wait, Main, SameHost, GoesOn
<1>13. ASSUME setAftlLoaded PROVE GoesOn /\ Fixed
  BY <1>13 DEF setAftlLoaded, Main, SameHost, GoesOn
<1>14. ASSUME clearTables PROVE GoesOn /\ Fixed
  BY <1>14 DEF clearTables, Main, SameHost, GoesOn
<1>15. ASSUME updateBlkInfo PROVE GoesOn /\ Fixed
  BY <1>15 DEF updateBlkInfo, Main, SameHost, GoesOn
<1>16. ASSUME readBlkInfo PROVE GoesOn /\ Fixed
  BY <1>16 DEF readBlkInfo, Main, SameHost, GoesOn
<1>17. ASSUME waitBlkInfoReads PROVE GoesOn /\ Fixed
  BY <1>17 DEF waitBlkInfoReads, Main, SameHost, GoesOn
<1>18. ASSUME updateMapping PROVE GoesOn /\ Fixed
  BY <1>18 DEF updateMapping, Main, SameHost, GoesOn
<1>19. ASSUME writeAFTLtoFile PROVE (GoesOn \/ Stops) /\ Fixed
  BY <1>19 DEF writeAFTLtoFile, Main, SameHost, ReturnError, GoesOn, Stops
<1>20. ASSUME readAFTLfromFile PROVE (GoesOn \/ Stops) /\ Fixed
  BY <1>20 DEF readAFTLfromFile, Main, SameHost, ReturnError, GoesOn, Stops
<1>21. ASSUME pollBlkInfoReads PROVE Rests /\ Fixed
  BY <1>21 DEF pollBlkInfoReads, Rests
<1> QED
  BY <1>1, <1>2, <1>3, <1>4, <1>5, <1>6, <1>7, <1>8, <1>9, <1>10, <1>11, <1>12, <1>13, <1>14,
     <1>15, <1>16, <1>17, <1>18, <1>19, <1>20, <1>21
  DEF MainThread, HostStep, MainDoes, Kinds

(* The portal thread of amf-dual.                                          *)
LEMMA AmfPortal ==
  ASSUME InAmf, PortalThread
  PROVE  HostStep
<1> USE DEF Running, Step, AtRequest, At, NextStep, Tags, FileEnds, mainVars, tagVars, bufVars,
            resultVars, threadVars, cardVars, fixedVars, hostVars, countVars, noteVars,
            cardPlaces, hostPlaces, infoVars, Fixed, amfVars, deviceVars, tableVars, InAmf
<1>1. ASSUME writeDone PROVE (\E r \in answers : EndsAnswer(r)) /\ Fixed
  BY <1>1 DEF writeDone, WriteDone, Release, EndsAnswer, LetsGo, PortalIdle, Alive, KindOf, None
<1>2. ASSUME eraseDone PROVE ((\E r \in answers : TakesAnswer(r)) \/ EndsHandling) /\ Fixed
  BY <1>2 DEF eraseDone, eraseDoneTables, eraseDoneLocked, ReleaseErase, TakesAnswer,
              EndsHandling, LetsGo, Handles, PortalIdle, Alive, KindOf, None
<1>3. ASSUME respAftlFailed PROVE (\E r \in refusals : EndsRefusal(r)) /\ Fixed
  BY <1>3 DEF respAftlFailed, EndsRefusal, LetsGo, PortalIdle, Alive, KindOf, None
<1>4. ASSUME respReadBlkInfo PROVE HearsInfo /\ Fixed
  BY <1>4 DEF respReadBlkInfo, HearsInfo
<1>5. ASSUME respAftlLoaded PROVE Rests /\ Fixed
  BY <1>5 DEF respAftlLoaded, Rests
<1> QED
  BY <1>1, <1>2, <1>3, <1>4, <1>5 DEF PortalThread, HostStep, PortalDoes, Kinds

(* The checker thread of amf-dual.                                         *)
LEMMA AmfChecker ==
  ASSUME InAmf, check_read_buffer_done
  PROVE  HostStep
<1> USE DEF Running, Step, AtRequest, At, NextStep, Tags, FileEnds, mainVars, tagVars, bufVars,
            resultVars, threadVars, cardVars, fixedVars, hostVars, countVars, noteVars,
            cardPlaces, hostPlaces, infoVars, Fixed, amfVars, deviceVars, tableVars, InAmf
<1>1. ASSUME check_read_buffer_done
      PROVE  ((\E r \in answers : TakesPage(r)) \/ EndsChecking) /\ Fixed
  BY <1>1 DEF check_read_buffer_done, CheckDoneWord, CheckDoneLocked, Release, TakesPage,
              EndsChecking, LetsGo, PortalIdle, Alive, KindOf, None
<1> QED
  BY <1>1 DEF check_read_buffer_done, HostStep, CheckerDoes, Kinds

(* The translation layer and the cards of amf-dual.                        *)
LEMMA AmfCard ==
  ASSUME InAmf, Card
  PROVE  HostStep
<1> USE DEF Running, Step, AtRequest, At, NextStep, Tags, FileEnds, mainVars, tagVars, bufVars,
            resultVars, threadVars, cardVars, fixedVars, hostVars, countVars, noteVars,
            cardPlaces, hostPlaces, infoVars, Fixed, amfVars, deviceVars, tableVars, InAmf
<1>1. ASSUME Translate PROVE (\E r \in pending : ToCards(r) \/ Refuses(r)) /\ Fixed
  BY <1>1 DEF Translate, ToFlash, Refuse, ToCards, Refuses
<1>2. ASSUME FlashAnswers PROVE (\E f \in flash : CardsEnd(f)) /\ Fixed
  BY <1>2 DEF FlashAnswers, ContentAfter, CardsEnd, KindOf, Kind
<1> QED
  BY <1>1, <1>2 DEF Card, HostStep, CardDoes, Kinds

(* Every step of every program is one of these.                            *)
LEMMA EveryStep ==
  ASSUME [Steps]_vars
  PROVE  HostStep
<1>1. CASE MainSteps
  BY <1>1, PinkMain, FlashKtMain, Flash8192Main, DualMain, OrigMain, AmfMain DEF MainSteps
<1>2. CASE PortalSteps
  BY <1>2, PinkPortal, FlashKtPortal, Flash8192Portal, DualPortal, OrigPortal, AmfPortal
  DEF PortalSteps
<1>3. CASE CheckerSteps
  BY <1>3, DualChecker, AmfChecker DEF CheckerSteps
<1>4. CASE CardSteps
  BY <1>4, PinkCard, FlashKtCard, Flash8192Card, DualCard, OrigCard, AmfCard DEF CardSteps
<1>5. CASE AllEnded \/ UNCHANGED vars
  <2>1. Rests /\ Fixed
    BY <1>5
    DEF AllEnded, Finished, vars, hostVars, mainVars, tagVars, bufVars, resultVars, threadVars,
        cardVars, fixedVars, amfVars, deviceVars, Rests, Fixed, countVars, noteVars, cardPlaces,
        hostPlaces, infoVars
  <2> QED
    BY <2>1 DEF HostStep
<1> QED
  BY <1>1, <1>2, <1>3, <1>4, <1>5 DEF Steps

-----------------------------------------------------------------------------
(* Requests and their kinds stay what they are.                            *)
LEMMA ScriptStays ==
  ASSUME Fixed
  PROVE  /\ TheRequests' = TheRequests /\ Requests' = Requests /\ Handles' = Handles
         /\ \A n : Kind(n)' = Kind(n)
BY DEF Fixed, TheRequests, Requests, Handles, Kind

(* Requests are numbers, and what is out is a request under a tag.         *)
LEMMA RequestNumbers ==
  ASSUME TestFits(prog, script)
  PROVE  /\ Len(script) \in Nat /\ TheRequests \subseteq 1 .. Len(script)
         /\ \A n \in TheRequests : n \in Nat /\ n > 0 /\ Kind(n) \in Kinds
<1>1. Len(script) \in Nat
  BY LenProperties DEF TestFits
<1>2. TheRequests = StepsOf(script, "request")
  BY DEF TheRequests, StepsOf
<1> QED
  BY <1>1, <1>2 DEF TestFits, TheRequests, Kind

(* What is out is a request under a tag.                                   *)
LEMMA OutTyped ==
  ASSUME PlacesTyped, NEW n, NEW t, Out(n, t)
  PROVE  n \in TheRequests /\ t \in Tags
BY DEF PlacesTyped, Requests, Out, InPending, InFlash, InAnswers, InRefusals, InHandling,
       InChecking

(* None is no request.                                                     *)
LEMMA NoneIsNone ==
  ASSUME TestFits(prog, script), NEW n \in TheRequests, NEW t, NEW b
  PROVE  [n |-> n, tag |-> t, passed |-> b] # None
<1>1. n > 0 /\ n # 0
  BY RequestNumbers
<1> QED
  BY <1>1 DEF None

(* What a step does to the requests that are out.                          *)
Moved         == \A n, t : Out(n, t)' <=> Out(n, t)
Added(m, u)   == \A n, t : Out(n, t)' <=> Out(n, t) \/ (n = m /\ t = u)
Removed(m, u) == \A n, t : Out(n, t)' <=> Out(n, t) /\ ~(n = m /\ t = u)

(* Nothing moves.                                                          *)
LEMMA PlacesStay ==
  ASSUME Places, Fixed, UNCHANGED <<cardPlaces, hostPlaces>>
  PROVE  Places' /\ Moved
<1> USE ScriptStays DEF cardPlaces, hostPlaces, InPending, InFlash, InAnswers, InRefusals,
                        InHandling, InChecking
<1>1. PlacesTyped'
  BY DEF Places, PlacesTyped
<1>2. OnePlace'
  BY DEF Places, OnePlace, Once
<1> QED
  BY <1>1, <1>2 DEF Places, Moved, Out

(* Main sends a request that was not out.                                  *)
LEMMA PlacesSend ==
  ASSUME TestFits(prog, script), Places, Fixed, NEW k, Sends(k), at \in TheRequests, held \in Tags,
         \A t : ~Out(at, t)
  PROVE  Places' /\ Added(at, held)
<1> USE ScriptStays DEF hostPlaces, Sends
<1>1. /\ \A n, t : InPending(n, t)' <=> InPending(n, t) \/ (n = at /\ t = held)
      /\ \A n, t : /\ InFlash(n, t)' <=> InFlash(n, t)
                   /\ InAnswers(n, t)' <=> InAnswers(n, t)
                   /\ InRefusals(n, t)' <=> InRefusals(n, t)
                   /\ InHandling(n, t)' <=> InHandling(n, t)
                   /\ InChecking(n, t)' <=> InChecking(n, t)
  BY DEF InPending, InFlash, InAnswers, InRefusals, InHandling, InChecking
<1>2. PlacesTyped'
  BY DEF Places, PlacesTyped, Requests
<1>3. OnePlace'
  BY <1>1 DEF Places, OnePlace, Once, Out
<1> QED
  BY <1>1, <1>2, <1>3 DEF Places, Added, Out

(* The card answers a request.                                             *)
LEMMA PlacesCardEnds ==
  ASSUME TestFits(prog, script), Places, Fixed, NEW r \in pending, CardEnds(r)
  PROVE  Places' /\ Moved
<1> USE ScriptStays DEF CardEnds
<1>1. r \in Requests
  BY DEF Places, PlacesTyped
<1>2. PICK m \in TheRequests, u \in Tags : r = [n |-> m, tag |-> u]
  BY <1>1 DEF Requests
<1>3. /\ \A n, t : InPending(n, t)' <=> InPending(n, t) /\ ~(n = m /\ t = u)
      /\ \A n, t : InAnswers(n, t)' <=> InAnswers(n, t) \/ (n = m /\ t = u)
      /\ \A n, t : /\ InFlash(n, t)' <=> InFlash(n, t)
                   /\ InRefusals(n, t)' <=> InRefusals(n, t)
                   /\ InHandling(n, t)' <=> InHandling(n, t)
                   /\ InChecking(n, t)' <=> InChecking(n, t)
      /\ InPending(m, u)
  BY <1>2 DEF InPending, InFlash, InAnswers, InRefusals, InHandling, InChecking
<1>4. PlacesTyped'
  BY <1>1 DEF Places, PlacesTyped
<1>5. OnePlace'
  BY <1>3 DEF Places, OnePlace, Once
<1> QED
  BY <1>3, <1>4, <1>5 DEF Places, Moved, Out

(* The layer passes a request on to the cards.                             *)
LEMMA PlacesToCards ==
  ASSUME TestFits(prog, script), Places, Fixed, NEW r \in pending, ToCards(r)
  PROVE  Places' /\ Moved
<1> USE ScriptStays DEF ToCards, hostPlaces
<1>1. r \in Requests
  BY DEF Places, PlacesTyped
<1>2. PICK m \in TheRequests, u \in Tags : r = [n |-> m, tag |-> u]
  BY <1>1 DEF Requests
<1>3. PICK f : f.n = m /\ f.tag = u /\ flash' = flash \union {f}
  BY <1>2
<1>4. /\ \A n, t : InPending(n, t)' <=> InPending(n, t) /\ ~(n = m /\ t = u)
      /\ \A n, t : InFlash(n, t)' <=> InFlash(n, t) \/ (n = m /\ t = u)
      /\ \A n, t : /\ InAnswers(n, t)' <=> InAnswers(n, t)
                   /\ InRefusals(n, t)' <=> InRefusals(n, t)
                   /\ InHandling(n, t)' <=> InHandling(n, t)
                   /\ InChecking(n, t)' <=> InChecking(n, t)
      /\ InPending(m, u)
  BY <1>1, <1>2, <1>3
  DEF Places, OnePlace, InPending, InFlash, InAnswers, InRefusals, InHandling, InChecking
<1>5. PlacesTyped'
  BY <1>1, <1>2, <1>3 DEF Places, PlacesTyped
<1>6. OnePlace'
  BY <1>1, <1>2, <1>4 DEF Places, OnePlace, Once, InFlash
<1> QED
  BY <1>2, <1>4, <1>5, <1>6 DEF Places, Moved, Out

(* The layer refuses a request.                                            *)
LEMMA PlacesRefuse ==
  ASSUME TestFits(prog, script), Places, Fixed, NEW r \in pending, Refuses(r)
  PROVE  Places' /\ Moved
<1> USE ScriptStays DEF Refuses
<1>1. r \in Requests
  BY DEF Places, PlacesTyped
<1>2. PICK m \in TheRequests, u \in Tags : r = [n |-> m, tag |-> u]
  BY <1>1 DEF Requests
<1>3. /\ \A n, t : InPending(n, t)' <=> InPending(n, t) /\ ~(n = m /\ t = u)
      /\ \A n, t : InRefusals(n, t)' <=> InRefusals(n, t) \/ (n = m /\ t = u)
      /\ \A n, t : /\ InFlash(n, t)' <=> InFlash(n, t)
                   /\ InAnswers(n, t)' <=> InAnswers(n, t)
                   /\ InHandling(n, t)' <=> InHandling(n, t)
                   /\ InChecking(n, t)' <=> InChecking(n, t)
      /\ InPending(m, u)
  BY <1>1, <1>2
  DEF Places, OnePlace, InPending, InFlash, InAnswers, InRefusals, InHandling, InChecking
<1>4. PlacesTyped'
  BY <1>1, <1>2 DEF Places, PlacesTyped
<1>5. OnePlace'
  BY <1>1, <1>2, <1>3 DEF Places, OnePlace, Once
<1> QED
  BY <1>2, <1>3, <1>4, <1>5 DEF Places, Moved, Out

(* A card behind the layer answers.                                        *)
LEMMA PlacesCardsEnd ==
  ASSUME TestFits(prog, script), Places, Fixed, NEW r \in flash, CardsEnd(r)
  PROVE  Places' /\ Moved
<1> USE ScriptStays DEF CardsEnd
<1>1. r.n \in TheRequests /\ r.tag \in Tags
  BY DEF Places, PlacesTyped
<1>2. PICK m \in TheRequests, u \in Tags : r.n = m /\ r.tag = u
  BY <1>1
<1>3. /\ \A n, t : InFlash(n, t)' <=> InFlash(n, t) /\ ~(n = m /\ t = u)
      /\ \A n, t : InAnswers(n, t)' <=> InAnswers(n, t) \/ (n = m /\ t = u)
      /\ \A n, t : /\ InPending(n, t)' <=> InPending(n, t)
                   /\ InRefusals(n, t)' <=> InRefusals(n, t)
                   /\ InHandling(n, t)' <=> InHandling(n, t)
                   /\ InChecking(n, t)' <=> InChecking(n, t)
      /\ InFlash(m, u)
  BY <1>1, <1>2
  DEF Places, OnePlace, InPending, InFlash, InAnswers, InRefusals, InHandling, InChecking
<1>4. PlacesTyped'
  BY <1>1, <1>2 DEF Places, PlacesTyped, Requests
<1>5. OnePlace'
  BY <1>1, <1>2, <1>3 DEF Places, OnePlace, Once
<1> QED
  BY <1>2, <1>3, <1>4, <1>5 DEF Places, Moved, Out

(* The portal thread takes an answer.                                      *)
LEMMA PlacesTakeAnswer ==
  ASSUME TestFits(prog, script), Places, Fixed, NEW r \in answers, TakesAnswer(r)
  PROVE  Places' /\ Moved
<1> USE ScriptStays DEF TakesAnswer, cardPlaces
<1>1. r \in Requests
  BY DEF Places, PlacesTyped
<1>2. PICK m \in TheRequests, u \in Tags : r = [n |-> m, tag |-> u]
  BY <1>1 DEF Requests
<1>3. \A b : [n |-> m, tag |-> u, passed |-> b] # None
  BY NoneIsNone
<1>4. /\ \A n, t : InAnswers(n, t)' <=> InAnswers(n, t) /\ ~(n = m /\ t = u)
      /\ \A n, t : InHandling(n, t)' <=> InHandling(n, t) \/ (n = m /\ t = u)
      /\ \A n, t : /\ InPending(n, t)' <=> InPending(n, t)
                   /\ InFlash(n, t)' <=> InFlash(n, t)
                   /\ InRefusals(n, t)' <=> InRefusals(n, t)
                   /\ InChecking(n, t)' <=> InChecking(n, t)
      /\ InAnswers(m, u)
  BY <1>1, <1>2, <1>3
  DEF Places, OnePlace, InPending, InFlash, InAnswers, InRefusals, InHandling, InChecking
<1>5. PlacesTyped'
  BY <1>1, <1>2, <1>3 DEF Places, PlacesTyped, KindOf, Kind
<1>6. OnePlace'
  BY <1>1, <1>2, <1>4 DEF Places, OnePlace, Once
<1> QED
  BY <1>2, <1>4, <1>5, <1>6 DEF Places, Moved, Out

(* The checker thread takes a page.                                        *)
LEMMA PlacesTakePage ==
  ASSUME TestFits(prog, script), Places, Fixed, NEW r \in answers, TakesPage(r)
  PROVE  Places' /\ Moved
<1> USE ScriptStays DEF TakesPage, cardPlaces
<1>1. r \in Requests
  BY DEF Places, PlacesTyped
<1>2. PICK m \in TheRequests, u \in Tags : r = [n |-> m, tag |-> u]
  BY <1>1 DEF Requests
<1>3. \A b : [n |-> m, tag |-> u, passed |-> b] # None
  BY NoneIsNone
<1>4. /\ \A n, t : InAnswers(n, t)' <=> InAnswers(n, t) /\ ~(n = m /\ t = u)
      /\ \A n, t : InChecking(n, t)' <=> InChecking(n, t) \/ (n = m /\ t = u)
      /\ \A n, t : /\ InPending(n, t)' <=> InPending(n, t)
                   /\ InFlash(n, t)' <=> InFlash(n, t)
                   /\ InRefusals(n, t)' <=> InRefusals(n, t)
                   /\ InHandling(n, t)' <=> InHandling(n, t)
      /\ InAnswers(m, u)
  BY <1>1, <1>2, <1>3
  DEF Places, OnePlace, InPending, InFlash, InAnswers, InRefusals, InHandling, InChecking
<1>5. PlacesTyped'
  BY <1>1, <1>2, <1>3 DEF Places, PlacesTyped, KindOf, Kind
<1>6. OnePlace'
  BY <1>1, <1>2, <1>4 DEF Places, OnePlace, Once
<1> QED
  BY <1>2, <1>4, <1>5, <1>6 DEF Places, Moved, Out

(* A handler that takes an answer and ends it.                             *)
LEMMA PlacesEndAnswer ==
  ASSUME TestFits(prog, script), Places, Fixed, NEW r \in answers, EndsAnswer(r)
  PROVE  Places' /\ Out(r.n, r.tag) /\ Removed(r.n, r.tag)
<1> USE ScriptStays DEF EndsAnswer, LetsGo, cardPlaces
<1>1. r \in Requests
  BY DEF Places, PlacesTyped
<1>2. PICK m \in TheRequests, u \in Tags : r = [n |-> m, tag |-> u]
  BY <1>1 DEF Requests
<1>3. /\ \A n, t : InAnswers(n, t)' <=> InAnswers(n, t) /\ ~(n = m /\ t = u)
      /\ \A n, t : /\ InPending(n, t)' <=> InPending(n, t)
                   /\ InFlash(n, t)' <=> InFlash(n, t)
                   /\ InRefusals(n, t)' <=> InRefusals(n, t)
                   /\ InHandling(n, t)' <=> InHandling(n, t)
                   /\ InChecking(n, t)' <=> InChecking(n, t)
      /\ InAnswers(m, u)
  BY <1>1, <1>2
  DEF Places, OnePlace, InPending, InFlash, InAnswers, InRefusals, InHandling, InChecking
<1>4. PlacesTyped'
  BY <1>1, <1>2 DEF Places, PlacesTyped
<1>5. OnePlace'
  BY <1>1, <1>2, <1>3 DEF Places, OnePlace, Once
<1>6. Once(m, u)
  BY DEF Places, OnePlace
<1> QED
  BY <1>2, <1>3, <1>4, <1>5, <1>6 DEF Places, Removed, Out, Once

(* The handler of a refusal.                                               *)
LEMMA PlacesEndRefusal ==
  ASSUME TestFits(prog, script), Places, Fixed, NEW r \in refusals, EndsRefusal(r)
  PROVE  Places' /\ Out(r.n, r.tag) /\ Removed(r.n, r.tag)
<1> USE ScriptStays DEF EndsRefusal, LetsGo, cardPlaces
<1>1. r \in Requests
  BY DEF Places, PlacesTyped
<1>2. PICK m \in TheRequests, u \in Tags : r = [n |-> m, tag |-> u]
  BY <1>1 DEF Requests
<1>3. /\ \A n, t : InRefusals(n, t)' <=> InRefusals(n, t) /\ ~(n = m /\ t = u)
      /\ \A n, t : /\ InPending(n, t)' <=> InPending(n, t)
                   /\ InFlash(n, t)' <=> InFlash(n, t)
                   /\ InAnswers(n, t)' <=> InAnswers(n, t)
                   /\ InHandling(n, t)' <=> InHandling(n, t)
                   /\ InChecking(n, t)' <=> InChecking(n, t)
      /\ InRefusals(m, u)
  BY <1>1, <1>2
  DEF Places, OnePlace, InPending, InFlash, InAnswers, InRefusals, InHandling, InChecking
<1>4. PlacesTyped'
  BY <1>1, <1>2 DEF Places, PlacesTyped
<1>5. OnePlace'
  BY <1>1, <1>2, <1>3 DEF Places, OnePlace, Once
<1>6. Once(m, u)
  BY DEF Places, OnePlace
<1> QED
  BY <1>2, <1>3, <1>4, <1>5, <1>6 DEF Places, Removed, Out, Once

(* The portal thread ends what it is in the middle of.                     *)
LEMMA PlacesEndHandling ==
  ASSUME TestFits(prog, script), Places, Fixed, EndsHandling
  PROVE  Places' /\ Out(handling.n, handling.tag) /\ Removed(handling.n, handling.tag)
<1> USE ScriptStays DEF EndsHandling, LetsGo, cardPlaces
<1>1. handling.n \in TheRequests /\ handling.tag \in Tags
  BY DEF Places, PlacesTyped
<1>2. PICK m \in TheRequests, u \in Tags : handling.n = m /\ handling.tag = u
  BY <1>1
<1>3. /\ \A n, t : InHandling(n, t)' <=> InHandling(n, t) /\ ~(n = m /\ t = u)
      /\ \A n, t : /\ InPending(n, t)' <=> InPending(n, t)
                   /\ InFlash(n, t)' <=> InFlash(n, t)
                   /\ InAnswers(n, t)' <=> InAnswers(n, t)
                   /\ InRefusals(n, t)' <=> InRefusals(n, t)
                   /\ InChecking(n, t)' <=> InChecking(n, t)
      /\ InHandling(m, u)
  BY <1>1, <1>2
  DEF Places, OnePlace, InPending, InFlash, InAnswers, InRefusals, InHandling, InChecking
<1>4. PlacesTyped'
  BY <1>1, <1>2 DEF Places, PlacesTyped
<1>5. OnePlace'
  BY <1>1, <1>2, <1>3 DEF Places, OnePlace, Once
<1>6. Once(m, u)
  BY DEF Places, OnePlace
<1> QED
  BY <1>2, <1>3, <1>4, <1>5, <1>6 DEF Places, Removed, Out, Once

(* The checker thread ends what it is in the middle of.                    *)
LEMMA PlacesEndChecking ==
  ASSUME TestFits(prog, script), Places, Fixed, EndsChecking
  PROVE  Places' /\ Out(checking.n, checking.tag) /\ Removed(checking.n, checking.tag)
<1> USE ScriptStays DEF EndsChecking, LetsGo, cardPlaces
<1>1. checking.n \in TheRequests /\ checking.tag \in Tags
  BY DEF Places, PlacesTyped
<1>2. PICK m \in TheRequests, u \in Tags : checking.n = m /\ checking.tag = u
  BY <1>1
<1>3. /\ \A n, t : InChecking(n, t)' <=> InChecking(n, t) /\ ~(n = m /\ t = u)
      /\ \A n, t : /\ InPending(n, t)' <=> InPending(n, t)
                   /\ InFlash(n, t)' <=> InFlash(n, t)
                   /\ InAnswers(n, t)' <=> InAnswers(n, t)
                   /\ InRefusals(n, t)' <=> InRefusals(n, t)
                   /\ InHandling(n, t)' <=> InHandling(n, t)
      /\ InChecking(m, u)
  BY <1>1, <1>2
  DEF Places, OnePlace, InPending, InFlash, InAnswers, InRefusals, InHandling, InChecking
<1>4. PlacesTyped'
  BY <1>1, <1>2 DEF Places, PlacesTyped
<1>5. OnePlace'
  BY <1>1, <1>2, <1>3 DEF Places, OnePlace, Once
<1>6. Once(m, u)
  BY DEF Places, OnePlace
<1> QED
  BY <1>2, <1>3, <1>4, <1>5, <1>6 DEF Places, Removed, Out, Once

-----------------------------------------------------------------------------
(* The tags are finitely many, and so are the busy ones.                   *)
LEMMA BusyFinite ==
  ASSUME NEW k
  PROVE  IsFiniteSet(BusyTags(k)) /\ Cardinality(BusyTags(k)) \in Nat
<1>0. NUM_TAGS - 1 \in Int
  BY HostAssumption
<1>1. IsFiniteSet(Tags)
  BY <1>0, FS_Interval DEF Tags
<1>2. BusyTags(k) \subseteq Tags
  BY DEF BusyTags
<1> QED
  BY <1>1, <1>2, FS_Subset, FS_CardinalityType

(* What the script says stays.                                             *)
LEMMA StepsStay ==
  ASSUME Fixed
  PROVE  /\ \A op : StepsOf(script, op)' = StepsOf(script, op)
         /\ Len(script)' = Len(script) /\ (TestFits(prog, script) => TestFits(prog, script)')
<1>1. script' = script /\ prog' = prog
  BY DEF Fixed
<1>2. \A op : StepsOf(script, op)' = StepsOf(script, op)
  BY <1>1 DEF StepsOf
<1>3. TestFits(prog', script') => TestFits(prog, script)'
  BY DEF TestFits, Awaits, StepsOf
<1>4. TestFits(prog, script) => TestFits(prog', script')
  BY <1>1
<1> QED
  BY <1>1, <1>2, <1>3, <1>4

(* A step that moves no request and leaves main and the counts alone.      *)
LEMMA BooksStay ==
  ASSUME Books, Fixed, Moved, UNCHANGED <<mainVars, countVars, done>>
  PROVE  Books'
<1> USE ScriptStays, StepsStay DEF mainVars, countVars
<1>1. /\ \A n : Begun(n)' <=> Begun(n)
      /\ Holds' <=> Holds
      /\ \A k : (Uncounted(k)' <=> Uncounted(k)) /\ BusyTags(k)' = BusyTags(k)
  <2>1. Kind(at)' = Kind(at)
    BY DEF Kind, Fixed
  <2> QED
    BY <2>1 DEF Begun, Holds, Uncounted, BusyTags, Kind, Fixed
<1>2. MainTyped'
  BY DEF Books, MainTyped, Fixed
<1>3. Marked'
  BY <1>1 DEF Books, Marked, Moved, Kind, Fixed
<1>4. Apart'
  BY <1>1 DEF Books, Apart, Moved, Kind, Fixed
<1>5. Accounted'
  BY <1>1 DEF Books, Accounted, Moved
<1>6. Counted'
  BY <1>1 DEF Books, Counted
<1>7. Awaited'
  BY DEF Books, Awaited
<1> QED
  BY <1>2, <1>3, <1>4, <1>5, <1>6, <1>7 DEF Books

(* Main takes an idle tag.                                                 *)
LEMMA BooksClaim ==
  ASSUME TestFits(prog, script), Books, PlacesTyped, Fixed, Moved, NEW k \in Kinds, Claims(k)
  PROVE  Books'
<1> USE ScriptStays, StepsStay DEF Claims
<1> DEFINE t == held'
<1>0. /\ at \in TheRequests /\ Kind(at) = k /\ at' = at /\ pc = "claim" /\ t \in Tags
      /\ Kind(at)' = k /\ pc' \in {"send", "count"} /\ done' = done /\ inFlight' = inFlight
  <2>1. at \in TheRequests /\ Kind(at) = k
    BY DEF AtRequest, Running, Step, TheRequests, Kind, Books, MainTyped
  <2> QED
    BY <2>1 DEF Kind, Fixed
<1>1. /\ \A n : Begun(n)' <=> n < at
      /\ \A n : Begun(n) <=> n < at
      /\ ~Holds /\ Holds' /\ \A j : ~Uncounted(j) /\ (Uncounted(j)' <=> j = k)
  BY <1>0 DEF Begun, Holds, Uncounted, Kind, Fixed
<1>2. /\ \A j \in Kinds, u \in Tags : busy'[j][u] = IF j = k /\ u = t THEN TRUE ELSE busy[j][u]
      /\ busy' \in [Kinds -> [Tags -> BOOLEAN]] /\ ~busy[k][t]
  BY <1>0 DEF Books, MainTyped
<1>3. MainTyped'
  BY <1>0, <1>2 DEF Books, MainTyped
<1>4. Marked'
  <2>1. \A n \in TheRequests, u \in Tags :
          Out(n, u) => Kind(n) \in Kinds /\ Begun(n) /\ n \notin done /\ busy[Kind(n)][u]
    BY RequestNumbers DEF Books, Marked
  <2>2. \A n \in TheRequests, u \in Tags : Out(n, u) => busy'[Kind(n)][u]
    BY <2>1, <1>2
  <2>3. busy'[k][t]
    BY <1>0, <1>2
  <2> QED
    BY <2>1, <2>2, <2>3, <1>0, <1>1 DEF Marked, Moved
<1>5. Apart'
  <2>1. \A n \in TheRequests : Out(n, t) => Kind(n) # k
    BY <1>0, <1>2 DEF Books, Marked
  <2> QED
    BY <2>1, <1>0 DEF Books, Apart, Moved
<1>6. Accounted'
  BY <1>0, <1>1 DEF Books, Accounted, Moved
<1>7. Counted'
  <2>1. \A j \in Kinds : j # k => BusyTags(j)' = BusyTags(j)
    BY <1>2 DEF BusyTags
  <2>2. BusyTags(k)' = BusyTags(k) \union {t} /\ t \notin BusyTags(k)
    BY <1>0, <1>2 DEF BusyTags
  <2>3. Cardinality(BusyTags(k) \union {t}) = Cardinality(BusyTags(k)) + 1
    BY <2>2, BusyFinite, FS_AddElement
  <2>4. \A j \in Kinds : inFlight[j] = Cardinality(BusyTags(j))
    BY <1>1, BusyFinite DEF Books, Counted
  <2>5. Cardinality(BusyTags(k)) \in Nat
    BY BusyFinite
  <2>6. \A j \in Kinds : j # k => inFlight'[j] = Cardinality(BusyTags(j)') - 0
    BY <2>1, <2>4, <1>0, BusyFinite
  <2>7. inFlight'[k] = Cardinality(BusyTags(k)') - 1
    BY <2>2, <2>3, <2>4, <2>5, <1>0
  <2> QED
    BY <2>6, <2>7, <1>1 DEF Counted
<1>8. Awaited'
  BY <1>0 DEF Books, Awaited
<1> QED
  BY <1>3, <1>4, <1>5, <1>6, <1>7, <1>8 DEF Books

(* Main counts its request: a search that was sent, or one to be sent.     *)
LEMMA BooksCount ==
  ASSUME TestFits(prog, script), Books, Fixed, Moved, NEW k \in Kinds, Counts(k)
  PROVE  Books'
<1> USE ScriptStays, StepsStay DEF Counts
<1>0. /\ at \in TheRequests /\ Kind(at) = k /\ pc = "count" /\ busy' = busy /\ done' = done
      /\ held' = held /\ at \in Nat /\ at <= Len(script) /\ Len(script) \in Nat
      /\ inFlight' \in [Kinds -> Int]
      /\ \A j \in Kinds : inFlight'[j] = IF j = k THEN inFlight[k] + 1 ELSE inFlight[j]
  <2>1. at \in TheRequests /\ Kind(at) = k
    BY DEF AtRequest, Running, Step, TheRequests, Kind, Books, MainTyped
  <2>2. inFlight \in [Kinds -> Int]
    BY DEF Books, MainTyped
  <2> QED
    BY <2>1, <2>2, RequestNumbers
<1>1. CASE k = "search"
  <2>0. at' = at + 1 /\ pc' = "claim"
    BY <1>1
  <2>1. /\ \A n \in TheRequests : Begun(n)' <=> Begun(n)
        /\ ~Holds' /\ \A j : ~Uncounted(j)' /\ (Uncounted(j) <=> j = k)
    BY <1>0, <1>1, <2>0, RequestNumbers DEF Begun, Holds, Uncounted, Kind, Fixed
  <2>2. MainTyped'
    BY <1>0, <2>0 DEF Books, MainTyped
  <2>3. Marked' /\ Apart'
    BY <1>0, <2>1 DEF Books, Marked, Apart, Moved
  <2>4. Accounted'
    BY <1>0, <2>1 DEF Books, Accounted, Moved
  <2>5. Counted'
    <3>1. \A j : BusyTags(j)' = BusyTags(j)
      BY <1>0 DEF BusyTags
    <3>2. \A j \in Kinds : j # k => inFlight[j] = Cardinality(BusyTags(j))
      BY <2>1, BusyFinite DEF Books, Counted
    <3>3. inFlight[k] = Cardinality(BusyTags(k)) - 1 /\ Cardinality(BusyTags(k)) \in Nat
      BY <2>1, BusyFinite DEF Books, Counted
    <3>4. inFlight'[k] = Cardinality(BusyTags(k))
      BY <3>3, <1>0
    <3>5. \A j \in Kinds : inFlight'[j] = Cardinality(BusyTags(j))
      BY <3>2, <3>4, <1>0
    <3> QED
      BY <3>1, <3>5, <2>1, BusyFinite DEF Counted
  <2>6. Awaited'
    <3>1. at \notin StepsOf(script, "drain")
      BY <1>0 DEF TheRequests, StepsOf
    <3>2. \A d \in StepsOf(script, "drain") : d < at' => d < at
      BY <3>1, <2>0, <1>0 DEF StepsOf
    <3> QED
      BY <3>2, <1>0 DEF Books, Awaited
  <2> QED
    BY <2>2, <2>3, <2>4, <2>5, <2>6 DEF Books
<1>2. CASE k # "search"
  <2>0. at' = at /\ pc' = "send" /\ Kind(at)' = Kind(at)
    BY <1>2 DEF Kind, Fixed
  <2>1. /\ \A n \in TheRequests : Begun(n)' <=> Begun(n)
        /\ Holds /\ Holds' /\ \A j : ~Uncounted(j)' /\ (Uncounted(j) <=> j = k)
    BY <1>0, <1>2, <2>0 DEF Begun, Holds, Uncounted, Kind, Fixed
  <2>2. MainTyped'
    BY <1>0, <2>0 DEF Books, MainTyped
  <2>3. Marked' /\ Apart'
    BY <1>0, <2>0, <2>1 DEF Books, Marked, Apart, Moved
  <2>4. Accounted'
    BY <1>0, <2>1 DEF Books, Accounted, Moved
  <2>5. Counted'
    <3>1. \A j : BusyTags(j)' = BusyTags(j)
      BY <1>0 DEF BusyTags
    <3>2. \A j \in Kinds : j # k => inFlight[j] = Cardinality(BusyTags(j))
      BY <2>1, BusyFinite DEF Books, Counted
    <3>3. inFlight[k] = Cardinality(BusyTags(k)) - 1 /\ Cardinality(BusyTags(k)) \in Nat
      BY <2>1, BusyFinite DEF Books, Counted
    <3>4. inFlight'[k] = Cardinality(BusyTags(k))
      BY <3>3, <1>0
    <3>5. \A j \in Kinds : inFlight'[j] = Cardinality(BusyTags(j))
      BY <3>2, <3>4, <1>0
    <3> QED
      BY <3>1, <3>5, <2>1, BusyFinite DEF Counted
  <2>6. Awaited'
    BY <1>0, <2>0 DEF Books, Awaited
  <2> QED
    BY <2>2, <2>3, <2>4, <2>5, <2>6 DEF Books
<1> QED
  BY <1>1, <1>2

(* Main sends its request.                                                 *)
LEMMA BooksSend ==
  ASSUME TestFits(prog, script), Books, PlacesTyped, Fixed,
         NEW k \in Kinds, Sends(k), Added(at, held)
  PROVE  Books'
<1> USE ScriptStays, StepsStay DEF Sends, countVars
<1>0. /\ at \in TheRequests /\ Kind(at) = k /\ pc = "send" /\ held' = held /\ held \in Tags
      /\ busy' = busy /\ inFlight' = inFlight /\ done' = done
      /\ at \in Nat /\ at <= Len(script) /\ Len(script) \in Nat
      /\ busy \in [Kinds -> [Tags -> BOOLEAN]] /\ inFlight \in [Kinds -> Int]
  <2>1. at \in TheRequests /\ Kind(at) = k
    BY DEF AtRequest, Running, Step, TheRequests, Kind, Books, MainTyped
  <2> QED
    BY <2>1, RequestNumbers DEF Books, MainTyped
<1>1. /\ \A n \in TheRequests : Begun(n)' <=> Begun(n) \/ n = at
      /\ ~Begun(at) /\ Holds /\ ~Holds'
      /\ \A j : Uncounted(j)' <=> Uncounted(j)
  <2>1. CASE k = "search"
    <3>1. at' = at /\ pc' = "count" /\ Kind(at)' = Kind(at)
      BY <2>1 DEF Kind, Fixed
    <3> QED
      BY <2>1, <3>1, <1>0, RequestNumbers DEF Begun, Holds, Uncounted, Kind, Fixed
  <2>2. CASE k # "search"
    <3>1. at' = at + 1 /\ pc' = "claim"
      BY <2>2
    <3> QED
      BY <2>2, <3>1, <1>0, RequestNumbers DEF Begun, Holds, Uncounted, Kind, Fixed
  <2> QED
    BY <2>1, <2>2
<1>2. MainTyped'
  BY <1>0 DEF Books, MainTyped
<1>3. at \notin done /\ busy[k][held]
  BY <1>0, <1>1 DEF Books, Accounted, Marked
<1>4. Marked'
  BY <1>0, <1>1, <1>3 DEF Books, Marked, Added
<1>5. Apart'
  <2>1. \A n \in TheRequests : Out(n, held) => Kind(n) # k
    BY <1>0, <1>1 DEF Books, Apart
  <2>2. \A t \in Tags : ~Out(at, t)
    BY <1>0, <1>1 DEF Books, Marked
  <2> QED
    BY <2>1, <2>2, <1>0, <1>1 DEF Books, Apart, Added
<1>6. Accounted'
  BY <1>0, <1>1 DEF Books, Accounted, Added
<1>7. Counted'
  BY <1>0, <1>1 DEF Books, Counted, BusyTags
<1>8. Awaited'
  <2>1. at \notin StepsOf(script, "drain")
    BY <1>0 DEF TheRequests, StepsOf
  <2>2. \A d \in StepsOf(script, "drain") : d < at' => d < at
    BY <2>1, <1>0 DEF StepsOf
  <2> QED
    BY <2>2, <1>0 DEF Books, Awaited
<1> QED
  BY <1>2, <1>4, <1>5, <1>6, <1>7, <1>8 DEF Books

(* Nothing of a kind is out when its count is zero and main holds no tag.  *)
LEMMA DrainedIsDone ==
  ASSUME Books, NEW k \in Kinds, pc = "claim", inFlight[k] = 0
  PROVE  \A n \in TheRequests : Kind(n) = k /\ n < at => n \in done
<1>1. Cardinality(BusyTags(k)) = 0
  BY BusyFinite DEF Books, Counted, Uncounted
<1>2. BusyTags(k) = {}
  BY <1>1, BusyFinite, FS_EmptySet
<1>3. \A t \in Tags : ~busy[k][t]
  BY <1>2 DEF BusyTags
<1> QED
  BY <1>3 DEF Books, Marked, Accounted, Begun

(* Main goes on to its next step.                                          *)
LEMMA BooksGoOn ==
  ASSUME TestFits(prog, script), Books, Fixed, Moved, GoesOn
  PROVE  Books'
<1> USE ScriptStays, StepsStay DEF GoesOn, countVars
<1>0. /\ at \in Nat /\ at \in 1 .. Len(script) /\ Len(script) \in Nat /\ at' = at + 1
      /\ at \notin TheRequests /\ pc = "claim" /\ pc' = "claim" /\ held' = held
      /\ busy' = busy /\ inFlight' = inFlight /\ done' = done
  BY RequestNumbers DEF Books, MainTyped, Running, Step, TheRequests
<1>1. /\ \A n \in TheRequests : Begun(n)' <=> Begun(n)
      /\ ~Holds' /\ \A j : ~Uncounted(j)' /\ ~Uncounted(j)
  BY <1>0, RequestNumbers DEF Begun, Holds, Uncounted
<1>2. MainTyped'
  BY <1>0 DEF Books, MainTyped
<1>3. Marked' /\ Apart'
  BY <1>0, <1>1 DEF Books, Marked, Apart, Moved
<1>4. Accounted'
  BY <1>0, <1>1 DEF Books, Accounted, Moved
<1>5. Counted'
  BY <1>0, <1>1 DEF Books, Counted, BusyTags
<1>6. Awaited'
  <2>1. \A d \in StepsOf(script, "drain") : d < at' => d < at \/ d = at
    BY <1>0 DEF StepsOf
  <2>2. ASSUME at \in StepsOf(script, "drain")
        PROVE  \A n \in TheRequests : n < at /\ Kind(n) = Kind(at) => n \in done
    <3>1. Kind(at) \in Kinds /\ inFlight[Kind(at)] = 0
      BY <2>2 DEF StepsOf, TestFits, Step, Kind
    <3> QED
      BY <3>1, <1>0, DrainedIsDone
  <2> QED
    BY <2>1, <2>2, <1>0 DEF Books, Awaited
<1> QED
  BY <1>2, <1>3, <1>4, <1>5, <1>6 DEF Books

(* A handler lets go of the tag of a request that is out.                  *)
LEMMA BooksLetGo ==
  ASSUME TestFits(prog, script), Books, PlacesTyped, Fixed,
         NEW n, NEW t, NEW k, Out(n, t), Kind(n) = k, LetsGo(k, n, t), Removed(n, t)
  PROVE  Books'
<1> USE ScriptStays, StepsStay DEF LetsGo, mainVars
<1>0. /\ n \in TheRequests /\ t \in Tags /\ k \in Kinds /\ Begun(n) /\ busy[k][t]
      /\ at' = at /\ pc' = pc /\ held' = held /\ done' = done \union {n}
      /\ busy \in [Kinds -> [Tags -> BOOLEAN]] /\ inFlight \in [Kinds -> Int]
      /\ Kind(at)' = Kind(at)
  <2>1. n \in TheRequests /\ t \in Tags
    BY OutTyped
  <2> QED
    BY <2>1, RequestNumbers DEF Books, MainTyped, Marked, Kind, Fixed
<1>1. /\ \A m : Begun(m)' <=> Begun(m)
      /\ Holds' <=> Holds
      /\ \A j : Uncounted(j)' <=> Uncounted(j)
  BY <1>0 DEF Begun, Holds, Uncounted, Kind, Fixed
<1>2. /\ \A j \in Kinds, u \in Tags : busy'[j][u] = IF j = k /\ u = t THEN FALSE ELSE busy[j][u]
      /\ busy' \in [Kinds -> [Tags -> BOOLEAN]]
  BY <1>0
<1>3. Holds => ~(Kind(at) = k /\ held = t) /\ at \in TheRequests
  BY <1>0 DEF Books, Apart, Holds, MainTyped
<1>4. /\ BusyTags(k)' = BusyTags(k) \ {t} /\ t \in BusyTags(k)
      /\ \A j \in Kinds : j # k => BusyTags(j)' = BusyTags(j)
  BY <1>0, <1>2 DEF BusyTags
<1>5. /\ Cardinality(BusyTags(k) \ {t}) = Cardinality(BusyTags(k)) - 1
      /\ Cardinality(BusyTags(k)) \in Nat /\ Cardinality(BusyTags(k) \ {t}) \in Nat
  BY <1>4, BusyFinite, FS_RemoveElement, FS_CardinalityType
<1>6. k = "erase" => inFlight[k] > 0
  <2>1. CASE ~Uncounted(k)
    BY <2>1, <1>0, <1>5, BusyFinite DEF Books, Counted
  <2>2. CASE Uncounted(k) /\ k = "erase"
    <3>1. Holds /\ Kind(at) = k
      BY <2>2 DEF Uncounted, Holds
    <3>2. held \in BusyTags(k) \ {t}
      BY <3>1, <1>3, <1>0 DEF Books, Marked, MainTyped, BusyTags
    <3>3. Cardinality(BusyTags(k) \ {t}) # 0
      BY <3>2, BusyFinite, FS_RemoveElement, FS_EmptySet
    <3>4. inFlight[k] = Cardinality(BusyTags(k)) - 1
      BY <2>2, <1>0 DEF Books, Counted
    <3> QED
      BY <3>3, <3>4, <1>5
  <2> QED
    BY <2>1, <2>2
<1>7. /\ inFlight' \in [Kinds -> Int]
      /\ \A j \in Kinds : inFlight'[j] = IF j = k THEN inFlight[k] - 1 ELSE inFlight[j]
  BY <1>0, <1>6
<1>8. MainTyped'
  BY <1>0, <1>2, <1>7 DEF Books, MainTyped
<1>9. Marked'
  <2>1. \A m \in TheRequests, u \in Tags :
          Out(m, u)' => /\ Out(m, u) /\ Kind(m) \in Kinds /\ m # n /\ ~(Kind(m) = k /\ u = t)
                        /\ Begun(m) /\ m \notin done /\ busy[Kind(m)][u]
    BY <1>0, RequestNumbers DEF Books, Marked, Apart, Removed
  <2>2. \A m \in TheRequests, u \in Tags : Out(m, u)' => busy'[Kind(m)][u]
    BY <2>1, <1>2
  <2>3. Holds => busy'[Kind(at)][held]
    BY <1>2, <1>3, RequestNumbers DEF Books, Marked, MainTyped
  <2> QED
    BY <2>1, <2>2, <2>3, <1>0, <1>1 DEF Marked
<1>10. Apart'
  BY <1>0, <1>1 DEF Books, Apart, Removed
<1>11. Accounted'
  BY <1>0, <1>1 DEF Books, Accounted, Removed
<1>12. Counted'
  <2>1. \A j \in Kinds : j # k => Cardinality(BusyTags(j)') = Cardinality(BusyTags(j))
    BY <1>4
  <2>2. Cardinality(BusyTags(k)') = Cardinality(BusyTags(k)) - 1
    BY <1>4, <1>5
  <2>3. inFlight'[k] = Cardinality(BusyTags(k)') - (IF Uncounted(k) THEN 1 ELSE 0)
    BY <2>2, <1>0, <1>5, <1>7 DEF Books, Counted
  <2>4. \A j \in Kinds : j # k =>
          inFlight'[j] = Cardinality(BusyTags(j)') - (IF Uncounted(j) THEN 1 ELSE 0)
    BY <2>1, <1>7 DEF Books, Counted
  <2> QED
    BY <2>3, <2>4, <1>1 DEF Counted
<1>13. Awaited'
  BY <1>0 DEF Books, Awaited
<1> QED
  BY <1>8, <1>9, <1>10, <1>11, <1>12, <1>13 DEF Books

-----------------------------------------------------------------------------
(* A queue takes anything.                                                 *)
LEMMA TakesAny ==
  ASSUME NEW S, NEW q \in Seq(S), NEW d
  PROVE  /\ Append(q, d) \in Seq(S \union {d})
         /\ Len(q) \in Nat /\ Len(Append(q, d)) = Len(q) + 1
<1>1. q \in Seq(S \union {d})
  BY SeqDef
<1> QED
  BY <1>1, Enqueued

(* How many answers on blocks main asked for.                              *)
LEMMA AskedFinite ==
  ASSUME TestFits(prog, script)
  PROVE  /\ IsFiniteSet(InfoAsked) /\ Cardinality(InfoAsked) \in Nat
         /\ Cardinality(InfoAsked) <= Cardinality(StepsOf(script, "readBlkInfo"))
         /\ Cardinality(StepsOf(script, "readBlkInfo")) \in Nat
<1>1. IsFiniteSet(1 .. Len(script))
  BY RequestNumbers, FS_Interval
<1>2. IsFiniteSet(StepsOf(script, "readBlkInfo"))
  BY <1>1, FS_Subset DEF StepsOf
<1>3. InfoAsked \subseteq StepsOf(script, "readBlkInfo")
  BY DEF InfoAsked
<1> QED
  BY <1>2, <1>3, FS_Subset, FS_CardinalityType

(* Main moves over a step that asks for nothing, or stays.                 *)
LEMMA AskedStays ==
  ASSUME TestFits(prog, script), MainTyped, Fixed,
         at' = at \/ (at' = at + 1 /\ at \notin StepsOf(script, "readBlkInfo"))
  PROVE  InfoAsked' = InfoAsked
<1>1. at \in Nat /\ \A n \in StepsOf(script, "readBlkInfo") : n \in Nat
  BY RequestNumbers DEF MainTyped, StepsOf
<1>2. \A n \in StepsOf(script, "readBlkInfo") : n < at' <=> n < at
  BY <1>1
<1> QED
  BY <1>2, StepsStay DEF InfoAsked

(* The answers on blocks and those still to come are those asked for.      *)
LEMMA InfoStep ==
  ASSUME TestFits(prog, script), MainTyped, InfoCounted, HostStep
  PROVE  InfoCounted'
<1>0. Fixed
  BY DEF HostStep
<1>1. CASE /\ UNCHANGED infoVars
           /\ at' = at \/ (at' = at + 1 /\ at \notin StepsOf(script, "readBlkInfo"))
  BY <1>0, <1>1, AskedStays DEF InfoCounted, infoVars
<1>2. CASE HearsInfo
  <2>1. InfoAsked' = InfoAsked
    BY <1>0, <1>2, AskedStays DEF HearsInfo, mainVars
  <2>2. PICK S : infoResps \in Seq(S)
    BY DEF InfoCounted
  <2>3. NotEmpty(infoResps)
    BY <1>2, <2>2, EmptyIff DEF HearsInfo
  <2>4. /\ infoResps' \in Seq(S) /\ Len(infoResps) \in Nat /\ Len(infoResps') = Len(infoResps) - 1
        /\ blkInfoReads' = blkInfoReads + 1
    BY <1>2, <2>2, <2>3, Dequeued DEF HearsInfo
  <2> QED
    BY <2>1, <2>4 DEF InfoCounted
<1>3. CASE GoesOn /\ Step.op = "readBlkInfo"
  <2>1. /\ at \in StepsOf(script, "readBlkInfo") /\ at' = at + 1 /\ at \in Nat
        /\ \A n \in StepsOf(script, "readBlkInfo") : n \in Nat
    BY <1>3, RequestNumbers DEF GoesOn, Running, Step, StepsOf, MainTyped
  <2>2. InfoAsked' = InfoAsked \union {at} /\ at \notin InfoAsked
    <3>1. \A n \in StepsOf(script, "readBlkInfo") : n < at' <=> n < at \/ n = at
      BY <2>1
    <3>2. InfoAsked' = {n \in StepsOf(script, "readBlkInfo") : n < at \/ n = at}
      BY <1>0, <3>1, StepsStay DEF InfoAsked
    <3>3. InfoAsked' = InfoAsked \union {at}
      BY <2>1, <3>2 DEF InfoAsked
    <3>4. ~(at < at)
      BY <2>1
    <3> QED
      BY <3>3, <3>4 DEF InfoAsked
  <2>3. Cardinality(InfoAsked \union {at}) = Cardinality(InfoAsked) + 1
    BY <2>2, AskedFinite, FS_AddElement
  <2>4. PICK S, d : infoResps \in Seq(S) /\ infoResps' = Append(infoResps, d)
    BY <1>3 DEF InfoCounted, GoesOn
  <2>5. /\ infoResps' \in Seq(S \union {d})
        /\ Len(infoResps) \in Nat /\ Len(infoResps') = Len(infoResps) + 1
    BY <2>4, TakesAny
  <2>6. blkInfoReads' = blkInfoReads
    BY <1>3 DEF GoesOn
  <2>7. blkInfoReads' + Len(infoResps') = Cardinality(InfoAsked')
    BY <2>2, <2>3, <2>5, <2>6 DEF InfoCounted
  <2> QED
    BY <2>5, <2>6, <2>7 DEF InfoCounted
<1>4. ASSUME AtRequest(Step.kind) PROVE at \notin StepsOf(script, "readBlkInfo")
  BY <1>4 DEF AtRequest, Step, StepsOf
<1>5. CASE \E k \in Kinds : Claims(k) \/ Counts(k) \/ Sends(k)
  <2>1. PICK k \in Kinds : Claims(k) \/ Counts(k) \/ Sends(k)
    BY <1>5
  <2>2. at \notin StepsOf(script, "readBlkInfo")
    BY <2>1, <1>4 DEF Claims, Counts, Sends, AtRequest
  <2> QED
    BY <2>1, <2>2, <1>1 DEF Claims, Counts, Sends
<1>6. CASE GoesOn /\ Step.op # "readBlkInfo"
  <2>1. at \notin StepsOf(script, "readBlkInfo")
    BY <1>6 DEF Step, StepsOf
  <2> QED
    BY <2>1, <1>6, <1>1 DEF GoesOn
<1>7. CASE Stops \/ Rests \/ EndsHandling \/ EndsChecking
  BY <1>7, <1>1 DEF Stops, Rests, EndsHandling, EndsChecking, LetsGo, mainVars
<1>8. CASE \E r \in answers : EndsAnswer(r) \/ TakesAnswer(r) \/ TakesPage(r)
  BY <1>8, <1>1 DEF EndsAnswer, TakesAnswer, TakesPage, LetsGo, mainVars
<1>9. CASE \E r \in refusals : EndsRefusal(r)
  BY <1>9, <1>1 DEF EndsRefusal, LetsGo, mainVars
<1>10. CASE CardDoes
  BY <1>10, <1>1 DEF CardDoes, CardEnds, ToCards, Refuses, CardsEnd, mainVars
<1> QED
  BY <1>2, <1>3, <1>5, <1>6, <1>7, <1>8, <1>9, <1>10
  DEF HostStep, MainDoes, PortalDoes, CheckerDoes

(* Main counts every request once.                                         *)
LEMMA CountsStep ==
  ASSUME TestFits(prog, script), MainTyped, CountsBounded, HostStep
  PROVE  CountsBounded'
<1> DEFINE More == IF pc = "send" /\ Kind(at) # "search" THEN 1 ELSE 0
<1>0. /\ Fixed /\ at \in Nat /\ at > 0 /\ inFlight \in [Kinds -> Int] /\ More \in {0, 1}
      /\ pc # "send" => More = 0
      /\ \A k \in Kinds : inFlight[k] \in Int /\ inFlight[k] <= at - 1 + More
  BY RequestNumbers DEF HostStep, MainTyped, CountsBounded
<1>1. CASE UNCHANGED <<mainVars, inFlight>>
  BY <1>0, <1>1 DEF CountsBounded, mainVars, Kind, Fixed
<1>2. CASE \E k \in Kinds : Claims(k)
  <2>1. PICK k \in Kinds : Claims(k)
    BY <1>2
  <2>2. pc = "claim" /\ at' = at /\ inFlight' = inFlight /\ Kind(at) = k /\ Kind(at)' = k
    BY <2>1, <1>0 DEF Claims, AtRequest, Step, Kind, Fixed
  <2>3. ~(pc' = "send" /\ Kind(at)' # "search")
    BY <2>1, <2>2 DEF Claims
  <2> QED
    BY <1>0, <2>2, <2>3 DEF CountsBounded
<1>3. CASE \E k \in Kinds : Counts(k)
  <2>1. PICK k \in Kinds : Counts(k)
    BY <1>3
  <2>2. /\ pc = "count" /\ Kind(at) = k
        /\ \A j \in Kinds : inFlight'[j] \in Int /\ inFlight'[j] <= at
    BY <2>1, <1>0 DEF Counts, AtRequest, Step, Kind
  <2>3. CASE k = "search"
    <3>1. at' = at + 1 /\ pc' = "claim"
      BY <2>1, <2>3 DEF Counts
    <3> QED
      BY <3>1, <2>2, <1>0 DEF CountsBounded
  <2>4. CASE k # "search"
    <3>1. at' = at /\ pc' = "send" /\ Kind(at)' # "search"
      BY <2>1, <2>2, <2>4, <1>0 DEF Counts, Kind, Fixed
    <3> QED
      BY <3>1, <2>2, <1>0 DEF CountsBounded
  <2> QED
    BY <2>3, <2>4
<1>4. CASE \E k \in Kinds : Sends(k)
  <2>1. PICK k \in Kinds : Sends(k)
    BY <1>4
  <2>2. pc = "send" /\ Kind(at) = k /\ inFlight' = inFlight
    BY <2>1 DEF Sends, countVars, AtRequest, Step, Kind
  <2>3. CASE k = "search"
    <3>1. at' = at /\ pc' = "count" /\ More = 0
      BY <2>1, <2>2, <2>3 DEF Sends
    <3> QED
      BY <3>1, <2>2, <1>0 DEF CountsBounded
  <2>4. CASE k # "search"
    <3>1. at' = at + 1 /\ pc' = "claim"
      BY <2>1, <2>4 DEF Sends
    <3> QED
      BY <3>1, <2>2, <1>0 DEF CountsBounded
  <2> QED
    BY <2>3, <2>4
<1>5. CASE GoesOn
  <2>1. at' = at + 1 /\ pc' = "claim" /\ inFlight' = inFlight
    BY <1>5 DEF GoesOn, countVars
  <2> QED
    BY <2>1, <1>0 DEF CountsBounded
<1>6. ASSUME NEW k, NEW n, NEW t, LetsGo(k, n, t) PROVE CountsBounded'
  <2>1. \A j \in Kinds : inFlight'[j] \in Int /\ (inFlight'[j] <= inFlight[j] \/ inFlight'[j] = 0)
    BY <1>0, <1>6 DEF LetsGo
  <2>2. at' = at /\ pc' = pc /\ Kind(at)' = Kind(at)
    BY <1>0, <1>6 DEF LetsGo, mainVars, Kind, Fixed
  <2> QED
    BY <1>0, <2>1, <2>2 DEF CountsBounded
<1>7. CASE Stops \/ Rests \/ HearsInfo
  BY <1>7, <1>1 DEF Stops, Rests, HearsInfo, countVars
<1>8. CASE EndsHandling \/ EndsChecking
  BY <1>8, <1>6 DEF EndsHandling, EndsChecking
<1>9. CASE \E r \in answers : EndsAnswer(r)
  BY <1>9, <1>6 DEF EndsAnswer
<1>10. CASE \E r \in refusals : EndsRefusal(r)
  BY <1>10, <1>6 DEF EndsRefusal
<1>11. CASE \E r \in answers : TakesAnswer(r) \/ TakesPage(r)
  BY <1>11, <1>1 DEF TakesAnswer, TakesPage, countVars
<1>12. CASE CardDoes
  BY <1>12, <1>1 DEF CardDoes, CardEnds, ToCards, Refuses, CardsEnd, countVars
<1> QED
  BY <1>2, <1>3, <1>4, <1>5, <1>7, <1>8, <1>9, <1>10, <1>11, <1>12
  DEF HostStep, MainDoes, PortalDoes, CheckerDoes

(* No table changes its size.                                              *)
LEMMA SizesStep ==
  ASSUME Sizes, HostStep
  PROVE  Sizes'
<1>1. /\ DOMAIN entry' = DOMAIN entry /\ DOMAIN writeBuffers' = DOMAIN writeBuffers
      /\ DOMAIN readBuffers' = DOMAIN readBuffers
      /\ ending' = ending \/ ending' \in {"TEST PASSED", "TEST FAILED", "-1", "crash"}
  BY DEF HostStep, MainDoes, PortalDoes, CheckerDoes, CardDoes, Rests, Claims, Counts, Sends,
     GoesOn,
         Stops, LetsGo, EndsAnswer, EndsRefusal, EndsHandling, EndsChecking, TakesAnswer, TakesPage,
         HearsInfo, CardEnds, ToCards, Refuses, CardsEnd, noteVars
<1> QED
  BY <1>1 DEF Sizes, HostStep, Fixed

-----------------------------------------------------------------------------
(* The programs start with nothing out and every count at 0.               *)
LEMMA InitInv ==
  ASSUME TestInit
  PROVE  IInv
<1>0. 0 \in Tags
  BY HostAssumption DEF Tags
<1>1. Len(script) \in Nat
  BY RequestNumbers DEF TestInit
<1> USE DEF TestInit, HostInit, AmfInit
<1>2. \A n, t : ~Out(n, t)
  BY DEF Out, InPending, InFlash, InAnswers, InRefusals, InHandling, InChecking, None
<1>3. Places
  BY <1>2 DEF Places, PlacesTyped, OnePlace, Once, Out
<1>4. /\ \A n \in TheRequests : ~Begun(n)
      /\ ~Holds /\ \A k : ~Uncounted(k)
  BY RequestNumbers DEF Begun, Holds, Uncounted
<1>5. MainTyped
  BY <1>0, <1>1 DEF MainTyped
<1>6. Counted
  <2>1. \A k \in Kinds : BusyTags(k) = {}
    BY DEF BusyTags
  <2>2. Cardinality({}) = 0
    BY FS_EmptySet
  <2>3. \A k \in Kinds : inFlight[k] = 0 /\ ~Uncounted(k)
    BY <1>4
  <2> HIDE DEF TestInit, HostInit, AmfInit
  <2> QED
    BY <2>1, <2>2, <2>3 DEF Counted
<1>7. Marked /\ Apart /\ Accounted
  BY <1>2, <1>4 DEF Marked, Apart, Accounted
<1>8. Awaited
  BY DEF Awaited, StepsOf
<1>9. InfoCounted
  <2>1. InfoAsked = {}
    BY DEF InfoAsked, StepsOf
  <2>2. Cardinality({}) = 0
    BY FS_EmptySet
  <2>3. infoResps \in Seq({}) /\ Len(infoResps) = 0
    OBVIOUS
  <2> QED
    BY <2>1, <2>2, <2>3 DEF InfoCounted
<1>10. CountsBounded /\ Sizes
  BY DEF CountsBounded, Sizes
<1> QED
  BY <1>3, <1>5, <1>6, <1>7, <1>8, <1>9, <1>10 DEF IInv, Books

(* Where the requests are, and what main and the tables know of them,      *)
(* stays in step: one case per kind of step.                               *)
LEMMA PlacesAndBooks ==
  ASSUME TestFits(prog, script), Places, Books, HostStep
  PROVE  Places' /\ Books'
<1>0. Fixed /\ PlacesTyped
  BY DEF HostStep, Places
<1>1. CASE \E k \in Kinds : Claims(k)
  <2>1. PICK k \in Kinds : Claims(k)
    BY <1>1
  <2>2. Places' /\ Moved
    BY <1>0, <2>1, PlacesStay DEF Claims
  <2> QED
    BY <1>0, <2>1, <2>2, BooksClaim
<1>2. CASE \E k \in Kinds : Counts(k)
  <2>1. PICK k \in Kinds : Counts(k)
    BY <1>2
  <2>2. Places' /\ Moved
    BY <1>0, <2>1, PlacesStay DEF Counts
  <2> QED
    BY <1>0, <2>1, <2>2, BooksCount
<1>3. CASE \E k \in Kinds : Sends(k)
  <2>1. PICK k \in Kinds : Sends(k)
    BY <1>3
  <2>2. at \in TheRequests /\ held \in Tags /\ at \in Nat /\ pc = "send"
    BY <2>1, RequestNumbers DEF Sends, Books, MainTyped
  <2>3. ~Begun(at)
    BY <2>2 DEF Begun
  <2>4. \A t : ~Out(at, t)
    BY <1>0, <2>2, <2>3, OutTyped DEF Books, Marked
  <2>5. Places' /\ Added(at, held)
    BY <1>0, <2>1, <2>2, <2>4, PlacesSend
  <2> QED
    BY <1>0, <2>1, <2>5, BooksSend
<1>4. CASE GoesOn
  <2>1. Places' /\ Moved
    BY <1>0, <1>4, PlacesStay DEF GoesOn
  <2> QED
    BY <1>0, <1>4, <2>1, BooksGoOn
<1>5. CASE Stops \/ HearsInfo \/ Rests
  <2>1. UNCHANGED <<mainVars, countVars, cardPlaces, hostPlaces, done>>
    BY <1>5 DEF Stops, HearsInfo, Rests
  <2>2. Places' /\ Moved
    BY <1>0, <2>1, PlacesStay
  <2> QED
    BY <1>0, <2>1, <2>2, BooksStay
<1>6. ASSUME NEW r \in answers, EndsAnswer(r) PROVE Places' /\ Books'
  <2>1. Places' /\ Out(r.n, r.tag) /\ Removed(r.n, r.tag)
    BY <1>0, <1>6, PlacesEndAnswer
  <2>2. LetsGo(KindOf(r), r.n, r.tag) /\ Kind(r.n) = KindOf(r)
    BY <1>6 DEF EndsAnswer, Kind, KindOf
  <2> QED
    BY <1>0, <2>1, <2>2, BooksLetGo
<1>7. ASSUME NEW r \in refusals, EndsRefusal(r) PROVE Places' /\ Books'
  <2>1. Places' /\ Out(r.n, r.tag) /\ Removed(r.n, r.tag)
    BY <1>0, <1>7, PlacesEndRefusal
  <2>2. LetsGo(KindOf(r), r.n, r.tag) /\ Kind(r.n) = KindOf(r)
    BY <1>7 DEF EndsRefusal, Kind, KindOf
  <2> QED
    BY <1>0, <2>1, <2>2, BooksLetGo
<1>8. CASE EndsHandling
  <2>1. Places' /\ Out(handling.n, handling.tag) /\ Removed(handling.n, handling.tag)
    BY <1>0, <1>8, PlacesEndHandling
  <2>2. LetsGo(Handles, handling.n, handling.tag) /\ Kind(handling.n) = Handles
    BY <1>0, <1>8 DEF EndsHandling, PlacesTyped
  <2> QED
    BY <1>0, <2>1, <2>2, BooksLetGo
<1>9. CASE EndsChecking
  <2>1. Places' /\ Out(checking.n, checking.tag) /\ Removed(checking.n, checking.tag)
    BY <1>0, <1>9, PlacesEndChecking
  <2>2. LetsGo("read", checking.n, checking.tag) /\ Kind(checking.n) = "read"
    BY <1>0, <1>9 DEF EndsChecking, PlacesTyped
  <2> QED
    BY <1>0, <2>1, <2>2, BooksLetGo
<1>10. ASSUME Places', Moved, UNCHANGED <<mainVars, countVars, done>> PROVE Places' /\ Books'
  BY <1>0, <1>10, BooksStay
<1>11. ASSUME NEW r \in answers, TakesAnswer(r) \/ TakesPage(r) PROVE Places' /\ Books'
  <2>1. Places' /\ Moved
    BY <1>0, <1>11, PlacesTakeAnswer, PlacesTakePage
  <2> QED
    BY <1>10, <1>11, <2>1 DEF TakesAnswer, TakesPage
<1>12. ASSUME NEW r \in pending, CardEnds(r) \/ ToCards(r) \/ Refuses(r) PROVE Places' /\ Books'
  <2>1. Places' /\ Moved
    BY <1>0, <1>12, PlacesCardEnds, PlacesToCards, PlacesRefuse
  <2> QED
    BY <1>10, <1>12, <2>1 DEF CardEnds, ToCards, Refuses
<1>13. ASSUME NEW f \in flash, CardsEnd(f) PROVE Places' /\ Books'
  <2>1. Places' /\ Moved
    BY <1>0, <1>13, PlacesCardsEnd
  <2> QED
    BY <1>10, <1>13, <2>1 DEF CardsEnd
<1> QED
  BY <1>1, <1>2, <1>3, <1>4, <1>5, <1>6, <1>7, <1>8, <1>9, <1>11, <1>12, <1>13
  DEF HostStep, MainDoes, PortalDoes, CheckerDoes, CardDoes

(* The invariant is inductive.                                             *)
LEMMA StepInv ==
  ASSUME IInv, HostStep
  PROVE  IInv'
<1>1. Places' /\ Books'
  BY PlacesAndBooks DEF IInv
<1>2. InfoCounted' /\ CountsBounded' /\ Sizes'
  BY InfoStep, CountsStep, SizesStep DEF IInv, Books
<1>3. TestFits(prog, script)'
  BY StepsStay DEF IInv, HostStep
<1> QED
  BY <1>1, <1>2, <1>3 DEF IInv

(* The invariant of the host programs: every request main has sent is done *)
(* or out in one place under a tag of its own that is marked busy, and the *)
(* counts are those of the busy tags.                                      *)
THEOREM Invariance == TestSpec => []IInv
<1>1. TestInit => IInv
  BY InitInv
<1>2. IInv /\ [Steps]_vars => IInv'
  BY EveryStep, StepInv
<1> QED
  BY <1>1, <1>2, PTL DEF TestSpec

-----------------------------------------------------------------------------
(* What the properties call outstanding is out.                            *)
LEMMA OutstandingIsOut ==
  ASSUME Places, NEW r \in Outstanding
  PROVE  r \in Requests /\ Out(r.n, r.tag) /\ KindOf(r) = Kind(r.n)
<1>1. CASE r \in pending \union answers \union refusals
  <2>1. r \in Requests /\ r = [n |-> r.n, tag |-> r.tag]
    BY <1>1 DEF Places, PlacesTyped, Requests
  <2> QED
    BY <1>1, <2>1 DEF Out, InPending, InAnswers, InRefusals, KindOf, Kind
<1>2. CASE \E f \in flash : r = [n |-> f.n, tag |-> f.tag]
  BY <1>2 DEF Places, PlacesTyped, Requests, Out, InFlash, KindOf, Kind
<1>3. CASE \E h \in {handling, checking} \ {None} : r = [n |-> h.n, tag |-> h.tag]
  BY <1>3 DEF Places, PlacesTyped, Requests, Out, InHandling, InChecking, KindOf, Kind
<1> QED
  BY <1>1, <1>2, <1>3 DEF Outstanding, AtCard, Answers, InHand

(* The types follow from the invariant.                                    *)
LEMMA InvTypes ==
  ASSUME IInv
  PROVE  HostTypeOK
<1> USE DEF IInv, Books
<1>1. \A r \in Outstanding : r.n \in TheRequests /\ r.tag \in Tags
  BY OutstandingIsOut DEF Requests
<1>2. done \subseteq TheRequests
  BY DEF Accounted
<1>3. ASSUME NEW k \in Kinds PROVE inFlight[k] \in -1 .. Len(script)
  <2>1. Cardinality(BusyTags(k)) \in Nat
    BY BusyFinite
  <2>2. inFlight[k] = Cardinality(BusyTags(k)) - (IF Uncounted(k) THEN 1 ELSE 0)
    BY DEF Counted
  <2>3. inFlight[k] \in Int /\ inFlight[k] >= -1
    BY <2>1, <2>2
  <2>4. /\ Len(script) \in Nat /\ at \in 1 .. Len(script) + 1
        /\ pc = "send" => at <= Len(script)
    BY RequestNumbers DEF MainTyped
  <2>5. inFlight[k] <= at - 1 + (IF pc = "send" /\ Kind(at) # "search" THEN 1 ELSE 0)
    BY DEF CountsBounded
  <2> QED
    BY <2>3, <2>4, <2>5
<1>4. blkInfoReads \in 0 .. NumBlocks
  <2>1. PICK S : infoResps \in Seq(S)
    BY DEF InfoCounted
  <2>2. Len(infoResps) \in Nat
    BY <2>1, LenProperties
  <2>3. /\ blkInfoReads \in Nat
        /\ blkInfoReads + Len(infoResps) = Cardinality(InfoAsked)
    BY DEF InfoCounted
  <2>4. /\ Cardinality(InfoAsked) \in Nat
        /\ Cardinality(StepsOf(script, "readBlkInfo")) \in Nat
        /\ Cardinality(InfoAsked) <= Cardinality(StepsOf(script, "readBlkInfo"))
        /\ Cardinality(StepsOf(script, "readBlkInfo")) <= NumBlocks
    BY AskedFinite DEF TestFits
  <2>5. NumBlocks \in Int
    BY HostAssumption DEF NumBlocks
  <2> QED
    BY <2>2, <2>3, <2>4, <2>5
<1> QED
  BY <1>1, <1>2, <1>3, <1>4 DEF HostTypeOK, MainTyped, Sizes

(* Type correctness of the host programs: the counts of requests in flight *)
(* lie between -1 and the number of steps, what is outstanding is a        *)
(* request under a tag, and no more blocks than there are are asked for.   *)
THEOREM TypeCorrect == TestSpec => []HostTypeOK
BY Invariance, InvTypes, PTL

(* For every program a tag that is out belongs to one request of its kind  *)
(* and is marked busy.                                                     *)
THEOREM TagsApart == TestSpec => []OneRequestPerTag
<1>1. ASSUME IInv PROVE OneRequestPerTag
  <2>1. ASSUME NEW r \in Outstanding PROVE busy[KindOf(r)][r.tag]
    BY <1>1, <2>1, OutstandingIsOut DEF IInv, Books, Marked, Requests
  <2>2. ASSUME NEW r \in Outstanding, NEW s \in Outstanding, r # s, KindOf(r) = KindOf(s)
        PROVE  r.tag # s.tag
    <3>1. /\ r \in Requests /\ Out(r.n, r.tag) /\ KindOf(r) = Kind(r.n)
          /\ s \in Requests /\ Out(s.n, s.tag) /\ KindOf(s) = Kind(s.n)
      BY <1>1, OutstandingIsOut DEF IInv
    <3>2. r.n = s.n /\ r.tag = s.tag => r = s
      BY <3>1 DEF Requests
    <3>3. r.tag = s.tag => r.n = s.n
      BY <1>1, <2>2, <3>1 DEF IInv, Books, Apart, Requests
    <3> QED
      BY <2>2, <3>2, <3>3
  <2> QED
    BY <2>1, <2>2 DEF OneRequestPerTag
<1> QED
  BY <1>1, Invariance, PTL

-----------------------------------------------------------------------------
(* No wait for reads lies between two reads that are out.                  *)
LEMMA NoWaitBetween ==
  ASSUME IInv, NEW n, NEW m, NEW t, NEW u, Out(n, t), Out(m, u), Kind(n) = "read"
  PROVE  ~Awaits(script, "read", n, m)
<1>1. n \in TheRequests /\ m \in TheRequests /\ t \in Tags /\ u \in Tags
  BY OutTyped DEF IInv, Places
<1>2. n \notin done /\ Begun(m)
  BY <1>1 DEF IInv, Books, Marked
<1>3. m \in Nat /\ n \in Nat /\ at \in Nat /\ m <= at
  BY <1>1, <1>2, RequestNumbers DEF IInv, Books, MainTyped, Begun
<1>4. ASSUME NEW d \in StepsOf(script, "drain"), n < d, d < m, script[d].kind = "read" PROVE FALSE
  <2>1. d \in Nat /\ d < at
    BY <1>3, <1>4, RequestNumbers DEF StepsOf, IInv
  <2> QED
    BY <1>1, <1>2, <1>4, <2>1 DEF IInv, Books, Awaited, Kind
<1> QED
  BY <1>4 DEF Awaits

(* Two reads that are out go into different buffers.                       *)
LEMMA BuffersDiffer ==
  ASSUME IInv, NEW r \in Requests, NEW p \in Requests, Out(r.n, r.tag), Out(p.n, p.tag),
         r.n # p.n, Kind(r.n) = "read", Kind(p.n) = "read"
  PROVE  r.tag # p.tag /\ SlotOf(r) # SlotOf(p)
<1>1. /\ r.n \in TheRequests /\ p.n \in TheRequests /\ r.tag \in Tags /\ p.tag \in Tags
      /\ r.n \in Nat /\ p.n \in Nat
      /\ r.n \in StepsOf(script, "request") /\ p.n \in StepsOf(script, "request")
  BY RequestNumbers DEF Requests, IInv, TheRequests, StepsOf
<1>2. r.tag # p.tag
  BY <1>1 DEF IInv, Books, Apart
<1>3. ~Awaits(script, "read", r.n, p.n) /\ ~Awaits(script, "read", p.n, r.n)
  BY NoWaitBetween
<1>4. ASSUME NEW n \in StepsOf(script, "request"), NEW m \in StepsOf(script, "request"),
             n < m, Kind(n) = "read", Kind(m) = "read", ~Awaits(script, "read", n, m)
      PROVE  \/ script[n].slot = -1 /\ script[m].slot = -1
             \/ script[n].slot >= 0 /\ script[m].slot >= 0 /\ script[n].slot # script[m].slot
  BY <1>4 DEF IInv, TestFits, Kind
<1>5. r.n < p.n \/ p.n < r.n
  BY <1>1
<1>6. \/ script[r.n].slot = -1 /\ script[p.n].slot = -1
      \/ /\ script[r.n].slot >= 0 /\ script[p.n].slot >= 0
         /\ script[r.n].slot # script[p.n].slot
  BY <1>1, <1>3, <1>4, <1>5
<1> QED
  BY <1>2, <1>6 DEF SlotOf

(* A write that is out does not have the tag main took for a write, nor a  *)
(* read the tag main took for a read.                                      *)
LEMMA HeldIsFree ==
  ASSUME IInv, NEW k, Counts(k), k # "search", NEW r \in Outstanding, KindOf(r) = k
  PROVE  r.tag # held
<1>1. r \in Requests /\ Out(r.n, r.tag) /\ KindOf(r) = Kind(r.n)
  BY OutstandingIsOut DEF IInv
<1>2. Holds /\ Kind(at) = k
  BY DEF Counts, AtRequest, Step, Holds, Kind
<1> QED
  BY <1>1, <1>2 DEF IInv, Books, Apart, Requests

(* Every step leaves the notes and buffers of what is out as they are.     *)
LEMMA BuffersStep ==
  ASSUME IInv, HostStep
  PROVE  /\ \A r \in AtCard \intersect AtCard' :
              KindOf(r) = "write" => writeBuffers'[r.tag] = writeBuffers[r.tag]
         /\ \A r \in (AtCard \union Answers) \intersect (AtCard \union Answers)' :
              KindOf(r) = "read" => entry'[r.tag] = entry[r.tag]
         /\ \A r \in Answers \intersect Answers' :
              KindOf(r) = "read" => readBuffers'[SlotOf(r)] = readBuffers[SlotOf(r)]
<1>1. AtCard \subseteq Outstanding /\ Answers \subseteq Outstanding
  BY DEF Outstanding
<1>2. \/ writeBuffers' = writeBuffers
      \/ Counts("write") /\ \E d : writeBuffers' = [writeBuffers EXCEPT ![held] = d]
  BY DEF HostStep, MainDoes, PortalDoes, CheckerDoes, CardDoes, Rests, Claims, Counts, Sends,
     GoesOn,
         Stops, LetsGo, EndsAnswer, EndsRefusal, EndsHandling, EndsChecking, TakesAnswer, TakesPage,
         HearsInfo, CardEnds, ToCards, Refuses, CardsEnd, noteVars
<1>3. \/ entry' = entry
      \/ Counts("read") /\ \E d : entry' = [entry EXCEPT ![held] = d]
  BY DEF HostStep, MainDoes, PortalDoes, CheckerDoes, CardDoes, Rests, Claims, Counts, Sends,
     GoesOn,
         Stops, LetsGo, EndsAnswer, EndsRefusal, EndsHandling, EndsChecking, TakesAnswer, TakesPage,
         HearsInfo, CardEnds, ToCards, Refuses, CardsEnd, noteVars
<1>4. \/ readBuffers' = readBuffers
      \/ \E p \in pending : KindOf(p) = "read"
                            /\ \E d : readBuffers' = [readBuffers EXCEPT ![SlotOf(p)] = d]
      \/ \E f \in flash : prog = "amf-dual" /\ Kind(f.n) = "read"
                          /\ \E d : readBuffers' = [readBuffers EXCEPT ![f.tag] = d]
  BY DEF HostStep, MainDoes, PortalDoes, CheckerDoes, CardDoes, Rests, Claims, Counts, Sends,
     GoesOn,
         Stops, LetsGo, EndsAnswer, EndsRefusal, EndsHandling, EndsChecking, TakesAnswer, TakesPage,
         HearsInfo, CardEnds, ToCards, Refuses, CardsEnd, noteVars
<1>5. ASSUME NEW r \in AtCard, KindOf(r) = "write"
      PROVE  writeBuffers'[r.tag] = writeBuffers[r.tag]
  <2>1. CASE Counts("write") /\ \E d : writeBuffers' = [writeBuffers EXCEPT ![held] = d]
    <3>1. r.tag # held
      BY <1>1, <1>5, <2>1, HeldIsFree
    <3> QED
      BY <2>1, <3>1, <1>1, <1>5, OutstandingIsOut DEF IInv, Sizes, Requests
  <2> QED
    BY <1>2, <2>1
<1>6. ASSUME NEW r \in AtCard \union Answers, KindOf(r) = "read"
      PROVE  entry'[r.tag] = entry[r.tag]
  <2>1. CASE Counts("read") /\ \E d : entry' = [entry EXCEPT ![held] = d]
    <3>1. r.tag # held
      BY <1>1, <1>6, <2>1, HeldIsFree
    <3> QED
      BY <2>1, <3>1, <1>1, <1>6, OutstandingIsOut DEF IInv, Sizes, Requests
  <2> QED
    BY <1>3, <2>1
<1>7. ASSUME NEW r \in Answers, KindOf(r) = "read"
      PROVE  readBuffers'[SlotOf(r)] = readBuffers[SlotOf(r)]
  <2>1. r \in Requests /\ Out(r.n, r.tag) /\ Kind(r.n) = "read" /\ r \in answers \union refusals
    BY <1>1, <1>7, OutstandingIsOut DEF IInv, Answers
  <2>2. r.n \in TheRequests /\ r.tag \in Tags /\ r = [n |-> r.n, tag |-> r.tag]
    BY <2>1 DEF Requests
  <2>3. ASSUME NEW p \in pending, KindOf(p) = "read",
               NEW d, readBuffers' = [readBuffers EXCEPT ![SlotOf(p)] = d]
        PROVE  readBuffers'[SlotOf(r)] = readBuffers[SlotOf(r)]
    <3>1. p \in Requests /\ Out(p.n, p.tag) /\ Kind(p.n) = "read"
      BY <2>3, OutstandingIsOut DEF IInv, Outstanding, AtCard
    <3>2. p.n \in TheRequests /\ p.tag \in Tags /\ p = [n |-> p.n, tag |-> p.tag]
      BY <3>1 DEF Requests
    <3>3. ASSUME r.n = p.n PROVE FALSE
      <4>1. r.tag = p.tag
        BY <2>1, <2>2, <3>1, <3>2, <3>3 DEF IInv, Books, Apart
      <4>2. InPending(r.n, r.tag) /\ (InAnswers(r.n, r.tag) \/ InRefusals(r.n, r.tag))
        BY <2>1, <2>2, <3>2, <3>3, <4>1 DEF InPending, InAnswers, InRefusals
      <4> QED
        BY <2>2, <4>2 DEF IInv, Places, OnePlace, Once
    <3>4. SlotOf(r) # SlotOf(p)
      BY <2>1, <3>1, <3>3, BuffersDiffer
    <3> QED
      BY <2>3, <3>4
  <2>4. ASSUME NEW f \in flash, prog = "amf-dual", Kind(f.n) = "read",
               NEW d, readBuffers' = [readBuffers EXCEPT ![f.tag] = d]
        PROVE  readBuffers'[SlotOf(r)] = readBuffers[SlotOf(r)]
    <3>1. /\ f.n \in TheRequests /\ f.tag \in Tags /\ InFlash(f.n, f.tag)
          /\ Out(f.n, f.tag)
      BY DEF IInv, Places, PlacesTyped, InFlash, Out
    <3>2. ASSUME r.tag = f.tag PROVE FALSE
      <4>1. r.n = f.n
        BY <2>1, <2>2, <2>4, <3>1, <3>2 DEF IInv, Books, Apart
      <4>2. InFlash(r.n, r.tag) /\ (InAnswers(r.n, r.tag) \/ InRefusals(r.n, r.tag))
        BY <2>1, <2>2, <3>1, <3>2, <4>1 DEF InAnswers, InRefusals
      <4> QED
        BY <2>2, <4>2 DEF IInv, Places, OnePlace, Once
    <3>3. script[r.n].slot = -1
      BY <2>2, <2>4 DEF IInv, TestFits, TheRequests, StepsOf
    <3>4. SlotOf(r) = r.tag
      BY <3>3 DEF SlotOf
    <3> QED
      BY <2>4, <3>2, <3>4
  <2> QED
    BY <1>4, <2>3, <2>4
<1> QED
  BY <1>5, <1>6, <1>7

(* The buffer of a write keeps what it should carry until the card has     *)
(* taken it, and what is known of a read, and the page it brought, stay    *)
(* until the page was looked at, whichever buffer the test reads it into.  *)
THEOREM BuffersKept == TestSpec => BuffersHeld
<1>1. IInv /\ [Steps]_vars =>
        [/\ \A r \in AtCard \intersect AtCard' :
              KindOf(r) = "write" => writeBuffers'[r.tag] = writeBuffers[r.tag]
         /\ \A r \in (AtCard \union Answers) \intersect (AtCard \union Answers)' :
              KindOf(r) = "read" => entry'[r.tag] = entry[r.tag]
         /\ \A r \in Answers \intersect Answers' :
              KindOf(r) = "read" => readBuffers'[SlotOf(r)] = readBuffers[SlotOf(r)]]_vars
  BY EveryStep, BuffersStep
<1> QED
  BY <1>1, Invariance, PTL DEF TestSpec, BuffersHeld

-----------------------------------------------------------------------------
(* A step of a program is one of the phases or changes none of what they   *)
(* are about.                                                              *)
LEMMA PhaseStep ==
  ASSUME IInv, HostStep
  PROVE  [Phases!Next]_(Phases!vars)
<1> USE DEF Phases!Next, Phases!vars
<1>0. /\ Fixed /\ Len(script) \in Nat /\ at \in Nat /\ at \in 1 .. Len(script) + 1
      /\ script' = script
  BY RequestNumbers DEF HostStep, Fixed, IInv, Books, MainTyped
<1>1. ASSUME UNCHANGED <<at, done, ending>> PROVE [Phases!Next]_(Phases!vars)
  BY <1>0, <1>1
<1>2. ASSUME ending = "running", at <= Len(script), Step.op # "drain", at' = at + 1,
             UNCHANGED <<done, ending>>
      PROVE  [Phases!Next]_(Phases!vars)
  BY <1>0, <1>2 DEF Phases!Advance, Step
<1>3. CASE \E k \in Kinds : Claims(k) \/ Counts(k) \/ Sends(k)
  <2>1. PICK k \in Kinds : Claims(k) \/ Counts(k) \/ Sends(k)
    BY <1>3
  <2>2. ending = "running" /\ at <= Len(script) /\ Step.op # "drain"
    BY <2>1 DEF Claims, Counts, Sends, AtRequest, Running
  <2>3. at' \in {at, at + 1} /\ UNCHANGED <<done, ending>>
    BY <2>1 DEF Claims, Counts, Sends
  <2> QED
    BY <1>1, <1>2, <2>2, <2>3
<1>4. CASE GoesOn
  <2>1. /\ ending = "running" /\ at <= Len(script) /\ at' = at + 1 /\ done' = done
        /\ ending' = ending
    BY <1>4 DEF GoesOn, Running
  <2>2. CASE Step.op = "drain"
    <3>1. at \in StepsOf(script, "drain") /\ at \notin TheRequests
      BY <1>0, <2>1, <2>2 DEF StepsOf, TheRequests, Step
    <3>2. script[at].kind \in Kinds /\ pc = "claim"
      BY <3>1 DEF IInv, TestFits, Books, MainTyped
    <3>3. inFlight[script[at].kind] = 0
      BY <1>4, <2>2 DEF GoesOn, Step
    <3>4. \A n \in TheRequests : Kind(n) = script[at].kind /\ n < at => n \in done
      BY <3>2, <3>3, DrainedIsDone DEF IInv
    <3>5. ASSUME NEW m \in Phases!OfKind(Phases!Requests(at), script[at].kind) PROVE m \in done
      <4>1. m \in 1 .. at /\ m \in TheRequests /\ Kind(m) = script[at].kind
        BY <1>0, <3>5 DEF Phases!OfKind, Phases!Requests, TheRequests, Kind
      <4>2. m < at
        BY <1>0, <4>1, <3>1
      <4> QED
        BY <3>4, <4>1, <4>2
    <3> QED
      BY <1>0, <2>1, <3>5 DEF Phases!Advance
  <2> QED
    BY <1>2, <2>1, <2>2
<1>5. CASE Stops
  <2>1. /\ ending = "running" /\ ending' # "running" /\ at' = at /\ done' = done
        /\ ending' \in {"TEST PASSED", "TEST FAILED"} => at > Len(script)
    BY <1>5 DEF Stops, mainVars
  <2>2. ASSUME at > Len(script), NEW m \in Phases!Requests(at) PROVE m \in done
    <3>1. m \in TheRequests /\ m \in StepsOf(script, "request")
      BY <1>0, <2>2 DEF Phases!Requests, TheRequests, StepsOf
    <3>2. Awaits(script, Kind(m), m, Len(script) + 1)
      BY <3>1 DEF IInv, TestFits, Kind
    <3>3. PICK d \in StepsOf(script, "drain") :
            m < d /\ d < Len(script) + 1 /\ script[d].kind = Kind(m)
      BY <3>2 DEF Awaits
    <3>4. d < at
      BY <1>0, <2>2, <3>3 DEF StepsOf
    <3> QED
      BY <3>1, <3>3, <3>4 DEF IInv, Books, Awaited, Kind
  <2> QED
    BY <1>0, <2>1, <2>2 DEF Phases!End
<1>6. ASSUME NEW k, NEW n, NEW t, LetsGo(k, n, t), Out(n, t) PROVE [Phases!Next]_(Phases!vars)
  <2>1. n \in TheRequests /\ t \in Tags
    BY <1>6, OutTyped DEF IInv, Places
  <2>2. Begun(n) /\ n \notin done /\ n \in 1 .. Len(script)
    BY <1>6, <2>1, RequestNumbers DEF IInv, Books, Marked
  <2>3. n \in Phases!Requests(at)
    BY <1>0, <2>1, <2>2 DEF Phases!Requests, TheRequests, Begun
  <2>4. ending = "running" /\ done' = done \union {n} /\ at' = at /\ ending' = ending
    BY <1>6 DEF LetsGo, Alive, mainVars
  <2> QED
    BY <1>0, <2>2, <2>3, <2>4 DEF Phases!Perform
<1>7. CASE \E r \in answers : EndsAnswer(r)
  <2>1. PICK r \in answers : EndsAnswer(r)
    BY <1>7
  <2>2. Out(r.n, r.tag)
    BY OutstandingIsOut DEF IInv, Outstanding, Answers
  <2> QED
    BY <1>6, <2>1, <2>2 DEF EndsAnswer
<1>8. CASE \E r \in refusals : EndsRefusal(r)
  <2>1. PICK r \in refusals : EndsRefusal(r)
    BY <1>8
  <2>2. Out(r.n, r.tag)
    BY OutstandingIsOut DEF IInv, Outstanding, Answers
  <2> QED
    BY <1>6, <2>1, <2>2 DEF EndsRefusal
<1>9. CASE EndsHandling \/ EndsChecking
  BY <1>6, <1>9 DEF EndsHandling, EndsChecking, Out, InHandling, InChecking
<1>10. CASE Rests \/ HearsInfo \/ (\E r \in answers : TakesAnswer(r) \/ TakesPage(r)) \/ CardDoes
  BY <1>1, <1>10
  DEF Rests, HearsInfo, TakesAnswer, TakesPage, CardDoes, CardEnds, ToCards, Refuses, CardsEnd,
      mainVars
<1> QED
  BY <1>3, <1>4, <1>5, <1>7, <1>8, <1>9, <1>10
  DEF HostStep, MainDoes, PortalDoes, CheckerDoes

(* Every program implements the phases its tests take for granted: each    *)
(* request is carried out once, a wait ends when all requests of its kind  *)
(* made before it are done, and a program that prints a result has none    *)
(* left.                                                                   *)
THEOREM KeepsPhases == TestSpec => ImplementsPhases
<1>1. TestInit => Phases!Init
  BY DEF TestInit, HostInit, Phases!Init
<1>2. IInv /\ [Steps]_vars => [Phases!Next]_(Phases!vars)
  BY EveryStep, PhaseStep
<1> QED
  BY <1>1, <1>2, Invariance, PTL DEF TestSpec, ImplementsPhases, Phases!Spec
=============================================================================
