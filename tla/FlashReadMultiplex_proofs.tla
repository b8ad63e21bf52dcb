---------------------- MODULE FlashReadMultiplex_proofs ----------------------
(***************************************************************************)
(* Proofs about the read multiplexer, for every number of users, cards,    *)
(* tags and words of a page: a tag and its buffer belong to one request at *)
(* a time, a word that comes finds room, and each user is given the pages  *)
(* it asked for, whole and in order, whatever the order they come in.      *)
(***************************************************************************)
EXTENDS FlashReadMultiplex, QueueLemmas, FiniteSetTheorems

Commands  == [tag : Nat, page : Pages]
InWork    == [tag : Nat, page : Pages, beat : 0 .. PageWords - 1]
Requests  == [card : Cards, tag : ReqTags, page : Pages]

Typed ==
  /\ initCnt \in [Users -> [Cards -> ReqTags]]
  /\ init \in [Users -> [Cards -> BOOLEAN]]
  /\ freeTagQ \in [Users -> [Cards -> Seq(ReqTags)]]
  /\ flashReqQs \in [Cards -> Seq(Commands)]
  /\ outstandingReqQ \in [Users -> Seq(Requests)]
  /\ reorderBufs \in [Users -> [Cards -> [ReqTags -> Seq(Words)]]]
  /\ pageRespQs \in [Users -> Seq(Words)]
  /\ beatCnt \in [Users -> 0 .. PageWords - 1]
  /\ readMetaReg \in [Users -> Metas]
  /\ asked \in [Users -> 0 .. ReqMod - 1]
  /\ \A u \in Users : beatCnt[u] # 0 => asking[u] \in Pages
  /\ asking \in [Users -> Pages \union {NoPage}]
  /\ flash \in [Cards -> SUBSET InWork]

-----------------------------------------------------------------------------
(* Who holds a tag.                                                        *)

(* The page user u is being given holds tag t of card c.                   *)
Current(u, c, t) == beatCnt[u] # 0 /\ readMetaReg[u] = [card |-> c, tag |-> t]

(* The request at place i of the requests of user u does.                  *)
Waiting(u, i, c, t) == outstandingReqQ[u][i].card = c /\ outstandingReqQ[u][i].tag = t

Held(u, c, t) ==
  Current(u, c, t) \/ \E i \in 1 .. Len(outstandingReqQ[u]) : Waiting(u, i, c, t)

Free(u, c, t) == \E i \in 1 .. Len(freeTagQ[u][c]) : freeTagQ[u][c][i] = t

HandedOut(u, c, t) == init[u][c] \/ t < initCnt[u][c]

(* No tag is held twice, or twice on the free list, and each tag that the  *)
(* initialize rule has made is free or held and not both.                  *)
HeldOnce ==
  \A u \in Users, c \in Cards, t \in ReqTags :
    /\ \A i, j \in 1 .. Len(outstandingReqQ[u]) :
         Waiting(u, i, c, t) /\ Waiting(u, j, c, t) => i = j
    /\ \A i \in 1 .. Len(outstandingReqQ[u]) : ~(Waiting(u, i, c, t) /\ Current(u, c, t))

FreeOnce ==
  \A u \in Users, c \in Cards :
    \A i, j \in 1 .. Len(freeTagQ[u][c]) : freeTagQ[u][c][i] = freeTagQ[u][c][j] => i = j

FreeOrHeld ==
  \A u \in Users, c \in Cards, t \in ReqTags :
    /\ HandedOut(u, c, t) <=> Free(u, c, t) \/ Held(u, c, t)
    /\ ~(Free(u, c, t) /\ Held(u, c, t))

-----------------------------------------------------------------------------
(* What is under way for a tag.                                            *)

(* Each command under way has a tag of its own.                            *)
OneCommandPerTag ==
  \A c \in Cards :
    /\ \A i, j \in 1 .. Len(flashReqQs[c]) : flashReqQs[c][i].tag = flashReqQs[c][j].tag => i = j
    /\ \A x, y \in flash[c] : x.tag = y.tag => x = y
    /\ \A i \in 1 .. Len(flashReqQs[c]) : \A x \in flash[c] : flashReqQs[c][i].tag # x.tag

(* The buffer of a tag that page p holds, whose first d words were given to*)
(* the user: the words that follow, up to those still to come.             *)
Slot(u, c, t, p, d) ==
  LET buf == reorderBufs[u][c][t] IN
  /\ \A k \in 1 .. Len(buf) : buf[k] = [page |-> p, beat |-> d + k - 1]
  /\ \A i \in 1 .. Len(flashReqQs[c]) : flashReqQs[c][i].tag = FlashTag(u, t) =>
       flashReqQs[c][i].page = p /\ d + Len(buf) = 0
  /\ \A x \in flash[c] : x.tag = FlashTag(u, t) => x.page = p /\ x.beat = d + Len(buf)

(* A tag that nobody holds has no word and no command.                     *)
Idle(u, c, t) ==
  /\ reorderBufs[u][c][t] = <<>>
  /\ \A i \in 1 .. Len(flashReqQs[c]) : flashReqQs[c][i].tag # FlashTag(u, t)
  /\ \A x \in flash[c] : x.tag # FlashTag(u, t)

WaitingSlot(u, i) ==
  Slot(u, outstandingReqQ[u][i].card, outstandingReqQ[u][i].tag, outstandingReqQ[u][i].page, 0)

CurrentSlot(u) ==
  Slot(u, readMetaReg[u].card, readMetaReg[u].tag, asking[u], beatCnt[u])

Slots ==
  \A u \in Users :
    /\ \A c \in Cards, t \in ReqTags : ~Held(u, c, t) => Idle(u, c, t)
    /\ \A i \in 1 .. Len(outstandingReqQ[u]) : WaitingSlot(u, i)
    /\ beatCnt[u] # 0 => CurrentSlot(u)

(* Every tag on its way to the card or in work there is one of a user.     *)
KnownTag(tag) == \E u \in Users, t \in ReqTags : tag = FlashTag(u, t)

KnownTags ==
  \A c \in Cards :
    /\ \A i \in 1 .. Len(flashReqQs[c]) : KnownTag(flashReqQs[c][i].tag)
    /\ \A x \in flash[c] : KnownTag(x.tag)

(* The inductive invariant.                                                *)
IInv ==
  /\ Typed
  /\ HeldOnce /\ FreeOnce /\ FreeOrHeld
  /\ OneCommandPerTag /\ KnownTags /\ Slots

-----------------------------------------------------------------------------
(* Tags.                                                                   *)

(* The tag a request carries through the flash names its user and its tag. *)
LEMMA TagsApart ==
  ASSUME NEW u \in Users, NEW t \in ReqTags
  PROVE  /\ FlashTag(u, t) \in Nat
         /\ ReqTagOf(FlashTag(u, t)) = t /\ UserOf(FlashTag(u, t)) = u
<1>1. /\ ReqPerUser \in Nat \ {0} /\ NumUsers \in Nat \ {0}
      /\ t \in 0 .. ReqPerUser - 1 /\ u \in 0 .. NumUsers - 1
  BY FlashReadMultiplexAssumption DEF Users, ReqTags
<1>2. FlashTag(u, t) \in Nat
  BY <1>1 DEF FlashTag
<1>3. (t + u * ReqPerUser) % ReqPerUser = t /\ (t + u * ReqPerUser) \div ReqPerUser = u
  BY <1>1, QuotientAndRest
<1>4. u % NumUsers = u
  BY <1>1
<1> QED
  BY <1>2, <1>3, <1>4 DEF FlashTag, ReqTagOf, UserOf

(* Two users, or two tags of one user, never share a tag of the flash.     *)
LEMMA TagsInjective ==
  ASSUME NEW u \in Users, NEW t \in ReqTags, NEW v \in Users, NEW s \in ReqTags,
         FlashTag(u, t) = FlashTag(v, s)
  PROVE  u = v /\ t = s
  BY TagsApart

-----------------------------------------------------------------------------
(* The initial state and the rules, one by one.                            *)

(* After reset no tag has been made and nothing is under way.              *)
LEMMA InitIInv == Init => IInv
<1> SUFFICES ASSUME Init PROVE IInv
  OBVIOUS
<1> USE FlashReadMultiplexAssumption DEF Init
<1>1. 0 \in ReqTags /\ 0 \in Cards /\ 0 \in 0 .. PageWords - 1 /\ 0 \in 0 .. ReqMod - 1
  BY DEF ReqTags, Cards
<1>2. Typed
  BY <1>1 DEF Typed, Metas
<1>3. \A u \in Users, c \in Cards, t \in ReqTags :
        ~Held(u, c, t) /\ ~Free(u, c, t) /\ ~HandedOut(u, c, t) /\ Idle(u, c, t)
  BY DEF Held, Current, Free, HandedOut, Idle, ReqTags
<1>4. HeldOnce /\ FreeOnce /\ FreeOrHeld
  BY <1>3 DEF HeldOnce, FreeOnce, FreeOrHeld, Current
<1>5. OneCommandPerTag /\ KnownTags
  BY DEF OneCommandPerTag, KnownTags
<1>6. Slots
  BY <1>3 DEF Slots
<1> QED
  BY <1>2, <1>4, <1>5, <1>6 DEF IInv

(* A step that leaves buffers, commands and requests alone keeps the slots.*)
LEMMA SlotsKept ==
  ASSUME Slots, UNCHANGED <<outstandingReqQ, beatCnt, readMetaReg, asking>>,
         UNCHANGED <<reorderBufs, flashReqQs, flash>>
  PROVE  Slots'
<1>1. ASSUME NEW u \in Users, NEW c \in Cards, NEW t \in ReqTags, ~Held(u, c, t)'
      PROVE  Idle(u, c, t)'
  <2>1. ~Held(u, c, t)
    BY <1>1 DEF Held, Current, Waiting
  <2>2. Idle(u, c, t)
    BY <2>1 DEF Slots
  <2> QED
    BY <2>2 DEF Idle
<1>2. ASSUME NEW u \in Users, NEW i \in 1 .. Len(outstandingReqQ'[u])
      PROVE  WaitingSlot(u, i)'
  BY <1>2 DEF Slots, Slot, WaitingSlot
<1>3. ASSUME NEW u \in Users, beatCnt'[u] # 0
      PROVE  CurrentSlot(u)'
  BY <1>3 DEF Slots, Slot, CurrentSlot
<1> QED
  BY <1>1, <1>2, <1>3 DEF Slots

(* initialize: a tag that was not there before joins the free list.        *)
LEMMA InitializeStep ==
  ASSUME IInv, NEW u \in Users, NEW c \in Cards, Initialize(u, c)
  PROVE  IInv'
<1>0. /\ Typed /\ HeldOnce /\ FreeOnce /\ FreeOrHeld /\ OneCommandPerTag /\ KnownTags /\ Slots
  BY DEF IInv
<1>1. /\ ~init[u][c]
      /\ initCnt' = [initCnt EXCEPT ![u][c] = (@ + 1) % ReqPerUser]
      /\ freeTagQ' = [freeTagQ EXCEPT ![u][c] = Append(@, initCnt[u][c])]
      /\ init' = [init EXCEPT ![u][c] = initCnt[u][c] = ReqPerUser - 1]
      /\ UNCHANGED <<flashReqQs, outstandingReqQ, reorderBufs, asked, flash>>
      /\ UNCHANGED <<pageRespQs, beatCnt, readMetaReg, asking>>
  BY DEF Initialize, outVars
<1>2. PICK k \in ReqTags : k = initCnt[u][c]
  BY <1>0 DEF Typed
<1>3. PICK q \in Seq(ReqTags) : q = freeTagQ[u][c]
  BY <1>0 DEF Typed
<1>4. k \in Nat /\ ReqPerUser \in Nat \ {0} /\ (k + 1) % ReqPerUser \in ReqTags /\ k < ReqPerUser
  BY FlashReadMultiplexAssumption DEF ReqTags
<1>5. /\ k = ReqPerUser - 1 => (k + 1) % ReqPerUser = 0
      /\ k # ReqPerUser - 1 => (k + 1) % ReqPerUser = k + 1
  BY <1>4
<1>6. PICK r \in Seq(ReqTags) : r = Append(q, k)
  BY <1>2, <1>3, Enqueued
<1>7. \A v \in Users, d \in Cards :
        /\ freeTagQ'[v][d] = IF v = u /\ d = c THEN r ELSE freeTagQ[v][d]
        /\ initCnt'[v][d] = IF v = u /\ d = c THEN (k + 1) % ReqPerUser ELSE initCnt[v][d]
        /\ init'[v][d] <=> IF v = u /\ d = c THEN k = ReqPerUser - 1 ELSE init[v][d]
  BY <1>0, <1>1, <1>2, <1>3, <1>6 DEF Typed
<1>8. Typed'
  <2>1. /\ initCnt' \in [Users -> [Cards -> ReqTags]]
        /\ init' \in [Users -> [Cards -> BOOLEAN]]
        /\ freeTagQ' \in [Users -> [Cards -> Seq(ReqTags)]]
    BY <1>0, <1>1, <1>2, <1>3, <1>4, <1>6 DEF Typed
  <2> QED
    BY <1>0, <1>1, <2>1 DEF Typed
<1>9. \A v \in Users, d \in Cards, t \in ReqTags :
        /\ Held(v, d, t)' <=> Held(v, d, t)
        /\ Idle(v, d, t)' <=> Idle(v, d, t)
  BY <1>1 DEF Held, Current, Waiting, Idle
<1>10. HeldOnce' /\ OneCommandPerTag' /\ KnownTags'
  BY <1>0, <1>1 DEF HeldOnce, OneCommandPerTag, KnownTags, Current, Waiting
<1>11. Slots'
  BY <1>0, <1>1, SlotsKept
<1>12. ~HandedOut(u, c, k) /\ ~Free(u, c, k) /\ ~Held(u, c, k)
  BY <1>0, <1>1, <1>2, <1>4 DEF HandedOut, FreeOrHeld
<1>13. \A v \in Users, d \in Cards, t \in ReqTags :
         Free(v, d, t)' <=> Free(v, d, t) \/ (v = u /\ d = c /\ t = k)
  <2> TAKE v \in Users, d \in Cards, t \in ReqTags
  <2>1. CASE v = u /\ d = c
    <3>1. Free(u, c, t)' <=> \E i \in 1 .. Len(r) : r[i] = t
      BY <1>7 DEF Free
    <3>2. (\E i \in 1 .. Len(r) : r[i] = t) <=> (\E i \in 1 .. Len(q) : q[i] = t) \/ t = k
      BY <1>6, Enqueued
    <3> QED
      BY <2>1, <3>1, <3>2, <1>3 DEF Free
  <2>2. CASE ~(v = u /\ d = c)
    BY <2>2, <1>7 DEF Free
  <2> QED
    BY <2>1, <2>2
<1>14. \A v \in Users, d \in Cards, t \in ReqTags :
         HandedOut(v, d, t)' <=> HandedOut(v, d, t) \/ (v = u /\ d = c /\ t = k)
  <2> TAKE v \in Users, d \in Cards, t \in ReqTags
  <2>1. CASE v = u /\ d = c
    <3>1. HandedOut(u, c, t)' <=> k = ReqPerUser - 1 \/ t < (k + 1) % ReqPerUser
      BY <1>7 DEF HandedOut
    <3>2. HandedOut(u, c, t) <=> t < k
      BY <1>1, <1>2 DEF HandedOut
    <3>3. t \in Nat /\ t < ReqPerUser
      BY <1>4 DEF ReqTags
    <3> QED
      BY <2>1, <3>1, <3>2, <3>3, <1>4, <1>5
  <2>2. CASE ~(v = u /\ d = c)
    BY <2>2, <1>7 DEF HandedOut
  <2> QED
    BY <2>1, <2>2
<1>15. FreeOrHeld'
  BY <1>0, <1>9, <1>12, <1>13, <1>14 DEF FreeOrHeld
<1>16. FreeOnce'
  <2>1. \A i \in 1 .. Len(q) : q[i] # k
    BY <1>3, <1>12 DEF Free
  <2>2. \A i, j \in 1 .. Len(r) : r[i] = r[j] => i = j
    BY <1>0, <1>2, <1>3, <1>6, <2>1, Enqueued DEF FreeOnce
  <2> QED
    BY <1>0, <1>7, <2>2 DEF FreeOnce
<1> QED
  BY <1>8, <1>10, <1>11, <1>15, <1>16 DEF IInv

-----------------------------------------------------------------------------
(* What a step on one tag leaves to the others.                            *)

(* No word comes or goes and no command is new for tag t of card c.        *)
Untouched(u, c, t) ==
  /\ reorderBufs'[u][c][t] = reorderBufs[u][c][t]
  /\ \A i \in 1 .. Len(flashReqQs'[c]) : flashReqQs'[c][i].tag = FlashTag(u, t) =>
       \E j \in 1 .. Len(flashReqQs[c]) : flashReqQs[c][j] = flashReqQs'[c][i]
  /\ \A x \in flash'[c] : x.tag = FlashTag(u, t) => x \in flash[c]

(* A tag left alone stays idle, and its slot stays filled as it is.        *)
LEMMA OtherSlot ==
  ASSUME NEW u \in Users, NEW c \in Cards, NEW t \in ReqTags, Untouched(u, c, t)
  PROVE  /\ Idle(u, c, t) => Idle(u, c, t)'
         /\ \A p \in Pages, n \in Nat : Slot(u, c, t, p, n) => Slot(u, c, t, p, n)'
<1>1. Idle(u, c, t) => Idle(u, c, t)'
  BY DEF Idle, Untouched
<1>2. ASSUME NEW p \in Pages, NEW n \in Nat, Slot(u, c, t, p, n)
      PROVE  Slot(u, c, t, p, n)'
  <2>1. reorderBufs'[u][c][t] = reorderBufs[u][c][t]
    BY DEF Untouched
  <2>2. \A k \in 1 .. Len(reorderBufs'[u][c][t]) :
          reorderBufs'[u][c][t][k] = [page |-> p, beat |-> n + k - 1]
    BY <1>2, <2>1 DEF Slot
  <2>3. ASSUME NEW i \in 1 .. Len(flashReqQs'[c]), flashReqQs'[c][i].tag = FlashTag(u, t)
        PROVE  flashReqQs'[c][i].page = p /\ n + Len(reorderBufs'[u][c][t]) = 0
    <3>1. PICK j \in 1 .. Len(flashReqQs[c]) : flashReqQs[c][j] = flashReqQs'[c][i]
      BY <2>3 DEF Untouched
    <3> QED
      BY <1>2, <2>1, <2>3, <3>1 DEF Slot
  <2>4. ASSUME NEW x \in flash'[c], x.tag = FlashTag(u, t)
        PROVE  x.page = p /\ x.beat = n + Len(reorderBufs'[u][c][t])
    <3>1. x \in flash[c]
      BY <2>4 DEF Untouched
    <3> QED
      BY <1>2, <2>1, <2>4, <3>1 DEF Slot
  <2> QED
    BY <2>2, <2>3, <2>4 DEF Slot
<1> QED
  BY <1>1, <1>2

(* The slots after a step of the flash on one held tag.                    *)
LEMMA SlotsOfFlashStep ==
  ASSUME Typed, Slots, NEW u \in Users, NEW c \in Cards, NEW t \in ReqTags, Held(u, c, t),
         UNCHANGED <<outstandingReqQ, beatCnt, readMetaReg, asking>>,
         \A v \in Users, d \in Cards, s \in ReqTags :
           (v = u /\ d = c /\ s = t) \/ Untouched(v, d, s),
         \A p \in Pages, n \in Nat : Slot(u, c, t, p, n) => Slot(u, c, t, p, n)'
  PROVE  Slots'
<1>1. \A v \in Users, d \in Cards, s \in ReqTags : Held(v, d, s)' <=> Held(v, d, s)
  BY DEF Held, Current, Waiting
<1>2. \A v \in Users, d \in Cards, s \in ReqTags, p \in Pages, n \in Nat :
        Slot(v, d, s, p, n) => Slot(v, d, s, p, n)'
  BY OtherSlot
<1>3. ASSUME NEW v \in Users, NEW d \in Cards, NEW s \in ReqTags, ~Held(v, d, s)'
      PROVE  Idle(v, d, s)'
  <2>1. Idle(v, d, s) /\ ~(v = u /\ d = c /\ s = t)
    BY <1>1, <1>3 DEF Slots
  <2> QED
    BY <2>1, OtherSlot
<1>4. ASSUME NEW v \in Users, NEW i \in 1 .. Len(outstandingReqQ'[v])
      PROVE  WaitingSlot(v, i)'
  <2>0. outstandingReqQ[v] \in Seq(Requests) /\ i \in 1 .. Len(outstandingReqQ[v])
    BY <1>4 DEF Typed
  <2>1. PICK r \in Requests : r = outstandingReqQ[v][i]
    BY <2>0, ElementOfSeq
  <2>2. r.card \in Cards /\ r.tag \in ReqTags /\ r.page \in Pages /\ outstandingReqQ'[v][i] = r
    BY <2>1 DEF Requests
  <2>3. Slot(v, r.card, r.tag, r.page, 0)
    BY <2>1 DEF Slots, WaitingSlot
  <2>4. Slot(v, r.card, r.tag, r.page, 0)'
    BY <1>2, <2>2, <2>3
  <2> QED
    BY <2>2, <2>4 DEF WaitingSlot, Slot
<1>5. ASSUME NEW v \in Users, beatCnt'[v] # 0
      PROVE  CurrentSlot(v)'
  <2>1. PICK m \in Metas : m = readMetaReg[v]
    BY DEF Typed
  <2>2. PICK p \in Pages : p = asking[v]
    BY <1>5 DEF Typed
  <2>3. PICK n \in Nat : n = beatCnt[v]
    BY DEF Typed
  <2>4. m.card \in Cards /\ m.tag \in ReqTags
    BY DEF Metas
  <2>5. Slot(v, m.card, m.tag, p, n)
    BY <1>5, <2>1, <2>2, <2>3 DEF Slots, CurrentSlot
  <2>6. Slot(v, m.card, m.tag, p, n)'
    BY <1>2, <2>4, <2>5
  <2>7. readMetaReg'[v] = m /\ asking'[v] = p /\ beatCnt'[v] = n
    BY <2>1, <2>2, <2>3
  <2> QED
    BY <2>6, <2>7 DEF CurrentSlot, Slot
<1> QED
  BY <1>3, <1>4, <1>5 DEF Slots

-----------------------------------------------------------------------------
(* The flash.                                                              *)

(* The facts about tags, in a step that gives out and returns none.        *)
LEMMA TagsKept ==
  ASSUME HeldOnce, FreeOnce, FreeOrHeld, UNCHANGED <<initCnt, init, freeTagQ>>,
         UNCHANGED <<outstandingReqQ, beatCnt, readMetaReg, asking>>
  PROVE  HeldOnce' /\ FreeOnce' /\ FreeOrHeld'
<1>1. HeldOnce' /\ FreeOnce'
  BY DEF HeldOnce, FreeOnce, Current, Waiting
<1>2. \A u \in Users, c \in Cards, t \in ReqTags :
        /\ Free(u, c, t)' <=> Free(u, c, t)
        /\ HandedOut(u, c, t)' <=> HandedOut(u, c, t)
        /\ Held(u, c, t)' <=> Held(u, c, t)
  BY DEF HandedOut, Free, Held, Current, Waiting
<1>3. FreeOrHeld'
  BY <1>2 DEF FreeOrHeld
<1> QED
  BY <1>1, <1>3

(* response.get: a user takes a word, the rest stays.                      *)
LEMMA ResponseStep ==
  ASSUME IInv, NEW u \in Users, Response(u)
  PROVE  IInv'
<1>0. /\ Typed /\ HeldOnce /\ FreeOnce /\ FreeOrHeld /\ OneCommandPerTag /\ KnownTags /\ Slots
  BY DEF IInv
<1>1. /\ NotEmpty(pageRespQs[u])
      /\ pageRespQs' = [pageRespQs EXCEPT ![u] = Tail(@)]
      /\ UNCHANGED <<initCnt, init, freeTagQ>>
      /\ UNCHANGED <<flashReqQs, reorderBufs, flash, asked>>
      /\ UNCHANGED <<outstandingReqQ, beatCnt, readMetaReg, asking>>
  BY DEF Response, tagVars
<1>2. pageRespQs' \in [Users -> Seq(Words)]
  BY <1>0, <1>1, Dequeued DEF Typed
<1>3. Typed'
  BY <1>0, <1>1, <1>2 DEF Typed
<1>4. HeldOnce' /\ FreeOnce' /\ FreeOrHeld'
  BY <1>0, <1>1, TagsKept
<1>5. OneCommandPerTag' /\ KnownTags'
  BY <1>0, <1>1 DEF OneCommandPerTag, KnownTags
<1>6. Slots'
  BY <1>0, <1>1, SlotsKept
<1> QED
  BY <1>3, <1>4, <1>5, <1>6 DEF IInv

(* sendCmd: the card takes the first command in the queue.                 *)
LEMMA SendCmdStep ==
  ASSUME IInv, NEW c \in Cards, SendCmd(c)
  PROVE  IInv'
<1>0. /\ Typed /\ HeldOnce /\ FreeOnce /\ FreeOrHeld /\ OneCommandPerTag /\ KnownTags /\ Slots
  BY DEF IInv
<1>1. PICK q \in Seq(Commands) : q = flashReqQs[c]
  BY <1>0 DEF Typed
<1>2. PICK x : x = [tag |-> Head(q).tag, page |-> Head(q).page, beat |-> 0]
  OBVIOUS
<1>3. /\ NotEmpty(q)
      /\ flashReqQs' = [flashReqQs EXCEPT ![c] = Tail(q)]
      /\ flash' = [flash EXCEPT ![c] = @ \union {x}]
      /\ UNCHANGED <<initCnt, init, freeTagQ>>
      /\ UNCHANGED <<reorderBufs, asked, pageRespQs>>
      /\ UNCHANGED <<outstandingReqQ, beatCnt, readMetaReg, asking>>
  BY <1>1, <1>2 DEF SendCmd, tagVars, outVars
<1>4. /\ Head(q) = q[1] /\ q[1] \in Commands /\ 1 \in 1 .. Len(q) /\ Tail(q) \in Seq(Commands)
      /\ \A i \in 1 .. Len(Tail(q)) : Tail(q)[i] = q[i + 1] /\ i + 1 \in 1 .. Len(q) /\ i + 1 # 1
  BY <1>3, Dequeued
<1>5. PICK r \in Seq(Commands) : r = Tail(q)
  BY <1>4
<1>6. x \in InWork /\ x.tag = q[1].tag /\ x.page = q[1].page /\ x.beat = 0
  BY <1>2, <1>4, FlashReadMultiplexAssumption DEF Commands, InWork
<1>7. /\ \A d \in Cards : flashReqQs'[d] = IF d = c THEN r ELSE flashReqQs[d]
      /\ \A d \in Cards : flash'[d] = IF d = c THEN flash[c] \union {x} ELSE flash[d]
  BY <1>0, <1>3, <1>5 DEF Typed
<1>8. Typed'
  <2>1. flashReqQs' \in [Cards -> Seq(Commands)] /\ flash' \in [Cards -> SUBSET InWork]
    BY <1>0, <1>3, <1>4, <1>6 DEF Typed
  <2> QED
    BY <1>0, <1>3, <2>1 DEF Typed
<1>9. HeldOnce' /\ FreeOnce' /\ FreeOrHeld'
  BY <1>0, <1>3, TagsKept
<1>10. PICK u \in Users, t \in ReqTags : q[1].tag = FlashTag(u, t)
  BY <1>0, <1>1, <1>4 DEF KnownTags, KnownTag
<1>11. KnownTags'
  <2> SUFFICES ASSUME NEW d \in Cards
               PROVE  /\ \A i \in 1 .. Len(flashReqQs'[d]) : KnownTag(flashReqQs'[d][i].tag)
                      /\ \A y \in flash'[d] : KnownTag(y.tag)
    BY DEF KnownTags, KnownTag
  <2>1. CASE d # c
    BY <1>0, <1>7, <2>1 DEF KnownTags
  <2>2. CASE d = c
    <3>1. /\ \A i \in 1 .. Len(q) : KnownTag(q[i].tag)
          /\ \A y \in flash[c] : KnownTag(y.tag)
      BY <1>0, <1>1 DEF KnownTags
    <3>2. \A i \in 1 .. Len(r) : KnownTag(r[i].tag)
      BY <3>1, <1>4, <1>5
    <3>3. \A y \in flash[c] \union {x} : KnownTag(y.tag)
      BY <3>1, <1>4, <1>6
    <3> QED
      BY <2>2, <1>7, <3>2, <3>3
  <2> QED
    BY <2>1, <2>2
<1>12. /\ \A i \in 1 .. Len(q) : q[i].tag = q[1].tag => i = 1
       /\ \A y \in flash[c] : y.tag # q[1].tag
  BY <1>0, <1>1, <1>4 DEF OneCommandPerTag
<1>13. OneCommandPerTag'
  <2> SUFFICES ASSUME NEW d \in Cards
               PROVE  /\ \A i, j \in 1 .. Len(flashReqQs'[d]) :
                           flashReqQs'[d][i].tag = flashReqQs'[d][j].tag => i = j
                      /\ \A y, z \in flash'[d] : y.tag = z.tag => y = z
                      /\ \A i \in 1 .. Len(flashReqQs'[d]) :
                           \A y \in flash'[d] : flashReqQs'[d][i].tag # y.tag
    BY DEF OneCommandPerTag
  <2>1. CASE d # c
    BY <1>0, <1>7, <2>1 DEF OneCommandPerTag
  <2>2. CASE d = c
    <3>1. \A i, j \in 1 .. Len(q) : q[i].tag = q[j].tag => i = j
      BY <1>0, <1>1 DEF OneCommandPerTag
    <3>2. \A i, j \in 1 .. Len(r) : r[i].tag = r[j].tag => i = j
      <4> TAKE i, j \in 1 .. Len(r)
      <4>1. r[i].tag = r[j].tag => i + 1 = j + 1
        BY <3>1, <1>4, <1>5
      <4> QED
        BY <4>1
    <3>3. \A y, z \in flash[c] \union {x} : y.tag = z.tag => y = z
      BY <1>0, <1>6, <1>12 DEF OneCommandPerTag
    <3>4. \A i \in 1 .. Len(r) : \A y \in flash[c] \union {x} : r[i].tag # y.tag
      BY <1>0, <1>1, <1>4, <1>5, <1>6, <1>12 DEF OneCommandPerTag
    <3> QED
      BY <2>2, <1>7, <3>2, <3>3, <3>4
  <2> QED
    BY <2>1, <2>2
<1>14. Held(u, c, t)
  BY <1>0, <1>1, <1>4, <1>10 DEF Slots, Idle
<1>15. \A v \in Users, d \in Cards, s \in ReqTags :
         (v = u /\ d = c /\ s = t) \/ Untouched(v, d, s)
  <2> TAKE v \in Users, d \in Cards, s \in ReqTags
  <2>1. CASE d # c
    BY <2>1, <1>3, <1>7 DEF Untouched
  <2>2. CASE d = c /\ ~(v = u /\ s = t)
    <3>1. FlashTag(v, s) # x.tag
      BY <2>2, <1>6, <1>10, TagsInjective
    <3>2. \A i \in 1 .. Len(r) : \E j \in 1 .. Len(q) : q[j] = r[i]
      BY <1>4, <1>5
    <3> QED
      BY <2>2, <3>1, <3>2, <1>1, <1>3, <1>7 DEF Untouched
  <2> QED
    BY <2>1, <2>2
<1>16. ASSUME NEW p \in Pages, NEW n \in Nat, Slot(u, c, t, p, n)
       PROVE  Slot(u, c, t, p, n)'
  <2>1. q[1].page = p /\ n + Len(reorderBufs[u][c][t]) = 0
    BY <1>16, <1>1, <1>4, <1>10 DEF Slot
  <2>2. \A i \in 1 .. Len(r) : r[i].tag # FlashTag(u, t)
    BY <1>4, <1>5, <1>10, <1>12
  <2>3. \A y \in flash[c] \union {x} : y.tag = FlashTag(u, t) => y = x
    BY <1>10, <1>12
  <2>4. \A k \in 1 .. Len(reorderBufs'[u][c][t]) :
          reorderBufs'[u][c][t][k] = [page |-> p, beat |-> n + k - 1]
    BY <1>16, <1>3 DEF Slot
  <2>5. reorderBufs'[u][c][t] = reorderBufs[u][c][t]
    BY <1>3
  <2>6. \A y \in flash'[c] : y.tag = FlashTag(u, t) =>
          y.page = p /\ y.beat = n + Len(reorderBufs'[u][c][t])
    BY <1>6, <1>7, <2>1, <2>3, <2>5
  <2>7. \A i \in 1 .. Len(flashReqQs'[c]) : flashReqQs'[c][i].tag # FlashTag(u, t)
    BY <1>7, <2>2
  <2> QED
    BY <2>4, <2>6, <2>7 DEF Slot
<1>17. Slots'
  BY <1>0, <1>3, <1>14, <1>15, <1>16, SlotsOfFlashStep
<1> QED
  BY <1>8, <1>9, <1>11, <1>13, <1>17 DEF IInv

(* readWord: the word joins the buffer of its tag, behind those that came. *)
LEMMA ReadWordStep ==
  ASSUME IInv, NEW c \in Cards, NEW cmd \in flash[c], ReadWord(c, cmd)
  PROVE  IInv'
<1>0. /\ Typed /\ HeldOnce /\ FreeOnce /\ FreeOrHeld /\ OneCommandPerTag /\ KnownTags /\ Slots
  BY DEF IInv
<1>1. PICK u \in Users, t \in ReqTags : cmd.tag = FlashTag(u, t)
  BY <1>0 DEF KnownTags, KnownTag
<1>2. cmd \in InWork /\ BufferOf(cmd.tag) = u /\ ReqTagOf(cmd.tag) = t
  BY <1>0, <1>1, TagsApart DEF Typed, BufferOf
<1>3. PICK w, new, b :
        /\ w = [page |-> cmd.page, beat |-> cmd.beat]
        /\ new = (IF cmd.beat = PageWords - 1 THEN {} ELSE {[cmd EXCEPT !.beat = @ + 1]})
        /\ b = Append(reorderBufs[u][c][t], w)
  OBVIOUS
<1>4. /\ reorderBufs' = [reorderBufs EXCEPT ![u][c][t] = Append(@, w)]
      /\ flash' = [flash EXCEPT ![c] = (@ \ {cmd}) \union new]
      /\ UNCHANGED <<initCnt, init, freeTagQ>>
      /\ UNCHANGED <<flashReqQs, asked, pageRespQs>>
      /\ UNCHANGED <<outstandingReqQ, beatCnt, readMetaReg, asking>>
  BY <1>2, <1>3 DEF ReadWord, tagVars, outVars
<1>5. PICK buf \in Seq(Words) : buf = reorderBufs[u][c][t]
  BY <1>0 DEF Typed
<1>6. w \in Words /\ w.page = cmd.page /\ w.beat = cmd.beat /\ cmd.beat \in Nat
  BY <1>2, <1>3, FlashReadMultiplexAssumption DEF InWork, Words
<1>7. /\ b \in Seq(Words) /\ Len(b) = Len(buf) + 1 /\ Len(buf) \in Nat
      /\ b[Len(buf) + 1] = w /\ \A k \in 1 .. Len(buf) : b[k] = buf[k]
  <2>1. b = Append(buf, w)
    BY <1>3, <1>5
  <2> QED
    BY <1>6, <2>1, Enqueued
<1>8. \A x \in new : x \in InWork /\ x.tag = cmd.tag /\ x.page = cmd.page /\ x.beat = cmd.beat + 1
  <2>1. cmd.beat \in 0 .. PageWords - 1 /\ PageWords \in Nat \ {0} /\ cmd.tag \in Nat /\ cmd.page \in Pages
    BY <1>2, FlashReadMultiplexAssumption DEF InWork
  <2>2. CASE cmd.beat = PageWords - 1
    BY <1>3, <2>2
  <2>3. CASE cmd.beat # PageWords - 1
    <3>1. cmd.beat + 1 \in 0 .. PageWords - 1
      BY <2>1, <2>3
    <3>2. new = {[cmd EXCEPT !.beat = @ + 1]}
      BY <1>3, <2>3
    <3>3. [cmd EXCEPT !.beat = @ + 1] = [tag |-> cmd.tag, page |-> cmd.page, beat |-> cmd.beat + 1]
      BY <1>2 DEF InWork
    <3> QED
      BY <2>1, <3>1, <3>2, <3>3 DEF InWork
  <2> QED
    BY <2>2, <2>3
<1>9. \A x, y \in new : x = y
  BY <1>3
<1>10. /\ \A d \in Cards : flash'[d] = IF d = c THEN (flash[c] \ {cmd}) \union new ELSE flash[d]
       /\ \A v \in Users, d \in Cards, s \in ReqTags :
            reorderBufs'[v][d][s] = IF v = u /\ d = c /\ s = t THEN b ELSE reorderBufs[v][d][s]
  <2>1. \A d \in Cards : flash'[d] = IF d = c THEN (flash[c] \ {cmd}) \union new ELSE flash[d]
    BY <1>0, <1>4 DEF Typed
  <2>2. reorderBufs' = [reorderBufs EXCEPT ![u][c][t] = b]
    BY <1>3, <1>4
  <2>3. reorderBufs \in [Users -> [Cards -> [ReqTags -> Seq(Words)]]]
    BY <1>0 DEF Typed
  <2> QED
    BY <2>1, <2>2, <2>3, ZenonT(30)
<1>11. Typed'
  <2>1. /\ flash' \in [Cards -> SUBSET InWork]
        /\ reorderBufs' \in [Users -> [Cards -> [ReqTags -> Seq(Words)]]]
    BY <1>0, <1>3, <1>4, <1>7, <1>8, SMTT(30) DEF Typed
  <2> QED
    BY <1>0, <1>4, <2>1 DEF Typed
<1>12. HeldOnce' /\ FreeOnce' /\ FreeOrHeld'
  BY <1>0, <1>4, TagsKept
<1>13. KnownTags'
  <2> SUFFICES ASSUME NEW d \in Cards
               PROVE  /\ \A i \in 1 .. Len(flashReqQs'[d]) : KnownTag(flashReqQs'[d][i].tag)
                      /\ \A y \in flash'[d] : KnownTag(y.tag)
    BY DEF KnownTags, KnownTag
  <2>1. \A i \in 1 .. Len(flashReqQs'[d]) : KnownTag(flashReqQs'[d][i].tag)
    BY <1>0, <1>4 DEF KnownTags
  <2>2. \A y \in flash'[d] : y \in flash[d] \/ (d = c /\ y.tag = cmd.tag)
    BY <1>8, <1>10
  <2>3. KnownTag(cmd.tag)
    BY <1>0 DEF KnownTags
  <2> QED
    BY <1>0, <2>1, <2>2, <2>3 DEF KnownTags
<1>14. /\ \A i \in 1 .. Len(flashReqQs[c]) : flashReqQs[c][i].tag # cmd.tag
       /\ \A y \in flash[c] : y.tag = cmd.tag => y = cmd
  BY <1>0 DEF OneCommandPerTag
<1>15. OneCommandPerTag'
  <2> SUFFICES ASSUME NEW d \in Cards
               PROVE  /\ \A i, j \in 1 .. Len(flashReqQs'[d]) :
                           flashReqQs'[d][i].tag = flashReqQs'[d][j].tag => i = j
                      /\ \A y, z \in flash'[d] : y.tag = z.tag => y = z
                      /\ \A i \in 1 .. Len(flashReqQs'[d]) :
                           \A y \in flash'[d] : flashReqQs'[d][i].tag # y.tag
    BY DEF OneCommandPerTag
  <2>1. CASE d # c
    BY <1>0, <1>4, <1>10, <2>1 DEF OneCommandPerTag
  <2>2. CASE d = c
    <3>1. \A y, z \in (flash[c] \ {cmd}) \union new : y.tag = z.tag => y = z
      BY <1>0, <1>8, <1>9, <1>14 DEF OneCommandPerTag
    <3>2. \A i \in 1 .. Len(flashReqQs[c]) :
            \A y \in (flash[c] \ {cmd}) \union new : flashReqQs[c][i].tag # y.tag
      BY <1>0, <1>8, <1>14 DEF OneCommandPerTag
    <3>3. \A i, j \in 1 .. Len(flashReqQs[c]) :
            flashReqQs[c][i].tag = flashReqQs[c][j].tag => i = j
      BY <1>0 DEF OneCommandPerTag
    <3> QED
      BY <2>2, <1>4, <1>10, <3>1, <3>2, <3>3
  <2> QED
    BY <2>1, <2>2
<1>16. Held(u, c, t)
  BY <1>0, <1>1 DEF Slots, Idle
<1>17. \A v \in Users, d \in Cards, s \in ReqTags :
         (v = u /\ d = c /\ s = t) \/ Untouched(v, d, s)
  <2> TAKE v \in Users, d \in Cards, s \in ReqTags
  <2>1. CASE d # c
    BY <2>1, <1>4, <1>10 DEF Untouched
  <2>2. CASE d = c /\ ~(v = u /\ s = t)
    <3>1. FlashTag(v, s) # cmd.tag
      BY <2>2, <1>1, TagsInjective
    <3>2. \A x \in flash'[c] : x \in flash[c] \/ x.tag = cmd.tag
      BY <1>8, <1>10
    <3>3. reorderBufs'[v][d][s] = reorderBufs[v][d][s]
      BY <2>2, <1>10
    <3> QED
      BY <2>2, <3>1, <3>2, <3>3, <1>4 DEF Untouched
  <2> QED
    BY <2>1, <2>2
<1>18. ASSUME NEW p \in Pages, NEW n \in Nat, Slot(u, c, t, p, n)
       PROVE  Slot(u, c, t, p, n)'
  <2>1. cmd.page = p /\ cmd.beat = n + Len(buf)
    BY <1>18, <1>1, <1>5 DEF Slot
  <2>2. \A k \in 1 .. Len(buf) : buf[k] = [page |-> p, beat |-> n + k - 1]
    BY <1>18, <1>5 DEF Slot
  <2>3. w = [page |-> p, beat |-> n + (Len(buf) + 1) - 1]
    BY <1>3, <1>7, <2>1
  <2>4. \A k \in 1 .. Len(b) : b[k] = [page |-> p, beat |-> n + k - 1]
    <3> TAKE k \in 1 .. Len(b)
    <3>1. k \in 1 .. Len(buf) \/ k = Len(buf) + 1
      BY <1>7
    <3>2. CASE k \in 1 .. Len(buf)
      BY <1>7, <2>2, <3>2
    <3>3. CASE k = Len(buf) + 1
      BY <1>7, <2>3, <3>3
    <3> QED
      BY <3>1, <3>2, <3>3
  <2>5. \A y \in flash'[c] : y.tag = FlashTag(u, t) => y.page = p /\ y.beat = n + Len(b)
    <3>1. \A y \in flash'[c] : y.tag = cmd.tag => y \in new
      BY <1>10, <1>14
    <3> QED
      BY <1>1, <1>7, <1>8, <2>1, <3>1
  <2>6. \A i \in 1 .. Len(flashReqQs'[c]) : flashReqQs'[c][i].tag # FlashTag(u, t)
    BY <1>1, <1>4, <1>14
  <2>7. reorderBufs'[u][c][t] = b
    BY <1>10
  <2> QED
    BY <2>4, <2>5, <2>6, <2>7 DEF Slot
<1>19. Slots'
  BY <1>0, <1>4, <1>16, <1>17, <1>18, SlotsOfFlashStep
<1> QED
  BY <1>11, <1>12, <1>13, <1>15, <1>19 DEF IInv

-----------------------------------------------------------------------------
(* The users.                                                              *)

(* request.put: the first free tag is held, with a command of its own.     *)
LEMMA RequestStep ==
  ASSUME IInv, NEW u \in Users, NEW c \in Cards, Request(u, c)
  PROVE  IInv'
<1>0. /\ Typed /\ HeldOnce /\ FreeOnce /\ FreeOrHeld /\ OneCommandPerTag /\ KnownTags /\ Slots
  BY DEF IInv
<1>1. PICK fq \in Seq(ReqTags), rq \in Seq(Commands), oq \in Seq(Requests), n \in 0 .. ReqMod - 1 :
        fq = freeTagQ[u][c] /\ rq = flashReqQs[c] /\ oq = outstandingReqQ[u] /\ n = asked[u]
  BY <1>0 DEF Typed
<1>2. PICK t, p, cmd, r :
        /\ t = Head(fq) /\ p = <<u, n>> /\ cmd = [tag |-> FlashTag(u, t), page |-> p]
        /\ r = [card |-> c, tag |-> t, page |-> p]
  OBVIOUS
<1>3. /\ NotEmpty(fq)
      /\ freeTagQ' = [freeTagQ EXCEPT ![u][c] = Tail(fq)]
      /\ flashReqQs' = [flashReqQs EXCEPT ![c] = Append(rq, cmd)]
      /\ outstandingReqQ' = [outstandingReqQ EXCEPT ![u] = Append(oq, r)]
      /\ asked' = [asked EXCEPT ![u] = (n + 1) % ReqMod]
      /\ UNCHANGED <<initCnt, init, reorderBufs, flash>>
      /\ UNCHANGED <<pageRespQs, beatCnt, readMetaReg, asking>>
  BY <1>1, <1>2 DEF Request, outVars
<1>4. /\ t \in ReqTags /\ fq[1] = t /\ 1 \in 1 .. Len(fq) /\ Tail(fq) \in Seq(ReqTags)
      /\ \A i \in 1 .. Len(Tail(fq)) : Tail(fq)[i] = fq[i + 1] /\ i + 1 \in 1 .. Len(fq) /\ i + 1 # 1
      /\ \A i \in 1 .. Len(fq) : i = 1 \/ \E j \in 1 .. Len(Tail(fq)) : Tail(fq)[j] = fq[i] /\ j + 1 = i
  <2>1. \A i \in 1 .. Len(fq) : i = 1 \/ (i - 1 \in 1 .. Len(Tail(fq)) /\ Tail(fq)[i - 1] = fq[i])
    BY <1>3, Dequeued
  <2>2. \A i \in 1 .. Len(fq) : (i - 1) + 1 = i
    OBVIOUS
  <2> QED
    BY <1>2, <1>3, <2>1, <2>2, Dequeued
<1>5. p \in Pages /\ (n + 1) % ReqMod \in 0 .. ReqMod - 1
  BY <1>2, FlashReadMultiplexAssumption DEF Pages
<1>6. /\ cmd \in Commands /\ cmd.tag = FlashTag(u, t) /\ cmd.page = p
      /\ r \in Requests /\ r.card = c /\ r.tag = t /\ r.page = p
  BY <1>2, <1>4, <1>5, TagsApart DEF Commands, Requests
<1>7. PICK fq1 \in Seq(ReqTags), rq1 \in Seq(Commands), oq1 \in Seq(Requests) :
        fq1 = Tail(fq) /\ rq1 = Append(rq, cmd) /\ oq1 = Append(oq, r)
  BY <1>4, <1>6, Enqueued
<1>8. /\ Len(rq) \in Nat /\ Len(rq1) = Len(rq) + 1 /\ rq1[Len(rq) + 1] = cmd
      /\ \A i \in 1 .. Len(rq) : rq1[i] = rq[i]
      /\ \A i \in 1 .. Len(rq1) : i \in 1 .. Len(rq) \/ i = Len(rq) + 1
  BY <1>6, <1>7, Enqueued
<1>9. /\ Len(oq) \in Nat /\ Len(oq1) = Len(oq) + 1 /\ oq1[Len(oq) + 1] = r
      /\ \A i \in 1 .. Len(oq) : oq1[i] = oq[i]
      /\ \A i \in 1 .. Len(oq1) : i \in 1 .. Len(oq) \/ i = Len(oq) + 1
  BY <1>6, <1>7, Enqueued
<1>10. /\ \A v \in Users, d \in Cards :
            freeTagQ'[v][d] = IF v = u /\ d = c THEN fq1 ELSE freeTagQ[v][d]
       /\ \A d \in Cards : flashReqQs'[d] = IF d = c THEN rq1 ELSE flashReqQs[d]
       /\ \A v \in Users : outstandingReqQ'[v] = IF v = u THEN oq1 ELSE outstandingReqQ[v]
  BY <1>0, <1>3, <1>7 DEF Typed
<1>11. Typed'
  <2>1. freeTagQ' \in [Users -> [Cards -> Seq(ReqTags)]]
    BY <1>0, <1>3, <1>7 DEF Typed
  <2>2. flashReqQs' \in [Cards -> Seq(Commands)] /\ outstandingReqQ' \in [Users -> Seq(Requests)]
    BY <1>0, <1>3, <1>7 DEF Typed
  <2>3. asked' \in [Users -> 0 .. ReqMod - 1]
    BY <1>0, <1>3, <1>5 DEF Typed
  <2> QED
    BY <1>0, <1>3, <2>1, <2>2, <2>3 DEF Typed
<1>12. Free(u, c, t) /\ ~Held(u, c, t) /\ HandedOut(u, c, t) /\ Idle(u, c, t)
  BY <1>0, <1>1, <1>4 DEF Free, FreeOrHeld, Slots
<1>13. \A v \in Users, d \in Cards, s \in ReqTags :
         Held(v, d, s)' <=> Held(v, d, s) \/ (v = u /\ d = c /\ s = t)
  <2> TAKE v \in Users, d \in Cards, s \in ReqTags
  <2>1. Current(v, d, s)' <=> Current(v, d, s)
    BY <1>3 DEF Current
  <2>2. CASE v # u
    BY <2>1, <2>2, <1>10 DEF Held, Waiting
  <2>3. CASE v = u
    <3>1. (\E i \in 1 .. Len(oq1) : oq1[i].card = d /\ oq1[i].tag = s)
            <=> (\E i \in 1 .. Len(oq) : oq[i].card = d /\ oq[i].tag = s) \/ (d = c /\ s = t)
      <4>1. ASSUME NEW i \in 1 .. Len(oq1), oq1[i].card = d /\ oq1[i].tag = s
            PROVE  (\E j \in 1 .. Len(oq) : oq[j].card = d /\ oq[j].tag = s) \/ (d = c /\ s = t)
        BY <1>6, <1>9, <4>1
      <4>2. ASSUME NEW j \in 1 .. Len(oq), oq[j].card = d /\ oq[j].tag = s
            PROVE  \E i \in 1 .. Len(oq1) : oq1[i].card = d /\ oq1[i].tag = s
        <5>1. j \in 1 .. Len(oq1) /\ oq1[j] = oq[j]
          BY <1>9
        <5> QED
          BY <4>2, <5>1
      <4>3. Len(oq) + 1 \in 1 .. Len(oq1)
        BY <1>9
      <4> QED
        BY <1>6, <1>9, <4>1, <4>2, <4>3
    <3> QED
      BY <2>1, <2>3, <3>1, <1>1, <1>10 DEF Held, Waiting
  <2> QED
    BY <2>2, <2>3
<1>14. \A v \in Users, d \in Cards, s \in ReqTags :
         Free(v, d, s)' <=> Free(v, d, s) /\ ~(v = u /\ d = c /\ s = t)
  <2> TAKE v \in Users, d \in Cards, s \in ReqTags
  <2>1. CASE ~(v = u /\ d = c)
    BY <2>1, <1>10 DEF Free
  <2>2. CASE v = u /\ d = c
    <3>1. \A i \in 1 .. Len(fq) : fq[i] = t => i = 1
      BY <1>0, <1>1, <1>4 DEF FreeOnce
    <3>2. (\E i \in 1 .. Len(fq1) : fq1[i] = s) <=> (\E i \in 1 .. Len(fq) : fq[i] = s) /\ s # t
      <4>1. ASSUME NEW i \in 1 .. Len(fq1), fq1[i] = s
            PROVE  (\E j \in 1 .. Len(fq) : fq[j] = s) /\ s # t
        <5>1. fq[i + 1] = s /\ i + 1 \in 1 .. Len(fq) /\ i + 1 # 1
          BY <1>4, <1>7, <4>1
        <5> QED
          BY <3>1, <5>1
      <4>2. ASSUME NEW i \in 1 .. Len(fq), fq[i] = s, s # t
            PROVE  \E j \in 1 .. Len(fq1) : fq1[j] = s
        BY <1>4, <1>7, <4>2
      <4> QED
        BY <4>1, <4>2
    <3> QED
      BY <2>2, <3>2, <1>1, <1>10 DEF Free
  <2> QED
    BY <2>1, <2>2
<1>15. FreeOrHeld'
  <2>1. \A v \in Users, d \in Cards, s \in ReqTags : HandedOut(v, d, s)' <=> HandedOut(v, d, s)
    BY <1>3 DEF HandedOut
  <2> QED
    BY <1>0, <1>12, <1>13, <1>14, <2>1 DEF FreeOrHeld
<1>16. FreeOnce'
  <2>1. \A i, j \in 1 .. Len(fq1) : fq1[i] = fq1[j] => i = j
    <3> TAKE i, j \in 1 .. Len(fq1)
    <3>1. /\ i + 1 \in 1 .. Len(fq) /\ j + 1 \in 1 .. Len(fq)
          /\ fq1[i] = fq[i + 1] /\ fq1[j] = fq[j + 1]
      BY <1>4, <1>7
    <3>2. \A k, l \in 1 .. Len(fq) : fq[k] = fq[l] => k = l
      BY <1>0, <1>1 DEF FreeOnce
    <3>3. fq1[i] = fq1[j] => i + 1 = j + 1
      BY <3>1, <3>2
    <3> QED
      BY <3>3
  <2> SUFFICES ASSUME NEW v \in Users, NEW d \in Cards
               PROVE  \A i, j \in 1 .. Len(freeTagQ'[v][d]) :
                        freeTagQ'[v][d][i] = freeTagQ'[v][d][j] => i = j
    BY DEF FreeOnce
  <2>2. CASE v = u /\ d = c
    BY <1>10, <2>1, <2>2
  <2>3. CASE ~(v = u /\ d = c)
    <3>1. freeTagQ'[v][d] = freeTagQ[v][d]
      BY <1>10, <2>3
    <3> QED
      BY <1>0, <3>1 DEF FreeOnce
  <2> QED
    BY <2>2, <2>3
<1>17. HeldOnce'
  <2> SUFFICES ASSUME NEW v \in Users, NEW d \in Cards, NEW s \in ReqTags
               PROVE  /\ \A i, j \in 1 .. Len(outstandingReqQ'[v]) :
                           Waiting(v, i, d, s)' /\ Waiting(v, j, d, s)' => i = j
                      /\ \A i \in 1 .. Len(outstandingReqQ'[v]) :
                           ~(Waiting(v, i, d, s)' /\ Current(v, d, s)')
    BY DEF HeldOnce, Waiting, Current
  <2>1. Current(v, d, s)' <=> Current(v, d, s)
    BY <1>3 DEF Current
  <2>2. CASE v # u
    <3>1. outstandingReqQ'[v] = outstandingReqQ[v]
      BY <1>10, <2>2
    <3>2. \A i : Waiting(v, i, d, s)' <=> Waiting(v, i, d, s)
      BY <3>1 DEF Waiting
    <3> QED
      BY <1>0, <2>1, <3>1, <3>2 DEF HeldOnce
  <2>3. CASE v = u
    <3>1. \A i \in 1 .. Len(oq) : Waiting(u, i, d, s)' <=> Waiting(u, i, d, s)
      BY <1>1, <1>9, <1>10 DEF Waiting
    <3>2. Waiting(u, Len(oq) + 1, d, s)' <=> d = c /\ s = t
      BY <1>6, <1>9, <1>10 DEF Waiting
    <3>3. d = c /\ s = t => ~Current(u, d, s) /\ \A i \in 1 .. Len(oq) : ~Waiting(u, i, d, s)
      BY <1>1, <1>12 DEF Held
    <3>4. /\ \A i, j \in 1 .. Len(oq) : Waiting(u, i, d, s) /\ Waiting(u, j, d, s) => i = j
          /\ \A i \in 1 .. Len(oq) : ~(Waiting(u, i, d, s) /\ Current(u, d, s))
      BY <1>0, <1>1 DEF HeldOnce
    <3>5. outstandingReqQ'[v] = oq1
      BY <2>3, <1>10
    <3> QED
      BY <2>1, <2>3, <1>9, <3>1, <3>2, <3>3, <3>4, <3>5
  <2> QED
    BY <2>2, <2>3
<1>18. KnownTags'
  <2> SUFFICES ASSUME NEW d \in Cards
               PROVE  /\ \A i \in 1 .. Len(flashReqQs'[d]) : KnownTag(flashReqQs'[d][i].tag)
                      /\ \A y \in flash'[d] : KnownTag(y.tag)
    BY DEF KnownTags, KnownTag
  <2>1. KnownTag(cmd.tag)
    BY <1>4, <1>6 DEF KnownTag
  <2>2. CASE d # c
    BY <2>2, <1>0, <1>3, <1>10 DEF KnownTags
  <2>3. CASE d = c
    <3>1. \A i \in 1 .. Len(rq1) : KnownTag(rq1[i].tag)
      BY <1>0, <1>1, <1>8, <2>1 DEF KnownTags
    <3> QED
      BY <2>3, <3>1, <1>0, <1>3, <1>10 DEF KnownTags
  <2> QED
    BY <2>2, <2>3
<1>19. /\ \A i \in 1 .. Len(rq) : rq[i].tag # cmd.tag
       /\ \A y \in flash[c] : y.tag # cmd.tag
  BY <1>1, <1>6, <1>12 DEF Idle
<1>20. OneCommandPerTag'
  <2> SUFFICES ASSUME NEW d \in Cards
               PROVE  /\ \A i, j \in 1 .. Len(flashReqQs'[d]) :
                           flashReqQs'[d][i].tag = flashReqQs'[d][j].tag => i = j
                      /\ \A y, z \in flash'[d] : y.tag = z.tag => y = z
                      /\ \A i \in 1 .. Len(flashReqQs'[d]) :
                           \A y \in flash'[d] : flashReqQs'[d][i].tag # y.tag
    BY DEF OneCommandPerTag
  <2>1. CASE d # c
    BY <1>0, <1>3, <1>10, <2>1 DEF OneCommandPerTag
  <2>2. CASE d = c
    <3>1. \A i, j \in 1 .. Len(rq) : rq[i].tag = rq[j].tag => i = j
      BY <1>0, <1>1 DEF OneCommandPerTag
    <3>2. \A i, j \in 1 .. Len(rq1) : rq1[i].tag = rq1[j].tag => i = j
      BY <1>8, <1>19, <3>1
    <3>3. \A y, z \in flash[c] : y.tag = z.tag => y = z
      BY <1>0 DEF OneCommandPerTag
    <3>4. \A i \in 1 .. Len(rq1) : \A y \in flash[c] : rq1[i].tag # y.tag
      <4> SUFFICES ASSUME NEW i \in 1 .. Len(rq1), NEW y \in flash[c] PROVE rq1[i].tag # y.tag
        OBVIOUS
      <4>1. \A j \in 1 .. Len(rq) : rq[j].tag # y.tag
        BY <1>0, <1>1 DEF OneCommandPerTag
      <4> QED
        BY <1>8, <1>19, <4>1
    <3>5. flashReqQs'[d] = rq1 /\ flash'[d] = flash[c]
      BY <2>2, <1>3, <1>10
    <3> QED
      BY <3>2, <3>3, <3>4, <3>5
  <2> QED
    BY <2>1, <2>2
<1>21. \A v \in Users, d \in Cards, s \in ReqTags :
         (v = u /\ d = c /\ s = t) \/ Untouched(v, d, s)
  <2> TAKE v \in Users, d \in Cards, s \in ReqTags
  <2>1. CASE d # c
    BY <2>1, <1>3, <1>10 DEF Untouched
  <2>2. CASE d = c /\ ~(v = u /\ s = t)
    <3>1. FlashTag(v, s) # cmd.tag
      BY <2>2, <1>4, <1>6, TagsInjective
    <3>2. \A i \in 1 .. Len(rq1) : rq1[i] = cmd \/ \E j \in 1 .. Len(rq) : rq[j] = rq1[i]
      BY <1>8
    <3> QED
      BY <2>2, <3>1, <3>2, <1>1, <1>3, <1>10 DEF Untouched
  <2> QED
    BY <2>1, <2>2
<1>22. Slot(u, c, t, p, 0)'
  <2>1. reorderBufs'[u][c][t] = <<>> /\ Len(<<>>) = 0
    BY <1>3, <1>12 DEF Idle
  <2>2. \A i \in 1 .. Len(rq1) : rq1[i].tag = FlashTag(u, t) => rq1[i].page = p
    BY <1>6, <1>8, <1>19
  <2>3. \A y \in flash'[c] : y.tag # FlashTag(u, t)
    BY <1>3, <1>6, <1>19
  <2> QED
    BY <2>1, <2>2, <2>3, <1>10 DEF Slot
<1>23. ASSUME NEW v \in Users, NEW d \in Cards, NEW s \in ReqTags, ~Held(v, d, s)'
       PROVE  Idle(v, d, s)'
  BY <1>0, <1>13, <1>21, <1>23, OtherSlot DEF Slots
<1>24. ASSUME NEW v \in Users, NEW i \in 1 .. Len(outstandingReqQ'[v])
       PROVE  WaitingSlot(v, i)'
  <2>1. CASE v = u /\ i = Len(oq) + 1
    <3>1. outstandingReqQ'[v][i] = r
      BY <2>1, <1>9, <1>10
    <3> QED
      BY <2>1, <3>1, <1>6, <1>22 DEF WaitingSlot, Slot
  <2>2. CASE ~(v = u /\ i = Len(oq) + 1)
    <3>1. /\ i \in 1 .. Len(outstandingReqQ[v]) /\ outstandingReqQ'[v][i] = outstandingReqQ[v][i]
          /\ outstandingReqQ[v] \in Seq(Requests)
      BY <1>0, <1>1, <1>9, <1>10, <1>24, <2>2 DEF Typed
    <3>2. PICK x \in Requests : x = outstandingReqQ[v][i]
      BY <3>1, ElementOfSeq
    <3>3. x.card \in Cards /\ x.tag \in ReqTags /\ x.page \in Pages
      BY DEF Requests
    <3>4. Slot(v, x.card, x.tag, x.page, 0)
      BY <1>0, <3>1, <3>2 DEF Slots, WaitingSlot
    <3>5. Held(v, x.card, x.tag)
      BY <3>1, <3>2 DEF Held, Waiting
    <3>6. Slot(v, x.card, x.tag, x.page, 0)'
      BY <1>12, <1>21, <3>3, <3>4, <3>5, OtherSlot
    <3> QED
      BY <3>1, <3>2, <3>6, ZenonT(30) DEF WaitingSlot, Slot
  <2> QED
    BY <2>1, <2>2
<1>25. ASSUME NEW v \in Users, beatCnt'[v] # 0
       PROVE  CurrentSlot(v)'
  <2>1. PICK m \in Metas, pg \in Pages, b \in Nat :
          m = readMetaReg[v] /\ pg = asking[v] /\ b = beatCnt[v]
    <3>1. beatCnt[v] # 0
      BY <1>3, <1>25
    <3>2. readMetaReg[v] \in Metas /\ beatCnt[v] \in Nat
      BY <1>0 DEF Typed
    <3>3. asking[v] \in Pages
      BY <1>0, <3>1 DEF Typed
    <3> QED
      BY <3>2, <3>3
  <2>2. m.card \in Cards /\ m.tag \in ReqTags /\ m = [card |-> m.card, tag |-> m.tag]
    BY DEF Metas
  <2>3. Slot(v, m.card, m.tag, pg, b) /\ b # 0
    <3>1. beatCnt[v] # 0
      BY <1>3, <1>25
    <3>2. CurrentSlot(v)
      BY <1>0, <3>1 DEF Slots
    <3> QED
      BY <2>1, <3>1, <3>2 DEF CurrentSlot
  <2>4. Held(v, m.card, m.tag)
    BY <2>1, <2>2, <2>3 DEF Held, Current
  <2>5. Slot(v, m.card, m.tag, pg, b)'
    BY <1>12, <1>21, <2>2, <2>3, <2>4, OtherSlot
  <2>6. readMetaReg'[v] = m /\ asking'[v] = pg /\ beatCnt'[v] = b
    BY <1>3, <2>1
  <2> QED
    BY <2>5, <2>6 DEF CurrentSlot, Slot
<1>26. Slots'
  BY <1>23, <1>24, <1>25 DEF Slots
<1> QED
  BY <1>11, <1>15, <1>16, <1>17, <1>18, <1>20, <1>26 DEF IInv

(* The request that is answered, and the word it is given.                 *)
Given(u, m, p) ==
  /\ Slot(u, m.card, m.tag, p, beatCnt[u])
  /\ NotEmpty(reorderBufs[u][m.card][m.tag])
  /\ beatCnt[u] = 0 => /\ NotEmpty(outstandingReqQ[u])
                       /\ outstandingReqQ[u][1] = [card |-> m.card, tag |-> m.tag, page |-> p]
  /\ beatCnt[u] # 0 => readMetaReg[u] = m /\ asking[u] = p

(* deqResp as assignments: the word is the next one of the page.           *)
Gives(u, m, p) ==
  /\ pageRespQs' = [pageRespQs EXCEPT ![u] = Append(@, [page |-> p, beat |-> beatCnt[u]])]
  /\ readMetaReg' = [readMetaReg EXCEPT ![u] = m]
  /\ outstandingReqQ' = IF beatCnt[u] = 0 THEN [outstandingReqQ EXCEPT ![u] = Tail(@)]
                        ELSE outstandingReqQ
  /\ asking' = [asking EXCEPT ![u] = IF beatCnt[u] = PageWords - 1 THEN NoPage ELSE p]
  /\ reorderBufs' = [reorderBufs EXCEPT ![u][m.card][m.tag] = Tail(@)]
  /\ beatCnt' = [beatCnt EXCEPT ![u] = IF beatCnt[u] = PageWords - 1 THEN 0 ELSE beatCnt[u] + 1]
  /\ freeTagQ' = IF beatCnt[u] = PageWords - 1
                 THEN [freeTagQ EXCEPT ![u][m.card] = Append(@, m.tag)] ELSE freeTagQ
  /\ UNCHANGED <<initCnt, init>>
  /\ UNCHANGED <<flashReqQs, asked, flash>>

(* deqResp gives user u the next word of the page it is being given, or    *)
(* the first one of the page it asked for first.                           *)
LEMMA WordGiven ==
  ASSUME Typed, Slots, NEW u \in Users, DeqResp(u)
  PROVE  \E m \in Metas, p \in Pages : Given(u, m, p) /\ Gives(u, m, p)
<1>1. /\ beatCnt[u] \in 0 .. PageWords - 1 /\ PageWords \in Nat \ {0}
      /\ outstandingReqQ[u] \in Seq(Requests)
  BY FlashReadMultiplexAssumption DEF Typed
<1>2. PICK m : m = CurrentMeta(u)
  OBVIOUS
<1>3. /\ beatCnt[u] = 0 => NotEmpty(outstandingReqQ[u])
      /\ NotEmpty(reorderBufs[u][m.card][m.tag])
      /\ readMetaReg' = [readMetaReg EXCEPT ![u] = m]
      /\ outstandingReqQ' = IF beatCnt[u] = 0 THEN [outstandingReqQ EXCEPT ![u] = Tail(@)]
                            ELSE outstandingReqQ
      /\ asking' = [asking EXCEPT ![u] =
           IF beatCnt[u] = PageWords - 1 THEN NoPage
           ELSE IF beatCnt[u] = 0 THEN Head(outstandingReqQ[u]).page ELSE @]
      /\ reorderBufs' = [reorderBufs EXCEPT ![u][m.card][m.tag] = Tail(@)]
      /\ pageRespQs' = [pageRespQs EXCEPT ![u] =
           Append(@, Head(reorderBufs[u][m.card][m.tag]))]
      /\ beatCnt' = [beatCnt EXCEPT ![u] = NextBeat(@)]
      /\ LastBeat(u) => freeTagQ' = [freeTagQ EXCEPT ![u][m.card] = Append(@, m.tag)]
      /\ ~LastBeat(u) => UNCHANGED freeTagQ
      /\ UNCHANGED <<initCnt, init>>
      /\ UNCHANGED <<flashReqQs, asked, flash>>
  BY <1>2, Zenon DEF DeqResp
<1>4. /\ LastBeat(u) <=> beatCnt[u] = PageWords - 1
      /\ NextBeat(beatCnt[u]) = IF beatCnt[u] = PageWords - 1 THEN 0 ELSE beatCnt[u] + 1
  BY <1>1 DEF LastBeat, NextBeat
<1>5. PICK p : p = IF beatCnt[u] = 0 THEN outstandingReqQ[u][1].page ELSE asking[u]
  OBVIOUS
<1>6. /\ m \in Metas /\ p \in Pages
      /\ beatCnt[u] = 0 => outstandingReqQ[u][1] = [card |-> m.card, tag |-> m.tag, page |-> p]
      /\ beatCnt[u] = 0 => Head(outstandingReqQ[u]).page = p
      /\ beatCnt[u] # 0 => readMetaReg[u] = m /\ asking[u] = p
  <2>1. CASE beatCnt[u] = 0
    <3>1. outstandingReqQ[u][1] \in Requests /\ Head(outstandingReqQ[u]) = outstandingReqQ[u][1]
      BY <1>1, <1>3, <2>1, Dequeued
    <3>2. m = [card |-> outstandingReqQ[u][1].card, tag |-> outstandingReqQ[u][1].tag]
      BY <1>2, <2>1, <3>1 DEF CurrentMeta, FirstOutstanding
    <3> QED
      BY <1>5, <2>1, <3>1, <3>2 DEF Requests, Metas
  <2>2. CASE beatCnt[u] # 0
    BY <1>2, <1>5, <2>2 DEF CurrentMeta, Typed
  <2> QED
    BY <2>1, <2>2
<1>7. Slot(u, m.card, m.tag, p, beatCnt[u])
  <2>1. CASE beatCnt[u] = 0
    <3>1. 1 \in 1 .. Len(outstandingReqQ[u])
      BY <1>1, <1>3, <2>1, Dequeued
    <3>2. WaitingSlot(u, 1)
      BY <3>1 DEF Slots
    <3> QED
      BY <1>6, <2>1, <3>2 DEF WaitingSlot
  <2>2. CASE beatCnt[u] # 0
    BY <1>6, <2>2 DEF Slots, CurrentSlot
  <2> QED
    BY <2>1, <2>2
<1>8. Head(reorderBufs[u][m.card][m.tag]) = [page |-> p, beat |-> beatCnt[u]]
  <2>1. PICK buf \in Seq(Words) : buf = reorderBufs[u][m.card][m.tag]
    BY <1>6, SMTT(30) DEF Typed, Metas
  <2>2. Head(buf) = buf[1] /\ 1 \in 1 .. Len(buf)
    BY <1>3, <2>1, Dequeued
  <2>3. buf[1] = [page |-> p, beat |-> beatCnt[u] + 1 - 1]
    BY <1>7, <2>1, <2>2 DEF Slot
  <2> QED
    BY <1>1, <2>1, <2>2, <2>3
<1>9. Given(u, m, p)
  BY <1>3, <1>6, <1>7 DEF Given
<1>10. asking' = [asking EXCEPT ![u] = IF beatCnt[u] = PageWords - 1 THEN NoPage ELSE p]
  BY <1>3, <1>6
<1>11. beatCnt' = [beatCnt EXCEPT ![u] = IF beatCnt[u] = PageWords - 1 THEN 0 ELSE beatCnt[u] + 1]
  BY <1>3, <1>4
<1>12. pageRespQs' = [pageRespQs EXCEPT ![u] = Append(@, [page |-> p, beat |-> beatCnt[u]])]
  BY <1>3, <1>8
<1>13. freeTagQ' = IF beatCnt[u] = PageWords - 1
                   THEN [freeTagQ EXCEPT ![u][m.card] = Append(@, m.tag)] ELSE freeTagQ
  BY <1>3, <1>4
<1>14. Gives(u, m, p)
  BY <1>3, <1>10, <1>11, <1>12, <1>13, Zenon DEF Gives
<1> QED
  BY <1>6, <1>9, <1>14

(* deqResp: one word less in the buffer; with the last word of its page    *)
(* the tag is free again, and nothing is under way for it.                 *)
LEMMA DeqRespStep ==
  ASSUME IInv, NEW u \in Users, DeqResp(u)
  PROVE  IInv'
<1>0. /\ Typed /\ HeldOnce /\ FreeOnce /\ FreeOrHeld /\ OneCommandPerTag /\ KnownTags /\ Slots
  BY DEF IInv
<1>1. PICK m \in Metas, p \in Pages : Given(u, m, p) /\ Gives(u, m, p)
  BY <1>0, WordGiven
<1>2. PICK c \in Cards, t \in ReqTags : c = m.card /\ t = m.tag /\ m = [card |-> c, tag |-> t]
  BY DEF Metas
<1>3. PICK b \in 0 .. PageWords - 1, oq \in Seq(Requests), fq \in Seq(ReqTags), buf \in Seq(Words) :
        /\ b = beatCnt[u] /\ oq = outstandingReqQ[u] /\ fq = freeTagQ[u][c]
        /\ buf = reorderBufs[u][c][t]
  <2>1. /\ beatCnt[u] \in 0 .. PageWords - 1 /\ outstandingReqQ[u] \in Seq(Requests)
        /\ freeTagQ[u][c] \in Seq(ReqTags) /\ reorderBufs[u][c][t] \in Seq(Words)
    BY <1>0 DEF Typed
  <2> QED
    BY <2>1
<1>4. PICK last \in BOOLEAN : last <=> b = PageWords - 1
  OBVIOUS
<1>5. PageWords \in Nat \ {0} /\ b \in Nat /\ (~last => b + 1 \in 0 .. PageWords - 1)
  <2>1. PageWords \in Nat \ {0} /\ b \in Nat
    BY FlashReadMultiplexAssumption
  <2>2. b # PageWords - 1 => b + 1 \in 0 .. PageWords - 1
    BY <2>1
  <2> QED
    BY <1>4, <2>1, <2>2
<1>6. /\ Slot(u, c, t, p, b) /\ NotEmpty(buf)
      /\ b = 0 => NotEmpty(oq) /\ oq[1] = [card |-> c, tag |-> t, page |-> p]
      /\ b # 0 => readMetaReg[u] = m /\ asking[u] = p
  BY <1>1, <1>2, <1>3 DEF Given
<1>7. PICK buf1 \in Seq(Words), fq1 \in Seq(ReqTags), oq1 \in Seq(Requests) :
        /\ buf1 = Tail(buf) /\ fq1 = (IF last THEN Append(fq, t) ELSE fq)
        /\ oq1 = (IF b = 0 THEN Tail(oq) ELSE oq)
  <2>1. Tail(buf) \in Seq(Words) /\ Append(fq, t) \in Seq(ReqTags) /\ (b = 0 => Tail(oq) \in Seq(Requests))
    BY <1>6, Dequeued, Enqueued
  <2> QED
    BY <2>1
<1>8. /\ pageRespQs' = [pageRespQs EXCEPT ![u] = Append(@, [page |-> p, beat |-> b])]
      /\ readMetaReg' = [readMetaReg EXCEPT ![u] = m]
      /\ outstandingReqQ' = [outstandingReqQ EXCEPT ![u] = oq1]
      /\ asking' = [asking EXCEPT ![u] = IF last THEN NoPage ELSE p]
      /\ reorderBufs' = [reorderBufs EXCEPT ![u][c][t] = buf1]
      /\ beatCnt' = [beatCnt EXCEPT ![u] = IF last THEN 0 ELSE b + 1]
      /\ freeTagQ' = [freeTagQ EXCEPT ![u][c] = fq1]
      /\ UNCHANGED <<initCnt, init>>
      /\ UNCHANGED <<flashReqQs, asked, flash>>
  <2>1. /\ pageRespQs' = [pageRespQs EXCEPT ![u] = Append(@, [page |-> p, beat |-> b])]
        /\ readMetaReg' = [readMetaReg EXCEPT ![u] = m]
        /\ asking' = [asking EXCEPT ![u] = IF last THEN NoPage ELSE p]
        /\ beatCnt' = [beatCnt EXCEPT ![u] = IF last THEN 0 ELSE b + 1]
        /\ UNCHANGED <<initCnt, init>>
        /\ UNCHANGED <<flashReqQs, asked, flash>>
    BY <1>1, <1>3, <1>4 DEF Gives
  <2>2. outstandingReqQ' = [outstandingReqQ EXCEPT ![u] = oq1]
    <3>1. b # 0 => outstandingReqQ = [outstandingReqQ EXCEPT ![u] = oq1]
      BY <1>0, <1>3, <1>7 DEF Typed
    <3> QED
      BY <1>1, <1>3, <1>7, <3>1 DEF Gives
  <2>3. reorderBufs' = [reorderBufs EXCEPT ![u][c][t] = buf1]
    BY <1>1, <1>2, <1>3, <1>7 DEF Gives
  <2>4. freeTagQ' = [freeTagQ EXCEPT ![u][c] = fq1]
    <3>1. ~last => freeTagQ = [freeTagQ EXCEPT ![u][c] = fq1]
      BY <1>0, <1>3, <1>7 DEF Typed
    <3> QED
      BY <1>1, <1>2, <1>3, <1>4, <1>7, <3>1 DEF Gives
  <2> QED
    BY <2>1, <2>2, <2>3, <2>4
<1>9. /\ \A v \in Users, d \in Cards :
           freeTagQ'[v][d] = IF v = u /\ d = c THEN fq1 ELSE freeTagQ[v][d]
      /\ \A v \in Users : outstandingReqQ'[v] = IF v = u THEN oq1 ELSE outstandingReqQ[v]
      /\ \A v \in Users : readMetaReg'[v] = IF v = u THEN m ELSE readMetaReg[v]
      /\ \A v \in Users : beatCnt'[v] = IF v = u THEN (IF last THEN 0 ELSE b + 1) ELSE beatCnt[v]
      /\ \A v \in Users : asking'[v] = IF v = u THEN (IF last THEN NoPage ELSE p) ELSE asking[v]
  BY <1>0, <1>8 DEF Typed
<1>10. \A v \in Users, d \in Cards, s \in ReqTags :
         reorderBufs'[v][d][s] = IF v = u /\ d = c /\ s = t THEN buf1 ELSE reorderBufs[v][d][s]
  <2>1. reorderBufs \in [Users -> [Cards -> [ReqTags -> Seq(Words)]]]
    BY <1>0 DEF Typed
  <2> QED
    BY <1>8, <2>1
<1>11. Typed'
  <2>1. [page |-> p, beat |-> b] \in Words
    BY DEF Words
  <2>2. pageRespQs' \in [Users -> Seq(Words)]
    BY <1>0, <1>8, <2>1, Enqueued DEF Typed
  <2>3. /\ readMetaReg' \in [Users -> Metas] /\ outstandingReqQ' \in [Users -> Seq(Requests)]
        /\ beatCnt' \in [Users -> 0 .. PageWords - 1]
        /\ asking' \in [Users -> Pages \union {NoPage}]
    <3>1. /\ (IF last THEN 0 ELSE b + 1) \in 0 .. PageWords - 1
          /\ (IF last THEN NoPage ELSE p) \in Pages \union {NoPage}
      BY <1>5
    <3>2. readMetaReg' \in [Users -> Metas] /\ outstandingReqQ' \in [Users -> Seq(Requests)]
      BY <1>0, <1>8 DEF Typed
    <3>3. beatCnt' \in [Users -> 0 .. PageWords - 1]
      BY <1>0, <1>8, <3>1 DEF Typed
    <3>4. asking' \in [Users -> Pages \union {NoPage}]
      BY <1>0, <1>8, <3>1 DEF Typed
    <3> QED
      BY <3>2, <3>3, <3>4
  <2>4. /\ reorderBufs' \in [Users -> [Cards -> [ReqTags -> Seq(Words)]]]
        /\ freeTagQ' \in [Users -> [Cards -> Seq(ReqTags)]]
    BY <1>0, <1>8 DEF Typed
  <2>5. \A v \in Users : beatCnt'[v] # 0 => asking'[v] \in Pages
    BY <1>0, <1>9 DEF Typed
  <2> QED
    BY <1>0, <1>8, <2>2, <2>3, <2>4, <2>5 DEF Typed
<1>12. /\ b # 0 => oq1 = oq
       /\ b = 0 => /\ \A i \in 1 .. Len(oq1) : oq1[i] = oq[i + 1] /\ i + 1 \in 1 .. Len(oq) /\ i + 1 # 1
                   /\ \A i \in 1 .. Len(oq) : i = 1 \/ \E j \in 1 .. Len(oq1) : oq1[j] = oq[i]
  <2>1. CASE b = 0
    <3>1. /\ \A i \in 1 .. Len(oq1) : oq1[i] = oq[i + 1] /\ i + 1 \in 1 .. Len(oq) /\ i + 1 # 1
          /\ \A i \in 1 .. Len(oq) : i = 1 \/ (i - 1 \in 1 .. Len(oq1) /\ oq1[i - 1] = oq[i])
      BY <1>6, <1>7, <2>1, Dequeued
    <3> QED
      BY <2>1, <3>1
  <2> QED
    BY <1>7, <2>1
<1>13. /\ \A i, j \in 1 .. Len(oq) : oq[i].card = oq[j].card /\ oq[i].tag = oq[j].tag => i = j
       /\ b # 0 => \A i \in 1 .. Len(oq) : ~(oq[i].card = c /\ oq[i].tag = t)
       /\ b = 0 => 1 \in 1 .. Len(oq) /\ oq[1].card = c /\ oq[1].tag = t
  <2>1. \A i \in 1 .. Len(oq) : oq[i].card \in Cards /\ oq[i].tag \in ReqTags
    <3>1. \A i \in 1 .. Len(oq) : oq[i] \in Requests
      BY ElementOfSeq
    <3> QED
      BY <3>1 DEF Requests
  <2>2. \A i, j \in 1 .. Len(oq) : oq[i].card = oq[j].card /\ oq[i].tag = oq[j].tag => i = j
    BY <1>0, <1>3, <2>1 DEF HeldOnce, Waiting
  <2>3. b # 0 => \A i \in 1 .. Len(oq) : ~(oq[i].card = c /\ oq[i].tag = t)
    BY <1>0, <1>2, <1>3, <1>6 DEF HeldOnce, Waiting, Current
  <2>4. b = 0 => 1 \in 1 .. Len(oq) /\ oq[1].card = c /\ oq[1].tag = t
    BY <1>6, Dequeued
  <2> QED
    BY <2>2, <2>3, <2>4
<1>14. \A i \in 1 .. Len(oq1) : ~(oq1[i].card = c /\ oq1[i].tag = t)
  <2>1. CASE b = 0
    <3>1. /\ \A i \in 1 .. Len(oq1) : oq1[i] = oq[i + 1] /\ i + 1 \in 1 .. Len(oq) /\ i + 1 # 1
          /\ 1 \in 1 .. Len(oq) /\ oq[1].card = c /\ oq[1].tag = t
      BY <1>12, <1>13, <2>1
    <3> QED
      BY <1>13, <3>1, ZenonT(30)
  <2>2. CASE b # 0
    BY <1>12, <1>13, <2>2, ZenonT(30)
  <2> QED
    BY <2>1, <2>2
<1>15. \A d \in Cards, s \in ReqTags :
         (\E i \in 1 .. Len(oq1) : oq1[i].card = d /\ oq1[i].tag = s)
           <=> (\E i \in 1 .. Len(oq) : oq[i].card = d /\ oq[i].tag = s) /\ ~(d = c /\ s = t)
  <2> TAKE d \in Cards, s \in ReqTags
  <2>1. ASSUME NEW i \in 1 .. Len(oq1), oq1[i].card = d /\ oq1[i].tag = s
        PROVE  (\E j \in 1 .. Len(oq) : oq[j].card = d /\ oq[j].tag = s) /\ ~(d = c /\ s = t)
    BY <1>12, <1>14, <2>1
  <2>2. ASSUME NEW i \in 1 .. Len(oq), oq[i].card = d /\ oq[i].tag = s, ~(d = c /\ s = t)
        PROVE  \E j \in 1 .. Len(oq1) : oq1[j].card = d /\ oq1[j].tag = s
    BY <1>12, <1>13, <2>2
  <2> QED
    BY <2>1, <2>2
<1>16. /\ Held(u, c, t)
       /\ \A d \in Cards, s \in ReqTags :
            Current(u, d, s) <=> b # 0 /\ d = c /\ s = t
       /\ \A d \in Cards, s \in ReqTags :
            Current(u, d, s)' <=> ~last /\ d = c /\ s = t
  <2>1. \A d \in Cards, s \in ReqTags : m = [card |-> d, tag |-> s] <=> d = c /\ s = t
    BY <1>2
  <2>2. \A d \in Cards, s \in ReqTags : Current(u, d, s) <=> b # 0 /\ d = c /\ s = t
    BY <1>3, <1>6, <2>1 DEF Current
  <2>3. \A d \in Cards, s \in ReqTags : Current(u, d, s)' <=> ~last /\ d = c /\ s = t
    BY <1>5, <1>9, <2>1 DEF Current
  <2>4. Held(u, c, t)
    BY <1>3, <1>13, <2>2 DEF Held, Waiting
  <2> QED
    BY <2>2, <2>3, <2>4
<1>17. \A v \in Users, d \in Cards, s \in ReqTags :
         Held(v, d, s)' <=> Held(v, d, s) /\ ~(last /\ v = u /\ d = c /\ s = t)
  <2> TAKE v \in Users, d \in Cards, s \in ReqTags
  <2>1. CASE v # u
    BY <1>9, <2>1 DEF Held, Current, Waiting
  <2>2. CASE v = u
    <3>1. Held(u, d, s)' <=> (~last /\ d = c /\ s = t)
                             \/ (\E i \in 1 .. Len(oq1) : oq1[i].card = d /\ oq1[i].tag = s)
      BY <1>9, <1>16 DEF Held, Waiting
    <3>2. Held(u, d, s) <=> (b # 0 /\ d = c /\ s = t)
                             \/ (\E i \in 1 .. Len(oq) : oq[i].card = d /\ oq[i].tag = s)
      BY <1>3, <1>16 DEF Held, Waiting
    <3>3. CASE d = c /\ s = t
      <4>1. ~\E i \in 1 .. Len(oq1) : oq1[i].card = d /\ oq1[i].tag = s
        BY <1>14, <3>3
      <4>2. Held(u, d, s)' <=> ~last
        BY <3>1, <3>3, <4>1
      <4>3. Held(u, d, s)
        BY <1>16, <3>3
      <4> QED
        BY <2>2, <3>3, <4>2, <4>3
    <3>4. CASE ~(d = c /\ s = t)
      <4>1. Held(u, d, s)' <=> \E i \in 1 .. Len(oq1) : oq1[i].card = d /\ oq1[i].tag = s
        BY <3>1, <3>4
      <4>2. Held(u, d, s) <=> \E i \in 1 .. Len(oq) : oq[i].card = d /\ oq[i].tag = s
        BY <3>2, <3>4
      <4>3. Held(u, d, s)' <=> Held(u, d, s)
        <5>1. (\E i \in 1 .. Len(oq1) : oq1[i].card = d /\ oq1[i].tag = s)
                <=> (\E i \in 1 .. Len(oq) : oq[i].card = d /\ oq[i].tag = s)
          BY <3>4, <1>15, ZenonT(30)
        <5> QED
          BY <4>1, <4>2, <5>1, Zenon
      <4> QED
        BY <2>2, <3>4, <4>3
    <3> QED
      BY <3>3, <3>4
  <2> QED
    BY <2>1, <2>2
<1>18. \A v \in Users, d \in Cards, s \in ReqTags :
         Free(v, d, s)' <=> Free(v, d, s) \/ (last /\ v = u /\ d = c /\ s = t)
  <2> TAKE v \in Users, d \in Cards, s \in ReqTags
  <2>1. CASE ~(v = u /\ d = c)
    <3>1. freeTagQ'[v][d] = freeTagQ[v][d]
      BY <1>9, <2>1
    <3> QED
      BY <2>1, <3>1 DEF Free
  <2>2. CASE v = u /\ d = c
    <3>1. Free(v, d, s)' <=> \E i \in 1 .. Len(fq1) : fq1[i] = s
      BY <1>9, <2>2 DEF Free
    <3>2. Free(v, d, s) <=> \E i \in 1 .. Len(fq) : fq[i] = s
      BY <1>3, <2>2 DEF Free
    <3>3. last => ((\E i \in 1 .. Len(fq1) : fq1[i] = s) <=> (\E i \in 1 .. Len(fq) : fq[i] = s) \/ s = t)
      BY <1>7, Enqueued
    <3>4. ~last => fq1 = fq
      BY <1>7
    <3> QED
      BY <2>2, <3>1, <3>2, <3>3, <3>4
  <2> QED
    BY <2>1, <2>2
<1>19. FreeOrHeld'
  <2>1. \A v \in Users, d \in Cards, s \in ReqTags : HandedOut(v, d, s)' <=> HandedOut(v, d, s)
    BY <1>8 DEF HandedOut
  <2> QED
    BY <1>0, <1>16, <1>17, <1>18, <2>1 DEF FreeOrHeld
<1>20. FreeOnce'
  <2>1. \A i \in 1 .. Len(fq) : fq[i] # t
    BY <1>0, <1>3, <1>16 DEF FreeOrHeld, Free
  <2>2. \A i, j \in 1 .. Len(fq) : fq[i] = fq[j] => i = j
    BY <1>0, <1>3 DEF FreeOnce
  <2>3. last => \A i, j \in 1 .. Len(fq1) : fq1[i] = fq1[j] => i = j
    <3> SUFFICES ASSUME last PROVE \A i, j \in 1 .. Len(fq1) : fq1[i] = fq1[j] => i = j
      OBVIOUS
    <3>1. /\ fq1[Len(fq) + 1] = t /\ \A i \in 1 .. Len(fq) : fq1[i] = fq[i]
          /\ \A i \in 1 .. Len(fq1) : i \in 1 .. Len(fq) \/ i = Len(fq) + 1
      BY <1>7, Enqueued
    <3> QED
      BY <3>1, <2>1, <2>2
  <2>4. \A i, j \in 1 .. Len(fq1) : fq1[i] = fq1[j] => i = j
    BY <1>7, <2>2, <2>3
  <2> SUFFICES ASSUME NEW v \in Users, NEW d \in Cards
               PROVE  \A i, j \in 1 .. Len(freeTagQ'[v][d]) :
                        freeTagQ'[v][d][i] = freeTagQ'[v][d][j] => i = j
    BY DEF FreeOnce
  <2>5. CASE v = u /\ d = c
    BY <1>9, <2>4, <2>5
  <2>6. CASE ~(v = u /\ d = c)
    <3>1. freeTagQ'[v][d] = freeTagQ[v][d]
      BY <1>9, <2>6
    <3> QED
      BY <1>0, <3>1 DEF FreeOnce
  <2> QED
    BY <2>5, <2>6
<1>21. HeldOnce'
  <2> SUFFICES ASSUME NEW v \in Users, NEW d \in Cards, NEW s \in ReqTags
               PROVE  /\ \A i, j \in 1 .. Len(outstandingReqQ'[v]) :
                           Waiting(v, i, d, s)' /\ Waiting(v, j, d, s)' => i = j
                      /\ \A i \in 1 .. Len(outstandingReqQ'[v]) :
                           ~(Waiting(v, i, d, s)' /\ Current(v, d, s)')
    BY DEF HeldOnce, Waiting, Current
  <2>1. CASE v # u
    <3>1. outstandingReqQ'[v] = outstandingReqQ[v] /\ (Current(v, d, s)' <=> Current(v, d, s))
      BY <1>9, <2>1 DEF Current
    <3>2. \A i : Waiting(v, i, d, s)' <=> Waiting(v, i, d, s)
      BY <3>1 DEF Waiting
    <3> QED
      BY <1>0, <3>1, <3>2 DEF HeldOnce
  <2>2. CASE v = u
    <3>1. outstandingReqQ'[v] = oq1
      BY <1>9, <2>2
    <3>2. \A i, j \in 1 .. Len(oq1) : oq1[i].card = oq1[j].card /\ oq1[i].tag = oq1[j].tag => i = j
      <4> SUFFICES ASSUME NEW i \in 1 .. Len(oq1), NEW j \in 1 .. Len(oq1),
                          oq1[i].card = oq1[j].card /\ oq1[i].tag = oq1[j].tag
                   PROVE  i = j
        OBVIOUS
      <4>1. CASE b = 0
        <5>1. /\ i + 1 \in 1 .. Len(oq) /\ j + 1 \in 1 .. Len(oq)
              /\ oq[i + 1].card = oq[j + 1].card /\ oq[i + 1].tag = oq[j + 1].tag
          BY <1>12, <4>1
        <5>2. i + 1 = j + 1
          BY <1>13, <5>1
        <5> QED
          BY <5>2
      <4>2. CASE b # 0
        BY <1>12, <1>13, <4>2
      <4> QED
        BY <4>1, <4>2
    <3>3. \A i : Waiting(v, i, d, s)' <=> oq1[i].card = d /\ oq1[i].tag = s
      BY <3>1 DEF Waiting
    <3>4. \A i, j \in 1 .. Len(oq1) : Waiting(v, i, d, s)' /\ Waiting(v, j, d, s)' => i = j
      BY <3>2, <3>3
    <3>5. \A i \in 1 .. Len(oq1) : Waiting(v, i, d, s)' => ~(d = c /\ s = t)
      BY <3>3, <1>14
    <3>6. Current(v, d, s)' => d = c /\ s = t
      BY <2>2, <1>16
    <3> QED
      BY <3>1, <3>4, <3>5, <3>6
  <2> QED
    BY <2>1, <2>2
<1>22. KnownTags' /\ OneCommandPerTag'
  BY <1>0, <1>8 DEF KnownTags, OneCommandPerTag
<1>23. \A v \in Users, d \in Cards, s \in ReqTags :
         (v = u /\ d = c /\ s = t) \/ Untouched(v, d, s)
  BY <1>8, <1>10 DEF Untouched
<1>24. /\ \A k \in 1 .. Len(buf1) : buf1[k] = [page |-> p, beat |-> (b + 1) + k - 1]
       /\ Len(buf) = Len(buf1) + 1 /\ Len(buf1) \in Nat
  <2>1. /\ Len(buf1) = Len(buf) - 1 /\ Len(buf) \in Nat /\ Len(buf) > 0
        /\ \A k \in 1 .. Len(buf1) : buf1[k] = buf[k + 1] /\ k + 1 \in 1 .. Len(buf)
    BY <1>6, <1>7, Dequeued DEF NotEmpty
  <2>2. \A k \in 1 .. Len(buf) : buf[k] = [page |-> p, beat |-> b + k - 1]
    BY <1>3, <1>6 DEF Slot
  <2>3. \A k \in 1 .. Len(buf1) : b + (k + 1) - 1 = (b + 1) + k - 1
    BY <1>5
  <2>4. \A k \in 1 .. Len(buf1) : buf1[k] = [page |-> p, beat |-> (b + 1) + k - 1]
    BY <2>1, <2>2, <2>3
  <2> QED
    BY <2>1, <2>4
<1>25. /\ \A i \in 1 .. Len(flashReqQs[c]) : flashReqQs[c][i].tag # FlashTag(u, t)
       /\ \A x \in flash[c] : x.tag = FlashTag(u, t) =>
            x.page = p /\ x.beat = (b + 1) + Len(buf1)
  <2>1. /\ \A i \in 1 .. Len(flashReqQs[c]) :
             flashReqQs[c][i].tag = FlashTag(u, t) => b + Len(buf) = 0
        /\ \A x \in flash[c] : x.tag = FlashTag(u, t) => x.page = p /\ x.beat = b + Len(buf)
    BY <1>3, <1>6 DEF Slot
  <2>2. b + Len(buf) = (b + 1) + Len(buf1) /\ b + Len(buf) # 0
    <3>1. PICK n \in Nat : n = Len(buf1) /\ Len(buf) = n + 1
      BY <1>24
    <3> QED
      BY <1>5, <3>1
  <2> QED
    BY <2>1, <2>2
<1>26. ASSUME NEW v \in Users, NEW d \in Cards, NEW s \in ReqTags, ~Held(v, d, s)'
       PROVE  Idle(v, d, s)'
  <2>1. CASE ~(v = u /\ d = c /\ s = t)
    BY <1>0, <1>17, <1>23, <1>26, <2>1, OtherSlot DEF Slots
  <2>2. CASE v = u /\ d = c /\ s = t
    <3>1. last /\ b + 1 = PageWords
      BY <1>4, <1>5, <1>16, <1>17, <1>26, <2>2
    <3>2. buf1 = <<>>
      <4>1. SUFFICES ASSUME 1 \in 1 .. Len(buf1) PROVE FALSE
        BY <1>24, EmptyIff
      <4>2. buf1[1].beat \in 0 .. PageWords - 1
        <5>1. buf1[1] \in Words
          BY <4>1, ElementOfSeq
        <5> QED
          BY <5>1 DEF Words
      <4>3. buf1[1].beat = (b + 1) + 1 - 1
        <5>1. buf1[1] = [page |-> p, beat |-> (b + 1) + 1 - 1]
          BY <1>24, <4>1
        <5> QED
          BY <5>1
      <4> QED
        BY <1>5, <3>1, <4>2, <4>3
    <3>3. \A x \in flash[c] : x.tag # FlashTag(u, t)
      <4>1. \A x \in flash[c] : x.beat \in 0 .. PageWords - 1
        <5>1. flash[c] \subseteq InWork
          BY <1>0 DEF Typed
        <5> QED
          BY <5>1 DEF InWork
      <4> QED
        BY <1>5, <1>24, <1>25, <3>1, <4>1
    <3> QED
      BY <2>2, <3>2, <3>3, <1>8, <1>10, <1>25 DEF Idle
  <2> QED
    BY <2>1, <2>2
<1>27. ASSUME NEW v \in Users, NEW i \in 1 .. Len(outstandingReqQ'[v])
       PROVE  WaitingSlot(v, i)'
  <2>1. PICK x \in Requests : x = outstandingReqQ'[v][i]
    BY <1>11, ElementOfSeq DEF Typed
  <2>2. x.card \in Cards /\ x.tag \in ReqTags /\ x.page \in Pages
    BY DEF Requests
  <2>3. PICK j \in 1 .. Len(outstandingReqQ[v]) : outstandingReqQ[v][j] = x
    <3>1. CASE v # u
      BY <1>9, <1>27, <2>1, <3>1
    <3>2. CASE v = u
      <4>1. i \in 1 .. Len(oq1) /\ oq1[i] = x
        BY <1>9, <1>27, <2>1, <3>2
      <4>2. \E j \in 1 .. Len(oq) : oq[j] = x
        BY <1>12, <4>1
      <4> QED
        BY <1>3, <3>2, <4>2
    <3> QED
      BY <3>1, <3>2
  <2>4. ~(v = u /\ x.card = c /\ x.tag = t)
    BY <1>9, <1>14, <1>27, <2>1
  <2>5. Slot(v, x.card, x.tag, x.page, 0)
    BY <1>0, <2>3 DEF Slots, WaitingSlot
  <2>6. Slot(v, x.card, x.tag, x.page, 0)'
    BY <1>23, <2>2, <2>4, <2>5, OtherSlot
  <2> QED
    BY <2>1, <2>6 DEF WaitingSlot, Slot
<1>28. ASSUME NEW v \in Users, beatCnt'[v] # 0
       PROVE  CurrentSlot(v)'
  <2>1. CASE v = u
    <3>1. readMetaReg'[u] = m /\ asking'[u] = p /\ beatCnt'[u] = b + 1
      BY <1>9, <1>28, <2>1
    <3>2. Slot(u, c, t, p, b + 1)'
      BY <1>8, <1>10, <1>24, <1>25, SMTT(30) DEF Slot
    <3> QED
      BY <1>2, <2>1, <3>1, <3>2, ZenonT(30) DEF CurrentSlot, Slot
  <2>2. CASE v # u
    <3>1. /\ beatCnt[v] # 0 /\ readMetaReg'[v] = readMetaReg[v] /\ asking'[v] = asking[v]
          /\ beatCnt'[v] = beatCnt[v]
      BY <1>9, <1>28, <2>2
    <3>2. PICK x \in Metas, pg \in Pages, n \in Nat :
            x = readMetaReg[v] /\ pg = asking[v] /\ n = beatCnt[v]
      BY <1>0, <3>1, SMTT(30) DEF Typed
    <3>3. x.card \in Cards /\ x.tag \in ReqTags
      BY DEF Metas
    <3>4. Slot(v, x.card, x.tag, pg, n)
      BY <1>0, <3>1, <3>2 DEF Slots, CurrentSlot
    <3>5. Slot(v, x.card, x.tag, pg, n)'
      BY <1>23, <2>2, <3>3, <3>4, OtherSlot
    <3> QED
      BY <3>1, <3>2, <3>5 DEF CurrentSlot, Slot
  <2> QED
    BY <2>1, <2>2
<1>29. Slots'
  BY <1>26, <1>27, <1>28 DEF Slots
<1> QED
  BY <1>11, <1>19, <1>20, <1>21, <1>22, <1>29 DEF IInv

-----------------------------------------------------------------------------
(* Every step keeps the invariant.                                         *)

(* Every step keeps the inductive invariant, rule by rule.                 *)
LEMMA StepIInv == IInv /\ [Next]_vars => IInv'
<1> SUFFICES ASSUME IInv, [Next]_vars PROVE IInv'
  OBVIOUS
<1>1. CASE UNCHANGED vars
  <2>1. /\ Typed /\ HeldOnce /\ FreeOnce /\ FreeOrHeld /\ OneCommandPerTag /\ KnownTags /\ Slots
    BY DEF IInv
  <2>2. /\ UNCHANGED <<initCnt, init, freeTagQ>>
        /\ UNCHANGED <<flashReqQs, reorderBufs, flash, asked, pageRespQs>>
        /\ UNCHANGED <<outstandingReqQ, beatCnt, readMetaReg, asking>>
    BY <1>1 DEF vars, tagVars, outVars
  <2>3. Typed'
    BY <2>1, <2>2 DEF Typed
  <2>4. HeldOnce' /\ FreeOnce' /\ FreeOrHeld'
    BY <2>1, <2>2, TagsKept
  <2>5. OneCommandPerTag' /\ KnownTags'
    BY <2>1, <2>2 DEF OneCommandPerTag, KnownTags
  <2>6. Slots'
    BY <2>1, <2>2, SlotsKept
  <2> QED
    BY <2>3, <2>4, <2>5, <2>6 DEF IInv
<1>2. CASE Next
  BY <1>2, DeqRespStep, ResponseStep, InitializeStep, RequestStep, SendCmdStep, ReadWordStep
  DEF Next
<1> QED
  BY <1>1, <1>2

(* In every reachable state each tag has one owner at most, its buffer     *)
(* holds consecutive words of the owner's page, and its command, if one is *)
(* under way, brings the words that follow.                                *)
THEOREM Invariance == Spec => []IInv
<1>1. Init => IInv
  BY InitIInv
<1>2. IInv /\ [Next]_vars => IInv'
  BY StepIInv
<1> QED
  BY <1>1, <1>2, PTL DEF Spec

-----------------------------------------------------------------------------
(* A tag has one owner, and its words have room.                           *)

(* The size of a set that has one element at most.                         *)
LEMMA OneAtMost ==
  ASSUME NEW S, \A i, j \in S : i = j
  PROVE  Cardinality(S) = IF S = {} THEN 0 ELSE 1
<1>1. CASE S = {}
  BY <1>1, FS_EmptySet
<1>2. CASE S # {}
  <2>1. PICK x \in S : TRUE
    BY <1>2
  <2>2. S = {x}
    BY <2>1
  <2> QED
    BY <1>2, <2>2, FS_Singleton
<1> QED
  BY <1>1, <1>2

(* The counts of a tag, from who holds it.                                 *)
LEMMA TagCounted == IInv => EachTagOnce
<1> SUFFICES ASSUME IInv, NEW u \in Users, NEW c \in Cards, NEW t \in ReqTags
             PROVE  Cardinality({i \in 1 .. Len(freeTagQ[u][c]) : freeTagQ[u][c][i] = t})
                    + (Cardinality({i \in DOMAIN Holding(u, c) : Holding(u, c)[i] = t})
                       + (IF InPage(u, c) /\ readMetaReg[u].tag = t THEN 1 ELSE 0))
                    = IF init[u][c] \/ t < initCnt[u][c] THEN 1 ELSE 0
  BY DEF EachTagOnce
<1> DEFINE F == {i \in 1 .. Len(freeTagQ[u][c]) : freeTagQ[u][c][i] = t}
           W == {i \in 1 .. Len(outstandingReqQ[u]) : Waiting(u, i, c, t)}
<1>0. /\ Typed /\ HeldOnce /\ FreeOnce /\ FreeOrHeld
  BY DEF IInv
<1>1. {i \in DOMAIN Holding(u, c) : Holding(u, c)[i] = t} = W
  BY DEF Holding, Waiting
<1>2. InPage(u, c) /\ readMetaReg[u].tag = t <=> Current(u, c, t)
  <2>1. readMetaReg[u] \in [card : Cards, tag : ReqTags]
    BY <1>0 DEF Typed, Metas
  <2>2. readMetaReg[u] = [card |-> c, tag |-> t] <=> readMetaReg[u].card = c /\ readMetaReg[u].tag = t
    BY <2>1
  <2> QED
    BY <2>2 DEF InPage, Current
<1>3. Cardinality(F) = IF F = {} THEN 0 ELSE 1
  <2>1. \A i, j \in F : i = j
    BY <1>0 DEF FreeOnce
  <2> QED
    BY <2>1, OneAtMost
<1>4. Cardinality(W) = IF W = {} THEN 0 ELSE 1
  <2>1. \A i, j \in W : i = j
    BY <1>0 DEF HeldOnce
  <2> QED
    BY <2>1, OneAtMost
<1>5. F # {} <=> Free(u, c, t)
  BY DEF Free
<1>6. Current(u, c, t) \/ W # {} <=> Held(u, c, t)
  BY DEF Held
<1>7. ~(Current(u, c, t) /\ W # {})
  BY <1>0 DEF HeldOnce
<1>8. /\ init[u][c] \/ t < initCnt[u][c] <=> Free(u, c, t) \/ Held(u, c, t)
      /\ ~(Free(u, c, t) /\ Held(u, c, t))
  BY <1>0 DEF FreeOrHeld, HandedOut
<1> HIDE DEF F, W
<1>9. PICK x \in {0, 1}, y \in {0, 1}, z \in {0, 1} :
        /\ x = (IF F = {} THEN 0 ELSE 1) /\ y = (IF W = {} THEN 0 ELSE 1)
        /\ z = (IF Current(u, c, t) THEN 1 ELSE 0)
  OBVIOUS
<1>10. x + (y + z) = IF init[u][c] \/ t < initCnt[u][c] THEN 1 ELSE 0
  BY <1>5, <1>6, <1>7, <1>8, <1>9
<1> QED
  BY <1>1, <1>2, <1>3, <1>4, <1>9, <1>10 DEF F

(* A word that is still to come has its place in the buffer of its tag.    *)
LEMMA RoomForWords == IInv => WordsHaveRoom
<1> SUFFICES ASSUME IInv, NEW c \in Cards, NEW cmd \in flash[c]
             PROVE  Len(reorderBufs[UserOf(cmd.tag)][c][ReqTagOf(cmd.tag)]) + PageWords - cmd.beat
                      <= PageWords
  BY DEF WordsHaveRoom
<1>0. Typed /\ KnownTags /\ Slots
  BY DEF IInv
<1>1. PICK u \in Users, t \in ReqTags : cmd.tag = FlashTag(u, t)
  BY <1>0 DEF KnownTags, KnownTag
<1>2. UserOf(cmd.tag) = u /\ ReqTagOf(cmd.tag) = t
  BY <1>1, TagsApart
<1>3. PICK n \in Nat : n = Len(reorderBufs[u][c][t])
  BY <1>0, LenProperties DEF Typed
<1>4. Held(u, c, t)
  BY <1>0, <1>1 DEF Slots, Idle
<1>5. \E d \in Nat : cmd.beat = d + n
  <2>1. CASE Current(u, c, t)
    <3>1. beatCnt[u] \in Nat /\ CurrentSlot(u) /\ readMetaReg[u] = [card |-> c, tag |-> t]
      BY <1>0, <2>1 DEF Current, Slots, Typed
    <3>2. cmd.beat = beatCnt[u] + n
      BY <1>1, <1>3, <3>1 DEF CurrentSlot, Slot
    <3> QED
      BY <3>1, <3>2
  <2>2. CASE \E i \in 1 .. Len(outstandingReqQ[u]) : Waiting(u, i, c, t)
    <3>1. PICK i \in 1 .. Len(outstandingReqQ[u]) : Waiting(u, i, c, t)
      BY <2>2
    <3>2. WaitingSlot(u, i)
      BY <1>0 DEF Slots
    <3>3. cmd.beat = 0 + n
      BY <1>1, <1>3, <3>1, <3>2 DEF WaitingSlot, Slot, Waiting
    <3> QED
      BY <3>3
  <2> QED
    BY <1>4, <2>1, <2>2 DEF Held
<1>6. PageWords \in Nat
  BY FlashReadMultiplexAssumption
<1> QED
  BY <1>2, <1>3, <1>5, <1>6

(* A tag and its buffer belong to one request from getFlashCmd until the   *)
(* last word was given to the user, and readWord never waits.              *)
THEOREM OneOwner == Spec => []BuffersHaveOneOwner
<1>1. IInv => BuffersHaveOneOwner
  BY TagCounted, RoomForWords DEF BuffersHaveOneOwner
<1> QED
  BY <1>1, Invariance, PTL

-----------------------------------------------------------------------------
(* The pages owed to a user, as a sequence.                                *)

(* The pages of requests, one by one.                                      *)
LEMMA PagesTyped ==
  ASSUME NEW q \in Seq(Requests)
  PROVE  /\ PagesOf(q) \in Seq(Pages) /\ Len(PagesOf(q)) = Len(q) /\ Len(q) \in Nat
         /\ \A i \in 1 .. Len(q) : PagesOf(q)[i] = q[i].page
<1>1. Len(q) \in Nat /\ DOMAIN q = 1 .. Len(q)
  OBVIOUS
<1>2. \A i \in 1 .. Len(q) : q[i].page \in Pages
  <2>1. ASSUME NEW r \in Requests PROVE r.page \in Pages
    BY DEF Requests
  <2> QED
    BY <2>1, ElementOfSeq
<1>3. PagesOf(q) = [i \in 1 .. Len(q) |-> q[i].page]
  BY <1>1 DEF PagesOf
<1>4. PagesOf(q) \in Seq(Pages)
  BY <1>1, <1>2, <1>3, IsASeq
<1>5. Len(PagesOf(q)) = Len(q)
  BY <1>1, <1>3, <1>4
<1> QED
  BY <1>1, <1>3, <1>4, <1>5

(* A new request is owed last.                                             *)
LEMMA PagesOfAppend ==
  ASSUME NEW q \in Seq(Requests), NEW r \in Requests
  PROVE  PagesOf(Append(q, r)) = Append(PagesOf(q), r.page)
<1> DEFINE s == PagesOf(Append(q, r))
           a == Append(PagesOf(q), r.page)
<1>1. r.page \in Pages
  BY DEF Requests
<1>2. /\ Append(q, r) \in Seq(Requests) /\ Len(Append(q, r)) = Len(q) + 1 /\ Len(q) \in Nat
      /\ Append(q, r)[Len(q) + 1] = r
      /\ \A i \in 1 .. Len(q) : Append(q, r)[i] = q[i]
  BY Enqueued
<1>3. /\ s \in Seq(Pages) /\ Len(s) = Len(q) + 1
      /\ \A i \in 1 .. Len(q) + 1 : s[i] = Append(q, r)[i].page
  BY <1>2, PagesTyped
<1>4. /\ PagesOf(q) \in Seq(Pages) /\ Len(PagesOf(q)) = Len(q)
      /\ \A i \in 1 .. Len(q) : PagesOf(q)[i] = q[i].page
  BY PagesTyped
<1>5. /\ a \in Seq(Pages) /\ Len(a) = Len(q) + 1 /\ a[Len(q) + 1] = r.page
      /\ \A i \in 1 .. Len(q) : a[i] = PagesOf(q)[i]
  BY <1>1, <1>4, Enqueued
<1>6. \A i \in 1 .. Len(q) + 1 : s[i] = a[i]
  BY <1>2, <1>3, <1>4, <1>5
<1> HIDE DEF s, a
<1>7. s = a
  BY <1>3, <1>5, <1>6, SeqEqual
<1> QED
  BY <1>7 DEF s, a

(* The request that goes first is no longer owed with the others.          *)
LEMMA PagesOfTail ==
  ASSUME NEW q \in Seq(Requests), NotEmpty(q)
  PROVE  /\ PagesOf(Tail(q)) = Tail(PagesOf(q))
         /\ NotEmpty(PagesOf(q)) /\ Head(PagesOf(q)) = q[1].page
<1> DEFINE s == PagesOf(Tail(q))
           p == PagesOf(q)
           a == Tail(PagesOf(q))
<1>1. /\ 1 \in 1 .. Len(q) /\ Tail(q) \in Seq(Requests) /\ Len(q) \in Nat /\ Len(Tail(q)) = Len(q) - 1
      /\ \A i \in 1 .. Len(Tail(q)) : Tail(q)[i] = q[i + 1] /\ i + 1 \in 1 .. Len(q)
  BY Dequeued
<1>2. /\ s \in Seq(Pages) /\ Len(s) = Len(q) - 1
      /\ \A i \in 1 .. Len(q) - 1 : s[i] = Tail(q)[i].page
  BY <1>1, PagesTyped
<1>3. /\ p \in Seq(Pages) /\ Len(p) = Len(q)
      /\ \A i \in 1 .. Len(q) : p[i] = q[i].page
  BY PagesTyped
<1>4. NotEmpty(p) /\ p[1] = q[1].page
  BY <1>1, <1>3 DEF NotEmpty
<1> HIDE DEF p
<1>5. /\ Head(p) = p[1] /\ Tail(p) \in Seq(Pages) /\ Len(Tail(p)) = Len(q) - 1
      /\ \A i \in 1 .. Len(q) - 1 : Tail(p)[i] = p[i + 1]
  BY <1>3, <1>4, Dequeued
<1>6. \A i \in 1 .. Len(q) - 1 : s[i] = Tail(p)[i]
  BY <1>1, <1>2, <1>3, <1>5
<1> HIDE DEF s
<1>7. s = Tail(p)
  BY <1>2, <1>5, <1>6, SeqEqual
<1> QED
  BY <1>4, <1>5, <1>7 DEF s, p

(* What a user is owed while no page is begun, and while one is.           *)
LEMMA OwedValue ==
  ASSUME Typed, NEW u \in Users
  PROVE  /\ PagesOf(outstandingReqQ[u]) \in Seq(Pages)
         /\ beatCnt[u] = 0 => Owed(u) = PagesOf(outstandingReqQ[u])
         /\ beatCnt[u] # 0 => /\ asking[u] \in Pages
                              /\ Owed(u) = <<asking[u]>> \o PagesOf(outstandingReqQ[u])
<1>1. PagesOf(outstandingReqQ[u]) \in Seq(Pages)
  BY PagesTyped DEF Typed
<1>2. beatCnt[u] # 0 => asking[u] \in Pages
  BY DEF Typed
<1> QED
  BY <1>1, <1>2, ConcatEmptySeq DEF Owed

-----------------------------------------------------------------------------
(* The steps, as steps of the promise of whole pages in order.             *)

OwedPages == [u \in Users |-> Owed(u)]

(* After reset nothing is owed.                                            *)
LEMMA StartsInOrder == Init => InOrder!Init
<1> SUFFICES ASSUME Init PROVE InOrder!Init
  OBVIOUS
<1>1. \A u \in Users : outstandingReqQ[u] = <<>> /\ beatCnt[u] = 0
  BY DEF Init
<1>3. Typed
  BY InitIInv DEF IInv
<1>4. \A u \in Users : Owed(u) = PagesOf(outstandingReqQ[u])
  BY <1>1, <1>3, OwedValue
<1>5. PagesOf(<<>>) = <<>>
  BY DEF PagesOf
<1>6. [u \in Users |-> Owed(u)] = [u \in Users |-> <<>>]
  BY <1>1, <1>4, <1>5
<1> QED
  BY <1>6 DEF InOrder!Init, Init

(* What is owed changes only with the requests, the position in the page   *)
(* and the page.                                                           *)
LEMMA OwedKept ==
  ASSUME UNCHANGED <<outstandingReqQ, beatCnt, asking>>
  PROVE  UNCHANGED OwedPages
<1>1. \A u \in Users : Owed(u)' = Owed(u)
  BY DEF Owed
<1> QED
  BY <1>1 DEF OwedPages

(* A request adds the page to those owed.                                  *)
LEMMA RequestAsks ==
  ASSUME IInv, NEW u \in Users, NEW c \in Cards, Request(u, c)
  PROVE  InOrder!Ask(u, <<u, asked[u]>>)
<1>0. Typed /\ Typed'
  BY RequestStep DEF IInv
<1> DEFINE p == <<u, asked[u]>>
<1>1. p \in Pages
  BY <1>0 DEF Typed, Pages
<1>2. PICK t : t = Head(freeTagQ[u][c])
  OBVIOUS
<1>3. /\ NotEmpty(freeTagQ[u][c])
      /\ outstandingReqQ' = [outstandingReqQ EXCEPT ![u] =
           Append(@, [card |-> c, tag |-> t, page |-> p])]
      /\ UNCHANGED <<pageRespQs, beatCnt, asking>>
  BY <1>2 DEF Request, outVars
<1>4. t \in ReqTags
  <2>1. freeTagQ[u][c] \in Seq(ReqTags)
    BY <1>0 DEF Typed
  <2> QED
    BY <1>2, <1>3, <2>1, Dequeued
<1>5. PICK q \in Seq(Requests) : q = outstandingReqQ[u]
  BY <1>0 DEF Typed
<1>6. PICK r \in Requests : r = [card |-> c, tag |-> t, page |-> p]
  BY <1>1, <1>4 DEF Requests
<1> HIDE DEF p
<1>7. r.page = p
  BY <1>6
<1>8. /\ outstandingReqQ'[u] = Append(q, r)
      /\ \A v \in Users : v # u => outstandingReqQ'[v] = outstandingReqQ[v]
  BY <1>0, <1>3, <1>5, <1>6 DEF Typed
<1>9. PagesOf(outstandingReqQ'[u]) = Append(PagesOf(q), p)
  BY <1>5, <1>7, <1>8, PagesOfAppend
<1>10. Owed(u)' = Append(Owed(u), p)
  <2>1. beatCnt'[u] = beatCnt[u] /\ asking'[u] = asking[u]
    BY <1>3
  <2>2. Owed(u)' = (IF beatCnt[u] # 0 THEN <<asking[u]>> ELSE <<>>) \o Append(PagesOf(q), p)
    BY <1>9, <2>1 DEF Owed
  <2>3. PagesOf(q) \in Seq(Pages) /\ Append(PagesOf(q), p) \in Seq(Pages)
    BY <1>1, <1>5, PagesTyped, Enqueued DEF p
  <2>4. CASE beatCnt[u] = 0
    <3>1. Owed(u) = PagesOf(q)
      BY <1>0, <1>5, <2>4, OwedValue
    <3>2. Owed(u)' = Append(PagesOf(q), p)
      BY <2>2, <2>3, <2>4, ConcatEmptySeq
    <3> QED
      BY <3>1, <3>2
  <2>5. CASE beatCnt[u] # 0
    <3>1. asking[u] \in Pages /\ Owed(u) = <<asking[u]>> \o PagesOf(q)
      BY <1>0, <1>5, <2>5, OwedValue
    <3>2. Owed(u)' = <<asking[u]>> \o Append(PagesOf(q), p)
      BY <2>2, <2>5
    <3>3. p \in Pages
      BY <1>1 DEF p
    <3> QED
      BY <2>3, <3>1, <3>2, <3>3, InFront
  <2> QED
    BY <2>4, <2>5
<1>11. \A v \in Users : v # u => Owed(v)' = Owed(v)
  BY <1>3, <1>8 DEF Owed
<1>12. [v \in Users |-> Owed(v)]' = [[v \in Users |-> Owed(v)] EXCEPT ![u] = Append(@, p)]
  BY <1>10, <1>11
<1> QED
  BY <1>3, <1>12 DEF InOrder!Ask, p

(* deqResp gives the user the next word of the page it is owed first.      *)
LEMMA DeqRespAnswers ==
  ASSUME IInv, NEW u \in Users, DeqResp(u)
  PROVE  InOrder!Answer(u)
<1>0. Typed /\ Slots
  BY DEF IInv
<1>1. PICK m \in Metas, p \in Pages : Given(u, m, p) /\ Gives(u, m, p)
  BY <1>0, WordGiven
<1>2. PICK b \in 0 .. PageWords - 1 : b = beatCnt[u]
  BY <1>0 DEF Typed
<1>3. PageWords \in Nat \ {0}
  BY FlashReadMultiplexAssumption
<1>4. PICK q \in Seq(Requests) : q = outstandingReqQ[u]
  BY <1>0 DEF Typed
<1>5. /\ b = 0 => NotEmpty(q) /\ q[1].page = p
      /\ b # 0 => asking[u] = p
  BY <1>1, <1>2, <1>4 DEF Given
<1>6. /\ pageRespQs' = [pageRespQs EXCEPT ![u] = Append(@, [page |-> p, beat |-> b])]
      /\ outstandingReqQ' = IF b = 0 THEN [outstandingReqQ EXCEPT ![u] = Tail(@)]
                            ELSE outstandingReqQ
      /\ asking' = [asking EXCEPT ![u] = IF b = PageWords - 1 THEN NoPage ELSE p]
      /\ beatCnt' = [beatCnt EXCEPT ![u] = IF b = PageWords - 1 THEN 0 ELSE b + 1]
  BY <1>1, <1>2 DEF Gives
<1>7. PICK s \in Seq(Pages) : s = IF b = 0 THEN PagesOf(Tail(q)) ELSE PagesOf(q)
  BY <1>4, <1>5, Dequeued, PagesTyped
<1>8. Owed(u) = <<p>> \o s
  <2>1. CASE b = 0
    <3>1. Owed(u) = PagesOf(q) /\ PagesOf(q) \in Seq(Pages)
      BY <1>0, <1>2, <1>4, <2>1, OwedValue
    <3>2. NotEmpty(PagesOf(q)) /\ Head(PagesOf(q)) = p /\ Tail(PagesOf(q)) = s
      BY <1>4, <1>5, <1>7, <2>1, PagesOfTail
    <3> QED
      BY <3>1, <3>2, FirstAndOthers
  <2>2. CASE b # 0
    BY <1>0, <1>2, <1>4, <1>5, <1>7, <2>2, OwedValue
  <2> QED
    BY <2>1, <2>2
<1>9. Owed(u) # <<>> /\ Head(Owed(u)) = p /\ Tail(Owed(u)) = s
  BY <1>8, InFront
<1>10. /\ outstandingReqQ'[u] = IF b = 0 THEN Tail(q) ELSE q
       /\ asking'[u] = IF b = PageWords - 1 THEN NoPage ELSE p
       /\ beatCnt'[u] = IF b = PageWords - 1 THEN 0 ELSE b + 1
       /\ \A v \in Users : v # u => /\ outstandingReqQ'[v] = outstandingReqQ[v]
                                    /\ asking'[v] = asking[v] /\ beatCnt'[v] = beatCnt[v]
  BY <1>0, <1>2, <1>4, <1>6 DEF Typed
<1>11. PagesOf(outstandingReqQ'[u]) = s
  BY <1>7, <1>10
<1>12. Owed(u)' = IF b = PageWords - 1 THEN s ELSE <<p>> \o s
  <2>1. CASE b = PageWords - 1
    BY <1>7, <1>10, <1>11, <2>1, ConcatEmptySeq DEF Owed
  <2>2. CASE b # PageWords - 1
    <3>1. b + 1 # 0
      BY <1>2, <1>3
    <3> QED
      BY <1>10, <1>11, <2>2, <3>1 DEF Owed
  <2> QED
    BY <2>1, <2>2
<1>13. \A v \in Users : v # u => Owed(v)' = Owed(v)
  BY <1>10 DEF Owed
<1>14. CASE b = PageWords - 1
  <2>1. Owed(u)' = Tail(Owed(u))
    BY <1>9, <1>12, <1>14
  <2>2. [v \in Users |-> Owed(v)]' = [[v \in Users |-> Owed(v)] EXCEPT ![u] = Tail(@)]
    BY <1>13, <2>1
  <2> QED
    BY <1>2, <1>6, <1>9, <1>14, <2>2 DEF InOrder!Answer
<1>15. CASE b # PageWords - 1
  <2>1. Owed(u)' = Owed(u)
    BY <1>8, <1>12, <1>15
  <2>2. [v \in Users |-> Owed(v)]' = [v \in Users |-> Owed(v)]
    BY <1>13, <2>1
  <2> QED
    BY <1>2, <1>6, <1>9, <1>15, <2>2 DEF InOrder!Answer
<1> QED
  BY <1>14, <1>15

(* Every step gives a user the next word it is owed, asks for a page, takes*)
(* an answer or changes nothing of what a user sees.                       *)
LEMMA StepsInOrder ==
  IInv /\ [Next]_vars =>
    [InOrder!Next]_<<[u \in Users |-> Owed(u)], beatCnt, pageRespQs>>
<1> SUFFICES ASSUME IInv, [Next]_vars
             PROVE  InOrder!Next \/ UNCHANGED <<OwedPages, beatCnt, pageRespQs>>
  BY DEF OwedPages
<1>1. ASSUME NEW u \in Users, DeqResp(u) PROVE InOrder!Next
  BY <1>1, DeqRespAnswers DEF InOrder!Next
<1>2. ASSUME NEW u \in Users, NEW c \in Cards, Request(u, c) PROVE InOrder!Next
  <2>1. <<u, asked[u]>> \in Pages
    BY DEF IInv, Typed, Pages
  <2> QED
    BY <1>2, <2>1, RequestAsks DEF InOrder!Next
<1>3. ASSUME NEW u \in Users, Response(u) PROVE InOrder!Next
  <2>1. UNCHANGED <<outstandingReqQ, beatCnt, asking>>
    BY <1>3 DEF Response
  <2>2. UNCHANGED OwedPages
    BY <2>1, OwedKept
  <2>3. pageRespQs[u] # <<>>
    <3>1. pageRespQs[u] \in Seq(Words)
      BY DEF IInv, Typed
    <3> QED
      BY <1>3, <3>1, EmptyIff DEF Response
  <2>4. InOrder!Take(u)
    BY <1>3, <2>2, <2>3 DEF Response, InOrder!Take, OwedPages
  <2> QED
    BY <2>4 DEF InOrder!Next
<1>4. ASSUME NEW u \in Users, NEW c \in Cards, Initialize(u, c)
      PROVE  UNCHANGED <<OwedPages, beatCnt, pageRespQs>>
  BY <1>4, OwedKept DEF Initialize, outVars
<1>5. ASSUME NEW c \in Cards, SendCmd(c)
      PROVE  UNCHANGED <<OwedPages, beatCnt, pageRespQs>>
  BY <1>5, OwedKept DEF SendCmd, outVars
<1>6. ASSUME NEW c \in Cards, NEW cmd \in flash[c], ReadWord(c, cmd)
      PROVE  UNCHANGED <<OwedPages, beatCnt, pageRespQs>>
  BY <1>6, OwedKept DEF ReadWord, outVars
<1>7. CASE UNCHANGED vars
  BY <1>7, OwedKept DEF vars, outVars
<1> QED
  BY <1>1, <1>2, <1>3, <1>4, <1>5, <1>6, <1>7 DEF Next

(* Each user is given whole pages in the order of its requests, whatever   *)
(* the order in which the cards and buses answer.                          *)
THEOREM PagesInOrder == Spec => ImplementsInOrder
<1>1. Init => InOrder!Init
  BY StartsInOrder
<1>2. IInv /\ [Next]_vars => [InOrder!Next]_<<[u \in Users |-> Owed(u)], beatCnt, pageRespQs>>
  BY StepsInOrder
<1> QED
  BY <1>1, <1>2, Invariance, PTL DEF Spec, ImplementsInOrder, InOrder!Spec
=============================================================================
