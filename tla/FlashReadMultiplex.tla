------------------------- MODULE FlashReadMultiplex -------------------------
(***************************************************************************)
(* The read multiplexer (lib/FlashReadMultiplex.bsv): several users read   *)
(* pages through one switch per card.  A user's requests get tags of its   *)
(* own, the pages come back in any order and word by word mixed, and a     *)
(* buffer per tag brings them into the order of the requests.              *)
(*                                                                         *)
(* A word is the page and the position it is of, and a page is named by    *)
(* the request that asks for it: a user and a number, modulo ReqMod.       *)
(* Ghosts say what was asked: asked, the number of the next request, the   *)
(* page in outstandingReqQ, and asking, the page of the request in         *)
(* readMetaReg.  The switches and cards are an environment: they answer    *)
(* each command with a page of words.                                      *)
(***************************************************************************)
EXTENDS BsvFifo, FiniteSets

CONSTANTS
  NumUsers, NumCards,  (* nUsers, nSwitches: 2 and 1, or 1 and 1           *)
  ReqPerUser,          (* 32 or 64                                         *)
  PageWords,           (* 514                                              *)
  ReqMod,              (* bound: the requests are numbered modulo ReqMod   *)
  NoPage               (* no page                                          *)

ASSUME FlashReadMultiplexAssumption ==
  /\ NumUsers \in Nat \ {0} /\ NumCards \in Nat \ {0}
  /\ ReqPerUser \in Nat \ {0} /\ PageWords \in Nat \ {0} /\ ReqMod \in Nat \ {0}

VARIABLES
  initCnt, init, freeTagQ,    (* [u][card]                                 *)
  flashReqQs,                 (* [card]                                    *)
  outstandingReqQ,            (* [u]: [card, tag] and the page             *)
  reorderBufs,                (* [u][card][tag]                            *)
  pageRespQs, beatCnt, readMetaReg,   (* [u]                               *)
  asked, asking,              (* [u], ghosts                               *)
  flash                       (* flash[card]: the commands in work         *)

tagVars == <<initCnt, init, freeTagQ>>
outVars == <<pageRespQs, beatCnt, readMetaReg, asking>>
vars == <<tagVars, flashReqQs, outstandingReqQ, reorderBufs, outVars, asked, flash>>

Users   == 0 .. NumUsers - 1
Cards   == 0 .. NumCards - 1
ReqTags == 0 .. ReqPerUser - 1
Pages   == Users \X (0 .. ReqMod - 1)
Words   == [page : Pages, beat : 0 .. PageWords - 1]
Metas   == [card : Cards, tag : ReqTags]

FlashTag(u, reqTag) == reqTag + u * ReqPerUser
ReqTagOf(tag)       == tag % ReqPerUser
UserOf(tag)         == (tag \div ReqPerUser) % NumUsers

Init ==
  /\ initCnt = [u \in Users |-> [c \in Cards |-> 0]]
  /\ init = [u \in Users |-> [c \in Cards |-> FALSE]]
  /\ freeTagQ = [u \in Users |-> [c \in Cards |-> <<>>]]
  /\ flashReqQs = [c \in Cards |-> <<>>]
  /\ outstandingReqQ = [u \in Users |-> <<>>]
  /\ reorderBufs = [u \in Users |-> [c \in Cards |-> [t \in ReqTags |-> <<>>]]]
  /\ pageRespQs = [u \in Users |-> <<>>]
  /\ beatCnt = [u \in Users |-> 0]
  /\ readMetaReg = [u \in Users |-> [card |-> 0, tag |-> 0]]
  /\ asked = [u \in Users |-> 0] /\ asking = [u \in Users |-> NoPage]
  /\ flash = [c \in Cards |-> {}]

Initialize(u, c) ==
  /\ ~init[u][c] /\ NotFull(freeTagQ[u][c], ReqPerUser)
  /\ initCnt' = [initCnt EXCEPT ![u][c] = (@ + 1) % ReqPerUser]
  /\ freeTagQ' = [freeTagQ EXCEPT ![u][c] = Append(@, initCnt[u][c])]
  /\ init' = [init EXCEPT ![u][c] = initCnt[u][c] = ReqPerUser - 1]
  /\ UNCHANGED <<flashReqQs, outstandingReqQ, reorderBufs, outVars, asked, flash>>

(* flashReadServers.request.put                                            *)
Request(u, c) ==
  LET reqTag == Head(freeTagQ[u][c])
      p == <<u, asked[u]>> IN
  /\ NotEmpty(freeTagQ[u][c])
  /\ NotFull(flashReqQs[c], MkFIFO) /\ NotFull(outstandingReqQ[u], ReqPerUser)
  /\ freeTagQ' = [freeTagQ EXCEPT ![u][c] = Tail(@)]
  /\ flashReqQs' = [flashReqQs EXCEPT ![c] = Append(@, [tag |-> FlashTag(u, reqTag), page |-> p])]
  /\ outstandingReqQ' = [outstandingReqQ EXCEPT ![u] =
       Append(@, [card |-> c, tag |-> reqTag, page |-> p])]
  /\ asked' = [asked EXCEPT ![u] = (@ + 1) % ReqMod]
  /\ UNCHANGED <<initCnt, init, reorderBufs, outVars, flash>>

LastBeat(u) == beatCnt[u] >= PageWords - 1

(* A mutant: the request asked for last goes first.                        *)
FirstOutstandingIsLast(u) == outstandingReqQ[u][Len(outstandingReqQ[u])]

FirstOutstanding(u) == Head(outstandingReqQ[u])

(* The request whose page user u is being given.                           *)
CurrentMeta(u) ==
  IF beatCnt[u] = 0 THEN [card |-> FirstOutstanding(u).card, tag |-> FirstOutstanding(u).tag]
  ELSE readMetaReg[u]

NextBeat(b) == IF b < PageWords - 1 THEN b + 1 ELSE 0

DeqResp(u) ==
  /\ beatCnt[u] = 0 => NotEmpty(outstandingReqQ[u])
  /\ LET m == CurrentMeta(u)
         buf == reorderBufs[u][m.card][m.tag] IN
     /\ NotEmpty(buf) /\ NotFull(pageRespQs[u], MkFIFO)
     /\ readMetaReg' = [readMetaReg EXCEPT ![u] = m]
     /\ outstandingReqQ' = IF beatCnt[u] = 0 THEN [outstandingReqQ EXCEPT ![u] = Tail(@)]
                           ELSE outstandingReqQ
     /\ asking' = [asking EXCEPT ![u] =
          IF beatCnt[u] = PageWords - 1 THEN NoPage
          ELSE IF beatCnt[u] = 0 THEN Head(outstandingReqQ[u]).page ELSE @]
     /\ reorderBufs' = [reorderBufs EXCEPT ![u][m.card][m.tag] = Tail(@)]
     /\ pageRespQs' = [pageRespQs EXCEPT ![u] = Append(@, Head(buf))]
     /\ beatCnt' = [beatCnt EXCEPT ![u] = NextBeat(@)]
     /\ IF LastBeat(u)
        THEN /\ NotFull(freeTagQ[u][m.card], ReqPerUser)
             /\ freeTagQ' = [freeTagQ EXCEPT ![u][m.card] = Append(@, m.tag)]
        ELSE UNCHANGED freeTagQ
  /\ UNCHANGED <<initCnt, init, flashReqQs, asked, flash>>

(* flashReadServers.response.get                                           *)
Response(u) ==
  /\ NotEmpty(pageRespQs[u])
  /\ pageRespQs' = [pageRespQs EXCEPT ![u] = Tail(@)]
  /\ UNCHANGED <<tagVars, flashReqQs, outstandingReqQ, reorderBufs, beatCnt, readMetaReg, asked,
                 asking, flash>>

(* flashClient.sendCmd                                                     *)
SendCmd(c) ==
  /\ NotEmpty(flashReqQs[c])
  /\ flashReqQs' = [flashReqQs EXCEPT ![c] = Tail(@)]
  /\ flash' = [flash EXCEPT ![c] = @ \union
       {[tag |-> Head(flashReqQs[c]).tag, page |-> Head(flashReqQs[c]).page, beat |-> 0]}]
  /\ UNCHANGED <<tagVars, outstandingReqQ, reorderBufs, outVars, asked>>

(* A mutant: the words of every tag go to the buffers of the first user.   *)
BufferOfAnyUser(tag) == 0

BufferOf(tag) == UserOf(tag)

(* flashClient.readWord: the card sends the next word of a command.        *)
ReadWord(c, cmd) ==
  LET u == BufferOf(cmd.tag)
      t == ReqTagOf(cmd.tag) IN
  /\ NotFull(reorderBufs[u][c][t], PageWords)
  /\ reorderBufs' = [reorderBufs EXCEPT ![u][c][t] =
       Append(@, [page |-> cmd.page, beat |-> cmd.beat])]
  /\ flash' = [flash EXCEPT ![c] = (@ \ {cmd}) \union
       (IF cmd.beat = PageWords - 1 THEN {} ELSE {[cmd EXCEPT !.beat = @ + 1]})]
  /\ UNCHANGED <<tagVars, flashReqQs, outstandingReqQ, outVars, asked>>

Next ==
  \/ \E u \in Users :
       \/ DeqResp(u) \/ Response(u)
       \/ \E c \in Cards : Initialize(u, c) \/ Request(u, c)
  \/ \E c \in Cards : SendCmd(c) \/ \E cmd \in flash[c] : ReadWord(c, cmd)

Spec == Init /\ [][Next]_vars

(* The rules fire, the users take their answers, and each card goes on     *)
(* with the commands of each user, in any order.                           *)
FairSpec ==
  /\ Spec
  /\ \A u \in Users : WF_vars(DeqResp(u)) /\ WF_vars(Response(u))
  /\ \A c \in Cards : WF_vars(SendCmd(c))
  /\ \A u \in Users, c \in Cards :
       WF_vars(\E cmd \in flash[c] : UserOf(cmd.tag) = u /\ ReadWord(c, cmd))

-----------------------------------------------------------------------------
(* What the read multiplexer guarantees its users and its card.            *)

(* The requests of user u that hold a tag of card c.                       *)
Holding(u, c) ==
  [i \in {j \in 1 .. Len(outstandingReqQ[u]) : outstandingReqQ[u][j].card = c} |->
     outstandingReqQ[u][i].tag]

InPage(u, c) == beatCnt[u] # 0 /\ readMetaReg[u].card = c

(* A tag is on the free list, or held by exactly one request, or not yet   *)
(* handed out by the initialize rule: tags are neither lost nor doubled.   *)
EachTagOnce ==
  \A u \in Users, c \in Cards, t \in ReqTags :
    LET free == Cardinality({i \in 1 .. Len(freeTagQ[u][c]) : freeTagQ[u][c][i] = t})
        held == Cardinality({i \in DOMAIN Holding(u, c) : Holding(u, c)[i] = t})
                + (IF InPage(u, c) /\ readMetaReg[u].tag = t THEN 1 ELSE 0)
    IN free + held = IF init[u][c] \/ t < initCnt[u][c] THEN 1 ELSE 0

(* readWord never waits: the buffer of a tag always has room for the words *)
(* of its command that are still to come, so no page can stop the pages    *)
(* of others in the switch's shared queue.                                 *)
WordsHaveRoom ==
  \A c \in Cards : \A cmd \in flash[c] :
    Len(reorderBufs[UserOf(cmd.tag)][c][ReqTagOf(cmd.tag)]) + PageWords - cmd.beat <= PageWords

(* A tag and its buffer belong to one request from getFlashCmd until the   *)
(* last word was given to the user.                                        *)
BuffersHaveOneOwner == EachTagOnce /\ WordsHaveRoom

PagesOf(s) == [i \in DOMAIN s |-> s[i].page]

(* The pages user u is owed: the one it is being given, then those asked   *)
(* for, in order.                                                          *)
Owed(u) == (IF beatCnt[u] # 0 THEN <<asking[u]>> ELSE <<>>) \o PagesOf(outstandingReqQ[u])

InOrder == INSTANCE InOrderSpec WITH
  owed <- [u \in Users |-> Owed(u)], beat <- beatCnt, resp <- pageRespQs

(* Each user is given whole pages in the order of its requests, whatever   *)
(* the order in which the cards and buses answer (the interface says       *)
(* "in-order request/response per channel").                               *)
ImplementsInOrder == InOrder!Spec

(* Every request is answered: as long as user u is owed a page the next    *)
(* word of it comes, whatever the order in which its pages and those of    *)
(* others come in; a buffer that waits for its turn never keeps out the    *)
(* page that goes first.                                                   *)
RequestsAnswered ==
  \A u \in Users : (outstandingReqQ[u] # <<>> \/ beatCnt[u] # 0) ~> (pageRespQs[u] # <<>>)
=============================================================================
