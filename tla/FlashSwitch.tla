---------------------------- MODULE FlashSwitch -----------------------------
(***************************************************************************)
(* The flash switch (lib/FlashSwitch.bsv): several users share one flash   *)
(* controller.  A command's tag is renamed on the way down, and a response *)
(* is routed back to its user under the original tag.  A read frees its    *)
(* new tag after a page of beats was counted on its bus, a write and an    *)
(* erase with their acknowledgement.                                       *)
(*                                                                         *)
(* Each rule of the switch is an action.  A rule of mkConnection calls a   *)
(* method of the switch and one of its neighbour in one step, so the       *)
(* methods appear here inside the step of the user or of the controller    *)
(* that calls them.  The users and the controller are the environment,     *)
(* modelled by what FlashReadMultiplex, Main.bsv and FlashController.bsv   *)
(* do at these interfaces.  A word of data is abstracted to the command it *)
(* belongs to ("own": a ghost, the user and its original tag).             *)
(***************************************************************************)
EXTENDS RenameTable

CONSTANTS
  Users,      (* the ports 0 .. n-1                                        *)
  OrigTags,   (* the tags a user names its commands with                   *)
  Buses,      (* the flash buses                                           *)
  PageWords   (* beats of a page, 514 in the code                          *)

Entries == [tag : OrigTags, channel : Users, bus : Buses]

ASSUME FlashSwitchAssumption ==
  PageWords \in Nat \ {0} /\ Ports = 0 .. 2 /\ Data = Entries

VARIABLES
  tagRenames,                       (* tagRenames[u][original tag]         *)
  cmdOutputQ, writeWordQ,           (* down to the controller              *)
  flashRespQ0, flashRespQ1, flashRespQ2,          (* up from it            *)
  beatCnts,                         (* beatCnts[bus]                       *)
  readWordQs, writeReqQs, ackStatusQs,            (* per user              *)
  out,                              (* out[u][t]: user u's command t       *)
  ctrl                              (* ctrl[t]: the controller's command t *)

down     == <<cmdOutputQ, writeWordQ, tagRenames>>
flashRespQs == <<flashRespQ0, flashRespQ1, flashRespQ2>>
userQs   == <<readWordQs, writeReqQs, ackStatusQs>>
vars     == <<renameVars, down, flashRespQs, beatCnts, userQs, out, ctrl>>

Idle == [op |-> "NONE", bus |-> Rubbish, st |-> "idle", left |-> 0, own |-> Rubbish]

Put(qs, u, x) == [qs EXCEPT ![u] = Append(@, x)]
Get(qs, u)    == [qs EXCEPT ![u] = Tail(@)]

-----------------------------------------------------------------------------
(* The rules of the switch.                                                *)

StartUp == Initialize /\ UNCHANGED <<down, flashRespQs, beatCnts, userQs, out, ctrl>>

(* A mutant: the page is taken to end one beat early.                      *)
LastBeatOneShort(b) == beatCnts[b] = PageWords - 2

LastBeat(b) == beatCnts[b] = PageWords - 1

HomeTag(e, resp) == e.tag

(* A mutant: only one user's queue is connected.                           *)
DeliverWordToOne(u, w) ==
  readWordQs' = IF u = (CHOOSE v \in Users : TRUE) THEN Put(readWordQs, u, w) ELSE readWordQs

DeliverWord(u, w) == readWordQs' = Put(readWordQs, u, w)

DistReadWord ==
  LET e == RespValue(0)
      w == Head(flashRespQ0) IN
  /\ NotEmpty(flashRespQ0)
  /\ ReadResp(0)
  /\ NotFull(readWordQs[e.channel], MkFIFO)
  /\ DeliverWord(e.channel, [tag |-> HomeTag(e, w), own |-> w.own])
  /\ flashRespQ0' = Tail(flashRespQ0)
  /\ IF LastBeat(e.bus)
     THEN /\ beatCnts' = [beatCnts EXCEPT ![e.bus] = 0]
          /\ InvalidEntry(w.tag)
     ELSE /\ beatCnts' = [beatCnts EXCEPT ![e.bus] = @ + 1]
          /\ UNCHANGED <<freeTagQ, inUse>>
  /\ UNCHANGED <<initCnt, init, tb, down, flashRespQ1, flashRespQ2,
                 writeReqQs, ackStatusQs, out, ctrl>>

DistWriteReq ==
  LET e == RespValue(1)
      q == Head(flashRespQ1) IN
  /\ NotEmpty(flashRespQ1)
  /\ ReadResp(1)
  /\ NotFull(writeReqQs[e.channel], MkFIFO)
  /\ writeReqQs' = Put(writeReqQs, e.channel, [tag |-> HomeTag(e, q), own |-> q.own])
  /\ flashRespQ1' = Tail(flashRespQ1)
  /\ UNCHANGED <<initCnt, init, freeTagQ, tb, inUse, down, flashRespQ0, flashRespQ2,
                 beatCnts, readWordQs, ackStatusQs, out, ctrl>>

DistAckStatus ==
  LET e == RespValue(2)
      a == Head(flashRespQ2) IN
  /\ NotEmpty(flashRespQ2)
  /\ ReadResp(2)
  /\ NotFull(ackStatusQs[e.channel], MkFIFO)
  /\ ackStatusQs' = Put(ackStatusQs, e.channel, [tag |-> HomeTag(e, a), own |-> a.own])
  /\ flashRespQ2' = Tail(flashRespQ2)
  /\ InvalidEntry(a.tag)
  /\ UNCHANGED <<initCnt, init, tb, down, flashRespQ0, flashRespQ1,
                 beatCnts, readWordQs, writeReqQs, out, ctrl>>

-----------------------------------------------------------------------------
(* The users.  A user does not name two commands in flight by one tag.     *)

(* A mutant: the new tag is not noted for the write words to come.         *)
NoteTagNever(u, t) == UNCHANGED tagRenames

NoteTag(u, t) == tagRenames' = [tagRenames EXCEPT ![u][t] = FreeTag]

SendCmd(u, t, op, b) ==
  /\ out[u][t].op = "NONE"
  /\ NotFull(cmdOutputQ, MkFIFO)
  /\ WriteEntry([tag |-> t, channel |-> u, bus |-> b])
  /\ cmdOutputQ' = Append(cmdOutputQ, [op |-> op, bus |-> b, tag |-> FreeTag, own |-> <<u, t>>])
  /\ NoteTag(u, t)
  /\ out' = [out EXCEPT ![u][t] = [op |-> op, got |-> 0, give |-> 0]]
  /\ UNCHANGED <<initCnt, init, readReqQ, writeWordQ, flashRespQs, beatCnts, userQs, ctrl>>

(* A mutant: the word goes down under the user's own tag.                  *)
NewTagSame(u, t) == t

NewTag(u, t) == tagRenames[u][t]

(* The write word finds its new tag in tagRenames.                         *)
WriteWord(u, t) ==
  /\ out[u][t].give > 0
  /\ NotFull(writeWordQ, MkFIFO)
  /\ writeWordQ' = Append(writeWordQ, [tag |-> NewTag(u, t), own |-> <<u, t>>])
  /\ out' = [out EXCEPT ![u][t].give = @ - 1]
  /\ UNCHANGED <<renameVars, cmdOutputQ, tagRenames, flashRespQs, beatCnts, userQs, ctrl>>

Done == [op |-> "NONE", got |-> 0, give |-> 0]

ReadWord(u) ==
  LET t == Head(readWordQs[u]).tag IN
  /\ NotEmpty(readWordQs[u])
  /\ readWordQs' = Get(readWordQs, u)
  /\ out' = [out EXCEPT ![u][t] =
               IF @.got = PageWords - 1 THEN Done ELSE [out[u][t] EXCEPT !.got = @ + 1]]
  /\ UNCHANGED <<renameVars, down, flashRespQs, beatCnts, writeReqQs, ackStatusQs, ctrl>>

WriteDataReq(u) ==
  LET t == Head(writeReqQs[u]).tag IN
  /\ NotEmpty(writeReqQs[u])
  /\ writeReqQs' = Get(writeReqQs, u)
  /\ out' = [out EXCEPT ![u][t].give = PageWords]
  /\ UNCHANGED <<renameVars, down, flashRespQs, beatCnts, readWordQs, ackStatusQs, ctrl>>

AckStatus(u) ==
  LET t == Head(ackStatusQs[u]).tag IN
  /\ NotEmpty(ackStatusQs[u])
  /\ ackStatusQs' = Get(ackStatusQs, u)
  /\ out' = [out EXCEPT ![u][t] = Done]
  /\ UNCHANGED <<renameVars, down, flashRespQs, beatCnts, readWordQs, writeReqQs, ctrl>>

-----------------------------------------------------------------------------
(* The controller.  The pages of one bus are transferred one at a time, in *)
(* either direction; different buses interleave.                           *)

Others(t, op) == {o \in Tags \ {t} : ctrl[o].op = op /\ ctrl[o].bus = ctrl[t].bus}

CtrlSendCmd ==
  LET c == Head(cmdOutputQ) IN
  /\ NotEmpty(cmdOutputQ)
  /\ cmdOutputQ' = Tail(cmdOutputQ)
  /\ ctrl' = [ctrl EXCEPT ![c.tag] =
       [op |-> c.op, bus |-> c.bus, st |-> "accepted", left |-> PageWords, own |-> c.own]]
  /\ UNCHANGED <<renameVars, writeWordQ, tagRenames, flashRespQs, beatCnts, userQs, out>>

CtrlReadWord(t) ==
  /\ ctrl[t].op = "READ"
  /\ \A o \in Others(t, "READ") : ctrl[o].left = PageWords
  /\ NotFull(flashRespQ0, MkFIFO)
  /\ ReadEntry(0, t)
  /\ flashRespQ0' = Append(flashRespQ0, [tag |-> t, own |-> ctrl[t].own])
  /\ ctrl' = [ctrl EXCEPT ![t] = IF @.left = 1 THEN Idle ELSE [ctrl[t] EXCEPT !.left = @ - 1]]
  /\ UNCHANGED <<initCnt, init, freeTagQ, tb, inUse, down, flashRespQ1, flashRespQ2,
                 beatCnts, userQs, out>>

CtrlWriteDataReq(t) ==
  /\ ctrl[t].op = "WRITE" /\ ctrl[t].st = "accepted"
  /\ \A o \in Others(t, "WRITE") : ctrl[o].st # "fetching"
  /\ NotFull(flashRespQ1, MkFIFO)
  /\ ReadEntry(1, t)
  /\ flashRespQ1' = Append(flashRespQ1, [tag |-> t, own |-> ctrl[t].own])
  /\ ctrl' = [ctrl EXCEPT ![t].st = "fetching"]
  /\ UNCHANGED <<initCnt, init, freeTagQ, tb, inUse, down, flashRespQ0, flashRespQ2,
                 beatCnts, userQs, out>>

CtrlWriteWord ==
  LET t == Head(writeWordQ).tag IN
  /\ NotEmpty(writeWordQ)
  /\ writeWordQ' = Tail(writeWordQ)
  /\ ctrl' = [ctrl EXCEPT ![t] = CASE @.st # "fetching" -> @
                                   [] @.left = 1 -> [@ EXCEPT !.left = 0, !.st = "programming"]
                                   [] OTHER -> [ctrl[t] EXCEPT !.left = @ - 1]]
  /\ UNCHANGED <<renameVars, cmdOutputQ, tagRenames, flashRespQs, beatCnts, userQs, out>>

CtrlAckStatus(t) ==
  /\ \/ ctrl[t].op = "WRITE" /\ ctrl[t].st = "programming"
     \/ ctrl[t].op = "ERASE"
  /\ NotFull(flashRespQ2, MkFIFO)
  /\ ReadEntry(2, t)
  /\ flashRespQ2' = Append(flashRespQ2, [tag |-> t, own |-> ctrl[t].own])
  /\ ctrl' = [ctrl EXCEPT ![t] = Idle]
  /\ UNCHANGED <<initCnt, init, freeTagQ, tb, inUse, down, flashRespQ0, flashRespQ1,
                 beatCnts, userQs, out>>

-----------------------------------------------------------------------------
Init ==
  /\ RenameInit
  /\ tagRenames = [u \in Users |-> [t \in OrigTags |-> Rubbish]]
  /\ cmdOutputQ = <<>> /\ writeWordQ = <<>>
  /\ flashRespQ0 = <<>> /\ flashRespQ1 = <<>> /\ flashRespQ2 = <<>>
  /\ beatCnts = [b \in Buses |-> 0]
  /\ readWordQs  = [u \in Users |-> <<>>]
  /\ writeReqQs  = [u \in Users |-> <<>>]
  /\ ackStatusQs = [u \in Users |-> <<>>]
  /\ out  = [u \in Users |-> [t \in OrigTags |-> Done]]
  /\ ctrl = [t \in Tags |-> Idle]

Switch == StartUp \/ DistReadWord \/ DistWriteReq \/ DistAckStatus

UserServes(u) ==
  \/ ReadWord(u) \/ WriteDataReq(u) \/ AckStatus(u)
  \/ \E t \in OrigTags : WriteWord(u, t)

Controller ==
  \/ CtrlSendCmd \/ CtrlWriteWord
  \/ \E t \in Tags : CtrlReadWord(t) \/ CtrlWriteDataReq(t) \/ CtrlAckStatus(t)

Next ==
  \/ Switch \/ Controller
  \/ \E u \in Users : UserServes(u)
  \/ \E u \in Users, t \in OrigTags, b \in Buses, op \in {"READ", "WRITE", "ERASE"} :
       SendCmd(u, t, op, b)

Spec == Init /\ [][Next]_vars

(* Rules fire when they can; users drain their queues and send the words   *)
(* they were asked for; the flash chips finish what they started.          *)
Fairness ==
  /\ WF_vars(StartUp) /\ WF_vars(DistReadWord) /\ WF_vars(DistWriteReq)
  /\ WF_vars(DistAckStatus)
  /\ WF_vars(CtrlSendCmd) /\ WF_vars(CtrlWriteWord)
  /\ \A t \in Tags : /\ SF_vars(CtrlReadWord(t)) /\ SF_vars(CtrlWriteDataReq(t))
                     /\ SF_vars(CtrlAckStatus(t))
  /\ \A u \in Users :
       /\ WF_vars(ReadWord(u)) /\ WF_vars(WriteDataReq(u)) /\ WF_vars(AckStatus(u))
       /\ \A t \in OrigTags : SF_vars(WriteWord(u, t))

FairSpec == Spec /\ Fairness
=============================================================================
