-------------------------- MODULE FlashSwitch_proofs --------------------------
(***************************************************************************)
(* Proofs about the rename table and about the flash switch that uses it,  *)
(* for every number of users, tags, buses, read ports and words of a page. *)
(* The table: no tag is ever lost, duplicated or handed out twice,         *)
(* returning a tag never blocks, and the entry of a tag in use is stable.  *)
(* The switch: a renamed tag is in use exactly as long as its command is   *)
(* alive, responses and words reach the command and the user they belong   *)
(* to, and the switch keeps the rule of its rename table, so that the      *)
(* theorems about the table hold for the switch.                           *)
(***************************************************************************)
EXTENDS FlashSwitchProperties, QueueLemmas, FiniteSetTheorems, TLAPS

USE DEF MkFIFO

(* The inductive invariant: TagsPartitioned needs the types, and that no   *)
(* tag is in use before the start-up rule is done.                         *)
IInv ==
  /\ RenameTypeOK
  /\ TagsPartitioned
  /\ inUse # {} => init

-----------------------------------------------------------------------------
(* What one queue operation does to a list of distinct tags.               *)

(* Appending a new element keeps a queue free of duplicates.               *)
LEMMA AppendDistinct ==
  ASSUME NEW S, NEW q \in Seq(S), NEW x \in S, x \notin TagsIn(q),
         \A i, j \in 1 .. Len(q) : q[i] = q[j] => i = j
  PROVE  /\ \A i, j \in 1 .. Len(Append(q, x)) :
              Append(q, x)[i] = Append(q, x)[j] => i = j
         /\ TagsIn(Append(q, x)) = TagsIn(q) \union {x}
<1> DEFINE r == Append(q, x)
<1>1. Len(r) = Len(q) + 1 /\ Len(q) \in Nat
  OBVIOUS
<1>2. \A i \in 1 .. Len(q) : r[i] = q[i]
  OBVIOUS
<1>3. r[Len(q) + 1] = x
  OBVIOUS
<1>4. \A i \in 1 .. Len(q) : r[i] # x
  BY <1>2 DEF TagsIn
<1>5. \A i, j \in 1 .. Len(r) : r[i] = r[j] => i = j
  <2> SUFFICES ASSUME NEW i \in 1 .. Len(r), NEW j \in 1 .. Len(r), r[i] = r[j]
               PROVE  i = j
    OBVIOUS
  <2>1. CASE i \in 1 .. Len(q) /\ j \in 1 .. Len(q)
    BY <2>1, <1>2
  <2>2. CASE i = Len(q) + 1 \/ j = Len(q) + 1
    BY <2>2, <1>1, <1>3, <1>4
  <2> QED
    BY <2>1, <2>2, <1>1
<1>6. TagsIn(r) = TagsIn(q) \union {x}
  BY <1>1, <1>2, <1>3 DEF TagsIn
<1> QED
  BY <1>5, <1>6

(* Removing the head keeps a queue free of duplicates, and removes the head. *)
LEMMA TailDistinct ==
  ASSUME NEW S, NEW q \in Seq(S), Len(q) > 0,
         \A i, j \in 1 .. Len(q) : q[i] = q[j] => i = j
  PROVE  /\ Head(q) \in TagsIn(q)
         /\ Tail(q) \in Seq(S)
         /\ \A i, j \in 1 .. Len(Tail(q)) : Tail(q)[i] = Tail(q)[j] => i = j
         /\ TagsIn(Tail(q)) = TagsIn(q) \ {Head(q)}
<1> DEFINE r == Tail(q)
<1>1. Len(r) = Len(q) - 1 /\ Len(q) \in Nat /\ r \in Seq(S)
  OBVIOUS
<1>2. \A i \in 1 .. Len(r) : r[i] = q[i + 1] /\ i + 1 \in 2 .. Len(q)
  BY <1>1
<1>3. Head(q) = q[1] /\ 1 \in 1 .. Len(q)
  OBVIOUS
<1>4. \A i, j \in 1 .. Len(r) : r[i] = r[j] => i = j
  BY <1>1, <1>2
<1>5. TagsIn(r) = TagsIn(q) \ {Head(q)}
  <2>1. ASSUME NEW y \in TagsIn(r) PROVE y \in TagsIn(q) /\ y # Head(q)
    BY <1>1, <1>2, <1>3 DEF TagsIn
  <2>2. ASSUME NEW y \in TagsIn(q), y # Head(q) PROVE y \in TagsIn(r)
    <3>1. PICK i \in 1 .. Len(q) : y = q[i]
      BY DEF TagsIn
    <3>2. i # 1
      BY <2>2, <3>1, <1>3
    <3>3. i - 1 \in 1 .. Len(r) /\ r[i - 1] = q[i]
      BY <3>2, <1>1, <1>2
    <3> QED
      BY <3>1, <3>3 DEF TagsIn
  <2> QED
    BY <2>1, <2>2
<1> QED
  BY <1>1, <1>3, <1>4, <1>5 DEF TagsIn

-----------------------------------------------------------------------------
(* Every step keeps the inductive invariant.                               *)

(* The table as the module initialises it: every tag in the free queue once. *)
LEMMA InitIInv == RenameInit => IInv
<1> SUFFICES ASSUME RenameInit PROVE IInv
  OBVIOUS
<1>1. RenameTypeOK
  BY RenameTableAssumption DEF RenameInit, RenameTypeOK, Tags
<1>2. TagsPartitioned
  BY DEF RenameInit, TagsPartitioned, FreeTagsDistinct, TagsIn, Issued
<1> QED
  BY <1>1, <1>2 DEF IInv, RenameInit

(* Every rename and every un-rename keeps the invariant.                   *)
LEMMA StepIInv == IInv /\ [RenameNext]_renameVars => IInv'
<1> SUFFICES ASSUME IInv, [RenameNext]_renameVars PROVE IInv'
  OBVIOUS
<1> USE RenameTableAssumption DEF IInv
<1>1. CASE Initialize
  <2>1. inUse = {} /\ ~init /\ Issued = 0 .. (initCnt - 1) /\ initCnt \in Tags
    BY <1>1 DEF Initialize, Issued, RenameTypeOK
  <2>2. initCnt \notin TagsIn(freeTagQ) /\ freeTagQ \in Seq(Tags)
    BY <2>1 DEF TagsPartitioned, Tags, RenameTypeOK
  <2>3. /\ FreeTagsDistinct'
        /\ TagsIn(freeTagQ') = TagsIn(freeTagQ) \union {initCnt}
    <3>1. \A i, j \in 1 .. Len(freeTagQ) : freeTagQ[i] = freeTagQ[j] => i = j
      BY DEF TagsPartitioned, FreeTagsDistinct
    <3>2. freeTagQ' = Append(freeTagQ, initCnt) /\ initCnt \in Tags
      BY <1>1, <2>1 DEF Initialize
    <3> HIDE DEF IInv
    <3> QED
      <4> DEFINE r == Append(freeTagQ, initCnt)
      <4>1. /\ \A i, j \in 1 .. Len(r) : r[i] = r[j] => i = j
            /\ TagsIn(r) = TagsIn(freeTagQ) \union {initCnt}
        BY <2>2, <3>1, <3>2, AppendDistinct
      <4>2. TagsIn(freeTagQ)' = TagsIn(r)
        BY <3>2 DEF TagsIn
      <4>3. FreeTagsDistinct'
        BY <3>2, <4>1 DEF FreeTagsDistinct
      <4> QED
        BY <3>2, <4>1, <4>2, <4>3
  <2>4. Issued' = Issued \union {initCnt}
    <3>1. CASE initCnt = NumTags - 1
      <4>1. init'
        BY <3>1, <1>1 DEF Initialize
      <4>2. Issued' = Tags
        BY <4>1 DEF Issued, Tags
      <4> QED
        BY <3>1, <4>2, <2>1 DEF Tags
    <3>2. CASE initCnt # NumTags - 1
      <4>1. (initCnt + 1) % NumTags = initCnt + 1
        BY <3>2, <2>1 DEF Tags
      <4>2. ~init' /\ initCnt' = initCnt + 1
        BY <3>2, <4>1, <1>1 DEF Initialize
      <4> QED
        BY <3>2, <4>1, <4>2, <2>1 DEF Issued, Tags
    <3> QED
      BY <3>1, <3>2
  <2>5. TagsPartitioned'
    BY <1>1, <2>1, <2>3, <2>4 DEF Initialize, TagsPartitioned, TagsIn
  <2>6. RenameTypeOK'
    <3>1. (initCnt + 1) % NumTags \in Tags
      BY <2>1 DEF Tags
    <3> QED
      BY <1>1, <2>1, <3>1 DEF Initialize, RenameTypeOK
  <2> QED
    BY <1>1, <2>1, <2>5, <2>6 DEF Initialize
<1>2. CASE TakeTag
  <2>1. PICK d \in Data : WriteEntry(d) /\ UNCHANGED <<initCnt, init, readReqQ>>
    BY <1>2 DEF TakeTag
  <2>2. freeTagQ \in Seq(Tags) /\ Len(freeTagQ) > 0
    BY <2>1 DEF WriteEntry, NotEmpty, RenameTypeOK
  <2>3. /\ FreeTag \in TagsIn(freeTagQ)
        /\ freeTagQ' \in Seq(Tags)
        /\ FreeTagsDistinct'
        /\ TagsIn(freeTagQ') = TagsIn(freeTagQ) \ {FreeTag}
    <3>1. \A i, j \in 1 .. Len(freeTagQ) : freeTagQ[i] = freeTagQ[j] => i = j
      BY DEF TagsPartitioned, FreeTagsDistinct
    <3>2. freeTagQ' = Tail(freeTagQ) /\ FreeTag = Head(freeTagQ)
      BY <2>1 DEF WriteEntry, FreeTag
    <3> HIDE DEF IInv
    <3> QED
      <4>1. /\ Head(freeTagQ) \in TagsIn(freeTagQ)
            /\ Tail(freeTagQ) \in Seq(Tags)
            /\ \A i, j \in 1 .. Len(Tail(freeTagQ)) :
                  Tail(freeTagQ)[i] = Tail(freeTagQ)[j] => i = j
            /\ TagsIn(Tail(freeTagQ)) = TagsIn(freeTagQ) \ {Head(freeTagQ)}
        BY <2>2, <3>1, TailDistinct
      <4>2. TagsIn(freeTagQ)' = TagsIn(Tail(freeTagQ))
        BY <3>2 DEF TagsIn
      <4>3. FreeTagsDistinct'
        BY <3>2, <4>1 DEF FreeTagsDistinct
      <4> QED
        BY <3>2, <4>1, <4>2, <4>3
  <2>4. FreeTag \in Tags
    BY <2>2 DEF FreeTag
  <2>5. RenameTypeOK'
    BY <2>1, <2>3, <2>4 DEF WriteEntry, RenameTypeOK
  <2>6. TagsPartitioned'
    BY <2>1, <2>3 DEF WriteEntry, TagsPartitioned, Issued, TagsIn
  <2> QED
    BY <2>1, <2>5, <2>6 DEF WriteEntry
<1>3. CASE RequestEntry
  <2>1. PICK p \in Ports, tag \in inUse :
          ReadEntry(p, tag) /\ UNCHANGED <<initCnt, init, freeTagQ, tb, inUse>>
    BY <1>3 DEF RequestEntry
  <2>2. RenameTypeOK'
    BY <2>1 DEF ReadEntry, RenameTypeOK
  <2> QED
    BY <2>1, <2>2 DEF TagsPartitioned, FreeTagsDistinct, TagsIn, Issued
<1>4. CASE ReadEntryValue
  <2>1. PICK p \in Ports : ReadResp(p) /\ UNCHANGED <<initCnt, init, freeTagQ, tb, inUse>>
    BY <1>4 DEF ReadEntryValue
  <2>2. RenameTypeOK'
    BY <2>1 DEF ReadResp, NotEmpty, RenameTypeOK
  <2> QED
    BY <2>1, <2>2 DEF TagsPartitioned, FreeTagsDistinct, TagsIn, Issued
<1>5. CASE ReadAndReturn
  <2>1. PICK p \in Ports, tag \in inUse :
          ReadResp(p) /\ InvalidEntry(tag) /\ UNCHANGED <<initCnt, init, tb>>
    BY <1>5 DEF ReadAndReturn
  <2>2. tag \in Tags /\ tag \notin TagsIn(freeTagQ) /\ freeTagQ \in Seq(Tags)
    BY DEF RenameTypeOK, TagsPartitioned
  <2>3. /\ FreeTagsDistinct'
        /\ TagsIn(freeTagQ') = TagsIn(freeTagQ) \union {tag}
    <3>1. \A i, j \in 1 .. Len(freeTagQ) : freeTagQ[i] = freeTagQ[j] => i = j
      BY DEF TagsPartitioned, FreeTagsDistinct
    <3>2. freeTagQ' = Append(freeTagQ, tag)
      BY <2>1 DEF InvalidEntry
    <3> HIDE DEF IInv
    <3> QED
      <4> DEFINE r == Append(freeTagQ, tag)
      <4>1. /\ \A i, j \in 1 .. Len(r) : r[i] = r[j] => i = j
            /\ TagsIn(r) = TagsIn(freeTagQ) \union {tag}
        BY <2>2, <3>1, <3>2, AppendDistinct
      <4>2. TagsIn(freeTagQ)' = TagsIn(r)
        BY <3>2 DEF TagsIn
      <4>3. FreeTagsDistinct'
        BY <3>2, <4>1 DEF FreeTagsDistinct
      <4> QED
        BY <3>2, <4>1, <4>2, <4>3
  <2>4. RenameTypeOK'
    BY <2>1, <2>2 DEF ReadResp, InvalidEntry, NotEmpty, RenameTypeOK
  <2>5. TagsPartitioned'
    BY <2>1, <2>3 DEF InvalidEntry, TagsPartitioned, Issued, TagsIn
  <2> QED
    BY <2>1, <2>4, <2>5 DEF InvalidEntry
<1>6. CASE UNCHANGED renameVars
  BY <1>6 DEF renameVars, RenameTypeOK, TagsPartitioned, FreeTagsDistinct, TagsIn, Issued
<1> QED
  BY <1>1, <1>2, <1>3, <1>4, <1>5, <1>6 DEF RenameNext

-----------------------------------------------------------------------------
(* In every reachable state of the rename table the registers have their   *)
(* types, for any number of tags.                                          *)
THEOREM TypesCorrect == RenameSpec => []RenameTypeOK
<1>1. RenameInit => IInv
  BY InitIInv
<1>2. IInv /\ [RenameNext]_renameVars => IInv'
  BY StepIInv
<1>3. IInv => RenameTypeOK
  BY DEF IInv
<1> QED
  BY <1>1, <1>2, <1>3, PTL DEF RenameSpec

(* writeEntry and invalidEntry conserve the tags: each is free exactly     *)
(* once or in use, never both, never lost.                                 *)
THEOREM TagsConserved == RenameSpec => []TagsPartitioned
<1>1. RenameInit => IInv
  BY InitIInv
<1>2. IInv /\ [RenameNext]_renameVars => IInv'
  BY StepIInv
<1>3. IInv => TagsPartitioned
  BY DEF IInv
<1> QED
  BY <1>1, <1>2, <1>3, PTL DEF RenameSpec

(* A list of distinct tags that leaves out a tag is shorter than NumTags.  *)
LEMMA RoomForOneMore ==
  ASSUME RenameTypeOK, TagsPartitioned, inUse # {}
  PROVE  Len(freeTagQ) < NumTags
<1> DEFINE n == Len(freeTagQ)
<1>1. freeTagQ \in Seq(Tags) /\ n \in Nat /\ inUse \subseteq Tags
  BY DEF RenameTypeOK
<1>2. PICK t \in Tags : t \notin TagsIn(freeTagQ)
  BY <1>1 DEF TagsPartitioned
<1>3. freeTagQ \in Injection(1 .. n, Tags \ {t})
  BY <1>1, <1>2 DEF Injection, IsInjective, TagsIn, TagsPartitioned, FreeTagsDistinct
<1>4. IsFiniteSet(Tags) /\ Cardinality(Tags) = NumTags
  BY FS_Interval, RenameTableAssumption DEF Tags
<1>5. IsFiniteSet(Tags \ {t}) /\ Cardinality(Tags \ {t}) = NumTags - 1
  BY <1>2, <1>4, FS_RemoveElement
<1>6. Cardinality(1 .. n) <= Cardinality(Tags \ {t})
  BY <1>3, <1>5, FS_Injection
<1>7. Cardinality(1 .. n) = n
  <2>1. n \in Nat
    BY <1>1
  <2> HIDE DEF n
  <2>2. Cardinality(1 .. n) = IF 1 > n THEN 0 ELSE n - 1 + 1
    BY <2>1, FS_Interval
  <2> QED
    BY <2>1, <2>2
<1> QED
  BY <1>1, <1>5, <1>6, <1>7, RenameTableAssumption

(* invalidEntry is never blocked by a full free list: whenever some tag is *)
(* in use there is room in freeTagQ.                                       *)
THEOREM ReturnIsFree == RenameSpec => []ReturnNeverBlocks
<1>1. RenameInit => IInv
  BY InitIInv
<1>2. IInv /\ [RenameNext]_renameVars => IInv'
  BY StepIInv
<1>3. IInv => ReturnNeverBlocks
  BY RoomForOneMore DEF IInv, ReturnNeverBlocks, NotFull
<1> QED
  BY <1>1, <1>2, <1>3, PTL DEF RenameSpec

(* writeEntry never touches the entry of a tag that is in use, so each     *)
(* response finds the entry its own command stored.                        *)
THEOREM EntriesAreStable == RenameSpec => EntriesStable
<1> DEFINE A == /\ \A t \in inUse : tb'[t] = tb[t]
                /\ \A t \in Tags : tb'[t] # tb[t] => t \in inUse'
<1>1. IInv /\ [RenameNext]_renameVars => [A]_renameVars
  <2> SUFFICES ASSUME IInv, RenameNext PROVE A
    OBVIOUS
  <2>1. CASE TakeTag
    <3>1. PICK d \in Data : WriteEntry(d) /\ UNCHANGED <<initCnt, init, readReqQ>>
      BY <2>1 DEF TakeTag
    <3>2. freeTagQ \in Seq(Tags) /\ Len(freeTagQ) > 0 /\ tb \in [Tags -> Data \union {Rubbish}]
      BY <3>1 DEF WriteEntry, NotEmpty, IInv, RenameTypeOK
    <3>3. FreeTag \in TagsIn(freeTagQ)
      BY <3>2, TailDistinct DEF FreeTag, IInv, TagsPartitioned, FreeTagsDistinct
    <3>4. FreeTag \notin inUse
      BY <3>3 DEF IInv, TagsPartitioned
    <3> QED
      BY <3>1, <3>2, <3>4 DEF WriteEntry, IInv, RenameTypeOK
  <2>2. CASE Initialize \/ RequestEntry \/ ReadEntryValue \/ ReadAndReturn
    BY <2>2 DEF Initialize, RequestEntry, ReadEntryValue, ReadAndReturn
  <2> QED
    BY <2>1, <2>2 DEF RenameNext
<1>2. RenameInit => IInv
  BY InitIInv
<1>3. IInv /\ [RenameNext]_renameVars => IInv'
  BY StepIInv
<1> QED
  BY <1>1, <1>2, <1>3, PTL DEF RenameSpec, EntriesStable

-----------------------------------------------------------------------------
(* The flash switch.                                                       *)

Cmds     == [op : Ops, bus : Buses, tag : Tags, own : Owns]
Items    == [tag : Tags, own : Owns]
Answers  == [tag : OrigTags, own : Owns]
Works    == {Idle} \union [op : Ops, bus : Buses, st : {"accepted", "fetching", "programming"},
                           left : 0 .. PageWords, own : Owns]
Outs     == [op : Ops \union {"NONE"}, got : 0 .. PageWords, give : 0 .. PageWords]

Typed ==
  /\ RenameTypeOK
  /\ tagRenames \in [Users -> [OrigTags -> Tags \union {Rubbish}]]
  /\ cmdOutputQ \in Seq(Cmds) /\ writeWordQ \in Seq(Items)
  /\ flashRespQ0 \in Seq(Items) /\ flashRespQ1 \in Seq(Items) /\ flashRespQ2 \in Seq(Items)
  /\ beatCnts \in [Buses -> 0 .. PageWords - 1]
  /\ readWordQs \in [Users -> Seq(Answers)] /\ writeReqQs \in [Users -> Seq(Answers)]
  /\ ackStatusQs \in [Users -> Seq(Answers)]
  /\ out \in [Users -> [OrigTags -> Outs]]
  /\ ctrl \in [Tags -> Works]

-----------------------------------------------------------------------------
(* The life of a command, under its renamed tag and at its user.           *)

Owned(n, u, t) == tb[n].channel = u /\ tb[n].tag = t

(* How many elements of a queue carry tag n.                               *)
Count(q, n) == Cardinality({i \in 1 .. Len(q) : q[i].tag = n})

TagView(n) ==
  [at |-> ctrl[n], cmds |-> Count(cmdOutputQ, n), sent |-> Count(writeWordQ, n),
   words |-> Count(flashRespQ0, n), reqs |-> Count(flashRespQ1, n),
   acks |-> Count(flashRespQ2, n)]

UserView(u, t) ==
  [out |-> out[u][t], words |-> Count(readWordQs[u], t), reqs |-> Count(writeReqQs[u], t),
   acks |-> Count(ackStatusQs[u], t)]

Nowhere(a) ==
  a.at = Idle /\ a.cmds = 0 /\ a.sent = 0 /\ a.words = 0 /\ a.reqs = 0 /\ a.acks = 0

(* Words of a page that the controller has not sent.                       *)
Unread(work) == IF work.op = "READ" THEN work.left ELSE 0

(* Words of a page read under tag n that have not been distributed.        *)
ToCome(n) == Unread(ctrl[n]) + Count(flashRespQ0, n)

(* The user has seen nothing of its command.                               *)
Unseen(v) == v.out.got = 0 /\ v.out.give = 0 /\ v.words = 0 /\ v.reqs = 0 /\ v.acks = 0

Waiting(a, v) ==
  /\ a.at = Idle /\ a.cmds = 1 /\ a.sent = 0 /\ a.words = 0 /\ a.reqs = 0 /\ a.acks = 0
  /\ v.out.op \in Ops /\ Unseen(v)

Reading(a, v) ==
  /\ a.at = Idle \/ (a.at.op = "READ" /\ a.at.left > 0)
  /\ a.cmds = 0 /\ a.sent = 0 /\ a.reqs = 0 /\ a.acks = 0
  /\ Unread(a.at) + a.words > 0
  /\ v.out.op = "READ" /\ v.out.give = 0 /\ v.reqs = 0 /\ v.acks = 0
  /\ v.out.got + v.words + Unread(a.at) + a.words = PageWords

(* From accepted to programming: the request for the page goes up, then    *)
(* its words come down.                                                    *)
Writing(a, v) ==
  /\ a.at.op = "WRITE" /\ a.cmds = 0 /\ a.words = 0 /\ a.acks = 0
  /\ v.out.op = "WRITE" /\ v.out.got = 0 /\ v.words = 0 /\ v.acks = 0
  /\ \/ /\ a.at.st = "accepted" /\ a.at.left = PageWords
        /\ a.sent = 0 /\ a.reqs = 0 /\ v.reqs = 0 /\ v.out.give = 0
     \/ /\ a.at.st = "fetching" /\ a.at.left = PageWords
        /\ a.sent = 0 /\ a.reqs + v.reqs = 1 /\ v.out.give = 0
     \/ /\ a.at.st = "fetching" /\ a.at.left > 0
        /\ a.at.left = a.sent + v.out.give /\ a.reqs = 0 /\ v.reqs = 0
     \/ /\ a.at.st = "programming"
        /\ a.sent = 0 /\ a.reqs = 0 /\ v.reqs = 0 /\ v.out.give = 0

Erasing(a, v) ==
  /\ a.at.op = "ERASE" /\ a.cmds = 0 /\ a.sent = 0 /\ a.words = 0 /\ a.reqs = 0 /\ a.acks = 0
  /\ v.out.op = "ERASE" /\ Unseen(v)

Answering(a, v) ==
  /\ a.at = Idle /\ a.cmds = 0 /\ a.sent = 0 /\ a.words = 0 /\ a.reqs = 0 /\ a.acks = 1
  /\ v.out.op \in {"WRITE", "ERASE"} /\ Unseen(v)

Phase(a, v) ==
  Waiting(a, v) \/ Reading(a, v) \/ Writing(a, v) \/ Erasing(a, v) \/ Answering(a, v)

(* A user's tag without a command in the switch: it waits for nothing, for *)
(* words that are all in its queue, or for an acknowledgement there.       *)
Resting(v) ==
  /\ v.reqs = 0 /\ v.out.give = 0
  /\ \/ v.out = Done /\ v.words = 0 /\ v.acks = 0
     \/ v.out.op = "READ" /\ v.acks = 0 /\ v.words > 0 /\ v.out.got + v.words = PageWords
     \/ v.out.op \in {"WRITE", "ERASE"} /\ v.out.got = 0 /\ v.words = 0 /\ v.acks = 1

(* A renamed tag in use and its owner are in one of the phases, a free tag *)
(* is nowhere, and what has no command in the switch rests.                *)
Lives ==
  /\ \A n \in inUse, u \in Users, t \in OrigTags :
       Owned(n, u, t) => Phase(TagView(n), UserView(u, t))
  /\ \A n \in Tags \ inUse : Nowhere(TagView(n))
  /\ \A u \in Users, t \in OrigTags :
       (\A n \in inUse : ~Owned(n, u, t)) => Resting(UserView(u, t))

(* A tag in use has an entry, and tagRenames leads from its owner to it.   *)
Renamed ==
  \A n \in inUse :
    /\ tb[n] \in Entries
    /\ \A u \in Users, t \in OrigTags : Owned(n, u, t) => tagRenames[u][t] = n

(* What goes by a renamed tag belongs to the owner of the tag.             *)
Belonging == {x \in Items : x.own = <<tb[x.tag].channel, tb[x.tag].tag>>}

AllBelong ==
  /\ writeWordQ \in Seq(Belonging) /\ flashRespQ0 \in Seq(Belonging)
  /\ flashRespQ1 \in Seq(Belonging) /\ flashRespQ2 \in Seq(Belonging)
  /\ \A n \in Tags : ctrl[n] # Idle =>
       ctrl[n].own = <<tb[n].channel, tb[n].tag>> /\ ctrl[n].bus = tb[n].bus

(* A command on its way down is the one its entry and its user tell.       *)
CmdFits(c) ==
  \E u \in Users, t \in OrigTags :
    /\ Owned(c.tag, u, t) /\ c.own = <<u, t>> /\ c.bus = tb[c.tag].bus /\ c.op = out[u][t].op

CmdsFit == \A i \in 1 .. Len(cmdOutputQ) : CmdFits(cmdOutputQ[i])

(* What waits for a user was sent by it, under the tag it now has.         *)
Own(u) == {r \in Answers : r.own = <<u, r.tag>>}

AnswerQs == [Users -> Seq(Answers)]

HomeQs == {qs \in AnswerQs : \A u \in Users : qs[u] \in Seq(Own(u))}

AllHome == readWordQs \in HomeQs /\ writeReqQs \in HomeQs /\ ackStatusQs \in HomeQs

(* The entries asked for on a port are those of the queue beside it.       *)
SameTags(r, q) == Len(r) = Len(q) /\ \A i \in 1 .. Len(q) : r[i] = q[i].tag

PortsFollow ==
  /\ SameTags(readReqQ[0], flashRespQ0) /\ SameTags(readReqQ[1], flashRespQ1)
  /\ SameTags(readReqQ[2], flashRespQ2)

-----------------------------------------------------------------------------
(* The pages read from a bus, word by word.                                *)

SameBus(n, m) == tb[n].bus = tb[m].bus

(* Of the other pages of the bus of a word, each lies wholly before the    *)
(* word or wholly behind it.                                               *)
PagesApart ==
  \A j \in 1 .. Len(flashRespQ0), n \in Tags :
    (ToCome(n) > 0 /\ n # flashRespQ0[j].tag /\ SameBus(n, flashRespQ0[j].tag)) =>
      \/ Unread(ctrl[n]) = 0 /\ \A k \in 1 .. Len(flashRespQ0) : flashRespQ0[k].tag = n => k < j
      \/ ToCome(n) = PageWords /\ \A k \in 1 .. Len(flashRespQ0) : flashRespQ0[k].tag = n => k > j

Begun(n) == ToCome(n) > 0 /\ ToCome(n) < PageWords

(* beatCnts counts the words of the one page that has begun on a bus.      *)
BeatsCounted ==
  /\ \A n \in Tags : Begun(n) =>
       /\ beatCnts[tb[n].bus] = PageWords - ToCome(n)
       /\ \A m \in Tags \ {n} : Begun(m) => ~SameBus(n, m)
  /\ \A b \in Buses : beatCnts[b] # 0 => \E n \in Tags : Begun(n) /\ tb[n].bus = b

(* The inductive invariant.                                                *)
Parts ==
  /\ Typed /\ Lives /\ Renamed /\ AllBelong /\ CmdsFit /\ AllHome
  /\ PortsFollow /\ PagesApart /\ BeatsCounted

SwitchInv == IInv /\ Parts

-----------------------------------------------------------------------------
(* Counting the elements of a queue that carry a tag.                      *)

(* The count is zero when no element carries the tag.                      *)
LEMMA Counts ==
  ASSUME NEW S, NEW q \in Seq(S), NEW n
  PROVE  /\ Count(q, n) \in Nat
         /\ Count(q, n) = 0 <=> \A i \in 1 .. Len(q) : q[i].tag # n
<1> DEFINE A == {x \in S : x.tag = n}
           P == {i \in 1 .. Len(q) : q[i].tag = n}
<1>1. P = {i \in 1 .. Len(q) : q[i] \in A}
  OBVIOUS
<1>2. IsFiniteSet(P)
  BY <1>1, CountIsNat
<1>3. Cardinality(P) \in Nat /\ (Cardinality(P) = 0 <=> P = {})
  BY <1>2, FS_CardinalityType, FS_EmptySet
<1> QED
  BY <1>3 DEF Count

(* The count as one of elements of a set.                                  *)
LEMMA CountAsIn ==
  ASSUME NEW S, NEW q \in Seq(S), NEW n
  PROVE  Count(q, n) = CountIn(q, {x \in S : x.tag = n})
<1>1. {i \in 1 .. Len(q) : q[i].tag = n} = {i \in 1 .. Len(q) : q[i] \in {x \in S : x.tag = n}}
  OBVIOUS
<1> QED
  BY <1>1 DEF Count, CountIn

(* An element put into a queue counts under its tag.                       *)
LEMMA CountPut ==
  ASSUME NEW S, NEW q \in Seq(S), NEW x \in S, NEW n
  PROVE  Count(Append(q, x), n) = IF x.tag = n THEN Count(q, n) + 1 ELSE Count(q, n)
<1> DEFINE A == {y \in S : y.tag = n}
<1>1. Append(q, x) \in Seq(S)
  OBVIOUS
<1>2. Count(q, n) = CountIn(q, A) /\ Count(Append(q, x), n) = CountIn(Append(q, x), A)
  BY <1>1, CountAsIn
<1>3. CountIn(Append(q, x), A) = CountIn(q, A) + (IF x \in A THEN 1 ELSE 0)
  BY CountEnqueued
<1>4. x \in A <=> x.tag = n
  OBVIOUS
<1>5. Count(q, n) \in Nat
  BY Counts
<1> HIDE DEF A
<1> QED
  BY <1>2, <1>3, <1>4, <1>5

(* The element taken from a queue no longer counts.                        *)
LEMMA CountGet ==
  ASSUME NEW S, NEW q \in Seq(S), NotEmpty(q), NEW n
  PROVE  /\ Count(Tail(q), n) = IF Head(q).tag = n THEN Count(q, n) - 1 ELSE Count(q, n)
         /\ Head(q).tag = n => Count(q, n) > 0
<1> DEFINE A == {y \in S : y.tag = n}
<1>1. Tail(q) \in Seq(S) /\ Head(q) \in S
  BY Dequeued
<1>2. Count(q, n) = CountIn(q, A) /\ Count(Tail(q), n) = CountIn(Tail(q), A)
  BY <1>1, CountAsIn
<1>3. CountIn(q, A) = CountIn(Tail(q), A) + (IF Head(q) \in A THEN 1 ELSE 0)
  BY CountDequeued
<1>4. Head(q) \in A <=> Head(q).tag = n
  BY <1>1
<1>5. Count(q, n) \in Nat /\ Count(Tail(q), n) \in Nat
  BY <1>1, Counts
<1> HIDE DEF A
<1> QED
  BY <1>2, <1>3, <1>4, <1>5

(* What Put and Get do to the queues of the users.                         *)
LEMMA PutCounts ==
  ASSUME NEW qs \in AnswerQs, NEW u \in Users, NEW x \in Answers
  PROVE  /\ Put(qs, u, x) \in AnswerQs
         /\ Put(qs, u, x)[u] = Append(qs[u], x)
         /\ \A v \in Users : v # u => Put(qs, u, x)[v] = qs[v]
         /\ \A t : Count(Append(qs[u], x), t) =
                    IF x.tag = t THEN Count(qs[u], t) + 1 ELSE Count(qs[u], t)
<1>1. qs[u] \in Seq(Answers)
  BY DEF AnswerQs
<1>2. /\ Put(qs, u, x) \in AnswerQs /\ Put(qs, u, x)[u] = Append(qs[u], x)
      /\ \A v \in Users : v # u => Put(qs, u, x)[v] = qs[v]
  BY DEF Put, AnswerQs
<1>3. \A t : Count(Append(qs[u], x), t) =
             IF x.tag = t THEN Count(qs[u], t) + 1 ELSE Count(qs[u], t)
  BY <1>1, CountPut
<1> QED
  BY <1>2, <1>3

(* The same for the removal of the first element.                          *)
LEMMA GetCounts ==
  ASSUME NEW qs \in AnswerQs, NEW u \in Users, NotEmpty(qs[u]),
         NEW r, r = Get(qs, u), NEW t, t = Head(qs[u]).tag
  PROVE  /\ r \in AnswerQs
         /\ r[u] = Tail(qs[u]) /\ \A v \in Users : v # u => r[v] = qs[v]
         /\ Head(qs[u]) = qs[u][1] /\ Head(qs[u]) \in Answers
         /\ Count(qs[u], t) > 0 /\ Count(r[u], t) = Count(qs[u], t) - 1
         /\ \A v \in Users, s \in OrigTags : (v # u \/ s # t) => Count(r[v], s) = Count(qs[v], s)
<1>1. /\ qs[u] \in Seq(Answers) /\ Tail(qs[u]) \in Seq(Answers)
      /\ Head(qs[u]) = qs[u][1] /\ Head(qs[u]) \in Answers
  BY Dequeued DEF AnswerQs
<1>2. r \in AnswerQs
  BY <1>1 DEF Get, AnswerQs
<1>3. \A v \in Users : v # u => r[v] = qs[v]
  BY DEF Get, AnswerQs
<1>4. r[u] = Tail(qs[u])
  BY DEF Get, AnswerQs
<1>5. \A s : /\ Count(r[u], s) = IF Head(qs[u]).tag = s THEN Count(qs[u], s) - 1 ELSE Count(qs[u], s)
             /\ Head(qs[u]).tag = s => Count(qs[u], s) > 0
  BY <1>1, <1>4, CountGet
<1>6. \A v \in Users, s \in OrigTags : (v # u \/ s # t) => Count(r[v], s) = Count(qs[v], s)
  BY <1>3, <1>5
<1> QED
  BY <1>1, <1>2, <1>3, <1>4, <1>5, <1>6

-----------------------------------------------------------------------------
(* The steps of a command from phase to phase: a and v before, b and w     *)
(* after.                                                                  *)

TagViews  == [at : Works, cmds : Nat, sent : Nat, words : Nat, reqs : Nat, acks : Nat]
UserViews == [out : Outs, words : Nat, reqs : Nat, acks : Nat]

(* A page has at least one word.                                           *)
LEMMA PageSize == PageWords \in Nat /\ PageWords >= 1
  BY FlashSwitchAssumption

(* The views have their types.                                             *)
LEMMA ViewsTyped ==
  ASSUME Typed
  PROVE  /\ \A n \in Tags : TagView(n) \in TagViews
         /\ \A u \in Users, t \in OrigTags : UserView(u, t) \in UserViews
<1>1. \A n \in Tags : /\ ctrl[n] \in Works
                      /\ Count(cmdOutputQ, n) \in Nat /\ Count(writeWordQ, n) \in Nat
                      /\ Count(flashRespQ0, n) \in Nat /\ Count(flashRespQ1, n) \in Nat
                      /\ Count(flashRespQ2, n) \in Nat
  BY Counts DEF Typed
<1>2. \A u \in Users, t \in OrigTags :
        /\ out[u][t] \in Outs
        /\ Count(readWordQs[u], t) \in Nat /\ Count(writeReqQs[u], t) \in Nat
        /\ Count(ackStatusQs[u], t) \in Nat
  BY Counts DEF Typed
<1> QED
  BY <1>1, <1>2 DEF TagView, UserView, TagViews, UserViews

(* The same of the next state.                                             *)
LEMMA ViewsTypedNext ==
  (Typed => /\ \A n \in Tags : TagView(n) \in TagViews
            /\ \A u \in Users, t \in OrigTags : UserView(u, t) \in UserViews)'
BY ViewsTyped, PTL

(* What a record of a command at the controller, or of a user, holds.      *)
LEMMA RecordFields ==
  /\ \A a \in TagViews : /\ a.at \in Works /\ a.cmds \in Nat /\ a.sent \in Nat /\ a.words \in Nat
                         /\ a.reqs \in Nat /\ a.acks \in Nat
  /\ \A v \in UserViews : /\ v.out \in Outs /\ v.words \in Nat /\ v.reqs \in Nat /\ v.acks \in Nat
                          /\ v.out.got \in 0 .. PageWords /\ v.out.give \in 0 .. PageWords
  /\ \A w \in Works : /\ w # Idle => w.op \in Ops /\ w.left \in 0 .. PageWords
                      /\ Unread(w) \in 0 .. PageWords
  /\ Unread(Idle) = 0 /\ Idle.op = "NONE"
<1>1. \A v \in UserViews : /\ v.out \in Outs /\ v.words \in Nat /\ v.reqs \in Nat /\ v.acks \in Nat
                           /\ v.out.got \in 0 .. PageWords /\ v.out.give \in 0 .. PageWords
  BY DEF UserViews, Outs
<1>2. \A w \in Works : /\ w # Idle => w.op \in Ops /\ w.left \in 0 .. PageWords
                       /\ Unread(w) \in 0 .. PageWords
  BY PageSize DEF Works, Idle, Unread
<1>3. Unread(Idle) = 0 /\ Idle.op = "NONE"
  BY DEF Idle, Unread
<1> QED
  BY <1>1, <1>2, <1>3 DEF TagViews

(* A user without a command sends one.                                     *)
LEMMA Sends ==
  ASSUME NEW a \in TagViews, NEW b \in TagViews, NEW v \in UserViews, NEW w \in UserViews,
         Nowhere(a), Resting(v), v.out.op = "NONE",
         b.at = a.at, b.cmds = a.cmds + 1, b.sent = a.sent, b.words = a.words,
         b.reqs = a.reqs, b.acks = a.acks,
         w.out.op \in Ops, w.out.got = 0, w.out.give = 0,
         w.words = v.words, w.reqs = v.reqs, w.acks = v.acks
  PROVE  Phase(b, w)
<1>1. v.words = 0 /\ v.reqs = 0 /\ v.acks = 0
  BY DEF Resting
<1> QED
  BY <1>1 DEF Phase, Waiting, Unseen, Nowhere

(* The controller accepts a command.                                       *)
LEMMA Accepts ==
  ASSUME NEW a \in TagViews, NEW b \in TagViews, NEW v \in UserViews, Phase(a, v), a.cmds > 0,
         b.cmds = a.cmds - 1, b.sent = a.sent, b.words = a.words, b.reqs = a.reqs, b.acks = a.acks,
         b.at.op = v.out.op, b.at.st = "accepted", b.at.left = PageWords
  PROVE  Phase(b, v) /\ a.at = Idle /\ a.words = 0
<1>1. Waiting(a, v)
  BY DEF Phase, Reading, Writing, Erasing, Answering
<1>2. b.cmds = 0 /\ b.sent = 0 /\ b.words = 0 /\ b.reqs = 0 /\ b.acks = 0 /\ b.at.op \in Ops
  BY <1>1 DEF Waiting
<1>3. CASE b.at.op = "READ"
  BY <1>1, <1>2, <1>3, PageSize DEF Waiting, Phase, Reading, Unread, Unseen
<1>4. CASE b.at.op = "WRITE"
  BY <1>1, <1>2, <1>4 DEF Waiting, Phase, Writing, Unseen
<1>5. CASE b.at.op = "ERASE"
  BY <1>1, <1>2, <1>5 DEF Waiting, Phase, Erasing, Unseen
<1> QED
  BY <1>1, <1>2, <1>3, <1>4, <1>5 DEF Waiting, Ops

(* The controller sends a word of a page.                                  *)
LEMMA SendsWord ==
  ASSUME NEW a \in TagViews, NEW b \in TagViews, NEW v \in UserViews, Phase(a, v),
         a.at.op = "READ",
         b.at = IF a.at.left = 1 THEN Idle ELSE [a.at EXCEPT !.left = @ - 1],
         b.cmds = a.cmds, b.sent = a.sent, b.words = a.words + 1, b.reqs = a.reqs, b.acks = a.acks
  PROVE  Phase(b, v) /\ Unread(b.at) = Unread(a.at) - 1 /\ Unread(a.at) = a.at.left
         /\ (b.at # Idle => b.at.own = a.at.own /\ b.at.bus = a.at.bus)
<1>1. Reading(a, v)
  BY RecordFields DEF Phase, Waiting, Writing, Erasing, Answering
<1>2. a.at \in Works \ {Idle} /\ a.at.left \in 1 .. PageWords
  BY <1>1, PageSize, RecordFields DEF Reading
<1>3. /\ Unread(b.at) = a.at.left - 1 /\ (b.at = Idle \/ (b.at.op = "READ" /\ b.at.left > 0))
      /\ (b.at # Idle => b.at.own = a.at.own /\ b.at.bus = a.at.bus)
  BY <1>2, PageSize DEF Unread, Idle, Works
<1>4. Unread(a.at) = a.at.left /\ a.words \in Nat /\ v.words \in Nat /\ v.out.got \in Nat
  BY RecordFields DEF Unread
<1>5. Reading(b, v)
  <2>1. v.out.got + v.words + a.at.left + a.words = PageWords
    BY <1>1, <1>4 DEF Reading
  <2> DEFINE x == Unread(b.at)
             y == b.words
  <2>2. x = a.at.left - 1 /\ y = a.words + 1 /\ a.at.left \in Nat
    BY <1>2, <1>3
  <2> HIDE DEF x, y
  <2>3. v.out.got + v.words + x + y = PageWords /\ x + y > 0
    BY <1>2, <1>4, <2>1, <2>2
  <2>4. /\ b.cmds = 0 /\ b.sent = 0 /\ b.reqs = 0 /\ b.acks = 0
        /\ v.out.op = "READ" /\ v.out.give = 0 /\ v.reqs = 0 /\ v.acks = 0
    BY <1>1 DEF Reading
  <2> QED
    BY <1>3, <2>3, <2>4 DEF Reading, x, y
<1> QED
  BY <1>3, <1>4, <1>5 DEF Phase

(* A word of a page reaches the queue of its user, the last one or another. *)
LEMMA WordArrives ==
  ASSUME NEW a \in TagViews, NEW b \in TagViews, NEW v \in UserViews, NEW w \in UserViews,
         Phase(a, v), a.words > 0,
         b.at = a.at, b.cmds = a.cmds, b.sent = a.sent, b.words = a.words - 1,
         b.reqs = a.reqs, b.acks = a.acks,
         w.out = v.out, w.words = v.words + 1, w.reqs = v.reqs, w.acks = v.acks
  PROVE  /\ Unread(a.at) + a.words \in 1 .. PageWords
         /\ Unread(a.at) + a.words = 1 => Nowhere(b) /\ Resting(w)
         /\ Unread(a.at) + a.words # 1 => Phase(b, w)
<1>1. Reading(a, v)
  BY DEF Phase, Waiting, Writing, Erasing, Answering
<1>2. /\ Unread(a.at) \in Nat /\ (Unread(a.at) = 0 => a.at = Idle)
      /\ a.words \in Nat /\ v.out.got \in Nat /\ v.words \in Nat
  BY <1>1, RecordFields DEF Reading, Unread
<1>3. ASSUME Unread(a.at) + a.words = 1 PROVE Nowhere(b) /\ Resting(w)
  <2>1. Unread(a.at) = 0 /\ a.words = 1
    BY <1>2, <1>3
  <2>2. Nowhere(b)
    BY <1>1, <1>2, <2>1 DEF Reading, Nowhere
  <2>3. w.words > 0 /\ w.out.got + w.words = PageWords
    BY <1>1, <1>2, <2>1, PageSize DEF Reading
  <2> QED
    BY <1>1, <2>2, <2>3 DEF Reading, Resting
<1>4. Unread(a.at) + a.words # 1 => Reading(b, w)
  BY <1>1, <1>2, PageSize DEF Reading
<1> QED
  BY <1>1, <1>2, <1>3, <1>4, PageSize DEF Phase, Reading

(* The user takes a word, with its command in the switch or after it.      *)
LEMMA WordTakenByUser ==
  ASSUME NEW v \in UserViews, NEW w \in UserViews, v.words > 0,
         w.out = IF v.out.got = PageWords - 1 THEN Done ELSE [v.out EXCEPT !.got = @ + 1],
         w.words = v.words - 1, w.reqs = v.reqs, w.acks = v.acks
  PROVE  /\ \A a \in TagViews : Phase(a, v) => Phase(a, w) /\ w.out.op = v.out.op
         /\ Resting(v) => Resting(w)
<1>1. /\ v.out.got \in Nat /\ v.words \in Nat /\ v.out \in Outs
  BY RecordFields
<1>2. ASSUME NEW a \in TagViews, Phase(a, v)
      PROVE  Phase(a, w) /\ w.out.op = v.out.op
  <2>1. Reading(a, v)
    BY <1>2 DEF Phase, Waiting, Writing, Erasing, Answering, Unseen
  <2>2. Unread(a.at) \in Nat /\ a.words \in Nat
    BY RecordFields
  <2>3. v.out.got # PageWords - 1
    BY <1>1, <2>1, <2>2, PageSize DEF Reading
  <2>4. w.out.op = v.out.op /\ w.out.got = v.out.got + 1 /\ w.out.give = v.out.give
    BY <1>1, <2>3 DEF Outs
  <2>5. Reading(a, w)
    BY <1>1, <2>1, <2>2, <2>4, PageSize DEF Reading
  <2> QED
    BY <2>4, <2>5 DEF Phase
<1>3. ASSUME Resting(v) PROVE Resting(w)
  <2>1. /\ v.out.op = "READ" /\ v.out.got + v.words = PageWords /\ v.reqs = 0 /\ v.acks = 0
        /\ v.out.give = 0
    BY <1>1, <1>3 DEF Resting
  <2>2. CASE v.out.got = PageWords - 1
    BY <1>1, <2>1, <2>2, PageSize DEF Resting, Done
  <2>3. CASE v.out.got # PageWords - 1
    <3>1. w.out.op = v.out.op /\ w.out.got = v.out.got + 1 /\ w.out.give = v.out.give
      BY <1>1, <2>3 DEF Outs
    <3> QED
      BY <1>1, <2>1, <2>3, <3>1, PageSize DEF Resting
  <2> QED
    BY <2>2, <2>3
<1> QED
  BY <1>2, <1>3

(* The controller asks for the page of a write.                            *)
LEMMA AsksForPage ==
  ASSUME NEW a \in TagViews, NEW b \in TagViews, NEW v \in UserViews, Phase(a, v),
         a.at.op = "WRITE", a.at.st = "accepted",
         b.at = [a.at EXCEPT !.st = "fetching"],
         b.cmds = a.cmds, b.sent = a.sent, b.words = a.words, b.reqs = a.reqs + 1, b.acks = a.acks
  PROVE  Phase(b, v)
<1>1. Writing(a, v)
  BY RecordFields DEF Phase, Waiting, Reading, Erasing, Answering
<1>2. a.at \in Works \ {Idle}
  BY <1>1, RecordFields DEF Writing
<1>3. b.at.op = "WRITE" /\ b.at.st = "fetching" /\ b.at.left = a.at.left
  BY <1>2 DEF Works
<1>4. Writing(b, v)
  BY <1>1, <1>3 DEF Writing
<1> QED
  BY <1>4 DEF Phase

(* The request for the page reaches the queue of the user.                 *)
LEMMA RequestArrives ==
  ASSUME NEW a \in TagViews, NEW b \in TagViews, NEW v \in UserViews, NEW w \in UserViews,
         Phase(a, v), a.reqs > 0,
         b.at = a.at, b.cmds = a.cmds, b.sent = a.sent, b.words = a.words,
         b.reqs = a.reqs - 1, b.acks = a.acks,
         w.out = v.out, w.words = v.words, w.reqs = v.reqs + 1, w.acks = v.acks
  PROVE  Phase(b, w)
<1>1. Writing(a, v)
  BY DEF Phase, Waiting, Reading, Erasing, Answering
<1>2. a.reqs = 1 /\ v.reqs = 0
  <2>1. a.reqs \in Nat /\ v.reqs \in Nat
    BY RecordFields
  <2> QED
    BY <1>1, <2>1 DEF Writing
<1>3. Writing(b, w)
  BY <1>1, <1>2 DEF Writing
<1> QED
  BY <1>3 DEF Phase

(* The user takes the request and has the words of a page to give.         *)
LEMMA RequestTaken ==
  ASSUME NEW v \in UserViews, NEW w \in UserViews, v.reqs > 0,
         w.out = [v.out EXCEPT !.give = PageWords],
         w.words = v.words, w.reqs = v.reqs - 1, w.acks = v.acks
  PROVE  /\ ~Resting(v)
         /\ \A a \in TagViews : Phase(a, v) => Phase(a, w) /\ w.out.op = v.out.op
<1>1. ASSUME NEW a \in TagViews, Phase(a, v)
      PROVE  Phase(a, w) /\ w.out.op = v.out.op
  <2>1. Writing(a, v)
    BY <1>1 DEF Phase, Waiting, Reading, Erasing, Answering, Unseen
  <2>2. w.out.op = v.out.op /\ w.out.got = v.out.got /\ w.out.give = PageWords
    BY RecordFields DEF Outs
  <2>3. v.reqs = 1 /\ a.reqs = 0 /\ a.at.st = "fetching" /\ a.at.left = PageWords /\ a.sent = 0
    BY <2>1, RecordFields DEF Writing
  <2>4. Writing(a, w)
    BY <2>1, <2>2, <2>3, PageSize DEF Writing
  <2> QED
    BY <2>2, <2>4 DEF Phase
<1> QED
  BY <1>1 DEF Resting

(* The user gives a word, and the controller is waiting for it.            *)
LEMMA WordGivenDown ==
  ASSUME NEW v \in UserViews, NEW w \in UserViews, v.out.give > 0,
         w.out = [v.out EXCEPT !.give = @ - 1],
         w.words = v.words, w.reqs = v.reqs, w.acks = v.acks
  PROVE  /\ ~Resting(v) /\ w.out.op = v.out.op
         /\ \A a \in TagViews, b \in TagViews :
              (/\ Phase(a, v)
               /\ b.at = a.at /\ b.cmds = a.cmds /\ b.sent = a.sent + 1 /\ b.words = a.words
               /\ b.reqs = a.reqs /\ b.acks = a.acks) => Phase(b, w)
<1>1. w.out.op = v.out.op /\ w.out.got = v.out.got /\ w.out.give = v.out.give - 1
  BY RecordFields DEF Outs
<1>2. ASSUME NEW a \in TagViews, NEW b \in TagViews, Phase(a, v),
             b.at = a.at, b.cmds = a.cmds, b.sent = a.sent + 1, b.words = a.words,
             b.reqs = a.reqs, b.acks = a.acks
      PROVE  Phase(b, w)
  <2>1. Writing(a, v)
    BY <1>2 DEF Phase, Waiting, Reading, Erasing, Answering, Unseen
  <2>2. a.at.st = "fetching" /\ a.at.left = a.sent + v.out.give /\ a.reqs = 0 /\ v.reqs = 0
    BY <2>1 DEF Writing
  <2>3. a.sent \in Nat /\ v.out.give \in Nat
    BY RecordFields
  <2>4. Writing(b, w)
    BY <1>1, <1>2, <2>1, <2>2, <2>3 DEF Writing
  <2> QED
    BY <2>4 DEF Phase
<1> QED
  BY <1>1, <1>2 DEF Resting

(* A word on its way down finds its command waiting for it.                *)
LEMMA WordExpected ==
  ASSUME NEW a \in TagViews, NEW v \in UserViews, Phase(a, v), a.sent > 0
  PROVE  a.at.st = "fetching" /\ a.at # Idle /\ a.at.op = "WRITE" /\ a.at.left \in 1 .. PageWords
<1>1. Writing(a, v)
  BY DEF Phase, Waiting, Reading, Erasing, Answering
<1>2. a.at # Idle /\ a.at.op = "WRITE" /\ a.at.left \in 0 .. PageWords
  BY <1>1, RecordFields DEF Writing
<1>3. a.at.st = "fetching" /\ a.at.left > 0
  BY <1>1, PageSize DEF Writing
<1> QED
  BY <1>2, <1>3, PageSize

Fetched(at) == IF at.left = 1 THEN [at EXCEPT !.left = 0, !.st = "programming"]
               ELSE [at EXCEPT !.left = @ - 1]

(* The controller takes the word.                                          *)
LEMMA WordFetched ==
  ASSUME NEW a \in TagViews, NEW b \in TagViews, NEW v \in UserViews, Phase(a, v), a.sent > 0,
         b.at = Fetched(a.at), b.cmds = a.cmds, b.sent = a.sent - 1, b.words = a.words,
         b.reqs = a.reqs, b.acks = a.acks
  PROVE  Phase(b, v)
<1>1. /\ a.at.st = "fetching" /\ a.at \in Works \ {Idle} /\ a.at.op = "WRITE"
      /\ a.at.left \in 1 .. PageWords
  BY WordExpected, RecordFields
<1>2. Writing(a, v)
  BY DEF Phase, Waiting, Reading, Erasing, Answering
<1>3. /\ a.at.left = a.sent + v.out.give /\ a.reqs = 0 /\ v.reqs = 0
      /\ a.sent \in Nat /\ v.out.give \in Nat
  BY <1>1, <1>2, RecordFields DEF Writing
<1>4. CASE a.at.left = 1
  <2>1. b.at.op = "WRITE" /\ b.at.st = "programming"
    BY <1>1, <1>4 DEF Fetched, Works
  <2>2. a.sent = 1 /\ v.out.give = 0
    BY <1>3, <1>4
  <2>3. Writing(b, v)
    BY <1>2, <1>3, <2>1, <2>2 DEF Writing
  <2> QED
    BY <2>3 DEF Phase
<1>5. CASE a.at.left # 1
  <2>1. b.at.op = "WRITE" /\ b.at.st = "fetching" /\ b.at.left = a.at.left - 1
    BY <1>1, <1>5 DEF Fetched, Works
  <2>2. Writing(b, v)
    BY <1>1, <1>2, <1>3, <1>5, <2>1 DEF Writing
  <2> QED
    BY <2>2 DEF Phase
<1> QED
  BY <1>4, <1>5

(* The controller acknowledges a write or an erase.                        *)
LEMMA SendsAck ==
  ASSUME NEW a \in TagViews, NEW b \in TagViews, NEW v \in UserViews, Phase(a, v),
         (a.at.op = "WRITE" /\ a.at.st = "programming") \/ a.at.op = "ERASE",
         b.at = Idle, b.cmds = a.cmds, b.sent = a.sent, b.words = a.words,
         b.reqs = a.reqs, b.acks = a.acks + 1
  PROVE  Phase(b, v)
<1>1. Writing(a, v) \/ Erasing(a, v)
  BY RecordFields DEF Phase, Waiting, Reading, Answering
<1>2. Answering(b, v)
  BY <1>1 DEF Writing, Erasing, Answering, Unseen
<1> QED
  BY <1>2 DEF Phase

(* The acknowledgement reaches the queue of the user.                      *)
LEMMA AckArrives ==
  ASSUME NEW a \in TagViews, NEW b \in TagViews, NEW v \in UserViews, NEW w \in UserViews,
         Phase(a, v), a.acks > 0,
         b.at = a.at, b.cmds = a.cmds, b.sent = a.sent, b.words = a.words,
         b.reqs = a.reqs, b.acks = a.acks - 1,
         w.out = v.out, w.words = v.words, w.reqs = v.reqs, w.acks = v.acks + 1
  PROVE  Nowhere(b) /\ Resting(w)
<1>1. Answering(a, v)
  BY DEF Phase, Waiting, Reading, Writing, Erasing
<1> QED
  BY <1>1 DEF Answering, Unseen, Nowhere, Resting

(* The user takes the acknowledgement.                                     *)
LEMMA AckTaken ==
  ASSUME NEW v \in UserViews, NEW w \in UserViews, v.acks > 0,
         w.out = Done, w.words = v.words, w.reqs = v.reqs, w.acks = v.acks - 1
  PROVE  /\ \A a \in TagViews : ~Phase(a, v)
         /\ Resting(v) => Resting(w)
<1>1. \A a \in TagViews : ~Phase(a, v)
  BY DEF Phase, Waiting, Reading, Writing, Erasing, Answering, Unseen
<1>2. Resting(v) => Resting(w)
  BY RecordFields DEF Resting, Done
<1> QED
  BY <1>1, <1>2

-----------------------------------------------------------------------------
(* What a step does to the lives of the commands.                          *)

OtherTags(n) == \A m \in Tags \ {n} : TagView(m)' = TagView(m)

OtherUsers(u, t) ==
  \A v \in Users, s \in OrigTags : <<v, s>> # <<u, t>> => UserView(v, s)' = UserView(v, s)

(* A tag in use has one owner, and no two tags have the same.              *)
LEMMA OneOwnerEach ==
  ASSUME Renamed, Typed
  PROVE  /\ inUse \subseteq Tags
         /\ \A n \in inUse : \E u \in Users, t \in OrigTags : Owned(n, u, t)
         /\ \A n \in inUse, m \in inUse, u \in Users, t \in OrigTags :
              Owned(n, u, t) /\ Owned(m, u, t) => n = m
<1>1. inUse \subseteq Tags
  BY DEF Typed, RenameTypeOK
<1>2. \A n \in inUse : \E u \in Users, t \in OrigTags : Owned(n, u, t)
  BY DEF Renamed, Owned, Entries
<1>3. \A n \in inUse, m \in inUse, u \in Users, t \in OrigTags :
        Owned(n, u, t) /\ Owned(m, u, t) => n = m
  BY DEF Renamed
<1> QED
  BY <1>1, <1>2, <1>3

(* The lives in terms of the next state, when the table keeps its entries. *)
LEMMA LivesNext ==
  ASSUME tb' = tb,
         \A n \in inUse', u \in Users, t \in OrigTags :
           Owned(n, u, t) => Phase(TagView(n)', UserView(u, t)'),
         \A n \in Tags \ inUse' : Nowhere(TagView(n)'),
         \A u \in Users, t \in OrigTags :
           (\A n \in inUse' : ~Owned(n, u, t)) => Resting(UserView(u, t)')
  PROVE  Lives'
<1>1. \A n, u, t : Owned(n, u, t)' <=> Owned(n, u, t)
  BY DEF Owned
<1> QED
  BY <1>1 DEF Lives

(* A command goes on to its next phase.                                    *)
LEMMA TagMoves ==
  ASSUME Typed, Lives, Renamed, NEW n \in inUse, NEW u \in Users, NEW t \in OrigTags,
         Owned(n, u, t), inUse' = inUse, tb' = tb, OtherTags(n), OtherUsers(u, t),
         Phase(TagView(n)', UserView(u, t)')
  PROVE  Lives'
<1>1. \A m \in inUse, v \in Users, s \in OrigTags :
        Owned(m, v, s) => Phase(TagView(m)', UserView(v, s)')
  <2> SUFFICES ASSUME NEW m \in inUse, NEW v \in Users, NEW s \in OrigTags, Owned(m, v, s)
               PROVE  Phase(TagView(m)', UserView(v, s)')
    OBVIOUS
  <2>1. CASE m = n
    <3>1. v = u /\ s = t
      BY <2>1 DEF Owned
    <3> QED
      BY <2>1, <3>1
  <2>2. CASE m # n
    <3>1. m \in Tags /\ <<v, s>> # <<u, t>>
      BY <2>2, OneOwnerEach
    <3>2. TagView(m)' = TagView(m) /\ UserView(v, s)' = UserView(v, s)
      BY <2>2, <3>1 DEF OtherTags, OtherUsers
    <3>3. Phase(TagView(m), UserView(v, s))
      BY DEF Lives
    <3> QED
      BY <3>2, <3>3
  <2> QED
    BY <2>1, <2>2
<1>2. \A m \in Tags \ inUse : Nowhere(TagView(m)')
  BY DEF Lives, OtherTags
<1>3. \A v \in Users, s \in OrigTags :
        (\A m \in inUse : ~Owned(m, v, s)) => Resting(UserView(v, s)')
  <2> SUFFICES ASSUME NEW v \in Users, NEW s \in OrigTags, \A m \in inUse : ~Owned(m, v, s)
               PROVE  Resting(UserView(v, s)')
    OBVIOUS
  <2>1. <<v, s>> # <<u, t>>
    OBVIOUS
  <2>2. UserView(v, s)' = UserView(v, s) /\ Resting(UserView(v, s))
    BY <2>1 DEF Lives, OtherUsers
  <2> QED
    BY <2>2
<1> QED
  BY <1>1, <1>2, <1>3, LivesNext

(* The last response of a command goes to its user, and its tag is free.   *)
LEMMA TagFreed ==
  ASSUME Typed, Lives, Renamed, NEW n \in inUse, NEW u \in Users, NEW t \in OrigTags,
         Owned(n, u, t), inUse' = inUse \ {n}, tb' = tb, OtherTags(n), OtherUsers(u, t),
         Nowhere(TagView(n)'), Resting(UserView(u, t)')
  PROVE  Lives'
<1>1. \A m \in inUse', v \in Users, s \in OrigTags :
        Owned(m, v, s) => Phase(TagView(m)', UserView(v, s)')
  <2> SUFFICES ASSUME NEW m \in inUse, m # n, NEW v \in Users, NEW s \in OrigTags, Owned(m, v, s)
               PROVE  Phase(TagView(m)', UserView(v, s)')
    OBVIOUS
  <2>1. m \in Tags /\ <<v, s>> # <<u, t>>
    BY OneOwnerEach
  <2>2. TagView(m)' = TagView(m) /\ UserView(v, s)' = UserView(v, s)
    BY <2>1 DEF OtherTags, OtherUsers
  <2>3. Phase(TagView(m), UserView(v, s))
    BY DEF Lives
  <2> QED
    BY <2>2, <2>3
<1>2. \A m \in Tags \ inUse' : Nowhere(TagView(m)')
  BY DEF Lives, OtherTags
<1>3. \A v \in Users, s \in OrigTags :
        (\A m \in inUse' : ~Owned(m, v, s)) => Resting(UserView(v, s)')
  <2> SUFFICES ASSUME NEW v \in Users, NEW s \in OrigTags, \A m \in inUse' : ~Owned(m, v, s)
               PROVE  Resting(UserView(v, s)')
    OBVIOUS
  <2>1. CASE <<v, s>> = <<u, t>>
    BY <2>1
  <2>2. CASE <<v, s>> # <<u, t>>
    <3>1. ~Owned(n, v, s)
      BY <2>2 DEF Owned
    <3>2. \A m \in inUse : ~Owned(m, v, s)
      BY <3>1
    <3>3. UserView(v, s)' = UserView(v, s) /\ Resting(UserView(v, s))
      BY <2>2, <3>2 DEF Lives, OtherUsers
    <3> QED
      BY <3>3
  <2> QED
    BY <2>1, <2>2
<1> QED
  BY <1>1, <1>2, <1>3, LivesNext

(* A user takes something from its queues, with its command in the switch  *)
(* or after it.                                                            *)
LEMMA UserMoves ==
  ASSUME Typed, Lives, Renamed, NEW u \in Users, NEW t \in OrigTags,
         inUse' = inUse, tb' = tb, \A m \in Tags : TagView(m)' = TagView(m), OtherUsers(u, t),
         \A a \in TagViews : Phase(a, UserView(u, t)) => Phase(a, UserView(u, t)'),
         Resting(UserView(u, t)) => Resting(UserView(u, t)')
  PROVE  Lives'
<1>1. \A m \in inUse, v \in Users, s \in OrigTags :
        Owned(m, v, s) => Phase(TagView(m)', UserView(v, s)')
  <2> SUFFICES ASSUME NEW m \in inUse, NEW v \in Users, NEW s \in OrigTags, Owned(m, v, s)
               PROVE  Phase(TagView(m)', UserView(v, s)')
    OBVIOUS
  <2>1. m \in Tags /\ TagView(m)' = TagView(m) /\ TagView(m) \in TagViews
    BY OneOwnerEach, ViewsTyped
  <2>2. Phase(TagView(m), UserView(v, s))
    BY DEF Lives
  <2>3. CASE <<v, s>> = <<u, t>>
    <3>1. v = u /\ s = t
      BY <2>3
    <3>2. Phase(TagView(m), UserView(u, t))
      BY <2>2, <3>1
    <3> QED
      BY <2>1, <3>1, <3>2
  <2>4. CASE <<v, s>> # <<u, t>>
    <3>1. UserView(v, s)' = UserView(v, s)
      BY <2>4 DEF OtherUsers
    <3> QED
      BY <2>1, <2>2, <3>1
  <2> QED
    BY <2>3, <2>4
<1>2. \A m \in Tags \ inUse : Nowhere(TagView(m)')
  BY DEF Lives
<1>3. \A v \in Users, s \in OrigTags :
        (\A m \in inUse : ~Owned(m, v, s)) => Resting(UserView(v, s)')
  <2> SUFFICES ASSUME NEW v \in Users, NEW s \in OrigTags, \A m \in inUse : ~Owned(m, v, s)
               PROVE  Resting(UserView(v, s)')
    OBVIOUS
  <2>1. Resting(UserView(v, s))
    BY DEF Lives
  <2>2. CASE <<v, s>> = <<u, t>>
    BY <2>1, <2>2
  <2>3. CASE <<v, s>> # <<u, t>>
    BY <2>1, <2>3 DEF OtherUsers
  <2> QED
    BY <2>2, <2>3
<1> QED
  BY <1>1, <1>2, <1>3, LivesNext

(* A command takes a free tag.                                             *)
LEMMA TagTaken ==
  ASSUME Typed, Lives, Renamed, NEW n \in Tags \ inUse, NEW u \in Users, NEW t \in OrigTags,
         \A m \in inUse : ~Owned(m, u, t),
         inUse' = inUse \union {n}, \A m \in Tags \ {n} : tb'[m] = tb[m],
         tb'[n].channel = u, tb'[n].tag = t,
         OtherTags(n), OtherUsers(u, t), Phase(TagView(n)', UserView(u, t)')
  PROVE  Lives'
<1>1. /\ \A m \in Tags \ {n} : \A v, s : Owned(m, v, s)' <=> Owned(m, v, s)
      /\ \A v, s : Owned(n, v, s)' <=> v = u /\ s = t
  BY DEF Owned
<1>2. \A m \in inUse', v \in Users, s \in OrigTags :
        Owned(m, v, s)' => Phase(TagView(m)', UserView(v, s)')
  <2> SUFFICES ASSUME NEW m \in inUse', NEW v \in Users, NEW s \in OrigTags, Owned(m, v, s)'
               PROVE  Phase(TagView(m)', UserView(v, s)')
    OBVIOUS
  <2>1. CASE m = n
    <3>1. v = u /\ s = t
      BY <1>1, <2>1
    <3> QED
      BY <2>1, <3>1
  <2>2. CASE m # n
    <3>1. m \in inUse /\ m \in Tags \ {n}
      BY <2>2, OneOwnerEach
    <3>2. Owned(m, v, s)
      BY <1>1, <3>1
    <3>3. <<v, s>> # <<u, t>>
      BY <3>1, <3>2
    <3>4. TagView(m)' = TagView(m) /\ UserView(v, s)' = UserView(v, s)
      BY <3>1, <3>3 DEF OtherTags, OtherUsers
    <3>5. Phase(TagView(m), UserView(v, s))
      BY <3>1, <3>2 DEF Lives
    <3> QED
      BY <3>4, <3>5
  <2> QED
    BY <2>1, <2>2
<1>3. \A m \in Tags \ inUse' : Nowhere(TagView(m)')
  BY DEF Lives, OtherTags
<1>4. \A v \in Users, s \in OrigTags :
        (\A m \in inUse' : ~Owned(m, v, s)') => Resting(UserView(v, s)')
  <2> SUFFICES ASSUME NEW v \in Users, NEW s \in OrigTags, \A m \in inUse' : ~Owned(m, v, s)'
               PROVE  Resting(UserView(v, s)')
    OBVIOUS
  <2>1. <<v, s>> # <<u, t>>
    BY <1>1
  <2>2. \A m \in inUse : ~Owned(m, v, s)
    BY <1>1, OneOwnerEach
  <2>3. UserView(v, s)' = UserView(v, s) /\ Resting(UserView(v, s))
    BY <2>1, <2>2 DEF Lives, OtherUsers
  <2> QED
    BY <2>3
<1> QED
  BY <1>2, <1>3, <1>4 DEF Lives

-----------------------------------------------------------------------------
(* What a step leaves as it was.                                           *)

(* A tag that is somewhere is in use.                                      *)
LEMMA SomewhereInUse ==
  ASSUME Typed, Lives, NEW n \in Tags,
         \/ TagView(n).at # Idle \/ TagView(n).cmds # 0 \/ TagView(n).sent # 0
         \/ TagView(n).words # 0 \/ TagView(n).reqs # 0 \/ TagView(n).acks # 0
  PROVE  n \in inUse
  BY DEF Lives, Nowhere

(* The fields of the views.                                                *)
LEMMA Fields ==
  /\ \A n : /\ TagView(n).at = ctrl[n] /\ TagView(n).cmds = Count(cmdOutputQ, n)
            /\ TagView(n).sent = Count(writeWordQ, n) /\ TagView(n).words = Count(flashRespQ0, n)
            /\ TagView(n).reqs = Count(flashRespQ1, n) /\ TagView(n).acks = Count(flashRespQ2, n)
  /\ \A u, t : /\ UserView(u, t).out = out[u][t] /\ UserView(u, t).words = Count(readWordQs[u], t)
               /\ UserView(u, t).reqs = Count(writeReqQs[u], t)
               /\ UserView(u, t).acks = Count(ackStatusQs[u], t)
  BY DEF TagView, UserView

(* A sequence of elements that are in a smaller set.                       *)
LEMMA SeqOfMembers ==
  ASSUME NEW S, NEW T, NEW q \in Seq(S), \A i \in 1 .. Len(q) : q[i] \in T
  PROVE  q \in Seq(T)
  OBVIOUS

(* A tag of an element of a queue counts in it.                            *)
LEMMA ElementCounts ==
  ASSUME NEW S, NEW q \in Seq(S), NEW i \in 1 .. Len(q)
  PROVE  Count(q, q[i].tag) # 0
  BY Counts

(* The tags of the queues are in use.                                      *)
LEMMA QueuedInUse ==
  ASSUME Typed, Lives
  PROVE  /\ \A i \in 1 .. Len(cmdOutputQ) : cmdOutputQ[i].tag \in inUse
         /\ \A i \in 1 .. Len(writeWordQ) : writeWordQ[i].tag \in inUse
         /\ \A i \in 1 .. Len(flashRespQ0) : flashRespQ0[i].tag \in inUse
         /\ \A i \in 1 .. Len(flashRespQ1) : flashRespQ1[i].tag \in inUse
         /\ \A i \in 1 .. Len(flashRespQ2) : flashRespQ2[i].tag \in inUse
<1>1. /\ cmdOutputQ \in Seq(Cmds) /\ writeWordQ \in Seq(Items) /\ flashRespQ0 \in Seq(Items)
      /\ flashRespQ1 \in Seq(Items) /\ flashRespQ2 \in Seq(Items)
  BY DEF Typed
<1>2. /\ \A i \in 1 .. Len(cmdOutputQ) : Count(cmdOutputQ, cmdOutputQ[i].tag) # 0
      /\ \A i \in 1 .. Len(writeWordQ) : Count(writeWordQ, writeWordQ[i].tag) # 0
      /\ \A i \in 1 .. Len(flashRespQ0) : Count(flashRespQ0, flashRespQ0[i].tag) # 0
      /\ \A i \in 1 .. Len(flashRespQ1) : Count(flashRespQ1, flashRespQ1[i].tag) # 0
      /\ \A i \in 1 .. Len(flashRespQ2) : Count(flashRespQ2, flashRespQ2[i].tag) # 0
  BY <1>1, ElementCounts
<1>3. /\ \A i \in 1 .. Len(cmdOutputQ) : cmdOutputQ[i].tag \in Tags
      /\ \A i \in 1 .. Len(writeWordQ) : writeWordQ[i].tag \in Tags
      /\ \A i \in 1 .. Len(flashRespQ0) : flashRespQ0[i].tag \in Tags
      /\ \A i \in 1 .. Len(flashRespQ1) : flashRespQ1[i].tag \in Tags
      /\ \A i \in 1 .. Len(flashRespQ2) : flashRespQ2[i].tag \in Tags
  <2>1. (\A c \in Cmds : c.tag \in Tags) /\ (\A x \in Items : x.tag \in Tags)
    BY DEF Cmds, Items
  <2>2. /\ \A i \in 1 .. Len(cmdOutputQ) : cmdOutputQ[i] \in Cmds
        /\ \A i \in 1 .. Len(writeWordQ) : writeWordQ[i] \in Items
        /\ \A i \in 1 .. Len(flashRespQ0) : flashRespQ0[i] \in Items
        /\ \A i \in 1 .. Len(flashRespQ1) : flashRespQ1[i] \in Items
        /\ \A i \in 1 .. Len(flashRespQ2) : flashRespQ2[i] \in Items
    BY <1>1
  <2> QED
    BY <2>1, <2>2
<1> QED
  BY <1>2, <1>3, Fields, SomewhereInUse

(* The entries of the table, and who owns them.                            *)
LEMMA RenamedKept ==
  ASSUME Renamed, tb' = tb, tagRenames' = tagRenames, inUse' \subseteq inUse
  PROVE  Renamed'
<1>1. \A n, u, t : Owned(n, u, t)' <=> Owned(n, u, t)
  BY DEF Owned
<1> QED
  BY <1>1 DEF Renamed

(* The commands on their way down.                                         *)
LEMMA CmdsKept ==
  ASSUME Typed, Lives, CmdsFit, tb' = tb, cmdOutputQ' = cmdOutputQ,
         \A n \in inUse, u \in Users, t \in OrigTags :
           Owned(n, u, t) => out'[u][t].op = out[u][t].op
  PROVE  CmdsFit'
<1> SUFFICES ASSUME NEW i \in 1 .. Len(cmdOutputQ) PROVE CmdFits(cmdOutputQ[i])'
  BY DEF CmdsFit
<1> DEFINE c == cmdOutputQ[i]
<1>2. c.tag \in inUse
  BY QueuedInUse
<1>3. PICK u \in Users, t \in OrigTags :
        /\ Owned(c.tag, u, t) /\ c.own = <<u, t>> /\ c.bus = tb[c.tag].bus /\ c.op = out[u][t].op
  BY DEF CmdsFit, CmdFits
<1>4. out'[u][t].op = out[u][t].op
  BY <1>2, <1>3
<1>5. \E v \in Users, s \in OrigTags :
        /\ tb'[cmdOutputQ'[i].tag].channel = v /\ tb'[cmdOutputQ'[i].tag].tag = s
        /\ cmdOutputQ'[i].own = <<v, s>> /\ cmdOutputQ'[i].bus = tb'[cmdOutputQ'[i].tag].bus
        /\ cmdOutputQ'[i].op = out'[v][s].op
  BY <1>3, <1>4 DEF Owned
<1> QED
  BY <1>5 DEF CmdFits, Owned

(* The requests of the ports beside their queues.                          *)
LEMMA SameTagsPut ==
  ASSUME NEW r \in Seq(Tags), NEW q \in Seq(Items), NEW x \in Items, SameTags(r, q)
  PROVE  SameTags(Append(r, x.tag), Append(q, x))
<1>1. x.tag \in Tags
  BY DEF Items
<1>2. /\ Len(r) \in Nat /\ Len(Append(r, x.tag)) = Len(r) + 1
      /\ Append(r, x.tag)[Len(r) + 1] = x.tag
      /\ \A i \in 1 .. Len(r) : Append(r, x.tag)[i] = r[i]
  BY <1>1, Enqueued
<1>3. /\ Len(Append(q, x)) = Len(q) + 1 /\ Append(q, x)[Len(q) + 1] = x
      /\ \A i \in 1 .. Len(q) : Append(q, x)[i] = q[i]
  BY Enqueued
<1> DEFINE r2 == Append(r, x.tag)
           q2 == Append(q, x)
<1> HIDE DEF r2, q2
<1>4. Len(r2) = Len(r) + 1 /\ r2[Len(r) + 1] = x.tag /\ \A i \in 1 .. Len(r) : r2[i] = r[i]
  BY <1>2 DEF r2
<1>5. Len(q2) = Len(q) + 1 /\ q2[Len(q) + 1] = x /\ \A i \in 1 .. Len(q) : q2[i] = q[i]
  BY <1>3 DEF q2
<1>6. SameTags(r2, q2)
  BY <1>2, <1>4, <1>5 DEF SameTags
<1> QED
  BY <1>6 DEF r2, q2

(* The same when both are taken from.                                      *)
LEMMA SameTagsGet ==
  ASSUME NEW r \in Seq(Tags), NEW q \in Seq(Items), SameTags(r, q), NotEmpty(q)
  PROVE  SameTags(Tail(r), Tail(q)) /\ Head(r) = Head(q).tag /\ NotEmpty(r)
<1>1. NotEmpty(r)
  BY DEF SameTags, NotEmpty
<1>2. /\ Head(r) = r[1] /\ Len(r) \in Nat /\ Len(Tail(r)) = Len(r) - 1
      /\ \A i \in 1 .. Len(Tail(r)) : Tail(r)[i] = r[i + 1] /\ i + 1 \in 1 .. Len(r)
      /\ 1 \in 1 .. Len(r)
  BY <1>1, Dequeued
<1>3. /\ Head(q) = q[1] /\ Len(q) \in Nat /\ Len(Tail(q)) = Len(q) - 1
      /\ \A i \in 1 .. Len(Tail(q)) : Tail(q)[i] = q[i + 1] /\ i + 1 \in 1 .. Len(q)
      /\ 1 \in 1 .. Len(q)
  BY Dequeued
<1> DEFINE r2 == Tail(r)
           q2 == Tail(q)
<1> HIDE DEF r2, q2
<1>4. Len(r2) = Len(r) - 1 /\ \A i \in 1 .. Len(r2) : r2[i] = r[i + 1] /\ i + 1 \in 1 .. Len(r)
  BY <1>2 DEF r2
<1>5. Len(q2) = Len(q) - 1 /\ \A i \in 1 .. Len(q2) : q2[i] = q[i + 1] /\ i + 1 \in 1 .. Len(q)
  BY <1>3 DEF q2
<1>6. SameTags(r2, q2)
  BY <1>2, <1>3, <1>4, <1>5 DEF SameTags
<1> QED
  BY <1>1, <1>2, <1>3, <1>6 DEF r2, q2, SameTags

(* The pages read, when no word of a page moves.                           *)
LEMMA ReadsKept ==
  ASSUME PagesApart, BeatsCounted, Typed, Lives,
         flashRespQ0' = flashRespQ0, beatCnts' = beatCnts,
         \A n \in Tags : Unread(ctrl'[n]) = Unread(ctrl[n]),
         \A n \in inUse : tb'[n] = tb[n]
  PROVE  PagesApart' /\ BeatsCounted'
<1>1. \A n \in Tags : ToCome(n)' = ToCome(n)
  BY DEF ToCome
<1>2. \A n \in Tags : ToCome(n) > 0 => tb'[n] = tb[n]
  <2> SUFFICES ASSUME NEW n \in Tags, ToCome(n) > 0 PROVE n \in inUse
    OBVIOUS
  <2>1. ctrl[n] # Idle \/ Count(flashRespQ0, n) # 0
    BY RecordFields DEF ToCome
  <2> QED
    BY <2>1, Fields, SomewhereInUse
<1>3. \A j \in 1 .. Len(flashRespQ0) : flashRespQ0[j].tag \in Tags
                                       /\ tb'[flashRespQ0[j].tag] = tb[flashRespQ0[j].tag]
  BY QueuedInUse DEF Typed, RenameTypeOK
<1>4. \A n \in Tags : Begun(n)' <=> Begun(n)
  BY <1>1 DEF Begun
<1>5. \A n \in Tags : Begun(n) => tb'[n] = tb[n]
  BY <1>2 DEF Begun
<1>6. PagesApart'
  <2> SUFFICES ASSUME NEW j \in 1 .. Len(flashRespQ0), NEW n \in Tags, ToCome(n)' > 0,
                      n # flashRespQ0[j].tag, SameBus(n, flashRespQ0[j].tag)'
               PROVE  \/ /\ Unread(ctrl'[n]) = 0
                         /\ \A k \in 1 .. Len(flashRespQ0) : flashRespQ0[k].tag = n => k < j
                      \/ /\ ToCome(n)' = PageWords
                         /\ \A k \in 1 .. Len(flashRespQ0) : flashRespQ0[k].tag = n => k > j
    BY DEF PagesApart
  <2>1. ToCome(n) > 0 /\ tb'[n] = tb[n] /\ tb'[flashRespQ0[j].tag] = tb[flashRespQ0[j].tag]
    BY <1>1, <1>2, <1>3
  <2>2. SameBus(n, flashRespQ0[j].tag)
    BY <2>1 DEF SameBus
  <2> QED
    BY <1>1, <2>1, <2>2 DEF PagesApart
<1>7. BeatsCounted'
  <2>1. \A n \in Tags : Begun(n)' =>
          /\ beatCnts'[tb'[n].bus] = PageWords - ToCome(n)'
          /\ \A m \in Tags \ {n} : Begun(m)' => ~SameBus(n, m)'
    <3> SUFFICES ASSUME NEW n \in Tags, Begun(n)
                 PROVE  /\ beatCnts[tb'[n].bus] = PageWords - ToCome(n)
                        /\ \A m \in Tags \ {n} : Begun(m) => ~SameBus(n, m)'
      BY <1>1, <1>4
    <3>1. \A m \in Tags \ {n} : Begun(m) => ~SameBus(n, m)
      BY DEF BeatsCounted
    <3>2. \A m \in Tags : Begun(m) => (SameBus(n, m)' <=> SameBus(n, m))
      BY <1>5 DEF SameBus
    <3> QED
      BY <1>5, <3>1, <3>2 DEF BeatsCounted
  <2>2. \A b \in Buses : beatCnts'[b] # 0 => \E n \in Tags : Begun(n)' /\ tb'[n].bus = b
    BY <1>4, <1>5 DEF BeatsCounted
  <2> QED
    BY <2>1, <2>2 DEF BeatsCounted
<1> QED
  BY <1>6, <1>7

-----------------------------------------------------------------------------
(* The steps of the controller.                                            *)

(* What a tag in use is and who owns it.                                   *)
LEMMA Living ==
  ASSUME Parts, NEW n \in inUse
  PROVE  /\ n \in Tags /\ tb[n] \in Entries /\ TagView(n) \in TagViews
         /\ \E u \in Users, t \in OrigTags :
              /\ Owned(n, u, t) /\ UserView(u, t) \in UserViews /\ Phase(TagView(n), UserView(u, t))
<1>1. PICK u \in Users, t \in OrigTags : Owned(n, u, t)
  BY OneOwnerEach DEF Parts
<1>2. Phase(TagView(n), UserView(u, t))
  BY <1>1 DEF Parts, Lives
<1> QED
  BY <1>1, <1>2, ViewsTyped, OneOwnerEach DEF Parts, Renamed

(* When all is as it was for the users, their views are.                   *)
LEMMA UsersKept ==
  ASSUME UNCHANGED <<userQs, out>>
  PROVE  /\ \A u, t : UserView(u, t)' = UserView(u, t)
         /\ (AllHome => AllHome')
  BY DEF UserView, userQs, AllHome

(* What is to come of a page is at most the page.                          *)
LEMMA ToComeRange ==
  ASSUME Parts, NEW n \in Tags, ToCome(n) > 0
  PROVE  n \in inUse /\ ToCome(n) \in 1 .. PageWords
<1>1. Unread(ctrl[n]) \in 0 .. PageWords /\ Count(flashRespQ0, n) \in Nat /\ Unread(Idle) = 0
  BY RecordFields, Counts DEF Parts, Typed
<1>2. ctrl[n] # Idle \/ Count(flashRespQ0, n) # 0
  BY <1>1 DEF ToCome
<1>3. n \in inUse
  BY <1>2, Fields, SomewhereInUse DEF Parts
<1>4. PICK u \in Users, t \in OrigTags :
        UserView(u, t) \in UserViews /\ Phase(TagView(n), UserView(u, t)) /\ TagView(n) \in TagViews
  BY <1>3, Living
<1>5. CASE Reading(TagView(n), UserView(u, t))
  <2>1. /\ UserView(u, t).out.got \in Nat /\ UserView(u, t).words \in Nat
        /\ UserView(u, t).out.got + UserView(u, t).words + Unread(ctrl[n]) + Count(flashRespQ0, n)
             = PageWords
    BY <1>4, <1>5, Fields, RecordFields DEF Reading
  <2> QED
    BY <1>1, <1>3, <2>1, PageSize DEF ToCome
<1>6. CASE ~Reading(TagView(n), UserView(u, t))
  <2>1. ctrl[n].op # "READ" /\ Count(flashRespQ0, n) = 0
    BY <1>4, <1>6, Fields, RecordFields DEF Phase, Waiting, Writing, Erasing, Answering
  <2> QED
    BY <2>1 DEF ToCome, Unread
<1> QED
  BY <1>5, <1>6

(* The controller takes a command.                                         *)
LEMMA CtrlSendCmdStep ==
  ASSUME SwitchInv, CtrlSendCmd
  PROVE  Parts' /\ UNCHANGED renameVars
<1> USE DEF SwitchInv, Parts
<1>1. PICK c \in Cmds : c = Head(cmdOutputQ) /\ c = cmdOutputQ[1] /\ 1 \in 1 .. Len(cmdOutputQ)
  BY Dequeued DEF CtrlSendCmd, Typed
<1> DEFINE n == c.tag
           at == [op |-> c.op, bus |-> c.bus, st |-> "accepted", left |-> PageWords, own |-> c.own]
<1>2. /\ NotEmpty(cmdOutputQ) /\ cmdOutputQ' = Tail(cmdOutputQ) /\ ctrl' = [ctrl EXCEPT ![n] = at]
      /\ UNCHANGED <<initCnt, init, freeTagQ, tb, readReqQ, inUse, writeWordQ, tagRenames>>
      /\ UNCHANGED <<flashRespQ0, flashRespQ1, flashRespQ2, beatCnts, out>>
      /\ UNCHANGED <<readWordQs, writeReqQs, ackStatusQs>> /\ UNCHANGED renameVars
  BY <1>1 DEF CtrlSendCmd, renameVars, flashRespQs, userQs
<1>3. n \in Tags /\ at \in Works \ {Idle} /\ Unread(at) \in 0 .. PageWords
  BY PageSize DEF Cmds, Works, Idle, Unread
<1>4. n \in inUse /\ CmdFits(c)
  BY <1>1, QueuedInUse DEF CmdsFit
<1>5. PICK u \in Users, t \in OrigTags :
        Owned(n, u, t) /\ c.own = <<u, t>> /\ c.bus = tb[n].bus /\ c.op = out[u][t].op
  BY <1>4 DEF CmdFits
<1>6. Phase(TagView(n), UserView(u, t))
  BY <1>4, <1>5 DEF Lives
<1> HIDE DEF n, at
<1>7. /\ ctrl'[n] = at /\ \A m \in Tags \ {n} : ctrl'[m] = ctrl[m]
      /\ ctrl' \in [Tags -> Works]
  BY <1>2, <1>3 DEF Typed
<1>8. /\ cmdOutputQ' \in Seq(Cmds)
      /\ Count(cmdOutputQ', n) = Count(cmdOutputQ, n) - 1 /\ Count(cmdOutputQ, n) > 0
      /\ \A m \in Tags \ {n} : Count(cmdOutputQ', m) = Count(cmdOutputQ, m)
  <2>1. cmdOutputQ \in Seq(Cmds) /\ Head(cmdOutputQ).tag = n
    BY <1>1 DEF Typed, n
  <2> QED
    BY <1>2, <2>1, CountGet, Dequeued
<1>9. Typed'
  BY <1>2, <1>7, <1>8 DEF Typed, RenameTypeOK
<1>10. OtherTags(n)
  BY <1>2, <1>7, <1>8 DEF OtherTags, TagView
<1>11. \A v, s : UserView(v, s)' = UserView(v, s)
  BY <1>2 DEF UserView
<1>12. /\ TagView(n)'.at = at /\ TagView(n)'.cmds = TagView(n).cmds - 1
       /\ TagView(n)'.sent = TagView(n).sent /\ TagView(n)'.words = TagView(n).words
       /\ TagView(n)'.reqs = TagView(n).reqs /\ TagView(n)'.acks = TagView(n).acks
  BY <1>2, <1>7, <1>8 DEF TagView
<1>13. /\ TagView(n) \in TagViews /\ TagView(n)' \in TagViews
       /\ UserView(u, t) \in UserViews /\ UserView(u, t).out.op = at.op
  BY <1>3, <1>5, <1>9, ViewsTyped, ViewsTypedNext, Fields DEF at
<1>14. Phase(TagView(n)', UserView(u, t)) /\ TagView(n).at = Idle /\ TagView(n).words = 0
  <2>1. TagView(n)'.at.st = "accepted" /\ TagView(n)'.at.left = PageWords
        /\ TagView(n)'.at.op = UserView(u, t).out.op /\ TagView(n).cmds > 0
    BY <1>8, <1>12, <1>13, Fields DEF at
  <2> QED
    BY <1>6, <1>12, <1>13, <2>1, Accepts
<1>15. Lives'
  BY <1>2, <1>4, <1>5, <1>10, <1>11, <1>14, TagMoves DEF OtherUsers
<1>16. Renamed' /\ AllHome'
  BY <1>2, RenamedKept, UsersKept DEF userQs
<1>17. AllBelong'
  <2>1. Belonging' = Belonging
    BY <1>2 DEF Belonging
  <2>2. ctrl'[n].own = <<tb[n].channel, tb[n].tag>> /\ ctrl'[n].bus = tb[n].bus
    BY <1>5, <1>7 DEF Owned, at
  <2> QED
    BY <1>2, <1>7, <2>1, <2>2 DEF AllBelong
<1>18. CmdsFit'
  <2>1. \A x : CmdFits(x)' <=> CmdFits(x)
    BY <1>2 DEF CmdFits, Owned
  <2>2. \A i \in 1 .. Len(cmdOutputQ') : CmdFits(cmdOutputQ'[i])
    <3>1. cmdOutputQ \in Seq(Cmds)
      BY DEF Typed
    <3>2. \A i \in 1 .. Len(Tail(cmdOutputQ)) :
             Tail(cmdOutputQ)[i] = cmdOutputQ[i + 1] /\ i + 1 \in 1 .. Len(cmdOutputQ)
      BY <1>2, <3>1, Dequeued
    <3> QED
      BY <1>2, <3>2 DEF CmdsFit
  <2> QED
    BY <2>1, <2>2 DEF CmdsFit
<1>19. PortsFollow'
  BY <1>2 DEF PortsFollow
<1>20. PagesApart' /\ BeatsCounted'
  <2>1. \A m \in Tags \ {n} : Unread(ctrl'[m]) = Unread(ctrl[m]) /\ ToCome(m)' = ToCome(m)
    BY <1>2, <1>7 DEF ToCome
  <2>2. Unread(ctrl[n]) = 0 /\ Count(flashRespQ0, n) = 0 /\ ToCome(n) = 0
    BY <1>14, Fields, RecordFields DEF ToCome
  <2>3. ToCome(n)' = Unread(at) /\ (Unread(at) = 0 \/ Unread(at) = PageWords)
    BY <1>2, <1>7, <2>2, PageSize DEF ToCome, Unread, at
  <2>4. ~Begun(n)' /\ ~Begun(n) /\ \A m \in Tags \ {n} : Begun(m)' <=> Begun(m)
    BY <2>1, <2>2, <2>3, PageSize DEF Begun
  <2>5. \A i \in 1 .. Len(flashRespQ0) : flashRespQ0[i].tag # n
    BY <2>2, Counts DEF Typed
  <2>6. PagesApart'
    <3> SUFFICES ASSUME NEW j \in 1 .. Len(flashRespQ0), NEW m \in Tags, ToCome(m)' > 0,
                        m # flashRespQ0[j].tag, SameBus(m, flashRespQ0[j].tag)
                 PROVE  \/ /\ Unread(ctrl'[m]) = 0
                           /\ \A k \in 1 .. Len(flashRespQ0) : flashRespQ0[k].tag = m => k < j
                        \/ /\ ToCome(m)' = PageWords
                           /\ \A k \in 1 .. Len(flashRespQ0) : flashRespQ0[k].tag = m => k > j
      BY <1>2 DEF PagesApart, SameBus
    <3>1. CASE m = n
      BY <2>3, <2>5, <3>1, PageSize
    <3>2. CASE m # n
      BY <2>1, <3>2 DEF PagesApart
    <3> QED
      BY <3>1, <3>2
  <2>7. BeatsCounted'
    <3>1. \A m \in Tags : Begun(m)' =>
            /\ beatCnts[tb[m].bus] = PageWords - ToCome(m)'
            /\ \A k \in Tags \ {m} : Begun(k)' => ~SameBus(m, k)
      BY <2>1, <2>4 DEF BeatsCounted
    <3>2. \A b \in Buses : beatCnts[b] # 0 => \E m \in Tags : Begun(m)' /\ tb[m].bus = b
      BY <2>4 DEF BeatsCounted
    <3> QED
      BY <1>2, <3>1, <3>2 DEF BeatsCounted, SameBus
  <2> QED
    BY <2>6, <2>7
<1> QED
  BY <1>2, <1>9, <1>15, <1>16, <1>17, <1>18, <1>19, <1>20

(* The controller asks for the entry of a tag in use.                      *)
LEMMA EntryAsked ==
  ASSUME Typed, NEW p \in 0 .. 2, NEW n \in inUse, ReadEntry(p, n),
         UNCHANGED <<initCnt, init, freeTagQ, tb, inUse>>
  PROVE  /\ RequestEntry
         /\ readReqQ' \in [Ports -> Seq(Tags)]
         /\ readReqQ[p] \in Seq(Tags) /\ readReqQ'[p] = Append(readReqQ[p], n)
         /\ \A o \in 0 .. 2 : o # p => readReqQ'[o] = readReqQ[o]
<1>1. p \in Ports /\ Ports = 0 .. 2
  BY FlashSwitchAssumption
<1>2. RequestEntry
  BY <1>1 DEF RequestEntry
<1>3. readReqQ \in [Ports -> Seq(Tags)] /\ n \in Tags
  BY DEF Typed, RenameTypeOK
<1>4. readReqQ' = [readReqQ EXCEPT ![p] = Append(@, n)]
  BY DEF ReadEntry
<1> QED
  BY <1>1, <1>2, <1>3, <1>4

(* The controller sends up an item for a tag it works on: it belongs to    *)
(* the owner of the tag, and only its queue counts it.                     *)
LEMMA ItemSent ==
  ASSUME Parts, NEW n \in Tags, ctrl[n] # Idle, NEW q \in Seq(Items), q \in Seq(Belonging)
  PROVE  LET x == [tag |-> n, own |-> ctrl[n].own] IN
         /\ x \in Items /\ n \in inUse
         /\ Append(q, x) \in Seq(Items) /\ Append(q, x) \in Seq(Belonging)
         /\ Count(Append(q, x), n) = Count(q, n) + 1
         /\ \A m \in Tags \ {n} : Count(Append(q, x), m) = Count(q, m)
<1> DEFINE x == [tag |-> n, own |-> ctrl[n].own]
<1>1. n \in inUse
  BY SomewhereInUse, Fields DEF Parts
<1>2. ctrl[n].own = <<tb[n].channel, tb[n].tag>> /\ tb[n] \in Entries
  BY <1>1 DEF Parts, AllBelong, Renamed
<1>3. x \in Items /\ x \in Belonging /\ x.tag = n
  BY <1>2 DEF Items, Owns, Entries, Belonging
<1> HIDE DEF x
<1>4. /\ Append(q, x) \in Seq(Items) /\ Append(q, x) \in Seq(Belonging)
      /\ Count(Append(q, x), n) = Count(q, n) + 1
      /\ \A m \in Tags \ {n} : Count(Append(q, x), m) = Count(q, m)
  BY <1>3, CountPut
<1> QED
  BY <1>1, <1>3, <1>4 DEF x

(* The controller sends a word of a page that is read.                     *)
LEMMA CtrlReadWordStep ==
  ASSUME SwitchInv, NEW n \in Tags, CtrlReadWord(n)
  PROVE  Parts' /\ RequestEntry
<1> USE DEF SwitchInv, Parts
<1> DEFINE x == [tag |-> n, own |-> ctrl[n].own]
           at == IF ctrl[n].left = 1 THEN Idle ELSE [ctrl[n] EXCEPT !.left = @ - 1]
<1>1. /\ ctrl[n].op = "READ" /\ ctrl' = [ctrl EXCEPT ![n] = at]
      /\ \A o \in Tags \ {n} :
           (ctrl[o].op = "READ" /\ ctrl[o].bus = ctrl[n].bus) => ctrl[o].left = PageWords
      /\ flashRespQ0' = Append(flashRespQ0, x) /\ ReadEntry(0, n)
      /\ UNCHANGED <<initCnt, init, freeTagQ, tb, inUse, cmdOutputQ, writeWordQ, tagRenames>>
      /\ UNCHANGED <<flashRespQ1, flashRespQ2, beatCnts, readWordQs, writeReqQs, ackStatusQs, out>>
  BY DEF CtrlReadWord, Others, down, userQs, Typed
<1>2. ctrl[n] \in Works \ {Idle} /\ ctrl[n].own \in Owns
  BY <1>1, RecordFields DEF Typed, Works, Idle
<1>3. /\ n \in inUse /\ x \in Items
      /\ flashRespQ0' \in Seq(Items) /\ flashRespQ0' \in Seq(Belonging)
      /\ Count(flashRespQ0', n) = Count(flashRespQ0, n) + 1
      /\ \A m \in Tags \ {n} : Count(flashRespQ0', m) = Count(flashRespQ0, m)
      /\ Belonging' = Belonging
  <2>1. flashRespQ0 \in Seq(Items) /\ flashRespQ0 \in Seq(Belonging)
    BY DEF Typed, AllBelong
  <2>2. Belonging' = Belonging
    BY <1>1 DEF Belonging
  <2> QED
    BY <1>1, <1>2, <2>1, <2>2, ItemSent
<1>4. /\ RequestEntry /\ readReqQ' \in [Ports -> Seq(Tags)]
      /\ readReqQ[0] \in Seq(Tags) /\ readReqQ'[0] = Append(readReqQ[0], n)
      /\ readReqQ'[1] = readReqQ[1] /\ readReqQ'[2] = readReqQ[2]
  BY <1>1, <1>3, EntryAsked
<1>5. PICK u \in Users, t \in OrigTags :
        Owned(n, u, t) /\ UserView(u, t) \in UserViews /\ Phase(TagView(n), UserView(u, t))
  BY <1>3, Living
<1>6. ctrl[n].left \in 1 .. PageWords
  <2>1. Reading(TagView(n), UserView(u, t))
    BY <1>1, <1>5, Fields, RecordFields DEF Phase, Waiting, Writing, Erasing, Answering
  <2> QED
    BY <1>2, <2>1, Fields, RecordFields, PageSize DEF Reading
<1>7. at \in Works
  BY <1>2, <1>6, PageSize DEF Works, Idle
<1> HIDE DEF x, at
<1>8. /\ ctrl'[n] = at /\ \A m \in Tags \ {n} : ctrl'[m] = ctrl[m]
      /\ ctrl' \in [Tags -> Works]
  BY <1>1, <1>7 DEF Typed
<1>9. Typed'
  BY <1>1, <1>3, <1>4, <1>8 DEF Typed, RenameTypeOK
<1>10. OtherTags(n)
  BY <1>1, <1>3, <1>8 DEF OtherTags, TagView
<1>11. \A v, s : UserView(v, s)' = UserView(v, s)
  BY <1>1 DEF UserView
<1>12. /\ TagView(n)'.at = at /\ TagView(n)'.cmds = TagView(n).cmds
       /\ TagView(n)'.sent = TagView(n).sent /\ TagView(n)'.words = TagView(n).words + 1
       /\ TagView(n)'.reqs = TagView(n).reqs /\ TagView(n)'.acks = TagView(n).acks
       /\ TagView(n) \in TagViews /\ TagView(n)' \in TagViews /\ TagView(n).at = ctrl[n]
  BY <1>1, <1>3, <1>8, <1>9, ViewsTyped, ViewsTypedNext DEF TagView
<1>13. /\ Phase(TagView(n)', UserView(u, t)) /\ Unread(at) = Unread(ctrl[n]) - 1
       /\ Unread(ctrl[n]) = ctrl[n].left
       /\ (at # Idle => at.own = ctrl[n].own /\ at.bus = ctrl[n].bus)
  <2>1. TagView(n)'.at = IF TagView(n).at.left = 1 THEN Idle ELSE [TagView(n).at EXCEPT !.left = @ - 1]
    BY <1>12 DEF at
  <2> QED
    BY <1>1, <1>5, <1>12, <2>1, SendsWord
<1>14. Lives'
  BY <1>1, <1>3, <1>5, <1>10, <1>11, <1>13, TagMoves DEF OtherUsers
<1>15. Renamed' /\ AllHome' /\ CmdsFit'
  BY <1>1, RenamedKept, UsersKept, CmdsKept DEF userQs
<1>16. AllBelong'
  <2>1. at # Idle => at.own = <<tb[n].channel, tb[n].tag>> /\ at.bus = tb[n].bus
    BY <1>2, <1>13 DEF AllBelong
  <2>2. \A m \in Tags : ctrl'[m] # Idle =>
          ctrl'[m].own = <<tb[m].channel, tb[m].tag>> /\ ctrl'[m].bus = tb[m].bus
    BY <1>8, <2>1 DEF AllBelong
  <2>3. writeWordQ \in Seq(Belonging) /\ flashRespQ1 \in Seq(Belonging) /\ flashRespQ2 \in Seq(Belonging)
    BY DEF AllBelong
  <2> QED
    BY <1>1, <1>3, <2>2, <2>3 DEF AllBelong
<1>17. PortsFollow'
  <2>1. SameTags(readReqQ'[0], flashRespQ0')
    <3>1. SameTags(readReqQ[0], flashRespQ0) /\ flashRespQ0 \in Seq(Items) /\ x.tag = n
      BY DEF PortsFollow, Typed, x
    <3> QED
      BY <1>1, <1>3, <1>4, <3>1, SameTagsPut
  <2> QED
    BY <1>1, <1>4, <2>1 DEF PortsFollow
<1>18. \A m \in Tags : ToCome(m)' = ToCome(m) /\ (Begun(m)' <=> Begun(m))
  <2>1. ToCome(n)' = ToCome(n)
    <3>1. Count(flashRespQ0, n) \in Nat
      BY Counts DEF Typed
    <3> QED
      BY <1>3, <1>6, <1>8, <1>13, <3>1 DEF ToCome
  <2>2. \A m \in Tags \ {n} : ToCome(m)' = ToCome(m)
    BY <1>3, <1>8 DEF ToCome
  <2> QED
    BY <2>1, <2>2 DEF Begun
<1>19. BeatsCounted'
  BY <1>1, <1>18 DEF BeatsCounted, SameBus
<1>20. PagesApart'
  <2>1. /\ Len(flashRespQ0) \in Nat /\ Len(flashRespQ0') = Len(flashRespQ0) + 1
        /\ flashRespQ0'[Len(flashRespQ0) + 1].tag = n
        /\ \A i \in 1 .. Len(flashRespQ0) : flashRespQ0'[i] = flashRespQ0[i]
    BY <1>1, <1>3, Enqueued DEF Typed, x
  <2> SUFFICES ASSUME NEW j \in 1 .. Len(flashRespQ0'), NEW m \in Tags, ToCome(m) > 0,
                      m # flashRespQ0'[j].tag, SameBus(m, flashRespQ0'[j].tag)
               PROVE  \/ /\ Unread(ctrl'[m]) = 0
                         /\ \A k \in 1 .. Len(flashRespQ0') : flashRespQ0'[k].tag = m => k < j
                      \/ /\ ToCome(m) = PageWords
                         /\ \A k \in 1 .. Len(flashRespQ0') : flashRespQ0'[k].tag = m => k > j
    BY <1>1, <1>18 DEF PagesApart, SameBus
  <2>2. CASE j = Len(flashRespQ0) + 1
    <3>1. m # n /\ SameBus(m, n)
      BY <2>1, <2>2
    <3>2. CASE ctrl[m].op = "READ"
      <4>1. ctrl[m] # Idle /\ ctrl[m].bus = ctrl[n].bus
        BY <1>2, <3>1, <3>2, RecordFields DEF AllBelong, SameBus
      <4>2. ctrl[m].left = PageWords /\ Unread(ctrl[m]) = PageWords
        BY <1>1, <3>1, <3>2, <4>1 DEF Unread
      <4>3. ToCome(m) \in 1 .. PageWords
        BY ToComeRange
      <4>4. Count(flashRespQ0, m) = 0 /\ ToCome(m) = PageWords
        BY <4>2, <4>3, PageSize, Counts DEF ToCome, Typed
      <4>5. \A k \in 1 .. Len(flashRespQ0) : flashRespQ0[k].tag # m
        BY <4>4, Counts DEF Typed
      <4> QED
        BY <2>1, <3>1, <4>4, <4>5
    <3>3. CASE ctrl[m].op # "READ"
      BY <1>8, <2>1, <2>2, <3>1, <3>3 DEF Unread
    <3> QED
      BY <3>2, <3>3
  <2>3. CASE j # Len(flashRespQ0) + 1
    <3>1. j \in 1 .. Len(flashRespQ0) /\ flashRespQ0'[j] = flashRespQ0[j]
      BY <2>1, <2>3
    <3>2. \/ /\ Unread(ctrl[m]) = 0
             /\ \A k \in 1 .. Len(flashRespQ0) : flashRespQ0[k].tag = m => k < j
          \/ /\ ToCome(m) = PageWords
             /\ \A k \in 1 .. Len(flashRespQ0) : flashRespQ0[k].tag = m => k > j
      BY <3>1 DEF PagesApart
    <3>3. CASE m = n
      BY <1>6, <1>13, <2>1, <3>1, <3>2, <3>3
    <3>4. CASE m # n
      BY <1>8, <2>1, <3>1, <3>2, <3>4
    <3> QED
      BY <3>3, <3>4
  <2> QED
    BY <2>2, <2>3
<1> QED
  BY <1>4, <1>9, <1>14, <1>15, <1>16, <1>17, <1>19, <1>20

(* The controller asks for the page of a write.                            *)
LEMMA CtrlWriteDataReqStep ==
  ASSUME SwitchInv, NEW n \in Tags, CtrlWriteDataReq(n)
  PROVE  Parts' /\ RequestEntry
<1> USE DEF SwitchInv, Parts
<1> DEFINE x == [tag |-> n, own |-> ctrl[n].own]
           at == [ctrl[n] EXCEPT !.st = "fetching"]
<1>1. /\ ctrl[n].op = "WRITE" /\ ctrl[n].st = "accepted" /\ ctrl' = [ctrl EXCEPT ![n] = at]
      /\ flashRespQ1' = Append(flashRespQ1, x) /\ ReadEntry(1, n)
      /\ UNCHANGED <<initCnt, init, freeTagQ, tb, inUse, cmdOutputQ, writeWordQ, tagRenames>>
      /\ UNCHANGED <<flashRespQ0, flashRespQ2, beatCnts, readWordQs, writeReqQs, ackStatusQs, out>>
  BY DEF CtrlWriteDataReq, down, userQs, Typed
<1>2. ctrl[n] \in Works \ {Idle} /\ ctrl[n].own \in Owns
  BY <1>1, RecordFields DEF Typed, Works, Idle
<1>3. /\ n \in inUse /\ x \in Items
      /\ flashRespQ1' \in Seq(Items) /\ flashRespQ1' \in Seq(Belonging)
      /\ Count(flashRespQ1', n) = Count(flashRespQ1, n) + 1
      /\ \A m \in Tags \ {n} : Count(flashRespQ1', m) = Count(flashRespQ1, m)
      /\ Belonging' = Belonging
  <2>1. flashRespQ1 \in Seq(Items) /\ flashRespQ1 \in Seq(Belonging)
    BY DEF Typed, AllBelong
  <2>2. Belonging' = Belonging
    BY <1>1 DEF Belonging
  <2> QED
    BY <1>1, <1>2, <2>1, <2>2, ItemSent
<1>4. /\ RequestEntry /\ readReqQ' \in [Ports -> Seq(Tags)]
      /\ readReqQ[1] \in Seq(Tags) /\ readReqQ'[1] = Append(readReqQ[1], n)
      /\ readReqQ'[0] = readReqQ[0] /\ readReqQ'[2] = readReqQ[2]
  BY <1>1, <1>3, EntryAsked
<1>5. PICK u \in Users, t \in OrigTags :
        Owned(n, u, t) /\ UserView(u, t) \in UserViews /\ Phase(TagView(n), UserView(u, t))
  BY <1>3, Living
<1>6. /\ at \in Works /\ at # Idle /\ at.own = ctrl[n].own /\ at.bus = ctrl[n].bus
      /\ Unread(at) = 0 /\ Unread(ctrl[n]) = 0
  BY <1>1, <1>2 DEF Works, Idle, Unread
<1> HIDE DEF x, at
<1>8. /\ ctrl'[n] = at /\ \A m \in Tags \ {n} : ctrl'[m] = ctrl[m]
      /\ ctrl' \in [Tags -> Works]
  BY <1>1, <1>6 DEF Typed
<1>9. Typed'
  BY <1>1, <1>3, <1>4, <1>8 DEF Typed, RenameTypeOK
<1>10. OtherTags(n)
  BY <1>1, <1>3, <1>8 DEF OtherTags, TagView
<1>11. \A v, s : UserView(v, s)' = UserView(v, s)
  BY <1>1 DEF UserView
<1>12. /\ TagView(n)'.at = [TagView(n).at EXCEPT !.st = "fetching"]
       /\ TagView(n)'.cmds = TagView(n).cmds /\ TagView(n)'.sent = TagView(n).sent
       /\ TagView(n)'.words = TagView(n).words /\ TagView(n)'.reqs = TagView(n).reqs + 1
       /\ TagView(n)'.acks = TagView(n).acks
       /\ TagView(n) \in TagViews /\ TagView(n)' \in TagViews /\ TagView(n).at = ctrl[n]
  BY <1>1, <1>3, <1>8, <1>9, ViewsTyped, ViewsTypedNext DEF TagView, at
<1>13. Phase(TagView(n)', UserView(u, t))
  BY <1>1, <1>5, <1>12, AsksForPage
<1>14. Lives'
  BY <1>1, <1>3, <1>5, <1>10, <1>11, <1>13, TagMoves DEF OtherUsers
<1>15. Renamed' /\ AllHome' /\ CmdsFit'
  BY <1>1, RenamedKept, UsersKept, CmdsKept DEF userQs
<1>16. AllBelong'
  BY <1>1, <1>2, <1>3, <1>6, <1>8 DEF AllBelong
<1>17. PortsFollow'
  <2>1. SameTags(readReqQ'[1], flashRespQ1')
    <3>1. SameTags(readReqQ[1], flashRespQ1) /\ flashRespQ1 \in Seq(Items) /\ x.tag = n
      BY DEF PortsFollow, Typed, x
    <3> QED
      BY <1>1, <1>3, <1>4, <3>1, SameTagsPut
  <2> QED
    BY <1>1, <1>4, <2>1 DEF PortsFollow
<1>18. PagesApart' /\ BeatsCounted'
  BY <1>1, <1>6, <1>8, ReadsKept
<1> QED
  BY <1>4, <1>9, <1>14, <1>15, <1>16, <1>17, <1>18

(* The controller acknowledges a write or an erase.                        *)
LEMMA CtrlAckStatusStep ==
  ASSUME SwitchInv, NEW n \in Tags, CtrlAckStatus(n)
  PROVE  Parts' /\ RequestEntry
<1> USE DEF SwitchInv, Parts
<1> DEFINE x == [tag |-> n, own |-> ctrl[n].own]
<1>1. /\ (ctrl[n].op = "WRITE" /\ ctrl[n].st = "programming") \/ ctrl[n].op = "ERASE"
      /\ ctrl' = [ctrl EXCEPT ![n] = Idle]
      /\ flashRespQ2' = Append(flashRespQ2, x) /\ ReadEntry(2, n)
      /\ UNCHANGED <<initCnt, init, freeTagQ, tb, inUse, cmdOutputQ, writeWordQ, tagRenames>>
      /\ UNCHANGED <<flashRespQ0, flashRespQ1, beatCnts, readWordQs, writeReqQs, ackStatusQs, out>>
  BY DEF CtrlAckStatus, down, userQs
<1>2. ctrl[n] # Idle
  BY <1>1, RecordFields
<1>3. /\ n \in inUse /\ x \in Items
      /\ flashRespQ2' \in Seq(Items) /\ flashRespQ2' \in Seq(Belonging)
      /\ Count(flashRespQ2', n) = Count(flashRespQ2, n) + 1
      /\ \A m \in Tags \ {n} : Count(flashRespQ2', m) = Count(flashRespQ2, m)
      /\ Belonging' = Belonging
  <2>1. flashRespQ2 \in Seq(Items) /\ flashRespQ2 \in Seq(Belonging)
    BY DEF Typed, AllBelong
  <2>2. Belonging' = Belonging
    BY <1>1 DEF Belonging
  <2> QED
    BY <1>1, <1>2, <2>1, <2>2, ItemSent
<1>4. /\ RequestEntry /\ readReqQ' \in [Ports -> Seq(Tags)]
      /\ readReqQ[2] \in Seq(Tags) /\ readReqQ'[2] = Append(readReqQ[2], n)
      /\ readReqQ'[0] = readReqQ[0] /\ readReqQ'[1] = readReqQ[1]
  BY <1>1, <1>3, EntryAsked
<1>5. PICK u \in Users, t \in OrigTags :
        Owned(n, u, t) /\ UserView(u, t) \in UserViews /\ Phase(TagView(n), UserView(u, t))
  BY <1>3, Living
<1>6. Unread(Idle) = 0 /\ Unread(ctrl[n]) = 0
  BY <1>1, RecordFields DEF Unread
<1> HIDE DEF x
<1>8. /\ ctrl'[n] = Idle /\ \A m \in Tags \ {n} : ctrl'[m] = ctrl[m]
      /\ ctrl' \in [Tags -> Works]
  BY <1>1 DEF Typed, Works
<1>9. Typed'
  BY <1>1, <1>3, <1>4, <1>8 DEF Typed, RenameTypeOK
<1>10. OtherTags(n)
  BY <1>1, <1>3, <1>8 DEF OtherTags, TagView
<1>11. \A v, s : UserView(v, s)' = UserView(v, s)
  BY <1>1 DEF UserView
<1>12. /\ TagView(n)'.at = Idle
       /\ TagView(n)'.cmds = TagView(n).cmds /\ TagView(n)'.sent = TagView(n).sent
       /\ TagView(n)'.words = TagView(n).words /\ TagView(n)'.reqs = TagView(n).reqs
       /\ TagView(n)'.acks = TagView(n).acks + 1
       /\ TagView(n) \in TagViews /\ TagView(n)' \in TagViews /\ TagView(n).at = ctrl[n]
  BY <1>1, <1>3, <1>8, <1>9, ViewsTyped, ViewsTypedNext DEF TagView
<1>13. Phase(TagView(n)', UserView(u, t))
  BY <1>1, <1>5, <1>12, SendsAck
<1>14. Lives'
  BY <1>1, <1>3, <1>5, <1>10, <1>11, <1>13, TagMoves DEF OtherUsers
<1>15. Renamed' /\ AllHome' /\ CmdsFit'
  BY <1>1, RenamedKept, UsersKept, CmdsKept DEF userQs
<1>16. AllBelong'
  BY <1>1, <1>3, <1>8 DEF AllBelong
<1>17. PortsFollow'
  <2>1. SameTags(readReqQ'[2], flashRespQ2')
    <3>1. SameTags(readReqQ[2], flashRespQ2) /\ flashRespQ2 \in Seq(Items) /\ x.tag = n
      BY DEF PortsFollow, Typed, x
    <3> QED
      BY <1>1, <1>3, <1>4, <3>1, SameTagsPut
  <2> QED
    BY <1>1, <1>4, <2>1 DEF PortsFollow
<1>18. PagesApart' /\ BeatsCounted'
  BY <1>1, <1>6, <1>8, ReadsKept
<1> QED
  BY <1>4, <1>9, <1>14, <1>15, <1>16, <1>17, <1>18

(* A word less to fetch, or the page is complete.                          *)
LEMMA FetchedWork ==
  ASSUME NEW c \in Works, c # Idle, c.op = "WRITE", c.left \in 1 .. PageWords
  PROVE  /\ Fetched(c) \in Works /\ Fetched(c) # Idle
         /\ Fetched(c).own = c.own /\ Fetched(c).bus = c.bus
         /\ Unread(Fetched(c)) = 0 /\ Unread(c) = 0
<1> DEFINE W == [op : Ops, bus : Buses, st : {"accepted", "fetching", "programming"},
                 left : 0 .. PageWords, own : Owns]
           d == Fetched(c)
<1>1. c \in W
  BY DEF Works
<1>2. d \in W /\ d.op = c.op /\ d.own = c.own /\ d.bus = c.bus
  <2>1. CASE c.left = 1
    <3>1. 0 \in 0 .. PageWords
      BY PageSize
    <3> QED
      BY <1>1, <2>1, <3>1 DEF Fetched
  <2>2. CASE c.left # 1
    <3>1. c.left - 1 \in 0 .. PageWords
      BY <2>2, PageSize
    <3> QED
      BY <1>1, <2>2, <3>1 DEF Fetched
  <2> QED
    BY <2>1, <2>2
<1>3. d \in Works
  BY <1>2 DEF Works
<1> HIDE DEF d
<1>4. d # Idle /\ Unread(d) = 0 /\ Unread(c) = 0
  BY <1>2, <1>3, RecordFields DEF Unread
<1> QED
  BY <1>2, <1>3, <1>4 DEF d

(* The controller takes a word for a page to be written.                   *)
LEMMA CtrlWriteWordStep ==
  ASSUME SwitchInv, CtrlWriteWord
  PROVE  Parts' /\ UNCHANGED renameVars
<1> USE DEF SwitchInv, Parts
<1>1. PICK x \in Items : x = Head(writeWordQ) /\ x = writeWordQ[1] /\ 1 \in 1 .. Len(writeWordQ)
                         /\ writeWordQ \in Seq(Items) /\ NotEmpty(writeWordQ)
  BY Dequeued DEF CtrlWriteWord, Typed
<1> DEFINE n == x.tag
           at == Fetched(ctrl[n])
<1>2. n \in inUse /\ n \in Tags
  BY <1>1, QueuedInUse DEF Items
<1>3. PICK u \in Users, t \in OrigTags :
        /\ Owned(n, u, t) /\ UserView(u, t) \in UserViews /\ Phase(TagView(n), UserView(u, t))
        /\ TagView(n) \in TagViews
  BY <1>2, Living
<1>4. Count(writeWordQ, n) > 0
  BY <1>1, CountGet
<1>5. /\ ctrl[n].st = "fetching" /\ ctrl[n] # Idle /\ ctrl[n].op = "WRITE"
      /\ ctrl[n].left \in 1 .. PageWords /\ ctrl[n] \in Works
  <2>1. TagView(n).at = ctrl[n] /\ TagView(n).sent > 0
    BY <1>4, Fields
  <2>2. ctrl[n] \in Works
    BY <1>2 DEF Typed
  <2> HIDE DEF n
  <2> QED
    BY <1>3, <2>1, <2>2, WordExpected
<1>6. /\ writeWordQ' = Tail(writeWordQ) /\ ctrl' = [ctrl EXCEPT ![n] = at]
      /\ UNCHANGED <<initCnt, init, freeTagQ, tb, readReqQ, inUse, cmdOutputQ, tagRenames>>
      /\ UNCHANGED <<flashRespQ0, flashRespQ1, flashRespQ2, beatCnts, out>>
      /\ UNCHANGED <<readWordQs, writeReqQs, ackStatusQs>> /\ UNCHANGED renameVars
  BY <1>1, <1>5 DEF CtrlWriteWord, Fetched, renameVars, flashRespQs, userQs
<1>7. /\ at \in Works /\ at # Idle /\ at.own = ctrl[n].own /\ at.bus = ctrl[n].bus
      /\ Unread(at) = 0 /\ Unread(ctrl[n]) = 0
  BY <1>5, FetchedWork
<1> HIDE DEF n, at
<1>8. /\ ctrl'[n] = at /\ \A m \in Tags \ {n} : ctrl'[m] = ctrl[m]
      /\ ctrl' \in [Tags -> Works]
  BY <1>2, <1>6, <1>7 DEF Typed
<1>9. /\ writeWordQ' \in Seq(Items) /\ writeWordQ' \in Seq(Belonging) /\ Belonging' = Belonging
      /\ Count(writeWordQ', n) = Count(writeWordQ, n) - 1
      /\ \A m \in Tags \ {n} : Count(writeWordQ', m) = Count(writeWordQ, m)
  <2>1. Belonging' = Belonging
    BY <1>6 DEF Belonging
  <2>2. writeWordQ \in Seq(Belonging)
    BY DEF AllBelong
  <2>3. Head(writeWordQ).tag = n
    BY <1>1 DEF n
  <2> QED
    BY <1>1, <1>6, <2>1, <2>2, <2>3, CountGet, Dequeued
<1>10. Typed'
  BY <1>6, <1>8, <1>9 DEF Typed, RenameTypeOK
<1>11. OtherTags(n)
  BY <1>6, <1>8, <1>9 DEF OtherTags, TagView
<1>12. \A v, s : UserView(v, s)' = UserView(v, s)
  BY <1>6 DEF UserView
<1>13. /\ TagView(n)'.at = Fetched(TagView(n).at)
       /\ TagView(n)'.cmds = TagView(n).cmds /\ TagView(n)'.sent = TagView(n).sent - 1
       /\ TagView(n)'.words = TagView(n).words /\ TagView(n)'.reqs = TagView(n).reqs
       /\ TagView(n)'.acks = TagView(n).acks
       /\ TagView(n)' \in TagViews /\ TagView(n).sent > 0
  BY <1>2, <1>4, <1>6, <1>8, <1>9, <1>10, ViewsTypedNext DEF TagView, at
<1>14. Phase(TagView(n)', UserView(u, t))
  BY <1>3, <1>13, WordFetched
<1>15. Lives'
  BY <1>2, <1>3, <1>6, <1>11, <1>12, <1>14, TagMoves DEF OtherUsers
<1>16. Renamed' /\ AllHome' /\ CmdsFit'
  BY <1>6, RenamedKept, UsersKept, CmdsKept DEF userQs
<1>17. AllBelong'
  BY <1>2, <1>5, <1>6, <1>7, <1>8, <1>9 DEF AllBelong
<1>18. PortsFollow'
  BY <1>6 DEF PortsFollow
<1>19. PagesApart' /\ BeatsCounted'
  BY <1>6, <1>7, <1>8, ReadsKept
<1> QED
  BY <1>6, <1>10, <1>15, <1>16, <1>17, <1>18, <1>19

-----------------------------------------------------------------------------
(* The rules of the switch that send a response home.                      *)

(* The head of queue q belongs to command t of user u, under tag n.        *)
HeadIs(q, p, n, u, t) ==
  /\ Head(q).tag = n /\ Head(q).own = <<u, t>> /\ RespValue(p) = tb[n]
  /\ n \in Tags /\ tb[n] \in Entries /\ tb[n].channel = u /\ tb[n].tag = t
  /\ Owned(n, u, t) /\ Phase(TagView(n), UserView(u, t))
  /\ TagView(n) \in TagViews /\ UserView(u, t) \in UserViews

(* The response at the head of a queue, the entry read for it on the port  *)
(* beside the queue, and the command they belong to.                       *)
LEMMA HeadOfQueue ==
  ASSUME Parts, NEW p \in 0 .. 2, NEW q \in Seq(Items), q \in Seq(Belonging),
         SameTags(readReqQ[p], q), NotEmpty(q), ReadResp(p),
         \A i \in 1 .. Len(q) : q[i].tag \in inUse
  PROVE  /\ \E n \in inUse, u \in Users, t \in OrigTags : HeadIs(q, p, n, u, t)
         /\ readReqQ' \in [Ports -> Seq(Tags)] /\ SameTags(readReqQ'[p], Tail(q))
         /\ \A o \in 0 .. 2 : o # p => readReqQ'[o] = readReqQ[o]
         /\ Tail(q) \in Seq(Items) /\ Tail(q) \in Seq(Belonging)
<1>1. /\ p \in Ports /\ Ports = 0 .. 2 /\ readReqQ \in [Ports -> Seq(Tags)]
      /\ readReqQ[p] \in Seq(Tags) /\ readReqQ' = [readReqQ EXCEPT ![p] = Tail(@)]
  BY FlashSwitchAssumption DEF Parts, Typed, RenameTypeOK, ReadResp
<1>2. /\ SameTags(Tail(readReqQ[p]), Tail(q)) /\ Head(readReqQ[p]) = Head(q).tag
      /\ NotEmpty(readReqQ[p])
  BY <1>1, SameTagsGet
<1>3. /\ Tail(readReqQ[p]) \in Seq(Tags) /\ Tail(q) \in Seq(Items) /\ Tail(q) \in Seq(Belonging)
      /\ Head(q) = q[1] /\ 1 \in 1 .. Len(q) /\ Head(q) \in Belonging
  BY <1>1, <1>2, Dequeued
<1>4. /\ readReqQ' \in [Ports -> Seq(Tags)] /\ readReqQ'[p] = Tail(readReqQ[p])
      /\ \A o \in 0 .. 2 : o # p => readReqQ'[o] = readReqQ[o]
  BY <1>1, <1>3
<1>5. PICK n \in inUse : n = Head(q).tag
  BY <1>3
<1>6. /\ RespValue(p) = tb[n] /\ Head(q).own = <<tb[n].channel, tb[n].tag>>
      /\ n \in Tags /\ tb[n] \in Entries /\ TagView(n) \in TagViews
  BY <1>2, <1>3, <1>5, Living DEF RespValue, Belonging
<1>7. PICK u \in Users, t \in OrigTags :
        Owned(n, u, t) /\ UserView(u, t) \in UserViews /\ Phase(TagView(n), UserView(u, t))
  BY Living
<1>8. tb[n].channel = u /\ tb[n].tag = t
  BY <1>7 DEF Owned
<1>9. HeadIs(q, p, n, u, t)
  BY <1>5, <1>6, <1>7, <1>8 DEF HeadIs
<1> QED
  BY <1>1, <1>2, <1>3, <1>4, <1>9

(* A response put into the queue of its user under the user's tag.         *)
LEMMA Delivered ==
  ASSUME NEW qs \in HomeQs, NEW u \in Users, NEW x \in Own(u), NEW r, r = Put(qs, u, x)
  PROVE  /\ r \in HomeQs /\ Count(r[u], x.tag) = Count(qs[u], x.tag) + 1
         /\ \A v \in Users, s \in OrigTags :
              <<v, s>> # <<u, x.tag>> => Count(r[v], s) = Count(qs[v], s)
<1>1. x \in Answers
  BY DEF Own
<1>2. qs \in AnswerQs /\ \A v \in Users : qs[v] \in Seq(Own(v))
  BY DEF HomeQs
<1>3. /\ r \in AnswerQs
      /\ r[u] = Append(qs[u], x) /\ \A v \in Users : v # u => r[v] = qs[v]
      /\ \A s : Count(r[u], s) = IF x.tag = s THEN Count(qs[u], s) + 1 ELSE Count(qs[u], s)
  <2>1. qs \in AnswerQs
    BY <1>2
  <2>2. Put(qs, u, x) \in AnswerQs
    BY <2>1, <1>1, PutCounts
  <2>3. Put(qs, u, x)[u] = Append(qs[u], x)
    BY <2>1, <1>1, PutCounts
  <2>4. \A v \in Users : v # u => Put(qs, u, x)[v] = qs[v]
    BY <2>1, <1>1, PutCounts
  <2>5. \A s : Count(Append(qs[u], x), s) = IF x.tag = s THEN Count(qs[u], s) + 1 ELSE Count(qs[u], s)
    BY <2>1, <1>1, PutCounts
  <2> QED
    BY <2>2, <2>3, <2>4, <2>5
<1>4. \A v \in Users : r[v] \in Seq(Own(v))
  <2>1. Append(qs[u], x) \in Seq(Own(u))
    BY <1>2
  <2> QED
    BY <1>2, <1>3, <2>1
<1>5. r \in HomeQs
  BY <1>3, <1>4 DEF HomeQs
<1>6. /\ Count(r[u], x.tag) = Count(qs[u], x.tag) + 1
      /\ \A v \in Users, s \in OrigTags :
           <<v, s>> # <<u, x.tag>> => Count(r[v], s) = Count(qs[v], s)
  BY <1>3
<1> QED
  BY <1>5, <1>6

(* The response as the switch sends it home.                               *)
LEMMA SentHome ==
  ASSUME NEW u \in Users, NEW t \in OrigTags
  PROVE  \E x \in Own(u) : x.tag = t /\ x = [tag |-> t, own |-> <<u, t>>]
  BY DEF Answers, Owns, Own

(* What a user takes from a queue is its own.                              *)
LEMMA TakenHome ==
  ASSUME NEW qs \in HomeQs, NEW u \in Users, NotEmpty(qs[u]),
         NEW r, r = Get(qs, u), NEW t, t = Head(qs[u]).tag
  PROVE  /\ r \in HomeQs /\ t \in OrigTags
         /\ Count(qs[u], t) > 0 /\ Count(r[u], t) = Count(qs[u], t) - 1
         /\ \A v \in Users, s \in OrigTags : <<v, s>> # <<u, t>> => Count(r[v], s) = Count(qs[v], s)
<1>1. qs \in AnswerQs /\ \A v \in Users : qs[v] \in Seq(Own(v))
  BY DEF HomeQs
<1>2. /\ r \in AnswerQs
      /\ r[u] = Tail(qs[u]) /\ \A v \in Users : v # u => r[v] = qs[v]
      /\ Head(qs[u]) = qs[u][1] /\ Head(qs[u]) \in Answers
      /\ Count(qs[u], t) > 0 /\ Count(r[u], t) = Count(qs[u], t) - 1
      /\ \A v \in Users, s \in OrigTags : (v # u \/ s # t) => Count(r[v], s) = Count(qs[v], s)
  BY <1>1, GetCounts
<1>3. \A v \in Users : r[v] \in Seq(Own(v))
  <2>1. qs[u] \in Seq(Own(u)) /\ Tail(qs[u]) \in Seq(Own(u))
    BY <1>1, Dequeued
  <2> QED
    BY <1>1, <1>2, <2>1
<1>4. r \in HomeQs
  BY <1>2, <1>3 DEF HomeQs
<1>5. t \in OrigTags
  BY <1>2 DEF Answers
<1> QED
  BY <1>2, <1>4, <1>5

(* The head of a queue taken: only its tag counts less.                    *)
LEMMA HeadTaken ==
  ASSUME NEW q \in Seq(Items), NotEmpty(q), NEW n, Head(q).tag = n
  PROVE  /\ Count(Tail(q), n) = Count(q, n) - 1 /\ Count(q, n) > 0
         /\ \A m \in Tags \ {n} : Count(Tail(q), m) = Count(q, m)
  BY CountGet

(* The switch passes on the request for the page of a write.               *)
LEMMA DistWriteReqStep ==
  ASSUME SwitchInv, DistWriteReq
  PROVE  Parts' /\ ReadEntryValue
<1> USE DEF SwitchInv, Parts
<1>1. /\ NotEmpty(flashRespQ1) /\ ReadResp(1) /\ flashRespQ1' = Tail(flashRespQ1)
      /\ writeReqQs' = Put(writeReqQs, RespValue(1).channel,
                           [tag |-> RespValue(1).tag, own |-> Head(flashRespQ1).own])
      /\ UNCHANGED <<initCnt, init, freeTagQ, tb, inUse, cmdOutputQ, writeWordQ, tagRenames>>
      /\ UNCHANGED <<flashRespQ0, flashRespQ2, beatCnts, readWordQs, ackStatusQs, out, ctrl>>
  BY DEF DistWriteReq, HomeTag, down
<1>2. /\ flashRespQ1 \in Seq(Items) /\ flashRespQ1 \in Seq(Belonging)
      /\ SameTags(readReqQ[1], flashRespQ1)
      /\ \A i \in 1 .. Len(flashRespQ1) : flashRespQ1[i].tag \in inUse
  BY QueuedInUse DEF Typed, AllBelong, PortsFollow
<1>3. PICK n \in inUse, u \in Users, t \in OrigTags : HeadIs(flashRespQ1, 1, n, u, t)
  BY <1>1, <1>2, HeadOfQueue
<1>4. /\ readReqQ' \in [Ports -> Seq(Tags)] /\ SameTags(readReqQ'[1], flashRespQ1')
      /\ readReqQ'[0] = readReqQ[0] /\ readReqQ'[2] = readReqQ[2]
      /\ flashRespQ1' \in Seq(Items) /\ flashRespQ1' \in Seq(Belonging)
  BY <1>1, <1>2, HeadOfQueue
<1>5. writeReqQs' = Put(writeReqQs, u, [tag |-> t, own |-> <<u, t>>])
  BY <1>1, <1>3 DEF HeadIs
<1>6. /\ writeReqQs' \in HomeQs
      /\ Count(writeReqQs'[u], t) = Count(writeReqQs[u], t) + 1
      /\ \A v \in Users, s \in OrigTags :
           <<v, s>> # <<u, t>> => Count(writeReqQs'[v], s) = Count(writeReqQs[v], s)
  <2>1. writeReqQs \in HomeQs
    BY DEF AllHome
  <2>2. PICK x \in Own(u) : x.tag = t /\ x = [tag |-> t, own |-> <<u, t>>]
    BY SentHome
  <2>3. writeReqQs' = Put(writeReqQs, u, x)
    BY <1>5, <2>2
  <2> QED
    BY <2>1, <2>2, <2>3, Delivered
<1>7. /\ Count(flashRespQ1', n) = Count(flashRespQ1, n) - 1 /\ Count(flashRespQ1, n) > 0
      /\ \A m \in Tags \ {n} : Count(flashRespQ1', m) = Count(flashRespQ1, m)
  BY <1>1, <1>2, <1>3, HeadTaken DEF HeadIs
<1>8. Typed'
  BY <1>1, <1>4, <1>6 DEF Typed, RenameTypeOK, HomeQs, AnswerQs
<1>9. OtherTags(n) /\ OtherUsers(u, t)
  BY <1>1, <1>6, <1>7 DEF OtherTags, OtherUsers, TagView, UserView
<1>10. /\ TagView(n)'.at = TagView(n).at
       /\ TagView(n)'.cmds = TagView(n).cmds /\ TagView(n)'.sent = TagView(n).sent
       /\ TagView(n)'.words = TagView(n).words /\ TagView(n)'.reqs = TagView(n).reqs - 1
       /\ TagView(n)'.acks = TagView(n).acks /\ TagView(n).reqs > 0
  BY <1>1, <1>7 DEF TagView
<1>11. /\ UserView(u, t)'.out = UserView(u, t).out /\ UserView(u, t)'.words = UserView(u, t).words
       /\ UserView(u, t)'.reqs = UserView(u, t).reqs + 1 /\ UserView(u, t)'.acks = UserView(u, t).acks
  BY <1>1, <1>6 DEF UserView
<1>12. TagView(n)' \in TagViews /\ UserView(u, t)' \in UserViews
  BY <1>3, <1>8, ViewsTypedNext DEF HeadIs
<1>13. Phase(TagView(n)', UserView(u, t)')
  BY <1>3, <1>10, <1>11, <1>12, RequestArrives DEF HeadIs
<1>14. Lives'
  BY <1>1, <1>3, <1>9, <1>13, TagMoves DEF HeadIs
<1>15. Renamed' /\ CmdsFit'
  BY <1>1, RenamedKept, CmdsKept
<1>16. AllBelong' /\ AllHome'
  <2>1. Belonging' = Belonging
    BY <1>1 DEF Belonging
  <2> QED
    BY <1>1, <1>4, <1>6, <2>1 DEF AllBelong, AllHome
<1>17. PortsFollow'
  BY <1>1, <1>4 DEF PortsFollow
<1>18. PagesApart' /\ BeatsCounted'
  BY <1>1, ReadsKept
<1>19. ReadEntryValue
  BY <1>1, FlashSwitchAssumption DEF ReadEntryValue
<1> QED
  BY <1>8, <1>14, <1>15, <1>16, <1>17, <1>18, <1>19

(* The switch sends an acknowledgement home and frees the tag.             *)
LEMMA DistAckStatusStep ==
  ASSUME SwitchInv, DistAckStatus
  PROVE  Parts' /\ ReadAndReturn
<1> USE DEF SwitchInv, Parts
<1>1. /\ NotEmpty(flashRespQ2) /\ ReadResp(2) /\ flashRespQ2' = Tail(flashRespQ2)
      /\ ackStatusQs' = Put(ackStatusQs, RespValue(2).channel,
                            [tag |-> RespValue(2).tag, own |-> Head(flashRespQ2).own])
      /\ InvalidEntry(Head(flashRespQ2).tag)
      /\ UNCHANGED <<initCnt, init, tb, cmdOutputQ, writeWordQ, tagRenames>>
      /\ UNCHANGED <<flashRespQ0, flashRespQ1, beatCnts, readWordQs, writeReqQs, out, ctrl>>
  BY DEF DistAckStatus, HomeTag, down
<1>2. /\ flashRespQ2 \in Seq(Items) /\ flashRespQ2 \in Seq(Belonging)
      /\ SameTags(readReqQ[2], flashRespQ2)
      /\ \A i \in 1 .. Len(flashRespQ2) : flashRespQ2[i].tag \in inUse
  BY QueuedInUse DEF Typed, AllBelong, PortsFollow
<1>3. PICK n \in inUse, u \in Users, t \in OrigTags : HeadIs(flashRespQ2, 2, n, u, t)
  BY <1>1, <1>2, HeadOfQueue
<1>4. /\ readReqQ' \in [Ports -> Seq(Tags)] /\ SameTags(readReqQ'[2], flashRespQ2')
      /\ readReqQ'[0] = readReqQ[0] /\ readReqQ'[1] = readReqQ[1]
      /\ flashRespQ2' \in Seq(Items) /\ flashRespQ2' \in Seq(Belonging)
  BY <1>1, <1>2, HeadOfQueue
<1>5. ackStatusQs' = Put(ackStatusQs, u, [tag |-> t, own |-> <<u, t>>])
  BY <1>1, <1>3 DEF HeadIs
<1>6. /\ ackStatusQs' \in HomeQs
      /\ Count(ackStatusQs'[u], t) = Count(ackStatusQs[u], t) + 1
      /\ \A v \in Users, s \in OrigTags :
           <<v, s>> # <<u, t>> => Count(ackStatusQs'[v], s) = Count(ackStatusQs[v], s)
  <2>1. ackStatusQs \in HomeQs
    BY DEF AllHome
  <2>2. PICK x \in Own(u) : x.tag = t /\ x = [tag |-> t, own |-> <<u, t>>]
    BY SentHome
  <2>3. ackStatusQs' = Put(ackStatusQs, u, x)
    BY <1>5, <2>2
  <2> QED
    BY <2>1, <2>2, <2>3, Delivered
<1>7. /\ Count(flashRespQ2', n) = Count(flashRespQ2, n) - 1 /\ Count(flashRespQ2, n) > 0
      /\ \A m \in Tags \ {n} : Count(flashRespQ2', m) = Count(flashRespQ2, m)
  BY <1>1, <1>2, <1>3, HeadTaken DEF HeadIs
<1>8. freeTagQ' = Append(freeTagQ, n) /\ inUse' = inUse \ {n} /\ InvalidEntry(n)
  BY <1>1, <1>3 DEF InvalidEntry, HeadIs
<1>9. Typed'
  <2>1. freeTagQ \in Seq(Tags) /\ n \in Tags
    BY <1>3 DEF Typed, RenameTypeOK, HeadIs
  <2>2. freeTagQ' \in Seq(Tags)
    BY <1>8, <2>1
  <2> QED
    BY <1>1, <1>4, <1>6, <1>8, <2>2 DEF Typed, RenameTypeOK, HomeQs, AnswerQs
<1>10. OtherTags(n) /\ OtherUsers(u, t)
  BY <1>1, <1>6, <1>7 DEF OtherTags, OtherUsers, TagView, UserView
<1>11. /\ TagView(n)'.at = TagView(n).at
       /\ TagView(n)'.cmds = TagView(n).cmds /\ TagView(n)'.sent = TagView(n).sent
       /\ TagView(n)'.words = TagView(n).words /\ TagView(n)'.reqs = TagView(n).reqs
       /\ TagView(n)'.acks = TagView(n).acks - 1 /\ TagView(n).acks > 0
  BY <1>1, <1>7 DEF TagView
<1>12. /\ UserView(u, t)'.out = UserView(u, t).out /\ UserView(u, t)'.words = UserView(u, t).words
       /\ UserView(u, t)'.reqs = UserView(u, t).reqs /\ UserView(u, t)'.acks = UserView(u, t).acks + 1
  BY <1>1, <1>6 DEF UserView
<1>13. TagView(n)' \in TagViews /\ UserView(u, t)' \in UserViews
  BY <1>3, <1>9, ViewsTypedNext DEF HeadIs
<1>14. Nowhere(TagView(n)') /\ Resting(UserView(u, t)')
  BY <1>3, <1>11, <1>12, <1>13, AckArrives DEF HeadIs
<1>15. Lives'
  BY <1>1, <1>3, <1>8, <1>10, <1>14, TagFreed DEF HeadIs
<1>16. Renamed' /\ CmdsFit'
  BY <1>1, <1>8, RenamedKept, CmdsKept
<1>17. AllBelong' /\ AllHome'
  <2>1. Belonging' = Belonging
    BY <1>1 DEF Belonging
  <2> QED
    BY <1>1, <1>4, <1>6, <2>1 DEF AllBelong, AllHome
<1>18. PortsFollow'
  BY <1>1, <1>4 DEF PortsFollow
<1>19. PagesApart' /\ BeatsCounted'
  BY <1>1, ReadsKept
<1>20. ReadAndReturn
  BY <1>1, <1>8, FlashSwitchAssumption DEF ReadAndReturn
<1> QED
  BY <1>9, <1>15, <1>16, <1>17, <1>18, <1>19, <1>20

(* The beats counted on the bus of the word at the head of the queue are   *)
(* those of its own page, and no other page of the bus has begun.          *)
LEMMA BeatOfHead ==
  ASSUME Parts, NotEmpty(flashRespQ0), NEW n \in inUse, Head(flashRespQ0).tag = n
  PROVE  /\ n \in Tags /\ tb[n].bus \in Buses /\ ToCome(n) \in 1 .. PageWords
         /\ \A m \in Tags \ {n} : Begun(m) => ~SameBus(m, n)
         /\ beatCnts[tb[n].bus] = PageWords - ToCome(n)
<1> USE DEF Parts
<1>1. /\ flashRespQ0 \in Seq(Items) /\ flashRespQ0[1].tag = n /\ 1 \in 1 .. Len(flashRespQ0)
      /\ Count(flashRespQ0, n) > 0 /\ Count(flashRespQ0, n) \in Nat
  <2>1. flashRespQ0 \in Seq(Items)
    BY DEF Typed
  <2> QED
    BY <2>1, Dequeued, CountGet, Counts
<1>2. n \in Tags /\ tb[n] \in Entries /\ tb[n].bus \in Buses
  BY Living DEF Entries
<1>3. ToCome(n) \in 1 .. PageWords
  <2>1. Unread(ctrl[n]) \in Nat
    BY <1>2, RecordFields DEF Typed
  <2>2. ToCome(n) > 0
    BY <1>1, <2>1 DEF ToCome
  <2> QED
    BY <1>2, <2>2, ToComeRange
<1>4. ASSUME NEW m \in Tags \ {n}, Begun(m), SameBus(m, n) PROVE FALSE
  <2>1. ToCome(m) > 0 /\ ToCome(m) < PageWords
    BY <1>4 DEF Begun
  <2>2. Unread(ctrl[m]) = 0 /\ \A k \in 1 .. Len(flashRespQ0) : flashRespQ0[k].tag = m => k < 1
    BY <1>1, <1>4, <2>1, PageSize DEF PagesApart
  <2>3. \A k \in 1 .. Len(flashRespQ0) : flashRespQ0[k].tag # m
    BY <2>2
  <2>4. Count(flashRespQ0, m) = 0
    BY <2>3, Counts DEF Typed
  <2> QED
    BY <2>1, <2>2, <2>4 DEF ToCome
<1>5. beatCnts[tb[n].bus] = PageWords - ToCome(n)
  <2>1. CASE Begun(n)
    BY <1>2, <2>1 DEF BeatsCounted
  <2>2. CASE ~Begun(n)
    <3>1. ToCome(n) = PageWords
      BY <1>3, <2>2, PageSize DEF Begun
    <3>2. beatCnts[tb[n].bus] = 0
      <4> SUFFICES ASSUME beatCnts[tb[n].bus] # 0 PROVE FALSE
        OBVIOUS
      <4>1. PICK m \in Tags : Begun(m) /\ tb[m].bus = tb[n].bus
        BY <1>2 DEF BeatsCounted
      <4> QED
        BY <1>4, <2>2, <4>1 DEF SameBus
    <3> QED
      BY <3>1, <3>2, PageSize
  <2> QED
    BY <2>1, <2>2
<1> QED
  BY <1>2, <1>3, <1>4, <1>5

(* A word taken from the head of the queue is counted.                     *)
LEMMA BeatCounted ==
  ASSUME Parts, NotEmpty(flashRespQ0), NEW n \in inUse, Head(flashRespQ0).tag = n,
         flashRespQ0' = Tail(flashRespQ0), UNCHANGED <<tb, ctrl>>,
         beatCnts' = [beatCnts EXCEPT ![tb[n].bus] =
                        IF ToCome(n) = 1 THEN 0 ELSE beatCnts[tb[n].bus] + 1]
  PROVE  PagesApart' /\ BeatsCounted' /\ beatCnts' \in [Buses -> 0 .. PageWords - 1]
<1> USE DEF Parts
<1> DEFINE bus == tb[n].bus
<1>1. /\ n \in Tags /\ bus \in Buses /\ ToCome(n) \in 1 .. PageWords
      /\ \A m \in Tags \ {n} : Begun(m) => ~SameBus(m, n)
      /\ beatCnts[bus] = PageWords - ToCome(n)
  BY BeatOfHead
<1>2. /\ flashRespQ0 \in Seq(Items) /\ Len(flashRespQ0) \in Nat
      /\ flashRespQ0[1].tag = n /\ 1 \in 1 .. Len(flashRespQ0)
      /\ Len(flashRespQ0') = Len(flashRespQ0) - 1
      /\ \A i \in 1 .. Len(flashRespQ0') :
           flashRespQ0'[i] = flashRespQ0[i + 1] /\ i + 1 \in 1 .. Len(flashRespQ0)
  <2>1. flashRespQ0 \in Seq(Items)
    BY DEF Typed
  <2> QED
    BY <2>1, Dequeued
<1>3. /\ Count(flashRespQ0', n) = Count(flashRespQ0, n) - 1
      /\ \A m \in Tags \ {n} : Count(flashRespQ0', m) = Count(flashRespQ0, m)
  BY <1>2, HeadTaken
<1>4. ToCome(n)' = ToCome(n) - 1 /\ \A m \in Tags \ {n} : ToCome(m)' = ToCome(m)
  <2>1. Unread(ctrl[n]) \in Nat /\ Count(flashRespQ0, n) \in Nat
    BY <1>1, <1>2, RecordFields, Counts DEF Typed
  <2> QED
    BY <1>3, <2>1 DEF ToCome
<1>5. /\ \A m \in Tags \ {n} : Begun(m)' <=> Begun(m)
      /\ Begun(n)' <=> ToCome(n) # 1
  <2>1. \A m \in Tags \ {n} : Begun(m)' <=> Begun(m)
    BY <1>4 DEF Begun
  <2>2. Begun(n)' <=> ToCome(n) # 1
    <3> DEFINE k == ToCome(n)
    <3>1. k \in 1 .. PageWords
      BY <1>1
    <3>2. Begun(n)' <=> (k - 1 > 0 /\ k - 1 < PageWords)
      BY <1>4 DEF Begun
    <3> HIDE DEF k
    <3>3. Begun(n)' <=> k # 1
      BY <3>1, <3>2, PageSize
    <3> QED
      BY <3>3 DEF k
  <2> QED
    BY <2>1, <2>2
<1> HIDE DEF bus
<1>6. /\ beatCnts'[bus] = IF ToCome(n) = 1 THEN 0 ELSE PageWords - ToCome(n) + 1
      /\ \A b \in Buses \ {bus} : beatCnts'[b] = beatCnts[b]
      /\ beatCnts' \in [Buses -> 0 .. PageWords - 1]
  <2> DEFINE c == IF ToCome(n) = 1 THEN 0 ELSE PageWords - ToCome(n) + 1
  <2>1. c \in 0 .. PageWords - 1
    BY <1>1, PageSize
  <2>2. beatCnts' = [beatCnts EXCEPT ![bus] = c] /\ beatCnts \in [Buses -> 0 .. PageWords - 1]
    BY <1>1 DEF Typed, bus
  <2> HIDE DEF c
  <2>3. /\ beatCnts'[bus] = c /\ \A b \in Buses \ {bus} : beatCnts'[b] = beatCnts[b]
        /\ beatCnts' \in [Buses -> 0 .. PageWords - 1]
    BY <1>1, <2>1, <2>2
  <2> QED
    BY <2>3 DEF c
<1>7. \A m \in Tags : Begun(m)' =>
        /\ beatCnts'[tb'[m].bus] = PageWords - ToCome(m)'
        /\ \A k \in Tags \ {m} : Begun(k)' => ~SameBus(m, k)'
  <2> SUFFICES ASSUME NEW m \in Tags, Begun(m)'
               PROVE  /\ beatCnts'[tb[m].bus] = PageWords - ToCome(m)'
                      /\ \A k \in Tags \ {m} : Begun(k)' => ~SameBus(m, k)
    BY DEF SameBus
  <2>1. CASE m = n
    <3>1. ToCome(n) # 1 /\ beatCnts'[bus] = PageWords - ToCome(n)'
      BY <1>1, <1>4, <1>5, <1>6, <2>1, PageSize
    <3>2. \A k \in Tags \ {n} : Begun(k)' => ~SameBus(n, k)
      BY <1>1, <1>5 DEF SameBus
    <3> QED
      BY <2>1, <3>1, <3>2 DEF bus
  <2>2. CASE m # n
    <3>1. Begun(m) /\ ~SameBus(m, n) /\ tb[m].bus # bus
      BY <1>1, <1>5, <2>2 DEF SameBus, bus
    <3>2. beatCnts[tb[m].bus] = PageWords - ToCome(m)
      BY <3>1 DEF BeatsCounted
    <3>3. tb[m].bus \in Buses
      <4>1. m \in inUse
        BY <3>1, ToComeRange DEF Begun
      <4> QED
        BY <4>1, Living DEF Entries
    <3>4. beatCnts'[tb[m].bus] = PageWords - ToCome(m)'
      BY <1>4, <1>6, <2>2, <3>1, <3>2, <3>3
    <3>5. ASSUME NEW k \in Tags \ {m}, Begun(k)' PROVE ~SameBus(m, k)
      <4>1. CASE k = n
        BY <3>1, <4>1
      <4>2. CASE k # n
        <5>1. Begun(k)
          BY <1>5, <3>5, <4>2
        <5> QED
          BY <3>1, <5>1 DEF BeatsCounted
      <4> QED
        BY <4>1, <4>2
    <3> QED
      BY <3>4, <3>5
  <2> QED
    BY <2>1, <2>2
<1>8. \A b \in Buses : beatCnts'[b] # 0 => \E m \in Tags : Begun(m)' /\ tb'[m].bus = b
  <2> SUFFICES ASSUME NEW b \in Buses, beatCnts'[b] # 0
               PROVE  \E m \in Tags : Begun(m)' /\ tb[m].bus = b
    OBVIOUS
  <2>1. CASE b = bus
    BY <1>1, <1>5, <1>6, <2>1 DEF bus
  <2>2. CASE b # bus
    <3>1. beatCnts[b] # 0
      BY <1>6, <2>2
    <3>2. PICK m \in Tags : Begun(m) /\ tb[m].bus = b
      BY <3>1 DEF BeatsCounted
    <3>3. m # n
      BY <2>2, <3>2 DEF bus
    <3> QED
      BY <1>5, <3>2, <3>3
  <2> QED
    BY <2>1, <2>2
<1>9. PagesApart'
  <2> SUFFICES ASSUME NEW j \in 1 .. Len(flashRespQ0'), NEW m \in Tags, ToCome(m)' > 0,
                      m # flashRespQ0'[j].tag, SameBus(m, flashRespQ0'[j].tag)
               PROVE  \/ /\ Unread(ctrl[m]) = 0
                         /\ \A k \in 1 .. Len(flashRespQ0') : flashRespQ0'[k].tag = m => k < j
                      \/ /\ ToCome(m)' = PageWords
                         /\ \A k \in 1 .. Len(flashRespQ0') : flashRespQ0'[k].tag = m => k > j
    BY ZenonT(30) DEF PagesApart, SameBus
  <2>1. j + 1 \in 1 .. Len(flashRespQ0) /\ flashRespQ0'[j] = flashRespQ0[j + 1] /\ j \in Nat
    BY <1>2
  <2>2. ToCome(m) > 0
    BY <1>1, <1>4
  <2>3. \/ /\ Unread(ctrl[m]) = 0
           /\ \A k \in 1 .. Len(flashRespQ0) : flashRespQ0[k].tag = m => k < j + 1
        \/ /\ ToCome(m) = PageWords
           /\ \A k \in 1 .. Len(flashRespQ0) : flashRespQ0[k].tag = m => k > j + 1
    BY <2>1, <2>2 DEF PagesApart
  <2>4. CASE /\ Unread(ctrl[m]) = 0
             /\ \A k \in 1 .. Len(flashRespQ0) : flashRespQ0[k].tag = m => k < j + 1
    <3>1. \A k \in 1 .. Len(flashRespQ0') : flashRespQ0'[k].tag = m => k < j
      BY <1>2, <2>1, <2>4
    <3> QED
      BY <2>4, <3>1
  <2>5. CASE /\ ToCome(m) = PageWords
             /\ \A k \in 1 .. Len(flashRespQ0) : flashRespQ0[k].tag = m => k > j + 1
    <3>1. m # n
      BY <1>2, <2>1, <2>5
    <3>2. \A k \in 1 .. Len(flashRespQ0') : flashRespQ0'[k].tag = m => k > j
      BY <1>2, <2>1, <2>5
    <3> QED
      BY <1>4, <2>5, <3>1, <3>2
  <2> QED
    BY <2>3, <2>4, <2>5
<1> QED
  BY <1>6, <1>7, <1>8, <1>9 DEF BeatsCounted

(* The switch sends a word home, and frees the tag with the last one.      *)
LEMMA DistReadWordStep ==
  ASSUME SwitchInv, DistReadWord
  PROVE  Parts' /\ (ReadAndReturn \/ ReadEntryValue)
<1> USE DEF SwitchInv, Parts
<1>1. /\ NotEmpty(flashRespQ0) /\ ReadResp(0) /\ flashRespQ0' = Tail(flashRespQ0)
      /\ readWordQs' = Put(readWordQs, RespValue(0).channel,
                           [tag |-> RespValue(0).tag, own |-> Head(flashRespQ0).own])
      /\ UNCHANGED <<initCnt, init, tb, cmdOutputQ, writeWordQ, tagRenames>>
      /\ UNCHANGED <<flashRespQ1, flashRespQ2, writeReqQs, ackStatusQs, out, ctrl>>
  BY DEF DistReadWord, HomeTag, DeliverWord, down
<1>2. /\ flashRespQ0 \in Seq(Items) /\ flashRespQ0 \in Seq(Belonging)
      /\ SameTags(readReqQ[0], flashRespQ0)
      /\ \A i \in 1 .. Len(flashRespQ0) : flashRespQ0[i].tag \in inUse
  BY QueuedInUse DEF Typed, AllBelong, PortsFollow
<1>3. PICK n \in inUse, u \in Users, t \in OrigTags : HeadIs(flashRespQ0, 0, n, u, t)
  BY <1>1, <1>2, HeadOfQueue
<1>4. /\ readReqQ' \in [Ports -> Seq(Tags)] /\ SameTags(readReqQ'[0], flashRespQ0')
      /\ readReqQ'[1] = readReqQ[1] /\ readReqQ'[2] = readReqQ[2]
      /\ flashRespQ0' \in Seq(Items) /\ flashRespQ0' \in Seq(Belonging)
  BY <1>1, <1>2, HeadOfQueue
<1>5. readWordQs' = Put(readWordQs, u, [tag |-> t, own |-> <<u, t>>])
  BY <1>1, <1>3 DEF HeadIs
<1>6. /\ readWordQs' \in HomeQs
      /\ Count(readWordQs'[u], t) = Count(readWordQs[u], t) + 1
      /\ \A v \in Users, s \in OrigTags :
           <<v, s>> # <<u, t>> => Count(readWordQs'[v], s) = Count(readWordQs[v], s)
  <2>1. readWordQs \in HomeQs
    BY DEF AllHome
  <2>2. PICK x \in Own(u) : x.tag = t /\ x = [tag |-> t, own |-> <<u, t>>]
    BY SentHome
  <2>3. readWordQs' = Put(readWordQs, u, x)
    BY <1>5, <2>2
  <2> QED
    BY <2>1, <2>2, <2>3, Delivered
<1>7. /\ Count(flashRespQ0', n) = Count(flashRespQ0, n) - 1 /\ Count(flashRespQ0, n) > 0
      /\ \A m \in Tags \ {n} : Count(flashRespQ0', m) = Count(flashRespQ0, m)
  BY <1>1, <1>2, <1>3, HeadTaken DEF HeadIs
<1>8. /\ n \in Tags /\ ToCome(n) \in 1 .. PageWords /\ beatCnts[tb[n].bus] = PageWords - ToCome(n)
      /\ Head(flashRespQ0).tag = n /\ RespValue(0) = tb[n]
  BY <1>1, <1>3, BeatOfHead DEF HeadIs
<1>9. LastBeat(RespValue(0).bus) <=> ToCome(n) = 1
  <2> DEFINE k == ToCome(n)
  <2>1. LastBeat(RespValue(0).bus) <=> PageWords - k = PageWords - 1
    BY <1>8 DEF LastBeat
  <2>2. k \in 1 .. PageWords
    BY <1>8
  <2> HIDE DEF k
  <2>3. LastBeat(RespValue(0).bus) <=> k = 1
    BY <2>1, <2>2, PageSize
  <2> QED
    BY <2>3 DEF k
<1>10. \/ /\ ToCome(n) = 1 /\ beatCnts' = [beatCnts EXCEPT ![tb[n].bus] = 0]
          /\ InvalidEntry(n)
       \/ /\ ToCome(n) # 1 /\ beatCnts' = [beatCnts EXCEPT ![tb[n].bus] = beatCnts[tb[n].bus] + 1]
          /\ UNCHANGED <<freeTagQ, inUse>>
  <2>1. \/ /\ LastBeat(RespValue(0).bus)
           /\ beatCnts' = [beatCnts EXCEPT ![RespValue(0).bus] = 0] /\ InvalidEntry(Head(flashRespQ0).tag)
        \/ /\ ~LastBeat(RespValue(0).bus)
           /\ beatCnts' = [beatCnts EXCEPT ![RespValue(0).bus] = @ + 1] /\ UNCHANGED <<freeTagQ, inUse>>
    BY DEF DistReadWord
  <2> QED
    BY <1>8, <1>9, <2>1
<1>11. PagesApart' /\ BeatsCounted' /\ beatCnts' \in [Buses -> 0 .. PageWords - 1]
  <2>1. beatCnts' = [beatCnts EXCEPT ![tb[n].bus] =
                       IF ToCome(n) = 1 THEN 0 ELSE beatCnts[tb[n].bus] + 1]
    BY <1>10
  <2> QED
    BY <1>1, <1>8, <2>1, BeatCounted
<1>12. freeTagQ' \in Seq(Tags) /\ inUse' \subseteq inUse
  <2>1. freeTagQ \in Seq(Tags)
    BY DEF Typed, RenameTypeOK
  <2>2. Append(freeTagQ, n) \in Seq(Tags)
    BY <1>8, <2>1
  <2> QED
    BY <1>10, <2>1, <2>2 DEF InvalidEntry
<1>13. Typed'
  BY <1>1, <1>4, <1>6, <1>11, <1>12 DEF Typed, RenameTypeOK, HomeQs, AnswerQs
<1>14. OtherTags(n) /\ OtherUsers(u, t)
  BY <1>1, <1>6, <1>7 DEF OtherTags, OtherUsers, TagView, UserView
<1>15. /\ TagView(n)'.at = TagView(n).at
       /\ TagView(n)'.cmds = TagView(n).cmds /\ TagView(n)'.sent = TagView(n).sent
       /\ TagView(n)'.words = TagView(n).words - 1 /\ TagView(n)'.reqs = TagView(n).reqs
       /\ TagView(n)'.acks = TagView(n).acks /\ TagView(n).words > 0
       /\ Unread(TagView(n).at) + TagView(n).words = ToCome(n)
  BY <1>1, <1>7 DEF TagView, ToCome
<1>16. /\ UserView(u, t)'.out = UserView(u, t).out /\ UserView(u, t)'.words = UserView(u, t).words + 1
       /\ UserView(u, t)'.reqs = UserView(u, t).reqs /\ UserView(u, t)'.acks = UserView(u, t).acks
  BY <1>1, <1>6 DEF UserView
<1>17. TagView(n)' \in TagViews /\ UserView(u, t)' \in UserViews
  BY <1>8, <1>13, ViewsTypedNext
<1>18. /\ ToCome(n) = 1 => Nowhere(TagView(n)') /\ Resting(UserView(u, t)')
       /\ ToCome(n) # 1 => Phase(TagView(n)', UserView(u, t)')
  BY <1>3, <1>15, <1>16, <1>17, WordArrives DEF HeadIs
<1>19. Owned(n, u, t)
  BY <1>3 DEF HeadIs
<1>20. Lives' /\ (ReadAndReturn \/ ReadEntryValue)
  <2>1. CASE ToCome(n) = 1
    <3>1. InvalidEntry(n) /\ inUse' = inUse \ {n}
      BY <1>10, <2>1 DEF InvalidEntry
    <3>2. Lives'
      BY <1>1, <1>14, <1>18, <1>19, <2>1, <3>1, TagFreed
    <3>3. ReadAndReturn
      BY <1>1, <3>1, FlashSwitchAssumption DEF ReadAndReturn
    <3> QED
      BY <3>2, <3>3
  <2>2. CASE ToCome(n) # 1
    <3>1. inUse' = inUse /\ freeTagQ' = freeTagQ
      BY <1>10, <2>2
    <3>2. Lives'
      BY <1>1, <1>14, <1>18, <1>19, <2>2, <3>1, TagMoves
    <3>3. ReadEntryValue
      BY <1>1, <3>1, FlashSwitchAssumption DEF ReadEntryValue
    <3> QED
      BY <3>2, <3>3
  <2> QED
    BY <2>1, <2>2
<1>21. Renamed' /\ CmdsFit'
  BY <1>1, <1>12, RenamedKept, CmdsKept
<1>22. AllBelong' /\ AllHome'
  <2>1. Belonging' = Belonging
    BY <1>1 DEF Belonging
  <2> QED
    BY <1>1, <1>4, <1>6, <2>1 DEF AllBelong, AllHome
<1>23. PortsFollow'
  BY <1>1, <1>4 DEF PortsFollow
<1> QED
  BY <1>11, <1>13, <1>20, <1>21, <1>22, <1>23

-----------------------------------------------------------------------------
(* The steps of the users.                                                 *)

(* One of the commands of the users changes.                               *)
LEMMA OutSet ==
  ASSUME NEW f \in [Users -> [OrigTags -> Outs]], NEW u \in Users, NEW t \in OrigTags,
         NEW w \in Outs, NEW g, g = [f EXCEPT ![u][t] = w]
  PROVE  /\ g \in [Users -> [OrigTags -> Outs]] /\ g[u][t] = w
         /\ \A v \in Users, s \in OrigTags : <<v, s>> # <<u, t>> => g[v][s] = f[v][s]
<1>1. g[u] = [f[u] EXCEPT ![t] = w] /\ \A v \in Users \ {u} : g[v] = f[v]
  OBVIOUS
<1>2. f[u] \in [OrigTags -> Outs]
  OBVIOUS
<1>3. g[u] \in [OrigTags -> Outs] /\ g[u][t] = w /\ \A s \in OrigTags \ {t} : g[u][s] = f[u][s]
  BY <1>1, <1>2
<1>4. g \in [Users -> [OrigTags -> Outs]]
  BY <1>3
<1>5. \A v \in Users, s \in OrigTags : <<v, s>> # <<u, t>> => g[v][s] = f[v][s]
  BY <1>1, <1>3
<1> QED
  BY <1>3, <1>4, <1>5

(* A user takes something from one of its queues.                          *)
LEMMA UserStep ==
  ASSUME Parts, NEW u \in Users, NEW t \in OrigTags,
         UNCHANGED <<initCnt, init, freeTagQ, tb, readReqQ, inUse>>,
         UNCHANGED <<cmdOutputQ, writeWordQ, tagRenames>>,
         UNCHANGED <<flashRespQ0, flashRespQ1, flashRespQ2, beatCnts, ctrl>>,
         out' \in [Users -> [OrigTags -> Outs]], AllHome', OtherUsers(u, t),
         \A a \in TagViews : Phase(a, UserView(u, t)) =>
           Phase(a, UserView(u, t)') /\ UserView(u, t)'.out.op = UserView(u, t).out.op,
         Resting(UserView(u, t)) => Resting(UserView(u, t)')
  PROVE  Parts'
<1> USE DEF Parts
<1>1. \A m : TagView(m)' = TagView(m)
  BY DEF TagView
<1>2. Typed'
  BY DEF Typed, RenameTypeOK, AllHome, HomeQs, AnswerQs
<1>3. Lives'
  BY <1>1, UserMoves
<1>4. Renamed'
  BY RenamedKept
<1>5. AllBelong'
  <2>1. Belonging' = Belonging
    BY DEF Belonging
  <2> QED
    BY <2>1 DEF AllBelong
<1>6. CmdsFit'
  <2>1. ASSUME NEW n \in inUse, NEW v \in Users, NEW s \in OrigTags, Owned(n, v, s)
        PROVE  out'[v][s].op = out[v][s].op
    <3>1. CASE <<v, s>> = <<u, t>>
      <4>1. v = u /\ s = t
        BY <3>1
      <4>2. TagView(n) \in TagViews /\ Phase(TagView(n), UserView(u, t))
        BY <2>1, <4>1, Living DEF Lives
      <4>3. UserView(u, t)'.out.op = UserView(u, t).out.op
        BY <4>2
      <4>4. UserView(u, t)'.out = out'[u][t] /\ UserView(u, t).out = out[u][t]
        BY DEF UserView
      <4> QED
        BY <4>1, <4>3, <4>4
    <3>2. CASE <<v, s>> # <<u, t>>
      <4>1. UserView(v, s)' = UserView(v, s)
        BY <3>2 DEF OtherUsers
      <4>2. UserView(v, s)'.out = out'[v][s] /\ UserView(v, s).out = out[v][s]
        BY DEF UserView
      <4> QED
        BY <4>1, <4>2
    <3> QED
      BY <3>1, <3>2
  <2> QED
    BY <2>1, CmdsKept
<1>7. PortsFollow'
  BY DEF PortsFollow
<1>8. PagesApart' /\ BeatsCounted'
  BY ReadsKept
<1> QED
  BY <1>2, <1>3, <1>4, <1>5, <1>6, <1>7, <1>8

(* A user takes a word of a page it reads.                                 *)
LEMMA ReadWordStep ==
  ASSUME SwitchInv, NEW u \in Users, ReadWord(u)
  PROVE  Parts' /\ UNCHANGED renameVars
<1> USE DEF SwitchInv, Parts
<1>0. PICK t \in OrigTags : t = Head(readWordQs[u]).tag
  <2>1. readWordQs[u] \in Seq(Answers) /\ NotEmpty(readWordQs[u])
    BY DEF Typed, ReadWord
  <2>2. Head(readWordQs[u]) \in Answers
    BY <2>1, Dequeued
  <2> QED
    BY <2>2 DEF Answers
<1> DEFINE w == IF out[u][t].got = PageWords - 1 THEN Done ELSE [out[u][t] EXCEPT !.got = @ + 1]
<1>1. /\ NotEmpty(readWordQs[u]) /\ readWordQs' = Get(readWordQs, u)
      /\ out' = [out EXCEPT ![u][t] = w]
      /\ UNCHANGED <<initCnt, init, freeTagQ, tb, readReqQ, inUse>>
      /\ UNCHANGED <<cmdOutputQ, writeWordQ, tagRenames>>
      /\ UNCHANGED <<flashRespQ0, flashRespQ1, flashRespQ2, beatCnts, ctrl>>
      /\ UNCHANGED <<writeReqQs, ackStatusQs>>
  BY <1>0 DEF ReadWord, renameVars, down, flashRespQs
<1> HIDE DEF w
<1>2. /\ readWordQs' \in HomeQs /\ t \in OrigTags
      /\ Count(readWordQs[u], t) > 0 /\ Count(readWordQs'[u], t) = Count(readWordQs[u], t) - 1
      /\ \A v \in Users, s \in OrigTags :
           <<v, s>> # <<u, t>> => Count(readWordQs'[v], s) = Count(readWordQs[v], s)
  <2>1. readWordQs \in HomeQs
    BY DEF AllHome
  <2> QED
    BY <1>0, <1>1, <2>1, TakenHome
<1>3. w \in Outs
  <2>1. out[u][t] \in Outs /\ UserView(u, t) \in UserViews /\ UserView(u, t).out = out[u][t]
    BY <1>2, ViewsTyped, Fields DEF Typed
  <2>2. CASE out[u][t].got = PageWords - 1
    BY <2>2, PageSize DEF w, Done, Outs
  <2>3. CASE out[u][t].got # PageWords - 1
    <3>1. /\ UserView(u, t).words > 0 /\ UserView(u, t).words \in Nat
          /\ UserView(u, t).out.got \in Nat
      BY <1>2, <2>1, Fields, RecordFields
    <3>2. (\A n \in inUse : ~Owned(n, u, t)) => Resting(UserView(u, t))
      BY <1>2 DEF Lives
    <3>3. UserView(u, t).out.got < PageWords
      <4>1. CASE \A n \in inUse : ~Owned(n, u, t)
        BY <3>1, <3>2, <4>1, PageSize DEF Resting
      <4>2. CASE \E n \in inUse : Owned(n, u, t)
        <5>1. PICK n \in inUse : Owned(n, u, t)
          BY <4>2
        <5>2. Phase(TagView(n), UserView(u, t)) /\ TagView(n) \in TagViews
          BY <1>2, <5>1, Living DEF Lives
        <5>3. Reading(TagView(n), UserView(u, t))
          BY <3>1, <5>2 DEF Phase, Waiting, Writing, Erasing, Answering, Unseen
        <5>4. TagView(n).words \in Nat /\ Unread(TagView(n).at) \in Nat
          BY <5>2, RecordFields
        <5> QED
          BY <3>1, <5>3, <5>4, PageSize DEF Reading
      <4> QED
        BY <4>1, <4>2
    <3>4. out[u][t].got + 1 \in 0 .. PageWords
      BY <2>1, <3>1, <3>3, PageSize
    <3> QED
      BY <2>1, <2>3, <3>4 DEF w, Outs
  <2> QED
    BY <2>2, <2>3
<1>4. /\ out' \in [Users -> [OrigTags -> Outs]] /\ out'[u][t] = w
      /\ \A v \in Users, s \in OrigTags : <<v, s>> # <<u, t>> => out'[v][s] = out[v][s]
  BY <1>1, <1>2, <1>3, OutSet DEF Typed
<1>5. AllHome'
  BY <1>1, <1>2 DEF AllHome
<1>6. OtherUsers(u, t)
  BY <1>1, <1>2, <1>4 DEF OtherUsers, UserView
<1>7. /\ UserView(u, t) \in UserViews /\ UserView(u, t)' \in UserViews /\ UserView(u, t).words > 0
      /\ UserView(u, t)'.words = UserView(u, t).words - 1
      /\ UserView(u, t)'.reqs = UserView(u, t).reqs /\ UserView(u, t)'.acks = UserView(u, t).acks
      /\ UserView(u, t).out = out[u][t] /\ UserView(u, t)'.out = w
  <2>1. Typed'
    BY <1>1, <1>2, <1>4 DEF Typed, RenameTypeOK, HomeQs, AnswerQs
  <2>2. UserView(u, t) \in UserViews /\ UserView(u, t)' \in UserViews
    BY <1>2, <2>1, ViewsTyped, ViewsTypedNext
  <2> QED
    BY <1>1, <1>2, <1>4, <2>2 DEF UserView
<1>8. UserView(u, t)'.out = IF UserView(u, t).out.got = PageWords - 1 THEN Done
                            ELSE [UserView(u, t).out EXCEPT !.got = @ + 1]
  BY <1>7 DEF w
<1>9. /\ \A a \in TagViews : Phase(a, UserView(u, t)) =>
           Phase(a, UserView(u, t)') /\ UserView(u, t)'.out.op = UserView(u, t).out.op
      /\ Resting(UserView(u, t)) => Resting(UserView(u, t)')
  BY <1>7, <1>8, WordTakenByUser
<1>10. Parts'
  <2>1. Parts /\ t \in OrigTags
    BY <1>2
  <2> HIDE DEF SwitchInv, Parts
  <2> QED
    BY <1>1, <1>4, <1>5, <1>6, <1>9, <2>1, UserStep
<1> QED
  BY <1>1, <1>10 DEF renameVars

(* A user takes the request for a page.                                    *)
LEMMA WriteDataReqStep ==
  ASSUME SwitchInv, NEW u \in Users, WriteDataReq(u)
  PROVE  Parts' /\ UNCHANGED renameVars
<1> USE DEF SwitchInv, Parts
<1>0. PICK t \in OrigTags : t = Head(writeReqQs[u]).tag
  <2>1. writeReqQs[u] \in Seq(Answers) /\ NotEmpty(writeReqQs[u])
    BY DEF Typed, WriteDataReq
  <2>2. Head(writeReqQs[u]) \in Answers
    BY <2>1, Dequeued
  <2> QED
    BY <2>2 DEF Answers
<1> DEFINE w == [out[u][t] EXCEPT !.give = PageWords]
<1>1. /\ NotEmpty(writeReqQs[u]) /\ writeReqQs' = Get(writeReqQs, u)
      /\ out' = [out EXCEPT ![u][t].give = PageWords]
      /\ UNCHANGED <<initCnt, init, freeTagQ, tb, readReqQ, inUse>>
      /\ UNCHANGED <<cmdOutputQ, writeWordQ, tagRenames>>
      /\ UNCHANGED <<flashRespQ0, flashRespQ1, flashRespQ2, beatCnts, ctrl>>
      /\ UNCHANGED <<readWordQs, ackStatusQs>>
  BY <1>0 DEF WriteDataReq, renameVars, down, flashRespQs
<1>2. /\ writeReqQs' \in HomeQs /\ t \in OrigTags
      /\ Count(writeReqQs[u], t) > 0 /\ Count(writeReqQs'[u], t) = Count(writeReqQs[u], t) - 1
      /\ \A v \in Users, s \in OrigTags :
           <<v, s>> # <<u, t>> => Count(writeReqQs'[v], s) = Count(writeReqQs[v], s)
  <2>1. writeReqQs \in HomeQs
    BY DEF AllHome
  <2> QED
    BY <1>0, <1>1, <2>1, TakenHome
<1>3. w \in Outs /\ out' = [out EXCEPT ![u][t] = w]
  <2>1. out \in [Users -> [OrigTags -> Outs]] /\ out[u][t] \in Outs
    BY <1>2 DEF Typed
  <2>2. w \in Outs
    <3>1. PageWords \in 0 .. PageWords
      BY PageSize
    <3> QED
      BY <2>1, <3>1 DEF Outs
  <2>3. out' = [out EXCEPT ![u][t] = w]
    BY <1>1, <1>2, <2>1
  <2> QED
    BY <2>2, <2>3
<1> HIDE DEF w
<1>4. /\ out' \in [Users -> [OrigTags -> Outs]] /\ out'[u][t] = w
      /\ \A v \in Users, s \in OrigTags : <<v, s>> # <<u, t>> => out'[v][s] = out[v][s]
  BY <1>2, <1>3, OutSet DEF Typed
<1>5. AllHome'
  BY <1>1, <1>2 DEF AllHome
<1>6. OtherUsers(u, t)
  BY <1>1, <1>2, <1>4 DEF OtherUsers, UserView
<1>7. /\ UserView(u, t) \in UserViews /\ UserView(u, t)' \in UserViews /\ UserView(u, t).reqs > 0
      /\ UserView(u, t)'.reqs = UserView(u, t).reqs - 1
      /\ UserView(u, t)'.words = UserView(u, t).words /\ UserView(u, t)'.acks = UserView(u, t).acks
      /\ UserView(u, t).out = out[u][t] /\ UserView(u, t)'.out = w
  <2>1. Typed'
    BY <1>1, <1>2, <1>4 DEF Typed, RenameTypeOK, HomeQs, AnswerQs
  <2>2. UserView(u, t) \in UserViews /\ UserView(u, t)' \in UserViews
    BY <1>2, <2>1, ViewsTyped, ViewsTypedNext
  <2> QED
    BY <1>1, <1>2, <1>4, <2>2 DEF UserView
<1>8. UserView(u, t)'.out = [UserView(u, t).out EXCEPT !.give = PageWords]
  BY <1>7 DEF w
<1>9. /\ \A a \in TagViews : Phase(a, UserView(u, t)) =>
           Phase(a, UserView(u, t)') /\ UserView(u, t)'.out.op = UserView(u, t).out.op
      /\ ~Resting(UserView(u, t))
  BY <1>7, <1>8, RequestTaken
<1>10. Parts'
  <2>1. Parts /\ t \in OrigTags
    BY <1>2
  <2> HIDE DEF SwitchInv, Parts
  <2> QED
    BY <1>1, <1>4, <1>5, <1>6, <1>9, <2>1, UserStep
<1> QED
  BY <1>1, <1>10 DEF renameVars

(* A user takes an acknowledgement.                                        *)
LEMMA AckStatusStep ==
  ASSUME SwitchInv, NEW u \in Users, AckStatus(u)
  PROVE  Parts' /\ UNCHANGED renameVars
<1> USE DEF SwitchInv, Parts
<1>0. PICK t \in OrigTags : t = Head(ackStatusQs[u]).tag
  <2>1. ackStatusQs[u] \in Seq(Answers) /\ NotEmpty(ackStatusQs[u])
    BY DEF Typed, AckStatus
  <2>2. Head(ackStatusQs[u]) \in Answers
    BY <2>1, Dequeued
  <2> QED
    BY <2>2 DEF Answers
<1>1. /\ NotEmpty(ackStatusQs[u]) /\ ackStatusQs' = Get(ackStatusQs, u)
      /\ out' = [out EXCEPT ![u][t] = Done]
      /\ UNCHANGED <<initCnt, init, freeTagQ, tb, readReqQ, inUse>>
      /\ UNCHANGED <<cmdOutputQ, writeWordQ, tagRenames>>
      /\ UNCHANGED <<flashRespQ0, flashRespQ1, flashRespQ2, beatCnts, ctrl>>
      /\ UNCHANGED <<readWordQs, writeReqQs>>
  BY <1>0 DEF AckStatus, renameVars, down, flashRespQs
<1>2. /\ ackStatusQs' \in HomeQs /\ t \in OrigTags
      /\ Count(ackStatusQs[u], t) > 0 /\ Count(ackStatusQs'[u], t) = Count(ackStatusQs[u], t) - 1
      /\ \A v \in Users, s \in OrigTags :
           <<v, s>> # <<u, t>> => Count(ackStatusQs'[v], s) = Count(ackStatusQs[v], s)
  <2>1. ackStatusQs \in HomeQs
    BY DEF AllHome
  <2> QED
    BY <1>0, <1>1, <2>1, TakenHome
<1>3. Done \in Outs
  BY PageSize DEF Done, Outs
<1>4. /\ out' \in [Users -> [OrigTags -> Outs]] /\ out'[u][t] = Done
      /\ \A v \in Users, s \in OrigTags : <<v, s>> # <<u, t>> => out'[v][s] = out[v][s]
  BY <1>1, <1>2, <1>3, OutSet DEF Typed
<1>5. AllHome'
  BY <1>1, <1>2 DEF AllHome
<1>6. OtherUsers(u, t)
  BY <1>1, <1>2, <1>4 DEF OtherUsers, UserView
<1>7. /\ UserView(u, t) \in UserViews /\ UserView(u, t)' \in UserViews /\ UserView(u, t).acks > 0
      /\ UserView(u, t)'.acks = UserView(u, t).acks - 1
      /\ UserView(u, t)'.words = UserView(u, t).words /\ UserView(u, t)'.reqs = UserView(u, t).reqs
      /\ UserView(u, t)'.out = Done
  <2>1. Typed'
    BY <1>1, <1>2, <1>4 DEF Typed, RenameTypeOK, HomeQs, AnswerQs
  <2>2. UserView(u, t) \in UserViews /\ UserView(u, t)' \in UserViews
    BY <1>2, <2>1, ViewsTyped, ViewsTypedNext
  <2> QED
    BY <1>1, <1>2, <1>4, <2>2 DEF UserView
<1>8. /\ \A a \in TagViews : ~Phase(a, UserView(u, t))
      /\ Resting(UserView(u, t)) => Resting(UserView(u, t)')
  BY <1>7, AckTaken
<1>9. Parts'
  <2>1. Parts /\ t \in OrigTags
    BY <1>2
  <2> HIDE DEF SwitchInv, Parts
  <2> QED
    BY <1>1, <1>4, <1>5, <1>6, <1>8, <2>1, UserStep
<1> QED
  BY <1>1, <1>9 DEF renameVars

(* A user gives down a word of the page it was asked for.                  *)
LEMMA WriteWordStep ==
  ASSUME SwitchInv, NEW u \in Users, NEW t \in OrigTags, WriteWord(u, t)
  PROVE  Parts' /\ UNCHANGED renameVars
<1> USE DEF SwitchInv, Parts
<1> DEFINE w == [out[u][t] EXCEPT !.give = @ - 1]
<1>1. /\ out[u][t].give > 0
      /\ writeWordQ' = Append(writeWordQ, [tag |-> tagRenames[u][t], own |-> <<u, t>>])
      /\ UNCHANGED <<initCnt, init, freeTagQ, tb, readReqQ, inUse, cmdOutputQ, tagRenames>>
      /\ UNCHANGED <<flashRespQ0, flashRespQ1, flashRespQ2, beatCnts, ctrl>>
      /\ UNCHANGED <<readWordQs, writeReqQs, ackStatusQs>> /\ UNCHANGED renameVars
  BY DEF WriteWord, NewTag, renameVars, flashRespQs, userQs
<1>2. w \in Outs /\ out' = [out EXCEPT ![u][t] = w]
  <2>1. /\ out \in [Users -> [OrigTags -> Outs]] /\ out[u][t] \in Outs
        /\ out[u][t].give \in 0 .. PageWords
    BY DEF Typed, Outs
  <2>2. w \in Outs
    <3>1. out[u][t].give - 1 \in 0 .. PageWords
      BY <1>1, <2>1, PageSize
    <3> QED
      BY <2>1, <3>1 DEF Outs
  <2>3. out' = [out EXCEPT ![u][t] = w]
    BY <2>1 DEF WriteWord
  <2> QED
    BY <2>2, <2>3
<1>3. UserView(u, t) \in UserViews /\ UserView(u, t).out = out[u][t]
  BY ViewsTyped, Fields
<1>4. ~Resting(UserView(u, t))
  BY <1>1, <1>3 DEF Resting, Done
<1>5. PICK n \in inUse : Owned(n, u, t)
  BY <1>4 DEF Lives
<1>6. /\ n \in Tags /\ tagRenames[u][t] = n /\ tb[n] \in Entries
      /\ TagView(n) \in TagViews /\ Phase(TagView(n), UserView(u, t))
  BY <1>5, Living DEF Renamed, Lives
<1>7. PICK x \in Items : x = [tag |-> n, own |-> <<u, t>>] /\ x \in Belonging /\ x.tag = n
  <2> DEFINE r == [tag |-> n, own |-> <<u, t>>]
  <2>1. r \in Items /\ r.tag = n /\ r.own = <<tb[n].channel, tb[n].tag>>
    BY <1>5, <1>6 DEF Items, Owns, Owned
  <2>2. r = [tag |-> n, own |-> <<u, t>>]
    OBVIOUS
  <2> HIDE DEF r
  <2>3. r \in Belonging
    BY <2>1 DEF Belonging
  <2> QED
    BY <2>1, <2>2, <2>3
<1>8. writeWordQ' = Append(writeWordQ, x)
  BY <1>1, <1>6, <1>7
<1>9. /\ writeWordQ' \in Seq(Items) /\ writeWordQ' \in Seq(Belonging)
      /\ Count(writeWordQ', n) = Count(writeWordQ, n) + 1
      /\ \A m \in Tags \ {n} : Count(writeWordQ', m) = Count(writeWordQ, m)
  <2>1. writeWordQ \in Seq(Items) /\ writeWordQ \in Seq(Belonging)
    BY DEF Typed, AllBelong
  <2> QED
    <3>1. writeWordQ' \in Seq(Items) /\ writeWordQ' \in Seq(Belonging)
      BY <1>7, <1>8, <2>1
    <3>2. \A m : Count(Append(writeWordQ, x), m) =
                 IF x.tag = m THEN Count(writeWordQ, m) + 1 ELSE Count(writeWordQ, m)
      BY <2>1, CountPut
    <3> QED
      BY <1>7, <1>8, <3>1, <3>2
<1> HIDE DEF w
<1>10. /\ out' \in [Users -> [OrigTags -> Outs]] /\ out'[u][t] = w
       /\ \A v \in Users, s \in OrigTags : <<v, s>> # <<u, t>> => out'[v][s] = out[v][s]
  BY <1>2, OutSet DEF Typed
<1>11. Typed'
  BY <1>1, <1>9, <1>10 DEF Typed, RenameTypeOK
<1>12. OtherTags(n) /\ OtherUsers(u, t)
  BY <1>1, <1>9, <1>10 DEF OtherTags, OtherUsers, TagView, UserView
<1>13. /\ TagView(n)'.at = TagView(n).at
       /\ TagView(n)'.cmds = TagView(n).cmds /\ TagView(n)'.sent = TagView(n).sent + 1
       /\ TagView(n)'.words = TagView(n).words /\ TagView(n)'.reqs = TagView(n).reqs
       /\ TagView(n)'.acks = TagView(n).acks
  BY <1>1, <1>9 DEF TagView
<1>14. /\ UserView(u, t)'.out = w /\ UserView(u, t)'.words = UserView(u, t).words
       /\ UserView(u, t)'.reqs = UserView(u, t).reqs /\ UserView(u, t)'.acks = UserView(u, t).acks
  BY <1>1, <1>10 DEF UserView
<1>15. UserView(u, t)'.out = [UserView(u, t).out EXCEPT !.give = @ - 1]
  BY <1>3, <1>14 DEF w
<1>16. TagView(n)' \in TagViews /\ UserView(u, t)' \in UserViews
  BY <1>6, <1>11, ViewsTypedNext
<1>17. Phase(TagView(n)', UserView(u, t)') /\ UserView(u, t)'.out.op = UserView(u, t).out.op
  <2>1. UserView(u, t).out.give > 0
    BY <1>1, <1>3
  <2> QED
    BY <1>3, <1>6, <1>13, <1>14, <1>15, <1>16, <2>1, WordGivenDown
<1>18. Lives'
  BY <1>1, <1>5, <1>12, <1>17, TagMoves
<1>19. CmdsFit'
  <2>1. out'[u][t].op = out[u][t].op
    BY <1>3, <1>10, <1>14, <1>17
  <2>2. \A v \in Users, s \in OrigTags : out'[v][s].op = out[v][s].op
    BY <1>10, <2>1
  <2> QED
    BY <1>1, <2>2, CmdsKept
<1>20. Renamed'
  BY <1>1, RenamedKept
<1>21. AllBelong' /\ AllHome'
  <2>1. Belonging' = Belonging
    BY <1>1 DEF Belonging
  <2> QED
    BY <1>1, <1>9, <2>1 DEF AllBelong, AllHome
<1>22. PortsFollow'
  BY <1>1 DEF PortsFollow
<1>23. PagesApart' /\ BeatsCounted'
  BY <1>1, ReadsKept
<1> QED
  BY <1>1, <1>11, <1>18, <1>19, <1>20, <1>21, <1>22, <1>23

(* The tag that a command takes was free.                                  *)
LEMMA FreeTagIsFree ==
  ASSUME SwitchInv, NotEmpty(freeTagQ)
  PROVE  FreeTag \in Tags \ inUse /\ Tail(freeTagQ) \in Seq(Tags)
<1>1. freeTagQ \in Seq(Tags) /\ Len(freeTagQ) > 0
  BY DEF SwitchInv, IInv, RenameTypeOK, NotEmpty
<1>2. FreeTag \in TagsIn(freeTagQ) /\ Tail(freeTagQ) \in Seq(Tags)
  BY <1>1, TailDistinct DEF SwitchInv, IInv, TagsPartitioned, FreeTagsDistinct, FreeTag
<1>3. FreeTag \in Tags
  BY <1>1 DEF FreeTag
<1> QED
  BY <1>2, <1>3 DEF SwitchInv, IInv, TagsPartitioned

(* A user sends a command, which takes a free tag.                         *)
LEMMA SendCmdStep ==
  ASSUME SwitchInv, NEW u \in Users, NEW t \in OrigTags, NEW b \in Buses, NEW op \in Ops,
         SendCmd(u, t, op, b)
  PROVE  Parts' /\ TakeTag
<1> USE DEF SwitchInv, Parts
<1> DEFINE d == [tag |-> t, channel |-> u, bus |-> b]
           w == [op |-> op, got |-> 0, give |-> 0]
<1>1. /\ out[u][t].op = "NONE" /\ WriteEntry(d)
      /\ cmdOutputQ' = Append(cmdOutputQ, [op |-> op, bus |-> b, tag |-> FreeTag, own |-> <<u, t>>])
      /\ tagRenames' = [tagRenames EXCEPT ![u][t] = FreeTag]
      /\ out' = [out EXCEPT ![u][t] = w]
      /\ UNCHANGED <<initCnt, init, readReqQ, writeWordQ>>
      /\ UNCHANGED <<flashRespQ0, flashRespQ1, flashRespQ2, beatCnts, ctrl>>
      /\ UNCHANGED <<readWordQs, writeReqQs, ackStatusQs>>
  BY DEF SendCmd, NoteTag, flashRespQs, userQs
<1>2. d \in Entries /\ d \in Data /\ w \in Outs
  BY FlashSwitchAssumption, PageSize DEF Entries, Outs
<1>3. TakeTag
  BY <1>1, <1>2 DEF TakeTag
<1>4. PICK n \in Tags \ inUse : n = FreeTag /\ Tail(freeTagQ) \in Seq(Tags)
  <2>1. NotEmpty(freeTagQ)
    BY <1>1 DEF WriteEntry
  <2>2. SwitchInv
    OBVIOUS
  <2> HIDE DEF SwitchInv, Parts
  <2> QED
    BY <2>1, <2>2, FreeTagIsFree
<1>5. /\ freeTagQ' \in Seq(Tags) /\ tb' = [tb EXCEPT ![n] = d] /\ inUse' = inUse \union {n}
  BY <1>1, <1>4 DEF WriteEntry
<1> HIDE DEF d, w
<1>6. /\ tb'[n] = d /\ \A m \in Tags \ {n} : tb'[m] = tb[m]
      /\ tb' \in [Tags -> Data \union {Rubbish}] /\ inUse \subseteq Tags
  BY <1>2, <1>4, <1>5 DEF Typed, RenameTypeOK
<1>7. d.tag = t /\ d.channel = u /\ d.bus = b
  BY DEF d
<1>8. PICK c \in Cmds : /\ c = [op |-> op, bus |-> b, tag |-> n, own |-> <<u, t>>]
                        /\ c.tag = n /\ c.op = op /\ c.bus = b /\ c.own = <<u, t>>
  <2> DEFINE r == [op |-> op, bus |-> b, tag |-> n, own |-> <<u, t>>]
  <2>1. r \in Cmds /\ r.tag = n /\ r.op = op /\ r.bus = b /\ r.own = <<u, t>>
    BY DEF Cmds, Owns
  <2>2. r = [op |-> op, bus |-> b, tag |-> n, own |-> <<u, t>>]
    OBVIOUS
  <2> HIDE DEF r
  <2> QED
    BY <2>1, <2>2
<1>9. cmdOutputQ' = Append(cmdOutputQ, c)
  BY <1>1, <1>4, <1>8
<1>10. /\ cmdOutputQ' \in Seq(Cmds)
       /\ Count(cmdOutputQ', n) = Count(cmdOutputQ, n) + 1
       /\ \A m \in Tags \ {n} : Count(cmdOutputQ', m) = Count(cmdOutputQ, m)
       /\ Len(cmdOutputQ) \in Nat /\ Len(cmdOutputQ') = Len(cmdOutputQ) + 1
       /\ cmdOutputQ'[Len(cmdOutputQ) + 1] = c
       /\ \A i \in 1 .. Len(cmdOutputQ) : cmdOutputQ'[i] = cmdOutputQ[i]
  <2>1. cmdOutputQ \in Seq(Cmds)
    BY DEF Typed
  <2> QED
    <3>1. \A m : Count(Append(cmdOutputQ, c), m) =
                 IF c.tag = m THEN Count(cmdOutputQ, m) + 1 ELSE Count(cmdOutputQ, m)
      BY <2>1, CountPut
    <3>2. /\ Append(cmdOutputQ, c) \in Seq(Cmds)
          /\ Len(cmdOutputQ) \in Nat /\ Len(Append(cmdOutputQ, c)) = Len(cmdOutputQ) + 1
          /\ Append(cmdOutputQ, c)[Len(cmdOutputQ) + 1] = c
          /\ \A i \in 1 .. Len(cmdOutputQ) : Append(cmdOutputQ, c)[i] = cmdOutputQ[i]
      BY <2>1, Enqueued
    <3> QED
      BY <1>8, <1>9, <3>1, <3>2
<1>11. /\ out' \in [Users -> [OrigTags -> Outs]] /\ out'[u][t] = w
       /\ \A v \in Users, s \in OrigTags : <<v, s>> # <<u, t>> => out'[v][s] = out[v][s]
  <2>1. out \in [Users -> [OrigTags -> Outs]]
    BY DEF Typed
  <2> QED
    BY <1>1, <1>2, <2>1, OutSet
<1>12. /\ tagRenames' \in [Users -> [OrigTags -> Tags \union {Rubbish}]] /\ tagRenames'[u][t] = n
       /\ \A v \in Users, s \in OrigTags : <<v, s>> # <<u, t>> => tagRenames'[v][s] = tagRenames[v][s]
  <2>1. tagRenames \in [Users -> [OrigTags -> Tags \union {Rubbish}]]
    BY DEF Typed
  <2>2. tagRenames' = [tagRenames EXCEPT ![u][t] = n] /\ n \in Tags
    BY <1>1, <1>4
  <2>3. /\ tagRenames'[u] = [tagRenames[u] EXCEPT ![t] = n]
        /\ \A v \in Users \ {u} : tagRenames'[v] = tagRenames[v]
        /\ tagRenames[u] \in [OrigTags -> Tags \union {Rubbish}]
    BY <2>1, <2>2
  <2>4. /\ tagRenames'[u] \in [OrigTags -> Tags \union {Rubbish}] /\ tagRenames'[u][t] = n
        /\ \A s \in OrigTags \ {t} : tagRenames'[u][s] = tagRenames[u][s]
    BY <2>2, <2>3
  <2>5. tagRenames' \in [Users -> [OrigTags -> Tags \union {Rubbish}]]
    BY <2>1, <2>2, <2>3, <2>4
  <2> QED
    BY <2>3, <2>4, <2>5
<1>13. Typed'
  BY <1>1, <1>4, <1>5, <1>6, <1>10, <1>11, <1>12 DEF Typed, RenameTypeOK
<1>14. OtherTags(n) /\ OtherUsers(u, t)
  BY <1>1, <1>10, <1>11 DEF OtherTags, OtherUsers, TagView, UserView
<1>15. /\ TagView(n)'.at = TagView(n).at /\ TagView(n)'.cmds = TagView(n).cmds + 1
       /\ TagView(n)'.sent = TagView(n).sent /\ TagView(n)'.words = TagView(n).words
       /\ TagView(n)'.reqs = TagView(n).reqs /\ TagView(n)'.acks = TagView(n).acks
  BY <1>1, <1>10 DEF TagView
<1>16. /\ UserView(u, t)'.out = w /\ UserView(u, t)'.words = UserView(u, t).words
       /\ UserView(u, t)'.reqs = UserView(u, t).reqs /\ UserView(u, t)'.acks = UserView(u, t).acks
       /\ UserView(u, t).out.op = "NONE" /\ w.op = op /\ w.got = 0 /\ w.give = 0
  BY <1>1, <1>11 DEF UserView, w
<1>17. /\ TagView(n) \in TagViews /\ TagView(n)' \in TagViews
       /\ UserView(u, t) \in UserViews /\ UserView(u, t)' \in UserViews
  BY <1>13, ViewsTyped, ViewsTypedNext
<1>18. \A m \in inUse : ~Owned(m, u, t)
  <2> SUFFICES ASSUME NEW m \in inUse, Owned(m, u, t) PROVE FALSE
    OBVIOUS
  <2>1. Phase(TagView(m), UserView(u, t))
    BY DEF Lives
  <2> QED
    BY <1>16, <2>1 DEF Phase, Waiting, Reading, Writing, Erasing, Answering, Ops
<1>19. Nowhere(TagView(n)) /\ Resting(UserView(u, t))
  BY <1>18 DEF Lives
<1>20. Phase(TagView(n)', UserView(u, t)')
  BY <1>15, <1>16, <1>17, <1>19, Sends
<1>21. Lives'
  BY <1>5, <1>6, <1>7, <1>14, <1>18, <1>20, TagTaken
<1>22. /\ \A m \in Tags \ {n} : \A v, s : Owned(m, v, s)' <=> Owned(m, v, s)
       /\ \A v, s : Owned(n, v, s)' <=> v = u /\ s = t
  BY <1>6, <1>7 DEF Owned
<1>23. Renamed'
  <2> SUFFICES ASSUME NEW m \in inUse'
               PROVE  /\ tb'[m] \in Entries
                      /\ \A v \in Users, s \in OrigTags : Owned(m, v, s)' => tagRenames'[v][s] = m
    BY DEF Renamed
  <2>1. CASE m = n
    BY <1>2, <1>6, <1>12, <1>22, <2>1
  <2>2. CASE m # n
    <3>1. m \in inUse /\ m \in Tags \ {n} /\ tb'[m] = tb[m]
      BY <1>5, <1>6, <2>2
    <3>2. ASSUME NEW v \in Users, NEW s \in OrigTags, Owned(m, v, s)'
          PROVE  tagRenames'[v][s] = m
      <4>1. Owned(m, v, s)
        BY <1>22, <3>1, <3>2
      <4>2. <<v, s>> # <<u, t>>
        BY <1>18, <3>1, <4>1
      <4> QED
        BY <1>12, <3>1, <4>1, <4>2 DEF Renamed
    <3> QED
      BY <3>1, <3>2 DEF Renamed
  <2> QED
    BY <2>1, <2>2
<1>24. AllBelong'
  <2>1. ASSUME NEW q \in Seq(Items), q \in Seq(Belonging), \A i \in 1 .. Len(q) : q[i].tag \in inUse
        PROVE  q \in Seq(Belonging')
    <3>1. ASSUME NEW i \in 1 .. Len(q) PROVE q[i] \in Belonging'
      <4>1. q[i] \in Belonging /\ q[i].tag \in Tags \ {n}
        BY <1>4, <1>6, <2>1
      <4>2. tb'[q[i].tag] = tb[q[i].tag]
        BY <1>6, <4>1
      <4> QED
        BY <4>1, <4>2 DEF Belonging
    <3> QED
      BY <2>1, <3>1, SeqOfMembers
  <2>2. /\ writeWordQ \in Seq(Items) /\ writeWordQ \in Seq(Belonging)
        /\ flashRespQ0 \in Seq(Items) /\ flashRespQ0 \in Seq(Belonging)
        /\ flashRespQ1 \in Seq(Items) /\ flashRespQ1 \in Seq(Belonging)
        /\ flashRespQ2 \in Seq(Items) /\ flashRespQ2 \in Seq(Belonging)
    BY DEF Typed, AllBelong
  <2>3. /\ writeWordQ \in Seq(Belonging') /\ flashRespQ0 \in Seq(Belonging')
        /\ flashRespQ1 \in Seq(Belonging') /\ flashRespQ2 \in Seq(Belonging')
    BY <2>1, <2>2, QueuedInUse
  <2>4. ASSUME NEW m \in Tags, ctrl[m] # Idle
        PROVE  ctrl[m].own = <<tb'[m].channel, tb'[m].tag>> /\ ctrl[m].bus = tb'[m].bus
    <3>1. m \in inUse
      BY <2>4, Fields, SomewhereInUse
    <3>2. tb'[m] = tb[m]
      BY <1>4, <1>6, <3>1
    <3> QED
      BY <2>4, <3>2 DEF AllBelong
  <2> QED
    BY <1>1, <2>3, <2>4 DEF AllBelong
<1>25. CmdsFit'
  <2>1. CmdFits(c)'
    <3>1. /\ Owned(c.tag, u, t)' /\ c.own = <<u, t>> /\ c.bus = tb'[c.tag].bus
          /\ c.op = out'[u][t].op
      BY <1>6, <1>7, <1>8, <1>11, <1>16, <1>22
    <3> QED
      BY <3>1 DEF CmdFits
  <2>2. ASSUME NEW i \in 1 .. Len(cmdOutputQ) PROVE CmdFits(cmdOutputQ[i])'
    <3> DEFINE e == cmdOutputQ[i]
    <3>1. e.tag \in inUse
      BY QueuedInUse
    <3>2. PICK v \in Users, s \in OrigTags :
            Owned(e.tag, v, s) /\ e.own = <<v, s>> /\ e.bus = tb[e.tag].bus /\ e.op = out[v][s].op
      BY DEF CmdsFit, CmdFits
    <3>3. <<v, s>> # <<u, t>> /\ tb'[e.tag] = tb[e.tag] /\ cmdOutputQ'[i] = e
      BY <1>4, <1>6, <1>10, <1>18, <3>1, <3>2
    <3>4. /\ tb'[e.tag].channel = v /\ tb'[e.tag].tag = s /\ e.bus = tb'[e.tag].bus
          /\ e.op = out'[v][s].op
      BY <1>11, <3>2, <3>3 DEF Owned
    <3> QED
      BY <3>2, <3>3, <3>4 DEF CmdFits, Owned
  <2> QED
    BY <1>10, <2>1, <2>2 DEF CmdsFit
<1>26. AllHome' /\ PortsFollow'
  BY <1>1 DEF AllHome, PortsFollow
<1>27. PagesApart' /\ BeatsCounted'
  <2>1. \A m \in inUse : tb'[m] = tb[m]
    BY <1>4, <1>6
  <2> QED
    BY <1>1, <2>1, ReadsKept
<1> QED
  BY <1>3, <1>13, <1>21, <1>23, <1>24, <1>25, <1>26, <1>27

-----------------------------------------------------------------------------
(* The invariant holds initially and is kept by every step, and every step *)
(* is one of the rename table with a client that keeps its rule.           *)

(* The table fills its list of free tags.                                  *)
LEMMA StartUpStep ==
  ASSUME SwitchInv, StartUp
  PROVE  Parts' /\ Initialize
<1> USE DEF SwitchInv, Parts
<1>1. /\ Initialize /\ UNCHANGED <<tb, readReqQ, inUse, cmdOutputQ, writeWordQ, tagRenames>>
      /\ UNCHANGED <<flashRespQ0, flashRespQ1, flashRespQ2, beatCnts, out, ctrl>>
      /\ UNCHANGED <<readWordQs, writeReqQs, ackStatusQs>>
  BY DEF StartUp, Initialize, down, flashRespQs, userQs
<1>2. RenameTypeOK'
  <2>1. [RenameNext]_renameVars /\ IInv
    BY <1>1 DEF RenameNext
  <2>2. IInv'
    BY <2>1, StepIInv
  <2> QED
    BY <2>2 DEF IInv
<1>3. Typed'
  BY <1>1, <1>2 DEF Typed
<1>4. (\A m : TagView(m)' = TagView(m)) /\ \A v, s : UserView(v, s)' = UserView(v, s)
  BY <1>1 DEF TagView, UserView
<1>5. Lives'
  <2>1. inUse' = inUse /\ tb' = tb
    BY <1>1
  <2> QED
    BY <1>4, <2>1, LivesNext DEF Lives
<1>6. Renamed' /\ CmdsFit'
  BY <1>1, RenamedKept, CmdsKept
<1>7. AllBelong' /\ AllHome' /\ PortsFollow'
  <2>1. Belonging' = Belonging
    BY <1>1 DEF Belonging
  <2> QED
    BY <1>1, <2>1 DEF AllBelong, AllHome, PortsFollow
<1>8. PagesApart' /\ BeatsCounted'
  BY <1>1, ReadsKept
<1> QED
  BY <1>1, <1>3, <1>5, <1>6, <1>7, <1>8

(* The initial states satisfy the invariant.                               *)
LEMMA InitInv == Init => SwitchInv
<1> SUFFICES ASSUME Init PROVE SwitchInv
  OBVIOUS
<1>1. IInv
  BY InitIInv DEF Init
<1>2. /\ inUse = {} /\ cmdOutputQ = <<>> /\ writeWordQ = <<>>
      /\ flashRespQ0 = <<>> /\ flashRespQ1 = <<>> /\ flashRespQ2 = <<>>
      /\ readReqQ = [p \in Ports |-> <<>>]
      /\ beatCnts = [b \in Buses |-> 0] /\ ctrl = [n \in Tags |-> Idle]
      /\ readWordQs = [u \in Users |-> <<>>] /\ writeReqQs = [u \in Users |-> <<>>]
      /\ ackStatusQs = [u \in Users |-> <<>>]
      /\ out = [u \in Users |-> [t \in OrigTags |-> Done]]
      /\ tagRenames = [u \in Users |-> [t \in OrigTags |-> Rubbish]]
  BY DEF Init, RenameInit
<1>3. \A S : <<>> \in Seq(S)
  OBVIOUS
<1>4. \A n : Count(<<>>, n) = 0
  <2>1. <<>> \in Seq({})
    OBVIOUS
  <2>2. \A i \in 1 .. Len(<<>>) : FALSE
    OBVIOUS
  <2> QED
    BY <2>1, <2>2, Counts
<1>5. Typed
  <2>1. Done \in Outs /\ Idle \in Works /\ 0 \in 0 .. PageWords - 1
    BY PageSize DEF Done, Outs, Works
  <2>2. RenameTypeOK
    BY <1>1 DEF IInv
  <2>3. /\ beatCnts \in [Buses -> 0 .. PageWords - 1] /\ ctrl \in [Tags -> Works]
        /\ out \in [Users -> [OrigTags -> Outs]]
        /\ tagRenames \in [Users -> [OrigTags -> Tags \union {Rubbish}]]
    BY <1>2, <2>1
  <2>4. /\ readWordQs \in [Users -> Seq(Answers)] /\ writeReqQs \in [Users -> Seq(Answers)]
        /\ ackStatusQs \in [Users -> Seq(Answers)]
    BY <1>2, <1>3
  <2>5. /\ cmdOutputQ \in Seq(Cmds) /\ writeWordQ \in Seq(Items)
        /\ flashRespQ0 \in Seq(Items) /\ flashRespQ1 \in Seq(Items) /\ flashRespQ2 \in Seq(Items)
    BY <1>2, <1>3
  <2> QED
    BY <2>2, <2>3, <2>4, <2>5 DEF Typed
<1>6. Lives
  <2>1. \A n \in Tags : Nowhere(TagView(n))
    BY <1>2, <1>4 DEF Nowhere, TagView
  <2>2. \A u \in Users, t \in OrigTags : Resting(UserView(u, t))
    BY <1>2, <1>4 DEF Resting, UserView, Done
  <2> QED
    BY <1>2, <2>1, <2>2 DEF Lives
<1>7. Renamed /\ CmdsFit
  BY <1>2 DEF Renamed, CmdsFit
<1>8. AllBelong
  BY <1>2, <1>3 DEF AllBelong
<1>9. AllHome
  BY <1>2, <1>3 DEF AllHome, HomeQs, AnswerQs
<1>10. PortsFollow
  BY <1>2, FlashSwitchAssumption DEF PortsFollow, SameTags
<1>11. \A n \in Tags : ToCome(n) = 0
  BY <1>2, <1>4, RecordFields DEF ToCome
<1>12. PagesApart /\ BeatsCounted
  BY <1>2, <1>11 DEF PagesApart, BeatsCounted, Begun
<1> QED
  BY <1>1, <1>5, <1>6, <1>7, <1>8, <1>9, <1>10, <1>12 DEF SwitchInv, Parts

(* Every step of the switch is one of its rename table.                    *)
LEMMA StepInv ==
  SwitchInv /\ [Next]_vars => SwitchInv' /\ [RenameNext]_renameVars
<1> SUFFICES ASSUME SwitchInv, [Next]_vars PROVE SwitchInv' /\ [RenameNext]_renameVars
  OBVIOUS
<1>1. Parts' /\ [RenameNext]_renameVars
  <2>1. CASE StartUp
    BY <2>1, StartUpStep DEF RenameNext
  <2>2. CASE DistReadWord
    BY <2>2, DistReadWordStep DEF RenameNext
  <2>3. CASE DistWriteReq
    BY <2>3, DistWriteReqStep DEF RenameNext
  <2>4. CASE DistAckStatus
    BY <2>4, DistAckStatusStep DEF RenameNext
  <2>5. CASE CtrlSendCmd
    BY <2>5, CtrlSendCmdStep
  <2>6. CASE CtrlWriteWord
    BY <2>6, CtrlWriteWordStep
  <2>7. ASSUME NEW n \in Tags, CtrlReadWord(n) PROVE Parts' /\ [RenameNext]_renameVars
    BY <2>7, CtrlReadWordStep DEF RenameNext
  <2>8. ASSUME NEW n \in Tags, CtrlWriteDataReq(n) PROVE Parts' /\ [RenameNext]_renameVars
    BY <2>8, CtrlWriteDataReqStep DEF RenameNext
  <2>9. ASSUME NEW n \in Tags, CtrlAckStatus(n) PROVE Parts' /\ [RenameNext]_renameVars
    BY <2>9, CtrlAckStatusStep DEF RenameNext
  <2>10. ASSUME NEW u \in Users, UserServes(u) PROVE Parts' /\ [RenameNext]_renameVars
    <3>1. CASE ReadWord(u)
      BY <3>1, ReadWordStep
    <3>2. CASE WriteDataReq(u)
      BY <3>2, WriteDataReqStep
    <3>3. CASE AckStatus(u)
      BY <3>3, AckStatusStep
    <3>4. ASSUME NEW t \in OrigTags, WriteWord(u, t) PROVE Parts' /\ [RenameNext]_renameVars
      BY <3>4, WriteWordStep
    <3> QED
      BY <2>10, <3>1, <3>2, <3>3, <3>4 DEF UserServes
  <2>11. ASSUME NEW u \in Users, NEW t \in OrigTags, NEW b \in Buses,
                NEW op \in {"READ", "WRITE", "ERASE"}, SendCmd(u, t, op, b)
         PROVE  Parts' /\ [RenameNext]_renameVars
    BY <2>11, SendCmdStep DEF RenameNext, Ops
  <2>12. CASE UNCHANGED vars
    <3>1. /\ UNCHANGED <<initCnt, init, freeTagQ, tb, readReqQ, inUse>>
          /\ UNCHANGED <<cmdOutputQ, writeWordQ, tagRenames>>
          /\ UNCHANGED <<flashRespQ0, flashRespQ1, flashRespQ2, beatCnts, out, ctrl>>
          /\ UNCHANGED <<readWordQs, writeReqQs, ackStatusQs>> /\ UNCHANGED renameVars
      BY <2>12 DEF vars, renameVars, down, flashRespQs, userQs
    <3>2. Typed' /\ AllHome' /\ PortsFollow'
      BY <3>1 DEF SwitchInv, Parts, Typed, RenameTypeOK, AllHome, PortsFollow
    <3>3. (\A m : TagView(m)' = TagView(m)) /\ \A v, s : UserView(v, s)' = UserView(v, s)
      BY <3>1 DEF TagView, UserView
    <3>4. Lives'
      <4>1. inUse' = inUse /\ tb' = tb /\ Lives
        BY <3>1 DEF SwitchInv, Parts
      <4> QED
        BY <3>3, <4>1, LivesNext DEF Lives
    <3>5. Renamed' /\ CmdsFit' /\ PagesApart' /\ BeatsCounted'
      BY <3>1, RenamedKept, CmdsKept, ReadsKept DEF SwitchInv, Parts
    <3>6. AllBelong'
      <4>1. Belonging' = Belonging
        BY <3>1 DEF Belonging
      <4> QED
        BY <3>1, <4>1 DEF SwitchInv, Parts, AllBelong
    <3> QED
      BY <3>1, <3>2, <3>4, <3>5, <3>6 DEF Parts
  <2> QED
    BY <2>1, <2>2, <2>3, <2>4, <2>5, <2>6, <2>7, <2>8, <2>9, <2>10, <2>11, <2>12
       DEF Next, Switch, Controller
<1>2. IInv'
  BY <1>1, StepIInv DEF SwitchInv
<1> QED
  BY <1>1, <1>2 DEF SwitchInv

(* The invariant holds in every reachable state of the switch.             *)
THEOREM Invariance == Spec => []SwitchInv
  BY InitInv, StepInv, PTL DEF Spec

-----------------------------------------------------------------------------
(* What the invariant says of the switch.                                  *)

(* The elements of a queue as a set.                                       *)
LEMMA QueueSets ==
  ASSUME NEW S, NEW q \in Seq(S)
  PROVE  InQueue(q) \subseteq S
  BY DEF InQueue

(* The queues and registers have their types.                              *)
LEMMA TypesHold == SwitchInv => TypeOK
<1> SUFFICES ASSUME SwitchInv PROVE TypeOK
  OBVIOUS
<1>1. Typed
  BY DEF SwitchInv, Parts
<1>2. /\ InQueue(writeWordQ) \subseteq Items /\ InQueue(flashRespQ0) \subseteq Items
      /\ InQueue(flashRespQ1) \subseteq Items /\ InQueue(flashRespQ2) \subseteq Items
  BY <1>1, QueueSets DEF Typed
<1>3. \A u \in Users :
        /\ InQueue(readWordQs[u]) \subseteq Answers /\ InQueue(writeReqQs[u]) \subseteq Answers
        /\ InQueue(ackStatusQs[u]) \subseteq Answers
  <2>1. \A u \in Users :
          readWordQs[u] \in Seq(Answers) /\ writeReqQs[u] \in Seq(Answers) /\ ackStatusQs[u] \in Seq(Answers)
    BY <1>1 DEF Typed
  <2> QED
    BY <2>1, QueueSets
<1> QED
  BY <1>1, <1>2, <1>3 DEF TypeOK, Typed, Cmds, Items, Answers

(* Responses come home.                                                    *)
LEMMA HomeHolds == SwitchInv => ResponsesComeHome
<1> SUFFICES ASSUME SwitchInv, NEW u \in Users,
                    NEW r \in InQueue(readWordQs[u]) \union InQueue(writeReqQs[u])
                                \union InQueue(ackStatusQs[u])
             PROVE  r.own = <<u, r.tag>>
  BY DEF ResponsesComeHome
<1>1. /\ readWordQs[u] \in Seq(Own(u)) /\ writeReqQs[u] \in Seq(Own(u))
      /\ ackStatusQs[u] \in Seq(Own(u))
  BY DEF SwitchInv, Parts, AllHome, HomeQs
<1>2. /\ InQueue(readWordQs[u]) \subseteq Own(u) /\ InQueue(writeReqQs[u]) \subseteq Own(u)
      /\ InQueue(ackStatusQs[u]) \subseteq Own(u)
  BY <1>1, QueueSets
<1>3. r \in Own(u)
  BY <1>2
<1> QED
  BY <1>3 DEF Own

(* Words on their way down find their command waiting for them.            *)
LEMMA WordsReach == SwitchInv => WriteWordsReachTheirCommand
<1> SUFFICES ASSUME SwitchInv, NEW w \in InQueue(writeWordQ)
             PROVE  w.tag \in Tags /\ ctrl[w.tag].st = "fetching" /\ ctrl[w.tag].own = w.own
  BY DEF WriteWordsReachTheirCommand
<1>1. Parts /\ Typed /\ Lives /\ AllBelong /\ writeWordQ \in Seq(Items) /\ writeWordQ \in Seq(Belonging)
  BY DEF SwitchInv, Parts, Typed, AllBelong
<1>2. PICK i \in 1 .. Len(writeWordQ) : w = writeWordQ[i]
  BY DEF InQueue
<1>3. w.tag \in inUse /\ w \in Belonging /\ Count(writeWordQ, w.tag) # 0
  BY <1>1, <1>2, QueuedInUse, ElementCounts
<1>4. PICK n \in inUse : n = w.tag
  BY <1>3
<1>5. PICK u \in Users, t \in OrigTags : Phase(TagView(n), UserView(u, t)) /\ UserView(u, t) \in UserViews
  BY <1>1, Living
<1>6. n \in Tags /\ TagView(n) \in TagViews /\ TagView(n).sent \in Nat
  BY <1>1, Living, RecordFields
<1>7. TagView(n).sent > 0 /\ TagView(n).at = ctrl[n]
  BY <1>3, <1>4, <1>6, Fields
<1>8. ctrl[n].st = "fetching" /\ ctrl[n] # Idle
  BY <1>5, <1>6, <1>7, WordExpected
<1>9. ctrl[n].own = w.own
  BY <1>1, <1>3, <1>4, <1>6, <1>8 DEF AllBelong, Belonging
<1> QED
  BY <1>4, <1>6, <1>8, <1>9

(* A tag in use is that of a command in the switch, and the other way      *)
(* round.                                                                  *)
LEMMA TagsFollow == SwitchInv => TagsFollowCommands
<1> SUFFICES ASSUME SwitchInv PROVE TagsFollowCommands
  OBVIOUS
<1>1. Parts /\ Typed /\ Lives /\ inUse \subseteq Tags
  BY DEF SwitchInv, Parts, Typed, RenameTypeOK
<1>2. /\ cmdOutputQ \in Seq(Cmds) /\ flashRespQ0 \in Seq(Items) /\ flashRespQ2 \in Seq(Items)
      /\ \A n \in Tags : ctrl[n] \in Works
  BY <1>1 DEF Typed
<1>2a. \A w \in Works : w # Idle => w.st # "idle"
  BY DEF Works
<1>2b. Idle.st = "idle"
  BY DEF Idle
<1>3. /\ \A n \in Tags : ctrl[n].st # "idle" => ctrl[n] # Idle
      /\ \A n \in Tags : ctrl[n] # Idle => ctrl[n].st # "idle"
  BY <1>2, <1>2a, <1>2b
<1> DEFINE C == {c.tag : c \in InQueue(cmdOutputQ)}
           W == {n \in Tags : ctrl[n].st # "idle"}
           R == {w.tag : w \in InQueue(flashRespQ0) \union InQueue(flashRespQ2)}
<1>4. C \subseteq inUse /\ R \subseteq inUse
  BY <1>1, QueuedInUse DEF InQueue
<1>5. W \subseteq inUse
  BY <1>1, <1>3, Fields, SomewhereInUse
<1>6. ASSUME NEW n \in inUse PROVE n \in C \union W \union R
  <2>1. PICK u \in Users, t \in OrigTags :
          Phase(TagView(n), UserView(u, t)) /\ UserView(u, t) \in UserViews /\ TagView(n) \in TagViews
    BY <1>1, Living
  <2>2. \/ TagView(n).cmds # 0 \/ TagView(n).at # Idle
        \/ TagView(n).words # 0 \/ TagView(n).acks # 0
    BY <2>1, RecordFields DEF Phase, Waiting, Reading, Writing, Erasing, Answering
  <2>3. \/ Count(cmdOutputQ, n) # 0 \/ ctrl[n] # Idle
        \/ Count(flashRespQ0, n) # 0 \/ Count(flashRespQ2, n) # 0
    BY <2>2, Fields
  <2>4. CASE Count(cmdOutputQ, n) # 0
    <3>1. PICK i \in 1 .. Len(cmdOutputQ) : cmdOutputQ[i].tag = n
      BY <1>2, <2>4, Counts
    <3> QED
      BY <3>1 DEF InQueue
  <2>5. CASE ctrl[n] # Idle
    BY <1>1, <1>3, <2>5
  <2>6. CASE Count(flashRespQ0, n) # 0
    <3>1. PICK i \in 1 .. Len(flashRespQ0) : flashRespQ0[i].tag = n
      BY <1>2, <2>6, Counts
    <3> QED
      BY <3>1 DEF InQueue
  <2>7. CASE Count(flashRespQ2, n) # 0
    <3>1. PICK i \in 1 .. Len(flashRespQ2) : flashRespQ2[i].tag = n
      BY <1>2, <2>7, Counts
    <3> QED
      BY <3>1 DEF InQueue
  <2> QED
    BY <2>3, <2>4, <2>5, <2>6, <2>7
<1>7. inUse = C \union W \union R
  BY <1>4, <1>5, <1>6
<1> QED
  BY <1>7 DEF TagsFollowCommands

-----------------------------------------------------------------------------
(* The types of the queues and registers of mkFlashSwitch, for any number  *)
(* of users, tags, buses and words.                                        *)
THEOREM TypeCorrect == Spec => []TypeOK
  BY Invariance, TypesHold, PTL

(* Responses come home under the user's own tag, write words reach the     *)
(* command they were asked for, and a renamed tag is in use exactly as     *)
(* long as its command is in the switch: commands never meet under a tag.  *)
THEOREM TagsKept == Spec => []CommandsKeepTheirTags
<1>1. SwitchInv => CommandsKeepTheirTags
  BY HomeHolds, WordsReach, TagsFollow DEF CommandsKeepTheirTags
<1> QED
  BY <1>1, Invariance, PTL

(* The switch implements the rename table with a client that returns only  *)
(* tags in use: it never returns a tag twice, or one that it did not get.  *)
THEOREM KeepsRule == Spec => KeepsRenameRule
<1>1. Init => RenameInit
  BY DEF Init
<1>2. SwitchInv /\ [Next]_vars => [RenameNext]_renameVars
  BY StepInv
<1> QED
  BY <1>1, <1>2, Invariance, PTL DEF Spec, KeepsRenameRule, RenameSpec

(* What is proved of the rename table therefore holds of the switch: its   *)
(* tags are conserved, returning one never blocks, and the entry of a tag  *)
(* in use is stable.                                                       *)
THEOREM TableSafe == Spec => []TagsPartitioned /\ []ReturnNeverBlocks /\ EntriesStable
  BY KeepsRule, TagsConserved, ReturnIsFree, EntriesAreStable, PTL DEF KeepsRenameRule
=============================================================================
