----------------------- MODULE FlashSwitchProperties ------------------------
(* What the flash switch guarantees its users.                             *)
EXTENDS FlashSwitch, TLC

Ops  == {"READ", "WRITE", "ERASE"}
Owns == Users \X OrigTags

InQueue(q) == {q[i] : i \in 1 .. Len(q)}

(* The types of the queues and registers.                                  *)
TypeOK ==
  /\ RenameTypeOK
  /\ cmdOutputQ \in Seq([op : Ops, bus : Buses, tag : Tags, own : Owns])
  /\ InQueue(writeWordQ) \union InQueue(flashRespQ0) \union InQueue(flashRespQ1)
       \union InQueue(flashRespQ2) \subseteq [tag : Tags, own : Owns]
  /\ beatCnts \in [Buses -> 0 .. PageWords - 1]
  /\ \A u \in Users : InQueue(readWordQs[u]) \union InQueue(writeReqQs[u])
                        \union InQueue(ackStatusQs[u]) \subseteq [tag : OrigTags, own : Owns]

(* Every response reaches the user that sent the command, under the tag    *)
(* that user gave it (distReadWord, distWriteReq, distAckStatus).          *)
ResponsesComeHome ==
  \A u \in Users :
    \A r \in InQueue(readWordQs[u]) \union InQueue(writeReqQs[u]) \union InQueue(ackStatusQs[u]) :
      r.own = <<u, r.tag>>

(* A word of write data is renamed to the tag of the command it was asked  *)
(* for, and that command is waiting for it (writeWord reads tagRenames).   *)
WriteWordsReachTheirCommand ==
  \A w \in InQueue(writeWordQ) :
    w.tag \in Tags /\ ctrl[w.tag].st = "fetching" /\ ctrl[w.tag].own = w.own

(* A renamed tag is in use exactly as long as its command is on its way    *)
(* down, at the controller, or its last response is on its way up: nothing *)
(* leaks a tag and nothing returns one early (invalidEntry).               *)
TagsFollowCommands ==
  inUse = {c.tag : c \in InQueue(cmdOutputQ)}
          \union {t \in Tags : ctrl[t].st # "idle"}
          \union {w.tag : w \in InQueue(flashRespQ0) \union InQueue(flashRespQ2)}

(* Words, requests, acknowledgements and tags all belong to the command    *)
(* they are taken for.                                                     *)
CommandsKeepTheirTags ==
  ResponsesComeHome /\ WriteWordsReachTheirCommand /\ TagsFollowCommands

(* The switch keeps the rename table's unwritten rule: it implements the   *)
(* table with a client that returns only tags in use, the specification    *)
(* the theorems of FlashSwitch_proofs are about.                           *)
KeepsRenameRule == RenameSpec

(* Every command a user has sent is completed: the switch cannot block the *)
(* responses of one user behind those of another that keeps serving.       *)
CommandsComplete ==
  \A u \in Users, t \in OrigTags : out[u][t].op # "NONE" ~> out[u][t].op = "NONE"

(* Two users with two tags each and two buses share two renamed tags; the  *)
(* users, their tags and the buses are interchangeable.                    *)
Symmetry == Permutations(Users) \union Permutations(OrigTags) \union Permutations(Buses)
=============================================================================
