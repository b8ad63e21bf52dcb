---------------------------- MODULE RenameTable -----------------------------
(***************************************************************************)
(* The tag rename table (lib/RenameTable.bsv, register file variant): a    *)
(* free list of tags and one entry of data per tag.  writeEntry takes a    *)
(* free tag and stores data under it, readEntry/readResp read an entry in  *)
(* two steps on one of three ports, invalidEntry returns a tag.            *)
(*                                                                         *)
(* Every method is an operator that says what it does to the variables it  *)
(* touches, so that a rule of another module can call several at once; the *)
(* actions at the end are the table on its own, with a client that keeps   *)
(* the table's unwritten rule: only a tag that is in use is invalidated.   *)
(***************************************************************************)
EXTENDS BsvFifo, Integers, FiniteSets

CONSTANTS
  NumTags,    (* entries of the table: a power of two in the code          *)
  Ports,      (* the read ports: 0, 1, 2                                   *)
  Data,       (* what an entry may hold                                    *)
  Rubbish     (* what an entry holds that was never written                *)

ASSUME RenameTableAssumption == NumTags \in Nat \ {0}

VARIABLES
  initCnt, init,   (* the start-up counter that fills the free list        *)
  freeTagQ,        (* the free list                                        *)
  tb,              (* the entries                                          *)
  readReqQ,        (* readReqQ[p]: tags requested on port p                *)
  inUse            (* history: the tags handed out and not yet returned    *)

renameVars == <<initCnt, init, freeTagQ, tb, readReqQ, inUse>>

Tags == 0 .. (NumTags - 1)

RenameInit ==
  /\ initCnt = 0 /\ init = FALSE
  /\ freeTagQ = <<>>
  /\ tb = [t \in Tags |-> Rubbish]        (* a register file is not reset  *)
  /\ readReqQ = [p \in Ports |-> <<>>]
  /\ inUse = {}

-----------------------------------------------------------------------------
(* A mutant: the table opens one tag too early.                            *)
InitializeShort ==
  /\ ~init
  /\ NotFull(freeTagQ, NumTags)
  /\ freeTagQ' = Append(freeTagQ, initCnt)
  /\ initCnt'  = (initCnt + 1) % NumTags
  /\ init'     = (initCnt + 1 >= NumTags - 1)
  /\ UNCHANGED <<tb, readReqQ, inUse>>

(* rule initialize: one tag per cycle into the free list.                  *)
Initialize ==
  /\ ~init
  /\ NotFull(freeTagQ, NumTags)
  /\ freeTagQ' = Append(freeTagQ, initCnt)
  /\ initCnt'  = (initCnt + 1) % NumTags
  /\ init'     = (initCnt = NumTags - 1)
  /\ UNCHANGED <<tb, readReqQ, inUse>>

FreeTag == Head(freeTagQ)

(* A mutant: the tag is read from the free list and left there.            *)
WriteEntryNoDeq(d) ==
  /\ init
  /\ NotEmpty(freeTagQ)
  /\ tb'       = [tb EXCEPT ![FreeTag] = d]
  /\ inUse'    = inUse \union {FreeTag}
  /\ UNCHANGED freeTagQ

WriteEntry(d) ==
  /\ init
  /\ NotEmpty(freeTagQ)
  /\ freeTagQ' = Tail(freeTagQ)
  /\ tb'       = [tb EXCEPT ![FreeTag] = d]
  /\ inUse'    = inUse \union {FreeTag}

ReadEntry(p, tag) ==
  /\ NotFull(readReqQ[p], MkFIFO)
  /\ readReqQ' = [readReqQ EXCEPT ![p] = Append(@, tag)]

(* The value is the entry at the time of the response.                     *)
RespValue(p) == tb[Head(readReqQ[p])]

ReadResp(p) ==
  /\ NotEmpty(readReqQ[p])
  /\ readReqQ' = [readReqQ EXCEPT ![p] = Tail(@)]

InvalidEntry(tag) ==
  /\ init
  /\ NotFull(freeTagQ, NumTags)
  /\ freeTagQ' = Append(freeTagQ, tag)
  /\ inUse'    = inUse \ {tag}

-----------------------------------------------------------------------------
(* The table on its own.                                                   *)
TakeTag ==
  \E d \in Data : WriteEntry(d) /\ UNCHANGED <<initCnt, init, readReqQ>>

RequestEntry ==
  \E p \in Ports : \E tag \in inUse :
    ReadEntry(p, tag) /\ UNCHANGED <<initCnt, init, freeTagQ, tb, inUse>>

(* A response is read alone, or together with the return of a tag.         *)
ReadEntryValue ==
  \E p \in Ports : ReadResp(p) /\ UNCHANGED <<initCnt, init, freeTagQ, tb, inUse>>

ReadAndReturn ==
  \E p \in Ports : \E tag \in inUse :
    ReadResp(p) /\ InvalidEntry(tag) /\ UNCHANGED <<initCnt, init, tb>>

RenameNext == Initialize \/ TakeTag \/ RequestEntry \/ ReadEntryValue \/ ReadAndReturn

RenameSpec == RenameInit /\ [][RenameNext]_renameVars

-----------------------------------------------------------------------------
TagsIn(q) == {q[i] : i \in 1 .. Len(q)}

(* The tags the start-up rule has put into circulation so far.             *)
Issued == IF init THEN Tags ELSE 0 .. (initCnt - 1)

(* Types of the registers and queues of mkRenameTable.                     *)
RenameTypeOK ==
  /\ initCnt \in Tags /\ init \in BOOLEAN
  /\ freeTagQ \in Seq(Tags)
  /\ tb \in [Tags -> Data \union {Rubbish}]
  /\ readReqQ \in [Ports -> Seq(Tags)]
  /\ inUse \in SUBSET Tags

FreeTagsDistinct ==
  \A i, j \in 1 .. Len(freeTagQ) : freeTagQ[i] = freeTagQ[j] => i = j

(* A tag is either free, exactly once, or in use by exactly one command,   *)
(* and no tag is ever lost: writeEntry and invalidEntry conserve them.     *)
TagsPartitioned ==
  /\ FreeTagsDistinct
  /\ TagsIn(freeTagQ) \intersect inUse = {}
  /\ TagsIn(freeTagQ) \union inUse = Issued

(* invalidEntry finds room in freeTagQ whenever there is a tag to return:  *)
(* the response rules of the switch never wait for the free list.          *)
ReturnNeverBlocks == inUse # {} => init /\ NotFull(freeTagQ, NumTags)

(* An entry is not overwritten while its tag is in use, and the tag taken  *)
(* by writeEntry was in nobody's use: a response always finds the entry    *)
(* its own command wrote.                                                  *)
EntriesStable ==
  [][/\ \A t \in inUse : tb'[t] = tb[t]
     /\ \A t \in Tags : tb'[t] # tb[t] => t \in inUse']_renameVars
=============================================================================
