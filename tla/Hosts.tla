-------------------------------- MODULE Hosts --------------------------------
(* The host programs side by side: each behaviour is a run of one of them, *)
(* with one set of its tests compiled in (prog), and the properties every  *)
(* one of them should have.                                                *)
EXTENDS AmfHost

CONSTANTS startPpaH, numPpaH, startPpaL, numPpaL, startPpaR, numPpaR
VARIABLE prog

Pink      == INSTANCE PinkHost
FlashKt   == INSTANCE FlashKtHost
Flash8192 == INSTANCE Flash8192Host
Dual      == INSTANCE FlashDualHost
Orig      == INSTANCE FlashOrigHost

vars == <<prog, hostVars, amfVars>>
In(p) == prog = p /\ UNCHANGED <<prog, amfVars>>
InAmf == prog = "amf-dual" /\ UNCHANGED prog

MainSteps ==
  \/ In("pink") /\ Pink!MainThread
  \/ In("flash_kt") /\ FlashKt!MainThread
  \/ In("flash8192") /\ Flash8192!MainThread
  \/ In("flash8192-dual") /\ Dual!MainThread
  \/ In("main_orig") /\ Orig!MainThread
  \/ InAmf /\ MainThread
PortalSteps ==
  \/ In("pink") /\ Pink!PortalThread
  \/ In("flash_kt") /\ FlashKt!PortalThread
  \/ In("flash8192") /\ Flash8192!PortalThread
  \/ In("flash8192-dual") /\ Dual!PortalThread
  \/ In("main_orig") /\ Orig!PortalThread
  \/ InAmf /\ PortalThread
CheckerSteps ==
  \/ In("flash8192-dual") /\ Dual!check_read_buffer_done
  \/ InAmf /\ check_read_buffer_done
CardSteps ==
  \/ In("pink") /\ Pink!Card
  \/ In("flash_kt") /\ FlashKt!Card
  \/ In("flash8192") /\ Flash8192!Card
  \/ In("flash8192-dual") /\ Dual!Card
  \/ In("main_orig") /\ Orig!Card
  \/ InAmf /\ Card

AllEnded == Finished /\ UNCHANGED <<prog, amfVars>>
Steps == MainSteps \/ PortalSteps \/ CheckerSteps \/ CardSteps \/ AllEnded

(* The operating system runs every thread; the card answers what it got.   *)
Fairness ==
  /\ WF_vars(MainSteps) /\ WF_vars(PortalSteps) /\ WF_vars(CheckerSteps) /\ WF_vars(CardSteps)

-----------------------------------------------------------------------------
TheRequests == {n \in 1 .. Len(script) : script[n].op = "request"}
Answers == answers \union refusals
AtCard  == pending \union {[n |-> f.n, tag |-> f.tag] : f \in flash}
InHand  == {[n |-> h.n, tag |-> h.tag] : h \in {handling, checking} \ {None}}
Outstanding == AtCard \union Answers \union InHand

HostTypeOK ==
  /\ at \in 1 .. Len(script) + 1 /\ pc \in {"claim", "count", "send"} /\ held \in Tags
  /\ busy \in [Kinds -> [Tags -> BOOLEAN]]
  /\ \A k \in Kinds : inFlight[k] \in -1 .. Len(script)
  /\ \A r \in Outstanding : r.n \in TheRequests /\ r.tag \in Tags
  /\ DOMAIN entry = Tags /\ DOMAIN doneFlag = Tags /\ DOMAIN writeBuffers = Tags
  /\ DOMAIN readBuffers = Slots /\ DOMAIN store = Pages
  /\ ending \in {"running", "TEST PASSED", "TEST FAILED", "-1", "crash"}
  /\ done \subseteq TheRequests /\ blkInfoReads \in 0 .. NumBlocks

(* A tag that is out belongs to one request of its kind and is marked busy *)
(* until the handler has let go of it, whatever answer comes when; so the  *)
(* program never has two requests in the card that it cannot tell apart.   *)
OneRequestPerTag ==
  /\ \A r, s \in Outstanding :
       r # s /\ KindOf(r) = KindOf(s) => r.tag # s.tag
  /\ \A r \in Outstanding : busy[KindOf(r)][r.tag]

(* The buffer of a write keeps what it should carry until the card has     *)
(* taken it, and what is known of a read, and the page it brought, stays   *)
(* until the page was looked at.                                           *)
BuffersHeld ==
  [][/\ \A r \in AtCard \intersect AtCard' :
          KindOf(r) = "write" => writeBuffers'[r.tag] = writeBuffers[r.tag]
     /\ \A r \in (AtCard \union Answers) \intersect (AtCard \union Answers)' :
          KindOf(r) = "read" => entry'[r.tag] = entry[r.tag]
     /\ \A r \in Answers \intersect Answers' :
          KindOf(r) = "read" => readBuffers'[SlotOf(r)] = readBuffers[SlotOf(r)]]_vars

(* The last line of a program is true. It is "-1" when a file is not what  *)
(* it should be or a page differs from its file, "TEST FAILED" when a page *)
(* that is checked was read wrong or lies in a bad block (which one        *)
(* program forgives), "TEST PASSED" otherwise; and the tables of a merge   *)
(* that went to the file are those of the card.                            *)
ReadWrong(n) == n = corrupt \/ (prog # "flash8192-dual" /\ script[n].at.blk \in bad)
IsCompared(n) == n + 2 <= Len(script) /\ script[n + 2].op = "compare"
GivesUp ==
  \/ files = "missing" /\ \E n \in 1 .. Len(script) : script[n].op \in {"open", "write map.bin"}
  \/ files = "short" /\ \E n \in TheRequests : script[n].last
  \/ \E n \in TheRequests : IsCompared(n) /\ ReadWrong(n)
FindsError == \E n \in TheRequests : script[n].check /\ ReadWrong(n)

VerdictIsRight ==
  /\ ending \notin {"running", "crash"} =>
       ending = IF GivesUp THEN "-1" ELSE IF FindsError THEN "TEST FAILED" ELSE "TEST PASSED"
  /\ saved # <<>> => \E ii \in 1 .. Len(startPpaR) :
       saved = [i \in 1 .. numPpaR[ii] |-> store[Pink!AddrOf(startPpaR[ii] + i - 1)]]

(* amf-dual: after its erase of everything the program, the file and the   *)
(* layer agree on every block, and after it loaded a map the layer has the *)
(* map of the file.                                                        *)
Has(op) == \E n \in 1 .. Len(script) : script[n].op = op
AmfTablesRight ==
  prog = "amf-dual" /\ ending \in {"TEST PASSED", "TEST FAILED"} =>
    /\ Has("write map.bin") => \A b \in Blocks :
         LET status == IF b \in bad THEN "BAD" ELSE "FREE"
         IN /\ mapBin.status[b] = status /\ mapBin.pe[b] = 1
            /\ blockStatus[b] = status /\ blkinfo[b].status = status
    /\ Has("updateMapping") =>
         blockmap = IF mapBin = MapBinMissing THEN [b \in Blocks |-> NotAllocated]
                    ELSE mapBin.mapped

-----------------------------------------------------------------------------
(* The builds the theorems are about: every program with every test that   *)
(* keeps to what the tests of these programs keep to. A request and a wait *)
(* name a kind, and every request is awaited by a later wait for its kind; *)
(* where a test says into which buffer a page is read, a wait lies between *)
(* two reads that may use the same buffer; and of no more blocks than      *)
(* there are amf-dual asks for the information.                            *)
StepsOf(s, op) == {n \in 1 .. Len(s) : s[n].op = op}
Awaits(s, kind, m, n) == \E d \in StepsOf(s, "drain") : m < d /\ d < n /\ s[d].kind = kind

TestFits(p, s) ==
  /\ s \in Seq({s[n] : n \in 1 .. Len(s)})
  /\ \A n \in StepsOf(s, "request") \union StepsOf(s, "drain") : s[n].kind \in Kinds
  /\ \A n \in StepsOf(s, "request") :
       /\ Awaits(s, s[n].kind, n, Len(s) + 1)
       /\ s[n].slot = -1 \/ (s[n].slot \in Nat /\ p # "amf-dual")
  /\ \A m, n \in StepsOf(s, "request") :
       /\ m < n /\ s[m].kind = "read" /\ s[n].kind = "read"
       /\ ~Awaits(s, "read", m, n)
       => \/ s[m].slot = -1 /\ s[n].slot = -1
          \/ s[m].slot >= 0 /\ s[n].slot >= 0 /\ s[m].slot # s[n].slot
  /\ Cardinality(StepsOf(s, "readBlkInfo")) <= NumBlocks

TestInit == HostInit /\ AmfInit /\ TestFits(prog, script) /\ DOMAIN store = Pages
TestSpec == TestInit /\ [][Steps]_vars

-----------------------------------------------------------------------------
(* The three threads and the card implement the phases a test relies on.   *)
Phases == INSTANCE PhasedSpec WITH steps <- script, performed <- done, outcome <- ending
ImplementsPhases == Phases!Spec

(* Every program comes to its last line.                                   *)
ProgramEnds == <>(ending # "running")
=============================================================================
