------------------------------- MODULE MCHosts -------------------------------
(* Two tags per kind, cards of 2 buses with 1 chip of 1 block of 2 pages,  *)
(* and builds of every program. A build runs on a card where nothing, one  *)
(* block or one read is bad.                                               *)
EXTENDS Hosts

Pair == <<0>>
One  == <<1>>
Two  == <<2>>
Three == <<3>>

Build(p, s) == [prog |-> p, script |-> s]
Erased1 == {"TEST_ERASE_ALL"}
FileBuilds ==
  {Build("pink", Pink!Main({"TEST_ERASE_ALL", "TEST_READ_SPEED", "KT_WRITE", "KT_READ"}, <<>>)),
   Build("flash_kt", FlashKt!Main({"KT_WRITE", "KT_READ", "KT_READ_MERGE"}, <<>>)),
   Build("flash8192", Flash8192!Main({"TEST_ERASE_ALL", "KT_WRITE", "KT_READ"}))}
PlainBuilds ==
  {Build("pink", Pink!Main({"TEST_ERASE_ALL", "TEST_READ_SPEED", "KT_READ_ACCEL"}, <<>>)),
   Build("pink", Pink!Main({"TEST_HEAVY_READ", "TEST_WRITE_SPEED", "KT_READ_MERGE"}, <<0, 3>>)),
   Build("flash_kt", FlashKt!Main({"TEST_READ_SPEED", "TEST_HEAVY_READ", "TEST_WRITE_SPEED"}, <<2, 1>>)),
   Build("main_orig", Orig!Main), Build("flash_kt", FlashKt!Main({"MINI_TEST_SUITE"}, <<>>))}
CheckBuilds ==
  {Build("flash8192", Flash8192!Main({"MINI_TEST_SUITE", "TEST_READ_SPEED", "TEST_WRITE_SPEED"})),
   Build("flash8192-dual", Dual!Main({"TEST_ERASE_ALL", "MINI_TEST_SUITE"})),
   Build("flash8192-dual", Dual!Main({"TEST_WRITE_SPEED", "TEST_READ_SPEED"}))}
EraseAllBuild == Build("amf-dual", MainScript({"TEST_AMF_ERASEALL"}))
MappingBuild  == Build("amf-dual", MainScript({"TEST_AMF_MAPPING2"}))
AmfBuilds ==
  {Build("amf-dual", MainScript({"TEST_AMF_MAPPING1", "TEST_ERASE_ALL", "TEST_READ_SPEED"})),
   Build("amf-dual", MainScript({"TEST_AMF", "TEST_WRITE_SPEED"}))}

Runs(build, file, badBlocks, reads) ==
  /\ prog = build.prog /\ script = build.script
  /\ files \in file /\ bad \in badBlocks /\ corrupt \in reads

SomeBlock == {{}, {<<0, 1, 0, 0>>}}
CheckedReads(s) == {n \in 1 .. Len(s) : s[n].op = "request" /\ s[n].kind = "read"
                                        /\ (s[n].check \/ (n + 2 <= Len(s) /\ s[n + 2].op = "compare"))}

InitialStore ==
  store = [p \in Pages |-> IF \E n \in 1 .. Len(script) : script[n].op = "request" /\ script[n].kind = "erase"
                           THEN Old ELSE Erased]

SavedMap ==
  {MapBinMissing,
   [mapped |-> [b \in Blocks |-> IF b[2] = 0 THEN 0 ELSE NotAllocated],
    status |-> [b \in Blocks |-> "USED"], pe |-> [b \in Blocks |-> 1]]}
DeviceInfo ==
  {[b \in Blocks |-> [status |-> "FREE", erase |-> 0]],
   [b \in Blocks |-> [status |-> IF b[2] = 0 THEN "BAD" ELSE "FREE", erase |-> 0]]}

Common ==
  /\ \/ prog = "pink" /\ Pink!Start
     \/ prog = "flash_kt" /\ FlashKt!Start
     \/ prog = "flash8192" /\ Flash8192!Start
     \/ prog = "flash8192-dual" /\ Dual!Start
     \/ prog = "main_orig" /\ Orig!Start
     \/ prog = "amf-dual" /\ Start
  /\ AmfInit
  /\ blockmap = [b \in Blocks |-> NotAllocated]
  /\ InitialStore
Quiet == mapBin = MapBinMissing /\ blkinfo = [b \in Blocks |-> [status |-> "FREE", erase |-> 0]]

Init ==
  /\ \/ /\ \E b \in FileBuilds : Runs(b, {"whole", "short", "missing"}, {{}}, {0})
        /\ Quiet
     \/ /\ \E b \in FileBuilds : Runs(b, {"whole"}, SomeBlock, {0})
        /\ Quiet
     \/ /\ \E b \in FileBuilds : Runs(b, {"whole"}, {{}}, CheckedReads(b.script))
        /\ Quiet
     \/ /\ \E b \in PlainBuilds : Runs(b, {"whole"}, {{}}, {0})
        /\ Quiet
     \/ /\ \E b \in CheckBuilds : \E x \in {<<{}, 0>>, <<{<<0, 1, 0, 0>>}, 0>>}
                                   \union {<<{}, n>> : n \in CheckedReads(b.script)} :
             Runs(b, {"whole"}, {x[1]}, {x[2]})
        /\ Quiet
     \/ /\ Runs(EraseAllBuild, {"whole", "missing"}, SomeBlock, {0})
        /\ Quiet
     \/ /\ \E b \in AmfBuilds : Runs(b, {"whole"}, {{}}, {0})
        /\ mapBin = MapBinMissing /\ blkinfo \in DeviceInfo
     \/ /\ Runs(MappingBuild, {"whole"}, {{}}, {0})
        /\ mapBin \in SavedMap /\ blkinfo = [b \in Blocks |-> [status |-> "FREE", erase |-> 0]]
  /\ Common

(* The builds are of the form the theorems ask for.                        *)
ASSUME BuildsFit ==
  \A b \in FileBuilds \union PlainBuilds \union CheckBuilds \union AmfBuilds
          \union {EraseAllBuild, MappingBuild} : TestFits(b.prog, b.script)

Spec     == Init /\ [][Steps]_vars
FairSpec == Spec /\ Fairness
=============================================================================
