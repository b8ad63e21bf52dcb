# Verification of the LightStore platform

TLA+ models of the hardware in this repository (Bluespec, with the host programs
that drive it), TLC configurations that check them on small instances, and
proofs checked by TLAPS. Module and action names follow the source: an action
is a Bluespec rule or method or a function of a host program, a variable is a
register, a FIFO or a C++ variable of the same name, and `PROJECT.json` maps each definition to the lines it stands for.

All modules share one reading of Bluespec. A rule or method is atomic, fires
only when all its FIFOs allow it, and any enabled rule may fire next. Rules that
fire in one cycle are one rule after another, in the order of the schedule.
`mkFIFO` and `mkFIFOF` hold two elements, `mkSizedFIFO(n)` holds `n` (`BsvFifo`).

## 1. The system

A host program (`projects/*/main.cpp`) sends page reads, page writes and block
erases to an FPGA board, by calls into `Main.bsv`, and is called back when they
are done. The board reaches a flash card over a serial link; the card's FPGA
drives eight buses of eight NAND chips. In the PinK project a second user of
the card, the key table merger, reads sorted tables from flash, merges them and
writes the result back. In the AMF project an address translation layer stands
between the host and two cards.

    host program
       |  calls, indications, DMA
    Main.bsv ----------- LightStoreKtMerger, LightStoreKtSearcher (pink)
       |   \                 |  page reads
       |    AFTL (amf-dual)  FlashReadMultiplex
       |                     |
    FlashSwitch + RenameTable          several users, one card
       |
    FlashCtrl == AuroraGearbox == link == AuroraGearbox == TopArtix
                                                             |
                                                       FlashController
                                                             | one per bus
                                     page buffers, Scoreboard, BusController
                                                             |
                                                       NandPhy, chips

### Components

**AFTL** (`modules/aftl`). State: a map from virtual to physical blocks, a table
of blocks (status, erase count) and the registers of a pipeline. Operations:
translate READ, WRITE, ERASE, MARKBAD; restore the tables. It answers its caller
in order, on one of two queues. Hard: the two tables are written in different
rules, a table scan shares its memory port with the update of a line, and one
flag (`inProgress`) serialises all commands. Correct when it acts as if each
command were translated in one step, never maps two addresses to one block and
answers every command.

**RenameTable** (`lib`). State: a list of free tags, an entry per tag, read
requests. Operations: take a tag and write its entry, look up an entry, return a
tag. Correct when no tag is lost or given out twice and an entry is still there
when its response is read.

**FlashSwitch** (`lib`). State: a rename table, the user's own tag per new tag,
response queues shared by all users, a beat counter per bus. Commands, words and
responses of up to four users pass in both directions. Hard: pages of different
buses mixed word by word, a tag freed by counting words, one user's response
queued behind another's. Correct when all comes back to the user that asked.

**FlashReadMultiplex** (`lib`). State: per user free tags, a queue of outstanding
requests and a reorder buffer per tag. Correct when each user gets whole pages
in the order of its requests and the card never has to wait for a buffer.

**AuroraGearbox** (`lib`), one at each end of the link. State: queues, six wrapping
16-bit counters, half packets. Hard: the link cannot be stopped, credit is
granted by windows and travels between the data. Correct when the pair is a
lossless queue in both directions, without deadlock.

**FlashController** (`platform/flash_ctrl/hw_artix`). State: commands by tag, per
bus two page buffers and counters. It starts the buses one after another,
forwards commands, fetches pages to be written, collects read data. Hard: pages
are fetched ahead, in another order than commands may be issued.

**Scoreboard** (same directory), one per bus. State: a queue of commands and a stage
per chip, busy timers, status answers. It issues commands to the bus round
robin and polls chips. **BusController**: a state machine that runs a command on the
shared pins and moves data through error correction. Hard: status, data and
acknowledgement come back on different paths, and the chip cannot be held up in
a burst. Correct when a chip does its commands in order, is never disturbed, and
every page goes with its own command.

**pink/Main.bsv**. State: flags `busyCompaction` and `blockHostCmdQ`, tags and offsets of
the flush, the DMA pipelines of each bus. A compaction is a trigger, a reset of the
merger, a merge, the writing of the merged tables, and two indications of its end.
Hard: these overlap, and a write fetches its table from the host's memory late.
Correct when compactions do not overlap and every merged table is written once, to
its own address.

**KtAddrManager, LightStoreKtMerger, KeytableMerger, LightStoreKtSearcher**
(`modules/keytable_*`). State: address lists read by DMA, streams of tables, a
merge state machine, four DMA engines for the result. Correct when the output is
the merge of the inputs, superseded entries are reported at most once, the addresses
handed out are the first n in order, and the end is reported after the last DMA.

**Host programs** (`projects/pink`, `flash_kt`, `flash8192` (two programs),
`flash8192-dual`, `amf-dual`). State: per kind of request a table of busy tags and
a count of requests in flight, a buffer per tag, what each block should hold.
Threads: main runs the tests compiled in; the portal thread handles indications;
two programs have a third thread that polls done words which the hardware
writes behind a page. Hard: main reads the counts without the mutex, handlers
do part of their work before they take it, and requests are answered in any order.
Correct when no tag means two requests, buffers are not reused too early, waits
end when the work is done, and the last line printed is true. `amf-dual` also loads
and saves the tables of the translation layer.

**FlashCtrl and TopArtix**: the two ends that put commands, words, requests and
answers on the link. Correct when no class of message can hold up the one it
waits for.

The rest (error correction, phy, DDR4, Aurora and other vendor cores, an
external network and library variants that no project imports, simulation
models, tests) is listed with the reason it is not modelled in
`PROJECT.json`, and so are the hazards that matter most, each at its line.

## 2. Modules

| Module | Models | State and actions |
|---|---|---|
| `BsvFifo` | the guards of Bluespec FIFOs | operators |
| `AFTLSpec` | what AFTL promises | two tables, three queues; one `Translate` step per command |
| `AFTL` | `AFTL.bsv`, with the host's side in `amf-dual` | 22 actions, one per rule or method |
| `AFTLProperties` | | properties, refinement to `AFTLSpec` |
| `AFTL_proofs` | | theorems, with the refinement of `AFTLSpec` |
| `RenameTable` | `RenameTable.bsv`, and the table alone under a client that returns only tags in use (`RenameSpec`) | ghost `inUse`: tags taken and not returned |
| `FlashSwitch` | `FlashSwitch.bsv` over the operators of `RenameTable`; users and controller as environment | ghost `own` on a command: who sent it, under which tag |
| `FlashSwitchProperties` | | properties |
| `FlashSwitch_proofs` | | theorems, those on the rename table included |
| `FlashReadMultiplex` | `FlashReadMultiplex.bsv`; cards as environment | ghosts `asked`, `asking` name the pages; properties, refinement to `InOrderSpec` |
| `FlashReadMultiplex_proofs` | | theorems, with the refinement of `InOrderSpec` |
| `InOrderSpec` | a reader served in order | pages owed, words given |
| `AuroraGearbox` | both gearboxes and the wire | one action per rule and end |
| `LinkSpec` | two lossless queues | `Send`, `Recv` |
| `AuroraGearboxProperties` | | properties, refinement to `LinkSpec` |
| `AuroraGearbox_proofs` | | theorems, with the refinement of `LinkSpec` |
| `Scoreboard` | `Scoreboard.bsv` | actions over its own registers |
| `FlashBus` | composes `Scoreboard`, the state machine of `BusController.bsv`, the rules of `FlashController.bsv` for one bus, the chips and the user | ghost `pending`: what each chip has still to begin |
| `ChipOrderSpec` | a chip does its commands in order, each answered after it is done | |
| `FlashBusProperties` | | properties, fairness, refinement to `ChipOrderSpec` |
| `FlashBus_proofs` | | theorems, with the refinement of `ChipOrderSpec` |
| `BusInit` | the start of all buses, `doInit` to the first user commands | controller, buses, chips; properties |
| `BusInit_proofs` | | theorems |
| `QueueLemmas` | | lemmas on queues and tags for the proofs |
| `KeytableMerger` | `KeytableMerger.bsv`, one merge after another | ghosts `created`, `invalidated`: what came out |
| `KeytableMergerProperties` | the merge of two levels without rules and FIFOs, and properties | |
| `KtAddrManager` | `KtAddrManager.bsv` | lists 0 to 2; `ppaBuf`: the host's memory |
| `KtOutput` | `LightStoreKtMerger.bsv` over `KtAddrManager`; the merger as a promise | engines; ghosts of what went in |
| `PinkCompaction` | the compaction part of `pink/Main.bsv` over `KtOutput`; the card | `writing`, `flash`: commands at the card and what was programmed |
| `KtMergeHost` | the test KT_MERGE of `pink/main.cpp` over `PinkCompaction` | main, portal thread, hardware |
| `CompactionSpec`, `CompactionProperties` | what a program may expect of compactions, and the refinement | |
| `HostTags` | what all host programs share: tags, counts, buffers, tests as scripts, the card | main, portal, checker |
| `HostKtFiles` | KT_WRITE, KT_READ, KT_READ_MERGE, TEST_HEAVY_READ | |
| `PinkHost`, `FlashKtHost`, `Flash8192Host`, `FlashDualHost`, `FlashOrigHost`, `AmfHost` | the six programs | one operator per function |
| `PhasedSpec` | requests and waits as a test takes them for granted | steps, requests performed, outcome |
| `Hosts` | all programs side by side, and their properties | `prog`: which one runs |
| `Hosts_proofs` | | theorems on all six programs, with the refinement of `PhasedSpec` |

`KtOutput` takes the merger at its word: from the tables that went in come so many
tables, then the end, and so many addresses, then the end; never more tables
than went in, the last after all of them. `KeytableMerger` is where this is shown.

`MC*` modules and the `.cfg` files give the constants their values. Where a definition is
preceded by a comment "A mutant", it is a faulty form of the definition after it
and shows that a property notices the fault; no specification uses it.

### How the models abstract

*Data.* A word carries what tells it apart: the command it belongs to, its
position, or the half of a packet it is. Memory contents of a page, padding and
error correction are left out.

*AFTL.* Its memories take effect when the request is put on port A, and read
data waits in a FIFO; requests of a port are served in order, so this is exact
but for timing. Port B is used only by the host, before its first command.

*Switch.* The controller below asks for the pages of a bus one at a time, answers a
tag once per command and reads the pages of a bus one after another, as
`FlashController.bsv` does. A user has one command per tag at a time, as
the tag tables of `main.cpp` give it out.

*Bus.* A phy sequence is one step and takes effect with its last element. A word is
one transfer, not eight bursts. `BusyTime` is small: TLC may let a chip be
busy for any time, the timer only delays the next poll. Two facts of the cycle
schedule are kept as guards: `doWriteFetchWait`, enabled only in the cycles in
which `writeWordCnt` is at its last value, fires in them (`FetchWaitDue` holds
back the next word until then); and the two registers between page buffer and
scoreboard settle before a chip's status is read, which takes hundreds of
cycles (`RdySettled`).

*Key tables.* A key has one symbol per word, and words are counted where the code
counts bytes. The FIFOs by which tables come in and go out only delay.

*Compactions.* A page read or written by DMA is one step, a DMA engine writes word
by word. Indications of different methods arrive in any order. `WritePage` is the
fetch of a table, its programming and its acknowledgement. The program's `sleep(1)`
is taken to outlast a flush (`Sleep`), see section 3. Words of a burst behind
the end of a list are dropped with the last entry.

*Host programs.* A test is a script of requests, waits and file operations made from
the loops of its function; a request is three steps (take a tag, count, send) as the
mutex divides them, an indication two. Test data is a value per address, as
`hashAddrToData` makes it (which ignores page and card). A group of 8 blocks, the
unit of the table messages of `amf-dual`, is one block. Output, times, and the
speed figures are left out.

*Clock crossings.* A synchronised FIFO shows a change some cycles late, which is a
delay of the action that waits for it.

## 3. Runs

Deadlock is checked in all runs except those of AFTL, which really stops (see the
findings).

| Run | Question | Instance |
|---|---|---|
| `aftl` | Does the pipeline act like one translation step per command, keep its tables consistent and answer every command? | three addresses on two chips of four blocks in two lines; a fresh and a worn card |
| `aftl_full` | Does an erase get through after a write was refused? (violated) | the same |
| `flash_switch` | Do responses, words and tags stay with their commands? | two users with two tags, two renamed tags, two buses, pages of two words |
| `flash_switch_live` | Does every command complete? | the same with one tag per user |
| `aurora_gearbox` | Is credit conserved, nothing lost, nobody starved? | both ends sending, window 1, buffer 2, counters modulo 4 |
| `flash_bus` | Do pages and chips belong to the command in work, is each poll answered, does a chip keep its order? | two tags, reads and writes of two chips, pages of two words |
| `flash_bus_live` | Is every command answered? | a read and a write contending for a chip, an erase on the other |
| `bus_init` | Do the buses come up one by one and in step with their chips? | three buses of two chips |
| `read_mux` | Does each user get its pages in order? | two users with two tags, one card, pages of two words |
| `hosts` | Do the programs keep their tags, buffers and waits in order, and is their result true? | 15 builds of six programs; two tags, two buses of one chip, one block of two pages; card good, with a bad block, or with one read wrong; files whole, short, missing |
| `kt_merger` | Do the words put out make the merge, and does every merge end? | 9 pairs of levels in any order, tables of 2 + 4 words, keys of one and two words |
| `compaction` | Are tables written once and where they should be, and is what the program saves whole? | three compactions; bursts of 2 words of 2 addresses, 2 engines, 2 write tags |

### Properties

*AFTL.* `Translates`: refinement of `AFTLSpec`; a command takes effect when
`updateBlkInfo4` writes the block table, and the map entry still to be written
counts as written. `TablesAgree`: mapped blocks are distinct and never free, although
the tables are written one after the other and a stale block of an erased
entry can still be marked bad. `InProgressExact`: the flag is set exactly while a
command is in the pipeline. `AcceptedIsAnswered`: as long as every unmapped address
finds a free block, commands are answered.

*Rename table and switch.* `TagsPartitioned`: each tag is free once or in use.
`EntriesStable`: the entry of a tag in use is not overwritten. `KeepsRenameRule`: the
switch is a client that returns only tags in use, i.e. it implements
`RenameSpec`. `CommandsKeepTheirTags`: a tag is in use exactly as long as its
command is alive, and renaming and its inverse agree for responses and write
words across all the queues. `CommandsComplete`: liveness.

*Gearbox.* `CreditIsRoom`: an equation between the counters at one end, those at
the other, and the words of credit and data on the way, so that no word
arrives at a full buffer. `ImplementsLink`: refinement of `LinkSpec`.
`EverythingArrives`: liveness.

*Bus.* `WriteDataMatchesCommand`: the page that is programmed is the one fetched for
this command. `ReadWordsArrive`: tags found by counting words are right, and the
decoder queue has room for each page. `ChipsArePolled`: a busy chip is only polled,
holds the page while it is read out, and each poll has one answer, none left
over. `ImplementsOrder`: refinement of `ChipOrderSpec`. `CommandsAnswered`: liveness.

*Start.* `StartIsOrderly`: the buses, which share pins, work one at a time; bus
and chips switch to synchronous mode together; a start command never lands in a
scoreboard, where it would stay for ever. `Starts`: liveness.

*Multiplexer.* `BuffersHaveOneOwner`: a tag is free once or in use, and a word never
waits for a buffer. `ImplementsInOrder` (refinement of `InOrderSpec`),
`RequestsAnswered` (liveness).

*Host programs.* `OneRequestPerTag`: requests the program cannot tell apart are never
out together. `BuffersHeld`: buffer, expectation and page of a tag stay until used.
`VerdictIsRight`: the last line is true of what the card did and the files held.
`AmfTablesRight`: program, file and layer agree on the blocks. `ImplementsPhases`:
refinement of `PhasedSpec`; a wait ends only when all it waits for is done.
`ProgramEnds`: liveness.

*Merger.* `CreatesTheMerge`: word for word, headers, padding and last mark included,
the output is a beginning of the merge of the two levels, and only
addresses of overwritten entries are reported, none twice (the code may drop some).
`MergesEnd`: liveness.

*Compaction.* `TablesAsListed`: tables go in once and in the order of their list.
`NothingLeftOver`: when the next one may begin, what its reset does not reach is as
at first. `ImplementsCompaction`: refinement of `CompactionSpec`, with the program's
view: what it saves of a merge is whole. `ProgramEnds`: liveness.

Most components also have one type invariant, with the depth of every queue.

### Bounds, and why they are enough

* Two users, two tags each and two renamed tags (`flash_switch`): more commands than
  tags, so a tag is given to another user at once; two buses, so that pages are
  mixed; two words per page, so that a page has a first and a last word
  and counters are between them.
* Window 1 of buffer 2 has the proportion of the code (64 of 128) and, with counters
  modulo 4, every counter wraps. `MayGrant` is strict in the code, so a second
  window is granted only when a packet of the first has left.
  `WireDepth` bounds the words on the wire; a longer wire only delays.
* Two lines of two lanes make the block scan take two requests, two answers and a
  final round over the lanes; four blocks let one be erased less than another,
  used, bad and free. `EraseMod` 2 makes the erase counter wrap. The two
  images restore a card that works for long and one that fills up at once.
* Two chips make the round of the scoreboard wrap and let a command of one chip
  pass one of the other; two tags fill both page buffers. Erases are in
  `flash_bus_live`. `EncodeDepth` 1 makes the transfer of a page wait between words.
* Three buses with two chips each visit first, middle and last bus; `MaxUserCmds`
  stops the run of user commands after the start, which is over by then.
* `ReqMod` names requests modulo the number that can be outstanding: a page of an
  older or a younger request has another name.
* Two tags make the programs of `hosts` wait for a tag and reuse it; every block and
  page is visited, one may be bad, and any checked read may come back wrong. The builds
  of `MCHosts` contain each test at least once, for some program.
* Tables of four words with entries of one and two: tables of the result end full
  and with a word left; a table has so few or so many entries that its header
  ends in its first word or in its second; keys are equal, are the
  beginning of another, or differ in the first or the second word.
* Lists of one entry, of a full burst and of more than one burst; invalidated addresses:
  none, a full burst, a burst and a part of one; more tables than engines and tags.

### Fairness

A rule that stays enabled fires: the Bluespec schedule is static and each rule
that conflicts with another is passed over only while the other is enabled. So
rules have weak fairness. Users take what is sent to them and chips finish
(weak fairness); new commands need not come. Strong fairness stands where
an arbiter alternates:

* `FlashSwitch`: the controller's queue of responses is shared, so the room for the
  response of one tag comes and goes; the controller takes buses in turn
  (a funnel), and a user's words share one queue.
* `AuroraGearbox`: `sendPacketPart` prefers credit to data. The peer spends two words
  on each packet of a window before another window is granted, so the credit
  queue is empty again and again and a word of data is then sent, in the cycle in
  which the queue is empty.
* `FlashReadMultiplex`: a card goes on with the commands of each user.

In `hosts` the operating system runs each thread and the card answers (weak
fairness of main, portal, checker and card); in `compaction` likewise main, the portal
thread and the hardware; in `kt_merger` any enabled rule or method fires.

### Findings

* `aftl_full`. `updateBlkInfo2` (`AFTL.bsv:384`) refuses a write for want of a free
  block and leaves `blkScanIssued` set. The next command that needs the
  update pipeline, an erase for instance, waits in stage 0 for ever, though
  the comment at lines 251-252 says it skips to stage 3; `inProgress` stays set, so no
  further command is accepted. TLC's run: a full chip, a write, an erase.
`InProgressExact` and `Translates` hold for callers that send known
codes, and `AcceptedIsAnswered` only as long as there is room.

### Disagreements without a run

* A command with an unknown code is refused on `resp_errorQ` without
  setting `inProgress`, and reading the refusal clears it. If another command was
  accepted in between, its turn ends early and two commands are in the pipeline
  in spite of "Only 1 req in-flight" (`AFTL.bsv:104`, `:145`).
* With `verbose_resp` set `readDone` of pink and flash_kt copies the page to `testBuf`,
  which is NULL unless TEST_HEAVY_READ has run (`pink/main.cpp:212`). The mini test, and
  TEST_ERASE_ALL before a test that reads, set it; the program crashes at its first
  page. In `hosts` a build of flash_kt does so (`ending = "crash"`).
* In pink the mini test is announced as TEST_MINI_FUNCTION (line 25) and
  guarded by MINI_TEST_SUITE (line 606), so the documented switch does nothing.
* The mini test of `amf-dual` prints TEST FAILED on a good card: `checkReadData`
  (`main.cpp:252`) expects the logical page number, which its reads of erased and of
  written pages do not return. No build of it is in `hosts`. The program prints
  TEST PASSED even when every request was refused.
* `updateBlkInfo` of `amf-dual` sends no erase counts although `map.bin` keeps them;
  the shifts of `respReadBlkInfo` fit MLC sizes only; TEST_AMF_MAPPING2 restores the map but
  not the table of blocks.
* KT_WRITE and KT_READ of flash8192-dual do not compile; the simulation build of
  flash8192 masks buses with 7 where it has two.
* The bench `kt_merger_test` never takes an invalidated address. With two keys in
  common (its inputs `invalidate` and `overlap` have thousands) the queue is full when
  the end mark is to be queued (`KeytableMerger.bsv:247`), and the merge never ends.
  `MergesEnd` has a user that takes addresses, as LightStoreKtMerger does.
* A merge with a level of no tables never gets the end mark of that level. No
  program asks for one.
* The program KT_MERGE goes on after either of the two indications of a flush. If
  the writes of a merge took longer than its `sleep(1)`, a late `mergeFlushDone2` would
  end the wait of the next merge early, and destinations still to be read could be
  overwritten. The model takes the second to be enough.
* `checker_done`, by which main ends the checker thread, is a plain `bool`; the models
  let the thread run until the program ends.

## 4. Proofs

All theorems are checked by TLAPS for every value of the constants that the named
assumptions admit.

| Module | Theorem | Statement |
|---|---|---|
| `AFTL_proofs` | `TypeCorrect` | `Spec => []TypeOK`: with it no queue of the pipeline holds more than one command |
| | `OneCommandAtATime` | `Spec => []InProgressExact` |
| | `TablesAlwaysAgree` | `Spec => []TablesAgree` |
| | `ImplementsTranslation` | `Spec => Translates`: the pipeline implements `AFTLSpec` |
| `FlashSwitch_proofs` | `TypesCorrect` | `RenameSpec => []RenameTypeOK` |
| | `TagsConserved` | `RenameSpec => []TagsPartitioned` |
| | `ReturnIsFree` | `RenameSpec => []ReturnNeverBlocks`: there is room in the free list whenever a tag is in use |
| | `EntriesAreStable` | `RenameSpec => EntriesStable` |
| | `TypeCorrect` | `Spec => []TypeOK` |
| | `TagsKept` | `Spec => []CommandsKeepTheirTags` |
| | `KeepsRule` | `Spec => KeepsRenameRule`, that is `Spec => RenameSpec` |
| | `TableSafe` | `Spec => []TagsPartitioned /\ []ReturnNeverBlocks /\ EntriesStable`: the theorems on the table hold for the switch |
| `AuroraGearbox_proofs` | `TypeCorrect` | `Spec => []TypeOK` |
| | `CreditSafe` | `Spec => []CreditIsRoom`: the buffer has room for every packet on the way |
| | `KeepsLink` | `Spec => ImplementsLink`: the two gearboxes implement `LinkSpec` |
| `FlashBus_proofs` | `TypeCorrect` | `Spec => []TypeOK` |
| | `ChipsPolled` | `Spec => []ChipsArePolled` |
| | `ReadWordsInPlace` | `Spec => []ReadWordsArrive` |
| | `PageOfCommand` | `Spec => []WriteDataMatchesCommand`: the page programmed is that of the command |
| | `KeepsOrder` | `Spec => ImplementsOrder`: the bus implements `ChipOrderSpec` |
| `BusInit_proofs` | `StartOrderly` | `Spec => []StartIsOrderly` |
| `FlashReadMultiplex_proofs` | `OneOwner` | `Spec => []BuffersHaveOneOwner` |
| | `PagesInOrder` | `Spec => ImplementsInOrder`: the multiplexer implements `InOrderSpec` |
| `Hosts_proofs` | `TypeCorrect` | `TestSpec => []HostTypeOK` |
| | `TagsApart` | `TestSpec => []OneRequestPerTag` |
| | `BuffersKept` | `TestSpec => BuffersHeld` |
| | `KeepsPhases` | `TestSpec => ImplementsPhases`: every program implements `PhasedSpec` |

`Invariance` in a module is the invariance of its inductive invariant, from which the
others follow; `LinkInvariance` and `OrderInvariance` are that of the stronger ones
the refinements of the gearbox and of the bus need.
`QueueLemmas` holds what several proofs need: the elements of a queue after one is
added or removed, counting, the parts of a tag. Each refinement is proved from an
invariant by showing that the initial states map to initial states and that every
step maps to one step of the abstract specification or to none.

### The inductive invariants

*Rename table.* `TagsPartitioned` is not inductive alone: `Initialize` appends `initCnt`, which is new
only because the tags issued so far are those below it, and a tag returned
then would be counted as issued. `IInv` adds the types and that no
tag is in use before the start-up rule is done. `ReturnIsFree` needs that a list of distinct tags that
leaves one out is shorter than `NumTags` (`RoomForOneMore`), by counting with the theorems
on finite sets.

*Switch.* `TagsFollowCommands` says where the tags in use are, but not that a command
is in one place only, nor that the switch returns a tag at the last word of its page:
it only counts words per bus (`beatCnts`) and returns the tag of the word that comes
when the count is full. `SwitchInv` looks at a command from both ends: under its
renamed tag, the command in `cmdOutputQ`, the controller's work and the elements of
four queues (`TagView`); at its user, what was asked for and the elements of three
queues (`UserView`). A tag in use and its owner are in one phase of a command's life
(waiting, reading, writing, erasing, answering), in which these counts add up; a free tag
is nowhere; a user without a command in the switch rests (`Lives`). For the words of
reads, no two pages of one bus are mixed (`PagesApart`) and `beatCnts` of a bus is the
number of words distributed of the page under way (`BeatsCounted`), so the count is full
exactly at the last word of the tag at the head. Entries and `tagRenames` are inverse on
tags in use (`Renamed`), each queue holds elements that belong to the owner of their tag
(`AllBelong`, `AllHome`, `CmdsFit`), and the entries read are those of the responses
beside them (`PortsFollow`). The invariant of the rename table is part of it.

*AFTL.* `TablesAgree` is broken by no single rule but kept only because the rules far
apart in the pipeline agree on what they carry. `IInv` says for each place what
the command there knows: the entry looked up is that of its address (`LookupFits`),
and stays so up to the queue where it waits (`ProcFits`, `UpdatesFit`); each line
asked for in the scan is answered in turn, and each candidate kept by a lane, by
the final round or in `minPeEntryQ` is a block of the right chip that is still free
(`ScanFits`, `ChoiceFits`, `PickFits`); the line that `updateBlkInfo4` writes back
is the one in the table (`LineFits`); between the two writes of an
allocation its block is taken and nobody's (`Owed`). While the tables are restored
what is not yet written is still to come (`Restoring`), so that the half restored
tables agree. All this rests on there being one command: `InProgressExact` counts
the commands in all queues (`CountPlaces`), and each rule is proved from the fact
that the command is where the rule finds it and nowhere else.

*AFTL, refinement.* A command counts as translated when its lookup answers or refuses
it, when the scan ends without a block, or when `updateBlkInfo4` writes the block table;
the entry that `updateBlkInfo5` still owes the map is counted as written. `RInv` adds to
`IInv` what the command carries to that point (`Carried`): the flash command is the one
asked for, and a bad block mark found no dead entry (`ProcsCarry`, `StagesCarry`); the
minimum of each lane is the least erased of the free blocks in the lines answered so far
(`LeastInLanes`), the one of the final round that of the lanes compared so far
(`LeastOfLanes`), and the choice in `minPeEntryQ` that of the chip (`LeastPicked`). The
lemmas `Shows` and `Both` give the abstract queues for each place of the command; each
action then has a lemma that shows one step of `AFTLSpec` or none.

*Gearbox.* `CreditIsRoom` compares differences of counters that wrap. `IInv` counts
them without: what one end has granted and not seen arrive is the budget the other
end has, the credit in `flowControlQ` and on the wires to it, and the data on the
wires back (`InFlightOwed`); `recvBufferQ` holds as many packets as its two counters
differ by (`StoredCounted`); both together stay below the depth
(`RoomForGranted`). A packet travels as two words with credit between, so the second
half always follows its own first (`HalvesPaired`). The proof needs that a grant does
not make the counters lap each other: `GearboxAssumption` asks for
`RecvQDepth + WindowSize <= Modulus`, true of the code (128 + 64 and 16 bits).

*Gearbox, refinement.* In `LinkSpec` a direction is one queue. The mapping makes it
from what the receiver has stored, the packets begun, put together two by two from
their halves, and what the sender has not begun. The halves begun (`HalvesBegun`) are
the one the receiver keeps, those on the way without the words of credit between
them, and the one the sender keeps. `WholeBegun`, the one conjunct that is added, says
that they come in twos. Together with `HalvesPaired` it shows that sending the
first half moves a packet from one part of the queue to the next, that the second
half, and a word of credit, changes nothing, and that the arrival of a second half
takes off the front just the packet that the receiver stores. `Bodies` and `Packed`
are functions defined by ranks, not by recursion or `SelectSeq`, so that what they do
to every queue follows by counting (there is no induction over data in the proof). The run
has one payload, which cannot show a packet made of the halves of two; the
theorem is for every set of payloads.

*Bus.* Scoreboard, queue, state machine and chip each know a part of what a
command is doing. `Control` ties them together: a command in the bus's queue or in
work is a step of the first command of its chip (`QueuedFit`, `InWorkFits`); of the
requests for one chip that for data comes before the start and the start before the
poll (`InOrder`); a chip has at most one start on its way, and one poll queued, in work or
answered exactly while it waits for a status (`StartsFit`, `PollsFit`); while a page is
read out its chip does nothing else (`DataFits`). `ReadsFit` counts the words read and not
delivered as pages of the tags that wait (`InPages`), the last perhaps open.

*Bus, order and pages.* `OrderInv` adds three descriptions. `Positions`: what a chip has
not begun is the rest of its queue and then what the controller has for it,
position by position. `Owners`: a tag stands for one thing at a time, a command not begun,
what a chip does, a page about to be read out or on its way, or an answer; so a
command is answered only when its own chip has done it. `WriteFits`: a page is asked for
once, while its command is the first of its chip; the write buffers hold pages of distinct
tags one after another, and the first is that of the command the bus has been given or is
at work for; `Announced` carries this over the two cycles by which the scoreboard
hears of a page later than the buffers have it.

*Host programs.* All six are proved at once. `HostStep` lists what a step of any of them can do to
tags, counts and places (main takes a tag, counts, sends, goes on, stops; a handler lets go,
takes an answer; the card moves a request); `EveryStep` shows that each function of
each program is one of these, and the invariant is kept by each. `Places`: a request is in
one of six places under one tag. `Marked` and `Apart`: its tag is busy, and two requests of a
kind, and the tag main has just taken, differ. `Accounted`: what was sent is out or
done. `Counted`: the count of a kind is the number of its busy tags, less the one main took and has
not counted, which holds although the programs count in three different ways and
`LetsGo` of an erase may stop at 0. Thus a wait that finds the count 0 finds no
tag busy and nothing out (`Awaited`), although main reads it without the mutex.

*Multiplexer.* A tag out of `freeTagQ` is held by exactly one request, in the queue
of outstanding ones or in `readMetaReg` (`HeldOnce`, `FreeOnce`, `FreeOrHeld`); at
the card a tag is in one command (`OneCommandPerTag`) that a request waits for
(`KnownTags`); and for each tag the words given, the words in its buffer and the
words still at the card make one page, the page of its request (`Slots`). The
refinement maps the outstanding requests to the pages owed, and needs `Slots` to
know that the word given next is the one owed.

*Start.* `IInv` splits the buses at `busInd`: those before it have finished the pass of
`initCmd`, those after it have not begun it, and the one in turn is described
step by step (`Starting`), chips and mode included.

### Assumptions

Constants are sizes, at least one, and finite sets. The ones that say more:
`ImagesAssumption`, the restored tables agree with each other (the code loads
whatever the file holds); `ReqsAssumption`, commands are records of `FTLCmd` with known codes (see the
disagreements); `GearboxAssumption`, the window is smaller than the buffer and the
counters do not lap; `FlashBusAssumption`, a page has at least two words. TLC evaluates
all of them for the values of each run.

The tests of the host programs are data, so the theorems on them say for which tests
they hold: `TestSpec` allows every test that keeps to `TestFits`. Each request is followed by a
wait for its kind, of two reads without a wait between them either both name their
buffer, and not the same, or neither does, and no more blocks are asked about than there are.
A test that broke this would break `BuffersHeld`, or end with requests out; the tests of
the source keep to it, and `BuildsFit` lets TLC check it for each build of `hosts`.

### Model-checked only

* Liveness, which needs fairness and is beyond the prover: `AcceptedIsAnswered`,
  `CommandsComplete`, `EverythingArrives`, `CommandsAnswered`, `Starts`, `RequestsAnswered`,
  `MergesEnd` and `ProgramEnds`.
* The key table merger (`CreatesTheMerge`): the merge it is compared with is a fold over
  sorted entries, and what a fold computes for every input is an induction over
  data.
* Compactions (`TypeOK`, `TablesAsListed`, `NothingLeftOver`, `ImplementsCompaction`).
  They are within the prover's reach; the inductive invariant they need, over list
  engine, DMA engines, tags, card and program, is not written.
* `VerdictIsRight` and `AmfTablesRight` of the host programs, which depend on the contents of
  every page, file and block and so need an invariant for each program. What
  the theorems on `TestSpec` give them is that all requests are done when the
  last line is printed.

## 5. What is not modelled

* `WRITE_ERROR` of the bus and the timing of the phy: they are matters of cycles.
* Error correction, and pages that cannot be corrected.
* A power failure: nothing on the card's FPGA is persistent; the host's tables are
  restored before the first command, which module AFTL includes.
* The asynchronous data rules of `BusController`, which the start does not use.
* Debug ports, counters, LEDs, clocks and resets.
* The page DMA of the `Main.bsv` files (distribution over buses and engines, padding), in
  the models one step per page; the search of a key in a table; the
  channel shared by `FlashCtrl` and `TopArtix`; flash_kt's own `Main.bsv`, whose
  KT_MERGE is that of pink.
* KT_READ_MERGE closes a file that it could not open: undefined, and not modelled.
* A bus whose encoder falls behind (`BusController.bsv:487`), and a failed program
  operation, which is acknowledged like one that succeeded (line 634).

## 6. Plan

Done: translation layer, rename table, switch, link, bus, start, multiplexer, merger
and its engines, compactions, host programs; the proofs of section 4. Next, most
important first:

1. Proofs: the counts of bursts and words of `KtAddrManager` for every n, then
   `NothingLeftOver` of the compactions.
2. Page DMA of pink: two writers of pages (host and merger) behind one fetch rule.
3. The channel between `FlashCtrl` and `TopArtix`: freedom from deadlock as long as a tag
   is in one command.
4. `LightStoreKtSearcher`, with the tables of `KeytableMerger`.
