# disk-xfer-rescue: TLA+ models and proofs

disk-xfer-rescue images a failing MS-DOS hard disk over a serial cable. This
directory models the two ends of the cable, what travels between them, what the
host keeps on its disk, and the tests that stand in for the old machine. TLC
checks the models, and TLAPS proves the main results.

## The system

| part | source | state it keeps | operations | talks to |
|---|---|---|---|---|
| DOS sender, C | `tx-msdos/src/main.c` | worklist, range and sector, buffer, tallies, retry count | handshake, walk the worklist, read with retries, send DATA / EOT and wait for the answer, abort on ESC | host (serial), drive (INT 13h) |
| DOS sender, assembly | `tx-msdos/src/tx.S` | the same | the same, with another clock | the same |
| DOS writer | `tx-msdos/src/wr.S` | worklist, expected sector, tallies | confirm, handshake, receive DATA, write or skip, acknowledge, EOT | host, drive |
| host, capture | `rx-host/rx.py` `main` | image, status map, bad count, worklist | INFO loop, open files, decide worklist, store / refuse frames, repeat CMD, EOT, Ctrl-C | sender, files |
| host, restore | `rx.py` `restore_run` | worklist, position, retry count | INFO loop, prompt, CMD, stream DATA, take EOT | writer, image |
| worklist | `rx.py` `build_worklist`, `parse_ranges_spec` | runs | scan, coalesce to `MAXR` | both hosts |
| link layer | `rx.py` `Link`, `serial.c` | receive buffers | frame, hunt, flush, reply byte | the line |
| map file, bad list | `rx.py` `write_mapfile`, `load_mapfile`, `write_badlist` | files | write at the end of a pass, load at `--resume` / `--range` | capture |
| disk access | `int13.c`, `get_geom`, `lba_to_chs` | geometry | CHS arithmetic, read, write, reset | BIOS |
| checksum | `crc16.c`, `crc_byte`, `rx.py` `crc16` | - | CRC-16/CCITT-FALSE | frames |
| verify report | `rx.py` `verify_image` | - | count, decode the MBR | image, map |
| emulator, self-tests | `tools/emu8086.py` | registers, flags, memory; the played host's position | run TX.COM / WR.COM, answer its frames, judge | the DOS programs |
| opcode lint | `tools/check_8086.py` | - | search a listing | objdump |

What is hard here is the line. Replies carry no sequence number, a reply is one
byte, the two ends have different timeouts (2 s on DOS, 3 s and 8 s on the
host), both throw received bytes away on purpose (`flush_input`,
`reset_input_buffer`), and the handshake has no acknowledgement. A capture runs
for hours, over a bad disk, and what it leaves behind is trusted by the next
pass. The correctness properties follow from that:

- the map must tell the truth about the image whatever the line did;
- a sector must not be passed over as done that the host does not have;
- tallies and the bad count must agree with the map after any resends;
- the handshake and every pass must end;
- a resume worklist must fit the sender's table and leave nothing out;
- a restore must never write one sector's contents to another, and "Clone
  complete" must be true;
- image, map and bad list must stay in step over passes that are interrupted or
  die, and no pass may take back what an earlier one recovered;
- the 16-bit arithmetic between an LBA and the drive must be exact, at the word
  boundary too;
- the verdict of `--verify` and of the self-tests must mean what it says.

`PROJECT.json` lists the hazards with their lines and the properties that watch
each.

## Modules

| module | models | composed with |
|---|---|---|
| `Ranges` | worklists, status marks, what the worklist functions promise | used by all |
| `Rescue` | abstract: what a capture pass does to image and map | implemented by `Imaging` |
| `Imaging` | `main.c` or `tx.S`, the line, one capture pass of `rx.py` | `Rescue` by refinement |
| `Coalesce` | the loops of `build_worklist` | its promise is the guard of `Imaging`'s `--resume` |
| `Restore` | `wr.S`, the line, `restore_run` | `Clone` by refinement |
| `Clone` | abstract: what a restore does to the drive and its report | implemented by `Restore` |
| `Framing` | frames as bytes: `send_data`, `hunt_soh`, `read_exact`, `nak` | says what `Imaging`'s damaged frame may draw |
| `Crc16` | the bit loop of the four CRC implementations | what `Imaging` and `Framing` trust |
| `MapFile` | the map file's lines, written and read back | used by `Passes` |
| `Passes` | image, map and bad list over several passes, with crashes | `Ranges`' promises; `Rescue`'s view of a pass |
| `Verify` | the report of `verify_image` | - |
| `Emu8086` | the processor of `emu8086.py`, and INT 13h | used by `DiskCode` |
| `DiskCode` | `get_geom`, `range_loop`, `lba_to_chs`, `ldiv`, `read_sector` of `tx.S` as programs of that processor | implements `Sweep` |
| `Sweep` | abstract: the sectors of a range, in order | implemented by `DiskCode` |
| `SelfTest` | the two self-tests of `emu8086.py` against `tx.S` and `wr.S` | - |
| `ImagingProofs`, `CoalesceProofs`, `PassesProofs`, `RestoreProofs`, `FramingProofs`, `Crc16Proofs`, `VerifyProofs`, `SelfTestProofs` | theorems | - |
| `MC*` | the instances TLC runs | - |

### Imaging

`txpc` and `hpc` are named after the routine (TX) or loop (host) that is
running. One action is one step between two points where the other side or the
line can interfere: TX's read of a sector, its send of a frame, its wait for one
byte; the host's handling of one received frame with everything up to the reply.

Abstractions. A sector's contents are its LBA, so `image[l] = l` means that the
image is right at `l`; a stub is `Fill`, a never written sector `Hole`. A frame
on the way to the host is a unit; a damaged one becomes `Garbled`, of which the
host may make a frame with a bad CRC (`HostReject`), noise or a frame cut short
that runs into the read timeout (`HostHunt`), or an INFO, whose CRC `rx.py` does
not check in the data loop (`HostReInfo`, fault kind `mimic`). A damaged frame
is never taken for a sound one: the CRC is trusted. On the way to TX a CMD is a
frame of counted bytes, because TX reads replies byte by byte and may meet a CMD
where it expects an ACK. `flush_input` and `nak` may leave any rest of what is
on the line, the middle of a frame included.

`Timer` tells the builds of the sender apart. `main.c` reads the tick counter at
0040:006C, so its waits end. `tx.S` sets ES to 0 and reads 0000:006C, a word of
the interrupt vector table, so its waits end only with a byte. A timeout of
`main.c` may come at any time, also while the answer is under way.

The initial states hold any map, and the image it tells the truth about: what an
earlier pass leaves behind.

### Restore

As `Imaging`, with DATA the other way. WR polls its UART and does not read while
INT 13h writes, so a frame sent meanwhile may be cut short (`ToWr`). The host's
8 s wait ends only when nothing has arrived. A write that fails is taken to leave
the sector as it was (`write_sector` calls it skipped).

`Clone` is a restore without a line: the places of the worklist are handled in
order, each once, by a write of the sector's own contents or a failure that is
counted; the walk ends complete or stopped; then the report is made, once, with the
final counts. `Ahead` maps WR's position to the places still to come.

### Coalesce

The two scanning loops and the merge loop of `build_worklist`, one action per
branch. `IsResumeWorklist` in `Ranges` states what the result promises; it does
not say which gaps are closed. `FewestReread` says that closing the smallest
first is as good as any worklist.

### Framing

The sender puts a frame on the line byte by byte, the host reads it byte by byte:
hunting for SOH, reading the type, reading the rest, judging. How much the rest is
depends on the type (`Need`): DATA, EOT and INFO have their lengths, an unknown type
none. Any byte may be lost, changed or invented, the type byte too. A DATA frame or
an EOT passes its CRC only if it is one that was sent; otherwise it draws a NAK. The
data loop does not check the CRC of an INFO: whatever has the type `I` is taken for a
sender that is in its handshake again and draws the whole CMD (`Command`; the history
variable `commanded` remembers it). The sender reads the CMD byte by byte as replies,
and loses some of them while it does not poll its UART (`Overrun`). `nak` empties the input buffer, which drops some part of what is on the
way, up to `MaxLag` bytes. The sender's 2 s timeout comes only when the line is
quiet. `Imaging` uses the result: where no SOH is in the data, a damaged frame
draws one NAK at most, unless its type byte comes to be `I`, which draws a CMD (fault
kind `mimic`); where there is an SOH (fault kind `soh`), several.

### MapFile and Passes

A line of the map is the tuple of its fields. `write_mapfile` is one action per
run, so a crash may leave any prefix of the file; `load_mapfile` takes the last
line about a sector. `Passes` has the files (`image`, `mapf`, `badf`) and what
the running program holds (`cache`, `statusmap`, ...). A store is two actions,
`f.write` and the mark, as the code has it. `finally` is flush and fsync, the
map's runs, then the bad list. `Crash` is the end of the process at any point:
what was not flushed may or may not be in the file, sector by sector. The end of the
machine is not covered: only the image is fsynced, so map and list may then be lost
in the operating system's cache. What the
line does to a pass is left to `Imaging`; here sectors of the worklist arrive in
any order, any number of times (a range may name a sector twice, and a sender
that is restarted begins again), read well or not each time. A worklist is any
that `Ranges` promises.

Two history variables name what the code does not protect. `harmed` holds the
sectors for which the map may have become false: a pass that truncated the image
or was reading good sectors again died before its map was written, or Ctrl-C came
between a stub written over a good sector and its mark. `last` says whether the
program died between map and bad list. `MapHonest` and `BadListMatches` hold
outside these cases, over any sequence of passes.

### Verify

The report is a sequence of records, one for each line or group of lines
printed. An image is what the report looks at: signature, entries, and whether
`fs_label` finds something in a sector.

### Crc16

Registers and bytes are sets of bits. The sender's register and the receiver's
run side by side over the same body, damaged on the receiver's side: any burst no
longer than the register, in the first `MaxBurst` bytes, or two bits anywhere. Damage
that reaches into the two bytes of the CRC itself is outside these properties.

### Emu8086 and DiskCode

One action per group of opcodes in `Emu.step`; an instruction is a tuple of
strings, so a routine of `tx.S` appears as its listing. Bytes have `B` bits and
words `2 * B`; TLC uses 4, which gives cylinders 6 bits (two of them in CL), heads
4 and sectors 2, and LBAs that need two words, as the real widths do. A case is a
drive and a range: TLC takes every drive with no range, for `get_geom`, and some
drives with ranges all over them. `sure` is
the set of flags on which the emulator and an 8086 agree. `check_abort`,
`send_data` and console output are left out of the listings; `Imaging` has the
first two.

### SelfTest

`test` says which of the two self-tests runs. `uart_out` collects what the program
sends into frames by their length and answers at once. The program is `tx.S` or `wr.S` as `Imaging` and `Restore` have
it, without timeouts: the tick word it reads is 0 in the emulator. Frames are
shorter than the real ones; their bytes may be SOH or ACK.

## Runs

| run | instance | checks | result |
|---|---|---|---|
| `imaging_c` | C sender, 2 sectors, 1 range, 2 tries, 1 fault of any kind, 2 frames in flight, all modes, fair | types, `ImageHonest`, `BadCountExact`, `LineTruthful`, `TxPosition`, refinement of `Rescue`, `LinkedEnds`, `HandshakeCompletes` | holds |
| `imaging_asm` | assembly sender, 3 sectors, 2 ranges, 3 tries, 2 frames or replies damaged or lost, all modes | `AckedIsStored`, `TallyExact`, `ResendIdempotent` | holds |
| `coalesce` | every map of 7 sectors, 2 ranges | `KeepsPromise`, `FewestReread`, `LoopInv`, `Terminates` | holds |
| `restore` | 2 sectors, image of 1 (the rest is padding), ranges out of order, repeated, none; 1 fault of any kind, fair | types, `DriveAligned`, `TalliesExact`, `CompleteMeansCloned`, `StreamEnds`, refinement of `Clone` (`CloneSpec`) | holds |
| `framing` | C sender, 2 or 3 frames of 7 bytes without SOH in the data, some with the types `I` and `E` as data, a CMD of 4 bytes, 5 tries, any 1 byte lost, changed (into SOH or a type too) or invented, fair | `NoStaleReply`, `TwoResends`, `CmdResends`, `Delivered` | holds |
| `passes` | 3 sectors, 1 range, 2 passes of any mode, refused ranges, Ctrl-C and crash anywhere | `MapHonest`, `MapRoundTrip`, `RecoveredKept`, `BadListMatches` | holds |
| `verify` | every image of up to 4 sectors, 2 table entries | `PartitionsTruthful`, `HundredMeansComplete` | holds |
| `crc` | 16-bit register, 0x1021, 518 bytes | `DamageDetected`, `IsRemainder`, `DifferencePersists` | holds |
| `selftest` | TX and WR, lists of up to 3 sectors, any write fails, any ACK is lost | `ParserInStep`, `TestPasses` | holds |
| `disk_code` | all 4096 geometries of the small width, BIOS failure; ranges of 2 sectors on 5 drives, across the word boundary too, up to 3 tries | `GeometryExact`, `FlagsTrusted`, `BufferMatches`, refinement of `Sweep` | holds |
| `asm_hang` | assembly sender, one frame or reply lost, fair | `ReplyWaitEnds` | violated |
| `restore_skip` | 3 sectors, no fault | `AckMeansWritten` | violated |

Bounds. Two sectors are enough for a reply to be taken for another sector's and
for sectors of different marks to be next to each other; the third, with two
ranges, is in `imaging_asm`. `imaging_c` pays for liveness and all kinds of faults
with one fault and one range; its safety properties are proved for every value of
these. Two tries tell a retry from giving up. Two frames in flight are enough for
a resend behind its original. Faults are budgeted so that each kind can hit every
frame and reply of the pass; two in a row reach a damaged resend. Seven sectors
give up to four runs, so that two merges in a row happen with `MaxR = 2`.
`CmdHead` and `RangeBytes` are small so that a CMD has a few bytes; what matters
is that it has more than one. In `framing` the CMD is shorter than the tries, so that
what each of its bytes costs is seen; `info_byte` below has one that is not. Three sectors and one range let `Passes` have resume
passes that fit and ones that must coalesce; two passes are one that goes wrong
and one that trusts what is left; the properties are proved for any number. `Scale = 2` in `verify` makes the rounding of the
percentage happen with four sectors, as 10000 does with twenty thousand.
`imaging_asm` holds for sectors without SOH in their data; with it see `asm_skip`
below. In `crc` three bytes hold every burst of 16 bits that starts in the first
one; once two bits are damaged behind them a behaviour ends: that a difference
stays is `DifferencePersists`, proved for every width. `MCCrc16` also evaluates
`OrderAssumption`: 0x1021 takes one bit through more positions than a frame has
before it comes back.

Deadlock is not checked: every system modelled here ends, or stops when its
bound of passes or bytes is reached.

Fairness. Each side is a loop that never blocks for ever, except where it waits
for a byte and has no timeout; weak fairness of each side says that it keeps
running. Users (prompts, ESC, Ctrl-C), restarts and faults are not fair.
Strong fairness of a `HostReject` that consumes something says that the host does
not hunt on in one damaged frame for ever: the frame has finitely many SOH.
`HandshakeCompletes` needs more, and says so in its hypotheses: from some time on
the answer to an INFO is not overtaken by TX's 2 s timeout, and `flush_input` does
not cut into it every time; the round trip takes milliseconds. `Coalesce`, `Verify`,
`SelfTest` and `DiskCode` are sequential programs: weak fairness of the next step says that the
program runs. In `Framing` it is given to everything but the line's faults.

### What the violated properties show

1. `asm_hang`. `tx.S` (and `wr.S`) wait without a timeout, against the comment
   on `recv_ack`. One lost frame or reply stops a capture for good.
2. `restore_skip`. WR acknowledges any frame it did not expect, not only the
   previous sector's. After one slow write the host runs ahead, a frame is lost
   in WR's FIFO, and both sides wait for ever. The clone is never reported
   complete (`CompleteMeansCloned` holds).

### Known deviations

These configurations are not part of the runs above. Each checks one property
that a reader might expect, and TLC finds it violated; none contradicts a line of
the repository as plainly as the two above. Run them by hand, for example
`tlc -config c_skip.cfg MCImaging`.

| cfg | module | property |
|---|---|---|
| `c_skip` | `MCImaging` | `PassComplete`: in the C sender a timeout that races a late ACK leaves an ACK too many on the line. It later stands in for the NAK of a damaged frame, and that sector is never sent again. The map shows it as untried (or keeps its old mark), so a resume pass gets it; the image is not wrong (`ImageHonest` holds). |
| `asm_skip` | `MCImaging` | `PassComplete`: after a damaged frame the host hunts on in the rest of it, and every SOH there that is followed by no known type draws one more NAK. The surplus reply has the effect of the surplus ACK. |
| `serial_overrun` | `MCImaging` | `OneReplyByte`: a CMD repeated for an INFO that had already been answered reaches TX in the data phase and is read as replies. |
| `restore_cmd` | `MCRestore` | `CommandArrives`: in a restore the CMD is sent once. |
| `phase_lock` | `MCFraming` | `DeadMeansDead`: if the data holds `SOH 'D'`, one changed byte can make the host read a frame from there on; it ends at the same place in the resend, where the same `SOH 'D'` comes next. The host stays out of step until the sender gives up a link that works. |
| `info_byte` | `MCFraming` | `DeadMeansDead`: one changed byte, the type `D` that becomes an `I`, makes the host answer with its CMD. `send_data` reads its bytes, 14 or more, as refusals and sends the frame once for each; with the 8 tries of `main.c` it gives up a link that works, if its UART has a FIFO that keeps them. With the 16 of `tx.S` a CMD of one range is survived, a longer one may not be. A byte of the CMD that equals ACK would be taken for the frame's. |
| `passes_lost` | `MCPasses` | `NoneLost`: a resume pass with more than `MAXR` runs reads good sectors again, and overwrites one that cannot be read this time with the stub. |
| `verify_no_map` | `MCPasses` | `VerdictSound`: `--verify-only` without a map ends in "every sector read good"; an image of holes left by a refused `--range` is called complete. |

The ways into `harmed` of `Passes` belong here too: the image is truncated at the
start of a fresh pass, and good sectors are overwritten in a coalesced resume or a
`--range` pass, while the old map is replaced only at the end; and a store writes
the sector before it marks it.

## Proofs

All theorems hold for every disk size, `MAXR`, retry limit, frame length and
number of passes, and, unless a hypothesis below says otherwise, for every fault
set and bound.

`CoalesceProofs`. `LoopInv` is inductive together with the types: the runs are
in order, apart, start and end on unfinished sectors, nothing before the scan
position is missing, and finished sectors are in the runs only when they no
longer fit. `LoopInvariant` proves it; `PromiseKept` derives that the result is
an `IsResumeWorklist`. Lemmas say what `Append` and `Merged` do to `Covered`.
`CoalescingIsOptimal` is `FewestReread`, by an exchange argument: `Fewest` says that
no set of sectors that covers the unfinished ones in no more pieces than there are
runs is smaller than what the runs cover. A merge keeps it: a set with one piece
less holds some gap between two runs (`HoldsGap`, pigeonhole), which is no smaller
than the one that was closed, and without that gap (`SplitAtGap`) it is a set of the
kind `Fewest` spoke of before.

`ImagingProofs`. `ImageHonest` is not inductive: a store is honest only if the
frame is. `LinkInv` therefore adds the scalars' types, `LineTruthful` (every
frame in flight is about a worklist sector and true; every CMD and TX's own
worklist are the host's) and `TxPosition` (TX is inside its range and its buffer
is what `status` says). Lemmas show that every way the line changes (append,
tail, flush, cut, damage) stays within sequences of such frames. From it:

- `TypeCorrect`, `LineIsTruthful`;
- `MapIsHonest`: `Spec => []ImageHonest`;
- `BadCountIsExact`: by counting what one store changes in the set of BAD marks;
- `ImplementsRescue`: every step of the pass is a step of `Rescue` or leaves
  image, map, worklist and phase alone;
- `TxInside`: `TxPosition`, a part of `LinkInv`;
- `ResendChangesNothing`: `ResendIdempotent`, for every fault. It needs that all
  frames about a sector tell one story (`OneStory`): TX reads a sector once in a
  pass whose ranges do not overlap, so a resend says what the first frame said;
- `AckMeansStored` and `TallyIsExact`: `AckedIsStored` and `TallyExact`, for a
  sender that waits for a byte (`~Timer`, `tx.S`) and a line that only damages and
  loses (`FaultKinds \subseteq {"corrupt", "lose"}`). Then one token travels: a frame,
  a reply, or a wait (`Token`, with `AckTrue` in `QuietInv`), so a reply is always about the frame TX waits for;
  `TxTally` counts what TX has gone past. The hypotheses are needed: `c_skip` has a
  timeout, `asm_skip` an SOH in the data, and TLC finds sectors skipped.

`PassesProofs`. `TypeCorrect` from `Inv`: the types, and that the files exist
while a pass has them open. `RoundTrip` needs `OneLineEach`: below `wpos` every
sector is in exactly one region of the file and that region's character is its
mark, above it in none; so the `CHOOSE` of the last line has no choice. Then, for
any number of passes of any mode, with Ctrl-C and crashes anywhere:

- `HonestMap`: `Spec => []MapHonest`. `SectorInv` says for a sector that is not
  harmed that the status map tells the truth about `cache` unless the sector was
  just written, and that the old map is true of every mixture of old and new image
  that a crash may leave; while the map is being written, image and `cache` are
  the same (`HonestInv`).
- `ListsAgree`: `Spec => []BadListMatches`, from `ListInv`, which carries the
  agreement of map and list through the next pass until both are written again.
- `ResumeKeeps`: `Spec => []RecoveredKept`, from `KeepInv`. The worklist is any that
  `Ranges` promises; that one of at most `MAXR` ranges around at most `MAXR` runs holds
  unfinished sectors only (`ResumeReadsUnfinished`) is counted: every run starts in a
  range of its own.

`RestoreProofs`. `RestoreInv`: WR walks the worklist the host sent and has handled
exactly what lies before its position (`WrPosition`); every DATA frame on the line
carries its own sector's contents, and an EOT is there only when WR is over and
has its tallies (`LinesOK`); a sector of the drive is as it was or was handled
(`DriveTrue`); and what the tallies count. From it `TypeCorrect`, `DriveIsAligned`, `TalliesAreExact` and
`CloneIsComplete`, for every fault of the model. `ImplementsClone` (`CloneSpec`): with
the map of `Restore`'s variables to `Clone`'s, WR's start is `Begin` and takes a
worklist that can be asked for (`AskedInv`: a CMD is on the line only when the host's
worklist is one), a write or a failed one is `Handle` of the first place ahead,
the end of the walk, an abort and the host's report are `Clone`'s own, and every other
step (a resend, a duplicate, a timeout, damage) leaves `Clone`'s variables alone. A
frame received twice is therefore never written or counted twice.

`FramingProofs`. The bytes the host has of a frame and the bytes on the way make
one stream (`Line`). `LineInv` lists the shapes it can have: the frame as far as it
was sent (`Clean`); answered (`Replied`); nothing the host could find a frame in
(`Mute`); an SOH with too little, too much or something else behind it (`Crooked`); a
frame and an SOH too many (`Trailing`, `TailAcked`); between two sends, a frame that
lacks one byte or all but its SOH (`Stuck`). `Crooked` also bounds the resends by the
bytes the host still waits for. There is one lemma per action. From it
`ReplyIsFresh` (`NoStaleReply`) and `ResendsBounded` (`TwoResends`), with and without the
sender's timeout, for frames of any length, any list and any lag, under two
hypotheses that the properties need: no SOH behind a frame's first byte
(`PlainData`; see `phase_lock` and `asm_skip`) and one bad byte at most
(`MaxFaults <= 1`; two invented SOH draw two NAKs). They speak of the line until the
host takes a frame for an INFO: the invariant is `Uncommanded`, the types and, as long
as not `commanded`, `LineInv`. `info_byte` shows that they must. Two more theorems
under these:

- `OneFaultSurvived`: with `LinkTries > 2` the sender gives up the link only if
  `commanded`. The bound is the least; with two tries TLC finds a link given up for
  one byte.
- `WhatIsPassedIsStored`: unless `commanded`, every sector `send_data` went past is
  stored, and all are at the end. `StoreInv` says what is behind the SOH the host has found or will find
  (`Tells`): no data frame, one with an SOH in it, one that stays too short, or the
  frame under way with at most one byte changed or inserted (`Like`, `Edits`). So a
  frame that passes is the one the sender waits for (`SoundIsCurrent`), if no such edit
  of a frame is another frame of the list. That is the hypothesis `EditsCaught`, what
  the CRC is for: a changed byte it always catches (`BurstDetected`), a shift by one
  byte with the odds of 16 bits. The frames of the run satisfy it; for two frames that
  differ in one byte alone TLC finds the wrong one stored.

`Crc16Proofs`. `StepInjective`: a shift with the polynomial loses no difference,
because bit 0 of the polynomial gives back the bit that was shifted out. From it
`DamageStays` for every width and every polynomial with a constant term. A shift is
linear (`StepLinear`), so what matters is the difference of the two registers, and
it moves by itself. `BurstDetected`: while a burst is being read the difference lies
in the bits that burst can reach (`BurstInv`), and it cannot be empty at its end.
`TypicalDamageDetected` adds two single bits: the difference is the first bit moved
on (`OneBitInv`), and the second cancels it only if the orbit of one bit comes back
within a frame (`TwoBitInv`). That it does not is the hypothesis `LongOrbit`, a fact
about the polynomial; for 0x1021 TLC evaluates it (`OrderAssumption` of `MCCrc16`).
`LoopDivides` says what the loops compute, for messages of any length: between two
bytes the registers differ by the remainder of the damage as a polynomial.
`Remainder` divides the whole string from its highest term down (`DivStep`).
`DivisionInv` holds at each turn: some sequence of such steps leads from the damage
read so far to the difference of the registers, moved to where the register stands.
A turn adds one step (`StepDivides`), a new byte adds terms below all that were
divided (`DivisionTake`, `DivisionShift`), and two such sequences over the same terms
agree (`RemainderUnique`, by the least place where they would differ), so no induction over
the message is needed. `LoopIsRemainder` is `IsRemainder`.

`VerifyProofs`. `ReportInv`: each line of the report is true when it is written and
the map it is about does not change; the lines come in the order of the program.
From it `PartitionsAreTrue` and `HundredIsComplete` (the percentage is cut to the next
lower one when a sector is missing, whatever `Scale`).

`SelfTestProofs`. `ParserInv`: the bytes collected and those still to be sent make
one whole frame. From it `ParserStaysInStep` (`ParserInStep`), whatever bytes frames
carry.

The assumptions are the named `ASSUME`s of the modules: sizes are naturals,
limits positive, the contents `Hole` and `Fill` differ from any sector's, `Old` (what
the target drive held) from any image content, `NoFile` from any image, a frame
starts with SOH and `D`, and the polynomial has a constant term.

Only model-checked: liveness (`LinkedEnds`, `HandshakeCompletes`, `Terminates`,
`StreamEnds`, `Delivered`, `TestPasses`, the fairness of `Sweeps`), which the prover
does not do; `CmdResends`, which would need a count of the frames and replies that queue
up behind each other once a CMD is on the line; and everything about the disk code (`FlagsTrusted`, `BufferMatches`,
`GeometryExact`, `Sweeps`): the processor uses `Bitwise`, which the prover cannot, and a
routine is data that the processor interprets, so an invariant would have to speak of
every instruction of the listings.

## Plan

Done: the worklist, the capture pass with its abstract specification, the link
layer byte by byte, the files over several passes, the restore, the verify
report, the checksum, the disk code and the self-tests; proofs of every safety
property but `CmdResends` and those of the disk code. Left: proofs about the byte stream
after a CMD, with more than one fault or with SOHs in the data, where the sender's guarantees are weaker and the shapes of
the line more (`phase_lock` shows what is lost).

## Not modelled

The command lines, progress display and messages; UART registers and baud rates;
the text of the map, of partition types and of labels; of the emulator the
decoding of opcodes, the sign, overflow and parity flags, signed arithmetic and
the DOS calls; `check_8086.py`, a search in objdump's output; the bootstrap
scripts, which are generated. `int13.c` is modelled by the outcome of its calls.
`send_info` in `tx.S` and `wr.S` is never called.
