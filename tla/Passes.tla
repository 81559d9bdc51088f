------------------------------- MODULE Passes -------------------------------
(***************************************************************************)
(* What rx.py keeps on the host's disk, over several capture passes: the   *)
(* image, the map file and the list of bad sectors.  A pass opens the      *)
(* image, over an old one or not, stores sectors, and in its finally       *)
(* clause flushes the image and writes map and list.  It may be            *)
(* interrupted, and the program may be killed at any time.                 *)
(*                                                                         *)
(* Of the line only its result is here: sectors of the worklist arrive in  *)
(* any order, any number of times (a range may name a sector twice, and a  *)
(* sender that is restarted begins again), read well or not each time, and *)
(* the pass may end before all have.  A sector's contents are its LBA.     *)
(***************************************************************************)
EXTENDS MapFile

CONSTANTS Modes,     \* how passes are started: "fresh", "resume", "range"
          MaxPasses, \* bound: passes of one behaviour
          Hole, Fill,\* a sector never written; the stub of an unreadable one
          NoFile

ASSUME ModesAssumption == Modes \subseteq {"fresh", "resume", "range"}
ASSUME PassesAssumption == MaxPasses \in Nat
ASSUME ContentAssumption == Hole \notin Nat /\ Fill \notin Nat /\ Hole # Fill

VARIABLES
  image,      \* file: the image
  mapf,       \* file: the map
  badf,       \* file: the bad sectors
  pc,         \* where main is
  mode,       \* the option the pass was started with
  cache,      \* the image as the program sees it, not yet flushed
  statusmap,
  before,     \* history: the map the pass started from
  work,       \* the sectors of the worklist
  written,    \* the sectors written and not yet marked: none or one
  newmark,    \* the mark it is about to get
  wpos,       \* write_mapfile: sectors whose runs are written
  passes,
  harmed,     \* history: the sectors a map vouched for when a pass was cut off
              \* that may have been overwriting them
  last        \* history: the last write of map and list was "whole" or "cut"

files == <<image, mapf, badf>>
memory == <<mode, cache, statusmap, before, work, written, newmark, wpos>>
history == <<harmed, last>>
vars == <<files, pc, memory, passes, history>>

Contents == Sectors \cup {Hole, Fill}
Images == [Sectors -> Contents]
ASSUME NoFileAssumption == NoFile \notin Images
Untried == [l \in Sectors |-> "UNTRIED"]
Empty == [l \in Sectors |-> Hole]
Stored(l, mark) == IF mark = "GOOD" THEN l ELSE Fill

TypeOK ==
  /\ image \in Images \cup {NoFile}
  /\ mapf = NoFile \/ mapf \in Seq(MapLine)
  /\ badf \in (SUBSET Sectors) \cup {NoFile}
  /\ pc \in {"idle", "opened", "pass", "finally", "map", "list"}
  /\ mode \in {"fresh", "resume", "range"}
  /\ cache \in Images
  /\ statusmap \in [Sectors -> Marks] /\ before \in [Sectors -> Marks]
  /\ work \subseteq Sectors
  /\ written \subseteq Sectors /\ newmark \in {"GOOD", "BAD"}
  /\ wpos \in 0 .. Total
  /\ passes \in 0 .. MaxPasses
  /\ harmed \subseteq Sectors /\ last \in {"whole", "cut"}

Init ==
  /\ image = NoFile /\ mapf = NoFile /\ badf = NoFile
  /\ pc = "idle" /\ mode = "fresh" /\ cache = Empty /\ statusmap = Untried
  /\ before = Untried /\ work = {} /\ written = {} /\ newmark = "BAD" /\ wpos = 0
  /\ passes = 0 /\ harmed = {} /\ last = "whole"

\* The program ends, and only the files are left.
Exit ==
  /\ pc' = "idle" /\ mode' = "fresh" /\ cache' = Empty /\ statusmap' = Untried
  /\ before' = Untried /\ work' = {} /\ written' = {} /\ newmark' = "BAD" /\ wpos' = 0

\* --resume and --range keep an image there is, with its map if there is one;
\* otherwise the image is created or truncated, and is all holes.
OpenImage ==
  /\ pc = "idle" /\ passes < MaxPasses
  /\ mode' \in Modes
  /\ IF mode' # "fresh" /\ image # NoFile
       THEN /\ image' = image
            /\ statusmap' = IF mapf = NoFile THEN Untried ELSE load_mapfile(mapf)
       ELSE image' = Empty /\ statusmap' = Untried
  /\ cache' = image' /\ before' = statusmap'
  /\ work' = {} /\ written' = {} /\ wpos' = 0
  /\ pc' = "opened" /\ passes' = passes + 1
  /\ UNCHANGED <<mapf, badf, newmark, history>>

\* Mutant of Asked: --resume forgets what the map says.
AskedAll(w) ==
  CASE mode = "range" -> IsRangeSpec(w)
    [] OTHER -> w = FreshWorklist

\* The worklist of the pass.
Asked(w) ==
  CASE mode = "range" -> IsRangeSpec(w)
    [] mode = "resume" -> IsResumeWorklist(w, statusmap)
    [] mode = "fresh" -> w = FreshWorklist

Plan ==
  /\ pc = "opened" /\ pc' = "pass"
  /\ \E w \in Worklist : Asked(w) /\ work' = Covered(w)
  /\ UNCHANGED <<files, mode, cache, statusmap, before, written, newmark, wpos, passes, history>>

\* A --range that parse_ranges_spec refuses: the program exits, and leaves the
\* image as it opened it.
RangeError ==
  /\ pc = "opened" /\ mode = "range" /\ Exit
  /\ UNCHANGED <<files, passes, history>>

\* A store, first half: f.seek and f.write.
WriteData ==
  /\ pc = "pass" /\ written = {}
  /\ \E l \in work, mark \in {"GOOD", "BAD"} :
       /\ cache' = [cache EXCEPT ![l] = Stored(l, mark)]
       /\ written' = {l} /\ newmark' = mark
  /\ UNCHANGED <<files, pc, mode, statusmap, before, work, wpos, passes, history>>

\* Second half: the mark, and the ACK.
MarkSector ==
  /\ pc = "pass" /\ written # {}
  /\ statusmap' = [l \in Sectors |-> IF l \in written THEN newmark ELSE statusmap[l]]
  /\ written' = {}
  /\ UNCHANGED <<files, pc, mode, cache, before, work, newmark, wpos, passes, history>>

\* EOT, Ctrl-C or an error of the port while no store is under way.
EndPass ==
  /\ pc = "pass" /\ written = {} /\ pc' = "finally"
  /\ UNCHANGED <<files, memory, passes, history>>

\* Ctrl-C between the halves of a store.  It does harm if a stub is left where
\* the status map still says good.
InterruptBetween ==
  /\ pc = "pass" /\ written # {} /\ pc' = "finally"
  /\ harmed' = harmed \cup {l \in written : statusmap[l] = "GOOD" /\ newmark = "BAD"}
  /\ UNCHANGED <<files, memory, passes, last>>

\* Mutant of Flush: the image is not flushed before the map is written.
FlushLater ==
  /\ pc = "finally" /\ pc' = "map"
  /\ mapf' = << StatusLine(statusmap) >> /\ wpos' = 0
  /\ UNCHANGED <<image, badf, mode, cache, statusmap, before, work, written, newmark, passes, history>>

\* f.flush, os.fsync, and write_mapfile opens the map and writes its head.
Flush ==
  /\ pc = "finally" /\ pc' = "map"
  /\ image' = cache
  /\ mapf' = << StatusLine(statusmap) >> /\ wpos' = 0
  /\ UNCHANGED <<badf, mode, cache, statusmap, before, work, written, newmark, passes, history>>

\* write_mapfile: the line of the next run.
WriteRun ==
  /\ pc = "map" /\ wpos < Total
  /\ \E j \in 1 .. Total :
       /\ IsRunEnd(statusmap, wpos, j)
       /\ mapf' = Append(mapf, RunLine(statusmap, wpos, j))
       /\ wpos' = j
  /\ UNCHANGED <<image, badf, pc, mode, cache, statusmap, before, work, written, newmark, passes, history>>

MapWritten ==
  /\ pc = "map" /\ wpos = Total /\ pc' = "list"
  /\ UNCHANGED <<files, memory, passes, history>>

\* Mutant of write_badlist: every sector without contents is listed.
write_badlist_all ==
  /\ pc = "list" /\ Exit
  /\ badf' = Unfinished(statusmap) /\ last' = "whole"
  /\ UNCHANGED <<image, mapf, passes, harmed>>

write_badlist ==
  /\ pc = "list" /\ Exit
  /\ badf' = {l \in Sectors : statusmap[l] = "BAD"} /\ last' = "whole"
  /\ UNCHANGED <<image, mapf, passes, harmed>>

\* Sectors that the map file calls good while the pass has truncated the image or
\* has them in its worklist.
AtRisk ==
  IF pc \in {"opened", "pass", "finally"} /\ mapf # NoFile
    THEN {l \in IF mode = "fresh" THEN Sectors ELSE work : load_mapfile(mapf)[l] = "GOOD"}
    ELSE {}

\* The program is killed, or Ctrl-C comes before the try statement: no finally
\* clause.  Any part of what was written and not flushed
\* may have reached the file, and the map is as far as it was written.
Crash ==
  /\ pc # "idle" /\ Exit
  /\ \E kept \in SUBSET Sectors :
       image' = [l \in Sectors |-> IF l \in kept THEN cache[l] ELSE image[l]]
  /\ harmed' = harmed \cup AtRisk
  /\ last' = IF pc \in {"map", "list"} THEN "cut" ELSE last
  /\ UNCHANGED <<mapf, badf, passes>>

Next ==
  \/ OpenImage \/ Plan \/ RangeError
  \/ WriteData \/ MarkSector \/ EndPass \/ InterruptBetween
  \/ Flush \/ WriteRun \/ MapWritten \/ write_badlist
  \/ Crash

Spec == Init /\ [][Next]_vars
---------------------------------------------------------------------------

\* Between passes: a sector the map file calls good holds the drive's contents
\* in the image.  --resume leaves such sectors alone for ever, and verify_image
\* vouches for them, so image and map must not get out of step when a pass is
\* interrupted, when it dies, when its map is half written and when the next pass
\* starts from what is left.  The exceptions are sectors that were good in the old
\* map when a pass that was truncating or reading them again was cut off.
MapHonest ==
  pc = "idle" /\ image # NoFile /\ mapf # NoFile =>
    \A l \in Sectors \ harmed : load_mapfile(mapf)[l] = "GOOD" => image[l] = l

\* A map file cut short at any line of write_mapfile reads back as the marks of
\* the runs written so far and UNTRIED for the rest; the whole file reads back
\* as the status map it was written from.
MapRoundTrip ==
  pc \in {"map", "list"} =>
    load_mapfile(mapf) = [l \in Sectors |-> IF l < wpos THEN statusmap[l] ELSE "UNTRIED"]

\* No pass takes back what an earlier one recovered: a sector that was good when
\* the pass started from its map stays good (main's data loop overwrites image
\* and mark with whatever the sender reads this time).
NoneLost ==
  pc # "idle" => \A l \in Sectors : before[l] = "GOOD" => statusmap[l] = "GOOD"

\* The unfinished sectors lie in MAXR runs at most.
RunsFit(sm) == Cardinality({l \in Unfinished(sm) : l - 1 \notin Unfinished(sm)}) <= MaxR

\* A --resume pass takes nothing back when build_worklist need not coalesce, at
\* exactly MAXR runs too: neither in the status map nor in the image it writes.
RecoveredKept ==
  pc # "idle" /\ mode = "resume" /\ RunsFit(before) =>
    \A l \in Sectors \ harmed : before[l] = "GOOD" => statusmap[l] = "GOOD" /\ cache[l] = l

\* What --verify-only takes for the status map: without a map file all is good.
VerifiedMap ==
  IF mapf = NoFile THEN [l \in Sectors |-> "GOOD"] ELSE load_mapfile(mapf)

\* When --verify-only ends with "image is complete and every sector read good",
\* every sector of the image holds the drive's contents.
VerdictSound ==
  pc = "idle" /\ image # NoFile /\ Unfinished(VerifiedMap) = {} =>
    \A l \in Sectors : image[l] = l

\* Between passes the list of write_badlist names the sectors the map file calls
\* bad, unless the program died between the writing of the two.
BadListMatches ==
  pc = "idle" /\ mapf # NoFile /\ last = "whole" =>
    badf = {l \in Sectors : load_mapfile(mapf)[l] = "BAD"}
=============================================================================
