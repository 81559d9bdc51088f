---------------------------- MODULE PassesProofs ----------------------------
(***************************************************************************)
(* Proofs about the files of module Passes, for drives of any size and any *)
(* number of passes.                                                       *)
(***************************************************************************)
EXTENDS Passes, FiniteSetTheorems, WellFoundedInduction, TLAPS

(* The division of load_mapfile undoes the multiplication of write_mapfile. *)
LEMMA SectorOfByte ==
  ASSUME NEW i \in Nat
  PROVE i * Bps \in Nat /\ (i * Bps) \div Bps = i
<1>1. i * Bps \in Nat
  BY BpsAssumption
<1>2. (i * Bps) \div Bps = i
  BY BpsAssumption, SMTT(30)
<1> QED
  BY <1>1, <1>2

LEMMA RegionOfRun ==
  ASSUME NEW sm, NEW i \in Nat, NEW j \in Nat, i < j
  PROVE /\ RunLine(sm, i, j) \in MapLine
        /\ IsRegion(RunLine(sm, i, j))
        /\ Region(RunLine(sm, i, j)) = i .. j - 1
        /\ RunLine(sm, i, j)[3] = charmap(sm[i])
<1>1. i * Bps \in Nat /\ j * Bps \in Nat /\ (j - i) * Bps \in Nat /\ i * Bps + (j - i) * Bps = j * Bps
  <2>1. j - i \in Nat /\ i + (j - i) = j
    OBVIOUS
  <2>2. i * Bps \in Nat /\ j * Bps \in Nat /\ (j - i) * Bps \in Nat
    BY <2>1, SectorOfByte
  <2>3. i * Bps + (j - i) * Bps = j * Bps
    BY BpsAssumption, SMTT(30)
  <2> QED
    BY <2>2, <2>3
<1>2. charmap(sm[i]) \in Chars
  BY DEF charmap, Chars
<1>3. RunLine(sm, i, j) = << i * Bps, (j - i) * Bps, charmap(sm[i]) >>
  BY DEF RunLine
<1>4. Region(RunLine(sm, i, j)) = i .. j - 1
  <2>1. Region(RunLine(sm, i, j)) = (i * Bps) \div Bps .. (i * Bps + (j - i) * Bps) \div Bps - 1
    BY <1>3 DEF Region
  <2> QED
    BY <2>1, <1>1, SectorOfByte
<1> QED
  BY <1>1, <1>2, <1>3, <1>4 DEF MapLine, IsRegion

LEMMA StatusLineTyped ==
  ASSUME NEW sm
  PROVE StatusLine(sm) \in MapLine /\ ~IsRegion(StatusLine(sm))
<1>1. Total * Bps \in Nat
  BY TotalAssumption, SectorOfByte
<1> QED
  BY <1>1 DEF StatusLine, MapLine, Chars, IsRegion

LEMMA LoadTyped ==
  ASSUME NEW lines
  PROVE load_mapfile(lines) \in [Sectors -> Marks]
  BY DEF load_mapfile, charval, Marks

LEMMA CharOfMark ==
  ASSUME NEW mark \in Marks
  PROVE charval(charmap(mark)) = mark
  BY DEF Marks, charval, charmap

LEMMA CoveredOnDisk ==
  ASSUME NEW w \in Worklist
  PROVE Covered(w) \subseteq Sectors
<1>1. PICK n \in 0 .. MaxR : w \in [1 .. n -> LbaRange]
  BY DEF Worklist
<1>2. ASSUME NEW i \in DOMAIN w PROVE Members(w[i]) \subseteq Sectors
  <2>1. w[i] \in LbaRange
    BY <1>1
  <2> QED
    BY <2>1, TotalAssumption DEF LbaRange, Members, Sectors
<1> QED
  BY <1>2 DEF Covered

---------------------------------------------------------------------------
(* Types.  While a pass runs the image exists, and while the map is written *)
(* the map does.                                                            *)

FilesOpen ==
  /\ pc # "idle" => image \in Images
  /\ pc \in {"map", "list"} => mapf \in Seq(MapLine)

Inv == TypeOK /\ FilesOpen

LEMMA ExitTyped ==
  ASSUME Exit, TypeOK
  PROVE /\ pc' = "idle" /\ mode' \in {"fresh", "resume", "range"} /\ cache' \in Images
        /\ statusmap' \in [Sectors -> Marks] /\ before' \in [Sectors -> Marks]
        /\ work' \subseteq Sectors /\ written' \subseteq Sectors
        /\ newmark' \in {"GOOD", "BAD"} /\ wpos' \in 0 .. Total
  BY TotalAssumption DEF Exit, Empty, Untried, Images, Contents, Marks

LEMMA InvInit == Init => Inv
  BY TotalAssumption, PassesAssumption
     DEF Init, Inv, TypeOK, FilesOpen, Empty, Untried, Images, Contents, Marks

LEMMA InvStep == Inv /\ [Next]_vars => Inv'
<1> SUFFICES ASSUME Inv, [Next]_vars PROVE Inv'
  OBVIOUS
<1> USE DEF Inv, TypeOK, FilesOpen, history
<1>1. CASE OpenImage
  <2>1. Empty \in Images /\ Untried \in [Sectors -> Marks]
    BY DEF Empty, Images, Contents, Untried, Marks
  <2>2. image' \in Images /\ cache' \in Images
    BY <1>1, <2>1 DEF OpenImage
  <2>3. statusmap' \in [Sectors -> Marks] /\ before' \in [Sectors -> Marks]
    BY <1>1, <2>1, LoadTyped DEF OpenImage
  <2>4. mode' \in {"fresh", "resume", "range"} /\ passes' \in 0 .. MaxPasses
    BY <1>1, ModesAssumption, PassesAssumption DEF OpenImage
  <2> QED
    BY <1>1, <2>2, <2>3, <2>4, TotalAssumption DEF OpenImage
<1>2. CASE Plan
  <2>1. work' \subseteq Sectors
    BY <1>2, CoveredOnDisk DEF Plan
  <2> QED
    BY <1>2, <2>1 DEF Plan, files
<1>3. CASE RangeError
  BY <1>3, ExitTyped DEF RangeError, files
<1>4. CASE WriteData
  <2>1. PICK l \in work, mark \in {"GOOD", "BAD"} :
          /\ cache' = [cache EXCEPT ![l] = Stored(l, mark)]
          /\ written' = {l} /\ newmark' = mark
    BY <1>4 DEF WriteData
  <2>2. cache' \in Images /\ written' \subseteq Sectors /\ newmark' \in {"GOOD", "BAD"}
    BY <2>1 DEF Stored, Images, Contents
  <2> QED
    BY <1>4, <2>2 DEF WriteData, files
<1>5. CASE MarkSector
  <2>1. statusmap' \in [Sectors -> Marks]
    BY <1>5 DEF MarkSector, Marks
  <2> QED
    BY <1>5, <2>1 DEF MarkSector, files
<1>6. CASE EndPass \/ InterruptBetween
  BY <1>6 DEF EndPass, InterruptBetween, files, memory
<1>7. CASE Flush
  <2>1. << StatusLine(statusmap) >> \in Seq(MapLine)
    BY StatusLineTyped
  <2> QED
    BY <1>7, <2>1, TotalAssumption DEF Flush
<1>8. CASE WriteRun
  <2>1. PICK j \in 1 .. Total :
          /\ IsRunEnd(statusmap, wpos, j)
          /\ mapf' = Append(mapf, RunLine(statusmap, wpos, j))
          /\ wpos' = j
    BY <1>8 DEF WriteRun
  <2>2. mapf' \in Seq(MapLine) /\ wpos' \in 0 .. Total
    <3>1. wpos < j /\ mapf \in Seq(MapLine)
      BY <1>8, <2>1, TotalAssumption DEF IsRunEnd, WriteRun
    <3>2. wpos \in Nat /\ j \in Nat
      BY TotalAssumption
    <3>3. RunLine(statusmap, wpos, j) \in MapLine
      BY <3>1, <3>2, RegionOfRun
    <3> QED
      BY <2>1, <3>1, <3>2, <3>3
  <2> QED
    BY <1>8, <2>2 DEF WriteRun
<1>9. CASE MapWritten
  BY <1>9 DEF MapWritten, files, memory
<1>10. CASE write_badlist
  BY <1>10, ExitTyped DEF write_badlist
<1>11. CASE Crash
  <2>1. image' \in Images
    BY <1>11 DEF Crash, Images
  <2>2. harmed' \subseteq Sectors /\ last' \in {"whole", "cut"}
    BY <1>11 DEF Crash, AtRisk
  <2> QED
    BY <1>11, <2>1, <2>2, ExitTyped DEF Crash
<1>12. CASE UNCHANGED vars
  BY <1>12 DEF vars, files, memory
<1> QED
  BY <1>1, <1>2, <1>3, <1>4, <1>5, <1>6, <1>7, <1>8, <1>9, <1>10, <1>11, <1>12 DEF Next

(* Files and status map keep their types over any passes and faults. *)
THEOREM TypeCorrect == Spec => []TypeOK
<1>1. Inv => TypeOK
  BY DEF Inv
<1> QED
  BY <1>1, InvInit, InvStep, PTL DEF Spec

---------------------------------------------------------------------------
(* The map file.  Each sector written so far is in one line, the others are *)
(* in none, so which line about a sector comes last does not matter.        *)

OneLineEach ==
  pc \in {"map", "list"} =>
    \A l \in Sectors :
      /\ l < wpos => \E k \in DOMAIN mapf : About(mapf, l) = {k} /\ charval(mapf[k][3]) = statusmap[l]
      /\ l >= wpos => About(mapf, l) = {}

LEMMA AboutAppend ==
  ASSUME NEW lines \in Seq(MapLine), NEW line \in MapLine, NEW l
  PROVE About(Append(lines, line), l) =
          About(lines, l) \cup IF IsRegion(line) /\ l \in Region(line) THEN {Len(lines) + 1} ELSE {}
<1> DEFINE new == Append(lines, line)
<1>1. DOMAIN new = 1 .. Len(lines) + 1 /\ DOMAIN lines = 1 .. Len(lines) /\ Len(lines) \in Nat
  OBVIOUS
<1>2. new[Len(lines) + 1] = line /\ \A k \in DOMAIN lines : new[k] = lines[k]
  OBVIOUS
<1> HIDE DEF new
<1>3. About(new, l) = About(lines, l) \cup IF IsRegion(line) /\ l \in Region(line) THEN {Len(lines) + 1} ELSE {}
  BY <1>1, <1>2 DEF About
<1> QED
  BY <1>3 DEF new

LEMMA OneLineEachStep == Inv /\ OneLineEach /\ [Next]_vars => OneLineEach'
<1> SUFFICES ASSUME Inv, OneLineEach, [Next]_vars, pc' \in {"map", "list"},
                    NEW l \in Sectors
             PROVE /\ l < wpos' => \E k \in DOMAIN mapf' : About(mapf', l) = {k} /\ charval(mapf'[k][3]) = statusmap'[l]
                   /\ l >= wpos' => About(mapf', l) = {}
  BY DEF OneLineEach
<1>1. CASE Flush
  <2>1. mapf' = << StatusLine(statusmap) >> /\ wpos' = 0
    BY <1>1 DEF Flush
  <2>2. DOMAIN mapf' = {1} /\ mapf'[1] = StatusLine(statusmap)
    BY <2>1
  <2>3. About(mapf', l) = {}
    BY <2>2, StatusLineTyped DEF About
  <2> QED
    BY <2>1, <2>3 DEF Sectors
<1>2. CASE WriteRun
  <2>1. PICK j \in 1 .. Total :
          /\ IsRunEnd(statusmap, wpos, j)
          /\ mapf' = Append(mapf, RunLine(statusmap, wpos, j))
          /\ wpos' = j
    BY <1>2 DEF WriteRun
  <2>2. /\ mapf \in Seq(MapLine) /\ wpos \in Nat /\ j \in Nat /\ wpos < j
        /\ statusmap' = statusmap /\ statusmap \in [Sectors -> Marks]
        /\ wpos \in Sectors /\ pc = "map"
    BY <1>2, <2>1, TotalAssumption DEF WriteRun, Inv, TypeOK, FilesOpen, IsRunEnd, Sectors
  <2> DEFINE line == RunLine(statusmap, wpos, j)
  <2>3. line \in MapLine /\ IsRegion(line) /\ Region(line) = wpos .. j - 1 /\ line[3] = charmap(statusmap[wpos])
    BY <2>2, RegionOfRun
  <2>4. About(mapf', l) = About(mapf, l) \cup IF l \in wpos .. j - 1 THEN {Len(mapf) + 1} ELSE {}
    BY <2>1, <2>2, <2>3, AboutAppend
  <2>5. CASE l < wpos
    <3>1. PICK k \in DOMAIN mapf : About(mapf, l) = {k} /\ charval(mapf[k][3]) = statusmap[l]
      BY <2>2, <2>5 DEF OneLineEach
    <3>2. About(mapf', l) = {k}
      BY <2>4, <2>5, <3>1, <2>2 DEF Sectors
    <3>3. k \in DOMAIN mapf' /\ mapf'[k] = mapf[k]
      BY <2>1, <2>2, <3>1
    <3> QED
      BY <2>1, <2>2, <2>5, <3>1, <3>2, <3>3, SMTT(30) DEF Sectors
  <2>6. CASE l \in wpos .. j - 1
    <3>1. About(mapf, l) = {}
      BY <2>2, <2>6 DEF OneLineEach
    <3>2. About(mapf', l) = {Len(mapf) + 1}
      BY <2>4, <2>6, <3>1
    <3>3. Len(mapf) + 1 \in DOMAIN mapf' /\ mapf'[Len(mapf) + 1] = line
      BY <2>1, <2>2
    <3>4. charval(line[3]) = statusmap[l]
      <4>1. statusmap[l] = statusmap[wpos] /\ statusmap[wpos] \in Marks
        BY <2>1, <2>2, <2>6 DEF IsRunEnd
      <4> QED
        BY <4>1, <2>3, CharOfMark
    <3> QED
      BY <2>1, <2>2, <2>6, <3>2, <3>3, <3>4
  <2>7. CASE l >= j
    <3>1. About(mapf, l) = {}
      BY <2>2, <2>7 DEF OneLineEach, Sectors
    <3> QED
      BY <2>1, <2>2, <2>4, <2>7, <3>1 DEF Sectors
  <2> QED
    BY <2>2, <2>5, <2>6, <2>7 DEF Sectors
<1>3. CASE MapWritten
  BY <1>3 DEF MapWritten, files, memory, OneLineEach
<1>4. CASE UNCHANGED vars
  BY <1>4 DEF vars, files, memory, history, OneLineEach
<1>5. CASE \/ OpenImage \/ Plan \/ RangeError \/ WriteData \/ MarkSector \/ EndPass
           \/ InterruptBetween \/ write_badlist \/ Crash
  BY <1>5 DEF OpenImage, Plan, RangeError, WriteData, MarkSector, EndPass,
              InterruptBetween, write_badlist, Crash, Exit, files, memory
<1> QED
  BY <1>1, <1>2, <1>3, <1>4, <1>5 DEF Next

LEMMA OneLineEachReads ==
  ASSUME Inv, OneLineEach
  PROVE MapRoundTrip
<1> SUFFICES ASSUME pc \in {"map", "list"}, NEW l \in Sectors
             PROVE load_mapfile(mapf)[l] = IF l < wpos THEN statusmap[l] ELSE "UNTRIED"
  BY DEF MapRoundTrip, load_mapfile
<1> DEFINE ks == About(mapf, l)
<1>1. load_mapfile(mapf)[l] =
        IF ks = {} THEN "UNTRIED" ELSE charval(mapf[CHOOSE k \in ks : \A m \in ks : m <= k][3])
  BY DEF load_mapfile
<1>2. CASE l < wpos
  <2>1. PICK k \in DOMAIN mapf : ks = {k} /\ charval(mapf[k][3]) = statusmap[l]
    BY <1>2 DEF OneLineEach
  <2>2. k \in Nat
    BY DEF Inv, FilesOpen
  <2>3. (CHOOSE c \in {k} : \A m \in {k} : m <= c) = k
    BY <2>2
  <2> QED
    BY <1>1, <1>2, <2>1, <2>3
<1>3. CASE ~(l < wpos)
  <2>1. ks = {}
    BY <1>3, TotalAssumption DEF OneLineEach, Inv, TypeOK, Sectors
  <2> QED
    BY <1>1, <1>3, <2>1
<1> QED
  BY <1>2, <1>3

(* load_mapfile reads back what write_mapfile wrote, wherever the write was  *)
(* cut off: no run is lost, shifted or merged by the change of units.        *)
THEOREM RoundTrip == Spec => []MapRoundTrip
<1>1. Init => OneLineEach
  BY DEF Init, OneLineEach
<1> QED
  BY <1>1, InvInit, InvStep, OneLineEachStep, OneLineEachReads, PTL DEF Spec

---------------------------------------------------------------------------
(* The map and the image, sector by sector.  While a pass runs, the map file *)
(* is still the old one: for a sector outside the worklist image and cache   *)
(* both keep what it says, whatever part of the cache has reached the file.  *)
(* The status map is true of the cache, except for the sector just written,  *)
(* whose new mark is.                                                        *)

SectorInv(l) ==
  /\ pc = "idle" /\ mapf # NoFile => (load_mapfile(mapf)[l] = "GOOD" => image[l] = l)
  /\ pc \in {"opened", "pass", "finally"} /\ mapf # NoFile /\ mode # "fresh" =>
       (load_mapfile(mapf)[l] = "GOOD" => image[l] = l /\ (l \notin work => cache[l] = l))
  /\ pc \in {"opened", "finally", "map", "list"} => (statusmap[l] = "GOOD" => cache[l] = l)
  /\ pc = "pass" => ((IF l \in written THEN newmark ELSE statusmap[l]) = "GOOD" => cache[l] = l)

HonestInv ==
  /\ image = NoFile => mapf = NoFile
  /\ pc = "opened" => written = {} /\ work = {}
  /\ pc = "list" => wpos = Total
  /\ pc \in {"map", "list"} => image = cache
  /\ \A l \in Sectors \ harmed : SectorInv(l)

LEMMA HarmedGrows == Inv /\ [Next]_vars => harmed \subseteq harmed'
  BY DEF Next, OpenImage, Plan, RangeError, WriteData, MarkSector, EndPass, InterruptBetween,
         Flush, WriteRun, MapWritten, write_badlist, Crash, vars, history

LEMMA SectorStep ==
  ASSUME Inv, MapRoundTrip, HonestInv, [Next]_vars,
         NEW l \in Sectors, l \notin harmed'
  PROVE SectorInv(l)'
<1>0. l \notin harmed /\ SectorInv(l)
  BY HarmedGrows DEF HonestInv
<1> USE DEF SectorInv
<1>1. CASE OpenImage
  <2>1. pc' = "opened" /\ cache' = image' /\ mapf' = mapf /\ work' = {} /\ pc = "idle"
    BY <1>1 DEF OpenImage
  <2>2. CASE mode' # "fresh" /\ image # NoFile
    BY <1>0, <1>1, <2>1, <2>2 DEF OpenImage, Untried
  <2>3. CASE ~(mode' # "fresh" /\ image # NoFile)
    BY <1>1, <2>1, <2>3 DEF OpenImage, Untried, HonestInv
  <2> QED
    BY <2>2, <2>3
<1>2. CASE Plan
  BY <1>0, <1>2 DEF Plan, files, HonestInv
<1>3. CASE RangeError
  BY <1>0, <1>3 DEF RangeError, Exit, files
<1>4. CASE WriteData
  <2>1. PICK m \in work, mark \in {"GOOD", "BAD"} :
          /\ cache' = [cache EXCEPT ![m] = Stored(m, mark)]
          /\ written' = {m} /\ newmark' = mark
    BY <1>4 DEF WriteData
  <2>2. /\ m \in Sectors /\ cache \in [Sectors -> Contents] /\ pc = "pass" /\ pc' = "pass" /\ written = {}
        /\ UNCHANGED <<image, mapf, mode, statusmap, work>>
    BY <1>4 DEF WriteData, Inv, TypeOK, Images, files
  <2>3. CASE l = m
    BY <1>0, <2>1, <2>2, <2>3 DEF Stored
  <2>4. CASE l # m
    BY <1>0, <2>1, <2>2, <2>4
  <2> QED
    BY <2>3, <2>4
<1>5. CASE MarkSector
  BY <1>0, <1>5 DEF MarkSector, files
<1>6. CASE EndPass
  BY <1>0, <1>6 DEF EndPass, files, memory
<1>7. CASE InterruptBetween
  <2>1. l \in written /\ statusmap[l] = "GOOD" => newmark = "GOOD"
    BY <1>7 DEF InterruptBetween, Inv, TypeOK
  <2> QED
    BY <1>0, <1>7, <2>1 DEF InterruptBetween, files, memory
<1>8. CASE Flush
  BY <1>0, <1>8 DEF Flush
<1>9. CASE WriteRun
  BY <1>0, <1>9 DEF WriteRun
<1>10. CASE MapWritten
  BY <1>0, <1>10 DEF MapWritten, files, memory
<1>11. CASE write_badlist
  <2>1. load_mapfile(mapf)[l] = statusmap[l] /\ image = cache /\ pc = "list"
    BY <1>11, TotalAssumption DEF write_badlist, MapRoundTrip, HonestInv, Sectors
  <2> QED
    BY <1>0, <1>11, <2>1 DEF write_badlist, Exit
<1>12. CASE Crash
  <2>1. PICK kept \in SUBSET Sectors :
          image' = [m \in Sectors |-> IF m \in kept THEN cache[m] ELSE image[m]]
    BY <1>12 DEF Crash
  <2>2. pc # "idle" /\ pc' = "idle" /\ mapf' = mapf /\ l \notin AtRisk
    BY <1>12 DEF Crash, Exit
  <2> SUFFICES ASSUME mapf # NoFile, load_mapfile(mapf)[l] = "GOOD"
               PROVE image'[l] = l
    BY <2>2
  <2>3. CASE pc \in {"opened", "pass", "finally"}
    <3>1. mode # "fresh" /\ l \notin work
      BY <2>2, <2>3 DEF AtRisk
    <3> QED
      BY <1>0, <2>1, <2>3, <3>1
  <2>4. CASE pc \in {"map", "list"}
    <3>1. statusmap[l] = "GOOD" /\ image = cache
      BY <2>4 DEF MapRoundTrip, HonestInv
    <3> QED
      BY <1>0, <2>1, <2>4, <3>1
  <2> QED
    BY <2>2, <2>3, <2>4 DEF Inv, TypeOK
<1>13. CASE UNCHANGED vars
  BY <1>0, <1>13 DEF vars, files, memory, history
<1> QED
  BY <1>1, <1>2, <1>3, <1>4, <1>5, <1>6, <1>7, <1>8, <1>9, <1>10, <1>11, <1>12, <1>13 DEF Next

LEMMA HonestStep ==
  ASSUME Inv, Inv', MapRoundTrip, HonestInv, [Next]_vars
  PROVE HonestInv'
<1>1. image' = NoFile => mapf' = NoFile
  BY NoFileAssumption
     DEF HonestInv, Inv, TypeOK, FilesOpen, Next, OpenImage, Plan, RangeError, WriteData, MarkSector,
         EndPass, InterruptBetween, Flush, WriteRun, MapWritten, write_badlist, Crash, Exit,
         Empty, Images, Contents, vars, files
<1>2. /\ pc' = "opened" => written' = {} /\ work' = {}
      /\ pc' = "list" => wpos' = Total
      /\ pc' \in {"map", "list"} => image' = cache'
  BY DEF HonestInv, Next, OpenImage, Plan, RangeError, WriteData, MarkSector,
         EndPass, InterruptBetween, Flush, WriteRun, MapWritten, write_badlist, Crash, Exit,
         vars, files, memory
<1>3. \A l \in Sectors \ harmed' : SectorInv(l)'
  BY SectorStep
<1> QED
  BY <1>1, <1>2, <1>3 DEF HonestInv

(* However passes are started, mixed, interrupted and killed, in a half-done *)
(* store and in a half-written map too: the map on the disk calls good only  *)
(* what the image holds, but for sectors that were good in the old map when a *)
(* pass was cut off that truncated them or was reading them again.           *)
THEOREM HonestMap == Spec => []MapHonest
<1>1. Init => HonestInv
  BY DEF Init, HonestInv, SectorInv
<1>2. HonestInv => MapHonest
  BY DEF HonestInv, SectorInv, MapHonest
<1>3. Spec => []Inv
  BY InvInit, InvStep, PTL DEF Spec
<1>4. Inv /\ Inv' /\ MapRoundTrip /\ HonestInv /\ [Next]_vars => HonestInv'
  BY HonestStep
<1> QED
  BY <1>1, <1>2, <1>3, <1>4, RoundTrip, PTL DEF Spec

---------------------------------------------------------------------------
(* The list of bad sectors. *)

BadOf(sm) == {l \in Sectors : sm[l] = "BAD"}

ListInv ==
  /\ pc \in {"idle", "opened", "pass", "finally"} /\ mapf # NoFile /\ last = "whole" =>
       badf = BadOf(load_mapfile(mapf))
  /\ pc = "list" => wpos = Total

LEMMA ListStep ==
  ASSUME Inv, MapRoundTrip, ListInv, [Next]_vars
  PROVE ListInv'
<1> USE DEF ListInv
<1>1. CASE write_badlist
  <2>1. load_mapfile(mapf) = statusmap
    <3>1. \A l \in Sectors : load_mapfile(mapf)[l] = statusmap[l]
      BY <1>1, TotalAssumption DEF write_badlist, MapRoundTrip, Sectors
    <3> QED
      BY <3>1, LoadTyped DEF Inv, TypeOK
  <2> QED
    BY <1>1, <2>1 DEF write_badlist, Exit, BadOf
<1>2. CASE Crash
  BY <1>2 DEF Crash, Exit, Inv, TypeOK
<1>3. CASE \/ OpenImage \/ Plan \/ RangeError \/ WriteData \/ MarkSector \/ EndPass
           \/ InterruptBetween \/ Flush \/ WriteRun \/ MapWritten \/ UNCHANGED vars
  BY <1>3 DEF OpenImage, Plan, RangeError, WriteData, MarkSector, EndPass, InterruptBetween,
              Flush, WriteRun, MapWritten, Exit, vars, files, memory, history
<1> QED
  BY <1>1, <1>2, <1>3 DEF Next

(* write_badlist's list and the map say the same, over any passes, as long as *)
(* the program does not die between the writing of the two.                   *)
THEOREM ListsAgree == Spec => []BadListMatches
<1>1. Init => ListInv
  BY DEF Init, ListInv
<1>2. ListInv => BadListMatches
  BY DEF ListInv, BadListMatches, BadOf
<1>3. Spec => []Inv
  BY InvInit, InvStep, PTL DEF Spec
<1>4. Inv /\ MapRoundTrip /\ ListInv /\ [Next]_vars => ListInv'
  BY ListStep
<1> QED
  BY <1>1, <1>2, <1>3, <1>4, RoundTrip, PTL DEF Spec

---------------------------------------------------------------------------
(* What --resume leaves alone.  build_worklist's promise allows finished    *)
(* sectors in the worklist once it has MAXR ranges.  When the unfinished    *)
(* sectors lie in MAXR runs at most there are none all the same: every      *)
(* range starts where a run does, so MAXR ranges use up all the starts, and *)
(* no run can start behind a finished sector inside a range.                *)

RunStarts(sm) == {l \in Unfinished(sm) : l - 1 \notin Unfinished(sm)}

LEMMA LeastNat ==
  ASSUME NEW T \in SUBSET Nat, T # {}
  PROVE \E x \in T : \A y \in T : x <= y
<1> DEFINE R == OpToRel(<, Nat)
<1>1. IsWellFoundedOn(R, Nat)
  BY NatLessThanWellFounded
<1> HIDE DEF R
<1>2. PICK x \in T : \A y \in T : <<y, x>> \notin R
  BY <1>1, WFMin
<1>3. ASSUME NEW y \in T PROVE x <= y
  <2>1. <<y, x>> \notin R
    BY <1>2
  <2> QED
    BY <2>1 DEF R, OpToRel
<1> QED
  BY <1>3

LEMMA ResumeReadsUnfinished ==
  ASSUME NEW w, NEW sm, IsResumeWorklist(w, sm), RunsFit(sm)
  PROVE Covered(w) \subseteq Unfinished(sm)
<1>1. PICK n \in 0 .. MaxR : w \in [1 .. n -> LbaRange]
  BY DEF IsResumeWorklist, Worklist
<1>2. n \in Nat /\ w \in Seq(LbaRange) /\ Len(w) = n /\ DOMAIN w = 1 .. n
  BY <1>1, MaxRAssumption
<1>3. ASSUME NEW i \in 1 .. n
      PROVE /\ w[i][1] \in Nat /\ w[i][2] \in Nat /\ w[i][1] < w[i][2] /\ w[i][2] <= Total
            /\ w[i][1] \in Unfinished(sm) /\ w[i][2] - 1 \in Unfinished(sm)
  <2>1. w[i] \in LbaRange
    BY <1>1
  <2>2. w[i][1] \in Nat /\ w[i][2] \in Nat /\ w[i][2] <= Total
    BY <2>1, TotalAssumption DEF LbaRange
  <2>3. w[i][1] < w[i][2] /\ sm[w[i][1]] # "GOOD" /\ sm[w[i][2] - 1] # "GOOD"
    BY <1>2 DEF IsResumeWorklist
  <2> QED
    BY <2>2, <2>3, TotalAssumption DEF Unfinished, Sectors
<1>4. \A i, j \in 1 .. n : i < j => w[i][2] < w[j][1]
  BY <1>2 DEF IsResumeWorklist
<1>5. ASSUME NEW i \in 1 .. n PROVE w[i][1] \in RunStarts(sm)
  <2> SUFFICES ASSUME w[i][1] - 1 \in Unfinished(sm) PROVE FALSE
    BY <1>3 DEF RunStarts
  <2>1. w[i][1] - 1 \in Covered(w)
    BY DEF IsResumeWorklist
  <2>2. PICK j \in 1 .. n : w[i][1] - 1 \in w[j][1] .. w[j][2] - 1
    BY <2>1, <1>2 DEF Covered, Members
  <2>3. CASE j = i
    BY <2>2, <2>3, <1>3
  <2>4. CASE j < i
    BY <2>2, <2>4, <1>3, <1>4
  <2>5. CASE i < j
    BY <2>2, <2>5, <1>3, <1>4
  <2> QED
    BY <2>3, <2>4, <2>5, <1>2
<1>6. CASE n < MaxR
  BY <1>2, <1>6 DEF IsResumeWorklist
<1>7. CASE n = MaxR
  <2> DEFINE start == [i \in 1 .. n |-> w[i][1]]
  <2>1. start \in Injection(1 .. n, RunStarts(sm))
    <3>1. start \in [1 .. n -> RunStarts(sm)]
      BY <1>5
    <3>2. ASSUME NEW i \in 1 .. n, NEW j \in 1 .. n, i # j PROVE start[i] # start[j]
      <4>1. CASE i < j
        BY <4>1, <1>3, <1>4
      <4>2. CASE j < i
        BY <4>2, <1>3, <1>4
      <4> QED
        BY <4>1, <4>2, <3>2, <1>2
    <3> HIDE DEF start
    <3> QED
      BY <3>1, <3>2 DEF Injection, IsInjective
  <2>2. IsFiniteSet(RunStarts(sm))
    <3>1. IsFiniteSet(Sectors)
      BY TotalAssumption, FS_Interval DEF Sectors
    <3>2. RunStarts(sm) \in SUBSET Sectors
      BY DEF RunStarts, Unfinished
    <3> QED
      BY <3>1, <3>2, FS_Subset
  <2>3. start \in Surjection(1 .. n, RunStarts(sm))
    <3>1. Cardinality(1 .. n) = n
      BY <1>2, FS_Interval
    <3>2. Cardinality(RunStarts(sm)) \in Nat /\ Cardinality(RunStarts(sm)) <= n
      BY <1>7, <2>2, FS_CardinalityType DEF RunsFit, RunStarts
    <3> HIDE DEF start
    <3>3. /\ Cardinality(1 .. n) <= Cardinality(RunStarts(sm))
          /\ Cardinality(1 .. n) = Cardinality(RunStarts(sm)) <=> start \in Surjection(1 .. n, RunStarts(sm))
      BY <2>1, <2>2, FS_Injection
    <3> QED
      BY <3>1, <3>2, <3>3, <1>2
  <2>4. \A x \in RunStarts(sm) : \E m \in 1 .. n : w[m][1] = x
    BY <2>3 DEF Surjection
  <2> SUFFICES ASSUME NEW l \in Covered(w), l \notin Unfinished(sm) PROVE FALSE
    OBVIOUS
  <2>5. PICK i \in 1 .. n : l \in w[i][1] .. w[i][2] - 1
    BY <1>2 DEF Covered, Members
  <2>6. l \in Nat
    BY <2>5, <1>3
  <2> DEFINE T == {x \in l + 1 .. w[i][2] - 1 : x \in Unfinished(sm)}
  <2>7. T \in SUBSET Nat /\ w[i][2] - 1 \in T
    BY <2>5, <2>6, <1>3
  <2>8. PICK x \in T : \A y \in T : x <= y
    BY <2>7, LeastNat
  <2>9. x \in Nat /\ l < x /\ x < w[i][2] /\ x \in Unfinished(sm)
    BY <2>8, <2>6, <1>3
  <2>10. x \in RunStarts(sm)
    <3> SUFFICES ASSUME x - 1 \in Unfinished(sm) PROVE FALSE
      BY <2>9 DEF RunStarts
    <3>1. x - 1 \in T
      BY <2>6, <2>9, <1>3
    <3> QED
      BY <3>1, <2>8, <2>9
  <2>11. PICK m \in 1 .. n : w[m][1] = x
    BY <2>4, <2>10
  <2>12. CASE m = i
    BY <2>5, <2>6, <2>9, <2>11, <2>12, <1>3
  <2>13. CASE m < i
    BY <2>5, <2>6, <2>9, <2>11, <2>13, <1>3, <1>4
  <2>14. CASE i < m
    BY <2>9, <2>11, <2>14, <1>3, <1>4
  <2> QED
    BY <2>12, <2>13, <2>14, <1>2
<1> QED
  BY MaxRAssumption, <1>2, <1>6, <1>7

(* From there on the pass touches only what it was asked for. *)
KeepInv ==
  /\ pc = "opened" => statusmap = before
  /\ written \subseteq work
  /\ pc # "idle" /\ mode = "resume" /\ RunsFit(before) =>
       /\ work \subseteq Unfinished(before)
       /\ \A l \in Sectors : before[l] = "GOOD" => statusmap[l] = "GOOD"

LEMMA KeepStep ==
  ASSUME Inv, HonestInv, KeepInv, [Next]_vars
  PROVE KeepInv'
<1> USE DEF KeepInv
<1>1. CASE OpenImage
  BY <1>1 DEF OpenImage
<1>2. CASE Plan
  <2>1. PICK w \in Worklist : Asked(w) /\ work' = Covered(w)
    BY <1>2 DEF Plan
  <2>2. pc' = "pass" /\ pc = "opened" /\ statusmap = before /\ UNCHANGED <<mode, statusmap, before, written>>
    BY <1>2 DEF Plan
  <2>3. mode = "resume" => IsResumeWorklist(w, before)
    BY <2>1, <2>2 DEF Asked
  <2>4. mode = "resume" /\ RunsFit(before) => work' \subseteq Unfinished(before)
    BY <2>1, <2>3, ResumeReadsUnfinished
  <2> QED
    BY <2>2, <2>4 DEF HonestInv
<1>3. CASE MarkSector
  <2>1. statusmap' = [l \in Sectors |-> IF l \in written THEN newmark ELSE statusmap[l]]
    BY <1>3 DEF MarkSector
  <2>2. pc = "pass" /\ pc' = "pass" /\ UNCHANGED <<mode, before, work>> /\ written' = {}
    BY <1>3 DEF MarkSector
  <2>3. ASSUME mode = "resume", RunsFit(before), NEW l \in Sectors, before[l] = "GOOD"
        PROVE statusmap'[l] = "GOOD"
    <3>1. l \notin written
      BY <2>2, <2>3 DEF Unfinished
    <3> QED
      BY <2>1, <2>2, <2>3, <3>1
  <2> QED
    BY <2>2, <2>3 DEF RunsFit
<1>4. CASE \/ WriteData \/ EndPass \/ InterruptBetween \/ Flush \/ WriteRun \/ MapWritten
           \/ UNCHANGED vars
  BY <1>4 DEF WriteData, EndPass, InterruptBetween, Flush, WriteRun, MapWritten, vars, files, memory
<1>5. CASE RangeError \/ write_badlist \/ Crash
  BY <1>5 DEF RangeError, write_badlist, Crash, Exit
<1> QED
  BY <1>1, <1>2, <1>3, <1>4, <1>5 DEF Next

LEMMA KeptInImage ==
  ASSUME Inv, HonestInv, KeepInv
  PROVE RecoveredKept
<1> SUFFICES ASSUME pc # "idle", mode = "resume", RunsFit(before),
                    NEW l \in Sectors \ harmed, before[l] = "GOOD"
             PROVE statusmap[l] = "GOOD" /\ cache[l] = l
  BY DEF RecoveredKept
<1>1. statusmap[l] = "GOOD" /\ l \notin written
  BY DEF KeepInv, Unfinished
<1>2. SectorInv(l)
  BY DEF HonestInv
<1> QED
  BY <1>1, <1>2 DEF SectorInv, Inv, TypeOK

(* A --resume pass that need not coalesce takes nothing back, for drives of  *)
(* any size, any MAXR and any number of passes: what the map it started from *)
(* calls good stays good in the status map and in the image, the case of     *)
(* exactly MAXR runs included.                                               *)
THEOREM ResumeKeeps == Spec => []RecoveredKept
<1>1. Init => HonestInv /\ KeepInv
  BY DEF Init, HonestInv, SectorInv, KeepInv
<1>2. Spec => []Inv
  BY InvInit, InvStep, PTL DEF Spec
<1>3. Inv /\ Inv' /\ MapRoundTrip /\ HonestInv /\ [Next]_vars => HonestInv'
  BY HonestStep
<1>4. Inv /\ HonestInv /\ KeepInv /\ [Next]_vars => KeepInv'
  BY KeepStep
<1>5. Inv /\ HonestInv /\ KeepInv => RecoveredKept
  BY KeptInImage
<1> QED
  BY <1>1, <1>2, <1>3, <1>4, <1>5, RoundTrip, PTL DEF Spec
=============================================================================
