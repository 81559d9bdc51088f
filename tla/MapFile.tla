------------------------------ MODULE MapFile ------------------------------
(***************************************************************************)
(* The map file of rx.py, in the format of GNU ddrescue, as the sequence   *)
(* of its lines without the comments.  A line is the tuple of its fields:  *)
(*                                                                         *)
(*   <<pos, char>>         the status line, of two fields                  *)
(*   <<pos, size, char>>   a region: bytes pos up to pos + size            *)
(*                                                                         *)
(* write_mapfile writes the runs of equal marks; load_mapfile marks the    *)
(* sectors of one line after the other, so the last line about a sector    *)
(* decides, and leaves the rest UNTRIED.                                   *)
(***************************************************************************)
EXTENDS Ranges

CONSTANT Bps     \* bytes per sector, announced in the INFO frame

ASSUME BpsAssumption == Bps \in Nat \ {0}

Chars == {"+", "-", "?"}

charmap(mark) == CASE mark = "GOOD" -> "+" [] mark = "BAD" -> "-" [] OTHER -> "?"

charval(ch) == CASE ch = "+" -> "GOOD" [] ch = "-" -> "BAD" [] OTHER -> "UNTRIED"

MapLine == (Nat \X Chars) \cup (Nat \X Nat \X Chars)

\* build_runs: where the run of equal marks that starts at sector i ends, and
\* the line written for it.
IsRunEnd(sm, i, j) ==
  /\ j \in i + 1 .. Total
  /\ \A k \in i .. j - 1 : sm[k] = sm[i]
  /\ j < Total => sm[j] # sm[i]

RunLine(sm, i, j) == << i * Bps, (j - i) * Bps, charmap(sm[i]) >>

\* Finished, "+", once every sector was tried.
StatusLine(sm) ==
  << Total * Bps, IF \E l \in Sectors : sm[l] = "UNTRIED" THEN "?" ELSE "+" >>

\* load_mapfile skips lines of fewer than three fields.
IsRegion(line) == Len(line) >= 3

\* Mutant of Region: a region includes the sector it ends at.
RegionClosed(line) == line[1] \div Bps .. (line[1] + line[2]) \div Bps

\* The sectors load_mapfile marks for a line, before it clamps them to the disk.
Region(line) == line[1] \div Bps .. (line[1] + line[2]) \div Bps - 1

About(lines, l) == {k \in DOMAIN lines : IsRegion(lines[k]) /\ l \in Region(lines[k])}

load_mapfile(lines) ==
  [l \in Sectors |->
     LET ks == About(lines, l)
     IN IF ks = {} THEN "UNTRIED"
        ELSE charval(lines[CHOOSE k \in ks : \A m \in ks : m <= k][3])]
=============================================================================
