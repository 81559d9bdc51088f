------------------------------- MODULE Ranges -------------------------------
(***************************************************************************)
(* Worklists: sequences of half-open LBA ranges <<start, end>> the host    *)
(* sends in a CMD frame (rx.py) and the DOS side walks in order (main.c,   *)
(* tx.S, wr.S).  A status map gives every sector UNTRIED, GOOD or BAD.     *)
(***************************************************************************)
EXTENDS Integers, Sequences, FiniteSets

CONSTANTS Total,    \* sectors of the drive, announced in the INFO frame
          MaxR      \* MAXR: the ranges the DOS side can hold

ASSUME TotalAssumption == Total \in Nat
ASSUME MaxRAssumption == MaxR \in Nat \ {0}

Sectors == 0 .. Total - 1

\* The values of rx.py's status bytemap.
Marks == {"UNTRIED", "GOOD", "BAD"}

\* Ranges with their ends on the disk.  <<n, n>> is empty: a drive or an image
\* of no sectors yields the range (0, 0).
LbaRange == {r \in (0 .. Total) \X (0 .. Total) : r[1] <= r[2]}

Members(r) == r[1] .. r[2] - 1

Covered(w) == UNION {Members(w[i]) : i \in DOMAIN w}

Disjoint(w) ==
  \A i, j \in DOMAIN w : i # j => Members(w[i]) \cap Members(w[j]) = {}

\* What fits a CMD frame and the DOS side's range table.
Worklist == UNION {[1 .. n -> LbaRange] : n \in 0 .. MaxR}

\* build_worklist of a fresh run: the whole disk.
FreshWorklist == << <<0, Total>> >>

\* What parse_ranges_spec lets through: non-empty ranges on the disk, in any
\* order, overlapping or not, at most MaxR of them (none for "--range ,").
IsRangeSpec(w) == w \in Worklist /\ \A i \in DOMAIN w : w[i][1] < w[i][2]

Unfinished(sm) == {l \in Sectors : sm[l] # "GOOD"}

\* What build_worklist promises for --resume: at most MaxR separate ranges in
\* ascending order that cover every unfinished sector and start and end on one.
\* Finished sectors are covered only when runs had to be coalesced, which stops
\* at MaxR ranges.  Which gaps are closed is left open; module Coalesce follows
\* the loop itself and is shown to keep this promise.
IsResumeWorklist(w, sm) ==
  /\ w \in Worklist
  /\ \A i \in DOMAIN w : /\ w[i][1] < w[i][2]
                         /\ sm[w[i][1]] # "GOOD"
                         /\ sm[w[i][2] - 1] # "GOOD"
  /\ \A i, j \in DOMAIN w : i < j => w[i][2] < w[j][1]
  /\ Unfinished(sm) \subseteq Covered(w)
  /\ Len(w) < MaxR => Covered(w) \subseteq Unfinished(sm)
=============================================================================
