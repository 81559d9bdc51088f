------------------------------ MODULE Coalesce ------------------------------
(***************************************************************************)
(* build_worklist of rx.py for --resume, loop by loop: scan the status map *)
(* for runs of unfinished sectors, then close gaps between runs, smallest  *)
(* first, until the worklist fits the MAXR ranges TX can hold.  A closed   *)
(* gap is read again although its sectors are GOOD.                        *)
(***************************************************************************)
EXTENDS Ranges

VARIABLES pc, statusmap, i, j, runs

vars == <<pc, statusmap, i, j, runs>>

Init ==
  /\ statusmap \in [Sectors -> Marks]
  /\ pc = "scan" /\ i = 0 /\ j = 0 /\ runs = <<>>

\* The test of both scanning loops.
Wanted(l) == l < Total /\ statusmap[l] \in {"BAD", "UNTRIED"}

\* The outer scan: skip a finished sector, or start a run.
ScanSkip ==
  /\ pc = "scan" /\ i < Total /\ ~Wanted(i)
  /\ i' = i + 1
  /\ UNCHANGED <<pc, statusmap, j, runs>>

ScanRun ==
  /\ pc = "scan" /\ i < Total /\ Wanted(i)
  /\ j' = i /\ pc' = "run"
  /\ UNCHANGED <<statusmap, i, runs>>

\* The inner scan: extend the run, or record it.
Extend ==
  /\ pc = "run" /\ Wanted(j)
  /\ j' = j + 1
  /\ UNCHANGED <<pc, statusmap, i, runs>>

Record ==
  /\ pc = "run" /\ ~Wanted(j)
  /\ runs' = Append(runs, <<i, j>>)
  /\ i' = j /\ pc' = "scan"
  /\ UNCHANGED <<statusmap, j>>

ScanEnd ==
  /\ pc = "scan" /\ i >= Total
  /\ pc' = "merge"
  /\ UNCHANGED <<statusmap, i, j, runs>>

Gap(w, k) == w[k + 1][1] - w[k][2]

\* Mutant of IsBest: the first gap is closed, not the smallest.
IsFirst(w, k) == k = 1

\* best_k: the first of the smallest gaps.
IsBest(w, k) ==
  \A m \in 1 .. Len(w) - 1 : IF m < k THEN Gap(w, k) < Gap(w, m) ELSE Gap(w, k) <= Gap(w, m)

\* Mutants of Merged: run number k is not extended; number k + 1 stays.
MergedShort(w, k) == [m \in 1 .. Len(w) - 1 |-> IF m <= k THEN w[m] ELSE w[m + 1]]

MergedKeeps(w, k) == [w EXCEPT ![k] = <<w[k][1], w[k + 1][2]>>]

\* The runs with number k extended over number k + 1, which is deleted.
Merged(w, k) ==
  [m \in 1 .. Len(w) - 1 |->
     IF m < k THEN w[m] ELSE IF m = k THEN <<w[k][1], w[k + 1][2]>> ELSE w[m + 1]]

Merge ==
  /\ pc = "merge" /\ Len(runs) > MaxR
  /\ \E k \in 1 .. Len(runs) - 1 : IsBest(runs, k) /\ runs' = Merged(runs, k)
  /\ UNCHANGED <<pc, statusmap, i, j>>

\* Mutant of Return: one range too many is let through.
ReturnEarly ==
  /\ pc = "merge" /\ Len(runs) <= MaxR + 1
  /\ pc' = "done"
  /\ UNCHANGED <<statusmap, i, j, runs>>

Return ==
  /\ pc = "merge" /\ Len(runs) <= MaxR
  /\ pc' = "done"
  /\ UNCHANGED <<statusmap, i, j, runs>>

Next ==
  \/ ScanSkip \/ ScanRun \/ Extend \/ Record \/ ScanEnd \/ Merge \/ Return
  \/ pc = "done" /\ UNCHANGED vars

Spec == Init /\ [][Next]_vars /\ WF_vars(Next)

---------------------------------------------------------------------------
(* Properties *)

TypeOK ==
  /\ pc \in {"scan", "run", "merge", "done"}
  /\ statusmap \in [Sectors -> Marks]
  /\ i \in 0 .. Total /\ j \in 0 .. Total
  /\ runs \in Seq(LbaRange)

\* The worklist sent is the one Imaging counts on: it fits, it leaves no
\* unfinished sector out, and finished sectors are in it only when the runs
\* would not fit (rx.py:351-353).
KeepsPromise == pc = "done" => IsResumeWorklist(runs, statusmap)

\* Finished sectors that reading worklist w reads again.
Reread(w) == Covered(w) \ Unfinished(statusmap)

\* Closing the smallest gaps first is the best choice (rx.py:371-379): no
\* worklist of at most MAXR ranges that leaves nothing out reads fewer finished
\* sectors again.
FewestReread ==
  pc = "done" =>
    \A w \in Worklist : Unfinished(statusmap) \subseteq Covered(w) =>
      Cardinality(Reread(runs)) <= Cardinality(Reread(w))

\* Both loops end for every map.
Terminates == <>(pc = "done")

\* The invariant of the loops (rx.py:357-379): the runs are in order, apart, and start and end on
\* unfinished sectors; nothing before i is missing; nothing finished is in them
\* until they have to be merged.
RunsApart ==
  /\ \A n \in DOMAIN runs : /\ runs[n][1] < runs[n][2]
                            /\ statusmap[runs[n][1]] # "GOOD"
                            /\ statusmap[runs[n][2] - 1] # "GOOD"
  /\ \A n, m \in DOMAIN runs : n < m => runs[n][2] < runs[m][1]

ScanPosition ==
  /\ pc = "scan" => \A n \in DOMAIN runs : /\ runs[n][2] <= i
                                           /\ runs[n][2] = i => ~Wanted(i)
  /\ pc = "run" => /\ \A n \in DOMAIN runs : runs[n][2] < i
                   /\ i <= j /\ \A l \in i .. j - 1 : Wanted(l)
                   /\ i = j => Wanted(j)

NothingMissing ==
  \A l \in Unfinished(statusmap) :
    l \in Covered(runs) \/ (pc \in {"scan", "run"} /\ l >= i)

ReadsAgainOnlyIfFull ==
  pc \in {"scan", "run"} \/ Len(runs) < MaxR => Covered(runs) \subseteq Unfinished(statusmap)

LoopInv ==
  /\ RunsApart /\ ScanPosition /\ NothingMissing /\ ReadsAgainOnlyIfFull
  /\ pc = "done" => Len(runs) <= MaxR
=============================================================================
