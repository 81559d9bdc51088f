------------------------------- MODULE Verify -------------------------------
(***************************************************************************)
(* The report of verify_image on an image of total sectors and its status  *)
(* map: the counts, the percentage, what the partition table says and how  *)
(* much of each partition was read, and the verdict.  An image is what the *)
(* report looks at in it: whether sector 0 has the MBR signature, the      *)
(* partition entries, and the sectors fs_label makes something of.  The    *)
(* lines printed become the records of report.                             *)
(***************************************************************************)
EXTENDS Integers, Sequences, FiniteSets

CONSTANTS MaxTotal,   \* bound: sectors of the image
          MaxLba,     \* bound: starts and sizes in the table
          Slots,      \* entries of the table, four in an MBR
          Scale       \* steps of the percentage: 10000, it has two decimals

ASSUME VerifyAssumption == /\ MaxTotal \in Nat /\ MaxLba \in Nat
                           /\ Slots \in Nat /\ Scale \in Nat \ {0}

Marks == {"UNTRIED", "GOOD", "BAD"}

\* parse_partitions: type 0 is an unused entry.
Entry == [used : {TRUE}, start : 0 .. MaxLba, size : 0 .. MaxLba]
           \cup {[used |-> FALSE, start |-> 0, size |-> 0]}

VARIABLES total, statusmap, signature, table, labels, \* the image and its map
          pc, i, report

vars == <<total, statusmap, signature, table, labels, pc, i, report>>
image == <<total, statusmap, signature, table, labels>>

Lbas == 0 .. total - 1
Count(S, mark) == Cardinality({l \in S : statusmap[l] = mark})

Init ==
  /\ total \in 0 .. MaxTotal
  /\ statusmap \in [Lbas -> Marks]
  /\ signature \in BOOLEAN
  /\ table \in [1 .. Slots -> Entry]
  /\ labels \in {{}, Lbas}
  /\ pc = "count" /\ i = 1 /\ report = <<>>

\* Whether fs_label finds a label in the sector.
fs_label(l) == l \in labels

Say(r) == report' = Append(report, r)

\* Mutant of Percent: rounded like any other number.
PercentRounded(good) ==
  IF total = 0 THEN 0 ELSE (2 * Scale * good + total) \div (2 * total)

\* In steps of 1/Scale.  All but a complete image stays below 100%.
Percent(good) ==
  IF total = 0 THEN 0
  ELSE IF good = total THEN Scale
  ELSE LET rounded == (2 * Scale * good + total) \div (2 * total)
       IN IF rounded < Scale THEN rounded ELSE Scale - 1

\* The counts; an image without sectors gets no more than those.
Summary ==
  /\ pc = "count"
  /\ Say([what |-> "sectors", good |-> Count(Lbas, "GOOD"), bad |-> Count(Lbas, "BAD"),
          untried |-> Count(Lbas, "UNTRIED"), percent |-> Percent(Count(Lbas, "GOOD"))])
  /\ pc' = IF total = 0 THEN "done" ELSE "mbr"
  /\ UNCHANGED <<image, i>>

ReadMbr ==
  /\ pc = "mbr"
  /\ Say([what |-> "mbr", found |-> signature, doubtful |-> statusmap[0] # "GOOD",
          label |-> ~signature /\ statusmap[0] = "GOOD" /\ fs_label(0)])
  /\ pc' = IF signature THEN "parts" ELSE "verdict"
  /\ UNCHANGED <<image, i>>

SkipEntry ==
  /\ pc = "parts" /\ i <= Slots /\ ~table[i].used
  /\ i' = i + 1
  /\ UNCHANGED <<image, pc, report>>

\* Mutant of _range_status: the range includes the sector it ends at.
_range_status_closed(start, end) == {l \in Lbas : start <= l /\ l <= end}

\* The sectors _range_status counts: those of [start, end) the image has.
_range_status(start, end) == {l \in Lbas : start <= l /\ l < end}

\* One partition: whether it extends past the image, how many of its sectors are
\* bad and untried ("all sectors good" when none is), and its label, when its
\* boot sector was captured cleanly.
Partition ==
  /\ pc = "parts" /\ i <= Slots /\ table[i].used
  /\ LET p == table[i]
         part == _range_status(p.start, p.start + p.size)
     IN Say([what |-> "partition", slot |-> i,
             past |-> p.start + p.size > total,
             bad |-> Count(part, "BAD"), untried |-> Count(part, "UNTRIED"),
             label |-> p.start < total /\ statusmap[p.start] = "GOOD" /\ fs_label(p.start)])
  /\ i' = i + 1
  /\ UNCHANGED <<image, pc>>

PartitionsDone ==
  /\ pc = "parts" /\ i > Slots /\ pc' = "verdict"
  /\ UNCHANGED <<image, i, report>>

Verdict ==
  /\ pc = "verdict" /\ pc' = "done"
  /\ Say([what |-> "verdict", complete |-> report[1].bad = 0 /\ report[1].untried = 0])
  /\ UNCHANGED <<image, i>>

Next == Summary \/ ReadMbr \/ SkipEntry \/ Partition \/ PartitionsDone \/ Verdict

Spec == Init /\ [][Next]_vars /\ WF_vars(Next)

---------------------------------------------------------------------------

Said(what) == {k \in DOMAIN report : report[k].what = what}

\* What the report says of a partition, read as a user reads it: a partition with
\* no bad or untried sector and no note that it extends past the image was read
\* completely, to its last sector; and the whole image is called complete only if
\* every partition inside it was.
PartitionsTruthful ==
  \A k \in Said("partition") :
    LET r == report[k]
        p == table[r.slot]
        whole == p.start .. p.start + p.size - 1
    IN /\ r.bad = 0 /\ r.untried = 0 /\ ~r.past =>
            \A l \in whole : l \in Lbas /\ statusmap[l] = "GOOD"
       /\ r.bad + r.untried =
            Cardinality({l \in whole : l \in Lbas /\ statusmap[l] # "GOOD"})
       /\ \A v \in Said("verdict") : report[v].complete => r.bad = 0 /\ r.untried = 0

\* verify_image prints 100% for a complete image and for no other ("never round
\* up to 100% here"), and its last line agrees with the percentage.
HundredMeansComplete ==
  \A k \in Said("sectors"), v \in Said("verdict") :
    (report[k].percent = Scale) <=> report[v].complete
=============================================================================
