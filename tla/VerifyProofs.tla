---------------------------- MODULE VerifyProofs ----------------------------
(***************************************************************************)
(* Proofs about Verify, for images and partition tables of every size: the *)
(* report of verify_image is true of the partitions and of the percentage. *)
(***************************************************************************)
EXTENDS Verify, SequenceTheorems, FiniteSetTheorems, TLAPS

---------------------------------------------------------------------------
(* The lines of the report *)

SummaryLine ==
  [what |-> "sectors", good |-> Count(Lbas, "GOOD"), bad |-> Count(Lbas, "BAD"),
   untried |-> Count(Lbas, "UNTRIED"), percent |-> Percent(Count(Lbas, "GOOD"))]

MbrLine ==
  [what |-> "mbr", found |-> signature, doubtful |-> statusmap[0] # "GOOD",
   label |-> ~signature /\ statusmap[0] = "GOOD" /\ fs_label(0)]

PartOf(s) == _range_status(table[s].start, table[s].start + table[s].size)

PartitionLine(s) ==
  [what |-> "partition", slot |-> s, past |-> table[s].start + table[s].size > total,
   bad |-> Count(PartOf(s), "BAD"), untried |-> Count(PartOf(s), "UNTRIED"),
   label |-> table[s].start < total /\ statusmap[table[s].start] = "GOOD"
               /\ fs_label(table[s].start)]

VerdictLine ==
  [what |-> "verdict", complete |-> SummaryLine.bad = 0 /\ SummaryLine.untried = 0]

Lines ==
  {SummaryLine} \cup (IF total = 0 THEN {} ELSE {MbrLine, VerdictLine})
    \cup {PartitionLine(s) : s \in 1 .. Slots}

\* The report so far: true lines, the counts first, then what sector 0 holds.
ReportInv ==
  /\ total \in Nat /\ statusmap \in [Lbas -> Marks] /\ table \in [1 .. Slots -> Entry]
  /\ pc \in {"count", "mbr", "parts", "verdict", "done"} /\ i \in Nat \ {0}
  /\ report \in Seq(Lines)
  /\ pc = "count" => report = <<>>
  /\ pc # "count" => Len(report) >= 1 /\ report[1] = SummaryLine
  /\ pc \in {"mbr", "parts", "verdict"} => total # 0
  /\ pc = "mbr" => Len(report) = 1
  /\ pc \in {"parts", "verdict"} \/ (pc = "done" /\ total # 0) =>
       Len(report) >= 2 /\ report[2] = MbrLine
  /\ pc = "done" /\ total = 0 => Len(report) = 1

LEMMA ReportInit == Init => ReportInv
BY EmptySeq, VerifyAssumption DEF Init, ReportInv

\* A line that is said comes after the others, which stay.
LEMMA SaidLast ==
  ASSUME NEW q \in Seq(Lines), NEW r \in Lines
  PROVE  /\ Append(q, r) \in Seq(Lines) /\ Len(Append(q, r)) = Len(q) + 1
         /\ Append(q, r)[Len(q) + 1] = r /\ Len(q) \in Nat
         /\ \A k \in 1 .. Len(q) : Append(q, r)[k] = q[k]
BY AppendProperties, LenProperties

\* The image does not change, and what its report should say does not either.
LEMMA ImageKept ==
  ASSUME UNCHANGED image
  PROVE  /\ SummaryLine' = SummaryLine /\ MbrLine' = MbrLine /\ Lines' = Lines
         /\ UNCHANGED <<total, statusmap, signature, table, labels, Lbas>>
<1>1. UNCHANGED <<total, statusmap, signature, table, labels>>
  BY DEF image
<1>2. Lbas' = Lbas
  BY <1>1 DEF Lbas
<1>4. SummaryLine' = SummaryLine
  BY <1>1, <1>2 DEF SummaryLine, Count, Percent
<1>5. MbrLine' = MbrLine
  BY <1>1 DEF MbrLine, fs_label
<1>6. VerdictLine' = VerdictLine
  BY <1>4 DEF VerdictLine
<1>7. \A s \in 1 .. Slots : PartitionLine(s)' = PartitionLine(s)
  BY <1>1, <1>2 DEF PartitionLine, PartOf, _range_status, Count, fs_label
<1> QED
  BY <1>1, <1>2, <1>4, <1>5, <1>6, <1>7 DEF Lines

LEMMA ReportStep == ReportInv /\ [Next]_vars => ReportInv'
<1> SUFFICES ASSUME ReportInv, [Next]_vars PROVE ReportInv'
  OBVIOUS
<1> USE DEF ReportInv
<1>1. UNCHANGED image
  BY DEF Next, Summary, ReadMbr, SkipEntry, Partition, PartitionsDone, Verdict, vars, image
<1>2. /\ SummaryLine' = SummaryLine /\ MbrLine' = MbrLine /\ Lines' = Lines
      /\ UNCHANGED <<total, statusmap, signature, table, labels, Lbas>>
  BY <1>1, ImageKept
<1>3. report \in Seq(Lines) /\ Len(report) \in Nat
  BY LenProperties
<1>4. CASE Summary
  <2>1. report = <<>> /\ report' = Append(report, SummaryLine)
    BY <1>4 DEF Summary, Say, SummaryLine
  <2>2. report' \in Seq(Lines) /\ Len(report') = 1 /\ report'[1] = SummaryLine
    BY <1>3, <2>1, SaidLast, EmptySeq DEF Lines
  <2> QED
    BY <1>2, <1>4, <2>2 DEF Summary
<1>5. CASE ReadMbr
  <2>1. report' = Append(report, MbrLine) /\ total # 0 /\ Len(report) = 1
    BY <1>5 DEF ReadMbr, Say, MbrLine
  <2>2. /\ report' \in Seq(Lines) /\ Len(report') = 2 /\ report'[2] = MbrLine
        /\ report'[1] = SummaryLine
    <3>1. MbrLine \in Lines /\ report[1] = SummaryLine
      BY <1>5, <2>1 DEF Lines, ReadMbr
    <3>2. /\ report' \in Seq(Lines) /\ Len(report') = Len(report) + 1
          /\ report'[Len(report) + 1] = MbrLine
          /\ \A k \in 1 .. Len(report) : report'[k] = report[k]
      BY <1>3, <2>1, <3>1, SaidLast
    <3>3. Len(report) + 1 = 2 /\ 1 \in 1 .. Len(report)
      BY <2>1
    <3> QED
      BY <3>1, <3>2, <3>3
  <2> QED
    BY <1>2, <1>5, <2>1, <2>2 DEF ReadMbr
<1>6. CASE SkipEntry
  BY <1>2, <1>6 DEF SkipEntry
<1>7. CASE Partition
  <2>1. i \in 1 .. Slots /\ pc = "parts" /\ pc' = "parts" /\ i' = i + 1
    BY <1>7, VerifyAssumption DEF Partition
  <2>2. report' = Append(report, PartitionLine(i))
    BY <1>7 DEF Partition, Say, PartitionLine, PartOf
  <2>3. PartitionLine(i) \in Lines
    BY <2>1 DEF Lines
  <2>4. /\ report' \in Seq(Lines) /\ Len(report') = Len(report) + 1
        /\ report'[2] = MbrLine /\ report'[1] = SummaryLine
    BY <1>3, <2>1, <2>2, <2>3, SaidLast
  <2> QED
    BY <1>2, <1>3, <2>1, <2>4
<1>8. CASE PartitionsDone
  BY <1>2, <1>8 DEF PartitionsDone
<1>9. CASE Verdict
  <2>1. pc = "verdict" /\ pc' = "done" /\ i' = i /\ report' = Append(report, VerdictLine)
    BY <1>9 DEF Verdict, Say, VerdictLine
  <2>2. VerdictLine \in Lines
    BY <2>1 DEF Lines
  <2>3. /\ report' \in Seq(Lines) /\ Len(report') = Len(report) + 1
        /\ report'[2] = MbrLine /\ report'[1] = SummaryLine
    BY <1>3, <2>1, <2>2, SaidLast
  <2> QED
    BY <1>2, <1>3, <2>1, <2>3
<1>10. CASE UNCHANGED vars
  BY <1>2, <1>10 DEF vars
<1> QED
  BY <1>4, <1>5, <1>6, <1>7, <1>8, <1>9, <1>10 DEF Next

\* The report is true so far, in every state of verify_image.
THEOREM ReportInvariant == Spec => []ReportInv
<1>1. Init => ReportInv
  BY ReportInit
<1>2. ReportInv /\ [Next]_vars => ReportInv'
  BY ReportStep
<1> QED
  BY <1>1, <1>2, PTL DEF Spec

---------------------------------------------------------------------------
(* Counting *)

\* The sectors of a part of the image with a mark.
With(S, m) == {l \in S : statusmap[l] = m}

LEMMA CountFacts ==
  ASSUME ReportInv, NEW S \in SUBSET Lbas
  PROVE  /\ IsFiniteSet(S)
         /\ \A m : /\ IsFiniteSet(With(S, m)) /\ Count(S, m) = Cardinality(With(S, m))
                   /\ Count(S, m) \in Nat /\ (Count(S, m) = 0 <=> With(S, m) = {})
<1>1. IsFiniteSet(Lbas)
  <2>1. 0 \in Int /\ total - 1 \in Int
    BY DEF ReportInv
  <2> QED
    BY <2>1, FS_Interval DEF Lbas
<1>2. IsFiniteSet(S) /\ \A m : IsFiniteSet(With(S, m))
  <2>1. \A m : With(S, m) \in SUBSET Lbas
    BY DEF With
  <2> QED
    BY <1>1, <2>1, FS_Subset
<1>3. \A m : Count(S, m) = Cardinality(With(S, m))
  BY DEF Count, With
<1> QED
  BY <1>2, <1>3, FS_CardinalityType, FS_EmptySet

\* Bad and untried sectors together are those that are not good.
LEMMA NotGoodCounted ==
  ASSUME ReportInv, NEW S \in SUBSET Lbas
  PROVE  Count(S, "BAD") + Count(S, "UNTRIED") = Cardinality({l \in S : statusmap[l] # "GOOD"})
<1>1. With(S, "BAD") \cap With(S, "UNTRIED") = {}
  BY DEF With
<1>2. With(S, "BAD") \cup With(S, "UNTRIED") = {l \in S : statusmap[l] # "GOOD"}
  BY DEF With, ReportInv, Marks
<1>3. /\ IsFiniteSet(With(S, "BAD")) /\ IsFiniteSet(With(S, "UNTRIED"))
      /\ Count(S, "BAD") = Cardinality(With(S, "BAD"))
      /\ Count(S, "UNTRIED") = Cardinality(With(S, "UNTRIED"))
      /\ Count(S, "BAD") \in Nat /\ Count(S, "UNTRIED") \in Nat
  BY CountFacts
<1>4. Cardinality(With(S, "BAD") \cup With(S, "UNTRIED")) =
        Cardinality(With(S, "BAD")) + Cardinality(With(S, "UNTRIED")) - Cardinality({})
  BY <1>1, <1>3, FS_Union
<1>5. Cardinality({}) = 0
  BY FS_EmptySet
<1>6. Cardinality(With(S, "BAD") \cup With(S, "UNTRIED")) = Count(S, "BAD") + Count(S, "UNTRIED")
  <2> DEFINE c == Cardinality(With(S, "BAD") \cup With(S, "UNTRIED"))
             b == Count(S, "BAD")
             u == Count(S, "UNTRIED")
  <2>1. b \in Nat /\ u \in Nat /\ c = b + u - 0
    BY <1>3, <1>4, <1>5
  <2> HIDE DEF c, b, u
  <2>2. c = b + u
    BY <2>1
  <2> QED
    BY <2>2 DEF c, b, u
<1> QED
  BY <1>2, <1>6

\* The three marks share the image out.
LEMMA AllCounted ==
  ASSUME ReportInv
  PROVE  Count(Lbas, "GOOD") = total <=> Count(Lbas, "BAD") = 0 /\ Count(Lbas, "UNTRIED") = 0
<1>1. /\ IsFiniteSet(Lbas) /\ \A m : Count(Lbas, m) \in Nat
      /\ Count(Lbas, "GOOD") = Cardinality(With(Lbas, "GOOD"))
  BY CountFacts
<1>2. Cardinality(Lbas) = total
  <2>1. 0 \in Int /\ total - 1 \in Int /\ total \in Nat
    BY DEF ReportInv
  <2>2. Cardinality(0 .. total - 1) = IF 0 > total - 1 THEN 0 ELSE (total - 1) - 0 + 1
    BY <2>1, FS_Interval
  <2> QED
    BY <2>1, <2>2 DEF Lbas
<1>3. Lbas \ With(Lbas, "GOOD") = {l \in Lbas : statusmap[l] # "GOOD"}
  BY DEF With
<1>4. Lbas \cap With(Lbas, "GOOD") = With(Lbas, "GOOD")
  BY DEF With
<1>5. Cardinality({l \in Lbas : statusmap[l] # "GOOD"}) = total - Count(Lbas, "GOOD")
  <2>1. Cardinality(Lbas \ With(Lbas, "GOOD"))
          = Cardinality(Lbas) - Cardinality(Lbas \cap With(Lbas, "GOOD"))
    BY <1>1, FS_Difference
  <2> QED
    BY <1>1, <1>2, <1>3, <1>4, <2>1
<1>6. Count(Lbas, "BAD") + Count(Lbas, "UNTRIED") = total - Count(Lbas, "GOOD")
  BY <1>5, NotGoodCounted
<1>7. total \in Nat
  BY DEF ReportInv
<1> DEFINE g == Count(Lbas, "GOOD")
           b == Count(Lbas, "BAD")
           u == Count(Lbas, "UNTRIED")
<1>8. g \in Nat /\ b \in Nat /\ u \in Nat /\ b + u = total - g
  BY <1>1, <1>6
<1> HIDE DEF g, b, u
<1>9. g = total <=> b = 0 /\ u = 0
  BY <1>7, <1>8
<1> QED
  BY <1>9 DEF g, b, u

\* Entries of the table start and end at numbers.
LEMMA EntryFacts ==
  ASSUME ReportInv, NEW s \in 1 .. Slots
  PROVE  table[s].start \in Nat /\ table[s].size \in Nat
<1>1. table[s] \in Entry
  BY DEF ReportInv
<1>2. CASE table[s] \in [used : {TRUE}, start : 0 .. MaxLba, size : 0 .. MaxLba]
  <2>1. table[s].start \in 0 .. MaxLba /\ table[s].size \in 0 .. MaxLba
    BY <1>2
  <2> QED
    BY <2>1, VerifyAssumption
<1>3. CASE table[s] = [used |-> FALSE, start |-> 0, size |-> 0]
  BY <1>3
<1> QED
  BY <1>1, <1>2, <1>3 DEF Entry

\* What the report's yes and no mean.
LEMMA Answers ==
  /\ VerdictLine.complete <=> Count(Lbas, "BAD") = 0 /\ Count(Lbas, "UNTRIED") = 0
  /\ \A s : PartitionLine(s).past <=> table[s].start + table[s].size > total
<1>2. SummaryLine.bad = Count(Lbas, "BAD") /\ SummaryLine.untried = Count(Lbas, "UNTRIED")
  BY DEF SummaryLine
<1>3. VerdictLine.complete <=> SummaryLine.bad = 0 /\ SummaryLine.untried = 0
  BY DEF VerdictLine
<1>4. ASSUME NEW s
      PROVE  PartitionLine(s).past <=> table[s].start + table[s].size > total
  BY DEF PartitionLine
<1> QED
  BY <1>2, <1>3, <1>4

\* A line of the report is what its kind should say.
LEMMA LineIs ==
  ASSUME ReportInv, NEW k \in DOMAIN report
  PROVE  /\ report[k].what = "sectors" => report[k] = SummaryLine
         /\ report[k].what = "mbr" => report[k] = MbrLine
         /\ report[k].what = "verdict" => report[k] = VerdictLine /\ total # 0
         /\ report[k].what = "partition" =>
              \E s \in 1 .. Slots : report[k] = PartitionLine(s)
<1>1. report[k] \in Lines
  BY ElementOfSeq, LenProperties DEF ReportInv
<1> QED
  BY <1>1 DEF Lines, SummaryLine, MbrLine, VerdictLine, PartitionLine

---------------------------------------------------------------------------
(* The theorems *)

\* A partition without bad or untried sectors that is not said to extend past the
\* image was read to its last sector; the two counts of a partition are the sectors
\* of it the image lacks; "complete" is said only when no partition has any.
THEOREM PartitionsAreTrue == Spec => []PartitionsTruthful
<1>1. ReportInv => PartitionsTruthful
  <2> SUFFICES ASSUME ReportInv, NEW k \in Said("partition")
               PROVE  LET r == report[k]
                          p == table[r.slot]
                          whole == p.start .. p.start + p.size - 1
                      IN /\ r.bad = 0 /\ r.untried = 0 /\ ~r.past =>
                              \A l \in whole : l \in Lbas /\ statusmap[l] = "GOOD"
                         /\ r.bad + r.untried =
                              Cardinality({l \in whole : l \in Lbas /\ statusmap[l] # "GOOD"})
                         /\ \A v \in Said("verdict") :
                              report[v].complete => r.bad = 0 /\ r.untried = 0
    BY DEF PartitionsTruthful
  <2> DEFINE r == report[k]
             p == table[r.slot]
             whole == p.start .. p.start + p.size - 1
  <2>1. PICK s \in 1 .. Slots : r = PartitionLine(s)
    BY LineIs DEF Said
  <2>2. /\ r.slot = s /\ r.bad = Count(PartOf(s), "BAD") /\ r.untried = Count(PartOf(s), "UNTRIED")
        /\ p = table[s]
    BY <2>1 DEF PartitionLine
  <2>3. p.start \in Nat /\ p.size \in Nat /\ total \in Nat
    BY <2>2, EntryFacts DEF ReportInv
  <2>4. PartOf(s) \in SUBSET Lbas /\ PartOf(s) = {l \in whole : l \in Lbas}
    BY <2>2, <2>3 DEF PartOf, _range_status, Lbas
  <2>5. {l \in PartOf(s) : statusmap[l] # "GOOD"} = {l \in whole : l \in Lbas /\ statusmap[l] # "GOOD"}
    BY <2>4
  <2>6. r.bad + r.untried = Cardinality({l \in whole : l \in Lbas /\ statusmap[l] # "GOOD"})
    BY <2>2, <2>4, <2>5, NotGoodCounted
  <2>7. ASSUME r.bad = 0, r.untried = 0, ~r.past, NEW l \in whole
        PROVE  l \in Lbas /\ statusmap[l] = "GOOD"
    <3>1. ~(p.start + p.size > total)
      BY <2>1, <2>2, <2>7, Answers
    <3>2. l \in Lbas
      BY <2>3, <2>7, <3>1 DEF Lbas
    <3>3. With(PartOf(s), "BAD") = {} /\ With(PartOf(s), "UNTRIED") = {}
      BY <2>2, <2>4, <2>7, CountFacts
    <3> QED
      BY <2>4, <2>7, <3>2, <3>3 DEF With, ReportInv, Marks
  <2>8. ASSUME NEW v \in Said("verdict"), report[v].complete
        PROVE  r.bad = 0 /\ r.untried = 0
    <3>1. report[v] = VerdictLine
      BY LineIs DEF Said
    <3>2. Count(Lbas, "BAD") = 0 /\ Count(Lbas, "UNTRIED") = 0
      BY <2>8, <3>1, Answers
    <3>3. With(Lbas, "BAD") = {} /\ With(Lbas, "UNTRIED") = {}
      BY <3>2, CountFacts
    <3>4. With(PartOf(s), "BAD") = {} /\ With(PartOf(s), "UNTRIED") = {}
      BY <2>4, <3>3 DEF With
    <3> QED
      BY <2>2, <2>4, <3>4, CountFacts
  <2> QED
    BY <2>6, <2>7, <2>8
<1> QED
  BY <1>1, ReportInvariant, PTL

\* verify_image prints 100% exactly when its last line says that the image is
\* complete, whatever the percentage would round to.
THEOREM HundredIsComplete == Spec => []HundredMeansComplete
<1>1. ReportInv => HundredMeansComplete
  <2> SUFFICES ASSUME ReportInv, NEW k \in Said("sectors"), NEW v \in Said("verdict")
               PROVE  (report[k].percent = Scale) <=> report[v].complete
    BY DEF HundredMeansComplete
  <2>1. report[k] = SummaryLine /\ report[v] = VerdictLine /\ total # 0
    BY LineIs DEF Said
  <2> DEFINE g == Count(Lbas, "GOOD")
  <2>2. report[k].percent = Percent(g)
    BY <2>1 DEF SummaryLine
  <2>3. report[v].complete <=> Count(Lbas, "BAD") = 0 /\ Count(Lbas, "UNTRIED") = 0
    BY <2>1, Answers
  <2>4. g \in Nat /\ total \in Nat \ {0} /\ Scale \in Nat \ {0}
    BY <2>1, CountFacts, VerifyAssumption DEF ReportInv
  <2>5. Percent(g) = Scale <=> g = total
    <3> DEFINE rounded == (2 * Scale * g + total) \div (2 * total)
    <3>1. rounded \in Int
      <4>1. 2 * Scale * g + total \in Int /\ 2 * total \in Int /\ 2 * total > 0
        BY <2>4
      <4> QED
        BY <4>1
    <3>2. g # total => Percent(g) = IF rounded < Scale THEN rounded ELSE Scale - 1
      BY <2>1 DEF Percent
    <3>3. g = total => Percent(g) = Scale
      BY <2>1 DEF Percent
    <3> HIDE DEF rounded, g
    <3> QED
      BY <2>4, <3>1, <3>2, <3>3
  <2> QED
    BY <2>2, <2>3, <2>5, AllCounted
<1> QED
  BY <1>1, ReportInvariant, PTL
=============================================================================
