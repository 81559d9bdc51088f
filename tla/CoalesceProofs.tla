--------------------------- MODULE CoalesceProofs ---------------------------
(***************************************************************************)
(* build_worklist keeps its promise for every map, disk size and MAXR.     *)
(***************************************************************************)
EXTENDS Coalesce, SequenceTheorems, FiniteSetTheorems, WellFoundedInduction, TLAPS

\* A sector is covered when it lies in one of the ranges.
LEMMA CoveredIff ==
  ASSUME NEW w \in Seq(LbaRange), NEW l \in Int
  PROVE  l \in Covered(w) <=> \E n \in 1 .. Len(w) : w[n][1] <= l /\ l < w[n][2]
<1>1. \A n \in 1 .. Len(w) : w[n][1] \in Int /\ w[n][2] \in Int
  BY ElementOfSeq, TotalAssumption DEF LbaRange
<1>2. DOMAIN w = 1 .. Len(w)
  BY LenProperties
<1>3. \A n \in 1 .. Len(w) : l \in Members(w[n]) <=> w[n][1] <= l /\ l < w[n][2]
  BY <1>1 DEF Members
<1> QED
  BY <1>2, <1>3 DEF Covered

\* The runs of the scan and the ends of them are on the disk.
LEMMA RunEnds ==
  ASSUME TypeOK
  PROVE  /\ Len(runs) \in Nat /\ DOMAIN runs = 1 .. Len(runs)
         /\ \A n \in 1 .. Len(runs) : /\ runs[n] \in LbaRange
                                      /\ runs[n][1] \in 0 .. Total
                                      /\ runs[n][2] \in 0 .. Total
<1>1. \A n \in 1 .. Len(runs) : runs[n] \in LbaRange
  BY ElementOfSeq DEF TypeOK
<1> QED
  BY <1>1, LenProperties DEF TypeOK, LbaRange

\* Only sectors of the disk can be covered.
LEMMA CoveredOnDisk ==
  ASSUME NEW w \in Seq(LbaRange)
  PROVE  Covered(w) \subseteq Sectors
<1>1. \A n \in 1 .. Len(w) : w[n] \in LbaRange
  BY ElementOfSeq
<1> QED
  BY <1>1, LenProperties, TotalAssumption DEF Covered, Members, LbaRange, Sectors

\* What is not wanted on the disk is finished.
LEMMA WantedIff ==
  ASSUME TypeOK, NEW l \in Sectors
  PROVE  Wanted(l) <=> l \in Unfinished(statusmap)
BY TotalAssumption DEF TypeOK, Wanted, Unfinished, Marks, Sectors

\* The types are kept, by the merge too.
LEMMA MergedType ==
  ASSUME TypeOK, RunsApart, NEW k \in 1 .. Len(runs) - 1
  PROVE  /\ Merged(runs, k) \in Seq(LbaRange)
         /\ Len(Merged(runs, k)) = Len(runs) - 1
         /\ \A m \in 1 .. Len(runs) - 1 : Merged(runs, k)[m] =
              IF m < k THEN runs[m]
              ELSE IF m = k THEN <<runs[k][1], runs[k + 1][2]>> ELSE runs[m + 1]
<1>1. /\ Len(runs) \in Nat /\ DOMAIN runs = 1 .. Len(runs)
      /\ \A n \in 1 .. Len(runs) : /\ runs[n] \in LbaRange
                                   /\ runs[n][1] \in 0 .. Total
                                   /\ runs[n][2] \in 0 .. Total
  BY RunEnds
<1>2. k \in 1 .. Len(runs) /\ k + 1 \in 1 .. Len(runs) /\ k < k + 1
  BY <1>1
<1>3. runs[k][1] <= runs[k + 1][2]
  <2>1. /\ runs[k][1] \in Int /\ runs[k][2] \in Int
        /\ runs[k + 1][1] \in Int /\ runs[k + 1][2] \in Int
    BY <1>1, <1>2, TotalAssumption
  <2>2. /\ runs[k][1] < runs[k][2] /\ runs[k][2] < runs[k + 1][1]
        /\ runs[k + 1][1] < runs[k + 1][2]
    BY <1>1, <1>2 DEF RunsApart
  <2> QED
    BY <2>1, <2>2
<1>4. <<runs[k][1], runs[k + 1][2]>> \in LbaRange
  BY <1>1, <1>2, <1>3 DEF LbaRange
<1>5. \A m \in 1 .. Len(runs) - 1 : (IF m < k THEN runs[m]
        ELSE IF m = k THEN <<runs[k][1], runs[k + 1][2]>> ELSE runs[m + 1]) \in LbaRange
  BY <1>1, <1>4
<1>6. Merged(runs, k) \in [1 .. Len(runs) - 1 -> LbaRange]
  BY <1>5 DEF Merged
<1>7. Len(runs) - 1 \in Nat
  BY <1>1, <1>2
<1>8. Merged(runs, k) \in Seq(LbaRange) /\ Len(Merged(runs, k)) = Len(runs) - 1
  BY <1>6, <1>7
<1> QED
  BY <1>8 DEF Merged

LEMMA TypeInit == Init => TypeOK
BY EmptySeq, TotalAssumption DEF Init, TypeOK

\* A merge keeps the runs in order and covers at least what they did.
LEMMA MergedFacts ==
  ASSUME TypeOK, RunsApart, NEW k \in 1 .. Len(runs) - 1
  PROVE  LET w == Merged(runs, k)
         IN  /\ \A n \in DOMAIN w : /\ w[n][1] < w[n][2]
                                    /\ statusmap[w[n][1]] # "GOOD"
                                    /\ statusmap[w[n][2] - 1] # "GOOD"
             /\ \A n, m \in DOMAIN w : n < m => w[n][2] < w[m][1]
             /\ Covered(runs) \subseteq Covered(w)
<1> DEFINE w == Merged(runs, k)
<1>1. /\ Len(runs) \in Nat /\ DOMAIN runs = 1 .. Len(runs)
      /\ \A n \in 1 .. Len(runs) : /\ runs[n] \in LbaRange
                                   /\ runs[n][1] \in 0 .. Total
                                   /\ runs[n][2] \in 0 .. Total
  BY RunEnds
<1>2. /\ w \in Seq(LbaRange) /\ Len(w) = Len(runs) - 1 /\ DOMAIN w = 1 .. Len(runs) - 1
      /\ \A m \in 1 .. Len(runs) - 1 : w[m] =
           IF m < k THEN runs[m]
           ELSE IF m = k THEN <<runs[k][1], runs[k + 1][2]>> ELSE runs[m + 1]
  BY MergedType, LenProperties
<1>3. \A m \in 1 .. Len(runs) - 1 :
        /\ w[m][1] = (IF m <= k THEN runs[m][1] ELSE runs[m + 1][1])
        /\ w[m][2] = (IF m < k THEN runs[m][2] ELSE runs[m + 1][2])
  BY <1>1, <1>2, SMTT(30)
<1> HIDE DEF w
<1>4. \A n \in 1 .. Len(runs) : /\ runs[n][1] \in Int /\ runs[n][2] \in Int
                                /\ runs[n][1] < runs[n][2]
                                /\ statusmap[runs[n][1]] # "GOOD"
                                /\ statusmap[runs[n][2] - 1] # "GOOD"
  BY <1>1, TotalAssumption DEF RunsApart
<1>5. \A n, m \in 1 .. Len(runs) : n < m => runs[n][2] < runs[m][1]
  BY <1>1 DEF RunsApart
<1>6. ASSUME NEW n \in 1 .. Len(runs) - 1
      PROVE  /\ w[n][1] < w[n][2]
             /\ statusmap[w[n][1]] # "GOOD"
             /\ statusmap[w[n][2] - 1] # "GOOD"
  <2>1. n \in 1 .. Len(runs) /\ n + 1 \in 1 .. Len(runs) /\ n < n + 1
    BY <1>1
  <2>2. /\ runs[n][1] < runs[n][2] /\ runs[n][2] < runs[n + 1][1]
        /\ runs[n + 1][1] < runs[n + 1][2]
    BY <1>4, <1>5, <2>1
  <2>3. runs[n][1] < runs[n + 1][2]
    BY <1>4, <2>1, <2>2
  <2>4. /\ n \in Int /\ k \in Int
        /\ w[n][1] = (IF n <= k THEN runs[n][1] ELSE runs[n + 1][1])
        /\ w[n][2] = (IF n < k THEN runs[n][2] ELSE runs[n + 1][2])
    BY <1>3
  <2>5. CASE n < k
    <3>1. w[n][1] = runs[n][1] /\ w[n][2] = runs[n][2]
      BY <2>4, <2>5
    <3> QED
      BY <1>4, <2>1, <3>1
  <2>6. CASE n = k
    <3>1. w[n][1] = runs[n][1] /\ w[n][2] = runs[n + 1][2]
      BY <2>4, <2>6
    <3> QED
      BY <1>4, <2>1, <2>3, <3>1
  <2>7. CASE n > k
    <3>1. w[n][1] = runs[n + 1][1] /\ w[n][2] = runs[n + 1][2]
      BY <2>4, <2>7
    <3> QED
      BY <1>4, <2>1, <3>1
  <2> QED
    BY <2>4, <2>5, <2>6, <2>7
<1>7. ASSUME NEW n \in 1 .. Len(runs) - 1, NEW m \in 1 .. Len(runs) - 1, n < m
      PROVE  w[n][2] < w[m][1]
  <2>1. /\ n \in 1 .. Len(runs) /\ n + 1 \in 1 .. Len(runs)
        /\ m \in 1 .. Len(runs) /\ m + 1 \in 1 .. Len(runs)
    BY <1>1
  <2>2. CASE m <= k
    <3>1. w[n][2] = runs[n][2] /\ w[m][1] = runs[m][1]
      BY <1>1, <1>3, <1>7, <2>2
    <3> QED
      BY <1>5, <1>7, <2>1, <3>1
  <2>3. CASE k < m
    <3>1. w[m][1] = runs[m + 1][1] /\ w[n][2] \in {runs[n][2], runs[n + 1][2]}
      BY <1>1, <1>3, <2>3
    <3>2. n < m + 1 /\ n + 1 < m + 1
      BY <1>1, <1>7
    <3> QED
      BY <1>5, <2>1, <3>1, <3>2
  <2> QED
    BY <1>1, <2>2, <2>3
<1>8. ASSUME NEW l \in Covered(runs) PROVE l \in Covered(w)
  <2>1. l \in Int
    BY <1>8, CoveredOnDisk, TotalAssumption DEF TypeOK, Sectors
  <2>2. PICK n \in 1 .. Len(runs) : runs[n][1] <= l /\ l < runs[n][2]
    BY <1>8, <2>1, CoveredIff DEF TypeOK
  <2>3. CASE n <= k
    <3>1. n \in 1 .. Len(runs) - 1
      BY <1>1, <2>3
    <3>2. w[n][1] <= l /\ l < w[n][2]
      <4>1. n + 1 \in 1 .. Len(runs) /\ n < n + 1
        BY <1>1, <3>1
      <4>2. runs[n][2] < runs[n + 1][1] /\ runs[n + 1][1] < runs[n + 1][2]
        BY <1>4, <1>5, <4>1
      <4>3. runs[n][2] < runs[n + 1][2]
        BY <1>4, <4>1, <4>2
      <4>4. l < runs[n + 1][2]
        BY <1>4, <2>1, <2>2, <4>1, <4>3
      <4> QED
        BY <1>3, <2>2, <2>3, <3>1, <4>4
    <3> QED
      BY <1>2, <2>1, <3>1, <3>2, CoveredIff
  <2>4. CASE n > k
    <3>1. n - 1 \in 1 .. Len(runs) - 1
      BY <1>1, <2>4
    <3>2. w[n - 1][1] <= l /\ l < w[n - 1][2]
      <4>1. n - 1 \in 1 .. Len(runs) /\ n - 1 < n /\ n - 1 + 1 = n
        BY <1>1, <3>1
      <4>2. runs[n - 1][1] < runs[n - 1][2] /\ runs[n - 1][2] < runs[n][1]
        BY <1>4, <1>5, <4>1
      <4>3. runs[n - 1][1] < runs[n][1]
        BY <1>4, <4>1, <4>2
      <4>4. runs[n - 1][1] <= l
        BY <1>4, <2>1, <2>2, <4>1, <4>3
      <4>5. w[n - 1][1] \in {runs[n - 1][1], runs[n][1]} /\ w[n - 1][2] = runs[n][2]
        BY <1>1, <1>3, <2>4, <3>1, <4>1
      <4> QED
        BY <2>2, <4>4, <4>5
    <3> QED
      BY <1>2, <2>1, <3>1, <3>2, CoveredIff
  <2> QED
    BY <1>1, <2>3, <2>4
<1> QED
  BY <1>2, <1>6, <1>7, <1>8 DEF w

\* The loops keep the types and the loop invariant.
LEMMA LoopInductive == TypeOK /\ LoopInv /\ [Next]_vars => TypeOK' /\ LoopInv'
<1> SUFFICES ASSUME TypeOK, LoopInv, [Next]_vars PROVE TypeOK' /\ LoopInv'
  OBVIOUS
<1>1. /\ Len(runs) \in Nat /\ DOMAIN runs = 1 .. Len(runs)
      /\ \A n \in 1 .. Len(runs) : /\ runs[n] \in LbaRange
                                   /\ runs[n][1] \in 0 .. Total
                                   /\ runs[n][2] \in 0 .. Total
  BY RunEnds
<1>2. i \in 0 .. Total /\ j \in 0 .. Total /\ Total \in Nat
  BY TotalAssumption DEF TypeOK
<1>3. CASE ScanSkip
  <2>1. i \in Sectors /\ i \notin Unfinished(statusmap)
    BY <1>2, <1>3, WantedIff DEF ScanSkip, Sectors
  <2>2. TypeOK'
    BY <1>2, <1>3 DEF ScanSkip, TypeOK
  <2>3. RunsApart'
    BY <1>3 DEF ScanSkip, LoopInv, RunsApart
  <2>4. ScanPosition'
    BY <1>1, <1>2, <1>3 DEF ScanSkip, LoopInv, ScanPosition
  <2>5. NothingMissing'
    <3> SUFFICES ASSUME NEW l \in Unfinished(statusmap), l < i'
                 PROVE  l \in Covered(runs)
      BY <1>2, <1>3 DEF ScanSkip, NothingMissing, Unfinished, Sectors
    <3>1. l < i
      BY <1>2, <1>3, <2>1 DEF ScanSkip, Unfinished, Sectors
    <3> QED
      BY <1>2, <3>1 DEF LoopInv, NothingMissing, Unfinished, Sectors
  <2>6. ReadsAgainOnlyIfFull'
    BY <1>3 DEF ScanSkip, LoopInv, ReadsAgainOnlyIfFull
  <2> QED
    BY <1>3, <2>2, <2>3, <2>4, <2>5, <2>6 DEF ScanSkip, LoopInv
<1>4. CASE ScanRun
  <2>1. TypeOK'
    BY <1>4 DEF ScanRun, TypeOK
  <2>2. RunsApart' /\ NothingMissing' /\ ReadsAgainOnlyIfFull'
    BY <1>4 DEF ScanRun, LoopInv, RunsApart, NothingMissing, ReadsAgainOnlyIfFull
  <2>3. ScanPosition'
    <3>1. \A n \in DOMAIN runs : runs[n][2] < i
      BY <1>1, <1>2, <1>4 DEF ScanRun, LoopInv, ScanPosition
    <3>2. i .. i - 1 = {}
      BY <1>2
    <3> QED
      BY <1>2, <1>4, <3>1, <3>2 DEF ScanRun, ScanPosition, Wanted
  <2> QED
    BY <1>4, <2>1, <2>2, <2>3 DEF ScanRun, LoopInv
<1>5. CASE Extend
  <2>1. TypeOK'
    BY <1>2, <1>5 DEF Extend, TypeOK, Wanted
  <2>2. RunsApart' /\ NothingMissing' /\ ReadsAgainOnlyIfFull'
    BY <1>5 DEF Extend, LoopInv, RunsApart, NothingMissing, ReadsAgainOnlyIfFull
  <2>3. ScanPosition'
    <3>1. \A l \in i .. j' - 1 : Wanted(l)
      BY <1>2, <1>5 DEF Extend, LoopInv, ScanPosition
    <3> QED
      BY <1>1, <1>2, <1>5, <3>1 DEF Extend, LoopInv, ScanPosition, Wanted
  <2> QED
    BY <1>5, <2>1, <2>2, <2>3 DEF Extend, LoopInv
<1>6. CASE Record
  <2> DEFINE last == Len(runs) + 1
  <2>1. i < j /\ ~Wanted(j)
    BY <1>2, <1>6 DEF Record, LoopInv, ScanPosition
  <2>2. \A l \in i .. j - 1 : l \in Sectors /\ l \in Unfinished(statusmap)
    BY <1>2, <1>6, WantedIff DEF Record, LoopInv, ScanPosition, Sectors
  <2>3. <<i, j>> \in LbaRange
    BY <1>2, <2>1 DEF LbaRange
  <2>4. /\ runs' \in Seq(LbaRange) /\ Len(runs') = last /\ DOMAIN runs' = 1 .. last
        /\ \A n \in 1 .. Len(runs) : runs'[n] = runs[n]
        /\ runs'[last] = <<i, j>>
    BY <1>6, <2>3, AppendProperties, LenProperties DEF Record, TypeOK
  <2>5. TypeOK'
    BY <1>6, <2>4 DEF Record, TypeOK
  <2>6. \A n \in 1 .. Len(runs) : runs[n][2] < i
    BY <1>1, <1>6 DEF Record, LoopInv, ScanPosition
  <2>7. RunsApart'
    <3>1. statusmap[i] # "GOOD" /\ statusmap[j - 1] # "GOOD"
      BY <1>2, <2>1, <2>2 DEF Unfinished
    <3>2. ASSUME NEW n \in 1 .. last
          PROVE  /\ runs'[n][1] < runs'[n][2]
                 /\ statusmap[runs'[n][1]] # "GOOD"
                 /\ statusmap[runs'[n][2] - 1] # "GOOD"
      <4>1. CASE n = last
        BY <2>1, <2>4, <3>1, <4>1
      <4>2. CASE n # last
        <5>1. n \in 1 .. Len(runs)
          BY <1>1, <4>2
        <5> QED
          BY <1>1, <2>4, <5>1 DEF LoopInv, RunsApart
      <4> QED
        BY <4>1, <4>2
    <3>3. ASSUME NEW n \in 1 .. last, NEW m \in 1 .. last, n < m
          PROVE  runs'[n][2] < runs'[m][1]
      <4>1. n \in 1 .. Len(runs)
        BY <1>1, <3>3
      <4>2. CASE m = last
        BY <2>4, <2>6, <4>1, <4>2
      <4>3. CASE m # last
        <5>1. m \in 1 .. Len(runs)
          BY <1>1, <4>3
        <5> QED
          BY <1>1, <2>4, <3>3, <4>1, <5>1 DEF LoopInv, RunsApart
      <4> QED
        BY <4>2, <4>3
    <3>4. statusmap' = statusmap
      BY <1>6 DEF Record
    <3> QED
      BY <2>4, <3>2, <3>3, <3>4 DEF RunsApart
  <2>8. ScanPosition'
    <3>1. pc' = "scan" /\ i' = j /\ statusmap' = statusmap
      BY <1>6 DEF Record
    <3>2. ASSUME NEW n \in 1 .. last PROVE runs'[n][2] <= j
      <4>1. CASE n = last
        BY <1>2, <2>4, <4>1
      <4>2. CASE n # last
        <5>1. n \in 1 .. Len(runs)
          BY <1>1, <4>2
        <5> QED
          BY <1>1, <1>2, <2>1, <2>4, <2>6, <5>1
      <4> QED
        BY <4>1, <4>2
    <3> QED
      BY <2>1, <2>4, <3>1, <3>2 DEF ScanPosition, Wanted
  <2>9. ASSUME NEW l \in Int
        PROVE  l \in Covered(runs') <=> l \in Covered(runs) \/ (i <= l /\ l < j)
    <3>1. l \in Covered(runs') <=> \E n \in 1 .. last : runs'[n][1] <= l /\ l < runs'[n][2]
      BY <2>4, CoveredIff
    <3>2. l \in Covered(runs) <=> \E n \in 1 .. Len(runs) : runs[n][1] <= l /\ l < runs[n][2]
      BY CoveredIff DEF TypeOK
    <3>3. 1 .. last = 1 .. Len(runs) \cup {last}
      BY <1>1
    <3> QED
      BY <2>4, <3>1, <3>2, <3>3
  <2>10. NothingMissing'
    <3> SUFFICES ASSUME NEW l \in Unfinished(statusmap), l < j
                 PROVE  l \in Covered(runs')
      BY <1>2, <1>6 DEF Record, NothingMissing, Unfinished, Sectors
    <3>1. l \in Int
      BY DEF Unfinished, Sectors
    <3>2. CASE l < i
      BY <1>2, <2>9, <3>1, <3>2 DEF LoopInv, NothingMissing
    <3>3. CASE l >= i
      BY <1>2, <2>9, <3>1, <3>3
    <3> QED
      BY <1>2, <3>1, <3>2, <3>3
  <2>11. ReadsAgainOnlyIfFull'
    <3>1. Covered(runs) \subseteq Unfinished(statusmap)
      BY <1>6 DEF Record, LoopInv, ReadsAgainOnlyIfFull
    <3>2. ASSUME NEW l \in Covered(runs') PROVE l \in Unfinished(statusmap)
      <4>1. l \in Int
        BY <2>4, <3>2, CoveredOnDisk DEF Sectors
      <4> QED
        BY <1>2, <2>2, <2>9, <3>1, <3>2, <4>1
    <3> QED
      BY <1>6, <3>2 DEF Record, ReadsAgainOnlyIfFull
  <2> QED
    BY <1>6, <2>5, <2>7, <2>8, <2>10, <2>11 DEF Record, LoopInv
<1>7. CASE ScanEnd
  <2>1. TypeOK'
    BY <1>7 DEF ScanEnd, TypeOK
  <2>2. RunsApart' /\ ReadsAgainOnlyIfFull' /\ ScanPosition'
    BY <1>7 DEF ScanEnd, LoopInv, RunsApart, ReadsAgainOnlyIfFull, ScanPosition
  <2>3. NothingMissing'
    BY <1>2, <1>7 DEF ScanEnd, LoopInv, NothingMissing, Unfinished, Sectors
  <2> QED
    BY <1>7, <2>1, <2>2, <2>3 DEF ScanEnd, LoopInv
<1>8. CASE Merge
  <2>1. PICK k \in 1 .. Len(runs) - 1 : runs' = Merged(runs, k)
    BY <1>8 DEF Merge
  <2>2. RunsApart
    BY DEF LoopInv
  <2>3. runs' \in Seq(LbaRange) /\ Len(runs') = Len(runs) - 1
    BY <2>1, <2>2, MergedType
  <2>4. TypeOK'
    BY <1>8, <2>3 DEF Merge, TypeOK
  <2>5. RunsApart' /\ Covered(runs) \subseteq Covered(runs')
    BY <1>8, <2>1, <2>2, MergedFacts DEF Merge, RunsApart
  <2>6. ScanPosition'
    BY <1>8 DEF Merge, ScanPosition
  <2>7. NothingMissing'
    BY <1>8, <2>5 DEF Merge, LoopInv, NothingMissing
  <2>8. ~(Len(runs') < MaxR)
    BY <1>1, <1>8, <2>3, MaxRAssumption DEF Merge
  <2>9. ReadsAgainOnlyIfFull'
    BY <1>8, <2>8 DEF Merge, ReadsAgainOnlyIfFull
  <2> QED
    BY <1>8, <2>4, <2>5, <2>6, <2>7, <2>9 DEF Merge, LoopInv
<1>9. CASE Return
  <2>1. TypeOK'
    BY <1>9 DEF Return, TypeOK
  <2>2. RunsApart' /\ ScanPosition' /\ NothingMissing' /\ ReadsAgainOnlyIfFull'
    BY <1>9 DEF Return, LoopInv, RunsApart, ScanPosition, NothingMissing, ReadsAgainOnlyIfFull
  <2> QED
    BY <1>9, <2>1, <2>2 DEF Return, LoopInv
<1>10. CASE UNCHANGED vars
  BY <1>10 DEF vars, TypeOK, LoopInv, RunsApart, ScanPosition, NothingMissing,
               ReadsAgainOnlyIfFull, Wanted
<1> QED
  BY <1>3, <1>4, <1>5, <1>6, <1>7, <1>8, <1>9, <1>10 DEF Next

\* The worklist is in order, complete, and no wider than it has to be at every
\* point of the loops.
THEOREM LoopInvariant == Spec => [](TypeOK /\ LoopInv)
<1>1. Init => TypeOK /\ LoopInv
  <2> SUFFICES ASSUME Init PROVE TypeOK /\ LoopInv
    OBVIOUS
  <2>1. TypeOK
    BY TypeInit
  <2>2. runs = <<>> /\ DOMAIN runs = {} /\ pc = "scan" /\ i = 0
    BY DEF Init
  <2>3. Covered(runs) = {}
    BY <2>2 DEF Covered
  <2> QED
    BY <2>1, <2>2, <2>3 DEF LoopInv, RunsApart, ScanPosition, NothingMissing,
       ReadsAgainOnlyIfFull, Unfinished, Sectors
<1> QED
  BY <1>1, LoopInductive, PTL DEF Spec

\* The runs of build_worklist are ranges of the disk, and its loops never look
\* past total.
THEOREM TypeCorrect == Spec => []TypeOK
BY LoopInvariant, PTL

\* build_worklist keeps the promise Imaging is built on, for every map, every
\* disk size and every MAXR.
THEOREM PromiseKept == Spec => []KeepsPromise
<1>1. TypeOK /\ LoopInv => KeepsPromise
  <2> SUFFICES ASSUME TypeOK, LoopInv, pc = "done"
               PROVE  IsResumeWorklist(runs, statusmap)
    BY DEF KeepsPromise
  <2>1. Len(runs) \in 0 .. MaxR /\ runs \in [1 .. Len(runs) -> LbaRange]
    BY LenProperties, MaxRAssumption DEF TypeOK, LoopInv
  <2>2. runs \in Worklist
    BY <2>1 DEF Worklist
  <2>3. Unfinished(statusmap) \subseteq Covered(runs)
    BY DEF LoopInv, NothingMissing
  <2>4. Len(runs) < MaxR => Covered(runs) \subseteq Unfinished(statusmap)
    BY DEF LoopInv, ReadsAgainOnlyIfFull
  <2> QED
    BY <2>2, <2>3, <2>4 DEF IsResumeWorklist, LoopInv, RunsApart
<1> QED
  BY <1>1, LoopInvariant, PTL

---------------------------------------------------------------------------
(* Closing the smallest gap first reads the fewest finished sectors again.   *)
(* The loop's invariant: no set of sectors that leaves nothing out and has    *)
(* no more pieces than there are runs is smaller than what the runs cover.   *)
(* To keep it through a merge, take such a set with one piece less.  Two     *)
(* runs start in the same piece of it, so it holds a gap between runs;       *)
(* without that gap it has one piece more, and the invariant applies.        *)

(* Where the pieces of a set of sectors start. *)
StartsOf(c) == {l \in c : l - 1 \notin c}

Fewest ==
  pc \in {"merge", "done"} =>
    \A c \in SUBSET Sectors :
      Unfinished(statusmap) \subseteq c /\ Cardinality(StartsOf(c)) <= Len(runs) =>
        Cardinality(Covered(runs)) <= Cardinality(c)

LEMMA LeastNat ==
  ASSUME NEW T \in SUBSET Nat, T # {}
  PROVE \E x \in T : \A y \in T : x <= y
<1> DEFINE R == OpToRel(<, Nat)
<1>1. IsWellFoundedOn(R, Nat)
  BY NatLessThanWellFounded
<1> HIDE DEF R
<1>2. PICK x \in T : \A y \in T : <<y, x>> \notin R
  BY <1>1, WFMin
<1>3. ASSUME NEW y \in T PROVE x <= y
  <2>1. <<y, x>> \notin R
    BY <1>2
  <2> QED
    BY <2>1 DEF R, OpToRel
<1> QED
  BY <1>3

(* Sets of sectors are finite, and their sizes add up. *)
LEMMA SectorsFinite ==
  ASSUME NEW c \in SUBSET Sectors
  PROVE IsFiniteSet(c) /\ Cardinality(c) \in Nat
<1>1. IsFiniteSet(Sectors)
  BY TotalAssumption, FS_Interval DEF Sectors
<1>2. IsFiniteSet(c)
  BY <1>1, FS_Subset
<1> QED
  BY <1>2, FS_CardinalityType

LEMMA SizeOfUnion ==
  ASSUME NEW a \in SUBSET Sectors, NEW b \in SUBSET Sectors, a \cap b = {}
  PROVE Cardinality(a \cup b) = Cardinality(a) + Cardinality(b)
<1>1. IsFiniteSet(a) /\ IsFiniteSet(b) /\ Cardinality(a) \in Nat /\ Cardinality(b) \in Nat
  BY SectorsFinite
<1>2. Cardinality(a \cup b) = Cardinality(a) + Cardinality(b) - Cardinality(a \cap b)
  BY <1>1, FS_Union
<1>3. Cardinality(a \cap b) = 0
  BY FS_EmptySet
<1> QED
  BY <1>1, <1>2, <1>3

LEMMA SizeOfSubset ==
  ASSUME NEW b \in SUBSET Sectors, NEW a \in SUBSET b
  PROVE Cardinality(a) <= Cardinality(b)
<1>1. IsFiniteSet(b)
  BY SectorsFinite
<1> QED
  BY <1>1, FS_Subset

(* Every sector of a set lies in a piece that starts somewhere. *)
LEMMA PieceStarts ==
  ASSUME NEW c \in SUBSET Sectors, NEW x \in c
  PROVE \E s \in StartsOf(c) : s <= x /\ s .. x \subseteq c
<1>1. x \in Nat /\ c \subseteq Nat
  BY TotalAssumption DEF Sectors
<1> DEFINE T == {d \in Nat : x - d \notin c}
<1>2. x + 1 \in T
  BY <1>1
<1>3. PICK d \in T : \A e \in T : d <= e
  BY <1>2, LeastNat
<1>4. d \in Nat /\ d # 0 /\ x - d \notin c
  BY <1>1, <1>3
<1>5. PICK s \in Int : s = x - d + 1
  BY <1>1, <1>4
<1>6. s <= x /\ s - 1 = x - d
  BY <1>1, <1>4, <1>5
<1>7. ASSUME NEW y \in s .. x PROVE y \in c
  <2>1. x - y \in Nat /\ x - y < d /\ x - (x - y) = y
    BY <1>1, <1>4, <1>5
  <2> QED
    BY <1>3, <1>4, <2>1
<1>8. s \in c
  BY <1>1, <1>6, <1>7
<1> QED
  BY <1>4, <1>6, <1>7, <1>8 DEF StartsOf

(* The gap between two runs; a merge covers it and nothing else. *)
GapAt(k) == runs[k][2] .. runs[k + 1][1] - 1

LEMMA GapFacts ==
  ASSUME TypeOK, RunsApart, NEW k \in 1 .. Len(runs) - 1
  PROVE /\ GapAt(k) \in SUBSET Sectors
        /\ GapAt(k) \cap Covered(runs) = {}
        /\ Cardinality(GapAt(k)) = Gap(runs, k)
        /\ Gap(runs, k) \in Nat
<1>1. /\ Len(runs) \in Nat /\ DOMAIN runs = 1 .. Len(runs)
      /\ \A n \in 1 .. Len(runs) : /\ runs[n] \in LbaRange
                                   /\ runs[n][1] \in 0 .. Total
                                   /\ runs[n][2] \in 0 .. Total
  BY RunEnds
<1>2. k \in 1 .. Len(runs) /\ k + 1 \in 1 .. Len(runs) /\ k < k + 1
  BY <1>1
<1>3. \A n \in 1 .. Len(runs) : runs[n][1] \in Int /\ runs[n][2] \in Int /\ runs[n][1] < runs[n][2]
  BY <1>1, TotalAssumption DEF RunsApart
<1>4. \A n, m \in 1 .. Len(runs) : n < m => runs[n][2] < runs[m][1]
  BY <1>1 DEF RunsApart
<1>5. PICK a \in Nat, b \in Nat : a = runs[k][2] /\ b = runs[k + 1][1]
  BY <1>1, <1>2, TotalAssumption
<1>6. a < b /\ b <= Total /\ GapAt(k) = a .. b - 1 /\ Gap(runs, k) = b - a
  BY <1>1, <1>2, <1>4, <1>5, TotalAssumption DEF GapAt, Gap
<1>7. GapAt(k) \in SUBSET Sectors
  BY <1>6, TotalAssumption DEF Sectors
<1>8. ASSUME NEW l \in GapAt(k), l \in Covered(runs) PROVE FALSE
  <2>1. l \in Int /\ a <= l /\ l < b
    BY <1>6
  <2>2. PICK n \in 1 .. Len(runs) : runs[n][1] <= l /\ l < runs[n][2]
    BY <1>8, <2>1, CoveredIff DEF TypeOK
  <2>3. CASE n <= k
    <3>1. n = k \/ n < k
      BY <2>3, <1>1
    <3>2. runs[n][2] <= a
      <4>1. CASE n = k
        BY <1>5, <4>1
      <4>2. CASE n < k
        <5>1. runs[n][2] < runs[k][1] /\ runs[k][1] < runs[k][2]
          BY <1>2, <1>3, <1>4, <4>2
        <5> QED
          BY <1>2, <1>3, <1>5, <5>1, SMTT(30)
      <4> QED
        BY <3>1, <4>1, <4>2
    <3> QED
      BY <1>3, <2>1, <2>2, <3>2
  <2>4. CASE n >= k + 1
    <3>1. n = k + 1 \/ k + 1 < n
      BY <2>4, <1>1
    <3>2. b <= runs[n][1]
      <4>1. CASE n = k + 1
        BY <1>5, <4>1
      <4>2. CASE k + 1 < n
        <5>1. runs[k + 1][1] < runs[k + 1][2] /\ runs[k + 1][2] < runs[n][1]
          BY <1>2, <1>3, <1>4, <4>2
        <5> QED
          BY <1>2, <1>3, <1>5, <5>1, SMTT(30)
      <4> QED
        BY <3>1, <4>1, <4>2
    <3> QED
      BY <1>3, <2>1, <2>2, <3>2
  <2> QED
    BY <1>1, <2>3, <2>4
<1>9. Cardinality(a .. b - 1) = b - a
  BY <1>6, FS_Interval
<1> QED
  BY <1>6, <1>7, <1>8, <1>9

LEMMA MergedCovers ==
  ASSUME TypeOK, RunsApart, NEW k \in 1 .. Len(runs) - 1
  PROVE Covered(Merged(runs, k)) \subseteq Covered(runs) \cup GapAt(k)
<1>1. /\ Len(runs) \in Nat /\ DOMAIN runs = 1 .. Len(runs)
      /\ \A n \in 1 .. Len(runs) : /\ runs[n] \in LbaRange
                                   /\ runs[n][1] \in 0 .. Total
                                   /\ runs[n][2] \in 0 .. Total
  BY RunEnds
<1>2. PICK w : w = Merged(runs, k)
  OBVIOUS
<1>3. /\ w \in Seq(LbaRange) /\ Len(w) = Len(runs) - 1
      /\ \A m \in 1 .. Len(runs) - 1 :
           /\ w[m][1] = (IF m <= k THEN runs[m][1] ELSE runs[m + 1][1])
           /\ w[m][2] = (IF m < k THEN runs[m][2] ELSE runs[m + 1][2])
  <2>1. /\ w \in Seq(LbaRange) /\ Len(w) = Len(runs) - 1
        /\ \A m \in 1 .. Len(runs) - 1 : w[m] =
             IF m < k THEN runs[m]
             ELSE IF m = k THEN <<runs[k][1], runs[k + 1][2]>> ELSE runs[m + 1]
    BY <1>2, MergedType
  <2> QED
    BY <1>1, <2>1, SMTT(30)
<1> SUFFICES ASSUME NEW l \in Covered(w), l \notin GapAt(k) PROVE l \in Covered(runs)
  BY <1>2
<1>4. l \in Int
  BY <1>3, CoveredOnDisk DEF Sectors
<1>5. PICK m \in 1 .. Len(runs) - 1 : w[m][1] <= l /\ l < w[m][2]
  BY <1>3, <1>4, CoveredIff
<1>6. m \in 1 .. Len(runs) /\ m + 1 \in 1 .. Len(runs)
  BY <1>1
<1>7. \E n \in 1 .. Len(runs) : runs[n][1] <= l /\ l < runs[n][2]
  <2>1. CASE m < k
    BY <1>3, <1>5, <1>6, <2>1
  <2>2. CASE m > k
    BY <1>3, <1>5, <1>6, <2>2
  <2>3. CASE m = k
    <3>1. runs[k][1] <= l /\ l < runs[k + 1][2]
      BY <1>3, <1>5, <2>3
    <3>2. l < runs[k][2] \/ runs[k + 1][1] <= l
      BY <1>1, <1>4, <1>6, <2>3, TotalAssumption DEF GapAt
    <3> QED
      BY <1>6, <2>3, <3>1, <3>2
  <2> QED
    BY <1>1, <2>1, <2>2, <2>3
<1> QED
  BY <1>4, <1>7, CoveredIff DEF TypeOK

(* A set with fewer pieces than there are runs holds a gap between runs. *)
LEMMA HoldsGap ==
  ASSUME TypeOK, RunsApart, Unfinished(statusmap) \subseteq Covered(runs),
         NEW c \in SUBSET Sectors, Unfinished(statusmap) \subseteq c,
         Cardinality(StartsOf(c)) < Len(runs)
  PROVE \E k \in 1 .. Len(runs) - 1 : GapAt(k) \subseteq c
<1>1. /\ Len(runs) \in Nat /\ DOMAIN runs = 1 .. Len(runs)
      /\ \A n \in 1 .. Len(runs) : /\ runs[n] \in LbaRange
                                   /\ runs[n][1] \in 0 .. Total
                                   /\ runs[n][2] \in 0 .. Total
  BY RunEnds
<1>2. \A n \in 1 .. Len(runs) : runs[n][1] \in Int /\ runs[n][2] \in Int /\ runs[n][1] < runs[n][2]
  BY <1>1, TotalAssumption DEF RunsApart
<1>3. \A n, m \in 1 .. Len(runs) : n < m => runs[n][2] < runs[m][1]
  BY <1>1 DEF RunsApart
<1>4. ASSUME NEW n \in 1 .. Len(runs) PROVE runs[n][1] \in c
  <2>1. runs[n][1] \in Sectors
    BY <1>1, <1>2, TotalAssumption DEF Sectors
  <2>2. runs[n][1] \in Unfinished(statusmap)
    BY <1>1, <2>1 DEF RunsApart, Unfinished
  <2> QED
    BY <2>2
<1> DEFINE Piece(n, s) == s <= runs[n][1] /\ s .. runs[n][1] \subseteq c
           start == [n \in 1 .. Len(runs) |-> CHOOSE s \in StartsOf(c) : Piece(n, s)]
<1>5. ASSUME NEW n \in 1 .. Len(runs) PROVE start[n] \in StartsOf(c) /\ Piece(n, start[n])
  <2>1. \E s \in StartsOf(c) : Piece(n, s)
    BY <1>4, PieceStarts
  <2> QED
    BY <2>1
<1>6. start \in [1 .. Len(runs) -> StartsOf(c)]
  BY <1>5
<1>7. IsFiniteSet(1 .. Len(runs)) /\ Cardinality(1 .. Len(runs)) = Len(runs)
  <2>1. IsFiniteSet(1 .. Len(runs))
    BY <1>1, FS_Interval
  <2>2. Cardinality(1 .. Len(runs)) = IF 1 > Len(runs) THEN 0 ELSE Len(runs) - 1 + 1
    BY <1>1, FS_Interval, SMTT(30)
  <2> QED
    BY <1>1, <2>1, <2>2
<1>8. StartsOf(c) \in SUBSET Sectors
  BY DEF StartsOf
<1>9. IsFiniteSet(StartsOf(c))
  BY <1>8, SectorsFinite
<1>10. \E x, y \in 1 .. Len(runs) : x # y /\ start[x] = start[y]
  <2> HIDE DEF start
  <2> QED
    BY <1>6, <1>7, <1>9, FS_PigeonHole
<1>11. PICK x \in 1 .. Len(runs), y \in 1 .. Len(runs) : x < y /\ start[x] = start[y]
  <2>1. PICK a \in 1 .. Len(runs), b \in 1 .. Len(runs) : a # b /\ start[a] = start[b]
    BY <1>10
  <2> HIDE DEF start
  <2>2. a < b \/ b < a
    BY <1>1, <2>1
  <2> QED
    BY <2>1, <2>2
<1>12. PICK s : s = start[x]
  OBVIOUS
<1>13. s \in Sectors /\ s <= runs[x][1] /\ s .. runs[y][1] \subseteq c
  <2>1. s \in StartsOf(c) /\ Piece(x, s)
    BY <1>5, <1>12
  <2>2. Piece(y, s)
    BY <1>5, <1>11, <1>12
  <2> QED
    BY <1>8, <2>1, <2>2
<1>14. x \in 1 .. Len(runs) - 1 /\ x + 1 \in 1 .. Len(runs)
  BY <1>1, <1>11
<1>15. runs[x][1] < runs[x][2] /\ runs[x + 1][1] <= runs[y][1]
  <2>1. CASE y = x + 1
    BY <1>2, <1>14, <2>1
  <2>2. CASE x + 1 < y
    <3>1. runs[x + 1][1] < runs[x + 1][2] /\ runs[x + 1][2] < runs[y][1]
      BY <1>2, <1>3, <1>14, <2>2
    <3> QED
      BY <1>2, <1>14, <3>1, SMTT(30)
  <2> QED
    BY <1>1, <1>2, <1>11, <2>1, <2>2
<1>16. ASSUME NEW l \in GapAt(x) PROVE l \in s .. runs[y][1]
  <2>1. l \in Int /\ runs[x][2] <= l /\ l < runs[x + 1][1]
    BY <1>2, <1>14 DEF GapAt
  <2>2. s \in Int
    BY <1>13 DEF Sectors
  <2> QED
    BY <1>2, <1>13, <1>14, <1>15, <2>1, <2>2, SMTT(30)
<1> QED
  BY <1>13, <1>14, <1>16

(* Without the gap it has at most one piece more. *)
LEMMA SplitAtGap ==
  ASSUME TypeOK, RunsApart, NEW k \in 1 .. Len(runs) - 1, NEW c \in SUBSET Sectors
  PROVE Cardinality(StartsOf(c \ GapAt(k))) <= Cardinality(StartsOf(c)) + 1
<1>1. PICK a \in Int, b \in Int : a = runs[k][2] /\ b = runs[k + 1][1]
  <2>1. k \in 1 .. Len(runs) /\ k + 1 \in 1 .. Len(runs)
    BY RunEnds
  <2> QED
    BY <2>1, RunEnds, TotalAssumption
<1>2. GapAt(k) = a .. b - 1
  BY <1>1 DEF GapAt
<1>3. StartsOf(c \ GapAt(k)) \subseteq StartsOf(c) \cup {b}
  <2> SUFFICES ASSUME NEW l \in StartsOf(c \ GapAt(k)), l \notin StartsOf(c) PROVE l = b
    OBVIOUS
  <2>1. l \in Int /\ l \in c /\ l \notin a .. b - 1 /\ l - 1 \in c /\ l - 1 \in a .. b - 1
    BY <1>2 DEF StartsOf, Sectors
  <2> QED
    BY <1>1, <2>1, SMTT(30)
<1>4. StartsOf(c) \in SUBSET Sectors
  BY DEF StartsOf
<1>5. IsFiniteSet(StartsOf(c)) /\ Cardinality(StartsOf(c)) \in Nat
  BY <1>4, SectorsFinite
<1>6. /\ IsFiniteSet(StartsOf(c) \cup {b})
      /\ Cardinality(StartsOf(c) \cup {b}) <= Cardinality(StartsOf(c)) + 1
  <2>1. PICK st : st = StartsOf(c)
    OBVIOUS
  <2>2. IsFiniteSet(st) /\ Cardinality(st) \in Nat
    BY <1>5, <2>1
  <2>3. /\ IsFiniteSet(st \cup {b})
        /\ Cardinality(st \cup {b}) = IF b \in st THEN Cardinality(st) ELSE Cardinality(st) + 1
    BY <2>2, FS_AddElement
  <2>4. Cardinality(st \cup {b}) <= Cardinality(st) + 1
    BY <2>2, <2>3
  <2> QED
    BY <2>1, <2>3, <2>4
<1>7. Cardinality(StartsOf(c \ GapAt(k))) <= Cardinality(StartsOf(c) \cup {b})
  BY <1>3, <1>6, FS_Subset
<1>8. /\ Cardinality(StartsOf(c) \cup {b}) \in Nat
      /\ Cardinality(StartsOf(c \ GapAt(k))) \in Nat
  <2>1. StartsOf(c \ GapAt(k)) \in SUBSET Sectors
    BY DEF StartsOf
  <2> QED
    BY <1>6, <2>1, SectorsFinite, FS_CardinalityType
<1> QED
  BY <1>5, <1>6, <1>7, <1>8

LEMMA MergeFewest ==
  ASSUME TypeOK, LoopInv, Fewest, Merge
  PROVE Fewest'
<1>1. pc = "merge" /\ statusmap' = statusmap /\ RunsApart /\ Len(runs) \in Nat
  BY RunEnds DEF Merge, LoopInv
<1>2. PICK k \in 1 .. Len(runs) - 1 : IsBest(runs, k) /\ runs' = Merged(runs, k)
  BY DEF Merge
<1>3. Len(runs') = Len(runs) - 1
  BY <1>1, <1>2, MergedType
<1>4. Unfinished(statusmap) \subseteq Covered(runs)
  BY <1>1 DEF LoopInv, NothingMissing
<1>5. Covered(runs) \in SUBSET Sectors
  BY CoveredOnDisk DEF TypeOK
<1>6. Cardinality(Covered(runs')) <= Cardinality(Covered(runs)) + Gap(runs, k)
  <2>1. /\ GapAt(k) \in SUBSET Sectors /\ GapAt(k) \cap Covered(runs) = {}
        /\ Cardinality(GapAt(k)) = Gap(runs, k)
    BY <1>1, GapFacts
  <2>2. Cardinality(Covered(runs) \cup GapAt(k)) = Cardinality(Covered(runs)) + Gap(runs, k)
    BY <1>5, <2>1, SizeOfUnion
  <2>3. Covered(runs') \subseteq Covered(runs) \cup GapAt(k)
    BY <1>1, <1>2, MergedCovers
  <2>4. Covered(runs) \cup GapAt(k) \in SUBSET Sectors
    BY <1>5, <2>1
  <2> QED
    BY <2>2, <2>3, <2>4, SizeOfSubset
<1> SUFFICES ASSUME NEW c \in SUBSET Sectors, Unfinished(statusmap) \subseteq c,
                    Cardinality(StartsOf(c)) <= Len(runs) - 1
             PROVE Cardinality(Covered(runs')) <= Cardinality(c)
  BY <1>1, <1>3 DEF Fewest
<1>7. Cardinality(StartsOf(c)) \in Nat
  <2>1. StartsOf(c) \in SUBSET Sectors
    BY DEF StartsOf
  <2> QED
    BY <2>1, SectorsFinite
<1>8. PICK m \in 1 .. Len(runs) - 1 : GapAt(m) \subseteq c
  BY <1>1, <1>4, <1>7, HoldsGap
<1>9. /\ GapAt(m) \in SUBSET Sectors /\ GapAt(m) \cap Covered(runs) = {}
      /\ Cardinality(GapAt(m)) = Gap(runs, m) /\ Gap(runs, m) \in Nat /\ Gap(runs, k) \in Nat
  BY <1>1, GapFacts
<1>10. Gap(runs, k) <= Gap(runs, m)
  BY <1>2, <1>9 DEF IsBest
<1> DEFINE rest == c \ GapAt(m)
<1>11. Unfinished(statusmap) \subseteq rest /\ rest \in SUBSET Sectors
  BY <1>4, <1>9
<1>12. Cardinality(StartsOf(rest)) <= Len(runs)
  <2>1. Cardinality(StartsOf(rest)) <= Cardinality(StartsOf(c)) + 1
    BY <1>1, SplitAtGap
  <2>2. StartsOf(rest) \in SUBSET Sectors
    BY DEF StartsOf
  <2>3. Cardinality(StartsOf(rest)) \in Nat
    BY <2>2, SectorsFinite
  <2> QED
    BY <1>1, <1>7, <2>1, <2>3
<1>13. Cardinality(Covered(runs)) <= Cardinality(rest)
  BY <1>1, <1>11, <1>12 DEF Fewest
<1>14. Cardinality(c) = Cardinality(rest) + Gap(runs, m)
  <2>1. rest \cup GapAt(m) = c /\ rest \cap GapAt(m) = {}
    BY <1>8
  <2>2. Cardinality(rest \cup GapAt(m)) = Cardinality(rest) + Cardinality(GapAt(m))
    BY <1>9, <1>11, <2>1, SizeOfUnion
  <2> QED
    BY <1>9, <2>1, <2>2
<1>15. Cardinality(c) \in Nat /\ Cardinality(rest) \in Nat /\ Cardinality(Covered(runs)) \in Nat
  BY <1>5, <1>11, SectorsFinite
<1>16. Cardinality(Covered(runs')) \in Nat
  <2>1. Covered(runs') \in SUBSET Sectors
    BY <1>1, <1>2, MergedType, CoveredOnDisk
  <2> QED
    BY <2>1, SectorsFinite
<1> HIDE DEF rest
<1> QED
  BY <1>6, <1>9, <1>10, <1>13, <1>14, <1>15, <1>16

LEMMA FewestStep ==
  ASSUME TypeOK, LoopInv, Fewest, [Next]_vars
  PROVE Fewest'
<1>1. CASE ScanEnd
  <2>1. Covered(runs) \subseteq Unfinished(statusmap) /\ UNCHANGED <<runs, statusmap>>
    BY <1>1 DEF ScanEnd, LoopInv, ReadsAgainOnlyIfFull
  <2>2. ASSUME NEW c \in SUBSET Sectors, Unfinished(statusmap) \subseteq c
        PROVE Cardinality(Covered(runs)) <= Cardinality(c)
    BY <2>1, <2>2, SizeOfSubset
  <2> QED
    BY <2>1, <2>2 DEF Fewest
<1>2. CASE Merge
  BY <1>2, MergeFewest
<1>3. CASE Return \/ UNCHANGED vars
  BY <1>3 DEF Return, vars, Fewest
<1>4. CASE ScanSkip \/ ScanRun \/ Extend \/ Record
  BY <1>4 DEF ScanSkip, ScanRun, Extend, Record, Fewest
<1> QED
  BY <1>1, <1>2, <1>3, <1>4 DEF Next

(* Ranges have no more pieces than there are of them. *)
LEMMA PiecesOfWorklist ==
  ASSUME NEW n \in Nat, NEW w \in [1 .. n -> LbaRange]
  PROVE Cardinality(StartsOf(Covered(w))) <= n
<1>1. w \in Seq(LbaRange) /\ Len(w) = n
  OBVIOUS
<1>2. \A m \in 1 .. n : w[m] \in LbaRange /\ w[m][1] \in Int /\ w[m][2] \in Int
  BY TotalAssumption DEF LbaRange
<1>3. ASSUME NEW s \in StartsOf(Covered(w)) PROVE \E m \in 1 .. n : w[m][1] = s
  <2>1. s \in Covered(w) /\ s - 1 \notin Covered(w) /\ s \in Int
    BY <1>1, CoveredOnDisk DEF StartsOf, Sectors
  <2>2. PICK m \in 1 .. n : w[m][1] <= s /\ s < w[m][2]
    BY <1>1, <2>1, CoveredIff
  <2>3. ~(w[m][1] <= s - 1 /\ s - 1 < w[m][2])
    BY <1>1, <2>1, CoveredIff
  <2> QED
    BY <1>2, <2>1, <2>2, <2>3
<1> DEFINE at == [s \in StartsOf(Covered(w)) |-> CHOOSE m \in 1 .. n : w[m][1] = s]
<1>4. ASSUME NEW s \in StartsOf(Covered(w)) PROVE at[s] \in 1 .. n /\ w[at[s]][1] = s
  BY <1>3
<1>5. at \in [StartsOf(Covered(w)) -> 1 .. n]
  BY <1>4
<1> HIDE DEF at
<1>6. at \in Injection(StartsOf(Covered(w)), 1 .. n)
  BY <1>4, <1>5 DEF Injection, IsInjective
<1>7. IsFiniteSet(1 .. n) /\ Cardinality(1 .. n) = n
  BY FS_Interval
<1> QED
  BY <1>6, <1>7, FS_Injection

LEMMA FewestIsLeast ==
  ASSUME TypeOK, LoopInv, Fewest
  PROVE FewestReread
<1> SUFFICES ASSUME pc = "done", NEW w \in Worklist, Unfinished(statusmap) \subseteq Covered(w)
             PROVE Cardinality(Reread(runs)) <= Cardinality(Reread(w))
  BY DEF FewestReread
<1> DEFINE U == Unfinished(statusmap)
<1>1. PICK n \in 0 .. MaxR : w \in [1 .. n -> LbaRange]
  BY DEF Worklist
<1>2. n \in Nat /\ n <= MaxR /\ w \in Seq(LbaRange) /\ MaxR \in Nat
  BY <1>1, MaxRAssumption
<1>3. U \subseteq Covered(runs) /\ Len(runs) \in Nat /\ Len(runs) <= MaxR
  BY RunEnds DEF LoopInv, NothingMissing
<1>4. Covered(w) \in SUBSET Sectors /\ Covered(runs) \in SUBSET Sectors /\ U \in SUBSET Sectors
  BY <1>2, CoveredOnDisk DEF TypeOK, Unfinished
<1>5. ASSUME NEW c \in SUBSET Sectors, U \subseteq c
      PROVE Cardinality(c) = Cardinality(c \ U) + Cardinality(U)
  <2>1. (c \ U) \cup U = c /\ (c \ U) \cap U = {} /\ c \ U \in SUBSET Sectors
    BY <1>5
  <2> HIDE DEF U
  <2> QED
    BY <1>4, <2>1, SizeOfUnion
<1>6. /\ Cardinality(Reread(w)) \in Nat /\ Cardinality(Reread(runs)) \in Nat /\ Cardinality(U) \in Nat
      /\ Cardinality(Covered(w)) \in Nat /\ Cardinality(Covered(runs)) \in Nat
  <2>1. Reread(w) \in SUBSET Sectors /\ Reread(runs) \in SUBSET Sectors
    BY <1>4 DEF Reread
  <2> QED
    BY <1>4, <2>1, SectorsFinite
<1>7. CASE Len(runs) < MaxR
  <2>1. Reread(runs) = {}
    BY <1>7 DEF LoopInv, ReadsAgainOnlyIfFull, Reread
  <2> QED
    BY <1>6, <2>1, FS_EmptySet
<1>8. CASE Len(runs) = MaxR
  <2>1. Cardinality(StartsOf(Covered(w))) <= n
    BY <1>1, <1>2, PiecesOfWorklist
  <2>2. Cardinality(StartsOf(Covered(w))) \in Nat
    <3>1. StartsOf(Covered(w)) \in SUBSET Sectors
      BY <1>4 DEF StartsOf
    <3> QED
      BY <3>1, SectorsFinite
  <2>3. Cardinality(StartsOf(Covered(w))) <= Len(runs)
    BY <1>2, <1>8, <2>1, <2>2
  <2>4. Cardinality(Covered(runs)) <= Cardinality(Covered(w))
    BY <1>4, <2>3 DEF Fewest
  <2>5. /\ Cardinality(Covered(w)) = Cardinality(Reread(w)) + Cardinality(U)
        /\ Cardinality(Covered(runs)) = Cardinality(Reread(runs)) + Cardinality(U)
    BY <1>3, <1>4, <1>5 DEF Reread
  <2> HIDE DEF U
  <2> QED
    BY <1>6, <2>4, <2>5
<1> QED
  BY <1>2, <1>3, <1>7, <1>8

\* Closing the smallest gaps is the best that can be done, for every map, disk
\* size and MAXR: no worklist that TX can hold and that leaves no unfinished
\* sector out has fewer finished ones read again, be its ranges sorted or not,
\* overlapping or not.
THEOREM CoalescingIsOptimal == Spec => []FewestReread
<1>1. Init => Fewest
  BY DEF Init, Fewest
<1>2. TypeOK /\ LoopInv /\ Fewest /\ [Next]_vars => Fewest'
  BY FewestStep
<1>3. TypeOK /\ LoopInv /\ Fewest => FewestReread
  BY FewestIsLeast
<1> QED
  BY <1>1, <1>2, <1>3, LoopInvariant, PTL DEF Spec
=============================================================================
