--------------------------- MODULE RestoreProofs ---------------------------
(***************************************************************************)
(* Proofs about Restore, for every drive, image, worklist, retry budget and *)
(* any faults: the type invariant, that no sector is written with another's *)
(* contents, that WR's tallies are exact, and that "Clone complete" is true.*)
(***************************************************************************)
EXTENDS Restore, SequenceTheorems, FiniteSetTheorems, TLAPS

---------------------------------------------------------------------------
(* Worklists *)

\* A worklist is a sequence of at most MaxR ranges with their ends on the disk.
LEMMA WorklistFacts ==
  ASSUME NEW w \in Worklist
  PROVE  /\ w \in Seq(LbaRange) /\ Len(w) \in 0 .. MaxR /\ DOMAIN w = 1 .. Len(w)
         /\ \A i \in 1 .. Len(w) : /\ w[i][1] \in 0 .. Total
                                   /\ w[i][2] \in 0 .. Total
                                   /\ w[i][1] <= w[i][2]
<1>1. PICK n \in 0 .. MaxR : w \in [1 .. n -> LbaRange]
  BY DEF Worklist
<1>2. n \in Nat
  BY <1>1, MaxRAssumption
<1>3. w = [i \in 1 .. n |-> w[i]] /\ \A i \in 1 .. n : w[i] \in LbaRange
  BY <1>1
<1>4. w \in Seq(LbaRange) /\ Len(w) = n
  BY <1>1, <1>2, <1>3
<1>5. \A i \in 1 .. n : /\ w[i][1] \in 0 .. Total /\ w[i][2] \in 0 .. Total
                        /\ w[i][1] <= w[i][2]
  BY <1>1 DEF LbaRange
<1> QED
  BY <1>1, <1>4, <1>5

\* The worklists restore_run sends: what --range asks for, or the whole image.
LEMMA AskedIsWorklist == \A w \in Specs \cup {FullImage} : w \in Worklist
<1>1. FullImage \in [1 .. 1 -> LbaRange]
  BY TotalAssumption, ImgAssumption DEF FullImage, LbaRange
<1>2. FullImage \in Worklist
  BY <1>1, MaxRAssumption DEF Worklist
<1> QED
  BY <1>2, SpecsAssumption DEF IsRangeSpec

\* The sectors of the ranges before the n-th.
Before(w, n) == UNION {Members(w[i]) : i \in 1 .. n - 1}

\* Walking a worklist range by range covers it.
LEMMA BeforeSteps ==
  ASSUME NEW w \in Worklist
  PROVE  /\ Before(w, 1) = {}
         /\ Before(w, Len(w) + 1) = Covered(w)
         /\ \A n \in 1 .. Len(w) : Before(w, n + 1) = Before(w, n) \cup Members(w[n])
<1>1. Len(w) \in Nat /\ DOMAIN w = 1 .. Len(w)
  BY WorklistFacts
<1>2. Before(w, Len(w) + 1) = Covered(w)
  BY <1>1 DEF Before, Covered
<1>3. ASSUME NEW n \in 1 .. Len(w)
      PROVE  Before(w, n + 1) = Before(w, n) \cup Members(w[n])
  <2>1. 1 .. (n + 1) - 1 = (1 .. n - 1) \cup {n}
    BY <1>1
  <2> QED
    BY <2>1 DEF Before
<1> QED
  BY <1>2, <1>3 DEF Before

\* What is covered lies on the disk, and what comes before a range is covered.
LEMMA CoveredOnDisk ==
  ASSUME NEW w \in Worklist
  PROVE  /\ Covered(w) \subseteq Sectors
         /\ \A n \in 1 .. Len(w) : Before(w, n) \subseteq Covered(w) /\ Members(w[n]) \subseteq Covered(w)
<1>1. Covered(w) \subseteq Sectors
  BY WorklistFacts, TotalAssumption DEF Covered, Members, Sectors
<1>2. ASSUME NEW n \in 1 .. Len(w)
      PROVE  Before(w, n) \subseteq Covered(w) /\ Members(w[n]) \subseteq Covered(w)
  <2>1. 1 .. n - 1 \subseteq DOMAIN w /\ n \in DOMAIN w
    BY WorklistFacts
  <2> QED
    BY <2>1 DEF Before, Covered
<1> QED
  BY <1>1, <1>2

\* In a worklist of separate ranges no sector of a range came before it.
LEMMA BeforeApart ==
  ASSUME NEW w \in Worklist, Disjoint(w), NEW n \in 1 .. Len(w), NEW l \in Members(w[n])
  PROVE  l \notin Before(w, n)
<1>1. \A i \in 1 .. n - 1 : i \in DOMAIN w /\ i # n /\ n \in DOMAIN w
  BY WorklistFacts
<1>2. \A i \in 1 .. n - 1 : Members(w[i]) \cap Members(w[n]) = {}
  BY <1>1 DEF Disjoint
<1> QED
  BY <1>2 DEF Before

\* Every set of sectors is finite, so it can be counted.
LEMMA SectorsFinite == \A S \in SUBSET Sectors : IsFiniteSet(S)
<1>1. 0 \in Int /\ Total - 1 \in Int
  BY TotalAssumption
<1>2. IsFiniteSet(Sectors)
  BY <1>1, FS_Interval DEF Sectors
<1> QED
  BY <1>2, FS_Subset

---------------------------------------------------------------------------
(* The line *)

\* A line that holds frames of S only, no more than its bound.
Line(S) == {q \in Seq(S) : Len(q) <= MaxLine}

LEMMA LineTail ==
  ASSUME NEW S, NEW q \in Line(S), q # <<>>
  PROVE  q[1] \in S /\ Tail(q) \in Line(S)
<1>1. Len(q) \in Nat \ {0} /\ q \in Seq(S)
  BY EmptySeq DEF Line
<1>2. q[1] \in S
  BY <1>1, ElementOfSeq
<1>3. Tail(q) \in Seq(S) /\ Len(Tail(q)) = Len(q) - 1
  BY <1>1, HeadTailProperties
<1> QED
  BY <1>1, <1>2, <1>3, FaultAssumption DEF Line

LEMMA LineDamaged ==
  ASSUME NEW S, Garbled \in S, NEW q \in Line(S), q # <<>>
  PROVE  [q EXCEPT ![1] = Garbled] \in Line(S)
<1>1. Len(q) \in Nat \ {0}
  BY EmptySeq DEF Line
<1> QED
  BY <1>1, ExceptSeq DEF Line

\* What a flush leaves is still a line of the same frames.
LEMMA LineLeftovers ==
  ASSUME NEW S, Garbled \in S, NEW q \in Line(S)
  PROVE  Leftovers(q) \subseteq Line(S)
<1> DEFINE rests == {SubSeq(q, k, Len(q)) : k \in 1 .. Len(q) + 1}
<1>1. Len(q) \in Nat /\ q \in Seq(S)
  BY LenProperties DEF Line
<1>2. ASSUME NEW k \in 1 .. Len(q) + 1
      PROVE  SubSeq(q, k, Len(q)) \in Line(S)
  <2>1. \A j \in k .. Len(q) : q[j] \in S
    BY <1>1, ElementOfSeq
  <2>2. /\ SubSeq(q, k, Len(q)) \in Seq(S)
        /\ Len(SubSeq(q, k, Len(q))) = IF k <= Len(q) THEN Len(q) - k + 1 ELSE 0
    BY <1>1, <2>1, SubSeqProperties
  <2> QED
    BY <1>1, <2>2, FaultAssumption DEF Line
<1>3. rests \subseteq Line(S)
  BY <1>2
<1>4. \A r \in rests \ {<<>>} : [r EXCEPT ![1] = Garbled] \in Line(S)
  BY <1>3, LineDamaged
<1> QED
  BY <1>3, <1>4 DEF Leftovers

LEMMA LineAppend ==
  ASSUME NEW S, NEW q \in Line(S), NEW f \in S, ~(Len(q) >= MaxLine)
  PROVE  Append(q, f) \in Line(S)
<1>1. Append(q, f) \in Seq(S) /\ Len(Append(q, f)) = Len(q) + 1 /\ Len(q) \in Nat
  BY AppendProperties, LenProperties DEF Line
<1> QED
  BY <1>1, FaultAssumption DEF Line

LEMMA LineToHost ==
  ASSUME NEW S, up \in Line(S), NEW f \in S
  PROVE  ToHost(f) \in Line(S)
BY LineAppend DEF ToHost

LEMMA LineToWr ==
  ASSUME NEW S, Garbled \in S, down \in Line(S), NEW f \in S
  PROVE  ToWr(f) \subseteq Line(S)
BY LineAppend DEF ToWr

\* A line of one kind of frames is a line of a wider kind.
LEMMA LineGrows ==
  ASSUME NEW S, NEW T, S \subseteq T, NEW q \in Line(S)
  PROVE  q \in Line(T)
BY SeqMonotonic DEF Line

---------------------------------------------------------------------------
(* The inductive invariant *)

\* Before YES at the prompt the host has no worklist.
Undecided == hpc \in {"info", "prompt"}

\* WR has come to the end of its worklist, or was told to stop.
WrOver == wpc \in {"send_eot", "eot_reply", "exit"}

\* The host's frames: the worklist it decided on, and true sectors of it.
DownFrames ==
  {Garbled, Byte("ACK"), Byte("NAK")}
  \cup (IF Undecided THEN {}
        ELSE {CmdFrame(work)} \cup {DataFrame(l, Content(l)) : l \in Covered(work)})

\* WR's frames: an EOT is there only when WR is over, and has its tallies.
UpFrames ==
  {InfoFrame, Garbled, Byte("ACK"), Byte("NAK")}
  \cup (IF WrOver /\ ~Undecided /\ wranges = work THEN {EotFrame(good, bad)} ELSE {})

ScalarsOK ==
  /\ wpc \in {"confirm", "tx_info", "recv_command", "next_range", "range_loop", "recv_data",
              "send_eot", "eot_reply", "exit"}
  /\ hpc \in {"info", "prompt", "send", "reply", "eot"} \cup HostEnded
  /\ wranges \in Worklist /\ work \in Worklist
  /\ wri \in 1 .. MaxR + 1 /\ wlba \in 0 .. Total /\ wtries \in 0 .. LinkTries
  /\ ri \in 1 .. MaxR /\ lba \in 0 .. Total /\ tries \in 0 .. LinkTries
  /\ good \in Nat /\ bad \in Nat /\ report \in [good : Nat, bad : Nat]
  /\ drive \in [Sectors -> Sectors \cup {Old, Pad}]
  /\ handled \subseteq Sectors /\ aborted \in BOOLEAN
  /\ faults \in 0 .. MaxFaults

LinesOK == down \in Line(DownFrames) /\ up \in Line(UpFrames)

\* The host is inside the range it streams.
HostPosition ==
  /\ hpc \in {"send", "reply"} /\ ri <= Len(work) => work[ri][1] <= lba
  /\ hpc = "reply" => ri <= Len(work) /\ lba < work[ri][2]
  /\ hpc \in {"info", "prompt", "send", "reply"} => tries < LinkTries

\* WR walks the host's worklist, and has handled exactly what it has gone past.
WrPosition ==
  /\ wpc \in {"confirm", "tx_info", "recv_command"} => wranges = <<>> /\ handled = {}
  /\ wpc \in {"next_range", "range_loop", "recv_data", "send_eot", "eot_reply"} =>
       ~Undecided /\ wranges = work
  /\ wpc = "exit" => wranges \in {<<>>, work} /\ (Undecided => wranges = <<>>)
  /\ wpc = "next_range" => wri <= Len(wranges) + 1 /\ handled = Before(wranges, wri)
  /\ wpc \in {"range_loop", "recv_data"} =>
       /\ wri <= Len(wranges)
       /\ wranges[wri][1] <= wlba /\ wlba <= wranges[wri][2]
       /\ handled = Before(wranges, wri) \cup (wranges[wri][1] .. wlba - 1)
  /\ wpc = "recv_data" => wlba < wranges[wri][2]
  /\ WrOver => handled \subseteq Covered(wranges) /\ (~aborted => handled = Covered(wranges))
  /\ ~WrOver => wtries = 0 /\ ~aborted
  /\ wpc \in {"send_eot", "eot_reply"} => wtries < LinkTries

\* A sector of the drive is as it was, or holds its own contents and was handled.
DriveTrue == \A l \in Written : drive[l] = Content(l) /\ l \in handled

\* What the host prints at the end is what WR counted.
ReportTrue ==
  hpc = "done" => /\ WrOver /\ wranges = work
                  /\ report = [good |-> good, bad |-> bad]

\* The inductive invariant.
RestoreInv ==
  /\ ScalarsOK /\ LinesOK /\ HostPosition /\ WrPosition /\ DriveTrue /\ ReportTrue
  /\ TalliesExact

\* What any step may put on the line.
LEMMA LineItems ==
  /\ {Garbled, Byte("ACK"), Byte("NAK")} \subseteq DownFrames
  /\ {InfoFrame, Garbled, Byte("ACK"), Byte("NAK")} \subseteq UpFrames
BY DEF DownFrames, UpFrames

LEMMA RestoreInit == Init => RestoreInv
<1> SUFFICES ASSUME Init PROVE RestoreInv
  OBVIOUS
<1>1. <<>> \in Worklist
  <2>1. <<>> \in [1 .. 0 -> LbaRange]
    OBVIOUS
  <2> QED
    BY <2>1, MaxRAssumption DEF Worklist
<1>2. ScalarsOK
  <2>1. drive \in [Sectors -> Sectors \cup {Old, Pad}] /\ handled \subseteq Sectors
    BY DEF Init
  <2>2. /\ wri \in 1 .. MaxR + 1 /\ wlba \in 0 .. Total /\ wtries \in 0 .. LinkTries
        /\ ri \in 1 .. MaxR /\ lba \in 0 .. Total /\ tries \in 0 .. LinkTries
        /\ good \in Nat /\ bad \in Nat /\ faults \in 0 .. MaxFaults
    BY MaxRAssumption, TotalAssumption, LinkTriesAssumption, FaultAssumption DEF Init
  <2>3. report \in [good : Nat, bad : Nat]
    BY DEF Init
  <2>4. aborted \in BOOLEAN /\ wranges \in Worklist /\ work \in Worklist
    BY <1>1 DEF Init
  <2>5. /\ wpc = "confirm" /\ hpc = "info"
    BY DEF Init
  <2> QED
    BY <2>1, <2>2, <2>3, <2>4, <2>5 DEF ScalarsOK
<1>3. LinesOK
  BY EmptySeq, FaultAssumption DEF Init, LinesOK, Line
<1>4. Written = {}
  BY DEF Init, Written
<1>5. HostPosition /\ WrPosition /\ DriveTrue /\ ReportTrue
  BY <1>4, LinkTriesAssumption
  DEF Init, HostPosition, WrPosition, Undecided, WrOver, DriveTrue, ReportTrue
<1>6. TalliesExact
  BY <1>4, FS_EmptySet DEF Init, TalliesExact
<1> QED
  BY <1>2, <1>3, <1>5, <1>6 DEF RestoreInv

\* Steps of WR that leave the drive and the tallies alone.
LEMMA QuietWr ==
  ASSUME DriveTrue, TalliesExact, ReportTrue,
         UNCHANGED <<drive, handled, good, bad, wranges, host>>,
         WrOver => WrOver'
  PROVE  DriveTrue' /\ TalliesExact' /\ ReportTrue'
<1>1. Written' = Written
  BY DEF Written
<1> QED
  BY <1>1 DEF DriveTrue, TalliesExact, ReportTrue, host

\* The handshake of WR keeps the invariant.
LEMMA HandshakeKeeps ==
  ASSUME RestoreInv, Confirm \/ WrInfo \/ WrAccept \/ WrNoCommand
  PROVE  RestoreInv'
<1> USE DEF RestoreInv
<1>1. DownFrames' = DownFrames /\ Undecided' = Undecided /\ UNCHANGED host
  BY DEF Confirm, WrInfo, WrAccept, WrNoCommand, DownFrames, Undecided, host
<1>2. down \in Line(DownFrames) /\ up \in Line(UpFrames)
  BY DEF LinesOK
<1>3. ~WrOver /\ wranges = <<>> /\ handled = {} /\ wtries = 0 /\ ~aborted
  BY DEF Confirm, WrInfo, WrAccept, WrNoCommand, WrOver, WrPosition
<1>4. UpFrames \subseteq UpFrames' /\ up \in Line(UpFrames')
  <2>1. UpFrames \subseteq UpFrames'
    BY <1>3 DEF UpFrames
  <2> QED
    BY <1>2, <2>1, LineGrows
<1>5. HostPosition'
  BY <1>1 DEF HostPosition, host
<1>6. down # <<>> => down[1] \in DownFrames /\ Tail(down) \in Line(DownFrames)
  BY <1>2, LineTail
<1>7. Leftovers(down) \subseteq Line(DownFrames)
  BY <1>2, LineLeftovers, LineItems
<1>8. CASE Confirm
  <2>1. ScalarsOK'
    BY <1>8 DEF Confirm, ScalarsOK, host
  <2>2. LinesOK'
    BY <1>1, <1>2, <1>4, <1>8 DEF Confirm, LinesOK
  <2>3. WrPosition'
    BY <1>1, <1>3, <1>8 DEF Confirm, WrPosition, WrOver, Covered, host
  <2>4. DriveTrue' /\ TalliesExact' /\ ReportTrue'
    BY <1>3, <1>8, QuietWr DEF Confirm
  <2> QED
    BY <1>5, <2>1, <2>2, <2>3, <2>4
<1>9. CASE WrInfo
  <2>1. ScalarsOK'
    BY <1>9 DEF WrInfo, ScalarsOK, host
  <2>2. up' \in Line(UpFrames')
    <3>1. up' \in Line(UpFrames)
      BY <1>2, <1>9, LineToHost, LineItems DEF WrInfo
    <3>2. UpFrames \subseteq UpFrames'
      BY <1>4
    <3> QED
      BY <3>1, <3>2, LineGrows
  <2>3. LinesOK'
    BY <1>1, <1>7, <1>9, <2>2 DEF WrInfo, LinesOK
  <2>4. WrPosition'
    BY <1>1, <1>3, <1>9 DEF WrInfo, WrPosition, WrOver, host
  <2>5. DriveTrue' /\ TalliesExact' /\ ReportTrue'
    BY <1>3, <1>9, QuietWr DEF WrInfo
  <2> QED
    BY <1>5, <2>1, <2>3, <2>4, <2>5
<1>10. CASE WrAccept
  <2>1. ~Undecided /\ down[1].ranges = work
    BY <1>6, <1>10 DEF WrAccept, DownFrames, CmdFrame, DataFrame, Byte, Garbled
  <2>2. work \in Worklist /\ wranges' = work
    BY <1>10, <2>1 DEF WrAccept, ScalarsOK
  <2>3. ScalarsOK'
    BY <1>10, <2>2, MaxRAssumption DEF WrAccept, ScalarsOK, host
  <2>4. LinesOK'
    BY <1>1, <1>4, <1>6, <1>10 DEF WrAccept, LinesOK
  <2>5. Before(work, 1) = {} /\ Len(work) \in Nat
    BY <2>2, BeforeSteps, WorklistFacts
  <2>6. WrPosition'
    BY <1>1, <1>3, <1>10, <2>1, <2>2, <2>5 DEF WrAccept, WrPosition, WrOver, host
  <2>7. Written = {} /\ Written' = {}
    BY <1>3, <1>10 DEF WrAccept, DriveTrue, Written
  <2>8. DriveTrue' /\ ReportTrue'
    BY <1>1, <1>3, <2>7 DEF DriveTrue, ReportTrue, host
  <2>9. TalliesExact'
    BY <1>3, <1>10, <2>7, FS_EmptySet DEF WrAccept, TalliesExact
  <2> QED
    BY <1>5, <2>3, <2>4, <2>6, <2>8, <2>9
<1>11. CASE WrNoCommand
  <2>1. ScalarsOK'
    BY <1>11 DEF WrNoCommand, ScalarsOK, host
  <2>2. LinesOK'
    BY <1>1, <1>4, <1>6, <1>7, <1>11 DEF WrNoCommand, LinesOK
  <2>3. WrPosition'
    BY <1>1, <1>3, <1>11 DEF WrNoCommand, WrPosition, WrOver, host
  <2>4. DriveTrue' /\ TalliesExact' /\ ReportTrue'
    BY <1>3, <1>11, QuietWr DEF WrNoCommand
  <2> QED
    BY <1>5, <2>1, <2>2, <2>3, <2>4
<1> QED
  BY <1>8, <1>9, <1>10, <1>11

\* What a walk over the worklist knows of the range WR is in.
LEMMA WalkFacts ==
  ASSUME RestoreInv, wpc \in {"next_range", "range_loop", "recv_data"}
  PROVE  /\ wranges \in Worklist /\ wranges = work /\ ~Undecided
         /\ Len(wranges) \in 0 .. MaxR
         /\ ~WrOver /\ wtries = 0 /\ ~aborted
         /\ \A i \in 1 .. Len(wranges) : /\ wranges[i][1] \in 0 .. Total
                                         /\ wranges[i][2] \in 0 .. Total
                                         /\ wranges[i][1] <= wranges[i][2]
BY WorklistFacts DEF RestoreInv, ScalarsOK, WrPosition, WrOver

\* WR's walk over the worklist, as far as nothing is received.
LEMMA WalkKeeps ==
  ASSUME RestoreInv, WrNextRange \/ WrRangeDone \/ WrDoSector
  PROVE  RestoreInv'
<1> USE DEF RestoreInv
<1>1. UNCHANGED <<wranges, wtries, good, bad, drive, handled, down, up, host, faults>>
  BY DEF WrNextRange, WrRangeDone, WrDoSector
<1>2. /\ wranges \in Worklist /\ wranges = work /\ ~Undecided
      /\ Len(wranges) \in 0 .. MaxR
      /\ ~WrOver /\ wtries = 0 /\ ~aborted
      /\ \A i \in 1 .. Len(wranges) : /\ wranges[i][1] \in 0 .. Total
                                      /\ wranges[i][2] \in 0 .. Total
                                      /\ wranges[i][1] <= wranges[i][2]
  BY WalkFacts DEF WrNextRange, WrRangeDone, WrDoSector
<1>3. LinesOK'
  <2>1. DownFrames' = DownFrames
    BY <1>1 DEF DownFrames, Undecided, host
  <2>2. UpFrames \subseteq UpFrames'
    BY <1>2 DEF UpFrames
  <2> QED
    BY <1>1, <2>1, <2>2, LineGrows DEF LinesOK
<1>4. HostPosition'
  BY <1>1 DEF HostPosition, host
<1>5. DriveTrue' /\ TalliesExact' /\ ReportTrue'
  BY <1>1, <1>2, QuietWr
<1>6. wri \in 1 .. MaxR + 1 /\ wlba \in 0 .. Total /\ LinkTries \in Nat \ {0} /\ MaxR \in Nat
  BY LinkTriesAssumption, MaxRAssumption DEF ScalarsOK
<1>7. CASE WrNextRange
  <2>1. wpc = "next_range" /\ UNCHANGED <<wri, aborted>>
    BY <1>7 DEF WrNextRange
  <2>2. wri <= Len(wranges) + 1 /\ handled = Before(wranges, wri)
    BY <2>1 DEF WrPosition
  <2>3. CASE wri <= Len(wranges)
    <3>1. wlba' = wranges[wri][1] /\ wpc' = "range_loop" /\ wri \in 1 .. Len(wranges)
      BY <1>2, <1>6, <1>7, <2>3 DEF WrNextRange
    <3>2. ScalarsOK'
      BY <1>1, <1>2, <2>1, <3>1 DEF ScalarsOK, host
    <3>3. wranges[wri][1] .. wlba' - 1 = {}
      BY <1>2, <3>1
    <3>4. WrPosition'
      BY <1>1, <1>2, <2>1, <2>2, <3>1, <3>3 DEF WrPosition, WrOver, Undecided, host
    <3> QED
      BY <1>3, <1>4, <1>5, <3>2, <3>4
  <2>4. CASE ~(wri <= Len(wranges))
    <3>1. wlba' = wlba /\ wpc' = "send_eot" /\ wri = Len(wranges) + 1
      BY <1>2, <1>6, <1>7, <2>2, <2>4 DEF WrNextRange
    <3>2. ScalarsOK'
      BY <1>1, <2>1, <3>1 DEF ScalarsOK, host
    <3>3. handled = Covered(wranges)
      BY <1>2, <2>2, <3>1, BeforeSteps
    <3>4. WrPosition'
      BY <1>1, <1>2, <1>6, <2>1, <3>1, <3>3 DEF WrPosition, WrOver, Undecided, host
    <3> QED
      BY <1>3, <1>4, <1>5, <3>2, <3>4
  <2> QED
    BY <2>3, <2>4
<1>8. CASE WrRangeDone
  <2>1. /\ wpc = "range_loop" /\ wpc' = "next_range" /\ wri' = wri + 1
        /\ wlba >= wranges[wri][2] /\ UNCHANGED <<wlba, aborted>>
    BY <1>8 DEF WrRangeDone
  <2>2. /\ wri <= Len(wranges)
        /\ wranges[wri][1] <= wlba /\ wlba <= wranges[wri][2]
        /\ handled = Before(wranges, wri) \cup (wranges[wri][1] .. wlba - 1)
    BY <2>1 DEF WrPosition
  <2>3. wri \in 1 .. Len(wranges) /\ wlba = wranges[wri][2]
    BY <1>2, <1>6, <2>1, <2>2
  <2>4. handled = Before(wranges, wri')
    BY <1>2, <2>1, <2>2, <2>3, BeforeSteps DEF Members
  <2>5. ScalarsOK'
    BY <1>1, <1>2, <1>6, <2>1, <2>3 DEF ScalarsOK, host
  <2>6. WrPosition'
    BY <1>1, <1>2, <2>1, <2>3, <2>4 DEF WrPosition, WrOver, Undecided, host
  <2> QED
    BY <1>3, <1>4, <1>5, <2>5, <2>6
<1>9. CASE WrDoSector
  <2>1. /\ wpc = "range_loop" /\ wlba < wranges[wri][2] /\ UNCHANGED <<wri, wlba>>
        /\ \/ wpc' = "send_eot" /\ aborted' = TRUE
           \/ wpc' = "recv_data" /\ aborted' = aborted
    BY <1>9 DEF WrDoSector
  <2>2. /\ wri <= Len(wranges)
        /\ wranges[wri][1] <= wlba /\ wlba <= wranges[wri][2]
        /\ handled = Before(wranges, wri) \cup (wranges[wri][1] .. wlba - 1)
    BY <2>1 DEF WrPosition
  <2>3. handled \subseteq Covered(wranges)
    <3>1. wri \in 1 .. Len(wranges)
      BY <1>2, <1>6, <2>2
    <3>2. wranges[wri][1] .. wlba - 1 \subseteq Members(wranges[wri])
      BY <1>2, <1>6, <2>1, <3>1 DEF Members
    <3> QED
      BY <1>2, <2>2, <3>1, <3>2, CoveredOnDisk
  <2>4. ScalarsOK'
    <3>1. aborted' \in BOOLEAN
      BY <2>1 DEF ScalarsOK
    <3> QED
      BY <1>1, <2>1, <3>1 DEF ScalarsOK, host
  <2>5. CASE wpc' = "send_eot" /\ aborted' = TRUE
    <3>1. WrPosition'
      BY <1>1, <1>2, <1>6, <2>3, <2>5 DEF WrPosition, WrOver, Undecided, host
    <3> QED
      BY <1>3, <1>4, <1>5, <2>4, <3>1
  <2>6. CASE wpc' = "recv_data" /\ aborted' = aborted
    <3>1. WrPosition'
      BY <1>1, <1>2, <2>1, <2>2, <2>6 DEF WrPosition, WrOver, Undecided, host
    <3> QED
      BY <1>3, <1>4, <1>5, <2>4, <3>1
  <2> QED
    BY <2>1, <2>5, <2>6
<1> QED
  BY <1>7, <1>8, <1>9

\* A sector is written or skipped: it is the one expected, with its own contents,
\* and when ranges are separate it was not handled before.
LEMMA WriteKeeps ==
  ASSUME RestoreInv, WrWrite
  PROVE  RestoreInv'
<1> USE DEF RestoreInv
<1>1. /\ wpc = "recv_data" /\ wpc' = "range_loop" /\ wlba' = wlba + 1
      /\ down # <<>> /\ down[1].type = "D" /\ down[1].lba = wlba /\ down' = Tail(down)
      /\ handled' = handled \cup {wlba} /\ up' = ToHost(Byte("ACK"))
      /\ UNCHANGED <<wranges, wri, wtries, aborted, host, faults>>
      /\ \/ drive' = [drive EXCEPT ![wlba] = down[1].data] /\ good' = good + 1 /\ bad' = bad
         \/ drive' = drive /\ bad' = bad + 1 /\ good' = good
  BY DEF WrWrite
<1>2. /\ wranges \in Worklist /\ wranges = work /\ ~Undecided
      /\ Len(wranges) \in 0 .. MaxR
      /\ ~WrOver /\ wtries = 0 /\ ~aborted
      /\ \A i \in 1 .. Len(wranges) : /\ wranges[i][1] \in 0 .. Total
                                      /\ wranges[i][2] \in 0 .. Total
                                      /\ wranges[i][1] <= wranges[i][2]
  BY <1>1, WalkFacts
<1>3. /\ wri <= Len(wranges)
      /\ wranges[wri][1] <= wlba /\ wlba < wranges[wri][2]
      /\ handled = Before(wranges, wri) \cup (wranges[wri][1] .. wlba - 1)
  BY <1>1 DEF WrPosition
<1>4. /\ wri \in 1 .. Len(wranges) /\ wlba \in 0 .. Total /\ good \in Nat /\ bad \in Nat
      /\ drive \in [Sectors -> Sectors \cup {Old, Pad}] /\ handled \subseteq Sectors
  BY <1>2, <1>3, MaxRAssumption DEF ScalarsOK
<1>5. wlba \in Members(wranges[wri]) /\ wlba \in Sectors
  <2>1. wlba \in Members(wranges[wri])
    BY <1>2, <1>3, <1>4 DEF Members
  <2> QED
    BY <1>2, <1>4, <2>1, CoveredOnDisk
<1>6. down \in Line(DownFrames) /\ up \in Line(UpFrames)
  BY DEF LinesOK
<1>7. down[1].data = Content(wlba) /\ Content(wlba) \in (Sectors \cup {Pad}) \ {Old}
  <2>1. down[1] \in DownFrames
    BY <1>1, <1>6, LineTail
  <2>2. PICK l \in Covered(work) : down[1] = DataFrame(l, Content(l))
    BY <1>1, <1>2, <2>1 DEF DownFrames, CmdFrame, Byte, Garbled
  <2>3. down[1].data = Content(wlba)
    BY <1>1, <2>2 DEF DataFrame
  <2>4. \A s \in Sectors : s # Old
    BY ContentAssumption, TotalAssumption DEF Sectors
  <2> QED
    BY <1>5, <2>3, <2>4, ContentAssumption DEF Content
<1>8. ScalarsOK'
  <2>1. drive' \in [Sectors -> Sectors \cup {Old, Pad}]
    BY <1>1, <1>4, <1>7
  <2>2. good' \in Nat /\ bad' \in Nat /\ wlba' \in 0 .. Total
    <3>1. wlba' = wlba + 1 /\ wlba + 1 \in 0 .. Total
      BY <1>1, <1>2, <1>3, <1>4, TotalAssumption, SMTT(30)
    <3>2. (good' = good + 1 /\ bad' = bad) \/ (bad' = bad + 1 /\ good' = good)
      BY <1>1
    <3> QED
      BY <1>4, <3>1, <3>2
  <2> QED
    BY <1>1, <1>4, <1>5, <2>1, <2>2 DEF ScalarsOK, host
<1>9. LinesOK'
  <2>1. DownFrames' = DownFrames
    BY <1>1 DEF DownFrames, Undecided, host
  <2>2. UpFrames \subseteq UpFrames'
    BY <1>2 DEF UpFrames
  <2>3. up' \in Line(UpFrames)
    BY <1>1, <1>6, LineToHost, LineItems
  <2>4. Tail(down) \in Line(DownFrames)
    BY <1>1, <1>6, LineTail
  <2> QED
    BY <1>1, <2>1, <2>2, <2>3, <2>4, LineGrows DEF LinesOK
<1>10. HostPosition'
  BY <1>1 DEF HostPosition, host
<1>11. WrPosition'
  <2>1. wranges[wri][1] .. wlba' - 1 = (wranges[wri][1] .. wlba - 1) \cup {wlba}
    BY <1>1, <1>2, <1>3, <1>4, SMTT(30)
  <2>2. handled' = Before(wranges, wri) \cup (wranges[wri][1] .. wlba' - 1)
    BY <1>1, <1>3, <2>1
  <2>3. wranges[wri][1] <= wlba' /\ wlba' <= wranges[wri][2]
    BY <1>1, <1>2, <1>3, <1>4
  <2> QED
    BY <1>1, <1>2, <1>3, <2>2, <2>3 DEF WrPosition, WrOver, Undecided, host
<1>12. \/ Written' = Written \cup {wlba} /\ good' = good + 1 /\ bad' = bad
       \/ Written' = Written /\ good' = good /\ bad' = bad + 1
  <2>1. CASE drive' = [drive EXCEPT ![wlba] = down[1].data] /\ good' = good + 1 /\ bad' = bad
    BY <1>4, <1>5, <1>7, <2>1 DEF Written
  <2>2. CASE drive' = drive /\ bad' = bad + 1 /\ good' = good
    BY <1>4, <2>2 DEF Written
  <2> QED
    BY <1>1, <2>1, <2>2
<1>13. DriveTrue'
  <2>1. \A l \in Sectors : drive'[l] = drive[l] \/ (l = wlba /\ drive'[l] = Content(l))
    BY <1>1, <1>4, <1>7
  <2>2. \A l \in Sectors : drive'[l] # Old => drive'[l] = Content(l) /\ l \in handled'
    BY <1>1, <2>1 DEF DriveTrue, Written
  <2> QED
    BY <2>2 DEF DriveTrue, Written
<1>14. ReportTrue'
  BY <1>1, <1>2 DEF ReportTrue, host
<1>15. ASSUME Disjoint(wranges)
       PROVE  good' = Cardinality(Written') /\ good' + bad' = Cardinality(handled')
  <2>1. wlba \notin handled
    BY <1>2, <1>3, <1>4, <1>5, <1>15, BeforeApart
  <2>2. wlba \notin Written
    BY <2>1 DEF DriveTrue
  <2>3. IsFiniteSet(handled) /\ IsFiniteSet(Written)
    BY <1>4, SectorsFinite DEF Written
  <2>4. good = Cardinality(Written) /\ good + bad = Cardinality(handled)
    BY <1>15 DEF TalliesExact
  <2>5. Cardinality(handled') = Cardinality(handled) + 1
    BY <1>1, <2>1, <2>3, FS_AddElement
  <2>6. Cardinality(Written \cup {wlba}) = Cardinality(Written) + 1
    BY <2>2, <2>3, FS_AddElement
  <2>7. CASE Written' = Written \cup {wlba} /\ good' = good + 1 /\ bad' = bad
    BY <1>4, <2>4, <2>5, <2>6, <2>7
  <2>8. CASE Written' = Written /\ good' = good /\ bad' = bad + 1
    BY <1>4, <2>4, <2>5, <2>8
  <2> QED
    BY <1>12, <2>7, <2>8
<1>16. TalliesExact'
  BY <1>1, <1>15 DEF TalliesExact
<1> QED
  BY <1>8, <1>9, <1>10, <1>11, <1>13, <1>14, <1>16

\* Frames WR drops or refuses.
LEMMA DropKeeps ==
  ASSUME RestoreInv, WrDup \/ WrReject
  PROVE  RestoreInv'
<1> USE DEF RestoreInv
<1>1. /\ wpc = "recv_data" /\ wpc' \in {"range_loop", "recv_data"} /\ down # <<>>
      /\ down' = Tail(down) \/ down' \in Leftovers(down)
      /\ up' \in {up, ToHost(Byte("ACK")), ToHost(Byte("NAK"))}
      /\ UNCHANGED <<wranges, wri, wlba, wtries, good, bad, drive, handled, aborted, host, faults>>
  BY DEF WrDup, WrReject, wr
<1>2. down \in Line(DownFrames) /\ up \in Line(UpFrames)
  BY DEF LinesOK
<1>3. ~WrOver
  BY <1>1 DEF WrOver
<1>4. LinesOK'
  <2>1. DownFrames' = DownFrames
    BY <1>1 DEF DownFrames, Undecided, host
  <2>2. UpFrames \subseteq UpFrames'
    BY <1>3 DEF UpFrames
  <2>3. up' \in Line(UpFrames)
    BY <1>1, <1>2, LineToHost, LineItems
  <2>4. down' \in Line(DownFrames)
    BY <1>1, <1>2, LineTail, LineLeftovers, LineItems
  <2> QED
    BY <2>1, <2>2, <2>3, <2>4, LineGrows DEF LinesOK
<1>5. ScalarsOK' /\ HostPosition'
  BY <1>1 DEF ScalarsOK, HostPosition, host
<1>6. WrPosition'
  BY <1>1 DEF WrPosition, WrOver, Undecided, host
<1>7. DriveTrue' /\ TalliesExact' /\ ReportTrue'
  BY <1>1, <1>3, QuietWr
<1> QED
  BY <1>4, <1>5, <1>6, <1>7

\* The end of WR: EOT, and the wait for its answer.
LEMMA EotKeeps ==
  ASSUME RestoreInv, WrEot \/ WrEotReply
  PROVE  RestoreInv'
<1> USE DEF RestoreInv
<1>1. /\ wpc \in {"send_eot", "eot_reply"} /\ wpc' \in {"send_eot", "eot_reply", "exit"}
      /\ up' \in {up, ToHost(EotFrame(good, bad))}
      /\ down' \in {down} \cup Leftovers(down)
      /\ UNCHANGED <<wranges, wri, wlba, good, bad, drive, handled, aborted, host, faults>>
  BY DEF WrEot, WrEotReply
<1>2. down \in Line(DownFrames) /\ up \in Line(UpFrames)
  BY DEF LinesOK
<1>3. WrOver /\ WrOver' /\ ~Undecided /\ wranges = work /\ Undecided' = Undecided
  BY <1>1 DEF WrOver, WrPosition, Undecided, host
<1>4. LinesOK'
  <2>1. DownFrames' = DownFrames
    BY <1>1 DEF DownFrames, Undecided, host
  <2>2. UpFrames' = UpFrames /\ EotFrame(good, bad) \in UpFrames
    BY <1>1, <1>3 DEF UpFrames, host
  <2>3. up' \in Line(UpFrames)
    BY <1>1, <1>2, <2>2, LineToHost
  <2>4. down' \in Line(DownFrames)
    BY <1>1, <1>2, LineLeftovers, LineItems
  <2> QED
    BY <2>1, <2>2, <2>3, <2>4 DEF LinesOK
<1>5. wtries' \in 0 .. LinkTries /\ (wpc' \in {"send_eot", "eot_reply"} => wtries' < LinkTries)
  <2>1. wtries \in 0 .. LinkTries /\ wtries < LinkTries /\ LinkTries \in Nat
    BY <1>1, LinkTriesAssumption DEF ScalarsOK, WrPosition
  <2>2. CASE WrEot
    BY <2>1, <2>2 DEF WrEot
  <2>3. CASE WrEotReply
    <3>1. wtries' = wtries + 1 /\ (wpc' = "exit" \/ wtries + 1 < LinkTries)
      BY <2>3 DEF WrEotReply
    <3>2. wpc' \in {"send_eot", "exit"}
      BY <2>3 DEF WrEotReply
    <3> QED
      BY <2>1, <3>1, <3>2
  <2> QED
    BY <2>2, <2>3
<1>6. ScalarsOK' /\ HostPosition'
  BY <1>1, <1>5 DEF ScalarsOK, HostPosition, host
<1>7. WrPosition'
  BY <1>1, <1>3, <1>5 DEF WrPosition, WrOver, host
<1>8. DriveTrue' /\ TalliesExact' /\ ReportTrue'
  BY <1>1, <1>3, QuietWr
<1> QED
  BY <1>4, <1>6, <1>7, <1>8

\* Steps that leave WR alone keep what is said about it.
LEMMA QuietHost ==
  ASSUME RestoreInv, UNCHANGED wr, Undecided' => Undecided, Undecided \/ work' = work
  PROVE  WrPosition' /\ DriveTrue' /\ TalliesExact'
<1>1. UNCHANGED <<wpc, wranges, wri, wlba, wtries, good, bad, drive, handled, aborted>>
  BY DEF wr
<1>2. Written' = Written /\ WrOver' = WrOver
  BY <1>1 DEF Written, WrOver
<1>3. WrPosition'
  <2>1. CASE Undecided
    <3>1. wpc \in {"confirm", "tx_info", "recv_command", "exit"}
      BY <2>1 DEF RestoreInv, ScalarsOK, WrPosition
    <3> QED
      BY <1>1, <1>2, <2>1, <3>1 DEF RestoreInv, WrPosition
  <2>2. CASE ~Undecided
    BY <1>1, <1>2, <2>2 DEF RestoreInv, WrPosition
  <2> QED
    BY <2>1, <2>2
<1> QED
  BY <1>1, <1>2, <1>3 DEF RestoreInv, DriveTrue, TalliesExact

\* restore_run's steps that move no frame to WR.
LEMMA HostWalkKeeps ==
  ASSUME RestoreInv, HostInfo \/ HostStop \/ HostNextRange \/ HostReply
  PROVE  RestoreInv'
<1> USE DEF RestoreInv
<1>1. UNCHANGED <<wr, down, work, report, faults>>
  BY DEF HostInfo, HostStop, HostNextRange, HostReply
<1>2. down \in Line(DownFrames) /\ up \in Line(UpFrames)
  BY DEF LinesOK
<1>3. (Undecided' => Undecided) /\ hpc \notin HostEnded /\ hpc' # "done"
  BY DEF HostInfo, HostStop, HostNextRange, HostReply, Undecided, HostEnded
<1>4. up' \in Line(UpFrames)
  <2>1. up # <<>> => Tail(up) \in Line(UpFrames)
    BY <1>2, LineTail
  <2>2. Leftovers(up) \subseteq Line(UpFrames)
    BY <1>2, LineLeftovers, LineItems
  <2> QED
    BY <1>2, <2>1, <2>2 DEF HostInfo, HostStop, HostNextRange, HostReply
<1>5. LinesOK'
  <2>1. DownFrames \subseteq DownFrames' /\ UpFrames \subseteq UpFrames'
    BY <1>1, <1>3 DEF DownFrames, UpFrames, WrOver, wr
  <2> QED
    BY <1>1, <1>2, <1>4, <2>1, LineGrows DEF LinesOK
<1>6. WrPosition' /\ DriveTrue' /\ TalliesExact'
  BY <1>1, <1>3, QuietHost
<1>7. ReportTrue'
  BY <1>3 DEF ReportTrue
<1>8. /\ work \in Worklist /\ Len(work) \in 0 .. MaxR
      /\ \A i \in 1 .. Len(work) : /\ work[i][1] \in 0 .. Total
                                   /\ work[i][2] \in 0 .. Total
      /\ ri \in 1 .. MaxR /\ lba \in 0 .. Total /\ tries \in 0 .. LinkTries
      /\ MaxR \in Nat /\ Total \in Nat /\ LinkTries \in Nat \ {0}
  BY WorklistFacts, MaxRAssumption, TotalAssumption, LinkTriesAssumption DEF ScalarsOK
<1>9. /\ ri' \in 1 .. MaxR /\ lba' \in 0 .. Total /\ tries' \in 0 .. LinkTries
      /\ hpc' \in {"info", "prompt", "send", "reply", "eot"} \cup HostEnded
      /\ HostPosition'
  <2>1. CASE HostInfo
    BY <1>8, <2>1 DEF HostInfo, HostPosition
  <2>2. CASE HostStop
    BY <1>8, <2>2 DEF HostStop, HostPosition, HostEnded
  <2>3. CASE HostNextRange
    <3>1. CASE ri < Len(work)
      <4>1. ri' \in 1 .. Len(work) /\ lba' = work[ri'][1]
        BY <1>8, <2>3, <3>1 DEF HostNextRange
      <4> QED
        BY <1>1, <1>8, <2>3, <3>1, <4>1 DEF HostNextRange, HostPosition
    <3>2. CASE ~(ri < Len(work))
      BY <1>8, <2>3, <3>2 DEF HostNextRange, HostPosition
    <3> QED
      BY <3>1, <3>2
  <2>4. CASE HostReply
    <3>1. /\ hpc = "reply" /\ ri' = ri /\ ri <= Len(work) /\ lba < work[ri][2]
          /\ tries < LinkTries /\ work[ri][1] <= lba
      BY <2>4 DEF HostReply, HostPosition
    <3>2. \/ lba' = lba + 1 /\ tries' = 0 /\ hpc' = "send"
          \/ lba' = lba /\ tries' = tries + 1 /\ hpc' \in {"send", "lost"}
             /\ (hpc' = "send" => tries + 1 < LinkTries)
      BY <2>4 DEF HostReply
    <3> QED
      BY <1>1, <1>8, <3>1, <3>2, SMTT(30) DEF HostPosition, HostEnded
  <2> QED
    BY <2>1, <2>2, <2>3, <2>4
<1>10. ScalarsOK'
  BY <1>1, <1>9 DEF ScalarsOK, wr
<1> QED
  BY <1>5, <1>6, <1>7, <1>9, <1>10

\* restore_run sends: the worklist, a sector, the answer to EOT.
LEMMA HostSendKeeps ==
  ASSUME RestoreInv, HostStart \/ HostSend \/ HostEot \/ HostSkip
  PROVE  RestoreInv'
<1> USE DEF RestoreInv
<1>1. UNCHANGED <<wr, faults>>
  BY DEF HostStart, HostSend, HostEot, HostSkip
<1>2. down \in Line(DownFrames) /\ up \in Line(UpFrames)
  BY DEF LinesOK
<1>3. up # <<>> => up[1] \in UpFrames /\ Tail(up) \in Line(UpFrames)
  BY <1>2, LineTail
<1>4. LinkTries \in Nat \ {0} /\ MaxR \in Nat \ {0} /\ work \in Worklist
  BY LinkTriesAssumption, MaxRAssumption DEF ScalarsOK
<1>5. CASE HostStart
  <2>1. PICK w \in Specs \cup {FullImage} : /\ work' = w /\ down' \in ToWr(CmdFrame(w))
                                            /\ lba' = IF w = <<>> THEN 0 ELSE w[1][1]
    BY <1>5 DEF HostStart
  <2>2. Undecided /\ ~Undecided' /\ hpc' = "send" /\ ri' = 1
        /\ UNCHANGED <<up, tries, report>>
    BY <1>5 DEF HostStart, Undecided
  <2>3. w \in Worklist
    BY AskedIsWorklist
  <2>4. lba' \in 0 .. Total
    <3>1. w # <<>> => 1 \in 1 .. Len(w)
      BY <2>3, WorklistFacts, EmptySeq
    <3> QED
      BY <2>1, <2>3, <3>1, WorklistFacts, TotalAssumption
  <2>5. ScalarsOK'
    BY <1>1, <1>4, <2>1, <2>2, <2>3, <2>4 DEF ScalarsOK, wr
  <2>6. LinesOK'
    <3>1. DownFrames \subseteq DownFrames' /\ UpFrames \subseteq UpFrames'
      BY <2>2 DEF DownFrames, UpFrames
    <3>2. CmdFrame(w) \in DownFrames' /\ Garbled \in DownFrames'
      BY <2>1, <2>2 DEF DownFrames
    <3>3. down' \in Line(DownFrames')
      BY <1>2, <2>1, <3>1, <3>2, LineGrows, LineToWr
    <3> QED
      BY <1>2, <2>2, <3>1, <3>3, LineGrows DEF LinesOK
  <2>7. HostPosition' /\ ReportTrue'
    <3>1. w = <<>> => ~(1 <= Len(w))
      BY EmptySeq
    <3>2. w # <<>> => lba' = w[1][1] /\ w[1][1] <= lba'
      <4>1. w # <<>> => 1 \in 1 .. Len(w)
        BY <2>3, WorklistFacts, EmptySeq
      <4> QED
        BY <2>1, <2>3, <4>1, WorklistFacts
    <3> QED
      BY <2>1, <2>2, <3>1, <3>2 DEF HostPosition, ReportTrue, Undecided
  <2>8. WrPosition' /\ DriveTrue' /\ TalliesExact'
    BY <1>1, <2>2, QuietHost
  <2> QED
    BY <2>5, <2>6, <2>7, <2>8
<1>6. CASE HostSend
  <2>1. /\ hpc = "send" /\ ri <= Len(work) /\ lba < work[ri][2] /\ hpc' = "reply"
        /\ down' \in ToWr(DataFrame(lba, Content(lba)))
        /\ UNCHANGED <<up, work, ri, lba, tries, report>>
    BY <1>6 DEF HostSend
  <2>2. ~Undecided /\ ~Undecided'
    BY <2>1 DEF Undecided
  <2>3. lba \in Covered(work)
    <3>1. work[ri][1] <= lba
      BY <2>1 DEF HostPosition
    <3>2. ri \in 1 .. MaxR /\ lba \in 0 .. Total
      BY DEF ScalarsOK
    <3>3. ri \in 1 .. Len(work)
      BY <1>4, <2>1, <3>2, WorklistFacts
    <3>4. lba \in Members(work[ri])
      BY <1>4, <2>1, <3>1, <3>2, <3>3, WorklistFacts, TotalAssumption DEF Members
    <3> QED
      BY <1>4, <3>3, <3>4, CoveredOnDisk
  <2>4. LinesOK'
    <3>1. DownFrames' = DownFrames /\ UpFrames' = UpFrames
      BY <1>1, <2>1, <2>2 DEF DownFrames, UpFrames, WrOver, wr
    <3>2. DataFrame(lba, Content(lba)) \in DownFrames
      BY <2>2, <2>3 DEF DownFrames
    <3> QED
      BY <1>2, <2>1, <3>1, <3>2, LineToWr, LineItems DEF LinesOK
  <2>5. ScalarsOK'
    BY <1>1, <2>1 DEF ScalarsOK, wr
  <2>6. HostPosition' /\ ReportTrue'
    BY <2>1 DEF HostPosition, ReportTrue
  <2>7. WrPosition' /\ DriveTrue' /\ TalliesExact'
    BY <1>1, <2>1, <2>2, QuietHost
  <2> QED
    BY <2>4, <2>5, <2>6, <2>7
<1>7. CASE HostEot
  <2>1. /\ hpc = "eot" /\ hpc' = "done" /\ up # <<>> /\ up[1].type = "E"
        /\ report' = [good |-> up[1].good, bad |-> up[1].bad]
        /\ up' = Tail(up) /\ down' \in ToWr(Byte("ACK"))
        /\ UNCHANGED <<work, ri, lba, tries>>
    BY <1>7 DEF HostEot
  <2>2. /\ WrOver /\ wranges = work /\ up[1] = EotFrame(good, bad)
    BY <1>3, <2>1 DEF UpFrames, InfoFrame, Garbled, Byte
  <2>3. ~Undecided /\ ~Undecided'
    BY <2>1 DEF Undecided
  <2>4. LinesOK'
    <3>1. DownFrames' = DownFrames /\ UpFrames' = UpFrames
      BY <1>1, <2>1, <2>3 DEF DownFrames, UpFrames, WrOver, wr
    <3> QED
      BY <1>2, <1>3, <2>1, <3>1, LineToWr, LineItems DEF LinesOK
  <2>5. report' = [good |-> good, bad |-> bad]
    BY <2>1, <2>2 DEF EotFrame
  <2>6. ScalarsOK'
    BY <1>1, <2>1, <2>5 DEF ScalarsOK, HostEnded, wr
  <2>7. HostPosition' /\ ReportTrue'
    BY <1>1, <2>1, <2>2, <2>5 DEF HostPosition, ReportTrue, WrOver, wr
  <2>8. WrPosition' /\ DriveTrue' /\ TalliesExact'
    BY <1>1, <2>1, <2>3, QuietHost
  <2> QED
    BY <2>4, <2>6, <2>7, <2>8
<1>8. CASE HostSkip
  <2>1. /\ hpc = "eot" /\ up # <<>> /\ UNCHANGED <<wr, host>>
        /\ up' = Tail(up) \/ up' \in Leftovers(Tail(up))
        /\ down' \in {down} \cup ToWr(Byte("NAK"))
    BY <1>8 DEF HostSkip
  <2>2. LinesOK'
    <3>1. DownFrames' = DownFrames /\ UpFrames' = UpFrames
      BY <2>1 DEF DownFrames, UpFrames, Undecided, WrOver, wr, host
    <3>2. up' \in Line(UpFrames)
      BY <1>3, <2>1, LineLeftovers, LineItems
    <3> QED
      BY <1>2, <2>1, <3>1, <3>2, LineToWr, LineItems DEF LinesOK
  <2>3. ScalarsOK' /\ HostPosition' /\ ReportTrue'
    BY <1>1, <2>1 DEF ScalarsOK, HostPosition, ReportTrue, WrOver, wr, host
  <2>4. WrPosition' /\ DriveTrue' /\ TalliesExact'
    BY <2>1, QuietHost DEF Undecided, host
  <2> QED
    BY <2>2, <2>3, <2>4
<1> QED
  BY <1>5, <1>6, <1>7, <1>8

\* The line's faults: neither side moves, and what they leave is noise or less.
LEMMA FaultsKeep ==
  ASSUME RestoreInv, Corrupt \/ Lose \/ Noise
  PROVE  RestoreInv'
<1> USE DEF RestoreInv
<1>1. UNCHANGED <<wr, host>> /\ faults < MaxFaults /\ faults' = faults + 1
  BY DEF Corrupt, Lose, Noise, Fault
<1>2. down \in Line(DownFrames) /\ up \in Line(UpFrames)
  BY DEF LinesOK
<1>3. LinesOK'
  <2>1. DownFrames' = DownFrames /\ UpFrames' = UpFrames
    BY <1>1 DEF DownFrames, UpFrames, Undecided, WrOver, wr, host
  <2>2. up' \in Line(UpFrames) /\ down' \in Line(DownFrames)
    <3>1. CASE Corrupt
      BY <1>2, <3>1, LineDamaged, LineItems DEF Corrupt, Exposed
    <3>2. CASE Lose
      BY <1>2, <3>2, LineTail DEF Lose, Exposed
    <3>3. CASE Noise
      BY <1>2, <3>3, LineToHost, LineToWr, LineItems DEF Noise
    <3> QED
      BY <3>1, <3>2, <3>3
  <2> QED
    BY <2>1, <2>2 DEF LinesOK
<1>4. ScalarsOK'
  <2>1. faults' \in 0 .. MaxFaults
    BY <1>1, FaultAssumption DEF ScalarsOK
  <2> QED
    BY <1>1, <2>1 DEF ScalarsOK, wr, host
<1>5. HostPosition' /\ ReportTrue'
  BY <1>1 DEF HostPosition, ReportTrue, WrOver, wr, host
<1>6. WrPosition' /\ DriveTrue' /\ TalliesExact'
  BY <1>1, QuietHost DEF Undecided, host
<1> QED
  BY <1>3, <1>4, <1>5, <1>6

LEMMA RestoreStep == RestoreInv /\ [Next]_vars => RestoreInv'
<1> SUFFICES ASSUME RestoreInv, [Next]_vars
             PROVE  RestoreInv'
  OBVIOUS
<1>1. CASE Confirm \/ WrInfo \/ WrAccept \/ WrNoCommand
  BY <1>1, HandshakeKeeps
<1>2. CASE WrNextRange \/ WrRangeDone \/ WrDoSector
  BY <1>2, WalkKeeps
<1>3. CASE WrWrite
  BY <1>3, WriteKeeps
<1>4. CASE WrDup \/ WrReject
  BY <1>4, DropKeeps
<1>5. CASE WrEot \/ WrEotReply
  BY <1>5, EotKeeps
<1>6. CASE HostInfo \/ HostStop \/ HostNextRange \/ HostReply
  BY <1>6, HostWalkKeeps
<1>7. CASE HostStart \/ HostSend \/ HostEot \/ HostSkip
  BY <1>7, HostSendKeeps
<1>8. CASE Corrupt \/ Lose \/ Noise
  BY <1>8, FaultsKeep
<1>9. CASE UNCHANGED vars
  <2>1. UNCHANGED <<wr, host, down, up, faults>>
    BY <1>9 DEF vars
  <2>2. ScalarsOK' /\ HostPosition' /\ ReportTrue'
    BY <2>1 DEF RestoreInv, ScalarsOK, HostPosition, ReportTrue, WrOver, wr, host
  <2>3. WrPosition' /\ DriveTrue' /\ TalliesExact'
    BY <2>1, QuietHost DEF Undecided, host
  <2>4. LinesOK'
    BY <2>1 DEF RestoreInv, LinesOK, DownFrames, UpFrames, Undecided, WrOver, wr, host
  <2> QED
    BY <2>2, <2>3, <2>4 DEF RestoreInv
<1> QED
  BY <1>1, <1>2, <1>3, <1>4, <1>5, <1>6, <1>7, <1>8, <1>9 DEF Next, WrNext, HostNext

---------------------------------------------------------------------------
(* The theorems *)

\* The invariant behind the theorems holds throughout a restore.
THEOREM RestoreInvariant == Spec => []RestoreInv
<1>1. Init => RestoreInv
  BY RestoreInit
<1>2. RestoreInv /\ [Next]_vars => RestoreInv'
  BY RestoreStep
<1> QED
  BY <1>1, <1>2, PTL DEF Spec

\* What either side sends is one of the protocol's frames.
LEMMA FramesKnown ==
  ASSUME RestoreInv
  PROVE  DownFrames \subseteq Frames /\ UpFrames \subseteq Frames
<1>1. work \in Worklist /\ good \in Nat /\ bad \in Nat
  BY DEF RestoreInv, ScalarsOK
<1>2. \A l \in Covered(work) : DataFrame(l, Content(l)) \in Frames
  <2>1. \A l \in Covered(work) : l \in Sectors /\ Content(l) \in Sectors \cup {Pad}
    BY <1>1, CoveredOnDisk DEF Content
  <2> QED
    BY <2>1 DEF DataFrame, Frames
<1>3. CmdFrame(work) \in Frames /\ EotFrame(good, bad) \in Frames
  BY <1>1 DEF CmdFrame, EotFrame, Frames
<1>4. {InfoFrame, Garbled, Byte("ACK"), Byte("NAK")} \subseteq Frames
  BY DEF Frames
<1> QED
  BY <1>2, <1>3, <1>4 DEF DownFrames, UpFrames

\* The variables of restore_run and wr.S keep their types: WR's walk stays inside
\* the worklist it was sent and on the drive, the budgets of sends are kept, and
\* the line holds frames of the protocol only.
THEOREM TypeCorrect == Spec => []TypeOK
<1>1. RestoreInv => TypeOK
  <2> SUFFICES ASSUME RestoreInv PROVE TypeOK
    OBVIOUS
  <2>1. \A q \in {up, down} : q \in Line(Frames)
    BY FramesKnown, LineGrows DEF RestoreInv, LinesOK
  <2>2. \A q \in {up, down} : q \in Seq(Frames) /\ Len(q) <= MaxLine
    BY <2>1 DEF Line
  <2> QED
    BY <2>2 DEF TypeOK, RestoreInv, ScalarsOK
<1> QED
  BY <1>1, RestoreInvariant, PTL

\* WR only ever handles sectors of the host's worklist.
LEMMA HandledIsAsked ==
  ASSUME RestoreInv
  PROVE  handled \subseteq Covered(work)
<1> USE DEF RestoreInv
<1>1. Covered(<<>>) = {} /\ wranges \in Worklist /\ work \in Worklist
  BY DEF Covered, ScalarsOK
<1>2. CASE wpc \in {"confirm", "tx_info", "recv_command"}
  BY <1>2 DEF WrPosition
<1>3. CASE WrOver
  BY <1>1, <1>3 DEF WrOver, WrPosition
<1>4. CASE wpc \in {"next_range", "range_loop", "recv_data"}
  <2>1. wranges = work /\ Len(work) \in 0 .. MaxR
    BY <1>1, <1>4, WorklistFacts DEF WrPosition
  <2>2. CASE wpc = "next_range"
    <3>1. wri \in 1 .. Len(work) + 1 /\ handled = Before(work, wri)
      BY <2>1, <2>2, MaxRAssumption DEF WrPosition, ScalarsOK
    <3>2. CASE wri = Len(work) + 1
      BY <1>1, <3>1, <3>2, BeforeSteps
    <3>3. CASE wri \in 1 .. Len(work)
      BY <1>1, <3>1, <3>3, CoveredOnDisk
    <3> QED
      BY <2>1, <3>1, <3>2, <3>3, MaxRAssumption
  <2>3. CASE wpc \in {"range_loop", "recv_data"}
    <3>1. /\ wri \in 1 .. Len(work) /\ wlba \in 0 .. Total
          /\ work[wri][1] <= wlba /\ wlba <= work[wri][2]
          /\ handled = Before(work, wri) \cup (work[wri][1] .. wlba - 1)
      BY <2>1, <2>3, MaxRAssumption DEF WrPosition, ScalarsOK
    <3>2. (work[wri][1] .. wlba - 1) \subseteq Members(work[wri])
      BY <1>1, <3>1, WorklistFacts, TotalAssumption DEF Members
    <3> QED
      BY <1>1, <3>1, <3>2, CoveredOnDisk
  <2> QED
    BY <1>4, <2>2, <2>3
<1> QED
  BY <1>2, <1>3, <1>4 DEF ScalarsOK, WrOver

\* Whatever the line loses, cuts, repeats or delays, no sector of the drive is
\* written with another sector's contents (wr.S compares rlba with lba), and none
\* outside the worklist the host sent is written at all.
THEOREM DriveIsAligned == Spec => []DriveAligned
<1>1. RestoreInv => DriveAligned
  BY HandledIsAsked DEF RestoreInv, DriveTrue, DriveAligned
<1> QED
  BY <1>1, RestoreInvariant, PTL

\* ds_dup keeps a repeated sector out of the tallies: good_lo counts the sectors
\* written, and bad_lo those that were tried and not written.
THEOREM TalliesAreExact == Spec => []TalliesExact
<1>1. RestoreInv => TalliesExact
  BY DEF RestoreInv
<1> QED
  BY <1>1, RestoreInvariant, PTL

\* When restore_run prints "Clone complete" and nobody pressed ESC, every sector
\* of the worklist was written or tried, and the two numbers it prints are how
\* many of them were written and how many were not.
THEOREM CloneIsComplete == Spec => []CompleteMeansCloned
<1>1. RestoreInv => CompleteMeansCloned
  <2> SUFFICES ASSUME RestoreInv, hpc = "done", ~aborted, Disjoint(work)
               PROVE  /\ handled = Covered(work)
                      /\ report = [good |-> Cardinality(Written),
                                   bad |-> Cardinality(Covered(work) \ Written)]
    BY DEF CompleteMeansCloned
  <2> USE DEF RestoreInv
  <2>1. WrOver /\ wranges = work /\ report = [good |-> good, bad |-> bad]
    BY DEF ReportTrue
  <2>2. handled = Covered(work)
    BY <2>1 DEF WrPosition
  <2>3. good = Cardinality(Written) /\ good + bad = Cardinality(handled)
    BY <2>1 DEF TalliesExact
  <2>4. IsFiniteSet(handled) /\ IsFiniteSet(Written) /\ Written \subseteq handled
    BY SectorsFinite DEF ScalarsOK, Written, DriveTrue
  <2>5. handled \cap Written = Written
    BY <2>4
  <2>6. Cardinality(handled \ Written) = Cardinality(handled) - Cardinality(Written)
    BY <2>4, <2>5, FS_Difference
  <2>7. good \in Nat /\ bad \in Nat
    BY DEF ScalarsOK
  <2>8. bad = Cardinality(handled \ Written)
    BY <2>3, <2>6, <2>7
  <2> QED
    BY <2>1, <2>2, <2>3, <2>8
<1> QED
  BY <1>1, RestoreInvariant, PTL

---------------------------------------------------------------------------
(* Refinement *)

Asked == Specs \cup {FullImage}

\* What may be on the way to WR while no worklist was sent.
Plain == {Garbled, Byte("ACK"), Byte("NAK")}

\* The host streams a worklist it was asked for, and before it has one it sends
\* WR neither a worklist nor sectors.
AskedInv ==
  /\ hpc \in {"send", "reply", "eot"} => work \in Asked
  /\ work \in Asked \/ down \in Line(Plain)

LEMMA AskedStep ==
  ASSUME RestoreInv, AskedInv, [Next]_vars
  PROVE  AskedInv'
<1>1. CASE HostStart
  BY <1>1 DEF HostStart, AskedInv, Asked
<1>2. CASE ~HostStart
  <2>1. work' = work /\ (hpc' \in {"send", "reply", "eot"} => hpc \in {"send", "reply", "eot"})
    BY <1>2 DEF Next, Confirm, WrNext, WrInfo, WrAccept, WrNoCommand, WrNextRange, WrRangeDone,
       WrDoSector, WrWrite, WrDup, WrReject, WrEot, WrEotReply, HostNext, HostInfo, HostStop,
       HostNextRange, HostSend, HostReply, HostEot, HostSkip, Corrupt, Lose, Noise, wr, host, vars
  <2>2. CASE work \in Asked
    BY <2>1, <2>2 DEF AskedInv
  <2>3. CASE work \notin Asked
    <3>1. hpc \notin {"send", "reply", "eot"} /\ down \in Line(Plain)
      BY <2>3 DEF AskedInv
    <3>2. Garbled \in Plain
      BY DEF Plain
    <3>3. down # <<>> => Tail(down) \in Line(Plain) /\ [down EXCEPT ![1] = Garbled] \in Line(Plain)
      BY <3>1, <3>2, LineTail, LineDamaged
    <3>4. Leftovers(down) \subseteq Line(Plain) /\ ToWr(Garbled) \subseteq Line(Plain)
      BY <3>1, <3>2, LineLeftovers, LineToWr
    <3>5. down' \in Line(Plain)
      <4>1. CASE UNCHANGED down
        BY <3>1, <4>1
      <4>2. CASE WrInfo
        BY <3>4, <4>2 DEF WrInfo
      <4>3. CASE WrAccept \/ WrWrite \/ WrDup
        BY <3>3, <4>3 DEF WrAccept, WrWrite, WrDup
      <4>4. CASE WrNoCommand
        BY <3>3, <3>4, <4>4 DEF WrNoCommand
      <4>5. CASE WrReject
        BY <3>3, <3>4, <4>5 DEF WrReject
      <4>6. CASE WrEotReply
        BY <3>4, <4>6 DEF WrEotReply
      <4>7. CASE Corrupt
        BY <3>1, <3>3, <4>7 DEF Corrupt, Exposed
      <4>8. CASE Lose
        BY <3>1, <3>3, <4>8 DEF Lose, Exposed
      <4>9. CASE Noise
        BY <3>1, <3>4, <4>9 DEF Noise
      <4>10. CASE Confirm \/ WrNextRange \/ WrRangeDone \/ WrDoSector \/ WrEot
                  \/ HostInfo \/ HostStop \/ HostNextRange \/ HostReply
        BY <3>1, <4>10 DEF Confirm, WrNextRange, WrRangeDone, WrDoSector, WrEot, HostInfo, HostStop,
           HostNextRange, HostReply
      <4>11. ~(HostSend \/ HostEot \/ HostSkip)
        BY <3>1 DEF HostSend, HostEot, HostSkip
      <4> QED
        BY <1>2, <4>1, <4>2, <4>3, <4>4, <4>5, <4>6, <4>7, <4>8, <4>9, <4>10, <4>11
        DEF Next, WrNext, HostNext, vars
    <3> QED
      BY <2>1, <3>1, <3>5 DEF AskedInv
  <2> QED
    BY <2>2, <2>3
<1> QED
  BY <1>1, <1>2

LEMMA AskedInvariant == Spec => []AskedInv
<1>1. Init => AskedInv
  <2> SUFFICES ASSUME Init PROVE AskedInv
    OBVIOUS
  <2>1. hpc = "info" /\ down = <<>>
    BY DEF Init
  <2>2. <<>> \in Line(Plain)
    BY EmptySeq, FaultAssumption DEF Line
  <2> QED
    BY <2>1, <2>2 DEF AskedInv
<1>2. RestoreInv /\ AskedInv /\ [Next]_vars => AskedInv'
  BY AskedStep
<1> QED
  BY <1>1, <1>2, RestoreInvariant, PTL DEF Spec

\* The same words in Clone.
LEMMA CloneNames ==
  /\ C!Sectors = Sectors
  /\ \A r : C!Members(r) = Members(r)
  /\ \A w : C!Places(w) = {p \in (DOMAIN w) \X Sectors : p[2] \in Members(w[p[1]])}
BY DEF C!Sectors, Sectors, C!Members, Members, C!Places

LEMMA PhaseIs ==
  /\ wpc \in {"confirm", "tx_info", "recv_command"} => Phase = "idle"
  /\ wpc \in {"next_range", "range_loop", "recv_data"} => Phase = "walk"
  /\ WrOver /\ hpc # "done" => Phase = "over"
  /\ WrOver /\ hpc = "done" => Phase = "told"
BY DEF Phase, Linked, WrOver

\* Before WR has a worklist there is nothing ahead of it.
LEMMA NothingAhead ==
  ASSUME wranges = <<>>
  PROVE  Ahead = {}
BY DEF Ahead

\* WR's start: the whole worklist is ahead.
LEMMA BeginIsBegin ==
  ASSUME RestoreInv, AskedInv, WrAccept
  PROVE  C!Begin
<1>1. /\ wpc = "recv_command" /\ wpc' = "next_range" /\ wri' = 1 /\ wranges' = down[1].ranges
      /\ good' = 0 /\ bad' = 0 /\ UNCHANGED <<aborted, drive, report>>
      /\ down # <<>> /\ down[1].type = "C"
  BY DEF WrAccept, host
<1>2. wranges' = work /\ work \in Asked /\ work \in Worklist
  <2>1. down \in Line(DownFrames) /\ work \in Worklist
    BY DEF RestoreInv, LinesOK, ScalarsOK
  <2>2. down[1] \in DownFrames
    BY <1>1, <2>1, LineTail
  <2>3. down[1] = CmdFrame(work)
    BY <1>1, <2>2 DEF DownFrames, CmdFrame, DataFrame, Byte, Garbled
  <2>4. down \notin Line(Plain)
    <3> SUFFICES ASSUME down \in Line(Plain) PROVE FALSE
      OBVIOUS
    <3>1. down[1] \in Plain
      BY <1>1, LineTail
    <3> QED
      BY <1>1, <3>1 DEF Plain, Byte, Garbled
  <2> QED
    BY <1>1, <2>1, <2>3, <2>4 DEF AskedInv, CmdFrame
<1>3. Ahead' = C!Places(work)
  <2>1. DOMAIN work = 1 .. Len(work) /\ Len(work) \in Nat
    BY <1>2, WorklistFacts
  <2>2. Ahead' = {p \in (DOMAIN work) \X Sectors : p[2] \in Members(work[p[1]])
                                                     /\ (p[1] > 1 \/ p[1] = 1)}
    BY <1>1, <1>2 DEF Ahead
  <2>3. \A p \in (DOMAIN work) \X Sectors : p[1] > 1 \/ p[1] = 1
    BY <2>1
  <2> QED
    BY <2>2, <2>3, CloneNames
<1>4. Phase = "idle" /\ Phase' = "walk"
  BY <1>1, PhaseIs DEF Phase, Linked
<1> QED
  BY <1>1, <1>2, <1>3, <1>4 DEF C!Begin, Asked

\* Going from a range to the next moves past nothing, and at the end of the
\* worklist nothing is ahead.
LEMMA WalkIsQuiet ==
  ASSUME RestoreInv, WrNextRange \/ WrRangeDone \/ WrDoSector
  PROVE  C!End \/ UNCHANGED C!vars
<1>1. /\ UNCHANGED <<wranges, good, bad, drive, report, hpc>>
      /\ wpc \in {"next_range", "range_loop"}
  BY DEF WrNextRange, WrRangeDone, WrDoSector, host
<1>2. /\ wranges \in Worklist /\ Len(wranges) \in 0 .. MaxR
      /\ ~WrOver /\ ~aborted
      /\ \A i \in 1 .. Len(wranges) : /\ wranges[i][1] \in 0 .. Total
                                      /\ wranges[i][2] \in 0 .. Total
                                      /\ wranges[i][1] <= wranges[i][2]
  BY <1>1, WalkFacts
<1>3. /\ DOMAIN wranges = 1 .. Len(wranges) /\ wri \in Nat /\ wlba \in Nat /\ wri >= 1
      /\ hpc # "done"
  BY <1>2, WorklistFacts, MaxRAssumption, TotalAssumption DEF RestoreInv, ScalarsOK, ReportTrue
<1>4. CASE WrNextRange /\ wri <= Len(wranges)
  <2>1. wlba' = wranges[wri][1] /\ wpc' = "range_loop" /\ wpc = "next_range" /\ UNCHANGED <<wri, aborted>>
    BY <1>4 DEF WrNextRange
  <2>2. ASSUME NEW p \in (DOMAIN wranges) \X Sectors, p[2] \in Members(wranges[p[1]]), p[1] = wri
        PROVE  p[2] >= wlba'
    BY <1>2, <1>3, <1>4, <2>1, <2>2, TotalAssumption DEF Members, Sectors
  <2>3. Ahead' = Ahead
    BY <1>1, <2>1, <2>2 DEF Ahead
  <2>4. Phase' = Phase
    BY <2>1 DEF Phase, Linked
  <2> QED
    BY <1>1, <2>1, <2>3, <2>4 DEF C!vars
<1>5. CASE WrNextRange /\ ~(wri <= Len(wranges))
  <2>1. wlba' = wlba /\ wpc' = "send_eot" /\ wpc = "next_range" /\ UNCHANGED <<wri, aborted>>
    BY <1>5 DEF WrNextRange
  <2>2. \A p \in (DOMAIN wranges) \X Sectors : ~(p[1] > wri) /\ p[1] # wri
    BY <1>2, <1>3, <1>5
  <2>3. Ahead = {} /\ Ahead' = {}
    BY <1>1, <2>1, <2>2 DEF Ahead
  <2>4. Phase = "walk" /\ Phase' = "over"
    BY <1>1, <1>3, <2>1 DEF Phase, Linked
  <2>5. aborted' = FALSE
    BY <1>2, <2>1 DEF RestoreInv, ScalarsOK
  <2> QED
    BY <1>1, <2>3, <2>4, <2>5 DEF C!End
<1>6. CASE WrRangeDone
  <2>1. /\ wlba' = wlba /\ wpc' = "next_range" /\ wpc = "range_loop" /\ wri' = wri + 1
        /\ UNCHANGED aborted /\ wlba >= wranges[wri][2]
    BY <1>6 DEF WrRangeDone
  <2>2. ASSUME NEW p \in (DOMAIN wranges) \X Sectors, p[2] \in Members(wranges[p[1]])
        PROVE  (p[1] > wri \/ (p[1] = wri /\ p[2] >= wlba)) <=> (p[1] > wri + 1 \/ p[1] = wri + 1)
    <3>1. p[1] \in 1 .. Len(wranges) /\ p[2] \in Int /\ p[2] < wranges[p[1]][2] /\ Len(wranges) \in Int
      BY <1>2, <1>3, <2>2, TotalAssumption DEF Members, Sectors
    <3>2. p[1] = wri => ~(p[2] >= wlba)
      <4> SUFFICES ASSUME p[1] = wri PROVE ~(p[2] >= wlba)
        OBVIOUS
      <4>1. PICK e \in Int : e = wranges[wri][2]
        BY <1>2, <3>1
      <4> QED
        BY <1>3, <2>1, <3>1, <4>1
    <3> QED
      BY <1>3, <3>1, <3>2
  <2>3. Ahead' = Ahead
    BY <1>1, <2>1, <2>2 DEF Ahead
  <2>4. Phase' = Phase
    BY <2>1 DEF Phase, Linked
  <2> QED
    BY <1>1, <2>1, <2>3, <2>4 DEF C!vars
<1>7. CASE WrDoSector
  <2>1. /\ wpc = "range_loop" /\ wlba < wranges[wri][2] /\ UNCHANGED <<wri, wlba>>
        /\ \/ wpc' = "send_eot" /\ aborted' = TRUE
           \/ wpc' = "recv_data" /\ aborted' = aborted
    BY <1>7 DEF WrDoSector
  <2>2. Ahead' = Ahead
    BY <1>1, <2>1 DEF Ahead
  <2>3. CASE wpc' = "recv_data" /\ aborted' = aborted
    <3>1. Phase' = Phase
      BY <2>1, <2>3 DEF Phase, Linked
    <3> QED
      BY <1>1, <2>2, <2>3, <3>1 DEF C!vars
  <2>4. CASE wpc' = "send_eot" /\ aborted' = TRUE
    <3>1. Phase = "walk" /\ Phase' = "over"
      BY <1>1, <1>3, <2>1, <2>4 DEF Phase, Linked
    <3>2. wri \in DOMAIN wranges /\ wlba \in Members(wranges[wri])
      BY <1>2, <1>3, <2>1 DEF RestoreInv, WrPosition, Members
    <3>3. wlba \in Sectors
      BY <1>2, <1>3, <3>2, CoveredOnDisk
    <3>4. <<wri, wlba>> \in Ahead
      BY <1>3, <3>2, <3>3 DEF Ahead
    <3> QED
      BY <1>1, <2>2, <2>4, <3>1, <3>4 DEF C!End
  <2> QED
    BY <2>1, <2>3, <2>4
<1> QED
  BY <1>4, <1>5, <1>6, <1>7

\* A write, or a failed one, handles the first place that is ahead.
LEMMA WriteIsHandle ==
  ASSUME RestoreInv, WrWrite
  PROVE  C!Handle
<1>1. /\ wpc = "recv_data" /\ wpc' = "range_loop" /\ wlba' = wlba + 1
      /\ down # <<>> /\ down[1].type = "D" /\ down[1].lba = wlba
      /\ UNCHANGED <<wranges, wri, aborted, report>>
      /\ \/ drive' = [drive EXCEPT ![wlba] = down[1].data] /\ good' = good + 1 /\ bad' = bad
         \/ drive' = drive /\ bad' = bad + 1 /\ good' = good
  BY DEF WrWrite, host
<1>2. /\ wranges \in Worklist /\ Len(wranges) \in 0 .. MaxR /\ ~Undecided
      /\ \A i \in 1 .. Len(wranges) : /\ wranges[i][1] \in 0 .. Total
                                      /\ wranges[i][2] \in 0 .. Total
  BY <1>1, WalkFacts
<1>3. /\ DOMAIN wranges = 1 .. Len(wranges) /\ wri \in 1 .. Len(wranges) /\ wlba \in Nat
      /\ wranges[wri][1] <= wlba /\ wlba < wranges[wri][2]
  BY <1>1, <1>2, WorklistFacts, MaxRAssumption, TotalAssumption, SMTT(30)
  DEF RestoreInv, ScalarsOK, WrPosition
<1>4. wlba \in Members(wranges[wri]) /\ wlba \in Sectors
  <2>1. wlba \in Members(wranges[wri])
    BY <1>2, <1>3 DEF Members
  <2> QED
    BY <1>2, <1>3, <2>1, CoveredOnDisk
<1>5. down[1].data = Content(wlba)
  <2>1. down \in Line(DownFrames)
    BY DEF RestoreInv, LinesOK
  <2>2. down[1] \in DownFrames
    BY <1>1, <2>1, LineTail
  <2>3. PICK l \in Covered(work) : down[1] = DataFrame(l, Content(l))
    BY <1>1, <1>2, <2>2 DEF DownFrames, CmdFrame, Byte, Garbled
  <2> QED
    BY <1>1, <2>3 DEF DataFrame
<1>6. PICK h : h = <<wri, wlba>>
  OBVIOUS
<1>7. Ahead = {p \in (DOMAIN wranges) \X Sectors :
                 p[2] \in Members(wranges[p[1]]) /\ (p[1] > wri \/ (p[1] = wri /\ p[2] >= wlba))}
  BY <1>1 DEF Ahead
<1>8. Ahead' = {p \in (DOMAIN wranges) \X Sectors :
                  p[2] \in Members(wranges[p[1]]) /\ (p[1] > wri \/ (p[1] = wri /\ p[2] >= wlba + 1))}
  BY <1>1 DEF Ahead
<1>9. h \in Ahead /\ h[2] = wlba
  BY <1>3, <1>4, <1>6, <1>7
<1>10. ASSUME NEW q \in Ahead, q # h
       PROVE  q \in Ahead' /\ C!Sooner(h, q)
  <2>1. q \in (DOMAIN wranges) \X Sectors /\ q[2] \in Members(wranges[q[1]])
    BY <1>7
  <2>2. q = <<q[1], q[2]>> /\ q[1] \in Int /\ q[2] \in Int
    BY <1>2, <1>3, <2>1, TotalAssumption DEF Sectors
  <2>3. CASE q[1] > wri
    BY <1>3, <1>6, <1>8, <2>1, <2>2, <2>3 DEF C!Sooner
  <2>4. CASE q[1] = wri /\ q[2] >= wlba
    <3>1. q[2] # wlba
      BY <1>6, <1>10, <2>2, <2>4
    <3>2. q[2] >= wlba + 1 /\ wlba < q[2]
      BY <1>3, <2>2, <2>4, <3>1
    <3> QED
      BY <1>6, <1>8, <2>1, <2>4, <3>2 DEF C!Sooner
  <2> QED
    BY <1>7, <2>3, <2>4
<1>11. ASSUME NEW q \in Ahead' PROVE q \in Ahead /\ q # h
  <2>1. /\ q \in (DOMAIN wranges) \X Sectors /\ q[2] \in Members(wranges[q[1]])
        /\ q[1] > wri \/ (q[1] = wri /\ q[2] >= wlba + 1)
    BY <1>8
  <2>2. q[1] \in Int /\ q[2] \in Int
    BY <1>2, <1>3, <2>1, TotalAssumption DEF Sectors
  <2>3. q[1] > wri \/ (q[1] = wri /\ q[2] >= wlba /\ q[2] # wlba)
    BY <1>3, <2>1, <2>2
  <2>4. q # h
    BY <1>3, <1>6, <2>2, <2>3
  <2> QED
    BY <1>7, <2>1, <2>3, <2>4
<1>12. Ahead' = Ahead \ {h}
  BY <1>9, <1>10, <1>11
<1>13. Phase = "walk" /\ Phase' = "walk"
  BY <1>1 DEF Phase, Linked
<1>14. \/ drive' = [drive EXCEPT ![h[2]] = Content(h[2])] /\ good' = good + 1 /\ bad' = bad
       \/ drive' = drive /\ good' = good /\ bad' = bad + 1
  BY <1>1, <1>5, <1>9
<1>15. \A q \in Ahead \ {h} : C!Sooner(h, q)
  BY <1>10
<1>16. aborted' = aborted /\ report' = report
  BY <1>1
<1> QED
  BY <1>9, <1>12, <1>13, <1>14, <1>15, <1>16 DEF C!Handle

\* What the host prints are the tallies WR ended with.
LEMMA EotIsReport ==
  ASSUME RestoreInv, HostEot
  PROVE  C!MakeReport
<1>1. /\ hpc = "eot" /\ hpc' = "done" /\ up # <<>> /\ up[1].type = "E"
      /\ report' = [good |-> up[1].good, bad |-> up[1].bad]
      /\ UNCHANGED <<wpc, wranges, wri, wlba, aborted, drive, good, bad>>
  BY DEF HostEot, wr
<1>2. up \in Line(UpFrames)
  BY DEF RestoreInv, LinesOK
<1>3. up[1] \in UpFrames
  BY <1>1, <1>2, LineTail
<1>4. WrOver /\ up[1] = EotFrame(good, bad)
  BY <1>1, <1>3 DEF UpFrames, InfoFrame, Byte, Garbled
<1>5. report' = [good |-> good, bad |-> bad]
  BY <1>1, <1>4 DEF EotFrame
<1>6. Phase = "over" /\ Phase' = "told"
  BY <1>1, <1>4 DEF Phase, Linked, WrOver
<1>7. Ahead' = Ahead
  BY <1>1 DEF Ahead
<1> QED
  BY <1>1, <1>5, <1>6, <1>7 DEF C!MakeReport

\* A restore over any line implements Clone, for every drive, image, worklist,
\* retry budget and any faults: WR goes through the host's worklist in order,
\* handles each place of it once however often its frame is sent, writes and
\* counts in one step, and rx.py prints the counts WR ended with.
THEOREM ImplementsClone == Spec => CloneSpec
<1>1. Init => C!Init
  <2> SUFFICES ASSUME Init PROVE C!Init
    OBVIOUS
  <2>1. Phase = "idle" /\ Ahead = {}
    BY NothingAhead DEF Init, Phase, Linked
  <2> QED
    BY <2>1, CloneNames DEF Init, C!Init
<1>2. RestoreInv /\ AskedInv /\ [Next]_vars => [C!Next]_C!vars
  <2> SUFFICES ASSUME RestoreInv, AskedInv, [Next]_vars PROVE [C!Next]_C!vars
    OBVIOUS
  <2>1. CASE Confirm
    <3>1. wpc = "confirm" /\ UNCHANGED <<wranges, aborted, drive, good, bad, report, hpc>>
      BY <2>1 DEF Confirm, host
    <3>2. wranges = <<>> /\ hpc # "done"
      BY <3>1 DEF RestoreInv, WrPosition, ReportTrue, WrOver
    <3>3. Ahead' = Ahead
      BY <3>1, <3>2 DEF Ahead
    <3>4. CASE wpc' = "tx_info"
      BY <3>1, <3>3, <3>4 DEF C!vars, Phase, Linked
    <3>5. CASE wpc' = "exit"
      <4>1. Phase = "idle" /\ Phase' = "over"
        BY <3>1, <3>2, <3>5 DEF Phase, Linked
      <4> QED
        BY <3>1, <3>3, <4>1 DEF C!Next, C!CallOff
    <3> QED
      BY <2>1, <3>4, <3>5 DEF Confirm
  <2>2. CASE WrInfo \/ WrNoCommand
    <3>1. /\ wpc \in {"tx_info", "recv_command"} /\ wpc' \in {"tx_info", "recv_command"}
          /\ UNCHANGED <<wranges, aborted, drive, good, bad, report>>
      BY <2>2 DEF WrInfo, WrNoCommand, host
    <3>2. wranges = <<>>
      BY <3>1 DEF RestoreInv, WrPosition
    <3>3. Ahead' = Ahead /\ Phase' = Phase
      BY <3>1, <3>2 DEF Ahead, Phase, Linked
    <3> QED
      BY <3>1, <3>3 DEF C!vars
  <2>3. CASE WrAccept
    BY <2>3, BeginIsBegin DEF C!Next
  <2>4. CASE WrNextRange \/ WrRangeDone \/ WrDoSector
    BY <2>4, WalkIsQuiet DEF C!Next
  <2>5. CASE WrWrite
    BY <2>5, WriteIsHandle DEF C!Next
  <2>6. CASE WrDup \/ WrReject
    <3>1. /\ wpc = "recv_data" /\ wpc' \in {"recv_data", "range_loop"}
          /\ UNCHANGED <<wranges, wri, wlba, aborted, drive, good, bad, report>>
      BY <2>6 DEF WrDup, WrReject, wr, host
    <3>2. Ahead' = Ahead /\ Phase' = Phase
      BY <3>1 DEF Ahead, Phase, Linked
    <3> QED
      BY <3>1, <3>2 DEF C!vars
  <2>7. CASE WrEot \/ WrEotReply
    <3>1. /\ wpc \in {"send_eot", "eot_reply"} /\ wpc' \in {"send_eot", "eot_reply", "exit"}
          /\ UNCHANGED <<wranges, wri, wlba, aborted, drive, good, bad, report, hpc>>
      BY <2>7 DEF WrEot, WrEotReply, host
    <3>2. Ahead' = Ahead /\ Phase' = Phase
      BY <3>1 DEF Ahead, Phase, Linked
    <3> QED
      BY <3>1, <3>2 DEF C!vars
  <2>8. CASE HostEot
    BY <2>8, EotIsReport DEF C!Next
  <2>9. CASE UNCHANGED <<wr, report>> /\ (hpc' = "done" <=> hpc = "done")
    <3>1. UNCHANGED <<wpc, wranges, wri, wlba, aborted, drive, good, bad, report>>
      BY <2>9 DEF wr
    <3>2. Ahead' = Ahead /\ Phase' = Phase
      BY <2>9, <3>1 DEF Ahead, Phase, Linked
    <3> QED
      BY <3>1, <3>2 DEF C!vars
  <2>10. HostInfo \/ HostStart \/ HostStop \/ HostNextRange \/ HostSend \/ HostReply \/ HostSkip
           \/ Corrupt \/ Lose \/ Noise \/ UNCHANGED vars
         => UNCHANGED <<wr, report>> /\ (hpc' = "done" <=> hpc = "done")
    BY DEF HostInfo, HostStart, HostStop, HostNextRange, HostSend, HostReply, HostSkip, HostEnded,
       Corrupt, Lose, Noise, host, vars
  <2> QED
    BY <2>1, <2>2, <2>3, <2>4, <2>5, <2>6, <2>7, <2>8, <2>9, <2>10 DEF Next, WrNext, HostNext
<1> QED
  BY <1>1, <1>2, RestoreInvariant, AskedInvariant, PTL DEF Spec, CloneSpec, C!Spec
=============================================================================
