--------------------------- MODULE ImagingProofs ---------------------------
(***************************************************************************)
(* Proofs about Imaging, for every size of disk, worklist and retry budget,*)
(* either build of TX and any faults: the type invariant, the truth of the *)
(* line, of the map and of bad_count, and the refinement of Rescue.        *)
(***************************************************************************)
EXTENDS Imaging, SequenceTheorems, FiniteSetTheorems, TLAPS

---------------------------------------------------------------------------
(* Worklists *)

\* A worklist is a sequence of at most MaxR ranges with their ends on the disk.
LEMMA WorklistFacts ==
  ASSUME NEW w \in Worklist
  PROVE  /\ w \in Seq(LbaRange) /\ Len(w) \in 0 .. MaxR /\ DOMAIN w = 1 .. Len(w)
         /\ \A i \in 1 .. Len(w) : /\ w[i][1] \in 0 .. Total
                                   /\ w[i][2] \in 0 .. Total
<1>1. PICK n \in 0 .. MaxR : w \in [1 .. n -> LbaRange]
  BY DEF Worklist
<1>2. n \in Nat
  BY <1>1, MaxRAssumption
<1>3. w = [i \in 1 .. n |-> w[i]] /\ \A i \in 1 .. n : w[i] \in LbaRange
  BY <1>1
<1>4. w \in Seq(LbaRange) /\ Len(w) = n
  BY <1>1, <1>2, <1>3
<1>5. \A i \in 1 .. n : w[i][1] \in 0 .. Total /\ w[i][2] \in 0 .. Total
  BY <1>1 DEF LbaRange
<1> QED
  BY <1>1, <1>4, <1>5

\* The sectors a worklist covers are sectors of the disk.
LEMMA CoveredOnDisk ==
  ASSUME NEW w \in Worklist
  PROVE  Covered(w) \subseteq Sectors
BY WorklistFacts, TotalAssumption DEF Covered, Members, Sectors

\* A sector inside one of the ranges is covered.
LEMMA InsideIsCovered ==
  ASSUME NEW w \in Worklist, NEW i \in 1 .. Len(w), NEW l \in Int,
         w[i][1] <= l, l < w[i][2]
  PROVE  l \in Covered(w) /\ l \in Sectors
<1>1. l \in Members(w[i])
  BY WorklistFacts DEF Members
<1>2. l \in Covered(w)
  BY <1>1, WorklistFacts DEF Covered
<1> QED
  BY <1>2, CoveredOnDisk

\* Every set of sectors is finite, so it can be counted.
LEMMA SectorsFinite == \A S \in SUBSET Sectors : IsFiniteSet(S)
<1>1. 0 \in Int /\ Total - 1 \in Int
  BY TotalAssumption
<1>2. IsFiniteSet(Sectors)
  BY <1>1, FS_Interval DEF Sectors
<1> QED
  BY <1>2, FS_Subset

---------------------------------------------------------------------------
(* The line *)

\* The tail of a line holds nothing new.
LEMMA FromSeq ==
  ASSUME NEW S, NEW q \in Seq(S), NEW k \in 1 .. Len(q) + 1
  PROVE  From(q, k) \in Seq(S)
BY SubSeqProperties, LenProperties, ElementOfSeq DEF From

\* A line of one kind of items is a line of a wider kind.
LEMMA SeqMono ==
  ASSUME NEW S, NEW T, S \subseteq T, NEW q \in Seq(S)
  PROVE  q \in Seq(T)
BY SMT

LEMMA ToHostSeq ==
  ASSUME NEW S, up \in Seq(S), NEW f \in S
  PROVE  ToHost(f) \in Seq(S)
BY AppendProperties DEF ToHost

LEMMA ToTxSeq ==
  ASSUME NEW S, down \in Seq(S), NEW i \in S
  PROVE  ToTx(i) \in Seq(S)
BY AppendProperties DEF ToTx

\* Flushing the host's input leaves frames of the line, or a damaged one.
LEMMA FlushedUpSeq ==
  ASSUME NEW S, up \in Seq(S), up # <<>>, Garbled \in S
  PROVE  FlushedUp \subseteq Seq(S)
<1> DEFINE rests == {From(up, k) : k \in 2 .. Len(up) + 1}
<1>1. rests \subseteq Seq(S)
  BY FromSeq, LenProperties
<1>2. ASSUME NEW q \in rests, q # <<>>
      PROVE  [q EXCEPT ![1] = Garbled] \in Seq(S)
  BY <1>1, <1>2, ExceptSeq, EmptySeq
<1> QED
  BY <1>1, <1>2 DEF FlushedUp

\* A set of items that reading single bytes of a CMD does not leave.
ClosedUnderReads(S) ==
  \A c \in S : c.type = "CMD" =>
    c.left \in Nat \ {0} /\ \A n \in 1 .. c.left - 1 : CutTo(c, n) \in S

LEMMA DropCmdByteSeq ==
  ASSUME NEW S, ClosedUnderReads(S), NEW q \in Seq(S), q # <<>>, q[1].type = "CMD"
  PROVE  DropCmdByte(q) \in Seq(S)
<1>1. Tail(q) \in Seq(S) /\ 1 \in 1 .. Len(q) /\ q[1] \in S
  BY HeadTailProperties, EmptySeq, ElementOfSeq
<1>2. CASE q[1].left = 1
  BY <1>1, <1>2 DEF DropCmdByte
<1>3. CASE q[1].left # 1
  <2>1. CutTo(q[1], q[1].left - 1) \in S
    BY <1>1, <1>3 DEF ClosedUnderReads
  <2> QED
    BY <1>1, <1>3, <2>1, ExceptSeq DEF DropCmdByte
<1> QED
  BY <1>2, <1>3

LEMMA FlushedDownSeq ==
  ASSUME NEW S, ClosedUnderReads(S), down \in Seq(S)
  PROVE  FlushedDown \subseteq Seq(S)
<1> DEFINE rests == {From(down, k) : k \in 1 .. Len(down) + 1}
<1>1. rests \subseteq Seq(S)
  BY FromSeq, LenProperties
<1>2. ASSUME NEW q \in rests, q # <<>>, q[1].type = "CMD",
             NEW n \in 1 .. q[1].left - 1
      PROVE  [q EXCEPT ![1] = CutTo(q[1], n)] \in Seq(S)
  <2>1. 1 \in 1 .. Len(q) /\ q[1] \in S /\ q \in Seq(S)
    BY <1>1, <1>2, EmptySeq, ElementOfSeq
  <2>2. CutTo(q[1], n) \in S
    BY <1>2, <2>1 DEF ClosedUnderReads
  <2> QED
    BY <2>1, <2>2, ExceptSeq
<1> QED
  BY <1>1, <1>2 DEF FlushedDown

\* A wait for a reply leaves items of the line.
LEMMA WaitReplySeq ==
  ASSUME NEW S, ClosedUnderReads(S), down \in Seq(S), NEW b \in BOOLEAN, WaitReply(b)
  PROVE  down' \in Seq(S)
BY DropCmdByteSeq, HeadTailProperties DEF WaitReply

\* The items the line may hold are closed under reads.
LEMMA CurrentClosed == ClosedUnderReads(CurrentItems)
<1> DEFINE C == [type : {"CMD"}, ranges : {work}, left : Nat \ {0}, whole : BOOLEAN]
<1>1. ASSUME NEW c \in CurrentItems, c.type = "CMD"
      PROVE  c \in C /\ ~Undecided
  BY <1>1 DEF CurrentItems, Byte
<1>2. ASSUME NEW c \in CurrentItems, c.type = "CMD", NEW n \in 1 .. c.left - 1
      PROVE  CutTo(c, n) \in CurrentItems
  <2>1. c \in C /\ ~Undecided
    BY <1>1, <1>2
  <2>2. n \in Nat \ {0}
    BY <2>1
  <2>3. CutTo(c, n) \in C
    BY <2>1, <2>2 DEF CutTo
  <2> QED
    BY <2>1, <2>3 DEF CurrentItems
<1> QED
  BY <1>1, <1>2 DEF ClosedUnderReads

\* What any step may put on the line.
LEMMA LineItems ==
  /\ InfoFrame \in TrueFrames /\ Garbled \in TrueFrames
  /\ \A b \in {"ACK", "NAK", "junk"} : Byte(b) \in CurrentItems
BY DEF TrueFrames, CurrentItems

\* What travels keeps its type.
LEMMA TruthIsTyped ==
  ASSUME work \in Worklist
  PROVE  TrueFrames \subseteq UpFrames /\ CurrentItems \subseteq DownItems
<1>1. ASSUME NEW l \in Covered(work), NEW s \in {"GOOD", "BAD"}
      PROVE  DataFrame(l, s, Expected(l, s)) \in UpFrames
  <2>1. l \in Sectors
    BY CoveredOnDisk
  <2>2. Expected(l, s) \in Contents
    BY <2>1 DEF Expected, Contents
  <2> QED
    BY <2>1, <2>2 DEF DataFrame, UpFrames
<1>2. TrueFrames \subseteq UpFrames
  BY <1>1 DEF TrueFrames, UpFrames
<1>3. CurrentItems \subseteq DownItems
  BY DEF CurrentItems, DownItems
<1> QED
  BY <1>2, <1>3

\* A CMD has at least its head.
LEMMA CmdIsItem ==
  ASSUME NEW w \in Worklist
  PROVE  Cmd(w) \in [type : {"CMD"}, ranges : {w}, left : Nat \ {0}, whole : BOOLEAN]
<1>1. Len(w) \in Nat
  BY WorklistFacts
<1>2. RangeBytes * Len(w) \in Nat
  BY <1>1, CmdAssumption
<1>3. CmdBytes(w) \in Nat \ {0}
  BY <1>2, CmdAssumption DEF CmdBytes
<1> QED
  BY <1>3 DEF Cmd

---------------------------------------------------------------------------
(* The inductive invariant *)

LinkInv == ScalarsOK /\ LineTruthful /\ TxPosition

LEMMA LinkInit == Init => LinkInv
<1> SUFFICES ASSUME Init PROVE LinkInv
  OBVIOUS
<1>1. <<>> \in Worklist
  <2>1. <<>> \in [1 .. 0 -> LbaRange]
    OBVIOUS
  <2> QED
    BY <2>1, MaxRAssumption DEF Worklist
<1>2. image \in [Sectors -> Contents]
  BY DEF Init, Expected, Contents, Marks
<1>3. ScalarsOK
  BY <1>1, <1>2, MaxRAssumption, TotalAssumption, LinkTriesAssumption, FaultAssumption
  DEF Init, ScalarsOK, TxPcs, NoReport, Contents
<1>4. LineTruthful
  BY EmptySeq DEF Init, LineTruthful, Linked, Undecided
<1>5. TxPosition
  BY DEF Init, TxPosition, Linked
<1> QED
  BY <1>3, <1>4, <1>5 DEF LinkInv

\* The steps of TX keep the invariant.
LEMMA TxKeeps == LinkInv /\ TxNext => LinkInv'
<1> SUFFICES ASSUME LinkInv, TxNext PROVE LinkInv'
  OBVIOUS
<1> USE DEF LinkInv
<1>0. UNCHANGED <<host, faults>>
  BY DEF TxNext, TxInfo, AcceptCommand, HuntCommand, CommandFails, NextRange, RangeDone,
         CheckAbort, ReadSector, SendData, DataAcked, DataRetry, SendEot, EotReply, tx
<1>1. TrueFrames' = TrueFrames /\ CurrentItems' = CurrentItems /\ Undecided' = Undecided
  BY <1>0 DEF host, TrueFrames, CurrentItems, Undecided
<1>2. up \in Seq(TrueFrames) /\ down \in Seq(CurrentItems)
  BY DEF LineTruthful
<1>3. /\ ranges \in Seq(LbaRange) /\ Len(ranges) \in 0 .. MaxR
      /\ \A i \in 1 .. Len(ranges) : ranges[i][1] \in 0 .. Total /\ ranges[i][2] \in 0 .. Total
  BY WorklistFacts DEF ScalarsOK
<1>4. down # <<>> => down[1] \in CurrentItems /\ Tail(down) \in Seq(CurrentItems)
  BY <1>2, HeadTailProperties, EmptySeq, ElementOfSeq
<1>5. CASE TxInfo
  <2>1. up' \in Seq(TrueFrames) /\ down' \in Seq(CurrentItems)
    BY <1>2, <1>5, LineItems, CurrentClosed, ToHostSeq, FlushedDownSeq DEF TxInfo
  <2>2. ScalarsOK'
    BY <1>5 DEF TxInfo, ScalarsOK, TxPcs, host
  <2>3. LineTruthful' /\ TxPosition'
    BY <1>1, <1>5, <2>1 DEF TxInfo, LineTruthful, TxPosition, Linked, host
  <2> QED
    BY <2>2, <2>3
<1>6. CASE AcceptCommand
  <2>1. down[1].ranges = work /\ ~Undecided
    BY <1>4, <1>6 DEF AcceptCommand, CurrentItems, Byte
  <2>2. up' \in Seq(TrueFrames) /\ down' \in Seq(CurrentItems)
    BY <1>2, <1>4, <1>6 DEF AcceptCommand
  <2>3. ScalarsOK'
    BY <1>6, <2>1, MaxRAssumption DEF AcceptCommand, ScalarsOK, TxPcs, host
  <2>4. LineTruthful'
    BY <1>1, <1>6, <2>1, <2>2 DEF AcceptCommand, LineTruthful, host
  <2>5. TxPosition'
    BY <1>6, <2>1, WorklistFacts DEF AcceptCommand, TxPosition, Linked, ScalarsOK
  <2> QED
    BY <2>3, <2>4, <2>5
<1>7. CASE HuntCommand
  <2>1. up' \in Seq(TrueFrames) /\ down' \in Seq(CurrentItems)
    BY <1>2, <1>4, <1>7 DEF HuntCommand
  <2>2. ScalarsOK'
    BY <1>7 DEF HuntCommand, ScalarsOK, host, tx
  <2>3. LineTruthful' /\ TxPosition'
    BY <1>1, <1>7, <2>1 DEF HuntCommand, LineTruthful, TxPosition, Linked, host, tx
  <2> QED
    BY <2>2, <2>3
<1>8. CASE CommandFails
  <2>1. up' \in Seq(TrueFrames) /\ down' \in Seq(CurrentItems)
    BY <1>2, <1>8, CurrentClosed, DropCmdByteSeq, FromSeq, LenProperties DEF CommandFails
  <2>2. ScalarsOK'
    BY <1>8 DEF CommandFails, ScalarsOK, TxPcs, host
  <2>3. LineTruthful' /\ TxPosition'
    BY <1>1, <1>8, <2>1 DEF CommandFails, LineTruthful, TxPosition, Linked, host
  <2> QED
    BY <2>2, <2>3
<1>9. CASE NextRange
  <2>1. ScalarsOK'
    BY <1>3, <1>9, LinkTriesAssumption DEF NextRange, ScalarsOK, TxPcs, host
  <2>2. LineTruthful'
    BY <1>1, <1>9 DEF NextRange, LineTruthful, Linked, host
  <2>3. TxPosition'
    BY <1>3, <1>9, LinkTriesAssumption, SMTT(30) DEF NextRange, TxPosition, Linked, ScalarsOK
  <2> QED
    BY <2>1, <2>2, <2>3
<1>10. CASE RangeDone
  <2>1. ScalarsOK'
    BY <1>3, <1>10, MaxRAssumption, SMTT(30) DEF RangeDone, ScalarsOK, TxPosition, TxPcs, host
  <2>2. LineTruthful'
    BY <1>1, <1>10 DEF RangeDone, LineTruthful, Linked, host
  <2>3. TxPosition'
    BY <1>3, <1>10 DEF RangeDone, TxPosition, Linked, ScalarsOK
  <2> QED
    BY <2>1, <2>2, <2>3
<1>11. CASE CheckAbort
  <2>1. ScalarsOK'
    BY <1>11, LinkTriesAssumption DEF CheckAbort, ScalarsOK, TxPcs, host
  <2>2. LineTruthful'
    BY <1>1, <1>11 DEF CheckAbort, LineTruthful, Linked, host
  <2>3. TxPosition'
    BY <1>11, LinkTriesAssumption DEF CheckAbort, TxPosition, Linked
  <2> QED
    BY <2>1, <2>2, <2>3
<1>12. CASE ReadSector
  <2>1. lba \in Sectors
    BY <1>3, <1>12, InsideIsCovered DEF ReadSector, ScalarsOK, TxPosition
  <2>2. ScalarsOK'
    BY <1>12, <2>1, LinkTriesAssumption DEF ReadSector, ScalarsOK, TxPcs, Contents, host
  <2>3. LineTruthful'
    BY <1>1, <1>12 DEF ReadSector, LineTruthful, Linked, host
  <2>4. TxPosition'
    BY <1>12, LinkTriesAssumption DEF ReadSector, TxPosition, Linked, Expected
  <2> QED
    BY <2>2, <2>3, <2>4
<1>13. CASE SendData
  <2>1. ranges = work /\ ~Undecided
    BY <1>13 DEF SendData, LineTruthful, Linked
  <2>2. lba \in Covered(work)
    BY <1>3, <1>13, <2>1, InsideIsCovered DEF SendData, ScalarsOK, TxPosition
  <2>3. DataFrame(lba, status, buf) \in TrueFrames
    BY <1>13, <2>1, <2>2 DEF SendData, ScalarsOK, TxPosition, TrueFrames
  <2>4. up' \in Seq(TrueFrames)
    BY <1>2, <1>13, <2>3, ToHostSeq DEF SendData
  <2>5. ScalarsOK'
    BY <1>13 DEF SendData, ScalarsOK, TxPcs, host
  <2>6. LineTruthful'
    BY <1>1, <1>13, <2>4 DEF SendData, LineTruthful, Linked, host
  <2>7. TxPosition'
    BY <1>13 DEF SendData, TxPosition, Linked
  <2> QED
    BY <2>5, <2>6, <2>7
<1>14. CASE DataAcked
  <2>1. down' \in Seq(CurrentItems)
    BY <1>2, <1>14, CurrentClosed, WaitReplySeq DEF DataAcked
  <2>2. ScalarsOK'
    BY <1>3, <1>14, TotalAssumption DEF DataAcked, ScalarsOK, TxPosition, TxPcs, host
  <2>3. LineTruthful'
    BY <1>1, <1>14, <2>1 DEF DataAcked, LineTruthful, Linked, host
  <2>4. TxPosition'
    BY <1>3, <1>14 DEF DataAcked, TxPosition, Linked, ScalarsOK
  <2> QED
    BY <2>2, <2>3, <2>4
<1>15. CASE DataRetry
  <2>1. down' \in Seq(CurrentItems)
    BY <1>2, <1>15, CurrentClosed, WaitReplySeq DEF DataRetry
  <2>2. ScalarsOK'
    BY <1>15, LinkTriesAssumption DEF DataRetry, ScalarsOK, TxPosition, TxPcs, host
  <2>3. LineTruthful'
    BY <1>1, <1>15, <2>1 DEF DataRetry, LineTruthful, Linked, host
  <2>4. TxPosition'
    BY <1>15 DEF DataRetry, TxPosition, Linked, ScalarsOK
  <2> QED
    BY <2>2, <2>3, <2>4
<1>16. CASE SendEot
  <2>1. EotFrame(good, bad) \in TrueFrames
    BY <1>16 DEF SendEot, LineTruthful, Linked, TrueFrames, EotFrame, ScalarsOK
  <2>2. up' \in Seq(TrueFrames)
    BY <1>2, <1>16, <2>1, ToHostSeq DEF SendEot
  <2>3. ScalarsOK'
    BY <1>16 DEF SendEot, ScalarsOK, TxPcs, host
  <2>4. LineTruthful'
    BY <1>1, <1>16, <2>2 DEF SendEot, LineTruthful, Linked, host
  <2>5. TxPosition'
    BY <1>16 DEF SendEot, TxPosition, Linked
  <2> QED
    BY <2>3, <2>4, <2>5
<1>17. CASE EotReply
  <2>1. down' \in Seq(CurrentItems)
    BY <1>2, <1>17, CurrentClosed, WaitReplySeq DEF EotReply
  <2>2. ScalarsOK'
    BY <1>17, LinkTriesAssumption DEF EotReply, ScalarsOK, TxPosition, TxPcs, host
  <2>3. LineTruthful'
    BY <1>1, <1>17, <2>1 DEF EotReply, LineTruthful, Linked, host
  <2>4. TxPosition'
    BY <1>17 DEF EotReply, TxPosition, Linked, ScalarsOK
  <2> QED
    BY <2>2, <2>3, <2>4
<1> QED
  BY <1>5, <1>6, <1>7, <1>8, <1>9, <1>10, <1>11, <1>12, <1>13, <1>14, <1>15, <1>16, <1>17
  DEF TxNext

\* Once the host has decided, more may be on the line than before.
LEMMA LineGrows ==
  ASSUME Undecided, up \in Seq(TrueFrames), down \in Seq(CurrentItems)
  PROVE  up \in Seq(TrueFrames') /\ down \in Seq(CurrentItems')
<1>1. TrueFrames \subseteq TrueFrames' /\ CurrentItems \subseteq CurrentItems'
  BY DEF TrueFrames, CurrentItems
<1> QED
  BY <1>1, SeqMono

\* The items of the line after a step.
LEMMA LineItemsNext ==
  /\ InfoFrame \in TrueFrames' /\ Garbled \in TrueFrames'
  /\ \A b \in {"ACK", "NAK", "junk"} : Byte(b) \in CurrentItems'
BY DEF TrueFrames, CurrentItems

\* The steps of the host keep the invariant.
LEMMA HostKeeps == LinkInv /\ (HostNext \/ HostInterrupt) => LinkInv'
<1> SUFFICES ASSUME LinkInv, HostNext \/ HostInterrupt PROVE LinkInv'
  OBVIOUS
<1> USE DEF LinkInv
<1>0. UNCHANGED <<tx, faults>>
  BY DEF HostNext, HostInfo, HostOpen, HostRangeError, HostData, HostReject, HostHunt,
         HostReInfo, HostEot, HostInterrupt, host
<1>1. TxPosition'
  BY <1>0 DEF tx, TxPosition, Linked
<1>2. up \in Seq(TrueFrames) /\ down \in Seq(CurrentItems)
  BY DEF LineTruthful
<1>3. up # <<>> => up[1] \in TrueFrames /\ Tail(up) \in Seq(TrueFrames)
  BY <1>2, HeadTailProperties, EmptySeq, ElementOfSeq
<1>4. up # <<>> => FlushedUp \subseteq Seq(TrueFrames)
  BY <1>2, FlushedUpSeq, LineItems
<1>5. ASSUME UNCHANGED <<hpc, work>>
      PROVE  TrueFrames' = TrueFrames /\ CurrentItems' = CurrentItems
  BY <1>5 DEF TrueFrames, CurrentItems, Undecided
<1>6. work \in Worklist => Cmd(work) \in CurrentItems \/ Undecided
  BY CmdIsItem DEF CurrentItems
<1>7. CASE HostInfo
  <2>1. TrueFrames' = TrueFrames /\ CurrentItems' = CurrentItems /\ Undecided' = Undecided
    BY <1>7 DEF HostInfo, TrueFrames, CurrentItems, Undecided
  <2>2. up' \in Seq(TrueFrames) /\ down' \in Seq(CurrentItems)
    BY <1>2, <1>3, <1>4, <1>7 DEF HostInfo
  <2>3. ScalarsOK'
    BY <1>7 DEF HostInfo, ScalarsOK, tx
  <2>4. LineTruthful'
    BY <1>7, <2>1, <2>2 DEF HostInfo, LineTruthful, Linked, tx
  <2> QED
    BY <1>1, <2>3, <2>4
<1>8. CASE HostOpen
  <2>1. work' \in Worklist /\ down' = ToTx(Cmd(work'))
    BY <1>8 DEF HostOpen
  <2>2. image' \in [Sectors -> Contents] /\ statusmap' \in [Sectors -> Marks]
    BY <1>8 DEF HostOpen, OpenImage, ScalarsOK, Contents, Marks
  <2>3. IsFiniteSet({l \in Sectors : statusmap'[l] = "BAD"})
    BY SectorsFinite
  <2>4. bad_count' \in Int
    BY <1>8, <2>3, FS_CardinalityType DEF HostOpen
  <2>5. ScalarsOK'
    BY <1>8, <2>1, <2>2, <2>4 DEF HostOpen, ScalarsOK, tx
  <2>6. up \in Seq(TrueFrames') /\ down \in Seq(CurrentItems')
    BY <1>2, <1>8, LineGrows DEF HostOpen, Undecided
  <2>7. Cmd(work') \in CurrentItems'
    BY <1>8, <2>1, CmdIsItem DEF HostOpen, CurrentItems, Undecided
  <2>8. down' \in Seq(CurrentItems')
    BY <2>1, <2>6, <2>7, ToTxSeq
  <2>9. ~Linked
    BY <1>8 DEF HostOpen, LineTruthful, Undecided
  <2>10. LineTruthful'
    BY <1>8, <2>6, <2>8, <2>9 DEF HostOpen, LineTruthful, Linked, tx
  <2> QED
    BY <1>1, <2>5, <2>10
<1>9. CASE HostRangeError
  <2>1. image' \in [Sectors -> Contents] /\ statusmap' \in [Sectors -> Marks]
    BY <1>9 DEF HostRangeError, OpenImage, ScalarsOK, Contents, Marks
  <2>2. ScalarsOK'
    BY <1>9, <2>1 DEF HostRangeError, ScalarsOK, tx
  <2>3. up \in Seq(TrueFrames') /\ down \in Seq(CurrentItems') /\ ~Linked
    BY <1>2, <1>9, LineGrows DEF HostRangeError, Undecided, LineTruthful
  <2>4. LineTruthful'
    BY <1>9, <2>3 DEF HostRangeError, LineTruthful, Linked, tx
  <2> QED
    BY <1>1, <2>2, <2>4
<1>10. CASE HostData
  <2> DEFINE f == up[1]
  <2>1. /\ f \in TrueFrames /\ f.type = "D"
    BY <1>3, <1>10 DEF HostData
  <2>2. /\ f.lba \in Sectors /\ f.data \in Contents /\ f.status \in {"GOOD", "BAD"}
    <3>1. f \in UpFrames
      BY <2>1, TruthIsTyped DEF ScalarsOK
    <3> QED
      BY <2>1, <3>1 DEF UpFrames, InfoFrame, Garbled
  <2>3. ScalarsOK'
    <3>1. image' \in [Sectors -> Contents] /\ statusmap' \in [Sectors -> Marks]
      BY <1>10, <2>2 DEF HostData, ScalarsOK, Marks
    <3>2. bad_count' \in Int
      BY <1>10 DEF HostData, BadCountStep, ScalarsOK
    <3>3. stored' \subseteq Sectors
      BY <1>10, <2>2 DEF HostData, ScalarsOK
    <3> QED
      BY <1>10, <3>1, <3>2, <3>3 DEF HostData, ScalarsOK, tx
  <2>4. up' \in Seq(TrueFrames) /\ down' \in Seq(CurrentItems)
    BY <1>2, <1>3, <1>10, LineItems, ToTxSeq DEF HostData
  <2>5. LineTruthful'
    BY <1>5, <1>10, <2>4 DEF HostData, LineTruthful, Linked, Undecided, tx
  <2> QED
    BY <1>1, <2>3, <2>5
<1>11. CASE HostReject
  <2>1. up' \in Seq(TrueFrames) /\ down' \in Seq(CurrentItems)
    BY <1>2, <1>4, <1>11, LineItems, ToTxSeq DEF HostReject
  <2>2. ScalarsOK'
    BY <1>11 DEF HostReject, ScalarsOK, tx, host
  <2>3. LineTruthful'
    BY <1>5, <1>11, <2>1 DEF HostReject, LineTruthful, Linked, Undecided, tx, host
  <2> QED
    BY <1>1, <2>2, <2>3
<1>12. CASE HostHunt
  <2>1. up' \in Seq(TrueFrames) /\ down' \in Seq(CurrentItems)
    BY <1>2, <1>4, <1>12 DEF HostHunt
  <2>2. ScalarsOK'
    BY <1>12 DEF HostHunt, ScalarsOK, tx, host
  <2>3. LineTruthful'
    BY <1>5, <1>12, <2>1 DEF HostHunt, LineTruthful, Linked, Undecided, tx, host
  <2> QED
    BY <1>1, <2>2, <2>3
<1>13. CASE HostReInfo
  <2>1. Cmd(work) \in CurrentItems
    BY <1>6, <1>13 DEF HostReInfo, ScalarsOK, Undecided
  <2>2. up' \in Seq(TrueFrames) /\ down' \in Seq(CurrentItems)
    BY <1>2, <1>3, <1>4, <1>13, <2>1, ToTxSeq DEF HostReInfo
  <2>3. ScalarsOK'
    BY <1>13 DEF HostReInfo, ScalarsOK, tx, host
  <2>4. LineTruthful'
    BY <1>5, <1>13, <2>2 DEF HostReInfo, LineTruthful, Linked, Undecided, tx, host
  <2> QED
    BY <1>1, <2>3, <2>4
<1>14. CASE HostEot
  <2>1. up[1].good \in Nat /\ up[1].bad \in Nat
    <3>1. up[1] \in UpFrames /\ up[1].type = "E"
      BY <1>3, <1>14, TruthIsTyped DEF HostEot, ScalarsOK
    <3> QED
      BY <3>1 DEF UpFrames, InfoFrame, Garbled
  <2>2. up' \in Seq(TrueFrames) /\ down' \in Seq(CurrentItems)
    BY <1>2, <1>3, <1>14, LineItems, ToTxSeq DEF HostEot
  <2>3. TrueFrames' = TrueFrames /\ CurrentItems' = CurrentItems /\ Undecided' = Undecided
    BY <1>14 DEF HostEot, TrueFrames, CurrentItems, Undecided
  <2>4. ScalarsOK'
    BY <1>14, <2>1 DEF HostEot, ScalarsOK, tx
  <2>5. LineTruthful'
    BY <1>14, <2>2, <2>3 DEF HostEot, LineTruthful, Linked, tx
  <2> QED
    BY <1>1, <2>4, <2>5
<1>15. CASE HostInterrupt
  <2>1. up \in Seq(TrueFrames') /\ down \in Seq(CurrentItems')
    <3>1. CASE Undecided
      BY <1>2, <3>1, LineGrows
    <3>2. CASE ~Undecided
      BY <1>2, <1>15, <3>2 DEF HostInterrupt, TrueFrames, CurrentItems, Undecided
    <3> QED
      BY <3>1, <3>2
  <2>2. ScalarsOK'
    BY <1>15 DEF HostInterrupt, ScalarsOK, tx
  <2>3. LineTruthful'
    BY <1>15, <2>1 DEF HostInterrupt, LineTruthful, Linked, Undecided, tx
  <2> QED
    BY <1>1, <2>2, <2>3
<1> QED
  BY <1>7, <1>8, <1>9, <1>10, <1>11, <1>12, <1>13, <1>14, <1>15 DEF HostNext

\* The faults keep the invariant.
LEMMA FaultsKeep == LinkInv /\ (Corrupt \/ Lose \/ Noise \/ TxReset) => LinkInv'
<1> SUFFICES ASSUME LinkInv, Corrupt \/ Lose \/ Noise \/ TxReset PROVE LinkInv'
  OBVIOUS
<1> USE DEF LinkInv
<1>1. UNCHANGED host
  BY DEF Corrupt, Lose, Noise, TxReset
<1>2. TrueFrames' = TrueFrames /\ CurrentItems' = CurrentItems /\ Undecided' = Undecided
  BY <1>1 DEF host, TrueFrames, CurrentItems, Undecided
<1>3. up \in Seq(TrueFrames) /\ down \in Seq(CurrentItems)
  BY DEF LineTruthful
<1>4. ScalarsOK'
  BY <1>1, FaultAssumption DEF Corrupt, Lose, Noise, TxReset, Fault, ScalarsOK, TxPcs, host, tx
<1>5. up' \in Seq(TrueFrames) /\ down' \in Seq(CurrentItems)
  <2>1. up # <<>> => /\ Tail(up) \in Seq(TrueFrames)
                     /\ [up EXCEPT ![1] = Garbled] \in Seq(TrueFrames)
    BY <1>3, LineItems, HeadTailProperties, EmptySeq, ExceptSeq
  <2>2. ASSUME down # <<>> PROVE Damage(down[1]) \in CurrentItems
    <3>1. down[1] \in CurrentItems
      BY <1>3, <2>2, EmptySeq, ElementOfSeq
    <3>2. CASE down[1].type = "CMD"
      BY <3>1, <3>2 DEF CurrentItems, Byte, Damage
    <3>3. CASE down[1].type # "CMD"
      BY <3>3, LineItems DEF Damage
    <3> QED
      BY <3>2, <3>3
  <2>3. down # <<>> => /\ Tail(down) \in Seq(CurrentItems)
                       /\ [down EXCEPT ![1] = Damage(down[1])] \in Seq(CurrentItems)
    BY <1>3, <2>2, HeadTailProperties, EmptySeq, ExceptSeq
  <2>4. CASE Corrupt
    BY <1>3, <2>1, <2>3, <2>4 DEF Corrupt, Exposed
  <2>5. CASE Lose
    BY <1>3, <2>1, <2>3, <2>5 DEF Lose, Exposed
  <2>6. CASE Noise
    BY <1>3, <2>6, LineItems, ToHostSeq, ToTxSeq DEF Noise
  <2>7. CASE TxReset
    BY <1>3, <2>7 DEF TxReset
  <2> QED
    BY <2>4, <2>5, <2>6, <2>7
<1>6. Linked' => Linked /\ UNCHANGED ranges
  BY DEF Corrupt, Lose, Noise, TxReset, Linked, tx
<1>7. LineTruthful'
  BY <1>1, <1>2, <1>5, <1>6 DEF LineTruthful, host
<1>8. TxPosition'
  BY DEF Corrupt, Lose, Noise, TxReset, TxPosition, Linked, tx
<1> QED
  BY <1>4, <1>7, <1>8

\* The invariant is inductive.
LEMMA LinkInductive == LinkInv /\ [Next]_vars => LinkInv'
<1> SUFFICES ASSUME LinkInv, [Next]_vars PROVE LinkInv'
  OBVIOUS
<1>1. CASE Next
  BY <1>1, TxKeeps, HostKeeps, FaultsKeep DEF Next
<1>2. CASE UNCHANGED vars
  <2>1. TrueFrames' = TrueFrames /\ CurrentItems' = CurrentItems /\ Undecided' = Undecided
    BY <1>2 DEF vars, host, TrueFrames, CurrentItems, Undecided
  <2> QED
    BY <1>2, <2>1 DEF vars, tx, host, LinkInv, ScalarsOK, LineTruthful, TxPosition, Linked
<1> QED
  BY <1>1, <1>2

\* The line, TX's position and the variables' ranges are as LinkInv says in
\* every reachable state.
THEOREM LinkInvariant == Spec => []LinkInv
BY LinkInit, LinkInductive, PTL DEF Spec

\* Every variable keeps its type: TX never leaves its range table or the disk,
\* and never sends a frame more than LINK_TRIES times.
THEOREM TypeCorrect == Spec => []TypeOK
<1>1. LinkInv => TypeOK
  <2> SUFFICES ASSUME LinkInv PROVE TypeOK
    OBVIOUS
  <2>1. TrueFrames \subseteq UpFrames /\ CurrentItems \subseteq DownItems
    BY TruthIsTyped DEF LinkInv, ScalarsOK
  <2> QED
    BY <2>1, SeqMono DEF LinkInv, LineTruthful, TypeOK
<1> QED
  BY <1>1, LinkInvariant, PTL

\* What is on the line is true in every reachable state.
THEOREM LineIsTruthful == Spec => []LineTruthful
BY LinkInvariant, PTL DEF LinkInv

\* TX stays inside the range it works on, and its sector buffer is the one its
\* status byte describes, whenever a frame is built or sent again (range_loop,
\* send_data, send_eot).
THEOREM TxInside == Spec => []TxPosition
BY LinkInvariant, PTL DEF LinkInv

---------------------------------------------------------------------------
(* The image and the map *)

\* A sound DATA frame at the head of the line is true.
LEMMA DataIsTrue ==
  ASSUME LinkInv, HostData
  PROVE  /\ up[1].lba \in Covered(work) /\ up[1].lba \in Sectors
         /\ up[1].status \in {"GOOD", "BAD"}
         /\ up[1].data = Expected(up[1].lba, up[1].status)
<1>1. up[1] \in TrueFrames /\ up[1].type = "D"
  BY EmptySeq, ElementOfSeq DEF HostData, LinkInv, LineTruthful
<1>2. PICK l \in Covered(work), s \in {"GOOD", "BAD"} : up[1] = DataFrame(l, s, Expected(l, s))
  BY <1>1 DEF TrueFrames, InfoFrame, Garbled
<1>3. l \in Sectors
  BY CoveredOnDisk DEF LinkInv, ScalarsOK
<1> QED
  BY <1>2, <1>3 DEF DataFrame

\* The map never lies about the image, whatever the line does.
THEOREM MapIsHonest == Spec => []ImageHonest
<1>1. Init => ImageHonest
  BY DEF Init, ImageHonest, Expected
<1>2. LinkInv /\ ImageHonest /\ [Next]_vars => ImageHonest'
  <2> SUFFICES ASSUME LinkInv, ImageHonest, [Next]_vars PROVE ImageHonest'
    OBVIOUS
  <2>1. CASE HostOpen
    BY <2>1 DEF HostOpen, OpenImage, ImageHonest
  <2>2. CASE HostRangeError
    BY <2>2 DEF HostRangeError, OpenImage, ImageHonest
  <2>3. CASE HostData
    <3>1. /\ image' = [image EXCEPT ![up[1].lba] = Expected(up[1].lba, up[1].status)]
          /\ statusmap' = [statusmap EXCEPT ![up[1].lba] = up[1].status]
          /\ up[1].lba \in Sectors /\ up[1].status \in {"GOOD", "BAD"}
      BY <2>3, DataIsTrue DEF HostData
    <3> QED
      BY <3>1 DEF ImageHonest, Expected, LinkInv, ScalarsOK
  <2>4. CASE UNCHANGED <<image, statusmap>>
    BY <2>4 DEF ImageHonest
  <2> QED
    BY <2>1, <2>2, <2>3, <2>4
    DEF Next, TxNext, TxInfo, AcceptCommand, HuntCommand, CommandFails, NextRange, RangeDone,
        CheckAbort, ReadSector, SendData, DataAcked, DataRetry, SendEot, EotReply, HostNext,
        HostInfo, HostReject, HostHunt, HostReInfo, HostEot, HostInterrupt, Corrupt, Lose,
        Noise, TxReset, tx, host, vars
<1> QED
  BY <1>1, <1>2, LinkInvariant, PTL DEF Spec

\* The sectors a map marks BAD.
BadIn(sm) == {l \in Sectors : sm[l] = "BAD"}

\* Marking one sector changes the number of BAD marks by BadCountStep.
LEMMA MarkCounts ==
  ASSUME NEW sm \in [Sectors -> Marks], NEW l \in Sectors, NEW new \in {"GOOD", "BAD"}
  PROVE  Cardinality(BadIn([sm EXCEPT ![l] = new])) =
           Cardinality(BadIn(sm)) + BadCountStep(sm[l], new)
<1> DEFINE next == [sm EXCEPT ![l] = new]
<1>1. IsFiniteSet(BadIn(sm)) /\ Cardinality(BadIn(sm)) \in Int
  BY SectorsFinite, FS_CardinalityType DEF BadIn
<1>2. CASE sm[l] = "BAD" /\ new = "GOOD"
  <2>1. BadIn(next) = BadIn(sm) \ {l} /\ l \in BadIn(sm)
    BY <1>2 DEF BadIn
  <2>2. Cardinality(BadIn(next)) = Cardinality(BadIn(sm)) - 1
    BY <1>1, <2>1, FS_RemoveElement
  <2> QED
    BY <1>1, <1>2, <2>2 DEF BadCountStep
<1>3. CASE sm[l] # "BAD" /\ new = "BAD"
  <2>1. BadIn(next) = BadIn(sm) \cup {l} /\ l \notin BadIn(sm)
    BY <1>3 DEF BadIn
  <2>2. Cardinality(BadIn(next)) = Cardinality(BadIn(sm)) + 1
    BY <1>1, <2>1, FS_AddElement
  <2> QED
    BY <1>1, <1>3, <2>2 DEF BadCountStep
<1>4. CASE (sm[l] = "BAD") = (new = "BAD")
  <2>1. BadIn(next) = BadIn(sm)
    BY <1>4 DEF BadIn
  <2>2. BadCountStep(sm[l], new) = 0
    BY <1>4 DEF BadCountStep
  <2> QED
    BY <1>1, <2>1, <2>2
<1> QED
  BY <1>2, <1>3, <1>4

\* bad_count, kept by increments, is the number of BAD marks.
THEOREM BadCountIsExact == Spec => []BadCountExact
<1>1. Init => BadCountExact
  BY DEF Init, BadCountExact
<1>2. LinkInv /\ BadCountExact /\ [Next]_vars => BadCountExact'
  <2> SUFFICES ASSUME LinkInv, BadCountExact, [Next]_vars PROVE BadCountExact'
    OBVIOUS
  <2>1. CASE HostOpen
    BY <2>1 DEF HostOpen, BadCountExact
  <2>2. CASE HostData
    <3>1. /\ statusmap' = [statusmap EXCEPT ![up[1].lba] = up[1].status]
          /\ bad_count' = bad_count + BadCountStep(statusmap[up[1].lba], up[1].status)
          /\ hpc = "data"
      BY <2>2 DEF HostData
    <3>2. Cardinality(BadIn(statusmap')) = Cardinality(BadIn(statusmap))
             + BadCountStep(statusmap[up[1].lba], up[1].status)
      BY <2>2, <3>1, DataIsTrue, MarkCounts DEF LinkInv, ScalarsOK
    <3> QED
      BY <3>1, <3>2 DEF BadCountExact, BadIn
  <2>3. CASE hpc' # "data"
    BY <2>3 DEF BadCountExact
  <2>4. CASE UNCHANGED <<hpc, statusmap, bad_count>>
    BY <2>4 DEF BadCountExact
  <2> QED
    BY <2>1, <2>2, <2>3, <2>4
    DEF Next, TxNext, TxInfo, AcceptCommand, HuntCommand, CommandFails, NextRange, RangeDone,
        CheckAbort, ReadSector, SendData, DataAcked, DataRetry, SendEot, EotReply, HostNext,
        HostInfo, HostRangeError, HostReject, HostHunt, HostReInfo, HostEot, HostInterrupt,
        Corrupt, Lose, Noise, TxReset, tx, host, vars
<1> QED
  BY <1>1, <1>2, LinkInvariant, PTL DEF Spec

---------------------------------------------------------------------------
(* Refinement *)

\* A capture pass over any line implements Rescue: the image and the map change
\* only as the pass opens, and then by whole, true stores of worklist sectors.
THEOREM ImplementsRescue == Spec => RescueSpec
<1>1. Init => R!Init
  BY DEF Init, R!Init, Expected, R!Truth, Sectors, R!Sectors, Marks, R!Marks
<1>2. LinkInv /\ [Next]_vars => [R!Next]_R!vars
  <2> SUFFICES ASSUME LinkInv, [Next]_vars PROVE [R!Next]_R!vars
    OBVIOUS
  <2>1. CASE HostOpen
    BY <2>1 DEF HostOpen, OpenImage, R!Next, R!Begin, R!Open, R!Worklist, Worklist,
       R!LbaRange, LbaRange, R!Sectors, Sectors
  <2>2. CASE HostRangeError
    BY <2>2 DEF HostRangeError, OpenImage, R!Next, R!CallOff, R!Open, R!Sectors, Sectors
  <2>3. CASE HostData
    <3>1. /\ image' = [image EXCEPT ![up[1].lba] = R!Truth(up[1].lba, up[1].status)]
          /\ statusmap' = [statusmap EXCEPT ![up[1].lba] = up[1].status]
          /\ up[1].status \in {"GOOD", "BAD"}
      BY <2>3, DataIsTrue DEF HostData, Expected, R!Truth
    <3>2. up[1].lba \in R!Covered(work)
      BY <2>3, DataIsTrue DEF Covered, R!Covered, Members, R!Members
    <3> QED
      BY <2>3, <3>1, <3>2 DEF HostData, R!Next, R!Store
  <2>4. CASE HostEot
    BY <2>4 DEF HostEot, R!Next, R!End
  <2>5. CASE HostInterrupt
    BY <2>5 DEF HostInterrupt, R!Next, R!End, R!CallOff
  <2>6. CASE HostInfo
    BY <2>6 DEF HostInfo, R!vars
  <2>7. CASE UNCHANGED <<hpc, work, image, statusmap>>
    BY <2>7 DEF R!vars
  <2> QED
    BY <2>1, <2>2, <2>3, <2>4, <2>5, <2>6, <2>7
    DEF Next, TxNext, TxInfo, AcceptCommand, HuntCommand, CommandFails, NextRange, RangeDone,
        CheckAbort, ReadSector, SendData, DataAcked, DataRetry, SendEot, EotReply, HostNext,
        HostReject, HostHunt, HostReInfo, Corrupt, Lose, Noise, TxReset, tx, host, vars
<1> QED
  BY <1>1, <1>2, LinkInvariant, PTL DEF Spec, RescueSpec, R!Spec

---------------------------------------------------------------------------
(* Resent frames *)

\* TX has read lba and not gone past it.
Current == txpc \in {"send_data", "wait_reply", "lost"}

\* The sectors TX has read in this pass.
Reached ==
  IF Linked THEN Passed \cup (IF Current THEN {lba} ELSE {}) ELSE {}

\* Each sector was read once, with outcome t[l]: what is on the line, in the map
\* and in TX's buffer about the sectors read so far tells that one story.
StoryFrames(t) ==
  {InfoFrame, Garbled} \cup [type : {"E"}, good : Nat, bad : Nat]
    \cup {DataFrame(l, t[l], Expected(l, t[l])) : l \in Reached}

Story(t) ==
  /\ up \in Seq(StoryFrames(t))
  /\ \A l \in stored : l \in Reached /\ statusmap[l] = t[l]
  /\ Current => t[lba] = status

OneStory ==
  "reset" \notin FaultKinds /\ Disjoint(work) =>
    \E t \in [Sectors -> {"GOOD", "BAD"}] : Story(t)

\* A sector TX is about to read, or has read and not gone past, came in no earlier
\* range.
LEMMA CurrentIsNew ==
  ASSUME LinkInv, Linked, Disjoint(work), ri <= Len(ranges), ranges[ri][1] <= lba,
         lba < ranges[ri][2]
  PROVE  lba \notin Passed
<1>1. /\ ranges \in Worklist /\ ranges = work /\ ri \in 1 .. MaxR + 1 /\ lba \in 0 .. Total
      /\ Len(ranges) \in 0 .. MaxR /\ DOMAIN ranges = 1 .. Len(ranges)
      /\ \A i \in 1 .. Len(ranges) : ranges[i][1] \in 0 .. Total /\ ranges[i][2] \in 0 .. Total
  BY WorklistFacts DEF LinkInv, ScalarsOK, LineTruthful
<1>2. ri \in DOMAIN ranges /\ lba \in Members(ranges[ri])
  BY <1>1, TotalAssumption, MaxRAssumption DEF Members
<1>3. \A i \in DOMAIN ranges : i < ri => lba \notin Members(ranges[i])
  <2>1. \A i \in DOMAIN ranges : i < ri => i # ri
    BY <1>1
  <2> QED
    BY <1>1, <1>2, <2>1 DEF Disjoint
<1>4. ~(lba < lba)
  BY <1>1, TotalAssumption
<1> QED
  BY <1>3, <1>4 DEF Passed

\* How the sectors TX has gone past change: only an ACK adds one.
LEMMA PassedSteps ==
  ASSUME LinkInv, Linked, TxNext
  PROVE  Passed' = IF DataAcked THEN Passed \cup {lba} ELSE Passed
<1>1. /\ ranges \in Worklist /\ ri \in 1 .. MaxR + 1 /\ lba \in 0 .. Total
      /\ Len(ranges) \in 0 .. MaxR /\ DOMAIN ranges = 1 .. Len(ranges)
      /\ \A i \in 1 .. Len(ranges) : ranges[i][1] \in 0 .. Total /\ ranges[i][2] \in 0 .. Total
      /\ Total \in Nat /\ MaxR \in Nat
  BY WorklistFacts, TotalAssumption, MaxRAssumption DEF LinkInv, ScalarsOK
<1>2. CASE NextRange
  <2>1. txpc = "next_range" /\ UNCHANGED <<ranges, ri>> /\ ~DataAcked
    BY <1>2 DEF NextRange, DataAcked
  <2>2. CASE ri <= Len(ranges)
    <3>1. lba' = ranges[ri][1] /\ txpc' = "range_loop"
      BY <1>2, <2>2 DEF NextRange
    <3>2. \A l \in Members(ranges[ri]) : ~(l < lba')
      BY <1>1, <2>2, <3>1 DEF Members
    <3> QED
      BY <2>1, <3>1, <3>2 DEF Passed
  <2>3. CASE ~(ri <= Len(ranges))
    <3>1. ri \notin DOMAIN ranges
      BY <1>1, <2>3
    <3> QED
      BY <2>1, <3>1 DEF Passed
  <2> QED
    BY <2>2, <2>3
<1>3. CASE RangeDone
  <2>1. /\ txpc = "range_loop" /\ txpc' = "next_range" /\ ri' = ri + 1 /\ ~DataAcked
        /\ lba >= ranges[ri][2] /\ UNCHANGED <<ranges, lba>> /\ ri <= Len(ranges)
    BY <1>3 DEF RangeDone, DataAcked, LinkInv, TxPosition
  <2>2. \A i \in DOMAIN ranges : i < ri + 1 <=> i < ri \/ i = ri
    BY <1>1
  <2>3. \A l \in Members(ranges[ri]) : l < lba
    BY <1>1, <2>1 DEF Members
  <2> QED
    BY <2>1, <2>2, <2>3 DEF Passed
<1>4. CASE DataAcked
  <2>1. /\ txpc = "wait_reply" /\ txpc' = "range_loop" /\ lba' = lba + 1
        /\ UNCHANGED <<ranges, ri>> /\ ri <= Len(ranges)
        /\ ranges[ri][1] <= lba /\ lba < ranges[ri][2]
    BY <1>4 DEF DataAcked, LinkInv, TxPosition
  <2>2. lba \in Sectors /\ lba \in Members(ranges[ri]) /\ ri \in DOMAIN ranges
    BY <1>1, <2>1 DEF Members, Sectors
  <2>3. \A l \in Sectors : l < lba + 1 <=> l < lba \/ l = lba
    BY <1>1 DEF Sectors
  <2> QED
    BY <1>4, <2>1, <2>2, <2>3 DEF Passed
<1>5. CASE UNCHANGED <<ranges, ri, lba>> /\ txpc # "next_range" /\ txpc' # "next_range"
           /\ ~DataAcked
  BY <1>5 DEF Passed
<1> QED
  BY <1>2, <1>3, <1>4, <1>5
  DEF TxNext, TxInfo, AcceptCommand, HuntCommand, CommandFails, CheckAbort, ReadSector,
      SendData, DataAcked, DataRetry, SendEot, EotReply, Linked, tx

\* Only the read of a sector adds to what TX has read.
LEMMA ReachedSteps ==
  ASSUME LinkInv, [Next]_vars, ~ReadSector, ~TxReset
  PROVE  /\ Reached' = Reached /\ UNCHANGED status
         /\ Current' => Current /\ lba' = lba
<1>1. CASE TxNext
  <2>1. UNCHANGED status /\ (Current' => Current /\ lba' = lba)
    BY <1>1
    DEF TxNext, TxInfo, AcceptCommand, HuntCommand, CommandFails, NextRange, RangeDone,
        CheckAbort, SendData, DataAcked, DataRetry, SendEot, EotReply, Current, tx
  <2>2. CASE Linked
    <3>1. Passed' = IF DataAcked THEN Passed \cup {lba} ELSE Passed
      BY <1>1, <2>2, PassedSteps
    <3>2. CASE DataAcked
      BY <2>1, <2>2, <3>1, <3>2 DEF DataAcked, Reached, Linked, Current
    <3>3. CASE ~DataAcked
      <4> USE <1>1, <2>2, <3>3
          DEF TxNext, TxInfo, AcceptCommand, HuntCommand, CommandFails, NextRange, RangeDone,
              CheckAbort, SendData, DataRetry, SendEot, EotReply
      <4>1. Linked'
        BY DEF Linked, tx
      <4>2. Current => Current' /\ lba' = lba
        BY DEF Current, tx
      <4>3. Current' => Current
        BY <2>1
      <4> QED
        BY <2>1, <3>1, <4>1, <4>2, <4>3 DEF Reached
    <3> QED
      BY <3>2, <3>3
  <2>3. CASE ~Linked
    <3>1. CASE AcceptCommand
      <4>1. ri' = 1 /\ txpc' = "next_range" /\ ranges' \in Worklist
        BY <3>1, LinkInductive DEF AcceptCommand, LinkInv, ScalarsOK
      <4>2. \A i \in DOMAIN ranges' : ~(i < 1)
        BY <4>1, WorklistFacts
      <4>3. Passed' = {}
        BY <4>1, <4>2 DEF Passed
      <4>4. Reached' = {}
        BY <4>1, <4>3 DEF Reached, Current
      <4> QED
        BY <2>1, <2>3, <4>4 DEF Reached
    <3>2. CASE ~AcceptCommand
      <4>1. ~Linked'
        BY <1>1, <2>3, <3>2
        DEF TxNext, TxInfo, HuntCommand, CommandFails, NextRange, RangeDone,
            CheckAbort, SendData, DataAcked, DataRetry, SendEot, EotReply, Linked, tx
      <4> QED
        BY <2>1, <2>3, <4>1 DEF Reached
    <3> QED
      BY <3>1, <3>2
  <2> QED
    BY <2>1, <2>2, <2>3
<1>2. CASE UNCHANGED tx
  BY <1>2 DEF Reached, Passed, Linked, Current, tx
<1> QED
  BY <1>1, <1>2
  DEF Next, HostNext, HostInfo, HostOpen, HostRangeError, HostData, HostReject, HostHunt,
      HostReInfo, HostEot, HostInterrupt, Corrupt, Lose, Noise, vars

\* A story that holds before the worklist is sent: nothing was read.
LEMMA EmptyStory ==
  ASSUME LinkInv', Undecided, up \in Seq({InfoFrame, Garbled}), up' = up, stored' = {},
         ~Linked, txpc' = txpc
  PROVE  \E t \in [Sectors -> {"GOOD", "BAD"}] : Story(t)'
<1> DEFINE t == [l \in Sectors |-> "GOOD"]
<1>1. t \in [Sectors -> {"GOOD", "BAD"}]
  OBVIOUS
<1>2. {InfoFrame, Garbled} \subseteq StoryFrames(t)'
  BY DEF StoryFrames
<1>3. up' \in Seq(StoryFrames(t)')
  BY <1>2, SeqMono
<1>4. ~Current'
  BY DEF Linked, Current
<1>5. Story(t)'
  BY <1>3, <1>4 DEF Story
<1> QED
  BY <1>1, <1>5

LEMMA StoryInit == Init => OneStory
<1> SUFFICES ASSUME Init PROVE OneStory
  OBVIOUS
<1> DEFINE t == [l \in Sectors |-> "GOOD"]
<1>1. t \in [Sectors -> {"GOOD", "BAD"}]
  OBVIOUS
<1>2. Story(t)
  BY EmptySeq DEF Init, Story, Current
<1> QED
  BY <1>1, <1>2 DEF OneStory

\* A read of a new sector adds to the story.
LEMMA ReadKeepsStory ==
  ASSUME LinkInv, ReadSector, Disjoint(work), NEW t \in [Sectors -> {"GOOD", "BAD"}], Story(t)
  PROVE  \E u \in [Sectors -> {"GOOD", "BAD"}] : Story(u)'
<1>1. /\ txpc = "range_loop" /\ txpc' = "send_data" /\ lba < ranges[ri][2]
      /\ status' \in {"GOOD", "BAD"}
      /\ UNCHANGED <<ranges, ri, lba, up, host>>
  BY DEF ReadSector
<1>2. Linked /\ Linked' /\ ~Current /\ Current'
  BY <1>1 DEF Linked, Current
<1>3. ri <= Len(ranges) /\ ranges[ri][1] <= lba
  BY <1>1 DEF LinkInv, TxPosition
<1>4. lba \notin Passed /\ lba \in Sectors
  <2>1. lba \notin Passed
    BY <1>1, <1>2, <1>3, CurrentIsNew
  <2>2. ranges \in Worklist /\ ri \in 1 .. MaxR + 1 /\ lba \in 0 .. Total
    BY DEF LinkInv, ScalarsOK
  <2>3. ri \in 1 .. Len(ranges) /\ lba \in Int
    BY <1>3, <2>2, WorklistFacts, TotalAssumption, MaxRAssumption
  <2> QED
    BY <1>1, <1>3, <2>1, <2>2, <2>3, InsideIsCovered
<1>5. Passed' = Passed
  BY <1>1 DEF Passed
<1>6. Reached = Passed /\ Reached' = Passed \cup {lba}
  BY <1>1, <1>2, <1>5 DEF Reached
<1>9a. PICK u \in [Sectors -> {"GOOD", "BAD"}] : u = [t EXCEPT ![lba] = status']
  BY <1>1, <1>4
<1>7. Passed \subseteq Sectors /\ \A l \in Passed : u[l] = t[l]
  BY <1>4, <1>9a DEF Passed
<1>8. u[lba] = status'
  BY <1>4, <1>9a
<1>9. Story(u)'
  <2>1. StoryFrames(t) \subseteq StoryFrames(u)'
    BY <1>6, <1>7 DEF StoryFrames
  <2>2. up' \in Seq(StoryFrames(u)')
    BY <1>1, <2>1, SeqMono DEF Story
  <2>3. \A l \in stored' : l \in Reached' /\ statusmap'[l] = u[l]
    BY <1>1, <1>6, <1>7 DEF Story, host
  <2> QED
    BY <1>1, <1>8, <2>2, <2>3 DEF Story
<1> QED
  BY <1>8, <1>9

\* The frames of a story after a step of TX, the host or the line.
LEMMA StoryLine ==
  ASSUME LinkInv, [Next]_vars, NEW t \in [Sectors -> {"GOOD", "BAD"}], Story(t),
         StoryFrames(t)' = StoryFrames(t)
  PROVE  up' \in Seq(StoryFrames(t))
<1> DEFINE S == StoryFrames(t)
<1>1. up \in Seq(S) /\ InfoFrame \in S /\ Garbled \in S
  BY DEF Story, StoryFrames
<1>2. up # <<>> => /\ Tail(up) \in Seq(S) /\ FlushedUp \subseteq Seq(S)
                   /\ [up EXCEPT ![1] = Garbled] \in Seq(S)
  BY <1>1, HeadTailProperties, EmptySeq, ExceptSeq, FlushedUpSeq
<1>3. \A f \in S : ToHost(f) \in Seq(S)
  BY <1>1, ToHostSeq
<1>4. CASE SendData
  <2>1. lba \in Reached /\ t[lba] = status /\ buf = Expected(lba, status)
    BY <1>4 DEF SendData, Reached, Linked, Current, Story, LinkInv, TxPosition
  <2>2. DataFrame(lba, status, buf) \in S
    BY <2>1 DEF StoryFrames
  <2> QED
    BY <1>3, <1>4, <2>2 DEF SendData
<1>5. CASE SendEot
  <2>1. EotFrame(good, bad) \in S
    BY DEF StoryFrames, EotFrame, LinkInv, ScalarsOK
  <2> QED
    BY <1>3, <1>5, <2>1 DEF SendEot
<1>6. CASE TxInfo
  BY <1>1, <1>3, <1>6 DEF TxInfo
<1>7. CASE up' = up
  BY <1>1, <1>7
<1>8. CASE HostNext
  BY <1>1, <1>2, <1>8
  DEF HostNext, HostInfo, HostOpen, HostRangeError, HostData, HostReject, HostHunt,
      HostReInfo, HostEot
<1>9. CASE Corrupt \/ Lose \/ Noise
  BY <1>1, <1>2, <1>3, <1>9 DEF Corrupt, Lose, Noise, Exposed
<1> QED
  BY <1>4, <1>5, <1>6, <1>7, <1>8, <1>9
  DEF Next, TxNext, AcceptCommand, HuntCommand, CommandFails, NextRange, RangeDone,
      CheckAbort, ReadSector, DataAcked, DataRetry, EotReply, HostInterrupt, TxReset, vars

\* Before the host has a worklist nothing but INFO and noise is on its line.
LEMMA UndecidedLine ==
  ASSUME LinkInv, Undecided
  PROVE  up \in Seq({InfoFrame, Garbled}) /\ ~Linked
BY DEF LinkInv, LineTruthful, TrueFrames

LEMMA StoryStep == LinkInv /\ OneStory /\ [Next]_vars => OneStory'
<1> SUFFICES ASSUME LinkInv, OneStory, [Next]_vars, "reset" \notin FaultKinds, Disjoint(work')
             PROVE  \E t \in [Sectors -> {"GOOD", "BAD"}] : Story(t)'
  BY DEF OneStory
<1>0. LinkInv'
  BY LinkInductive
<1>1. CASE HostOpen
  BY <1>0, <1>1, UndecidedLine, EmptyStory DEF HostOpen, Undecided, tx
<1>2. CASE ~HostOpen
  <2>1. UNCHANGED work
    BY <1>2
    DEF Next, TxNext, TxInfo, AcceptCommand, HuntCommand, CommandFails, NextRange, RangeDone,
        CheckAbort, ReadSector, SendData, DataAcked, DataRetry, SendEot, EotReply, HostNext,
        HostInfo, HostRangeError, HostData, HostReject, HostHunt, HostReInfo, HostEot,
        HostInterrupt, Corrupt, Lose, Noise, TxReset, tx, host, vars
  <2>2. PICK t \in [Sectors -> {"GOOD", "BAD"}] : Story(t)
    BY <2>1 DEF OneStory
  <2>3. CASE ReadSector
    BY <2>1, <2>2, <2>3, ReadKeepsStory
  <2>4. CASE ~ReadSector
    <3>1. ~TxReset
      BY DEF TxReset, Fault
    <3>2. /\ Reached' = Reached /\ UNCHANGED status
          /\ Current' => Current /\ lba' = lba
      BY <2>4, <3>1, ReachedSteps
    <3>3. StoryFrames(t)' = StoryFrames(t)
      BY <3>2 DEF StoryFrames
    <3>4. up' \in Seq(StoryFrames(t)')
      BY <2>2, <3>3, StoryLine
    <3>5. \A l \in stored' : l \in Reached' /\ statusmap'[l] = t[l]
      <4>1. CASE HostData
        <5>1. up[1] \in StoryFrames(t) /\ up[1].type = "D"
          BY <2>2, <4>1, EmptySeq, ElementOfSeq DEF HostData, Story
        <5>2. up[1].lba \in Reached /\ up[1].status = t[up[1].lba]
          BY <5>1 DEF StoryFrames, DataFrame, InfoFrame, Garbled
        <5>3. /\ statusmap' = [statusmap EXCEPT ![up[1].lba] = up[1].status]
              /\ stored' = stored \cup {up[1].lba}
              /\ statusmap \in [Sectors -> Marks] /\ up[1].lba \in Sectors
              /\ stored \subseteq Sectors
          BY <4>1, DataIsTrue DEF HostData, LinkInv, ScalarsOK
        <5> QED
          BY <2>2, <3>2, <5>2, <5>3 DEF Story
      <4>2. CASE HostRangeError
        <5>1. ~Linked /\ stored' = stored
          BY <4>2, UndecidedLine DEF HostRangeError, Undecided
        <5>2. stored = {}
          BY <2>2, <5>1 DEF Story, Reached
        <5> QED
          BY <5>1, <5>2
      <4>3. CASE UNCHANGED <<stored, statusmap>>
        BY <2>2, <3>2, <4>3 DEF Story
      <4> QED
        BY <1>2, <4>1, <4>2, <4>3
        DEF Next, TxNext, TxInfo, AcceptCommand, HuntCommand, CommandFails, NextRange,
            RangeDone, CheckAbort, ReadSector, SendData, DataAcked, DataRetry, SendEot,
            EotReply, HostNext, HostInfo, HostReject, HostHunt, HostReInfo, HostEot,
            HostInterrupt, Corrupt, Lose, Noise, TxReset, tx, host, vars
    <3>6. Current' => t[lba'] = status'
      BY <2>2, <3>2 DEF Story
    <3> QED
      BY <3>4, <3>5, <3>6 DEF Story
  <2> QED
    BY <2>3, <2>4
<1> QED
  BY <1>1, <1>2

\* Once stored in a pass, a sector keeps its contents and its mark: a frame that
\* is sent again, because its ACK was lost, late or damaged, or one still in
\* flight from before, says the same of the sector (ranges that do not overlap,
\* and TX not started again; any other fault).
THEOREM ResendChangesNothing == Spec => ResendIdempotent
<1> DEFINE Inv == LinkInv /\ ImageHonest /\ OneStory
<1>1. Spec => []Inv
  <2>1. Init => OneStory
    BY StoryInit
  <2>2. LinkInv /\ OneStory /\ [Next]_vars => OneStory'
    BY StoryStep
  <2> QED
    BY <2>1, <2>2, LinkInvariant, MapIsHonest, PTL DEF Spec
<1>2. ASSUME Inv, Next, Disjoint(work), "reset" \notin FaultKinds, NEW l \in stored
      PROVE  image'[l] = image[l] /\ statusmap'[l] = statusmap[l]
  <2>1. PICK t \in [Sectors -> {"GOOD", "BAD"}] : Story(t)
    BY <1>2 DEF OneStory
  <2>2. l \in Reached /\ statusmap[l] = t[l] /\ l \in Sectors
    BY <1>2, <2>1 DEF Story, LinkInv, ScalarsOK
  <2>3. ~HostOpen /\ ~HostRangeError
    BY <1>2, <2>2, UndecidedLine DEF HostOpen, HostRangeError, Undecided, Reached
  <2>4. CASE HostData
    <3>1. /\ image' = [image EXCEPT ![up[1].lba] = Expected(up[1].lba, up[1].status)]
          /\ statusmap' = [statusmap EXCEPT ![up[1].lba] = up[1].status]
          /\ up[1].lba \in Sectors /\ up[1].status \in {"GOOD", "BAD"}
      BY <1>2, <2>4, DataIsTrue DEF HostData
    <3>2. up[1] \in StoryFrames(t) /\ up[1].type = "D"
      BY <2>1, <2>4, EmptySeq, ElementOfSeq DEF HostData, Story
    <3>3. up[1].status = t[up[1].lba]
      BY <3>2 DEF StoryFrames, DataFrame, InfoFrame, Garbled
    <3>4. CASE l # up[1].lba
      BY <1>2, <2>2, <3>1, <3>4 DEF LinkInv, ScalarsOK
    <3>5. CASE l = up[1].lba
      <4>1. statusmap'[l] = statusmap[l] /\ image'[l] = Expected(l, t[l])
        BY <1>2, <2>2, <3>1, <3>3, <3>5 DEF LinkInv, ScalarsOK
      <4>2. image[l] = Expected(l, t[l])
        BY <1>2, <2>2 DEF ImageHonest, Expected
      <4> QED
        BY <4>1, <4>2
    <3> QED
      BY <3>4, <3>5
  <2>5. CASE UNCHANGED <<image, statusmap>>
    BY <2>5
  <2> QED
    BY <1>2, <2>3, <2>4, <2>5
    DEF Next, TxNext, TxInfo, AcceptCommand, HuntCommand, CommandFails, NextRange, RangeDone,
        CheckAbort, ReadSector, SendData, DataAcked, DataRetry, SendEot, EotReply, HostNext,
        HostInfo, HostReject, HostHunt, HostReInfo, HostEot, HostInterrupt, Corrupt, Lose,
        Noise, TxReset, tx, host
<1>3. Inv /\ [Next]_vars =>
        [Disjoint(work) /\ "reset" \notin FaultKinds =>
           \A l \in stored : image'[l] = image[l] /\ statusmap'[l] = statusmap[l]]_vars
  BY <1>2
<1> QED
  BY <1>1, <1>3, PTL DEF Spec, ResendIdempotent

---------------------------------------------------------------------------
(* Acknowledgements *)

\* Nothing but damage and loss of the transfer's frames, and TX waits for a byte.
QuietLine == ~Timer /\ FaultKinds \subseteq {"corrupt", "lose"}

ReplyByte == {Byte(b) : b \in {"ACK", "NAK", "junk"}}

\* At most one frame or reply is under way, and only when TX waits for it; an ACK
\* is the answer to the frame TX sent last.
Token ==
  /\ txpc = "tx_info" => up = <<>> /\ down = <<>> /\ hpc \in {"info", "closed"}
  /\ txpc = "recv_command" =>
       \/ up \in {<<>>, <<InfoFrame>>} /\ down = <<>> /\ hpc \in {"info", "closed"}
       \/ up = <<>> /\ down = <<>> /\ hpc = "open"
       \/ up = <<>> /\ down \in {<<>>, <<Cmd(work)>>} /\ hpc \in {"data", "closed"}
  /\ txpc = "wait_reply" =>
       \/ up \in {<<DataFrame(lba, status, buf)>>, <<Garbled>>} /\ down = <<>>
       \/ up = <<>> /\ down \in {<<>>} \cup {<<b>> : b \in ReplyByte}
  /\ txpc = "eot_reply" =>
       \/ up \in {<<EotFrame(good, bad)>>, <<Garbled>>} /\ down = <<>>
       \/ up = <<>> /\ down \in {<<>>} \cup {<<b>> : b \in ReplyByte}
  /\ txpc \in {"next_range", "range_loop", "send_data", "send_eot", "exit", "lost"} =>
       up = <<>> /\ down = <<>>

AckTrue == txpc = "wait_reply" /\ down = <<Byte("ACK")>> => lba \in stored

\* The sectors TX has gone past that have a mark.
PassedAs(m) == {l \in Passed : statusmap[l] = m}

\* TX's tallies are the marks of the sectors it has gone past, and the sector in
\* its buffer.
TxTally ==
  Linked /\ Disjoint(work) =>
    /\ good = Cardinality(PassedAs("GOOD")) + (IF Current /\ status = "GOOD" THEN 1 ELSE 0)
    /\ bad = Cardinality(PassedAs("BAD")) + (IF Current /\ status = "BAD" THEN 1 ELSE 0)

ReportLast == report.seen => hpc = "closed"

\* A line with one item on it.
LEMMA OneItem ==
  ASSUME NEW x, NEW y
  PROVE  /\ <<x>> # <<>> /\ <<x>>[1] = x /\ Tail(<<x>>) = <<>> /\ Len(<<x>>) = 1
         /\ [<<x>> EXCEPT ![1] = y] = <<y>> /\ Append(<<>>, x) = <<x>> /\ From(<<x>>, 2) = <<>>
<1>1. <<x>> # <<>> /\ <<x>>[1] = x /\ Tail(<<x>>) = <<>> /\ Len(<<x>>) = 1
  OBVIOUS
<1>2. [<<x>> EXCEPT ![1] = y] = <<y>>
  OBVIOUS
<1>3. Append(<<>>, x) = <<x>>
  OBVIOUS
<1>4. From(<<x>>, 2) = <<>>
  BY <1>1 DEF From
<1> QED
  BY <1>1, <1>2, <1>3, <1>4

LEMMA EmptyLine ==
  /\ up = <<>> => \A f : ToHost(f) \in {<<>>, <<f>>}
  /\ down = <<>> => \A i : ToTx(i) \in {<<>>, <<i>>}
BY OneItem DEF ToHost, ToTx

LEMMA OneFlushed ==
  ASSUME QuietLine, NEW x, up = <<x>>
  PROVE  FlushedUp = {<<>>}
<1> DEFINE rests == {From(up, k) : k \in 2 .. Len(up) + 1}
<1>1. 2 .. Len(up) + 1 = {2}
  BY OneItem
<1>2. rests = {<<>>}
  BY <1>1, OneItem
<1>3. "soh" \notin FaultKinds
  BY DEF QuietLine
<1> QED
  BY <1>2, <1>3 DEF FlushedUp

LEMMA NothingFlushed ==
  ASSUME down = <<>>
  PROVE  FlushedDown = {<<>>}
<1> DEFINE rests == {From(down, k) : k \in 1 .. Len(down) + 1}
<1>1. Len(down) = 0 /\ From(down, 1) = <<>>
  BY DEF From
<1>2. 1 .. Len(down) + 1 = {1}
  BY <1>1
<1>3. rests = {<<>>}
  BY <1>1, <1>2
<1>4. {r \in rests : r # <<>> /\ r[1].type = "CMD"} = {}
  BY <1>3
<1> QED
  BY <1>3, <1>4 DEF FlushedDown

\* What TX takes from a quiet line in a wait.
LEMMA WaitTakesToken ==
  ASSUME QuietLine, Token, txpc \in {"wait_reply", "eot_reply"}, NEW b \in BOOLEAN, WaitReply(b)
  PROVE  up = <<>> /\ down' = <<>> /\ (b => down = <<Byte("ACK")>>)
<1>1. down # <<>>
  BY DEF WaitReply, QuietLine
<1>2. up = <<>> /\ \E x \in ReplyByte : down = <<x>>
  BY <1>1 DEF Token
<1>3. PICK x \in ReplyByte : down = <<x>>
  BY <1>2
<1>4. down[1] = x /\ Tail(down) = <<>>
  BY <1>3, OneItem
<1>5. x.type # "CMD" /\ (x.type = "ACK" => x = Byte("ACK"))
  BY DEF ReplyByte, Byte
<1>6. down' = Tail(down) /\ (b => down[1].type = "ACK")
  BY <1>4, <1>5 DEF WaitReply, QuietLine
<1> QED
  BY <1>2, <1>3, <1>4, <1>5, <1>6

LEMMA TokenTx == LinkInv /\ QuietLine /\ Token /\ TxNext => Token'
<1> SUFFICES ASSUME LinkInv, QuietLine, Token, TxNext PROVE Token'
  OBVIOUS
<1>1. UNCHANGED <<hpc, work>>
  BY DEF TxNext, TxInfo, AcceptCommand, HuntCommand, CommandFails, NextRange, RangeDone,
         CheckAbort, ReadSector, SendData, DataAcked, DataRetry, SendEot, EotReply, tx, host
<1>2. CASE TxInfo
  <2>1. up = <<>> /\ down = <<>> /\ hpc \in {"info", "closed"} /\ txpc' = "recv_command"
    BY <1>2 DEF TxInfo, Token
  <2>2. down' = <<>> /\ up' \in {<<>>, <<InfoFrame>>}
    BY <1>2, <2>1, NothingFlushed, EmptyLine DEF TxInfo
  <2> QED
    BY <1>1, <2>1, <2>2 DEF Token
<1>3. CASE txpc = "recv_command"
  <2>1. down # <<>> /\ down[1].type = "CMD" => down = <<Cmd(work)>> /\ up = <<>>
    BY <1>3 DEF Token
  <2>2. down = <<Cmd(work)>> => down[1].whole /\ down[1].type = "CMD" /\ Tail(down) = <<>>
    BY OneItem DEF Cmd
  <2>3. down # <<>> => down = <<Cmd(work)>> /\ up = <<>>
    BY <1>3 DEF Token
  <2>4. AcceptCommand
    BY <1>3, <2>1, <2>2, <2>3
    DEF TxNext, TxInfo, HuntCommand, CommandFails, NextRange, RangeDone, CheckAbort,
        ReadSector, SendData, DataAcked, DataRetry, SendEot, EotReply, QuietLine
  <2>5. up' = <<>> /\ down' = <<>> /\ txpc' = "next_range"
    BY <2>2, <2>3, <2>4 DEF AcceptCommand
  <2> QED
    BY <2>5 DEF Token
<1>4. CASE NextRange \/ RangeDone \/ CheckAbort \/ ReadSector
  <2>1. /\ txpc \in {"next_range", "range_loop"} /\ UNCHANGED <<up, down>>
        /\ txpc' \in {"next_range", "range_loop", "send_data", "send_eot"}
    BY <1>4 DEF NextRange, RangeDone, CheckAbort, ReadSector
  <2> QED
    BY <2>1 DEF Token
<1>5. CASE SendData
  <2>1. /\ txpc = "send_data" /\ txpc' = "wait_reply" /\ UNCHANGED <<lba, status, buf, down>>
        /\ up' = ToHost(DataFrame(lba, status, buf))
    BY <1>5 DEF SendData
  <2>2. up = <<>> /\ down = <<>>
    BY <2>1 DEF Token
  <2>3. up' \in {<<>>, <<DataFrame(lba, status, buf)>>}
    BY <2>1, <2>2, EmptyLine
  <2> QED
    BY <2>1, <2>2, <2>3 DEF Token
<1>6. CASE SendEot
  <2>1. /\ txpc = "send_eot" /\ txpc' = "eot_reply" /\ UNCHANGED <<good, bad, down>>
        /\ up' = ToHost(EotFrame(good, bad))
    BY <1>6 DEF SendEot
  <2>2. up = <<>> /\ down = <<>>
    BY <2>1 DEF Token
  <2>3. up' \in {<<>>, <<EotFrame(good, bad)>>}
    BY <2>1, <2>2, EmptyLine
  <2> QED
    BY <2>1, <2>2, <2>3 DEF Token
<1>7. CASE DataAcked \/ DataRetry \/ EotReply
  <2>1. \E b \in BOOLEAN : WaitReply(b)
    BY <1>7 DEF DataAcked, DataRetry, EotReply
  <2>2. /\ txpc \in {"wait_reply", "eot_reply"} /\ UNCHANGED up
        /\ txpc' \in {"range_loop", "send_data", "lost", "send_eot", "exit"}
    BY <1>7 DEF DataAcked, DataRetry, EotReply
  <2>3. up' = <<>> /\ down' = <<>>
    BY <2>1, <2>2, WaitTakesToken
  <2> QED
    BY <2>2, <2>3 DEF Token
<1> QED
  BY <1>2, <1>3, <1>4, <1>5, <1>6, <1>7
  DEF TxNext, AcceptCommand, HuntCommand, CommandFails

\* A frame on a quiet line after the handshake is the one TX waits about.
LEMMA TokenUp ==
  ASSUME LinkInv, Token, hpc = "data" \/ Linked, up # <<>>
  PROVE  /\ down = <<>>
         /\ \/ txpc = "wait_reply" /\ up \in {<<DataFrame(lba, status, buf)>>, <<Garbled>>}
            \/ txpc = "eot_reply" /\ up \in {<<EotFrame(good, bad)>>, <<Garbled>>}
            \/ txpc = "recv_command" /\ hpc = "closed"
BY DEF Token, LinkInv, ScalarsOK, TxPcs, Linked

LEMMA TokenHost == LinkInv /\ QuietLine /\ Token /\ (HostNext \/ HostInterrupt) => Token'
<1> SUFFICES ASSUME LinkInv, QuietLine, Token, HostNext \/ HostInterrupt PROVE Token'
  OBVIOUS
<1>1. UNCHANGED <<txpc, ranges, ri, lba, status, buf, tries, good, bad>>
  BY DEF HostNext, HostInfo, HostOpen, HostRangeError, HostData, HostReject, HostHunt,
         HostReInfo, HostEot, HostInterrupt, tx
<1>2. CASE hpc \in {"info", "open"}
  <2>1. txpc \in {"tx_info", "recv_command"}
    BY <1>2 DEF LinkInv, LineTruthful, Undecided, Linked
  <2>2. CASE HostInfo
    <3>1. txpc = "recv_command" /\ up = <<InfoFrame>> /\ down = <<>>
      BY <2>1, <2>2 DEF HostInfo, Token
    <3>2. up' = <<>> /\ hpc' = "open" /\ down' = <<>>
      BY <2>2, <3>1, OneItem DEF HostInfo
    <3> QED
      BY <1>1, <3>1, <3>2 DEF Token
  <2>3. CASE HostOpen
    <3>1. txpc = "recv_command" /\ up = <<>> /\ down = <<>>
      BY <2>1, <2>3 DEF HostOpen, Token
    <3>2. up' = <<>> /\ hpc' = "data" /\ down' = ToTx(Cmd(work'))
      BY <2>3, <3>1 DEF HostOpen
    <3>3. down' \in {<<>>, <<Cmd(work')>>}
      BY <3>1, <3>2, EmptyLine
    <3> QED
      BY <1>1, <3>1, <3>2, <3>3 DEF Token
  <2>4. CASE HostRangeError
    <3>1. txpc = "recv_command" /\ up = <<>> /\ down = <<>>
      BY <2>1, <2>4 DEF HostRangeError, Token
    <3> QED
      BY <1>1, <2>4, <3>1 DEF HostRangeError, Token
  <2>5. CASE HostInterrupt
    BY <1>1, <1>2, <2>1, <2>5 DEF HostInterrupt, Token
  <2> QED
    BY <1>2, <2>2, <2>3, <2>4, <2>5
    DEF HostNext, HostData, HostReject, HostHunt, HostReInfo, HostEot
<1>3. CASE hpc = "data"
  <2>1. txpc # "tx_info" /\ (txpc = "recv_command" => up = <<>>)
    BY <1>3 DEF Token
  <2>2. CASE HostInterrupt
    BY <1>1, <1>3, <2>1, <2>2 DEF HostInterrupt, Token
  <2>3. CASE ~HostInterrupt
    <3>1. up # <<>>
      BY <1>3, <2>3
      DEF HostNext, HostInfo, HostOpen, HostRangeError, HostData, HostReject, HostHunt,
          HostReInfo, HostEot
    <3>2. /\ down = <<>> /\ txpc \in {"wait_reply", "eot_reply"}
          /\ up \in {<<DataFrame(lba, status, buf)>>, <<EotFrame(good, bad)>>, <<Garbled>>}
      BY <1>3, <2>1, <3>1, TokenUp
    <3>3. PICK x \in {DataFrame(lba, status, buf), EotFrame(good, bad), Garbled} : up = <<x>>
      BY <3>2
    <3>4. up[1] = x /\ Tail(up) = <<>> /\ FlushedUp = {<<>>}
      BY <3>3, OneItem, OneFlushed
    <3>5. x # InfoFrame /\ "mimic" \notin FaultKinds
      BY DEF DataFrame, EotFrame, Garbled, InfoFrame, QuietLine
    <3>6. up' = <<>> /\ down' \in {down, ToTx(Byte("ACK")), ToTx(Byte("NAK"))}
      BY <1>3, <2>3, <3>4, <3>5
      DEF HostNext, HostInfo, HostOpen, HostRangeError, HostData, HostReject, HostHunt,
          HostReInfo, HostEot
    <3>7. down' \in {<<>>} \cup {<<b>> : b \in ReplyByte}
      BY <3>2, <3>6, EmptyLine DEF ReplyByte
    <3> QED
      BY <1>1, <3>2, <3>6, <3>7 DEF Token
  <2> QED
    BY <2>2, <2>3
<1>4. hpc # "closed"
  BY DEF HostNext, HostInfo, HostOpen, HostRangeError, HostData, HostReject, HostHunt,
         HostReInfo, HostEot, HostInterrupt
<1> QED
  BY <1>2, <1>3, <1>4 DEF LinkInv, ScalarsOK

LEMMA TokenFaults ==
  LinkInv /\ QuietLine /\ Token /\ (Corrupt \/ Lose \/ Noise \/ TxReset) => Token'
<1> SUFFICES ASSUME LinkInv, QuietLine, Token, Corrupt \/ Lose \/ Noise \/ TxReset PROVE Token'
  OBVIOUS
<1>1. Corrupt \/ Lose
  BY DEF Noise, TxReset, Fault, QuietLine
<1>2. /\ UNCHANGED <<txpc, ranges, ri, lba, status, buf, tries, good, bad, hpc, work>>
  BY <1>1 DEF Corrupt, Lose, tx, host
<1>3. ASSUME Exposed(up), up' \in {[up EXCEPT ![1] = Garbled], Tail(up)}, down' = down
      PROVE  Token'
  <2>1. up # <<>> /\ up[1].type # "I"
    BY <1>3 DEF Exposed, QuietLine
  <2>2. up # <<InfoFrame>>
    BY <2>1, OneItem DEF InfoFrame
  <2>3. /\ down = <<>> /\ txpc \in {"wait_reply", "eot_reply"}
        /\ up \in {<<DataFrame(lba, status, buf)>>, <<EotFrame(good, bad)>>, <<Garbled>>}
    BY <2>1, <2>2 DEF Token, LinkInv, ScalarsOK, TxPcs
  <2>4. up' \in {<<Garbled>>, <<>>}
    <3>1. PICK x : up = <<x>>
      BY <2>3
    <3> QED
      BY <1>3, <3>1, OneItem
  <2> QED
    BY <1>2, <1>3, <2>3, <2>4 DEF Token
<1>4. ASSUME Exposed(down), down' \in {[down EXCEPT ![1] = Damage(down[1])], Tail(down)}, up' = up
      PROVE  Token'
  <2>1. down # <<>> /\ down[1].type # "CMD"
    BY <1>4 DEF Exposed, QuietLine
  <2>2. down # <<Cmd(work)>>
    BY <2>1, OneItem DEF Cmd
  <2>3. /\ up = <<>> /\ txpc \in {"wait_reply", "eot_reply"}
        /\ \E b \in ReplyByte : down = <<b>>
    BY <2>1, <2>2 DEF Token, LinkInv, ScalarsOK, TxPcs
  <2>4. down' \in {<<Byte("junk")>>, <<>>}
    BY <1>4, <2>1, <2>3, OneItem DEF Damage
  <2> QED
    BY <1>2, <1>4, <2>3, <2>4 DEF Token, ReplyByte
<1> QED
  BY <1>1, <1>3, <1>4 DEF Corrupt, Lose

\* On a quiet line the invariant of the transfer, from the first INFO to EOT.
QuietInv == Token /\ AckTrue /\ AckedIsStored /\ ReportLast

LEMMA QuietInit == Init => QuietInv
<1> SUFFICES ASSUME Init PROVE QuietInv
  OBVIOUS
<1>1. Token /\ AckTrue
  BY DEF Init, Token, AckTrue
<1>2. AckedIsStored
  BY DEF Init, AckedIsStored, Linked
<1>3. ReportLast
  BY DEF Init, ReportLast, NoReport
<1> QED
  BY <1>1, <1>2, <1>3 DEF QuietInv

\* Without a reset the sectors stored in the pass stay stored once TX has its
\* worklist.
LEMMA StoredGrows ==
  ASSUME LinkInv, [Next]_vars, Linked
  PROVE  stored \subseteq stored'
<1>1. ~HostOpen
  BY UndecidedLine DEF HostOpen, Undecided
<1> QED
  BY <1>1
  DEF Next, TxNext, TxInfo, AcceptCommand, HuntCommand, CommandFails, NextRange, RangeDone,
      CheckAbort, ReadSector, SendData, DataAcked, DataRetry, SendEot, EotReply, HostNext,
      HostInfo, HostRangeError, HostData, HostReject, HostHunt, HostReInfo, HostEot,
      HostInterrupt, Corrupt, Lose, Noise, TxReset, tx, host, vars

LEMMA QuietStep == LinkInv /\ QuietLine /\ QuietInv /\ [Next]_vars => QuietInv'
<1> SUFFICES ASSUME LinkInv, QuietLine, QuietInv, [Next]_vars PROVE QuietInv'
  OBVIOUS
<1> USE DEF QuietInv
<1>0. ~TxReset /\ ~Noise
  BY DEF TxReset, Noise, Fault, QuietLine
<1>1. Token'
  <2>1. CASE UNCHANGED vars
    BY <2>1 DEF Token, vars, tx, host
  <2> QED
    BY <2>1, TokenTx, TokenHost, TokenFaults DEF Next
<1>2. AckTrue'
  <2> SUFFICES ASSUME txpc' = "wait_reply", down' = <<Byte("ACK")>> PROVE lba' \in stored'
    BY DEF AckTrue
  <2>1. CASE TxNext
    <3>1. SendData
      BY <2>1
      DEF TxNext, TxInfo, AcceptCommand, HuntCommand, CommandFails, NextRange, RangeDone,
          CheckAbort, ReadSector, DataAcked, DataRetry, SendEot, EotReply, tx, Token
    <3>2. down' = <<>>
      BY <3>1 DEF SendData, Token
    <3> QED
      BY <3>2, OneItem
  <2>2. CASE UNCHANGED tx
    <3>1. txpc = "wait_reply" /\ lba' = lba /\ Linked
      BY <2>2 DEF tx, Linked
    <3>2. CASE down' = down
      BY <3>1, <3>2, StoredGrows DEF AckTrue
    <3>3. CASE HostData
      <4>1. up # <<>> /\ hpc = "data" /\ up[1].type = "D" /\ stored' = stored \cup {up[1].lba}
        BY <3>3 DEF HostData
      <4>2. up \in {<<DataFrame(lba, status, buf)>>, <<Garbled>>}
        BY <3>1, <4>1 DEF Token
      <4>3. up[1] = DataFrame(lba, status, buf)
        BY <4>1, <4>2, OneItem DEF Garbled
      <4> QED
        BY <3>1, <4>1, <4>3 DEF DataFrame
    <3>4. CASE HostReject
      <4>1. up # <<>> /\ down' = ToTx(Byte("NAK"))
        BY <3>4 DEF HostReject
      <4>2. down = <<>>
        BY <3>1, <4>1 DEF Token
      <4>3. down' \in {<<>>, <<Byte("NAK")>>}
        BY <4>1, <4>2, EmptyLine
      <4>4. Byte("NAK") # Byte("ACK")
        BY DEF Byte
      <4> QED
        BY <4>3, <4>4, OneItem
    <3>5. CASE HostReInfo
      <4>1. up # <<>> /\ up[1] = InfoFrame
        BY <3>5 DEF HostReInfo, QuietLine
      <4>2. up \in {<<DataFrame(lba, status, buf)>>, <<Garbled>>}
        BY <3>1, <4>1 DEF Token
      <4> QED
        BY <4>1, <4>2, OneItem DEF InfoFrame, DataFrame, Garbled
    <3>6. CASE HostEot
      <4>1. up # <<>> /\ up[1].type = "E"
        BY <3>6 DEF HostEot
      <4>2. up \in {<<DataFrame(lba, status, buf)>>, <<Garbled>>}
        BY <3>1, <4>1 DEF Token
      <4> QED
        BY <4>1, <4>2, OneItem DEF DataFrame, Garbled
    <3>7. CASE HostOpen
      BY <3>1, <3>7, UndecidedLine DEF HostOpen, Undecided
    <3>8. CASE (Corrupt \/ Lose) /\ down' # down
      <4>1. /\ down # <<>> /\ down[1].type # "CMD"
            /\ down' \in {[down EXCEPT ![1] = Damage(down[1])], Tail(down)}
        BY <3>8 DEF Corrupt, Lose, Exposed, QuietLine
      <4>2. PICK x : down = <<x>>
        BY <3>1, <4>1 DEF Token
      <4>3. down' \in {<<Byte("junk")>>, <<>>}
        BY <4>1, <4>2, OneItem DEF Damage
      <4>4. Byte("junk") # Byte("ACK")
        BY DEF Byte
      <4> QED
        BY <4>3, <4>4, OneItem
    <3> QED
      BY <1>0, <2>2, <3>2, <3>3, <3>4, <3>5, <3>6, <3>7, <3>8
      DEF Next, TxNext, TxInfo, AcceptCommand, HuntCommand, CommandFails, NextRange, RangeDone,
          CheckAbort, ReadSector, SendData, DataAcked, DataRetry, SendEot, EotReply, HostNext,
          HostInfo, HostRangeError, HostHunt, HostInterrupt, tx, vars
  <2> QED
    BY <1>0, <2>1, <2>2
    DEF Next, HostNext, HostInfo, HostOpen, HostRangeError, HostData, HostReject, HostHunt,
        HostReInfo, HostEot, HostInterrupt, Corrupt, Lose, vars
<1>3. AckedIsStored'
  <2> SUFFICES ASSUME Linked' PROVE Passed' \subseteq stored'
    BY DEF AckedIsStored
  <2>1. CASE TxNext /\ Linked
    <3>1. Passed' = IF DataAcked THEN Passed \cup {lba} ELSE Passed
      BY <2>1, PassedSteps
    <3>2. DataAcked => lba \in stored
      BY WaitTakesToken DEF DataAcked, AckTrue
    <3> QED
      BY <2>1, <3>1, <3>2, StoredGrows DEF AckedIsStored
  <2>2. CASE TxNext /\ ~Linked
    <3>1. AcceptCommand
      BY <2>2
      DEF TxNext, TxInfo, HuntCommand, CommandFails, NextRange, RangeDone,
          CheckAbort, ReadSector, SendData, DataAcked, DataRetry, SendEot, EotReply, Linked, tx
    <3>2. ri' = 1 /\ txpc' = "next_range" /\ ranges' \in Worklist
      BY <3>1, LinkInductive DEF AcceptCommand, LinkInv, ScalarsOK
    <3>3. \A i \in DOMAIN ranges' : ~(i < 1)
      BY <3>2, WorklistFacts
    <3> QED
      BY <3>2, <3>3 DEF Passed
  <2>3. CASE UNCHANGED tx
    <3>1. Linked /\ Passed' = Passed
      BY <2>3 DEF Linked, Passed, tx
    <3> QED
      BY <3>1, StoredGrows DEF AckedIsStored
  <2> QED
    BY <1>0, <2>1, <2>2, <2>3
    DEF Next, HostNext, HostInfo, HostOpen, HostRangeError, HostData, HostReject, HostHunt,
        HostReInfo, HostEot, HostInterrupt, Corrupt, Lose, vars
<1>4. ReportLast'
  BY DEF ReportLast, Next, TxNext, TxInfo, AcceptCommand, HuntCommand, CommandFails, NextRange,
      RangeDone, CheckAbort, ReadSector, SendData, DataAcked, DataRetry, SendEot, EotReply,
      HostNext, HostInfo, HostOpen, HostRangeError, HostData, HostReject, HostHunt, HostReInfo,
      HostEot, HostInterrupt, Corrupt, Lose, Noise, TxReset, tx, host, vars
<1> QED
  BY <1>1, <1>2, <1>3, <1>4

\* TX goes past a sector only when the host has stored it, as long as the line only
\* damages and loses frames of the transfer and TX waits for a byte (tx.S): there
\* is never more than one frame or reply under way, so no ACK can be taken for the
\* answer to a later frame.  With a timeout (main.c), or with an
\* SOH in a damaged sector that draws a second NAK, this does not hold: c_skip.cfg
\* and asm_skip.cfg show sectors skipped.
THEOREM AckMeansStored ==
  ASSUME ~Timer, FaultKinds \subseteq {"corrupt", "lose"}
  PROVE  Spec => []AckedIsStored
<1>0. QuietLine
  BY DEF QuietLine
<1>1. Init => QuietInv
  BY QuietInit
<1>2. LinkInv /\ QuietInv /\ [Next]_vars => QuietInv'
  BY <1>0, QuietStep
<1>3. QuietInv => AckedIsStored
  BY DEF QuietInv
<1> QED
  BY <1>1, <1>2, <1>3, LinkInvariant, PTL DEF Spec

\* The marks of the sectors TX has gone past are counted.
LEMMA PassedCounted ==
  \A m : IsFiniteSet(PassedAs(m)) /\ Cardinality(PassedAs(m)) \in Nat
<1>1. \A m : PassedAs(m) \in SUBSET Sectors
  BY DEF PassedAs, Passed
<1> QED
  BY <1>1, SectorsFinite, FS_CardinalityType

\* An ACK moves the sector in TX's buffer to those it has gone past, with its mark.
LEMMA AckCounts ==
  ASSUME LinkInv, Linked, Disjoint(work), DataAcked, statusmap[lba] = status
  PROVE  \A m : Cardinality(PassedAs(m)') =
                  Cardinality(PassedAs(m)) + (IF status = m THEN 1 ELSE 0)
<1>1. /\ txpc = "wait_reply" /\ UNCHANGED statusmap
      /\ ri <= Len(ranges) /\ ranges[ri][1] <= lba /\ lba < ranges[ri][2]
  BY DEF DataAcked, LinkInv, TxPosition, host
<1>2. lba \notin Passed
  BY <1>1, CurrentIsNew
<1>3. Passed' = Passed \cup {lba}
  BY PassedSteps DEF TxNext
<1> TAKE m
<1>4. IsFiniteSet(PassedAs(m)) /\ Cardinality(PassedAs(m)) \in Nat
  BY PassedCounted
<1>5. CASE status = m
  <2>1. PassedAs(m)' = PassedAs(m) \cup {lba} /\ lba \notin PassedAs(m)
    BY <1>1, <1>2, <1>3, <1>5 DEF PassedAs
  <2> QED
    BY <1>4, <1>5, <2>1, FS_AddElement
<1>6. CASE status # m
  <2>1. PassedAs(m)' = PassedAs(m)
    BY <1>1, <1>3, <1>6 DEF PassedAs
  <2> QED
    BY <1>4, <1>6, <2>1
<1> QED
  BY <1>5, <1>6

LEMMA TallyStep ==
  ASSUME LinkInv, QuietLine, QuietInv, OneStory, TxTally, [Next]_vars
  PROVE  TxTally'
<1> SUFFICES ASSUME Linked', Disjoint(work')
             PROVE  /\ good' = Cardinality(PassedAs("GOOD")')
                                 + (IF Current' /\ status' = "GOOD" THEN 1 ELSE 0)
                    /\ bad' = Cardinality(PassedAs("BAD")')
                                + (IF Current' /\ status' = "BAD" THEN 1 ELSE 0)
  BY DEF TxTally
<1>0. ~TxReset /\ ~Noise /\ "reset" \notin FaultKinds
  BY DEF TxReset, Noise, Fault, QuietLine
<1>1. \A m : Cardinality(PassedAs(m)) \in Nat
  BY PassedCounted
<1>2. good \in Nat /\ bad \in Nat /\ status \in {"GOOD", "BAD"}
  BY DEF LinkInv, ScalarsOK
<1>3. CASE TxNext /\ ~Linked
  <2>1. AcceptCommand
    BY <1>3
    DEF TxNext, TxInfo, HuntCommand, CommandFails, NextRange, RangeDone,
        CheckAbort, ReadSector, SendData, DataAcked, DataRetry, SendEot, EotReply, Linked, tx
  <2>2. /\ ri' = 1 /\ txpc' = "next_range" /\ ranges' \in Worklist /\ good' = 0 /\ bad' = 0
    BY <2>1, LinkInductive DEF AcceptCommand, LinkInv, ScalarsOK
  <2>3. \A i \in DOMAIN ranges' : ~(i < 1)
    BY <2>2, WorklistFacts
  <2>4. PassedAs("GOOD")' = {} /\ PassedAs("BAD")' = {} /\ ~Current'
    BY <2>2, <2>3 DEF Passed, PassedAs, Current
  <2> QED
    BY <2>2, <2>4, FS_EmptySet
<1>4. CASE TxNext /\ Linked
  <2>1. UNCHANGED <<work, statusmap>>
    BY <1>4
    DEF TxNext, TxInfo, AcceptCommand, HuntCommand, CommandFails, NextRange, RangeDone,
        CheckAbort, ReadSector, SendData, DataAcked, DataRetry, SendEot, EotReply, host
  <2>2. /\ good = Cardinality(PassedAs("GOOD")) + (IF Current /\ status = "GOOD" THEN 1 ELSE 0)
        /\ bad = Cardinality(PassedAs("BAD")) + (IF Current /\ status = "BAD" THEN 1 ELSE 0)
    BY <1>4, <2>1 DEF TxTally
  <2>3. CASE DataAcked
    <3>1. txpc = "wait_reply" /\ Current /\ ~Current' /\ UNCHANGED <<good, bad>>
      BY <2>3 DEF DataAcked, Current
    <3>2. lba \in stored
      BY <2>3, WaitTakesToken DEF DataAcked, AckTrue, QuietInv
    <3>3. statusmap[lba] = status
      BY <1>0, <2>1, <3>1, <3>2 DEF OneStory, Story
    <3>4. \A m : Cardinality(PassedAs(m)') =
                   Cardinality(PassedAs(m)) + (IF status = m THEN 1 ELSE 0)
      BY <1>4, <2>1, <2>3, <3>3, AckCounts
    <3> QED
      BY <1>1, <2>2, <3>1, <3>4
  <2>4. CASE ~DataAcked
    <3>1. Passed' = Passed
      BY <1>4, <2>4, PassedSteps
    <3>2. PassedAs("GOOD")' = PassedAs("GOOD") /\ PassedAs("BAD")' = PassedAs("BAD")
      BY <2>1, <3>1 DEF PassedAs
    <3>3. CASE ReadSector
      <4>1. ~Current /\ Current'
        BY <3>3 DEF ReadSector, Current
      <4>2. CASE status' = "GOOD" /\ good' = good + 1 /\ bad' = bad
        BY <1>1, <2>2, <3>2, <4>1, <4>2
      <4>3. CASE status' = "BAD" /\ bad' = bad + 1 /\ good' = good
        BY <1>1, <2>2, <3>2, <4>1, <4>3
      <4> QED
        BY <3>3, <4>2, <4>3 DEF ReadSector
    <3>4. CASE ~ReadSector
      <4> USE <1>4, <2>4, <3>4
          DEF TxNext, TxInfo, AcceptCommand, HuntCommand, CommandFails, NextRange, RangeDone,
              CheckAbort, SendData, DataRetry, SendEot, EotReply
      <4>1. UNCHANGED <<good, bad, status>>
        BY DEF Linked, tx
      <4>2. (Current => Current') /\ (Current' => Current)
        BY DEF Current, tx
      <4> QED
        BY <2>2, <3>2, <4>1, <4>2
    <3> QED
      BY <3>3, <3>4
  <2> QED
    BY <2>3, <2>4
<1>5. CASE UNCHANGED tx
  <2>1. Linked /\ Passed' = Passed /\ Current' = Current /\ UNCHANGED <<good, bad, status, lba>>
    BY <1>5 DEF Linked, Passed, Current, tx
  <2>2. ~HostOpen /\ ~HostRangeError
    BY <2>1, UndecidedLine DEF HostOpen, HostRangeError, Undecided
  <2>3. UNCHANGED work
    BY <1>5, <2>2
    DEF Next, TxNext, TxInfo, AcceptCommand, HuntCommand, CommandFails, NextRange, RangeDone,
        CheckAbort, ReadSector, SendData, DataAcked, DataRetry, SendEot, EotReply, HostNext,
        HostInfo, HostData, HostReject, HostHunt, HostReInfo, HostEot,
        HostInterrupt, Corrupt, Lose, Noise, TxReset, tx, host, vars
  <2>4. \A l \in Passed : statusmap'[l] = statusmap[l]
    <3>1. CASE HostData
      <4>1. Passed \subseteq stored
        BY <2>1 DEF QuietInv, AckedIsStored
      <4>2. PICK t \in [Sectors -> {"GOOD", "BAD"}] : Story(t)
        BY <1>0, <2>3 DEF OneStory
      <4>3. up[1] \in StoryFrames(t) /\ up[1].type = "D"
        BY <3>1, <4>2, EmptySeq, ElementOfSeq DEF HostData, Story
      <4>4. up[1].status = t[up[1].lba]
        BY <4>3 DEF StoryFrames, DataFrame, InfoFrame, Garbled
      <4>5. statusmap' = [statusmap EXCEPT ![up[1].lba] = up[1].status]
        BY <3>1 DEF HostData
      <4> QED
        BY <4>1, <4>2, <4>4, <4>5 DEF Story, LinkInv, ScalarsOK
    <3>2. CASE UNCHANGED statusmap
      BY <3>2
    <3> QED
      BY <1>5, <2>2, <3>1, <3>2
      DEF Next, TxNext, TxInfo, AcceptCommand, HuntCommand, CommandFails, NextRange, RangeDone,
          CheckAbort, ReadSector, SendData, DataAcked, DataRetry, SendEot, EotReply, HostNext,
          HostInfo, HostReject, HostHunt, HostReInfo, HostEot,
          HostInterrupt, Corrupt, Lose, Noise, TxReset, tx, host, vars
  <2>5. PassedAs("GOOD")' = PassedAs("GOOD") /\ PassedAs("BAD")' = PassedAs("BAD")
    BY <2>1, <2>4 DEF PassedAs
  <2>6. /\ good = Cardinality(PassedAs("GOOD")) + (IF Current /\ status = "GOOD" THEN 1 ELSE 0)
        /\ bad = Cardinality(PassedAs("BAD")) + (IF Current /\ status = "BAD" THEN 1 ELSE 0)
    BY <2>1, <2>3 DEF TxTally
  <2> QED
    BY <2>1, <2>5, <2>6
<1> QED
  BY <1>0, <1>3, <1>4, <1>5
  DEF Next, HostNext, HostInfo, HostOpen, HostRangeError, HostData, HostReject, HostHunt,
      HostReInfo, HostEot, HostInterrupt, Corrupt, Lose, vars

\* When TX sends EOT, what the host has stored is what TX has gone past.
LEMMA EotCounts ==
  ASSUME LinkInv, QuietLine, QuietInv, OneStory, TxTally, Disjoint(work), HostEot
  PROVE  \A t \in {<<"GOOD", report'.good>>, <<"BAD", report'.bad>>} :
           t[2] = Cardinality({l \in stored : statusmap[l] = t[1]})
<1>1. hpc = "data" /\ up # <<>> /\ up[1].type = "E"
      /\ report' = [good |-> up[1].good, bad |-> up[1].bad, seen |-> TRUE]
  BY DEF HostEot
<1>2. txpc = "eot_reply" /\ up = <<EotFrame(good, bad)>>
  <2>1. \/ txpc = "wait_reply" /\ up \in {<<DataFrame(lba, status, buf)>>, <<Garbled>>}
        \/ txpc = "eot_reply" /\ up \in {<<EotFrame(good, bad)>>, <<Garbled>>}
    BY <1>1, TokenUp DEF QuietInv
  <2>2. up # <<Garbled>> /\ up # <<DataFrame(lba, status, buf)>>
    BY <1>1, OneItem DEF Garbled, DataFrame
  <2> QED
    BY <2>1, <2>2
<1>3. report'.good = good /\ report'.bad = bad
  BY <1>1, <1>2, OneItem DEF EotFrame
<1>4. Linked /\ ~Current
  BY <1>2 DEF Linked, Current
<1>5. stored = Passed
  <2>1. "reset" \notin FaultKinds
    BY DEF QuietLine
  <2>2. PICK t \in [Sectors -> {"GOOD", "BAD"}] : Story(t)
    BY <2>1 DEF OneStory
  <2>3. stored \subseteq Passed
    BY <1>4, <2>2 DEF Story, Reached
  <2> QED
    BY <1>4, <2>3 DEF QuietInv, AckedIsStored
<1>6. good = Cardinality(PassedAs("GOOD")) /\ bad = Cardinality(PassedAs("BAD"))
  <2>1. Cardinality(PassedAs("GOOD")) \in Nat /\ Cardinality(PassedAs("BAD")) \in Nat
    BY PassedCounted
  <2> QED
    BY <1>4, <2>1 DEF TxTally
<1> QED
  BY <1>3, <1>5, <1>6 DEF PassedAs

\* After an EOT nothing is stored any more.
LEMMA ReportKept ==
  ASSUME LinkInv, QuietInv, [Next]_vars, report.seen
  PROVE  UNCHANGED <<report, stored, statusmap, work>>
<1>1. hpc = "closed"
  BY DEF QuietInv, ReportLast
<1> QED
  BY <1>1
  DEF Next, TxNext, TxInfo, AcceptCommand, HuntCommand, CommandFails, NextRange, RangeDone,
      CheckAbort, ReadSector, SendData, DataAcked, DataRetry, SendEot, EotReply, HostNext,
      HostInfo, HostOpen, HostRangeError, HostData, HostReject, HostHunt, HostReInfo, HostEot,
      HostInterrupt, Corrupt, Lose, Noise, TxReset, tx, host, vars

\* The two numbers of the EOT frame are how many sectors of this pass the image and
\* the map hold as read and as unreadable, as long as the ranges do not overlap and
\* under the conditions of AckMeansStored: nothing skipped, nothing counted twice.
THEOREM TallyIsExact ==
  ASSUME ~Timer, FaultKinds \subseteq {"corrupt", "lose"}
  PROVE  Spec => []TallyExact
<1> DEFINE Inv == QuietInv /\ OneStory /\ TxTally /\ TallyExact
<1>0. QuietLine
  BY DEF QuietLine
<1>1. Init => Inv
  BY QuietInit, StoryInit DEF Init, TxTally, Linked, TallyExact, NoReport
<1>2. LinkInv /\ Inv /\ [Next]_vars => Inv'
  <2> SUFFICES ASSUME LinkInv, Inv, [Next]_vars PROVE Inv'
    OBVIOUS
  <2>1. QuietInv' /\ OneStory' /\ TxTally'
    BY <1>0, QuietStep, StoryStep, TallyStep
  <2>2. TallyExact'
    <3>1. CASE report.seen
      BY <3>1, ReportKept DEF TallyExact
    <3>2. CASE ~report.seen /\ HostEot
      <4>1. UNCHANGED <<stored, statusmap, work>>
        BY <3>2 DEF HostEot
      <4> QED
        BY <1>0, <3>2, <4>1, EotCounts DEF TallyExact
    <3>3. CASE ~report.seen /\ ~HostEot
      <4>1. report' = report
        BY <3>3
        DEF Next, TxNext, TxInfo, AcceptCommand, HuntCommand, CommandFails, NextRange,
            RangeDone, CheckAbort, ReadSector, SendData, DataAcked, DataRetry, SendEot,
            EotReply, HostNext, HostInfo, HostOpen, HostRangeError, HostData, HostReject,
            HostHunt, HostReInfo, HostInterrupt, Corrupt, Lose, Noise, TxReset, tx, host, vars
      <4> QED
        BY <3>3, <4>1 DEF TallyExact
    <3> QED
      BY <3>1, <3>2, <3>3
  <2> QED
    BY <2>1, <2>2
<1> QED
  BY <1>1, <1>2, LinkInvariant, PTL DEF Spec

=============================================================================
