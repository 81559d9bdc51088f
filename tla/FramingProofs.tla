--------------------------- MODULE FramingProofs ---------------------------
(***************************************************************************)
(* What one bad byte does to the line: frames without an SOH in their data *)
(* and at most one byte lost, changed or invented.  The bytes the host has *)
(* of a frame and the bytes on the way make one stream; the invariant says *)
(* which shapes it can have and how many resends each has cost, until the  *)
(* host takes a frame for an INFO and sends its CMD.  What the stream      *)
(* holds behind the host's SOH decides what is stored.                     *)
(***************************************************************************)
EXTENDS Framing, SequenceTheorems, TLAPS

\* No sector's data or CRC has an SOH.
PlainData ==
  \A w \in Works : \A i \in DOMAIN w : \A n \in 2 .. FrameLen : w[i][n] # "SOH"

\* What the host has read of a frame and what is on the way to it.
Line == got \o up

\* Bytes of the frame that have been sent in this try.
Begun == IF txpc \in {"send", "wait"} THEN k ELSE 0

\* Where the host will find or has found its next SOH at the earliest.
First(f) ==
  /\ f \in 1 .. Len(Line) + 1
  /\ \A i \in 1 .. f - 1 : Line[i] # "SOH"
  /\ got # <<>> => f = 1

Busy == txpc \in {"send", "wait"} /\ k >= 1

\* The host will find no SOH in what is on the way.
Free == First(Len(Line) + 1)

Typed ==
  /\ work \in Works /\ cur \in 1 .. Len(work)
  /\ txpc \in {"read", "send", "wait", "lost", "done"}
  /\ k \in 0 .. FrameLen
  /\ txpc = "send" => k < FrameLen
  /\ txpc = "wait" => k = FrameLen
  /\ tries \in Nat /\ faults \in Nat /\ faults <= MaxFaults
  /\ up \in Seq(STRING) /\ got \in Seq(STRING) /\ Len(got) < FrameLen
  /\ got # <<>> => got[1] = "SOH"
  /\ Len(got) >= 2 => Len(got) < Need(got)

(* The shapes of the line.                                                 *)

\* Bytes the host passes over, then the frame as far as it has been sent.
Clean ==
  /\ down = <<>>
  /\ \E f \in 1 .. Len(Line) + 1 :
       /\ First(f) /\ Len(Line) = f - 1 + Begun
       /\ \A i \in 1 .. Begun : Line[f - 1 + i] = work[cur][i]

\* The frame is answered, perhaps before it is all sent.
Replied ==
  /\ Busy /\ Free
  /\ down = <<"ACK">> \/ (down = <<"NAK">> /\ faults = 1 /\ tries <= 1)

\* The host will find no frame and not answer.
Mute == Busy /\ Free /\ down = <<>> /\ faults = 1 /\ tries <= 1

\* The host makes a frame of the SOH at f and what follows: m bytes of it are there,
\* it draws one answer, and no other SOH is behind it.
Odd(s, f, m) ==
  /\ Len(s) - f + 1 >= m
  /\ \A i \in f + 2 .. Len(s) : s[i] = "SOH" => s[f + 1] = "D" /\ i < f + FrameLen

\* At f is an SOH and behind it not what was sent.
Crooked ==
  /\ Busy /\ down = <<>> /\ faults = 1 /\ tries <= 1
  /\ \E f \in 1 .. Len(Line) :
       First(f) /\ Line[f] = "SOH" /\ Odd(Line, f, k - 1 + tries)

\* A frame and an SOH that was not sent.
Trailing ==
  /\ txpc = "wait" /\ down = <<>> /\ faults = 1 /\ tries = 0
  /\ \E f \in 1 .. Len(Line) :
       /\ First(f) /\ Len(Line) = f + FrameLen /\ Line[Len(Line)] = "SOH"
       /\ \A i \in 1 .. FrameLen : Line[f - 1 + i] = work[cur][i]

\* The same when the frame has been answered.
TailAcked ==
  /\ txpc = "wait" /\ down = <<"ACK">> /\ faults = 1 /\ tries = 0
  /\ Len(Line) >= 1 /\ First(Len(Line)) /\ Line[Len(Line)] = "SOH"

\* Between two frames the host waits for the rest of one: all but one byte of it,
\* or what follows an SOH.
Stuck ==
  /\ ~Busy /\ down = <<>> /\ faults = 1 /\ (txpc = "send" => tries <= 1)
  /\ \E f \in 1 .. Len(Line) :
       /\ First(f) /\ Line[f] = "SOH"
       /\ \/ Len(Line) = f
          \/ Len(Line) > f /\ Line[f + 1] = "D" /\ Len(Line) - f + 1 = FrameLen - 1

Shape == Clean \/ Replied \/ Mute \/ Crooked \/ Trailing \/ TailAcked \/ Stuck

Faultless == faults = 0 => Clean \/ (txpc = "wait" /\ down = <<"ACK">> /\ Free)

Resends == tries <= 2 * faults

LineInv == Typed /\ Resends /\ Faultless /\ Shape

\* As long as the host has not taken a frame for an INFO.
Uncommanded == Typed /\ (~commanded => LineInv)

---------------------------------------------------------------------------
(* The stream.                                                             *)

LEMMA LineIs ==
  ASSUME Typed
  PROVE  /\ Line \in Seq(STRING) /\ Len(Line) = Len(got) + Len(up)
         /\ Len(Line) \in Nat
         /\ \A i \in 1 .. Len(got) : Line[i] = got[i]
         /\ \A i \in 1 .. Len(up) : Line[Len(got) + i] = up[i]
  BY DEF Line, Typed

LEMMA FrameIs ==
  ASSUME Typed, PlainData
  PROVE  /\ work \in Seq(Seq(STRING)) /\ cur \in DOMAIN work
         /\ work[cur] \in Seq(STRING) /\ Len(work[cur]) = FrameLen
         /\ work[cur][1] = "SOH" /\ work[cur][2] = "D"
         /\ \A n \in 2 .. FrameLen : work[cur][n] # "SOH"
<1>1. work \in Works /\ work \in Seq(Seq(STRING)) /\ cur \in 1 .. Len(work)
  BY FramingAssumption DEF Typed
<1>2. cur \in DOMAIN work /\ work[cur] \in Seq(STRING)
  BY <1>1
<1>3. Len(work[cur]) = FrameLen /\ work[cur][1] = "SOH" /\ work[cur][2] = "D"
  BY <1>1, <1>2, FramingAssumption
<1>4. \A n \in 2 .. FrameLen : work[cur][n] # "SOH"
  BY <1>1, <1>2 DEF PlainData
<1> QED
  BY <1>1, <1>2, <1>3, <1>4

LEMMA OneByte ==
  ASSUME NEW j \in STRING
  PROVE  <<j>> \in Seq(STRING) /\ Len(<<j>>) = 1 /\ <<j>>[1] = j
<1>1. <<j>> \in Seq(STRING)
  <2>1. ASSUME NEW S, NEW x \in S PROVE <<x>> \in Seq(S)
    OBVIOUS
  <2> QED
    BY <2>1
<1>2. Len(<<j>>) = 1
  OBVIOUS
<1>3. <<j>>[1] = j
  OBVIOUS
<1> QED
  BY <1>1, <1>2, <1>3

LEMMA ByteBehind ==
  ASSUME NEW g \in Seq(STRING), NEW u \in Seq(STRING), NEW b \in STRING
  PROVE  /\ g \o (u \o <<b>>) \in Seq(STRING)
         /\ Len(g \o (u \o <<b>>)) = Len(g \o u) + 1
         /\ (g \o (u \o <<b>>))[Len(g \o u) + 1] = b
         /\ \A i \in 1 .. Len(g \o u) : (g \o (u \o <<b>>))[i] = (g \o u)[i]
         /\ Append(u, b) = u \o <<b>>
<1>1. Append(u, b) = u \o <<b>>
  BY AppendIsConcat, Zenon
<1>2. g \o u \in Seq(STRING)
  BY ConcatProperties, Zenon
<1>3. Append(g \o u, b) = (g \o u) \o <<b>>
  BY <1>2, AppendIsConcat, Zenon
<1>4. (g \o u) \o <<b>> = g \o (u \o <<b>>)
  <2>1. <<b>> \in Seq(STRING)
    BY OneByte, Zenon
  <2> QED
    BY <2>1, ConcatAssociative
<1>5. Append(g \o u, b) = g \o (u \o <<b>>)
  BY <1>3, <1>4, Zenon
<1>6. /\ Append(g \o u, b) \in Seq(STRING)
      /\ Len(Append(g \o u, b)) = Len(g \o u) + 1
      /\ \A i \in 1 .. Len(g \o u) : Append(g \o u, b)[i] = (g \o u)[i]
      /\ Append(g \o u, b)[Len(g \o u) + 1] = b
  <2>1. ASSUME NEW l \in Seq(STRING)
        PROVE  /\ Append(l, b) \in Seq(STRING) /\ Len(Append(l, b)) = Len(l) + 1
               /\ \A i \in 1 .. Len(l) : Append(l, b)[i] = l[i]
               /\ Append(l, b)[Len(l) + 1] = b
    <3>1. Append(l, b) \in Seq(STRING)
      BY AppendProperties, Zenon
    <3>2. Len(Append(l, b)) = Len(l) + 1
      BY AppendProperties, Zenon
    <3>4. Append(l, b)[Len(l) + 1] = b
      BY AppendProperties, Zenon
    <3>3. \A i \in 1 .. Len(l) : Append(l, b)[i] = l[i]
      OBVIOUS
    <3> QED
      BY <3>1, <3>2, <3>3, <3>4, Zenon
  <2> QED
    BY <1>2, <2>1, Zenon
<1> QED
  BY <1>1, <1>5, <1>6, Zenon

\* One more byte on the line.
LEMMA LineGrows ==
  ASSUME Typed, NEW b \in STRING, up' = up \o <<b>>, got' = got
  PROVE  /\ Line' \in Seq(STRING) /\ Len(Line') = Len(Line) + 1
         /\ Line'[Len(Line) + 1] = b
         /\ \A i \in 1 .. Len(Line) : Line'[i] = Line[i]
<1>1. up \in Seq(STRING) /\ got \in Seq(STRING)
  BY DEF Typed
<1>2. Line' = got \o (up \o <<b>>)
  BY DEF Line
<1> QED
  BY <1>1, <1>2, ByteBehind DEF Line

LEMMA FirstGrows ==
  ASSUME Typed, NEW b \in STRING, up' = up \o <<b>>, got' = got,
         NEW f, First(f)
  PROVE  First(f)'
<1>1. /\ Len(Line) \in Nat /\ Len(Line') = Len(Line) + 1
      /\ \A i \in 1 .. Len(Line) : Line'[i] = Line[i]
  BY LineGrows, LineIs
<1>2. f \in 1 .. Len(Line') + 1
  BY <1>1 DEF First
<1>3. ASSUME NEW i \in 1 .. f - 1 PROVE Line'[i] # "SOH"
  <2>1. i \in 1 .. Len(Line)
    BY <1>1 DEF First
  <2> QED
    BY <1>1, <2>1 DEF First
<1> QED
  BY <1>2, <1>3 DEF First

LEMMA OddGrows ==
  ASSUME NEW s \in Seq(STRING), NEW t \in Seq(STRING), NEW b \in STRING, b # "SOH",
         Len(t) = Len(s) + 1, t[Len(s) + 1] = b, \A i \in 1 .. Len(s) : t[i] = s[i],
         NEW f \in 1 .. Len(s), NEW m \in Int, Odd(s, f, m)
  PROVE  Odd(t, f, m + 1)
<1>1. FrameLen \in Nat /\ FrameLen >= 4 /\ Len(s) \in Nat
  BY FramingAssumption
<1>2. Len(t) - f + 1 >= m + 1
  BY <1>1 DEF Odd
<1>3. ASSUME NEW i \in f + 2 .. Len(t), t[i] = "SOH"
      PROVE  t[f + 1] = "D" /\ i < f + FrameLen
  <2>1. i \in f + 2 .. Len(s) /\ i \in 1 .. Len(s) /\ f + 1 \in 1 .. Len(s)
    BY <1>1, <1>3
  <2> QED
    BY <1>3, <2>1 DEF Odd
<1> QED
  BY <1>2, <1>3 DEF Odd

\* A resend begins while the host waits for the rest of a frame.
LEMMA OddStarts ==
  ASSUME NEW s \in Seq(STRING), NEW t \in Seq(STRING),
         Len(t) = Len(s) + 1, t[Len(s) + 1] = "SOH", \A i \in 1 .. Len(s) : t[i] = s[i],
         NEW f \in 1 .. Len(s), NEW m \in Nat, m <= 1,
         \/ Len(s) = f
         \/ Len(s) > f /\ s[f + 1] = "D" /\ Len(s) - f + 1 = FrameLen - 1
  PROVE  Odd(t, f, m)
<1>0. FrameLen \in Nat /\ FrameLen >= 4
  BY FramingAssumption
<1>1. CASE Len(s) = f
  BY <1>0, <1>1 DEF Odd
<1>2. CASE Len(s) > f /\ s[f + 1] = "D" /\ Len(s) - f + 1 = FrameLen - 1
  BY <1>0, <1>2 DEF Odd
<1> QED
  BY <1>1, <1>2

\* A byte that is no SOH leaves the line free of them.
LEMMA FreeGrows ==
  ASSUME Typed, NEW b \in STRING, b # "SOH", up' = up \o <<b>>, got' = got, Free,
         got = <<>>
  PROVE  Free'
<1>1. /\ Len(Line) \in Nat /\ Len(Line') = Len(Line) + 1 /\ Line'[Len(Line) + 1] = b
      /\ \A i \in 1 .. Len(Line) : Line'[i] = Line[i]
  BY LineGrows, LineIs
<1>2. ASSUME NEW i \in 1 .. Len(Line) PROVE Line[i] # "SOH"
  BY <1>1 DEF First, Free
<1>3. ASSUME NEW i \in 1 .. Len(Line') PROVE Line'[i] # "SOH"
  BY <1>1, <1>2
<1>4. Len(Line') + 1 \in 1 .. Len(Line') + 1 /\ Len(Line') + 1 - 1 = Len(Line')
  BY <1>1
<1> QED
  BY <1>3, <1>4 DEF First, Free

LEMMA FreeIsHunting ==
  ASSUME Typed, Free
  PROVE  got = <<>>
  BY LineIs DEF First, Free, Typed

---------------------------------------------------------------------------
(* The sender's steps.                                                     *)

LEMMA KeepTyped ==
  ASSUME Typed, PlainData, [Next]_vars
  PROVE  Typed'
<1>a. FrameLen \in Nat /\ FrameLen >= 4 /\ Junk \subseteq STRING /\ MaxFaults \in Nat
  BY FramingAssumption
<1>b. EotLen \in Nat /\ InfoLen \in Nat /\ EotLen < FrameLen /\ InfoLen < FrameLen
  BY FramingAssumption
<1> USE <1>a
<1>f. /\ work \in Seq(Seq(STRING)) /\ work[cur] \in Seq(STRING)
      /\ Len(work[cur]) = FrameLen /\ Len(work) \in Nat
  BY FrameIs
<1>1. CASE ReadSector
  BY <1>1 DEF ReadSector, Typed
<1>2. CASE SendByte \/ SendDamaged
  <2>1. ASSUME SendByte
        PROVE  Put(<<Byte>>) /\ <<Byte>> \in Seq(STRING)
    <3>1. k + 1 \in 1 .. FrameLen
      BY <2>1 DEF SendByte, Put, Typed
    <3> QED
      BY <2>1, <3>1, <1>f DEF SendByte, Byte
  <2>2. ASSUME SendDamaged
        PROVE  \E a \in Seq(STRING) : Put(a)
    <3>1. PICK a \in {<<>>} \cup {<<j>> : j \in Junk} : Put(a)
      BY <2>2 DEF SendDamaged
    <3>2. a \in Seq(STRING)
      <4>1. <<>> \in Seq(STRING)
        OBVIOUS
      <4>2. ASSUME NEW j \in Junk PROVE <<j>> \in Seq(STRING)
        BY <4>2, OneByte
      <4> QED
        BY <4>1, <4>2
    <3> QED
      BY <3>1, <3>2
  <2>3. PICK a \in Seq(STRING) : Put(a)
    BY <1>2, <2>1, <2>2
  <2>4. faults' \in Nat /\ faults' <= MaxFaults
    BY <1>2 DEF SendByte, SendDamaged, Fault, Typed
  <2> QED
    BY <2>3, <2>4 DEF Put, Typed
<1>3. CASE Noise
  <2>1. PICK j \in Junk : up' = Append(up, j)
    BY <1>3 DEF Noise
  <2>2. up' \in Seq(STRING)
    BY <2>1 DEF Typed
  <2> QED
    BY <1>3, <2>2 DEF Noise, Fault, Typed, tx
<1>4. CASE Reply
  <2>1. CASE Head(down) = "ACK"
    <3>1. /\ txpc' \in {"read", "done"} /\ cur' \in 1 .. Len(work)
          /\ UNCHANGED <<work, k, tries, up, got, faults>>
      <4>1. cur \in Nat /\ cur >= 1 /\ cur <= Len(work)
        BY <1>f DEF Typed
      <4>2. cur' = IF cur < Len(work) THEN cur + 1 ELSE cur
        BY <1>4, <2>1 DEF Reply
      <4> QED
        BY <1>4, <2>1, <1>f, <4>1, <4>2 DEF Reply
    <3> QED
      BY <3>1 DEF Typed
  <2>2. CASE Head(down) # "ACK"
    BY <1>4, <2>2 DEF Reply, Retry, Typed
  <2> QED
    BY <2>1, <2>2
<1>9. CASE Timeout
  BY <1>9 DEF Timeout, Retry, Typed
<1>5. CASE Hunt
  <2>1. /\ got' \in Seq(STRING) /\ Len(got') < FrameLen /\ ~(Len(got') >= 2)
        /\ got' # <<>> => got'[1] = "SOH"
    <3>1. CASE got' = <<>>
      BY <3>1
    <3>2. CASE got' = <<"SOH">>
      <4>1. /\ <<"SOH">> \in Seq(STRING) /\ Len(<<"SOH">>) = 1
            /\ <<"SOH">>[1] = "SOH"
        <5>1. work[cur][1] \in STRING /\ work[cur][1] = "SOH"
          BY <1>f, FrameIs
        <5> QED
          BY <5>1, OneByte
      <4> QED
        BY <3>2, <4>1
    <3> QED
      BY <1>5, <3>1, <3>2 DEF Hunt
  <2>2. up' \in Seq(STRING)
    BY <1>5 DEF Hunt, Typed
  <2> QED
    BY <1>5, <2>1, <2>2 DEF Hunt, Typed, tx
<1>6. CASE Take
  <2>1. /\ Heard \in Seq(STRING) /\ Len(Heard) = Len(got) + 1 /\ Len(got) \in Nat
        /\ Len(got) >= 1 /\ Heard[1] = "SOH"
    BY <1>6 DEF Take, Typed, Heard
  <2>2. up' \in Seq(STRING)
    <3>1. Tail(up) \in Seq(STRING) /\ Len(Tail(up)) \in Nat
      BY <1>6 DEF Take, Typed
    <3>2. \A q \in Rests(Tail(up)) : q \in Seq(STRING)
      <4>1. ASSUME NEW i \in 1 .. Len(Tail(up)) + 1
            PROVE  SubSeq(Tail(up), i, Len(Tail(up))) \in Seq(STRING)
        BY <3>1
      <4> QED
        BY <4>1 DEF Rests
    <3> QED
      BY <1>6, <3>1, <3>2 DEF Take
  <2>3. CASE Len(Heard) < Need(Heard)
    <3>1. got' = Heard
      BY <1>6, <2>3 DEF Take
    <3>2. Len(Heard) < FrameLen
      BY <1>b, <2>1, <2>3 DEF Need
    <3>3. Len(got') < Need(got')
      BY <2>3, <3>1, Zenon
    <3>4. got' \in Seq(STRING) /\ Len(got') < FrameLen /\ got'[1] = "SOH"
      BY <2>1, <3>1, <3>2
    <3> QED
      BY <1>6, <2>2, <3>3, <3>4 DEF Take, Typed, tx
  <2>4. CASE ~(Len(Heard) < Need(Heard))
    <3>1. got' = <<>>
      BY <1>6, <2>4 DEF Take
    <3> QED
      BY <1>6, <2>2, <3>1 DEF Take, Typed, tx
  <2> QED
    BY <2>3, <2>4
<1>10. CASE Command
  <2>1. got' = <<>> /\ up' = Tail(up) /\ up # <<>>
    BY <1>10 DEF Command
  <2>2. up' \in Seq(STRING)
    BY <2>1 DEF Typed
  <2> QED
    BY <1>10, <2>1, <2>2 DEF Command, Typed, tx
<1>11. CASE Overrun
  BY <1>11 DEF Overrun, Typed, tx
<1>7. CASE HostTimeout
  BY <1>7 DEF HostTimeout, Typed, tx
<1>8. CASE UNCHANGED vars
  BY <1>8 DEF vars, tx, Typed
<1> QED
  BY <1>1, <1>2, <1>3, <1>4, <1>5, <1>6, <1>7, <1>8, <1>9, <1>10, <1>11 DEF Next, Progress

LEMMA ReadKeeps ==
  ASSUME LineInv, PlainData, ReadSector
  PROVE  Resends' /\ Faultless' /\ Shape'
<1>1. UNCHANGED <<Line, got, down, work, cur, faults>> /\ txpc = "read" /\ txpc' = "send" /\ k' = 0 /\ tries' = 0
  BY DEF ReadSector, Line
<1>2. \A f : First(f) => First(f)'
  BY <1>1 DEF First
<1>3. Begun = 0 /\ Begun' = 0 /\ ~Busy /\ ~Busy' 
  BY <1>1 DEF Begun, Busy
<1>4. Clean => Clean'
  BY <1>1, <1>2, <1>3 DEF Clean
<1>5. Stuck => Stuck'
  BY <1>1, <1>2, <1>3 DEF Stuck
<1>6. Clean \/ Stuck
  BY <1>1, <1>3 DEF LineInv, Shape, Replied, Mute, Crooked, Trailing, TailAcked
<1>7. faults \in Nat
  BY DEF LineInv, Typed
<1> QED
  BY <1>1, <1>4, <1>5, <1>6, <1>7 DEF LineInv, Shape, Faultless, Resends

\* A byte of the frame arrives as it was sent.
LEMMA SendKeeps ==
  ASSUME LineInv, PlainData, SendByte
  PROVE  Resends' /\ Faultless' /\ Shape'
<1> DEFINE b == work[cur][k + 1]
<1>t. Typed /\ Typed'
  BY KeepTyped DEF LineInv, Next, Progress
<1>1. /\ UNCHANGED <<got, down, work, cur, tries, faults>> /\ up' = up \o <<b>> /\ txpc = "send"
      /\ k' = k + 1 /\ txpc' \in {"send", "wait"} /\ k \in Nat /\ k < FrameLen
      /\ tries \in Nat /\ FrameLen \in Nat /\ FrameLen >= 4
  BY <1>t, FramingAssumption DEF SendByte, Put, Byte, Typed
<1>2. b \in STRING /\ (k = 0 => b = "SOH") /\ (k >= 1 => b # "SOH")
  BY <1>t, <1>1, FrameIs
<1> HIDE DEF b
<1>3. /\ Line \in Seq(STRING) /\ Len(Line) \in Nat
      /\ Line' \in Seq(STRING) /\ Len(Line') = Len(Line) + 1
      /\ Line'[Len(Line) + 1] = b
      /\ \A i \in 1 .. Len(Line) : Line'[i] = Line[i]
  BY <1>t, <1>1, <1>2, LineIs, LineGrows
<1>4. \A f : First(f) => First(f)'
  BY <1>t, <1>1, <1>2, FirstGrows
<1>5. Begun = k /\ Begun' = k + 1 /\ Busy' /\ (Busy <=> k >= 1)
  BY <1>1 DEF Begun, Busy
<1>6. Clean => Clean'
  <2> SUFFICES ASSUME Clean PROVE Clean'
    OBVIOUS
  <2>1. PICK f \in 1 .. Len(Line) + 1 :
          /\ First(f) /\ Len(Line) = f - 1 + k
          /\ \A i \in 1 .. k : Line[f - 1 + i] = work[cur][i]
    BY <1>5 DEF Clean
  <2>2. Len(Line') = f - 1 + (k + 1) /\ f \in 1 .. Len(Line') + 1
    BY <1>1, <1>3, <2>1
  <2>3. \A i \in 1 .. k + 1 : Line'[f - 1 + i] = work[cur][i]
    <3> SUFFICES ASSUME NEW i \in 1 .. k + 1
                 PROVE  Line'[f - 1 + i] = work[cur][i]
      OBVIOUS
    <3>1. CASE i = k + 1
      <4>1. f - 1 + i = Len(Line) + 1
        BY <1>1, <2>1, <3>1
      <4>2. b = work[cur][i]
        BY <3>1 DEF b
      <4> QED
        BY <1>3, <4>1, <4>2
    <3>2. CASE i <= k
      BY <1>1, <1>3, <2>1, <3>2
    <3> QED
      BY <1>1, <3>1, <3>2
  <2> QED
    BY <1>1, <1>4, <1>5, <2>1, <2>2, <2>3 DEF Clean
<1>7. Busy /\ Free => Free'
  BY <1>t, <1>1, <1>2, <1>5, FreeGrows, FreeIsHunting
<1>8. Replied \/ Mute => Replied' \/ Mute'
  BY <1>1, <1>5, <1>7 DEF Replied, Mute
<1>9. Crooked => Crooked'
  <2> SUFFICES ASSUME Crooked PROVE Crooked'
    OBVIOUS
  <2>1. PICK f \in 1 .. Len(Line) :
          First(f) /\ Line[f] = "SOH" /\ Odd(Line, f, k - 1 + tries)
    BY DEF Crooked
  <2>2. First(f)' /\ Line'[f] = "SOH" /\ f \in 1 .. Len(Line')
    BY <1>3, <1>4, <2>1
  <2>3. b # "SOH"
    BY <1>2, <1>5 DEF Crooked
  <2>4. Odd(Line', f, (k - 1 + tries) + 1)
    <3>1. k - 1 + tries \in Int
      BY <1>1
    <3> QED
      BY <1>2, <1>3, <2>1, <2>3, <3>1, OddGrows
  <2>5. (k - 1 + tries) + 1 = k' - 1 + tries'
    BY <1>1
  <2> QED
    BY <1>1, <1>5, <2>2, <2>4, <2>5 DEF Crooked
<1>10. Stuck => Crooked'
  <2> SUFFICES ASSUME Stuck PROVE Crooked'
    OBVIOUS
  <2>1. PICK f \in 1 .. Len(Line) :
       /\ First(f) /\ Line[f] = "SOH"
       /\ \/ Len(Line) = f
          \/ Len(Line) > f /\ Line[f + 1] = "D" /\ Len(Line) - f + 1 = FrameLen - 1
    BY DEF Stuck
  <2>2. First(f)' /\ Line'[f] = "SOH" /\ f \in 1 .. Len(Line')
    BY <1>3, <1>4, <2>1
  <2>3. k = 0 /\ b = "SOH" /\ tries <= 1
    BY <1>1, <1>2, <1>5 DEF Stuck
  <2>4. Odd(Line', f, tries')
    BY <1>1, <1>3, <2>1, <2>3, OddStarts
  <2>5. k' - 1 + tries' = tries'
    BY <1>1, <2>3
  <2> QED
    BY <1>1, <1>5, <2>2, <2>3, <2>4, <2>5 DEF Crooked, Stuck
<1>11. ~Trailing /\ ~TailAcked
  BY <1>1 DEF Trailing, TailAcked
<1> QED
  BY <1>1, <1>6, <1>8, <1>9, <1>10, <1>11 DEF LineInv, Shape, Faultless, Resends

LEMMA OddLost ==
  ASSUME NEW s \in Seq(STRING), NEW f \in 1 .. Len(s), NEW n \in 1 .. FrameLen,
         Len(s) = f - 1 + n, n >= 2 => s[f + 1] = "D"
  PROVE  Odd(s, f, n)
<1>0. FrameLen \in Nat /\ FrameLen >= 4
  BY FramingAssumption
<1>1. CASE n = 1
  BY <1>1 DEF Odd
<1>2. CASE n >= 2
  BY <1>0, <1>2 DEF Odd
<1> QED
  BY <1>0, <1>1, <1>2

LEMMA OddHit ==
  ASSUME NEW s \in Seq(STRING), NEW t \in Seq(STRING), NEW j \in STRING,
         Len(t) = Len(s) + 1, t[Len(s) + 1] = j, \A i \in 1 .. Len(s) : t[i] = s[i],
         NEW f \in 1 .. Len(s), NEW n \in 1 .. FrameLen, NEW m \in Int, m <= n,
         Len(s) = f - 1 + n, n >= 2 => s[f + 1] = "D", n = FrameLen => j # "SOH"
  PROVE  Odd(t, f, m)
<1>0. FrameLen \in Nat /\ FrameLen >= 4
  BY FramingAssumption
<1>1. CASE n = 1
  BY <1>0, <1>1 DEF Odd
<1>2. CASE n >= 2
  <2>1. Len(t) > f /\ t[f + 1] = "D" /\ Len(t) - f + 1 >= m
    BY <1>0, <1>2
  <2>2. ASSUME NEW i \in f + 2 .. Len(t), t[i] = "SOH"
        PROVE  i < f + FrameLen
    BY <1>0, <2>2
  <2> QED
    BY <2>1, <2>2 DEF Odd
<1> QED
  BY <1>0, <1>1, <1>2

\* Where the frame under way begins.
LEMMA CleanFrame ==
  ASSUME Typed, PlainData, Clean, Begun >= 1
  PROVE  /\ Begun = k /\ k \in 1 .. FrameLen /\ Busy
         /\ \E f \in 1 .. Len(Line) :
              /\ First(f) /\ Len(Line) = f - 1 + k /\ Line[f] = "SOH"
              /\ k >= 2 => Line[f + 1] = "D"
              /\ \A i \in 1 .. k : Line[f - 1 + i] = work[cur][i]
<1>1. Begun = k /\ k \in 1 .. FrameLen /\ FrameLen \in Nat /\ Busy
  BY FramingAssumption DEF Begun, Typed, Busy
<1>2. PICK f \in 1 .. Len(Line) + 1 :
        /\ First(f) /\ Len(Line) = f - 1 + k
        /\ \A i \in 1 .. k : Line[f - 1 + i] = work[cur][i]
  BY <1>1 DEF Clean
<1>3. Len(Line) \in Nat
  BY LineIs
<1>4. f \in 1 .. Len(Line)
  BY <1>1, <1>2, <1>3
<1>5. Line[f - 1 + 1] = work[cur][1] /\ (k >= 2 => Line[f - 1 + 2] = work[cur][2])
  BY <1>1, <1>2
<1>6. f - 1 + 1 = f /\ f - 1 + 2 = f + 1
  BY <1>4, <1>3
<1>7. Line[f] = "SOH" /\ (k >= 2 => Line[f + 1] = "D")
  BY <1>5, <1>6, FrameIs
<1> QED
  BY <1>1, <1>2, <1>4, <1>7

LEMMA CleanIdle ==
  ASSUME Typed, Clean, ~(Begun >= 1)
  PROVE  Free /\ Begun = 0 /\ ~Busy
<1>1. Begun = 0 /\ ~Busy
  BY FramingAssumption DEF Begun, Typed, Busy
<1>2. PICK f \in 1 .. Len(Line) + 1 : First(f) /\ Len(Line) = f - 1
  BY <1>1, LineIs DEF Clean
<1>3. f = Len(Line) + 1
  BY <1>2, LineIs
<1> QED
  BY <1>1, <1>2, <1>3 DEF Free

\* A byte of the frame is lost or changed.
LEMMA DamageKeeps ==
  ASSUME LineInv, PlainData, MaxFaults <= 1, SendDamaged
  PROVE  Resends' /\ Faultless' /\ Shape'
<1>t. Typed /\ Typed'
  BY KeepTyped DEF LineInv, Next
<1>a. FrameLen \in Nat /\ FrameLen >= 4 /\ Junk \subseteq STRING /\ MaxFaults \in Nat
  BY FramingAssumption
<1>1. PICK a \in {<<>>} \cup {<<j>> : j \in Junk} : Put(a)
  BY DEF SendDamaged
<1>2. /\ faults = 0 /\ faults' = 1 /\ tries = 0
      /\ UNCHANGED <<got, down, work, cur, tries>> /\ up' = up \o a /\ txpc = "send"
      /\ k' = k + 1 /\ txpc' \in {"send", "wait"} /\ k \in Nat /\ k < FrameLen
  BY <1>t, <1>a, <1>1 DEF SendDamaged, Fault, Put, Typed, LineInv, Resends
<1>3. Clean /\ down = <<>> /\ Begun = k /\ Busy'
  <2>1. Clean
    BY <1>2 DEF LineInv, Faultless
  <2>2. down = <<>>
    BY <2>1 DEF Clean
  <2> QED
    BY <1>2, <2>1, <2>2 DEF Begun, Busy
<1>4. CASE a = <<>>
  <2>1. up' = up /\ Line' = Line
    BY <1>t, <1>2, <1>4 DEF Line, Typed
  <2>2. \A f : First(f) => First(f)'
    BY <1>2, <2>1 DEF First
  <2>3. CASE k = 0
    <3>1. Free'
      BY <1>t, <1>3, <2>1, <2>2, <2>3, CleanIdle DEF Free
    <3> QED
      BY <1>2, <1>3, <3>1 DEF Mute, Shape, Faultless, Resends
  <2>4. CASE k >= 1
    <3>1. PICK f \in 1 .. Len(Line) :
            /\ First(f) /\ Len(Line) = f - 1 + k /\ Line[f] = "SOH"
            /\ k >= 2 => Line[f + 1] = "D"
      BY <1>t, <1>3, <2>4, CleanFrame
    <3>2. Odd(Line, f, k)
      <4>1. k \in 1 .. FrameLen
        BY <1>2, <1>a, <2>4
      <4> QED
        BY <1>t, <3>1, <4>1, LineIs, OddLost
    <3>3. k' - 1 + tries' = k
      BY <1>2
    <3>4. Crooked'
      BY <1>2, <1>3, <2>1, <2>2, <3>1, <3>2, <3>3 DEF Crooked
    <3> QED
      BY <1>2, <3>4 DEF Shape, Faultless, Resends
  <2> QED
    BY <1>2, <2>3, <2>4
<1>5. CASE \E j \in Junk : a = <<j>>
  <2>0. PICK j \in Junk : a = <<j>>
    BY <1>5
  <2>1. j \in STRING /\ up' = up \o <<j>>
    BY <1>2, <1>a, <2>0
  <2>2. /\ Line \in Seq(STRING) /\ Len(Line) \in Nat
        /\ Line' \in Seq(STRING) /\ Len(Line') = Len(Line) + 1
        /\ Line'[Len(Line) + 1] = j
        /\ \A i \in 1 .. Len(Line) : Line'[i] = Line[i]
    BY <1>t, <1>2, <2>1, LineIs, LineGrows
  <2>3. \A f : First(f) => First(f)'
    BY <1>t, <1>2, <2>1, FirstGrows
  <2>4. CASE k = 0
    <3>1. Free
      BY <1>t, <1>3, <2>4, CleanIdle
    <3>2. CASE j # "SOH"
      <4>1. Free'
        BY <1>t, <1>2, <2>1, <3>1, <3>2, FreeGrows, FreeIsHunting
      <4> QED
        BY <1>2, <1>3, <4>1 DEF Mute, Shape, Faultless, Resends
    <3>3. CASE j = "SOH"
      <4>1. PICK f : f = Len(Line) + 1
        OBVIOUS
      <4>2. First(f)' /\ Line'[f] = "SOH" /\ f \in 1 .. Len(Line') /\ Len(Line') = f
        BY <2>2, <2>3, <3>1, <3>3, <4>1 DEF Free
      <4>3. k' - 1 + tries' = 0
        BY <1>2, <2>4
      <4>4. Odd(Line', f, 0)
        BY <4>2 DEF Odd
      <4>5. Crooked'
        BY <1>2, <1>3, <4>2, <4>3, <4>4 DEF Crooked
      <4> QED
        BY <1>2, <4>5 DEF Shape, Faultless, Resends
    <3> QED
      BY <3>2, <3>3
  <2>5. CASE k >= 1
    <3>1. PICK f \in 1 .. Len(Line) :
            /\ First(f) /\ Len(Line) = f - 1 + k /\ Line[f] = "SOH"
            /\ k >= 2 => Line[f + 1] = "D"
      BY <1>t, <1>3, <2>5, CleanFrame
    <3>2. Odd(Line', f, k)
      <4>1. k \in 1 .. FrameLen /\ k \in Int /\ k <= k /\ k # FrameLen
        BY <1>2, <1>a, <2>5
      <4> QED
        BY <2>1, <2>2, <3>1, <4>1, OddHit
    <3>3. k' - 1 + tries' = k /\ f \in 1 .. Len(Line') /\ Line'[f] = "SOH"
      BY <1>2, <2>2, <3>1
    <3>4. Crooked'
      BY <1>2, <1>3, <2>3, <3>1, <3>2, <3>3 DEF Crooked
    <3> QED
      BY <1>2, <3>4 DEF Shape, Faultless, Resends
  <2> QED
    BY <1>2, <2>4, <2>5
<1> QED
  BY <1>4, <1>5

\* A byte is invented.
LEMMA NoiseKeeps ==
  ASSUME LineInv, PlainData, MaxFaults <= 1, Noise
  PROVE  Resends' /\ Faultless' /\ Shape'
<1>t. Typed /\ Typed'
  BY KeepTyped DEF LineInv, Next
<1>a. FrameLen \in Nat /\ FrameLen >= 4 /\ Junk \subseteq STRING /\ MaxFaults \in Nat
  BY FramingAssumption
<1>1. PICK j \in Junk : up' = Append(up, j)
  BY DEF Noise
<1>2. /\ faults = 0 /\ faults' = 1 /\ tries = 0
      /\ UNCHANGED <<got, down, work, cur, tries, txpc, k>> /\ k \in 0 .. FrameLen
      /\ (txpc = "send" => k < FrameLen) /\ (txpc = "wait" => k = FrameLen)
  BY <1>t, <1>a DEF Noise, Fault, Typed, LineInv, Resends, tx
<1>3. j \in STRING /\ up' = up \o <<j>>
  <2>1. j \in STRING /\ up \in Seq(STRING)
    BY <1>t, <1>1, <1>a DEF Typed
  <2>2. Append(up, j) = up \o <<j>>
    BY <2>1, ByteBehind
  <2> QED
    BY <1>1, <2>1, <2>2
<1>4. /\ Line \in Seq(STRING) /\ Len(Line) \in Nat
      /\ Line' \in Seq(STRING) /\ Len(Line') = Len(Line) + 1
      /\ Line'[Len(Line) + 1] = j
      /\ \A i \in 1 .. Len(Line) : Line'[i] = Line[i]
  BY <1>t, <1>2, <1>3, LineIs, LineGrows
<1>5. \A f : First(f) => First(f)'
  BY <1>t, <1>2, <1>3, FirstGrows
<1>6. Free /\ j # "SOH" => Free'
  BY <1>t, <1>2, <1>3, FreeGrows, FreeIsHunting
<1>n. PICK n : n = Len(Line) + 1
  OBVIOUS
<1>7. Free /\ j = "SOH" => First(n)' /\ Line'[n] = "SOH" /\ n = Len(Line') /\ n \in 1 .. n
  BY <1>4, <1>5, <1>n DEF Free
<1>8. (Busy' <=> Busy) /\ Begun' = Begun
  BY <1>2 DEF Busy, Begun
<1>9. CASE txpc = "wait" /\ down = <<"ACK">> /\ Free
  <2>1. Busy
    BY <1>2, <1>9, <1>a DEF Busy
  <2>2. j # "SOH" => Replied'
    BY <1>2, <1>6, <1>8, <1>9, <2>1 DEF Replied
  <2>3. j = "SOH" => TailAcked'
    BY <1>2, <1>4, <1>7, <1>9 DEF TailAcked, First
  <2> QED
    BY <1>2, <2>2, <2>3 DEF Shape, Faultless, Resends
<1>10. CASE Clean /\ ~(Begun >= 1)
  <2>1. Free /\ Begun = 0 /\ ~Busy /\ down = <<>>
    BY <1>t, <1>10, CleanIdle DEF Clean
  <2>2. CASE j # "SOH"
    <3>1. PICK f : f = Len(Line') + 1
      OBVIOUS
    <3>2. First(f)' /\ Len(Line') = f - 1 + Begun' /\ f \in 1 .. Len(Line') + 1
      BY <1>4, <1>6, <1>8, <2>1, <2>2, <3>1 DEF Free
    <3>3. \A i \in 1 .. Begun' : Line'[f - 1 + i] = work'[cur'][i]
      BY <1>8, <2>1
    <3>4. Clean'
      BY <1>2, <2>1, <3>2, <3>3 DEF Clean
    <3> QED
      BY <1>2, <3>4 DEF Shape, Faultless, Resends
  <2>3. CASE j = "SOH"
    <3>2. First(n)' /\ Line'[n] = "SOH" /\ n \in 1 .. Len(Line') /\ Len(Line') = n
      BY <1>7, <2>1, <2>3
    <3>3. Stuck'
      BY <1>2, <1>8, <2>1, <3>2 DEF Stuck
    <3> QED
      BY <1>2, <3>3 DEF Shape, Faultless, Resends
  <2> QED
    BY <2>2, <2>3
<1>11. CASE Clean /\ Begun >= 1
  <2>1. down = <<>> /\ Busy /\ k \in 1 .. FrameLen
    BY <1>t, <1>11, CleanFrame DEF Clean
  <2>2. PICK f \in 1 .. Len(Line) :
          /\ First(f) /\ Len(Line) = f - 1 + k /\ Line[f] = "SOH"
          /\ k >= 2 => Line[f + 1] = "D"
          /\ \A i \in 1 .. k : Line[f - 1 + i] = work[cur][i]
    BY <1>t, <1>11, CleanFrame
  <2>3. First(f)' /\ Line'[f] = "SOH" /\ f \in 1 .. Len(Line')
    BY <1>4, <1>5, <2>2
  <2>4. CASE k = FrameLen => j # "SOH"
    <3>1. k - 1 \in Int /\ k - 1 <= k /\ k' - 1 + tries' = k - 1
      BY <1>2, <2>1
    <3>2. Odd(Line', f, k - 1)
      BY <1>3, <1>4, <2>1, <2>2, <2>4, <3>1, OddHit
    <3>3. Crooked'
      BY <1>2, <1>8, <2>1, <2>3, <3>1, <3>2 DEF Crooked
    <3> QED
      BY <1>2, <3>3 DEF Shape, Faultless, Resends
  <2>5. CASE k = FrameLen /\ j = "SOH"
    <3>1. txpc = "wait"
      BY <1>2, <1>a, <2>1, <2>5 DEF Busy
    <3>2. Len(Line') = f + FrameLen /\ Line'[Len(Line')] = "SOH"
      BY <1>4, <1>a, <2>2, <2>5
    <3>3. \A i \in 1 .. FrameLen : Line'[f - 1 + i] = work'[cur'][i]
      BY <1>2, <1>4, <1>a, <2>2, <2>5
    <3>4. Trailing'
      BY <1>2, <2>1, <2>3, <3>1, <3>2, <3>3 DEF Trailing
    <3> QED
      BY <1>2, <3>4 DEF Shape, Faultless, Resends
  <2> QED
    BY <2>4, <2>5
<1> QED
  BY <1>2, <1>9, <1>10, <1>11 DEF LineInv, Faultless

\* The line is free and nobody waits for an answer to what was sent.
LEMMA BecomesClean ==
  ASSUME Typed', Free', down' = <<>>, Begun' = 0
  PROVE  Clean'
<1>1. Len(Line') \in Nat
  BY DEF Line, Typed
<1>2. PICK f : f = Len(Line') + 1
  OBVIOUS
<1>3. First(f)' /\ Len(Line') = f - 1 + Begun' /\ f \in 1 .. Len(Line') + 1
  BY <1>1, <1>2 DEF Free, First
<1>4. \A i \in 1 .. Begun' : Line'[f - 1 + i] = work'[cur'][i]
  OBVIOUS
<1> QED
  BY <1>3, <1>4 DEF Clean

LEMMA ReplyKeeps ==
  ASSUME LineInv, PlainData, Reply
  PROVE  Resends' /\ Faultless' /\ Shape'
<1>t. Typed /\ Typed'
  BY KeepTyped DEF LineInv, Next, Progress
<1>1. UNCHANGED <<Line, got, faults>> /\ txpc = "wait" /\ down # <<>> /\ down' = Tail(down)
  BY DEF Reply, Line
<1>2. \A f : First(f) => First(f)'
  BY <1>1 DEF First
<1>3. Free => Free'
  BY <1>1, <1>2 DEF Free
<1>4. Replied \/ TailAcked
  BY <1>1 DEF LineInv, Shape, Clean, Mute, Crooked, Trailing, Stuck
<1>5. down = <<"ACK">> \/ (down = <<"NAK">> /\ faults = 1 /\ tries <= 1)
  BY <1>4 DEF Replied, TailAcked
<1>6. down' = <<>>
  BY <1>1, <1>5
<1>7. tries \in Nat /\ faults \in Nat /\ tries <= 2 * faults
  BY <1>t DEF Typed, LineInv, Resends
<1>8. CASE down = <<"ACK">>
  <2>1. txpc' \in {"read", "done"} /\ UNCHANGED tries
    BY <1>8 DEF Reply
  <2>2. Begun' = 0 /\ ~Busy'
    BY <2>1 DEF Begun, Busy
  <2>3. CASE Replied
    <3>1. Clean'
      BY <1>t, <1>3, <1>6, <2>2, <2>3, BecomesClean DEF Replied
    <3> QED
      BY <1>1, <1>7, <2>1, <3>1 DEF Shape, Faultless, Resends
  <2>4. CASE TailAcked
    <3>1. PICK f : f = Len(Line)
      OBVIOUS
    <3>2. First(f)' /\ Line'[f] = "SOH" /\ f \in 1 .. Len(Line') /\ Len(Line') = f /\ faults = 1
      BY <1>t, <1>1, <1>2, <2>4, <3>1, LineIs DEF TailAcked
    <3>3. Stuck'
      BY <1>1, <1>6, <2>1, <2>2, <3>2 DEF Stuck
    <3> QED
      BY <1>1, <1>7, <2>1, <3>2, <3>3 DEF Shape, Faultless, Resends
  <2> QED
    BY <1>4, <2>3, <2>4
<1>9. CASE down = <<"NAK">>
  <2>1. Replied /\ faults = 1 /\ tries <= 1
    BY <1>4, <1>5, <1>9 DEF TailAcked
  <2>2. tries' = tries + 1 /\ k' = 0 /\ txpc' \in {"send", "lost"}
    BY <1>9 DEF Reply, Retry
  <2>3. Begun' = 0
    BY <2>2 DEF Begun
  <2>4. Clean'
    BY <1>t, <1>3, <1>6, <2>1, <2>3, BecomesClean DEF Replied
  <2> QED
    BY <1>1, <1>7, <2>1, <2>2, <2>4 DEF Shape, Faultless, Resends
<1> QED
  BY <1>5, <1>8, <1>9

\* The sender gives up waiting: what the host has is less than a frame.
LEMMA TimeoutKeeps ==
  ASSUME LineInv, PlainData, Timeout
  PROVE  Resends' /\ Faultless' /\ Shape'
<1>t. Typed /\ Typed'
  BY KeepTyped DEF LineInv, Next, Progress
<1>a. FrameLen \in Nat /\ FrameLen >= 4
  BY FramingAssumption
<1>1. /\ UNCHANGED <<Line, got, down, faults>> /\ txpc = "wait" /\ k = FrameLen /\ down = <<>>
      /\ tries' = tries + 1 /\ k' = 0 /\ txpc' \in {"send", "lost"}
  BY <1>t DEF Timeout, Retry, Line, Typed
<1>2. \A f : First(f) => First(f)'
  BY <1>1 DEF First
<1>3. Begun = FrameLen /\ Busy /\ Begun' = 0 /\ ~Busy'
  BY <1>1, <1>a DEF Begun, Busy
<1>4. /\ Len(Line) \in Nat /\ Len(Line) < FrameLen /\ Len(Line) = Len(got)
      /\ \A i \in 1 .. Len(Line) : Line[i] = got[i]
  BY <1>t, LineIs DEF Timeout, Typed
<1>5. Mute \/ Crooked
  <2>1. ~Clean /\ ~Trailing
    BY <1>3, <1>4, <1>a DEF Clean, Trailing
  <2>2. ~Replied /\ ~TailAcked /\ ~Stuck
    BY <1>1, <1>3 DEF Replied, TailAcked, Stuck
  <2> QED
    BY <2>1, <2>2 DEF LineInv, Shape
<1>6. faults = 1 /\ tries <= 1 /\ tries \in Nat
  BY <1>t, <1>5 DEF Mute, Crooked, Typed
<1>7. Resends' /\ Faultless'
  BY <1>1, <1>6 DEF Resends, Faultless
<1>8. CASE Mute
  <2>1. Free'
    BY <1>1, <1>2, <1>8 DEF Mute, Free
  <2>2. Clean'
    BY <1>t, <1>1, <1>3, <2>1, BecomesClean
  <2> QED
    BY <1>7, <2>2 DEF Shape
<1>9. CASE Crooked
  <2>1. PICK f \in 1 .. Len(Line) :
          First(f) /\ Line[f] = "SOH" /\ Odd(Line, f, k - 1 + tries)
    BY <1>9 DEF Crooked
  <2>0. got \in Seq(STRING) /\ (Len(got) >= 2 => Len(got) < Need(got))
    BY <1>t DEF Typed
  <2>2. f = 1 /\ got # <<>>
    <3>1. Len(got) >= 1
      BY <1>4, <2>1
    <3>2. got # <<>>
      BY <3>1
    <3> QED
      BY <2>1, <3>2 DEF First
  <2>6. Len(Line) >= FrameLen - 1
    BY <1>1, <1>4, <1>6, <1>a, <2>1, <2>2 DEF Odd
  <2>7. EotLen \in Nat /\ InfoLen \in Nat /\ EotLen < FrameLen /\ InfoLen < FrameLen
    BY FramingAssumption
  <2>3. Len(Line) >= 2 => Line[2] = "D"
    BY <1>4, <1>a, <2>0, <2>6, <2>7 DEF Need
  <2>4. /\ tries = 0
        /\ \/ Len(Line) = f
           \/ Len(Line) > f /\ Line[f + 1] = "D" /\ Len(Line) - f + 1 = FrameLen - 1
    BY <1>1, <1>4, <1>6, <1>a, <2>1, <2>2, <2>3 DEF Odd
  <2>5. Stuck'
    BY <1>1, <1>2, <1>3, <1>6, <2>1, <2>4 DEF Stuck
  <2> QED
    BY <1>7, <2>5 DEF Shape
<1> QED
  BY <1>5, <1>8, <1>9

---------------------------------------------------------------------------
(* The host's steps.                                                       *)

LEMMA OddTail ==
  ASSUME NEW s \in Seq(STRING), NEW t \in Seq(STRING),
         Len(t) = Len(s) - 1, \A i \in 1 .. Len(t) : t[i] = s[i + 1],
         NEW f \in 2 .. Len(s), NEW m \in Int, Odd(s, f, m)
  PROVE  Odd(t, f - 1, m)
<1>1. FrameLen \in Nat /\ FrameLen >= 4 /\ Len(s) \in Nat
  BY FramingAssumption
<1>2. Len(t) - (f - 1) + 1 >= m
  BY <1>1 DEF Odd
<1>3. ASSUME NEW i \in (f - 1) + 2 .. Len(t), t[i] = "SOH"
      PROVE  t[(f - 1) + 1] = "D" /\ i < (f - 1) + FrameLen
  <2>1. i + 1 \in f + 2 .. Len(s) /\ i \in 1 .. Len(t) /\ f \in 1 .. Len(t)
    BY <1>1, <1>3
  <2>2. s[i + 1] = "SOH"
    BY <1>3, <2>1
  <2>3. s[f + 1] = "D" /\ i + 1 < f + FrameLen
    BY <2>1, <2>2 DEF Odd
  <2> QED
    BY <1>1, <2>1, <2>3
<1> QED
  BY <1>2, <1>3 DEF Odd

\* hunt_soh passes a byte over.
LEMMA PassOver ==
  ASSUME LineInv, PlainData, Hunt, Head(up) # "SOH"
  PROVE  Resends' /\ Faultless' /\ Shape'
<1>t. Typed /\ Typed'
  BY KeepTyped DEF LineInv, Next, Progress
<1>a. FrameLen \in Nat /\ FrameLen >= 4
  BY FramingAssumption
<1>1. /\ UNCHANGED <<got, down, faults, work, txpc, cur, k, tries>>
      /\ got = <<>> /\ got' = <<>> /\ up # <<>> /\ up' = Tail(up)
  BY DEF Hunt, tx
<1>2. /\ Line \in Seq(STRING) /\ Line' \in Seq(STRING)
      /\ Len(Line) \in Nat /\ Len(Line) >= 1
      /\ Len(Line') = Len(Line) - 1 /\ Line[1] # "SOH"
      /\ \A i \in 1 .. Len(Line') : Line'[i] = Line[i + 1]
  <2>1. Line = up /\ Line' = Tail(up)
    BY <1>t, <1>1 DEF Line, Typed
  <2> QED
    BY <1>t, <1>1, <2>1 DEF Typed
<1>3. ASSUME NEW f \in 2 .. Len(Line) + 1, First(f)
      PROVE  First(f - 1)' /\ f - 1 \in 1 .. Len(Line') + 1
  BY <1>1, <1>2, <1>3 DEF First
<1>4. Free => Free'
  <2>1. PICK f : f = Len(Line) + 1
    OBVIOUS
  <2>2. f \in 2 .. Len(Line) + 1 /\ f - 1 = Len(Line') + 1
    BY <1>2, <2>1
  <2>3. Free => First(f - 1)'
    BY <1>3, <2>1, <2>2 DEF Free
  <2> QED
    BY <2>2, <2>3 DEF Free, First
<1>5. (Busy' <=> Busy) /\ Begun' = Begun
  BY <1>1 DEF Busy, Begun
<1>6. Clean => Clean'
  <2>1. CASE Clean /\ Begun >= 1
    <3>1. PICK f \in 1 .. Len(Line) :
            /\ First(f) /\ Len(Line) = f - 1 + k /\ Line[f] = "SOH"
            /\ \A i \in 1 .. k : Line[f - 1 + i] = work[cur][i]
      BY <1>t, <2>1, CleanFrame
    <3>2. Begun = k /\ k \in 1 .. FrameLen
      BY <1>t, <2>1, CleanFrame
    <3>3. f \in 2 .. Len(Line) + 1
      BY <1>2, <3>1
    <3>4. /\ First(f - 1)' /\ f - 1 \in 1 .. Len(Line') + 1
          /\ Len(Line') = (f - 1) - 1 + Begun'
      BY <1>2, <1>3, <1>5, <3>1, <3>2, <3>3
    <3>5. ASSUME NEW i \in 1 .. Begun'
          PROVE  Line'[(f - 1) - 1 + i] = work'[cur'][i]
      <4>1. i \in 1 .. k /\ (f - 1) - 1 + i \in 1 .. Len(Line')
        BY <1>5, <1>a, <3>2, <3>3, <3>4
      <4>2. ((f - 1) - 1 + i) + 1 = f - 1 + i
        BY <3>3, <4>1, <3>2
      <4> QED
        BY <1>1, <1>2, <3>1, <4>1, <4>2
    <3>6. down' = <<>>
      BY <1>1, <2>1 DEF Clean
    <3> QED
      BY <3>4, <3>5, <3>6 DEF Clean
  <2>2. CASE Clean /\ ~(Begun >= 1)
    <3>1. Free /\ Begun = 0 /\ down = <<>>
      BY <1>t, <2>2, CleanIdle DEF Clean
    <3> QED
      BY <1>t, <1>1, <1>4, <1>5, <3>1, BecomesClean
  <2> QED
    BY <2>1, <2>2
<1>7. Replied \/ Mute => Replied' \/ Mute'
  BY <1>1, <1>4, <1>5 DEF Replied, Mute
<1>8. Crooked => Crooked'
  <2> SUFFICES ASSUME Crooked PROVE Crooked'
    OBVIOUS
  <2>1. PICK f \in 1 .. Len(Line) :
          First(f) /\ Line[f] = "SOH" /\ Odd(Line, f, k - 1 + tries)
    BY DEF Crooked
  <2>2. f \in 2 .. Len(Line) + 1 /\ f \in 2 .. Len(Line) /\ f - 1 \in 1 .. Len(Line')
    BY <1>2, <2>1
  <2>3. First(f - 1)'
    BY <1>3, <2>1, <2>2
  <2>4. Line'[f - 1] = "SOH"
    BY <1>2, <2>1, <2>2
  <2>5. Odd(Line', f - 1, k - 1 + tries)
    <3>1. k - 1 + tries \in Int
      BY <1>t, <1>a DEF Typed
    <3> QED
      BY <1>2, <2>1, <2>2, <3>1, OddTail
  <2> QED
    BY <1>1, <1>5, <2>2, <2>3, <2>4, <2>5 DEF Crooked
<1>9. Trailing => Trailing'
  <2> SUFFICES ASSUME Trailing PROVE Trailing'
    OBVIOUS
  <2>1. PICK f \in 1 .. Len(Line) :
       /\ First(f) /\ Len(Line) = f + FrameLen /\ Line[Len(Line)] = "SOH"
       /\ \A i \in 1 .. FrameLen : Line[f - 1 + i] = work[cur][i]
    BY DEF Trailing
  <2>0. Line[f] = "SOH"
    <3>1. Line[f - 1 + 1] = work[cur][1] /\ f - 1 + 1 = f
      BY <1>a, <1>2, <2>1
    <3> QED
      BY <1>t, <3>1, FrameIs
  <2>2. f \in 2 .. Len(Line) + 1 /\ f - 1 \in 1 .. Len(Line')
    BY <1>a, <1>2, <2>0, <2>1
  <2>3. First(f - 1)'
    BY <1>3, <2>1, <2>2
  <2>4. Len(Line') = (f - 1) + FrameLen /\ Line'[Len(Line')] = "SOH"
    BY <1>a, <1>2, <2>1, <2>2
  <2>5. ASSUME NEW i \in 1 .. FrameLen
        PROVE  Line'[(f - 1) - 1 + i] = work'[cur'][i]
    <3>1. (f - 1) - 1 + i \in 1 .. Len(Line') /\ ((f - 1) - 1 + i) + 1 = f - 1 + i
      BY <1>a, <2>2, <2>4
    <3> QED
      BY <1>1, <1>2, <2>1, <3>1
  <2>6. txpc' = "wait" /\ down' = <<>> /\ faults' = 1 /\ tries' = 0
    BY <1>1 DEF Trailing
  <2> QED
    BY <2>2, <2>3, <2>4, <2>5, <2>6 DEF Trailing
<1>10. TailAcked => TailAcked'
  <2> SUFFICES ASSUME TailAcked PROVE TailAcked'
    OBVIOUS
  <2>1. PICK f : f = Len(Line)
    OBVIOUS
  <2>2. f \in 2 .. Len(Line) + 1 /\ First(f) /\ Line[f] = "SOH"
    BY <1>2, <2>1 DEF TailAcked
  <2>3. First(f - 1)' /\ Len(Line') = f - 1 /\ Len(Line') >= 1
    BY <1>2, <1>3, <2>1, <2>2
  <2>4. Line'[f - 1] = "SOH"
    BY <1>2, <2>2, <2>3
  <2>5. txpc' = "wait" /\ down' = <<"ACK">> /\ faults' = 1 /\ tries' = 0
    BY <1>1 DEF TailAcked
  <2> QED
    BY <2>3, <2>4, <2>5 DEF TailAcked, First
<1>11. Stuck => Stuck'
  <2> SUFFICES ASSUME Stuck PROVE Stuck'
    OBVIOUS
  <2>1. PICK f \in 1 .. Len(Line) :
       /\ First(f) /\ Line[f] = "SOH"
       /\ \/ Len(Line) = f
          \/ Len(Line) > f /\ Line[f + 1] = "D" /\ Len(Line) - f + 1 = FrameLen - 1
    BY DEF Stuck
  <2>2. f \in 2 .. Len(Line) + 1 /\ f - 1 \in 1 .. Len(Line')
    BY <1>2, <2>1
  <2>3. First(f - 1)' /\ Line'[f - 1] = "SOH"
    BY <1>2, <1>3, <2>1, <2>2
  <2>4. \/ Len(Line') = f - 1
        \/ /\ Len(Line') > f - 1 /\ Line'[(f - 1) + 1] = "D"
           /\ Len(Line') - (f - 1) + 1 = FrameLen - 1
    BY <1>a, <1>2, <2>1, <2>2
  <2> QED
    BY <1>1, <1>5, <2>2, <2>3, <2>4 DEF Stuck
<1> QED
  BY <1>1, <1>4, <1>6, <1>7, <1>8, <1>9, <1>10, <1>11 DEF LineInv, Shape, Faultless, Resends

\* The host finds the SOH, or reads on in its frame.
LEMMA ReadsOn ==
  ASSUME LineInv, Line' = Line, UNCHANGED <<tx, down, faults>>, got' # <<>>,
         Len(Line) >= 1, Line[1] = "SOH"
  PROVE  Resends' /\ Faultless' /\ Shape'
<1>1. Len(Line) \in Nat
  BY LineIs DEF LineInv
<1>2. ASSUME NEW f, First(f) PROVE First(f)'
  BY <1>1, <1>2 DEF First
<1>3. Free => Free'
  BY <1>2 DEF Free
<1>4. (Busy' <=> Busy) /\ Begun' = Begun /\ UNCHANGED <<work, cur, txpc, k, tries>>
  BY DEF Busy, Begun, tx
<1>5. Clean => Clean'
  BY <1>2, <1>4 DEF Clean
<1>6. Replied \/ Mute => Replied' \/ Mute'
  BY <1>3, <1>4 DEF Replied, Mute
<1>7. Crooked => Crooked'
  BY <1>2, <1>4 DEF Crooked
<1>8. Trailing => Trailing'
  BY <1>2, <1>4 DEF Trailing
<1>9. TailAcked => TailAcked'
  BY <1>2, <1>4 DEF TailAcked
<1>10. Stuck => Stuck'
  BY <1>2, <1>4 DEF Stuck
<1> QED
  BY <1>3, <1>4, <1>5, <1>6, <1>7, <1>8, <1>9, <1>10
     DEF LineInv, Shape, Faultless, Resends

LEMMA HuntKeeps ==
  ASSUME LineInv, PlainData, Hunt
  PROVE  Resends' /\ Faultless' /\ Shape'
<1>t. Typed
  BY DEF LineInv
<1>1. CASE Head(up) # "SOH"
  BY <1>1, PassOver
<1>2. CASE Head(up) = "SOH"
  <2>1. up = <<Head(up)>> \o Tail(up) /\ Tail(up) \in Seq(STRING) /\ Len(up) >= 1 /\ up[1] = "SOH"
    BY <1>t, <1>2 DEF Hunt, Typed
  <2>2. Line = up
    BY <1>t DEF Hunt, Line, Typed
  <2>3. Line' = <<"SOH">> \o Tail(up)
    BY <1>2 DEF Hunt, Line
  <2>4. Line' = Line /\ Len(Line) >= 1 /\ Line[1] = "SOH"
    BY <1>2, <2>1, <2>2, <2>3
  <2>5. got' # <<>> /\ UNCHANGED <<tx, down, faults>>
    BY <1>2 DEF Hunt
  <2> QED
    BY <2>4, <2>5, ReadsOn
<1> QED
  BY <1>1, <1>2

\* What is left of the line when the first n bytes are read and perhaps more of it
\* thrown away.
LEMMA Remains ==
  ASSUME NEW q \in Seq(STRING), NEW r \in Rests(q)
  PROVE  /\ r \in Seq(STRING)
         /\ \E d \in 0 .. Len(q) : /\ Len(r) = Len(q) - d
                                   /\ \A i \in 1 .. Len(r) : r[i] = q[d + i]
<1>1. PICK i \in 1 .. Len(q) + 1 : r = SubSeq(q, i, Len(q))
  BY DEF Rests
<1>2. PICK d : d = i - 1
  OBVIOUS
<1>3. d \in 0 .. Len(q) /\ r = SubSeq(q, d + 1, Len(q)) /\ Len(q) \in Nat
  BY <1>1, <1>2
<1>4. /\ r \in Seq(STRING) /\ Len(r) = Len(q) - d
      /\ \A j \in 1 .. Len(r) : r[j] = q[d + j]
  BY <1>3
<1> QED
  BY <1>3, <1>4

\* The frame is judged: one answer, and the line behind it.
LEMMA JudgeKeeps ==
  ASSUME LineInv, PlainData, Take, got' = <<>>
  PROVE  Resends' /\ Faultless' /\ Shape'
<1> DEFINE g == Heard
           sectors == {i \in DOMAIN work : work[i] = g}
<1>t. Typed /\ Typed'
  BY KeepTyped DEF LineInv, Next, Progress
<1>a. FrameLen \in Nat /\ FrameLen >= 4
  BY FramingAssumption
<1>1. UNCHANGED <<tx, work, cur, txpc, k, tries, faults>> /\ got # <<>> /\ up # <<>>
  BY DEF Take, tx
<1>2. PICK n : n = Len(got) + 1
  OBVIOUS
<1>3. /\ n \in Nat /\ n >= 2 /\ n <= FrameLen /\ Len(got) = n - 1
      /\ g \in Seq(STRING) /\ Len(g) = n
  BY <1>t, <1>1, <1>2, <1>a DEF Typed, Heard
<1>4. /\ Line \in Seq(STRING) /\ Len(Line) \in Nat /\ Len(Line) >= n
      /\ Line[1] = "SOH" /\ Len(Line) = n - 1 + Len(up)
      /\ \A i \in 1 .. n : g[i] = Line[i]
      /\ \A i \in 1 .. Len(up) : Line[n - 1 + i] = up[i]
  <2>1. /\ Line \in Seq(STRING) /\ Len(Line) = Len(got) + Len(up)
        /\ \A i \in 1 .. Len(got) : Line[i] = got[i]
        /\ \A i \in 1 .. Len(up) : Line[Len(got) + i] = up[i]
    BY <1>t, LineIs
  <2>2. Len(up) \in Nat /\ Len(up) >= 1 /\ Head(up) = up[1]
    BY <1>t, <1>1 DEF Typed
  <2>3. got[1] = "SOH"
    BY <1>t, <1>1 DEF Typed
  <2>4. g[n] = up[1] /\ \A i \in 1 .. n - 1 : g[i] = got[i]
    <3>1. up[1] \in STRING /\ got \in Seq(STRING)
      BY <1>t, <2>2, SMTT(30) DEF Typed
    <3>2. g = Append(got, up[1])
      BY <2>2 DEF Heard
    <3> HIDE DEF g
    <3> QED
      BY <1>3, <3>1, <3>2
  <2>5. Line[n] = up[1]
    BY <1>3, <2>1, <2>2
  <2> QED
    BY <1>3, <2>1, <2>2, <2>3, <2>4, <2>5
<1>5. ~(Len(g) < Need(g))
  BY <1>3 DEF Take
<1>6. Line[2] = "D" => n = FrameLen
  <2>1. g[2] = Line[2]
    BY <1>3, <1>4
  <2> QED
    BY <1>3, <1>5, <2>1, <1>a DEF Need
<1>7. \/ sectors # {} /\ up' = Tail(up) /\ down' = Append(down, "ACK")
      \/ sectors = {} /\ up' \in Rests(Tail(up)) /\ down' = Append(down, "NAK")
  BY <1>5 DEF Take
<1> HIDE DEF g
<1>8. Tail(up) \in Seq(STRING) /\ Len(Tail(up)) = Len(up) - 1 /\ Len(up) \in Nat /\ Len(up) >= 1
      /\ \A i \in 1 .. Len(Tail(up)) : Tail(up)[i] = up[i + 1]
  BY <1>t, <1>1 DEF Typed
<1>9. \E d \in 0 .. Len(Tail(up)) :
        /\ up' \in Seq(STRING) /\ Len(up') = Len(Tail(up)) - d
        /\ \A i \in 1 .. Len(up') : up'[i] = Tail(up)[d + i]
        /\ sectors # {} => d = 0
  <2>1. CASE up' = Tail(up)
    <3>1. /\ 0 \in 0 .. Len(Tail(up)) /\ up' \in Seq(STRING) /\ Len(up') = Len(Tail(up)) - 0
          /\ \A i \in 1 .. Len(up') : up'[i] = Tail(up)[0 + i]
      BY <1>8, <2>1
    <3> QED
      BY <3>1
  <2>2. CASE sectors = {} /\ up' \in Rests(Tail(up))
    <3>1. \E d \in 0 .. Len(Tail(up)) :
            /\ Len(up') = Len(Tail(up)) - d
            /\ \A i \in 1 .. Len(up') : up'[i] = Tail(up)[d + i]
      BY <1>8, <2>2, Remains, Zenon
    <3>2. up' \in Seq(STRING)
      BY <1>8, <2>2, Remains, Zenon
    <3> QED
      BY <2>2, <3>1, <3>2, Zenon
  <2> QED
    BY <1>7, <2>1, <2>2
<1>10. PICK d \in 0 .. Len(Tail(up)) :
        /\ up' \in Seq(STRING) /\ Len(up') = Len(Tail(up)) - d
        /\ \A i \in 1 .. Len(up') : up'[i] = Tail(up)[d + i]
        /\ sectors # {} => d = 0
  BY <1>9
<1>11. Line' = up'
  BY <1>10 DEF Line
<1>12. /\ Len(Line') = Len(Line) - n - d /\ Len(Line') \in Nat /\ d \in Nat
       /\ \A i \in 1 .. Len(Line') : Line'[i] = Line[n + d + i]
  <2>1. Len(Line') = Len(Line) - n - d /\ Len(Line') \in Nat /\ d \in Nat
    <3>1. PICK m : m = Len(Tail(up))
      OBVIOUS
    <3>2. m = Len(up) - 1 /\ m \in Nat /\ Len(up) \in Nat
      BY <1>8, <3>1
    <3>3. d \in 0 .. m /\ Len(Line') = m - d
      BY <1>10, <1>11, <3>1
    <3>4. d \in Nat /\ m - d \in Nat
      BY <3>2, <3>3
    <3> QED
      BY <1>3, <1>4, <3>2, <3>3, <3>4
  <2>2. ASSUME NEW i \in 1 .. Len(Line') PROVE Line'[i] = Line[n + d + i]
    <3>1. d + i \in 1 .. Len(Tail(up)) /\ d + i + 1 \in 1 .. Len(up) /\ n - 1 + (d + i + 1) = n + d + i
      BY <1>3, <1>8, <1>10, <1>11, <2>1
    <3>2. Line'[i] = Tail(up)[d + i] /\ Tail(up)[d + i] = up[d + i + 1]
      BY <1>8, <1>10, <1>11, <3>1
    <3> QED
      BY <1>4, <3>1, <3>2
  <2> QED
    BY <2>1, <2>2
<1>13. ASSUME \A i \in n + 1 .. Len(Line) : Line[i] # "SOH" PROVE Free'
  <2>1. ASSUME NEW i \in 1 .. Len(Line') PROVE Line'[i] # "SOH"
    <3>1. n + d + i \in n + 1 .. Len(Line)
      BY <1>3, <1>4, <1>12
    <3> QED
      BY <1>12, <1>13, <3>1
  <2>2. Len(Line') + 1 \in 1 .. Len(Line') + 1 /\ Len(Line') + 1 - 1 = Len(Line')
    BY <1>12
  <2> QED
    BY <2>1, <2>2 DEF Free, First
<1>14. (Busy' <=> Busy) /\ Begun' = Begun
  BY <1>1 DEF Busy, Begun
<1>15. ~Free /\ ~Replied /\ ~Mute /\ ~TailAcked
  BY <1>1, <1>3, <1>4 DEF Free, First, Replied, Mute, TailAcked
<1>16. ~Stuck
  <2> SUFFICES ASSUME Stuck PROVE FALSE
    OBVIOUS
  <2>1. PICK f \in 1 .. Len(Line) :
       /\ First(f)
       /\ \/ Len(Line) = f
          \/ Len(Line) > f /\ Line[f + 1] = "D" /\ Len(Line) - f + 1 = FrameLen - 1
    BY DEF Stuck
  <2>2. f = 1
    BY <1>1, <2>1 DEF First
  <2> QED
    BY <1>3, <1>4, <1>6, <1>a, <2>1, <2>2
<1>17. down = <<>>
  BY <1>15, <1>16 DEF LineInv, Shape, Clean, Crooked, Trailing
<1>18. Append(down, "ACK") = <<"ACK">> /\ Append(down, "NAK") = <<"NAK">>
  BY <1>17
<1>19. Resends'
  BY <1>1 DEF LineInv, Resends
\* A whole frame is one of the sectors.
<1>20. ASSUME n = FrameLen, \A i \in 1 .. FrameLen : Line[i] = work[cur][i]
       PROVE  sectors # {}
  <2>1. work[cur] \in Seq(STRING) /\ Len(work[cur]) = FrameLen /\ cur \in DOMAIN work
    BY <1>t, FrameIs
  <2>2. g = work[cur]
    <3>1. \A i \in 1 .. FrameLen : g[i] = work[cur][i]
      BY <1>4, <1>20
    <3>2. Len(g) = Len(work[cur])
      BY <1>3, <1>20, <2>1
    <3> QED
      BY <1>3, <2>1, <3>1, <3>2
  <2> QED
    BY <2>1, <2>2
<1>21. CASE Clean
  <2>1. Begun >= 1
    BY <1>t, <1>15, <1>21, CleanIdle
  <2>2. PICK f \in 1 .. Len(Line) :
          /\ First(f) /\ Len(Line) = f - 1 + k
          /\ k >= 2 => Line[f + 1] = "D"
          /\ \A i \in 1 .. k : Line[f - 1 + i] = work[cur][i]
    BY <1>t, <1>21, <2>1, CleanFrame
  <2>3. k \in 1 .. FrameLen /\ Busy
    BY <1>t, <1>21, <2>1, CleanFrame
  <2>4. f = 1
    BY <1>1, <2>2 DEF First
  <2>5. n = FrameLen /\ k = FrameLen /\ Len(Line) = FrameLen
    BY <1>3, <1>4, <1>6, <1>a, <2>2, <2>3, <2>4
  <2>6. \A i \in 1 .. FrameLen : Line[i] = work[cur][i]
    BY <1>a, <2>2, <2>4, <2>5
  <2>7. down' = <<"ACK">>
    BY <1>7, <1>18, <1>20, <2>5, <2>6
  <2>8. Free'
    BY <1>13, <2>5, <1>a
  <2>9. txpc = "wait"
    BY <1>t, <2>3, <2>5, <1>a DEF Typed, Busy
  <2>10. Replied'
    BY <1>14, <2>3, <2>7, <2>8 DEF Replied
  <2> QED
    BY <1>1, <1>19, <2>7, <2>8, <2>9, <2>10 DEF Shape, Faultless
<1>22. CASE Crooked
  <2>1. PICK f \in 1 .. Len(Line) :
          First(f) /\ Odd(Line, f, k - 1 + tries)
    BY <1>22 DEF Crooked
  <2>2. f = 1
    BY <1>1, <2>1 DEF First
  <2>3. \A i \in n + 1 .. Len(Line) : Line[i] # "SOH"
    BY <1>3, <1>4, <1>6, <1>a, <2>1, <2>2 DEF Odd
  <2>4. Free'
    BY <1>13, <2>3
  <2>5. Replied' /\ faults' = 1
    BY <1>1, <1>7, <1>14, <1>18, <1>22, <2>4 DEF Replied, Crooked
  <2> QED
    BY <1>19, <2>5 DEF Shape, Faultless
<1>23. CASE Trailing
  <2>1. PICK f \in 1 .. Len(Line) :
       /\ First(f) /\ Len(Line) = f + FrameLen /\ Line[Len(Line)] = "SOH"
       /\ \A i \in 1 .. FrameLen : Line[f - 1 + i] = work[cur][i]
    BY <1>23 DEF Trailing
  <2>2. f = 1
    BY <1>1, <2>1 DEF First
  <2>3. \A i \in 1 .. FrameLen : Line[i] = work[cur][i]
    BY <1>a, <2>1, <2>2
  <2>4. Line[2] = "D" /\ n = FrameLen
    BY <1>t, <1>a, <1>6, <2>3, FrameIs
  <2>5. sectors # {} /\ down' = <<"ACK">> /\ d = 0
    BY <1>7, <1>10, <1>18, <1>20, <2>3, <2>4
  <2>6. Len(Line') = 1 /\ Line'[1] = Line[FrameLen + 1] /\ Len(Line) = FrameLen + 1
    BY <1>12, <1>a, <2>1, <2>2, <2>4, <2>5
  <2>7. TailAcked' /\ faults' = 1
    BY <1>1, <1>23, <2>1, <2>5, <2>6 DEF TailAcked, Trailing, First
  <2> QED
    BY <1>19, <2>7 DEF Shape, Faultless
<1> QED
  BY <1>15, <1>16, <1>21, <1>22, <1>23 DEF LineInv, Shape

LEMMA TakeKeeps ==
  ASSUME LineInv, PlainData, Take
  PROVE  Resends' /\ Faultless' /\ Shape'
<1>t. Typed
  BY DEF LineInv
<1>1. CASE got' = <<>>
  BY <1>1, JudgeKeeps
<1>2. CASE got' # <<>>
  <2>1. got' = Append(got, Head(up)) /\ up' = Tail(up) /\ UNCHANGED <<down, tx, faults>>
    BY <1>2 DEF Take, Heard
  <2>2. Append(got, Head(up)) \o Tail(up) = got \o up
    <3>1. got \in Seq(STRING) /\ up \in Seq(STRING) /\ up # <<>>
      BY <1>t DEF Take, Typed
    <3> QED
      BY <3>1, SMTT(30)
  <2>3. Line' = Line
    BY <2>1, <2>2 DEF Line
  <2>4. Len(Line) >= 1 /\ Line[1] = "SOH"
    <3>1. got \in Seq(STRING) /\ got # <<>> /\ got[1] = "SOH" /\ Len(up) \in Nat
      BY <1>t DEF Take, Typed
    <3>2. Len(got) \in Nat /\ Len(got) >= 1
      BY <3>1
    <3>3. Len(Line) = Len(got) + Len(up) /\ \A i \in 1 .. Len(got) : Line[i] = got[i]
      BY <1>t, LineIs
    <3> QED
      BY <3>1, <3>2, <3>3
  <2> QED
    BY <1>2, <2>1, <2>3, <2>4, ReadsOn
<1> QED
  BY <1>1, <1>2

\* The host gives up a frame that was cut short.
LEMMA HostTimeoutKeeps ==
  ASSUME LineInv, PlainData, HostTimeout
  PROVE  Resends' /\ Faultless' /\ Shape'
<1>t. Typed /\ Typed'
  BY KeepTyped DEF LineInv, Next, Progress
<1>a. FrameLen \in Nat /\ FrameLen >= 4
  BY FramingAssumption
<1>1. /\ UNCHANGED <<work, cur, txpc, k, tries, down, faults>> /\ got # <<>> /\ up = <<>>
      /\ down = <<>> /\ txpc # "send" /\ got' = <<>> /\ up' = <<>>
  BY DEF HostTimeout, tx
<1>2. Line' = <<>>
  BY <1>1 DEF Line
<1>3. Free'
  BY <1>1, <1>2 DEF Free, First
<1>4. Len(Line) \in Nat /\ Len(Line) = Len(got) /\ Len(Line) < FrameLen /\ Len(Line) >= 1
  BY <1>t, <1>1, LineIs DEF Typed
<1>5. (Busy' <=> Busy) /\ Begun' = Begun
  BY <1>1 DEF Busy, Begun
<1>6. ~Free /\ ~Replied /\ ~TailAcked /\ ~Mute
  BY <1>1, <1>4 DEF Free, First, Replied, TailAcked, Mute
<1>7. ~Clean
  <2> SUFFICES ASSUME Clean PROVE FALSE
    OBVIOUS
  <2>1. Begun >= 1
    BY <1>t, <1>6, CleanIdle
  <2>2. Begun = k /\ Busy /\ \E f \in 1 .. Len(Line) : First(f) /\ Len(Line) = f - 1 + k
    BY <1>t, <2>1, CleanFrame
  <2> QED
    BY <1>t, <1>1, <1>4, <1>a, <2>2 DEF Busy, Typed
<1>8. ~Trailing
  BY <1>4, <1>a DEF Trailing
<1>9. faults = 1 /\ (Crooked \/ Stuck)
  BY <1>6, <1>7, <1>8 DEF LineInv, Shape, Crooked, Stuck
<1>10. Crooked => Mute'
  BY <1>1, <1>3, <1>5 DEF Crooked, Mute
<1>11. Stuck => Clean'
  <2> SUFFICES ASSUME Stuck PROVE Clean'
    OBVIOUS
  <2>1. Begun' = 0
    BY <1>t, <1>1, <1>5, <1>a DEF Stuck, Busy, Begun, Typed
  <2> QED
    BY <1>t, <1>1, <1>3, <2>1, BecomesClean
<1> QED
  BY <1>1, <1>9, <1>10, <1>11 DEF LineInv, Shape, Faultless, Resends

---------------------------------------------------------------------------

LEMMA CommandedStays ==
  ASSUME commanded, [Next]_vars
  PROVE  commanded'
  BY DEF Next, Progress, ReadSector, SendByte, SendDamaged, Put, Noise, Reply, Timeout, Overrun,
         Hunt, Take, Command, HostTimeout, vars

\* There are never two replies on the way.
LEMMA OneReply ==
  ASSUME LineInv
  PROVE  down \in {<<>>, <<"ACK">>, <<"NAK">>} /\ ~Overrun
<1>1. down \in {<<>>, <<"ACK">>, <<"NAK">>}
  BY DEF LineInv, Shape, Clean, Replied, Mute, Crooked, Trailing, TailAcked, Stuck
<1>2. ~(Len(down) > 1)
  BY <1>1
<1> QED
  BY <1>1, <1>2 DEF Overrun

\* The line has one of the shapes until the host takes a frame for an INFO: with one
\* bad byte at most and no SOH in the data, the sender and the host are never further
\* apart than one frame.
THEOREM LineInvariant ==
  ASSUME PlainData, MaxFaults <= 1
  PROVE  Spec => []Uncommanded
<1>1. Init => Uncommanded
  <2> SUFFICES ASSUME Init PROVE LineInv
    BY DEF Uncommanded, LineInv
  <2>1. Typed
    BY FramingAssumption DEF Init, Typed
  <2>2. Line = <<>>
    BY DEF Init, Line
  <2>3. Free /\ Begun = 0
    BY <2>2 DEF Init, Free, First, Begun
  <2>4. Clean
    <3>1. PICK f : f = 1
      OBVIOUS
    <3>2. First(f) /\ Len(Line) = f - 1 + Begun /\ f \in 1 .. Len(Line) + 1
      BY <2>2, <2>3, <3>1 DEF Free
    <3> QED
      BY <2>3, <3>2 DEF Init, Clean
  <2> QED
    BY <2>1, <2>4 DEF Init, LineInv, Shape, Faultless, Resends
<1>2. Uncommanded /\ [Next]_vars => Uncommanded'
  <2> SUFFICES ASSUME Uncommanded, [Next]_vars PROVE Uncommanded'
    OBVIOUS
  <2>1. Typed'
    BY KeepTyped DEF Uncommanded
  <2>0. CASE commanded'
    BY <2>0, <2>1 DEF Uncommanded
  <2> SUFFICES ASSUME ~commanded' PROVE LineInv'
    BY <2>0, <2>1 DEF Uncommanded
  <2>l. LineInv
    BY CommandedStays DEF Uncommanded
  <2>2. CASE UNCHANGED vars
    <3>1. UNCHANGED <<work, txpc, cur, k, tries, up, down, got, faults>>
      BY <2>2 DEF vars, tx
    <3>2. UNCHANGED Line /\ \A f : First(f) => First(f)'
      BY <3>1 DEF Line, First
    <3>3. (Busy' <=> Busy) /\ Begun' = Begun /\ (Free => Free')
      BY <3>1, <3>2 DEF Busy, Begun, Free
    <3>4. Clean => Clean'
      BY <3>1, <3>2, <3>3 DEF Clean
    <3>5. Replied \/ Mute => Replied' \/ Mute'
      BY <3>1, <3>3 DEF Replied, Mute
    <3>6. (Crooked => Crooked') /\ (Stuck => Stuck')
      BY <3>1, <3>2, <3>3 DEF Crooked, Stuck
    <3>7. (Trailing => Trailing') /\ (TailAcked => TailAcked')
      BY <3>1, <3>2 DEF Trailing, TailAcked
    <3>8. Resends' /\ Faultless' /\ Shape'
      BY <2>l, <3>1, <3>3, <3>4, <3>5, <3>6, <3>7 DEF LineInv, Resends, Faultless, Shape
    <3> QED
      BY <2>1, <3>8 DEF LineInv
  <2>3. CASE Next
    <3>0. ~Command /\ ~Overrun
      BY <2>l, OneReply DEF Command
    <3>1. Resends' /\ Faultless' /\ Shape'
      BY <2>3, <2>l, <3>0, ReadKeeps, SendKeeps, DamageKeeps, NoiseKeeps, ReplyKeeps,
         TimeoutKeeps, HuntKeeps, TakeKeeps, HostTimeoutKeeps DEF Next, Progress
    <3> QED
      BY <2>1, <3>1 DEF LineInv
  <2> QED
    BY <2>2, <2>3
<1> QED
  BY <1>1, <1>2, PTL DEF Spec

\* When send_data starts a frame no reply to an earlier one is on the way, whichever
\* byte of a frame was lost, changed or invented, for frames and lists of any length,
\* with and without the sender's timeout, as long as the host takes no frame for an
\* INFO.
THEOREM ReplyIsFresh ==
  ASSUME PlainData, MaxFaults <= 1
  PROVE  Spec => []NoStaleReply
<1>1. Uncommanded => NoStaleReply
  BY DEF Uncommanded, LineInv, NoStaleReply, Shape, Clean, Replied, Mute, Crooked, Trailing, TailAcked,
         Stuck, Busy
<1> QED
  BY <1>1, LineInvariant, PTL

\* A lost, changed or invented byte costs two resends at most, unless it makes the
\* host send its CMD.
THEOREM ResendsBounded ==
  ASSUME PlainData, MaxFaults <= 1
  PROVE  Spec => []TwoResends
<1>1. Uncommanded => TwoResends
  BY DEF Uncommanded, LineInv, Resends, TwoResends
<1> QED
  BY <1>1, LineInvariant, PTL

\* A sender gives up at LINK_TRIES, and no sooner.
GaveUp == /\ tries \in Nat /\ faults \in 0 .. MaxFaults
          /\ txpc = "lost" => tries >= LinkTries

\* One bad byte brings the link down only if it makes the host take a frame for an
\* INFO: otherwise send_data has tries left when the frame has arrived, if LINK_TRIES
\* (8 in main.c, 16 in tx.S) is more than two.  Both conditions are needed: with an
\* SOH in the data (phase_lock.cfg), or a type byte that becomes an 'I'
\* (info_byte.cfg), one byte loses the link.
THEOREM OneFaultSurvived ==
  ASSUME PlainData, MaxFaults <= 1, LinkTries > 2
  PROVE  Spec => [](txpc = "lost" => commanded)
<1>a. LinkTries \in Nat /\ MaxFaults \in Nat
  BY FramingAssumption
<1>1. Init => GaveUp
  BY <1>a DEF Init, GaveUp
<1>2. GaveUp /\ [Next]_vars => GaveUp'
  <2> SUFFICES ASSUME GaveUp, [Next]_vars PROVE GaveUp'
    OBVIOUS
  <2>1. CASE Retry /\ UNCHANGED faults
    BY <1>a, <2>1 DEF GaveUp, Retry
  <2>2. CASE ReadSector
    BY <1>a, <2>2 DEF GaveUp, ReadSector
  <2>3. CASE \E a : Put(a) /\ (UNCHANGED faults \/ Fault)
    BY <1>a, <2>3 DEF GaveUp, Put, Fault
  <2>4. CASE Noise
    BY <1>a, <2>4 DEF GaveUp, Noise, Fault, tx
  <2>5. CASE Reply /\ ~Retry
    BY <1>a, <2>5 DEF GaveUp, Reply
  <2>6. CASE UNCHANGED <<tx, faults>>
    BY <2>6 DEF GaveUp, tx
  <2>7. SendByte \/ SendDamaged => \E a : Put(a) /\ (UNCHANGED faults \/ Fault)
    BY Zenon DEF SendByte, SendDamaged
  <2>8. Hunt \/ Take \/ Command \/ Overrun \/ HostTimeout \/ UNCHANGED vars
          => UNCHANGED <<tx, faults>>
    BY DEF Hunt, Take, Command, Overrun, HostTimeout, vars
  <2>9. (Reply /\ Retry) \/ Timeout => Retry /\ UNCHANGED faults
    BY DEF Reply, Timeout
  <2> QED
    BY <2>1, <2>2, <2>3, <2>4, <2>5, <2>6, <2>7, <2>8, <2>9 DEF Next, Progress
<1>3. Uncommanded /\ GaveUp => (txpc = "lost" => commanded)
  BY <1>a DEF Uncommanded, LineInv, GaveUp, Resends
<1> QED
  BY <1>1, <1>2, <1>3, LineInvariant, PTL DEF Spec

---------------------------------------------------------------------------
(* What the sender goes past is stored.                                    *)

\* A frame, and what one changed or invented byte makes of it.
Edits(w) ==
  {w} \cup {[n \in 1 .. FrameLen |-> IF n = p THEN j ELSE w[n]] : p \in 1 .. FrameLen, j \in Junk}
      \cup {[n \in 1 .. FrameLen |-> IF n < p THEN w[n] ELSE IF n = p THEN j ELSE w[n - 1]] :
              p \in 1 .. FrameLen + 1, j \in Junk}

\* One bad byte makes no other sector's frame of a frame: what the CRC is for.
EditsCaught ==
  \A w \in Works : \A i, l \in DOMAIN w : w[l] \in Edits(w[i]) => w[l] = w[i]

\* From the SOH at f on the line has the bytes of e, and the sender will add the rest
\* of e: d bytes more than it has sent are there.
Like(f, e, d) ==
  /\ Len(Line) = f - 1 + k + d
  /\ \A i \in 1 .. FrameLen : IF f - 1 + i <= Len(Line) THEN Line[f - 1 + i] = e[i]
                                                        ELSE e[i] = work[cur][i - d]

\* Behind the SOH at f is no data frame; or one with an SOH in it; or one too short,
\* of which no more will come, or a byte of which was lost; or this frame, or an edit
\* of it.
Tells(f) ==
  \/ f < Len(Line) /\ Line[f + 1] # "D"
  \/ \E i \in f + 1 .. Len(Line) : i < f + FrameLen /\ Line[i] = "SOH"
  \/ (~Busy \/ txpc = "wait") /\ Len(Line) < f - 1 + FrameLen
  \/ Busy /\ Len(Line) = f - 2 + k
  \/ Busy /\ \E d \in {0, 1} : \E e \in Edits(work[cur]) : Like(f, e, d)

Telling == \A f \in 1 .. Len(Line) : First(f) /\ Line[f] = "SOH" => Tells(f)

\* The sectors send_data went past are stored, and at the end of its list all are.
PassedStored ==
  /\ \A i \in 1 .. cur - 1 : i \in stored
  /\ txpc = "done" => stored = DOMAIN work

\* What an ACK on the way is about is stored.
AckStored == down # <<>> /\ Head(down) = "ACK" => cur \in stored

StoreInv ==
  /\ stored \subseteq DOMAIN work
  /\ \A i \in 1 .. cur - 1 : i \in stored
  /\ txpc = "done" => cur = Len(work) /\ cur \in stored
  /\ AckStored
  /\ Telling

LEMMA EditIs ==
  ASSUME NEW w, NEW j \in Junk
  PROVE  /\ \A p \in 1 .. FrameLen :
              [n \in 1 .. FrameLen |-> IF n = p THEN j ELSE w[n]] \in Edits(w)
         /\ \A p \in 1 .. FrameLen + 1 :
              [n \in 1 .. FrameLen |-> IF n < p THEN w[n] ELSE IF n = p THEN j ELSE w[n - 1]] \in Edits(w)
<1>1. ASSUME NEW p \in 1 .. FrameLen
      PROVE  [n \in 1 .. FrameLen |-> IF n = p THEN j ELSE w[n]] \in Edits(w)
  BY DEF Edits
<1>2. ASSUME NEW p \in 1 .. FrameLen + 1
      PROVE  [n \in 1 .. FrameLen |-> IF n < p THEN w[n] ELSE IF n = p THEN j ELSE w[n - 1]] \in Edits(w)
  BY DEF Edits
<1> QED
  BY <1>1, <1>2

LEMMA OneFirst ==
  ASSUME Typed', NEW f \in 1 .. Len(Line'), NEW h \in 1 .. Len(Line'),
         First(f)', First(h)', Line'[f] = "SOH", Line'[h] = "SOH"
  PROVE  f = h
<1>1. Len(Line') \in Nat
  BY DEF Line, Typed
<1>2. f < h => FALSE
  BY <1>1 DEF First
<1>3. h < f => FALSE
  BY <1>1 DEF First
<1> QED
  BY <1>1, <1>2, <1>3

LEMMA NoneAhead ==
  ASSUME Typed', Free'
  PROVE  Telling'
<1>1. Len(Line') \in Nat
  BY DEF Line, Typed
<1>2. \A i \in 1 .. Len(Line') : Line'[i] # "SOH"
  BY <1>1 DEF Free, First
<1> QED
  BY <1>2 DEF Telling

\* The frame begins at f.
LEMMA BeginsRight ==
  ASSUME Typed', PlainData, txpc' \in {"send", "wait"}, k' = 1,
         NEW f \in Nat, f = Len(Line'), Line'[f] = "SOH"
  PROVE  Tells(f)'
<1>1. FrameLen \in Nat /\ FrameLen >= 4
  BY FramingAssumption
<1>2. work'[cur'][1] = "SOH"
  <2>1. work' \in Works /\ cur' \in 1 .. Len(work')
    BY DEF Typed
  <2>2. work' \in Seq(Seq(STRING))
    BY <2>1, FramingAssumption
  <2>3. cur' \in DOMAIN work'
    BY <2>1, <2>2
  <2> QED
    BY <2>1, <2>3, FramingAssumption
<1>3. PICK e : e = work'[cur']
  OBVIOUS
<1>4. e \in Edits(work[cur])'
  BY <1>3 DEF Edits
<1>5. ASSUME NEW i \in 1 .. FrameLen
      PROVE  IF f - 1 + i <= Len(Line') THEN Line'[f - 1 + i] = e[i] ELSE e[i] = work'[cur'][i - 0]
  <2>1. CASE i = 1
    <3>1. f - 1 + i = f
      BY <2>1
    <3> QED
      BY <1>2, <1>3, <2>1, <3>1
  <2>2. CASE i > 1
    BY <1>3, <2>2
  <2> QED
    BY <1>1, <2>1, <2>2
<1>6. Like(f, e, 0)'
  BY <1>5 DEF Like
<1>7. Busy'
  BY DEF Busy
<1> QED
  BY <1>4, <1>6, <1>7 DEF Tells

\* The host waits for a frame of which no more will come than this.
LEMMA CutTells ==
  ASSUME Typed', Len(Line') < FrameLen, ~Busy' \/ txpc' = "wait"
  PROVE  Telling'
<1>1. Len(Line') \in Nat /\ FrameLen \in Nat
  BY FramingAssumption DEF Line, Typed
<1>2. ASSUME NEW f \in 1 .. Len(Line') PROVE Len(Line') < f - 1 + FrameLen
  BY <1>1
<1> QED
  BY <1>2 DEF Telling, Tells

\* A single SOH, with nothing to follow.
LEMMA LoneTells ==
  ASSUME Typed', First(Len(Line))', ~Busy' \/ txpc' = "wait", Line'[Len(Line')] = "SOH"
  PROVE  Telling'
<1>1. Len(Line') \in Nat /\ FrameLen \in Nat /\ FrameLen >= 4
  BY FramingAssumption DEF Line, Typed
<1>2. ASSUME NEW f \in 1 .. Len(Line'), First(f)', Line'[f] = "SOH" PROVE f = Len(Line')
  <2>1. PICK h : h = Len(Line')
    OBVIOUS
  <2>2. h \in 1 .. Len(Line') /\ First(h)' /\ Line'[h] = "SOH"
    BY <1>1, <2>1 DEF First
  <2> QED
    BY <1>2, <2>1, <2>2, OneFirst
<1>3. ASSUME NEW f \in 1 .. Len(Line'), f = Len(Line') PROVE Len(Line') < f - 1 + FrameLen
  BY <1>1, <1>3
<1> QED
  BY <1>2, <1>3 DEF Telling, Tells

LEMMA SendTells ==
  ASSUME LineInv, LineInv', PlainData, Telling, SendByte
  PROVE  Telling'
<1>t. Typed /\ Typed'
  BY DEF LineInv
<1>a. FrameLen \in Nat /\ FrameLen >= 4
  BY FramingAssumption
<1>w. /\ work[cur] \in Seq(STRING) /\ Len(work[cur]) = FrameLen /\ work[cur][1] = "SOH"
      /\ \A n \in 2 .. FrameLen : work[cur][n] # "SOH"
  BY <1>t, FrameIs
<1>1. /\ txpc = "send" /\ up' = up \o <<Byte>> /\ k' = k + 1 /\ txpc' \in {"send", "wait"}
      /\ UNCHANGED <<work, cur, got>> /\ k \in 0 .. FrameLen - 1
  BY <1>t, <1>a DEF SendByte, Put, Typed
<1>2. PICK b : b = Byte
  OBVIOUS
<1>3. b = work[cur][k + 1] /\ b \in STRING /\ (b = "SOH" <=> k = 0)
  BY <1>w, <1>1, <1>2, <1>a DEF Byte
<1>4. /\ Len(Line) \in Nat /\ Len(Line') = Len(Line) + 1 /\ Line'[Len(Line) + 1] = b
      /\ \A i \in 1 .. Len(Line) : Line'[i] = Line[i]
  BY <1>t, <1>1, <1>2, <1>3, LineGrows, LineIs
<1>5. Busy'
  BY <1>1 DEF Busy
<1> SUFFICES ASSUME NEW f \in 1 .. Len(Line'), First(f)', Line'[f] = "SOH"
             PROVE  Tells(f)'
  BY DEF Telling
<1>6. CASE f \in 1 .. Len(Line)
  <2>1. First(f) /\ Line[f] = "SOH"
    <3>1. \A i \in 1 .. f - 1 : Line[i] # "SOH"
      BY <1>4, <1>6 DEF First
    <3> QED
      BY <1>1, <1>4, <1>6, <3>1 DEF First
  <2>2. Tells(f)
    BY <1>6, <2>1 DEF Telling
  <2>3. CASE f < Len(Line) /\ Line[f + 1] # "D"
    BY <1>4, <1>6, <2>3 DEF Tells
  <2>4. CASE \E i \in f + 1 .. Len(Line) : i < f + FrameLen /\ Line[i] = "SOH"
    <3>1. PICK i \in f + 1 .. Len(Line) : i < f + FrameLen /\ Line[i] = "SOH"
      BY <2>4
    <3>2. i \in f + 1 .. Len(Line') /\ Line'[i] = "SOH"
      BY <1>4, <1>6, <3>1
    <3> QED
      BY <3>1, <3>2 DEF Tells
  <2>5. CASE (~Busy \/ txpc = "wait") /\ Len(Line) < f - 1 + FrameLen
    <3>1. k = 0 /\ b = "SOH"
      BY <1>1, <1>3, <2>5 DEF Busy
    <3>2. PICK i : i = Len(Line) + 1
      OBVIOUS
    <3>3. i \in f + 1 .. Len(Line') /\ i < f + FrameLen /\ Line'[i] = "SOH"
      BY <1>a, <1>4, <1>6, <2>5, <3>1, <3>2
    <3> QED
      BY <3>3 DEF Tells
  <2>6. CASE Len(Line) = f - 2 + k
    <3>1. Len(Line') = f - 2 + k'
      BY <1>1, <1>4, <2>6
    <3> QED
      BY <1>5, <3>1 DEF Tells
  <2>7. CASE \E d \in {0, 1} : \E e \in Edits(work[cur]) : Like(f, e, d)
    <3>1. PICK d \in {0, 1}, e \in Edits(work[cur]) : Like(f, e, d)
      BY <2>7
    <3>2. Len(Line') = f - 1 + k' + d
      BY <1>1, <1>4, <3>1 DEF Like
    <3>3. ASSUME NEW i \in 1 .. FrameLen
          PROVE  IF f - 1 + i <= Len(Line') THEN Line'[f - 1 + i] = e[i] ELSE e[i] = work'[cur'][i - d]
      <4>1. CASE f - 1 + i <= Len(Line)
        <5>1. f - 1 + i \in 1 .. Len(Line) /\ f - 1 + i <= Len(Line') /\ Line[f - 1 + i] = e[i]
          BY <1>4, <1>6, <3>1, <4>1 DEF Like
        <5> QED
          BY <1>4, <5>1
      <4>2. CASE f - 1 + i = Len(Line) + 1
        <5>1. e[i] = work[cur][i - d] /\ i - d = k + 1
          BY <1>1, <1>4, <1>6, <3>1, <4>2 DEF Like
        <5>2. Line'[f - 1 + i] = b /\ f - 1 + i <= Len(Line')
          BY <1>4, <4>2
        <5> QED
          BY <1>3, <5>1, <5>2
      <4>3. CASE f - 1 + i > Len(Line) + 1
        <5>1. e[i] = work[cur][i - d] /\ ~(f - 1 + i <= Len(Line'))
          BY <1>4, <1>6, <3>1, <4>3 DEF Like
        <5> QED
          BY <1>1, <5>1
      <4> QED
        BY <1>4, <1>6, <4>1, <4>2, <4>3
    <3>4. Like(f, e, d)'
      BY <3>2, <3>3 DEF Like
    <3>5. e \in Edits(work[cur])'
      BY <1>1, <3>1 DEF Edits
    <3> QED
      BY <1>5, <3>1, <3>4, <3>5 DEF Tells
  <2> QED
    BY <2>2, <2>3, <2>4, <2>5, <2>6, <2>7 DEF Tells
<1>7. CASE f = Len(Line) + 1
  <2>1. k' = 1 /\ f = Len(Line') /\ f \in Nat
    BY <1>1, <1>3, <1>4, <1>7
  <2> QED
    BY <1>t, <1>1, <2>1, BeginsRight
<1> QED
  BY <1>4, <1>6, <1>7

\* One byte of the frame is lost or changed.
LEMMA DamageTells ==
  ASSUME LineInv, LineInv', PlainData, MaxFaults <= 1, SendDamaged
  PROVE  Telling'
<1>t. Typed /\ Typed'
  BY DEF LineInv
<1>a. FrameLen \in Nat /\ FrameLen >= 2 /\ MaxFaults \in Nat
  BY FramingAssumption
<1>w. work[cur] \in Seq(STRING) /\ Len(work[cur]) = FrameLen
  BY <1>t, FrameIs
<1>1. /\ txpc = "send" /\ k' = k + 1 /\ txpc' \in {"send", "wait"} /\ faults = 0
      /\ UNCHANGED <<work, cur, got>> /\ k \in 0 .. FrameLen - 1
      /\ up' = up \o <<>> \/ \E j \in Junk : up' = up \o <<j>>
  <2>1. PICK a \in {<<>>} \cup {<<j>> : j \in Junk} : Put(a)
    BY DEF SendDamaged
  <2>2. up' = up \o a
    BY <2>1 DEF Put
  <2>3. up' = up \o <<>> \/ \E j \in Junk : up' = up \o <<j>>
    BY <2>1, <2>2, Zenon
  <2>4. /\ txpc = "send" /\ k' = k + 1 /\ txpc' \in {"send", "wait"}
        /\ UNCHANGED <<work, cur, got>>
    BY <2>1 DEF Put
  <2>5. faults = 0 /\ k \in 0 .. FrameLen - 1
    BY <1>t, <1>a, <2>4 DEF SendDamaged, Fault, Typed
  <2> QED
    BY <2>3, <2>4, <2>5
<1>2. Clean
  BY <1>1 DEF LineInv, Faultless
<1>3. Busy' /\ Len(Line) \in Nat
  BY <1>t, <1>1, LineIs DEF Busy
<1>4. CASE k = 0
  <2>1. Free /\ got = <<>>
    BY <1>t, <1>2, <1>4, CleanIdle, FreeIsHunting DEF Begun
  <2>2. CASE up' = up \o <<>>
    <3>1. Line' = Line
      BY <1>t, <1>1, <2>2 DEF Line, Typed
    <3> QED
      BY <1>t, <1>1, <2>1, <3>1, NoneAhead DEF Free, First
  <2>3. CASE \E j \in Junk : up' = up \o <<j>>
    <3>1. PICK j \in Junk : up' = up \o <<j>>
      BY <2>3
    <3>2. j \in STRING
      BY <3>1, FramingAssumption
    <3>3. CASE j # "SOH"
      BY <1>t, <1>1, <2>1, <3>1, <3>2, <3>3, FreeGrows, NoneAhead
    <3>4. CASE j = "SOH"
      <4>1. /\ Len(Line') = Len(Line) + 1
            /\ \A i \in 1 .. Len(Line) : Line'[i] = Line[i]
        BY <1>t, <1>1, <3>1, <3>2, LineGrows
      <4>2. ASSUME NEW f \in 1 .. Len(Line'), Line'[f] = "SOH" PROVE f = Len(Line') /\ f \in Nat
        <5>1. \A i \in 1 .. Len(Line) : Line[i] # "SOH"
          BY <1>3, <2>1 DEF Free, First
        <5> QED
          BY <1>3, <4>1, <4>2, <5>1
      <4>3. ASSUME NEW f \in 1 .. Len(Line'), Line'[f] = "SOH" PROVE Tells(f)'
        BY <1>t, <1>1, <1>4, <4>2, <4>3, BeginsRight
      <4> QED
        BY <4>3 DEF Telling
    <3> QED
      BY <3>3, <3>4
  <2> QED
    BY <1>1, <2>2, <2>3
<1>5. CASE k >= 1
  <2>1. Begun >= 1
    BY <1>1, <1>5 DEF Begun
  <2>2. PICK h \in 1 .. Len(Line) :
          /\ First(h) /\ Len(Line) = h - 1 + k /\ Line[h] = "SOH"
          /\ \A i \in 1 .. k : Line[h - 1 + i] = work[cur][i]
    BY <1>t, <1>2, <2>1, CleanFrame
  <2>3. CASE up' = up \o <<>>
    <3>1. Line' = Line
      BY <1>t, <1>1, <2>3 DEF Line, Typed
    <3>2. h \in 1 .. Len(Line') /\ First(h)' /\ Line'[h] = "SOH"
      BY <1>1, <2>2, <3>1 DEF First
    <3>3. Len(Line') = h - 2 + k'
      BY <1>1, <1>3, <2>2, <3>1
    <3>4. Tells(h)'
      BY <1>3, <3>3 DEF Tells
    <3> QED
      BY <1>t, <3>2, <3>4, OneFirst DEF Telling
  <2>4. CASE \E j \in Junk : up' = up \o <<j>>
    <3>1. PICK j \in Junk : up' = up \o <<j>>
      BY <2>4
    <3>2. j \in STRING
      BY <3>1, FramingAssumption
    <3>3. /\ Len(Line') = Len(Line) + 1 /\ Line'[Len(Line) + 1] = j
          /\ \A i \in 1 .. Len(Line) : Line'[i] = Line[i]
      BY <1>t, <1>1, <3>1, <3>2, LineGrows
    <3>4. h \in 1 .. Len(Line') /\ First(h)' /\ Line'[h] = "SOH"
      <4>1. First(h)'
        BY <1>t, <1>1, <2>2, <3>1, <3>2, FirstGrows
      <4> QED
        BY <1>3, <2>2, <3>3, <4>1
    <3>5. PICK e : e = [n \in 1 .. FrameLen |-> IF n = k + 1 THEN j ELSE work[cur][n]]
      OBVIOUS
    <3>6. e \in Edits(work[cur])'
      <4>1. k + 1 \in 1 .. FrameLen
        BY <1>1, <1>a
      <4>2. e \in Edits(work[cur])
        BY <3>1, <3>5, <4>1, EditIs
      <4> QED
        BY <1>1, <4>2 DEF Edits
    <3>7. ASSUME NEW i \in 1 .. FrameLen
          PROVE  IF h - 1 + i <= Len(Line') THEN Line'[h - 1 + i] = e[i] ELSE e[i] = work'[cur'][i - 0]
      <4>1. CASE i <= k
        <5>1. e[i] = work[cur][i]
          BY <1>1, <3>5, <4>1
        <5>2. h - 1 + i \in 1 .. Len(Line) /\ h - 1 + i <= Len(Line')
          BY <1>1, <1>3, <2>2, <3>3, <4>1
        <5>3. Line[h - 1 + i] = work[cur][i]
          BY <1>1, <2>2, <4>1
        <5> QED
          BY <3>3, <5>1, <5>2, <5>3
      <4>2. CASE i = k + 1
        <5>1. e[i] = j
          BY <3>5, <4>2
        <5>2. h - 1 + i = Len(Line) + 1
          BY <1>1, <2>2, <4>2
        <5> QED
          BY <1>3, <3>3, <5>1, <5>2
      <4>3. CASE i > k + 1
        <5>1. e[i] = work[cur][i] /\ i - 0 = i
          BY <1>1, <3>5, <4>3
        <5>2. ~(h - 1 + i <= Len(Line'))
          BY <1>1, <1>3, <2>2, <3>3, <4>3
        <5> QED
          BY <1>1, <5>1, <5>2
      <4> QED
        BY <1>1, <4>1, <4>2, <4>3
    <3>8. Len(Line') = h - 1 + k' + 0
      BY <1>1, <1>3, <2>2, <3>3
    <3>9. Tells(h)'
      BY <1>3, <3>6, <3>7, <3>8 DEF Tells, Like
    <3> QED
      BY <1>t, <3>4, <3>9, OneFirst DEF Telling
  <2> QED
    BY <1>1, <2>3, <2>4
<1> QED
  BY <1>1, <1>4, <1>5

\* A byte that was not sent.
LEMMA NoiseTells ==
  ASSUME LineInv, LineInv', PlainData, MaxFaults <= 1, Noise
  PROVE  Telling'
<1>t. Typed /\ Typed'
  BY DEF LineInv
<1>a. FrameLen \in Nat /\ FrameLen >= 2 /\ MaxFaults \in Nat
  BY FramingAssumption
<1>1. PICK j \in Junk : up' = Append(up, j)
  BY DEF Noise
<1>2. faults = 0 /\ UNCHANGED <<work, txpc, cur, k, got>>
  BY <1>t, <1>a DEF Noise, Fault, tx, Typed
<1>3. j \in STRING /\ up' = up \o <<j>>
  <2>1. j \in STRING /\ up \in Seq(STRING)
    BY <1>t, <1>1, FramingAssumption DEF Typed
  <2>2. Append(up, j) = up \o <<j>>
    BY <2>1, AppendIsConcat, Zenon
  <2> QED
    BY <1>1, <2>1, <2>2
<1>4. /\ Len(Line) \in Nat /\ Len(Line') = Len(Line) + 1 /\ Line'[Len(Line) + 1] = j
      /\ \A i \in 1 .. Len(Line) : Line'[i] = Line[i]
  BY <1>t, <1>2, <1>3, LineGrows, LineIs
<1>5. ASSUME Free, ~Busy \/ txpc = "wait" PROVE Telling'
  <2>1. got = <<>>
    BY <1>t, <1>5, FreeIsHunting
  <2>2. CASE j # "SOH"
    BY <1>t, <1>2, <1>3, <1>5, <2>1, <2>2, FreeGrows, NoneAhead
  <2>3. CASE j = "SOH"
    <3>1. PICK h : h = Len(Line')
      OBVIOUS
    <3>2. First(h)'
      <4>1. h = Len(Line) + 1 /\ First(h)
        BY <1>4, <1>5, <3>1 DEF Free
      <4> QED
        BY <1>t, <1>2, <1>3, <4>1, FirstGrows
    <3>3. First(Len(Line))' /\ Line'[Len(Line')] = "SOH"
      BY <1>4, <2>3, <3>1, <3>2 DEF First
    <3>4. ~Busy' \/ txpc' = "wait"
      BY <1>2, <1>5 DEF Busy
    <3> QED
      BY <1>t, <3>3, <3>4, LoneTells
  <2> QED
    BY <2>2, <2>3
<1>6. CASE Clean /\ Begun >= 1
  <2>1. PICK h \in 1 .. Len(Line) :
          /\ First(h) /\ Len(Line) = h - 1 + k /\ Line[h] = "SOH"
          /\ \A i \in 1 .. k : Line[h - 1 + i] = work[cur][i]
    BY <1>t, <1>6, CleanFrame
  <2>2. Busy' /\ k \in 1 .. FrameLen
    BY <1>t, <1>2, <1>6, CleanFrame DEF Busy
  <2>3. h \in 1 .. Len(Line') /\ First(h)' /\ Line'[h] = "SOH"
    BY <1>t, <1>2, <1>3, <1>4, <2>1, FirstGrows
  <2>4. PICK p : p = k + 1
    OBVIOUS
  <2>5. PICK e : e = [n \in 1 .. FrameLen |-> IF n < p THEN work[cur][n]
                                              ELSE IF n = p THEN j ELSE work[cur][n - 1]]
    OBVIOUS
  <2>6. e \in Edits(work[cur])'
    <3>1. p \in 1 .. FrameLen + 1
      BY <1>a, <2>2, <2>4
    <3>2. e \in Edits(work[cur])
      BY <1>1, <2>5, <3>1, EditIs
    <3>3. work' = work /\ cur' = cur
      BY <1>2
    <3> QED
      BY <3>2, <3>3 DEF Edits
  <2>7. ASSUME NEW i \in 1 .. FrameLen
        PROVE  IF h - 1 + i <= Len(Line') THEN Line'[h - 1 + i] = e[i] ELSE e[i] = work'[cur'][i - 1]
    <3>1. CASE i <= k
      <4>1. e[i] = work[cur][i] /\ Line[h - 1 + i] = work[cur][i]
        BY <2>1, <2>2, <2>4, <2>5, <3>1
      <4>2. h - 1 + i \in 1 .. Len(Line) /\ h - 1 + i <= Len(Line')
        BY <1>4, <2>1, <2>2, <3>1
      <4> QED
        BY <1>4, <4>1, <4>2
    <3>2. CASE i = k + 1
      <4>1. e[i] = j
        BY <2>2, <2>4, <2>5, <3>2
      <4>2. h - 1 + i = Len(Line) + 1
        BY <2>1, <2>2, <3>2
      <4> QED
        BY <1>4, <4>1, <4>2
    <3>3. CASE i > k + 1
      <4>1. e[i] = work[cur][i - 1]
        BY <2>2, <2>4, <2>5, <3>3
      <4>2. ~(h - 1 + i <= Len(Line'))
        BY <1>4, <2>1, <2>2, <3>3
      <4> QED
        BY <1>2, <4>1, <4>2
    <3> QED
      BY <2>2, <3>1, <3>2, <3>3
  <2>8. Len(Line') = h - 1 + k' + 1
    BY <1>2, <1>4, <2>1, <2>2
  <2>9. Tells(h)'
    BY <2>2, <2>6, <2>7, <2>8 DEF Tells, Like
  <2> QED
    BY <1>t, <2>3, <2>9, OneFirst DEF Telling
<1>7. CASE Clean /\ ~(Begun >= 1)
  BY <1>t, <1>5, <1>7, CleanIdle
<1>8. CASE txpc = "wait" /\ Free
  BY <1>5, <1>8
<1> QED
  BY <1>2, <1>6, <1>7, <1>8 DEF LineInv, Faultless

\* The frame is answered: on the line is nothing, or a single SOH.
LEMMA AnsweredTells ==
  ASSUME Typed', Replied' \/ TailAcked'
  PROVE  Telling'
<1>1. CASE Replied'
  BY <1>1, NoneAhead DEF Replied
<1>2. CASE TailAcked'
  BY <1>2, LoneTells DEF TailAcked
<1> QED
  BY <1>1, <1>2

LEMMA ReplyTells ==
  ASSUME LineInv, LineInv', Reply
  PROVE  Telling'
<1>t. Typed /\ Typed'
  BY DEF LineInv
<1>1. UNCHANGED <<up, got>> /\ down # <<>> /\ Line' = Line
  BY DEF Reply, Line
<1>2. Replied \/ TailAcked
  BY <1>1 DEF LineInv, Shape, Clean, Mute, Crooked, Trailing, Stuck
<1>3. CASE Replied
  <2>1. Free'
    BY <1>1, <1>3 DEF Replied, Free, First
  <2> QED
    BY <1>t, <2>1, NoneAhead
<1>4. CASE TailAcked
  <2>1. Head(down) = "ACK"
    BY <1>4 DEF TailAcked
  <2>2. ~Busy'
    BY <2>1 DEF Reply, Busy
  <2>3. First(Len(Line))' /\ Line'[Len(Line')] = "SOH"
    BY <1>1, <1>4 DEF TailAcked, First
  <2> QED
    BY <1>t, <2>2, <2>3, LoneTells
<1> QED
  BY <1>2, <1>3, <1>4

LEMMA QuietTells ==
  ASSUME LineInv, LineInv', Telling, Timeout \/ HostTimeout \/ ReadSector
  PROVE  Telling'
<1>t. Typed /\ Typed'
  BY DEF LineInv
<1>a. FrameLen \in Nat /\ FrameLen >= 4
  BY FramingAssumption
<1>1. CASE Timeout
  <2>1. up' = <<>> /\ ~Busy'
    BY <1>1 DEF Timeout, Retry, Busy
  <2>2. Len(Line') < FrameLen
    BY <1>t, <1>a, <2>1 DEF Line, Typed
  <2> QED
    BY <1>t, <2>1, <2>2, CutTells
<1>2. CASE HostTimeout
  <2>1. Line' = <<>>
    BY <1>2 DEF HostTimeout, Line
  <2> QED
    BY <2>1 DEF Telling
<1>3. CASE ReadSector
  <2>1. UNCHANGED <<work, cur, up, got>> /\ ~Busy /\ ~Busy' /\ Line' = Line
    BY <1>3 DEF ReadSector, Busy, Line
  <2>2. ASSUME NEW f \in 1 .. Len(Line), Tells(f) PROVE Tells(f)'
    BY <2>1, <2>2 DEF Tells
  <2>3. ASSUME NEW f, First(f)' PROVE First(f)
    BY <2>1, <2>3 DEF First
  <2> QED
    BY <2>1, <2>2, <2>3 DEF Telling
<1> QED
  BY <1>1, <1>2, <1>3

LEMMA SameTells ==
  ASSUME Line' = Line, UNCHANGED <<work, txpc, cur, k>>, NEW f, Tells(f)
  PROVE  Tells(f)'
<1>1. Busy' <=> Busy
  BY DEF Busy
<1> QED
  BY <1>1 DEF Tells, Like, Edits

\* The line is as it was, and the host is in a frame.
LEMMA ReadOnTells ==
  ASSUME LineInv, LineInv', Telling, Line' = Line, UNCHANGED tx, got' # <<>>
  PROVE  Telling'
<1>1. UNCHANGED <<work, txpc, cur, k>> /\ Len(Line) \in Nat
  BY LineIs DEF tx, LineInv
<1>2. ASSUME NEW f, First(f)' PROVE First(f)
  <2>1. f = 1
    BY <1>2 DEF First
  <2> QED
    BY <1>1, <2>1 DEF First
<1> QED
  BY <1>1, <1>2, SameTells DEF Telling

\* hunt_soh passes a byte over.
LEMMA PassOverTells ==
  ASSUME LineInv, LineInv', Telling, Hunt, Head(up) # "SOH"
  PROVE  Telling'
<1>t. Typed /\ Typed'
  BY DEF LineInv
<1>a. FrameLen \in Nat /\ FrameLen >= 4
  BY FramingAssumption
<1>1. /\ UNCHANGED <<work, txpc, cur, k>> /\ (Busy' <=> Busy)
      /\ got = <<>> /\ got' = <<>> /\ up # <<>> /\ up' = Tail(up) /\ k \in Nat
  BY <1>t DEF Hunt, tx, Busy, Typed
<1>2. /\ Len(Line) \in Nat /\ Len(Line) >= 1 /\ Len(Line') = Len(Line) - 1 /\ Line[1] # "SOH"
      /\ \A i \in 1 .. Len(Line') : Line'[i] = Line[i + 1]
  <2>1. Line = up /\ Line' = Tail(up)
    BY <1>t, <1>1 DEF Line, Typed
  <2> QED
    BY <1>t, <1>1, <2>1 DEF Typed
<1> SUFFICES ASSUME NEW f \in 1 .. Len(Line'), First(f)', Line'[f] = "SOH"
             PROVE  Tells(f)'
  BY DEF Telling
<1>3. PICK h : h = f + 1
  OBVIOUS
<1>4. h \in 2 .. Len(Line) /\ h = f + 1 /\ Line[h] = "SOH" /\ f \in Nat
  BY <1>2, <1>3
<1>5. First(h)
  <2>1. ASSUME NEW i \in 1 .. h - 1 PROVE Line[i] # "SOH"
    <3>1. CASE i = 1
      BY <1>2, <3>1
    <3>2. CASE i > 1
      <4>1. PICK n : n = i - 1
        OBVIOUS
      <4>2. n \in 1 .. f - 1 /\ n \in 1 .. Len(Line') /\ i = n + 1
        BY <1>2, <1>4, <3>2, <4>1
      <4> QED
        BY <1>2, <4>2 DEF First
    <3> QED
      BY <1>4, <3>1, <3>2
  <2> QED
    BY <1>1, <1>2, <1>4, <2>1 DEF First
<1>6. Tells(h)
  BY <1>2, <1>4, <1>5 DEF Telling
<1>7. CASE h < Len(Line) /\ Line[h + 1] # "D"
  <2>1. f < Len(Line') /\ Line'[f + 1] = Line[h + 1]
    BY <1>2, <1>4, <1>7
  <2> QED
    BY <1>7, <2>1 DEF Tells
<1>8. CASE \E i \in h + 1 .. Len(Line) : i < h + FrameLen /\ Line[i] = "SOH"
  <2>1. PICK i \in h + 1 .. Len(Line) : i < h + FrameLen /\ Line[i] = "SOH"
    BY <1>8
  <2>2. PICK n : n = i - 1
    OBVIOUS
  <2>3. n \in f + 1 .. Len(Line') /\ n < f + FrameLen /\ i = n + 1 /\ n \in 1 .. Len(Line')
    BY <1>a, <1>2, <1>4, <2>1, <2>2
  <2>4. Line'[n] = "SOH"
    BY <1>2, <2>1, <2>3
  <2> QED
    BY <2>3, <2>4 DEF Tells
<1>9. CASE (~Busy \/ txpc = "wait") /\ Len(Line) < h - 1 + FrameLen
  <2>1. Len(Line') < f - 1 + FrameLen
    BY <1>a, <1>2, <1>4, <1>9
  <2> QED
    BY <1>1, <1>9, <2>1 DEF Tells
<1>10. CASE Busy /\ Len(Line) = h - 2 + k
  <2>1. Len(Line') = f - 2 + k'
    BY <1>1, <1>2, <1>4, <1>10
  <2> QED
    BY <1>1, <1>10, <2>1 DEF Tells
<1>11. CASE Busy /\ \E d \in {0, 1} : \E e \in Edits(work[cur]) : Like(h, e, d)
  <2>1. PICK d \in {0, 1}, e \in Edits(work[cur]) : Like(h, e, d)
    BY <1>11
  <2>2. Len(Line') = f - 1 + k' + d
    BY <1>1, <1>2, <1>4, <2>1 DEF Like
  <2>3. ASSUME NEW i \in 1 .. FrameLen
        PROVE  IF f - 1 + i <= Len(Line') THEN Line'[f - 1 + i] = e[i] ELSE e[i] = work'[cur'][i - d]
    <3>1. CASE f - 1 + i <= Len(Line')
      <4>1. h - 1 + i <= Len(Line) /\ f - 1 + i \in 1 .. Len(Line') /\ h - 1 + i = f - 1 + i + 1
        BY <1>2, <1>4, <3>1
      <4>2. Line[h - 1 + i] = e[i]
        BY <2>1, <4>1 DEF Like
      <4>3. Line'[f - 1 + i] = Line[f - 1 + i + 1]
        BY <1>2, <4>1
      <4> QED
        BY <3>1, <4>1, <4>2, <4>3
    <3>2. CASE ~(f - 1 + i <= Len(Line'))
      <4>1. ~(h - 1 + i <= Len(Line))
        BY <1>2, <1>4, <3>2
      <4> QED
        BY <1>1, <2>1, <3>2, <4>1 DEF Like
    <3> QED
      BY <3>1, <3>2
  <2>4. Like(f, e, d)'
    BY <2>2, <2>3 DEF Like
  <2>5. e \in Edits(work[cur])'
    BY <1>1, <2>1 DEF Edits
  <2> QED
    BY <1>1, <1>11, <2>1, <2>4, <2>5 DEF Tells
<1> QED
  BY <1>6, <1>7, <1>8, <1>9, <1>10, <1>11 DEF Tells

LEMMA HuntTells ==
  ASSUME LineInv, LineInv', Telling, Hunt
  PROVE  Telling'
<1>t. Typed
  BY DEF LineInv
<1>1. CASE Head(up) # "SOH"
  BY <1>1, PassOverTells
<1>2. CASE Head(up) = "SOH"
  <2>1. up = <<Head(up)>> \o Tail(up) /\ Tail(up) \in Seq(STRING) /\ Len(up) >= 1 /\ up[1] = "SOH"
    BY <1>t, <1>2 DEF Hunt, Typed
  <2>2. Line = up
    BY <1>t DEF Hunt, Line, Typed
  <2>3. Line' = <<"SOH">> \o Tail(up)
    BY <1>2 DEF Hunt, Line
  <2>4. Line' = Line
    BY <1>2, <2>1, <2>2, <2>3
  <2>5. got' # <<>> /\ UNCHANGED tx
    BY <1>2 DEF Hunt
  <2> QED
    BY <2>4, <2>5, ReadOnTells
<1> QED
  BY <1>1, <1>2

LEMMA EditShape ==
  ASSUME NEW w \in Seq(STRING), Len(w) = FrameLen, NEW e \in Edits(w)
  PROVE  e = [n \in 1 .. FrameLen |-> e[n]]
<1>1. w = [n \in 1 .. FrameLen |-> w[n]]
  OBVIOUS
<1>2. CASE e = w
  BY <1>1, <1>2
<1>3. CASE e \in {[n \in 1 .. FrameLen |-> IF n = p THEN j ELSE w[n]] :
                   p \in 1 .. FrameLen, j \in Junk}
  BY <1>3
<1>4. CASE e \in {[n \in 1 .. FrameLen |-> IF n < p THEN w[n] ELSE IF n = p THEN j ELSE w[n - 1]] :
                   p \in 1 .. FrameLen + 1, j \in Junk}
  BY <1>4
<1> QED
  BY <1>2, <1>3, <1>4 DEF Edits

\* A frame that passes its CRC is the one the sender waits for an answer to.
LEMMA SoundIsCurrent ==
  ASSUME LineInv, PlainData, EditsCaught, Telling, got # <<>>, up # <<>>,
         NEW l \in DOMAIN work, work[l] = Append(got, Head(up))
  PROVE  work[l] = work[cur]
<1> DEFINE g == Append(got, Head(up))
<1>t. Typed
  BY DEF LineInv
<1>a. FrameLen \in Nat /\ FrameLen >= 4
  BY FramingAssumption
<1>w. work \in Works /\ cur \in DOMAIN work /\ work[cur] \in Seq(STRING) /\ Len(work[cur]) = FrameLen
  BY <1>t, FrameIs DEF Typed
<1>1. /\ got \in Seq(STRING) /\ up \in Seq(STRING) /\ got[1] = "SOH"
      /\ Len(got) \in Nat /\ Len(got) >= 1 /\ Len(up) \in Nat /\ Len(up) >= 1
      /\ Head(up) = up[1] /\ up[1] \in STRING
  BY <1>t DEF Typed
<1>2. g \in Seq(STRING) /\ Len(g) = Len(got) + 1
  BY <1>1
<1>3. /\ Len(Line) = Len(got) + Len(up)
      /\ \A i \in 1 .. Len(got) : Line[i] = got[i]
      /\ \A i \in 1 .. Len(up) : Line[Len(got) + i] = up[i]
  BY <1>t, LineIs
<1>4. \A i \in 1 .. Len(g) : Line[i] = g[i]
  <2>1. ASSUME NEW i \in 1 .. Len(got) PROVE Line[i] = g[i]
    BY <1>1, <1>3
  <2>2. Line[Len(got) + 1] = g[Len(got) + 1]
    <3>1. Line[Len(got) + 1] = up[1]
      BY <1>1, <1>3
    <3>2. g[Len(got) + 1] = Head(up)
      BY <1>1
    <3> QED
      BY <1>1, <3>1, <3>2
  <2> HIDE DEF g
  <2>3. ASSUME NEW i \in 1 .. Len(g) PROVE i \in 1 .. Len(got) \/ i = Len(got) + 1
    BY <1>1, <1>2
  <2> QED
    BY <2>1, <2>2, <2>3
<1>5. work[l] = g
  OBVIOUS
<1> HIDE DEF g
<1>6. Len(g) = FrameLen /\ g[2] = "D" /\ \A n \in 2 .. FrameLen : g[n] # "SOH"
  <2>1. Len(work[l]) = FrameLen /\ work[l][2] = "D"
    BY <1>w, FramingAssumption
  <2>2. \A n \in 2 .. FrameLen : work[l][n] # "SOH"
    BY <1>w DEF PlainData
  <2> QED
    BY <1>5, <2>1, <2>2
<1>7. Len(Line) \in Nat /\ Len(Line) >= FrameLen
  BY <1>1, <1>2, <1>3, <1>6
<1>8. Tells(1)
  <2>1. First(1) /\ Line[1] = "SOH" /\ 1 \in 1 .. Len(Line)
    BY <1>a, <1>1, <1>3, <1>7 DEF First
  <2> QED
    BY <2>1 DEF Telling
<1>9. ~(1 < Len(Line) /\ Line[1 + 1] # "D")
  BY <1>a, <1>4, <1>6
<1>10. ~\E i \in 1 + 1 .. Len(Line) : i < 1 + FrameLen /\ Line[i] = "SOH"
  BY <1>a, <1>4, <1>6, <1>7
<1>11. ~(Len(Line) < 1 - 1 + FrameLen)
  BY <1>a, <1>7
<1>12. ~(Len(Line) = 1 - 2 + k)
  BY <1>t, <1>a, <1>7 DEF Typed
<1>13. PICK d \in {0, 1}, e \in Edits(work[cur]) : Like(1, e, d)
  BY <1>8, <1>9, <1>10, <1>11, <1>12 DEF Tells
<1>14. \A i \in 1 .. FrameLen : g[i] = e[i]
  <2> SUFFICES ASSUME NEW i \in 1 .. FrameLen PROVE g[i] = e[i]
    OBVIOUS
  <2>1. 1 - 1 + i = i /\ i <= Len(Line) /\ i \in 1 .. Len(g)
    BY <1>a, <1>6, <1>7
  <2>2. Line[i] = e[i]
    BY <1>13, <2>1 DEF Like
  <2> QED
    BY <1>4, <2>1, <2>2
<1>15. g = e
  <2>1. e = [n \in 1 .. FrameLen |-> e[n]]
    BY <1>w, <1>13, EditShape
  <2>2. g = [n \in 1 .. FrameLen |-> g[n]]
    BY <1>2, <1>6
  <2>3. [n \in 1 .. FrameLen |-> g[n]] = [n \in 1 .. FrameLen |-> e[n]]
    BY <1>14
  <2> QED
    BY <2>1, <2>2, <2>3, Zenon
<1>16. work[l] \in Edits(work[cur])
  BY <1>5, <1>13, <1>15
<1> QED
  BY <1>w, <1>16 DEF EditsCaught

LEMMA TakeTells ==
  ASSUME LineInv, LineInv', Telling, Take
  PROVE  Telling'
<1>t. Typed /\ Typed'
  BY DEF LineInv
<1>1. CASE got' = <<>>
  <2>1. down' = Append(down, "ACK") \/ down' = Append(down, "NAK")
    <3>1. got \in Seq(STRING) /\ Head(up) \in STRING
      <4>1. got \in Seq(STRING) /\ up \in Seq(STRING) /\ up # <<>>
        BY <1>t DEF Take, Typed
      <4> QED
        BY <4>1, HeadTailProperties, Zenon
    <3>2. Append(got, Head(up)) # <<>>
      <4>1. Len(Append(got, Head(up))) = Len(got) + 1 /\ Len(got) \in Nat
        BY <3>1
      <4> QED
        BY <4>1
    <3> QED
      BY <1>1, <3>2 DEF Take, Heard
  <2>2. down \in {<<>>, <<"ACK">>, <<"NAK">>}
    BY OneReply
  <2>3. down' # <<>>
    BY <2>1, <2>2
  <2>4. Replied' \/ TailAcked'
    BY <2>3 DEF LineInv, Shape, Clean, Mute, Crooked, Trailing, Stuck
  <2> QED
    BY <1>t, <2>4, AnsweredTells
<1>2. CASE got' # <<>>
  <2>1. got' = Append(got, Head(up)) /\ up' = Tail(up) /\ UNCHANGED tx
    BY <1>2 DEF Take, Heard
  <2>2. Append(got, Head(up)) \o Tail(up) = got \o up
    <3>1. got \in Seq(STRING) /\ up \in Seq(STRING) /\ up # <<>>
      BY <1>t DEF Take, Typed
    <3> QED
      BY <3>1, SMTT(30)
  <2>3. Line' = Line
    BY <2>1, <2>2 DEF Line
  <2> QED
    BY <1>2, <2>1, <2>3, ReadOnTells
<1> QED
  BY <1>1, <1>2

LEMMA TakeStores ==
  ASSUME LineInv, LineInv', PlainData, EditsCaught, Telling, AckStored,
         stored \subseteq DOMAIN work, Take
  PROVE  /\ stored \subseteq stored' /\ stored' \subseteq DOMAIN work' /\ AckStored'
         /\ UNCHANGED <<work, txpc, cur>>
<1> DEFINE g == Append(got, Head(up))
           sectors == {i \in DOMAIN work : work[i] = g}
<1>t. Typed
  BY DEF LineInv
<1>1. UNCHANGED <<work, txpc, cur>> /\ got # <<>> /\ up # <<>>
  BY DEF Take, tx
<1>2. CASE UNCHANGED <<down, stored>>
  BY <1>1, <1>2 DEF AckStored
<1>3. CASE /\ stored' = stored \cup sectors
           /\ \/ sectors # {} /\ down' = Append(down, "ACK")
              \/ sectors = {} /\ down' = Append(down, "NAK")
  <2>1. down \in {<<>>, <<"ACK">>, <<"NAK">>} /\ down' \in {<<>>, <<"ACK">>, <<"NAK">>}
    BY OneReply DEF LineInv, Shape, Clean, Replied, Mute, Crooked, Trailing, TailAcked, Stuck
  <2>2. down = <<>>
    BY <1>3, <2>1
  <2>3. CASE sectors # {}
    <3>1. PICK l \in DOMAIN work : work[l] = g
      BY <2>3
    <3>2. work[cur] = g
      BY <1>1, <3>1, SoundIsCurrent
    <3>3. cur \in DOMAIN work
      BY <1>t, FrameIs
    <3> QED
      BY <1>1, <1>3, <3>2, <3>3 DEF AckStored
  <2>4. CASE sectors = {}
    <3>1. down' = <<"NAK">>
      BY <1>3, <2>2, <2>4
    <3> QED
      BY <1>1, <1>3, <3>1 DEF AckStored
  <2> QED
    BY <2>3, <2>4
<1> QED
  BY <1>2, <1>3 DEF Take, Heard

\* What send_data goes past is stored, and when the sender is done everything is: the
\* ACK it goes on with is the answer to this frame and says that these bytes were
\* read, whichever byte of a frame was lost, changed or invented, as long as the host
\* takes no frame for an INFO: a byte of its CMD may be an ACK.  EditsCaught is what
\* the CRC has to do for it.
THEOREM WhatIsPassedIsStored ==
  ASSUME PlainData, EditsCaught, MaxFaults <= 1
  PROVE  Spec => [](commanded \/ PassedStored)
<1>1. Init => (~commanded => StoreInv)
  <2> SUFFICES ASSUME Init PROVE StoreInv
    OBVIOUS
  <2>1. Line = <<>>
    BY DEF Init, Line
  <2> QED
    BY <2>1 DEF Init, StoreInv, Telling, AckStored
<1>2. /\ Uncommanded /\ Uncommanded' /\ [Next]_vars /\ (~commanded => StoreInv)
      => (~commanded => StoreInv)'
  <2> SUFFICES ASSUME LineInv, LineInv', StoreInv, [Next]_vars, ~commanded' PROVE StoreInv'
    BY CommandedStays DEF Uncommanded
  <2>n. ~Command /\ ~Overrun
    BY OneReply DEF Command
  <2>t. cur \in 1 .. Len(work) /\ work \in Seq(Seq(STRING))
    BY FramingAssumption DEF LineInv, Typed
  <2>1. Telling'
    <3>1. CASE Next
      BY <2>n, <3>1, SendTells, DamageTells, NoiseTells, ReplyTells, QuietTells, HuntTells,
         TakeTells DEF Next, Progress, StoreInv
    <3>2. CASE UNCHANGED vars
      <4>1. UNCHANGED <<work, txpc, cur, k, up, got>> /\ Line' = Line
        BY <3>2 DEF vars, tx, Line
      <4>2. ASSUME NEW f, First(f)' PROVE First(f)
        BY <4>1, <4>2 DEF First
      <4> QED
        BY <4>1, <4>2, SameTells DEF StoreInv, Telling
    <3> QED
      BY <3>1, <3>2
  <2>2. CASE Reply
    <3>1. UNCHANGED <<work, stored>> /\ down # <<>> /\ down' = Tail(down)
      BY <2>2 DEF Reply, Retry
    <3>2. down \in {<<>>, <<"ACK">>, <<"NAK">>}
      BY OneReply
    <3>3. down' = <<>>
      BY <3>1, <3>2
    <3>4. CASE Head(down) = "ACK"
      <4>1. cur \in stored
        BY <3>1, <3>4 DEF StoreInv, AckStored
      <4>2. CASE cur < Len(work)
        BY <2>1, <2>2, <2>t, <3>1, <3>3, <3>4, <4>1, <4>2 DEF Reply, StoreInv, AckStored
      <4>3. CASE ~(cur < Len(work))
        BY <2>1, <2>2, <2>t, <3>1, <3>3, <3>4, <4>1, <4>3 DEF Reply, StoreInv, AckStored
      <4> QED
        BY <4>2, <4>3
    <3>5. CASE Head(down) # "ACK"
      BY <2>1, <2>2, <3>1, <3>3, <3>5 DEF Reply, Retry, StoreInv, AckStored
    <3> QED
      BY <3>4, <3>5
  <2>3. CASE Take
    BY <2>1, <2>3, TakeStores DEF StoreInv, AckStored
  <2>4. CASE UNCHANGED <<work, cur, down, stored>> /\ txpc' # "done"
    BY <2>1, <2>4 DEF StoreInv, AckStored
  <2>5. CASE UNCHANGED <<work, cur, down, stored, txpc>>
    BY <2>1, <2>5 DEF StoreInv, AckStored
  <2>6. SendByte \/ SendDamaged => UNCHANGED <<work, cur, down, stored>> /\ txpc' # "done"
    BY DEF SendByte, SendDamaged, Put
  <2>7. ReadSector \/ Timeout => UNCHANGED <<work, cur, down, stored>> /\ txpc' # "done"
    BY DEF ReadSector, Timeout, Retry
  <2>8. Noise \/ Hunt \/ HostTimeout \/ UNCHANGED vars => UNCHANGED <<work, cur, down, stored, txpc>>
    BY DEF Noise, Hunt, HostTimeout, tx, vars
  <2> QED
    BY <2>n, <2>2, <2>3, <2>4, <2>5, <2>6, <2>7, <2>8 DEF Next, Progress
<1>3. Uncommanded /\ (~commanded => StoreInv) => commanded \/ PassedStored
  <2> SUFFICES ASSUME LineInv, StoreInv PROVE PassedStored
    BY DEF Uncommanded
  <2>1. DOMAIN work = 1 .. Len(work) /\ Len(work) \in Nat
    BY FramingAssumption DEF LineInv, Typed
  <2>2. ASSUME txpc = "done" PROVE stored = DOMAIN work
    <3>1. ASSUME NEW i \in DOMAIN work PROVE i \in stored
      BY <2>1, <2>2 DEF StoreInv
    <3> QED
      BY <3>1 DEF StoreInv
  <2> QED
    BY <2>2 DEF StoreInv, PassedStored
<1> QED
  BY <1>1, <1>2, <1>3, LineInvariant, PTL DEF Spec
=============================================================================
