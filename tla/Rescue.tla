------------------------------- MODULE Rescue -------------------------------
(***************************************************************************)
(* What a capture pass promises about the two things that outlive it, the  *)
(* image and the status map.  There is no serial line here: a pass opens   *)
(* an image, stores sectors of its worklist one at a time and ends.  A     *)
(* sector is stored either with the drive's contents and marked GOOD, or   *)
(* as a stub and marked BAD, in one step; nothing else ever changes.       *)
(***************************************************************************)
EXTENDS Ranges

CONSTANTS Hole, Fill

VARIABLES phase, work, image, statusmap

vars == <<phase, work, image, statusmap>>

\* What the image holds at a sector of a given mark.
Truth(l, mark) ==
  CASE mark = "GOOD" -> l [] mark = "BAD" -> Fill [] mark = "UNTRIED" -> Hole

Init ==
  /\ phase = "before" /\ work = <<>>
  /\ statusmap \in [Sectors -> Marks]
  /\ image = [l \in Sectors |-> Truth(l, statusmap[l])]

\* A pass starts over, keeps image and map, or keeps an image without a map.
Open ==
  /\ image' \in {image, [l \in Sectors |-> Hole]}
  /\ \/ image' = image /\ statusmap' = statusmap
     \/ statusmap' = [l \in Sectors |-> "UNTRIED"]

Begin ==
  /\ phase = "before" /\ phase' = "pass"
  /\ Open
  /\ work' \in Worklist

Store ==
  /\ phase = "pass"
  /\ \E l \in Covered(work), mark \in {"GOOD", "BAD"} :
       /\ image' = [image EXCEPT ![l] = Truth(l, mark)]
       /\ statusmap' = [statusmap EXCEPT ![l] = mark]
  /\ UNCHANGED <<phase, work>>

End ==
  /\ phase = "pass" /\ phase' = "over"
  /\ UNCHANGED <<work, image, statusmap>>

\* The pass is called off before it begins, or as it opens the image.
CallOff ==
  /\ phase = "before" /\ phase' = "over"
  /\ \/ UNCHANGED <<image, statusmap>>
     \/ Open
  /\ UNCHANGED work

Next == Begin \/ Store \/ End \/ CallOff

Spec == Init /\ [][Next]_vars
=============================================================================
