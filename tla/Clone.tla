------------------------------- MODULE Clone -------------------------------
(***************************************************************************)
(* What a restore promises about the two things that outlive it, the drive *)
(* it writes to and the report the host prints.  There is no serial line   *)
(* here: one of the worklists that can be asked for is walked in order,    *)
(* each place of it once.  At a place the sector is written with its own   *)
(* contents and counted as good, or left as it was and counted as bad, in  *)
(* one step.  The walk ends when nothing is left of it, or is stopped; the *)
(* report is made after that, once, and has the final counts.              *)
(***************************************************************************)
EXTENDS Ranges

CONSTANTS Asked,       \* worklists that can be asked for
          Content(_),  \* what a sector is to be written with
          Old          \* contents of the drive before

VARIABLES phase,     \* "idle", "walk", "over" or "told"
          left,      \* places of the worklist still to come
          stopped,   \* the walk was stopped
          drive, good, bad, report

vars == <<phase, left, stopped, drive, good, bad, report>>

\* A place is the number of a range and a sector of it: a sector that two ranges
\* share has two places.
Places(w) == {p \in (DOMAIN w) \X Sectors : p[2] \in Members(w[p[1]])}

Sooner(p, q) == p[1] < q[1] \/ (p[1] = q[1] /\ p[2] < q[2])

Init ==
  /\ phase = "idle" /\ left = {} /\ stopped = FALSE
  /\ drive = [l \in Sectors |-> Old] /\ good = 0 /\ bad = 0
  /\ report = [good |-> 0, bad |-> 0]

Begin ==
  /\ phase = "idle" /\ phase' = "walk"
  /\ \E w \in Asked : left' = Places(w)
  /\ good' = 0 /\ bad' = 0
  /\ UNCHANGED <<stopped, drive, report>>

\* The next place of the worklist: written, or tried without success.
Handle ==
  /\ phase = "walk"
  /\ \E p \in left :
       /\ \A q \in left \ {p} : Sooner(p, q)
       /\ left' = left \ {p}
       /\ \/ /\ drive' = [drive EXCEPT ![p[2]] = Content(p[2])]
             /\ good' = good + 1 /\ bad' = bad
          \/ drive' = drive /\ good' = good /\ bad' = bad + 1
  /\ UNCHANGED <<phase, stopped, report>>

\* The walk is complete, or is stopped with something left.
End ==
  /\ phase = "walk" /\ phase' = "over"
  /\ \/ left = {} /\ stopped' = FALSE
     \/ left # {} /\ stopped' = TRUE
  /\ UNCHANGED <<left, drive, good, bad, report>>

\* Nothing is ever written.
CallOff ==
  /\ phase = "idle" /\ phase' = "over"
  /\ UNCHANGED <<left, stopped, drive, good, bad, report>>

MakeReport ==
  /\ phase = "over" /\ phase' = "told"
  /\ report' = [good |-> good, bad |-> bad]
  /\ UNCHANGED <<left, stopped, drive, good, bad>>

Next == Begin \/ Handle \/ End \/ CallOff \/ MakeReport

Spec == Init /\ [][Next]_vars
=============================================================================
