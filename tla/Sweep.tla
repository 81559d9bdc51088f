------------------------------- MODULE Sweep -------------------------------
(***************************************************************************)
(* What the disk code of tx.S and wr.S promises about one range of its     *)
(* worklist: every sector of [start, end) is addressed in order, tried     *)
(* until it succeeds and at most Tries times.                              *)
(***************************************************************************)
EXTENDS Integers

CONSTANT Tries \* READ_TRIES

VARIABLES start, end, \* the range
          last,       \* the last attempt: sector, number of the try, outcome
          up          \* the drive has answered

vars == <<start, end, last, up>>

Fresh == [lba |-> start - 1, try |-> Tries, ok |-> FALSE]

Init == start \in Nat /\ end \in Nat /\ last = Fresh /\ up = TRUE

Attempt ==
  LET again == ~last.ok /\ last.try < Tries
      lba == IF again THEN last.lba ELSE last.lba + 1
  IN /\ up /\ lba < end
     /\ \E ok \in BOOLEAN :
          last' = [lba |-> lba, try |-> IF again THEN last.try + 1 ELSE 1, ok |-> ok]
     /\ UNCHANGED <<start, end, up>>

\* get_geom fails before anything is read.
NoDrive == last = Fresh /\ up' = FALSE /\ UNCHANGED <<start, end, last>>

Spec == Init /\ [][Attempt \/ NoDrive]_vars /\ WF_vars(Attempt)
=============================================================================
