----------------------------- MODULE MCSelfTest -----------------------------
(* SelfTest for TLC: lists of up to three of the sectors 0, 1 and 6, whose  *)
(* numbers are the bytes SOH and ACK as well; frames that hold SOH and, as  *)
(* it may mislead each harness, the type of a DATA frame or ACK.            *)
EXTENDS SelfTest

AllLists == UNION {[1 .. n -> {0, 1, 6}] : n \in 0 .. 3}
AnyBads == SUBSET {0, 1, 6}
Payloads == [t \in {"read", "write"} |-> IF t = "read" THEN {SOH, TypeD} ELSE {SOH, ACK}]
=============================================================================
