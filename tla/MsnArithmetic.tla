--------------------------- MODULE MsnArithmetic ---------------------------
(***************************************************************************)
(* Message sequence numbers (MSNs).  A session numbers the requests it     *)
(* sends with an unsigned counter that wraps around, and the nodes on the  *)
(* path compare two numbers with the serial-number order of RFC 1982.      *)
(***************************************************************************)
EXTENDS Integers

CONSTANT LIMIT  \* half the number of MSNs; 2147483648 in is_greater_than()

ASSUME LimitAssumption == LIMIT \in Nat /\ LIMIT >= 2

MsnMod == 2 * LIMIT          \* uint32 wraps at 2^32

Msns == 0 .. (MsnMod - 1)

NextMsnUnbounded(msn) == msn + 1

(***************************************************************************)
(* session::next_msg_sequence_number(): ++msn on an unsigned integer.      *)
(***************************************************************************)
NextMsn(msn) == (msn + 1) % MsnMod

(***************************************************************************)
(* is_greater_than(s1, s2).  Both operands are unsigned, and a difference  *)
(* is only taken where it is positive, so no subtraction wraps.  Two       *)
(* numbers exactly LIMIT apart are not comparable.                         *)
(***************************************************************************)
IsGreaterThan(s1, s2) ==
    /\ s1 # s2
    /\ \/ s1 < s2 /\ s2 - s1 > LIMIT
       \/ s1 > s2 /\ s1 - s2 < LIMIT

============================================================================
