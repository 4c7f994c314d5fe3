---------------------------- MODULE MCPageRead ----------------------------
(***************************************************************************)
(* Small instances of PageRead for TLC: months of two days, so that day 4  *)
(* is compared with day 2 and its month starts on day 3.                   *)
(***************************************************************************)
EXTENDS PageRead

TwoDayMonths == [d \in Days |-> d - ((d + 1) % 2)]

MonthBefore == [d \in Days |-> {d - 2, d} \cap Days]

=============================================================================
