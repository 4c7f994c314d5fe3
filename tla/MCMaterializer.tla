--------------------------- MODULE MCMaterializer ---------------------------
(***************************************************************************)
(* Small instances of Materializer for TLC: months of two days, from an    *)
(* even one on, so that the last of MaxDay = 4 is cut off by the bound.    *)
(***************************************************************************)
EXTENDS Materializer, TLC

TwoDayMonths == [d \in Days |-> d + ((d + 1) % 2)]

SchedulerSymmetry == Permutations(Schedulers)

=============================================================================
