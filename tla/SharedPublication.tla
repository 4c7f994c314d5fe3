------------------------- MODULE SharedPublication -------------------------
(***************************************************************************)
(* What the realtime store promises a reader when several processes        *)
(* publish: each generation is published once, together with the           *)
(* aggregates of its date, and the visible one never gets older.  Later    *)
(* generations may be overtaken, so that, unlike in Publication, the       *)
(* aggregates of a date may come from an older generation than the visible *)
(* one, and dates may go back.                                             *)
(***************************************************************************)
EXTENDS Integers

CONSTANTS Dates, MaxId

VARIABLES latest,  \* the generation Store.Latest returns, 0 if none
          agg,     \* the generation behind the aggregates of each date
          open     \* the generations that may still be published

Init == latest = 0 /\ agg = [d \in Dates |-> 0] /\ open = 1..MaxId

Publish(i, d) ==
  /\ latest' = IF i > latest THEN i ELSE latest
  /\ agg' = [agg EXCEPT ![d] = i]
  /\ open' = open \ {i}

\* Generations that fail, or are abandoned, are never published.
GiveUp(gone) ==
  /\ open' = open \ gone
  /\ UNCHANGED <<latest, agg>>

Next ==
  \/ \E i \in open, d \in Dates : Publish(i, d)
  \/ \E gone \in SUBSET open : GiveUp(gone)

Spec == Init /\ [][Next]_<<latest, agg, open>>

=============================================================================
