---------------------------- MODULE Publication ----------------------------
(***************************************************************************)
(* What the realtime store promises a reader: there is one visible         *)
(* generation, a newer one, of the same or a later date, replaces it        *)
(* together with the aggregates of its date in one step, and nothing else  *)
(* ever changes either.                                                    *)
(***************************************************************************)
EXTENDS Integers

CONSTANTS Dates, MaxId

VARIABLES latest,  \* the generation Store.Latest returns, 0 if none
          agg      \* the generation behind the aggregates of each date

Init == latest = 0 /\ agg = [d \in Dates |-> 0]

Publish(i, d) ==
  /\ i > latest
  /\ \A x \in Dates : agg[x] # 0 => x <= d
  /\ latest' = i
  /\ agg' = [agg EXCEPT ![d] = i]

Next == \E i \in 1..MaxId, d \in Dates : Publish(i, d)

Spec == Init /\ [][Next]_<<latest, agg>>

=============================================================================
