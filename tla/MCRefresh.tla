----------------------------- MODULE MCRefresh -----------------------------
(***************************************************************************)
(* Small instances of Refresh for TLC.                                     *)
(***************************************************************************)
EXTENDS Refresh, TLC

CONSTANTS j1, j2, h1, h2

\* One process whose two jobs compete for its flag; two processes of one job.
OneHost  == [j \in Jobs |-> h1]
TwoHosts == [j \in Jobs |-> IF j = j1 THEN h1 ELSE h2]

\* Two ticks a day.
MCDateOf == [t \in 0..MaxClock |-> t \div Day]

MCDates == {t \div Day : t \in 0..MaxClock}

JobSymmetry == Permutations(Jobs)

=============================================================================
