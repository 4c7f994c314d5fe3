----------------------------- MODULE MCSessions -----------------------------
(***************************************************************************)
(* A small instance of Sessions for TLC.                                   *)
(***************************************************************************)
EXTENDS Sessions, TLC

CONSTANTS r1, r2, t1, t2

U(n, ro, b, a) == [name |-> n, role |-> ro, branch |-> b, active |-> a]

\* The readers are one request, the writers another.
MCKinds == (r1 :> Asking) @@ (r2 :> {"login", "post", "save"})

MCSeedFile == <<[name |-> "u", branch |-> "b1", password |-> "p"]>>

\* Deactivate the user, move to another branch, make an administrator; create the
\* account that the file names.
MCForms ==
  {[id |-> 2, user |-> U("u", "USER", "b1", FALSE), password |-> ""],
   [id |-> 2, user |-> U("u", "USER", "b2", TRUE), password |-> ""],
   [id |-> 2, user |-> U("u", "ADMIN", "", TRUE), password |-> "p"],
   [id |-> 0, user |-> U("u", "USER", "b1", TRUE), password |-> "p"]}

\* Terminals are alike.
TerminalSymmetry == Permutations(Terminals)

=============================================================================
