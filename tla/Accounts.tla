------------------------------ MODULE Accounts ------------------------------
(***************************************************************************)
(* The accounts of the dashboard: table bm_users (internal/service/users/  *)
(* store.go) and the two commands that fill it, bootstrap-admin and        *)
(* seed-users (seed.go), run at terminals beside the serving process.      *)
(*                                                                         *)
(* An account is a row; rows are never deleted, so row i has id i.  A      *)
(* username stands for all spellings the database holds equal, a password  *)
(* for its bcrypt hash; names and positions of people are left out.        *)
(***************************************************************************)
EXTENDS Integers, Sequences

CONSTANTS Names,      \* usernames
          Branches,   \* branch codes other than "ALL"
          Passwords,  \* passwords of 8 to 72 bytes
          MaxRows,    \* bound on accounts
          Terminals,  \* where commands are run
          AdminName,  \* BM_ADMIN_USERNAME
          SeedFile    \* the rows of the CSV file: username, branch, password

Roles == {"ADMIN", "USER"}
NoBranch == ""
NoPassword == ""

\* What a form or a CSV row says of a user.
User == [name : Names, role : Roles, branch : Branches \cup {NoBranch},
         active : BOOLEAN]
Account == [user : User, password : Passwords]

ASSUME AccountsAssumption ==
  /\ MaxRows \in Nat
  /\ AdminName \in Names
  /\ NoBranch \notin Branches /\ NoPassword \notin Passwords
  /\ SeedFile \in Seq([name : Names, branch : Branches \cup {NoBranch},
                       password : Passwords \cup {NoPassword}])

VARIABLES rows,   \* bm_users
          cmd     \* the command running at each terminal

Ids == 1..MaxRows
NoCommand == [pc |-> "none", line |-> 0]
Command == [pc : {"none", "insertAdmin", "row", "insertRow"},
            line : 0..Len(SeedFile)]

AccountsInit ==
  /\ rows = <<>>
  /\ cmd = [t \in Terminals |-> NoCommand]

-----------------------------------------------------------------------------
(* The store. *)

Admin(i) == rows[i].user.role = "ADMIN"

\* An administrator sees all branches, a user the one of the account.
BranchOf(user) == IF user.role = "ADMIN" THEN "ALL" ELSE user.branch

Valid(user, password, creating) ==
  /\ user.role = "USER" => user.branch \in Branches
  /\ creating => password # NoPassword

\* The unique key of usernames refuses the row with this id (0: a new one).
Taken(id, name) == \E i \in DOMAIN rows : i # id /\ rows[i].user.name = name

\* Save(u, password) with u.ID = 0.
Insert(user, password) ==
  /\ Valid(user, password, TRUE)
  /\ ~Taken(0, user.name)
  /\ Len(rows) < MaxRows
  /\ rows' = Append(rows, [user |-> user, password |-> password])

\* MySQL counts the rows that changed: an update that restates the row counts
\* none. A new password is a new hash.
Restates(id, user, password) ==
  password = NoPassword /\ rows[id].user = user

\* Mutant of Update: the password is written even when none is given.
UpdateAll(id, user, password) ==
  /\ Valid(user, password, FALSE)
  /\ ~Taken(id, user.name)
  /\ rows' = [rows EXCEPT ![id] = [user |-> user, password |-> password]]

\* Save(u, password) with u.ID = id: every field of the form is written, the
\* password only when it is given.
Update(id, user, password) ==
  /\ Valid(user, password, FALSE)
  /\ ~Taken(id, user.name)
  /\ ~Restates(id, user, password)
  /\ rows' = [rows EXCEPT ![id] =
       [user |-> user,
        password |-> IF password = NoPassword THEN @.password ELSE password]]

\* Save refuses or fails, and nothing is written.
Refused(id, user, password) ==
  \/ ~Valid(user, password, id = 0)
  \/ Taken(id, user.name)
  \/ id # 0 /\ Restates(id, user, password)

-----------------------------------------------------------------------------
(* bootstrap-admin. *)

FirstAdmin == [name |-> AdminName, role |-> "ADMIN", branch |-> NoBranch,
               active |-> TRUE]

\* An administrator, active or not, ends the command.
CountAdmins(t) ==
  /\ cmd[t].pc = "none"
  /\ \A i \in DOMAIN rows : ~Admin(i)
  /\ cmd' = [cmd EXCEPT ![t].pc = "insertAdmin"]
  /\ UNCHANGED rows

InsertAdmin(t, password) ==
  /\ cmd[t].pc = "insertAdmin"
  /\ cmd' = [cmd EXCEPT ![t] = NoCommand]
  /\ Insert(FirstAdmin, password)

-----------------------------------------------------------------------------
(* seed-users. *)

SeedUser(line) == [name |-> SeedFile[line].name, role |-> "USER",
                   branch |-> SeedFile[line].branch, active |-> TRUE]
SeedValid(line) == Valid(SeedUser(line), SeedFile[line].password, TRUE)

\* The row that the command at t works on; a command begins with the first.
Line(t) == cmd[t].line + 1
AtRow(t) ==
  /\ cmd[t].pc \in {"none", "row"} /\ Line(t) \in DOMAIN SeedFile
  /\ SeedValid(Line(t))

\* After the last row the command ends.
NextLine(t) ==
  cmd' = [cmd EXCEPT ![t] = IF Line(t) = Len(SeedFile) THEN NoCommand
                            ELSE [pc |-> "row", line |-> Line(t)]]

\* ByUsername finds an account: the row is skipped.
SeedSkip(t) ==
  /\ AtRow(t) /\ Taken(0, SeedFile[Line(t)].name)
  /\ NextLine(t)
  /\ UNCHANGED rows

\* ByUsername finds none.
SeedMiss(t) ==
  /\ AtRow(t) /\ ~Taken(0, SeedFile[Line(t)].name)
  /\ cmd' = [cmd EXCEPT ![t].pc = "insertRow"]
  /\ UNCHANGED rows

\* Mutant of SeedInsert: what was absent a moment ago is inserted unchecked.
SeedInsertUnchecked(t) ==
  /\ cmd[t].pc = "insertRow"
  /\ Len(rows) < MaxRows
  /\ rows' = Append(rows, [user |-> SeedUser(Line(t)),
                           password |-> SeedFile[Line(t)].password])
  /\ NextLine(t)

\* Mutant of SeedInsert: an account created meanwhile is overwritten.
SeedInsertOver(t) ==
  /\ cmd[t].pc = "insertRow"
  /\ NextLine(t)
  /\ LET line == Line(t)
         new == [user |-> SeedUser(line), password |-> SeedFile[line].password]
     IN IF Taken(0, SeedFile[line].name)
        THEN rows' = [i \in DOMAIN rows |->
               IF rows[i].user.name = SeedFile[line].name THEN new ELSE rows[i]]
        ELSE Insert(new.user, new.password)

\* The account is created, or skipped when another one took the username since.
SeedInsert(t) ==
  /\ cmd[t].pc = "insertRow"
  /\ NextLine(t)
  /\ LET line == Line(t) IN
       \/ Insert(SeedUser(line), SeedFile[line].password)
       \/ Taken(0, SeedFile[line].name) /\ UNCHANGED rows

\* An invalid row, an error of the database or of bootstrap's
\* insert, or the command is killed: what was created stays.
CommandEnds(t) ==
  /\ cmd[t].pc # "none"
  /\ cmd' = [cmd EXCEPT ![t] = NoCommand]
  /\ UNCHANGED rows

CommandStep(t) ==
  \/ CountAdmins(t)
  \/ \E password \in Passwords : InsertAdmin(t, password)
  \/ SeedSkip(t) \/ SeedMiss(t) \/ SeedInsert(t)
  \/ CommandEnds(t)

-----------------------------------------------------------------------------

AccountsTypeOK ==
  /\ rows \in Seq(Account) /\ Len(rows) <= MaxRows
  /\ cmd \in [Terminals -> Command]

\* No two accounts have the same username, whatever commands and forms create or
\* rename accounts at the same time (seed.go: the lookup is not the insert).
UniqueUsernames ==
  \A i, j \in DOMAIN rows : rows[i].user.name = rows[j].user.name => i = j

=============================================================================
