--------------------------- MODULE SessionsProofs ---------------------------
(***************************************************************************)
(* Proofs about sessions and accounts for any number of requests, commands, *)
(* forms and branches and any life of a session.                           *)
(***************************************************************************)
EXTENDS Sessions, SequenceTheorems, TLAPS

(* The table of accounts. *)

\* Accounts of role USER have a branch.
RowsOK ==
  /\ rows \in Seq(Account) /\ Len(rows) <= MaxRows
  /\ \A i \in DOMAIN rows : rows[i].user.role = "USER" => rows[i].user.branch \in Branches

\* Rows of the table are accounts with their ids.
LEMMA RowFacts ==
  ASSUME RowsOK
  PROVE  /\ Len(rows) \in Nat /\ DOMAIN rows = 1..Len(rows)
         /\ \A i \in DOMAIN rows : rows[i] \in Account
         /\ DOMAIN rows \subseteq Ids
         /\ 0 \notin DOMAIN rows
<1>1. rows \in Seq(Account) /\ Len(rows) <= MaxRows
  BY DEF RowsOK
<1>2. Len(rows) \in Nat /\ DOMAIN rows = 1..Len(rows)
  BY <1>1, LenProperties
<1>3. \A i \in DOMAIN rows : rows[i] \in Account
  BY <1>1, <1>2, ElementOfSeq
<1>4. DOMAIN rows \subseteq Ids /\ 0 \notin DOMAIN rows
  BY <1>1, <1>2, AccountsAssumption DEF Ids
<1> QED
  BY <1>2, <1>3, <1>4

\* An insert adds one valid row and touches no other.
LEMMA InsertFacts ==
  ASSUME RowsOK, NEW user \in User, NEW password \in Passwords \cup {NoPassword},
         Insert(user, password)
  PROVE  /\ password \in Passwords
         /\ RowsOK'
         /\ Len(rows') = Len(rows) + 1
         /\ DOMAIN rows \subseteq DOMAIN rows'
         /\ \A i \in DOMAIN rows : rows'[i] = rows[i]
         /\ \A i \in DOMAIN rows' :
              i \in DOMAIN rows \/ (i = Len(rows) + 1 /\ rows'[i].user = user)
         /\ UniqueUsernames => UniqueUsernames'
<1> DEFINE new == [user |-> user, password |-> password]
<1>0. /\ Valid(user, password, TRUE) /\ ~Taken(0, user.name) /\ Len(rows) < MaxRows
      /\ rows' = Append(rows, new)
  BY DEF Insert
<1>1. password \in Passwords /\ (user.role = "USER" => user.branch \in Branches)
  BY <1>0 DEF Valid
<1>2. new \in Account /\ rows \in Seq(Account)
  BY <1>1 DEF Account, RowsOK
<1>3. Len(rows) \in Nat /\ DOMAIN rows = 1..Len(rows) /\ 0 \notin DOMAIN rows
  BY RowFacts
<1>4. /\ rows' \in Seq(Account) /\ Len(rows') = Len(rows) + 1
      /\ \A i \in 1..Len(rows) : rows'[i] = rows[i]
      /\ rows'[Len(rows) + 1] = new
  BY <1>0, <1>2, AppendProperties
<1>5. DOMAIN rows' = 1..Len(rows) + 1
  BY <1>4, LenProperties
<1>6. \A i \in DOMAIN rows' : i \in DOMAIN rows \/ i = Len(rows) + 1
  BY <1>3, <1>5
<1>7. Len(rows') <= MaxRows
  BY <1>0, <1>3, <1>4, AccountsAssumption
<1>8. \A i \in DOMAIN rows' :
        rows'[i].user.role = "USER" => rows'[i].user.branch \in Branches
  BY <1>1, <1>3, <1>4, <1>6 DEF RowsOK
<1>9. RowsOK'
  BY <1>4, <1>7, <1>8 DEF RowsOK
<1>10. ASSUME UniqueUsernames PROVE UniqueUsernames'
  <2>1. \A i \in DOMAIN rows : rows[i].user.name # user.name
    BY <1>0, <1>3 DEF Taken
  <2>2. \A i \in DOMAIN rows' :
          rows'[i].user = IF i = Len(rows) + 1 THEN user ELSE rows[i].user
    BY <1>3, <1>4, <1>6
  <2>3. Len(rows) + 1 \notin DOMAIN rows
    BY <1>3
  <2> QED
    BY <1>6, <1>10, <2>1, <2>2, <2>3 DEF UniqueUsernames
<1> QED
  BY <1>1, <1>3, <1>4, <1>5, <1>6, <1>9, <1>10

\* An update writes one valid row, if there is one.
LEMMA UpdateFacts ==
  ASSUME RowsOK, NEW id \in 0..MaxRows, NEW user \in User,
         NEW password \in Passwords \cup {NoPassword}, Update(id, user, password)
  PROVE  /\ RowsOK'
         /\ Len(rows') = Len(rows)
         /\ DOMAIN rows' = DOMAIN rows
         /\ \A i \in DOMAIN rows : rows'[i] # rows[i] => i = id
         /\ UniqueUsernames => UniqueUsernames'
<1>0. /\ Valid(user, password, FALSE) /\ ~Taken(id, user.name)
      /\ rows' = [rows EXCEPT ![id] =
           [user |-> user,
            password |-> IF password = NoPassword THEN @.password ELSE password]]
  BY DEF Update
<1>1. /\ Len(rows) \in Nat /\ DOMAIN rows = 1..Len(rows)
      /\ \A i \in DOMAIN rows : rows[i] \in Account
      /\ rows \in Seq(Account)
  BY RowFacts DEF RowsOK
<1>2. rows \in [1..Len(rows) -> Account]
  BY <1>1, LenProperties
<1>3. CASE id \notin DOMAIN rows
  <2>1. rows' = rows
    BY <1>0, <1>1, <1>2, <1>3
  <2> QED
    BY <2>1 DEF RowsOK, UniqueUsernames
<1>4. CASE id \in DOMAIN rows
  <2> DEFINE new == [user |-> user,
                     password |-> IF password = NoPassword THEN rows[id].password
                                  ELSE password]
  <2>1. new \in Account
    BY <1>1, <1>4 DEF Account
  <2>2. rows' = [rows EXCEPT ![id] = new]
    BY <1>0
  <2>3. rows' \in Seq(Account) /\ Len(rows') = Len(rows) /\ DOMAIN rows' = DOMAIN rows
    BY <1>1, <1>4, <2>1, <2>2, ExceptSeq, LenProperties
  <2>4. \A i \in DOMAIN rows : rows'[i] = IF i = id THEN new ELSE rows[i]
    BY <1>2, <1>4, <2>2
  <2>5. user.role = "USER" => user.branch \in Branches
    BY <1>0 DEF Valid
  <2>6. RowsOK'
    BY <2>3, <2>4, <2>5 DEF RowsOK
  <2>7. ASSUME UniqueUsernames PROVE UniqueUsernames'
    <3>1. \A i \in DOMAIN rows : i # id => rows[i].user.name # user.name
      BY <1>0 DEF Taken
    <3>2. \A i \in DOMAIN rows : rows'[i].user = IF i = id THEN user ELSE rows[i].user
      BY <2>4
    <3> QED
      BY <2>3, <2>7, <3>1, <3>2 DEF UniqueUsernames
  <2> QED
    BY <2>3, <2>4, <2>6, <2>7
<1> QED
  BY <1>3, <1>4

-----------------------------------------------------------------------------
(* The inductive invariant. *)

\* A command that is about to insert works on a row of its file.
CommandsOK ==
  /\ cmd \in [Terminals -> Command]
  /\ \A t \in Terminals : cmd[t].pc = "insertRow" => Line(t) \in DOMAIN SeedFile

\* A session that is still in the table ends when it was to end.
SessionsOK ==
  /\ now \in 1..MaxTime /\ issued \in 0..MaxToken
  /\ sessions \in [Tokens -> Session]
  /\ lease \in [Tokens -> 0..MaxTime + TTL]
  /\ \A t \in Tokens :
       /\ sessions[t].user <= Len(rows)
       /\ sessions[t] # NoSession => sessions[t].expires = lease[t]

Asks(q) == q.pc \notin {"idle", "shown", "issue"}

\* Past RequireAuth, and past RequireAdmin with a form.
Known(q) == q.pc \notin {"idle", "issue", "auth", "authRead"}
Manages(q) == q.pc \in {"find", "save"} \/ (q.pc = "csrf" /\ q.kind = "save")

\* A request knows the account of its session, if there is still one, and has on
\* record whatever that account allows.
AsksOwn(q) ==
  /\ q.kind \in DOMAIN AfterAuth
  /\ q.pc \in {"base", "baseRead"} => q.kind # "users"
  /\ q.who <= Len(rows) /\ q.uid \in {0, q.who}
  /\ Grant(q, rows) \subseteq q.held
  /\ q.token # NoToken => sessions[q.token] = NoSession \/ sessions[q.token].user = q.who

\* A request whose session was over when it arrived learns of no account.
DeadEnds(q) ==
  /\ q.pc \in {"idle", "auth", "authRead"}
  /\ Ended(q.token)
  /\ q.pc = "authRead" => q.uid = 0

\* What ShownAsHeld says of one request.
ShowsHeld(q) ==
  /\ q.held # {}
  /\ q.kind = "users" => "ALL" \in q.held
  /\ q.kind = "page" /\ q.scope # NoBranch => {q.scope, "ALL"} \cap q.held # {}

RequestOK(q) ==
  /\ q \in Request /\ q.token <= issued
  /\ q.pc = "issue" => q.uid \in DOMAIN rows
  /\ Asks(q) => AsksOwn(q)
  /\ q.dead => DeadEnds(q)
  /\ Known(q) => q.held # {}
  /\ Manages(q) => "ALL" \in q.held
  /\ q.pc = "shown" => ShowsHeld(q)

RequestsOK ==
  /\ req = [r \in Requests |-> req[r]]
  /\ \A r \in Requests : RequestOK(req[r])

IInv == RowsOK /\ CommandsOK /\ SessionsOK /\ RequestsOK

-----------------------------------------------------------------------------
(* Requests while the rest moves. *)

USE DEF NoToken

\* Held values are branches or "ALL".
LEMMA GrantIsScopes ==
  ASSUME RowsOK, NEW q
  PROVE  Grant(q, rows) \subseteq Branches \cup {"ALL"}
<1>1. \A i \in DOMAIN rows : rows[i].user \in User
  BY RowFacts DEF Account
<1>2. \A i \in DOMAIN rows : BranchOf(rows[i].user) \in Branches \cup {"ALL"}
  BY <1>1 DEF RowsOK, BranchOf, User, Roles
<1> QED
  BY <1>2 DEF Grant

\* A request that does nothing stays as it should be while sessions end, accounts
\* are added or changed and time passes, if what its account newly allows is
\* recorded.
LEMMA EnvironmentKeeps ==
  ASSUME IInv, RowsOK', SessionsOK', NEW x \in Requests,
         issued <= issued', Len(rows) <= Len(rows'),
         \A t \in Tokens : t <= issued =>
           /\ sessions'[t] = NoSession \/ sessions'[t] = sessions[t]
           /\ lease[t] = 0 \/ lease[t] < now => lease'[t] = 0 \/ lease'[t] < now',
         req'[x] \in Request,
         req'[x] = [req[x] EXCEPT !.held = req'[x].held],
         req[x].held \subseteq req'[x].held,
         Asks(req[x]) => Grant(req[x], rows') \subseteq req'[x].held
  PROVE  RequestOK(req[x])'
<1> DEFINE q == req[x]
<1>1. RequestOK(q)
  BY DEF IInv, RequestsOK
<1>2. q \in Request /\ q.token \in Nat /\ q.who \in Nat /\ issued \in Nat /\ issued' \in Nat
  <2>1. q \in Request
    BY <1>1 DEF RequestOK
  <2>2. q.token \in Nat /\ q.who \in Nat
    <3> HIDE DEF q
    <3>1. q.token \in 0..MaxToken /\ q.who \in 0..MaxRows
      BY <2>1 DEF Request
    <3> QED BY <3>1
  <2>3. issued \in Nat /\ issued' \in Nat
    BY SessionsAssumption DEF IInv, SessionsOK
  <2> QED BY <2>1, <2>2, <2>3
<1>3. /\ q'.kind = q.kind /\ q'.pc = q.pc /\ q'.token = q.token /\ q'.scope = q.scope
      /\ q'.uid = q.uid /\ q'.who = q.who /\ q'.dead = q.dead
  <2>1. req[x] \in Request
    BY <1>2
  <2>2. /\ req'[x].kind = req[x].kind /\ req'[x].pc = req[x].pc /\ req'[x].token = req[x].token
        /\ req'[x].scope = req[x].scope /\ req'[x].uid = req[x].uid
        /\ req'[x].who = req[x].who /\ req'[x].dead = req[x].dead
    BY <2>1, SMTT(30) DEF Request
  <2> QED BY <2>2
<1>4. q.token # 0 => q.token \in Tokens
  BY <1>2, SessionsAssumption DEF Request, Tokens
<1>5. Len(rows) \in Nat /\ Len(rows') \in Nat
      /\ DOMAIN rows = 1..Len(rows) /\ DOMAIN rows' = 1..Len(rows')
  BY RowFacts, LenProperties DEF IInv, RowsOK
<1>6. q'.token <= issued'
  BY <1>1, <1>2, <1>3 DEF RequestOK
<1>7. q'.pc = "issue" => q'.uid \in DOMAIN rows'
  BY <1>1, <1>3, <1>5 DEF RequestOK
<1>8. ASSUME Asks(q)' PROVE AsksOwn(q)'
  <2>1. AsksOwn(q) /\ Asks(q)
    BY <1>1, <1>3, <1>8 DEF RequestOK, Asks
  <2>2. q'.who <= Len(rows')
    BY <1>2, <1>3, <1>5, <2>1 DEF AsksOwn
  <2>3. Grant(q', rows') \subseteq q'.held
    BY <1>3, <2>1 DEF Grant
  <2>4. q'.token # 0 => sessions'[q'.token] = NoSession \/ sessions'[q'.token].user = q'.who
    BY <1>1, <1>3, <1>4, <2>1 DEF AsksOwn, RequestOK
  <2> QED
    BY <1>3, <2>1, <2>2, <2>3, <2>4 DEF AsksOwn, Grant
<1>9. ASSUME q'.dead PROVE DeadEnds(q)'
  <2>1. DeadEnds(q)
    BY <1>1, <1>3, <1>9 DEF RequestOK
  <2>2. q'.token = 0 \/ lease'[q'.token] = 0 \/ lease'[q'.token] < now'
    BY <1>1, <1>3, <1>4, <2>1 DEF DeadEnds, Ended, RequestOK
  <2> QED
    BY <1>3, <2>1, <2>2 DEF DeadEnds, Ended
<1>10. /\ Known(q)' => q'.held # {}
       /\ Manages(q)' => "ALL" \in q'.held
       /\ q'.pc = "shown" => ShowsHeld(q)'
  BY <1>1, <1>3 DEF RequestOK, Known, Manages, ShowsHeld
<1> QED
  BY <1>6, <1>7, <1>8, <1>9, <1>10 DEF RequestOK

\* A request that steps while nothing else moves.
LEMMA StepKeeps ==
  ASSUME IInv, NEW r \in Requests, UNCHANGED <<accounts, table, now>>,
         req' = [req EXCEPT ![r] = req'[r]], RequestOK(req'[r])
  PROVE  IInv'
<1> USE DEF accounts, table
<1>1. RowsOK' /\ CommandsOK' /\ SessionsOK'
  BY DEF IInv, RowsOK, CommandsOK, Line, SessionsOK
<1>2. RequestOK(req[r])'
  BY DEF RequestOK, Asks, AsksOwn, Grant, DeadEnds, Ended, Known, Manages, ShowsHeld
<1>3. ASSUME NEW x \in Requests, x # r PROVE RequestOK(req[x])'
  <2>1. req'[x] = req[x] /\ RequestOK(req[x])
    BY <1>3 DEF IInv, RequestsOK
  <2> QED
    BY <2>1 DEF RequestOK, Asks, AsksOwn, Grant, DeadEnds, Ended, Known, Manages, ShowsHeld
<1>4. req' = [x \in Requests |-> req'[x]]
  BY DEF IInv, RequestsOK
<1> QED
  BY <1>1, <1>2, <1>3, <1>4 DEF IInv, RequestsOK

\* A request that moves on alone keeps the invariant if it is as it should be then.
LEMMA MoveKeeps ==
  ASSUME IInv, NEW r \in Requests, UNCHANGED <<accounts, table, now>>,
         NEW q, Step(r, q), RequestOK(q)
  PROVE  IInv'
<1>1. req'[r] = q /\ req' = [req EXCEPT ![r] = q]
  BY DEF Step, IInv, RequestsOK
<1> QED
  BY <1>1, StepKeeps

\* The control states of requests.
LEMMA ControlStates ==
  PCs = {"idle", "shown", "issue", "csrf", "logout", "find", "save",
         "auth", "admin", "base", "authRead", "adminRead", "baseRead"}
<1>1. DOMAIN ReadOf = {"auth", "admin", "base"}
  BY DEF ReadOf
<1>2. {ReadOf[p] : p \in DOMAIN ReadOf} = {"authRead", "adminRead", "baseRead"}
  BY <1>1 DEF ReadOf
<1> QED
  BY <1>1, <1>2 DEF PCs

\* No request is typed as one.
LEMMA EmptyRequest ==
  NoRequest \in Request
<1>1. NoRequest \in [kind : {"none"}, pc : {"idle"}, token : {0}, scope : {""},
                     form : {NoForm}, uid : {0}, who : {0}, held : {{}}, dead : {FALSE}]
  BY DEF NoRequest
<1>2. 0 \in 0..MaxToken /\ 0 \in 0..MaxRows
  BY SessionsAssumption, AccountsAssumption
<1>3. \A x : x \in [kind : {"none"}, pc : {"idle"}, token : {0}, scope : {""},
                   form : {NoForm}, uid : {0}, who : {0}, held : {{}}, dead : {FALSE}]
             => x \in Request
  BY <1>2, ControlStates DEF NoBranch, Request
<1> QED
  BY <1>1, <1>3

\* A request that is over is as it should be.
LEMMA IdleOK ==
  ASSUME NEW x \in Requests, req'[x] = NoRequest, 0 <= issued'
  PROVE  RequestOK(req[x])'
<1>1. NoRequest.pc = "idle" /\ NoRequest.token = 0 /\ NoRequest.dead = FALSE
  BY DEF NoRequest
<1> QED
  BY <1>1, EmptyRequest DEF RequestOK, Asks, Known, Manages

\* No request is as it should be.
LEMMA NoRequestOK ==
  ASSUME IInv
  PROVE  RequestOK(NoRequest) /\ NoRequest \in Request
<1>1. NoRequest \in Request
  BY EmptyRequest
<1>2. 0 <= issued
  BY SessionsAssumption DEF IInv, SessionsOK
<1> QED
  BY <1>1, <1>2 DEF NoRequest, RequestOK, Asks, Known, Manages

\* A request may leave at any time.
LEMMA LeaveKeeps ==
  ASSUME IInv, NEW r \in Requests, UNCHANGED <<accounts, table, now>>, Leave(r)
  PROVE  IInv'
BY NoRequestOK, MoveKeeps DEF Leave

\* The session of an ended token is of no use any more.
LEMMA EndedIsNotLive ==
  ASSUME IInv, NEW t, Ended(t), t \in Tokens \cup {0}
  PROVE  ~Live(t)
<1>1. CASE t = 0
  BY <1>1 DEF Live, Stored
<1>2. CASE t \in Tokens
  <2>1. sessions[t] # NoSession => sessions[t].expires = lease[t]
    BY <1>2 DEF IInv, SessionsOK
  <2>2. now \in Nat /\ now > 0 /\ lease[t] \in Nat
    BY <1>2, SessionsAssumption DEF IInv, SessionsOK
  <2> QED
    BY <1>2, <2>1, <2>2, SessionsAssumption DEF Ended, Live, Stored, Tokens
<1> QED
  BY <1>1, <1>2

\* What holds of a request under way.
LEMMA AskingFacts ==
  ASSUME IInv, NEW r \in Requests, Asks(req[r])
  PROVE  /\ req[r] \in Request /\ RequestOK(req[r]) /\ AsksOwn(req[r])
         /\ req[r].token \in Tokens \cup {0}
<1>1. RequestOK(req[r])
  BY DEF IInv, RequestsOK
<1>2. req[r] \in Request
  BY <1>1 DEF RequestOK
<1>3. req[r].token \in Tokens \cup {0}
  BY <1>2, SessionsAssumption DEF Request, Tokens
<1> QED
  BY <1>1, <1>2, <1>3 DEF RequestOK

-----------------------------------------------------------------------------
(* The steps of requests. *)

\* A request begins with what its session allows.
LEMMA BeginKeeps ==
  ASSUME IInv, NEW r \in Requests, Begin(r)
  PROVE  IInv'
<1>1. PICK kind \in Kinds[r] \ {"login"}, t \in 0..issued,
           s \in Scopes \cup {NoBranch} :
        Step(r, [[NoRequest EXCEPT
                   !.kind = kind, !.pc = "auth", !.token = t, !.scope = s,
                   !.dead = Ended(t),
                   !.who = IF t = NoToken THEN 0 ELSE sessions[t].user]
                 EXCEPT !.held = Grant([NoRequest EXCEPT
                   !.kind = kind, !.pc = "auth", !.token = t, !.scope = s,
                   !.dead = Ended(t),
                   !.who = IF t = NoToken THEN 0 ELSE sessions[t].user], rows)])
  BY DEF Begin
<1> DEFINE who == IF t = NoToken THEN 0 ELSE sessions[t].user
           p == [NoRequest EXCEPT !.kind = kind, !.pc = "auth", !.token = t,
                   !.scope = s, !.dead = Ended(t), !.who = who]
           q == [p EXCEPT !.held = Grant(p, rows)]
<1>2. /\ q.kind = kind /\ q.pc = "auth" /\ q.token = t /\ q.scope = s
      /\ q.form = NoForm /\ q.uid = 0 /\ q.who = who /\ q.dead = Ended(t)
      /\ q.held = Grant(p, rows) /\ p.who = who
  BY DEF NoRequest
<1>3. Grant(q, rows) = Grant(p, rows)
  BY <1>2 DEF Grant
<1>4. Grant(p, rows) \subseteq Branches \cup {"ALL"}
  BY GrantIsScopes DEF IInv
<1>5. t \in Nat /\ t <= issued /\ (t # 0 => t \in Tokens) /\ t \in 0..MaxToken
  BY SessionsAssumption DEF IInv, SessionsOK, Tokens
<1>6. who \in 0..MaxRows /\ who <= Len(rows)
  BY <1>5, RowFacts, AccountsAssumption DEF IInv, SessionsOK, Session, RowsOK
<1>7. kind \in AllKinds /\ kind # "login" /\ Ended(t) \in BOOLEAN
  BY SessionsAssumption DEF Ended
<1>8. q \in Request
  <2>1. who \in 0..MaxRows /\ t \in 0..MaxToken /\ kind \in AllKinds \cup {"none"}
    BY <1>5, <1>6, <1>7
  <2>2. \A n \in Request :
          [n EXCEPT !.kind = kind, !.pc = "auth", !.token = t, !.scope = s,
                    !.dead = Ended(t), !.who = who] \in Request
    <3>1. Ended(t) \in BOOLEAN /\ "auth" \in PCs
          /\ s \in Scopes \cup Branches \cup {"ALL", NoBranch}
      BY <1>7, ControlStates
    <3> HIDE DEF who
    <3> QED
      BY <2>1, <3>1 DEF Request
  <2>3. p \in Request
    BY <2>2, NoRequestOK
  <2> HIDE DEF p
  <2> QED
    BY <1>4, <2>3 DEF Request
<1> HIDE DEF p, q
<1>9. AsksOwn(q)
  BY <1>2, <1>3, <1>5, <1>6, <1>7 DEF AsksOwn, AfterAuth, AllKinds, Asking
<1>10. q.dead => DeadEnds(q)
  BY <1>2 DEF DeadEnds
<1>11. RequestOK(q)
  BY <1>2, <1>5, <1>8, <1>9, <1>10 DEF RequestOK, Known, Manages
<1>12. Step(r, q)
  BY <1>1 DEF p, q
<1> QED
  BY <1>11, <1>12, MoveKeeps DEF Begin

\* A login knows an active account.
LEMMA CredentialsKeeps ==
  ASSUME IInv, NEW r \in Requests, Credentials(r)
  PROVE  IInv'
<1>1. PICK i \in DOMAIN rows, t \in 0..issued :
        Step(r, [NoRequest EXCEPT !.kind = "login", !.pc = "issue",
                                  !.token = t, !.uid = i])
  BY DEF Credentials
<1> DEFINE q == [NoRequest EXCEPT !.kind = "login", !.pc = "issue", !.token = t, !.uid = i]
<1>2. q.kind = "login" /\ q.pc = "issue" /\ q.token = t /\ q.uid = i /\ ~q.dead
  BY DEF NoRequest
<1>3. t \in 0..MaxToken /\ t <= issued
  BY SessionsAssumption DEF IInv, SessionsOK
<1>4. i \in 0..MaxRows
  BY RowFacts, AccountsAssumption DEF IInv, Ids
<1>5. q \in Request
  BY <1>3, <1>4, NoRequestOK, ControlStates DEF Request, AllKinds
<1> HIDE DEF q
<1>6. RequestOK(q)
  BY <1>2, <1>3, <1>5 DEF RequestOK, Asks, Known, Manages
<1>7. Step(r, q)
  BY <1>1 DEF q
<1> QED
  BY <1>6, <1>7, MoveKeeps DEF Credentials

\* Looking a session up keeps the invariant.
LEMMA LookupKeeps ==
  ASSUME IInv, NEW r \in Requests, Lookup(r)
  PROVE  IInv'
<1> DEFINE o == req[r]
           uid == IF Live(o.token) THEN sessions[o.token].user ELSE 0
           q == [o EXCEPT !.pc = ReadOf[o.pc], !.uid = uid]
<1>1. o.pc \in DOMAIN ReadOf /\ Step(r, q)
  BY DEF Lookup
<1>2. o.pc \in {"auth", "admin", "base"} /\ Asks(o)
  BY <1>1 DEF ReadOf, Asks
<1>3. o \in Request /\ RequestOK(o) /\ AsksOwn(o) /\ o.token \in Tokens \cup {0}
  BY <1>2, AskingFacts
<1>4. /\ q.kind = o.kind /\ q.pc = ReadOf[o.pc] /\ q.token = o.token /\ q.scope = o.scope
      /\ q.form = o.form /\ q.uid = uid /\ q.who = o.who /\ q.held = o.held
      /\ q.dead = o.dead
  BY <1>3 DEF Request
<1>5. uid \in {0, o.who}
  BY <1>3 DEF AsksOwn, Live, Stored
<1>6. o.dead => uid = 0
  BY <1>2, <1>3, EndedIsNotLive DEF RequestOK, DeadEnds
<1>7. /\ o.pc = "auth" => q.pc = "authRead"
      /\ o.pc = "admin" => q.pc = "adminRead"
      /\ o.pc = "base" => q.pc = "baseRead"
  BY <1>2, <1>4 DEF ReadOf
<1>8. q \in Request
  <2>1. uid \in 0..MaxRows /\ ReadOf[o.pc] \in PCs
    BY <1>2, <1>3, <1>5, ControlStates, AccountsAssumption DEF Request, ReadOf
  <2> HIDE DEF uid
  <2> QED
    BY <1>3, <2>1 DEF Request
<1> HIDE DEF q, uid
<1>9. AsksOwn(q)
  BY <1>2, <1>3, <1>4, <1>5, <1>7 DEF AsksOwn, Grant
<1>10. q.dead => DeadEnds(q)
  BY <1>2, <1>3, <1>4, <1>6, <1>7 DEF RequestOK, DeadEnds
<1>11. RequestOK(q)
  BY <1>2, <1>3, <1>4, <1>7, <1>8, <1>9, <1>10 DEF RequestOK, Known, Manages
<1> QED
  BY <1>1, <1>11, MoveKeeps DEF Lookup

\* Nobody is no administrator.
LEMMA NobodyIsNoAdmin ==
  NoUser.role = "" /\ NoUser.role # "ADMIN" /\ NoUser.branch = NoBranch
BY DEF NoUser

\* Whoever a request is answered is the account of its session, now active, whose
\* branch is on record.
LEMMA AnswersOwn ==
  ASSUME IInv, NEW r \in Requests, Asks(req[r]), NEW user \in Answers(req[r]),
         user # NoUser
  PROVE  /\ req[r].uid # 0
         /\ user \in User /\ BranchOf(user) \in req[r].held
         /\ BranchOf(user) = IF user.role = "ADMIN" THEN "ALL" ELSE user.branch
<1> DEFINE q == req[r]
<1>1. PICK i \in DOMAIN rows : i = q.uid /\ rows[i].user.active /\ user = rows[i].user
  BY DEF Answers
<1>2. AsksOwn(q)
  BY AskingFacts
<1>3. i # 0 /\ rows[i] \in Account
  BY RowFacts DEF IInv
<1>4. i = q.who
  BY <1>1, <1>2, <1>3 DEF AsksOwn
<1>5. BranchOf(user) \in Grant(q, rows)
  BY <1>1, <1>4 DEF Grant
<1> QED
  BY <1>1, <1>2, <1>3, <1>5 DEF AsksOwn, Account, BranchOf

\* The changes of a request under way that keep to its session.
LEMMA OnwardKeeps ==
  ASSUME IInv, NEW r \in Requests, Asks(req[r]), UNCHANGED <<accounts, table, now>>,
         NEW pc \in PCs \ {"idle", "shown", "issue", "auth", "authRead"},
         NEW form \in Forms \cup {NoForm},
         ~req[r].dead, req[r].held # {},
         Manages([req[r] EXCEPT !.pc = pc]) => "ALL" \in req[r].held,
         pc \in {"base", "baseRead"} => req[r].kind # "users",
         NEW uid \in {0, req[r].uid},
         Step(r, [req[r] EXCEPT !.pc = pc, !.uid = uid, !.form = form])
  PROVE  IInv'
<1> DEFINE o == req[r]
           q == [o EXCEPT !.pc = pc, !.uid = uid, !.form = form]
<1>1. o \in Request /\ RequestOK(o) /\ AsksOwn(o)
  BY AskingFacts
<1>2. /\ q.kind = o.kind /\ q.pc = pc /\ q.token = o.token /\ q.uid = uid
      /\ q.who = o.who /\ q.held = o.held /\ q.dead = o.dead
  BY <1>1 DEF Request
<1>3. q \in Request
  <2>1. uid \in 0..MaxRows
    BY <1>1, AccountsAssumption DEF Request
  <2> QED
    BY <1>1, <2>1 DEF Request
<1>4. Manages(q) => "ALL" \in q.held
  BY <1>1, <1>2 DEF Manages, Request
<1> HIDE DEF q
<1>5. AsksOwn(q)
  BY <1>1, <1>2 DEF AsksOwn, Grant
<1>6. RequestOK(q)
  BY <1>1, <1>2, <1>3, <1>4, <1>5 DEF RequestOK
<1>7. Step(r, q)
  BY DEF q
<1> QED
  BY <1>6, <1>7, MoveKeeps

\* Past RequireAuth no request is dead and every one has something on record.
LEMMA KnownFacts ==
  ASSUME IInv, NEW r \in Requests, Known(req[r])
  PROVE  ~req[r].dead /\ req[r].held # {}
BY DEF IInv, RequestsOK, RequestOK, Known, DeadEnds

\* An answer ends with something shown.
LEMMA ShownKeeps ==
  ASSUME IInv, NEW r \in Requests, Asks(req[r]), Known(req[r]),
         UNCHANGED <<accounts, table, now>>,
         NEW scope \in Scopes \cup Branches \cup {"ALL", NoBranch},
         req[r].kind = "users" => "ALL" \in req[r].held,
         req[r].kind = "page" /\ scope # NoBranch =>
           {scope, "ALL"} \cap req[r].held # {},
         Step(r, Shown(req[r], scope))
  PROVE  IInv'
<1> DEFINE o == req[r]
           q == Shown(o, scope)
<1>1. o \in Request /\ ~o.dead /\ o.held # {}
  BY AskingFacts, KnownFacts
<1>2. /\ q.kind = o.kind /\ q.pc = "shown" /\ q.token = 0 /\ q.scope = scope
      /\ q.held = o.held /\ ~q.dead
  BY <1>1 DEF Shown, NoRequest
<1>3. q \in Request
  <2>1. NoRequest \in Request
    BY NoRequestOK
  <2>2. "shown" \in PCs
    BY ControlStates
  <2> HIDE DEF o
  <2> QED BY <1>1, <2>1, <2>2 DEF Shown, Request
<1>4. 0 <= issued
  BY SessionsAssumption DEF IInv, SessionsOK
<1> HIDE DEF q
<1>5. ShowsHeld(q)
  BY <1>1, <1>2 DEF ShowsHeld
<1>6. RequestOK(q)
  BY <1>1, <1>2, <1>3, <1>4, <1>5 DEF RequestOK, Asks, Known, Manages
<1>7. Step(r, q)
  BY DEF q
<1> QED
  BY <1>6, <1>7, MoveKeeps

\* RequireAuth keeps the invariant.
LEMMA AuthenticateKeeps ==
  ASSUME IInv, NEW r \in Requests, Authenticate(r)
  PROVE  IInv'
<1> DEFINE o == req[r]
<1>1. o.pc = "authRead" /\ Asks(o) /\ UNCHANGED <<accounts, table, now>>
  BY DEF Authenticate, Asks
<1>2. PICK user \in Answers(o) :
        IF user = NoUser THEN Leave(r)
        ELSE Step(r, [o EXCEPT !.pc = AfterAuth[o.kind], !.uid = 0])
  BY DEF Authenticate
<1>3. CASE user = NoUser
  BY <1>1, <1>2, <1>3, LeaveKeeps
<1>4. CASE user # NoUser
  <2>1. o.uid # 0 /\ BranchOf(user) \in o.held
    BY <1>1, <1>4, AnswersOwn
  <2>2. RequestOK(o) /\ o \in Request /\ AsksOwn(o)
    BY <1>1, AskingFacts
  <2>3. ~o.dead
    BY <1>1, <2>1, <2>2 DEF RequestOK, DeadEnds
  <2>4. AfterAuth[o.kind] \in {"base", "admin", "csrf"}
        /\ (AfterAuth[o.kind] = "csrf" => o.kind = "post")
        /\ (AfterAuth[o.kind] = "base" => o.kind # "users")
    BY <2>2 DEF AsksOwn, AfterAuth
  <2>5. ~Manages([o EXCEPT !.pc = AfterAuth[o.kind]])
    BY <2>2, <2>4 DEF Manages, Request
  <2>6. o.form \in Forms \cup {NoForm}
    BY <2>2 DEF Request
  <2>7. [o EXCEPT !.pc = AfterAuth[o.kind], !.uid = 0]
          = [o EXCEPT !.pc = AfterAuth[o.kind], !.uid = 0, !.form = o.form]
    BY <2>2 DEF Request
  <2>8. AfterAuth[o.kind] \in PCs \ {"idle", "shown", "issue", "auth", "authRead"}
    BY <2>4, ControlStates
  <2>9. Step(r, [o EXCEPT !.pc = AfterAuth[o.kind], !.uid = 0, !.form = o.form])
    BY <1>2, <1>4, <2>7
  <2> QED
    BY <1>1, <2>1, <2>3, <2>4, <2>5, <2>6, <2>8, <2>9, OnwardKeeps
<1> QED
  BY <1>3, <1>4

\* RequireAdmin keeps the invariant.
LEMMA AdministerKeeps ==
  ASSUME IInv, NEW r \in Requests, Administer(r)
  PROVE  IInv'
<1> DEFINE o == req[r]
<1>1. /\ o.pc = "adminRead" /\ Asks(o) /\ Known(o)
      /\ UNCHANGED <<accounts, table, now>>
  BY DEF Administer, Asks, Known
<1>2. PICK user \in Answers(o) :
        IF user.role # "ADMIN" THEN Leave(r)
        ELSE IF o.kind = "save" THEN Step(r, [o EXCEPT !.pc = "csrf", !.uid = 0])
             ELSE Step(r, Shown(o, "ALL"))
  BY DEF Administer
<1>3. CASE user.role # "ADMIN"
  BY <1>1, <1>2, <1>3, LeaveKeeps
<1>4. CASE user.role = "ADMIN"
  <2>1. user # NoUser
    BY <1>4, NobodyIsNoAdmin
  <2>2. "ALL" \in o.held /\ ~o.dead /\ o.held # {}
    BY <1>1, <1>4, <2>1, AnswersOwn, KnownFacts
  <2>3. o \in Request
    BY <1>1, AskingFacts
  <2>4. CASE o.kind = "save"
    <3>1. [o EXCEPT !.pc = "csrf", !.uid = 0]
            = [o EXCEPT !.pc = "csrf", !.uid = 0, !.form = o.form]
      BY <2>3 DEF Request
    <3>2. o.form \in Forms \cup {NoForm}
          /\ "csrf" \in PCs \ {"idle", "shown", "issue", "auth", "authRead"}
      BY <2>3, ControlStates DEF Request
    <3>3. Step(r, [o EXCEPT !.pc = "csrf", !.uid = 0, !.form = o.form])
      BY <1>2, <1>4, <2>4, <3>1
    <3> QED
      BY <1>1, <2>2, <3>2, <3>3, OnwardKeeps
  <2>5. CASE o.kind # "save"
    <3>1. Step(r, Shown(o, "ALL"))
      BY <1>2, <1>4, <2>5
    <3> QED
      BY <1>1, <2>2, <3>1, ShownKeeps
  <2> QED
    BY <2>4, <2>5
<1> QED
  BY <1>3, <1>4

\* base keeps the invariant.
LEMMA BaseKeeps ==
  ASSUME IInv, NEW r \in Requests, Base(r)
  PROVE  IInv'
<1> DEFINE o == req[r]
<1>1. o.pc = "baseRead" /\ Asks(o) /\ Known(o) /\ UNCHANGED <<accounts, table, now>>
  BY DEF Base, Asks, Known
<1>2. PICK user \in Answers(o) : Step(r, Shown(o, Scope(o, user)))
  BY DEF Base
<1>3. o \in Request
  BY <1>1, AskingFacts
<1>4. user = NoUser \/ (user \in User /\ BranchOf(user) \in o.held)
  BY <1>1, AnswersOwn
<1>5. Scope(o, user) \in Scopes \cup Branches \cup {"ALL", NoBranch}
  <2>1. CASE user = NoUser
    BY <1>3, <2>1, NobodyIsNoAdmin DEF Scope, BranchOf, Request
  <2>2. CASE user # NoUser
    BY <1>3, <1>4, <2>2 DEF Scope, BranchOf, Request, User
  <2> QED
    BY <2>1, <2>2
<1>6. ASSUME o.kind = "page", Scope(o, user) # NoBranch
      PROVE  {Scope(o, user), "ALL"} \cap o.held # {}
  <2>1. user # NoUser
    BY <1>6, NobodyIsNoAdmin DEF Scope, BranchOf
  <2> QED
    BY <1>4, <1>6, <2>1 DEF Scope, BranchOf
<1>7. o.kind # "users"
  BY <1>1, AskingFacts DEF AsksOwn
<1> QED
  BY <1>1, <1>2, <1>5, <1>6, <1>7, ShownKeeps

\* CheckCSRF keeps the invariant.
LEMMA CheckCSRFKeeps ==
  ASSUME IInv, NEW r \in Requests, CheckCSRF(r)
  PROVE  IInv'
<1> DEFINE o == req[r]
<1>1. /\ o.pc = "csrf" /\ Asks(o) /\ Known(o)
      /\ UNCHANGED <<accounts, table, now>>
  BY DEF CheckCSRF, Asks, Known
<1>2. o \in Request /\ RequestOK(o) /\ AsksOwn(o) /\ ~o.dead /\ o.held # {}
  BY <1>1, AskingFacts, KnownFacts
<1>3. {"logout", "find"} \subseteq PCs \ {"idle", "shown", "issue", "auth", "authRead"}
  BY ControlStates
<1>4. CASE o.kind = "post" /\ Goto(r, "logout")
  <2>1. [o EXCEPT !.pc = "logout"]
          = [o EXCEPT !.pc = "logout", !.uid = o.uid, !.form = o.form]
    BY <1>2 DEF Request
  <2>2. Step(r, [o EXCEPT !.pc = "logout", !.uid = o.uid, !.form = o.form])
    BY <1>4, <2>1 DEF Goto
  <2>3. ~Manages([o EXCEPT !.pc = "logout"]) /\ o.form \in Forms \cup {NoForm}
    BY <1>2 DEF Manages, Request
  <2> QED
    BY <1>1, <1>2, <1>3, <2>2, <2>3, OnwardKeeps
<1>5. CASE /\ o.kind = "save"
           /\ \E f \in Forms : Step(r, [o EXCEPT !.pc = "find", !.form = f])
  <2>1. PICK f \in Forms : Step(r, [o EXCEPT !.pc = "find", !.form = f])
    BY <1>5
  <2>2. [o EXCEPT !.pc = "find", !.form = f]
          = [o EXCEPT !.pc = "find", !.uid = o.uid, !.form = f]
    BY <1>2 DEF Request
  <2>3. "ALL" \in o.held
    BY <1>1, <1>2, <1>5 DEF RequestOK, Manages
  <2>4. Step(r, [o EXCEPT !.pc = "find", !.uid = o.uid, !.form = f])
    BY <2>1, <2>2
  <2>5. f \in Forms \cup {NoForm} /\ o.uid \in {0, o.uid}
    OBVIOUS
  <2> QED
    BY <1>1, <1>2, <1>3, <2>3, <2>4, <2>5, OnwardKeeps
<1>6. CASE o.kind = "post" /\ Leave(r)
  BY <1>1, <1>6, LeaveKeeps
<1> QED
  BY <1>4, <1>5, <1>6 DEF CheckCSRF

\* The look at the account to edit keeps the invariant.
LEMMA FindKeeps ==
  ASSUME IInv, NEW r \in Requests, Find(r)
  PROVE  IInv'
<1> DEFINE o == req[r]
<1>1. /\ o.pc = "find" /\ Asks(o) /\ Known(o)
      /\ UNCHANGED <<accounts, table, now>>
  BY DEF Find, Asks, Known
<1>2. CASE Leave(r)
  BY <1>1, <1>2, LeaveKeeps
<1>3. CASE Goto(r, "save")
  <2>1. o \in Request /\ RequestOK(o) /\ ~o.dead /\ o.held # {}
    BY <1>1, AskingFacts, KnownFacts
  <2>2. [o EXCEPT !.pc = "save"]
          = [o EXCEPT !.pc = "save", !.uid = o.uid, !.form = o.form]
    BY <2>1 DEF Request
  <2>3. Step(r, [o EXCEPT !.pc = "save", !.uid = o.uid, !.form = o.form])
    BY <1>3, <2>2 DEF Goto
  <2>4. "ALL" \in o.held /\ o.form \in Forms \cup {NoForm}
    BY <1>1, <2>1 DEF RequestOK, Manages, Request
  <2>5. "save" \in PCs \ {"idle", "shown", "issue", "auth", "authRead"}
    BY ControlStates
  <2> QED
    BY <1>1, <2>1, <2>3, <2>4, <2>5, OnwardKeeps
<1> QED
  BY <1>2, <1>3 DEF Find

\* Requests that are refused or fail keep the invariant.
LEMMA GivingUpKeeps ==
  ASSUME IInv, NEW r \in Requests, CSRFRefused(r) \/ SaveRefused(r) \/ Fails(r)
  PROVE  IInv'
<1>1. Leave(r) /\ UNCHANGED <<accounts, table, now>>
  BY DEF CSRFRefused, SaveRefused, Fails
<1> QED
  BY <1>1, LeaveKeeps

-----------------------------------------------------------------------------
(* The steps that move more than a request. *)

\* What EnvironmentKeeps asks, when accounts stay and requests do nothing.
LEMMA SessionsMove ==
  ASSUME IInv, SessionsOK', UNCHANGED accounts, issued <= issued',
         \A t \in Tokens : t <= issued =>
           /\ sessions'[t] = NoSession \/ sessions'[t] = sessions[t]
           /\ lease[t] = 0 \/ lease[t] < now => lease'[t] = 0 \/ lease'[t] < now',
         NEW x \in Requests, req'[x] = req[x]
  PROVE  RequestOK(req[x])'
<1>1. RowsOK' /\ Len(rows) <= Len(rows') /\ rows' = rows
  BY RowFacts DEF IInv, RowsOK, accounts
<1>2. req[x] \in Request /\ (Asks(req[x]) => AsksOwn(req[x]))
  BY DEF IInv, RequestsOK, RequestOK
<1>3. req'[x] = [req[x] EXCEPT !.held = req'[x].held]
  BY <1>2 DEF Request
<1>4. Asks(req[x]) => Grant(req[x], rows') \subseteq req'[x].held
  BY <1>1, <1>2 DEF AsksOwn
<1> QED
  BY <1>1, <1>2, <1>3, <1>4, EnvironmentKeeps

\* A new session keeps the invariant.
LEMMA IssueKeeps ==
  ASSUME IInv, NEW r \in Requests, Issue(r)
  PROVE  IInv'
<1>1. /\ req[r].pc = "issue" /\ Fresh \in Tokens /\ issued' = Fresh
      /\ sessions' = [t \in Tokens |->
           IF t = Fresh THEN [user |-> req[r].uid, expires |-> now + TTL]
           ELSE IF t = req[r].token \/ ~Live(t) THEN NoSession ELSE sessions[t]]
      /\ lease' = [t \in Tokens |-> IF t = Fresh THEN now + TTL
                                    ELSE IF t = req[r].token THEN 0 ELSE lease[t]]
      /\ rows' = rows /\ cmd' = cmd /\ now' = now /\ Leave(r)
  BY DEF Issue, accounts
<1>2. /\ now \in 1..MaxTime /\ issued \in 0..MaxToken /\ sessions \in [Tokens -> Session]
      /\ lease \in [Tokens -> 0..MaxTime + TTL]
      /\ \A t \in Tokens : /\ sessions[t].user <= Len(rows)
                           /\ sessions[t] # NoSession => sessions[t].expires = lease[t]
  BY DEF IInv, SessionsOK
<1>3. req[r].uid \in DOMAIN rows /\ req[r] \in Request
  BY <1>1 DEF IInv, RequestsOK, RequestOK
<1>4. Len(rows) \in Nat /\ Len(rows) <= MaxRows /\ req[r].uid \in 1..Len(rows)
  BY <1>3, RowFacts DEF IInv, RowsOK
<1>5. issued' \in 0..MaxToken /\ issued <= issued' /\ ~(Fresh <= issued)
  BY <1>1, <1>2, SessionsAssumption DEF Fresh, Tokens
<1>6. now + TTL \in 0..MaxTime + TTL /\ 0 \in 0..MaxTime + TTL
  BY <1>2, SessionsAssumption
<1>7. [user |-> req[r].uid, expires |-> now + TTL] \in Session
  BY <1>4, <1>6, AccountsAssumption DEF Session
<1>8. NoSession \in Session /\ NoSession.user = 0
  BY <1>6, AccountsAssumption DEF Session, NoSession
<1>9. SessionsOK'
  <2>1. sessions' \in [Tokens -> Session] /\ lease' \in [Tokens -> 0..MaxTime + TTL]
    BY <1>1, <1>2, <1>6, <1>7, <1>8
  <2>2. ASSUME NEW t \in Tokens
        PROVE  /\ sessions'[t].user <= Len(rows)
               /\ sessions'[t] # NoSession => sessions'[t].expires = lease'[t]
    BY <1>1, <1>2, <1>4, <1>8
  <2> QED
    BY <1>1, <1>2, <1>5, <2>1, <2>2 DEF SessionsOK
<1>10. \A t \in Tokens : t <= issued =>
         /\ sessions'[t] = NoSession \/ sessions'[t] = sessions[t]
         /\ lease[t] = 0 \/ lease[t] < now => lease'[t] = 0 \/ lease'[t] < now'
  BY <1>1, <1>5
<1>11. ASSUME NEW x \in Requests, x # r PROVE RequestOK(req[x])'
  <2>1. req'[x] = req[x]
    BY <1>1, <1>11 DEF Leave, Step, IInv, RequestsOK
  <2> QED
    BY <1>1, <1>5, <1>9, <1>10, <2>1, SessionsMove DEF accounts
<1>12. req'[r] = NoRequest /\ req' = [x \in Requests |-> req'[x]]
  BY <1>1 DEF Leave, Step, IInv, RequestsOK
<1>13. RequestOK(req[r])'
  BY <1>5, <1>12, IdleOK
<1>14. RowsOK' /\ CommandsOK'
  BY <1>1 DEF IInv, RowsOK, CommandsOK, Line
<1> QED
  BY <1>9, <1>11, <1>12, <1>13, <1>14 DEF IInv, RequestsOK

\* A logout keeps the invariant.
LEMMA LogoutKeeps ==
  ASSUME IInv, NEW r \in Requests, Logout(r)
  PROVE  IInv'
<1>1. /\ sessions' = [t \in Tokens |->
                        IF t = req[r].token THEN NoSession ELSE sessions[t]]
      /\ lease' = [t \in Tokens |-> IF t = req[r].token THEN 0 ELSE lease[t]]
      /\ rows' = rows /\ cmd' = cmd /\ now' = now /\ issued' = issued /\ Leave(r)
  BY DEF Logout, accounts
<1>2. /\ now \in 1..MaxTime /\ issued \in 0..MaxToken /\ sessions \in [Tokens -> Session]
      /\ lease \in [Tokens -> 0..MaxTime + TTL]
      /\ \A t \in Tokens : /\ sessions[t].user <= Len(rows)
                           /\ sessions[t] # NoSession => sessions[t].expires = lease[t]
  BY DEF IInv, SessionsOK
<1>3. Len(rows) \in Nat
  BY RowFacts DEF IInv
<1>4. 0 \in 0..MaxTime + TTL /\ issued <= issued'
  BY <1>1, <1>2, SessionsAssumption
<1>5. NoSession \in Session /\ NoSession.user = 0
  BY <1>4, AccountsAssumption DEF Session, NoSession
<1>6. SessionsOK'
  <2>1. sessions' \in [Tokens -> Session] /\ lease' \in [Tokens -> 0..MaxTime + TTL]
    BY <1>1, <1>2, <1>4, <1>5
  <2>2. ASSUME NEW t \in Tokens
        PROVE  /\ sessions'[t].user <= Len(rows)
               /\ sessions'[t] # NoSession => sessions'[t].expires = lease'[t]
    BY <1>1, <1>2, <1>3, <1>5
  <2> QED
    BY <1>1, <1>2, <2>1, <2>2 DEF SessionsOK
<1>7. \A t \in Tokens : t <= issued =>
        /\ sessions'[t] = NoSession \/ sessions'[t] = sessions[t]
        /\ lease[t] = 0 \/ lease[t] < now => lease'[t] = 0 \/ lease'[t] < now'
  BY <1>1
<1>8. ASSUME NEW x \in Requests, x # r PROVE RequestOK(req[x])'
  <2>1. req'[x] = req[x]
    BY <1>1, <1>8 DEF Leave, Step, IInv, RequestsOK
  <2> QED
    BY <1>1, <1>4, <1>6, <1>7, <2>1, SessionsMove DEF accounts
<1>9. req'[r] = NoRequest /\ req' = [x \in Requests |-> req'[x]]
  BY <1>1 DEF Leave, Step, IInv, RequestsOK
<1>10. RequestOK(req[r])'
  BY <1>1, <1>2, <1>9, IdleOK, SessionsAssumption
<1>11. RowsOK' /\ CommandsOK'
  BY <1>1 DEF IInv, RowsOK, CommandsOK, Line
<1> QED
  BY <1>6, <1>8, <1>9, <1>10, <1>11 DEF IInv, RequestsOK

\* Time keeps the invariant.
LEMMA TickKeeps ==
  ASSUME IInv, Tick
  PROVE  IInv'
<1>1. /\ now < MaxTime /\ now' = now + 1 /\ rows' = rows /\ cmd' = cmd /\ issued' = issued
      /\ sessions' = sessions /\ lease' = lease /\ req' = req
  BY DEF Tick, accounts, table
<1>2. now \in 1..MaxTime /\ issued \in 0..MaxToken /\ lease \in [Tokens -> 0..MaxTime + TTL]
  BY DEF IInv, SessionsOK
<1>3. now' \in 1..MaxTime /\ issued <= issued'
  BY <1>1, <1>2, SessionsAssumption
<1>4. SessionsOK'
  BY <1>1, <1>3 DEF IInv, SessionsOK
<1>5. \A t \in Tokens : lease[t] < now => lease'[t] < now'
  BY <1>1, <1>2, SessionsAssumption
<1>6. \A x \in Requests : RequestOK(req[x])'
  BY <1>1, <1>3, <1>4, <1>5, SessionsMove DEF accounts
<1>7. RowsOK' /\ CommandsOK' /\ req' = [x \in Requests |-> req'[x]]
  BY <1>1 DEF IInv, RowsOK, CommandsOK, Line, RequestsOK
<1> QED
  BY <1>4, <1>6, <1>7 DEF IInv, RequestsOK

\* An account more, or an account changed: sessions and requests keep the accounts
\* they had.
LEMMA AccountsMove ==
  ASSUME IInv, RowsOK', CommandsOK', UNCHANGED <<table, now>>,
         Len(rows) <= Len(rows'), NEW x \in Requests,
         req'[x] \in Request,
         req'[x] = [req[x] EXCEPT !.held = req'[x].held],
         req[x].held \subseteq req'[x].held,
         Asks(req[x]) => Grant(req[x], rows') \subseteq req'[x].held
  PROVE  SessionsOK' /\ RequestOK(req[x])'
<1>1. SessionsOK'
  <2>1. Len(rows) \in Nat /\ Len(rows') \in Nat
    BY RowFacts, LenProperties DEF IInv, RowsOK
  <2>2. \A t \in Tokens : sessions[t].user \in Nat /\ sessions[t].user <= Len(rows)
    BY DEF IInv, SessionsOK, Session
  <2> QED
    BY <2>1, <2>2 DEF IInv, SessionsOK, table
<1>2. issued <= issued'
  BY SessionsAssumption DEF IInv, SessionsOK, table
<1>3. \A t \in Tokens : t <= issued =>
        /\ sessions'[t] = NoSession \/ sessions'[t] = sessions[t]
        /\ lease[t] = 0 \/ lease[t] < now => lease'[t] = 0 \/ lease'[t] < now'
  BY DEF table
<1> QED
  BY <1>1, <1>2, <1>3, EnvironmentKeeps

\* A new account is nobody's, so that nothing is allowed that was not before.
LEMMA NewAccountGrantsNothing ==
  ASSUME IInv, NEW q, AsksOwn(q), q.who \in Nat,
         DOMAIN rows \subseteq DOMAIN rows',
         \A i \in DOMAIN rows : rows'[i] = rows[i],
         \A i \in DOMAIN rows' : i \in DOMAIN rows \/ i = Len(rows) + 1
  PROVE  Grant(q, rows') \subseteq q.held
<1>1. q.who # Len(rows) + 1
  BY RowFacts DEF AsksOwn, IInv
<1>2. Grant(q, rows') \subseteq Grant(q, rows)
  BY <1>1 DEF Grant
<1> QED
  BY <1>2 DEF AsksOwn

\* The next line of the seed file is one of it.
LEMMA NextLineOK ==
  ASSUME CommandsOK, NEW t \in Terminals, NextLine(t), Line(t) \in DOMAIN SeedFile
  PROVE  CommandsOK'
<1>1. SeedFile \in Seq([name : Names, branch : Branches \cup {NoBranch},
                        password : Passwords \cup {NoPassword}])
  BY AccountsAssumption
<1>2. Len(SeedFile) \in Nat /\ DOMAIN SeedFile = 1..Len(SeedFile)
  BY <1>1, LenProperties
<1>3. NoCommand \in Command /\ NoCommand.pc = "none"
  BY <1>2 DEF NoCommand, Command
<1>4. [pc |-> "row", line |-> Line(t)] \in Command
  BY <1>2 DEF Command
<1> QED
  BY <1>3, <1>4 DEF CommandsOK, NextLine, Line

\* A command that inserts what its row or the environment says.
LEMMA InsertKeeps ==
  ASSUME IInv, CommandsOK', NEW user \in User, NEW password \in Passwords \cup {NoPassword},
         Insert(user, password), UNCHANGED <<table, now, req>>
  PROVE  IInv'
<1>1. /\ RowsOK' /\ Len(rows') = Len(rows) + 1
      /\ DOMAIN rows \subseteq DOMAIN rows'
      /\ \A i \in DOMAIN rows : rows'[i] = rows[i]
      /\ \A i \in DOMAIN rows' : i \in DOMAIN rows \/ i = Len(rows) + 1
  BY InsertFacts DEF IInv
<1>2. Len(rows) <= Len(rows')
  BY <1>1, RowFacts DEF IInv
<1>3. ASSUME NEW x \in Requests
      PROVE  SessionsOK' /\ RequestOK(req[x])'
  <2>1. RequestOK(req[x]) /\ req[x] \in Request /\ req'[x] = req[x]
    BY DEF IInv, RequestsOK, RequestOK
  <2>2. req'[x] = [req[x] EXCEPT !.held = req'[x].held] /\ req[x].who \in Nat
    BY <2>1, AccountsAssumption DEF Request
  <2>3. Asks(req[x]) => Grant(req[x], rows') \subseteq req'[x].held
    BY <1>1, <2>1, <2>2, NewAccountGrantsNothing DEF RequestOK
  <2> QED
    BY <1>1, <1>2, <2>1, <2>2, <2>3, AccountsMove
<1>4. SessionsOK'
  <2>1. Len(rows) \in Nat /\ Len(rows') \in Nat
    BY <1>1, RowFacts DEF IInv
  <2>2. \A t \in Tokens : sessions[t].user \in Nat /\ sessions[t].user <= Len(rows)
    BY DEF IInv, SessionsOK, Session
  <2> QED
    BY <1>2, <2>1, <2>2 DEF IInv, SessionsOK, table
<1> QED
  BY <1>1, <1>3, <1>4 DEF IInv, RequestsOK

\* Steps of commands that leave the accounts alone.
LEMMA CommandKeeps ==
  ASSUME IInv, CommandsOK', rows' = rows, UNCHANGED <<table, now, req>>
  PROVE  IInv'
<1> USE DEF table
<1>1. RowsOK' /\ SessionsOK'
  BY DEF IInv, RowsOK, SessionsOK
<1>2. ASSUME NEW x \in Requests PROVE RequestOK(req[x])'
  <2>1. RequestOK(req[x])
    BY DEF IInv, RequestsOK
  <2> QED
    BY <2>1 DEF RequestOK, Asks, AsksOwn, Grant, DeadEnds, Ended, Known, Manages, ShowsHeld
<1> QED
  BY <1>1, <1>2 DEF IInv, RequestsOK

\* A line of the seed file makes a user.
LEMMA SeedUserType ==
  ASSUME NEW line \in DOMAIN SeedFile
  PROVE  /\ SeedUser(line) \in User
         /\ SeedFile[line].password \in Passwords \cup {NoPassword}
<1>1. SeedFile \in Seq([name : Names, branch : Branches \cup {NoBranch},
                        password : Passwords \cup {NoPassword}])
  BY AccountsAssumption
<1>2. SeedFile[line] \in [name : Names, branch : Branches \cup {NoBranch},
                          password : Passwords \cup {NoPassword}]
  BY <1>1, LenProperties, ElementOfSeq
<1> QED
  BY <1>2 DEF SeedUser, User, Roles

\* The commands keep the invariant.
LEMMA CommandStepKeeps ==
  ASSUME IInv, NEW t \in Terminals, CommandStep(t), UNCHANGED <<table, now, req>>
  PROVE  IInv'
<1>0. CommandsOK /\ cmd[t] \in Command /\ NoCommand \in Command /\ NoCommand.pc = "none"
  <2>1. Len(SeedFile) \in Nat
    BY AccountsAssumption, LenProperties
  <2> QED
    BY <2>1 DEF IInv, CommandsOK, NoCommand, Command
<1>1. ASSUME cmd' = [cmd EXCEPT ![t] = NoCommand] PROVE CommandsOK'
  BY <1>0, <1>1 DEF CommandsOK, Line
<1>2. CASE CountAdmins(t)
  <2>1. CommandsOK'
    BY <1>0, <1>2 DEF CountAdmins, CommandsOK, Command, Line
  <2> QED
    BY <1>2, <2>1, CommandKeeps DEF CountAdmins
<1>3. ASSUME NEW password \in Passwords, InsertAdmin(t, password) PROVE IInv'
  <2>1. FirstAdmin \in User
    BY AccountsAssumption DEF FirstAdmin, User, Roles
  <2> QED
    BY <1>1, <1>3, <2>1, InsertKeeps DEF InsertAdmin
<1>4. CASE SeedSkip(t)
  BY <1>0, <1>4, NextLineOK, CommandKeeps DEF SeedSkip, AtRow
<1>5. CASE SeedMiss(t)
  <2>1. CommandsOK'
    BY <1>0, <1>5 DEF SeedMiss, AtRow, CommandsOK, Command, Line
  <2> QED
    BY <1>5, <2>1, CommandKeeps DEF SeedMiss
<1>6. CASE SeedInsert(t)
  <2>1. Line(t) \in DOMAIN SeedFile /\ CommandsOK'
    BY <1>0, <1>6, NextLineOK DEF SeedInsert, CommandsOK
  <2>2. CASE Insert(SeedUser(Line(t)), SeedFile[Line(t)].password)
    BY <2>1, <2>2, SeedUserType, InsertKeeps
  <2>3. CASE UNCHANGED rows
    BY <2>1, <2>3, CommandKeeps
  <2> QED
    BY <1>6, <2>2, <2>3 DEF SeedInsert
<1>7. CASE CommandEnds(t)
  BY <1>1, <1>7, CommandKeeps DEF CommandEnds
<1> QED
  BY <1>2, <1>3, <1>4, <1>5, <1>6, <1>7 DEF CommandStep

\* What a saved form does to the accounts.
LEMMA SaveFacts ==
  ASSUME IInv, NEW r \in Requests, Save(r)
  PROVE  /\ RowsOK' /\ Len(rows) <= Len(rows')
         /\ DOMAIN rows \subseteq DOMAIN rows'
         /\ \A i \in DOMAIN rows : rows'[i] # rows[i] => i = req[r].form.id
         /\ UniqueUsernames => UniqueUsernames'
         /\ req[r].pc = "save" /\ "ALL" \in req[r].held
<1> DEFINE f == req[r].form
<1>1. req[r].pc = "save" /\ req[r] \in Request /\ "ALL" \in req[r].held
  BY DEF Save, IInv, RequestsOK, RequestOK, Manages
<1>2. RowsOK /\ Len(rows) \in Nat
  BY RowFacts DEF IInv
<1>3. f \in Forms \cup {NoForm}
  BY <1>1 DEF Request
<1>4. NoForm.id = 0 /\ NoForm.password = NoPassword
  BY DEF NoForm
<1>5. \A form \in Forms : /\ form.user \in User /\ form.id \in 0..MaxRows
                          /\ form.password \in Passwords \cup {NoPassword}
  BY SessionsAssumption DEF Form
<1>6. CASE f.id = 0
  <2>1. Insert(f.user, f.password)
    BY <1>6 DEF Save
  <2>2. f.password # NoPassword
    BY <2>1 DEF Insert, Valid
  <2>3. f \in Forms
    BY <1>3, <1>4, <2>2
  <2>4. /\ RowsOK' /\ Len(rows') = Len(rows) + 1 /\ DOMAIN rows \subseteq DOMAIN rows'
        /\ \A i \in DOMAIN rows : rows'[i] = rows[i]
        /\ UniqueUsernames => UniqueUsernames'
    BY <1>2, <1>5, <2>1, <2>3, InsertFacts
  <2> QED
    BY <1>1, <1>2, <2>4
<1>7. CASE f.id # 0
  <2>1. Update(f.id, f.user, f.password) /\ f \in Forms
    BY <1>3, <1>4, <1>7 DEF Save
  <2>2. /\ RowsOK' /\ Len(rows') = Len(rows) /\ DOMAIN rows' = DOMAIN rows
        /\ \A i \in DOMAIN rows : rows'[i] # rows[i] => i = f.id
        /\ UniqueUsernames => UniqueUsernames'
    BY <1>2, <1>5, <2>1, UpdateFacts
  <2> QED
    BY <1>1, <1>2, <2>2
<1> QED
  BY <1>6, <1>7

\* A form that is saved keeps the invariant.
LEMMA SaveKeeps ==
  ASSUME IInv, NEW r \in Requests, Save(r)
  PROVE  IInv'
<1>1. RowsOK' /\ Len(rows) <= Len(rows')
  BY SaveFacts
<1>2. /\ cmd' = cmd /\ UNCHANGED <<table, now>>
      /\ req' = [Watched(req, rows') EXCEPT ![r] = NoRequest]
  BY DEF Save
<1>3. CommandsOK'
  BY <1>2 DEF IInv, CommandsOK, Line
<1>4. \A q : Grant(q, rows') \subseteq Branches \cup {"ALL"}
  <2>1. ASSUME NEW i \in DOMAIN rows' PROVE BranchOf(rows'[i].user) \in Branches \cup {"ALL"}
    <3>1. rows'[i] \in Account
      BY <1>1, LenProperties, ElementOfSeq DEF RowsOK
    <3> QED
      BY <1>1, <3>1 DEF RowsOK, BranchOf, Account, User, Roles
  <2> QED
    BY <2>1 DEF Grant
<1>5. req'[r] = NoRequest /\ req' = [x \in Requests |-> req'[x]]
  BY <1>2 DEF Watched
<1>6. ASSUME NEW x \in Requests, x # r
      PROVE  SessionsOK' /\ RequestOK(req[x])'
  <2>1. req'[x] = [req[x] EXCEPT !.held = @ \cup Grant(req[x], rows')]
    BY <1>2, <1>6 DEF Watched
  <2>2. req[x] \in Request
    BY DEF IInv, RequestsOK, RequestOK
  <2>3. req'[x].held = req[x].held \cup Grant(req[x], rows')
    BY <2>1, <2>2 DEF Request
  <2>4. req'[x] \in Request
    BY <1>4, <2>1, <2>2 DEF Request
  <2>5. req'[x] = [req[x] EXCEPT !.held = req'[x].held]
    BY <2>1, <2>2, <2>3
  <2> QED
    BY <1>1, <1>2, <1>3, <2>3, <2>4, <2>5, AccountsMove
<1>7. SessionsOK'
  <2>1. Len(rows) \in Nat /\ Len(rows') \in Nat
    BY <1>1, RowFacts, LenProperties DEF IInv, RowsOK
  <2>2. \A t \in Tokens : sessions[t].user \in Nat /\ sessions[t].user <= Len(rows)
    BY DEF IInv, SessionsOK, Session
  <2> QED
    BY <1>1, <1>2, <2>1, <2>2 DEF IInv, SessionsOK, table
<1>8. RequestOK(req[r])'
  BY <1>2, <1>5, <1>7, IdleOK, SessionsAssumption DEF SessionsOK, table
<1> QED
  BY <1>1, <1>3, <1>5, <1>6, <1>7, <1>8 DEF IInv, RequestsOK

-----------------------------------------------------------------------------
(* The theorems. *)

\* At first there are neither accounts nor sessions.
LEMMA InitOK ==
  ASSUME Init
  PROVE  IInv
<1>1. /\ rows = <<>> /\ cmd = [t \in Terminals |-> NoCommand] /\ now = 1 /\ issued = 0
      /\ sessions = [t \in Tokens |-> NoSession]
      /\ req = [r \in Requests |-> NoRequest] /\ lease = [t \in Tokens |-> 0]
  BY DEF Init, AccountsInit
<1>2. rows \in Seq(Account) /\ Len(rows) = 0 /\ DOMAIN rows = {}
  BY <1>1, EmptySeq, LenProperties
<1>3. RowsOK
  BY <1>2, AccountsAssumption DEF RowsOK
<1>4. Len(SeedFile) \in Nat
  BY AccountsAssumption, LenProperties
<1>5. NoCommand \in Command /\ NoCommand.pc = "none"
  BY <1>4 DEF NoCommand, Command
<1>6. CommandsOK
  BY <1>1, <1>5 DEF CommandsOK
<1>7. NoSession \in Session /\ NoSession.user = 0
  BY SessionsAssumption, AccountsAssumption DEF Session, NoSession
<1>8. 0 \in 0..MaxTime + TTL /\ 1 \in 1..MaxTime /\ 0 \in 0..MaxToken
  BY SessionsAssumption
<1>9. SessionsOK
  BY <1>1, <1>2, <1>7, <1>8 DEF SessionsOK
<1>10. \A r \in Requests : RequestOK(req[r])
  <2>1. NoRequest.pc = "idle" /\ NoRequest.token = 0 /\ NoRequest.dead = FALSE
    BY DEF NoRequest
  <2> QED
    BY <1>1, <2>1, EmptyRequest DEF RequestOK, Asks, Known, Manages
<1>11. req = [r \in Requests |-> req[r]]
  BY <1>1
<1> QED
  BY <1>3, <1>6, <1>9, <1>10, <1>11 DEF IInv, RequestsOK

\* The invariant is inductive.
LEMMA NextKeeps ==
  ASSUME IInv, [Next]_vars
  PROVE  IInv'
<1>1. CASE UNCHANGED vars
  <2>1. CommandsOK' /\ rows' = rows /\ UNCHANGED <<table, now, req>>
    BY <1>1 DEF vars, table, IInv, CommandsOK, Line
  <2> QED
    BY <2>1, CommandKeeps
<1>2. ASSUME NEW t \in Terminals, CommandStep(t), UNCHANGED <<table, now, req>>
      PROVE  IInv'
  BY <1>2, CommandStepKeeps
<1>3. ASSUME NEW r \in Requests, RequestStep(r) PROVE IInv'
  <2>1. CASE Begin(r) \/ Credentials(r)
    BY <2>1, BeginKeeps, CredentialsKeeps
  <2>2. CASE Issue(r) \/ Logout(r)
    BY <2>2, IssueKeeps, LogoutKeeps
  <2>3. CASE Lookup(r) \/ Authenticate(r) \/ Administer(r) \/ Base(r)
    BY <2>3, LookupKeeps, AuthenticateKeeps, AdministerKeeps, BaseKeeps
  <2>4. CASE CheckCSRF(r) \/ Find(r) \/ Save(r)
    BY <2>4, CheckCSRFKeeps, FindKeeps, SaveKeeps
  <2>5. CASE CSRFRefused(r) \/ SaveRefused(r) \/ Fails(r)
    BY <2>5, GivingUpKeeps
  <2> QED
    BY <1>3, <2>1, <2>2, <2>3, <2>4, <2>5 DEF RequestStep
<1>4. CASE Tick
  BY <1>4, TickKeeps
<1> QED
  BY <1>1, <1>2, <1>3, <1>4 DEF Next

\* The inductive invariant holds in every state: a request under way knows the
\* account of its own session, and its record of what that account was allowed
\* (held) covers what the account is allowed now.
THEOREM Invariant == Spec => []IInv
<1>1. Init => IInv
  BY InitOK
<1>2. IInv /\ [Next]_vars => IInv'
  BY NextKeeps
<1> QED
  BY <1>1, <1>2, PTL DEF Spec

\* Every variable of the accounts, the sessions and the requests keeps its type.
THEOREM TypeCorrect == Spec => []TypeOK
<1>1. IInv => TypeOK
  BY DEF IInv, RowsOK, CommandsOK, SessionsOK, RequestsOK, RequestOK, TypeOK, AccountsTypeOK
<1> QED
  BY <1>1, Invariant, PTL

\* A request that arrives after its session was ended by logout, by a login that
\* replaced it or by time never gets past RequireAuth (auth.go current and User).
THEOREM EndedStaysShut == Spec => []EndedIsShut
<1>1. IInv => EndedIsShut
  BY DEF IInv, RequestsOK, RequestOK, DeadEnds, EndedIsShut
<1> QED
  BY <1>1, Invariant, PTL

\* Whatever a page shows was allowed to the account of the request's session at
\* some moment of the request (auth.go User, RequireAdmin; app.go base).
THEOREM ShownWasHeld == Spec => []ShownAsHeld
<1>1. IInv => ShownAsHeld
  BY DEF IInv, RequestsOK, RequestOK, ShowsHeld, ShownAsHeld
<1> QED
  BY <1>1, Invariant, PTL

\* The accounts change by a saved form and by the inserts of the commands only.
LEMMA RowsMove ==
  ASSUME IInv, [Next]_vars
  PROVE  \/ rows' = rows
         \/ \E r \in Requests : Save(r)
         \/ \E t \in Terminals, user \in User, password \in Passwords \cup {NoPassword} :
              /\ Insert(user, password)
              /\ user.role = "USER" \/ (user = FirstAdmin /\ cmd[t].pc = "insertAdmin")
<1>1. CASE UNCHANGED vars
  BY <1>1 DEF vars
<1>2. ASSUME NEW t \in Terminals, CommandStep(t)
      PROVE  \/ rows' = rows
             \/ \E user \in User, password \in Passwords \cup {NoPassword} :
                  /\ Insert(user, password)
                  /\ user.role = "USER" \/ (user = FirstAdmin /\ cmd[t].pc = "insertAdmin")
  <2>1. CASE CountAdmins(t) \/ SeedSkip(t) \/ SeedMiss(t) \/ CommandEnds(t)
    BY <2>1 DEF CountAdmins, SeedSkip, SeedMiss, CommandEnds
  <2>2. ASSUME NEW password \in Passwords, InsertAdmin(t, password)
        PROVE  Insert(FirstAdmin, password) /\ cmd[t].pc = "insertAdmin" /\ FirstAdmin \in User
    BY <2>2, AccountsAssumption DEF InsertAdmin, FirstAdmin, User, Roles
  <2>3. CASE SeedInsert(t)
    <3>1. Line(t) \in DOMAIN SeedFile
      BY <2>3 DEF SeedInsert, IInv, CommandsOK
    <3>2. /\ SeedUser(Line(t)) \in User
          /\ SeedFile[Line(t)].password \in Passwords \cup {NoPassword}
          /\ SeedUser(Line(t)).role = "USER"
      BY <3>1, SeedUserType DEF SeedUser
    <3>3. Insert(SeedUser(Line(t)), SeedFile[Line(t)].password) \/ rows' = rows
      BY <2>3 DEF SeedInsert
    <3> QED
      BY <3>2, <3>3
  <2> QED
    BY <1>2, <2>1, <2>2, <2>3 DEF CommandStep
<1>3. ASSUME NEW r \in Requests, RequestStep(r), ~Save(r) PROVE rows' = rows
  BY <1>3 DEF RequestStep, Begin, Credentials, Issue, Lookup, Authenticate, Administer,
              Base, CheckCSRF, CSRFRefused, Logout, Find, SaveRefused, Fails, accounts
<1>4. CASE Tick
  BY <1>4 DEF Tick, accounts
<1> QED
  BY <1>1, <1>2, <1>3, <1>4 DEF Next

\* However commands and forms create or rename accounts at the same time, no
\* username is given twice (store.go Save under the unique key; seed.go).
THEOREM UsernamesUnique == Spec => []UniqueUsernames
<1>1. Init => UniqueUsernames
  BY EmptySeq DEF Init, AccountsInit, UniqueUsernames
<1>2. IInv /\ UniqueUsernames /\ [Next]_vars => UniqueUsernames'
  <2> SUFFICES ASSUME IInv, UniqueUsernames, [Next]_vars PROVE UniqueUsernames'
    OBVIOUS
  <2>1. CASE rows' = rows
    BY <2>1 DEF UniqueUsernames
  <2>2. ASSUME NEW r \in Requests, Save(r) PROVE UniqueUsernames'
    BY <2>2, SaveFacts
  <2>3. ASSUME NEW user \in User, NEW password \in Passwords \cup {NoPassword},
               Insert(user, password)
        PROVE  UniqueUsernames'
    BY <2>3, InsertFacts DEF IInv
  <2> QED
    BY <2>1, <2>2, <2>3, RowsMove
<1> QED
  BY <1>1, <1>2, Invariant, PTL DEF Spec

\* A saved form ends its request.
LEMMA SaveEnds ==
  ASSUME IInv, NEW r \in Requests, Save(r)
  PROVE  req'[r].pc = "idle"
BY DEF Save, Watched, NoRequest

\* An account changes only by the form of an active administrator; seeding and
\* bootstrapping change none (seed.go, store.go Save).
THEOREM AccountsKept == Spec => KeepsAccounts
<1>1. IInv /\ [Next]_vars =>
        [\A i \in DOMAIN rows :
           rows'[i] # rows[i] =>
             \E r \in Requests : /\ req[r].pc = "save" /\ req'[r].pc = "idle"
                                 /\ req[r].form.id = i /\ "ALL" \in req[r].held]_vars
  <2> SUFFICES ASSUME IInv, [Next]_vars, NEW i \in DOMAIN rows, rows'[i] # rows[i]
               PROVE  \E r \in Requests : /\ req[r].pc = "save" /\ req'[r].pc = "idle"
                                          /\ req[r].form.id = i /\ "ALL" \in req[r].held
    OBVIOUS
  <2>1. ASSUME NEW user \in User, NEW password \in Passwords \cup {NoPassword},
               Insert(user, password)
        PROVE  FALSE
    BY <2>1, InsertFacts DEF IInv
  <2>2. PICK r \in Requests : Save(r)
    BY <2>1, RowsMove
  <2> QED
    BY <2>2, SaveFacts, SaveEnds
<1> QED
  BY <1>1, Invariant, PTL DEF Spec, KeepsAccounts

\* The role of an administrator is given by an active administrator's form, or by
\* bootstrap-admin to a new account (auth.go RequireAdmin, store.go BootstrapAdmin).
THEOREM AdminsGiven == Spec => AdminsFromAdmins
<1>1. IInv /\ [Next]_vars =>
        [\A i \in DOMAIN rows' :
           rows'[i].user.role = "ADMIN" /\ ~(i \in DOMAIN rows /\ Admin(i)) =>
             \/ \E r \in Requests : /\ req[r].pc = "save" /\ req'[r].pc = "idle"
                                    /\ "ALL" \in req[r].held
             \/ i \notin DOMAIN rows /\ rows'[i].user = FirstAdmin
                /\ \E t \in Terminals : cmd[t].pc = "insertAdmin"]_vars
  <2> SUFFICES ASSUME IInv, [Next]_vars, NEW i \in DOMAIN rows',
                      rows'[i].user.role = "ADMIN", ~(i \in DOMAIN rows /\ Admin(i))
               PROVE  \/ \E r \in Requests : /\ req[r].pc = "save" /\ req'[r].pc = "idle"
                                             /\ "ALL" \in req[r].held
                      \/ i \notin DOMAIN rows /\ rows'[i].user = FirstAdmin
                         /\ \E t \in Terminals : cmd[t].pc = "insertAdmin"
    OBVIOUS
  <2>1. CASE rows' = rows
    BY <2>1 DEF Admin
  <2>2. ASSUME NEW r \in Requests, Save(r)
        PROVE  req[r].pc = "save" /\ req'[r].pc = "idle" /\ "ALL" \in req[r].held
    BY <2>2, SaveFacts, SaveEnds
  <2>3. ASSUME NEW t \in Terminals, NEW user \in User,
               NEW password \in Passwords \cup {NoPassword}, Insert(user, password),
               user.role = "USER" \/ (user = FirstAdmin /\ cmd[t].pc = "insertAdmin")
        PROVE  i \notin DOMAIN rows /\ rows'[i].user = FirstAdmin
               /\ cmd[t].pc = "insertAdmin"
    <3>1. /\ \A j \in DOMAIN rows : rows'[j] = rows[j]
          /\ \A j \in DOMAIN rows' :
               j \in DOMAIN rows \/ (j = Len(rows) + 1 /\ rows'[j].user = user)
      BY <2>3, InsertFacts DEF IInv
    <3>2. i \notin DOMAIN rows
      BY <3>1 DEF Admin
    <3> QED
      BY <2>3, <3>1, <3>2
  <2> QED
    BY <2>1, <2>2, <2>3, RowsMove
<1> QED
  BY <1>1, Invariant, PTL DEF Spec, AdminsFromAdmins

=============================================================================
