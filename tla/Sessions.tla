------------------------------ MODULE Sessions ------------------------------
(***************************************************************************)
(* Sessions, access control and the pages of user management               *)
(* (internal/http/middleware/auth.go, internal/http/handler/users.go and   *)
(* base, login and logout of app.go) over the accounts of Accounts.        *)
(*                                                                         *)
(* A request asks "who is this" up to three times (RequireAuth,            *)
(* RequireAdmin, the handler), each time in two steps: the session under   *)
(* the lock, then the account in the database.  Other requests, commands   *)
(* and the clock move in between.  The token of a session stands for its   *)
(* CSRF token too: both are drawn once, for that session alone.            *)
(***************************************************************************)
EXTENDS Accounts

CONSTANTS Requests,   \* requests served at the same time
          Kinds,      \* the kinds of requests that each of them makes
          Forms,      \* the user forms that are submitted
          Scopes,     \* values of the branch parameter
          MaxToken,   \* bound on sessions
          TTL,        \* a session's eight hours: ticks it outlives
          MaxTime     \* bound on the clock

Tokens == 1..MaxToken
NoToken == 0
Form == [id : 0..MaxRows, user : User, password : Passwords \cup {NoPassword}]
\* "post" stands for POST /logout and POST /refresh, alike up to their CSRF check.
Asking == {"page", "kinerja", "users"}
AllKinds == Asking \cup {"save", "post", "login"}

ASSUME SessionsAssumption ==
  /\ MaxToken \in Nat /\ MaxTime \in Nat \ {0} /\ TTL \in Nat
  /\ Kinds \in [Requests -> SUBSET AllKinds]
  /\ Forms \subseteq Form
  /\ "ALL" \notin Branches /\ Scopes \subseteq Branches \cup {"ALL"}

VARIABLES now,        \* the clock
          issued,     \* tokens drawn
          sessions,   \* Sessions.tokens
          req,        \* the requests
          lease       \* history: when a session was to end, 0 once it was ended

vars == <<rows, cmd, now, issued, sessions, req, lease>>
accounts == <<rows, cmd>>
table == <<issued, sessions, lease>>

NoSession == [user |-> 0, expires |-> 0]
Session == [user : 0..MaxRows, expires : 0..MaxTime + TTL]

\* The zero middleware.User.
NoUser == [name |-> "", role |-> "", branch |-> NoBranch, active |-> FALSE]

NoForm == [id |-> 0, user |-> NoUser, password |-> NoPassword]
NoRequest == [kind |-> "none", pc |-> "idle", token |-> NoToken, scope |-> "",
              form |-> NoForm, uid |-> 0, who |-> 0,
              held |-> {}, dead |-> FALSE]

Init ==
  /\ AccountsInit
  /\ now = 1 /\ issued = 0
  /\ sessions = [t \in Tokens |-> NoSession]
  /\ req = [r \in Requests |-> NoRequest]
  /\ lease = [t \in Tokens |-> 0]

-----------------------------------------------------------------------------
(* What a request is entitled to, recorded as history. *)

\* The session of the token was ended by logout, rotation or time.
Ended(t) == t = NoToken \/ lease[t] = 0 \/ lease[t] < now

\* What the account of the request's session allows in this table.
Grant(q, accs) ==
  {BranchOf(accs[i].user) : i \in {j \in {q.who} \cap DOMAIN accs :
                                     accs[j].user.active}}

\* The requests under way, each with what its account has allowed so far.
Watched(qs, accs) ==
  [r \in Requests |-> [qs[r] EXCEPT !.held = @ \cup Grant(qs[r], accs)]]

Step(r, q) == req' = [req EXCEPT ![r] = q]
Goto(r, pc) == Step(r, [req[r] EXCEPT !.pc = pc])
Leave(r) == Step(r, NoRequest)

-----------------------------------------------------------------------------
(* Sessions. *)

Stored(t) == t # NoToken /\ sessions[t] # NoSession

\* Mutant of Live: what the table still has is taken for valid.
LiveUnswept(t) == Stored(t)

\* current: the table has the session and its time is not over.
Live(t) == Stored(t) /\ now <= sessions[t].expires

\* A request arrives, with a session cookie or none.
Begin(r) ==
  /\ req[r].pc \in {"idle", "shown"}
  /\ \E kind \in Kinds[r] \ {"login"}, t \in 0..issued,
        s \in Scopes \cup {NoBranch} :
       /\ (s = NoBranch) = (kind \notin {"page", "kinerja"})
       /\ LET q == [NoRequest EXCEPT
                      !.kind = kind, !.pc = "auth", !.token = t, !.scope = s,
                      !.dead = Ended(t),
                      !.who = IF t = NoToken THEN 0 ELSE sessions[t].user]
          IN Step(r, [q EXCEPT !.held = Grant(q, rows)])
  /\ UNCHANGED <<accounts, table, now>>

\* POST /login: username and password of an active account, with the cookie the
\* browser has. Any other login, or an error of the database, changes nothing.
Credentials(r) ==
  /\ req[r].pc \in {"idle", "shown"} /\ "login" \in Kinds[r]
  /\ \E name \in Names, password \in Passwords, i \in DOMAIN rows, t \in 0..issued :
       /\ rows[i].user.name = name /\ rows[i].password = password
       /\ rows[i].user.active
       /\ Step(r, [NoRequest EXCEPT !.kind = "login", !.pc = "issue",
                                    !.token = t, !.uid = i])
  /\ UNCHANGED <<accounts, table, now>>

Fresh == issued + 1

\* Mutant of Issue: the session of the old cookie stays.
IssueBeside(r) ==
  /\ req[r].pc = "issue" /\ Fresh \in Tokens
  /\ sessions' = [sessions EXCEPT ![Fresh] =
                    [user |-> req[r].uid, expires |-> now + TTL]]
  /\ issued' = Fresh
  /\ lease' = [t \in Tokens |-> IF t = Fresh THEN now + TTL
                                ELSE IF t = req[r].token THEN 0 ELSE lease[t]]
  /\ Leave(r)
  /\ UNCHANGED <<accounts, now>>

\* Under the lock: sweep what expired, drop the old cookie's session, add one.
Issue(r) ==
  /\ req[r].pc = "issue" /\ Fresh \in Tokens
  /\ sessions' = [t \in Tokens |->
       IF t = Fresh THEN [user |-> req[r].uid, expires |-> now + TTL]
       ELSE IF t = req[r].token \/ ~Live(t) THEN NoSession ELSE sessions[t]]
  /\ issued' = Fresh
  /\ lease' = [t \in Tokens |-> IF t = Fresh THEN now + TTL
                                ELSE IF t = req[r].token THEN 0 ELSE lease[t]]
  /\ Leave(r)
  /\ UNCHANGED <<accounts, now>>

\* Logout, after its CSRF check.
Logout(r) ==
  /\ req[r].pc = "logout"
  /\ sessions' = [t \in Tokens |->
                    IF t = req[r].token THEN NoSession ELSE sessions[t]]
  /\ lease' = [t \in Tokens |-> IF t = req[r].token THEN 0 ELSE lease[t]]
  /\ Leave(r)
  /\ UNCHANGED <<accounts, issued, now>>

-----------------------------------------------------------------------------
(* Sessions.User: the session, then the account. *)

ReadOf == [auth |-> "authRead", admin |-> "adminRead", base |-> "baseRead"]

Lookup(r) ==
  /\ req[r].pc \in DOMAIN ReadOf
  /\ Step(r, [req[r] EXCEPT
       !.pc = ReadOf[req[r].pc],
       !.uid = IF Live(req[r].token) THEN sessions[req[r].token].user ELSE 0])
  /\ UNCHANGED <<accounts, table, now>>

\* Mutant of Answers: an account that was deactivated is still answered.
AnswersAnyone(q) ==
  {NoUser} \cup {rows[i].user : i \in {q.uid} \cap DOMAIN rows}

\* ByID of an active account; no user without a session, for an inactive account
\* or when the query fails.
Answers(q) ==
  {NoUser} \cup {rows[i].user : i \in {j \in {q.uid} \cap DOMAIN rows :
                                         rows[j].user.active}}

\* RequireAuth: /nominatif and the pages go to base, user management to
\* RequireAdmin.
AfterAuth == [page |-> "base", kinerja |-> "base", users |-> "admin",
              save |-> "admin", post |-> "csrf"]

Authenticate(r) ==
  /\ req[r].pc = "authRead"
  /\ \E user \in Answers(req[r]) :
       IF user = NoUser THEN Leave(r)
       ELSE Step(r, [req[r] EXCEPT !.pc = AfterAuth[req[r].kind], !.uid = 0])
  /\ UNCHANGED <<accounts, table, now>>

\* What the page or the list shows; the request is over.
Shown(q, scope) ==
  [NoRequest EXCEPT !.kind = q.kind, !.pc = "shown", !.scope = scope,
                    !.held = q.held, !.dead = q.dead]

\* Mutant of Administer: any user that is still there may manage users.
AdministerAny(r) ==
  /\ req[r].pc = "adminRead"
  /\ \E user \in Answers(req[r]) :
       IF user = NoUser THEN Leave(r)
       ELSE IF req[r].kind = "save"
            THEN Step(r, [req[r] EXCEPT !.pc = "csrf", !.uid = 0])
            ELSE Step(r, Shown(req[r], "ALL"))
  /\ UNCHANGED <<accounts, table, now>>

\* RequireAdmin: an administrator gets the list (or a form), or may save one.
Administer(r) ==
  /\ req[r].pc = "adminRead"
  /\ \E user \in Answers(req[r]) :
       IF user.role # "ADMIN" THEN Leave(r)
       ELSE IF req[r].kind = "save"
            THEN Step(r, [req[r] EXCEPT !.pc = "csrf", !.uid = 0])
            ELSE Step(r, Shown(req[r], "ALL"))
  /\ UNCHANGED <<accounts, table, now>>

\* Mutant of Scope: only a user of role USER is held to a branch.
ScopeOfUsers(q, user) ==
  IF user.role = "USER" /\ q.kind # "kinerja" THEN user.branch ELSE q.scope

\* base: whoever is no administrator any more gets the account's branch, which is
\* no branch at all when there is no account to read.
Scope(q, user) ==
  IF user.role # "ADMIN" /\ q.kind # "kinerja" THEN BranchOf(user) ELSE q.scope

\* base does not ask whether User succeeded.
Base(r) ==
  /\ req[r].pc = "baseRead"
  /\ \E user \in Answers(req[r]) :
       Step(r, Shown(req[r], Scope(req[r], user)))
  /\ UNCHANGED <<accounts, table, now>>

-----------------------------------------------------------------------------
(* Forms. *)

\* CheckCSRF: the session is looked up again, and the form was rendered for it.
\* What POST /refresh does from there changes nothing here: it triggers a job of
\* Refresh, or answers that one runs or that the page's filter is invalid.
CheckCSRF(r) ==
  /\ req[r].pc = "csrf" /\ Live(req[r].token)
  /\ \/ req[r].kind = "post" /\ Goto(r, "logout")
     \/ req[r].kind = "post" /\ Leave(r)
     \/ /\ req[r].kind = "save"
        /\ \E f \in Forms : Step(r, [req[r] EXCEPT !.pc = "find", !.form = f])
  /\ UNCHANGED <<accounts, table, now>>

\* The form is another session's or the session is over.
CSRFRefused(r) ==
  /\ req[r].pc = "csrf"
  /\ Leave(r)
  /\ UNCHANGED <<accounts, table, now>>

\* saveUser: an edited user must exist.
Find(r) ==
  /\ req[r].pc = "find"
  /\ IF req[r].form.id \in {0} \cup DOMAIN rows THEN Goto(r, "save") ELSE Leave(r)
  /\ UNCHANGED <<accounts, table, now>>

\* Save and the redirect to the list.
Save(r) ==
  /\ req[r].pc = "save"
  /\ LET f == req[r].form IN
       IF f.id = 0 THEN Insert(f.user, f.password)
       ELSE Update(f.id, f.user, f.password)
  /\ req' = [Watched(req, rows') EXCEPT ![r] = NoRequest]
  /\ UNCHANGED <<cmd, table, now>>

\* The form with a message, or an error page.
SaveRefused(r) ==
  /\ req[r].pc = "save"
  /\ Refused(req[r].form.id, req[r].form.user, req[r].form.password)
  /\ Leave(r)
  /\ UNCHANGED <<accounts, table, now>>

\* An error of the database, or nobody waits for the answer any more.
Fails(r) ==
  /\ req[r].pc \in {"find", "save", "issue"}
  /\ Leave(r)
  /\ UNCHANGED <<accounts, table, now>>

-----------------------------------------------------------------------------

Tick ==
  /\ now < MaxTime
  /\ now' = now + 1
  /\ UNCHANGED <<accounts, table, req>>

RequestStep(r) ==
  \/ Begin(r) \/ Credentials(r) \/ Issue(r)
  \/ Lookup(r) \/ Authenticate(r) \/ Administer(r) \/ Base(r)
  \/ CheckCSRF(r) \/ CSRFRefused(r) \/ Logout(r) \/ Find(r) \/ Save(r)
  \/ SaveRefused(r) \/ Fails(r)

Next ==
  \/ \E t \in Terminals : CommandStep(t) /\ UNCHANGED <<table, now, req>>
  \/ \E r \in Requests : RequestStep(r)
  \/ Tick

Spec == Init /\ [][Next]_vars

-----------------------------------------------------------------------------

PCs == {"idle", "shown", "issue", "csrf", "logout", "find", "save"}
       \cup DOMAIN ReadOf \cup {ReadOf[p] : p \in DOMAIN ReadOf}
Request == [kind : AllKinds \cup {"none"}, pc : PCs, token : 0..MaxToken,
            scope : Scopes \cup Branches \cup {"ALL", NoBranch},
            form : Forms \cup {NoForm}, uid : 0..MaxRows,
            who : 0..MaxRows, held : SUBSET (Branches \cup {"ALL"}),
            dead : BOOLEAN]

TypeOK ==
  /\ AccountsTypeOK
  /\ now \in 1..MaxTime
  /\ issued \in 0..MaxToken
  /\ sessions \in [Tokens -> Session]
  /\ lease \in [Tokens -> 0..MaxTime + TTL]
  /\ req \in [Requests -> Request]

\* A request that arrives after its session was ended by logout, by a login that
\* replaced it or by eight hours gets past RequireAuth no more, however the
\* other requests of that session overlap (README: sessions expire after eight
\* hours or logout; users_test.go: "old session retained access").
EndedIsShut ==
  \A r \in Requests : req[r].dead => req[r].pc \in {"idle", "auth", "authRead"}

\* What a page or the list of users shows was allowed to the account of the
\* request's session at some moment of the request, while the account was active;
\* Kinerja shows any branch, and to nobody else than such an account (README:
\* USER accounts are restricted to their branch except on Kinerja).
ShownAsHeld ==
  \A r \in Requests : req[r].pc = "shown" =>
    /\ req[r].held # {}
    /\ req[r].kind = "users" => "ALL" \in req[r].held
    /\ req[r].kind = "page" /\ req[r].scope # NoBranch =>
         {req[r].scope, "ALL"} \cap req[r].held # {}

\* An account that exists changes only by the form of a request whose account was
\* an active administrator's during it, and never by seeding (seed.go: "Existing
\* accounts are never changed").
KeepsAccounts ==
  [][\A i \in DOMAIN rows :
       rows'[i] # rows[i] =>
         \E r \in Requests : /\ req[r].pc = "save" /\ req'[r].pc = "idle"
                             /\ req[r].form.id = i /\ "ALL" \in req[r].held]_vars

\* An administrator comes from an administrator: an account gets the role in a
\* form sent by an active administrator, or by bootstrap-admin run when there was
\* none (no other way round RequireAdmin leads to the role).
AdminsFromAdmins ==
  [][\A i \in DOMAIN rows' :
       rows'[i].user.role = "ADMIN" /\ ~(i \in DOMAIN rows /\ Admin(i)) =>
         \/ \E r \in Requests : /\ req[r].pc = "save" /\ req'[r].pc = "idle"
                                /\ "ALL" \in req[r].held
         \/ i \notin DOMAIN rows /\ rows'[i].user = FirstAdmin
            /\ \E t \in Terminals : cmd[t].pc = "insertAdmin"]_vars

=============================================================================
