------------------------------ MODULE Accounts ------------------------------
(***************************************************************************)
(* Accounts and what is done with them: registration and login             *)
(* (auth/service.go), the routes of the server, guarded (JWT, RequireRole) *)
(* and open, and the audit trail the guarded ones leave (audit/logger.go). *)
(*                                                                         *)
(* Register is two statements without a transaction.  A guarded request    *)
(* changes something (how, is the subject of the other modules), starts a  *)
(* goroutine that writes the audit entry, and answers.  An order whose     *)
(* idempotency key names an order changes nothing and is "ok" as well.     *)
(* The goroutine uses the context of its request, which is cancelled when  *)
(* the handler returns.                                                    *)
(*                                                                         *)
(* Hashing and signing are ideal: a password matches the hash it was made  *)
(* into and no other, and a token that verifies is one that Login issued.  *)
(***************************************************************************)
EXTENDS Integers, Sequences

CONSTANTS
    Handlers,
    Emails,
    Passwords,
    Empty,      \* the empty password
    Grants,     \* the roles an operator gives, and to which users
    MaxUsers,   \* bound on the rows of users
    MaxOps,     \* bound on the requests that reach the database
    Faults      \* what may fail: "db", "crash"

Roles == {"user", "vendor", "admin"}
Users == 1..MaxUsers
Ops   == 1..MaxOps
User  == [email: Emails, password: Passwords, role: Roles]
Token == [sub: Users, role: Roles]

ASSUME AccountsAssumption ==
    /\ MaxUsers \in Nat
    /\ MaxOps \in Nat
    /\ Grants \subseteq Token
    /\ Faults \subseteq {"db", "crash"}

VARIABLES
    users,        \* the rows of users; a row's id is its place
    wallets,      \* how many rows of wallets a user has
    registered,   \* history: users whose registration was answered with 201
    proved,       \* history: whose password was presented to Login, and the
                  \* role the account had then
    tokens,       \* the tokens issued so far
    pc,           \* control state of each handler
    user,         \* the user it has inserted, 0 if none
    op,           \* the number of its request, 0 if none
    asked,        \* history: route and caller of each request
    done,         \* history: the requests that have changed something
    entry,        \* Entry.Status of the request's audit entry, "none" if none
    logging,      \* entries whose goroutine is still at work
    audit         \* entries that are rows of audit_logs

accounts == <<users, wallets, registered>>
logins   == <<proved, tokens>>
handler  == <<pc, user, op>>
trail    == <<asked, done, entry, logging, audit>>
vars     == <<accounts, logins, handler, trail>>

OrderRoutes == {"order.create", "order.renew"}
Guarded     == OrderRoutes \cup {"catalog.create", "panel.add", "wallet.topup"}

\* Routes without JWT: provision, suspend and resume of proxy/handler.go, and
\* the Router's vendorCreate.
Open == {"service", "vendor.create"}

Request == [route: Guarded \cup Open, sub: 0..MaxUsers]

\* No request has this number yet.
Nothing == [route |-> "none", sub |-> 0]

\* userMW, vendMW, adminMW: who may use a route.
Allowed(route) ==
    CASE route \in OrderRoutes                      -> Roles
      [] route \in {"catalog.create", "panel.add"}  -> {"vendor", "admin"}
      [] route = "wallet.topup"                     -> {"admin"}

\* The two order routes also log a request that failed.
LogsErrors(route) == route \in OrderRoutes

Goto(h, label) == pc' = [pc EXCEPT ![h] = label]

\* The handler returns; its request's context is cancelled.
Return(h) ==
    /\ Goto(h, "idle")
    /\ user' = [user EXCEPT ![h] = 0]
    /\ op' = [op EXCEPT ![h] = 0]

Init ==
    /\ users = <<>>
    /\ wallets = [u \in Users |-> 0]
    /\ registered = {}
    /\ proved = {}
    /\ tokens = {}
    /\ pc = [h \in Handlers |-> "idle"]
    /\ user = [h \in Handlers |-> 0]
    /\ op = [h \in Handlers |-> 0]
    /\ asked = [n \in Ops |-> Nothing]
    /\ done = {}
    /\ entry = [n \in Ops |-> "none"]
    /\ logging = {}
    /\ audit = {}

----------------------------------------------------------------------------
\* The ids of the users with this e-mail address.
ByEmail(e) == {u \in 1..Len(users) : users[u].email = e}

\* HashPassword returns no error.
Hashable(p) == p # Empty

ComparePassword(u, p) == p # Empty /\ users[u].password = p

\* The UNIQUE constraint on users.email.
Taken(e) == ByEmail(e) # {}

\* Mutant: the role is not set.
CreateUserNoRole(e, p) ==
    /\ Len(users) < MaxUsers
    /\ ~Taken(e)
    /\ users' = Append(users, [email |-> e, password |-> p, role |-> ""])

\* UserRepository.Create, as Register calls it.
CreateUser(e, p) ==
    /\ Len(users) < MaxUsers
    /\ ~Taken(e)
    /\ users' = Append(users, [email |-> e, password |-> p, role |-> "user"])

\* Register inserts the user.  If the answer is lost it gives up.
RegisterUser(h, e, p) ==
    /\ pc[h] = "idle"
    /\ Hashable(p)
    /\ CreateUser(e, p)
    /\ \/ /\ Goto(h, "wallet")
          /\ user' = [user EXCEPT ![h] = Len(users) + 1]
       \/ "db" \in Faults /\ UNCHANGED <<pc, user>>
    /\ UNCHANGED <<wallets, registered, logins, op, trail>>

\* EnsureForUser.  Its ON CONFLICT clause never applies: the constraint is
\* on (user_id, vendor_id), vendor_id is NULL here, and NULLs are distinct.
EnsureForUser(u) == wallets' = [wallets EXCEPT ![u] = @ + 1]

\* Mutant: an insert that failed is tried again.
RegisterWalletRetried(h) ==
    /\ pc[h] = "wallet"
    /\ \/ /\ EnsureForUser(user[h])
          /\ registered' = registered \cup {user[h]}
          /\ Return(h)
       \/ /\ "db" \in Faults
          /\ EnsureForUser(user[h]) \/ UNCHANGED wallets
          /\ UNCHANGED <<registered, handler>>
    /\ UNCHANGED <<users, logins, trail>>

\* Register inserts the wallet and the answer is sent.  The insert may fail,
\* or take effect although its answer is lost; the user stays either way.
RegisterWallet(h) ==
    /\ pc[h] = "wallet"
    /\ \/ /\ EnsureForUser(user[h])
          /\ registered' = registered \cup {user[h]}
       \/ /\ "db" \in Faults
          /\ EnsureForUser(user[h]) \/ UNCHANGED wallets
          /\ UNCHANGED registered
    /\ Return(h)
    /\ UNCHANGED <<users, logins, trail>>

\* SignJWT
SignJWT(u) == [sub |-> u, role |-> users[u].role]

\* Mutant: the caller gets a token although the password is wrong.
LoginUnchecked(e, p) ==
    /\ \E u \in ByEmail(e) :
        /\ tokens' = tokens \cup {SignJWT(u)}
        /\ proved' = IF ComparePassword(u, p) THEN proved \cup {SignJWT(u)} ELSE proved
    /\ UNCHANGED <<accounts, handler, trail>>

\* Login is one read.  With a wrong password the answer holds an empty
\* token, which no guarded route accepts.  A token stays good, and keeps the
\* role the account had: parseJWT does not look at its exp, nor at the row.
Login(e, p) ==
    /\ \E u \in ByEmail(e) :
        /\ ComparePassword(u, p)
        /\ tokens' = tokens \cup {SignJWT(u)}
        /\ proved' = proved \cup {SignJWT(u)}
    /\ UNCHANGED <<accounts, handler, trail>>

\* An operator changes the role of an account; the program has no route for it.
SetRole(u, role) ==
    /\ u <= Len(users)
    /\ users' = [users EXCEPT ![u].role = role]
    /\ UNCHANGED <<wallets, registered, logins, handler, trail>>

----------------------------------------------------------------------------
\* parseJWT accepts what Login has signed.
parseJWT(t) == t \in tokens

RequireRole(t, route) == t.role \in Allowed(route)

\* JWT and RequireRole let the request through.
Authorized(t, route) == parseJWT(t) /\ RequireRole(t, route)

\* Request n asks for this.
Ask(n, route, sub) == asked' = [asked EXCEPT ![n] = [route |-> route, sub |-> sub]]

\* The caller has placed an order.
Ordered(sub) == \E m \in done : asked[m].route \in OrderRoutes /\ asked[m].sub = sub

\* A guarded request makes its change, or fails.  After a lost answer the
\* change is made and the handler takes it for failed.  A request to order
\* whose key names an order its caller has placed is answered with that order.
Perform(h, t, route, n) ==
    /\ pc[h] = "idle"
    /\ Authorized(t, route)
    /\ Ask(n, route, t.sub)
    /\ op' = [op EXCEPT ![h] = n]
    /\ \/ done' = done \cup {n} /\ Goto(h, "ok")
       \/ route = "order.create" /\ Ordered(t.sub) /\ UNCHANGED done /\ Goto(h, "ok")
       \/ UNCHANGED done /\ Goto(h, "error")
       \/ "db" \in Faults /\ done' = done \cup {n} /\ Goto(h, "error")
    /\ UNCHANGED <<accounts, logins, user, entry, logging, audit>>

\* A request on an open route: nobody is asked who they are, nothing is logged.
PerformOpen(route, n) ==
    /\ Ask(n, route, 0)
    /\ done' = done \cup {n}
    /\ UNCHANGED <<accounts, logins, handler, entry, logging, audit>>

\* The handler gets to one of its calls of auditor.Log.
Logs(h) ==
    \/ pc[h] = "ok"
    \/ pc[h] = "error" /\ LogsErrors(asked[op[h]].route)

\* Mutant: the entry is put together before the result is looked at.
LogOk(h) ==
    /\ Logs(h)
    /\ entry' = [entry EXCEPT ![op[h]] = "ok"]
    /\ logging' = logging \cup {op[h]}
    /\ Goto(h, "answer")
    /\ UNCHANGED <<accounts, logins, user, op, asked, done, audit>>

\* FromRequest and Logger.Log: the entry gets its status and a goroutine.
Log(h) ==
    /\ Logs(h)
    /\ entry' = [entry EXCEPT ![op[h]] = pc[h]]
    /\ logging' = logging \cup {op[h]}
    /\ Goto(h, "answer")
    /\ UNCHANGED <<accounts, logins, user, op, asked, done, audit>>

Answer(h) ==
    /\ pc[h] = "answer" \/ (pc[h] = "error" /\ ~Logs(h))
    /\ Return(h)
    /\ UNCHANGED <<accounts, logins, trail>>

\* The context of a request is cancelled.
Cancelled(n) == \A h \in Handlers : op[h] # n

\* The goroutine's INSERT is sent before the context is cancelled.
WriteEntry(n) ==
    /\ n \in logging
    /\ ~Cancelled(n)
    /\ audit' = audit \cup {n}
    /\ logging' = logging \ {n}
    /\ UNCHANGED <<accounts, logins, handler, asked, done, entry>>

\* The INSERT fails: the context is cancelled, or the database is away.
LoseEntry(n) ==
    /\ n \in logging
    /\ Cancelled(n) \/ "db" \in Faults
    /\ logging' = logging \ {n}
    /\ UNCHANGED <<accounts, logins, handler, asked, done, entry, audit>>

\* The process dies, with every handler and goroutine.
Crash ==
    /\ "crash" \in Faults
    /\ pc' = [h \in Handlers |-> "idle"]
    /\ user' = [h \in Handlers |-> 0]
    /\ op' = [h \in Handlers |-> 0]
    /\ logging' = {}
    /\ UNCHANGED <<accounts, logins, asked, done, entry, audit>>

----------------------------------------------------------------------------
\* Requests are numbered in the order they reach the database.
Fresh(n) == asked[n] = Nothing /\ \A m \in 1..(n - 1) : asked[m] # Nothing

Next ==
    \/ \E h \in Handlers :
        \/ \E e \in Emails, p \in Passwords : RegisterUser(h, e, p)
        \/ \E t \in tokens, route \in Guarded, n \in Ops :
             Fresh(n) /\ Perform(h, t, route, n)
        \/ RegisterWallet(h) \/ Log(h) \/ Answer(h)
    \/ \E route \in Open, n \in Ops : Fresh(n) /\ PerformOpen(route, n)
    \/ \E e \in Emails, p \in Passwords : Login(e, p)
    \/ \E g \in Grants : SetRole(g.sub, g.role)
    \/ \E n \in Ops : WriteEntry(n) \/ LoseEntry(n)
    \/ Crash

Spec == Init /\ [][Next]_vars

----------------------------------------------------------------------------
TypeOK ==
    /\ users \in Seq(User) /\ Len(users) <= MaxUsers
    /\ wallets \in [Users -> Nat]
    /\ registered \in SUBSET Users
    /\ proved \in SUBSET Token
    /\ tokens \in SUBSET Token
    /\ pc \in [Handlers -> {"idle", "wallet", "ok", "error", "answer"}]
    /\ user \in [Handlers -> 0..MaxUsers]
    /\ op \in [Handlers -> 0..MaxOps]
    /\ asked \in [Ops -> Request \cup {Nothing}]
    /\ done \in SUBSET Ops
    /\ entry \in [Ops -> {"none", "ok", "error"}]
    /\ logging \in SUBSET Ops
    /\ audit \in SUBSET Ops

\* A user who was told "registered" has a wallet, and no user ever has two:
\* DeductTx and ApplyTransaction would pick any of them.
OneWalletPerUser ==
    /\ \A u \in Users : wallets[u] <= 1
    /\ \A u \in registered : wallets[u] = 1

\* Every change made through a guarded route was made in the name of an account
\* whose password had been presented when its role allowed the route.  That is
\* as much as a token says: the account's role may have changed since.
ChangesAccountable ==
    \A n \in done : asked[n].route \in Guarded =>
        \E role \in Allowed(asked[n].route) : [sub |-> asked[n].sub, role |-> role] \in proved

\* What an "ok" stands for: the request has changed something, or it was an
\* order and its caller has placed an order that it is a duplicate of.
Backed(n) == n \in done \/ (asked[n].route = "order.create" /\ Ordered(asked[n].sub))

\* What the audit trail calls "ok" has happened, in this request or in the one
\* it repeats, wherever requests fail, lose an answer or die (the entry is
\* logged after the change, with the status the handler has arrived at).
AuditTruthful ==
    \A n \in audit : entry[n] = "ok" => Backed(n)

\* "Proxy service routes (JWT required)" (internal/http/server.go:193): what is
\* changed through them is changed by somebody who has logged in.
\* Handler.Register puts no middleware before its handlers.
ServiceRoutesNeedLogin ==
    \A n \in done : asked[n].route = "service" =>
        \E role \in Roles : [sub |-> asked[n].sub, role |-> role] \in proved

----------------------------------------------------------------------------
\* The inductive invariant.

\* A registration between its two statements: the user is its own and has
\* no wallet yet.
Registering(h) ==
    pc[h] = "wallet" =>
        /\ user[h] \in 1..Len(users)
        /\ wallets[user[h]] = 0
        /\ \A g \in Handlers \ {h} : pc[g] = "wallet" => user[g] # user[h]

\* Wallets belong to users that exist.
WalletsOwned == \A u \in Users : wallets[u] # 0 => u <= Len(users)

\* A token was issued to somebody who knew its account's password.
TokensGenuine == tokens \subseteq proved

\* A handler that is about to report on its request, and how it went.
Reporting(h) ==
    /\ pc[h] \in {"ok", "error"} => op[h] \in Ops
    /\ pc[h] = "ok" => Backed(op[h])

\* An entry says "ok" only after the change.
EntriesTruthful == \A n \in Ops : entry[n] = "ok" => Backed(n)

IndInv ==
    /\ TypeOK
    /\ OneWalletPerUser
    /\ WalletsOwned
    /\ \A h \in Handlers : Registering(h) /\ Reporting(h)
    /\ TokensGenuine
    /\ ChangesAccountable
    /\ EntriesTruthful

=============================================================================
