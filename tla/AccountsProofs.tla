--------------------------- MODULE AccountsProofs ---------------------------
(***************************************************************************)
(* Safety of accounts, guarded requests and their audit trail for any      *)
(* number of handlers, addresses, users and requests.                      *)
(***************************************************************************)
EXTENDS Accounts, TLAPS

\* What Append does to the rows of users.
LEMMA AppendRow ==
    ASSUME NEW s \in Seq(User), NEW x \in User
    PROVE  /\ Append(s, x) \in Seq(User)
           /\ Len(Append(s, x)) = Len(s) + 1
           /\ \A i \in 1..Len(s) : Append(s, x)[i] = s[i]
           /\ Append(s, x)[Len(s) + 1] = x
  OBVIOUS

\* The bounds, apart from what is assumed of the staff's rows.
LEMMA Bounds == MaxUsers \in Nat /\ MaxOps \in Nat
  BY AccountsAssumption

\* A row has a role.
LEMMA RowRole == \A x \in User : x.role \in Roles
  BY DEF User

\* A row with another role is a row.
LEMMA NewRole ==
    ASSUME NEW x \in User, NEW role \in Roles
    PROVE  [x EXCEPT !.role = role] \in User
  BY DEF User

\* Backed depends on what was asked and done, and more of either keeps it.
LEMMA BackedStable ==
    ASSUME NEW n \in Ops, Backed(n), asked \in [Ops -> Request \cup {Nothing}],
           done \in SUBSET Ops, done \subseteq done',
           \A m \in Ops : asked[m] # Nothing => asked'[m] = asked[m]
    PROVE  Backed(n)'
  <1>1. CASE n \in done
    BY <1>1 DEF Backed
  <1>2. CASE asked[n].route = "order.create" /\ Ordered(asked[n].sub)
    <2>1. asked[n] # Nothing /\ asked'[n] = asked[n]
      BY <1>2 DEF Nothing
    <2>2. PICK m \in done : asked[m].route \in OrderRoutes /\ asked[m].sub = asked[n].sub
      BY <1>2 DEF Ordered
    <2>3. m \in Ops /\ asked[m] # Nothing
      BY <2>2 DEF Nothing, OrderRoutes
    <2>4. asked'[m] = asked[m] /\ m \in done'
      BY <2>3
    <2>5. QED
      BY <1>2, <2>1, <2>2, <2>4 DEF Backed, Ordered
  <1>3. QED
    BY <1>1, <1>2 DEF Backed

\* Whatever leaves requests, logins and their trail alone keeps what is said
\* about them.
LEMMA SameTrail ==
    ASSUME IndInv, UNCHANGED <<asked, done, entry, proved, tokens>>
    PROVE  /\ TokensGenuine' /\ ChangesAccountable' /\ EntriesTruthful'
           /\ \A n \in Ops : Backed(n) => Backed(n)'
  BY DEF IndInv, TokensGenuine, ChangesAccountable, EntriesTruthful, Backed, Ordered

\* The invariant holds when the server starts.
LEMMA InitInd == Init => IndInv
  <1> SUFFICES ASSUME Init PROVE IndInv
    OBVIOUS
  <1> USE DEF Init
  <1>1. TypeOK
    <2>1. users \in Seq(User) /\ Len(users) <= MaxUsers
      BY Bounds
    <2>2. /\ wallets \in [Users -> Nat]
          /\ user \in [Handlers -> 0..MaxUsers]
          /\ op \in [Handlers -> 0..MaxOps]
      BY Bounds
    <2>3. QED
      BY <2>1, <2>2 DEF TypeOK
  <1>2. OneWalletPerUser /\ WalletsOwned
    BY DEF OneWalletPerUser, WalletsOwned
  <1>3. \A h \in Handlers : Registering(h) /\ Reporting(h)
    BY DEF Registering, Reporting
  <1>4. TokensGenuine /\ ChangesAccountable /\ EntriesTruthful
    BY DEF TokensGenuine, ChangesAccountable, EntriesTruthful
  <1>5. QED
    BY <1>1, <1>2, <1>3, <1>4 DEF IndInv

\* A new user takes an id that was unused.
LEMMA RegisterUserInd ==
    ASSUME IndInv, NEW h \in Handlers, NEW e \in Emails, NEW p \in Passwords,
           RegisterUser(h, e, p)
    PROVE  IndInv'
  <1> DEFINE row == [email |-> e, password |-> p, role |-> "user"]
  <1> USE Bounds DEF IndInv
  <1>1. /\ users' = Append(users, row)
        /\ Len(users) < MaxUsers
        /\ UNCHANGED <<wallets, registered, proved, tokens, op>>
        /\ UNCHANGED <<asked, done, entry, logging, audit>>
    BY DEF RegisterUser, CreateUser, logins, trail
  <1>2. row \in User /\ users \in Seq(User) /\ Len(users) \in Nat
    BY DEF User, Roles, TypeOK
  <1>3. /\ users' \in Seq(User)
        /\ Len(users') = Len(users) + 1
        /\ \A i \in 1..Len(users) : users'[i] = users[i]
        /\ users'[Len(users) + 1] = row
    BY <1>1, <1>2, AppendRow
  <1>4. /\ pc[h] = "idle"
        /\ \/ /\ pc' = [pc EXCEPT ![h] = "wallet"]
              /\ user' = [user EXCEPT ![h] = Len(users) + 1]
           \/ pc' = pc /\ user' = user
    BY DEF RegisterUser, Goto
  <1> HIDE DEF row
  <1>5. TypeOK'
    <2>1. pc' \in [Handlers -> {"idle", "wallet", "ok", "error", "answer"}]
      BY <1>4 DEF TypeOK
    <2>2. user' \in [Handlers -> 0..MaxUsers]
      <3>1. Len(users) + 1 \in 0..MaxUsers
        BY <1>1, <1>2
      <3>2. user \in [Handlers -> 0..MaxUsers]
        BY DEF TypeOK
      <3>3. QED
        BY <1>4, <3>1, <3>2
    <2>3. Len(users') <= MaxUsers
      BY <1>1, <1>2, <1>3
    <2>4. QED
      BY <1>1, <1>3, <2>1, <2>2, <2>3 DEF TypeOK
  <1>7. OneWalletPerUser' /\ WalletsOwned'
    BY <1>1, <1>2, <1>3 DEF OneWalletPerUser, WalletsOwned, TypeOK, Users
  <1>8. \A g \in Handlers : Registering(g)'
    <2>1. wallets[Len(users) + 1] = 0
      BY <1>1, <1>2 DEF WalletsOwned, Users
    <2>2. \A g \in Handlers : pc[g] = "wallet" =>
             user[g] \in 1..Len(users) /\ user[g] # Len(users) + 1
      BY <1>2 DEF Registering
    <2>3. CASE /\ pc' = [pc EXCEPT ![h] = "wallet"]
               /\ user' = [user EXCEPT ![h] = Len(users) + 1]
      <3>1. /\ pc'[h] = "wallet" /\ user'[h] = Len(users) + 1
            /\ \A g \in Handlers \ {h} : pc'[g] = pc[g] /\ user'[g] = user[g]
        BY <2>3 DEF TypeOK
      <3>2. Registering(h)'
        BY <1>1, <1>2, <1>3, <2>1, <2>2, <3>1 DEF Registering
      <3>3. \A g \in Handlers \ {h} : Registering(g)'
        BY <1>1, <1>2, <1>3, <2>2, <3>1 DEF Registering
      <3>4. QED
        BY <3>2, <3>3
    <2>4. CASE pc' = pc /\ user' = user
      BY <1>1, <1>2, <1>3, <2>4 DEF Registering
    <2>5. QED
      BY <1>4, <2>3, <2>4
  <1>9. \A g \in Handlers : Reporting(g)'
    <2>1. \A g \in Handlers : pc'[g] \in {"ok", "error"} => pc'[g] = pc[g]
      BY <1>4 DEF TypeOK
    <2>2. QED
      BY <1>1, <2>1, SameTrail DEF Reporting
  <1>10. TokensGenuine' /\ ChangesAccountable' /\ EntriesTruthful'
    BY <1>1, SameTrail
  <1>11. QED
    BY <1>5, <1>7, <1>8, <1>9, <1>10

\* The wallet is the user's first: nobody else inserts one for this id.
LEMMA RegisterWalletInd ==
    ASSUME IndInv, NEW h \in Handlers, RegisterWallet(h)
    PROVE  IndInv'
  <1> USE Bounds DEF IndInv
  <1>1. /\ pc[h] = "wallet"
        /\ pc' = [pc EXCEPT ![h] = "idle"]
        /\ user' = [user EXCEPT ![h] = 0]
        /\ op' = [op EXCEPT ![h] = 0]
        /\ UNCHANGED <<users, proved, tokens, asked, done, entry, logging, audit>>
    BY DEF RegisterWallet, Return, Goto, logins, trail
  <1>2. \/ /\ wallets' = [wallets EXCEPT ![user[h]] = @ + 1]
           /\ registered' \in {registered, registered \cup {user[h]}}
        \/ wallets' = wallets /\ registered' = registered
    BY DEF RegisterWallet, EnsureForUser
  <1>3. user[h] \in 1..Len(users) /\ user[h] \in Users /\ wallets[user[h]] = 0
    BY <1>1 DEF Registering, TypeOK, Users
  <1>4. TypeOK'
    <2>1. wallets' \in [Users -> Nat] /\ registered' \in SUBSET Users
      <3>1. wallets \in [Users -> Nat] /\ registered \in SUBSET Users
        BY DEF TypeOK
      <3>2. wallets' \in [Users -> Nat]
        BY <1>2, <1>3, <3>1
      <3>3. registered' \in SUBSET Users
        BY <1>2, <1>3, <3>1
      <3>4. QED
        BY <3>2, <3>3
    <2>2. /\ pc' \in [Handlers -> {"idle", "wallet", "ok", "error", "answer"}]
          /\ user' \in [Handlers -> 0..MaxUsers]
          /\ op' \in [Handlers -> 0..MaxOps]
      BY <1>1 DEF TypeOK
    <2>3. QED
      BY <1>1, <2>1, <2>2 DEF TypeOK
  <1>5. OneWalletPerUser' /\ WalletsOwned'
    <2>1. \A u \in Users : u # user[h] => wallets'[u] = wallets[u]
      BY <1>2 DEF TypeOK
    <2>2. \/ wallets'[user[h]] = 1
          \/ wallets'[user[h]] = 0 /\ registered' = registered
      BY <1>2, <1>3 DEF TypeOK
    <2>3. registered' \subseteq registered \cup {user[h]}
      BY <1>2
    <2>4. registered \subseteq Users /\ user[h] \notin registered
      BY <1>3 DEF OneWalletPerUser, TypeOK
    <2>5. OneWalletPerUser'
      BY <1>3, <2>1, <2>2, <2>3, <2>4 DEF OneWalletPerUser
    <2>6. WalletsOwned'
      BY <1>1, <1>3, <2>1 DEF WalletsOwned
    <2>7. QED
      BY <2>5, <2>6
  <1>6. \A g \in Handlers : Registering(g)'
    BY <1>1, <1>2, <1>3 DEF Registering, TypeOK, Users
  <1>7. TokensGenuine' /\ ChangesAccountable' /\ EntriesTruthful'
    BY <1>1, SameTrail
  <1>8. \A g \in Handlers : Reporting(g)'
    <2>1. \A g \in Handlers : pc'[g] \in {"ok", "error"} =>
             pc'[g] = pc[g] /\ op'[g] = op[g]
      BY <1>1 DEF TypeOK
    <2>2. QED
      BY <1>1, <2>1, SameTrail DEF Reporting
  <1>9. QED
    BY <1>4, <1>5, <1>6, <1>7, <1>8

\* Login issues a token only for the account whose password it was given.
LEMMA LoginInd ==
    ASSUME IndInv, NEW e \in Emails, NEW p \in Passwords, Login(e, p)
    PROVE  IndInv'
  <1> USE Bounds DEF IndInv
  <1>1. PICK u \in 1..Len(users) :
          /\ tokens' = tokens \cup {[sub |-> u, role |-> users[u].role]}
          /\ proved' = proved \cup {[sub |-> u, role |-> users[u].role]}
    BY DEF Login, ByEmail, SignJWT
  <1>2. /\ UNCHANGED <<users, wallets, registered, pc, user, op>>
        /\ UNCHANGED <<asked, done, entry, logging, audit>>
    BY DEF Login, accounts, handler, trail
  <1>3. u \in Users /\ users[u].role \in Roles
    <2>1. users[u] \in User /\ Len(users) \in Nat
      BY DEF TypeOK
    <2>2. QED
      BY <2>1, RowRole DEF TypeOK, Users
  <1>4. TypeOK'
    BY <1>1, <1>2, <1>3 DEF TypeOK, Token
  <1>5. OneWalletPerUser' /\ WalletsOwned'
    BY <1>2 DEF OneWalletPerUser, WalletsOwned
  <1>6. TokensGenuine'
    BY <1>1 DEF TokensGenuine
  <1>7. ChangesAccountable'
    BY <1>1, <1>2 DEF ChangesAccountable
  <1>8. EntriesTruthful' /\ \A h \in Handlers : Registering(h)' /\ Reporting(h)'
    BY <1>2 DEF EntriesTruthful, Registering, Reporting, Backed, Ordered
  <1>9. QED
    BY <1>4, <1>5, <1>6, <1>7, <1>8

\* A new role is a matter of the row: tokens and what was done keep the old one.
LEMMA SetRoleInd ==
    ASSUME IndInv, NEW g \in Grants, SetRole(g.sub, g.role)
    PROVE  IndInv'
  <1> USE Bounds DEF IndInv
  <1>1. /\ UNCHANGED <<wallets, registered, proved, tokens, pc, user, op>>
        /\ UNCHANGED <<asked, done, entry, logging, audit>>
    BY DEF SetRole, logins, handler, trail
  <1>2. g.sub \in Users /\ g.role \in Roles
    BY AccountsAssumption DEF Token
  <1>3. users' \in Seq(User) /\ Len(users') = Len(users)
    <2>1. users \in Seq(User) /\ g.sub \in 1..Len(users)
      BY <1>2 DEF SetRole, TypeOK, Users
    <2>2. users' = [users EXCEPT ![g.sub] = [users[g.sub] EXCEPT !.role = g.role]]
      BY DEF SetRole
    <2>3. [users[g.sub] EXCEPT !.role = g.role] \in User
      <3>1. users[g.sub] \in User
        BY <2>1
      <3>2. QED
        BY <1>2, <3>1, NewRole
    <2>4. QED
      BY <2>1, <2>2, <2>3
  <1>4. TypeOK'
    BY <1>1, <1>3 DEF TypeOK
  <1>5. OneWalletPerUser' /\ WalletsOwned'
    BY <1>1, <1>3 DEF OneWalletPerUser, WalletsOwned
  <1>6. TokensGenuine' /\ ChangesAccountable' /\ EntriesTruthful'
    BY <1>1, SameTrail
  <1>7. \A h \in Handlers : Registering(h)' /\ Reporting(h)'
    BY <1>1, <1>3, SameTrail DEF Registering, Reporting
  <1>8. QED
    BY <1>4, <1>5, <1>6, <1>7

\* A request gets a number that was free, so nothing asked before is forgotten.
LEMMA AskKeeps ==
    ASSUME IndInv, NEW n \in Ops, Fresh(n), NEW route \in Guarded \cup Open,
           NEW sub \in 0..MaxUsers, Ask(n, route, sub)
    PROVE  /\ asked' \in [Ops -> Request \cup {Nothing}]
           /\ asked'[n] = [route |-> route, sub |-> sub]
           /\ \A m \in Ops : m # n => asked'[m] = asked[m]
           /\ \A m \in Ops : asked[m] # Nothing => asked'[m] = asked[m]
  <1>1. asked \in [Ops -> Request \cup {Nothing}] /\ asked[n] = Nothing
    BY DEF IndInv, TypeOK, Fresh
  <1>2. [route |-> route, sub |-> sub] \in Request
    BY DEF Request
  <1>3. QED
    BY <1>1, <1>2 DEF Ask

\* A guarded request acts in the name of a token, and its handler takes it for
\* done only with the change or with the order it repeats.
LEMMA PerformInd ==
    ASSUME IndInv, NEW h \in Handlers, NEW t \in tokens, NEW route \in Guarded,
           NEW n \in Ops, Fresh(n), Perform(h, t, route, n)
    PROVE  IndInv'
  <1> USE Bounds DEF IndInv
  <1>1. /\ pc[h] = "idle"
        /\ t.role \in Allowed(route)
        /\ Ask(n, route, t.sub)
        /\ op' = [op EXCEPT ![h] = n]
        /\ UNCHANGED <<users, wallets, registered, proved, tokens, user, entry, logging, audit>>
    BY DEF Perform, Authorized, RequireRole, accounts, logins
  <1>2. \/ done' = done \cup {n} /\ pc' = [pc EXCEPT ![h] = "ok"]
        \/ /\ route = "order.create" /\ Ordered(t.sub)
           /\ done' = done /\ pc' = [pc EXCEPT ![h] = "ok"]
        \/ done' = done /\ pc' = [pc EXCEPT ![h] = "error"]
        \/ done' = done \cup {n} /\ pc' = [pc EXCEPT ![h] = "error"]
    BY DEF Perform, Goto
  <1>3. t \in Token /\ t.sub \in Users /\ t.sub \in 0..MaxUsers
    BY DEF TypeOK, Token, Users
  <1>4. /\ asked' \in [Ops -> Request \cup {Nothing}]
        /\ asked'[n] = [route |-> route, sub |-> t.sub]
        /\ \A m \in Ops : m # n => asked'[m] = asked[m]
        /\ \A m \in Ops : asked[m] # Nothing => asked'[m] = asked[m]
    BY <1>1, <1>3, AskKeeps
  <1>5. done \subseteq done' /\ done' \subseteq done \cup {n} /\ done' \in SUBSET Ops
    BY <1>2 DEF TypeOK
  <1>6. \A m \in Ops : Backed(m) => Backed(m)'
    <2>1. asked \in [Ops -> Request \cup {Nothing}] /\ done \in SUBSET Ops
      BY DEF TypeOK
    <2>2. QED
      BY <1>4, <1>5, <2>1, BackedStable
  <1>7. TypeOK'
    <2>1. /\ pc' \in [Handlers -> {"idle", "wallet", "ok", "error", "answer"}]
          /\ op' \in [Handlers -> 0..MaxOps]
      <3>1. n \in 0..MaxOps
        BY DEF Ops
      <3>2. QED
        BY <1>1, <1>2, <3>1 DEF TypeOK
    <2>2. QED
      BY <1>1, <1>4, <1>5, <2>1 DEF TypeOK
  <1>8. OneWalletPerUser' /\ WalletsOwned' /\ TokensGenuine'
    BY <1>1 DEF OneWalletPerUser, WalletsOwned, TokensGenuine
  <1>9. \A g \in Handlers : Registering(g)'
    <2>1. \A g \in Handlers : pc'[g] = "wallet" => pc[g] = "wallet"
      BY <1>2 DEF TypeOK
    <2>2. QED
      BY <1>1, <2>1 DEF Registering
  <1>10. \A g \in Handlers : Reporting(g)'
    <2>1. \A g \in Handlers \ {h} : pc'[g] = pc[g] /\ op'[g] = op[g]
      BY <1>1, <1>2 DEF TypeOK
    <2>2. op'[h] = n /\ pc'[h] \in {"ok", "error"}
      BY <1>1, <1>2 DEF TypeOK
    <2>3. pc'[h] = "ok" => Backed(n)'
      <3>1. CASE n \in done'
        BY <3>1 DEF Backed
      <3>2. CASE route = "order.create" /\ Ordered(t.sub) /\ done' = done
        <4>1. PICK m \in done : asked[m].route \in OrderRoutes /\ asked[m].sub = t.sub
          BY <3>2 DEF Ordered
        <4>2. m \in Ops /\ asked[m] # Nothing
          BY <4>1 DEF TypeOK, Nothing, OrderRoutes
        <4>3. asked'[m] = asked[m]
          BY <1>4, <4>2
        <4>4. QED
          BY <1>4, <3>2, <4>1, <4>3 DEF Backed, Ordered
      <3>3. CASE pc' = [pc EXCEPT ![h] = "error"]
        BY <3>3 DEF TypeOK
      <3>4. QED
        BY <1>2, <3>1, <3>2, <3>3
    <2>4. Reporting(h)'
      BY <2>2, <2>3 DEF Reporting
    <2>5. \A g \in Handlers \ {h} : Reporting(g)'
      BY <1>6, <2>1 DEF Reporting
    <2>6. QED
      BY <2>4, <2>5
  <1>11. ChangesAccountable'
    <2> SUFFICES ASSUME NEW m \in done', asked'[m].route \in Guarded
                 PROVE  \E role \in Allowed(asked'[m].route) :
                           [sub |-> asked'[m].sub, role |-> role] \in proved
      BY <1>1 DEF ChangesAccountable
    <2>1. CASE m = n
      <3>1. [sub |-> t.sub, role |-> t.role] = t
        BY <1>3 DEF Token
      <3>2. QED
        BY <1>1, <1>4, <2>1, <3>1 DEF TokensGenuine
    <2>2. CASE m # n
      <3>1. m \in done /\ asked'[m] = asked[m]
        BY <1>4, <1>5, <2>2
      <3>2. QED
        BY <3>1 DEF ChangesAccountable
    <2>3. QED
      BY <2>1, <2>2
  <1>12. EntriesTruthful'
    BY <1>1, <1>6 DEF EntriesTruthful
  <1>13. QED
    BY <1>7, <1>8, <1>9, <1>10, <1>11, <1>12

\* A request on an open route is nobody's and leaves no trail.
LEMMA PerformOpenInd ==
    ASSUME IndInv, NEW route \in Open, NEW n \in Ops, Fresh(n), PerformOpen(route, n)
    PROVE  IndInv'
  <1> USE Bounds DEF IndInv
  <1>1. /\ Ask(n, route, 0)
        /\ done' = done \cup {n}
        /\ UNCHANGED <<users, wallets, registered, proved, tokens, pc, user, op>>
        /\ UNCHANGED <<entry, logging, audit>>
    BY DEF PerformOpen, accounts, logins, handler
  <1>2. /\ asked' \in [Ops -> Request \cup {Nothing}]
        /\ asked'[n] = [route |-> route, sub |-> 0]
        /\ \A m \in Ops : m # n => asked'[m] = asked[m]
        /\ \A m \in Ops : asked[m] # Nothing => asked'[m] = asked[m]
    <2>1. 0 \in 0..MaxUsers
      OBVIOUS
    <2>2. QED
      BY <1>1, <2>1, AskKeeps
  <1>3. \A m \in Ops : Backed(m) => Backed(m)'
    <2>1. asked \in [Ops -> Request \cup {Nothing}] /\ done \in SUBSET Ops
      BY DEF TypeOK
    <2>2. QED
      BY <1>1, <1>2, <2>1, BackedStable
  <1>4. TypeOK'
    BY <1>1, <1>2 DEF TypeOK
  <1>5. OneWalletPerUser' /\ WalletsOwned' /\ TokensGenuine'
    BY <1>1 DEF OneWalletPerUser, WalletsOwned, TokensGenuine
  <1>6. \A g \in Handlers : Registering(g)' /\ Reporting(g)'
    BY <1>1, <1>3 DEF Registering, Reporting
  <1>7. ChangesAccountable'
    <2>1. asked'[n].route \notin Guarded
      BY <1>2 DEF Open, Guarded, OrderRoutes
    <2>2. \A m \in done' : m = n \/ (m \in done /\ asked'[m] = asked[m])
      BY <1>1, <1>2 DEF TypeOK
    <2>3. QED
      BY <1>1, <2>1, <2>2 DEF ChangesAccountable
  <1>8. EntriesTruthful'
    BY <1>1, <1>3 DEF EntriesTruthful
  <1>9. QED
    BY <1>4, <1>5, <1>6, <1>7, <1>8

\* The entry gets the status the handler has arrived at.
LEMMA LogInd ==
    ASSUME IndInv, NEW h \in Handlers, Log(h)
    PROVE  IndInv'
  <1> USE Bounds DEF IndInv
  <1>1. /\ pc[h] \in {"ok", "error"}
        /\ entry' = [entry EXCEPT ![op[h]] = pc[h]]
        /\ logging' = logging \cup {op[h]}
        /\ pc' = [pc EXCEPT ![h] = "answer"]
        /\ UNCHANGED <<users, wallets, registered, proved, tokens, user, op>>
        /\ UNCHANGED <<asked, done, audit>>
    BY DEF Log, Logs, Goto, accounts, logins
  <1>2. op[h] \in Ops /\ (pc[h] = "ok" => Backed(op[h]))
    BY <1>1 DEF Reporting
  <1>3. \A n \in Ops : Backed(n) => Backed(n)'
    BY <1>1 DEF Backed, Ordered
  <1>4. TypeOK'
    <2>1. /\ pc' \in [Handlers -> {"idle", "wallet", "ok", "error", "answer"}]
          /\ entry' \in [Ops -> {"none", "ok", "error"}]
          /\ logging' \in SUBSET Ops
      BY <1>1, <1>2 DEF TypeOK
    <2>2. QED
      BY <1>1, <2>1 DEF TypeOK
  <1>5. OneWalletPerUser' /\ WalletsOwned' /\ TokensGenuine' /\ ChangesAccountable'
    BY <1>1 DEF OneWalletPerUser, WalletsOwned, TokensGenuine, ChangesAccountable
  <1>6. \A g \in Handlers : Registering(g)' /\ Reporting(g)'
    <2>1. \A g \in Handlers : pc'[g] = pc[g] \/ pc'[g] = "answer"
      BY <1>1 DEF TypeOK
    <2>2. QED
      BY <1>1, <1>3, <2>1 DEF Registering, Reporting
  <1>7. EntriesTruthful'
    <2>1. \A n \in Ops : entry'[n] = entry[n] \/ (n = op[h] /\ entry'[n] = pc[h])
      BY <1>1 DEF TypeOK
    <2>2. QED
      BY <1>2, <1>3, <2>1 DEF EntriesTruthful
  <1>8. QED
    BY <1>4, <1>5, <1>6, <1>7

\* Answering, writing entries and dying touch neither accounts nor changes.
LEMMA TrailInd ==
    ASSUME IndInv,
           \/ \E h \in Handlers : Answer(h)
           \/ \E n \in Ops : WriteEntry(n) \/ LoseEntry(n)
           \/ Crash
    PROVE  IndInv'
  <1> USE Bounds DEF IndInv
  <1> DEFINE Kept(h) == pc'[h] = "idle" \/ (pc'[h] = pc[h] /\ user'[h] = user[h] /\ op'[h] = op[h])
  <1>1. UNCHANGED <<users, wallets, registered, proved, tokens, asked, done, entry>>
    BY DEF Answer, WriteEntry, LoseEntry, Crash, accounts, logins, trail
  <1>2. TypeOK' /\ \A h \in Handlers : Kept(h)
    <2>1. ASSUME NEW h \in Handlers, Answer(h) PROVE TypeOK' /\ \A g \in Handlers : Kept(g)
      <3>1. /\ pc' = [pc EXCEPT ![h] = "idle"]
            /\ user' = [user EXCEPT ![h] = 0]
            /\ op' = [op EXCEPT ![h] = 0]
            /\ UNCHANGED <<logging, audit>>
        BY <2>1 DEF Answer, Return, Goto, trail
      <3>2. /\ pc' \in [Handlers -> {"idle", "wallet", "ok", "error", "answer"}]
            /\ user' \in [Handlers -> 0..MaxUsers]
            /\ op' \in [Handlers -> 0..MaxOps]
        BY <3>1 DEF TypeOK
      <3>3. TypeOK'
        BY <1>1, <3>1, <3>2 DEF TypeOK
      <3>4. QED
        BY <3>1, <3>3 DEF TypeOK
    <2>2. CASE \E n \in Ops : WriteEntry(n) \/ LoseEntry(n)
      BY <1>1, <2>2 DEF WriteEntry, LoseEntry, handler, TypeOK
    <2>3. CASE Crash
      BY <1>1, <2>3 DEF Crash, TypeOK
    <2>4. QED
      BY <2>1, <2>2, <2>3
  <1>3. \A h \in Handlers : Registering(h)'
    BY <1>1, <1>2 DEF Registering
  <1>4. \A h \in Handlers : Reporting(h)'
    BY <1>1, <1>2, SameTrail DEF Reporting
  <1>5. TokensGenuine' /\ ChangesAccountable' /\ EntriesTruthful'
    BY <1>1, SameTrail
  <1>6. OneWalletPerUser' /\ WalletsOwned'
    BY <1>1 DEF OneWalletPerUser, WalletsOwned
  <1>7. QED
    BY <1>2, <1>3, <1>4, <1>5, <1>6

\* The invariant is inductive.
THEOREM Inductive == Spec => []IndInv
  <1>1. IndInv /\ [Next]_vars => IndInv'
    <2> SUFFICES ASSUME IndInv, [Next]_vars PROVE IndInv'
      OBVIOUS
    <2>1. CASE \E h \in Handlers, e \in Emails, p \in Passwords : RegisterUser(h, e, p)
      BY <2>1, RegisterUserInd
    <2>2. CASE \E h \in Handlers : RegisterWallet(h)
      BY <2>2, RegisterWalletInd
    <2>3. CASE \E e \in Emails, p \in Passwords : Login(e, p)
      BY <2>3, LoginInd
    <2>4. CASE \E h \in Handlers, t \in tokens, route \in Guarded, n \in Ops :
                 Fresh(n) /\ Perform(h, t, route, n)
      BY <2>4, PerformInd
    <2>5. CASE \E route \in Open, n \in Ops : Fresh(n) /\ PerformOpen(route, n)
      BY <2>5, PerformOpenInd
    <2>6. CASE \E h \in Handlers : Log(h)
      BY <2>6, LogInd
    <2>7. CASE \/ \E h \in Handlers : Answer(h)
               \/ \E n \in Ops : WriteEntry(n) \/ LoseEntry(n)
               \/ Crash
      BY <2>7, TrailInd
    <2>8. CASE \E g \in Grants : SetRole(g.sub, g.role)
      BY <2>8, SetRoleInd
    <2>9. CASE UNCHANGED vars
      BY <2>9 DEF IndInv, TypeOK, OneWalletPerUser, WalletsOwned, Registering, Reporting,
                  TokensGenuine, ChangesAccountable, EntriesTruthful, Backed, Ordered,
                  vars, accounts, logins, handler, trail
    <2>10. QED
      BY <2>1, <2>2, <2>3, <2>4, <2>5, <2>6, <2>7, <2>8, <2>9 DEF Next
  <1>2. QED
    BY InitInd, <1>1, PTL DEF Spec

\* The variables of Accounts keep their types.
THEOREM TypeCorrect == Spec => []TypeOK
  <1>1. IndInv => TypeOK
    BY DEF IndInv
  <1>2. QED
    BY Inductive, <1>1, PTL

\* Nobody has two wallets, and who was told "registered" has one (Register,
\* EnsureForUser).
THEOREM WalletsUnique == Spec => []OneWalletPerUser
  <1>1. IndInv => OneWalletPerUser
    BY DEF IndInv
  <1>2. QED
    BY Inductive, <1>1, PTL

\* Every guarded change was made under an account whose password was presented
\* when its role allowed it (Login, JWT, RequireRole).
THEOREM ChangesTraced == Spec => []ChangesAccountable
  <1>1. IndInv => ChangesAccountable
    BY DEF IndInv
  <1>2. QED
    BY Inductive, <1>1, PTL

\* Audit rows that say "ok" tell the truth: about their own request, or about
\* the order it repeats (Logger.Log, Create's Duplicate).
THEOREM AuditCorrect == Spec => []AuditTruthful
  <1>1. IndInv => AuditTruthful
    BY DEF IndInv, TypeOK, EntriesTruthful, AuditTruthful
  <1>2. QED
    BY Inductive, <1>1, PTL

=============================================================================
