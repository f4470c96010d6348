---------------------------- MODULE PeopleProofs ----------------------------
(***************************************************************************)
(* What people do keeps its invariants, for any number of accounts,        *)
(* handlers, conversations and messages and any scopes of the API keys:    *)
(* Accounts, Visibility, Inbox and Requests.                               *)
(***************************************************************************)
EXTENDS Accounts, Visibility, Inbox, Requests, FiniteSetTheorems, TLAPS

----------------------------------------------------------------------------
(* Accounts. *)

DeskStates == [op : DeskOps, on : Users \cup {NoUser}, copy : UserRows, seen : Nat,
               with : Invitations \cup {NoUser}]

(* A handler at work has a user; one that takes the roles of a SUPER_ADMIN away counted  *)
(* more than one of them.  No account becomes SUPER_ADMIN once it is there.           *)
DeskOK(s) ==
    /\ s.op # "idle" => s.on \in Users
    /\ s.op \notin {"idle", "accept", "create"} => users[s.on].state # "absent"
    /\ s.op = "demote" => (users[s.on].role = "super" => s.seen > 1)

(* The counter of an account whose failures were counted right is not behind.        *)
UserOK(u) ==
    /\ u \notin miscounted => misses[u] <= users[u].fails
    /\ created[u] \in {0, 1}
    /\ users[u].state = "absent" => created[u] = 0

(* Revoking leaves a mark that every use of the token sees. *)
TokenOK(t) == tokens[t].ended => tokens[t].old \/ tokens[t].row = "revoked"

AccountsIInv ==
    /\ AccountsTypeOK /\ SuperAdminRemains
    /\ desk \in [Desks -> DeskStates] /\ misses \in [Users -> Nat]
    /\ created \in [Users -> Nat] /\ overlapped \in BOOLEAN
    /\ \A u \in Users : UserOK(u)
    /\ \A t \in Tokens : TokenOK(t)
    /\ \A d \in Desks : DeskOK(desk[d])

LEMMA AccountFacts ==
    ASSUME AccountsIInv
    PROVE  /\ users \in [Users -> UserRows] /\ tokens \in [Tokens -> TokenRows]
           /\ desk \in [Desks -> DeskStates] /\ misses \in [Users -> Nat] /\ created \in [Users -> Nat]
           /\ MaxFailures \in Nat \ {0} /\ accountOps \in 0 .. MaxAccountOps
           /\ overlapped \in BOOLEAN
           /\ \A u \in Users : users[u] \in UserRows /\ UserOK(u)
           /\ \A d \in Desks : desk[d] \in DeskStates /\ DeskOK(desk[d])
BY AccountsAssumption DEF AccountsIInv, AccountsTypeOK

(* What every step does to the accounts. *)
UsersKept ==
    /\ users' \in [Users -> UserRows] /\ misses' \in [Users -> Nat] /\ created' \in [Users -> Nat]
    /\ \A u \in Users : UserOK(u)'
    /\ \A u \in Users : users[u].state # "absent" =>
         users'[u].state # "absent" /\ (users'[u].role = "super" => users[u].role = "super")

LEMMA SameUsers ==
    ASSUME AccountsIInv, UNCHANGED <<users, misses, miscounted, created>>
    PROVE  UsersKept
BY AccountFacts DEF UsersKept, UserOK

(* A step that rewrites one account. *)
LEMMA OneUser ==
    ASSUME AccountsIInv, NEW u \in Users, NEW row \in UserRows, NEW m \in Nat, NEW n \in Nat,
           users' = [users EXCEPT ![u] = row], misses' = [misses EXCEPT ![u] = m],
           created' = [created EXCEPT ![u] = n], miscounted \subseteq miscounted',
           u \notin miscounted' => m <= row.fails, n \in {0, 1},
           row.state = "absent" => n = 0,
           users[u].state # "absent" =>
             row.state # "absent" /\ (row.role = "super" => users[u].role = "super")
    PROVE  UsersKept
<1>1. /\ users' \in [Users -> UserRows] /\ misses' \in [Users -> Nat] /\ created' \in [Users -> Nat]
      /\ users'[u] = row /\ misses'[u] = m /\ created'[u] = n
      /\ \A v \in Users \ {u} : users'[v] = users[v] /\ misses'[v] = misses[v] /\ created'[v] = created[v]
  BY AccountFacts
<1>2. \A v \in Users : UserOK(v)'
  BY <1>1, AccountFacts DEF UserOK
<1> QED BY <1>1, <1>2 DEF UsersKept

LEMMA AfterFailureRow ==
    ASSUME NEW r \in UserRows, NEW c \in UserRows
    PROVE  LET n == c.fails + 1
               row == AfterFailure(r, c)
           IN  /\ row \in UserRows /\ row.state = r.state /\ row.role = r.role
               /\ row.fails = IF n >= MaxFailures THEN 0 ELSE n
               /\ n \in 1 .. MaxFailures
<1>1. PICK st \in {"absent", "active", "disabled"}, ro \in {"super", "admin", "member"},
           f \in 0 .. MaxFailures - 1, l \in {"no", "held", "past"} :
           r = [state |-> st, role |-> ro, fails |-> f, locked |-> l]
  BY DEF UserRows
<1>2. MaxFailures \in Nat \ {0} /\ c.fails \in 0 .. MaxFailures - 1
  BY AccountsAssumption DEF UserRows
<1>3. PICK n \in 1 .. MaxFailures : n = c.fails + 1
  BY <1>2
<1>4. CASE n >= MaxFailures
  <2>1. AfterFailure(r, c) = [state |-> st, role |-> ro, fails |-> 0, locked |-> "held"]
    BY <1>1, <1>3, <1>4 DEF AfterFailure
  <2> QED BY <2>1, <1>1, <1>2, <1>3, <1>4 DEF UserRows
<1>5. CASE ~(n >= MaxFailures)
  <2>1. AfterFailure(r, c) = [state |-> st, role |-> ro, fails |-> n, locked |-> l]
    BY <1>1, <1>3, <1>5 DEF AfterFailure
  <2>2. n \in 0 .. MaxFailures - 1
    BY <1>2, <1>5
  <2> QED BY <2>1, <2>2, <1>1, <1>2, <1>3, <1>5 DEF UserRows
<1> QED BY <1>4, <1>5

LEMMA RegisterFailureKeeps ==
    ASSUME AccountsIInv, NEW d \in Desks, RegisterFailure(d)
    PROVE  UsersKept
<1>1. PICK s \in DeskStates : s = desk[d]
  BY AccountFacts
<1>2. PICK u \in Users : u = s.on
  BY <1>1, AccountFacts DEF RegisterFailure, DeskOK
<1>3. PICK r \in UserRows, c \in UserRows, h \in Nat : r = users[u] /\ c = s.copy /\ h = misses[u]
  BY AccountFacts DEF DeskStates
<1>4. PICK row \in UserRows : row = AfterFailure(r, c)
  BY AfterFailureRow
<1>5. /\ row.state = r.state /\ row.role = r.role
      /\ row.fails = IF c.fails + 1 >= MaxFailures THEN 0 ELSE c.fails + 1
      /\ c.fails + 1 \in 1 .. MaxFailures /\ MaxFailures \in Nat \ {0}
  BY <1>4, AfterFailureRow, AccountFacts
<1>6. PICK m \in Nat : m = IF row.fails = 0 THEN 0 ELSE h + 1
  OBVIOUS
<1>7. /\ users' = [users EXCEPT ![u] = row] /\ misses' = [misses EXCEPT ![u] = m]
      /\ miscounted' = (IF r.fails = c.fails THEN miscounted ELSE miscounted \cup {u})
      /\ UNCHANGED created
  BY <1>1, <1>2, <1>3, <1>4, <1>6 DEF RegisterFailure
<1>8. PICK n \in {0, 1} : n = created[u] /\ (r.state = "absent" => n = 0)
  BY <1>3, AccountFacts DEF UserOK
<1>9. u \notin miscounted => h <= r.fails
  BY <1>3, AccountFacts DEF UserOK
<1>10. u \notin miscounted' => m <= row.fails
  <2>1. r.fails \in Nat /\ c.fails \in Nat
    BY DEF UserRows
  <2> QED BY <2>1, <1>5, <1>6, <1>7, <1>9
<1>11. created' = [created EXCEPT ![u] = n] /\ miscounted \subseteq miscounted'
  BY <1>7, <1>8, AccountFacts
<1>12. /\ row.state = "absent" => n = 0
       /\ users[u].state # "absent" =>
            row.state # "absent" /\ (row.role = "super" => users[u].role = "super")
  BY <1>3, <1>5, <1>8
<1>13. n \in Nat
  OBVIOUS
<1> QED BY <1>7, <1>10, <1>11, <1>12, <1>13, OneUser

LEMMA RegisterSuccessKeeps ==
    ASSUME AccountsIInv, NEW d \in Desks, RegisterSuccess(d)
    PROVE  UsersKept
<1>1. PICK s \in DeskStates : s = desk[d]
  BY AccountFacts
<1>2. PICK u \in Users : u = s.on
  BY <1>1, AccountFacts DEF RegisterSuccess, DeskOK
<1>3. PICK r \in UserRows, c \in UserRows, h \in Nat : r = users[u] /\ c = s.copy /\ h = misses[u]
  BY AccountFacts DEF DeskStates
<1>4. PICK f \in 0 .. MaxFailures - 1, l \in {"no", "held", "past"} :
           /\ f = (IF c.fails = 0 THEN r.fails ELSE 0)
           /\ l = IF c.locked = "no" THEN r.locked ELSE "no"
  <2>1. r.fails \in 0 .. MaxFailures - 1 /\ 0 \in 0 .. MaxFailures - 1 /\ r.locked \in {"no", "held", "past"}
    BY AccountsAssumption DEF UserRows
  <2> QED BY <2>1
<1>5. PICK row \in UserRows : row = [r EXCEPT !.fails = f, !.locked = l]
  BY DEF UserRows
<1>6. row.state = r.state /\ row.role = r.role /\ row.fails = f
  BY <1>5 DEF UserRows
<1>7. PICK m \in Nat : m = IF c.fails = 0 THEN h ELSE 0
  OBVIOUS
<1>8. users' = [users EXCEPT ![u] = row] /\ misses' = [misses EXCEPT ![u] = m]
      /\ UNCHANGED <<created, miscounted>>
  BY <1>1, <1>2, <1>3, <1>4, <1>5, <1>7, AccountFacts DEF RegisterSuccess
<1>9. PICK n \in {0, 1} : n = created[u] /\ (r.state = "absent" => n = 0)
  BY <1>3, AccountFacts DEF UserOK
<1>10. u \notin miscounted => h <= r.fails
  BY <1>3, AccountFacts DEF UserOK
<1>11. u \notin miscounted' => m <= row.fails
  BY <1>4, <1>6, <1>7, <1>8, <1>10
<1>12. created' = [created EXCEPT ![u] = n] /\ miscounted \subseteq miscounted'
  BY <1>8, <1>9, AccountFacts
<1>13. /\ row.state = "absent" => n = 0
       /\ users[u].state # "absent" =>
            row.state # "absent" /\ (row.role = "super" => users[u].role = "super")
  BY <1>3, <1>6, <1>9
<1>14. n \in Nat
  OBVIOUS
<1> QED BY <1>8, <1>11, <1>12, <1>13, <1>14, OneUser

\* A step that leaves the counter of one account and its existence as they were.
LEMMA OneRow ==
    ASSUME AccountsIInv, NEW u \in Users, NEW row \in UserRows, users[u].state # "absent",
           users' = [users EXCEPT ![u] = row], UNCHANGED <<misses, miscounted, created>>,
           row.fails = users[u].fails, row.state # "absent",
           row.role = "super" => users[u].role = "super"
    PROVE  UsersKept
<1>1. PICK m \in Nat, n \in {0, 1} : m = misses[u] /\ n = created[u] /\ (u \notin miscounted => m <= row.fails)
  BY AccountFacts DEF UserOK
<1>2. misses' = [misses EXCEPT ![u] = m] /\ created' = [created EXCEPT ![u] = n] /\ n \in Nat
      /\ miscounted \subseteq miscounted' /\ (u \notin miscounted' => m <= row.fails)
      /\ (row.state = "absent" => n = 0)
  BY <1>1, AccountFacts
<1> QED BY <1>1, <1>2, OneUser

LEMMA AccountRow ==
    ASSUME NEW role \in {"super", "admin", "member"}
    PROVE  Account(role) \in UserRows /\ Account(role).state = "active" /\ Account(role).fails = 0
           /\ Account(role).role = role
<1>1. 0 \in 0 .. MaxFailures - 1
  BY AccountsAssumption
<1>2. Account(role) = [state |-> "active", role |-> role, fails |-> 0, locked |-> "no"]
  BY DEF Account
<1>3. Account(role) \in UserRows
  BY <1>1, <1>2 DEF UserRows
<1> QED BY <1>2, <1>3

LEMMA NewAccount ==
    ASSUME AccountsIInv, NEW u \in Users, NEW row \in UserRows, row.state = "active", row.fails = 0,
           users[u] = Absent, users' = [users EXCEPT ![u] = row],
           NEW n, n = created[u] + 1, created' = [created EXCEPT ![u] = n],
           UNCHANGED <<misses, miscounted>>
    PROVE  UsersKept
<1>1. users[u].state = "absent" /\ users[u].fails = 0
  BY DEF Absent
<1>2. PICK m \in Nat : m = misses[u] /\ (u \notin miscounted => m <= row.fails)
  BY <1>1, AccountFacts DEF UserOK
<1>3. n = 1 /\ n \in Nat
  BY <1>1, AccountFacts DEF UserOK
<1>4. /\ misses' = [misses EXCEPT ![u] = m] /\ n \in {0, 1}
      /\ miscounted \subseteq miscounted' /\ (u \notin miscounted' => m <= row.fails)
      /\ (row.state = "absent" => n = 0)
      /\ (users[u].state # "absent" => row.state # "absent" /\ (row.role = "super" => users[u].role = "super"))
  BY <1>1, <1>2, <1>3, AccountFacts
<1> QED BY <1>3, <1>4, OneUser

\* The user a handler that is not about to insert an account works on.
LEMMA DeskUser ==
    ASSUME AccountsIInv, NEW d \in Desks, desk[d].op \notin {"idle", "accept", "create"}
    PROVE  desk[d].on \in Users /\ users[desk[d].on].state # "absent"
BY AccountFacts DEF DeskOK, DeskStates

LEMMA StatusKeeps ==
    ASSUME AccountsIInv, NEW d \in Desks, DisableCommit(d) \/ EnableCommit(d) \/ SetRolesCommit(d)
    PROVE  UsersKept
<1>1. PICK u \in Users : u = desk[d].on /\ users[u].state # "absent"
  BY DeskUser DEF DisableCommit, EnableCommit, SetRolesCommit
<1>2. PICK r \in UserRows : r = users[u]
  BY AccountFacts
<1>3. UNCHANGED <<misses, miscounted, created>>
  BY DEF DisableCommit, EnableCommit, SetRolesCommit
<1>4. PICK row \in UserRows : /\ users' = [users EXCEPT ![u] = row] /\ row.fails = r.fails
                              /\ row.state # "absent" /\ (row.role = "super" => r.role = "super")
  <2>1. CASE DisableCommit(d)
    <3>1. PICK row \in UserRows : row = [r EXCEPT !.state = "disabled"]
      BY DEF UserRows
    <3>2. row.fails = r.fails /\ row.state = "disabled" /\ row.role = r.role
      BY <3>1 DEF UserRows
    <3> QED BY <2>1, <1>1, <1>2, <3>1, <3>2, AccountFacts DEF DisableCommit
  <2>2. CASE EnableCommit(d)
    <3>1. PICK row \in UserRows : row = [r EXCEPT !.state = "active"]
      BY DEF UserRows
    <3>2. row.fails = r.fails /\ row.state = "active" /\ row.role = r.role
      BY <3>1 DEF UserRows
    <3> QED BY <2>2, <1>1, <1>2, <3>1, <3>2, AccountFacts DEF EnableCommit
  <2>3. CASE SetRolesCommit(d)
    <3>1. PICK role \in {"admin", "member"} : users' = [users EXCEPT ![u].role = role]
      BY <2>3, <1>1 DEF SetRolesCommit
    <3>2. PICK row \in UserRows : row = [r EXCEPT !.role = role]
      BY DEF UserRows
    <3>3. row.fails = r.fails /\ row.state = r.state /\ row.role = role
      BY <3>2 DEF UserRows
    <3> QED BY <1>1, <1>2, <3>1, <3>2, <3>3, AccountFacts
  <2> QED BY <2>1, <2>2, <2>3
<1> QED BY <1>1, <1>2, <1>3, <1>4, OneRow

LEMMA LockExpiresKeeps ==
    ASSUME AccountsIInv, NEW u \in Users, LockExpires(u)
    PROVE  UsersKept
<1>1. PICK r \in UserRows : r = users[u] /\ (r.state = "absent" => created[u] = 0)
  BY AccountFacts DEF UserOK
<1>2. PICK row \in UserRows : row = [r EXCEPT !.locked = "past"]
  BY DEF UserRows
<1>3. row.fails = r.fails /\ row.state = r.state /\ row.role = r.role
  BY <1>2 DEF UserRows
<1>4. PICK m \in Nat, n \in {0, 1} : m = misses[u] /\ n = created[u] /\ (u \notin miscounted => m <= row.fails)
  BY <1>1, <1>3, AccountFacts DEF UserOK
<1>5. /\ users' = [users EXCEPT ![u] = row] /\ misses' = [misses EXCEPT ![u] = m]
      /\ created' = [created EXCEPT ![u] = n] /\ n \in Nat
      /\ miscounted \subseteq miscounted' /\ (u \notin miscounted' => m <= row.fails)
      /\ (row.state = "absent" => n = 0)
      /\ (users[u].state # "absent" => row.state # "absent" /\ (row.role = "super" => users[u].role = "super"))
  BY <1>1, <1>2, <1>3, <1>4, AccountFacts DEF LockExpires
<1> QED BY <1>4, <1>5, OneUser

LEMMA InsertKeeps ==
    ASSUME AccountsIInv, (\E d \in Desks : CreateCommit(d)) \/ (\E u \in Users : SeedAdmin(u))
    PROVE  UsersKept
<1>1. ASSUME NEW d \in Desks, CreateCommit(d)
      PROVE  UsersKept
  <2>1. PICK u \in Users : u = desk[d].on
    BY <1>1, AccountFacts DEF DeskOK, DeskStates, CreateCommit
  <2>2. UNCHANGED <<misses, miscounted>>
    BY <1>1 DEF CreateCommit
  <2>3. CASE users[u] # Absent
    BY <2>1, <2>2, <2>3, <1>1, SameUsers DEF CreateCommit, InsertAccount
  <2>4. CASE users[u] = Absent
    <3>1. PICK role \in {"admin", "member"} : users' = [users EXCEPT ![u] = Account(role)]
                                              /\ created' = [created EXCEPT ![u] = @ + 1]
      BY <1>1, <2>1, <2>4 DEF CreateCommit, InsertAccount
    <3>2. PICK row \in UserRows : row = Account(role) /\ row.state = "active" /\ row.fails = 0
      BY AccountRow
    <3>3. PICK n : n = created[u] + 1 /\ created' = [created EXCEPT ![u] = n]
      BY <3>1
    <3>4. users' = [users EXCEPT ![u] = row]
      BY <3>1, <3>2
    <3> QED BY <3>2, <3>3, <3>4, <2>2, <2>4, NewAccount
  <2> QED BY <2>3, <2>4
<1>2. ASSUME NEW u \in Users, SeedAdmin(u)
      PROVE  UsersKept
  <2>1. PICK row \in UserRows : row = Account("super") /\ row.state = "active" /\ row.fails = 0
    BY AccountRow
  <2>2. PICK n : n = created[u] + 1 /\ created' = [created EXCEPT ![u] = n]
    BY <1>2 DEF SeedAdmin
  <2>3. users[u] = Absent /\ users' = [users EXCEPT ![u] = row] /\ UNCHANGED <<misses, miscounted>>
    BY <1>2, <2>1 DEF SeedAdmin
  <2> QED BY <2>1, <2>2, <2>3, NewAccount
<1> QED BY <1>1, <1>2

LEMMA UsersStepKeeps ==
    ASSUME AccountsIInv, AccountsNext
    PROVE  UsersKept
<1>1. ASSUME NEW d \in Desks, LoginIssue(d) \/ ChangePasswordCommit(d) \/ LoginLocked(d) \/ Abandon(d)
      PROVE  UsersKept
  BY <1>1, SameUsers DEF LoginIssue, ChangePasswordCommit, LoginLocked, Abandon
<1>2. ASSUME NEW d \in Desks, NEW u \in Users, NEW a \in Users, NEW op, NEW right \in BOOLEAN,
             LoginLoad(d, u, right) \/ AdminLoad(d, a, u, op) \/ CreateLoad(d, a, u)
      PROVE  UsersKept
  BY <1>2, SameUsers DEF LoginLoad, AdminLoad, CreateLoad
<1>3. ASSUME NEW t \in Tokens, RevokeSession(t) \/ TokenExpires(t) \/ (\E u \in Users : CreateApiKey(t, u))
      PROVE  UsersKept
  BY <1>3, SameUsers DEF RevokeSession, TokenExpires, CreateApiKey
<1>4. ASSUME NEW i \in Invitations,
             (\E d \in Desks : AcceptLoad(d, i)) \/ (\E u \in Users : CreateInvitation(i, u)) \/ RevokeInvitation(i)
      PROVE  UsersKept
  BY <1>4, SameUsers DEF AcceptLoad, CreateInvitation, RevokeInvitation
<1>5. ASSUME NEW u \in Users, RevokeAllSessions(u)
      PROVE  UsersKept
  BY <1>5, SameUsers DEF RevokeAllSessions
<1>6. ASSUME NEW d \in Desks, RegisterFailure(d) \/ RegisterSuccess(d) \/ DisableCommit(d) \/ EnableCommit(d)
                              \/ SetRolesCommit(d) \/ CreateCommit(d)
      PROVE  UsersKept
  BY <1>6, RegisterFailureKeeps, RegisterSuccessKeeps, StatusKeeps, InsertKeeps
<1>7. ASSUME NEW u \in Users, LockExpires(u) \/ SeedAdmin(u)
      PROVE  UsersKept
  BY <1>7, LockExpiresKeeps, InsertKeeps
<1> QED BY <1>1, <1>2, <1>3, <1>4, <1>5, <1>6, <1>7 DEF AccountsNext

\* What every step does to the tokens.
TokensKept == tokens' \in [Tokens -> TokenRows] /\ \A t \in Tokens : TokenOK(t)'

\* A step that rewrites one token.
LEMMA OneToken ==
    ASSUME AccountsIInv, NEW t \in Tokens, NEW row \in TokenRows, tokens' = [tokens EXCEPT ![t] = row],
           row.ended => row.old \/ row.row = "revoked"
    PROVE  TokensKept
<1>1. tokens \in [Tokens -> TokenRows] /\ \A x \in Tokens : TokenOK(x)
  BY DEF AccountsIInv, AccountsTypeOK
<1> QED BY <1>1 DEF TokensKept, TokenOK

\* Revoking the sessions of a user, with their rows alone or with a mark on the account.
LEMMA RevokedTokens ==
    ASSUME AccountsIInv, NEW u \in Users, tokens' \in {RowsRevoked(u), TokensRevoked(u)}
    PROVE  TokensKept
<1>1. tokens \in [Tokens -> TokenRows] /\ \A x \in Tokens : TokenOK(x)
  BY DEF AccountsIInv, AccountsTypeOK
<1>2. ASSUME NEW t \in Tokens
      PROVE  RowsRevoked(u)[t] \in TokenRows /\ (RowsRevoked(u)[t].ended =>
                 RowsRevoked(u)[t].old \/ RowsRevoked(u)[t].row = "revoked")
  <2>1. CASE tokens[t].user = u /\ tokens[t].kind = "session" /\ tokens[t].row = "live"
    <3>1. RowsRevoked(u)[t] = [tokens[t] EXCEPT !.row = "revoked", !.ended = TRUE]
      BY <2>1 DEF RowsRevoked
    <3>2. tokens[t] # NoToken
      BY <2>1 DEF NoToken
    <3>3. tokens[t] \in [user : Users, kind : {"session", "key"}, row : {"none", "live", "revoked"},
                         old : BOOLEAN, ended : BOOLEAN]
      BY <1>1, <3>2 DEF TokenRows
    <3> QED BY <3>1, <3>3 DEF TokenRows
  <2>2. CASE ~(tokens[t].user = u /\ tokens[t].kind = "session" /\ tokens[t].row = "live")
    BY <1>1, <2>2 DEF RowsRevoked, TokenOK
  <2> QED BY <2>1, <2>2
<1>3. CASE tokens' = RowsRevoked(u)
  <2>1. \A t \in Tokens : tokens'[t] = RowsRevoked(u)[t]
    BY <1>3
  <2>2. tokens' \in [Tokens -> TokenRows]
    BY <1>2, <1>3 DEF RowsRevoked
  <2> QED BY <1>2, <2>1, <2>2 DEF TokensKept, TokenOK
<1>4. CASE tokens' = TokensRevoked(u)
  <2>1. ASSUME NEW t \in Tokens
        PROVE  TokensRevoked(u)[t] \in TokenRows /\ (TokensRevoked(u)[t].ended =>
                 TokensRevoked(u)[t].old \/ TokensRevoked(u)[t].row = "revoked")
    <3>1. CASE tokens[t].user = u /\ tokens[t].kind = "session" /\ tokens[t] # NoToken
      <4>1. TokensRevoked(u)[t] = [RowsRevoked(u)[t] EXCEPT !.old = TRUE, !.ended = TRUE]
        BY <3>1 DEF TokensRevoked
      <4>2. tokens[t] \in [user : Users, kind : {"session", "key"}, row : {"none", "live", "revoked"},
                           old : BOOLEAN, ended : BOOLEAN]
        BY <1>1, <3>1 DEF TokenRows
      <4>3. RowsRevoked(u)[t] \in {tokens[t], [tokens[t] EXCEPT !.row = "revoked", !.ended = TRUE]}
        BY DEF RowsRevoked
      <4>4. RowsRevoked(u)[t] \in [user : Users, kind : {"session", "key"}, row : {"none", "live", "revoked"},
                                   old : BOOLEAN, ended : BOOLEAN]
        BY <4>2, <4>3
      <4> QED BY <4>1, <4>4 DEF TokenRows
    <3>2. CASE ~(tokens[t].user = u /\ tokens[t].kind = "session")
      BY <1>1, <3>2 DEF TokensRevoked, TokenOK
    <3>3. CASE tokens[t] = NoToken
      <4>1. tokens[t].user # u
        BY <3>3, AccountsAssumption DEF NoToken
      <4> QED BY <3>2, <4>1
    <3> QED BY <3>1, <3>2, <3>3
  <2>2. \A t \in Tokens : tokens'[t] = TokensRevoked(u)[t]
    BY <1>4
  <2>3. tokens' \in [Tokens -> TokenRows]
    BY <1>4, <2>1 DEF TokensRevoked
  <2> QED BY <2>1, <2>2, <2>3 DEF TokensKept, TokenOK
<1> QED BY <1>3, <1>4

LEMMA TokensStepKeeps ==
    ASSUME AccountsIInv, AccountsNext
    PROVE  TokensKept
<1> DEFINE Session == [user : Users, kind : {"session", "key"}, row : {"none", "live", "revoked"},
                       old : BOOLEAN, ended : BOOLEAN]
<1>1. tokens \in [Tokens -> TokenRows] /\ \A t \in Tokens : TokenOK(t)
  BY DEF AccountsIInv, AccountsTypeOK
<1>2. CASE UNCHANGED tokens
  BY <1>1, <1>2 DEF TokensKept, TokenOK
<1>3. ASSUME NEW d \in Desks, LoginIssue(d)
      PROVE  TokensKept
  <2>1. CASE UNCHANGED tokens
    BY <1>2, <2>1
  <2>2. ASSUME NEW t \in Tokens, NEW row \in {"live", "none"},
               tokens' = [tokens EXCEPT ![t] = [NoToken EXCEPT !.user = desk[d].on, !.row = row]]
        PROVE  TokensKept
    <3>1. PICK u \in Users : u = desk[d].on
      BY <1>3, DeskUser DEF LoginIssue
    <3>2. PICK new \in TokenRows : /\ new = [NoToken EXCEPT !.user = u, !.row = row]
                                   /\ ~new.ended
      <4>1. [NoToken EXCEPT !.user = u, !.row = row] \in TokenRows
        BY DEF NoToken, TokenRows
      <4>2. ~[NoToken EXCEPT !.user = u, !.row = row].ended
        BY DEF NoToken
      <4> QED BY <4>1, <4>2
    <3>3. tokens' = [tokens EXCEPT ![t] = new]
      BY <2>2, <3>1, <3>2
    <3> QED BY <3>2, <3>3, OneToken
  <2> QED BY <1>3, <2>1, <2>2 DEF LoginIssue
<1>4. ASSUME NEW t \in Tokens, NEW u \in Users, CreateApiKey(t, u)
      PROVE  TokensKept
  <2>1. PICK new \in TokenRows : /\ new = [NoToken EXCEPT !.user = u, !.kind = "key", !.row = "live"]
                                 /\ ~new.ended
    <3>1. [NoToken EXCEPT !.user = u, !.kind = "key", !.row = "live"] \in TokenRows
      BY DEF NoToken, TokenRows
    <3>2. ~[NoToken EXCEPT !.user = u, !.kind = "key", !.row = "live"].ended
      BY DEF NoToken
    <3> QED BY <3>1, <3>2
  <2>2. tokens' = [tokens EXCEPT ![t] = new]
    BY <1>4, <2>1 DEF CreateApiKey
  <2> QED BY <2>1, <2>2, OneToken
<1>5. ASSUME NEW t \in Tokens, RevokeSession(t)
      PROVE  TokensKept
  <2>1. tokens[t] \in Session
    BY <1>1, <1>5 DEF RevokeSession, TokenRows, NoToken
  <2>2. PICK new \in Session : /\ new = [tokens[t] EXCEPT !.row = "revoked", !.ended = TRUE]
                               /\ new.row = "revoked"
    <3>1. [tokens[t] EXCEPT !.row = "revoked", !.ended = TRUE] \in Session
      BY <2>1
    <3>2. [tokens[t] EXCEPT !.row = "revoked", !.ended = TRUE].row = "revoked"
      BY <2>1
    <3> QED BY <3>1, <3>2
  <2>3. tokens' = [tokens EXCEPT ![t] = new] /\ new \in TokenRows
    BY <1>1, <1>5, <2>2 DEF RevokeSession, TokenRows
  <2> QED BY <2>2, <2>3, OneToken
<1>6. ASSUME NEW t \in Tokens, TokenExpires(t)
      PROVE  TokensKept
  <2>1. NoToken \in TokenRows /\ ~NoToken.ended
    BY DEF TokenRows, NoToken
  <2>2. tokens' = [tokens EXCEPT ![t] = NoToken]
    BY <1>6 DEF TokenExpires
  <2> QED BY <2>1, <2>2, OneToken
<1>7. ASSUME NEW d \in Desks, DisableCommit(d) \/ ChangePasswordCommit(d)
      PROVE  TokensKept
  <2>1. PICK u \in Users : u = desk[d].on
    BY <1>7, DeskUser DEF DisableCommit, ChangePasswordCommit
  <2>2. tokens' = TokensRevoked(u)
    BY <1>7, <2>1 DEF DisableCommit, ChangePasswordCommit
  <2> QED BY <2>2, RevokedTokens
<1>8. ASSUME NEW u \in Users, RevokeAllSessions(u)
      PROVE  TokensKept
  BY <1>8, RevokedTokens DEF RevokeAllSessions
<1>9. ASSUME NEW d \in Desks, \/ RegisterFailure(d) \/ LoginLocked(d) \/ RegisterSuccess(d) \/ EnableCommit(d)
                              \/ SetRolesCommit(d) \/ CreateCommit(d) \/ Abandon(d)
      PROVE  UNCHANGED tokens
  BY <1>9 DEF RegisterFailure, LoginLocked, RegisterSuccess, EnableCommit, SetRolesCommit, CreateCommit, Abandon
<1>10. ASSUME NEW d \in Desks, NEW u \in Users, NEW a \in Users, NEW op, NEW right \in BOOLEAN,
              LoginLoad(d, u, right) \/ AdminLoad(d, a, u, op) \/ CreateLoad(d, a, u)
       PROVE  UNCHANGED tokens
  BY <1>10 DEF LoginLoad, AdminLoad, CreateLoad
<1>11. ASSUME NEW i \in Invitations,
              \/ \E d \in Desks : AcceptLoad(d, i)
              \/ \E u \in Users : CreateInvitation(i, u)
              \/ RevokeInvitation(i)
       PROVE  UNCHANGED tokens
  BY <1>11 DEF AcceptLoad, CreateInvitation, RevokeInvitation
<1>12. ASSUME NEW u \in Users, LockExpires(u) \/ SeedAdmin(u)
       PROVE  UNCHANGED tokens
  BY <1>12 DEF LockExpires, SeedAdmin
<1> QED BY <1>2, <1>3, <1>4, <1>5, <1>6, <1>7, <1>8, <1>9, <1>10, <1>11, <1>12 DEF AccountsNext

\* The table of users is finite, so administrators are counted.
LEMMA SupersCounted == Cardinality(Supers) \in Nat /\ IsFiniteSet(Supers)
<1>1. IsFiniteSet(Supers)
  BY AccountsAssumption, FS_Subset DEF Supers
<1> QED BY <1>1, FS_CardinalityType

\* What a handler leaves on its desk, and the invitations.
DesksKept ==
    /\ desk' \in [Desks -> DeskStates] /\ \A d \in Desks : DeskOK(desk[d])'
    /\ accountOps' \in 0 .. MaxAccountOps

\* A step in which no handler loads anything.
LEMMA DeskCleared ==
    ASSUME AccountsIInv, UsersKept, UNCHANGED accountOps,
           UNCHANGED desk \/ \E d \in Desks, s \in DeskStates :
               desk' = [desk EXCEPT ![d] = s] /\ (s.op # "idle" => /\ s.op = "issue" /\ desk[d].op = "login"
                                                                   /\ s.on = desk[d].on)
    PROVE  DesksKept
<1>1. ASSUME NEW d \in Desks
      PROVE  DeskOK(desk[d])'
  <2>1. PICK s \in DeskStates : s = desk[d] /\ DeskOK(s)
    BY AccountFacts
  <2>2. DeskOK(s)'
    BY <2>1 DEF DeskOK, DeskStates, UsersKept
  <2>3. CASE desk'[d] = desk[d]
    BY <2>1, <2>2, <2>3
  <2>4. ASSUME NEW r \in DeskStates, desk'[d] = r,
               r.op # "idle" => r.op = "issue" /\ desk[d].op = "login" /\ r.on = desk[d].on
        PROVE  DeskOK(desk[d])'
    BY <2>1, <2>2, <2>4 DEF DeskOK, DeskStates
  <2> QED BY <2>3, <2>4, AccountFacts
<1>2. desk' \in [Desks -> DeskStates]
  BY AccountFacts
<1> QED BY <1>1, <1>2, AccountFacts DEF DesksKept

LEMMA StartKeeps ==
    ASSUME AccountsIInv, NEW d \in Desks, NEW op \in DeskOps, NEW u \in Users, NEW with \in Invitations \cup {NoUser},
           Start(d, op, u, with), UNCHANGED users,
           op \notin {"idle", "accept", "create"} => users[u].state # "absent",
           op = "demote" => NotLastSuperAdmin(u)
    PROVE  DesksKept
<1>1. PICK s \in DeskStates : /\ s.op = op /\ s.on = u /\ s.seen = Cardinality(Supers)
                              /\ s = [op |-> op, on |-> u, copy |-> users[u],
                                      seen |-> Cardinality(Supers), with |-> with]
  BY AccountFacts, SupersCounted DEF DeskStates
<1>2. desk' = [desk EXCEPT ![d] = s] /\ accountOps' = accountOps + 1 /\ accountOps < MaxAccountOps
  BY <1>1 DEF Start
<1>3. DeskOK(s)'
  BY <1>1 DEF DeskOK, NotLastSuperAdmin
<1>4. \A x \in Desks : DeskOK(desk[x])'
  BY <1>2, <1>3, AccountFacts DEF DeskOK
<1> QED BY <1>2, <1>4, AccountFacts, AccountsAssumption DEF DesksKept

LEMMA IdleState == Idle \in DeskStates /\ Idle.op = "idle"
<1>1. 0 \in 0 .. MaxFailures - 1
  BY AccountsAssumption
<1>2. Absent \in UserRows
  BY <1>1 DEF Absent, UserRows
<1> QED BY <1>2 DEF Idle, DeskStates, DeskOps

LEMMA DesksStepKeeps ==
    ASSUME AccountsIInv, AccountsNext, UsersKept
    PROVE  DesksKept
<1>1. ASSUME NEW d \in Desks, End(d)
      PROVE  DesksKept
  <2>1. PICK s \in DeskStates : s = Idle /\ s.op = "idle"
    BY IdleState
  <2>2. desk' = [desk EXCEPT ![d] = s] /\ UNCHANGED accountOps
    BY <1>1, <2>1 DEF End
  <2> QED BY <2>1, <2>2, DeskCleared
<1>2. CASE UNCHANGED <<desk, accountOps>>
  BY <1>2, DeskCleared
<1>3. ASSUME NEW d \in Desks, RegisterSuccess(d)
      PROVE  DesksKept
  <2>1. PICK s \in DeskStates : s = desk[d] /\ s.op = "login"
    BY <1>3, AccountFacts DEF RegisterSuccess
  <2>2. PICK r \in DeskStates : /\ r = (IF s.copy.state = "active" THEN [s EXCEPT !.op = "issue"] ELSE Idle)
                                /\ (r.op # "idle" => r.op = "issue" /\ r.on = s.on)
    <3>1. [s EXCEPT !.op = "issue"] \in DeskStates /\ [s EXCEPT !.op = "issue"].op = "issue"
          /\ [s EXCEPT !.op = "issue"].on = s.on
      BY DEF DeskStates, DeskOps
    <3> QED BY <3>1, IdleState
  <2>3. desk' = [desk EXCEPT ![d] = r] /\ UNCHANGED accountOps
    BY <1>3, <2>1, <2>2 DEF RegisterSuccess
  <2> QED BY <2>1, <2>2, <2>3, DeskCleared
<1>4. ASSUME NEW d \in Desks, NEW u \in Users, NEW a \in Users, NEW right \in BOOLEAN,
             NEW op \in {"disable", "enable", "demote", "password"},
             LoginLoad(d, u, right) \/ AdminLoad(d, a, u, op) \/ CreateLoad(d, a, u)
      PROVE  DesksKept
  <2>1. CASE LoginLoad(d, u, right)
    <3>1. PICK k \in {"login", "miss"} : Start(d, k, u, NoUser)
      BY <2>1 DEF LoginLoad
    <3>2. users[u].state # "absent" /\ UNCHANGED users /\ k \in DeskOps
      BY <2>1 DEF LoginLoad, DeskOps
    <3> QED BY <3>1, <3>2, StartKeeps
  <2>2. CASE AdminLoad(d, a, u, op)
    <3>1. /\ Start(d, op, u, NoUser) /\ users[u].state # "absent" /\ UNCHANGED users /\ op \in DeskOps
          /\ (op = "demote" => NotLastSuperAdmin(u))
      BY <2>2 DEF AdminLoad, DeskOps
    <3> QED BY <3>1, StartKeeps
  <2>3. CASE CreateLoad(d, a, u)
    BY <2>3, StartKeeps DEF CreateLoad, DeskOps
  <2> QED BY <1>4, <2>1, <2>2, <2>3
<1>5. ASSUME NEW d \in Desks, NEW i \in Invitations, AcceptLoad(d, i)
      PROVE  DesksKept
  <2>1. PICK u \in Users : u = invites[i].email
    BY <1>5 DEF AcceptLoad, AccountsIInv, AccountsTypeOK
  <2> QED BY <1>5, <2>1, StartKeeps DEF AcceptLoad, DeskOps
<1>6. ASSUME NEW d \in Desks, \/ RegisterFailure(d) \/ LoginLocked(d) \/ LoginIssue(d) \/ DisableCommit(d)
                              \/ EnableCommit(d) \/ SetRolesCommit(d) \/ ChangePasswordCommit(d)
                              \/ CreateCommit(d) \/ Abandon(d)
      PROVE  End(d)
  BY <1>6 DEF RegisterFailure, LoginLocked, LoginIssue, DisableCommit, EnableCommit, SetRolesCommit,
     ChangePasswordCommit, CreateCommit, Abandon
<1>7. ASSUME NEW u \in Users, LockExpires(u) \/ RevokeAllSessions(u)
      PROVE  DesksKept
  BY <1>2, <1>7 DEF LockExpires, RevokeAllSessions
<1>8. ASSUME NEW u \in Users, SeedAdmin(u)
      PROVE  DesksKept
  <2>1. desk' \in [Desks -> DeskStates] /\ accountOps' \in 0 .. MaxAccountOps /\ UNCHANGED desk
    BY <1>8, AccountFacts, AccountsAssumption DEF SeedAdmin
  <2>2. \A d \in Desks : DeskOK(desk[d])'
    BY <2>1, AccountFacts DEF DeskOK, DeskStates, UsersKept
  <2> QED BY <2>1, <2>2 DEF DesksKept
<1>9. ASSUME NEW t \in Tokens, RevokeSession(t) \/ TokenExpires(t) \/ (\E u \in Users : CreateApiKey(t, u))
      PROVE  DesksKept
  BY <1>2, <1>9 DEF RevokeSession, TokenExpires, CreateApiKey
<1>10. ASSUME NEW i \in Invitations, (\E u \in Users : CreateInvitation(i, u)) \/ RevokeInvitation(i)
       PROVE  DesksKept
  BY <1>2, <1>10 DEF CreateInvitation, RevokeInvitation
<1> QED BY <1>1, <1>3, <1>4, <1>5, <1>6, <1>7, <1>8, <1>9, <1>10 DEF AccountsNext

InvitesTyped == invites \in [Invitations -> [email : Users \cup {NoUser}, accepted : BOOLEAN, revoked : BOOLEAN]]

LEMMA InvitesStepKeeps ==
    ASSUME AccountsIInv, AccountsNext
    PROVE  InvitesTyped'
<1>1. InvitesTyped
  BY DEF AccountsIInv, AccountsTypeOK, InvitesTyped
<1>2. CASE UNCHANGED invites
  BY <1>1, <1>2 DEF InvitesTyped
<1>3. ASSUME NEW d \in Desks, CreateCommit(d)
      PROVE  InvitesTyped'
  <2>1. CASE UNCHANGED invites
    BY <1>2, <2>1
  <2>2. CASE invites' = [invites EXCEPT ![desk[d].with].accepted = TRUE]
    <3>1. PICK i : i = desk[d].with
      OBVIOUS
    <3>2. CASE i \in Invitations
      BY <1>1, <2>2, <3>1, <3>2 DEF InvitesTyped
    <3>3. CASE i \notin Invitations
      <4>1. invites' = invites
        BY <1>1, <2>2, <3>1, <3>3 DEF InvitesTyped
      <4> QED BY <4>1, <1>2
    <3> QED BY <3>2, <3>3
  <2> QED BY <1>3, <2>1, <2>2 DEF CreateCommit, InsertAccount
<1>4. ASSUME NEW i \in Invitations, (\E u \in Users : CreateInvitation(i, u)) \/ RevokeInvitation(i)
      PROVE  InvitesTyped'
  BY <1>1, <1>4 DEF CreateInvitation, RevokeInvitation, InvitesTyped
<1>5. ASSUME NEW d \in Desks, \/ RegisterFailure(d) \/ LoginLocked(d) \/ RegisterSuccess(d) \/ LoginIssue(d)
                              \/ DisableCommit(d) \/ EnableCommit(d) \/ SetRolesCommit(d)
                              \/ ChangePasswordCommit(d) \/ Abandon(d)
      PROVE  UNCHANGED invites
  BY <1>5 DEF RegisterFailure, LoginLocked, RegisterSuccess, LoginIssue, DisableCommit, EnableCommit,
     SetRolesCommit, ChangePasswordCommit, Abandon
<1>6. ASSUME NEW d \in Desks, NEW u \in Users, NEW a \in Users, NEW op, NEW right \in BOOLEAN,
             LoginLoad(d, u, right) \/ AdminLoad(d, a, u, op) \/ CreateLoad(d, a, u)
      PROVE  UNCHANGED invites
  BY <1>6 DEF LoginLoad, AdminLoad, CreateLoad
<1>7. ASSUME NEW u \in Users, LockExpires(u) \/ SeedAdmin(u) \/ RevokeAllSessions(u)
      PROVE  UNCHANGED invites
  BY <1>7 DEF LockExpires, SeedAdmin, RevokeAllSessions
<1>8. ASSUME NEW t \in Tokens, RevokeSession(t) \/ TokenExpires(t) \/ (\E u \in Users : CreateApiKey(t, u))
      PROVE  UNCHANGED invites
  BY <1>8 DEF RevokeSession, TokenExpires, CreateApiKey
<1>9. ASSUME NEW i \in Invitations, NEW d \in Desks, AcceptLoad(d, i)
      PROVE  UNCHANGED invites
  BY <1>9 DEF AcceptLoad
<1> QED BY <1>2, <1>3, <1>4, <1>5, <1>6, <1>7, <1>8, <1>9 DEF AccountsNext

\* Who takes the last SUPER_ADMIN's role away counted administrators before the count changed.
LEMMA SuperStays ==
    ASSUME AccountsIInv, AccountsNext
    PROVE  SuperAdminRemains' /\ overlapped' \in BOOLEAN
<1>1. SuperAdminRemains /\ overlapped \in BOOLEAN /\ users \in [Users -> UserRows]
  BY DEF AccountsIInv, AccountsTypeOK
<1>2. ASSUME UNCHANGED overlapped, \A u \in Users : users[u].role = "super" => users'[u].role = "super"
      PROVE  SuperAdminRemains' /\ overlapped' \in BOOLEAN
  BY <1>1, <1>2 DEF SuperAdminRemains, Supers
<1>3. ASSUME NEW d \in Desks, SetRolesCommit(d)
      PROVE  SuperAdminRemains' /\ overlapped' \in BOOLEAN
  <2>1. PICK u \in Users : u = desk[d].on /\ (users[u].role = "super" => desk[d].seen > 1)
    BY <1>3, AccountFacts DEF SetRolesCommit, DeskOK, DeskStates
  <2>2. PICK role \in {"admin", "member"} : users' = [users EXCEPT ![u].role = role]
    BY <1>3, <2>1 DEF SetRolesCommit
  <2>3. /\ overlapped' = (overlapped \/ (users[u].role = "super" /\ desk[d].seen # Cardinality(Supers)))
    BY <1>3, <2>1 DEF SetRolesCommit
  <2>4. \A v \in Users : v # u => users'[v] = users[v]
    BY <1>1, <2>2
  <2>5. CASE users[u].role # "super"
    <3>1. \A v \in Users : users[v].role = "super" => users'[v].role = "super"
      BY <2>4, <2>5
    <3>2. overlapped' = overlapped
      BY <1>1, <2>3, <2>5
    <3> QED BY <1>2, <3>1, <3>2
  <2>6. CASE users[u].role = "super" /\ desk[d].seen # Cardinality(Supers)
    BY <2>3, <2>6 DEF SuperAdminRemains
  <2>7. CASE users[u].role = "super" /\ desk[d].seen = Cardinality(Supers)
    <3>1. Supers # {u}
      <4>1. Cardinality({u}) = 1
        BY FS_Singleton
      <4> QED BY <2>1, <2>7, <4>1
    <3>2. u \in Supers
      BY <2>7 DEF Supers
    <3>3. PICK v \in Supers : v # u
      BY <3>1, <3>2
    <3>4. v \in Supers'
      BY <2>4, <3>3 DEF Supers
    <3> QED BY <1>1, <2>3, <3>4 DEF SuperAdminRemains
  <2> QED BY <2>5, <2>6, <2>7
<1>4. ASSUME NEW d \in Desks, NEW k \in Users, NEW row,
             users' = [users EXCEPT ![k] = row], users[k].role = "super" => row.role = "super"
      PROVE  \A u \in Users : users[u].role = "super" => users'[u].role = "super"
  BY <1>1, <1>4
<1>5. ASSUME NEW d \in Desks, RegisterFailure(d) \/ RegisterSuccess(d) \/ DisableCommit(d) \/ EnableCommit(d)
                              \/ CreateCommit(d)
      PROVE  UNCHANGED overlapped /\ \A u \in Users : users[u].role = "super" => users'[u].role = "super"
  <2>1. PICK k \in Users, r \in UserRows, c \in UserRows : k = desk[d].on /\ r = users[k] /\ c = desk[d].copy
    BY <1>5, AccountFacts DEF RegisterFailure, RegisterSuccess, DisableCommit, EnableCommit, CreateCommit,
       DeskOK, DeskStates
  <2>2. CASE RegisterFailure(d)
    <3>1. users' = [users EXCEPT ![k] = AfterFailure(r, c)] /\ UNCHANGED overlapped
      BY <2>1, <2>2 DEF RegisterFailure
    <3> QED BY <1>4, <2>1, <3>1, AfterFailureRow
  <2>3. CASE RegisterSuccess(d)
    BY <1>1, <2>1, <2>3 DEF RegisterSuccess, UserRows
  <2>4. CASE DisableCommit(d)
    BY <1>1, <2>1, <2>4 DEF DisableCommit, UserRows
  <2>5. CASE EnableCommit(d)
    BY <1>1, <2>1, <2>5 DEF EnableCommit, UserRows
  <2>6. CASE CreateCommit(d)
    BY <1>1, <2>1, <2>6 DEF CreateCommit, InsertAccount, Absent
  <2> QED BY <1>5, <2>2, <2>3, <2>4, <2>5, <2>6
<1>6. ASSUME NEW u \in Users, LockExpires(u) \/ SeedAdmin(u)
      PROVE  UNCHANGED overlapped /\ \A v \in Users : users[v].role = "super" => users'[v].role = "super"
  BY <1>1, <1>6 DEF LockExpires, SeedAdmin, UserRows, Absent
<1>7. ASSUME NEW d \in Desks, LoginLocked(d) \/ LoginIssue(d) \/ ChangePasswordCommit(d) \/ Abandon(d)
      PROVE  UNCHANGED <<overlapped, users>>
  BY <1>7 DEF LoginLocked, LoginIssue, ChangePasswordCommit, Abandon
<1>8. ASSUME NEW d \in Desks, NEW u \in Users, NEW a \in Users, NEW op, NEW right \in BOOLEAN,
             LoginLoad(d, u, right) \/ AdminLoad(d, a, u, op) \/ CreateLoad(d, a, u)
      PROVE  UNCHANGED <<overlapped, users>>
  BY <1>8 DEF LoginLoad, AdminLoad, CreateLoad
<1>9. ASSUME NEW t \in Tokens, RevokeSession(t) \/ TokenExpires(t) \/ (\E u \in Users : CreateApiKey(t, u))
      PROVE  UNCHANGED <<overlapped, users>>
  BY <1>9 DEF RevokeSession, TokenExpires, CreateApiKey
<1>10. ASSUME NEW i \in Invitations, \/ \E d \in Desks : AcceptLoad(d, i)
                                     \/ \E u \in Users : CreateInvitation(i, u)
                                     \/ RevokeInvitation(i)
       PROVE  UNCHANGED <<overlapped, users>>
  BY <1>10 DEF AcceptLoad, CreateInvitation, RevokeInvitation
<1>11. ASSUME NEW u \in Users, RevokeAllSessions(u)
       PROVE  UNCHANGED <<overlapped, users>>
  BY <1>11 DEF RevokeAllSessions
<1>12. ASSUME UNCHANGED <<overlapped, users>>
       PROVE  SuperAdminRemains' /\ overlapped' \in BOOLEAN
  BY <1>1, <1>12 DEF SuperAdminRemains, Supers
<1> QED BY <1>2, <1>3, <1>5, <1>6, <1>7, <1>8, <1>9, <1>10, <1>11, <1>12 DEF AccountsNext

LEMMA AccountsInit_IInv == AccountsInit => AccountsIInv
<1> SUFFICES ASSUME AccountsInit
             PROVE  AccountsIInv
  OBVIOUS
<1>1. PICK u \in Users : users = [v \in Users |-> IF v = u THEN Account("super") ELSE Absent]
  BY DEF AccountsInit
<1>2. PICK first \in UserRows, none \in UserRows :
           /\ first = Account("super") /\ first.state = "active" /\ first.role = "super" /\ first.fails = 0
           /\ none = Absent /\ none.state = "absent" /\ none.fails = 0
  <2>1. 0 \in 0 .. MaxFailures - 1
    BY AccountsAssumption
  <2>2. Absent \in UserRows /\ Absent.state = "absent" /\ Absent.fails = 0
    BY <2>1 DEF Absent, UserRows
  <2> QED BY <2>2, AccountRow
<1>3. users \in [Users -> UserRows] /\ users[u] = first
  BY <1>1, <1>2
<1>4. /\ misses = [x \in Users |-> 0] /\ created = [x \in Users |-> IF users[x] = Absent THEN 0 ELSE 1]
      /\ miscounted = {} /\ overlapped = FALSE /\ accountOps = 0
      /\ desk = [d \in Desks |-> Idle] /\ tokens = [t \in Tokens |-> NoToken]
      /\ invites = [i \in Invitations |-> [email |-> NoUser, accepted |-> FALSE, revoked |-> FALSE]]
  BY DEF AccountsInit
<1>5. misses \in [Users -> Nat] /\ created \in [Users -> Nat]
  BY <1>4
<1>6. ASSUME NEW x \in Users
      PROVE  UserOK(x)
  <2>1. users[x] \in {first, none}
    BY <1>1, <1>2
  <2> QED BY <2>1, <1>2, <1>4 DEF UserOK
<1>7. SuperAdminRemains
  BY <1>2, <1>3 DEF SuperAdminRemains, Supers
<1>8. desk \in [Desks -> DeskStates] /\ \A d \in Desks : DeskOK(desk[d])
  BY <1>4, IdleState DEF DeskOK
<1>9. tokens \in [Tokens -> TokenRows] /\ \A t \in Tokens : TokenOK(t)
  BY <1>4 DEF TokenRows, TokenOK, NoToken
<1>10. invites \in [Invitations -> [email : Users \cup {NoUser}, accepted : BOOLEAN, revoked : BOOLEAN]]
  BY <1>4
<1>11. accountOps \in 0 .. MaxAccountOps
  BY <1>4, AccountsAssumption
<1> QED BY <1>3, <1>4, <1>5, <1>6, <1>7, <1>8, <1>9, <1>10, <1>11 DEF AccountsIInv, AccountsTypeOK, DeskStates

LEMMA AccountsStep_IInv == AccountsIInv /\ [AccountsNext]_accountVars => AccountsIInv'
<1>1. ASSUME AccountsIInv, AccountsNext
      PROVE  AccountsIInv'
  <2>1. UsersKept /\ TokensKept /\ DesksKept /\ InvitesTyped' /\ SuperAdminRemains' /\ overlapped' \in BOOLEAN
    BY <1>1, UsersStepKeeps, TokensStepKeeps, DesksStepKeeps, InvitesStepKeeps, SuperStays
  <2>2. AccountsTypeOK'
    BY <2>1 DEF UsersKept, TokensKept, DesksKept, InvitesTyped, AccountsTypeOK, DeskStates
  <2> QED BY <2>1, <2>2 DEF AccountsIInv, UsersKept, TokensKept, DesksKept
<1>2. ASSUME AccountsIInv, UNCHANGED accountVars
      PROVE  AccountsIInv'
  BY <1>2 DEF AccountsIInv, accountVars, AccountsTypeOK, SuperAdminRemains, Supers, UserOK, TokenOK, DeskOK
<1> QED BY <1>1, <1>2

LEMMA AccountsIInvImplies == AccountsIInv => AccountsInv
<1> SUFFICES ASSUME AccountsIInv
             PROVE  AccountsInv
  OBVIOUS
<1>1. EndedStaysEnded
  BY DEF AccountsIInv, TokenOK, EndedStaysEnded, Accepted
<1>2. FailuresLock
  <2>1. ASSUME NEW u \in Users, u \notin miscounted
        PROVE  misses[u] < MaxFailures
    <3>1. users[u].fails \in 0 .. MaxFailures - 1 /\ MaxFailures \in Nat \ {0} /\ misses[u] \in Nat
      BY AccountFacts DEF UserRows
    <3>2. misses[u] <= users[u].fails
      BY <2>1 DEF AccountsIInv, UserOK
    <3> QED BY <3>1, <3>2
  <2> QED BY <2>1 DEF FailuresLock
<1>3. AccountCreatedOnce
  BY AccountFacts DEF AccountCreatedOnce, UserOK
<1> QED BY <1>1, <1>2, <1>3 DEF AccountsInv, AccountsIInv

\* However handlers overlap on copies of the same account: a revoked token is never accepted
\* again, wrong passwords lock the account, some SUPER_ADMIN remains, and an address gets one
\* account (login_guard, users, authorization, invitations).
THEOREM AccountsInvHolds == AccountsSpec => []AccountsInv
<1>1. AccountsSpec => []AccountsIInv
  BY AccountsInit_IInv, AccountsStep_IInv, PTL DEF AccountsSpec
<1> QED BY <1>1, AccountsIInvImplies, PTL

----------------------------------------------------------------------------
(* Visibility. *)

\* What a search lists and what opens, for one row of one table.
Listed(table, row, c) ==
    IF table = "Conversation" THEN ApplyVisibility(row, c) ELSE VisibilityClause(row, c)

Agrees(table, row, c) ==
    ~SearchDiffers([table |-> table, row |-> row, ctx |-> c]) =>
        /\ Listed(table, row, c) => GetVisible(row, c)
        /\ GetVisible(row, c) => \/ Listed(table, row, c)
                                 \/ table = "Campaign" /\ row["created_by"] = c.user

\* The three ways the code writes the rule agree, table by table.
LEMMA RulesAgree ==
    ASSUME NEW table \in DOMAIN Columns, NEW c \in Contexts, NEW row \in RowsOf(table)
    PROVE  Agrees(table, row, c)
<1> DEFINE p == [table |-> table, row |-> row, ctx |-> c]
<1>1. p.table = table /\ p.row = row /\ p.ctx = c
  OBVIOUS
<1>2. DOMAIN row = Columns[table]
  BY DEF RowsOf
<1>3. c.scope \in {"ALL", "OWNED_ONLY", "ASSIGNED_ONLY", "TEAM"}
  BY DEF Contexts, Scopes
<1>4. CASE table = "Lead"
  <2>1. /\ Has(row, "created_by") /\ Has(row, "assigned_user_id") /\ Has(row, "team") /\ ~Has(row, "owner_id")
    BY <1>2, <1>4 DEF Columns, Has
  <2>2. (OwnedInQuery(row, c) <=> IsOwner(row, c.user)) /\ HasOwnerColumn(row)
    BY <2>1 DEF OwnedInQuery, IsOwner, OwnerColumn, HasOwnerColumn, Is
  <2>3. ~NoClause(row, {"owner_id", "created_by", "assigned_user_id"})
    BY <2>1 DEF NoClause
  <2>4. Listed(table, row, c) <=> GetVisible(row, c)
    BY <1>3, <1>4, <2>1, <2>2, <2>3 DEF Listed, VisibilityClause, GetVisible, PassesScope
  <2> QED BY <2>4 DEF Agrees
<1>5. CASE table = "Campaign"
  <2>1. /\ Has(row, "created_by") /\ Has(row, "owner_id") /\ Has(row, "team") /\ ~Has(row, "assigned_user_id")
    BY <1>2, <1>5 DEF Columns, Has
  <2>2. /\ OwnedInQuery(row, c) => IsOwner(row, c.user)
        /\ IsOwner(row, c.user) => OwnedInQuery(row, c) \/ row["created_by"] = c.user
        /\ HasOwnerColumn(row) /\ ~Is(row, "assigned_user_id", c.user)
    BY <2>1 DEF OwnedInQuery, IsOwner, OwnerColumn, HasOwnerColumn, Is
  <2>3. ~NoClause(row, {"owner_id", "created_by", "assigned_user_id"})
    BY <2>1 DEF NoClause
  <2>4. /\ Listed(table, row, c) => GetVisible(row, c)
        /\ GetVisible(row, c) => Listed(table, row, c) \/ row["created_by"] = c.user
    BY <1>3, <1>5, <2>1, <2>2, <2>3 DEF Listed, VisibilityClause, GetVisible, PassesScope
  <2> QED BY <1>5, <2>4 DEF Agrees
<1>6. CASE table = "FileRecord"
  <2>1. /\ Has(row, "created_by") /\ ~Has(row, "owner_id") /\ ~Has(row, "team") /\ ~Has(row, "assigned_user_id")
    BY <1>2, <1>6 DEF Columns, Has
  <2>2. /\ (OwnedInQuery(row, c) <=> IsOwner(row, c.user)) /\ HasOwnerColumn(row)
        /\ ~Is(row, "assigned_user_id", c.user) /\ NoTeam(row)
    BY <2>1 DEF OwnedInQuery, IsOwner, OwnerColumn, HasOwnerColumn, Is, NoTeam
  <2>3. ~NoClause(row, {"owner_id", "created_by", "assigned_user_id"})
    BY <2>1 DEF NoClause
  <2>4. Listed(table, row, c) <=> GetVisible(row, c)
    BY <1>3, <1>6, <2>1, <2>2, <2>3 DEF Listed, VisibilityClause, GetVisible, PassesScope
  <2> QED BY <2>4 DEF Agrees
<1>7. CASE table = "Conversation"
  <2>1. /\ Has(row, "assigned_user_id") /\ Has(row, "team") /\ ~Has(row, "owner_id") /\ ~Has(row, "created_by")
    BY <1>2, <1>7 DEF Columns, Has
  <2>2. /\ ~OwnedInQuery(row, c) /\ ~IsOwner(row, c.user) /\ ~HasOwnerColumn(row)
        /\ (Is(row, "assigned_user_id", c.user) <=> row["assigned_user_id"] = c.user)
    BY <2>1 DEF OwnedInQuery, IsOwner, OwnerColumn, HasOwnerColumn, Is
  <2>3. ~NoClause(row, {"owner_id", "created_by", "assigned_user_id"})
    BY <2>1 DEF NoClause
  <2>4. ASSUME ~SearchDiffers(p)
        PROVE  Listed(table, row, c) <=> GetVisible(row, c)
    <3>1. /\ c.scope # "OWNED_ONLY"
          /\ c.scope = "TEAM" => c.teams # {} /\ row["assigned_user_id"] # c.user
      BY <1>1, <1>7, <2>4 DEF SearchDiffers
    <3> QED BY <1>3, <1>7, <2>1, <2>2, <2>3, <3>1 DEF Listed, ApplyVisibility, GetVisible, PassesScope
  <2> QED BY <2>4 DEF Agrees
<1> QED BY <1>4, <1>5, <1>6, <1>7 DEF Columns

VisibilityIInv ==
    probe # Unset =>
        \E table \in DOMAIN Columns, c \in Contexts : \E row \in RowsOf(table) :
            /\ probe = [table |-> table, row |-> row, ctx |-> c]
            /\ listed = Listed(table, row, c) /\ opened = GetVisible(row, c)

\* A search of leads, campaigns, files or conversations lists what the member can open, and
\* a member can open what a search lists, with the exceptions that SearchDiffers and the
\* handed over campaigns name; for any members, teams and organizations (authorization.py).
THEOREM SearchAgreesWithOpenHolds == VisibilitySpec => []SearchAgreesWithOpen
<1>1. VisibilityInit => VisibilityIInv
  BY DEF VisibilityInit, VisibilityIInv
<1>2. VisibilityIInv /\ [VisibilityNext]_visibilityVars => VisibilityIInv'
  <2>1. ASSUME VisibilityNext
        PROVE  VisibilityIInv'
    <3>1. PICK table \in DOMAIN Columns, c \in Contexts : \E row \in RowsOf(table) : Search(table, row, c)
      BY <2>1 DEF VisibilityNext
    <3>2. PICK row \in RowsOf(table) : Search(table, row, c)
      BY <3>1
    <3>3. /\ probe' = [table |-> table, row |-> row, ctx |-> c]
          /\ listed' = Listed(table, row, c) /\ opened' = GetVisible(row, c)
      BY <3>2 DEF Search, Listed
    <3> QED BY <3>3 DEF VisibilityIInv
  <2>2. ASSUME VisibilityIInv, UNCHANGED visibilityVars
        PROVE  VisibilityIInv'
    BY <2>2 DEF VisibilityIInv, visibilityVars
  <2> QED BY <2>1, <2>2
<1>3. VisibilityIInv => SearchAgreesWithOpen
  <2> SUFFICES ASSUME VisibilityIInv, probe # Unset, ~SearchDiffers(probe)
               PROVE  /\ listed => opened
                      /\ opened => \/ listed
                                   \/ /\ probe.table = "Campaign"
                                      /\ probe.row["created_by"] = probe.ctx.user
    BY DEF SearchAgreesWithOpen
  <2>1. PICK table \in DOMAIN Columns, c \in Contexts : \E row \in RowsOf(table) :
            /\ probe = [table |-> table, row |-> row, ctx |-> c]
            /\ listed = Listed(table, row, c) /\ opened = GetVisible(row, c)
    BY DEF VisibilityIInv
  <2>2. PICK row \in RowsOf(table) :
            /\ probe = [table |-> table, row |-> row, ctx |-> c]
            /\ listed = Listed(table, row, c) /\ opened = GetVisible(row, c)
    BY <2>1
  <2>3. Agrees(table, row, c)
    BY RulesAgree
  <2>4. probe.table = table /\ probe.row = row /\ probe.ctx = c
    BY <2>2
  <2> QED BY <2>2, <2>3, <2>4 DEF Agrees
<1> QED BY <1>1, <1>2, <1>3, PTL DEF VisibilitySpec

----------------------------------------------------------------------------
(* Inbox. *)

AgentOps == InboxOps \ {"inbound", "outbound"}

\* The argument of an operation is of the kind that the operation takes.
ArgumentOK(r) ==
    /\ r.op = "inbound" => r.arg \in InMessages
    /\ r.op = "outbound" => r.arg \in Contacts \cup {NoAgent}
    /\ r.op = "status" => r.arg \in AgentStatuses
    /\ r.op = "priority" => r.arg \in ConversationPriority
    /\ r.op = "assign" => r.arg \in Agents \cup {NoAgent}
    /\ r.op \in {"link", "create", "linkNew"} => r.arg \in Contacts
    /\ \A c \in r.on : r.rows[c].status # "NONE"

\* A conversation in the list, or with a message, is not an unused row; the rest is
\* NothingGoesUnnoticed and LinkedIsMatched for one conversation.
ConversationOK(c) ==
    /\ c \in unseen \cup late \cup Existing => conv[c].status # "NONE"
    /\ c \notin raced => /\ c \in unseen => conv[c].unread > 0
                         /\ c \in late => conv[c].status \notin {"RESOLVED", "CLOSED"}
                         /\ conv[c].lead # NoAgent => conv[c].match = "MATCHED"

InboxIInv ==
    /\ InboxTypeOK /\ InboundStoredOnce
    /\ \A x \in stored : x[1] \in eventRows
    /\ \A c \in Conversations : ConversationOK(c)
    /\ \A p \in InboxHandlers \cup Agents : ArgumentOK(request[p]) /\ request[p].on \subseteq Existing
    /\ \A a \in Agents : request[a].op \in AgentOps

LEMMA InboxFacts ==
    ASSUME InboxIInv
    PROVE  /\ conv \in [Conversations -> ConversationRows] /\ threads \in Seq(Conversations)
           /\ request \in [InboxHandlers \cup Agents -> InboxRequests]
           /\ contacts \subseteq Contacts /\ raced \subseteq Conversations
           /\ unseen \subseteq Conversations /\ late \subseteq Conversations
           /\ stored \subseteq InMessages \X Conversations /\ eventRows \subseteq InMessages
           /\ agentOps \in Nat /\ inboxFaults \in Nat
           /\ Existing \subseteq Conversations
           /\ \A c \in Conversations : conv[c] \in ConversationRows /\ ConversationOK(c)
           /\ \A p \in InboxHandlers \cup Agents : /\ request[p] \in InboxRequests /\ ArgumentOK(request[p])
                                                   /\ request[p].on \subseteq Existing
BY DEF InboxIInv, InboxTypeOK, Existing

\* A commit that was not raced writes what the request computed.
LEMMA WriteBackRow ==
    ASSUME NEW cur \in ConversationRows, NEW old \in ConversationRows, NEW new \in ConversationRows
    PROVE  /\ WriteBack(cur, old, new) \in ConversationRows
           /\ WriteBack(cur, old, new).status = IF new.status = old.status THEN cur.status ELSE new.status
           /\ cur = old => WriteBack(cur, old, new) = new
<1>1. WriteBack(cur, old, new) \in ConversationRows
  BY DEF ConversationRows, WriteBack
<1>2. WriteBack(cur, old, new).status = IF new.status = old.status THEN cur.status ELSE new.status
  BY DEF ConversationRows, WriteBack
<1>3. cur = old => WriteBack(cur, old, new) = new
  BY DEF ConversationRows, WriteBack
<1> QED BY <1>1, <1>2, <1>3

\* One lead found is a match, and only that.
LEMMA MatchFacts ==
    ASSUME NEW found \in SUBSET Contacts
    PROVE  /\ MatchLead(found) \in Contacts \cup {NoAgent} /\ MatchOutcome(found) \in MatchStatus
           /\ MatchLead(found) # NoAgent => MatchOutcome(found) = "MATCHED"
<1>1. CASE Cardinality(found) = 1
  <2>1. found # {}
    BY <1>1, FS_EmptySet
  <2>2. MatchLead(found) \in found
    BY <1>1, <2>1 DEF MatchLead
  <2> QED BY <1>1, <2>2 DEF MatchOutcome, MatchStatus
<1>2. CASE Cardinality(found) # 1
  BY <1>2 DEF MatchLead, MatchOutcome, MatchStatus
<1> QED BY <1>1, <1>2

\* A message counts as unread, opens what was closed, and links no lead that did not match.
LEMMA AfterInboundRow ==
    ASSUME NEW row \in ConversationRows, NEW found \in SUBSET Contacts
    PROVE  LET new == AfterInbound(row, found)
           IN  /\ new \in ConversationRows /\ new.unread > 0
               /\ new.status \notin {"RESOLVED", "CLOSED"}
               /\ row.status # "NONE" => new.status # "NONE"
               /\ (row.lead # NoAgent => row.match = "MATCHED") => (new.lead # NoAgent => new.match = "MATCHED")
<1>1. PICK lead \in Contacts \cup {NoAgent} : lead = IF row.lead = NoAgent THEN MatchLead(found) ELSE row.lead
  BY MatchFacts DEF ConversationRows
<1>2. PICK match \in MatchStatus : match = IF row.lead = NoAgent THEN MatchOutcome(found) ELSE row.match
  BY MatchFacts DEF ConversationRows
<1>3. PICK status \in ConversationStatus :
          status = IF row.status \in {"RESOLVED", "CLOSED"} \/ (row.status = "PENDING" /\ lead # NoAgent)
                   THEN "OPEN" ELSE row.status
  BY DEF ConversationRows, ConversationStatus
<1>4. PICK n \in Nat : n = row.unread + 1 /\ n > 0
  BY DEF ConversationRows
<1>5. AfterInbound(row, found) = [row EXCEPT !.lead = lead, !.match = match, !.status = status, !.unread = n]
  BY <1>1, <1>2, <1>3, <1>4 DEF AfterInbound
<1>6. PICK new \in ConversationRows : /\ new = AfterInbound(row, found) /\ new.lead = lead /\ new.match = match
                                      /\ new.status = status /\ new.unread = n
  BY <1>5 DEF ConversationRows
<1>7. (row.lead # NoAgent => row.match = "MATCHED") => (lead # NoAgent => match = "MATCHED")
  BY <1>1, <1>2, MatchFacts
<1> QED BY <1>3, <1>4, <1>6, <1>7

LEMMA AfterOutboundRow ==
    ASSUME NEW row \in ConversationRows, NEW l \in Contacts \cup {NoAgent}
    PROVE  LET new == AfterOutbound(row, l)
           IN  /\ new \in ConversationRows /\ new.unread = row.unread
               /\ new.status \in {row.status, "OPEN"}
               /\ (row.lead # NoAgent => row.match = "MATCHED") => (new.lead # NoAgent => new.match = "MATCHED")
<1>1. PICK lead \in Contacts \cup {NoAgent} : lead = IF row.lead = NoAgent THEN l ELSE row.lead
  BY DEF ConversationRows
<1>2. PICK match \in MatchStatus : match = IF row.lead = NoAgent /\ l # NoAgent THEN "MATCHED"
                                           ELSE IF row.match = "NULL" THEN "UNMATCHED" ELSE row.match
  BY DEF ConversationRows, MatchStatus
<1>3. PICK status \in ConversationStatus :
          status = IF row.lead = NoAgent /\ l # NoAgent /\ row.status = "PENDING" THEN "OPEN" ELSE row.status
  BY DEF ConversationRows, ConversationStatus
<1>4. AfterOutbound(row, l) = [row EXCEPT !.lead = lead, !.match = match, !.status = status]
  BY <1>1, <1>2, <1>3 DEF AfterOutbound
<1>5. PICK new \in ConversationRows : /\ new = AfterOutbound(row, l) /\ new.lead = lead /\ new.match = match
                                      /\ new.status = status /\ new.unread = row.unread
  BY <1>4 DEF ConversationRows
<1>6. (row.lead # NoAgent => row.match = "MATCHED") => (lead # NoAgent => match = "MATCHED")
  BY <1>1, <1>2
<1> QED BY <1>3, <1>5, <1>6

\* What an agent's operation does to a row: only reading hides messages, only setting the
\* status closes, and linking marks the lead as matched.
LEMMA AfterAgentRow ==
    ASSUME NEW row \in ConversationRows, NEW r \in InboxRequests, r.op \in AgentOps \ {"none", "create"},
           ArgumentOK(r), row.status # "NONE"
    PROVE  LET new == AfterAgent(row, r.op, r.arg)
           IN  /\ new \in ConversationRows /\ new.status # "NONE"
               /\ r.op # "read" => (row.unread > 0 => new.unread > 0)
               /\ r.op # "status" => (row.status \notin {"RESOLVED", "CLOSED"} => new.status \notin {"RESOLVED", "CLOSED"})
               /\ (row.lead # NoAgent => row.match = "MATCHED") => (new.lead # NoAgent => new.match = "MATCHED")
<1>1. CASE r.op = "read"
  <2>1. AfterAgent(row, r.op, r.arg) = [row EXCEPT !.unread = 0]
    BY <1>1 DEF AfterAgent, MarkRead
  <2> QED BY <1>1, <2>1 DEF ConversationRows
<1>2. CASE r.op = "unread"
  <2>1. PICK n \in Nat : n = (IF row.unread = 0 THEN 1 ELSE row.unread) /\ n > 0
    BY DEF ConversationRows
  <2>2. AfterAgent(row, r.op, r.arg) = [row EXCEPT !.unread = n]
    BY <1>2, <2>1 DEF AfterAgent, MarkUnread
  <2> QED BY <1>2, <2>1, <2>2 DEF ConversationRows
<1>3. CASE r.op = "status"
  <2>1. PICK status \in ConversationStatus : status = r.arg /\ status # "NONE"
    BY <1>3, InboxAssumption DEF ArgumentOK, ConversationStatus
  <2>2. AfterAgent(row, r.op, r.arg) = [row EXCEPT !.status = status]
    BY <1>3, <2>1 DEF AfterAgent, ChangeStatus
  <2> QED BY <1>3, <2>1, <2>2 DEF ConversationRows
<1>4. CASE r.op = "priority"
  <2>1. PICK priority \in ConversationPriority : priority = r.arg
    BY <1>4 DEF ArgumentOK
  <2>2. AfterAgent(row, r.op, r.arg) = [row EXCEPT !.priority = priority]
    BY <1>4, <2>1 DEF AfterAgent, ChangePriority
  <2> QED BY <1>4, <2>1, <2>2 DEF ConversationRows
<1>5. CASE r.op = "assign"
  <2>1. PICK user \in Agents \cup {NoAgent} : user = r.arg
    BY <1>5 DEF ArgumentOK
  <2>2. AfterAgent(row, r.op, r.arg) = [row EXCEPT !.assigned = user]
    BY <1>5, <2>1 DEF AfterAgent, AssignUser
  <2> QED BY <1>5, <2>1, <2>2 DEF ConversationRows
<1>6. CASE r.op \in {"link", "linkNew"}
  <2>1. PICK lead \in Contacts : lead = r.arg
    BY <1>6 DEF ArgumentOK
  <2>2. PICK status \in ConversationStatus : status = IF row.status = "PENDING" THEN "OPEN" ELSE row.status
    BY DEF ConversationRows, ConversationStatus
  <2>3. AfterAgent(row, r.op, r.arg) = [row EXCEPT !.lead = lead, !.match = "MATCHED", !.status = status]
    BY <1>6, <2>1, <2>2 DEF AfterAgent, LinkLead
  <2> QED BY <1>6, <2>1, <2>2, <2>3 DEF ConversationRows, MatchStatus
<1>7. CASE r.op = "unlink"
  <2>1. CASE row.lead = NoAgent
    BY <1>7, <2>1 DEF AfterAgent, UnlinkLead
  <2>2. CASE row.lead # NoAgent
    <3>1. PICK status \in ConversationStatus : status = IF row.status = "OPEN" THEN "PENDING" ELSE row.status
      BY DEF ConversationRows, ConversationStatus
    <3>2. AfterAgent(row, r.op, r.arg) = [row EXCEPT !.lead = NoAgent, !.match = "UNMATCHED", !.status = status]
      BY <1>7, <2>2, <3>1 DEF AfterAgent, UnlinkLead
    <3> QED BY <1>7, <3>1, <3>2 DEF ConversationRows, MatchStatus
  <2> QED BY <2>1, <2>2
<1> QED BY <1>1, <1>2, <1>3, <1>4, <1>5, <1>6, <1>7 DEF AgentOps, InboxOps

\* A new conversation joins the list.
LEMMA ThreadsAppend ==
    ASSUME threads \in Seq(Conversations), NEW c \in Conversations, threads' = Append(threads, c)
    PROVE  threads' \in Seq(Conversations) /\ Existing' = Existing \cup {c}
<1>1. /\ threads' \in Seq(Conversations) /\ Len(threads') = Len(threads) + 1 /\ Len(threads) \in Nat
      /\ \A i \in 1 .. Len(threads) : threads'[i] = threads[i]
      /\ threads'[Len(threads) + 1] = c
  OBVIOUS
<1> QED BY <1>1 DEF Existing

\* What a message from a handler does to the conversation it writes and to the others.
LEMMA ThreadWrites ==
    ASSUME InboxIInv, NEW h \in InboxHandlers, NEW c \in Conversations, NEW b \in ConversationRows,
           NEW new \in ConversationRows, b = Before(h, c), b.status # "NONE" => new.status # "NONE",
           Thread(h, c, new), StaleRows(h) \subseteq raced', raced \subseteq raced'
    PROVE  /\ conv' \in [Conversations -> ConversationRows] /\ threads' \in Seq(Conversations)
           /\ Existing' = Existing \cup {c} /\ conv'[c].status # "NONE"
           /\ \A d \in Conversations \ {c} : conv'[d] = conv[d]
           /\ c \notin raced' => conv'[c] = new /\ (b = conv[c] \/ (b = NewConversation /\ conv[c].status = "NONE"))
<1>1. PICK r \in InboxRequests : r = request[h] /\ ArgumentOK(r) /\ r.on \subseteq Existing
  BY InboxFacts
<1>2. CASE r.on = {}
  <2>1. /\ conv' = [conv EXCEPT ![c] = new] /\ threads' = Append(threads, c) /\ conv[c].status = "NONE"
        /\ b = NewConversation
    BY <1>1, <1>2 DEF Thread, Before
  <2>2. b.status # "NONE"
    BY <2>1 DEF NewConversation
  <2> QED BY <2>1, <2>2, InboxFacts, ThreadsAppend
<1>3. CASE r.on # {}
  <2>1. PICK w : w = WriteBack(conv[c], b, new)
    OBVIOUS
  <2>2. c \in r.on /\ b = r.rows[c] /\ conv' = [conv EXCEPT ![c] = w] /\ UNCHANGED threads
    BY <1>1, <1>3, <2>1 DEF Thread, Before
  <2>3. PICK cur \in ConversationRows : cur = conv[c] /\ cur.status # "NONE"
    BY <1>1, <2>2, InboxFacts DEF ConversationOK
  <2>4. w \in ConversationRows /\ w.status # "NONE" /\ (cur = b => w = new)
    <3>1. b.status # "NONE"
      BY <1>1, <2>2 DEF ArgumentOK
    <3> QED BY <2>1, <2>3, <3>1, WriteBackRow
  <2>5. c \in raced' \/ conv[c] = b
    BY <1>1, <2>2 DEF StaleRows
  <2>6. Existing' = Existing /\ c \in Existing
    BY <1>1, <2>2 DEF Existing
  <2>7. /\ conv' \in [Conversations -> ConversationRows] /\ conv'[c] = w
        /\ \A d \in Conversations \ {c} : conv'[d] = conv[d]
    BY <2>2, <2>4, InboxFacts
  <2>8. threads' \in Seq(Conversations) /\ Existing' = Existing \cup {c}
    BY <2>2, <2>6, InboxFacts
  <2>9. c \notin raced' => conv'[c] = new /\ b = conv[c]
    BY <2>3, <2>4, <2>5, <2>7
  <2>10. conv'[c].status # "NONE"
    BY <2>4, <2>7
  <2> QED BY <2>7, <2>8, <2>9, <2>10
<1> QED BY <1>2, <1>3

\* The row a handler starts from.
LEMMA BeforeRow ==
    ASSUME InboxIInv, NEW h \in InboxHandlers, NEW c \in Conversations
    PROVE  Before(h, c) \in ConversationRows
<1>1. NewConversation \in ConversationRows
  BY DEF NewConversation, ConversationRows, ConversationStatus, MatchStatus, ConversationPriority
<1>2. request[h].rows[c] \in ConversationRows
  BY InboxFacts DEF InboxRequests
<1> QED BY <1>1, <1>2 DEF Before

\* Ending a request leaves nothing to go wrong.
RequestsKept ==
    /\ request' \in [InboxHandlers \cup Agents -> InboxRequests]
    /\ \A p \in InboxHandlers \cup Agents : ArgumentOK(request'[p]) /\ request'[p].on \subseteq Existing'
    /\ \A a \in Agents : request'[a].op \in AgentOps

LEMMA OneRequest ==
    ASSUME InboxIInv, NEW p \in InboxHandlers \cup Agents, NEW r \in InboxRequests,
           request' = [request EXCEPT ![p] = r], ArgumentOK(r), r.on \subseteq Existing, Existing \subseteq Existing',
           p \in Agents => r.op \in AgentOps
    PROVE  RequestsKept
BY InboxFacts DEF RequestsKept, InboxIInv

LEMMA EndKeeps ==
    ASSUME InboxIInv, NEW p \in InboxHandlers \cup Agents, EndRequest(p), Existing \subseteq Existing'
    PROVE  RequestsKept
<1>1. NoConversation \in ConversationRows
  BY DEF NoConversation, NewConversation, ConversationRows, ConversationStatus, MatchStatus, ConversationPriority
<1>2. IdleRequest \in InboxRequests
  BY <1>1 DEF IdleRequest, InboxRequests, InboxOps
<1>3. IdleRequest.op = "none" /\ IdleRequest.on = {}
  BY DEF IdleRequest
<1>4. request' = [request EXCEPT ![p] = IdleRequest]
  BY DEF EndRequest
<1> QED BY <1>2, <1>3, <1>4, OneRequest DEF ArgumentOK, AgentOps, InboxOps

\* A conversation that no commit changes and that gets no new message.
LEMMA OthersKept ==
    ASSUME InboxIInv, NEW c \in Conversations, conv'[c] = conv[c], raced \subseteq raced',
           c \in Existing' => c \in Existing, c \in unseen' => c \in unseen, c \in late' => c \in late
    PROVE  ConversationOK(c)'
BY InboxFacts DEF ConversationOK

LEMMA IngestKeeps ==
    ASSUME InboxIInv, NEW h \in InboxHandlers, IngestCommit(h)
    PROVE  InboxIInv'
<1>1. PICK r \in InboxRequests : r = request[h] /\ ArgumentOK(r) /\ r.on \subseteq Existing
  BY InboxFacts
<1>2. PICK m \in InMessages : m = r.arg
  BY <1>1 DEF IngestCommit, ArgumentOK
<1>3. EndRequest(h) /\ UNCHANGED <<contacts, agentOps, inboxFaults>>
  BY DEF IngestCommit
<1>4. CASE m \in eventRows
  <2>1. UNCHANGED <<conv, threads, stored, eventRows, unseen, late, raced>>
    BY <1>1, <1>2, <1>4 DEF IngestCommit
  <2>2. Existing' = Existing
    BY <2>1 DEF Existing
  <2>3. RequestsKept
    BY <1>3, <2>2, EndKeeps
  <2>4. \A c \in Conversations : ConversationOK(c)'
    BY <2>1, <2>2, OthersKept
  <2>5. InboxTypeOK' /\ InboundStoredOnce' /\ \A x \in stored' : x[1] \in eventRows'
    BY <1>3, <2>1, <2>3 DEF InboxIInv, InboxTypeOK, InboundStoredOnce, RequestsKept
  <2> QED BY <2>3, <2>4, <2>5 DEF InboxIInv, RequestsKept
<1>5. CASE m \notin eventRows
  <2>1. PICK c \in Conversations :
            /\ Thread(h, c, AfterInbound(Before(h, c), r.found))
            /\ stored' = stored \cup {<<m, c>>} /\ eventRows' = eventRows \cup {m}
            /\ unseen' = unseen \cup {c} /\ late' = late \cup {c} /\ raced' = raced \cup StaleRows(h)
    BY <1>1, <1>2, <1>5 DEF IngestCommit
  <2>2. PICK b \in ConversationRows : b = Before(h, c)
    BY BeforeRow
  <2>3. r.found \in SUBSET Contacts
    BY DEF InboxRequests
  <2>4. PICK new \in ConversationRows :
            /\ new = AfterInbound(b, r.found) /\ new.unread > 0 /\ new.status \notin {"RESOLVED", "CLOSED"}
            /\ (b.status # "NONE" => new.status # "NONE")
            /\ (b.lead # NoAgent => b.match = "MATCHED") => (new.lead # NoAgent => new.match = "MATCHED")
    BY <2>3, AfterInboundRow
  <2>5. Thread(h, c, new)
    BY <2>1, <2>2, <2>4
  <2>6. /\ conv' \in [Conversations -> ConversationRows] /\ threads' \in Seq(Conversations)
        /\ Existing' = Existing \cup {c} /\ conv'[c].status # "NONE"
        /\ \A d \in Conversations \ {c} : conv'[d] = conv[d]
        /\ c \notin raced' => conv'[c] = new /\ (b = conv[c] \/ (b = NewConversation /\ conv[c].status = "NONE"))
    <3>1. StaleRows(h) \subseteq raced' /\ raced \subseteq raced'
      BY <2>1
    <3> QED BY <2>2, <2>4, <2>5, <3>1, ThreadWrites
  <2>7. RequestsKept
    BY <1>3, <2>6, EndKeeps
  <2>8. ConversationOK(c)'
    <3>1. ASSUME c \notin raced'
          PROVE  conv'[c].unread > 0 /\ conv'[c].status \notin {"RESOLVED", "CLOSED"}
                 /\ (conv'[c].lead # NoAgent => conv'[c].match = "MATCHED")
      <4>1. c \notin raced
        BY <2>1, <3>1
      <4>2. b.lead # NoAgent => b.match = "MATCHED"
        <5>1. CASE b = NewConversation
          BY <5>1 DEF NewConversation
        <5>2. CASE b = conv[c]
          BY <5>2, <4>1, InboxFacts DEF ConversationOK
        <5> QED BY <2>6, <3>1, <5>1, <5>2
      <4> QED BY <2>4, <2>6, <3>1, <4>2
    <3> QED BY <2>6, <3>1 DEF ConversationOK
  <2>9. \A d \in Conversations \ {c} : ConversationOK(d)'
    BY <2>1, <2>6, OthersKept
  <2>10. InboundStoredOnce' /\ \A x \in stored' : x[1] \in eventRows'
    <3>1. InboundStoredOnce /\ \A x \in stored : x[1] \in eventRows
      BY DEF InboxIInv
    <3>2. \A x \in stored : x[1] # m
      BY <1>5, <3>1
    <3>3. <<m, c>>[1] = m
      OBVIOUS
    <3> QED BY <2>1, <3>1, <3>2, <3>3 DEF InboundStoredOnce
  <2>11. StaleRows(h) \subseteq Conversations
    BY <1>1, InboxFacts DEF StaleRows
  <2>12. InboxTypeOK'
    BY <1>3, <2>1, <2>6, <2>7, <2>11, InboxFacts DEF InboxTypeOK, RequestsKept
  <2> QED BY <2>7, <2>8, <2>9, <2>10, <2>12 DEF InboxIInv, RequestsKept
<1> QED BY <1>4, <1>5

LEMMA OutboundKeeps ==
    ASSUME InboxIInv, NEW h \in InboxHandlers, OutboundCommit(h)
    PROVE  InboxIInv'
<1>1. PICK r \in InboxRequests : r = request[h] /\ ArgumentOK(r) /\ r.on \subseteq Existing
  BY InboxFacts
<1>2. PICK l \in Contacts \cup {NoAgent} : l = r.arg
  BY <1>1 DEF OutboundCommit, ArgumentOK
<1>3. /\ EndRequest(h) /\ raced' = raced \cup StaleRows(h)
      /\ UNCHANGED <<stored, eventRows, contacts, agentOps, inboxFaults, unseen, late>>
  BY DEF OutboundCommit
<1>4. PICK c \in Conversations : Thread(h, c, AfterOutbound(Before(h, c), l))
  BY <1>1, <1>2 DEF OutboundCommit
<1>5. PICK b \in ConversationRows : b = Before(h, c)
  BY BeforeRow
<1>6. PICK new \in ConversationRows :
          /\ new = AfterOutbound(b, l) /\ new.unread = b.unread /\ new.status \in {b.status, "OPEN"}
          /\ (b.lead # NoAgent => b.match = "MATCHED") => (new.lead # NoAgent => new.match = "MATCHED")
  BY AfterOutboundRow
<1>7. Thread(h, c, new) /\ (b.status # "NONE" => new.status # "NONE")
      /\ StaleRows(h) \subseteq raced' /\ raced \subseteq raced'
  BY <1>3, <1>4, <1>5, <1>6
<1>8. /\ conv' \in [Conversations -> ConversationRows] /\ threads' \in Seq(Conversations)
      /\ Existing' = Existing \cup {c} /\ conv'[c].status # "NONE"
      /\ \A d \in Conversations \ {c} : conv'[d] = conv[d]
      /\ c \notin raced' => conv'[c] = new /\ (b = conv[c] \/ (b = NewConversation /\ conv[c].status = "NONE"))
  BY <1>5, <1>6, <1>7, ThreadWrites
<1>9. RequestsKept
  BY <1>3, <1>8, EndKeeps
<1>10. ConversationOK(c)'
  <2>1. ASSUME c \notin raced'
        PROVE  /\ c \in unseen => conv'[c].unread > 0
               /\ c \in late => conv'[c].status \notin {"RESOLVED", "CLOSED"}
               /\ conv'[c].lead # NoAgent => conv'[c].match = "MATCHED"
    <3>1. c \notin raced /\ conv'[c] = new
      BY <1>3, <1>8, <2>1
    <3>2. CASE b = NewConversation /\ conv[c].status = "NONE"
      <4>1. c \notin unseen /\ c \notin late
        BY <3>2, InboxFacts DEF ConversationOK
      <4>2. b.lead # NoAgent => b.match = "MATCHED"
        BY <3>2 DEF NewConversation
      <4> QED BY <1>6, <3>1, <4>1, <4>2
    <3>3. CASE b = conv[c]
      <4>1. /\ c \in unseen => b.unread > 0
            /\ c \in late => b.status \notin {"RESOLVED", "CLOSED"}
            /\ b.lead # NoAgent => b.match = "MATCHED"
        BY <3>1, <3>3, InboxFacts DEF ConversationOK
      <4> QED BY <1>6, <3>1, <4>1
    <3> QED BY <1>8, <2>1, <3>2, <3>3
  <2> QED BY <1>3, <1>8, <2>1 DEF ConversationOK
<1>11. \A d \in Conversations \ {c} : ConversationOK(d)'
  BY <1>3, <1>8, OthersKept
<1>12. InboundStoredOnce' /\ \A x \in stored' : x[1] \in eventRows'
  BY <1>3 DEF InboxIInv, InboundStoredOnce
<1>13. StaleRows(h) \subseteq Conversations
  BY <1>1, InboxFacts DEF StaleRows
<1>14. InboxTypeOK'
  BY <1>3, <1>8, <1>9, <1>13, InboxFacts DEF InboxTypeOK, RequestsKept
<1> QED BY <1>9, <1>10, <1>11, <1>12, <1>14 DEF InboxIInv, RequestsKept

LEMMA AgentCommitKeeps ==
    ASSUME InboxIInv, NEW a \in Agents, AgentCommit(a)
    PROVE  InboxIInv'
<1>1. PICK r \in InboxRequests : /\ r = request[a] /\ ArgumentOK(r) /\ r.on \subseteq Existing
                                 /\ r.op \in AgentOps \ {"none", "create"}
  BY InboxFacts DEF InboxIInv, AgentCommit
<1>2. /\ conv' = [c \in Conversations |->
                    IF c \in r.on THEN WriteBack(conv[c], r.rows[c], AfterAgent(r.rows[c], r.op, r.arg))
                    ELSE conv[c]]
      /\ unseen' = IF r.op = "read" THEN unseen \ r.on ELSE unseen
      /\ late' = IF r.op = "status" THEN late \ r.on ELSE late
      /\ raced' = raced \cup StaleRows(a)
      /\ EndRequest(a)
      /\ UNCHANGED <<threads, stored, eventRows, contacts, agentOps, inboxFaults>>
  BY <1>1 DEF AgentCommit
<1>3. Existing' = Existing
  BY <1>2 DEF Existing
<1>4. RequestsKept
  BY <1>2, <1>3, EndKeeps
<1>5. ASSUME NEW c \in Conversations
      PROVE  conv'[c] \in ConversationRows /\ ConversationOK(c)'
  <2>1. CASE c \notin r.on
    <3>1. conv'[c] = conv[c]
      BY <1>2, <2>1
    <3> QED BY <1>2, <1>3, <3>1, InboxFacts, OthersKept
  <2>2. CASE c \in r.on
    <3>1. PICK cur \in ConversationRows, old \in ConversationRows :
              /\ cur = conv[c] /\ old = r.rows[c] /\ cur.status # "NONE" /\ old.status # "NONE"
      BY <1>1, <2>2, InboxFacts DEF InboxRequests, ConversationOK, ArgumentOK
    <3>2. PICK new \in ConversationRows :
              /\ new = AfterAgent(old, r.op, r.arg) /\ new.status # "NONE"
              /\ r.op # "read" => (old.unread > 0 => new.unread > 0)
              /\ r.op # "status" => (old.status \notin {"RESOLVED", "CLOSED"} => new.status \notin {"RESOLVED", "CLOSED"})
              /\ (old.lead # NoAgent => old.match = "MATCHED") => (new.lead # NoAgent => new.match = "MATCHED")
      BY <1>1, <3>1, AfterAgentRow
    <3>3. PICK w : w = WriteBack(cur, old, new)
      OBVIOUS
    <3>4. conv'[c] = w /\ w \in ConversationRows /\ w.status # "NONE" /\ (cur = old => w = new)
      <4>1. conv'[c] = w
        BY <1>2, <2>2, <3>1, <3>2, <3>3
      <4> QED BY <3>1, <3>2, <3>3, <4>1, WriteBackRow
    <3>5. ASSUME c \notin raced'
          PROVE  /\ c \in unseen' => conv'[c].unread > 0
                 /\ c \in late' => conv'[c].status \notin {"RESOLVED", "CLOSED"}
                 /\ conv'[c].lead # NoAgent => conv'[c].match = "MATCHED"
      <4>1. c \notin raced /\ cur = old
        BY <1>1, <1>2, <2>2, <3>1, <3>5 DEF StaleRows
      <4>2. /\ c \in unseen => old.unread > 0
            /\ c \in late => old.status \notin {"RESOLVED", "CLOSED"}
            /\ old.lead # NoAgent => old.match = "MATCHED"
        BY <3>1, <4>1, InboxFacts DEF ConversationOK
      <4>3. /\ c \in unseen' => c \in unseen /\ r.op # "read"
            /\ c \in late' => c \in late /\ r.op # "status"
        BY <1>2, <2>2
      <4>4. conv'[c] = new
        BY <3>4, <4>1
      <4> QED BY <3>2, <4>2, <4>3, <4>4
    <3> QED BY <3>4, <3>5 DEF ConversationOK
  <2> QED BY <2>1, <2>2
<1>6. InboundStoredOnce' /\ \A x \in stored' : x[1] \in eventRows'
  BY <1>2 DEF InboxIInv, InboundStoredOnce
<1>7. StaleRows(a) \subseteq Conversations
  BY <1>1, InboxFacts DEF StaleRows
<1>8. conv' \in [Conversations -> ConversationRows]
  BY <1>2, <1>5
<1>9. unseen' \subseteq Conversations /\ late' \subseteq Conversations
  BY <1>2, InboxFacts
<1>10. InboxTypeOK'
  BY <1>2, <1>4, <1>7, <1>8, <1>9, InboxFacts DEF InboxTypeOK, RequestsKept
<1> QED BY <1>4, <1>5, <1>6, <1>10 DEF InboxIInv, RequestsKept

\* A step that commits no conversation.
LEMMA NothingCommitted ==
    ASSUME InboxIInv, RequestsKept, UNCHANGED <<conv, threads, stored, eventRows, unseen, late, raced>>,
           contacts' \subseteq Contacts, agentOps' \in Nat, inboxFaults' \in Nat
    PROVE  InboxIInv'
<1>1. Existing' = Existing
  BY DEF Existing
<1>2. \A c \in Conversations : ConversationOK(c)'
  BY <1>1, OthersKept
<1>3. InboxTypeOK' /\ InboundStoredOnce' /\ \A x \in stored' : x[1] \in eventRows'
  BY DEF InboxIInv, InboxTypeOK, InboundStoredOnce, RequestsKept
<1> QED BY <1>2, <1>3 DEF InboxIInv, RequestsKept

\* What a request loads.
LEMMA LoadKeeps ==
    ASSUME InboxIInv, NEW p \in InboxHandlers \cup Agents, NEW op \in InboxOps, NEW cs \in SUBSET Existing,
           NEW arg \in Agents \cup Contacts \cup InMessages \cup ConversationStatus
                       \cup ConversationPriority \cup {NoAgent},
           Load(p, op, arg, cs), UNCHANGED threads, p \in Agents => op \in AgentOps,
           /\ op = "inbound" => arg \in InMessages
           /\ op = "outbound" => arg \in Contacts \cup {NoAgent}
           /\ op = "status" => arg \in AgentStatuses
           /\ op = "priority" => arg \in ConversationPriority
           /\ op = "assign" => arg \in Agents \cup {NoAgent}
           /\ op \in {"link", "create", "linkNew"} => arg \in Contacts
    PROVE  RequestsKept
<1>1. NoConversation \in ConversationRows
  BY DEF NoConversation, NewConversation, ConversationRows, ConversationStatus, MatchStatus, ConversationPriority
<1>2. PICK rows \in [Conversations -> ConversationRows] :
          /\ rows = [c \in Conversations |-> IF c \in cs THEN conv[c] ELSE NoConversation]
          /\ \A c \in cs : rows[c] = conv[c]
  <2>1. [c \in Conversations |-> IF c \in cs THEN conv[c] ELSE NoConversation] \in [Conversations -> ConversationRows]
    BY <1>1, InboxFacts
  <2>2. cs \subseteq Conversations
    BY InboxFacts
  <2> QED BY <2>1, <2>2
<1>3. PICK found \in SUBSET Contacts : found = IF op = "inbound" THEN contacts ELSE {}
  BY InboxFacts
<1>4. PICK r \in InboxRequests :
          /\ r = [op |-> op, on |-> cs, arg |-> arg, rows |-> rows, found |-> found]
          /\ r.op = op /\ r.on = cs /\ r.arg = arg /\ r.rows = rows
  <2>1. cs \subseteq Conversations
    BY InboxFacts
  <2>2. [op |-> op, on |-> cs, arg |-> arg, rows |-> rows, found |-> found] \in InboxRequests
    BY <2>1 DEF InboxRequests
  <2> QED BY <2>2
<1>5. request' = [request EXCEPT ![p] = r]
  BY <1>2, <1>3, <1>4 DEF Load
<1>6. \A c \in r.on : r.rows[c].status # "NONE"
  BY <1>2, <1>4, InboxFacts DEF ConversationOK
<1>7. ArgumentOK(r)
  BY <1>4, <1>6 DEF ArgumentOK
<1>8. Existing' = Existing
  BY DEF Existing
<1> QED BY <1>4, <1>5, <1>7, <1>8, OneRequest

LEMMA HandlerLoadKeeps ==
    ASSUME InboxIInv, NEW h \in InboxHandlers,
           (\E m \in InMessages : IngestLoad(h, m)) \/ (\E l \in contacts \cup {NoAgent} : OutboundLoad(h, l))
    PROVE  InboxIInv'
<1>1. FindConversation \in SUBSET Existing
  <2>1. threads # <<>> => Len(threads) \in Nat \ {0}
    BY InboxFacts
  <2> QED BY <2>1 DEF FindConversation, Existing
<1>2. h \notin Agents
  BY InboxAssumption
<1>3. ASSUME NEW m \in InMessages, IngestLoad(h, m)
      PROVE  InboxIInv'
  <2>1. Load(h, "inbound", m, FindConversation) /\ "inbound" \in InboxOps
    BY <1>3 DEF IngestLoad, InboxOps
  <2>2. UNCHANGED <<conv, threads, stored, eventRows, contacts, agentOps, inboxFaults, unseen, late, raced>>
    BY <1>3 DEF IngestLoad
  <2>3. RequestsKept
    BY <1>1, <1>2, <2>1, <2>2, LoadKeeps
  <2> QED BY <2>2, <2>3, InboxFacts, NothingCommitted
<1>4. ASSUME NEW l \in contacts \cup {NoAgent}, OutboundLoad(h, l)
      PROVE  InboxIInv'
  <2>1. Load(h, "outbound", l, FindConversation) /\ "outbound" \in InboxOps /\ l \in Contacts \cup {NoAgent}
    BY <1>4, InboxFacts DEF OutboundLoad, InboxOps
  <2>2. UNCHANGED <<conv, threads, stored, eventRows, contacts, inboxFaults, unseen, late, raced>>
        /\ agentOps' = agentOps + 1
    BY <1>4 DEF OutboundLoad
  <2>3. RequestsKept
    BY <1>1, <1>2, <2>1, <2>2, LoadKeeps
  <2> QED BY <2>2, <2>3, InboxFacts, NothingCommitted
<1> QED BY <1>3, <1>4

\* An agent has a permission for none of the handlers' operations, nor for the second half
\* of creating a lead.
LEMMA AgentPermissions ==
    ASSUME NEW a, NEW op, Permitted(a, op)
    PROVE  op \in {"read", "unread", "status", "priority", "assign", "link", "unlink", "create"}
BY DEF Permitted, ApiWorkRoutes, ApiLeadRoutes, UiRoutes

LEMMA AgentLoadKeeps ==
    ASSUME InboxIInv, NEW a \in Agents,
           \/ \E op \in InboxOps, cs \in SUBSET Existing,
                 arg \in AgentStatuses \cup ConversationPriority \cup Agents \cup Contacts \cup {NoAgent} :
                    AgentLoad(a, op, arg, cs)
           \/ \E user \in Agents \cup {NoAgent}, c \in Existing : AssignConversation(a, user, c)
    PROVE  InboxIInv'
<1>1. ASSUME NEW op \in InboxOps, NEW cs \in SUBSET Existing,
             NEW arg \in AgentStatuses \cup ConversationPriority \cup Agents \cup Contacts \cup {NoAgent},
             AgentLoad(a, op, arg, cs)
      PROVE  InboxIInv'
  <2>1. Permitted(a, op) /\ Acceptable(op, arg, cs) /\ Load(a, op, arg, cs)
    BY <1>1 DEF AgentLoad
  <2>2. UNCHANGED <<conv, threads, stored, eventRows, contacts, inboxFaults, unseen, late, raced>>
        /\ agentOps' = agentOps + 1
    BY <1>1 DEF AgentLoad
  <2>3. op \in {"read", "unread", "status", "priority", "assign", "link", "unlink", "create"}
    BY <2>1, AgentPermissions
  <2>4. op \in AgentOps /\ op \notin {"inbound", "outbound", "linkNew"}
    BY <2>3 DEF AgentOps, InboxOps
  <2>5. /\ op = "status" => arg \in AgentStatuses
        /\ op = "priority" => arg \in ConversationPriority
        /\ op = "assign" => arg \in Agents \cup {NoAgent}
        /\ op \in {"link", "create"} => arg \in Contacts
    BY <2>1, <2>3, InboxFacts DEF Acceptable
  <2>6. arg \in Agents \cup Contacts \cup InMessages \cup ConversationStatus \cup ConversationPriority \cup {NoAgent}
    BY InboxAssumption DEF ConversationStatus
  <2>7. RequestsKept
    BY <2>1, <2>2, <2>4, <2>5, <2>6, LoadKeeps
  <2> QED BY <2>2, <2>7, InboxFacts, NothingCommitted
<1>2. ASSUME NEW user \in Agents \cup {NoAgent}, NEW c \in Existing, AssignConversation(a, user, c)
      PROVE  InboxIInv'
  <2>1. Load(a, "assign", user, {c}) /\ {c} \in SUBSET Existing /\ "assign" \in InboxOps /\ "assign" \in AgentOps
    BY <1>2 DEF AssignConversation, AgentOps, InboxOps
  <2>2. UNCHANGED <<conv, threads, stored, eventRows, contacts, inboxFaults, unseen, late, raced>>
        /\ agentOps' = agentOps + 1
    BY <1>2 DEF AssignConversation
  <2>3. RequestsKept
    BY <2>1, <2>2, LoadKeeps
  <2> QED BY <2>2, <2>3, InboxFacts, NothingCommitted
<1> QED BY <1>1, <1>2

LEMMA CreateLeadKeeps ==
    ASSUME InboxIInv, NEW a \in Agents, CreateLeadFromConversation(a)
    PROVE  InboxIInv'
<1>1. PICK r \in InboxRequests : r = request[a] /\ ArgumentOK(r) /\ r.on \subseteq Existing /\ r.op = "create"
  BY InboxFacts DEF CreateLeadFromConversation
<1>2. PICK n \in InboxRequests : /\ n = [r EXCEPT !.op = "linkNew"] /\ n.op = "linkNew" /\ n.on = r.on
                                 /\ n.arg = r.arg /\ n.rows = r.rows
  <2>1. [r EXCEPT !.op = "linkNew"] \in InboxRequests
    BY DEF InboxRequests, InboxOps
  <2> QED BY <2>1 DEF InboxRequests
<1>3. /\ request' = [request EXCEPT ![a] = n] /\ contacts' = contacts \cup {r.arg}
      /\ UNCHANGED <<conv, threads, stored, eventRows, agentOps, inboxFaults, unseen, late, raced>>
  BY <1>1, <1>2, InboxFacts DEF CreateLeadFromConversation
<1>4. r.arg \in Contacts /\ ArgumentOK(n) /\ n.op \in AgentOps
  BY <1>1, <1>2 DEF ArgumentOK, AgentOps, InboxOps
<1>5. Existing' = Existing
  BY <1>3 DEF Existing
<1>6. RequestsKept
  BY <1>1, <1>2, <1>3, <1>4, <1>5, OneRequest
<1> QED BY <1>3, <1>4, <1>6, InboxFacts, NothingCommitted

\* A deleted lead leaves its conversations unlinked and otherwise as they were.
LEMMA DeleteLeadKeeps ==
    ASSUME InboxIInv, NEW l \in Contacts, DeleteLead(l)
    PROVE  InboxIInv'
<1>1. /\ contacts' = contacts \ {l} /\ inboxFaults' = inboxFaults + 1
      /\ conv' = [c \in Conversations |-> IF conv[c].lead = l THEN [conv[c] EXCEPT !.lead = NoAgent] ELSE conv[c]]
      /\ UNCHANGED <<threads, stored, eventRows, request, agentOps, unseen, late, raced>>
  BY DEF DeleteLead, InboxFault
<1>2. Existing' = Existing
  BY <1>1 DEF Existing
<1>3. ASSUME NEW c \in Conversations
      PROVE  conv'[c] \in ConversationRows /\ ConversationOK(c)'
  <2>1. CASE conv[c].lead # l
    <3>1. conv'[c] = conv[c]
      BY <1>1, <2>1
    <3> QED BY <1>1, <1>2, <3>1, InboxFacts, OthersKept
  <2>2. CASE conv[c].lead = l
    <3>1. PICK row \in ConversationRows : row = conv[c]
      BY InboxFacts
    <3>2. PICK new \in ConversationRows : /\ new = [row EXCEPT !.lead = NoAgent] /\ new.lead = NoAgent
                                          /\ new.status = row.status /\ new.unread = row.unread
      <4>1. [row EXCEPT !.lead = NoAgent] \in ConversationRows
        BY DEF ConversationRows
      <4> QED BY <4>1 DEF ConversationRows
    <3>3. conv'[c] = new
      BY <1>1, <2>2, <3>1, <3>2
    <3> QED BY <1>1, <1>2, <3>1, <3>2, <3>3, InboxFacts DEF ConversationOK
  <2> QED BY <2>1, <2>2
<1>4. conv' \in [Conversations -> ConversationRows]
  BY <1>1, <1>3
<1>5. InboxTypeOK'
  BY <1>1, <1>4, InboxFacts DEF InboxTypeOK
<1>6. InboundStoredOnce' /\ \A x \in stored' : x[1] \in eventRows'
  BY <1>1 DEF InboxIInv, InboundStoredOnce
<1> QED BY <1>1, <1>2, <1>3, <1>5, <1>6 DEF InboxIInv

LEMMA InboxStep_IInv == InboxIInv /\ [InboxNext]_inboxVars => InboxIInv'
<1>1. ASSUME InboxIInv, NEW p \in InboxHandlers \cup Agents, RequestRollsBack(p) \/ LeadGone(p)
      PROVE  InboxIInv'
  <2>1. /\ EndRequest(p)
        /\ UNCHANGED <<conv, threads, stored, eventRows, contacts, agentOps, unseen, late, raced>>
        /\ inboxFaults' \in Nat
    BY <1>1, InboxFacts DEF RequestRollsBack, LeadGone, InboxFault
  <2>2. Existing' = Existing
    BY <2>1 DEF Existing
  <2>3. RequestsKept
    BY <1>1, <2>1, <2>2, EndKeeps
  <2> QED BY <1>1, <2>1, <2>3, InboxFacts, NothingCommitted
<1>2. ASSUME InboxIInv, InboxNext
      PROVE  InboxIInv'
  BY <1>1, <1>2, HandlerLoadKeeps, IngestKeeps, OutboundKeeps, AgentLoadKeeps, AgentCommitKeeps, CreateLeadKeeps,
     DeleteLeadKeeps DEF InboxNext
<1>3. ASSUME InboxIInv, UNCHANGED inboxVars
      PROVE  InboxIInv'
  BY <1>3 DEF InboxIInv, inboxVars, InboxTypeOK, InboundStoredOnce, ConversationOK, Existing
<1> QED BY <1>2, <1>3

\* Whatever the order of deliveries, campaign sends, agents, rollbacks and deleted leads, an
\* inbound message is stored once, a message that nobody has read or answered is shown, and
\* a linked lead is shown as matched, wherever no commit wrote over another
\* (ConversationEngine, InboxWorkspace).
THEOREM InboxInvHolds == InboxSpec => []InboxInv
<1>1. InboxInit => InboxIInv
  <2> SUFFICES ASSUME InboxInit
               PROVE  InboxIInv
    OBVIOUS
  <2>1. NoConversation \in ConversationRows /\ NoConversation.lead = NoAgent
    BY DEF NoConversation, NewConversation, ConversationRows, ConversationStatus, MatchStatus, ConversationPriority
  <2>2. IdleRequest \in InboxRequests /\ IdleRequest.op = "none" /\ IdleRequest.on = {}
    BY <2>1 DEF IdleRequest, InboxRequests, InboxOps
  <2>3. Existing = {}
    BY DEF InboxInit, Existing
  <2>4. \A c \in Conversations : ConversationOK(c)
    BY <2>1, <2>3 DEF InboxInit, ConversationOK
  <2>5. \A p \in InboxHandlers \cup Agents : request[p] = IdleRequest
    BY DEF InboxInit
  <2>6. \A p \in InboxHandlers \cup Agents : ArgumentOK(request[p]) /\ request[p].on \subseteq Existing
    BY <2>2, <2>5 DEF ArgumentOK
  <2>7. \A a \in Agents : request[a].op \in AgentOps
    BY <2>2, <2>5 DEF AgentOps, InboxOps
  <2>8. InboxTypeOK
    BY <2>1, <2>2 DEF InboxInit, InboxTypeOK
  <2>9. InboundStoredOnce /\ \A x \in stored : x[1] \in eventRows
    BY DEF InboxInit, InboundStoredOnce
  <2> QED BY <2>4, <2>6, <2>7, <2>8, <2>9 DEF InboxIInv
<1>2. InboxIInv => InboxInv
  BY DEF InboxIInv, InboxInv, ConversationOK, NothingGoesUnnoticed, LinkedIsMatched
<1> QED BY <1>1, <1>2, InboxStep_IInv, PTL DEF InboxSpec

----------------------------------------------------------------------------
(* Requests. *)

(* One of the steps taken so far is of the kinds. *)
Taken(kinds) == \E i \in DOMAIN handler.prog : i < step /\ handler.prog[i] \in kinds

(* A write of the past that no audit entry could drop is kept, or still uncommitted. *)
WritesStand ==
    \A i \in DOMAIN handler.prog :
        i < step /\ handler.prog[i] = "write" /\ Survives(handler, i, step) =>
            kept \/ (pending /\ NoneBetween(handler, i, step, {"commit"}))

(* What a request has done so far follows from the steps it has taken. *)
RequestOK ==
    /\ step # 0 => MayEnter(caller, handler)
    /\ \A i \in DOMAIN handler.prog :
         i < step /\ handler.prog[i] \in PERMISSIONS => handler.prog[i] \in CallerPermissions(caller)
    /\ kept \/ pending => Taken({"write"})
    /\ kept => Taken({"commit", "audit"})
    /\ logged => Taken({"audit"})
    /\ sent => Taken({"effect"})
    /\ pending => \E i \in DOMAIN handler.prog :
         i < step /\ handler.prog[i] = "write" /\ NoneBetween(handler, i, step, {"commit"})
    /\ lost => ~CommitsItself(handler)
    /\ answer = "none" => WritesStand
    /\ logged /\ LogsAfterwards(handler) => kept
    /\ answer \in {"refused", "not_found"} /\ RefusesFirst(handler) => ~kept /\ ~logged /\ ~sent

(* The inductive invariant of the requests. *)
RequestsIInv ==
    /\ RequestsTypeOK
    /\ handler = Nobody => ~pending /\ ~kept /\ ~logged /\ ~sent /\ ~lost /\ answer = "none"
    /\ handler # Nobody => RequestOK

LEMMA RequestFacts ==
    ASSUME RequestsIInv, handler # Nobody
    PROVE  /\ handler \in Handlers /\ caller \in RequestCallers /\ caller # Nobody
           /\ handler.prog \in Seq(StepKinds \cup PERMISSIONS)
           /\ Len(handler.prog) \in Nat /\ DOMAIN handler.prog = 1 .. Len(handler.prog)
           /\ step \in 0 .. Len(handler.prog) + 1
           /\ {pending, kept, logged, sent, lost} \subseteq BOOLEAN /\ answer \in Answers
           /\ RequestOK
<1>1. handler \in Handlers /\ caller \in RequestCallers /\ caller # Nobody
  BY RequestsAssumption DEF RequestsIInv, RequestsTypeOK
<1>2. handler.prog \in Seq(StepKinds \cup PERMISSIONS)
  BY <1>1, RequestsAssumption
<1>3. Len(handler.prog) \in Nat /\ DOMAIN handler.prog = 1 .. Len(handler.prog)
  BY <1>2
<1> QED BY <1>1, <1>2, <1>3 DEF RequestsIInv, RequestsTypeOK

(* The code's row of a handler keeps to the rules of its table. *)
LEMMA HandlerRules ==
    ASSUME NEW h \in Handlers
    PROVE  /\ RefusesFirst(h) \/ <<h.at, h.name>> \in PartialHandlers
           /\ CommitsItself(h) \/ <<h.at, h.name>> \in LosingHandlers
           /\ StopsViewers(h) \/ h.needs = Anyone \/ <<h.at, h.name>> \in ViewerHandlers
           /\ \/ LogsAfterwards(h)
              \/ "write" \notin {h.prog[i] : i \in DOMAIN h.prog}
              \/ <<h.at, h.name>> \in LogsFirst
BY RequestsAssumption

(* No permission has the name of a step. *)
LEMMA StepsAreNoPermissions == StepKinds \cap PERMISSIONS = {}
<1>1. StepKinds \cap VIEWER = {}
  BY DEF StepKinds, VIEWER
<1>2. StepKinds \cap OPERATOR = {}
  BY <1>1 DEF StepKinds, OPERATOR
<1>3. StepKinds \cap MANAGER = {}
  BY <1>2 DEF StepKinds, MANAGER
<1>4. StepKinds \cap ADMIN = {}
  BY <1>3 DEF StepKinds, ADMIN
<1> QED BY <1>4 DEF StepKinds, PERMISSIONS, SUPER_ADMIN

(* The past after one more step. *)
LEMMA OneMoreStep ==
    ASSUME RequestsIInv, Running, step \in DOMAIN handler.prog, Continue
    PROVE  /\ handler' = handler /\ caller' = caller /\ answer' = answer /\ step' = step + 1
           /\ step \in Nat /\ step > 0
           /\ \A i \in DOMAIN handler.prog : i \in Nat /\ (i < step + 1 <=> i < step \/ i = step)
           /\ \A kinds : Taken(kinds) \/ handler.prog[step] \in kinds => Taken(kinds)'
           /\ \A i \in DOMAIN handler.prog : \A kinds :
                NoneBetween(handler, i, step, kinds) /\ handler.prog[step] \notin kinds
                  => NoneBetween(handler, i, step + 1, kinds)
           /\ \A kinds : NoneBetween(handler, step, step + 1, kinds)
           /\ \A i \in DOMAIN handler.prog :
                i < step /\ Survives(handler, i, step + 1) =>
                  /\ Survives(handler, i, step)
                  /\ handler.prog[step] = "audit" => ~NoneBetween(handler, i, step, {"commit"})
<1>1. Len(handler.prog) \in Nat /\ DOMAIN handler.prog = 1 .. Len(handler.prog)
  BY RequestFacts DEF Running
<1>2. /\ handler' = handler /\ caller' = caller /\ answer' = answer /\ step' = step + 1
      /\ step \in Nat /\ step > 0
  BY <1>1 DEF Continue
<1>3. \A i \in DOMAIN handler.prog : i \in Nat /\ (i < step + 1 <=> i < step \/ i = step)
  BY <1>1, <1>2
<1>4. ASSUME NEW kinds, Taken(kinds) \/ handler.prog[step] \in kinds
      PROVE  Taken(kinds)'
  BY <1>2, <1>3, <1>4 DEF Taken
<1>5. ASSUME NEW i \in DOMAIN handler.prog, NEW kinds, NoneBetween(handler, i, step, kinds),
             handler.prog[step] \notin kinds
      PROVE  NoneBetween(handler, i, step + 1, kinds)
  BY <1>3, <1>5 DEF NoneBetween
<1>6. ASSUME NEW kinds
      PROVE  NoneBetween(handler, step, step + 1, kinds)
  BY <1>2, <1>3 DEF NoneBetween
<1>7. ASSUME NEW i \in DOMAIN handler.prog, i < step, Survives(handler, i, step + 1)
      PROVE  /\ Survives(handler, i, step)
             /\ handler.prog[step] = "audit" => ~NoneBetween(handler, i, step, {"commit"})
  BY <1>2, <1>3, <1>7 DEF Survives
<1> QED BY <1>2, <1>3, <1>4, <1>5, <1>6, <1>7

(* A step that adds to what was done only what its kind allows. *)
LEMMA Onward ==
    ASSUME RequestsIInv, Running, step \in DOMAIN handler.prog, Continue,
           {pending', kept', logged', sent', lost'} \subseteq BOOLEAN,
           handler.prog[step] \in PERMISSIONS => handler.prog[step] \in CallerPermissions(caller),
           kept' \/ pending' => kept \/ pending \/ handler.prog[step] = "write",
           kept' => kept \/ handler.prog[step] \in {"commit", "audit"},
           logged' => logged \/ handler.prog[step] = "audit",
           sent' => sent \/ handler.prog[step] = "effect",
           pending' => handler.prog[step] = "write" \/ (pending /\ handler.prog[step] # "commit"),
           lost' => lost \/ ~CommitsItself(handler),
           logged' /\ LogsAfterwards(handler) => kept',
           WritesStand'
    PROVE  RequestsIInv'
<1>1. /\ handler \in Handlers /\ caller \in RequestCallers /\ handler # Nobody /\ caller # Nobody
      /\ Len(handler.prog) \in Nat /\ DOMAIN handler.prog = 1 .. Len(handler.prog)
      /\ answer = "none" /\ RequestOK
  BY RequestFacts DEF Running
<1>2. /\ handler' = handler /\ caller' = caller /\ answer' = answer /\ step' = step + 1
      /\ step \in Nat /\ step > 0
      /\ \A i \in DOMAIN handler.prog : i \in Nat /\ (i < step + 1 <=> i < step \/ i = step)
  BY OneMoreStep
<1>3. RequestsTypeOK'
  BY <1>1, <1>2 DEF RequestsTypeOK, Answers
<1>4. /\ MayEnter(caller, handler)'
      /\ \A i \in DOMAIN handler'.prog :
           i < step' /\ handler'.prog[i] \in PERMISSIONS => handler'.prog[i] \in CallerPermissions(caller)'
  <2>1. MayEnter(caller, handler)
    BY <1>1, <1>2 DEF RequestOK
  <2>2. MayEnter(caller', handler')
    BY <1>2, <2>1
  <2>3. ASSUME NEW i \in DOMAIN handler.prog, i < step + 1, handler.prog[i] \in PERMISSIONS
        PROVE  handler.prog[i] \in CallerPermissions(caller)
    BY <1>1, <1>2, <2>3 DEF RequestOK
  <2>4. CallerPermissions(caller') = CallerPermissions(caller)
    BY <1>2
  <2> QED BY <1>2, <2>2, <2>3, <2>4
<1>5. /\ kept' \/ pending' => Taken({"write"})'
      /\ kept' => Taken({"commit", "audit"})'
      /\ logged' => Taken({"audit"})'
      /\ sent' => Taken({"effect"})'
  BY <1>1, OneMoreStep DEF RequestOK
<1>6. ASSUME pending'
      PROVE  \E i \in DOMAIN handler'.prog :
               i < step' /\ handler'.prog[i] = "write" /\ NoneBetween(handler', i, step', {"commit"})
  <2>1. CASE handler.prog[step] = "write"
    BY <1>2, <2>1, OneMoreStep
  <2>2. CASE pending /\ handler.prog[step] # "commit"
    <3>1. PICK i \in DOMAIN handler.prog :
            i < step /\ handler.prog[i] = "write" /\ NoneBetween(handler, i, step, {"commit"})
      BY <1>1, <2>2 DEF RequestOK
    <3>2. NoneBetween(handler, i, step + 1, {"commit"})
      BY <2>2, <3>1, OneMoreStep
    <3> QED BY <1>2, <3>1, <3>2
  <2> QED BY <1>6, <2>1, <2>2
<1>7. lost' => ~CommitsItself(handler')
  BY <1>1, <1>2 DEF RequestOK
<1>8. RequestOK'
  BY <1>1, <1>2, <1>4, <1>5, <1>6, <1>7 DEF RequestOK
<1> QED BY <1>1, <1>2, <1>3, <1>8 DEF RequestsIInv

(* The writes of the past after a step that commits nothing and drops nothing. *)
LEMMA WritesGoOn ==
    ASSUME RequestsIInv, Running, step \in DOMAIN handler.prog, Continue,
           handler.prog[step] # "commit", handler.prog[step] # "audit",
           kept => kept', pending \/ handler.prog[step] = "write" => pending'
    PROVE  WritesStand'
<1>1. RequestOK /\ answer = "none"
  BY RequestFacts DEF Running
<1>2. ASSUME NEW i \in DOMAIN handler.prog, i < step + 1, handler.prog[i] = "write",
             Survives(handler, i, step + 1)
      PROVE  kept' \/ (pending' /\ NoneBetween(handler, i, step + 1, {"commit"}))
  <2>1. CASE i = step
    BY <1>2, <2>1, OneMoreStep
  <2>2. CASE i < step
    <3>1. Survives(handler, i, step)
      BY <1>2, <2>2, OneMoreStep
    <3>2. kept \/ (pending /\ NoneBetween(handler, i, step, {"commit"}))
      BY <1>1, <1>2, <2>2, <3>1 DEF RequestOK, WritesStand
    <3>3. NoneBetween(handler, i, step, {"commit"}) => NoneBetween(handler, i, step + 1, {"commit"})
      BY OneMoreStep
    <3> QED BY <3>2, <3>3
  <2> QED BY <1>2, <2>1, <2>2, OneMoreStep
<1> QED BY <1>2, OneMoreStep DEF WritesStand

(* Steps that only read. *)
LEMMA ReadingGoesOn ==
    ASSUME RequestsIInv, Running, step \in DOMAIN handler.prog, Continue,
           \/ handler.prog[step] \in {"look", "scope", "check"}
           \/ /\ handler.prog[step] \in PERMISSIONS
              /\ handler.prog[step] \in CallerPermissions(caller),
           pending' = pending, kept' = kept, logged' = logged, sent' = sent, lost' = lost
    PROVE  RequestsIInv'
<1>1. /\ handler.prog[step] \in PERMISSIONS => handler.prog[step] \in CallerPermissions(caller)
      /\ handler.prog[step] \notin {"commit", "audit", "write", "effect"}
  BY StepsAreNoPermissions DEF StepKinds
<1>2. RequestOK /\ {pending, kept, logged, sent, lost} \subseteq BOOLEAN
  BY RequestFacts DEF Running
<1>3. WritesStand'
  BY <1>1, WritesGoOn
<1> QED BY <1>1, <1>2, <1>3, Onward DEF RequestOK

(* The end of a request. *)
LEMMA AnswerKeeps ==
    ASSUME RequestsIInv, Running, NEW a \in Answers \ {"none"}, Answer(a),
           a = "ok" => (pending => ~CommitsItself(handler)),
           a \in {"refused", "not_found"} /\ RefusesFirst(handler) => ~Taken({"commit", "audit", "effect"})
    PROVE  RequestsIInv'
<1>1. /\ handler \in Handlers /\ caller \in RequestCallers /\ handler # Nobody /\ caller # Nobody
      /\ {pending, kept, logged, sent, lost} \subseteq BOOLEAN
      /\ Len(handler.prog) \in Nat /\ step \in 0 .. Len(handler.prog) + 1
      /\ answer = "none" /\ RequestOK
  BY RequestFacts DEF Running
<1>2. /\ answer' = a /\ lost' = (lost \/ (pending /\ a = "ok")) /\ pending' = FALSE
      /\ UNCHANGED <<caller, handler, step, kept, logged, sent>>
  BY DEF Answer
<1>3. RequestsTypeOK'
  BY <1>1, <1>2 DEF RequestsTypeOK
<1>4. /\ MayEnter(caller, handler) <=> MayEnter(caller', handler')
      /\ CallerPermissions(caller) = CallerPermissions(caller')
      /\ \A kinds : Taken(kinds) => Taken(kinds)'
  BY <1>2 DEF Taken
<1>5. ASSUME a \in {"refused", "not_found"}, RefusesFirst(handler)
      PROVE  ~kept /\ ~logged /\ ~sent
  <2>1. ~Taken({"commit", "audit", "effect"})
    BY <1>5
  <2> QED BY <1>1, <2>1 DEF RequestOK, Taken
<1>6. RequestOK'
  <2>1. /\ step' # 0 => MayEnter(caller', handler')
        /\ \A i \in DOMAIN handler'.prog :
             i < step' /\ handler'.prog[i] \in PERMISSIONS => handler'.prog[i] \in CallerPermissions(caller')
    BY <1>1, <1>2, <1>4 DEF RequestOK
  <2>2. /\ kept' \/ pending' => Taken({"write"})'
        /\ kept' => Taken({"commit", "audit"})'
        /\ logged' => Taken({"audit"})'
        /\ sent' => Taken({"effect"})'
    BY <1>1, <1>2, <1>4 DEF RequestOK
  <2>3. lost' => ~CommitsItself(handler')
    BY <1>1, <1>2 DEF RequestOK
  <2>4. /\ answer' # "none" /\ ~pending'
        /\ logged' /\ LogsAfterwards(handler') => kept'
        /\ answer' \in {"refused", "not_found"} /\ RefusesFirst(handler') => ~kept' /\ ~logged' /\ ~sent'
    BY <1>1, <1>2, <1>5 DEF RequestOK
  <2> QED BY <2>1, <2>2, <2>3, <2>4 DEF RequestOK
<1> QED BY <1>1, <1>2, <1>3, <1>6 DEF RequestsIInv

(* A step that refuses comes before everything that lasts, if the row says so. *)
LEMMA RefusalComesFirst ==
    ASSUME RequestsIInv, Running, RefusesFirst(handler),
           step = 0 \/ (step \in DOMAIN handler.prog /\ handler.prog[step] \in MayRefuse)
    PROVE  ~Taken({"commit", "audit", "effect"})
<1>1. DOMAIN handler.prog = 1 .. Len(handler.prog) /\ Len(handler.prog) \in Nat
  BY RequestFacts DEF Running
<1>2. CASE step = 0
  BY <1>1, <1>2 DEF Taken
<1>3. CASE step \in DOMAIN handler.prog /\ handler.prog[step] \in MayRefuse
  BY <1>3 DEF Taken, RefusesFirst
<1> QED BY <1>2, <1>3

(* A step that refuses or answers 404. *)
LEMMA RefusedKeeps ==
    ASSUME RequestsIInv, Running,
           step = 0 \/ (step \in DOMAIN handler.prog /\ handler.prog[step] \in MayRefuse),
           NEW a \in {"refused", "not_found"}, Answer(a)
    PROVE  RequestsIInv'
BY AnswerKeeps, RefusalComesFirst DEF Answers

LEMMA ArriveKeeps ==
    ASSUME RequestsIInv, NEW c \in RequestCallers, NEW h \in Handlers, Arrive(c, h)
    PROVE  RequestsIInv'
<1>1. /\ handler = Nobody /\ caller' = c /\ handler' = h
      /\ UNCHANGED <<step, pending, kept, logged, sent, lost, answer>>
  BY DEF Arrive
<1>2. /\ step = 0 /\ ~pending /\ ~kept /\ ~logged /\ ~sent /\ ~lost /\ answer = "none"
  BY <1>1 DEF RequestsIInv, RequestsTypeOK
<1>3. /\ c # Nobody /\ h # Nobody /\ h.prog \in Seq(StepKinds \cup PERMISSIONS)
  BY RequestsAssumption
<1>4. DOMAIN h.prog = 1 .. Len(h.prog) /\ Len(h.prog) \in Nat
  BY <1>3
<1>5. RequestsTypeOK'
  <2>1. {pending, kept, logged, sent, lost} \subseteq BOOLEAN
    BY DEF RequestsIInv, RequestsTypeOK
  <2>2. step' \in 0 .. (IF handler' = Nobody THEN 0 ELSE Len(handler'.prog) + 1)
    BY <1>1, <1>2, <1>3, <1>4
  <2>3. {pending', kept', logged', sent', lost'} \subseteq BOOLEAN /\ answer' \in Answers
    BY <1>1, <1>2, <2>1 DEF Answers
  <2> QED BY <1>1, <1>3, <2>2, <2>3 DEF RequestsTypeOK
<1>6. \A i \in DOMAIN handler'.prog : ~(i < step')
  BY <1>1, <1>2, <1>4
<1>7. RequestOK'
  BY <1>1, <1>2, <1>6 DEF RequestOK, WritesStand
<1> QED BY <1>1, <1>3, <1>5, <1>7 DEF RequestsIInv

LEMMA EnterKeeps ==
    ASSUME RequestsIInv, Enter
    PROVE  RequestsIInv'
<1>1. /\ handler \in Handlers /\ caller \in RequestCallers /\ handler # Nobody /\ caller # Nobody
      /\ {pending, kept, logged, sent, lost} \subseteq BOOLEAN
      /\ Len(handler.prog) \in Nat /\ DOMAIN handler.prog = 1 .. Len(handler.prog)
      /\ answer = "none" /\ RequestOK
  BY RequestFacts DEF Enter, Running
<1>2. /\ step = 0 /\ step' = 1 /\ MayEnter(caller, handler)
      /\ UNCHANGED <<caller, handler, pending, kept, logged, sent, lost, answer>>
  BY DEF Enter
<1>3. \A i \in DOMAIN handler.prog : ~(i < step) /\ ~(i < step')
  BY <1>1, <1>2
<1>4. ~pending /\ ~kept /\ ~logged /\ ~sent
  BY <1>1, <1>3 DEF RequestOK, Taken
<1>5. RequestsTypeOK'
  BY <1>1, <1>2 DEF RequestsTypeOK, Answers
<1>6. MayEnter(caller', handler')
  BY <1>2
<1>7. lost' => ~CommitsItself(handler')
  BY <1>1, <1>2 DEF RequestOK
<1>8. RequestOK'
  BY <1>1, <1>2, <1>3, <1>4, <1>6, <1>7 DEF RequestOK, WritesStand
<1> QED BY <1>1, <1>2, <1>5, <1>8 DEF RequestsIInv

LEMMA WriteKeeps ==
    ASSUME RequestsIInv, Write
    PROVE  RequestsIInv'
<1>1. /\ Running /\ step \in DOMAIN handler.prog /\ handler.prog[step] = "write" /\ Continue
      /\ pending' = TRUE /\ UNCHANGED <<kept, logged, sent, lost>>
  BY DEF Write, AtStep
<1>2. RequestOK /\ {pending, kept, logged, sent, lost} \subseteq BOOLEAN
  BY <1>1, RequestFacts DEF Running
<1>3. handler.prog[step] \notin PERMISSIONS
  BY <1>1, StepsAreNoPermissions DEF StepKinds
<1>4. WritesStand'
  BY <1>1, WritesGoOn
<1> QED BY <1>1, <1>2, <1>3, <1>4, Onward DEF RequestOK

LEMMA EffectKeeps ==
    ASSUME RequestsIInv, Effect
    PROVE  RequestsIInv'
<1>1. /\ Running /\ step \in DOMAIN handler.prog /\ handler.prog[step] = "effect" /\ Continue
      /\ sent' = TRUE /\ UNCHANGED <<pending, kept, logged, lost>>
  BY DEF Effect, AtStep
<1>2. RequestOK /\ {pending, kept, logged, sent, lost} \subseteq BOOLEAN
  BY <1>1, RequestFacts DEF Running
<1>3. handler.prog[step] \notin PERMISSIONS
  BY <1>1, StepsAreNoPermissions DEF StepKinds
<1>4. WritesStand'
  BY <1>1, WritesGoOn
<1> QED BY <1>1, <1>2, <1>3, <1>4, Onward DEF RequestOK

LEMMA StrayKeeps ==
    ASSUME RequestsIInv, Stray
    PROVE  RequestsIInv'
<1>1. /\ Running /\ step \in DOMAIN handler.prog /\ handler.prog[step] = "stray" /\ Continue
      /\ lost' = TRUE /\ UNCHANGED <<pending, kept, logged, sent>>
  BY DEF Stray, AtStep
<1>2. RequestOK /\ {pending, kept, logged, sent, lost} \subseteq BOOLEAN
  BY <1>1, RequestFacts DEF Running
<1>3. handler.prog[step] \notin PERMISSIONS
  BY <1>1, StepsAreNoPermissions DEF StepKinds
<1>4. WritesStand'
  BY <1>1, WritesGoOn
<1>5. ~CommitsItself(handler)
  BY <1>1 DEF CommitsItself
<1> QED BY <1>1, <1>2, <1>3, <1>4, <1>5, Onward DEF RequestOK

LEMMA CommitKeeps ==
    ASSUME RequestsIInv, Commit
    PROVE  RequestsIInv'
<1>1. /\ Running /\ step \in DOMAIN handler.prog /\ handler.prog[step] = "commit" /\ Continue
      /\ kept' = (kept \/ pending) /\ pending' = FALSE /\ UNCHANGED <<logged, sent, lost>>
  BY DEF Commit, AtStep
<1>2. /\ RequestOK /\ {pending, kept, logged, sent, lost} \subseteq BOOLEAN /\ answer = "none"
  BY <1>1, RequestFacts DEF Running
<1>3. handler.prog[step] \notin PERMISSIONS
  BY <1>1, StepsAreNoPermissions DEF StepKinds
<1>4. WritesStand'
  <2>1. ASSUME NEW i \in DOMAIN handler.prog, i < step + 1, handler.prog[i] = "write",
               Survives(handler, i, step + 1)
        PROVE  kept'
    <3>1. i < step
      BY <1>1, <2>1, OneMoreStep
    <3>2. Survives(handler, i, step)
      BY <1>1, <2>1, <3>1, OneMoreStep
    <3> QED BY <1>1, <1>2, <2>1, <3>1, <3>2 DEF RequestOK, WritesStand
  <2> QED BY <1>1, <2>1, OneMoreStep DEF WritesStand
<1> QED BY <1>1, <1>2, <1>3, <1>4, Onward DEF RequestOK

(* The audit entry commits what the session holds or drops it; a write that the     *)
(* handler committed itself is out of its reach.                                    *)
LEMMA AuditKeeps ==
    ASSUME RequestsIInv, Audit
    PROVE  RequestsIInv'
<1>1. /\ Running /\ step \in DOMAIN handler.prog /\ handler.prog[step] = "audit" /\ Continue
      /\ \/ kept' = (kept \/ pending) /\ logged' = TRUE /\ lost' = lost
         \/ lost' = (lost \/ pending) /\ UNCHANGED <<kept, logged>>
      /\ pending' = FALSE /\ UNCHANGED sent
  BY DEF Audit, AtStep
<1>2. /\ RequestOK /\ {pending, kept, logged, sent, lost} \subseteq BOOLEAN /\ answer = "none"
  BY <1>1, RequestFacts DEF Running
<1>3. handler.prog[step] \notin PERMISSIONS
  BY <1>1, StepsAreNoPermissions DEF StepKinds
<1>4. ASSUME NEW i \in DOMAIN handler.prog, i < step, handler.prog[i] = "write",
             Survives(handler, i, step)
      PROVE  kept \/ (pending /\ NoneBetween(handler, i, step, {"commit"}))
  BY <1>2, <1>4 DEF RequestOK, WritesStand
<1>5. WritesStand'
  <2>1. ASSUME NEW i \in DOMAIN handler.prog, i < step + 1, handler.prog[i] = "write",
               Survives(handler, i, step + 1)
        PROVE  kept'
    <3>1. i < step
      BY <1>1, <2>1, OneMoreStep
    <3>2. Survives(handler, i, step) /\ ~NoneBetween(handler, i, step, {"commit"})
      BY <1>1, <2>1, <3>1, OneMoreStep
    <3>3. kept
      BY <1>4, <2>1, <3>1, <3>2
    <3> QED BY <1>1, <3>3
  <2> QED BY <1>1, <2>1, OneMoreStep DEF WritesStand
<1>6. ASSUME logged', LogsAfterwards(handler)
      PROVE  kept'
  <2>1. CASE kept' = (kept \/ pending)
    <3>1. PICK i \in DOMAIN handler.prog :
            i < step /\ handler.prog[i] = "write" /\ Survives(handler, i, step)
      BY <1>1, <1>6 DEF LogsAfterwards
    <3> QED BY <1>4, <2>1, <3>1
  <2>2. CASE UNCHANGED <<kept, logged>>
    BY <1>2, <1>6, <2>2 DEF RequestOK
  <2> QED BY <1>1, <2>1, <2>2
<1>7. ASSUME lost', ~lost
      PROVE  ~CommitsItself(handler)
  <2>1. pending
    BY <1>1, <1>7
  <2>2. PICK i \in DOMAIN handler.prog :
          i < step /\ handler.prog[i] = "write" /\ NoneBetween(handler, i, step, {"commit"})
    BY <1>2, <2>1 DEF RequestOK
  <2> QED BY <1>1, <2>2 DEF CommitsItself
<1>8. {pending', kept', logged', sent', lost'} \subseteq BOOLEAN
  <2>1. (kept \/ pending) \in BOOLEAN /\ (lost \/ pending) \in BOOLEAN
    OBVIOUS
  <2>2. kept' \in BOOLEAN /\ logged' \in BOOLEAN /\ lost' \in BOOLEAN
    BY <1>1, <1>2, <2>1
  <2> QED BY <1>1, <1>2, <2>2
<1>9. (kept' \/ pending' => kept \/ pending) /\ ~pending' /\ (sent' => sent)
  <2>1. kept' = (kept \/ pending) \/ kept' = kept
    BY <1>1
  <2>2. kept' => kept \/ pending
    BY <1>2, <2>1
  <2> QED BY <1>1, <2>2
<1> QED BY <1>1, <1>2, <1>3, <1>5, <1>6, <1>7, <1>8, <1>9, Onward

(* A handler that ends with an uncommitted change does not commit itself. *)
LEMMA FinishKeeps ==
    ASSUME RequestsIInv, Finish
    PROVE  RequestsIInv'
<1>1. Running /\ step = Len(handler.prog) + 1 /\ Answer("ok")
  BY DEF Finish
<1>2. RequestOK
  BY <1>1, RequestFacts DEF Running
<1>3. ASSUME pending
      PROVE  ~CommitsItself(handler)
  <2>1. PICK i \in DOMAIN handler.prog :
          i < step /\ handler.prog[i] = "write" /\ NoneBetween(handler, i, step, {"commit"})
    BY <1>2, <1>3 DEF RequestOK
  <2> QED BY <1>1, <2>1 DEF CommitsItself
<1> QED BY <1>1, <1>3, AnswerKeeps DEF Answers

LEMMA NextRequestKeeps ==
    ASSUME RequestsIInv, NextRequest
    PROVE  RequestsIInv'
<1>1. /\ caller' = Nobody /\ handler' = Nobody /\ step' = 0 /\ answer' = "none"
      /\ pending' = FALSE /\ kept' = FALSE /\ logged' = FALSE /\ sent' = FALSE /\ lost' = FALSE
  BY DEF NextRequest
<1>2. step' \in 0 .. (IF handler' = Nobody THEN 0 ELSE Len(handler'.prog) + 1)
  BY <1>1
<1>3. RequestsTypeOK'
  BY <1>1, <1>2 DEF RequestsTypeOK, Answers
<1> QED BY <1>1, <1>3 DEF RequestsIInv

LEMMA RequestsStep ==
    ASSUME RequestsIInv, [RequestsNext]_requestVars
    PROVE  RequestsIInv'
<1>1. CASE \E c \in RequestCallers, h \in Handlers : Arrive(c, h)
  BY <1>1, ArriveKeeps
<1>2. CASE TurnAway
  BY <1>2, RefusedKeeps DEF TurnAway
<1>3. CASE Find
  <2>1. /\ Running /\ step \in DOMAIN handler.prog /\ handler.prog[step] \in {"look", "scope"}
        /\ \/ Continue /\ UNCHANGED <<pending, kept, logged, sent, lost>>
           \/ Answer("not_found")
    BY <1>3 DEF Find, AtStep
  <2>2. CASE Continue /\ UNCHANGED <<pending, kept, logged, sent, lost>>
    BY <2>1, <2>2, ReadingGoesOn
  <2>3. CASE Answer("not_found")
    BY <2>1, <2>3, RefusedKeeps DEF MayRefuse
  <2> QED BY <2>1, <2>2, <2>3
<1>4. CASE Check
  <2>1. /\ Running /\ step \in DOMAIN handler.prog /\ handler.prog[step] = "check"
        /\ \/ Continue /\ UNCHANGED <<pending, kept, logged, sent, lost>>
           \/ Answer("refused")
    BY <1>4 DEF Check, AtStep
  <2>2. CASE Continue /\ UNCHANGED <<pending, kept, logged, sent, lost>>
    BY <2>1, <2>2, ReadingGoesOn
  <2>3. CASE Answer("refused")
    BY <2>1, <2>3, RefusedKeeps DEF MayRefuse
  <2> QED BY <2>1, <2>2, <2>3
<1>5. CASE CheckPermission
  <2>1. /\ Running /\ step \in DOMAIN handler.prog /\ handler.prog[step] \in PERMISSIONS
        /\ \/ /\ handler.prog[step] \in CallerPermissions(caller)
              /\ Continue /\ UNCHANGED <<pending, kept, logged, sent, lost>>
           \/ Answer("refused")
    BY <1>5 DEF CheckPermission, AtStep
  <2>2. CASE /\ handler.prog[step] \in CallerPermissions(caller)
             /\ Continue /\ UNCHANGED <<pending, kept, logged, sent, lost>>
    BY <2>1, <2>2, ReadingGoesOn
  <2>3. CASE Answer("refused")
    BY <2>1, <2>3, RefusedKeeps DEF MayRefuse
  <2> QED BY <2>1, <2>2, <2>3
<1>6. CASE Refuse
  <2>1. /\ Running /\ step \in DOMAIN handler.prog /\ handler.prog[step] = "refuse"
        /\ Answer("refused")
    BY <1>6 DEF Refuse, AtStep
  <2> QED BY <2>1, RefusedKeeps DEF MayRefuse
<1>7. CASE Raise
  BY <1>7, AnswerKeeps DEF Raise, Answers
<1>8. CASE Die
  BY <1>8, AnswerKeeps DEF Die, Answers
<1>9. CASE UNCHANGED requestVars
  <2>1. /\ UNCHANGED <<caller, handler, step, pending, kept, logged, sent, lost, answer>>
    BY <1>9 DEF requestVars
  <2>2. RequestsTypeOK'
    BY <2>1 DEF RequestsIInv, RequestsTypeOK
  <2>3. handler # Nobody => RequestOK'
    BY <2>1 DEF RequestsIInv, RequestOK, WritesStand, Taken
  <2> QED BY <2>1, <2>2, <2>3 DEF RequestsIInv
<1> QED
  BY <1>1, <1>2, <1>3, <1>4, <1>5, <1>6, <1>7, <1>8, <1>9, EnterKeeps, WriteKeeps, CommitKeeps,
     AuditKeeps, EffectKeeps, StrayKeeps, FinishKeeps, NextRequestKeeps DEF RequestsNext

(* Nobody, and no key, has more than the permissions of the role. *)
LEMMA ViewerPermissions ==
    ASSUME NEW c \in RequestCallers, c.role = "VIEWER"
    PROVE  CallerPermissions(c) \subseteq VIEWER
<1>1. LoadUserPermissions({"VIEWER"}) = VIEWER
  BY DEF LoadUserPermissions, ROLE_PERMISSIONS
<1>2. CASE c.kind = "session"
  BY <1>1, <1>2 DEF CallerPermissions
<1>3. CASE c.kind = "key"
  BY <1>1, <1>3 DEF CallerPermissions, KeyPermissions
<1>4. CASE c.kind # "session" /\ c.kind # "key"
  BY <1>4 DEF CallerPermissions
<1> QED BY <1>2, <1>3, <1>4

(* A viewer has passed every check before the first write, so there is none in the   *)
(* rows a viewer can run.                                                            *)
LEMMA ViewersRead == RequestsIInv => ViewersOnlyRead
<1> SUFFICES ASSUME RequestsIInv, handler # Nobody, caller.role = "VIEWER", kept \/ sent,
                    handler.needs # Anyone, <<handler.at, handler.name>> \notin ViewerHandlers
             PROVE  FALSE
  BY DEF ViewersOnlyRead
<1>1. /\ handler \in Handlers /\ caller \in RequestCallers /\ RequestOK
      /\ Len(handler.prog) \in Nat /\ DOMAIN handler.prog = 1 .. Len(handler.prog)
  BY RequestFacts
<1>2. PICK j \in DOMAIN handler.prog : j < step /\ handler.prog[j] \in {"write", "effect"}
  BY <1>1 DEF RequestOK, Taken
<1>3. handler.needs \subseteq CallerPermissions(caller)
  BY <1>1, <1>2 DEF RequestOK, MayEnter
<1>4. CallerPermissions(caller) \subseteq VIEWER
  BY <1>1, ViewerPermissions
<1>5. PICK i \in DOMAIN handler.prog : i < j /\ handler.prog[i] \in PERMISSIONS \ VIEWER
  BY <1>1, <1>2, <1>3, <1>4, HandlerRules DEF StopsViewers
<1>6. i < step
  BY <1>1, <1>2, <1>5, RequestFacts
<1> QED BY <1>1, <1>4, <1>5, <1>6 DEF RequestOK

(* What the caller is told, what the trail says and what a viewer leaves behind      *)
(* agree with what was committed (RequestsInv), whoever calls which handler, with    *)
(* whatever scopes, and wherever the request fails, is refused or dies.              *)
THEOREM RequestsInvHolds == RequestsSpec => []RequestsInv
<1>1. RequestsInit => RequestsIInv
  <2> SUFFICES ASSUME RequestsInit
               PROVE  RequestsIInv
    OBVIOUS
  <2>1. step \in 0 .. (IF handler = Nobody THEN 0 ELSE Len(handler.prog) + 1)
    BY DEF RequestsInit
  <2>2. RequestsTypeOK
    BY <2>1 DEF RequestsInit, RequestsTypeOK, Answers
  <2> QED BY <2>2 DEF RequestsInit, RequestsIInv
<1>2. RequestsIInv => RequestsInv
  <2> SUFFICES ASSUME RequestsIInv
               PROVE  RequestsInv
    OBVIOUS
  <2>1. CASE handler = Nobody
    BY <2>1 DEF RequestsIInv, RequestsInv, RefusalLeavesNothing, SuccessIsKept, ViewersOnlyRead, TrailIsTrue
  <2>2. CASE handler # Nobody
    <3>1. handler \in Handlers /\ RequestOK
      BY <2>2, RequestFacts
    <3>2. RefusalLeavesNothing /\ SuccessIsKept /\ TrailIsTrue
      BY <3>1, HandlerRules DEF RequestOK, RefusalLeavesNothing, SuccessIsKept, TrailIsTrue
    <3> QED BY <3>2, ViewersRead DEF RequestsIInv, RequestsInv
  <2> QED BY <2>1, <2>2
<1> QED BY <1>1, <1>2, RequestsStep, PTL DEF RequestsSpec
=============================================================================
