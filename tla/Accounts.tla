------------------------------ MODULE Accounts ------------------------------
(***************************************************************************)
(* Accounts, sign-in and sessions: the login handlers (api/v1/auth.py,     *)
(* ui/__init__.py), the failed-login guard (services/login_guard.py), the  *)
(* tokens and their server-side session rows (api/deps.py), user           *)
(* administration (api/v1/users.py, ui/admin.py), invitations              *)
(* (api/v1/invitations.py) and the guard that keeps a SUPER_ADMIN          *)
(* (services/authorization.py).                                            *)
(*                                                                         *)
(* A handler loads a row, decides on its copy and commits the columns it   *)
(* changed; another handler may commit in between.                         *)
(***************************************************************************)
EXTENDS Integers, FiniteSets

CONSTANTS
    Users,          \* accounts, one per e-mail address
    Tokens,         \* tokens that can be outstanding at once
    Desks,          \* handlers running at once
    Invitations,    \* invitations
    MaxFailures,    \* QBIT_LOGIN_MAX_FAILED_ATTEMPTS
    MaxAccountOps,  \* bound on the handlers started
    NoUser          \* no user

ASSUME AccountsAssumption ==
    /\ MaxFailures \in Nat \ {0} /\ MaxAccountOps \in Nat
    /\ IsFiniteSet(Users) /\ NoUser \notin Users

VARIABLES
    users,      \* the user rows with their strongest role
    tokens,     \* outstanding tokens and their session rows
    invites,    \* the invitations
    desk,       \* what each handler is doing
    accountOps, \* handlers started
    misses,     \* history: wrong passwords since the last lock or success
    miscounted, \* history: users whose failures were counted from an old copy
    created,    \* history: how often the account was created
    overlapped  \* history: a SUPER_ADMIN was removed after a count that was old

accountVars == <<users, tokens, invites, desk, accountOps, misses, miscounted,
                 created, overlapped>>

Absent == [state |-> "absent", role |-> "member", fails |-> 0, locked |-> "no"]

Account(role) == [state |-> "active", role |-> role, fails |-> 0, locked |-> "no"]

\* is_active and status are always set together: a disabled account is SUSPENDED
\* or DEACTIVATED.  locked tells whether locked_until is empty, ahead or past.
UserRows == [state : {"absent", "active", "disabled"}, role : {"super", "admin", "member"},
             fails : 0 .. MaxFailures - 1, locked : {"no", "held", "past"}]

\* A token of a session, or an API key.  row is its UserSession or ApiKey row; old
\* is TRUE once a session's token was issued before the user's
\* tokens_revoked_before; ended records that it was revoked.
NoToken == [user |-> NoUser, kind |-> "session", row |-> "none", old |-> FALSE,
            ended |-> FALSE]

TokenRows == [user : Users, kind : {"session", "key"}, row : {"none", "live", "revoked"},
              old : BOOLEAN, ended : BOOLEAN] \cup {NoToken}

Idle == [op |-> "idle", on |-> NoUser, copy |-> Absent, seen |-> 0, with |-> NoUser]

DeskOps == {"idle", "miss", "login", "issue", "disable", "enable", "demote", "password",
            "accept", "create"}

AccountsTypeOK ==
    /\ users \in [Users -> UserRows]
    /\ tokens \in [Tokens -> TokenRows]
    /\ invites \in [Invitations -> [email : Users \cup {NoUser}, accepted : BOOLEAN,
                                    revoked : BOOLEAN]]
    /\ \A d \in Desks : desk[d].op \in DeskOps
    /\ accountOps \in 0 .. MaxAccountOps

Supers == {u \in Users : users[u].role = "super"}

AccountsInit ==
    /\ \E u \in Users : users = [v \in Users |-> IF v = u THEN Account("super") ELSE Absent]
    /\ tokens = [t \in Tokens |-> NoToken]
    /\ invites = [i \in Invitations |-> [email |-> NoUser, accepted |-> FALSE,
                                         revoked |-> FALSE]]
    /\ desk = [d \in Desks |-> Idle]
    /\ accountOps = 0
    /\ misses = [u \in Users |-> 0]
    /\ miscounted = {}
    /\ created = [u \in Users |-> IF users[u] = Absent THEN 0 ELSE 1]
    /\ overlapped = FALSE

-----------------------------------------------------------------------------
(* Handlers.                                                               *)

Start(d, op, u, with) ==
    /\ desk[d] = Idle
    /\ accountOps < MaxAccountOps
    /\ accountOps' = accountOps + 1
    /\ desk' = [desk EXCEPT ![d] = [op |-> op, on |-> u, copy |-> users[u],
                                    seen |-> Cardinality(Supers), with |-> with]]

End(d) == desk' = [desk EXCEPT ![d] = Idle] /\ UNCHANGED accountOps

\* A user who holds users.manage and is signed in.
CanManage(a) == users[a].state = "active" /\ users[a].role \in {"super", "admin"}

-----------------------------------------------------------------------------
(* Sign-in.                                                                *)

\* The account is loaded and the password verified; an unknown address and a
\* request over the IP limit go no further.
LoginLoad(d, u, right) ==
    /\ users[u].state # "absent"
    /\ Start(d, IF right THEN "login" ELSE "miss", u, NoUser)
    /\ UNCHANGED <<users, tokens, invites, misses, miscounted, created, overlapped>>

\* register_failure computes the counter from the copy it loaded.
AfterFailure(row, copy) ==
    LET n == copy.fails + 1
    IN  IF n >= MaxFailures THEN [row EXCEPT !.fails = 0, !.locked = "held"]
                            ELSE [row EXCEPT !.fails = n]

RegisterFailure(d) ==
    LET u == desk[d].on
        row == AfterFailure(users[u], desk[d].copy)
    IN  /\ desk[d].op = "miss"
        /\ users' = [users EXCEPT ![u] = row]
        /\ misses' = [misses EXCEPT ![u] = IF row.fails = 0 THEN 0 ELSE @ + 1]
        /\ miscounted' = IF users[u].fails = desk[d].copy.fails THEN miscounted
                         ELSE miscounted \cup {u}
        /\ End(d)
        /\ UNCHANGED <<tokens, invites, created, overlapped>>

\* A locked account is refused like a wrong password, but is not counted.
LoginLocked(d) ==
    /\ desk[d].op = "login"
    /\ desk[d].copy.locked = "held"
    /\ End(d)
    /\ UNCHANGED <<users, tokens, invites, misses, miscounted, created, overlapped>>

\* register_success clears the counter and an old lock where the copy shows them;
\* then the state of the copy decides.
RegisterSuccess(d) ==
    LET u == desk[d].on
        copy == desk[d].copy
    IN  /\ desk[d].op = "login"
        /\ copy.locked # "held"
        /\ users' = [users EXCEPT ![u].fails = IF copy.fails = 0 THEN @ ELSE 0,
                                 ![u].locked = IF copy.locked = "no" THEN @ ELSE "no"]
        /\ misses' = IF copy.fails = 0 THEN misses ELSE [misses EXCEPT ![u] = 0]
        /\ desk' = [desk EXCEPT ![d] = IF copy.state = "active"
                                       THEN [@ EXCEPT !.op = "issue"] ELSE Idle]
        /\ UNCHANGED <<tokens, invites, accountOps, miscounted, created, overlapped>>

\* The token and its session row; the page's login goes on without the row when
\* its insert fails, and refuses an account without scraping.view.
LoginIssue(d) ==
    /\ desk[d].op = "issue"
    /\ \/ \E t \in Tokens, row \in {"live", "none"} :
            /\ tokens[t] = NoToken
            /\ tokens' = [tokens EXCEPT ![t] = [NoToken EXCEPT !.user = desk[d].on, !.row = row]]
       \/ UNCHANGED tokens
    /\ End(d)
    /\ UNCHANGED <<users, invites, misses, miscounted, created, overlapped>>

\* The lock runs out.
LockExpires(u) ==
    /\ users[u].locked = "held"
    /\ users' = [users EXCEPT ![u].locked = "past"]
    /\ UNCHANGED <<tokens, invites, desk, accountOps, misses, miscounted, created, overlapped>>

-----------------------------------------------------------------------------
(* Tokens.                                                                 *)

\* get_current_user, _resolve_api_key and _resolve_user: a token without a session row is judged by
\* the account alone.
Accepted(t) ==
    /\ tokens[t] # NoToken
    /\ users[tokens[t].user].state = "active"
    /\ ~tokens[t].old
    /\ tokens[t].row # "revoked"

CreateApiKey(t, u) ==
    /\ tokens[t] = NoToken
    /\ CanManage(u)
    /\ tokens' = [tokens EXCEPT ![t] = [NoToken EXCEPT !.user = u, !.kind = "key", !.row = "live"]]
    /\ UNCHANGED <<users, invites, desk, accountOps, misses, miscounted, created, overlapped>>

\* Logging out, revoking one session, or revoking a key.
RevokeSession(t) ==
    /\ tokens[t].row = "live"
    /\ tokens' = [tokens EXCEPT ![t].row = "revoked", ![t].ended = TRUE]
    /\ UNCHANGED <<users, invites, desk, accountOps, misses, miscounted, created, overlapped>>

\* What revoke_all does to the session rows of a user.
RowsRevoked(u) ==
    [t \in Tokens |-> IF tokens[t].user = u /\ tokens[t].kind = "session" /\ tokens[t].row = "live"
                      THEN [tokens[t] EXCEPT !.row = "revoked", !.ended = TRUE]
                      ELSE tokens[t]]

\* Disabling an account and resetting its password also set tokens_revoked_before,
\* which every token issued so far predates.
TokensRevoked(u) ==
    [t \in Tokens |-> IF tokens[t].user = u /\ tokens[t].kind = "session"
                      THEN [RowsRevoked(u)[t] EXCEPT !.old = TRUE, !.ended = TRUE]
                      ELSE tokens[t]]

RevokeAllSessions(u) ==
    /\ tokens' = RowsRevoked(u)
    /\ UNCHANGED <<users, invites, desk, accountOps, misses, miscounted, created, overlapped>>

TokenExpires(t) ==
    /\ tokens[t] # NoToken
    /\ tokens' = [tokens EXCEPT ![t] = NoToken]
    /\ UNCHANGED <<users, invites, desk, accountOps, misses, miscounted, created, overlapped>>

-----------------------------------------------------------------------------
(* User administration.                                                    *)

\* assert_not_last_super_admin with the count off by one.
NotLastSuperAdminLax(u) == users[u].role = "super" => Cardinality(Supers) > 0

\* assert_not_last_super_admin counts role rows, those of disabled accounts too.
NotLastSuperAdmin(u) == users[u].role = "super" => Cardinality(Supers) > 1

\* update_user and admin_user_set_status, admin_user_set_roles, change_password:
\* the checks, before anything is written.  No user touches its own account's
\* status or roles.
AdminLoad(d, a, u, op) ==
    /\ CanManage(a)
    /\ users[u].state # "absent"
    /\ op \in {"disable", "enable", "demote"} => (a # u \/ op = "enable")
    /\ op \in {"disable", "demote"} => NotLastSuperAdmin(u)
    /\ Start(d, op, u, NoUser)
    /\ UNCHANGED <<users, tokens, invites, misses, miscounted, created, overlapped>>

\* Only the session rows are revoked, not the tokens.
DisableCommitRows(d) ==
    /\ desk[d].op = "disable"
    /\ users' = [users EXCEPT ![desk[d].on].state = "disabled"]
    /\ tokens' = [t \in Tokens |-> [RowsRevoked(desk[d].on)[t] EXCEPT
                    !.ended = @ \/ (tokens[t].user = desk[d].on /\ tokens[t].kind = "session")]]
    /\ End(d)
    /\ UNCHANGED <<invites, misses, miscounted, created, overlapped>>

DisableCommit(d) ==
    /\ desk[d].op = "disable"
    /\ users' = [users EXCEPT ![desk[d].on].state = "disabled"]
    /\ tokens' = TokensRevoked(desk[d].on)
    /\ End(d)
    /\ UNCHANGED <<invites, misses, miscounted, created, overlapped>>

EnableCommit(d) ==
    /\ desk[d].op = "enable"
    /\ users' = [users EXCEPT ![desk[d].on].state = "active"]
    /\ End(d)
    /\ UNCHANGED <<tokens, invites, misses, miscounted, created, overlapped>>

\* set_user_roles replaces the roles.  SUPER_ADMIN is never granted here.
SetRolesCommit(d) ==
    LET u == desk[d].on
    IN  /\ desk[d].op = "demote"
        /\ \E role \in {"admin", "member"} : users' = [users EXCEPT ![u].role = role]
        /\ overlapped' = (overlapped \/ (users[u].role = "super"
                                         /\ desk[d].seen # Cardinality(Supers)))
        /\ End(d)
        /\ UNCHANGED <<tokens, invites, misses, miscounted, created>>

ChangePasswordCommit(d) ==
    /\ desk[d].op = "password"
    /\ tokens' = TokensRevoked(desk[d].on)
    /\ End(d)
    /\ UNCHANGED <<users, invites, misses, miscounted, created, overlapped>>

-----------------------------------------------------------------------------
(* New accounts.                                                           *)

\* seed_admin at start-up, with another address than before.
SeedAdmin(u) ==
    /\ users[u] = Absent
    /\ accountOps < MaxAccountOps
    /\ accountOps' = accountOps + 1
    /\ users' = [users EXCEPT ![u] = Account("super")]
    /\ created' = [created EXCEPT ![u] = @ + 1]
    /\ UNCHANGED <<tokens, invites, desk, misses, miscounted, overlapped>>

\* create_invitation refuses an address with an active account.
CreateInvitation(i, u) ==
    /\ invites[i].email = NoUser
    /\ users[u].state # "active"
    /\ \E a \in Users : CanManage(a)
    /\ invites' = [invites EXCEPT ![i].email = u]
    /\ UNCHANGED <<users, tokens, desk, accountOps, misses, miscounted, created, overlapped>>

RevokeInvitation(i) ==
    /\ invites[i].email # NoUser
    /\ ~invites[i].accepted /\ ~invites[i].revoked
    /\ invites' = [invites EXCEPT ![i].revoked = TRUE]
    /\ UNCHANGED <<users, tokens, desk, accountOps, misses, miscounted, created, overlapped>>

\* accept_invitation and create_user look for the account first ...
AcceptLoad(d, i) ==
    /\ invites[i].email # NoUser
    /\ ~invites[i].accepted /\ ~invites[i].revoked
    /\ users[invites[i].email] = Absent
    /\ Start(d, "accept", invites[i].email, i)
    /\ UNCHANGED <<users, tokens, invites, misses, miscounted, created, overlapped>>

CreateLoad(d, a, u) ==
    /\ CanManage(a)
    /\ users[u] = Absent
    /\ Start(d, "create", u, NoUser)
    /\ UNCHANGED <<users, tokens, invites, misses, miscounted, created, overlapped>>

\* ... and insert it: the address is unique, so when another handler was faster
\* the insert fails and nothing of the transaction remains.
InsertAccount(d) ==
    LET u == desk[d].on
    IN  \/ /\ users[u] = Absent
           /\ \E role \in {"admin", "member"} : users' = [users EXCEPT ![u] = Account(role)]
           /\ created' = [created EXCEPT ![u] = @ + 1]
           /\ invites' = IF desk[d].op = "accept"
                         THEN [invites EXCEPT ![desk[d].with].accepted = TRUE] ELSE invites
        \/ users[u] # Absent /\ UNCHANGED <<users, created, invites>>

CreateCommit(d) ==
    /\ desk[d].op \in {"accept", "create"}
    /\ InsertAccount(d)
    /\ End(d)
    /\ UNCHANGED <<tokens, misses, miscounted, overlapped>>

\* A handler fails, or its process dies, before its commit.
Abandon(d) ==
    /\ desk[d] # Idle
    /\ End(d)
    /\ UNCHANGED <<users, tokens, invites, misses, miscounted, created, overlapped>>

-----------------------------------------------------------------------------
AccountsNext ==
    \/ \E d \in Desks, u \in Users, right \in BOOLEAN : LoginLoad(d, u, right)
    \/ \E d \in Desks : \/ RegisterFailure(d) \/ LoginLocked(d) \/ RegisterSuccess(d)
                        \/ LoginIssue(d) \/ DisableCommit(d) \/ EnableCommit(d)
                        \/ SetRolesCommit(d) \/ ChangePasswordCommit(d)
                        \/ CreateCommit(d) \/ Abandon(d)
    \/ \E u \in Users : LockExpires(u) \/ RevokeAllSessions(u) \/ SeedAdmin(u)
    \/ \E t \in Tokens : RevokeSession(t) \/ TokenExpires(t)
    \/ \E t \in Tokens, u \in Users : CreateApiKey(t, u)
    \/ \E d \in Desks, a, u \in Users, op \in {"disable", "enable", "demote", "password"} :
            AdminLoad(d, a, u, op)
    \/ \E i \in Invitations, u \in Users : CreateInvitation(i, u)
    \/ \E i \in Invitations : RevokeInvitation(i)
    \/ \E d \in Desks, i \in Invitations : AcceptLoad(d, i)
    \/ \E d \in Desks, a, u \in Users : CreateLoad(d, a, u)

AccountsSpec == AccountsInit /\ [][AccountsNext]_accountVars

-----------------------------------------------------------------------------
(* Properties.                                                             *)

\* A token that was revoked, by a logout, a session revocation, a password reset
\* or the account being disabled, is never accepted again, also when it has no
\* session row and also after the account is enabled again.  (Keys are revoked only one by one.)
EndedStaysEnded == \A t \in Tokens : tokens[t].ended => ~Accepted(t)

\* An account gets no more than MaxFailures - 1 wrong passwords without being
\* locked or signed in to, unless two attempts were counted from the same copy.
FailuresLock == \A u \in Users : u \notin miscounted => misses[u] < MaxFailures

\* Some account keeps the SUPER_ADMIN role, whatever administrators do to each
\* other, unless two of them removed it at once after the same count.
SuperAdminRemains == overlapped \/ Supers # {}

\* However many invitations are accepted and accounts created at once, an address
\* gets one account, and an invitation creates at most one.
AccountCreatedOnce == \A u \in Users : created[u] <= 1

\* The accounts, however requests overlap: revoked tokens stay dead, guessing locks,
\* somebody can administer, nobody is created twice.
AccountsInv ==
    /\ AccountsTypeOK
    /\ EndedStaysEnded
    /\ FailuresLock
    /\ SuperAdminRemains
    /\ AccountCreatedOnce
=============================================================================
