------------------------------ MODULE AuthService ------------------------------
(***************************************************************************)
(* Accounts: src/services/authService.js, and the activation of companies  *)
(* in src/services/adminService.js.                                        *)
(*                                                                         *)
(* Statements run at READ COMMITTED, each on its own or in a transaction   *)
(* that isolates nothing it has read.  A request is therefore a chain of   *)
(* steps, one per statement, and what it read in one may be out of date in *)
(* the next.  An UPDATE sees the rows that were there when it began.       *)
(*                                                                         *)
(* Left out: passwords (a comparison succeeds or fails), signatures, the   *)
(* access tokens nothing stores, and is_active of a user, which no code    *)
(* clears.                                                                 *)
(***************************************************************************)
EXTENDS Integers, Sequences, Functions

CONSTANTS
    Users,       \* emails; each is one User row at most
    Tenants,     \* company slugs; each is one Tenant row at most
    Requests,    \* requests that may be served at the same time
    Limit,       \* failed logins that lock an account, 5 in the code
    MaxTokens,   \* bound: refresh tokens ever issued
    MaxCodes,    \* bound: emailed codes ever created
    MaxMisses    \* bound: failed logins of all users together

ASSUME LimitAssumption == Limit \in Nat \ {0}

VARIABLES
    tenant,   \* Tenant.is_active of each slug, or "none"
    user,     \* User row of each email
    token,    \* RefreshToken rows, in the order of their creation; usable:
              \* neither revoked nor expired
    code,     \* AuthToken rows, likewise
    req,      \* how far each request is, and what it has read
    misses,   \* failed logins of each user (history)
    effects   \* what the use of each code has changed (history)

vars == <<tenant, user, token, code, req, misses, effects>>

NoUser == [role |-> "none"]
Known(u) == user[u] # NoUser
Verified(u) == Known(u) /\ user[u].verified

Idle == [at |-> "idle"]
At(r, label) == req[r].at = label
Goto(r, state) == req' = [req EXCEPT ![r] = state]
Mail(u, kind) == [at |-> "mail", user |-> u, kind |-> kind]

Usable(x) == token[x].usable
UsableOf(u) == {x \in DOMAIN token : Usable(x) /\ token[x].user = u}
Revoked(rows) ==
    [x \in DOMAIN token |-> IF x \in rows THEN [token[x] EXCEPT !.usable = FALSE] ELSE token[x]]

Init ==
    /\ tenant = [t \in Tenants |-> "none"]
    /\ user = [u \in Users |-> NoUser]
    /\ token = <<>>
    /\ code = <<>>
    /\ req = [r \in Requests |-> Idle]
    /\ misses = [u \in Users |-> 0]
    /\ effects = <<>>

\* Every early return, refusal, error and crash between two statements.
Fail(r) ==
    /\ ~ At(r, "idle")
    /\ Goto(r, Idle)
    /\ UNCHANGED <<tenant, user, token, code, misses, effects>>

-----------------------------------------------------------------------------
(* Accounts and companies *)

NewUser(role, t, verified) ==
    [role |-> role, tenant |-> t, verified |-> verified, failed |-> 0, locked |-> FALSE]

BeginSignup(r, u, t) ==
    /\ At(r, "idle")
    /\ ~ Known(u)
    /\ tenant[t] = "none"
    /\ Goto(r, [at |-> "signup", user |-> u, tenant |-> t])
    /\ UNCHANGED <<tenant, user, token, code, misses, effects>>

\* Variant: the company is created outside of the transaction of its admin.
CommitSignupApart(r) ==
    /\ At(r, "signup")
    /\ tenant[req[r].tenant] = "none"
    /\ tenant' = [tenant EXCEPT ![req[r].tenant] = "inactive"]
    /\ IF Known(req[r].user)
       THEN UNCHANGED user /\ Goto(r, Idle)
       ELSE /\ user' = [user EXCEPT ![req[r].user] = NewUser("admin", req[r].tenant, FALSE)]
            /\ Goto(r, Mail(req[r].user, "verify"))
    /\ UNCHANGED <<token, code, misses, effects>>

\* One transaction; the unique slug and the unique email refuse whoever comes second.
CommitSignup(r) ==
    /\ At(r, "signup")
    /\ ~ Known(req[r].user)
    /\ tenant[req[r].tenant] = "none"
    /\ tenant' = [tenant EXCEPT ![req[r].tenant] = "inactive"]
    /\ user' = [user EXCEPT ![req[r].user] = NewUser("admin", req[r].tenant, FALSE)]
    /\ Goto(r, Mail(req[r].user, "verify"))
    /\ UNCHANGED <<token, code, misses, effects>>

BeginRegister(r, u, t) ==
    /\ At(r, "idle")
    /\ tenant[t] = "active"
    /\ ~ Known(u)
    /\ Goto(r, [at |-> "register", user |-> u, tenant |-> t])
    /\ UNCHANGED <<tenant, user, token, code, misses, effects>>

CommitRegister(r) ==
    /\ At(r, "register")
    /\ ~ Known(req[r].user)
    /\ user' = [user EXCEPT ![req[r].user] = NewUser("staff", req[r].tenant, TRUE)]
    /\ Goto(r, Idle)
    /\ UNCHANGED <<tenant, token, code, misses, effects>>

ActivateTenant(t) ==
    /\ tenant[t] # "none"
    /\ tenant' = [tenant EXCEPT ![t] = "active"]
    /\ UNCHANGED <<user, token, code, req, misses, effects>>

\* The transaction up to the rows its last UPDATE sees.
BeginDeactivate(r, t) ==
    /\ At(r, "idle")
    /\ tenant[t] # "none"
    /\ Goto(r, [at |-> "deactivate", tenant |-> t,
                rows |-> UNION {UsableOf(u) : u \in {v \in Users : Known(v) /\ user[v].tenant = t}}])
    /\ UNCHANGED <<tenant, user, token, code, misses, effects>>

CommitDeactivate(r) ==
    /\ At(r, "deactivate")
    /\ tenant' = [tenant EXCEPT ![req[r].tenant] = "inactive"]
    /\ token' = Revoked({x \in req[r].rows : Usable(x)})
    /\ Goto(r, Idle)
    /\ UNCHANGED <<user, code, misses, effects>>

-----------------------------------------------------------------------------
(* Codes sent by mail *)

ResendVerification(r, u) ==
    /\ At(r, "idle")
    /\ Known(u) /\ ~ Verified(u)
    /\ Goto(r, Mail(u, "verify"))
    /\ UNCHANGED <<tenant, user, token, code, misses, effects>>

RequestPasswordReset(r, u) ==
    /\ At(r, "idle")
    /\ Known(u)
    /\ Goto(r, Mail(u, "reset"))
    /\ UNCHANGED <<tenant, user, token, code, misses, effects>>

CreateAuthToken(r) ==
    /\ At(r, "mail")
    /\ Len(code) < MaxCodes
    /\ code' = Append(code, [user |-> req[r].user, kind |-> req[r].kind, status |-> "created"])
    /\ effects' = Append(effects, 0)
    /\ Goto(r, [at |-> "send", code |-> Len(code) + 1])
    /\ UNCHANGED <<tenant, user, token, misses>>

\* enqueueEmail; before it nobody knows the code.
QueueEmail(r) ==
    /\ At(r, "send")
    /\ code' = [code EXCEPT ![req[r].code].status = IF @ = "created" THEN "sent" ELSE @]
    /\ Goto(r, Idle)
    /\ UNCHANGED <<tenant, user, token, misses, effects>>

ReadAuthToken(r, c) ==
    /\ At(r, "idle")
    /\ code[c].status = "sent"
    /\ Goto(r, [at |-> "consume", code |-> c])
    /\ UNCHANGED <<tenant, user, token, code, misses, effects>>

\* Variant: the code is marked by its id alone.
ConsumeAuthTokenById(r) ==
    /\ At(r, "consume")
    /\ code' = [code EXCEPT ![req[r].code].status = "spent"]
    /\ Goto(r, [at |-> "apply", code |-> req[r].code])
    /\ UNCHANGED <<tenant, user, token, misses, effects>>

\* WHERE used_at IS NULL and not expired: one of two requests gets count = 1.
ConsumeAuthToken(r) ==
    /\ At(r, "consume")
    /\ code[req[r].code].status = "sent"
    /\ code' = [code EXCEPT ![req[r].code].status = "spent"]
    /\ Goto(r, [at |-> "apply", code |-> req[r].code])
    /\ UNCHANGED <<tenant, user, token, misses, effects>>

\* In a transaction of its own, after the one that used the code.
VerifyEmail(r) ==
    /\ At(r, "apply")
    /\ LET c == req[r].code
           u == code[c].user
       IN  /\ code[c].kind = "verify"
           /\ user' = [user EXCEPT ![u].verified = TRUE]
           /\ tenant' = IF user[u].role = "admin" THEN [tenant EXCEPT ![user[u].tenant] = "active"] ELSE tenant
           /\ effects' = [effects EXCEPT ![c] = @ + 1]
    /\ Goto(r, Idle)
    /\ UNCHANGED <<token, code, misses>>

ResetPassword(r) ==
    /\ At(r, "apply")
    /\ LET c == req[r].code
           u == code[c].user
       IN  /\ code[c].kind = "reset"
           /\ user' = [user EXCEPT ![u].failed = 0, ![u].locked = FALSE]
           /\ effects' = [effects EXCEPT ![c] = @ + 1]
           /\ Goto(r, [at |-> "reset", user |-> u])
    /\ UNCHANGED <<tenant, token, code, misses>>

-----------------------------------------------------------------------------
(* Logins and refresh tokens *)

Login(r, u) ==
    /\ At(r, "idle")
    /\ Verified(u) /\ ~ user[u].locked
    /\ tenant[user[u].tenant] = "active"
    /\ Goto(r, [at |-> "login", user |-> u, failed |-> user[u].failed])
    /\ UNCHANGED <<tenant, user, token, code, misses, effects>>

\* Variant: the account is locked one failure early.
LocksEarly(count) == count + 1 >= Limit

Locks(count) == count >= Limit

\* The bound of the model.
MayMiss == FoldFunction(+, 0, misses) < MaxMisses

\* The row gets the count that was read, plus one, and its lock or none.
LoginFails(r) ==
    /\ At(r, "login")
    /\ LET u == req[r].user
           count == req[r].failed + 1
       IN  /\ MayMiss
           /\ user' = [user EXCEPT ![u].failed = count, ![u].locked = Locks(count)]
           /\ misses' = [misses EXCEPT ![u] = @ + 1]
    /\ Goto(r, Idle)
    /\ UNCHANGED <<tenant, token, code, effects>>

LoginSucceeds(r) ==
    /\ At(r, "login")
    /\ user' = [user EXCEPT ![req[r].user].failed = 0, ![req[r].user].locked = FALSE]
    /\ Goto(r, [at |-> "issue", user |-> req[r].user])
    /\ UNCHANGED <<tenant, token, code, misses, effects>>

\* A login is named after its first token.
IssueToken(r) ==
    /\ At(r, "issue")
    /\ Len(token) < MaxTokens
    /\ token' = Append(token, [user |-> req[r].user, login |-> Len(token) + 1, usable |-> TRUE])
    /\ Goto(r, Idle)
    /\ UNCHANGED <<tenant, user, code, misses, effects>>

ReadRefreshToken(r, x) ==
    /\ At(r, "idle")
    /\ Usable(x)
    /\ Verified(token[x].user)
    /\ tenant[user[token[x].user].tenant] = "active"
    /\ Goto(r, [at |-> "rotate", token |-> x])
    /\ UNCHANGED <<tenant, user, token, code, misses, effects>>

\* Variant: the token is revoked by its id alone.
RotateTokenById(r) ==
    /\ At(r, "rotate")
    /\ Len(token) < MaxTokens
    /\ LET x == req[r].token
       IN  token' = Append(Revoked({x}), [token[x] EXCEPT !.usable = TRUE])
    /\ Goto(r, Idle)
    /\ UNCHANGED <<tenant, user, code, misses, effects>>

\* WHERE revoked = false and not expired, and the new token with it.
RotateToken(r) ==
    /\ At(r, "rotate")
    /\ Len(token) < MaxTokens
    /\ LET x == req[r].token
       IN  /\ Usable(x)
           /\ token' = Append(Revoked({x}), [token[x] EXCEPT !.usable = TRUE])
    /\ Goto(r, Idle)
    /\ UNCHANGED <<tenant, user, code, misses, effects>>

\* logout, or expires_at has passed: either way it is refused from now on.
EndToken(x) ==
    /\ token' = Revoked({x})
    /\ UNCHANGED <<tenant, user, code, req, misses, effects>>

\* The UPDATE of logoutAll begins: called by itself, by changePassword, whose
\* own update concerns the password only, and by resetPassword.
LogoutAll(r, u) ==
    /\ \/ At(r, "idle")
       \/ At(r, "reset") /\ req[r].user = u
    /\ Known(u)
    /\ Goto(r, [at |-> "revoke", rows |-> UsableOf(u)])
    /\ UNCHANGED <<tenant, user, token, code, misses, effects>>

RevokeTokens(r) ==
    /\ At(r, "revoke")
    /\ token' = Revoked({x \in req[r].rows : Usable(x)})
    /\ Goto(r, Idle)
    /\ UNCHANGED <<tenant, user, code, misses, effects>>

-----------------------------------------------------------------------------
(* Time *)

\* locked_until passes; failed_login_count stays.
Unlock(u) ==
    /\ Known(u) /\ user[u].locked
    /\ user' = [user EXCEPT ![u].locked = FALSE]
    /\ UNCHANGED <<tenant, token, code, req, misses, effects>>

\* A code that has expired is refused like one that was used.
ExpireCode(c) ==
    /\ code' = [code EXCEPT ![c].status = "spent"]
    /\ UNCHANGED <<tenant, user, token, req, misses, effects>>

-----------------------------------------------------------------------------

Continue(r) ==
    \/ CommitSignup(r) \/ CommitRegister(r) \/ CommitDeactivate(r)
    \/ CreateAuthToken(r) \/ QueueEmail(r) \/ ConsumeAuthToken(r) \/ VerifyEmail(r) \/ ResetPassword(r)
    \/ LoginFails(r) \/ LoginSucceeds(r) \/ IssueToken(r)
    \/ RotateToken(r) \/ RevokeTokens(r)

Next ==
    \/ \E r \in Requests :
        \/ Continue(r) \/ Fail(r)
        \/ \E u \in Users, t \in Tenants : BeginSignup(r, u, t) \/ BeginRegister(r, u, t)
        \/ \E u \in Users :
            \/ ResendVerification(r, u) \/ RequestPasswordReset(r, u)
            \/ Login(r, u) \/ LogoutAll(r, u)
        \/ \E t \in Tenants : BeginDeactivate(r, t)
        \/ \E c \in DOMAIN code : ReadAuthToken(r, c)
        \/ \E x \in DOMAIN token : ReadRefreshToken(r, x)
    \/ \E t \in Tenants : ActivateTenant(t)
    \/ \E x \in DOMAIN token : EndToken(x)
    \/ \E c \in DOMAIN code : ExpireCode(c)
    \/ \E u \in Users : Unlock(u)

Spec == Init /\ [][Next]_vars

-----------------------------------------------------------------------------
(* Correctness *)

\* Rotation is a chain: whatever requests exchange tokens of one login at the
\* same time, at most one token of it can be used.
OneUsablePerLogin ==
    \A x, y \in DOMAIN token :
        Usable(x) /\ Usable(y) /\ token[x].login = token[y].login => x = y

\* A code verifies or resets once at most, however many requests present it.
CodeWorksOnce ==
    \A c \in DOMAIN code : effects[c] <= 1

\* No signup leaves a company behind that has nobody to activate it.
CompanyHasAdmin ==
    \A t \in Tenants : tenant[t] # "none" => \E u \in Users : Known(u) /\ user[u].role = "admin" /\ user[u].tenant = t

\* A lock stands for Limit failed logins at least, though the count is read in
\* one statement and written in another.
LockIsEarned ==
    \A u \in Users : Known(u) /\ user[u].locked => misses[u] >= Limit
=============================================================================
