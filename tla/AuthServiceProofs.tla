--------------------------- MODULE AuthServiceProofs ---------------------------
(***************************************************************************)
(* Proofs about accounts, for any number of users, companies and requests: *)
(* tokens of a login form a chain, codes work once, a lock stands for      *)
(* failed logins, and every company has its admin.                         *)
(*                                                                         *)
(* Each property has an invariant of its own, which says what a request    *)
(* that is half done may still rely on.  All use Typed.                    *)
(***************************************************************************)
EXTENDS AuthService, SequenceTheorems, TLAPS

Accounts ==
    [role : {"admin", "staff"}, tenant : Tenants, verified : BOOLEAN, failed : Nat, locked : BOOLEAN]

Tokens == [user : Users, login : Nat, usable : BOOLEAN]
Codes == [user : Users, kind : {"verify", "reset"}, status : {"created", "sent", "spent"}]

Tables ==
    /\ tenant \in [Tenants -> {"none", "inactive", "active"}]
    /\ user \in [Users -> {NoUser} \cup Accounts]
    /\ token \in Seq(Tokens)
    /\ code \in Seq(Codes)
    /\ misses \in [Users -> Nat]
    /\ effects \in Seq(Nat)
    /\ Len(effects) = Len(code)

KnownUsers == {u \in Users : Known(u)}

\* What a request relies on in each of its places, with the users known and
\* the numbers of codes and tokens.
Holds(q, known, codes, tokens) ==
    /\ q.at \in {"signup", "register", "issue", "reset"} => q.user \in Users
    /\ q.at \in {"mail", "login"} => q.user \in known
    /\ q.at \in {"signup", "register", "deactivate"} => q.tenant \in Tenants
    /\ q.at = "mail" => q.kind \in {"verify", "reset"}
    /\ q.at = "login" => q.failed \in Nat
    /\ q.at \in {"send", "consume", "apply"} => q.code \in 1..codes
    /\ q.at = "rotate" => q.token \in 1..tokens

Pending ==
    /\ DOMAIN req = Requests
    /\ \A r \in Requests : Holds(req[r], KnownUsers, Len(code), Len(token))

CodesOfKnown == \A c \in DOMAIN code : code[c].user \in KnownUsers

Typed == Tables /\ Pending /\ CodesOfKnown

\* A request that holds a used code acts on the account of a known user.
LEMMA AppliesToKnown ==
    ASSUME Typed, NEW r \in Requests, At(r, "apply")
    PROVE  /\ req[r].code \in DOMAIN code
           /\ code[req[r].code].user \in KnownUsers
           /\ code[req[r].code].user \in Users
           /\ Known(code[req[r].code].user)
<1>1. Holds(req[r], KnownUsers, Len(code), Len(token)) /\ req[r].at = "apply"
  BY DEF Typed, Pending, At
<1>2. req[r].code \in 1..Len(code)
  BY <1>1 DEF Holds
<1>3. DOMAIN code = 1..Len(code)
  BY DEF Typed, Tables
<1>4. code[req[r].code].user \in KnownUsers
  BY <1>2, <1>3 DEF Typed, CodesOfKnown
<1> QED
  BY <1>2, <1>3, <1>4 DEF KnownUsers

LEMMA TokenRow ==
    ASSUME Typed, NEW x \in DOMAIN token
    PROVE  token[x] \in Tokens /\ x \in 1..Len(token)
<1>1. token \in Seq(Tokens) /\ x \in 1..Len(token)
  BY DEF Typed, Tables
<1> QED
  BY <1>1, ElementOfSeq

LEMMA CodeRow ==
    ASSUME Typed, NEW c \in DOMAIN code
    PROVE  code[c] \in Codes /\ c \in 1..Len(code)
<1>1. code \in Seq(Codes) /\ c \in 1..Len(code)
  BY DEF Typed, Tables
<1> QED
  BY <1>1, ElementOfSeq

LEMMA HoldsMonotone ==
    ASSUME NEW q, NEW K, NEW L, K \subseteq L,
           NEW m \in Nat, NEW n \in Nat, m <= n,
           NEW i \in Nat, NEW j \in Nat, i <= j,
           Holds(q, K, m, i)
    PROVE  Holds(q, L, n, j)
  BY DEF Holds

\* Rows are never removed, so that the other requests keep what they hold.
LEMMA TypedStep ==
    ASSUME Typed, Tables', DOMAIN req' = Requests,
           KnownUsers \subseteq KnownUsers', Len(code) <= Len(code'), Len(token) <= Len(token'),
           \A q \in Requests :
               req'[q] = req[q] \/ Holds(req'[q], KnownUsers', Len(code'), Len(token')),
           CodesOfKnown'
    PROVE  Typed'
<1>1. /\ Len(code) \in Nat /\ Len(code') \in Nat
      /\ Len(token) \in Nat /\ Len(token') \in Nat
  BY DEF Typed, Tables
<1>2. ASSUME NEW q \in Requests
      PROVE  Holds(req'[q], KnownUsers', Len(code'), Len(token'))
  <2>1. CASE req'[q] = req[q]
    <3>1. Holds(req[q], KnownUsers, Len(code), Len(token))
      BY DEF Typed, Pending
    <3> QED
      BY <3>1, <2>1, <1>1, HoldsMonotone
  <2> QED
    BY <2>1
<1> QED
  BY <1>2 DEF Typed, Pending

LEMMA InitTyped == Init => Typed
  BY DEF Init, Typed, Tables, Pending, CodesOfKnown, Holds, Idle

\* A step that changes a request only.
LEMMA TypedRequestStep ==
    ASSUME Typed, UNCHANGED <<tenant, user, token, code, misses, effects>>, DOMAIN req' = Requests,
           \A q \in Requests : req'[q] = req[q] \/ Holds(req'[q], KnownUsers, Len(code), Len(token))
    PROVE  Typed'
<1>1. Tables' /\ CodesOfKnown' /\ KnownUsers' = KnownUsers
  BY DEF Typed, Tables, CodesOfKnown, KnownUsers, Known
<1>2. Len(code) <= Len(code') /\ Len(token) <= Len(token')
  BY DEF Typed, Tables
<1> QED
  BY <1>1, <1>2, TypedStep

\* Revoking tokens changes nothing else about them.
LEMMA RevokedType ==
    ASSUME Typed, NEW rows
    PROVE  /\ Revoked(rows) \in Seq(Tokens)
           /\ Len(Revoked(rows)) = Len(token)
           /\ DOMAIN Revoked(rows) = DOMAIN token
           /\ \A x \in DOMAIN token :
                /\ Revoked(rows)[x].user = token[x].user
                /\ Revoked(rows)[x].login = token[x].login
                /\ Revoked(rows)[x].usable => token[x].usable /\ x \notin rows
<1>1. token \in Seq(Tokens) /\ Len(token) \in Nat /\ DOMAIN token = 1..Len(token)
  BY DEF Typed, Tables
<1>2. ASSUME NEW x \in 1..Len(token)
      PROVE  /\ Revoked(rows)[x] \in Tokens
             /\ Revoked(rows)[x].user = token[x].user
             /\ Revoked(rows)[x].login = token[x].login
             /\ Revoked(rows)[x].usable => token[x].usable /\ x \notin rows
  <2>1. token[x] \in Tokens
    BY <1>1, TokenRow
  <2> QED
    BY <1>1, <2>1 DEF Revoked, Tokens
<1>3. Revoked(rows) = [x \in 1..Len(token) |-> Revoked(rows)[x]]
  BY <1>1 DEF Revoked
<1>4. Revoked(rows) \in Seq(Tokens)
  BY <1>1, <1>2, <1>3
<1>5. Len(Revoked(rows)) = Len(token)
  <2> DEFINE rv == Revoked(rows)
  <2>0. DOMAIN rv = 1..Len(token)
    BY <1>1 DEF Revoked
  <2>1. Len(rv) \in Nat /\ 1..Len(rv) = 1..Len(token)
    <3> HIDE DEF rv
    <3>1. rv \in Seq(Tokens)
      BY <1>4 DEF rv
    <3> QED
      BY <3>1, <2>0
  <2>2. ASSUME NEW m \in Nat, NEW n \in Nat, 1..m = 1..n PROVE ~ m < n
    <3>1. m < n => n \in 1..n /\ n \notin 1..m
      BY <2>2
    <3> QED
      BY <2>2, <3>1
  <2> QED
    BY <1>1, <2>1, <2>2
<1> QED
  BY <1>1, <1>2, <1>3, <1>4, <1>5

\* A step that changes the row of a user, and requests.
LEMMA TypedUserStep ==
    ASSUME Typed, NEW u \in Users, NEW row \in Accounts,
           user' = [user EXCEPT ![u] = row],
           tenant' \in [Tenants -> {"none", "inactive", "active"}], misses' \in [Users -> Nat],
           effects' \in Seq(Nat), Len(effects') = Len(effects),
           UNCHANGED <<token, code>>, DOMAIN req' = Requests,
           \A q \in Requests : req'[q] = req[q] \/ Holds(req'[q], KnownUsers', Len(code), Len(token))
    PROVE  Typed'
<1>1. row # NoUser
  BY DEF Accounts, NoUser
<1>2. Tables' /\ KnownUsers \subseteq KnownUsers'
  BY <1>1 DEF Typed, Tables, KnownUsers, Known
<1>3. CodesOfKnown'
  BY <1>2 DEF Typed, CodesOfKnown
<1>4. Len(code) <= Len(code') /\ Len(token) <= Len(token')
  BY DEF Typed, Tables
<1> QED
  BY <1>2, <1>3, <1>4, TypedStep

\* A step that adds or revokes tokens, and changes requests.
LEMMA TypedTokenStep ==
    ASSUME Typed, UNCHANGED <<tenant, user, code, misses, effects>>,
           token' \in Seq(Tokens), Len(token) <= Len(token'),
           DOMAIN req' = Requests,
           \A q \in Requests : req'[q] = req[q] \/ Holds(req'[q], KnownUsers, Len(code), Len(token'))
    PROVE  Typed'
<1>1. Tables' /\ KnownUsers' = KnownUsers /\ CodesOfKnown'
  BY DEF Typed, Tables, KnownUsers, Known, CodesOfKnown
<1>2. Len(code) <= Len(code')
  BY DEF Typed, Tables
<1> QED
  BY <1>1, <1>2, TypedStep

\* A step that changes the status of a code, and requests.
LEMMA TypedCodeStep ==
    ASSUME Typed, NEW c \in DOMAIN code, NEW status \in {"created", "sent", "spent"},
           code' = [code EXCEPT ![c].status = status],
           UNCHANGED <<tenant, user, token, misses, effects>>, DOMAIN req' = Requests,
           \A q \in Requests : req'[q] = req[q] \/ Holds(req'[q], KnownUsers, Len(code), Len(token))
    PROVE  Typed'
<1>1. code[c] \in Codes
  BY CodeRow
<1>2. [code[c] EXCEPT !.status = status] \in Codes /\ [code[c] EXCEPT !.status = status].user = code[c].user
  BY <1>1 DEF Codes
<1>3. code' = [code EXCEPT ![c] = [code[c] EXCEPT !.status = status]]
  OBVIOUS
<1>4. code' \in Seq(Codes) /\ Len(code') = Len(code) /\ DOMAIN code' = DOMAIN code
  BY <1>2, <1>3 DEF Typed, Tables
<1>5. Tables' /\ KnownUsers' = KnownUsers
  BY <1>4 DEF Typed, Tables, KnownUsers, Known
<1>6. CodesOfKnown'
  BY <1>2, <1>3, <1>4, <1>5 DEF Typed, CodesOfKnown
<1>7. Len(code) <= Len(code') /\ Len(token) <= Len(token')
  BY <1>4 DEF Typed, Tables
<1> QED
  BY <1>4, <1>5, <1>6, <1>7, TypedStep

LEMMA TypedNext == Typed /\ [Next]_vars => Typed'
<1> SUFFICES ASSUME Typed, [Next]_vars PROVE Typed'
  OBVIOUS
<1> USE DEF Goto, At
<1>0. /\ DOMAIN req = Requests
      /\ \A r \in Requests : Holds(req[r], KnownUsers, Len(code), Len(token))
  BY DEF Typed, Pending
<1>1. ASSUME NEW r \in Requests, Fail(r)
      PROVE  Typed'
  BY <1>0, <1>1, TypedRequestStep DEF Fail, Holds, Idle
<1>2. ASSUME NEW r \in Requests, NEW u \in Users, NEW t \in Tenants, BeginSignup(r, u, t) \/ BeginRegister(r, u, t)
      PROVE  Typed'
  BY <1>0, <1>2, TypedRequestStep DEF BeginSignup, BeginRegister, Holds
<1>3. ASSUME NEW r \in Requests, NEW u \in Users,
             ResendVerification(r, u) \/ RequestPasswordReset(r, u) \/ LogoutAll(r, u)
      PROVE  Typed'
  BY <1>0, <1>3, TypedRequestStep
  DEF ResendVerification, RequestPasswordReset, LogoutAll, Mail, Holds, KnownUsers
<1>4. ASSUME NEW r \in Requests, NEW u \in Users, Login(r, u)
      PROVE  Typed'
  <2>1. user[u].failed \in Nat /\ u \in KnownUsers
    BY <1>4 DEF Login, Verified, Known, KnownUsers, Typed, Tables, Accounts
  <2> QED
    BY <1>0, <1>4, <2>1, TypedRequestStep DEF Login, Holds
<1>5. ASSUME NEW r \in Requests, NEW t \in Tenants, BeginDeactivate(r, t)
      PROVE  Typed'
  BY <1>0, <1>5, TypedRequestStep DEF BeginDeactivate, Holds
<1>6. ASSUME NEW r \in Requests, NEW c \in DOMAIN code, ReadAuthToken(r, c)
      PROVE  Typed'
  <2>1. c \in 1..Len(code)
    BY DEF Typed, Tables
  <2> QED
    BY <1>0, <1>6, <2>1, TypedRequestStep DEF ReadAuthToken, Holds
<1>7. ASSUME NEW r \in Requests, NEW x \in DOMAIN token, ReadRefreshToken(r, x)
      PROVE  Typed'
  <2>1. x \in 1..Len(token)
    BY DEF Typed, Tables
  <2> QED
    BY <1>0, <1>7, <2>1, TypedRequestStep DEF ReadRefreshToken, Holds
<1>8. ASSUME NEW r \in Requests, Continue(r)
      PROVE  Typed'
  <2>0. Holds(Idle, KnownUsers', Len(code), Len(token)) /\ Holds(Idle, KnownUsers, Len(code'), Len(token'))
    BY DEF Holds, Idle
  <2>1. CASE CommitSignup(r)
    <3> DEFINE row == NewUser("admin", req[r].tenant, FALSE)
    <3>1. req[r].user \in Users /\ req[r].tenant \in Tenants /\ row \in Accounts
      BY <1>0, <2>1 DEF CommitSignup, Holds, NewUser, Accounts
    <3>2. /\ user' = [user EXCEPT ![req[r].user] = row]
          /\ tenant' \in [Tenants -> {"none", "inactive", "active"}]
          /\ UNCHANGED <<token, code, misses, effects>>
      BY <2>1, <3>1 DEF CommitSignup, Typed, Tables
    <3>3. req[r].user \in KnownUsers'
      BY <3>1, <3>2 DEF KnownUsers, Known, NoUser, NewUser, Typed, Tables
    <3>4. Holds(Mail(req[r].user, "verify"), KnownUsers', Len(code), Len(token))
      BY <3>3 DEF Holds, Mail
    <3>5. DOMAIN req' = Requests /\ \A q \in Requests : req'[q] = req[q] \/ req'[q] = Mail(req[r].user, "verify")
      BY <1>0, <2>1 DEF CommitSignup
    <3>6. misses' \in [Users -> Nat] /\ effects' \in Seq(Nat) /\ Len(effects') = Len(effects)
      BY <3>2 DEF Typed, Tables
    <3> HIDE DEF row
    <3> QED
      BY <3>1, <3>2, <3>4, <3>5, <3>6, TypedUserStep
  <2>2. CASE CommitRegister(r)
    <3> DEFINE row == NewUser("staff", req[r].tenant, TRUE)
    <3>1. req[r].user \in Users /\ row \in Accounts
      BY <1>0, <2>2 DEF CommitRegister, Holds, NewUser, Accounts
    <3>2. /\ user' = [user EXCEPT ![req[r].user] = row]
          /\ UNCHANGED <<tenant, token, code, misses, effects>>
      BY <2>2 DEF CommitRegister
    <3>3. DOMAIN req' = Requests /\ \A q \in Requests : req'[q] = req[q] \/ req'[q] = Idle
      BY <1>0, <2>2 DEF CommitRegister
    <3>4. /\ tenant' \in [Tenants -> {"none", "inactive", "active"}] /\ misses' \in [Users -> Nat]
          /\ effects' \in Seq(Nat) /\ Len(effects') = Len(effects)
      BY <3>2 DEF Typed, Tables
    <3> HIDE DEF row
    <3> QED
      BY <2>0, <3>1, <3>2, <3>3, <3>4, TypedUserStep
  <2>3. CASE CommitDeactivate(r)
    <3>1. /\ token' \in Seq(Tokens)
          /\ Len(token) <= Len(token')
      BY <2>3, RevokedType DEF CommitDeactivate, Typed, Tables
    <3>2. req[r].tenant \in Tenants
      BY <1>0, <2>3 DEF CommitDeactivate, Holds
    <3>3. Tables' /\ KnownUsers' = KnownUsers /\ CodesOfKnown'
      BY <2>3, <3>1, <3>2 DEF CommitDeactivate, Typed, Tables, KnownUsers, Known, CodesOfKnown
    <3>4. Len(code) <= Len(code') /\ Len(token) \in Nat /\ Len(token') \in Nat
      BY <2>3, <3>1 DEF CommitDeactivate, Typed, Tables
    <3>5. DOMAIN req' = Requests /\ \A q \in Requests : req'[q] = req[q] \/ req'[q] = Idle
      BY <1>0, <2>3 DEF CommitDeactivate
    <3>6. Holds(Idle, KnownUsers', Len(code'), Len(token'))
      BY DEF Holds, Idle
    <3> QED
      BY <3>1, <3>3, <3>4, <3>5, <3>6, TypedStep
  <2>4. CASE CreateAuthToken(r)
    <3> DEFINE row == [user |-> req[r].user, kind |-> req[r].kind, status |-> "created"]
    <3>1. req[r].user \in KnownUsers /\ req[r].kind \in {"verify", "reset"}
      BY <1>0, <2>4 DEF CreateAuthToken, Holds
    <3>2. row \in Codes
      BY <3>1 DEF KnownUsers, Codes
    <3>3. code' = Append(code, row) /\ effects' = Append(effects, 0)
      BY <2>4 DEF CreateAuthToken
    <3>4. /\ code' \in Seq(Codes)
          /\ Len(code') = Len(code) + 1 /\ Len(code) \in Nat
          /\ \A c \in DOMAIN code' : code'[c] = IF c = Len(code) + 1 THEN row ELSE code[c]
      <4> HIDE DEF row
      <4> QED
        BY <3>2, <3>3 DEF Typed, Tables
    <3>5. effects' \in Seq(Nat) /\ Len(effects') = Len(code')
      BY <3>3, <3>4 DEF Typed, Tables
    <3>6. Tables' /\ KnownUsers' = KnownUsers
      BY <2>4, <3>4, <3>5 DEF CreateAuthToken, Typed, Tables, KnownUsers, Known
    <3>7. CodesOfKnown'
      <4>1. row.user \in KnownUsers
        BY <3>1
      <4>2. \A c \in DOMAIN code' : c = Len(code) + 1 \/ c \in DOMAIN code
        BY <3>4 DEF Typed, Tables
      <4> HIDE DEF row
      <4> QED
        BY <3>4, <3>6, <4>1, <4>2 DEF Typed, CodesOfKnown
    <3>8. /\ DOMAIN req' = Requests
          /\ \A q \in Requests : req'[q] = req[q] \/ req'[q] = [at |-> "send", code |-> Len(code) + 1]
      BY <1>0, <2>4 DEF CreateAuthToken
    <3>9. Holds([at |-> "send", code |-> Len(code) + 1], KnownUsers', Len(code'), Len(token'))
      BY <3>4 DEF Holds
    <3>10. Len(token) <= Len(token')
      BY <2>4 DEF CreateAuthToken, Typed, Tables
    <3> QED
      BY <3>4, <3>6, <3>7, <3>8, <3>9, <3>10, TypedStep
  <2>5. CASE QueueEmail(r) \/ ConsumeAuthToken(r)
    <3>1. req[r].code \in DOMAIN code
      BY <1>0, <2>5 DEF QueueEmail, ConsumeAuthToken, Holds, Typed, Tables
    <3>2. Holds([at |-> "apply", code |-> req[r].code], KnownUsers, Len(code), Len(token))
      BY <3>1 DEF Holds, Typed, Tables
    <3>3. /\ DOMAIN req' = Requests
          /\ \A q \in Requests : \/ req'[q] = req[q] \/ req'[q] = Idle
                                 \/ req'[q] = [at |-> "apply", code |-> req[r].code]
      BY <1>0, <2>5 DEF QueueEmail, ConsumeAuthToken
    <3>4. Holds(Idle, KnownUsers, Len(code), Len(token))
      BY DEF Holds, Idle
    <3> DEFINE c == req[r].code
               kept == IF code[c].status = "created" THEN "sent" ELSE code[c].status
    <3>5. PICK status \in {"created", "sent", "spent"} : code' = [code EXCEPT ![c].status = status]
      <4>1. CASE ConsumeAuthToken(r)
        BY <4>1 DEF ConsumeAuthToken
      <4>2. CASE QueueEmail(r)
        <5>1. code' = [code EXCEPT ![c].status = kept]
          BY <4>2 DEF QueueEmail
        <5>2. code[c].status \in {"created", "sent", "spent"}
          BY <3>1, CodeRow DEF Codes
        <5> QED
          BY <5>1, <5>2
      <4> QED
        BY <2>5, <4>1, <4>2
    <3>6. UNCHANGED <<tenant, user, token, misses, effects>>
      BY <2>5 DEF QueueEmail, ConsumeAuthToken
    <3> QED
      BY <3>1, <3>2, <3>3, <3>4, <3>5, <3>6, TypedCodeStep
  <2>6. CASE VerifyEmail(r)
    <3> DEFINE c == req[r].code
               u == code[c].user
               row == [user[u] EXCEPT !.verified = TRUE]
    <3>1. c \in DOMAIN code /\ u \in KnownUsers /\ u \in Users
      BY <2>6, AppliesToKnown DEF VerifyEmail
    <3>2. user[u] \in Accounts
      BY <3>1 DEF KnownUsers, Known, Typed, Tables
    <3>3. row \in Accounts /\ user[u].tenant \in Tenants
      BY <3>2 DEF Accounts
    <3>4. user' = [user EXCEPT ![u] = row]
      BY <2>6 DEF VerifyEmail
    <3>5. tenant' \in [Tenants -> {"none", "inactive", "active"}]
      BY <2>6, <3>3 DEF VerifyEmail, Typed, Tables
    <3>6. effects' \in Seq(Nat) /\ Len(effects') = Len(effects) /\ misses' \in [Users -> Nat]
      BY <2>6, <3>1 DEF VerifyEmail, Typed, Tables
    <3>7. /\ DOMAIN req' = Requests /\ \A q \in Requests : req'[q] = req[q] \/ req'[q] = Idle
          /\ UNCHANGED <<token, code>>
      BY <1>0, <2>6 DEF VerifyEmail
    <3> HIDE DEF row, u, c
    <3> QED
      BY <2>0, <3>1, <3>3, <3>4, <3>5, <3>6, <3>7, TypedUserStep
  <2>7. CASE ResetPassword(r)
    <3> DEFINE c == req[r].code
               u == code[c].user
               row == [user[u] EXCEPT !.failed = 0, !.locked = FALSE]
    <3>1. c \in DOMAIN code /\ u \in KnownUsers /\ u \in Users
      BY <2>7, AppliesToKnown DEF ResetPassword
    <3>2. user[u] \in Accounts
      BY <3>1 DEF KnownUsers, Known, Typed, Tables
    <3>3. row \in Accounts
      BY <3>2 DEF Accounts
    <3>4. user' = [user EXCEPT ![u] = row]
      BY <2>7, <3>2 DEF ResetPassword, Typed, Tables
    <3>5. tenant' \in [Tenants -> {"none", "inactive", "active"}] /\ misses' \in [Users -> Nat]
      BY <2>7 DEF ResetPassword, Typed, Tables
    <3>6. effects' \in Seq(Nat) /\ Len(effects') = Len(effects)
      BY <2>7, <3>1 DEF ResetPassword, Typed, Tables
    <3>7. /\ DOMAIN req' = Requests
          /\ \A q \in Requests : req'[q] = req[q] \/ req'[q] = [at |-> "reset", user |-> u]
          /\ UNCHANGED <<token, code>>
      BY <1>0, <2>7 DEF ResetPassword
    <3>8. Holds([at |-> "reset", user |-> u], KnownUsers', Len(code), Len(token))
      BY <3>1 DEF Holds
    <3> HIDE DEF row, u, c
    <3> QED
      BY <3>1, <3>3, <3>4, <3>5, <3>6, <3>7, <3>8, TypedUserStep
  <2>8. CASE LoginFails(r)
    <3> DEFINE u == req[r].user
               count == req[r].failed + 1
               row == [user[u] EXCEPT !.failed = count, !.locked = Locks(count)]
    <3>1. u \in KnownUsers /\ u \in Users /\ count \in Nat
      BY <1>0, <2>8 DEF LoginFails, Holds, KnownUsers
    <3>2. user[u] \in Accounts
      BY <3>1 DEF KnownUsers, Known, Typed, Tables
    <3>3. row \in Accounts
      <4>1. Locks(count) \in BOOLEAN
        BY DEF Locks
      <4> HIDE DEF count
      <4> QED
        BY <3>1, <3>2, <4>1 DEF Accounts
    <3>4. user' = [user EXCEPT ![u] = row] /\ misses' \in [Users -> Nat]
      <4>1. user' = [user EXCEPT ![u].failed = count, ![u].locked = Locks(count)]
        BY <2>8 DEF LoginFails
      <4>2. misses' = [misses EXCEPT ![u] = @ + 1]
        BY <2>8 DEF LoginFails
      <4>3. user \in [Users -> {NoUser} \cup Accounts] /\ misses \in [Users -> Nat]
        BY DEF Typed, Tables
      <4>4. misses' \in [Users -> Nat]
        BY <3>1, <4>2, <4>3
      <4> HIDE DEF count, u
      <4> QED
        BY <3>1, <4>1, <4>3, <4>4
    <3>5. tenant' \in [Tenants -> {"none", "inactive", "active"}]
      BY <2>8 DEF LoginFails, Typed, Tables
    <3>6. effects' \in Seq(Nat) /\ Len(effects') = Len(effects)
      BY <2>8 DEF LoginFails, Typed, Tables
    <3>7. /\ DOMAIN req' = Requests /\ \A q \in Requests : req'[q] = req[q] \/ req'[q] = Idle
          /\ UNCHANGED <<token, code>>
      BY <1>0, <2>8 DEF LoginFails
    <3> HIDE DEF row, u
    <3> QED
      BY <2>0, <3>1, <3>3, <3>4, <3>5, <3>6, <3>7, TypedUserStep
  <2>9. CASE LoginSucceeds(r)
    <3> DEFINE u == req[r].user
               row == [user[u] EXCEPT !.failed = 0, !.locked = FALSE]
    <3>1. u \in KnownUsers /\ u \in Users
      BY <1>0, <2>9 DEF LoginSucceeds, Holds, KnownUsers
    <3>2. user[u] \in Accounts
      BY <3>1 DEF KnownUsers, Known, Typed, Tables
    <3>3. row \in Accounts
      BY <3>2 DEF Accounts
    <3>4. user' = [user EXCEPT ![u] = row]
      BY <2>9, <3>2 DEF LoginSucceeds, Typed, Tables
    <3>5. /\ tenant' \in [Tenants -> {"none", "inactive", "active"}] /\ misses' \in [Users -> Nat]
          /\ effects' \in Seq(Nat) /\ Len(effects') = Len(effects)
      BY <2>9 DEF LoginSucceeds, Typed, Tables
    <3>6. /\ DOMAIN req' = Requests
          /\ \A q \in Requests : req'[q] = req[q] \/ req'[q] = [at |-> "issue", user |-> u]
          /\ UNCHANGED <<token, code>>
      BY <1>0, <2>9 DEF LoginSucceeds
    <3>7. Holds([at |-> "issue", user |-> u], KnownUsers', Len(code), Len(token))
      BY <3>1 DEF Holds
    <3> HIDE DEF row, u
    <3> QED
      BY <3>1, <3>3, <3>4, <3>5, <3>6, <3>7, TypedUserStep
  <2>10. CASE IssueToken(r)
    <3> DEFINE row == [user |-> req[r].user, login |-> Len(token) + 1, usable |-> TRUE]
    <3>1. row \in Tokens
      BY <1>0, <2>10 DEF IssueToken, Holds, Typed, Tables, Tokens
    <3>2. token' = Append(token, row)
      BY <2>10 DEF IssueToken
    <3>3. /\ token' \in Seq(Tokens)
          /\ Len(token) <= Len(token')
      <4> HIDE DEF row
      <4> QED
        BY <3>1, <3>2 DEF Typed, Tables
    <3>4. Holds(Idle, KnownUsers, Len(code), Len(token'))
      BY DEF Holds, Idle
    <3> QED
      BY <1>0, <2>10, <3>3, <3>4, TypedTokenStep DEF IssueToken
  <2>11. CASE RotateToken(r)
    <3> DEFINE x == req[r].token
               row == [token[x] EXCEPT !.usable = TRUE]
    <3>1. x \in DOMAIN token
      BY <1>0, <2>11 DEF RotateToken, Holds, Typed, Tables
    <3>2. token[x] \in Tokens
      BY <3>1, TokenRow
    <3>3. row \in Tokens
      BY <3>2 DEF Tokens
    <3>4. token' = Append(Revoked({x}), row)
      BY <2>11 DEF RotateToken
    <3>5. token' \in Seq(Tokens) /\ Len(token) <= Len(token')
      <4>1. Revoked({x}) \in Seq(Tokens) /\ Len(Revoked({x})) = Len(token)
        BY RevokedType
      <4> HIDE DEF row, x
      <4> QED
        BY <3>3, <3>4, <4>1
    <3>6. Holds(Idle, KnownUsers, Len(code), Len(token'))
      BY DEF Holds, Idle
    <3> QED
      BY <1>0, <2>11, <3>5, <3>6, TypedTokenStep DEF RotateToken
  <2>12. CASE RevokeTokens(r)
    <3>1. /\ token' \in Seq(Tokens)
          /\ Len(token) <= Len(token')
      BY <2>12, RevokedType DEF RevokeTokens, Typed, Tables
    <3>2. Holds(Idle, KnownUsers, Len(code), Len(token'))
      BY DEF Holds, Idle
    <3> QED
      BY <1>0, <2>12, <3>1, <3>2, TypedTokenStep DEF RevokeTokens
  <2> QED
    BY <1>8, <2>1, <2>2, <2>3, <2>4, <2>5, <2>6, <2>7, <2>8, <2>9, <2>10, <2>11, <2>12 DEF Continue
<1>9. ASSUME NEW t \in Tenants, ActivateTenant(t)
      PROVE  Typed'
  <2>1. Tables' /\ CodesOfKnown' /\ KnownUsers' = KnownUsers
    BY <1>9 DEF ActivateTenant, Typed, Tables, CodesOfKnown, KnownUsers, Known
  <2>2. Len(code) <= Len(code') /\ Len(token) <= Len(token')
    BY <1>9 DEF ActivateTenant, Typed, Tables
  <2> QED
    BY <1>0, <1>9, <2>1, <2>2, TypedStep DEF ActivateTenant
<1>10. ASSUME NEW x \in DOMAIN token, EndToken(x)
       PROVE  Typed'
  <2>1. /\ token' \in Seq(Tokens)
        /\ Len(token) <= Len(token')
    BY <1>10, RevokedType DEF EndToken, Typed, Tables
  <2> QED
    BY <1>0, <1>10, <2>1, TypedTokenStep DEF EndToken
<1>11. ASSUME NEW c \in DOMAIN code, ExpireCode(c)
       PROVE  Typed'
  BY <1>0, <1>11, TypedCodeStep DEF ExpireCode
<1>12. ASSUME NEW u \in Users, Unlock(u)
       PROVE  Typed'
  <2> DEFINE row == [user[u] EXCEPT !.locked = FALSE]
  <2>1. row \in Accounts
    BY <1>12 DEF Unlock, Known, Typed, Tables, Accounts
  <2>2. user' = [user EXCEPT ![u] = row]
    BY <1>12 DEF Unlock
  <2>3. /\ tenant' \in [Tenants -> {"none", "inactive", "active"}] /\ misses' \in [Users -> Nat]
        /\ effects' \in Seq(Nat) /\ Len(effects') = Len(effects)
    BY <1>12 DEF Unlock, Typed, Tables
  <2> HIDE DEF row
  <2> QED
    BY <1>0, <1>12, <2>1, <2>2, <2>3, TypedUserStep DEF Unlock
<1>13. CASE UNCHANGED vars
  BY <1>0, <1>13, TypedRequestStep DEF vars
<1> QED
  BY <1>1, <1>2, <1>3, <1>4, <1>5, <1>6, <1>7, <1>8, <1>9, <1>10, <1>11, <1>12, <1>13 DEF Next
THEOREM TypesHold == Spec => []Typed
<1> QED
  BY InitTyped, TypedNext, PTL DEF Spec

-----------------------------------------------------------------------------
(* Rotation is a chain *)

\* A login bears the number of its first token, so that a new one is new.
LoginsAreOld == \A x \in DOMAIN token : token[x].login <= x

LEMMA TokenSteps ==
    ASSUME Typed, [Next]_vars
    PROVE  \/ token' = token
           \/ \E rows : token' = Revoked(rows)
           \/ \E u : token' = Append(token, [user |-> u, login |-> Len(token) + 1, usable |-> TRUE])
           \/ \E x \in DOMAIN token :
                /\ Usable(x)
                /\ token' = Append(Revoked({x}), [token[x] EXCEPT !.usable = TRUE])
<1>1. ASSUME NEW r \in Requests, RotateToken(r)
      PROVE  /\ req[r].token \in DOMAIN token
             /\ Usable(req[r].token)
             /\ token' = Append(Revoked({req[r].token}), [token[req[r].token] EXCEPT !.usable = TRUE])
  BY <1>1 DEF RotateToken, At, Typed, Tables, Pending, Holds
<1>2. ASSUME NEW r \in Requests, IssueToken(r)
      PROVE  token' = Append(token, [user |-> req[r].user, login |-> Len(token) + 1, usable |-> TRUE])
  BY <1>2 DEF IssueToken
<1>3. ASSUME NEW r \in Requests, CommitDeactivate(r) \/ RevokeTokens(r)
      PROVE  \E rows : token' = Revoked(rows)
  BY <1>3 DEF CommitDeactivate, RevokeTokens
<1>4. ASSUME NEW x \in DOMAIN token, EndToken(x)
      PROVE  \E rows : token' = Revoked(rows)
  BY <1>4 DEF EndToken
<1>5. ASSUME NEW r \in Requests, Continue(r),
             ~ RotateToken(r), ~ IssueToken(r), ~ CommitDeactivate(r), ~ RevokeTokens(r)
      PROVE  token' = token
  BY <1>5 DEF Continue, CommitSignup, CommitRegister, CreateAuthToken, QueueEmail, ConsumeAuthToken,
              VerifyEmail, ResetPassword, LoginFails, LoginSucceeds
<1>6. ASSUME NEW r \in Requests, ~ Continue(r),
             \/ Fail(r)
             \/ \E u \in Users, t \in Tenants : BeginSignup(r, u, t) \/ BeginRegister(r, u, t)
             \/ \E u \in Users :
                 \/ ResendVerification(r, u) \/ RequestPasswordReset(r, u)
                 \/ Login(r, u) \/ LogoutAll(r, u)
             \/ \E t \in Tenants : BeginDeactivate(r, t)
             \/ \E c \in DOMAIN code : ReadAuthToken(r, c)
             \/ \E x \in DOMAIN token : ReadRefreshToken(r, x)
      PROVE  token' = token
  BY <1>6 DEF Fail, BeginSignup, BeginRegister, ResendVerification, RequestPasswordReset, Login,
              LogoutAll, BeginDeactivate, ReadAuthToken, ReadRefreshToken
<1>7. ASSUME \/ \E t \in Tenants : ActivateTenant(t)
             \/ \E c \in DOMAIN code : ExpireCode(c)
             \/ \E u \in Users : Unlock(u)
             \/ UNCHANGED vars
      PROVE  token' = token
  BY <1>7 DEF ActivateTenant, ExpireCode, Unlock, vars
<1> QED
  BY <1>1, <1>2, <1>3, <1>4, <1>5, <1>6, <1>7 DEF Next

LEMMA ChainStep ==
    ASSUME Typed, LoginsAreOld, OneUsablePerLogin, [Next]_vars
    PROVE  LoginsAreOld' /\ OneUsablePerLogin'
<1>0. /\ token \in Seq(Tokens) /\ Len(token) \in Nat /\ DOMAIN token = 1..Len(token)
      /\ \A x \in 1..Len(token) : token[x].login \in Nat /\ token[x].login <= x
  <2>1. token \in Seq(Tokens) /\ Len(token) \in Nat /\ DOMAIN token = 1..Len(token)
    BY DEF Typed, Tables
  <2>2. ASSUME NEW x \in 1..Len(token) PROVE token[x].login \in Nat
    BY <2>1, TokenRow DEF Tokens
  <2> QED
    BY <2>1, <2>2 DEF LoginsAreOld
<1>1. CASE token' = token
  BY <1>1 DEF LoginsAreOld, OneUsablePerLogin, Usable
<1>2. CASE \E rows : token' = Revoked(rows)
  <2> PICK rows : token' = Revoked(rows)
    BY <1>2
  <2> QED
    BY RevokedType DEF LoginsAreOld, OneUsablePerLogin, Usable
<1>3. CASE \E u : token' = Append(token, [user |-> u, login |-> Len(token) + 1, usable |-> TRUE])
  <2> PICK u : token' = Append(token, [user |-> u, login |-> Len(token) + 1, usable |-> TRUE])
    BY <1>3
  <2> DEFINE row == [user |-> u, login |-> Len(token) + 1, usable |-> TRUE]
  <2>1. /\ DOMAIN token' = 1..(Len(token) + 1)
        /\ \A x \in 1..Len(token) : token'[x] = token[x]
        /\ token'[Len(token) + 1] = row
    BY <1>0
  <2>2. row.login = Len(token) + 1
    OBVIOUS
  <2> HIDE DEF row
  <2>3. LoginsAreOld'
    BY <1>0, <2>1, <2>2 DEF LoginsAreOld
  <2>4. \A x \in 1..Len(token) : token[x].login # Len(token) + 1
    BY <1>0
  <2>5. OneUsablePerLogin'
    BY <1>0, <2>1, <2>2, <2>4 DEF OneUsablePerLogin, Usable
  <2> QED
    BY <2>3, <2>5
<1>4. ASSUME NEW y \in DOMAIN token, Usable(y),
             token' = Append(Revoked({y}), [token[y] EXCEPT !.usable = TRUE])
      PROVE  LoginsAreOld' /\ OneUsablePerLogin'
  <2> DEFINE row == [token[y] EXCEPT !.usable = TRUE]
             old == Revoked({y})
  <2>1. /\ old \in Seq(Tokens) /\ Len(old) = Len(token)
        /\ \A x \in 1..Len(token) :
             /\ old[x].login = token[x].login
             /\ old[x].usable => token[x].usable /\ x # y
    BY <1>0, RevokedType
  <2>2. row.login = token[y].login
    BY TokenRow DEF Tokens
  <2>3. /\ DOMAIN token' = 1..(Len(token) + 1)
        /\ \A x \in 1..Len(token) : token'[x] = old[x]
        /\ token'[Len(token) + 1] = row
    <3>1. token' = Append(old, row)
      BY <1>4
    <3> HIDE DEF row, old
    <3> QED
      BY <1>0, <2>1, <3>1
  <2>4. y \in 1..Len(token) /\ token[y].usable
    BY <1>0, <1>4 DEF Usable
  <2> HIDE DEF row, old
  <2>5. LoginsAreOld'
    <3> SUFFICES ASSUME NEW x \in 1..(Len(token) + 1) PROVE token'[x].login <= x
      BY <2>3 DEF LoginsAreOld
    <3>1. CASE x \in 1..Len(token)
      BY <1>0, <2>1, <2>3, <3>1
    <3>2. CASE x = Len(token) + 1
      BY <1>0, <2>2, <2>3, <2>4, <3>2
    <3> QED
      BY <1>0, <3>1, <3>2
  <2>6. ASSUME NEW x \in 1..Len(token), token'[x].usable
        PROVE  token'[x].login # row.login
    BY <1>0, <2>1, <2>2, <2>3, <2>4, <2>6 DEF OneUsablePerLogin, Usable
  <2>7. ASSUME NEW x \in 1..Len(token), NEW z \in 1..Len(token), token'[x].usable, token'[z].usable,
               token'[x].login = token'[z].login
        PROVE  x = z
    <3>1. /\ old[x].usable /\ old[z].usable
          /\ old[x].login = old[z].login
      BY <2>3, <2>7
    <3>2. /\ token[x].usable /\ token[z].usable
          /\ token[x].login = token[z].login
      BY <2>1, <3>1
    <3> QED
      BY <1>0, <3>2 DEF OneUsablePerLogin, Usable
  <2>8. OneUsablePerLogin'
    <3> SUFFICES ASSUME NEW x \in 1..(Len(token) + 1), NEW z \in 1..(Len(token) + 1),
                        token'[x].usable, token'[z].usable, token'[x].login = token'[z].login
                 PROVE  x = z
      BY <2>3 DEF OneUsablePerLogin, Usable
    <3>1. \A k \in 1..(Len(token) + 1) : k \in 1..Len(token) \/ k = Len(token) + 1
      BY <1>0
    <3>2. CASE x \in 1..Len(token) /\ z \in 1..Len(token)
      BY <2>7, <3>2
    <3>3. CASE x \in 1..Len(token) /\ z = Len(token) + 1
      BY <2>3, <2>6, <3>3
    <3>4. CASE x = Len(token) + 1 /\ z \in 1..Len(token)
      BY <2>3, <2>6, <3>4
    <3> QED
      BY <3>1, <3>2, <3>3, <3>4
  <2> QED
    BY <2>5, <2>8
<1> QED
  BY <1>1, <1>2, <1>3, <1>4, TokenSteps

\* Of the refresh tokens of a login, one can be used at most, for any number
\* of requests that exchange them (refreshAccessToken).
THEOREM RotationIsChain == Spec => []OneUsablePerLogin
<1>1. Init => LoginsAreOld /\ OneUsablePerLogin
  BY DEF Init, LoginsAreOld, OneUsablePerLogin
<1> QED
  BY <1>1, TypesHold, ChainStep, PTL DEF Spec

-----------------------------------------------------------------------------
(* Codes *)

Applies(r, c) == At(r, "apply") /\ req[r].code = c

\* Whoever marks a code as used is the one request that may act on it.
CodesFresh ==
    \A c \in DOMAIN code :
        /\ \/ effects[c] = 0
           \/ effects[c] = 1 /\ code[c].status = "spent"
        /\ \A r \in Requests : Applies(r, c) => effects[c] = 0 /\ code[c].status = "spent"
        /\ \A r, q \in Requests : Applies(r, c) /\ Applies(q, c) => r = q

\* A step that neither changes codes nor starts to act on one.
LEMMA CodesUntouched ==
    ASSUME CodesFresh, UNCHANGED <<code, effects>>,
           \A r \in Requests : req'[r] = req[r] \/ req'[r].at # "apply"
    PROVE  CodesFresh'
  BY DEF CodesFresh, Applies, At

\* A code is used up, by the request r or because its time is over.
LEMMA CodeSpent ==
    ASSUME Typed, CodesFresh, NEW c \in DOMAIN code, code' = [code EXCEPT ![c].status = "spent"],
           UNCHANGED effects, NEW r \in Requests,
           \A q \in Requests \ {r} : req'[q] = req[q],
           \/ req'[r] = req[r]
           \/ /\ code[c].status # "spent"
              /\ req'[r] = [at |-> "apply", code |-> c]
    PROVE  CodesFresh'
<1>0. code \in Seq(Codes)
  BY DEF Typed, Tables
<1>1. /\ DOMAIN code' = DOMAIN code /\ code'[c].status = "spent"
      /\ \A d \in DOMAIN code : d # c => code'[d] = code[d]
  <2>1. code[c] \in Codes
    BY CodeRow
  <2> QED
    BY <1>0, <2>1 DEF Codes
<1>2. \A q \in Requests, d \in DOMAIN code :
         Applies(q, d)' => \/ Applies(q, d)
                           \/ q = r /\ d = c /\ code[c].status # "spent"
  BY DEF Applies, At
<1>3. code[c].status # "spent" => \A q \in Requests : ~ Applies(q, c)
  BY DEF CodesFresh
<1> QED
  BY <1>1, <1>2, <1>3 DEF CodesFresh

\* The request r has acted on its code.
LEMMA CodeApplied ==
    ASSUME Typed, CodesFresh, NEW r \in Requests, At(r, "apply"), UNCHANGED code,
           effects' = [effects EXCEPT ![req[r].code] = @ + 1],
           req'[r].at # "apply", \A q \in Requests \ {r} : req'[q] = req[q]
    PROVE  CodesFresh'
<1> DEFINE c == req[r].code
<1>1. c \in DOMAIN code /\ Applies(r, c)
  BY DEF Typed, Tables, Pending, Holds, Applies, At
<1>2. /\ effects'[c] = effects[c] + 1 /\ effects[c] = 0
      /\ \A d \in DOMAIN code : d # c => effects'[d] = effects[d]
  BY <1>1 DEF Typed, Tables, CodesFresh
<1>3. \A q \in Requests, d \in DOMAIN code : Applies(q, d)' => Applies(q, d) /\ q # r
  BY DEF Applies, At
<1>4. \A q \in Requests : q # r => ~ Applies(q, c)
  BY <1>1 DEF CodesFresh
<1> HIDE DEF c
<1> QED
  BY <1>1, <1>2, <1>3, <1>4 DEF CodesFresh

LEMMA CodesStep == Typed /\ CodesFresh /\ [Next]_vars => CodesFresh'
<1> SUFFICES ASSUME Typed, CodesFresh, [Next]_vars PROVE CodesFresh'
  OBVIOUS
<1> USE DEF Goto
<1>0. DOMAIN req = Requests
  BY DEF Typed, Pending
<1>1. ASSUME NEW r \in Requests, CreateAuthToken(r)
      PROVE  CodesFresh'
  <2> DEFINE n == Len(code) + 1
  <2>1. /\ n \in Nat /\ DOMAIN code = 1..Len(code) /\ DOMAIN code' = 1..n
        /\ \A c \in 1..Len(code) : code'[c] = code[c] /\ effects'[c] = effects[c]
        /\ effects'[n] = 0
    BY <1>1 DEF CreateAuthToken, Typed, Tables
  <2>2. \A q \in Requests, c \in 1..n : Applies(q, c)' => Applies(q, c) /\ c \in 1..Len(code)
    BY <1>0, <1>1, <2>1 DEF CreateAuthToken, Applies, At, Typed, Pending, Holds
  <2>3. \A c \in 1..n : c \in 1..Len(code) \/ c = n
    BY <2>1
  <2>4. n \notin 1..Len(code)
    BY <2>1
  <2> HIDE DEF n
  <2> QED
    BY <2>1, <2>2, <2>3, <2>4 DEF CodesFresh
<1>2. ASSUME NEW r \in Requests, ConsumeAuthToken(r)
      PROVE  CodesFresh'
  <2>1. req[r].code \in DOMAIN code
    BY <1>2 DEF ConsumeAuthToken, Typed, Tables, Pending, Holds, At
  <2> QED
    BY <1>0, <1>2, <2>1, CodeSpent DEF ConsumeAuthToken
<1>3. ASSUME NEW r \in Requests, VerifyEmail(r) \/ ResetPassword(r)
      PROVE  CodesFresh'
  <2>1. At(r, "apply") /\ UNCHANGED code
    BY <1>3 DEF VerifyEmail, ResetPassword
  <2>2. effects' = [effects EXCEPT ![req[r].code] = @ + 1]
    BY <1>3 DEF VerifyEmail, ResetPassword
  <2>3. \/ req' = [req EXCEPT ![r] = Idle]
        \/ req' = [req EXCEPT ![r] = [at |-> "reset", user |-> code[req[r].code].user]]
    BY <1>3 DEF VerifyEmail, ResetPassword
  <2>4. req'[r].at # "apply"
    BY <1>0, <2>3 DEF Idle
  <2>5. \A q \in Requests \ {r} : req'[q] = req[q]
    BY <1>0, <2>3
  <2> QED
    BY <2>1, <2>2, <2>4, <2>5, CodeApplied
<1>4. ASSUME NEW c \in DOMAIN code, ExpireCode(c)
      PROVE  CodesFresh'
  <2>1. CASE Requests = {}
    <3>1. code \in Seq(Codes)
      BY DEF Typed, Tables
    <3>2. code[c] \in Codes
      BY CodeRow
    <3> QED
      BY <1>4, <2>1, <3>1, <3>2 DEF ExpireCode, CodesFresh, Codes
  <2>2. CASE Requests # {}
    BY <1>4, <2>2, CodeSpent DEF ExpireCode
  <2> QED
    BY <2>1, <2>2
<1>5. ASSUME NEW r \in Requests, QueueEmail(r)
      PROVE  CodesFresh'
  <2> DEFINE c == req[r].code
  <2>1. c \in DOMAIN code /\ code \in Seq(Codes)
    BY <1>5 DEF QueueEmail, Typed, Tables, Pending, Holds, At
  <2>2. code[c] \in Codes
    BY <2>1, CodeRow
  <2>3. /\ DOMAIN code' = DOMAIN code
        /\ \A d \in DOMAIN code : code[d].status = "spent" => code'[d].status = "spent"
    BY <1>5, <2>1, <2>2 DEF QueueEmail, Codes
  <2>4. \A q \in Requests, d \in DOMAIN code : Applies(q, d)' => Applies(q, d)
    BY <1>0, <1>5 DEF QueueEmail, Applies, At, Idle
  <2>5. UNCHANGED effects
    BY <1>5 DEF QueueEmail
  <2> HIDE DEF c
  <2> QED
    BY <2>3, <2>4, <2>5 DEF CodesFresh
<1>6. ASSUME NEW r \in Requests, Continue(r), ~ CreateAuthToken(r), ~ ConsumeAuthToken(r),
             ~ VerifyEmail(r), ~ ResetPassword(r), ~ QueueEmail(r)
      PROVE  CodesFresh'
  <2>1. UNCHANGED <<code, effects>>
    BY <1>6 DEF Continue, CommitSignup, CommitRegister, CommitDeactivate, LoginFails, LoginSucceeds,
                IssueToken, RotateToken, RevokeTokens
  <2>2. \/ req' = [req EXCEPT ![r] = Idle]
        \/ req' = [req EXCEPT ![r] = Mail(req[r].user, "verify")]
        \/ req' = [req EXCEPT ![r] = [at |-> "issue", user |-> req[r].user]]
    BY <1>6 DEF Continue, CommitSignup, CommitRegister, CommitDeactivate, LoginFails, LoginSucceeds,
                IssueToken, RotateToken, RevokeTokens
  <2>3. \A q \in Requests : req'[q] = req[q] \/ req'[q].at # "apply"
    BY <1>0, <2>2 DEF Idle, Mail
  <2> QED
    BY <2>1, <2>3, CodesUntouched
<1>7. ASSUME NEW r \in Requests,
             \/ Fail(r)
             \/ \E u \in Users, t \in Tenants : BeginSignup(r, u, t) \/ BeginRegister(r, u, t)
             \/ \E u \in Users :
                 \/ ResendVerification(r, u) \/ RequestPasswordReset(r, u)
                 \/ Login(r, u) \/ LogoutAll(r, u)
             \/ \E t \in Tenants : BeginDeactivate(r, t)
             \/ \E c \in DOMAIN code : ReadAuthToken(r, c)
             \/ \E x \in DOMAIN token : ReadRefreshToken(r, x)
      PROVE  CodesFresh'
  BY <1>0, <1>7, CodesUntouched
  DEF Fail, BeginSignup, BeginRegister, ResendVerification, RequestPasswordReset, Login,
      LogoutAll, BeginDeactivate, ReadAuthToken, ReadRefreshToken, Idle, Mail
<1>8. ASSUME \/ \E t \in Tenants : ActivateTenant(t)
             \/ \E x \in DOMAIN token : EndToken(x)
             \/ \E u \in Users : Unlock(u)
             \/ UNCHANGED vars
      PROVE  CodesFresh'
  BY <1>8, CodesUntouched DEF ActivateTenant, EndToken, Unlock, vars
<1> QED
  BY <1>1, <1>2, <1>3, <1>4, <1>5, <1>6, <1>7, <1>8 DEF Next

\* A code verifies or resets once at most, however many requests present it
\* at the same time (consumeAuthToken).
THEOREM CodesWorkOnce == Spec => []CodeWorksOnce
<1>1. Init => CodesFresh
  BY DEF Init, CodesFresh
<1>2. Typed /\ CodesFresh => CodeWorksOnce
  BY DEF CodesFresh, CodeWorksOnce
<1> QED
  BY <1>1, <1>2, TypesHold, CodesStep, PTL DEF Spec

-----------------------------------------------------------------------------
(* Companies *)

\* What a step may do to the row of a user.
LEMMA UserSteps ==
    ASSUME Typed, [Next]_vars
    PROVE  \/ user' = user
           \/ \E r \in Requests : CommitSignup(r) \/ CommitRegister(r)
           \/ \E u \in KnownUsers : user' = [user EXCEPT ![u].verified = TRUE]
           \/ \E u \in KnownUsers : \E n, b : user' = [user EXCEPT ![u].failed = n, ![u].locked = b]
           \/ \E u \in KnownUsers : user' = [user EXCEPT ![u].locked = FALSE]
<1> USE DEF At
<1>0. \A r \in Requests : Holds(req[r], KnownUsers, Len(code), Len(token))
  BY DEF Typed, Pending
<1>1. ASSUME NEW r \in Requests, VerifyEmail(r)
      PROVE  \E u \in KnownUsers : user' = [user EXCEPT ![u].verified = TRUE]
  <2>1. code[req[r].code].user \in KnownUsers
    BY <1>1, AppliesToKnown DEF VerifyEmail
  <2> QED
    BY <1>1, <2>1 DEF VerifyEmail
<1>2. ASSUME NEW r \in Requests, ResetPassword(r)
      PROVE  \E u \in KnownUsers : \E n, b : user' = [user EXCEPT ![u].failed = n, ![u].locked = b]
  <2>1. code[req[r].code].user \in KnownUsers
    BY <1>2, AppliesToKnown DEF ResetPassword
  <2> QED
    BY <1>2, <2>1 DEF ResetPassword
<1>3. ASSUME NEW r \in Requests, LoginFails(r)
      PROVE  \E u \in KnownUsers : \E n, b : user' = [user EXCEPT ![u].failed = n, ![u].locked = b]
  <2>1. req[r].user \in KnownUsers
    BY <1>0, <1>3 DEF LoginFails, Holds
  <2> DEFINE n == req[r].failed + 1
             b == Locks(n)
  <2>2. user' = [user EXCEPT ![req[r].user].failed = n, ![req[r].user].locked = b]
    BY <1>3 DEF LoginFails
  <2> HIDE DEF n, b
  <2> QED
    BY <2>1, <2>2
<1>4. ASSUME NEW r \in Requests, LoginSucceeds(r)
      PROVE  \E u \in KnownUsers : \E n, b : user' = [user EXCEPT ![u].failed = n, ![u].locked = b]
  <2>1. req[r].user \in KnownUsers
    BY <1>0, <1>4 DEF LoginSucceeds, Holds
  <2> QED
    BY <1>4, <2>1 DEF LoginSucceeds
<1>5. ASSUME NEW u \in Users, Unlock(u)
      PROVE  u \in KnownUsers /\ user' = [user EXCEPT ![u].locked = FALSE]
  BY <1>5 DEF Unlock, KnownUsers
<1>6. ASSUME NEW r \in Requests, Continue(r), ~ CommitSignup(r), ~ CommitRegister(r), ~ VerifyEmail(r),
             ~ ResetPassword(r), ~ LoginFails(r), ~ LoginSucceeds(r)
      PROVE  user' = user
  BY <1>6 DEF Continue, CommitDeactivate, CreateAuthToken, QueueEmail, ConsumeAuthToken, IssueToken,
              RotateToken, RevokeTokens
<1>7. ASSUME NEW r \in Requests,
             \/ Fail(r)
             \/ \E u \in Users, t \in Tenants : BeginSignup(r, u, t) \/ BeginRegister(r, u, t)
             \/ \E u \in Users :
                 \/ ResendVerification(r, u) \/ RequestPasswordReset(r, u)
                 \/ Login(r, u) \/ LogoutAll(r, u)
             \/ \E t \in Tenants : BeginDeactivate(r, t)
             \/ \E c \in DOMAIN code : ReadAuthToken(r, c)
             \/ \E x \in DOMAIN token : ReadRefreshToken(r, x)
      PROVE  user' = user
  BY <1>7 DEF Fail, BeginSignup, BeginRegister, ResendVerification, RequestPasswordReset, Login,
              LogoutAll, BeginDeactivate, ReadAuthToken, ReadRefreshToken
<1>8. ASSUME \/ \E t \in Tenants : ActivateTenant(t)
             \/ \E x \in DOMAIN token : EndToken(x)
             \/ \E c \in DOMAIN code : ExpireCode(c)
             \/ UNCHANGED vars
      PROVE  user' = user
  BY <1>8 DEF ActivateTenant, EndToken, ExpireCode, vars
<1> QED
  BY <1>1, <1>2, <1>3, <1>4, <1>5, <1>6, <1>7, <1>8 DEF Next

\* No row of a user is removed, or moved to another company or role.
LEMMA AccountsKept ==
    ASSUME Typed, [Next]_vars, NEW u \in Users, Known(u)
    PROVE  /\ user'[u].role = user[u].role /\ user'[u].tenant = user[u].tenant
           /\ Known(u)'
<1>1. user[u] \in Accounts /\ user \in [Users -> {NoUser} \cup Accounts]
  BY DEF Typed, Tables, Known
<1>2. Typed'
  BY TypedNext
<1>3. user'[u].role = user[u].role /\ user'[u].tenant = user[u].tenant
  <2>1. ASSUME NEW r \in Requests, CommitSignup(r) \/ CommitRegister(r)
        PROVE  user'[u] = user[u]
    BY <1>1, <2>1 DEF CommitSignup, CommitRegister
  <2>2. ASSUME NEW v \in KnownUsers, user' = [user EXCEPT ![v].verified = TRUE]
        PROVE  user'[u].role = user[u].role /\ user'[u].tenant = user[u].tenant
    BY <1>1, <2>2 DEF Accounts
  <2>3. ASSUME NEW v \in KnownUsers, NEW n, NEW b, user' = [user EXCEPT ![v].failed = n, ![v].locked = b]
        PROVE  user'[u].role = user[u].role /\ user'[u].tenant = user[u].tenant
    BY <1>1, <2>3 DEF Accounts
  <2>4. ASSUME NEW v \in KnownUsers, user' = [user EXCEPT ![v].locked = FALSE]
        PROVE  user'[u].role = user[u].role /\ user'[u].tenant = user[u].tenant
    BY <1>1, <2>4 DEF Accounts
  <2> QED
    BY <2>1, <2>2, <2>3, <2>4, UserSteps
<1>4. user'[u].role \in {"admin", "staff"}
  BY <1>1, <1>3 DEF Accounts
<1> QED
  BY <1>3, <1>4 DEF Known, NoUser

\* Only companies that exist are deactivated, and none goes away.
DeactivatesCompany == \A r \in Requests : At(r, "deactivate") => tenant[req[r].tenant] # "none"

AdminInv == CompanyHasAdmin /\ DeactivatesCompany

\* A step that changes the company t, for which there is an admin afterwards,
\* and starts no deactivation.
LEMMA CompanyChanged ==
    ASSUME Typed, AdminInv, [Next]_vars,
           NEW t \in Tenants, NEW status, status # "none", tenant' = [tenant EXCEPT ![t] = status],
           \E u \in Users : Known(u)' /\ user'[u].role = "admin" /\ user'[u].tenant = t,
           \A r \in Requests : req'[r] = req[r] \/ req'[r].at # "deactivate"
    PROVE  AdminInv'
<1>0. tenant \in [Tenants -> {"none", "inactive", "active"}]
  BY DEF Typed, Tables
<1>1. CompanyHasAdmin'
  <2> SUFFICES ASSUME NEW c \in Tenants, tenant'[c] # "none"
               PROVE  \E u \in Users : Known(u)' /\ user'[u].role = "admin" /\ user'[u].tenant = c
    BY DEF CompanyHasAdmin
  <2>1. CASE c = t
    BY <2>1
  <2>2. CASE c # t
    <3>1. PICK u \in Users : Known(u) /\ user[u].role = "admin" /\ user[u].tenant = c
      BY <1>0, <2>2 DEF AdminInv, CompanyHasAdmin
    <3> QED
      BY <3>1, AccountsKept
  <2> QED
    BY <2>1, <2>2
<1>2. DeactivatesCompany'
  <2>1. \A r \in Requests : req[r].at = "deactivate" => req[r].tenant \in Tenants
    BY DEF Typed, Pending, Holds
  <2> QED
    BY <1>0, <2>1 DEF AdminInv, DeactivatesCompany, At
<1> QED
  BY <1>1, <1>2 DEF AdminInv

\* A step that leaves companies alone and deactivates only one that exists.
LEMMA CompaniesKept ==
    ASSUME Typed, AdminInv, [Next]_vars, tenant' = tenant,
           \A r \in Requests : \/ req'[r] = req[r]
                               \/ req'[r].at = "deactivate" => tenant[req'[r].tenant] # "none"
    PROVE  AdminInv'
<1>1. CompanyHasAdmin'
  <2> SUFFICES ASSUME NEW c \in Tenants, tenant[c] # "none"
               PROVE  \E u \in Users : Known(u)' /\ user'[u].role = "admin" /\ user'[u].tenant = c
    BY DEF CompanyHasAdmin
  <2>1. PICK u \in Users : Known(u) /\ user[u].role = "admin" /\ user[u].tenant = c
    BY DEF AdminInv, CompanyHasAdmin
  <2> QED
    BY <2>1, AccountsKept
<1>2. DeactivatesCompany'
  BY DEF AdminInv, DeactivatesCompany, At
<1> QED
  BY <1>1, <1>2 DEF AdminInv

LEMMA AdminStep == Typed /\ AdminInv /\ [Next]_vars => AdminInv'
<1> SUFFICES ASSUME Typed, AdminInv, [Next]_vars PROVE AdminInv'
  OBVIOUS
<1> USE DEF Goto, At
<1>0. /\ DOMAIN req = Requests
      /\ \A r \in Requests : Holds(req[r], KnownUsers, Len(code), Len(token))
  BY DEF Typed, Pending
<1>1. ASSUME NEW r \in Requests, CommitSignup(r)
      PROVE  AdminInv'
  <2>1. PICK u \in Users, t \in Tenants : u = req[r].user /\ t = req[r].tenant
    BY <1>0, <1>1 DEF CommitSignup, Holds
  <2>2. user'[u].role = "admin" /\ user'[u].tenant = t /\ Known(u)'
    <3>1. user' = [user EXCEPT ![u] = NewUser("admin", t, FALSE)]
      BY <1>1, <2>1 DEF CommitSignup
    <3> QED
      BY <3>1 DEF NewUser, Known, NoUser, Typed, Tables
  <2>3. tenant' = [tenant EXCEPT ![t] = "inactive"]
    BY <1>1, <2>1 DEF CommitSignup
  <2>4. \A q \in Requests : req'[q] = req[q] \/ req'[q].at # "deactivate"
    BY <1>0, <1>1 DEF CommitSignup, Mail
  <2> QED
    BY <2>2, <2>3, <2>4, CompanyChanged
<1>2. ASSUME NEW r \in Requests, CommitDeactivate(r)
      PROVE  AdminInv'
  <2> DEFINE t == req[r].tenant
  <2>1. t \in Tenants /\ tenant[t] # "none"
    BY <1>0, <1>2 DEF CommitDeactivate, Holds, AdminInv, DeactivatesCompany
  <2>2. PICK u \in Users : Known(u) /\ user[u].role = "admin" /\ user[u].tenant = t
    BY <2>1 DEF AdminInv, CompanyHasAdmin
  <2>3. Known(u)' /\ user'[u].role = "admin" /\ user'[u].tenant = t
    BY <2>2, AccountsKept
  <2>4. tenant' = [tenant EXCEPT ![t] = "inactive"]
    BY <1>2 DEF CommitDeactivate
  <2>5. \A q \in Requests : req'[q] = req[q] \/ req'[q].at # "deactivate"
    BY <1>0, <1>2 DEF CommitDeactivate, Idle
  <2> HIDE DEF t
  <2> QED
    BY <2>1, <2>3, <2>4, <2>5, CompanyChanged
<1>3. ASSUME NEW r \in Requests, VerifyEmail(r)
      PROVE  AdminInv'
  <2>0. PICK u \in Users : u = code[req[r].code].user /\ Known(u)
    BY <1>3, AppliesToKnown DEF VerifyEmail
  <2>1. PICK t \in Tenants : t = user[u].tenant
    BY <2>0 DEF Known, Typed, Tables, Accounts
  <2>2. Known(u)' /\ user'[u].role = user[u].role /\ user'[u].tenant = t
    BY <2>0, <2>1, AccountsKept
  <2>3. \A q \in Requests : req'[q] = req[q] \/ req'[q].at # "deactivate"
    BY <1>0, <1>3 DEF VerifyEmail, Idle
  <2>4. CASE user[u].role = "admin"
    <3>1. tenant' = [tenant EXCEPT ![t] = "active"]
      BY <1>3, <2>0, <2>1, <2>4 DEF VerifyEmail
    <3> QED
      BY <2>2, <2>3, <2>4, <3>1, CompanyChanged
  <2>5. CASE user[u].role # "admin"
    <3>1. tenant' = tenant
      BY <1>3, <2>0, <2>5 DEF VerifyEmail
    <3> QED
      BY <2>3, <3>1, CompaniesKept
  <2> QED
    BY <2>4, <2>5
<1>4. ASSUME NEW t \in Tenants, ActivateTenant(t)
      PROVE  AdminInv'
  <2>1. PICK u \in Users : Known(u) /\ user[u].role = "admin" /\ user[u].tenant = t
    BY <1>4 DEF ActivateTenant, AdminInv, CompanyHasAdmin
  <2>2. Known(u)' /\ user'[u].role = "admin" /\ user'[u].tenant = t
    BY <2>1, AccountsKept
  <2> QED
    BY <1>4, <2>2, CompanyChanged DEF ActivateTenant
<1>5. ASSUME NEW r \in Requests, NEW t \in Tenants, BeginDeactivate(r, t)
      PROVE  AdminInv'
  <2>1. tenant' = tenant /\ tenant[t] # "none"
    BY <1>5 DEF BeginDeactivate
  <2>2. \A q \in Requests : req'[q] = req[q] \/ req'[q].tenant = t
    BY <1>0, <1>5 DEF BeginDeactivate
  <2> QED
    BY <2>1, <2>2, CompaniesKept
<1>6. ASSUME NEW r \in Requests, Continue(r), ~ CommitSignup(r), ~ CommitDeactivate(r), ~ VerifyEmail(r)
      PROVE  AdminInv'
  <2>1. tenant' = tenant
    BY <1>6 DEF Continue, CommitRegister, CreateAuthToken, QueueEmail, ConsumeAuthToken, ResetPassword,
                LoginFails, LoginSucceeds, IssueToken, RotateToken, RevokeTokens
  <2>2. \/ req' = [req EXCEPT ![r] = Idle]
        \/ req' = [req EXCEPT ![r] = [at |-> "send", code |-> Len(code) + 1]]
        \/ req' = [req EXCEPT ![r] = [at |-> "apply", code |-> req[r].code]]
        \/ req' = [req EXCEPT ![r] = [at |-> "issue", user |-> req[r].user]]
        \/ req' = [req EXCEPT ![r] = [at |-> "reset", user |-> code[req[r].code].user]]
    BY <1>6 DEF Continue, CommitRegister, CreateAuthToken, QueueEmail, ConsumeAuthToken, ResetPassword,
                LoginFails, LoginSucceeds, IssueToken, RotateToken, RevokeTokens
  <2>3. \A q \in Requests : req'[q] = req[q] \/ req'[q].at # "deactivate"
    BY <1>0, <2>2 DEF Idle
  <2> QED
    BY <2>1, <2>3, CompaniesKept
<1>7. ASSUME NEW r \in Requests,
             \/ Fail(r)
             \/ \E u \in Users, t \in Tenants : BeginSignup(r, u, t) \/ BeginRegister(r, u, t)
             \/ \E u \in Users :
                 \/ ResendVerification(r, u) \/ RequestPasswordReset(r, u)
                 \/ Login(r, u) \/ LogoutAll(r, u)
             \/ \E c \in DOMAIN code : ReadAuthToken(r, c)
             \/ \E x \in DOMAIN token : ReadRefreshToken(r, x)
      PROVE  AdminInv'
  <2>1. tenant' = tenant
    BY <1>7 DEF Fail, BeginSignup, BeginRegister, ResendVerification, RequestPasswordReset, Login,
                LogoutAll, ReadAuthToken, ReadRefreshToken
  <2>2. \A q \in Requests : req'[q] = req[q] \/ req'[q].at # "deactivate"
    BY <1>0, <1>7 DEF Fail, BeginSignup, BeginRegister, ResendVerification, RequestPasswordReset, Login,
                LogoutAll, ReadAuthToken, ReadRefreshToken, Idle, Mail
  <2> QED
    BY <2>1, <2>2, CompaniesKept
<1>8. ASSUME \/ \E x \in DOMAIN token : EndToken(x)
             \/ \E c \in DOMAIN code : ExpireCode(c)
             \/ \E u \in Users : Unlock(u)
             \/ UNCHANGED vars
      PROVE  AdminInv'
  BY <1>8, CompaniesKept DEF EndToken, ExpireCode, Unlock, vars
<1> QED
  BY <1>1, <1>2, <1>3, <1>4, <1>5, <1>6, <1>7, <1>8 DEF Next

\* No signup leaves a company behind without an admin of its own (signup).
THEOREM CompaniesHaveAdmins == Spec => []CompanyHasAdmin
<1>1. Init => AdminInv
  BY DEF Init, AdminInv, CompanyHasAdmin, DeactivatesCompany, At, Idle
<1>2. AdminInv => CompanyHasAdmin
  BY DEF AdminInv
<1> QED
  BY <1>1, <1>2, TypesHold, AdminStep, PTL DEF Spec

-----------------------------------------------------------------------------
(* Locks *)

\* No count, in the row or in the hands of a request, exceeds the failures.
MissesCover ==
    /\ \A u \in Users : Known(u) =>
        /\ user[u].failed <= misses[u]
        /\ user[u].locked => misses[u] >= Limit
    /\ \A r \in Requests : At(r, "login") => req[r].failed <= misses[req[r].user]

\* A step without a failure, that resets counts or leaves them.
LEMMA MissesKept ==
    ASSUME Typed, MissesCover, misses' = misses,
           \A u \in Users : Known(u)' =>
               \/ user'[u].failed = 0 /\ ~ user'[u].locked
               \/ /\ Known(u) /\ user'[u].failed = user[u].failed
                  /\ user'[u].locked => user[u].locked,
           \A r \in Requests : req'[r] = req[r] \/ req'[r].at # "login"
    PROVE  MissesCover'
<1>1. \A u \in Users : misses[u] \in Nat
  BY DEF Typed, Tables
<1> QED
  BY <1>1 DEF MissesCover, At

LEMMA LockStep == Typed /\ MissesCover /\ [Next]_vars => MissesCover'
<1> SUFFICES ASSUME Typed, MissesCover, [Next]_vars PROVE MissesCover'
  OBVIOUS
<1> USE DEF Goto, At
<1>0. /\ DOMAIN req = Requests
      /\ \A r \in Requests : Holds(req[r], KnownUsers, Len(code), Len(token))
      /\ user \in [Users -> {NoUser} \cup Accounts] /\ misses \in [Users -> Nat]
  BY DEF Typed, Pending, Tables
<1>1. ASSUME NEW r \in Requests, LoginFails(r)
      PROVE  MissesCover'
  <2>0. req[r].at = "login"
    BY <1>1 DEF LoginFails
  <2>1. PICK u \in Users : u = req[r].user /\ Known(u)
    BY <1>0, <2>0 DEF Holds, KnownUsers
  <2>2. PICK count \in Nat : count = req[r].failed + 1 /\ req[r].failed \in Nat
    BY <1>0, <2>0 DEF Holds
  <2>3. count <= misses[u] + 1
    BY <1>0, <2>0, <2>1, <2>2 DEF MissesCover
  <2>4. misses' = [misses EXCEPT ![u] = @ + 1]
    BY <1>1, <2>1 DEF LoginFails
  <2>5. PICK b \in BOOLEAN : b = Locks(count) /\ user' = [user EXCEPT ![u].failed = count, ![u].locked = b]
    <3>1. user' = [user EXCEPT ![req[r].user].failed = req[r].failed + 1,
                               ![req[r].user].locked = Locks(req[r].failed + 1)]
      BY <1>1 DEF LoginFails
    <3>2. user' = [user EXCEPT ![u].failed = count, ![u].locked = Locks(count)]
      BY <2>1, <2>2, <3>1, Zenon
    <3>3. Locks(count) \in BOOLEAN
      BY DEF Locks
    <3> QED
      BY <3>2, <3>3, Zenon
  <2>6. b => count >= Limit
    BY <2>5 DEF Locks
  <2>7. user[u] \in Accounts
    BY <1>0, <2>1 DEF Known
  <2>8. user'[u].failed = count /\ user'[u].locked = b
    BY <1>0, <2>5, <2>7 DEF Accounts
  <2>9. ASSUME NEW v \in Users, Known(v)'
        PROVE  user'[v].failed <= misses'[v] /\ (user'[v].locked => misses'[v] >= Limit)
    <3>1. CASE v = u
      BY <1>0, <2>3, <2>4, <2>6, <2>8, <3>1, LimitAssumption
    <3>2. CASE v # u
      BY <1>0, <2>4, <2>5, <2>9, <3>2 DEF MissesCover, Known
    <3> QED
      BY <3>1, <3>2
  <2>10. ASSUME NEW q \in Requests, req'[q].at = "login"
         PROVE  req'[q].failed <= misses'[req'[q].user]
    <3>1. req'[q] = req[q]
      BY <1>0, <1>1, <2>10 DEF LoginFails, Idle
    <3>2. req[q].user \in Users /\ req[q].failed \in Nat /\ req[q].failed <= misses[req[q].user]
      BY <1>0, <2>10, <3>1 DEF Holds, KnownUsers, MissesCover
    <3> QED
      BY <1>0, <2>4, <3>1, <3>2
  <2> QED
    BY <2>9, <2>10 DEF MissesCover
<1>2. ASSUME NEW r \in Requests, NEW u \in Users, Login(r, u)
      PROVE  MissesCover'
  BY <1>0, <1>2 DEF Login, Verified, MissesCover, Known
<1>3. ASSUME NEW r \in Requests, LoginSucceeds(r)
      PROVE  MissesCover'
  <2>1. PICK u \in Users : u = req[r].user /\ Known(u)
    BY <1>0, <1>3 DEF LoginSucceeds, Holds, KnownUsers
  <2>2. user[u] \in Accounts /\ user' = [user EXCEPT ![u].failed = 0, ![u].locked = FALSE]
    BY <1>0, <1>3, <2>1 DEF LoginSucceeds, Known
  <2>3. misses' = misses /\ \A q \in Requests : req'[q] = req[q] \/ req'[q].at # "login"
    BY <1>0, <1>3 DEF LoginSucceeds
  <2>4. /\ user'[u].failed = 0 /\ ~ user'[u].locked
        /\ \A v \in Users : v # u => user'[v] = user[v]
    BY <1>0, <2>2 DEF Accounts
  <2> QED
    BY <2>3, <2>4, MissesKept DEF Known
<1>4. ASSUME NEW r \in Requests, ResetPassword(r)
      PROVE  MissesCover'
  <2>1. PICK u \in Users : u = code[req[r].code].user /\ Known(u)
    BY <1>4, AppliesToKnown DEF ResetPassword
  <2>2. user[u] \in Accounts /\ user' = [user EXCEPT ![u].failed = 0, ![u].locked = FALSE]
    BY <1>0, <1>4, <2>1 DEF ResetPassword, Known
  <2>3. misses' = misses /\ \A q \in Requests : req'[q] = req[q] \/ req'[q].at # "login"
    BY <1>0, <1>4 DEF ResetPassword
  <2>4. /\ user'[u].failed = 0 /\ ~ user'[u].locked
        /\ \A v \in Users : v # u => user'[v] = user[v]
    BY <1>0, <2>2 DEF Accounts
  <2> QED
    BY <2>3, <2>4, MissesKept DEF Known
<1>5. ASSUME NEW r \in Requests, VerifyEmail(r)
      PROVE  MissesCover'
  <2>1. PICK u \in Users : u = code[req[r].code].user /\ Known(u)
    BY <1>5, AppliesToKnown DEF VerifyEmail
  <2>2. user[u] \in Accounts /\ user' = [user EXCEPT ![u].verified = TRUE]
    BY <1>0, <1>5, <2>1 DEF VerifyEmail, Known
  <2>3. misses' = misses /\ \A q \in Requests : req'[q] = req[q] \/ req'[q].at # "login"
    BY <1>0, <1>5 DEF VerifyEmail, Idle
  <2>4. /\ user'[u].failed = user[u].failed /\ user'[u].locked = user[u].locked
        /\ \A v \in Users : v # u => user'[v] = user[v]
    BY <1>0, <2>2 DEF Accounts
  <2> QED
    BY <2>1, <2>3, <2>4, MissesKept DEF Known
<1>6. ASSUME NEW u \in Users, Unlock(u)
      PROVE  MissesCover'
  <2>1. Known(u) /\ user' = [user EXCEPT ![u].locked = FALSE] /\ misses' = misses /\ req' = req
    BY <1>6 DEF Unlock
  <2>2. user[u] \in Accounts
    BY <1>0, <2>1 DEF Known
  <2>3. /\ user'[u].failed = user[u].failed /\ ~ user'[u].locked
        /\ \A v \in Users : v # u => user'[v] = user[v]
    BY <1>0, <2>1, <2>2 DEF Accounts
  <2> QED
    BY <2>1, <2>3, MissesKept DEF Known
<1>7. ASSUME NEW r \in Requests, CommitSignup(r) \/ CommitRegister(r)
      PROVE  MissesCover'
  <2>1. PICK u \in Users : u = req[r].user
    BY <1>0, <1>7 DEF CommitSignup, CommitRegister, Holds
  <2>2. \/ user' = [user EXCEPT ![u] = NewUser("admin", req[r].tenant, FALSE)]
        \/ user' = [user EXCEPT ![u] = NewUser("staff", req[r].tenant, TRUE)]
    <3>1. CASE CommitSignup(r)
      BY <2>1, <3>1 DEF CommitSignup
    <3>2. CASE CommitRegister(r)
      BY <2>1, <3>2 DEF CommitRegister
    <3> QED
      BY <1>7, <3>1, <3>2
  <2>3. misses' = misses /\ \A q \in Requests : req'[q] = req[q] \/ req'[q].at # "login"
    <3>1. \/ req' = [req EXCEPT ![r] = Idle]
          \/ req' = [req EXCEPT ![r] = Mail(u, "verify")]
      BY <1>7, <2>1 DEF CommitSignup, CommitRegister
    <3>2. misses' = misses
      BY <1>7 DEF CommitSignup, CommitRegister
    <3> QED
      BY <1>0, <3>1, <3>2 DEF Idle, Mail
  <2>4. /\ user'[u].failed = 0 /\ ~ user'[u].locked
        /\ \A v \in Users : v # u => user'[v] = user[v]
    BY <1>0, <2>2 DEF NewUser
  <2> QED
    BY <2>3, <2>4, MissesKept DEF Known
<1>8. ASSUME NEW r \in Requests, Continue(r), ~ LoginFails(r), ~ LoginSucceeds(r), ~ ResetPassword(r),
             ~ VerifyEmail(r), ~ CommitSignup(r), ~ CommitRegister(r)
      PROVE  MissesCover'
  <2>1. user' = user /\ misses' = misses
    BY <1>8 DEF Continue, CommitDeactivate, CreateAuthToken, QueueEmail, ConsumeAuthToken, IssueToken,
                RotateToken, RevokeTokens
  <2>2. \A q \in Requests : req'[q] = req[q] \/ req'[q].at # "login"
    BY <1>0, <1>8 DEF Continue, CommitDeactivate, CreateAuthToken, QueueEmail, ConsumeAuthToken,
                IssueToken, RotateToken, RevokeTokens, Idle
  <2> QED
    BY <2>1, <2>2, MissesKept DEF Known
<1>9. ASSUME NEW r \in Requests,
             \/ Fail(r)
             \/ \E u \in Users, t \in Tenants : BeginSignup(r, u, t) \/ BeginRegister(r, u, t)
             \/ \E u \in Users :
                 ResendVerification(r, u) \/ RequestPasswordReset(r, u) \/ LogoutAll(r, u)
             \/ \E t \in Tenants : BeginDeactivate(r, t)
             \/ \E c \in DOMAIN code : ReadAuthToken(r, c)
             \/ \E x \in DOMAIN token : ReadRefreshToken(r, x)
      PROVE  MissesCover'
  <2>1. user' = user /\ misses' = misses
    BY <1>9 DEF Fail, BeginSignup, BeginRegister, ResendVerification, RequestPasswordReset,
                LogoutAll, BeginDeactivate, ReadAuthToken, ReadRefreshToken
  <2>2. \A q \in Requests : req'[q] = req[q] \/ req'[q].at # "login"
    BY <1>0, <1>9 DEF Fail, BeginSignup, BeginRegister, ResendVerification, RequestPasswordReset,
                LogoutAll, BeginDeactivate, ReadAuthToken, ReadRefreshToken, Idle, Mail
  <2> QED
    BY <2>1, <2>2, MissesKept DEF Known
<1>10. ASSUME \/ \E t \in Tenants : ActivateTenant(t)
              \/ \E x \in DOMAIN token : EndToken(x)
              \/ \E c \in DOMAIN code : ExpireCode(c)
              \/ UNCHANGED vars
       PROVE  MissesCover'
  BY <1>10, MissesKept DEF ActivateTenant, EndToken, ExpireCode, vars, Known
<1> QED
  BY <1>1, <1>2, <1>3, <1>4, <1>5, <1>6, <1>7, <1>8, <1>9, <1>10 DEF Next

\* An account that is locked has seen Limit failed logins at least, whatever
\* logins overlap (login).
THEOREM LocksAreEarned == Spec => []LockIsEarned
<1>1. Init => MissesCover
  BY DEF Init, MissesCover, Known, NoUser, At, Idle
<1>2. MissesCover => LockIsEarned
  BY DEF MissesCover, LockIsEarned
<1> QED
  BY <1>1, <1>2, TypesHold, LockStep, PTL DEF Spec
=============================================================================
