------------------------------- MODULE WebClient -------------------------------
(***************************************************************************)
(* The session of a browser: frontend/src/api/client.ts, auth/             *)
(* tokenStore.ts, AuthProvider.tsx and ProtectedRoute.tsx, in several tabs *)
(* that share one localStorage.                                            *)
(*                                                                         *)
(* Scripts of a tab run to their next await, so that an action is what a   *)
(* tab does between two answers, the continuations of a settled promise    *)
(* included.  A request is sent, then served, then its answer is handled:  *)
(* anything may happen in between, and at each point the answer may be     *)
(* lost.  The server is reduced to what AuthService promises: a refresh    *)
(* token is used once.                                                     *)
(*                                                                         *)
(* Left out: what a page does with its data, the cache of queries and its  *)
(* retries, the double mount of StrictMode in development.                 *)
(***************************************************************************)
EXTENDS Integers, Sequences

CONSTANTS
    Tabs,
    Calls,    \* bound, of each tab: the calls its page may have under way at a time,
              \* besides the one it loads with; "password" changes the password
    Signing,  \* bound: the tabs somebody signs in and out in
    Users,
    MaxPairs, \* bound: pairs of tokens ever issued
    None

ASSUME CallsAssumption == \A t \in Tabs : "me" \notin Calls[t]
ASSUME BoundAssumption == MaxPairs \in Nat
ASSUME NoneAssumption == None \notin Nat \union Users

VARIABLES
    store,      \* the pair in localStorage, or None
    pair,       \* the pairs in the order of their issue: whose each is, and whether its
                \* refresh token is still good
    user,       \* AuthProvider's user of each tab, or None
    loading,    \* isLoading of each tab
    refresh,    \* refreshPromise of each tab
    call,       \* calls of apiRequest in each tab, "me" among them
    form,       \* the sign-in or sign-out under way in each tab
    disturbed   \* tabs that something has interfered with (history)

vars == <<store, pair, user, loading, refresh, call, form, disturbed>>

Slots(t) == Calls[t] \union {"me"}
Idle == [at |-> "idle"]

Init ==
    /\ store = None
    /\ pair = <<>>
    /\ user = [t \in Tabs |-> None]
    /\ loading = [t \in Tabs |-> FALSE]
    /\ refresh = [t \in Tabs |-> Idle]
    /\ call = [t \in Tabs |-> [c \in Slots(t) |-> Idle]]
    /\ form = [t \in Tabs |-> Idle]
    /\ disturbed = {}

-----------------------------------------------------------------------------
(* Tokens *)

Pairs == DOMAIN pair
NextPair == Len(pair) + 1
Issue(pairs, u) == Append(pairs, [owner |-> u, state |-> "live"])
Live(p) == p # None /\ pair[p].state = "live"

\* setTokens and clearTokens, by tab t: the store is everybody's.
Store(t, p) ==
    /\ store' = p
    /\ disturbed' = IF p = store THEN disturbed ELSE disturbed \union (Tabs \ {t})

\* A pair is given up by the server: seven days, a changed password, a
\* company that was deactivated.
EndSession(p) ==
    /\ Live(p)
    /\ pair' = [pair EXCEPT ![p].state = "ended"]
    /\ UNCHANGED <<store, user, loading, refresh, call, form, disturbed>>

-----------------------------------------------------------------------------
(* apiRequest *)

\* The calls whose answer matters beyond its being a 401 or not; of these a
\* request carries whose access token it is.
Followed == {"me", "password"}

Sent(c, p, retry) ==
    [at |-> "sent", as |-> IF c \in Followed /\ p # None THEN pair[p].owner ELSE None, retry |-> retry]

\* A signed-in page asks for what it shows, or one of its forms is sent.
Ask(t, c) ==
    /\ ~ loading[t]
    /\ user[t] # None
    /\ call[t][c] = Idle
    /\ call' = [call EXCEPT ![t][c] = Sent(c, store, TRUE)]
    /\ UNCHANGED <<store, pair, user, loading, refresh, form, disturbed>>

Answer(t, c, status) == call' = [call EXCEPT ![t][c].at = status]

\* No token, one that has expired after fifteen minutes, an account that
\* authenticate() no longer admits; or the current password is wrong.
Refuse(t, c) ==
    /\ call[t][c].at = "sent"
    /\ Answer(t, c, "401")
    /\ UNCHANGED <<store, pair, user, loading, refresh, form, disturbed>>

\* A changed password revokes every refresh token of the account.
Serve(t, c) ==
    /\ c \in Followed
    /\ call[t][c].at = "sent"
    /\ call[t][c].as # None
    /\ Answer(t, c, "ok")
    /\ pair' = [p \in Pairs |->
                  IF c = "password" /\ Live(p) /\ pair[p].owner = call[t][c].as
                  THEN [pair[p] EXCEPT !.state = "ended"] ELSE pair[p]]
    /\ UNCHANGED <<store, user, loading, refresh, form, disturbed>>

\* Any other error, of the server or of fetch(), the request served or not.
Fail(t, c) ==
    /\ c \in Followed
    /\ call[t][c].at \in {"sent", "ok"}
    /\ Answer(t, c, "failed")
    /\ UNCHANGED <<store, pair, user, loading, refresh, form, disturbed>>

\* Any answer but a 401, and no answer at all, end the other calls.
End(t, c) ==
    /\ c \notin Followed
    /\ call[t][c].at = "sent"
    /\ call' = [call EXCEPT ![t][c] = Idle]
    /\ UNCHANGED <<store, pair, user, loading, refresh, form, disturbed>>

\* What the callers of a tab's calls do when those have failed, all at once:
\* apiRequest has cleared the tokens before it throws, or refreshUser does.
CallsFail(t, slots) ==
    /\ Store(t, None)
    /\ call' = [call EXCEPT ![t] = [c \in Slots(t) |-> IF c \in slots THEN Idle ELSE @[c]]]
    /\ user' = IF "me" \in slots THEN [user EXCEPT ![t] = None] ELSE user
    /\ loading' = IF "me" \in slots THEN [loading EXCEPT ![t] = FALSE] ELSE loading

\* Variant: every call that is refused refreshes the tokens itself.
JoinsRefreshNever(t) == FALSE

\* refreshPromise is there already: one refresh serves every call of the page.
JoinsRefresh(t) == refresh[t] # Idle

\* Variant: the repeated request may be repeated again.
MayRetryAlways(k) == TRUE

MayRetry(k) == k.retry

\* 401: refreshTokens(), which needs a stored token even to wait for the
\* refresh that another call has begun.
HandleRefused(t, c) ==
    /\ call[t][c].at = "401"
    /\ MayRetry(call[t][c])
    /\ IF store = None
       THEN CallsFail(t, {c}) /\ UNCHANGED refresh
       ELSE /\ call' = [call EXCEPT ![t][c].at = "wait"]
            /\ IF JoinsRefresh(t) THEN UNCHANGED refresh
               ELSE refresh' = [refresh EXCEPT ![t] = [at |-> "sent", pair |-> store]]
            /\ UNCHANGED <<store, user, loading, disturbed>>
    /\ UNCHANGED <<pair, form>>

\* Every other answer ends the call.
HandleAnswer(t, c) ==
    /\ call[t][c].at \in {"ok", "failed", "401"}
    /\ call[t][c].at = "401" => ~ MayRetry(call[t][c])
    /\ IF c = "me" /\ call[t][c].at # "ok" THEN CallsFail(t, {c})
       ELSE /\ call' = [call EXCEPT ![t][c] = Idle]
            /\ IF c = "me"
               THEN /\ user' = [user EXCEPT ![t] = call[t][c].as]
                    /\ loading' = [loading EXCEPT ![t] = FALSE]
               ELSE UNCHANGED <<user, loading>>
            /\ UNCHANGED <<store, disturbed>>
    \* ProfilePage signs out once the password is changed.
    /\ IF c = "password" /\ call[t][c].at = "ok" /\ form[t] = Idle
       THEN form' = [form EXCEPT ![t] = [at |-> "signingOut", pair |-> store]]
       ELSE UNCHANGED form
    /\ UNCHANGED <<pair, refresh>>

-----------------------------------------------------------------------------
(* refreshTokens *)

\* POST /auth/refresh-token: the token is exchanged for a new pair, once.
ServeRefresh(t) ==
    /\ refresh[t].at = "sent"
    /\ LET p == refresh[t].pair
       IN  IF Live(p)
           THEN /\ Len(pair) < MaxPairs
                /\ pair' = Issue([pair EXCEPT ![p].state = "used"], pair[p].owner)
                /\ refresh' = [refresh EXCEPT ![t] = [at |-> "done", pair |-> p, got |-> NextPair]]
           ELSE /\ refresh' = [refresh EXCEPT ![t] = [at |-> "refused", pair |-> p]]
                /\ UNCHANGED pair
    /\ UNCHANGED <<store, user, loading, call, form, disturbed>>

\* The exchange took place, and nobody will know the new pair.
Forgotten(t) ==
    IF refresh[t].at = "done" THEN [pair EXCEPT ![refresh[t].pair].state = "forgotten"] ELSE pair

LoseRefresh(t) ==
    /\ refresh[t].at \in {"sent", "done"}
    /\ refresh' = [refresh EXCEPT ![t] = [at |-> "lost", pair |-> refresh[t].pair]]
    /\ pair' = Forgotten(t)
    /\ UNCHANGED <<store, user, loading, call, form, disturbed>>

Waiting(t) == {c \in Slots(t) : call[t][c].at = "wait"}

Resent(t) ==
    [c \in Slots(t) |-> IF c \in Waiting(t) THEN Sent(c, refresh[t].got, FALSE) ELSE call[t][c]]

\* Variant: the calls that wait are only told of a refresh that has succeeded.
SettleRefreshSilently(t) ==
    /\ refresh[t].at \in {"done", "refused", "lost"}
    /\ refresh' = [refresh EXCEPT ![t] = Idle]
    /\ IF refresh[t].at = "done"
       THEN Store(t, refresh[t].got) /\ call' = [call EXCEPT ![t] = Resent(t)]
       ELSE Store(t, None) /\ UNCHANGED call
    /\ UNCHANGED <<pair, form, user, loading>>

\* The promise settles: the new pair is stored, and every call that waits is
\* sent again with it; or the tokens are cleared, and every call fails.
SettleRefresh(t) ==
    /\ refresh[t].at \in {"done", "refused", "lost"}
    /\ refresh' = [refresh EXCEPT ![t] = Idle]
    /\ IF refresh[t].at = "done"
       THEN /\ Store(t, refresh[t].got)
            /\ call' = [call EXCEPT ![t] = Resent(t)]
            /\ UNCHANGED <<user, loading>>
       ELSE CallsFail(t, Waiting(t))
    /\ UNCHANGED <<pair, form>>

-----------------------------------------------------------------------------
(* AuthProvider and the routes *)

\* Variant: a page under PublicOnlyRoute does not wait for the session to load.
MaySignInAtOnce(t) == user[t] = None

\* PublicOnlyRoute shows the sign-in page when there is no session, and knows it.
MaySignIn(t) == ~ loading[t] /\ user[t] = None

SubmitSignIn(t) ==
    /\ MaySignIn(t)
    /\ form[t] = Idle
    /\ Len(pair) < MaxPairs
    /\ form' = [form EXCEPT ![t] = [at |-> "signingIn"]]
    /\ UNCHANGED <<store, pair, user, loading, refresh, call, disturbed>>

ServeSignIn(t, u) ==
    /\ form[t].at = "signingIn"
    /\ Len(pair) < MaxPairs
    /\ pair' = Issue(pair, u)
    /\ form' = [form EXCEPT ![t] = [at |-> "signedIn", got |-> NextPair]]
    /\ UNCHANGED <<store, user, loading, refresh, call, disturbed>>

\* Wrong password, unverified, locked, rate limited, or no answer at all.
FailSignIn(t) ==
    /\ form[t].at \in {"signingIn", "signedIn"}
    /\ form' = [form EXCEPT ![t] = Idle]
    /\ UNCHANGED <<store, pair, user, loading, refresh, call, disturbed>>

\* A refresh that outlives a change of session will overwrite the new one.
Overtaken(t) == IF refresh[t] = Idle THEN {} ELSE {t}

FinishSignIn(t) ==
    /\ form[t].at = "signedIn"
    /\ store' = form[t].got
    /\ disturbed' = disturbed \union (Tabs \ {t}) \union Overtaken(t)
    /\ user' = [user EXCEPT ![t] = pair[form[t].got].owner]
    /\ form' = [form EXCEPT ![t] = Idle]
    /\ UNCHANGED <<pair, loading, refresh, call>>

SubmitSignOut(t) ==
    /\ ~ loading[t]
    /\ user[t] # None
    /\ form[t] = Idle
    /\ form' = [form EXCEPT ![t] = [at |-> "signingOut", pair |-> store]]
    /\ UNCHANGED <<store, pair, user, loading, refresh, call, disturbed>>

ServeSignOut(t) ==
    /\ form[t].at = "signingOut"
    /\ form' = [form EXCEPT ![t].at = "signedOut"]
    /\ pair' = IF Live(form[t].pair) THEN [pair EXCEPT ![form[t].pair].state = "ended"] ELSE pair
    /\ UNCHANGED <<store, user, loading, refresh, call, disturbed>>

\* The tokens go whether or not the request was answered.
FinishSignOut(t) ==
    /\ form[t].at \in {"signingOut", "signedOut"}
    /\ store' = None
    /\ disturbed' = disturbed \union (IF store = None THEN {} ELSE Tabs \ {t}) \union Overtaken(t)
    /\ user' = [user EXCEPT ![t] = None]
    /\ form' = [form EXCEPT ![t] = Idle]
    /\ UNCHANGED <<pair, loading, refresh, call>>

\* The tab is opened or reloaded: what was under way is forgotten here, and
\* may have reached the server.  refreshUser asks who the stored tokens are.
LoadPage(t) ==
    /\ user' = [user EXCEPT ![t] = None]
    /\ loading' = [loading EXCEPT ![t] = store # None]
    /\ call' = [call EXCEPT ![t] = [c \in Slots(t) |->
                    IF c = "me" /\ store # None THEN Sent(c, store, TRUE) ELSE Idle]]
    /\ refresh' = [refresh EXCEPT ![t] = Idle]
    /\ form' = [form EXCEPT ![t] = Idle]
    /\ pair' = Forgotten(t)
    /\ disturbed' = disturbed \ {t}
    /\ UNCHANGED store

-----------------------------------------------------------------------------
TabStep(t) ==
    \/ \E c \in Slots(t) : HandleRefused(t, c) \/ HandleAnswer(t, c)
    \/ SettleRefresh(t)
    \/ FinishSignIn(t) \/ FinishSignOut(t)

ServerStep(t) ==
    \/ \E c \in Slots(t) : Refuse(t, c) \/ Serve(t, c) \/ Fail(t, c) \/ End(t, c)
    \/ ServeRefresh(t) \/ LoseRefresh(t)
    \/ (\E u \in Users : ServeSignIn(t, u)) \/ FailSignIn(t) \/ ServeSignOut(t)

Next ==
    \/ \E p \in Pairs : EndSession(p)
    \/ \E t \in Tabs :
         \/ TabStep(t) \/ ServerStep(t)
         \/ \E c \in Calls[t] : Ask(t, c)
         \/ t \in Signing /\ SubmitSignIn(t)
         \/ t \in Signing /\ SubmitSignOut(t)
         \/ LoadPage(t)

\* Every request of a page is answered or fails, and every answer is handled.
Fairness ==
    \A t \in Tabs :
      /\ WF_vars(SettleRefresh(t))
      /\ WF_vars(ServeRefresh(t) \/ LoseRefresh(t))
      /\ \A c \in Calls[t] : /\ WF_vars(HandleRefused(t, c) \/ HandleAnswer(t, c))
                             /\ WF_vars(Refuse(t, c) \/ Serve(t, c) \/ Fail(t, c) \/ End(t, c))

Spec == Init /\ [][Next]_vars /\ Fairness

-----------------------------------------------------------------------------
(* Properties *)

\* Every variable has its type, and a call that waits has a refresh to wait for.
TypeOK ==
    /\ store \in Pairs \union {None}
    /\ Len(pair) <= MaxPairs
    /\ \A p \in Pairs : pair[p] \in [owner : Users, state : {"live", "used", "forgotten", "ended"}]
    /\ user \in [Tabs -> Users \union {None}]
    /\ loading \in [Tabs -> BOOLEAN]
    /\ disturbed \subseteq Tabs
    /\ \A t \in Tabs :
         /\ refresh[t].at \in {"idle", "sent", "done", "refused", "lost"}
         /\ form[t].at \in {"idle", "signingIn", "signedIn", "signingOut", "signedOut"}
         /\ \A c \in Slots(t) : call[t][c].at \in {"idle", "sent", "ok", "401", "failed", "wait"}
         /\ Waiting(t) # {} => refresh[t] # Idle

\* However many calls of a page are refused at once or one after the other,
\* the page does not race with itself: when the server does not know a refresh
\* token any more that the page presents because it was exchanged before, it
\* was another tab that had it exchanged, or an answer that went lost.
NoSelfRace ==
    \A t \in Tabs :
      refresh[t].at = "refused" /\ pair[refresh[t].pair].state = "used"
        => \/ t \in disturbed
           \/ \E o \in Tabs \ {t} : refresh[o] # Idle /\ refresh[o].pair = refresh[t].pair

\* A page shows the account its requests are made for, unless another tab has
\* changed the stored tokens or a refresh has outlived the session it was for.
\* Signing in waits for that: an answer to GET /auth/me that is still under
\* way would replace the user, or clear the new tokens.
PageShowsItsSession ==
    \A t \in Tabs : user[t] # None /\ store # None /\ t \notin disturbed => pair[store].owner = user[t]

\* Every call ends, those that wait for a refresh of somebody else included,
\* whatever becomes of it, and however often the route answers 401.
CallsEnd == \A t \in Tabs : \A c \in Calls[t] : call[t][c] # Idle ~> call[t][c] = Idle

=============================================================================
