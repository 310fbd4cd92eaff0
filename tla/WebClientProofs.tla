--------------------------- MODULE WebClientProofs ---------------------------
(***************************************************************************)
(* Theorems of the session of a browser.                                   *)
(*                                                                         *)
(* Tables says what every variable holds; every step of one tab is shown   *)
(* to leave the other tabs as they are, and to disturb them when it        *)
(* changes the stored tokens (Effect).  On it rest two invariants:         *)
(* ExchangeInv, of the refresh tokens that have been exchanged, over all   *)
(* tabs and all pairs, and SessionInv, tab by tab, of the account that a   *)
(* page shows and the one its requests are made for.                       *)
(***************************************************************************)
EXTENDS WebClient, SequenceTheorems, TLAPS

-----------------------------------------------------------------------------
(* What the tables hold *)

PairRecord == [owner : Users, state : {"live", "used", "forgotten", "ended"}]
CallRecord == [at : {"sent", "ok", "401", "failed", "wait"}, as : Users \union {None}, retry : BOOLEAN]

\* What a tab's refresh, its form and its calls may be, n pairs having been issued.
Refreshes(n) ==
    {Idle} \union [at : {"sent", "refused", "lost"}, pair : 1..n]
           \union [at : {"done"}, pair : 1..n, got : 1..n]
Forms(n) ==
    {Idle, [at |-> "signingIn"]} \union [at : {"signedIn"}, got : 1..n]
    \union [at : {"signingOut", "signedOut"}, pair : (1..n) \union {None}]
CallsOf(t) == [Slots(t) -> {Idle} \union CallRecord]

Tables ==
    /\ pair \in Seq(PairRecord)
    /\ Len(pair) <= MaxPairs
    /\ store \in Pairs \union {None}
    /\ user \in [Tabs -> Users \union {None}]
    /\ loading \in [Tabs -> BOOLEAN]
    /\ disturbed \subseteq Tabs
    /\ refresh \in [Tabs -> Refreshes(Len(pair))]
    /\ form \in [Tabs -> Forms(Len(pair))]
    /\ call = [t \in Tabs |-> call[t]]
    /\ \A t \in Tabs : call[t] \in CallsOf(t)

-----------------------------------------------------------------------------
(* The pairs *)

\* Pairs are numbered in the order of their issue.
LEMMA PairNumbers ==
    ASSUME NEW s \in Seq(PairRecord)
    PROVE  /\ Len(s) \in Nat /\ DOMAIN s = 1..Len(s)
           /\ \A p \in 1..Len(s) : s[p] \in PairRecord
  OBVIOUS

\* What becomes of the pairs in a step: none is taken back or given to
\* somebody else, and a number of them change their state.
Later(s, n) ==
    /\ n \in Seq(PairRecord)
    /\ Len(n) \in {Len(s), Len(s) + 1}
    /\ \A p \in DOMAIN s : p \in DOMAIN n /\ n[p].owner = s[p].owner

\* A step that leaves the pairs alone.
LEMMA LaterItself == ASSUME NEW s \in Seq(PairRecord) PROVE Later(s, s)
  BY DEF Later

Mark(s, p, st) == [s EXCEPT ![p].state = st]

\* One pair changes its state.
LEMMA MarkPair ==
    ASSUME NEW s \in Seq(PairRecord), NEW p \in DOMAIN s,
           NEW st \in {"live", "used", "forgotten", "ended"},
           NEW n, n = Mark(s, p, st)
    PROVE  /\ Later(s, n) /\ Len(n) = Len(s) /\ DOMAIN n = DOMAIN s
           /\ n[p].state = st
           /\ \A q \in DOMAIN s \ {p} : n[q] = s[q]
  <1>1. s[p] \in PairRecord
    OBVIOUS
  <1>2. [s[p] EXCEPT !.state = st] \in PairRecord
    BY <1>1 DEF PairRecord
  <1>3. n = [s EXCEPT ![p] = [s[p] EXCEPT !.state = st]]
    BY DEF Mark
  <1>4. n \in Seq(PairRecord) /\ Len(n) = Len(s)
    BY <1>2, <1>3, ExceptSeq
  <1>5. DOMAIN n = DOMAIN s /\ n[p] = [s[p] EXCEPT !.state = st] /\ \A q \in DOMAIN s \ {p} : n[q] = s[q]
    BY <1>3
  <1>6. n[p].owner = s[p].owner /\ n[p].state = st
    BY <1>1, <1>5 DEF PairRecord
  <1>7. QED
    BY <1>4, <1>5, <1>6 DEF Later

\* Several at once, as a changed password does.
Marked(s, P, st) == [p \in DOMAIN s |-> IF p \in P THEN [s[p] EXCEPT !.state = st] ELSE s[p]]

\* Several pairs change their state.
LEMMA MarkPairs ==
    ASSUME NEW s \in Seq(PairRecord), NEW P, NEW st \in {"live", "used", "forgotten", "ended"},
           NEW n, n = Marked(s, P, st)
    PROVE  /\ Later(s, n) /\ Len(n) = Len(s) /\ DOMAIN n = DOMAIN s
           /\ \A p \in DOMAIN s : n[p].state = IF p \in P THEN st ELSE s[p].state
  <1>1. ASSUME NEW p \in DOMAIN s
        PROVE  n[p] \in PairRecord /\ n[p].owner = s[p].owner
               /\ n[p].state = IF p \in P THEN st ELSE s[p].state
    <2>1. s[p] \in PairRecord
      OBVIOUS
    <2>2. QED
      BY <2>1 DEF PairRecord, Marked
  <1>2. DOMAIN s = 1..Len(s) /\ Len(s) \in Nat /\ DOMAIN n = DOMAIN s
    BY DEF Marked
  <1>3. n \in [1..Len(s) -> PairRecord]
    BY <1>1, <1>2 DEF Marked
  <1>4. n \in Seq(PairRecord)
    BY <1>2, <1>3
  <1>5. Len(n) = Len(s)
    BY <1>2, <1>4
  <1>6. QED
    BY <1>1, <1>2, <1>4, <1>5 DEF Later

\* A new pair.
LEMMA IssuePair ==
    ASSUME NEW s \in Seq(PairRecord), NEW u \in Users, NEW n, n = Issue(s, u)
    PROVE  /\ Later(s, n) /\ Len(n) = Len(s) + 1
           /\ n[Len(s) + 1].owner = u /\ n[Len(s) + 1].state = "live"
           /\ \A q \in DOMAIN s : n[q] = s[q]
  <1>1. [owner |-> u, state |-> "live"] \in PairRecord
    BY DEF PairRecord
  <1>2. n = Append(s, [owner |-> u, state |-> "live"])
    BY DEF Issue
  <1>3. QED
    BY <1>1, <1>2, AppendProperties DEF Later

\* Two changes of a step, one after the other.
LEMMA LaterTrans ==
    ASSUME NEW s \in Seq(PairRecord), NEW m, NEW n, Later(s, m), Len(m) = Len(s), Later(m, n)
    PROVE  Later(s, n)
  BY DEF Later

-----------------------------------------------------------------------------
(* A step of one tab *)

\* What a step of t, or of the server for t, may do: other tabs stay as they
\* are, and are disturbed when the stored tokens change.
Effect(t) ==
    /\ Later(pair, pair') /\ Len(pair') <= MaxPairs
    /\ store' \in (1..Len(pair')) \union {None}
    /\ store' = store \/ Tabs \ {t} \subseteq disturbed'
    /\ disturbed' \subseteq Tabs /\ disturbed \ {t} \subseteq disturbed'
    /\ user' = [user EXCEPT ![t] = user'[t]] /\ user'[t] \in Users \union {None}
    /\ loading' = [loading EXCEPT ![t] = loading'[t]] /\ loading'[t] \in BOOLEAN
    /\ refresh' = [refresh EXCEPT ![t] = refresh'[t]] /\ refresh'[t] \in Refreshes(Len(pair'))
    /\ form' = [form EXCEPT ![t] = form'[t]] /\ form'[t] \in Forms(Len(pair'))
    /\ call' = [call EXCEPT ![t] = call'[t]] /\ call'[t] \in CallsOf(t)

\* As a step issues one pair at most, what names a pair still does.
LEMMA Monotone ==
    ASSUME NEW s \in Seq(PairRecord), NEW n, Later(s, n)
    PROVE  /\ 1..Len(s) \subseteq 1..Len(n)
           /\ Refreshes(Len(s)) \subseteq Refreshes(Len(n))
           /\ Forms(Len(s)) \subseteq Forms(Len(n))
  <1>1. 1..Len(s) \subseteq 1..Len(n)
    BY DEF Later
  <1>2. QED
    BY <1>1 DEF Refreshes, Forms

\* A step of one tab keeps the tables.
LEMMA EffectTables == ASSUME Tables, NEW t \in Tabs, Effect(t) PROVE Tables'
  <1>1. /\ Refreshes(Len(pair)) \subseteq Refreshes(Len(pair'))
        /\ Forms(Len(pair)) \subseteq Forms(Len(pair'))
    BY Monotone DEF Tables, Effect
  <1>2. pair' \in Seq(PairRecord) /\ Pairs' = 1..Len(pair')
    BY DEF Effect, Later, Pairs
  <1>3. user' \in [Tabs -> Users \union {None}] /\ loading' \in [Tabs -> BOOLEAN]
    BY DEF Tables, Effect
  <1>4. refresh' \in [Tabs -> Refreshes(Len(pair'))]
    BY <1>1 DEF Tables, Effect
  <1>5. form' \in [Tabs -> Forms(Len(pair'))]
    BY <1>1 DEF Tables, Effect
  <1>6. call' = [o \in Tabs |-> call'[o]] /\ \A o \in Tabs : call'[o] \in CallsOf(o)
    BY DEF Tables, Effect
  <1>7. QED
    BY <1>2, <1>3, <1>4, <1>5, <1>6 DEF Tables, Effect

\* The tables of a browser that was never used.
LEMMA InitTables == Init => Tables
  <1> SUFFICES ASSUME Init PROVE Tables
    OBVIOUS
  <1>1. pair \in Seq(PairRecord) /\ Len(pair) = 0
    BY DEF Init
  <1>2. \A t \in Tabs : call[t] \in CallsOf(t)
    BY DEF Init, CallsOf
  <1>3. QED
    BY <1>1, <1>2, BoundAssumption DEF Init, Tables, Refreshes, Forms

-----------------------------------------------------------------------------
(* Each action is a step of its tab *)

\* What the tables hold of one tab.
LEMMA TabTypes ==
    ASSUME Tables, NEW t \in Tabs
    PROVE  /\ user[t] \in Users \union {None} /\ loading[t] \in BOOLEAN
           /\ refresh[t] \in Refreshes(Len(pair)) /\ form[t] \in Forms(Len(pair))
           /\ call[t] \in CallsOf(t)
           /\ Pairs = 1..Len(pair) /\ Len(pair) \in Nat
           /\ \A p \in Pairs : pair[p] \in PairRecord
           /\ Later(pair, pair)
  BY DEF Tables, Pairs, Later

\* What a request carries is the owner of a pair, or nobody.
LEMMA SentTypes ==
    ASSUME Tables, NEW c, NEW p \in Pairs \union {None}, NEW r \in BOOLEAN
    PROVE  /\ Sent(c, p, r) \in CallRecord
           /\ Sent(c, p, r).at = "sent" /\ Sent(c, p, r).retry = r
           /\ c \in Followed /\ p # None => Sent(c, p, r).as = pair[p].owner
  <1>1. p # None => pair[p].owner \in Users
    <2>1. p # None => pair[p] \in PairRecord
      BY PairNumbers DEF Tables, Pairs
    <2>2. QED
      BY <2>1 DEF PairRecord
  <1>2. QED
    BY <1>1 DEF Sent, CallRecord

\* Records that are there are not Idle.
LEMMA IdleShape ==
    /\ \A k \in CallRecord : k # Idle /\ k.at # "idle"
    /\ \A n : \A r \in Refreshes(n) : r # Idle <=> r.at \in {"sent", "refused", "lost", "done"}
    /\ Idle.at = "idle"
  BY DEF CallRecord, Idle, Refreshes

\* Steps that change one call.
LEMMA CallEffect ==
    ASSUME Tables, NEW t \in Tabs, NEW c \in Slots(t), NEW k \in {Idle} \union CallRecord,
           call' = [call EXCEPT ![t][c] = k],
           UNCHANGED <<store, user, loading, refresh, form, disturbed>>,
           Later(pair, pair'), Len(pair') <= MaxPairs
    PROVE  Effect(t)
  <1>1. call' = [call EXCEPT ![t] = call'[t]] /\ call'[t] = [call[t] EXCEPT ![c] = k]
    BY DEF Tables
  <1>2. call'[t] \in CallsOf(t)
    BY <1>1 DEF Tables, CallsOf
  <1>3. refresh[t] \in Refreshes(Len(pair')) /\ form[t] \in Forms(Len(pair'))
    BY Monotone, TabTypes DEF Tables
  <1>4. store' \in (1..Len(pair')) \union {None}
    <2>1. store' \in (1..Len(pair)) \union {None} /\ 1..Len(pair) \subseteq 1..Len(pair')
      BY TabTypes, Monotone DEF Tables
    <2>2. QED
      BY <2>1
  <1>5. QED
    BY <1>1, <1>2, <1>3, <1>4, TabTypes DEF Effect, Tables

\* A page asks.
LEMMA AskEffect == ASSUME Tables, NEW t \in Tabs, NEW c \in Slots(t), Ask(t, c) PROVE Effect(t)
  <1>1. Sent(c, store, TRUE) \in CallRecord
    BY SentTypes DEF Tables
  <1>2. QED
    BY <1>1, CallEffect, TabTypes DEF Ask, Tables

\* A call changes its status.
LEMMA AnswerType ==
    ASSUME Tables, NEW t \in Tabs, NEW c \in Slots(t), call[t][c].at # "idle",
           NEW st \in {"sent", "ok", "401", "failed", "wait"}
    PROVE  /\ call[t][c] \in CallRecord
           /\ [call[t][c] EXCEPT !.at = st] \in CallRecord
           /\ [call EXCEPT ![t][c].at = st] = [call EXCEPT ![t][c] = [call[t][c] EXCEPT !.at = st]]
  <1>1. call[t][c] \in CallRecord
    BY TabTypes, IdleShape DEF CallsOf
  <1>2. [call[t][c] EXCEPT !.at = st] \in CallRecord
    BY <1>1 DEF CallRecord
  <1>3. QED
    BY <1>1, <1>2

\* The answers of the server, and those that go lost.
LEMMA RequestEffect ==
    ASSUME Tables, NEW t \in Tabs, NEW c \in Slots(t),
           Refuse(t, c) \/ Fail(t, c) \/ End(t, c) \/ Serve(t, c)
    PROVE  Effect(t)
  <1>1. call[t][c].at # "idle"
    BY DEF Refuse, Fail, End, Serve
  <1>2. ASSUME NEW st \in {"ok", "401", "failed"}, Answer(t, c, st),
               UNCHANGED <<store, user, loading, refresh, form, disturbed>>,
               Later(pair, pair'), Len(pair') <= MaxPairs
        PROVE  Effect(t)
    <2>1. /\ [call[t][c] EXCEPT !.at = st] \in CallRecord
          /\ call' = [call EXCEPT ![t][c] = [call[t][c] EXCEPT !.at = st]]
      BY <1>1, <1>2, AnswerType DEF Answer
    <2>2. QED
      BY <1>2, <2>1, CallEffect
  <1>3. pair' = pair => Later(pair, pair') /\ Len(pair') <= MaxPairs
    BY TabTypes DEF Tables
  <1>4. CASE Refuse(t, c) \/ Fail(t, c)
    BY <1>2, <1>3, <1>4 DEF Refuse, Fail
  <1>5. CASE End(t, c)
    <2>1. call' = [call EXCEPT ![t][c] = Idle]
      BY <1>5 DEF End
    <2>2. QED
      BY <1>3, <1>5, <2>1, CallEffect DEF End
  <1>6. CASE Serve(t, c)
    <2> DEFINE P == {p \in Pairs : c = "password" /\ Live(p) /\ pair[p].owner = call[t][c].as}
    <2>1. pair' = Marked(pair, P, "ended")
      BY <1>6 DEF Serve, Pairs, Marked
    <2> HIDE DEF P
    <2>2. Later(pair, pair') /\ Len(pair') = Len(pair)
      BY <2>1, MarkPairs DEF Tables
    <2>3. Len(pair') <= MaxPairs
      BY <2>2 DEF Tables
    <2>4. QED
      BY <1>2, <1>6, <2>2, <2>3 DEF Serve
  <1>7. QED
    BY <1>4, <1>5, <1>6

\* setTokens and clearTokens disturb the other tabs.
LEMMA StoreEffect ==
    ASSUME Tables, NEW t \in Tabs, NEW p, Store(t, p)
    PROVE  /\ store' = p /\ (store' = store \/ Tabs \ {t} \subseteq disturbed')
           /\ disturbed' \subseteq Tabs /\ disturbed \subseteq disturbed'
  BY DEF Store, Tables

\* Steps without a new pair leave the numbers of the pairs alone.
LEMMA FailEffect ==
    ASSUME Tables, NEW t \in Tabs, NEW slots \in SUBSET Slots(t), CallsFail(t, slots),
           refresh' = [refresh EXCEPT ![t] = refresh'[t]], refresh'[t] \in Refreshes(Len(pair)),
           form' = [form EXCEPT ![t] = form'[t]], form'[t] \in Forms(Len(pair)),
           pair' = pair
    PROVE  /\ Effect(t)
           /\ store' = None /\ disturbed \subseteq disturbed'
           /\ \A c \in Slots(t) : call'[t][c] = IF c \in slots THEN Idle ELSE call[t][c]
           /\ "me" \in slots => user'[t] = None /\ loading'[t] = FALSE
           /\ "me" \notin slots => user'[t] = user[t] /\ loading'[t] = loading[t]
  <1>1. /\ store' = None /\ (store' = store \/ Tabs \ {t} \subseteq disturbed')
        /\ disturbed' \subseteq Tabs /\ disturbed \subseteq disturbed'
    BY StoreEffect DEF CallsFail
  <1>2. /\ call' = [call EXCEPT ![t] = call'[t]]
        /\ call'[t] = [c \in Slots(t) |-> IF c \in slots THEN Idle ELSE call[t][c]]
    BY DEF CallsFail, Tables
  <1>3. call'[t] \in CallsOf(t)
    BY <1>2, TabTypes DEF CallsOf
  <1>4. /\ user' = [user EXCEPT ![t] = user'[t]] /\ user'[t] \in Users \union {None}
        /\ loading' = [loading EXCEPT ![t] = loading'[t]] /\ loading'[t] \in BOOLEAN
        /\ "me" \in slots => user'[t] = None /\ loading'[t] = FALSE
        /\ "me" \notin slots => user'[t] = user[t] /\ loading'[t] = loading[t]
    BY DEF CallsFail, Tables
  <1>5. Later(pair, pair') /\ Len(pair') = Len(pair) /\ Len(pair') <= MaxPairs
    BY TabTypes DEF Tables
  <1>6. QED
    BY <1>1, <1>2, <1>3, <1>4, <1>5 DEF Effect

\* A table in which one row is written, or none.
LEMMA OneWritten ==
    ASSUME NEW T, NEW S, NEW f \in [T -> S], NEW R, S \subseteq R, NEW t \in T, NEW g,
           g = f \/ \E x \in R : g = [f EXCEPT ![t] = x]
    PROVE  g = [f EXCEPT ![t] = g[t]] /\ g[t] \in R
  <1>1. CASE g = f
    BY <1>1
  <1>2. CASE \E x \in R : g = [f EXCEPT ![t] = x]
    BY <1>2
  <1>3. QED
    BY <1>1, <1>2

\* What a step leaves alone is of its type.
LEMMA SameTypes ==
    ASSUME Tables, NEW t \in Tabs, Later(pair, pair')
    PROVE  /\ refresh' = refresh => /\ refresh' = [refresh EXCEPT ![t] = refresh'[t]]
                                    /\ refresh'[t] \in Refreshes(Len(pair'))
           /\ form' = form => /\ form' = [form EXCEPT ![t] = form'[t]]
                              /\ form'[t] \in Forms(Len(pair'))
           /\ call' = call => call' = [call EXCEPT ![t] = call'[t]] /\ call'[t] \in CallsOf(t)
           /\ user' = user => user' = [user EXCEPT ![t] = user'[t]] /\ user'[t] \in Users \union {None}
           /\ loading' = loading => loading' = [loading EXCEPT ![t] = loading'[t]] /\ loading'[t] \in BOOLEAN
  <1>1. refresh[t] \in Refreshes(Len(pair')) /\ form[t] \in Forms(Len(pair'))
    BY TabTypes, Monotone DEF Tables
  <1>2. /\ user[t] \in Users \union {None} /\ loading[t] \in BOOLEAN /\ call[t] \in CallsOf(t)
    BY TabTypes
  <1>3. /\ refresh = [refresh EXCEPT ![t] = refresh[t]] /\ form = [form EXCEPT ![t] = form[t]]
        /\ user = [user EXCEPT ![t] = user[t]] /\ loading = [loading EXCEPT ![t] = loading[t]]
    BY DEF Tables
  <1>4. call = [call EXCEPT ![t] = call[t]]
    BY DEF Tables
  <1>5. refresh' = refresh => refresh' = [refresh EXCEPT ![t] = refresh'[t]] /\ refresh'[t] \in Refreshes(Len(pair'))
    BY <1>1, <1>3
  <1>6. form' = form => form' = [form EXCEPT ![t] = form'[t]] /\ form'[t] \in Forms(Len(pair'))
    BY <1>1, <1>3
  <1>7. call' = call => call' = [call EXCEPT ![t] = call'[t]] /\ call'[t] \in CallsOf(t)
    BY <1>2, <1>4
  <1>8. user' = user => user' = [user EXCEPT ![t] = user'[t]] /\ user'[t] \in Users \union {None}
    BY <1>2, <1>3
  <1>9. loading' = loading => loading' = [loading EXCEPT ![t] = loading'[t]] /\ loading'[t] \in BOOLEAN
    BY <1>2, <1>3
  <1>10. QED
    BY <1>5, <1>6, <1>7, <1>8, <1>9

\* What a tab that only writes some of its variables does.
LEMMA LocalEffect ==
    ASSUME Tables, NEW t \in Tabs, Later(pair, pair'), Len(pair') <= MaxPairs,
           UNCHANGED <<store, user, loading, call, disturbed>>,
           refresh' = [refresh EXCEPT ![t] = refresh'[t]], refresh'[t] \in Refreshes(Len(pair')),
           form' = [form EXCEPT ![t] = form'[t]], form'[t] \in Forms(Len(pair'))
    PROVE  Effect(t)
  <1>1. store' \in (1..Len(pair')) \union {None}
    <2>1. store' \in (1..Len(pair)) \union {None} /\ 1..Len(pair) \subseteq 1..Len(pair')
      BY TabTypes, Monotone DEF Tables
    <2>2. QED
      BY <2>1
  <1>2. /\ call' = [call EXCEPT ![t] = call'[t]] /\ call'[t] \in CallsOf(t)
        /\ user' = [user EXCEPT ![t] = user'[t]] /\ user'[t] \in Users \union {None}
        /\ loading' = [loading EXCEPT ![t] = loading'[t]] /\ loading'[t] \in BOOLEAN
    BY SameTypes
  <1>3. disturbed' \subseteq Tabs /\ disturbed \ {t} \subseteq disturbed' /\ store' = store
    BY DEF Tables
  <1>4. QED
    BY <1>1, <1>2, <1>3 DEF Effect

\* What the shapes say of the pairs they name.
LEMMA RefreshShape ==
    ASSUME Tables, NEW t \in Tabs
    PROVE  /\ refresh[t] # Idle => refresh[t].pair \in Pairs
           /\ refresh[t].at \in {"idle", "sent", "done", "refused", "lost"}
           /\ refresh[t].at = "done" => refresh[t].got \in Pairs
           /\ refresh[t] # Idle <=> refresh[t].at # "idle"
  <1>1. Pairs = 1..Len(pair)
    BY TabTypes
  <1>2. CASE refresh[t] = Idle
    BY <1>2 DEF Idle
  <1>3. CASE refresh[t] \in [at : {"sent", "refused", "lost"}, pair : 1..Len(pair)]
    BY <1>1, <1>3 DEF Idle
  <1>4. CASE refresh[t] \in [at : {"done"}, pair : 1..Len(pair), got : 1..Len(pair)]
    BY <1>1, <1>4 DEF Idle
  <1>5. QED
    BY <1>2, <1>3, <1>4, TabTypes DEF Refreshes

\* The same of forms.
LEMMA FormShape ==
    ASSUME Tables, NEW t \in Tabs
    PROVE  /\ form[t].at = "signedIn" => form[t].got \in Pairs
           /\ form[t].at \in {"signingOut", "signedOut"} =>
                 form[t] \in [at : {"signingOut", "signedOut"}, pair : Pairs \union {None}]
           /\ form[t] # Idle <=> form[t].at # "idle"
           /\ form[t].at \in {"idle", "signingIn", "signedIn", "signingOut", "signedOut"}
  <1>1. Pairs = 1..Len(pair)
    BY TabTypes
  <1>2. CASE form[t] = Idle
    BY <1>2 DEF Idle
  <1>3. CASE form[t] = [at |-> "signingIn"]
    BY <1>3 DEF Idle
  <1>4. CASE form[t] \in [at : {"signedIn"}, got : 1..Len(pair)]
    BY <1>1, <1>4 DEF Idle
  <1>5. CASE form[t] \in [at : {"signingOut", "signedOut"}, pair : (1..Len(pair)) \union {None}]
    BY <1>1, <1>5 DEF Idle
  <1>6. QED
    BY <1>2, <1>3, <1>4, <1>5, TabTypes DEF Forms

\* A 401 is handled.
LEMMA HandleRefusedEffect ==
    ASSUME Tables, NEW t \in Tabs, NEW c \in Slots(t), HandleRefused(t, c)
    PROVE  Effect(t)
  <1>1. Later(pair, pair') /\ Len(pair') = Len(pair) /\ pair' = pair /\ form' = form
    BY TabTypes DEF HandleRefused
  <1>2. CASE store = None
    <2>1. CallsFail(t, {c}) /\ refresh' = refresh /\ {c} \in SUBSET Slots(t)
      BY <1>2 DEF HandleRefused
    <2>2. QED
      BY <1>1, <2>1, SameTypes, FailEffect
  <1>3. CASE store # None
    <2>1. /\ call[t][c].at = "401" /\ call' = [call EXCEPT ![t][c].at = "wait"]
          /\ refresh' = refresh \/ refresh' = [refresh EXCEPT ![t] = [at |-> "sent", pair |-> store]]
          /\ UNCHANGED <<store, user, loading, disturbed>>
      BY <1>3 DEF HandleRefused, Answer
    <2>2. [at |-> "sent", pair |-> store] \in Refreshes(Len(pair'))
      BY <1>1, <1>3, TabTypes DEF Tables, Refreshes
    <2>3. refresh' = [refresh EXCEPT ![t] = refresh'[t]] /\ refresh'[t] \in Refreshes(Len(pair'))
      BY <1>1, <2>1, <2>2, SameTypes DEF Tables
    <2>4. /\ [call[t][c] EXCEPT !.at = "wait"] \in CallRecord
          /\ call' = [call EXCEPT ![t][c] = [call[t][c] EXCEPT !.at = "wait"]]
      BY <2>1, AnswerType
    <2>5. call' = [call EXCEPT ![t] = call'[t]] /\ call'[t] \in CallsOf(t)
      BY <2>4, TabTypes DEF Tables, CallsOf
    <2>6. store' \in (1..Len(pair')) \union {None} /\ Len(pair') <= MaxPairs
      BY <1>1, <2>1, TabTypes DEF Tables
    <2>7. QED
      BY <1>1, <2>1, <2>3, <2>5, <2>6, SameTypes DEF Effect, Tables
  <1>4. QED
    BY <1>2, <1>3

\* Another answer is handled.
LEMMA HandleAnswerEffect ==
    ASSUME Tables, NEW t \in Tabs, NEW c \in Slots(t), HandleAnswer(t, c)
    PROVE  Effect(t)
  <1>1. /\ Later(pair, pair') /\ Len(pair') = Len(pair) /\ pair' = pair /\ refresh' = refresh
        /\ Len(pair') <= MaxPairs
    BY TabTypes DEF HandleAnswer, Tables
  <1>2. form' = [form EXCEPT ![t] = form'[t]] /\ form'[t] \in Forms(Len(pair'))
    <2>1. [at |-> "signingOut", pair |-> store] \in Forms(Len(pair'))
      BY <1>1, TabTypes DEF Tables, Forms
    <2>2. form' = form \/ form' = [form EXCEPT ![t] = [at |-> "signingOut", pair |-> store]]
      BY DEF HandleAnswer
    <2>3. QED
      BY <1>1, <2>1, <2>2, SameTypes DEF Tables
  <1>3. CASE c = "me" /\ call[t][c].at # "ok"
    <2>1. CallsFail(t, {c}) /\ {c} \in SUBSET Slots(t)
      BY <1>3 DEF HandleAnswer
    <2>2. QED
      BY <1>1, <1>2, <2>1, SameTypes, FailEffect
  <1>4. CASE ~(c = "me" /\ call[t][c].at # "ok")
    <2>1. /\ call' = [call EXCEPT ![t][c] = Idle] /\ UNCHANGED <<store, disturbed>>
          /\ call[t][c].at # "idle"
          /\ IF c = "me" THEN /\ user' = [user EXCEPT ![t] = call[t][c].as]
                              /\ loading' = [loading EXCEPT ![t] = FALSE]
             ELSE UNCHANGED <<user, loading>>
      BY <1>4 DEF HandleAnswer
    <2>2. call[t][c].as \in Users \union {None}
      BY <2>1, AnswerType DEF CallRecord
    <2>3. /\ user' = [user EXCEPT ![t] = user'[t]] /\ user'[t] \in Users \union {None}
          /\ loading' = [loading EXCEPT ![t] = loading'[t]] /\ loading'[t] \in BOOLEAN
      <3>1. user' = user \/ \E x \in Users \union {None} : user' = [user EXCEPT ![t] = x]
        BY <2>1, <2>2
      <3>2. loading' = loading \/ \E x \in BOOLEAN : loading' = [loading EXCEPT ![t] = x]
        BY <2>1
      <3>3. QED
        BY <3>1, <3>2, OneWritten DEF Tables
    <2>4. call' = [call EXCEPT ![t] = call'[t]] /\ call'[t] \in CallsOf(t)
      BY <2>1, TabTypes DEF Tables, CallsOf
    <2>5. store' \in (1..Len(pair')) \union {None}
      BY <1>1, <2>1, TabTypes DEF Tables
    <2>6. QED
      BY <1>1, <1>2, <2>1, <2>3, <2>4, <2>5, SameTypes DEF Effect, Tables
  <1>5. QED
    BY <1>3, <1>4

\* A refresh token is exchanged once, for a pair of the same user.
LEMMA ExchangeFacts ==
    ASSUME Tables, NEW t \in Tabs, ServeRefresh(t), Live(refresh[t].pair)
    PROVE  LET p == refresh[t].pair IN
           /\ p \in Pairs /\ NextPair \notin Pairs /\ NextPair = Len(pair')
           /\ refresh' = [refresh EXCEPT ![t] = [at |-> "done", pair |-> p, got |-> NextPair]]
           /\ pair[p].state = "live"
           /\ Later(pair, pair') /\ Len(pair') = Len(pair) + 1 /\ Len(pair') <= MaxPairs
           /\ pair'[p].state = "used"
           /\ pair'[NextPair].owner = pair[p].owner /\ pair'[NextPair].state = "live"
           /\ \A q \in Pairs \ {p} : pair'[q] = pair[q]
  <1> DEFINE p == refresh[t].pair
  <1>1. /\ p \in Pairs /\ Pairs = 1..Len(pair) /\ Len(pair) \in Nat /\ pair \in Seq(PairRecord)
        /\ pair[p].owner \in Users
    BY RefreshShape, TabTypes DEF ServeRefresh, Idle, Tables, PairRecord
  <1>2. /\ Len(pair) < MaxPairs
        /\ pair' = Issue([pair EXCEPT ![p].state = "used"], pair[p].owner)
        /\ refresh' = [refresh EXCEPT ![t] = [at |-> "done", pair |-> p, got |-> NextPair]]
        /\ pair[p].state = "live"
    BY DEF ServeRefresh, Live
  <1> HIDE DEF p
  <1>3. PICK m : m = Mark(pair, p, "used")
    OBVIOUS
  <1>4. /\ Later(pair, m) /\ Len(m) = Len(pair) /\ DOMAIN m = DOMAIN pair
        /\ m[p].state = "used"
        /\ \A q \in DOMAIN pair \ {p} : m[q] = pair[q]
    BY <1>1, <1>3, MarkPair DEF Pairs
  <1>5. m \in Seq(PairRecord) /\ pair' = Issue(m, pair[p].owner)
    BY <1>2, <1>3, <1>4 DEF Later, Mark
  <1>6. /\ Later(m, pair') /\ Len(pair') = Len(m) + 1
        /\ pair'[Len(m) + 1].owner = pair[p].owner /\ pair'[Len(m) + 1].state = "live"
        /\ \A q \in DOMAIN m : pair'[q] = m[q]
    BY <1>1, <1>5, IssuePair
  <1>7. Later(pair, pair')
    BY <1>1, <1>4, <1>6, LaterTrans
  <1>8. NextPair = Len(pair) + 1 /\ NextPair \notin Pairs
    BY <1>1 DEF NextPair
  <1>9. Len(pair') <= MaxPairs
    BY <1>1, <1>2, <1>4, <1>6, BoundAssumption
  <1>10. pair'[p].state = "used" /\ \A q \in Pairs \ {p} : pair'[q] = pair[q]
    BY <1>1, <1>4, <1>6 DEF Pairs
  <1>11. QED
    BY <1>1, <1>2, <1>4, <1>6, <1>7, <1>8, <1>9, <1>10 DEF p

\* Of a pair that was issued for an answer that is lost, nobody knows.
LEMMA ForgottenFacts ==
    ASSUME Tables, NEW t \in Tabs, pair' = Forgotten(t)
    PROVE  /\ Later(pair, pair') /\ Len(pair') = Len(pair) /\ Len(pair') <= MaxPairs /\ Pairs' = Pairs
           /\ refresh[t].at = "done" => pair'[refresh[t].pair].state = "forgotten"
           /\ \A q \in Pairs : (refresh[t].at = "done" /\ q = refresh[t].pair) \/ pair'[q] = pair[q]
  <1>1. CASE refresh[t].at = "done"
    <2>1. refresh[t].pair \in Pairs
      BY <1>1, RefreshShape DEF Idle
    <2>2. pair' = Mark(pair, refresh[t].pair, "forgotten")
      BY <1>1 DEF Forgotten, Mark
    <2>3. /\ Later(pair, pair') /\ Len(pair') = Len(pair) /\ DOMAIN pair' = DOMAIN pair
          /\ pair'[refresh[t].pair].state = "forgotten"
          /\ \A q \in DOMAIN pair \ {refresh[t].pair} : pair'[q] = pair[q]
      BY <2>1, <2>2, MarkPair DEF Pairs, Tables
    <2>4. QED
      BY <1>1, <2>3 DEF Pairs, Tables
  <1>2. CASE refresh[t].at # "done"
    BY <1>2, TabTypes DEF Forgotten, Tables, Pairs
  <1>3. QED
    BY <1>1, <1>2

\* The server answers a refresh.
LEMMA ServeRefreshEffect == ASSUME Tables, NEW t \in Tabs, ServeRefresh(t) PROVE Effect(t)
  <1> DEFINE p == refresh[t].pair
  <1>1. UNCHANGED <<store, user, loading, call, form, disturbed>> /\ p \in Pairs
    BY RefreshShape DEF ServeRefresh, Idle
  <1>2. ASSUME Later(pair, pair'), Len(pair') <= MaxPairs,
               NEW r \in Refreshes(Len(pair')), refresh' = [refresh EXCEPT ![t] = r]
        PROVE  Effect(t)
    <2>1. refresh' = [refresh EXCEPT ![t] = refresh'[t]] /\ refresh'[t] \in Refreshes(Len(pair'))
      BY <1>2 DEF Tables
    <2>2. QED
      BY <1>1, <1>2, <2>1, LocalEffect, SameTypes
  <1>3. CASE Live(p)
    <2>1. /\ p \in Pairs /\ Pairs = 1..Len(pair) /\ NextPair = Len(pair')
          /\ Len(pair) \in Nat /\ Len(pair') = Len(pair) + 1
          /\ refresh' = [refresh EXCEPT ![t] = [at |-> "done", pair |-> p, got |-> NextPair]]
          /\ Later(pair, pair') /\ Len(pair') <= MaxPairs
      BY <1>3, ExchangeFacts, TabTypes
    <2>2. [at |-> "done", pair |-> p, got |-> NextPair] \in Refreshes(Len(pair'))
      BY <2>1 DEF Refreshes
    <2>3. QED
      BY <1>2, <2>1, <2>2
  <1>4. CASE ~ Live(p)
    <2>1. refresh' = [refresh EXCEPT ![t] = [at |-> "refused", pair |-> p]] /\ pair' = pair
      BY <1>4 DEF ServeRefresh
    <2>2. [at |-> "refused", pair |-> p] \in Refreshes(Len(pair')) /\ Later(pair, pair') /\ Len(pair') <= MaxPairs
      BY <1>1, <2>1, TabTypes DEF Refreshes, Tables
    <2>3. QED
      BY <1>2, <2>1, <2>2
  <1>5. QED
    BY <1>3, <1>4

\* A refresh is lost.
LEMMA LoseRefreshEffect == ASSUME Tables, NEW t \in Tabs, LoseRefresh(t) PROVE Effect(t)
  <1>1. /\ UNCHANGED <<store, user, loading, call, form, disturbed>> /\ refresh[t].pair \in Pairs
        /\ refresh' = [refresh EXCEPT ![t] = [at |-> "lost", pair |-> refresh[t].pair]]
        /\ pair' = Forgotten(t)
    BY RefreshShape DEF LoseRefresh, Idle
  <1>2. Later(pair, pair') /\ Len(pair') = Len(pair) /\ Len(pair') <= MaxPairs
    BY <1>1, ForgottenFacts
  <1>3. refresh' = [refresh EXCEPT ![t] = refresh'[t]] /\ refresh'[t] \in Refreshes(Len(pair'))
    BY <1>1, <1>2, TabTypes DEF Tables, Refreshes
  <1>4. QED
    BY <1>1, <1>2, <1>3, LocalEffect, SameTypes

\* What a refresh that has settled leaves behind.
LEMMA SettledFacts ==
    ASSUME Tables, NEW t \in Tabs, SettleRefresh(t)
    PROVE  /\ refresh[t] # Idle /\ pair' = pair /\ form' = form
           /\ refresh' = [refresh EXCEPT ![t] = Idle]
           /\ IF refresh[t].at = "done"
              THEN /\ Store(t, refresh[t].got) /\ UNCHANGED <<user, loading>>
                   /\ call' = [call EXCEPT ![t] = Resent(t)]
              ELSE CallsFail(t, Waiting(t))
  BY DEF SettleRefresh, Idle

\* The promise of a refresh settles.
LEMMA SettleRefreshEffect == ASSUME Tables, NEW t \in Tabs, SettleRefresh(t) PROVE Effect(t)
  <1>1. /\ Later(pair, pair') /\ Len(pair') = Len(pair) /\ Len(pair') <= MaxPairs /\ pair' = pair /\ form' = form
        /\ Pairs = 1..Len(pair)
    BY SettledFacts, TabTypes DEF Tables
  <1>2. refresh' = [refresh EXCEPT ![t] = refresh'[t]] /\ refresh'[t] \in Refreshes(Len(pair'))
    BY SettledFacts DEF Tables, Refreshes
  <1>3. CASE refresh[t].at = "done"
    <2>1. Store(t, refresh[t].got) /\ UNCHANGED <<user, loading>> /\ call' = [call EXCEPT ![t] = Resent(t)]
      BY <1>3, SettledFacts
    <2>2. refresh[t].got \in Pairs
      BY <1>3, RefreshShape
    <2>3. /\ store' \in (1..Len(pair')) \union {None} /\ (store' = store \/ Tabs \ {t} \subseteq disturbed')
          /\ disturbed' \subseteq Tabs /\ disturbed \ {t} \subseteq disturbed'
      BY <1>1, <2>1, <2>2, StoreEffect
    <2>4. Resent(t) \in CallsOf(t)
      <3>1. \A c \in Slots(t) : Sent(c, refresh[t].got, FALSE) \in CallRecord
        BY <2>2, SentTypes
      <3>2. \A c \in Slots(t) : call[t][c] \in {Idle} \union CallRecord
        BY TabTypes DEF CallsOf
      <3>3. QED
        BY <3>1, <3>2 DEF Resent, CallsOf
    <2>5. call' = [call EXCEPT ![t] = call'[t]] /\ call'[t] \in CallsOf(t)
      BY <2>1, <2>4 DEF Tables
    <2>6. QED
      BY <1>1, <1>2, <2>1, <2>3, <2>5, SameTypes DEF Effect
  <1>4. CASE refresh[t].at # "done"
    <2>1. CallsFail(t, Waiting(t)) /\ Waiting(t) \in SUBSET Slots(t)
      BY <1>4, SettledFacts DEF Waiting
    <2>2. QED
      BY <1>1, <1>2, <2>1, FailEffect, SameTypes
  <1>5. QED
    BY <1>3, <1>4

\* A step that writes the form, and perhaps a pair.
LEMMA FormEffect ==
    ASSUME Tables, NEW t \in Tabs, Later(pair, pair'), Len(pair') <= MaxPairs,
           NEW f \in Forms(Len(pair')), form' = [form EXCEPT ![t] = f],
           UNCHANGED <<store, user, loading, refresh, call, disturbed>>
    PROVE  Effect(t)
  <1>1. form' = [form EXCEPT ![t] = form'[t]] /\ form'[t] \in Forms(Len(pair'))
    BY DEF Tables
  <1>2. QED
    BY <1>1, LocalEffect, SameTypes

\* Signing in and out, until the answer.
LEMMA SignInEffect ==
    ASSUME Tables, NEW t \in Tabs,
           \/ SubmitSignIn(t) \/ FailSignIn(t) \/ SubmitSignOut(t)
           \/ \E u \in Users : ServeSignIn(t, u)
    PROVE  Effect(t)
  <1>1. Later(pair, pair) /\ Len(pair) <= MaxPairs /\ Len(pair) \in Nat /\ store \in (1..Len(pair)) \union {None}
    BY TabTypes DEF Tables
  <1>2. CASE SubmitSignIn(t)
    <2>1. [at |-> "signingIn"] \in Forms(Len(pair'))
      BY DEF Forms
    <2>2. QED
      BY <1>1, <1>2, <2>1, FormEffect DEF SubmitSignIn
  <1>3. CASE FailSignIn(t)
    <2>1. Idle \in Forms(Len(pair'))
      BY DEF Forms
    <2>2. QED
      BY <1>1, <1>3, <2>1, FormEffect DEF FailSignIn
  <1>4. CASE SubmitSignOut(t)
    <2>1. [at |-> "signingOut", pair |-> store] \in Forms(Len(pair')) /\ pair' = pair
      BY <1>1, <1>4 DEF SubmitSignOut, Forms
    <2>2. QED
      BY <1>1, <1>4, <2>1, FormEffect DEF SubmitSignOut
  <1>5. ASSUME NEW u \in Users, ServeSignIn(t, u) PROVE Effect(t)
    <2>1. Later(pair, pair') /\ Len(pair') = Len(pair) + 1
      BY <1>5, IssuePair DEF ServeSignIn, Tables
    <2>2. Len(pair') <= MaxPairs
      BY <1>1, <1>5, <2>1, BoundAssumption DEF ServeSignIn
    <2>3. [at |-> "signedIn", got |-> NextPair] \in Forms(Len(pair'))
      BY <1>1, <2>1 DEF Forms, NextPair
    <2>4. QED
      BY <1>5, <2>1, <2>2, <2>3, FormEffect DEF ServeSignIn
  <1>6. QED
    BY <1>2, <1>3, <1>4, <1>5

\* What a sign-out ends on the server.
LEMMA SignOutFacts ==
    ASSUME Tables, NEW t \in Tabs, ServeSignOut(t)
    PROVE  /\ Later(pair, pair') /\ Len(pair') = Len(pair) /\ Len(pair') <= MaxPairs
           /\ \A q \in Pairs : (pair'[q].state = "used") <=> (pair[q].state = "used")
           /\ UNCHANGED <<store, user, loading, refresh, call, disturbed>>
           /\ form'[t] \in [at : {"signedOut"}, pair : (1..Len(pair)) \union {None}]
           /\ form' = [form EXCEPT ![t] = form'[t]]
  <1> DEFINE p == form[t].pair
  <1>1. /\ form[t] \in [at : {"signingOut", "signedOut"}, pair : Pairs \union {None}]
        /\ Pairs = 1..Len(pair)
    BY FormShape, TabTypes DEF ServeSignOut
  <1>2. /\ form' = [form EXCEPT ![t].at = "signedOut"]
        /\ UNCHANGED <<store, user, loading, refresh, call, disturbed>>
        /\ pair' = IF Live(p) THEN [pair EXCEPT ![p].state = "ended"] ELSE pair
    BY DEF ServeSignOut
  <1>3. /\ form' = [form EXCEPT ![t] = form'[t]]
        /\ form'[t] = [form[t] EXCEPT !.at = "signedOut"]
    BY <1>2 DEF Tables
  <1>4. form'[t] \in [at : {"signedOut"}, pair : (1..Len(pair)) \union {None}]
    BY <1>1, <1>3
  <1>5. p \in Pairs \union {None}
    BY <1>1
  <1>6. CASE Live(p)
    <2>1. p \in DOMAIN pair /\ pair[p].state = "live"
      BY <1>5, <1>6 DEF Live, Pairs
    <2>2. pair' = Mark(pair, p, "ended")
      BY <1>2, <1>6 DEF Mark
    <2> HIDE DEF p
    <2>3. /\ Later(pair, pair') /\ Len(pair') = Len(pair)
          /\ pair'[p].state = "ended"
          /\ \A q \in DOMAIN pair \ {p} : pair'[q] = pair[q]
      BY <2>1, <2>2, MarkPair DEF Tables
    <2>4. QED
      BY <1>2, <1>3, <1>4, <2>1, <2>3 DEF Pairs, Tables
  <1>7. CASE ~ Live(p)
    BY <1>2, <1>3, <1>4, <1>7, TabTypes DEF Tables
  <1>8. QED
    BY <1>6, <1>7

\* The server ends a session that is signed out of.
LEMMA ServeSignOutEffect == ASSUME Tables, NEW t \in Tabs, ServeSignOut(t) PROVE Effect(t)
  <1>1. form'[t] \in Forms(Len(pair'))
    BY SignOutFacts DEF Forms
  <1>2. QED
    BY <1>1, SignOutFacts, LocalEffect, SameTypes

\* The tokens of a tab that has signed in or out are those of all tabs.
LEMMA FinishEffect ==
    ASSUME Tables, NEW t \in Tabs, FinishSignIn(t) \/ FinishSignOut(t)
    PROVE  Effect(t)
  <1>1. /\ pair' = pair /\ UNCHANGED <<loading, refresh, call>>
        /\ form' = [form EXCEPT ![t] = Idle]
        /\ Later(pair, pair') /\ Len(pair') = Len(pair) /\ Len(pair') <= MaxPairs
    BY TabTypes DEF FinishSignIn, FinishSignOut, Tables
  <1>2. form' = [form EXCEPT ![t] = form'[t]] /\ form'[t] \in Forms(Len(pair'))
    BY <1>1 DEF Tables, Forms
  <1>3. disturbed' \subseteq Tabs /\ disturbed \ {t} \subseteq disturbed'
    BY DEF FinishSignIn, FinishSignOut, Overtaken, Tables
  <1>4. store' = store \/ Tabs \ {t} \subseteq disturbed'
    BY DEF FinishSignIn, FinishSignOut
  <1>5. store' \in (1..Len(pair')) \union {None} /\ \E u \in Users \union {None} : user' = [user EXCEPT ![t] = u]
    <2>1. CASE FinishSignIn(t)
      <3>1. form[t].got \in Pairs /\ Pairs = 1..Len(pair)
        BY <2>1, FormShape, TabTypes DEF FinishSignIn
      <3>2. pair[form[t].got].owner \in Users
        BY <3>1, TabTypes DEF PairRecord
      <3>3. QED
        BY <1>1, <2>1, <3>1, <3>2 DEF FinishSignIn
    <2>2. CASE FinishSignOut(t)
      BY <2>2 DEF FinishSignOut
    <2>3. QED
      BY <2>1, <2>2
  <1>6. user' = [user EXCEPT ![t] = user'[t]] /\ user'[t] \in Users \union {None}
    BY <1>5 DEF Tables
  <1>7. QED
    BY <1>1, <1>2, <1>3, <1>4, <1>5, <1>6, SameTypes DEF Effect

\* A tab is opened or reloaded.
LEMMA LoadPageEffect == ASSUME Tables, NEW t \in Tabs, LoadPage(t) PROVE Effect(t)
  <1>1. Later(pair, pair') /\ Len(pair') = Len(pair) /\ Len(pair') <= MaxPairs
    BY ForgottenFacts DEF LoadPage
  <1>2. /\ user' = [user EXCEPT ![t] = None] /\ form' = [form EXCEPT ![t] = Idle]
        /\ loading' = [loading EXCEPT ![t] = store # None]
        /\ refresh' = [refresh EXCEPT ![t] = Idle]
        /\ call' = [call EXCEPT ![t] = [c \in Slots(t) |->
                        IF c = "me" /\ store # None THEN Sent(c, store, TRUE) ELSE Idle]]
        /\ disturbed' = disturbed \ {t} /\ store' = store
    BY DEF LoadPage
  <1>3. /\ user' = [user EXCEPT ![t] = user'[t]] /\ user'[t] \in Users \union {None}
        /\ loading' = [loading EXCEPT ![t] = loading'[t]] /\ loading'[t] \in BOOLEAN
    BY <1>2 DEF Tables
  <1>4. /\ form' = [form EXCEPT ![t] = form'[t]] /\ form'[t] \in Forms(Len(pair'))
        /\ refresh' = [refresh EXCEPT ![t] = refresh'[t]] /\ refresh'[t] \in Refreshes(Len(pair'))
    BY <1>2 DEF Tables, Forms, Refreshes
  <1>5. call' = [call EXCEPT ![t] = call'[t]] /\ call'[t] \in CallsOf(t)
    <2>1. \A c \in Slots(t) : Sent(c, store, TRUE) \in CallRecord
      BY SentTypes DEF Tables
    <2>2. QED
      BY <1>2, <2>1 DEF Tables, CallsOf
  <1>6. store' \in (1..Len(pair')) \union {None} /\ disturbed' \subseteq Tabs /\ disturbed \ {t} \subseteq disturbed'
    BY <1>1, <1>2, TabTypes DEF Tables
  <1>7. QED
    BY <1>1, <1>2, <1>3, <1>4, <1>5, <1>6 DEF Effect

\* A session that ends on the server.
LEMMA EndSessionFacts ==
    ASSUME Tables, NEW p \in Pairs, EndSession(p)
    PROVE  /\ Later(pair, pair') /\ Len(pair') = Len(pair)
           /\ \A q \in Pairs : (pair'[q].state = "used") <=> (pair[q].state = "used")
  <1>1. pair' = Mark(pair, p, "ended") /\ pair[p].state = "live"
    BY DEF EndSession, Mark, Live
  <1>2. /\ Later(pair, pair') /\ Len(pair') = Len(pair)
        /\ pair'[p].state = "ended"
        /\ \A q \in DOMAIN pair \ {p} : pair'[q] = pair[q]
    BY <1>1, MarkPair DEF Tables, Pairs
  <1>3. QED
    BY <1>1, <1>2 DEF Pairs

\* Every step is one of a tab, or ends a session.
LEMMA StepEffect ==
    ASSUME Tables, NEW t \in Tabs,
           \/ TabStep(t) \/ ServerStep(t)
           \/ \E c \in Calls[t] : Ask(t, c)
           \/ SubmitSignIn(t) \/ SubmitSignOut(t) \/ LoadPage(t)
    PROVE  Effect(t)
  <1>1. \A c \in Calls[t] : c \in Slots(t)
    BY DEF Slots
  <1>2. QED
    BY <1>1, AskEffect, RequestEffect, HandleRefusedEffect, HandleAnswerEffect, ServeRefreshEffect,
       LoseRefreshEffect, SettleRefreshEffect, SignInEffect, ServeSignOutEffect, FinishEffect, LoadPageEffect
       DEF TabStep, ServerStep

\* The tables are an invariant.
LEMMA NextTables == Tables /\ [Next]_vars => Tables'
  <1> SUFFICES ASSUME Tables, [Next]_vars PROVE Tables'
    OBVIOUS
  <1>1. ASSUME NEW t \in Tabs, Effect(t) PROVE Tables'
    BY <1>1, EffectTables
  <1>2. ASSUME NEW p \in Pairs, EndSession(p) PROVE Tables'
    <2>1. Later(pair, pair') /\ Len(pair') = Len(pair)
      BY <1>2, EndSessionFacts
    <2>2. UNCHANGED <<store, user, loading, refresh, call, form, disturbed>>
      BY <1>2 DEF EndSession
    <2>3. pair' \in Seq(PairRecord) /\ Pairs' = 1..Len(pair') /\ Pairs = 1..Len(pair)
      BY <2>1 DEF Later, Pairs, Tables
    <2>4. QED
      BY <2>1, <2>2, <2>3 DEF Tables
  <1>3. CASE UNCHANGED vars
    BY <1>3 DEF vars, Tables, Pairs
  <1>4. QED
    BY <1>1, <1>2, <1>3, StepEffect DEF Next

-----------------------------------------------------------------------------
(* Refresh tokens are used once *)

Done(t) == refresh[t].at = "done"
SignedIn(t) == form[t].at = "signedIn"

\* A pair on its way to a tab has never been stored or presented.
Unknown(g) ==
    /\ g # store
    /\ pair[g].state # "used"
    /\ \A t \in Tabs : refresh[t] # Idle => refresh[t].pair # g

OnTheWay ==
    /\ \A t \in Tabs : Done(t) => Unknown(refresh[t].got)
    /\ \A t \in Tabs : SignedIn(t) => Unknown(form[t].got)
    /\ \A t, o \in Tabs : Done(t) /\ Done(o) /\ t # o => refresh[t].got # refresh[o].got
    /\ \A t, o \in Tabs : SignedIn(t) /\ SignedIn(o) /\ t # o => form[t].got # form[o].got
    /\ \A t, o \in Tabs : Done(t) /\ SignedIn(o) => refresh[t].got # form[o].got

\* Of a refresh that was answered, the token is used, by that refresh alone.
UsedOnce ==
    /\ \A t \in Tabs : Done(t) => pair[refresh[t].pair].state = "used"
    /\ \A t, o \in Tabs : Done(t) /\ Done(o) /\ t # o => refresh[t].pair # refresh[o].pair

\* A token whose exchange is over is in nobody's hands but a disturbed tab's.
SpentGone ==
    \A p \in Pairs :
        pair[p].state = "used" /\ (\A o \in Tabs : Done(o) => refresh[o].pair # p) =>
            /\ store # p
            /\ \A t \in Tabs \ disturbed : refresh[t] # Idle => refresh[t].pair # p

ExchangeInv == OnTheWay /\ UsedOnce /\ SpentGone

\* Nothing has been exchanged at first.
LEMMA InitExchange == Init => ExchangeInv
  BY DEF Init, ExchangeInv, OnTheWay, UsedOnce, SpentGone, Done, SignedIn, Idle, Pairs

\* Numbers of pairs are not None.
LEMMA PairIsNumber == ASSUME Tables, NEW p \in Pairs PROVE p \in Nat /\ p # None
  BY TabTypes, PairNumbers, NoneAssumption DEF Tables, Pairs

\* What a step of t leaves alone in the other tabs.
LEMMA OthersStay ==
    ASSUME Tables, NEW t \in Tabs, Effect(t)
    PROVE  /\ \A o \in Tabs \ {t} : /\ refresh'[o] = refresh[o] /\ form'[o] = form[o]
                                    /\ user'[o] = user[o] /\ loading'[o] = loading[o]
                                    /\ call'[o] = call[o]
           /\ Pairs \subseteq Pairs' /\ Later(pair, pair')
  BY Monotone DEF Effect, Tables, Later, Pairs

\* What the invariant speaks of is a number of a pair.
LEMMA ExchangeTypes ==
    ASSUME Tables
    PROVE  /\ \A t \in Tabs : /\ Done(t) => refresh[t].got \in Pairs /\ refresh[t].pair \in Pairs
                              /\ SignedIn(t) => form[t].got \in Pairs
                              /\ refresh[t] # Idle => refresh[t].pair \in Pairs
                              /\ Done(t) => refresh[t] # Idle
           /\ None \notin Pairs /\ NextPair \notin Pairs /\ store \in Pairs \union {None}
           /\ NextPair # None
  <1>1. \A t \in Tabs : /\ Done(t) => refresh[t].got \in Pairs /\ refresh[t].pair \in Pairs
                        /\ refresh[t] # Idle => refresh[t].pair \in Pairs
                        /\ Done(t) => refresh[t] # Idle
    BY RefreshShape DEF Done, Idle
  <1>2. \A t \in Tabs : SignedIn(t) => form[t].got \in Pairs
    BY FormShape DEF SignedIn
  <1>3. None \notin Pairs /\ NextPair \notin Pairs /\ store \in Pairs \union {None} /\ NextPair # None
    BY PairNumbers, NoneAssumption DEF Tables, Pairs, NextPair
  <1>4. QED
    BY <1>1, <1>2, <1>3

\* Steps that start, answer and settle no refresh, and bring no tokens.
LEMMA QuietExchange ==
    ASSUME Tables, ExchangeInv, Pairs' = Pairs,
           \A q \in Pairs : (pair'[q].state = "used") <=> (pair[q].state = "used"),
           store' \in {store, None}, refresh' = refresh, disturbed \subseteq disturbed',
           \A t \in Tabs : form'[t] = form[t] \/ form'[t].at # "signedIn"
    PROVE  ExchangeInv'
  <1>1. OnTheWay'
    BY ExchangeTypes DEF ExchangeInv, OnTheWay, Unknown, Done, SignedIn
  <1>2. UsedOnce'
    BY ExchangeTypes DEF ExchangeInv, UsedOnce, Done
  <1>3. SpentGone'
    BY ExchangeTypes DEF ExchangeInv, SpentGone, Done
  <1>4. QED
    BY <1>1, <1>2, <1>3 DEF ExchangeInv

\* A refresh starts with the stored token.
LEMMA StartExchange ==
    ASSUME Tables, ExchangeInv, NEW t \in Tabs, store # None,
           \A o \in Tabs \ {t} : refresh'[o] = refresh[o],
           refresh[t] = Idle, refresh'[t] = [at |-> "sent", pair |-> store],
           UNCHANGED <<pair, store, form, disturbed>>
    PROVE  ExchangeInv'
  <1>1. /\ refresh'[t].at = "sent" /\ refresh'[t].pair = store /\ ~ Done(t)
        /\ Pairs' = Pairs
    BY DEF Done, Idle, Pairs
  <1>2. OnTheWay'
    BY <1>1, ExchangeTypes DEF ExchangeInv, OnTheWay, Unknown, Done, SignedIn
  <1>3. UsedOnce'
    BY <1>1, ExchangeTypes DEF ExchangeInv, UsedOnce, Done
  <1>4. SpentGone'
    BY <1>1, ExchangeTypes DEF ExchangeInv, SpentGone, Done
  <1>5. QED
    BY <1>2, <1>3, <1>4 DEF ExchangeInv

\* A token is exchanged.
LEMMA AnswerExchange ==
    ASSUME Tables, ExchangeInv, NEW t \in Tabs, NEW p \in Pairs,
           refresh[t].at = "sent", refresh[t].pair = p, pair[p].state = "live",
           refresh'[t] = [at |-> "done", pair |-> p, got |-> NextPair],
           \A o \in Tabs \ {t} : refresh'[o] = refresh[o],
           Pairs' = Pairs \union {NextPair}, pair'[p].state = "used", pair'[NextPair].state = "live",
           \A q \in Pairs \ {p} : pair'[q] = pair[q],
           UNCHANGED <<store, form, disturbed>>
    PROVE  ExchangeInv'
  <1>1. /\ refresh'[t].at = "done" /\ refresh'[t].pair = p /\ refresh'[t].got = NextPair
        /\ refresh[t] # Idle /\ ~ Done(t)
    BY DEF Done, Idle
  <1>2. ASSUME NEW g \in Pairs, Unknown(g)
        PROVE  g # p /\ g # store /\ pair'[g].state # "used" /\ g # NextPair
               /\ \A o \in Tabs : refresh'[o] # Idle => refresh'[o].pair # g
    BY <1>1, <1>2, ExchangeTypes DEF Unknown
  <1>3. /\ NextPair # store /\ pair'[NextPair].state # "used"
        /\ \A o \in Tabs : refresh'[o] # Idle => refresh'[o].pair # NextPair
    BY <1>1, ExchangeTypes
  <1>4. OnTheWay'
    BY <1>1, <1>2, <1>3, ExchangeTypes DEF ExchangeInv, OnTheWay, Unknown, Done, SignedIn
  <1>5. \A o \in Tabs \ {t} : Done(o) => refresh[o].pair # p
    BY ExchangeTypes DEF ExchangeInv, UsedOnce
  <1>6. UsedOnce'
    BY <1>1, <1>5, ExchangeTypes DEF ExchangeInv, UsedOnce, Done
  <1>7. SpentGone'
    BY <1>1, ExchangeTypes DEF ExchangeInv, SpentGone, Done
  <1>8. QED
    BY <1>4, <1>6, <1>7 DEF ExchangeInv

\* A refresh is refused or lost, or its tab is gone: a pair that was on its
\* way to the tab is never known.
LEMMA LoseExchange ==
    ASSUME Tables, ExchangeInv, NEW t \in Tabs, Pairs' = Pairs,
           \/ refresh'[t] = Idle
           \/ refresh'[t].pair = refresh[t].pair /\ refresh[t] # Idle /\ disturbed' = disturbed,
           refresh'[t].at # "done",
           \A o \in Tabs \ {t} : refresh'[o] = refresh[o],
           Done(t) => pair'[refresh[t].pair].state = "forgotten",
           \A q \in Pairs : (Done(t) /\ q = refresh[t].pair) \/ pair'[q] = pair[q],
           \A o \in Tabs : form'[o] = form[o] \/ form'[o] = Idle,
           disturbed \ {t} \subseteq disturbed', store' = store
    PROVE  ExchangeInv'
  <1>1. \A o \in Tabs : form'[o].at = "signedIn" => form'[o] = form[o]
    BY DEF Idle
  <1>2. \A o \in Tabs \ {t} : Done(t) /\ Done(o) => refresh[o].pair # refresh[t].pair
    BY DEF ExchangeInv, UsedOnce
  <1>3. \A q \in Pairs : pair'[q].state = "used" => pair[q].state = "used" /\ (Done(t) => q # refresh[t].pair)
    BY ExchangeTypes
  <1>4. OnTheWay'
    BY <1>1, <1>3, ExchangeTypes DEF ExchangeInv, OnTheWay, Unknown, Done, SignedIn
  <1>5. UsedOnce'
    BY <1>2, ExchangeTypes DEF ExchangeInv, UsedOnce, Done
  <1>6. SpentGone'
    BY <1>3, ExchangeTypes DEF ExchangeInv, SpentGone, Done
  <1>7. QED
    BY <1>4, <1>5, <1>6 DEF ExchangeInv

\* A refresh ends, its new pair stored if there is one.
LEMMA SettleExchange ==
    ASSUME Tables, ExchangeInv, NEW t \in Tabs,
           refresh'[t] = Idle, \A o \in Tabs \ {t} : refresh'[o] = refresh[o],
           \/ Done(t) /\ store' = refresh[t].got
           \/ ~ Done(t) /\ store' = None,
           store' = store \/ Tabs \ {t} \subseteq disturbed', disturbed \subseteq disturbed',
           UNCHANGED <<pair, form>>
    PROVE  ExchangeInv'
  <1>1. Pairs' = Pairs /\ Idle.at # "done"
    BY DEF Pairs, Idle
  <1>2. OnTheWay'
    BY <1>1, ExchangeTypes DEF ExchangeInv, OnTheWay, Unknown, Done, SignedIn
  <1>3. UsedOnce'
    BY <1>1, ExchangeTypes DEF ExchangeInv, UsedOnce, Done
  <1>4. CASE Done(t)
    <2>1. Unknown(refresh[t].got) /\ Tabs \ {t} \subseteq disturbed' /\ store' = refresh[t].got
      BY <1>4 DEF ExchangeInv, OnTheWay, Unknown
    <2>2. SpentGone'
      BY <2>1, <1>1, ExchangeTypes DEF SpentGone, Unknown
    <2>3. QED
      BY <2>2, <1>2, <1>3 DEF ExchangeInv
  <1>5. CASE ~ Done(t)
    <2>1. SpentGone'
      BY <1>5, <1>1, ExchangeTypes DEF ExchangeInv, SpentGone, Done
    <2>2. QED
      BY <2>1, <1>2, <1>3 DEF ExchangeInv
  <1>6. QED
    BY <1>4, <1>5

\* A new pair is on its way to a tab that signs in.
LEMMA SignInExchange ==
    ASSUME Tables, ExchangeInv, NEW t \in Tabs,
           Pairs' = Pairs \union {NextPair}, pair'[NextPair].state = "live",
           \A q \in Pairs : pair'[q] = pair[q],
           form'[t] = [at |-> "signedIn", got |-> NextPair],
           \A o \in Tabs \ {t} : form'[o] = form[o],
           UNCHANGED <<store, refresh, disturbed>>
    PROVE  ExchangeInv'
  <1>1. form'[t].at = "signedIn" /\ form'[t].got = NextPair
    OBVIOUS
  <1>2. OnTheWay'
    BY <1>1, ExchangeTypes DEF ExchangeInv, OnTheWay, Unknown, Done, SignedIn
  <1>3. UsedOnce'
    BY ExchangeTypes DEF ExchangeInv, UsedOnce, Done
  <1>4. SpentGone'
    BY ExchangeTypes DEF ExchangeInv, SpentGone, Done
  <1>5. QED
    BY <1>2, <1>3, <1>4 DEF ExchangeInv

\* The pair of a tab that has signed in is stored.
LEMMA FinishExchange ==
    ASSUME Tables, ExchangeInv, NEW t \in Tabs, SignedIn(t),
           form'[t] = Idle, \A o \in Tabs \ {t} : form'[o] = form[o],
           store' = form[t].got, Tabs \ {t} \subseteq disturbed', refresh[t] # Idle => t \in disturbed',
           UNCHANGED <<pair, refresh>>
    PROVE  ExchangeInv'
  <1>1. Pairs' = Pairs /\ Idle.at # "signedIn" /\ Unknown(form[t].got)
    BY DEF Pairs, Idle, ExchangeInv, OnTheWay
  <1>2. OnTheWay'
    BY <1>1, ExchangeTypes DEF ExchangeInv, OnTheWay, Unknown, Done, SignedIn
  <1>3. UsedOnce'
    BY <1>1, ExchangeTypes DEF ExchangeInv, UsedOnce, Done
  <1>4. SpentGone'
    BY <1>1, ExchangeTypes DEF SpentGone, Unknown
  <1>5. QED
    BY <1>2, <1>3, <1>4 DEF ExchangeInv

\* Requests, their answers, and a password that is changed.
LEMMA RequestExchange ==
    ASSUME Tables, ExchangeInv, NEW t \in Tabs, NEW c \in Slots(t),
           Ask(t, c) \/ Refuse(t, c) \/ Fail(t, c) \/ End(t, c) \/ Serve(t, c)
    PROVE  ExchangeInv'
  <1>1. UNCHANGED <<store, refresh, form, disturbed>>
    BY DEF Ask, Refuse, Fail, End, Serve
  <1>2. Pairs' = Pairs /\ \A q \in Pairs : (pair'[q].state = "used") <=> (pair[q].state = "used")
    <2>1. CASE pair' = pair
      BY <2>1 DEF Pairs
    <2>2. CASE Serve(t, c)
      <3> DEFINE P == {p \in Pairs : c = "password" /\ Live(p) /\ pair[p].owner = call[t][c].as}
      <3>1. pair' = Marked(pair, P, "ended")
        BY <2>2 DEF Serve, Marked, Pairs
      <3>2. \A q \in P : pair[q].state = "live"
        BY DEF Live
      <3> HIDE DEF P
      <3>3. DOMAIN pair' = DOMAIN pair /\ \A q \in DOMAIN pair : pair'[q].state = IF q \in P THEN "ended" ELSE pair[q].state
        BY <3>1, MarkPairs DEF Tables
      <3>4. QED
        BY <3>2, <3>3 DEF Pairs
    <2>3. QED
      BY <2>1, <2>2 DEF Ask, Refuse, Fail, End
  <1>3. QED
    BY <1>1, <1>2, QuietExchange

\* A 401 starts a refresh, joins one or fails.
LEMMA HandleRefusedExchange ==
    ASSUME Tables, ExchangeInv, NEW t \in Tabs, NEW c \in Slots(t), HandleRefused(t, c)
    PROVE  ExchangeInv'
  <1>1. UNCHANGED <<pair, form>> /\ Pairs' = Pairs
    BY DEF HandleRefused, Pairs
  <1>2. CASE store = None
    <2>1. store' = None /\ refresh' = refresh /\ disturbed \subseteq disturbed'
      BY <1>2 DEF HandleRefused, CallsFail, Store
    <2>2. QED
      BY <1>1, <2>1, QuietExchange
  <1>3. CASE store # None /\ refresh[t] # Idle
    <2>1. UNCHANGED <<store, refresh, disturbed>>
      BY <1>3 DEF HandleRefused, JoinsRefresh
    <2>2. QED
      BY <1>1, <2>1, QuietExchange
  <1>4. CASE store # None /\ refresh[t] = Idle
    <2>1. /\ refresh' = [refresh EXCEPT ![t] = [at |-> "sent", pair |-> store]]
          /\ UNCHANGED <<store, disturbed>>
      BY <1>4 DEF HandleRefused, JoinsRefresh
    <2>2. /\ refresh'[t] = [at |-> "sent", pair |-> store]
          /\ \A o \in Tabs \ {t} : refresh'[o] = refresh[o]
      BY <2>1 DEF Tables
    <2>3. QED
      BY <1>1, <1>4, <2>1, <2>2, StartExchange
  <1>5. QED
    BY <1>2, <1>3, <1>4

\* Another answer exchanges nothing.
LEMMA HandleAnswerExchange ==
    ASSUME Tables, ExchangeInv, NEW t \in Tabs, NEW c \in Slots(t), HandleAnswer(t, c)
    PROVE  ExchangeInv'
  <1>1. UNCHANGED <<pair, refresh>> /\ Pairs' = Pairs
    BY DEF HandleAnswer, Pairs
  <1>2. store' \in {store, None} /\ disturbed \subseteq disturbed'
    BY DEF HandleAnswer, CallsFail, Store
  <1>3. form' = form \/ form' = [form EXCEPT ![t] = [at |-> "signingOut", pair |-> store]]
    BY DEF HandleAnswer
  <1>4. \A o \in Tabs : form'[o] = form[o] \/ form'[o].at # "signedIn"
    BY <1>3 DEF Tables
  <1>5. QED
    BY <1>1, <1>2, <1>4, QuietExchange

\* The server exchanges a token, or refuses it.
LEMMA ServeRefreshExchange ==
    ASSUME Tables, ExchangeInv, NEW t \in Tabs, ServeRefresh(t)
    PROVE  ExchangeInv'
  <1> DEFINE p == refresh[t].pair
  <1>1. UNCHANGED <<store, form, disturbed>> /\ refresh[t].at = "sent" /\ p \in Pairs /\ refresh[t] # Idle
    BY RefreshShape DEF ServeRefresh
  <1>2. CASE Live(p)
    <2>1. /\ refresh' = [refresh EXCEPT ![t] = [at |-> "done", pair |-> p, got |-> NextPair]]
          /\ pair[p].state = "live" /\ Later(pair, pair') /\ Len(pair') = Len(pair) + 1
          /\ pair'[p].state = "used" /\ pair'[NextPair].state = "live"
          /\ \A q \in Pairs \ {p} : pair'[q] = pair[q]
      BY <1>2, ExchangeFacts
    <2>2. refresh'[t] = [at |-> "done", pair |-> p, got |-> NextPair]
      BY <2>1 DEF Tables
    <2>3. \A o \in Tabs \ {t} : refresh'[o] = refresh[o]
      BY <2>1 DEF Tables
    <2>4. Pairs' = Pairs \union {NextPair}
      <3>1. pair' \in Seq(PairRecord) /\ pair \in Seq(PairRecord)
        BY <2>1 DEF Later, Tables
      <3>2. Pairs' = 1..(Len(pair) + 1) /\ Pairs = 1..Len(pair) /\ Len(pair) \in Nat
        BY <3>1, <2>1, PairNumbers DEF Pairs
      <3>3. QED
        BY <3>2 DEF NextPair
    <2> HIDE DEF p
    <2>5. refresh[t].pair = p
      BY DEF p
    <2>6. QED
      BY <1>1, <2>1, <2>2, <2>3, <2>4, <2>5, AnswerExchange
  <1>3. CASE ~ Live(p)
    <2>1. refresh' = [refresh EXCEPT ![t] = [at |-> "refused", pair |-> p]] /\ pair' = pair
      BY <1>3 DEF ServeRefresh
    <2>2. refresh'[t].at = "refused" /\ refresh'[t].pair = p
      BY <2>1 DEF Tables
    <2>3. \A o \in Tabs \ {t} : refresh'[o] = refresh[o]
      BY <2>1 DEF Tables
    <2>4. ~ Done(t) /\ Pairs' = Pairs
      BY <1>1, <2>1 DEF Done, Pairs
    <2>5. QED
      BY <1>1, <2>1, <2>2, <2>3, <2>4, LoseExchange
  <1>4. QED
    BY <1>2, <1>3

\* The answer of an exchange is lost.
LEMMA LoseRefreshExchange ==
    ASSUME Tables, ExchangeInv, NEW t \in Tabs, LoseRefresh(t)
    PROVE  ExchangeInv'
  <1>1. /\ UNCHANGED <<store, form, disturbed>> /\ pair' = Forgotten(t)
        /\ refresh' = [refresh EXCEPT ![t] = [at |-> "lost", pair |-> refresh[t].pair]]
        /\ refresh[t] # Idle
    BY DEF LoseRefresh, Idle
  <1>2. refresh'[t].at = "lost" /\ refresh'[t].pair = refresh[t].pair
    BY <1>1 DEF Tables
  <1>5. \A o \in Tabs \ {t} : refresh'[o] = refresh[o]
    BY <1>1 DEF Tables
  <1>3. /\ Pairs' = Pairs
        /\ Done(t) => pair'[refresh[t].pair].state = "forgotten"
        /\ \A q \in Pairs : (Done(t) /\ q = refresh[t].pair) \/ pair'[q] = pair[q]
    BY <1>1, ForgottenFacts DEF Done
  <1>4. QED
    BY <1>1, <1>2, <1>3, <1>5, LoseExchange

\* The promise of a refresh settles.
LEMMA SettleRefreshExchange ==
    ASSUME Tables, ExchangeInv, NEW t \in Tabs, SettleRefresh(t)
    PROVE  ExchangeInv'
  <1>1. UNCHANGED <<pair, form>> /\ refresh' = [refresh EXCEPT ![t] = Idle]
    BY SettledFacts
  <1>2. refresh'[t] = Idle
    BY <1>1 DEF Tables
  <1>6. \A o \in Tabs \ {t} : refresh'[o] = refresh[o]
    BY <1>1 DEF Tables
  <1>3. \/ Done(t) /\ Store(t, refresh[t].got)
        \/ ~ Done(t) /\ Store(t, None)
    BY SettledFacts DEF Done, CallsFail
  <1>4. /\ \/ Done(t) /\ store' = refresh[t].got
           \/ ~ Done(t) /\ store' = None
        /\ store' = store \/ Tabs \ {t} \subseteq disturbed'
        /\ disturbed \subseteq disturbed'
    BY <1>3, StoreEffect
  <1>5. QED
    BY <1>1, <1>2, <1>4, <1>6, SettleExchange

\* Signing in and out exchange nothing.
LEMMA FormExchange ==
    ASSUME Tables, ExchangeInv, NEW t \in Tabs,
           SubmitSignIn(t) \/ FailSignIn(t) \/ SubmitSignOut(t) \/ ServeSignOut(t) \/ FinishSignOut(t)
    PROVE  ExchangeInv'
  <1>1. store' \in {store, None} /\ refresh' = refresh /\ disturbed \subseteq disturbed'
    BY DEF SubmitSignIn, FailSignIn, SubmitSignOut, ServeSignOut, FinishSignOut
  <1>2. Pairs' = Pairs /\ \A q \in Pairs : (pair'[q].state = "used") <=> (pair[q].state = "used")
    <2>1. CASE ServeSignOut(t)
      <3>1. pair' \in Seq(PairRecord) /\ Len(pair') = Len(pair)
        BY <2>1, SignOutFacts DEF Later
      <3>2. QED
        BY <2>1, <3>1, SignOutFacts, PairNumbers DEF Pairs, Tables
    <2>2. CASE pair' = pair
      BY <2>2 DEF Pairs
    <2>3. QED
      BY <2>1, <2>2 DEF SubmitSignIn, FailSignIn, SubmitSignOut, FinishSignOut
  <1>3. \A o \in Tabs : form'[o] = form[o] \/ form'[o].at # "signedIn"
    <2>1. CASE ServeSignOut(t)
      <3>1. form' = [form EXCEPT ![t].at = "signedOut"]
        BY <2>1 DEF ServeSignOut
      <3>2. QED
        BY <3>1, <2>1, SignOutFacts DEF Tables
    <2>2. \/ ServeSignOut(t)
          \/ \E f : f.at # "signedIn" /\ form' = [form EXCEPT ![t] = f]
      BY DEF SubmitSignIn, FailSignIn, SubmitSignOut, FinishSignOut, Idle
    <2>3. QED
      BY <2>1, <2>2 DEF Tables
  <1>4. QED
    BY <1>1, <1>2, <1>3, QuietExchange

\* The server issues a pair to a tab that signs in.
LEMMA ServeSignInExchange ==
    ASSUME Tables, ExchangeInv, NEW t \in Tabs, NEW u \in Users, ServeSignIn(t, u)
    PROVE  ExchangeInv'
  <1>1. /\ pair' = Issue(pair, u) /\ UNCHANGED <<store, refresh, disturbed>>
        /\ form' = [form EXCEPT ![t] = [at |-> "signedIn", got |-> NextPair]]
    BY DEF ServeSignIn
  <1>2. form'[t] = [at |-> "signedIn", got |-> NextPair]
    BY <1>1 DEF Tables
  <1>6. \A o \in Tabs \ {t} : form'[o] = form[o]
    BY <1>1 DEF Tables
  <1>3. /\ Later(pair, pair') /\ Len(pair') = Len(pair) + 1 /\ pair'[NextPair].state = "live"
        /\ \A q \in Pairs : pair'[q] = pair[q]
    BY <1>1, IssuePair DEF Tables, NextPair, Pairs
  <1>4. Pairs' = Pairs \union {NextPair}
    <2>1. pair' \in Seq(PairRecord) /\ pair \in Seq(PairRecord)
      BY <1>3 DEF Later, Tables
    <2>2. Pairs' = 1..(Len(pair) + 1) /\ Pairs = 1..Len(pair) /\ Len(pair) \in Nat
      BY <2>1, <1>3, PairNumbers DEF Pairs
    <2>3. QED
      BY <2>2 DEF NextPair
  <1>5. QED
    BY <1>1, <1>2, <1>3, <1>4, <1>6, SignInExchange

\* A tab that signed in stores its pair.
LEMMA FinishSignInExchange ==
    ASSUME Tables, ExchangeInv, NEW t \in Tabs, FinishSignIn(t)
    PROVE  ExchangeInv'
  <1>1. /\ SignedIn(t) /\ store' = form[t].got /\ form' = [form EXCEPT ![t] = Idle]
        /\ Tabs \ {t} \subseteq disturbed'
        /\ refresh[t] # Idle => t \in disturbed'
        /\ UNCHANGED <<pair, refresh>>
    BY DEF FinishSignIn, SignedIn, Overtaken
  <1>2. form'[t] = Idle
    BY <1>1 DEF Tables
  <1>6. \A o \in Tabs \ {t} : form'[o] = form[o]
    BY <1>1 DEF Tables
  <1>3. QED
    BY <1>1, <1>2, <1>6, FinishExchange

\* A tab is opened or reloaded.
LEMMA LoadPageExchange ==
    ASSUME Tables, ExchangeInv, NEW t \in Tabs, LoadPage(t)
    PROVE  ExchangeInv'
  <1>1. /\ refresh' = [refresh EXCEPT ![t] = Idle] /\ form' = [form EXCEPT ![t] = Idle]
        /\ pair' = Forgotten(t) /\ store' = store /\ disturbed \ {t} \subseteq disturbed'
    BY DEF LoadPage
  <1>2. refresh'[t] = Idle /\ refresh'[t].at # "done"
    BY <1>1 DEF Tables, Idle
  <1>3. \A o \in Tabs \ {t} : refresh'[o] = refresh[o]
    BY <1>1 DEF Tables
  <1>4. \A o \in Tabs : form'[o] = form[o] \/ form'[o] = Idle
    BY <1>1 DEF Tables
  <1>5. /\ Pairs' = Pairs
        /\ Done(t) => pair'[refresh[t].pair].state = "forgotten"
        /\ \A q \in Pairs : (Done(t) /\ q = refresh[t].pair) \/ pair'[q] = pair[q]
    BY <1>1, ForgottenFacts DEF Done
  <1>6. QED
    BY <1>1, <1>2, <1>3, <1>4, <1>5, LoseExchange

\* A session ends on the server.
LEMMA EndSessionExchange ==
    ASSUME Tables, ExchangeInv, NEW p \in Pairs, EndSession(p)
    PROVE  ExchangeInv'
  <1>1. UNCHANGED <<store, refresh, form, disturbed>>
    BY DEF EndSession
  <1>2. pair' \in Seq(PairRecord) /\ Len(pair') = Len(pair)
    BY EndSessionFacts DEF Later
  <1>3. Pairs' = Pairs /\ \A q \in Pairs : (pair'[q].state = "used") <=> (pair[q].state = "used")
    BY <1>2, EndSessionFacts, PairNumbers DEF Tables, Pairs
  <1>4. QED
    BY <1>1, <1>3, QuietExchange

\* ExchangeInv is an invariant.
LEMMA NextExchange == Tables /\ ExchangeInv /\ [Next]_vars => ExchangeInv'
  <1> SUFFICES ASSUME Tables, ExchangeInv, [Next]_vars PROVE ExchangeInv'
    OBVIOUS
  <1>1. ASSUME NEW p \in Pairs, EndSession(p) PROVE ExchangeInv'
    BY <1>1, EndSessionExchange
  <1>2. ASSUME NEW t \in Tabs, TabStep(t) PROVE ExchangeInv'
    BY <1>2, HandleRefusedExchange, HandleAnswerExchange, SettleRefreshExchange, FinishSignInExchange,
       FormExchange DEF TabStep
  <1>3. ASSUME NEW t \in Tabs, ServerStep(t) PROVE ExchangeInv'
    BY <1>3, RequestExchange, ServeRefreshExchange, LoseRefreshExchange, ServeSignInExchange, FormExchange
       DEF ServerStep
  <1>4. ASSUME NEW t \in Tabs, NEW c \in Calls[t], Ask(t, c) PROVE ExchangeInv'
    <2>1. c \in Slots(t)
      BY DEF Slots
    <2>2. QED
      BY <1>4, <2>1, RequestExchange
  <1>5. ASSUME NEW t \in Tabs, SubmitSignIn(t) \/ SubmitSignOut(t) PROVE ExchangeInv'
    BY <1>5, FormExchange
  <1>6. ASSUME NEW t \in Tabs, LoadPage(t) PROVE ExchangeInv'
    BY <1>6, LoadPageExchange
  <1>7. CASE UNCHANGED vars
    <2>1. UNCHANGED <<pair, store, refresh, form, disturbed>> /\ Pairs' = Pairs
      BY <1>7 DEF vars, Pairs
    <2>2. QED
      BY <2>1, QuietExchange
  <1>8. QED
    BY <1>1, <1>2, <1>3, <1>4, <1>5, <1>6, <1>7 DEF Next

\* NoSelfRace: a token that was exchanged and is refused to a page that nobody
\* disturbed is one whose exchange is still under way in another tab.
THEOREM RacesAreOfTwoTabs == Spec => []NoSelfRace
  <1>1. Tables /\ ExchangeInv => NoSelfRace
    <2> SUFFICES ASSUME Tables, ExchangeInv, NEW t \in Tabs,
                        refresh[t].at = "refused", pair[refresh[t].pair].state = "used", t \notin disturbed
                 PROVE  \E o \in Tabs \ {t} : refresh[o] # Idle /\ refresh[o].pair = refresh[t].pair
      BY DEF NoSelfRace
    <2>1. refresh[t].pair \in Pairs /\ refresh[t] # Idle /\ ~ Done(t)
      BY RefreshShape DEF Done
    <2>2. PICK o \in Tabs : Done(o) /\ refresh[o].pair = refresh[t].pair
      BY <2>1 DEF ExchangeInv, SpentGone
    <2>3. o # t /\ refresh[o] # Idle
      BY <2>1, <2>2, ExchangeTypes
    <2>4. QED
      BY <2>2, <2>3
  <1>2. Init => Tables /\ ExchangeInv
    BY InitTables, InitExchange
  <1>3. Tables /\ ExchangeInv /\ [Next]_vars => (Tables /\ ExchangeInv)'
    BY NextTables, NextExchange
  <1>4. QED
    BY <1>1, <1>2, <1>3, PTL DEF Spec

-----------------------------------------------------------------------------
(* A page shows the account of its tokens *)

Me(t) == call[t]["me"]
OwnerOf(p) == pair[p].owner

\* A page that loads has nothing else under way, and its one request waits for
\* the refresh that it has begun.
Loads(t) ==
    /\ loading[t] => /\ Me(t) # Idle /\ user[t] = None /\ form[t] = Idle
                     /\ \A c \in Calls[t] : call[t][c] = Idle
                     /\ refresh[t] # Idle => Me(t).at = "wait"
    /\ ~ loading[t] => Me(t) = Idle

\* The user, the request for the user and the refresh of a tab that nothing
\* has interfered with are those of the stored pair.
Session(t) ==
    t \notin disturbed =>
        /\ user[t] # None /\ store # None => OwnerOf(store) = user[t]
        /\ Me(t) # Idle /\ store # None => Me(t).as = OwnerOf(store)
        /\ refresh[t] # Idle => refresh[t].pair = store

\* A new pair is that of the same account.
SameOwner(t) == refresh[t].at = "done" => OwnerOf(refresh[t].got) = OwnerOf(refresh[t].pair)

TabInv(t) == Loads(t) /\ Session(t) /\ SameOwner(t)
SessionInv == \A t \in Tabs : TabInv(t)

\* A browser that was never used shows nobody.
LEMMA InitSession == Init => SessionInv
  <1> SUFFICES ASSUME Init, NEW t \in Tabs PROVE TabInv(t)
    BY DEF SessionInv
  <1>1. /\ ~ loading[t] /\ user[t] = None /\ store = None /\ refresh[t] = Idle
        /\ call[t] = [c \in Slots(t) |-> Idle]
    BY DEF Init
  <1>2. Me(t) = Idle
    BY <1>1 DEF Me, Slots
  <1>3. Idle.at # "done"
    BY DEF Idle
  <1>4. QED
    BY <1>1, <1>2, <1>3 DEF TabInv, Loads, Session, SameOwner

\* The tabs that do not take the step.
LEMMA OthersSession ==
    ASSUME Tables, NEW t \in Tabs, Effect(t), NEW o \in Tabs \ {t}, TabInv(o)
    PROVE  TabInv(o)'
  <1>1. /\ refresh'[o] = refresh[o] /\ form'[o] = form[o] /\ user'[o] = user[o]
        /\ loading'[o] = loading[o] /\ call'[o] = call[o]
    BY OthersStay
  <1>2. \A p \in Pairs : pair'[p].owner = pair[p].owner
    BY DEF Effect, Later, Pairs
  <1>3. o \notin disturbed' => o \notin disturbed /\ store' = store
    BY DEF Effect
  <1>4. /\ refresh[o] # Idle => refresh[o].pair \in Pairs
        /\ refresh[o].at = "done" => refresh[o].got \in Pairs /\ refresh[o].pair \in Pairs
        /\ store # None => store \in Pairs
    BY ExchangeTypes DEF Done
  <1>5. Loads(o)'
    BY <1>1 DEF TabInv, Loads, Me
  <1>6. Session(o)'
    BY <1>1, <1>2, <1>3, <1>4 DEF TabInv, Session, Me, OwnerOf
  <1>7. SameOwner(o)'
    BY <1>1, <1>2, <1>4 DEF TabInv, SameOwner, OwnerOf
  <1>8. QED
    BY <1>5, <1>6, <1>7 DEF TabInv

\* Steps that change neither the account nor the stored tokens.
LEMMA QuietSession ==
    ASSUME Tables, NEW t \in Tabs, TabInv(t), Later(pair, pair'),
           store' = store, disturbed' = disturbed,
           user'[t] = user[t], loading'[t] = loading[t], loading[t] => form'[t] = Idle,
           Me(t)' = Idle <=> Me(t) = Idle, Me(t) # Idle => Me(t)'.as = Me(t).as,
           loading[t] => \A c \in Calls[t] : call'[t][c] = Idle,
           \/ refresh'[t] = refresh[t]
           \/ refresh'[t].at # "done" /\ refresh'[t].pair = store
           \/ refresh'[t].at # "done" /\ refresh[t] # Idle /\ refresh'[t].pair = refresh[t].pair,
           loading[t] /\ refresh'[t] # Idle => Me(t)'.at = "wait"
    PROVE  TabInv(t)'
  <1>1. \A p \in Pairs : pair'[p].owner = pair[p].owner
    BY DEF Later, Pairs
  <1>2. /\ refresh[t].at = "done" => refresh[t].got \in Pairs /\ refresh[t].pair \in Pairs
        /\ store # None => store \in Pairs
    BY ExchangeTypes DEF Done
  <1>3. Loads(t)'
    BY DEF TabInv, Loads, Me
  <1>4. Session(t)'
    BY <1>1, <1>2 DEF TabInv, Session, Me, OwnerOf
  <1>5. SameOwner(t)'
    BY <1>1, <1>2 DEF TabInv, SameOwner, OwnerOf
  <1>6. QED
    BY <1>3, <1>4, <1>5 DEF TabInv

\* A step that writes one call, of a page or of its loading.
LEMMA CallSession ==
    ASSUME Tables, NEW t \in Tabs, NEW c \in Slots(t), NEW k, TabInv(t), Later(pair, pair'),
           call' = [call EXCEPT ![t][c] = k],
           UNCHANGED <<store, disturbed, user, loading, form>>,
           call[t][c] # Idle \/ (c # "me" /\ ~ loading[t]),
           c = "me" => k # Idle /\ k.as = call[t][c].as,
           \/ refresh'[t] = refresh[t]
           \/ refresh'[t].at # "done" /\ refresh'[t].pair = store,
           c = "me" /\ refresh'[t] # Idle => k.at = "wait"
    PROVE  TabInv(t)'
  <1>1. call[t] \in CallsOf(t) /\ "me" \in Slots(t)
    BY DEF Tables, Slots
  <1>2. call'[t] = [call[t] EXCEPT ![c] = k]
    BY DEF Tables
  <1>3. call'[t][c] = k /\ \A d \in Slots(t) \ {c} : call'[t][d] = call[t][d]
    BY <1>1, <1>2 DEF CallsOf
  <1>4. CASE c = "me"
    <2>1. \A d \in Calls[t] : call'[t][d] = call[t][d]
      BY <1>3, <1>4, CallsAssumption DEF Slots
    <2>2. QED
      BY <2>1, <1>3, <1>4, QuietSession DEF TabInv, Loads, Me
  <1>5. CASE c # "me"
    <2>1. c \in Calls[t] /\ Me(t)' = Me(t) /\ ~ loading[t]
      BY <1>1, <1>3, <1>5 DEF Slots, Me, TabInv, Loads
    <2>2. QED
      BY <2>1, QuietSession
  <1>6. QED
    BY <1>4, <1>5

\* What an answer leaves of the call it is for.
LEMMA AnswerFacts ==
    ASSUME Tables, NEW t \in Tabs, NEW c \in Slots(t), call[t][c].at # "idle",
           NEW st \in {"sent", "ok", "401", "failed", "wait"}, Answer(t, c, st)
    PROVE  /\ call[t][c] # Idle
           /\ \E k : /\ call' = [call EXCEPT ![t][c] = k]
                     /\ k # Idle /\ k.at = st /\ k.as = call[t][c].as
  <1>1. call[t][c] # Idle
    BY DEF Idle
  <1>2. /\ call[t][c] \in CallRecord
        /\ [call EXCEPT ![t][c].at = st] = [call EXCEPT ![t][c] = [call[t][c] EXCEPT !.at = st]]
    BY AnswerType
  <1>3. call' = [call EXCEPT ![t][c] = [call[t][c] EXCEPT !.at = st]]
    BY <1>2 DEF Answer
  <1>4. PICK k : k = [call[t][c] EXCEPT !.at = st]
    OBVIOUS
  <1>5. k # Idle /\ k.at = st /\ k.as = call[t][c].as
    BY <1>2, <1>4 DEF CallRecord, Idle
  <1>6. QED
    BY <1>1, <1>3, <1>4, <1>5

\* Requests and their answers.
LEMMA RequestSession ==
    ASSUME Tables, NEW t \in Tabs, NEW c \in Slots(t), TabInv(t),
           Refuse(t, c) \/ Fail(t, c) \/ End(t, c) \/ Serve(t, c) \/ (c \in Calls[t] /\ Ask(t, c))
    PROVE  TabInv(t)'
  <1>1. /\ UNCHANGED <<store, disturbed, user, loading, form, refresh>>
        /\ Later(pair, pair')
    <2>1. pair' = pair => Later(pair, pair')
      BY LaterItself DEF Tables
    <2>2. Serve(t, c) => Later(pair, pair')
      <3>1. HAVE Serve(t, c)
      <3>2. QED
        BY <3>1, RequestEffect DEF Effect
    <2>3. QED
      BY <2>1, <2>2 DEF Refuse, Fail, End, Serve, Ask
  <1>2. CASE c \in Calls[t] /\ Ask(t, c)
    <2>1. /\ call' = [call EXCEPT ![t][c] = Sent(c, store, TRUE)]
          /\ ~ loading[t] /\ c # "me"
      BY <1>2, CallsAssumption DEF Ask
    <2>2. QED
      BY <1>1, <2>1, CallSession
  <1>3. CASE End(t, c)
    <2>1. /\ call' = [call EXCEPT ![t][c] = Idle] /\ c # "me"
          /\ call[t][c].at # "idle"
      BY <1>3 DEF End, Followed
    <2>2. call[t][c] # Idle
      BY <2>1 DEF Idle
    <2>3. QED
      BY <1>1, <2>1, <2>2, CallSession
  <1>4. ASSUME NEW st \in {"ok", "401", "failed"}, Answer(t, c, st),
               call[t][c].at \in {"sent", "ok"}
        PROVE  TabInv(t)'
    <2>1. call[t][c].at # "idle"
      BY <1>4
    <2>2. /\ call[t][c] # Idle
          /\ \E k : /\ call' = [call EXCEPT ![t][c] = k]
                    /\ k # Idle /\ k.at = st /\ k.as = call[t][c].as
      BY <1>4, <2>1, AnswerFacts
    <2>3. c = "me" => refresh[t] = Idle
      BY <1>4, <2>2 DEF TabInv, Loads, Me
    <2>4. QED
      BY <1>1, <2>2, <2>3, CallSession
  <1>5. QED
    BY <1>2, <1>3, <1>4 DEF Refuse, Fail, Serve

\* The pages that a refused request leaves without a session.
LEMMA FailSession ==
    ASSUME Tables, NEW t \in Tabs, NEW slots \in SUBSET Slots(t), TabInv(t), pair' = pair,
           store' = None, disturbed \subseteq disturbed',
           \A c \in Slots(t) : call'[t][c] = IF c \in slots THEN Idle ELSE call[t][c],
           "me" \in slots => user'[t] = None /\ loading'[t] = FALSE,
           "me" \notin slots => user'[t] = user[t] /\ loading'[t] = loading[t],
           loading[t] => "me" \in slots, form'[t] = form[t] \/ ~ loading[t],
           refresh'[t] = Idle \/ (store = None /\ refresh'[t] = refresh[t])
    PROVE  TabInv(t)'
  <1>1. "me" \in Slots(t) /\ ~ loading'[t] /\ loading[t] \in BOOLEAN
    BY DEF Slots, Tables
  <1>2. Me(t)' = Idle
    BY <1>1 DEF TabInv, Loads, Me
  <1>3. Loads(t)'
    BY <1>1, <1>2 DEF Loads
  <1>4. store = None /\ refresh[t] # Idle => t \in disturbed
    BY ExchangeTypes DEF TabInv, Session
  <1>5. Session(t)'
    BY <1>2, <1>4 DEF Session
  <1>6. SameOwner(t)'
    BY DEF TabInv, SameOwner, OwnerOf, Idle
  <1>7. QED
    BY <1>3, <1>5, <1>6 DEF TabInv

\* A 401 starts a refresh, joins one or fails.
LEMMA HandleRefusedSession ==
    ASSUME Tables, NEW t \in Tabs, NEW c \in Slots(t), TabInv(t), HandleRefused(t, c)
    PROVE  TabInv(t)'
  <1>1. pair' = pair /\ form' = form /\ call[t][c].at = "401" /\ Later(pair, pair')
    BY LaterItself DEF HandleRefused, Tables
  <1>2. CASE store = None
    <2>1. CallsFail(t, {c}) /\ refresh' = refresh
      BY <1>2 DEF HandleRefused
    <2>2. refresh' = [refresh EXCEPT ![t] = refresh'[t]] /\ refresh'[t] \in Refreshes(Len(pair))
          /\ form' = [form EXCEPT ![t] = form'[t]] /\ form'[t] \in Forms(Len(pair))
      BY <1>1, <2>1, SameTypes
    <2>3. /\ store' = None /\ disturbed \subseteq disturbed'
          /\ \A d \in Slots(t) : call'[t][d] = IF d \in {c} THEN Idle ELSE call[t][d]
          /\ "me" \in {c} => user'[t] = None /\ loading'[t] = FALSE
          /\ "me" \notin {c} => user'[t] = user[t] /\ loading'[t] = loading[t]
      BY <1>1, <2>1, <2>2, FailEffect
    <2>4. loading[t] => "me" \in {c}
      BY <1>1 DEF TabInv, Loads, Slots, Idle
    <2>5. QED
      BY <1>1, <1>2, <2>1, <2>3, <2>4, FailSession
  <1>3. CASE store # None
    <2>1. /\ UNCHANGED <<store, user, loading, disturbed>> /\ Answer(t, c, "wait")
          /\ refresh' = refresh \/ refresh' = [refresh EXCEPT ![t] = [at |-> "sent", pair |-> store]]
      BY <1>3 DEF HandleRefused, Answer
    <2>2. call[t][c].at # "idle"
      BY <1>1
    <2>3. /\ call[t][c] # Idle
          /\ \E k : /\ call' = [call EXCEPT ![t][c] = k]
                    /\ k # Idle /\ k.at = "wait" /\ k.as = call[t][c].as
      BY <2>1, <2>2, AnswerFacts
    <2>4. \/ refresh'[t] = refresh[t]
          \/ refresh'[t].at # "done" /\ refresh'[t].pair = store
      BY <2>1 DEF Tables
    <2>5. QED
      BY <1>1, <2>1, <2>3, <2>4, CallSession
  <1>4. QED
    BY <1>2, <1>3

\* The answer of GET /auth/me names the account of the stored pair.
LEMMA HandleAnswerSession ==
    ASSUME Tables, NEW t \in Tabs, NEW c \in Slots(t), TabInv(t), HandleAnswer(t, c)
    PROVE  TabInv(t)'
  <1>1. /\ pair' = pair /\ refresh' = refresh /\ call[t][c].at \in {"ok", "failed", "401"}
        /\ Later(pair, pair')
    BY LaterItself DEF HandleAnswer, Tables
  <1>2. /\ form' = [form EXCEPT ![t] = form'[t]] /\ form'[t] \in Forms(Len(pair))
        /\ c = "me" => form' = form
    BY <1>1, HandleAnswerEffect DEF Effect, HandleAnswer
  <1>3. /\ call[t][c] # Idle
        /\ loading[t] => c = "me" /\ refresh[t] = Idle
        /\ c = "me" => loading[t] /\ refresh[t] = Idle /\ form[t] = Idle
    BY <1>1 DEF TabInv, Loads, Me, Slots, Idle, Tables
  <1>4. CASE c = "me" /\ call[t][c].at # "ok"
    <2>1. CallsFail(t, {c})
      BY <1>4 DEF HandleAnswer
    <2>2. refresh' = [refresh EXCEPT ![t] = refresh'[t]] /\ refresh'[t] \in Refreshes(Len(pair))
      BY <1>1, SameTypes
    <2>3. /\ store' = None /\ disturbed \subseteq disturbed'
          /\ \A d \in Slots(t) : call'[t][d] = IF d \in {c} THEN Idle ELSE call[t][d]
          /\ "me" \in {c} => user'[t] = None /\ loading'[t] = FALSE
          /\ "me" \notin {c} => user'[t] = user[t] /\ loading'[t] = loading[t]
      BY <1>1, <1>2, <2>1, <2>2, FailEffect
    <2>4. refresh'[t] = Idle /\ form'[t] = form[t] /\ "me" \in {c}
      BY <1>1, <1>2, <1>3, <1>4
    <2>5. QED
      BY <1>1, <2>3, <2>4, FailSession
  <1>5. CASE c = "me" /\ call[t][c].at = "ok"
    <2>1. /\ call' = [call EXCEPT ![t][c] = Idle]
          /\ user' = [user EXCEPT ![t] = call[t][c].as]
          /\ loading' = [loading EXCEPT ![t] = FALSE]
          /\ UNCHANGED <<store, disturbed>>
      BY <1>5 DEF HandleAnswer
    <2>2. Me(t)' = Idle /\ user'[t] = Me(t).as /\ ~ loading'[t] /\ refresh'[t] = Idle
      BY <1>1, <1>3, <1>5, <2>1 DEF Tables, Me, CallsOf
    <2>3. Me(t) # Idle
      BY <1>3, <1>5 DEF Me
    <2>4. Loads(t)'
      BY <2>2 DEF Loads
    <2>5. Session(t)'
      BY <1>1, <2>1, <2>2, <2>3 DEF TabInv, Session, OwnerOf
    <2>6. SameOwner(t)'
      BY <2>2 DEF SameOwner, Idle
    <2>7. QED
      BY <2>4, <2>5, <2>6 DEF TabInv
  <1>6. CASE c # "me"
    <2>1. /\ call' = [call EXCEPT ![t][c] = Idle]
          /\ UNCHANGED <<user, loading, store, disturbed>>
          /\ ~ loading[t]
      BY <1>3, <1>6 DEF HandleAnswer
    <2>2. Me(t)' = Me(t)
      BY <1>6, <2>1 DEF Tables, Me, CallsOf, Slots
    <2>3. QED
      BY <1>1, <2>1, <2>2, QuietSession
  <1>7. QED
    BY <1>4, <1>5, <1>6

\* The server exchanges a token for one of the same account.
LEMMA ServeRefreshSession ==
    ASSUME Tables, NEW t \in Tabs, TabInv(t), ServeRefresh(t)
    PROVE  TabInv(t)'
  <1> DEFINE p == refresh[t].pair
  <1>1. UNCHANGED <<store, user, loading, call, form, disturbed>> /\ refresh[t].at = "sent" /\ refresh[t] # Idle
    BY RefreshShape DEF ServeRefresh
  <1>2. Me(t)' = Me(t)
    BY <1>1 DEF Me
  <1>3. CASE Live(p)
    <2>1. /\ refresh' = [refresh EXCEPT ![t] = [at |-> "done", pair |-> p, got |-> NextPair]]
          /\ p \in Pairs /\ Later(pair, pair') /\ pair'[NextPair].owner = pair[p].owner
      BY <1>3, ExchangeFacts
    <2>2. refresh'[t] = [at |-> "done", pair |-> p, got |-> NextPair]
      BY <2>1 DEF Tables
    <2> HIDE DEF p
    <2>3. refresh'[t].pair = p /\ refresh'[t].got = NextPair /\ refresh[t].pair = p
      BY <2>2 DEF p
    <2>4. \A q \in Pairs : pair'[q].owner = pair[q].owner
      BY <2>1 DEF Later, Pairs
    <2>5. SameOwner(t)'
      BY <2>1, <2>3, <2>4 DEF SameOwner, OwnerOf
    <2>6. Loads(t)'
      BY <1>1, <1>2 DEF TabInv, Loads
    <2>7. store # None => OwnerOf(store)' = OwnerOf(store)
      BY <1>1, <2>4, ExchangeTypes DEF OwnerOf
    <2>8. Session(t)'
      BY <1>1, <1>2, <2>3, <2>7 DEF TabInv, Session, OwnerOf
    <2>9. QED
      BY <2>5, <2>6, <2>8 DEF TabInv
  <1>4. CASE ~ Live(p)
    <2>1. refresh' = [refresh EXCEPT ![t] = [at |-> "refused", pair |-> p]] /\ pair' = pair
      BY <1>4 DEF ServeRefresh
    <2>2. refresh'[t].at # "done" /\ refresh'[t].pair = refresh[t].pair
      BY <2>1 DEF Tables
    <2>3. Later(pair, pair')
      BY <2>1, LaterItself DEF Tables
    <2>4. loading[t] => form'[t] = Idle /\ Me(t)'.at = "wait" /\ \A c \in Calls[t] : call'[t][c] = Idle
      BY <1>1, <1>2 DEF TabInv, Loads
    <2>5. QED
      BY <1>1, <1>2, <2>2, <2>3, <2>4, QuietSession
  <1>5. QED
    BY <1>3, <1>4

\* The answer of an exchange is lost.
LEMMA LoseRefreshSession ==
    ASSUME Tables, NEW t \in Tabs, TabInv(t), LoseRefresh(t)
    PROVE  TabInv(t)'
  <1>1. /\ UNCHANGED <<store, user, loading, call, form, disturbed>> /\ refresh[t] # Idle
        /\ refresh' = [refresh EXCEPT ![t] = [at |-> "lost", pair |-> refresh[t].pair]]
        /\ pair' = Forgotten(t)
    BY DEF LoseRefresh, Idle
  <1>2. Me(t)' = Me(t)
    BY <1>1 DEF Me
  <1>3. refresh'[t].at # "done" /\ refresh'[t].pair = refresh[t].pair
    BY <1>1 DEF Tables
  <1>4. Later(pair, pair')
    BY <1>1, ForgottenFacts
  <1>5. loading[t] => form'[t] = Idle /\ Me(t)'.at = "wait" /\ \A c \in Calls[t] : call'[t][c] = Idle
    BY <1>1, <1>2 DEF TabInv, Loads
  <1>6. QED
    BY <1>1, <1>2, <1>3, <1>4, <1>5, QuietSession

\* The calls that wait are sent again for the same account.
LEMMA SettleRefreshSession ==
    ASSUME Tables, NEW t \in Tabs, TabInv(t), SettleRefresh(t)
    PROVE  TabInv(t)'
  <1>1. /\ refresh[t] # Idle /\ pair' = pair /\ form' = form
        /\ refresh' = [refresh EXCEPT ![t] = Idle]
    BY SettledFacts
  <1>2. refresh'[t] = Idle
    BY <1>1 DEF Tables
  <1>3. "me" \in Slots(t) /\ call[t] \in CallsOf(t)
    BY DEF Slots, Tables
  <1>4. CASE refresh[t].at = "done"
    <2>1. /\ Store(t, refresh[t].got) /\ UNCHANGED <<user, loading>>
          /\ call' = [call EXCEPT ![t] = Resent(t)]
      BY <1>4, SettledFacts
    <2>2. /\ store' = refresh[t].got /\ disturbed \subseteq disturbed'
          /\ refresh[t].got \in Pairs /\ refresh[t].got # None
          /\ refresh[t].pair # None
      BY <2>1, <1>1, <1>4, StoreEffect, ExchangeTypes DEF Done
    <2>3. call'[t] = Resent(t)
      BY <2>1 DEF Tables
    <2>4. \A c \in Slots(t) : call'[t][c] = IF call[t][c].at = "wait" THEN Sent(c, refresh[t].got, FALSE)
                                            ELSE call[t][c]
      BY <2>3 DEF Resent, Waiting
    <2>5. \A c \in Slots(t) : call[t][c] = Idle => call'[t][c] = Idle
      <3>1. Idle.at # "wait"
        BY DEF Idle
      <3>2. QED
        BY <2>4, <3>1
    <2>6. loading[t] => Me(t)'.as = OwnerOf(refresh[t].got) /\ Me(t)' # Idle
      <3>1. HAVE loading[t]
      <3>2. Me(t)' = Sent("me", refresh[t].got, FALSE)
        BY <3>1, <1>1, <1>3, <2>4 DEF TabInv, Loads, Me
      <3>3. /\ Sent("me", refresh[t].got, FALSE) \in CallRecord
            /\ Sent("me", refresh[t].got, FALSE).as = pair[refresh[t].got].owner
        <4>1. PICK g : g = refresh[t].got /\ g \in Pairs /\ g # None
          BY <2>2
        <4>2. "me" \in Followed
          BY DEF Followed
        <4>3. Sent("me", g, FALSE) \in CallRecord
          BY <4>1, SentTypes
        <4>4. Sent("me", g, FALSE).as = pair[g].owner
          BY <4>1, <4>2 DEF Sent
        <4>5. QED
          BY <4>1, <4>3, <4>4
      <3>4. QED
        BY <3>2, <3>3, IdleShape DEF OwnerOf
    <2>7. Loads(t)'
      BY <1>1, <1>2, <1>3, <2>1, <2>5, <2>6 DEF TabInv, Loads, Me, Slots
    <2>8. SameOwner(t)'
      BY <1>2 DEF SameOwner, Idle
    <2>9. OwnerOf(refresh[t].got) = OwnerOf(refresh[t].pair)
      BY <1>4 DEF TabInv, SameOwner
    <2>10. Me(t)' # Idle => loading[t]
      BY <2>1, <2>7, <1>3 DEF Loads, Tables
    <2>11. Session(t)'
      BY <1>1, <1>2, <2>1, <2>2, <2>6, <2>9, <2>10 DEF TabInv, Session, OwnerOf
    <2>12. QED
      BY <2>7, <2>8, <2>11 DEF TabInv
  <1>5. CASE refresh[t].at # "done"
    <2>1. CallsFail(t, Waiting(t)) /\ Waiting(t) \in SUBSET Slots(t)
      BY <1>5, SettledFacts DEF Waiting
    <2>2. /\ refresh' = [refresh EXCEPT ![t] = refresh'[t]] /\ refresh'[t] \in Refreshes(Len(pair))
          /\ form' = [form EXCEPT ![t] = form'[t]] /\ form'[t] \in Forms(Len(pair))
      BY <1>1, <1>2, SettleRefreshEffect DEF Effect
    <2>3. /\ store' = None /\ disturbed \subseteq disturbed'
          /\ \A d \in Slots(t) : call'[t][d] = IF d \in Waiting(t) THEN Idle ELSE call[t][d]
          /\ "me" \in Waiting(t) => user'[t] = None /\ loading'[t] = FALSE
          /\ "me" \notin Waiting(t) => user'[t] = user[t] /\ loading'[t] = loading[t]
      BY <1>1, <2>1, <2>2, FailEffect
    <2>4. loading[t] => "me" \in Waiting(t)
      BY <1>1, <1>3 DEF TabInv, Loads, Waiting, Me
    <2>5. QED
      BY <1>1, <1>2, <2>1, <2>3, <2>4, FailSession
  <1>6. QED
    BY <1>4, <1>5

\* A page that signs in or out has loaded.
LEMMA FormSession ==
    ASSUME Tables, NEW t \in Tabs, TabInv(t),
           \/ SubmitSignIn(t) \/ FailSignIn(t) \/ SubmitSignOut(t) \/ ServeSignOut(t)
           \/ \E u \in Users : ServeSignIn(t, u)
    PROVE  TabInv(t)'
  <1>1. UNCHANGED <<store, user, loading, refresh, call, disturbed>>
    BY DEF SubmitSignIn, FailSignIn, SubmitSignOut, ServeSignOut, ServeSignIn
  <1>2. ~ loading[t]
    BY DEF SubmitSignIn, FailSignIn, SubmitSignOut, ServeSignOut, ServeSignIn, MaySignIn, TabInv, Loads, Idle
  <1>3. Later(pair, pair')
    BY SignInEffect, ServeSignOutEffect DEF Effect
  <1>4. Me(t)' = Me(t)
    BY <1>1 DEF Me
  <1>5. QED
    BY <1>1, <1>2, <1>3, <1>4, QuietSession

\* The account changes with the tokens.
LEMMA FinishSession ==
    ASSUME Tables, NEW t \in Tabs, TabInv(t), FinishSignIn(t) \/ FinishSignOut(t)
    PROVE  TabInv(t)'
  <1>1. UNCHANGED <<pair, loading, refresh, call>> /\ ~ loading[t]
    BY DEF FinishSignIn, FinishSignOut, TabInv, Loads, Idle
  <1>2. refresh[t] # Idle => t \in disturbed'
    BY DEF FinishSignIn, FinishSignOut, Overtaken
  <1>3. Me(t)' = Idle
    BY <1>1 DEF TabInv, Loads, Me
  <1>4. store' # None => user'[t] = OwnerOf(store')
    <2>1. CASE FinishSignIn(t)
      <3>1. user' = [user EXCEPT ![t] = pair[form[t].got].owner] /\ store' = form[t].got
        BY <2>1 DEF FinishSignIn
      <3>2. QED
        BY <3>1 DEF Tables, OwnerOf
    <2>2. CASE FinishSignOut(t)
      BY <2>2 DEF FinishSignOut
    <2>3. QED
      BY <2>1, <2>2
  <1>5. Loads(t)'
    BY <1>1, <1>3 DEF Loads, TabInv
  <1>6. Session(t)'
    BY <1>1, <1>2, <1>3, <1>4 DEF Session, OwnerOf
  <1>7. SameOwner(t)'
    BY <1>1 DEF TabInv, SameOwner, OwnerOf
  <1>8. QED
    BY <1>5, <1>6, <1>7 DEF TabInv

\* A tab is opened or reloaded: it asks whose the stored tokens are.
LEMMA LoadPageSession ==
    ASSUME Tables, NEW t \in Tabs, TabInv(t), LoadPage(t)
    PROVE  TabInv(t)'
  <1>1. /\ user' = [user EXCEPT ![t] = None] /\ loading' = [loading EXCEPT ![t] = store # None]
        /\ refresh' = [refresh EXCEPT ![t] = Idle] /\ form' = [form EXCEPT ![t] = Idle]
        /\ pair' = Forgotten(t) /\ store' = store
        /\ call' = [call EXCEPT ![t] = [c \in Slots(t) |->
                        IF c = "me" /\ store # None THEN Sent(c, store, TRUE) ELSE Idle]]
    BY DEF LoadPage
  <1>2. /\ user'[t] = None /\ loading'[t] = (store # None)
        /\ refresh'[t] = Idle /\ form'[t] = Idle
    BY <1>1 DEF Tables
  <1>3. call'[t] = [c \in Slots(t) |-> IF c = "me" /\ store # None THEN Sent(c, store, TRUE) ELSE Idle]
    BY <1>1 DEF Tables
  <1>4. /\ Me(t)' = IF store # None THEN Sent("me", store, TRUE) ELSE Idle
        /\ \A c \in Calls[t] : call'[t][c] = Idle
    BY <1>3, CallsAssumption DEF Me, Slots
  <1>5. store # None => /\ store \in Pairs /\ Sent("me", store, TRUE) # Idle
                        /\ Sent("me", store, TRUE).as = pair[store].owner
    BY SentTypes, IdleShape, ExchangeTypes DEF Followed
  <1>6. store # None => OwnerOf(store)' = pair[store].owner
    BY <1>1, <1>5, ForgottenFacts DEF OwnerOf, Later, Pairs
  <1>7. Loads(t)'
    BY <1>2, <1>4, <1>5 DEF Loads
  <1>8. Session(t)'
    BY <1>1, <1>2, <1>4, <1>5, <1>6 DEF Session, OwnerOf
  <1>9. SameOwner(t)'
    BY <1>2 DEF SameOwner, Idle
  <1>10. QED
    BY <1>7, <1>8, <1>9 DEF TabInv

\* A session ends on the server: its page does not know.
LEMMA EndSessionSession ==
    ASSUME Tables, NEW p \in Pairs, EndSession(p), NEW t \in Tabs, TabInv(t)
    PROVE  TabInv(t)'
  <1>1. UNCHANGED <<store, user, loading, refresh, call, form, disturbed>>
    BY DEF EndSession
  <1>2. Later(pair, pair') /\ Me(t)' = Me(t)
    BY <1>1, EndSessionFacts DEF Me
  <1>3. loading[t] => form'[t] = Idle /\ (\A c \in Calls[t] : call'[t][c] = Idle)
                      /\ (refresh'[t] # Idle => Me(t)'.at = "wait")
    BY <1>1, <1>2 DEF TabInv, Loads
  <1>4. QED
    BY <1>1, <1>2, <1>3, QuietSession

\* Every step that t takes, or the server for t.
LEMMA StepSession ==
    ASSUME Tables, NEW t \in Tabs, TabInv(t),
           \/ TabStep(t) \/ ServerStep(t)
           \/ \E c \in Calls[t] : Ask(t, c)
           \/ SubmitSignIn(t) \/ SubmitSignOut(t) \/ LoadPage(t)
    PROVE  TabInv(t)'
  <1>1. CASE TabStep(t)
    BY <1>1, HandleRefusedSession, HandleAnswerSession, SettleRefreshSession, FinishSession DEF TabStep
  <1>2. CASE ServerStep(t)
    BY <1>2, RequestSession, ServeRefreshSession, LoseRefreshSession, FormSession DEF ServerStep
  <1>3. ASSUME NEW c \in Calls[t], Ask(t, c) PROVE TabInv(t)'
    <2>1. c \in Slots(t)
      BY DEF Slots
    <2>2. QED
      BY <1>3, <2>1, RequestSession
  <1>4. CASE SubmitSignIn(t) \/ SubmitSignOut(t) \/ LoadPage(t)
    BY <1>4, FormSession, LoadPageSession
  <1>5. QED
    BY <1>1, <1>2, <1>3, <1>4

\* SessionInv is an invariant.
LEMMA NextSession == Tables /\ SessionInv /\ [Next]_vars => SessionInv'
  <1> SUFFICES ASSUME Tables, SessionInv, [Next]_vars, NEW o \in Tabs PROVE TabInv(o)'
    BY DEF SessionInv
  <1>1. \A t \in Tabs : TabInv(t)
    BY DEF SessionInv
  <1>2. ASSUME NEW p \in Pairs, EndSession(p) PROVE TabInv(o)'
    BY <1>1, <1>2, EndSessionSession
  <1>3. ASSUME NEW t \in Tabs,
               \/ TabStep(t) \/ ServerStep(t)
               \/ \E c \in Calls[t] : Ask(t, c)
               \/ SubmitSignIn(t) \/ SubmitSignOut(t) \/ LoadPage(t)
        PROVE  TabInv(o)'
    <2>1. CASE o = t
      BY <1>1, <1>3, <2>1, StepSession
    <2>2. CASE o # t
      BY <1>1, <1>3, <2>2, StepEffect, OthersSession
    <2>3. QED
      BY <2>1, <2>2
  <1>4. CASE UNCHANGED vars
    <2>1. UNCHANGED <<store, pair, user, loading, refresh, call, form, disturbed>>
      BY <1>4 DEF vars
    <2>2. QED
      BY <1>1, <2>1 DEF TabInv, Loads, Session, SameOwner, Me, OwnerOf
  <1>5. QED
    BY <1>2, <1>3, <1>4 DEF Next

\* PageShowsItsSession.
THEOREM PagesShowTheirSession == Spec => []PageShowsItsSession
  <1>1. Tables /\ SessionInv => PageShowsItsSession
    BY DEF SessionInv, TabInv, Session, OwnerOf, PageShowsItsSession
  <1>2. Init => Tables /\ SessionInv
    BY InitTables, InitSession
  <1>3. Tables /\ SessionInv /\ [Next]_vars => (Tables /\ SessionInv)'
    BY NextTables, NextSession
  <1>4. QED
    BY <1>1, <1>2, <1>3, PTL DEF Spec

-----------------------------------------------------------------------------
(* Types *)

\* A call that waits has a refresh to wait for.
Waits(t) == \A c \in Slots(t) : call[t][c].at = "wait" => refresh[t] # Idle
WaitsInv == \A t \in Tabs : Waits(t)

\* A step that writes one call.
LEMMA OneCallWaits ==
    ASSUME Tables, NEW t \in Tabs, NEW c \in Slots(t), NEW k, Waits(t),
           call' = [call EXCEPT ![t][c] = k],
           k.at = "wait" => refresh'[t] # Idle, refresh[t] # Idle => refresh'[t] # Idle
    PROVE  Waits(t)'
  <1>1. call'[t] = [call[t] EXCEPT ![c] = k] /\ call[t] \in CallsOf(t)
    BY DEF Tables
  <1>2. \A d \in Slots(t) : call'[t][d] = IF d = c THEN k ELSE call[t][d]
    BY <1>1 DEF CallsOf
  <1>3. QED
    BY <1>2 DEF Waits

\* Requests and their answers.
LEMMA RequestWaits ==
    ASSUME Tables, NEW t \in Tabs, NEW c \in Slots(t), Waits(t),
           Refuse(t, c) \/ Fail(t, c) \/ End(t, c) \/ Serve(t, c) \/ Ask(t, c)
    PROVE  Waits(t)'
  <1>1. refresh' = refresh
    BY DEF Refuse, Fail, End, Serve, Ask
  <1>2. CASE Ask(t, c) \/ End(t, c)
    <2>1. \/ call' = [call EXCEPT ![t][c] = Sent(c, store, TRUE)]
          \/ call' = [call EXCEPT ![t][c] = Idle]
      BY <1>2 DEF Ask, End
    <2>2. Sent(c, store, TRUE).at = "sent"
      BY DEF Sent
    <2>3. Idle.at = "idle"
      BY DEF Idle
    <2>4. QED
      BY <1>1, <2>1, <2>2, <2>3, OneCallWaits
  <1>3. ASSUME NEW st \in {"ok", "401", "failed"}, Answer(t, c, st), call[t][c].at \in {"sent", "ok"}
        PROVE  Waits(t)'
    <2>1. call[t][c].at # "idle"
      BY <1>3
    <2>2. \E k : call' = [call EXCEPT ![t][c] = k] /\ k.at = st
      BY <1>3, <2>1, AnswerFacts
    <2>3. QED
      BY <1>1, <2>2, OneCallWaits
  <1>4. QED
    BY <1>2, <1>3 DEF Refuse, Fail, Serve

\* The calls that fail wait no longer.
LEMMA FailWaits ==
    ASSUME Tables, NEW t \in Tabs, NEW slots \in SUBSET Slots(t), Waits(t), CallsFail(t, slots),
           refresh'[t] = refresh[t] \/ slots = Waiting(t)
    PROVE  Waits(t)'
  <1>1. call'[t] = [c \in Slots(t) |-> IF c \in slots THEN Idle ELSE call[t][c]]
    BY DEF CallsFail, Tables
  <1>2. Idle.at # "wait"
    BY DEF Idle
  <1>3. QED
    BY <1>1, <1>2 DEF Waits, Waiting

\* A call waits once its refresh has begun.
LEMMA HandleRefusedWaits ==
    ASSUME Tables, NEW t \in Tabs, NEW c \in Slots(t), Waits(t), HandleRefused(t, c)
    PROVE  Waits(t)'
  <1>1. CASE store = None
    <2>1. CallsFail(t, {c}) /\ refresh' = refresh
      BY <1>1 DEF HandleRefused
    <2>2. QED
      BY <2>1, FailWaits
  <1>2. CASE store # None
    <2>1. /\ Answer(t, c, "wait")
          /\ \/ refresh[t] # Idle /\ refresh' = refresh
             \/ refresh' = [refresh EXCEPT ![t] = [at |-> "sent", pair |-> store]]
      BY <1>2 DEF HandleRefused, Answer, JoinsRefresh
    <2>2. refresh'[t] # Idle
      BY <2>1 DEF Tables, Idle
    <2>3. call[t][c].at # "idle"
      BY DEF HandleRefused
    <2>4. \E k : call' = [call EXCEPT ![t][c] = k]
      BY <2>1, <2>3, AnswerFacts
    <2>5. QED
      BY <2>2, <2>4, OneCallWaits
  <1>3. QED
    BY <1>1, <1>2

\* Other answers make nobody wait.
LEMMA HandleAnswerWaits ==
    ASSUME Tables, NEW t \in Tabs, NEW c \in Slots(t), Waits(t), HandleAnswer(t, c)
    PROVE  Waits(t)'
  <1>1. refresh' = refresh /\ (CallsFail(t, {c}) \/ call' = [call EXCEPT ![t][c] = Idle])
    BY DEF HandleAnswer
  <1>2. Idle.at # "wait"
    BY DEF Idle
  <1>3. CASE CallsFail(t, {c})
    BY <1>1, <1>3, FailWaits
  <1>4. CASE call' = [call EXCEPT ![t][c] = Idle]
    BY <1>1, <1>2, <1>4, OneCallWaits
  <1>5. QED
    BY <1>1, <1>3, <1>4

\* Nobody waits for a promise that has settled.
LEMMA SettleRefreshWaits ==
    ASSUME Tables, NEW t \in Tabs, Waits(t), SettleRefresh(t)
    PROVE  Waits(t)'
  <1>1. CASE refresh[t].at = "done"
    <2>1. call' = [call EXCEPT ![t] = Resent(t)]
      BY <1>1, SettledFacts
    <2>2. call'[t] = Resent(t)
      BY <2>1 DEF Tables
    <2>3. \A c \in Slots(t) : Sent(c, refresh[t].got, FALSE).at = "sent"
      BY DEF Sent
    <2>4. \A c \in Slots(t) : call'[t][c].at # "wait"
      BY <2>2, <2>3 DEF Resent, Waiting
    <2>5. QED
      BY <2>4 DEF Waits
  <1>2. CASE refresh[t].at # "done"
    <2>1. CallsFail(t, Waiting(t)) /\ Waiting(t) \in SUBSET Slots(t)
      BY <1>2, SettledFacts DEF Waiting
    <2>2. QED
      BY <2>1, FailWaits
  <1>3. QED
    BY <1>1, <1>2

\* Steps that leave the calls alone, and the refresh under way.
LEMMA OtherWaits ==
    ASSUME Tables, NEW t \in Tabs, Waits(t),
           \/ ServeRefresh(t) \/ LoseRefresh(t)
           \/ SubmitSignIn(t) \/ FailSignIn(t) \/ SubmitSignOut(t) \/ ServeSignOut(t)
           \/ FinishSignIn(t) \/ FinishSignOut(t) \/ \E u \in Users : ServeSignIn(t, u)
    PROVE  Waits(t)'
  <1>1. call' = call
    BY DEF ServeRefresh, LoseRefresh, SubmitSignIn, FailSignIn, SubmitSignOut, ServeSignOut, FinishSignIn,
           FinishSignOut, ServeSignIn
  <1>2. CASE ServeRefresh(t) \/ LoseRefresh(t)
    <2>1. \E st \in {"refused", "lost"} : refresh' = [refresh EXCEPT ![t] = [at |-> st, pair |-> refresh[t].pair]]
          \/ refresh' = [refresh EXCEPT ![t] = [at |-> "done", pair |-> refresh[t].pair, got |-> NextPair]]
      BY <1>2 DEF ServeRefresh, LoseRefresh
    <2>2. refresh'[t].at \in {"refused", "lost", "done"}
      BY <2>1 DEF Tables
    <2>3. refresh'[t] # Idle
      BY <2>2 DEF Idle
    <2>4. QED
      BY <1>1, <2>3 DEF Waits
  <1>3. CASE refresh' = refresh
    BY <1>1, <1>3 DEF Waits
  <1>4. QED
    BY <1>2, <1>3 DEF SubmitSignIn, FailSignIn, SubmitSignOut, ServeSignOut, FinishSignIn, FinishSignOut,
       ServeSignIn

\* Nobody waits on a page that is loaded anew.
LEMMA LoadPageWaits == ASSUME Tables, NEW t \in Tabs, LoadPage(t) PROVE Waits(t)'
  <1>1. call' = [call EXCEPT ![t] = [c \in Slots(t) |-> IF c = "me" /\ store # None THEN Sent(c, store, TRUE) ELSE Idle]]
    BY DEF LoadPage
  <1>2. call'[t] = [c \in Slots(t) |-> IF c = "me" /\ store # None THEN Sent(c, store, TRUE) ELSE Idle]
    BY <1>1 DEF Tables
  <1>3. \A c \in Slots(t) : Sent(c, store, TRUE).at = "sent"
    BY DEF Sent
  <1>4. Idle.at = "idle"
    BY DEF Idle
  <1>5. QED
    BY <1>2, <1>3, <1>4 DEF Waits

\* No call waits without a refresh.
LEMMA NextWaits == Tables /\ WaitsInv /\ [Next]_vars => WaitsInv'
  <1> SUFFICES ASSUME Tables, WaitsInv, [Next]_vars, NEW o \in Tabs PROVE Waits(o)'
    BY DEF WaitsInv
  <1>1. \A t \in Tabs : Waits(t)
    BY DEF WaitsInv
  <1>2. ASSUME call' = call, refresh' = refresh PROVE Waits(o)'
    BY <1>1, <1>2 DEF Waits
  <1>3. ASSUME NEW t \in Tabs,
               \/ TabStep(t) \/ ServerStep(t)
               \/ \E c \in Calls[t] : Ask(t, c)
               \/ SubmitSignIn(t) \/ SubmitSignOut(t) \/ LoadPage(t)
        PROVE  Waits(o)'
    <2>1. Calls[t] \subseteq Slots(t) /\ Waits(t)
      BY <1>1 DEF Slots
    <2>2. Waits(t)'
      <3>1. CASE TabStep(t)
        BY <2>1, <3>1, HandleRefusedWaits, HandleAnswerWaits, SettleRefreshWaits, OtherWaits DEF TabStep
      <3>2. CASE ServerStep(t)
        BY <2>1, <3>2, RequestWaits, OtherWaits DEF ServerStep
      <3>3. CASE \E c \in Calls[t] : Ask(t, c)
        BY <2>1, <3>3, RequestWaits
      <3>4. CASE SubmitSignIn(t) \/ SubmitSignOut(t) \/ LoadPage(t)
        BY <2>1, <3>4, OtherWaits, LoadPageWaits
      <3>5. QED
        BY <1>3, <3>1, <3>2, <3>3, <3>4
    <2>3. ASSUME o # t PROVE Waits(o)'
      <3>1. call'[o] = call[o] /\ refresh'[o] = refresh[o]
        BY <1>3, <2>3, StepEffect, OthersStay
      <3>2. QED
        BY <1>1, <3>1 DEF Waits
    <2>4. QED
      BY <2>2, <2>3
  <1>4. QED
    BY <1>2, <1>3 DEF Next, EndSession, vars

\* TypeOK: what the tables hold, and that a call that waits has a refresh to
\* wait for.
THEOREM WebClientTypes == Spec => []TypeOK
  <1>1. Tables /\ WaitsInv => TypeOK
    <2> SUFFICES ASSUME Tables, WaitsInv PROVE TypeOK
      OBVIOUS
    <2>1. /\ Pairs = 1..Len(pair) /\ \A p \in Pairs : pair[p] \in PairRecord
      BY PairNumbers DEF Tables, Pairs
    <2>2. \A t \in Tabs : /\ refresh[t].at \in {"idle", "sent", "done", "refused", "lost"}
                          /\ form[t].at \in {"idle", "signingIn", "signedIn", "signingOut", "signedOut"}
      BY RefreshShape, FormShape
    <2>3. \A t \in Tabs : \A c \in Slots(t) :
              call[t][c].at \in {"idle", "sent", "ok", "401", "failed", "wait"}
      BY DEF Tables, CallsOf, CallRecord, Idle
    <2>4. \A t \in Tabs : Waiting(t) # {} => refresh[t] # Idle
      BY DEF WaitsInv, Waits, Waiting
    <2>5. QED
      BY <2>1, <2>2, <2>3, <2>4 DEF Tables, TypeOK, PairRecord
  <1>2. Init => Tables /\ WaitsInv
    <2>1. Init => WaitsInv
      BY DEF Init, WaitsInv, Waits, Idle
    <2>2. QED
      BY <2>1, InitTables
  <1>3. Tables /\ WaitsInv /\ [Next]_vars => (Tables /\ WaitsInv)'
    BY NextTables, NextWaits
  <1>4. QED
    BY <1>1, <1>2, <1>3, PTL DEF Spec

==============================================================================
