--------------------------- MODULE RedisLockProofs ---------------------------
(***************************************************************************)
(* What a call of withRedisLock leaves in Redis, and whose tokens it       *)
(* deletes, for any number of calls and any set of keys, also an infinite  *)
(* one.                                                                    *)
(***************************************************************************)
EXTENDS RedisLock, TLAPS, WellFoundedInduction

Shape ==
    /\ lock \in [Keys -> Calls \cup {None}]
    /\ DOMAIN taken = Calls
    /\ DOMAIN refused = Calls
    /\ DOMAIN pc = Calls

\* A token under a key is known to its call, unless its reply was lost.
TokensKnown ==
    \A c \in Calls, k \in Keys : lock[k] = c /\ c \notin orphans => k \in taken[c]

\* A call returns once it has no key to give back.
ReturnsEmpty == \A c \in Calls : pc[c] = "returned" => taken[c] = {}

\* A call takes keys it wants, a bounded set of them at any time, and none
\* any more when it has them all; who is about to delete still has a key.
KeysChosen ==
    /\ wanted \in [Calls -> SUBSET Keys]
    /\ \A c \in Calls :
          /\ taken[c] \subseteq wanted[c]
          /\ \E b \in Nat : \A k \in taken[c] : k <= b
          /\ pc[c] = "acquire" => taken[c] # wanted[c]
          /\ pc[c] = "delete" => taken[c] # {}

\* The token a GET has found is there until the DEL, but for its time to live.
TokenOwned ==
    \A c \in Calls :
        pc[c] = "delete" => lock[Max(taken[c])] = c \/ Max(taken[c]) \in expired

\* A call that runs has taken all it wants, and until it leaves the try each key it was
\* not refused is under its token, but for the time to live.
HeldUntilLeft ==
    /\ \A c \in Calls : pc[c] = "run" => taken[c] = wanted[c]
    /\ \A c \in Calls : pc[c] \in {"acquire", "run"} =>
           \A k \in taken[c] \ refused[c] : lock[k] = c \/ k \in expired

IInv ==
    /\ Shape
    /\ TokensKnown
    /\ ReturnsEmpty
    /\ KeysChosen
    /\ TokenOwned
    /\ HeldUntilLeft

-----------------------------------------------------------------------------
(* Min and Max *)

\* The smallest of a set of naturals.
LEMMA MinExists ==
  ASSUME NEW S \in SUBSET Nat, S # {}
  PROVE  Min(S) \in S /\ \A k \in S : Min(S) <= k
<1> DEFINE R == OpToRel(<, Nat)
<1>1. IsWellFoundedOn(R, Nat)
  BY NatLessThanWellFounded
<1>2. \E x \in S : \A y \in S : <<y, x>> \notin R
  BY <1>1, WFMin
<1>3. \A x, y \in Nat : <<y, x>> \in R <=> y < x
  BY DEF OpToRel
<1> HIDE DEF R
<1>4. \E x \in S : \A y \in S : x <= y
  <2>1. PICK x \in S : \A y \in S : <<y, x>> \notin R
    BY <1>2
  <2>2. \A y \in S : ~(y < x)
    BY <1>3, <2>1
  <2>3. \A y \in S : x <= y
    BY <2>2
  <2>4. QED
    BY <2>3
<1>5. QED
  BY <1>4 DEF Min

\* The largest of a bounded set of naturals.
LEMMA MaxExists ==
  ASSUME NEW S \in SUBSET Nat, S # {}, NEW b \in Nat, \A k \in S : k <= b
  PROVE  Max(S) \in S
<1> DEFINE T == {b - k : k \in S}
<1>1. T \subseteq Nat /\ T # {}
  <2>1. \A k \in S : b - k \in Nat
    OBVIOUS
  <2>2. PICK k \in S : TRUE
    OBVIOUS
  <2>3. b - k \in T
    OBVIOUS
  <2>4. QED
    BY <2>1, <2>3
<1>2. Min(T) \in T /\ \A t \in T : Min(T) <= t
  BY <1>1, MinExists
<1>3. PICK m \in S : Min(T) = b - m
  BY <1>2
<1>4. \A k \in S : b - m <= b - k
  BY <1>2, <1>3
<1>5. \A k \in S : m >= k
  BY <1>4
<1>6. QED
  BY <1>5 DEF Max

\* The key a call takes next is one that it wants and has not taken.
LEMMA NextKey ==
  ASSUME Shape, KeysChosen, NEW c \in Calls, pc[c] = "acquire"
  PROVE  Min(wanted[c] \ taken[c]) \in wanted[c] \ taken[c]
<1> DEFINE S == wanted[c] \ taken[c]
<1>1. S \in SUBSET Nat /\ S # {}
  BY KeysAssumption DEF KeysChosen
<1> HIDE DEF S
<1>2. Min(S) \in S
  BY <1>1, MinExists
<1>3. QED
  BY <1>2 DEF S

\* The key a call gives back next is one that it has taken.
LEMMA LastKey ==
  ASSUME KeysChosen, NEW c \in Calls, taken[c] # {}
  PROVE  Max(taken[c]) \in taken[c] /\ Max(taken[c]) \in Keys
<1>1. taken[c] \in SUBSET Nat /\ taken[c] \subseteq Keys
  BY KeysAssumption DEF KeysChosen
<1>2. PICK b \in Nat : \A k \in taken[c] : k <= b
  BY DEF KeysChosen
<1>3. Max(taken[c]) \in taken[c]
  BY <1>1, <1>2, MaxExists
<1>4. QED
  BY <1>1, <1>3

-----------------------------------------------------------------------------
(* Steps *)

\* The invariant holds when the calls begin: no key is taken.
LEMMA InitIInv == Init => IInv
<1> SUFFICES ASSUME Init PROVE IInv
  OBVIOUS
<1>1. Shape
  BY DEF Init, Shape
<1>2. TokensKnown
  BY NoneAssumption DEF Init, TokensKnown
<1>3. ReturnsEmpty
  BY DEF Init, ReturnsEmpty
<1>4. KeysChosen
  <2>1. \A c \in Calls : taken[c] = {} /\ pc[c] = "acquire" /\ wanted[c] # {}
    <3> SUFFICES ASSUME NEW c \in Calls PROVE taken[c] = {} /\ pc[c] = "acquire" /\ wanted[c] # {}
      OBVIOUS
    <3>1. wanted[c] \in (SUBSET Keys) \ {{}}
      BY DEF Init
    <3>2. QED
      BY <3>1 DEF Init
  <2>2. wanted \in [Calls -> SUBSET Keys]
    BY DEF Init
  <2>3. \E b \in Nat : b = 0
    OBVIOUS
  <2>4. QED
    BY <2>1, <2>2, <2>3 DEF KeysChosen
<1>5. TokenOwned
  BY DEF Init, TokenOwned
<1>6. HeldUntilLeft
  BY DEF Init, HeldUntilLeft
<1>7. QED
  BY <1>1, <1>2, <1>3, <1>4, <1>5, <1>6 DEF IInv

\* A step after which no token is gone that a call is about to delete.
LEMMA OwnedKeeps ==
  ASSUME IInv, NEW c \in Calls,
         \A d \in Calls \ {c} : taken'[d] = taken[d] /\ (pc'[d] = "delete" => pc[d] = "delete"),
         pc'[c] # "delete",
         expired' = expired,
         \A k \in Keys, d \in Calls \ {c} : lock[k] = d => lock'[k] = d \/ k \in expired
  PROVE  TokenOwned'
<1> SUFFICES ASSUME NEW d \in Calls, pc'[d] = "delete"
             PROVE  lock'[Max(taken'[d])] = d \/ Max(taken'[d]) \in expired'
  BY DEF TokenOwned
<1>1. d # c /\ taken'[d] = taken[d] /\ pc[d] = "delete"
  OBVIOUS
<1>2. Max(taken[d]) \in Keys
  BY <1>1, LastKey DEF IInv, KeysChosen
<1>3. lock[Max(taken[d])] = d \/ Max(taken[d]) \in expired
  BY <1>1 DEF IInv, TokenOwned
<1>4. QED
  BY <1>1, <1>2, <1>3

\* A step of a call that leaves the try, or has left it, and takes no other token away.
LEMMA HeldKeeps ==
  ASSUME IInv, NEW c \in Calls,
         \A d \in Calls \ {c} : taken'[d] = taken[d] /\ pc'[d] = pc[d],
         pc'[c] \notin {"acquire", "run"},
         UNCHANGED <<wanted, refused, expired>>,
         \A k \in Keys, d \in Calls \ {c} : lock[k] = d => lock'[k] = d \/ k \in expired
  PROVE  HeldUntilLeft'
<1>1. \A d \in Calls \ {c} : pc'[d] = "run" => taken'[d] = wanted'[d]
  BY DEF IInv, HeldUntilLeft
<1>2. \A d \in Calls : taken[d] \subseteq Keys
  BY DEF IInv, KeysChosen
<1>3. ASSUME NEW d \in Calls \ {c}, pc'[d] \in {"acquire", "run"}, NEW k \in taken'[d] \ refused'[d]
      PROVE  lock'[k] = d \/ k \in expired'
  <2>1. k \in taken[d] \ refused[d] /\ k \in Keys /\ pc[d] \in {"acquire", "run"}
    BY <1>2, <1>3
  <2>2. lock[k] = d \/ k \in expired
    BY <2>1 DEF IInv, HeldUntilLeft
  <2>3. QED
    BY <2>1, <2>2
<1>4. QED
  BY <1>1, <1>3 DEF HeldUntilLeft

\* A token is stored under a free key only, and the call remembers the key.
LEMMA AcquireKeeps == ASSUME IInv, NEW c \in Calls, AcquireLock(c) PROVE IInv'
<1> DEFINE k == Min(wanted[c] \ taken[c])
<1>1. /\ pc[c] = "acquire"
      /\ taken' = [taken EXCEPT ![c] = @ \cup {k}]
      /\ \/ /\ lock[k] = None /\ lock' = [lock EXCEPT ![k] = c] /\ refused' = refused
         \/ /\ lock[k] # None /\ refused' = [refused EXCEPT ![c] = @ \cup {k}] /\ lock' = lock
      /\ pc' = [pc EXCEPT ![c] = IF taken'[c] = wanted[c] THEN "run" ELSE "acquire"]
      /\ orphans' = orphans /\ expired' = expired /\ wanted' = wanted
  BY DEF AcquireLock, Goto
<1>9. k \in wanted[c] \ taken[c] /\ k \in Keys /\ k \in Nat
  BY <1>1, NextKey, KeysAssumption DEF IInv, KeysChosen
<1> HIDE DEF k
<1>2. Shape'
  BY <1>1 DEF IInv, Shape
<1>3. TokensKnown'
  BY <1>1, NoneAssumption DEF IInv, Shape, TokensKnown
<1>4. ReturnsEmpty'
  BY <1>1 DEF IInv, Shape, ReturnsEmpty
<1>5. KeysChosen'
  <2>1. PICK b \in Nat : \A i \in taken[c] : i <= b
    BY DEF IInv, KeysChosen
  <2>2. taken[c] \subseteq Nat
    BY KeysAssumption DEF IInv, KeysChosen
  <2>3. b + k \in Nat /\ \A i \in taken[c] \cup {k} : i <= b + k
    BY <1>9, <2>1, <2>2
  <2>4. taken'[c] = taken[c] \cup {k} /\ \A d \in Calls \ {c} : taken'[d] = taken[d] /\ pc'[d] = pc[d]
    BY <1>1 DEF IInv, Shape
  <2>5. pc'[c] # "delete" /\ (pc'[c] = "acquire" => taken'[c] # wanted[c])
    BY <1>1 DEF IInv, Shape
  <2>6. QED
    BY <1>1, <1>9, <2>3, <2>4, <2>5 DEF IInv, KeysChosen
<1>6. TokenOwned'
  <2>1. pc'[c] # "delete" /\ \A d \in Calls \ {c} : taken'[d] = taken[d] /\ pc'[d] = pc[d]
    BY <1>1 DEF IInv, Shape
  <2>2. \A i \in Keys, d \in Calls \ {c} : lock[i] = d => lock'[i] = d
    BY <1>1, NoneAssumption DEF IInv, Shape
  <2>3. QED
    BY <1>1, <2>1, <2>2, OwnedKeeps
<1>7. HeldUntilLeft'
  <2>1. /\ taken'[c] = taken[c] \cup {k} /\ pc[c] = "acquire"
        /\ pc'[c] = "run" => taken'[c] = wanted'[c]
        /\ \A d \in Calls \ {c} : taken'[d] = taken[d] /\ pc'[d] = pc[d] /\ refused'[d] = refused[d]
    BY <1>1 DEF IInv, Shape
  <2>2. \A i \in Keys, d \in Calls : lock[i] = d => lock'[i] = d
    BY <1>1, NoneAssumption DEF IInv, Shape
  <2>3. \A d \in Calls : taken[d] \subseteq Keys
    BY DEF IInv, KeysChosen
  <2>4. ASSUME NEW d \in Calls, pc'[d] \in {"acquire", "run"}, NEW i \in taken'[d] \ refused'[d]
        PROVE  lock'[i] = d \/ i \in expired'
    <3>1. CASE d = c /\ i = k
      BY <1>1, <1>9, <2>4, <3>1 DEF IInv, Shape
    <3>2. CASE ~(d = c /\ i = k)
      <4>1. i \in taken[d] /\ i \in Keys /\ pc[d] \in {"acquire", "run"}
        BY <2>1, <2>3, <2>4, <3>2
      <4>2. i \notin refused[d]
        BY <1>1, <2>1, <2>4, <3>2 DEF IInv, Shape
      <4>3. lock[i] = d \/ i \in expired
        BY <4>1, <4>2 DEF IInv, HeldUntilLeft
      <4>4. QED
        BY <1>1, <2>2, <4>1, <4>3
    <3>3. QED
      BY <3>1, <3>2
  <2>5. QED
    BY <1>1, <2>1, <2>4 DEF IInv, HeldUntilLeft
<1>8. QED
  BY <1>2, <1>3, <1>4, <1>5, <1>6, <1>7 DEF IInv

\* A token whose reply is lost makes its call an orphan's.
LEMMA LoseReplyKeeps == ASSUME IInv, NEW c \in Calls, LoseReply(c) PROVE IInv'
<1> DEFINE k == Min(wanted[c] \ taken[c])
<1>1. /\ lock' = [lock EXCEPT ![k] = c]
      /\ orphans' = orphans \cup {c}
      /\ pc' = [pc EXCEPT ![c] = "release"]
      /\ taken' = taken /\ expired' = expired /\ wanted' = wanted /\ refused' = refused
      /\ lock[k] = None
  BY DEF LoseReply, Goto
<1> HIDE DEF k
<1>2. Shape'
  BY <1>1 DEF IInv, Shape
<1>3. TokensKnown'
  BY <1>1, NoneAssumption DEF IInv, Shape, TokensKnown
<1>4. ReturnsEmpty'
  BY <1>1 DEF IInv, Shape, ReturnsEmpty
<1>5. KeysChosen'
  BY <1>1 DEF IInv, Shape, KeysChosen
<1>6. TokenOwned'
  <2>1. pc'[c] # "delete" /\ \A d \in Calls \ {c} : pc'[d] = pc[d]
    BY <1>1 DEF IInv, Shape
  <2>2. \A i \in Keys, d \in Calls \ {c} : lock[i] = d => lock'[i] = d
    BY <1>1, NoneAssumption DEF IInv, Shape
  <2>3. QED
    BY <1>1, <2>1, <2>2, OwnedKeeps
<1>7. HeldUntilLeft'
  <2>1. pc'[c] \notin {"acquire", "run"} /\ \A d \in Calls \ {c} : taken'[d] = taken[d] /\ pc'[d] = pc[d]
    BY <1>1 DEF IInv, Shape
  <2>2. \A i \in Keys, d \in Calls \ {c} : lock[i] = d => lock'[i] = d
    BY <1>1, NoneAssumption DEF IInv, Shape
  <2>3. QED
    BY <1>1, <2>1, <2>2, HeldKeeps
<1>8. QED
  BY <1>2, <1>3, <1>4, <1>5, <1>6, <1>7 DEF IInv

\* A key is given up only when another token, or none, is found under it.
LEMMA ReleaseGetKeeps == ASSUME IInv, NEW c \in Calls, ReleaseGet(c) PROVE IInv'
<1> DEFINE k == Max(taken[c])
<1>1. /\ pc[c] = "release"
      /\ lock' = lock
      /\ UNCHANGED <<wanted, refused, expired, orphans>>
      /\ taken[c] # {}
      /\ \/ lock[k] = c /\ pc' = [pc EXCEPT ![c] = "delete"] /\ taken' = taken
         \/ lock[k] # c /\ taken' = [taken EXCEPT ![c] = @ \ {k}] /\ pc' = pc
  BY DEF ReleaseGet, Goto, history
<1> HIDE DEF k
<1>2. Shape'
  BY <1>1 DEF IInv, Shape
<1>3. TokensKnown'
  BY <1>1 DEF IInv, Shape, TokensKnown
<1>4. ReturnsEmpty'
  BY <1>1 DEF IInv, Shape, ReturnsEmpty
<1>5. KeysChosen'
  BY <1>1 DEF IInv, Shape, KeysChosen
<1>6. TokenOwned'
  <2>1. CASE pc' = pc
    <3>1. pc'[c] # "delete" /\ \A d \in Calls \ {c} : taken'[d] = taken[d] /\ pc'[d] = pc[d]
      BY <1>1, <2>1 DEF IInv, Shape
    <3>2. QED
      BY <1>1, <3>1, OwnedKeeps
  <2>2. CASE lock[k] = c /\ pc' = [pc EXCEPT ![c] = "delete"] /\ taken' = taken
    BY <1>1, <2>2 DEF IInv, Shape, TokenOwned, k
  <2>3. QED
    BY <1>1, <2>1, <2>2
<1>7. HeldUntilLeft'
  <2>1. pc'[c] \notin {"acquire", "run"} /\ \A d \in Calls \ {c} : taken'[d] = taken[d] /\ pc'[d] = pc[d]
    BY <1>1 DEF IInv, Shape
  <2>2. QED
    BY <1>1, <2>1, HeldKeeps
<1>8. QED
  BY <1>2, <1>3, <1>4, <1>5, <1>6, <1>7 DEF IInv

\* The key a call gives up by a DEL holds no token afterwards.
LEMMA ReleaseDelKeeps == ASSUME IInv, NEW c \in Calls, ReleaseDel(c) PROVE IInv'
<1> DEFINE k == Max(taken[c])
<1>1. /\ lock' = [lock EXCEPT ![k] = None]
      /\ taken' = [taken EXCEPT ![c] = @ \ {k}]
      /\ pc' = [pc EXCEPT ![c] = "release"]
      /\ UNCHANGED <<wanted, refused, expired, orphans>>
  BY DEF ReleaseDel, Goto, history
<1>9. lock[k] = c \/ k \in expired
  BY DEF ReleaseDel, IInv, TokenOwned
<1> HIDE DEF k
<1>2. Shape'
  BY <1>1 DEF IInv, Shape
<1>3. TokensKnown'
  BY <1>1, NoneAssumption DEF IInv, Shape, TokensKnown
<1>4. ReturnsEmpty'
  BY <1>1 DEF IInv, Shape, ReturnsEmpty
<1>5. KeysChosen'
  BY <1>1 DEF IInv, Shape, KeysChosen
<1>6. TokenOwned'
  <2>1. pc'[c] # "delete" /\ \A d \in Calls \ {c} : taken'[d] = taken[d] /\ pc'[d] = pc[d]
    BY <1>1 DEF IInv, Shape
  <2>2. \A i \in Keys, d \in Calls \ {c} : lock[i] = d => lock'[i] = d \/ i \in expired
    BY <1>1, <1>9 DEF IInv, Shape
  <2>3. QED
    BY <1>1, <2>1, <2>2, OwnedKeeps
<1>7. HeldUntilLeft'
  <2>1. pc'[c] \notin {"acquire", "run"} /\ \A d \in Calls \ {c} : taken'[d] = taken[d] /\ pc'[d] = pc[d]
    BY <1>1 DEF IInv, Shape
  <2>2. \A i \in Keys, d \in Calls \ {c} : lock[i] = d => lock'[i] = d \/ i \in expired
    BY <1>1, <1>9 DEF IInv, Shape
  <2>3. QED
    BY <1>1, <2>1, <2>2, HeldKeeps
<1>8. QED
  BY <1>2, <1>3, <1>4, <1>5, <1>6, <1>7 DEF IInv

\* A time to live only takes tokens away.
LEMMA TimeToLiveKeeps == ASSUME IInv, NEW k \in Keys, TimeToLive(k) PROVE IInv'
<1>1. /\ lock' = [lock EXCEPT ![k] = None]
      /\ expired' = expired \cup {k}
      /\ UNCHANGED <<wanted, pc, taken, refused, orphans>>
  BY DEF TimeToLive
<1>2. Shape' /\ TokensKnown' /\ ReturnsEmpty' /\ KeysChosen'
  BY <1>1, NoneAssumption DEF IInv, Shape, TokensKnown, ReturnsEmpty, KeysChosen
<1>3. TokenOwned'
  <2> SUFFICES ASSUME NEW d \in Calls, pc'[d] = "delete"
               PROVE  lock'[Max(taken'[d])] = d \/ Max(taken'[d]) \in expired'
    BY DEF TokenOwned
  <2> DEFINE m == Max(taken[d])
  <2>1. m \in Keys /\ (lock[m] = d \/ m \in expired)
    BY <1>1, LastKey DEF IInv, KeysChosen, TokenOwned
  <2>2. Max(taken'[d]) = m
    BY <1>1
  <2> HIDE DEF m
  <2>3. lock'[m] = d \/ m \in expired'
    BY <1>1, <2>1 DEF IInv, Shape
  <2>4. QED
    BY <2>2, <2>3
<1>4. HeldUntilLeft'
  <2>1. \A i \in Keys, d \in Calls : lock[i] = d => lock'[i] = d \/ i \in expired'
    BY <1>1 DEF IInv, Shape
  <2>2. \A d \in Calls : taken[d] \subseteq Keys
    BY DEF IInv, KeysChosen
  <2>3. QED
    BY <1>1, <2>1, <2>2 DEF IInv, HeldUntilLeft
<1>5. QED
  BY <1>2, <1>3, <1>4 DEF IInv

\* The steps that leave the keys and the tokens alone.
LEMMA ControlKeeps ==
  ASSUME IInv, NEW c \in Calls, LeaveTry(c) \/ Return(c) \/ Crash(c)
  PROVE  IInv'
<1>1. UNCHANGED <<wanted, lock, taken, refused, expired, orphans>>
  BY DEF LeaveTry, Return, Crash, history
<1>2. /\ \A d \in Calls \ {c} : pc'[d] = pc[d]
      /\ DOMAIN pc' = Calls
      /\ pc'[c] \in {"release", "returned", "crashed"}
      /\ pc'[c] = "returned" => taken[c] = {}
  BY DEF LeaveTry, Return, Crash, Goto, IInv, Shape
<1>3. Shape' /\ TokensKnown' /\ ReturnsEmpty' /\ KeysChosen'
  BY <1>1, <1>2 DEF IInv, Shape, TokensKnown, ReturnsEmpty, KeysChosen
<1>4. TokenOwned'
  BY <1>1, <1>2, OwnedKeeps
<1>5. HeldUntilLeft'
  BY <1>1, <1>2, HeldKeeps
<1>6. QED
  BY <1>3, <1>4, <1>5 DEF IInv

\* Every step of a call or of Redis keeps the invariant.
LEMMA NextIInv == IInv /\ [Next]_vars => IInv'
<1> SUFFICES ASSUME IInv, [Next]_vars PROVE IInv'
  OBVIOUS
<1>1. ASSUME NEW c \in Calls, Step(c) PROVE IInv'
  BY <1>1, AcquireKeeps, ReleaseGetKeeps, ReleaseDelKeeps, ControlKeeps DEF Step
<1>2. ASSUME NEW c \in Calls, LoseReply(c) PROVE IInv'
  BY <1>2, LoseReplyKeeps
<1>3. ASSUME NEW c \in Calls, Crash(c) PROVE IInv'
  BY <1>3, ControlKeeps
<1>4. ASSUME NEW k \in Keys, TimeToLive(k) PROVE IInv'
  BY <1>4, TimeToLiveKeeps
<1>5. CASE UNCHANGED vars
  BY <1>5 DEF vars, history, IInv, Shape, TokensKnown, ReturnsEmpty, KeysChosen, TokenOwned, HeldUntilLeft
<1>6. QED
  BY <1>1, <1>2, <1>3, <1>4, <1>5 DEF Next

\* releaseLock and the finally block of withRedisLock: a call that returned,
\* even with an error after it had taken only some of its keys, has left none
\* of its tokens behind, unless it was never told of one.
THEOREM NothingLeftBehindHolds == Spec => []NothingLeftBehind
<1>1. IInv => NothingLeftBehind
  BY DEF IInv, TokensKnown, ReturnsEmpty, NothingLeftBehind
<1>2. QED
  BY InitIInv, NextIInv, <1>1, PTL DEF Spec

\* releaseLock reads a key and deletes it in two commands: between them the
\* key changes hands only after it has timed out under a call once, so that
\* a call deletes the token of another only if one outlived its time to live.
THEOREM DeletesOwnHolds == Spec => DeletesOwnUnlessExpired
<1>1. IInv /\ [Next]_vars =>
        [\A c \in Calls :
            pc[c] = "delete" /\ pc'[c] = "release" =>
                lock[Max(taken[c])] = c \/ Max(taken[c]) \in expired]_vars
  BY DEF IInv, TokenOwned
<1>2. QED
  BY InitIInv, NextIInv, <1>1, PTL DEF Spec, DeletesOwnUnlessExpired

\* acquireLock goes on when SET NX is refused; but for that, and for the time to live,
\* withRedisLock excludes: two calls run on one key only if one of them was refused it
\* or it timed out, whichever other calls fail, crash or lose replies.
THEOREM OverlapsAreRefused == Spec => []OverlapNeedsRefusal
<1>1. IInv => OverlapNeedsRefusal
  <2> SUFFICES ASSUME IInv, NEW c \in Calls, NEW d \in Calls, c # d, pc[c] = "run", pc[d] = "run",
                      NEW k \in wanted[c] \cap wanted[d]
               PROVE  k \in refused[c] \cup refused[d] \cup expired
    BY DEF OverlapNeedsRefusal
  <2>1. k \in taken[c] /\ k \in taken[d]
    BY DEF IInv, HeldUntilLeft
  <2>2. k \notin refused[c] => lock[k] = c \/ k \in expired
    BY <2>1 DEF IInv, HeldUntilLeft
  <2>3. k \notin refused[d] => lock[k] = d \/ k \in expired
    BY <2>1 DEF IInv, HeldUntilLeft
  <2>4. QED
    BY <2>2, <2>3
<1>2. QED
  BY InitIInv, NextIInv, <1>1, PTL DEF Spec
=============================================================================
