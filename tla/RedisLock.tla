------------------------------ MODULE RedisLock ------------------------------
(***************************************************************************)
(* withRedisLock of src/utils/redisLock.js: the calls that want the same   *)
(* keys, the Redis keys with their time to live, and the failures.         *)
(*                                                                         *)
(* Redis answers SET NX with OK if the key was free and with null if it    *)
(* was not, and acquireLock returns a token for both: the sleep, the       *)
(* deadline and the "locked by another operation" error are dead code and  *)
(* have no action here.  REDIS_REQUIRED is set, as in production: without  *)
(* Redis a command fails, it is not answered with null.                    *)
(***************************************************************************)
EXTENDS FiniteSetsExt, Integers

CONSTANTS
    Calls,    \* calls of withRedisLock; a call stands for its tokens too
    Keys,     \* lock keys, numbered in the order of their names
    None      \* no token

ASSUME KeysAssumption == Keys \subseteq Nat
ASSUME NoneAssumption == None \notin Calls

VARIABLES
    wanted,   \* the set of keys a call asks for
    lock,     \* the token stored under each key
    pc,       \* where a call is
    taken,    \* keys a call has a token for
    refused,  \* keys a call was refused and went on without (history)
    expired,  \* keys that have timed out under a token (history)
    orphans   \* calls whose SET was made but whose token was lost (history)

history == <<refused, expired, orphans>>
vars == <<wanted, lock, pc, taken, history>>

Init ==
    /\ wanted \in [Calls -> (SUBSET Keys) \ {{}}]
    /\ lock = [k \in Keys |-> None]
    /\ pc = [c \in Calls |-> "acquire"]
    /\ taken = [c \in Calls |-> {}]
    /\ refused = [c \in Calls |-> {}]
    /\ expired = {}
    /\ orphans = {}

Goto(c, l) == pc' = [pc EXCEPT ![c] = l]

\* Variant: SET without NX.
AcquireLockOver(c) ==
    LET k == Min(wanted[c] \ taken[c])
    IN  /\ pc[c] = "acquire"
        /\ taken' = [taken EXCEPT ![c] = @ \cup {k}]
        /\ lock' = [lock EXCEPT ![k] = c]
        /\ Goto(c, IF taken'[c] = wanted[c] THEN "run" ELSE "acquire")
        /\ UNCHANGED <<wanted, history>>

\* Keys are taken in order, so that two calls never take two keys crosswise.
\* SET NX stores the token under a free key and refuses any other.
AcquireLock(c) ==
    LET k == Min(wanted[c] \ taken[c])
    IN  /\ pc[c] = "acquire"
        /\ taken' = [taken EXCEPT ![c] = @ \cup {k}]
        /\ IF lock[k] = None
             THEN lock' = [lock EXCEPT ![k] = c] /\ UNCHANGED refused
             ELSE refused' = [refused EXCEPT ![c] = @ \cup {k}] /\ UNCHANGED lock
        /\ Goto(c, IF taken'[c] = wanted[c] THEN "run" ELSE "acquire")
        /\ UNCHANGED <<wanted, expired, orphans>>

\* The connection fails after Redis has done the SET and before its reply:
\* the call does not learn of the token, and gives back those it knows.
LoseReply(c) ==
    LET k == Min(wanted[c] \ taken[c])
    IN  /\ pc[c] = "acquire"
        /\ lock[k] = None
        /\ lock' = [lock EXCEPT ![k] = c]
        /\ orphans' = orphans \cup {c}
        /\ Goto(c, "release")
        /\ UNCHANGED <<wanted, taken, refused, expired>>

\* Variant: the keys are taken before the try.
LeaveTryLate(c) ==
    /\ pc[c] \in {"acquire", "run"}
    /\ Goto(c, IF pc[c] = "run" THEN "release" ELSE "returned")
    /\ UNCHANGED <<wanted, lock, taken, history>>

\* Redis fails, or the locked function ends, normally or not: finally.
LeaveTry(c) ==
    /\ pc[c] \in {"acquire", "run"}
    /\ Goto(c, "release")
    /\ UNCHANGED <<wanted, lock, taken, history>>

\* Variant: the token found is not compared.
ReleaseGetAny(c) ==
    /\ pc[c] = "release"
    /\ taken[c] # {}
    /\ Goto(c, "delete")
    /\ UNCHANGED <<wanted, lock, taken, history>>

\* Tokens are given back in the reverse order, by a GET ...
ReleaseGet(c) ==
    LET k == Max(taken[c])
    IN  /\ pc[c] = "release"
        /\ taken[c] # {}
        /\ IF lock[k] = c
             THEN Goto(c, "delete") /\ UNCHANGED taken
             ELSE taken' = [taken EXCEPT ![c] = @ \ {k}] /\ UNCHANGED pc
        /\ UNCHANGED <<wanted, lock, history>>

\* ... and, if it found the token of the call, a DEL.
ReleaseDel(c) ==
    LET k == Max(taken[c])
    IN  /\ pc[c] = "delete"
        /\ lock' = [lock EXCEPT ![k] = None]
        /\ taken' = [taken EXCEPT ![c] = @ \ {k}]
        /\ Goto(c, "release")
        /\ UNCHANGED <<wanted, history>>

Return(c) ==
    /\ pc[c] = "release"
    /\ taken[c] = {}
    /\ Goto(c, "returned")
    /\ UNCHANGED <<wanted, lock, taken, history>>

\* Redis fails during the release, or the process stops: keys are left.
Crash(c) ==
    /\ pc[c] \in {"acquire", "run", "release", "delete"}
    /\ Goto(c, "crashed")
    /\ UNCHANGED <<wanted, lock, taken, history>>

\* PX: Redis drops the key, whatever its holder is doing.
TimeToLive(k) ==
    /\ lock[k] # None
    /\ expired' = expired \cup {k}
    /\ lock' = [lock EXCEPT ![k] = None]
    /\ UNCHANGED <<wanted, pc, taken, refused, orphans>>

Step(c) ==
    AcquireLock(c) \/ LeaveTry(c) \/ ReleaseGet(c) \/ ReleaseDel(c) \/ Return(c)

Next ==
    \/ \E c \in Calls : Step(c) \/ LoseReply(c) \/ Crash(c)
    \/ \E k \in Keys : TimeToLive(k)

Spec == Init /\ [][Next]_vars

-----------------------------------------------------------------------------
(* Correctness *)

\* A call that returned, even with an error after it had taken only some of
\* its keys, has left none of its tokens behind, unless it was never told.
NothingLeftBehind ==
    \A c \in Calls, k \in Keys : pc[c] = "returned" /\ c \notin orphans => lock[k] # c

\* The GET and the DEL of a release are not one step, and the key can change
\* hands between them, but only after a call has outlived the key's time to live.
DeletesOwnUnlessExpired ==
    [][\A c \in Calls :
          pc[c] = "delete" /\ pc'[c] = "release" =>
              lock[Max(taken[c])] = c \/ Max(taken[c]) \in expired]_vars

\* Two calls run on one key only if one of them was refused it and went on, or if it
\* timed out: no release, orderly or after a failure, frees a key under its holder.
OverlapNeedsRefusal ==
    \A c, d \in Calls :
        c # d /\ pc[c] = "run" /\ pc[d] = "run" =>
            wanted[c] \cap wanted[d] \subseteq refused[c] \cup refused[d] \cup expired

\* Two calls that ask for the same key never run at the same time.
MutualExclusion ==
    \A c, d \in Calls :
        c # d /\ pc[c] = "run" /\ pc[d] = "run" => wanted[c] \cap wanted[d] = {}
=============================================================================
