----------------------------- MODULE WorkerProofs -----------------------------
(***************************************************************************)
(* What the worker process does.  Of the queue: where a job is and how     *)
(* often it was run, for any number of jobs, worker processes and          *)
(* attempts.  Of the decay of dead stock: that no lot is decayed twice     *)
(* within the window, for any number of lots and concurrent calls.         *)
(***************************************************************************)
EXTENDS JobQueue, DecayService, TLAPS, FiniteSetTheorems

-----------------------------------------------------------------------------
(* The queue of jobs *)

Holds(w, j) == worker[w].at \in Busy /\ worker[w].job = j
Queued(j) == \E i \in DOMAIN queue : queue[i] = j
Held(j) == \E w \in Workers : Holds(w, j)

Statuses == {"none", "queued", "active", "completed", "failed"}

\* What a poll loop has in its memory.
Memory ==
    {Polling, Hung}
    \cup [at : {"load"}, job : Jobs]
    \cup [at : Busy \ {"load"}, job : Jobs, attempts : Nat]

Typed ==
    /\ queue \in Seq(Jobs)
    /\ record \in [Jobs -> [status : Statuses, attempts : Nat]]
    /\ DOMAIN producer = Jobs
    /\ worker \in [Workers -> Memory]
    /\ runs \in [Jobs -> Nat]

\* A job is nowhere until it was pushed, then in the list or with a worker.
InListOnce == \A i, k \in DOMAIN queue : queue[i] = queue[k] => i = k
ListOrWorker == \A w \in Workers : worker[w].at \in Busy => ~Queued(worker[w].job)
OneHolder ==
    \A v, w \in Workers :
        worker[v].at \in Busy /\ worker[w].at \in Busy /\ worker[v].job = worker[w].job => v = w
PushedFirst == \A j \in Jobs : Queued(j) \/ Held(j) => producer[j] = "pushed"

\* What the hash and the worker count, against the runs there were.
JobCount(j) ==
    /\ Queued(j) => record[j].attempts = runs[j] /\ runs[j] < MaxAttempts
    /\ producer[j] # "pushed" => record[j].attempts = 0 /\ runs[j] = 0
    /\ Ended(j) => ~Queued(j) /\ ~Held(j) /\ producer[j] = "pushed"
    /\ runs[j] <= MaxAttempts
    /\ record[j].status = "failed" => runs[j] = MaxAttempts

WorkerCount(w) ==
    LET j == worker[w].job
        label == worker[w].at
    IN  /\ label = "load" => record[j].attempts = runs[j] /\ runs[j] < MaxAttempts
        /\ label \in {"activate", "run"} => worker[w].attempts = runs[j] + 1 /\ runs[j] < MaxAttempts
        /\ label \in Busy \ {"load", "activate"} => record[j].attempts = worker[w].attempts
        /\ label \in {"complete", "fail", "requeue"} => worker[w].attempts = runs[j]
        /\ label = "requeue" => runs[j] < MaxAttempts

Places == InListOnce /\ ListOrWorker /\ OneHolder /\ PushedFirst
Counts == (\A j \in Jobs : JobCount(j)) /\ (\A w \in Workers : WorkerCount(w))

IInv == Typed /\ Places /\ Counts

-----------------------------------------------------------------------------
(* The list, and the memory of a worker *)

\* A list that is left alone.
LEMMA SameList ==
  ASSUME queue' = queue, InListOnce
  PROVE  InListOnce' /\ \A j : Queued(j)' <=> Queued(j)
BY DEF InListOnce, Queued

\* BLPOP: the job taken was in the list, and is not any more.
LEMMA PopList ==
  ASSUME queue \in Seq(Jobs), queue # <<>>, queue' = Tail(queue), InListOnce
  PROVE  /\ InListOnce'
         /\ Head(queue) \in Jobs
         /\ Queued(Head(queue))
         /\ \A j : Queued(j)' => Queued(j) /\ j # Head(queue)
<1>1. /\ Len(queue) \in Nat \ {0}
      /\ DOMAIN queue = 1..Len(queue)
      /\ DOMAIN queue' = 1..(Len(queue) - 1)
      /\ \A i \in DOMAIN queue' : i + 1 \in DOMAIN queue /\ queue'[i] = queue[i + 1]
      /\ Head(queue) = queue[1]
      /\ queue[1] \in Jobs
  OBVIOUS
<1>2. \A i, k \in DOMAIN queue' : queue'[i] = queue'[k] => i = k
  <2>1. SUFFICES ASSUME NEW i \in DOMAIN queue', NEW k \in DOMAIN queue', queue'[i] = queue'[k]
                 PROVE  i = k
    OBVIOUS
  <2>2. i + 1 = k + 1
    BY <1>1, <2>1 DEF InListOnce
  <2>3. QED
    BY <1>1, <2>2
<1>3. \A i \in DOMAIN queue' : queue'[i] # queue[1]
  <2>1. SUFFICES ASSUME NEW i \in DOMAIN queue', queue'[i] = queue[1] PROVE FALSE
    OBVIOUS
  <2>2. i + 1 = 1
    BY <1>1, <2>1 DEF InListOnce
  <2>3. QED
    BY <1>1, <2>2
<1>4. QED
  BY <1>1, <1>2, <1>3 DEF InListOnce, Queued

\* RPUSH of a job that is not in the list.
LEMMA PushList ==
  ASSUME queue \in Seq(Jobs), NEW j \in Jobs, queue' = Append(queue, j), ~Queued(j), InListOnce
  PROVE  /\ InListOnce'
         /\ \A k : Queued(k)' <=> Queued(k) \/ k = j
<1>1. /\ Len(queue) \in Nat
      /\ DOMAIN queue = 1..Len(queue)
      /\ DOMAIN queue' = 1..(Len(queue) + 1)
      /\ \A i \in DOMAIN queue : queue'[i] = queue[i]
      /\ queue'[Len(queue) + 1] = j
  OBVIOUS
<1>2. \A i \in DOMAIN queue' : i = Len(queue) + 1 \/ i \in DOMAIN queue
  BY <1>1
<1>3. Len(queue) + 1 \in DOMAIN queue' /\ DOMAIN queue \subseteq DOMAIN queue'
  BY <1>1
<1>4. InListOnce'
  BY <1>1, <1>2 DEF InListOnce, Queued
<1>5. \A k : Queued(k)' <=> Queued(k) \/ k = j
  BY <1>1, <1>2, <1>3 DEF Queued
<1>6. QED
  BY <1>4, <1>5

\* What is in a busy worker's memory.
LEMMA MemoryFacts ==
  ASSUME NEW m \in Memory
  PROVE  /\ m.at \in Busy => m.job \in Jobs
         /\ m.at \in Busy \ {"load"} =>
              /\ m.attempts \in Nat
              /\ \A l \in Busy \ {"load"} :
                    /\ [m EXCEPT !.at = l] \in Memory
                    /\ [m EXCEPT !.at = l].at = l
                    /\ [m EXCEPT !.at = l].job = m.job
                    /\ [m EXCEPT !.at = l].attempts = m.attempts
<1>1. CASE m \in {Polling, Hung}
  BY <1>1 DEF Polling, Hung, Busy
<1>2. CASE m \in [at : {"load"}, job : Jobs]
  BY <1>2
<1>3. CASE m \in [at : Busy \ {"load"}, job : Jobs, attempts : Nat]
  BY <1>3 DEF Memory
<1>4. QED
  BY <1>1, <1>2, <1>3 DEF Memory

\* The states of the memory that a step writes anew.
LEMMA MemoryMade ==
  /\ Polling \in Memory /\ Polling.at \notin Busy
  /\ Hung \in Memory /\ Hung.at \notin Busy
  /\ \A j \in Jobs :
        /\ [at |-> "load", job |-> j] \in Memory
        /\ \A n \in Nat : [at |-> "activate", job |-> j, attempts |-> n] \in Memory
BY DEF Memory, Polling, Hung, Busy

-----------------------------------------------------------------------------
(* Types *)

\* Every step keeps the types.
LEMMA TypedKeeps == Typed /\ [Next]_vars => Typed'
<1> SUFFICES ASSUME Typed, [Next]_vars PROVE Typed'
  OBVIOUS
<1>0. \A w \in Workers : worker[w] \in Memory
  BY DEF Typed
<1>1. ASSUME NEW j \in Jobs, CreateRecord(j) \/ Push(j) \/ EnqueueFails(j) PROVE Typed'
  <2>1. CASE CreateRecord(j)
    BY <2>1 DEF Typed, CreateRecord, Statuses
  <2>2. CASE Push(j)
    BY <2>2 DEF Typed, Push
  <2>3. CASE EnqueueFails(j)
    BY <2>3 DEF Typed, EnqueueFails
  <2>4. QED
    BY <1>1, <2>1, <2>2, <2>3
<1>2. ASSUME NEW w \in Workers, Pop(w) PROVE Typed'
  <2>1. Head(queue) \in Jobs /\ Tail(queue) \in Seq(Jobs)
    BY <1>2 DEF Pop, Typed
  <2>2. QED
    BY <1>2, <2>1, MemoryMade DEF Typed, Pop, Goto
<1>3. ASSUME NEW w \in Workers, Load(w) PROVE Typed'
  <2>1. worker[w].job \in Jobs
    BY <1>0, <1>3, MemoryFacts DEF Load, At, Busy
  <2>2. record[worker[w].job].attempts + 1 \in Nat
    BY <2>1 DEF Typed
  <2>3. QED
    BY <1>3, <2>1, <2>2, MemoryMade DEF Typed, Load, Goto
<1>4. ASSUME NEW w \in Workers,
             \/ Activate(w) \/ Run(w) \/ MarkCompleted(w) \/ CompletionRefused(w)
             \/ MarkFailed(w) \/ Requeue(w)
      PROVE  Typed'
  <2> DEFINE j == worker[w].job
             n == worker[w].attempts
  <2>1. worker[w].at \in Busy \ {"load"}
    BY <1>4 DEF Activate, Run, MarkCompleted, CompletionRefused, MarkFailed, Requeue, At, Busy
  <2>2. j \in Jobs /\ n \in Nat
    BY <1>0, <2>1, MemoryFacts
  <2>8. \A l \in Busy \ {"load"} : [worker[w] EXCEPT !.at = l] \in Memory
    BY <1>0, <2>1, MemoryFacts
  <2>3. worker' \in [Workers -> Memory]
    <3>1. \E m \in {Polling} \cup {[worker[w] EXCEPT !.at = l] : l \in Busy \ {"load"}} :
             worker' = [worker EXCEPT ![w] = m]
      BY <1>4 DEF Activate, Run, MarkCompleted, CompletionRefused, MarkFailed, Requeue, Goto, Busy
    <3>2. QED
      BY <2>8, <3>1, MemoryMade DEF Typed
  <2>4. record' \in [Jobs -> [status : Statuses, attempts : Nat]]
    <3>1. \/ record' = record
          \/ record' = [record EXCEPT ![j] = [status |-> "active", attempts |-> n]]
          \/ \E s \in Statuses : record' = [record EXCEPT ![j].status = s]
      BY <1>4 DEF Activate, Run, MarkCompleted, CompletionRefused, MarkFailed, Requeue, Statuses
    <3> HIDE DEF j, n
    <3>2. j \in Jobs /\ n \in Nat /\ record \in [Jobs -> [status : Statuses, attempts : Nat]]
      BY <2>2 DEF Typed
    <3>3. [status |-> "active", attempts |-> n] \in [status : Statuses, attempts : Nat]
      BY <3>2 DEF Statuses
    <3>4. QED
      BY <3>1, <3>2, <3>3
  <2>5. queue' \in Seq(Jobs)
    <3>1. queue' = queue \/ queue' = Append(queue, j)
      BY <1>4 DEF Activate, Run, MarkCompleted, CompletionRefused, MarkFailed, Requeue
    <3> HIDE DEF j, n
    <3>2. j \in Jobs /\ queue \in Seq(Jobs)
      BY <2>2 DEF Typed
    <3>3. QED
      BY <3>1, <3>2
  <2>6. runs' \in [Jobs -> Nat] /\ producer' = producer
    <3>1. producer' = producer /\ (runs' = runs \/ runs' = [runs EXCEPT ![j] = @ + 1])
      BY <1>4 DEF Activate, Run, MarkCompleted, CompletionRefused, MarkFailed, Requeue
    <3> HIDE DEF j, n
    <3>2. j \in Jobs /\ runs \in [Jobs -> Nat]
      BY <2>2 DEF Typed
    <3>3. QED
      BY <3>1, <3>2
  <2>7. QED
    BY <2>3, <2>4, <2>5, <2>6 DEF Typed
<1>5. ASSUME NEW w \in Workers, Restart(w) \/ Hang(w) PROVE Typed'
  BY <1>5, MemoryMade DEF Typed, Restart, Hang, Goto
<1>6. CASE UNCHANGED vars
  BY <1>6 DEF Typed, vars
<1>7. QED
  BY <1>1, <1>2, <1>3, <1>4, <1>5, <1>6 DEF Next, WorkerStep

-----------------------------------------------------------------------------
(* Places *)

\* A worker lets go of its job, or goes on with it: nothing comes anywhere.
LEMMA NoNewPlace ==
  ASSUME Typed, Places, NEW w \in Workers, NEW m,
         queue' = queue, producer' = producer, worker' = [worker EXCEPT ![w] = m],
         m.at \in Busy => worker[w].at \in Busy /\ m.job = worker[w].job
  PROVE  Places'
<1>1. InListOnce' /\ \A j : Queued(j)' <=> Queued(j)
  BY SameList DEF Places
<1>2. \A v \in Workers :
         worker'[v].at \in Busy => worker[v].at \in Busy /\ worker'[v].job = worker[v].job
  BY DEF Typed
<1>3. \A j : Held(j)' => Held(j)
  BY <1>2 DEF Held, Holds
<1>4. ListOrWorker' /\ OneHolder'
  BY <1>1, <1>2 DEF Places, ListOrWorker, OneHolder
<1>5. PushedFirst'
  BY <1>1, <1>3 DEF Places, PushedFirst
<1>6. QED
  BY <1>1, <1>4, <1>5 DEF Places

\* Every step keeps a job in one place.
LEMMA PlacesKeeps == Typed /\ Places /\ [Next]_vars => Places'
<1> SUFFICES ASSUME Typed, Places, [Next]_vars PROVE Places'
  OBVIOUS
<1>0. \A w \in Workers : worker[w] \in Memory
  BY DEF Typed
<1>1. ASSUME NEW j \in Jobs, CreateRecord(j) \/ EnqueueFails(j) PROVE Places'
  <2>1. /\ queue' = queue /\ worker' = worker /\ DOMAIN producer = Jobs
        /\ \A i \in Jobs : producer[i] = "pushed" => producer'[i] = "pushed"
    BY <1>1 DEF CreateRecord, EnqueueFails, Typed
  <2>2. InListOnce' /\ \A i : (Queued(i)' <=> Queued(i)) /\ (Held(i)' <=> Held(i))
    BY <2>1, SameList DEF Places, Held, Holds
  <2>3. QED
    BY <2>1, <2>2 DEF Places, ListOrWorker, OneHolder, PushedFirst
<1>2. ASSUME NEW j \in Jobs, Push(j) PROVE Places'
  <2>1. /\ producer[j] = "recorded" /\ queue' = Append(queue, j) /\ worker' = worker
        /\ producer'[j] = "pushed"
        /\ \A i \in Jobs : producer[i] = "pushed" => producer'[i] = "pushed"
    BY <1>2 DEF Push, Typed
  <2>2. ~Queued(j) /\ ~Held(j)
    BY <2>1 DEF Places, PushedFirst
  <2>3. InListOnce' /\ \A k : Queued(k)' <=> Queued(k) \/ k = j
    BY <2>1, <2>2, PushList DEF Places, Typed
  <2>4. ListOrWorker' /\ OneHolder'
    BY <2>1, <2>2, <2>3 DEF Places, ListOrWorker, OneHolder, Held, Holds
  <2>5. PushedFirst'
    BY <2>1, <2>3 DEF Places, PushedFirst, Held, Holds
  <2>6. QED
    BY <2>3, <2>4, <2>5 DEF Places
<1>3. ASSUME NEW w \in Workers, Pop(w) PROVE Places'
  <2> DEFINE j == Head(queue)
  <2>1. /\ worker[w].at = "poll" /\ queue # <<>> /\ queue' = Tail(queue) /\ producer' = producer
        /\ worker'[w].at = "load" /\ worker'[w].job = j
        /\ \A v \in Workers \ {w} : worker'[v] = worker[v]
    BY <1>3 DEF Pop, Goto, At, Typed
  <2>2. InListOnce' /\ j \in Jobs /\ Queued(j) /\ \A k : Queued(k)' => Queued(k) /\ k # j
    BY <2>1, PopList DEF Places, Typed
  <2> HIDE DEF j
  <2>3. \A v \in Workers : worker[v].at \in Busy => worker[v].job # j
    BY <2>2 DEF Places, ListOrWorker
  <2>4. ListOrWorker'
    BY <2>1, <2>2 DEF Places, ListOrWorker
  <2>5. OneHolder'
    BY <2>1, <2>3 DEF Places, OneHolder
  <2>6. \A k : Held(k)' => Held(k) \/ k = j
    BY <2>1 DEF Held, Holds
  <2>7. PushedFirst'
    BY <2>1, <2>2, <2>6 DEF Places, PushedFirst
  <2>8. QED
    BY <2>2, <2>4, <2>5, <2>7 DEF Places
<1>4. ASSUME NEW w \in Workers, Load(w) PROVE Places'
  <2> DEFINE m == [at |-> "activate", job |-> worker[w].job,
                   attempts |-> record[worker[w].job].attempts + 1]
  <2>1. /\ queue' = queue /\ producer' = producer /\ worker' = [worker EXCEPT ![w] = m]
        /\ m.job = worker[w].job /\ worker[w].at \in Busy
    BY <1>4 DEF Load, Goto, At, Busy
  <2> HIDE DEF m
  <2>2. QED
    BY <2>1, NoNewPlace
<1>5. ASSUME NEW w \in Workers,
             \/ Activate(w) \/ Run(w) \/ MarkCompleted(w) \/ CompletionRefused(w)
             \/ MarkFailed(w)
      PROVE  Places'
  <2>1. /\ queue' = queue /\ producer' = producer /\ worker[w].at \in Busy \ {"load"}
        /\ \E m \in {Polling} \cup {[worker[w] EXCEPT !.at = l] : l \in Busy \ {"load"}} :
              worker' = [worker EXCEPT ![w] = m]
    BY <1>5 DEF Activate, Run, MarkCompleted, CompletionRefused, MarkFailed, Goto, At, Busy
  <2>2. PICK m \in {Polling} \cup {[worker[w] EXCEPT !.at = l] : l \in Busy \ {"load"}} :
            worker' = [worker EXCEPT ![w] = m]
    BY <2>1
  <2>3. m.at \in Busy => m.job = worker[w].job
    <3>1. CASE m = Polling
      BY <3>1, MemoryMade
    <3>2. CASE \E l \in Busy \ {"load"} : m = [worker[w] EXCEPT !.at = l]
      BY <1>0, <2>1, <3>2, MemoryFacts
    <3>3. QED
      BY <2>2, <3>1, <3>2
  <2>4. QED
    BY <2>1, <2>2, <2>3, NoNewPlace
<1>6. ASSUME NEW w \in Workers, Requeue(w) PROVE Places'
  <2> DEFINE j == worker[w].job
  <2>1. /\ worker[w].at \in Busy /\ queue' = Append(queue, j) /\ producer' = producer
        /\ worker'[w].at \notin Busy
        /\ \A v \in Workers \ {w} : worker'[v] = worker[v]
    BY <1>6, MemoryMade DEF Requeue, Goto, At, Busy, Typed
  <2>2. j \in Jobs /\ ~Queued(j) /\ Held(j)
    BY <1>0, <2>1, MemoryFacts DEF Places, ListOrWorker, Held, Holds
  <2> HIDE DEF j
  <2>3. InListOnce' /\ \A k : Queued(k)' <=> Queued(k) \/ k = j
    BY <2>1, <2>2, PushList DEF Places, Typed
  <2>4. \A v \in Workers :
           worker'[v].at \in Busy =>
               /\ worker[v].at \in Busy
               /\ worker'[v].job = worker[v].job /\ worker'[v].job # j
    BY <2>1 DEF Places, OneHolder, j
  <2>5. ListOrWorker' /\ OneHolder'
    BY <2>3, <2>4 DEF Places, ListOrWorker, OneHolder
  <2>6. \A k : Held(k)' => Held(k)
    BY <2>4 DEF Held, Holds
  <2>7. PushedFirst'
    BY <2>1, <2>2, <2>3, <2>6 DEF Places, PushedFirst
  <2>8. QED
    BY <2>3, <2>5, <2>7 DEF Places
<1>7. ASSUME NEW w \in Workers, Restart(w) \/ Hang(w) PROVE Places'
  <2>1. queue' = queue /\ producer' = producer
        /\ (worker' = [worker EXCEPT ![w] = Polling] \/ worker' = [worker EXCEPT ![w] = Hung])
    BY <1>7 DEF Restart, Hang, Goto
  <2>2. QED
    BY <2>1, NoNewPlace, MemoryMade
<1>8. CASE UNCHANGED vars
  BY <1>8 DEF vars, Places, InListOnce, ListOrWorker, OneHolder, PushedFirst, Queued, Held, Holds
<1>9. QED
  BY <1>1, <1>2, <1>3, <1>4, <1>5, <1>6, <1>7, <1>8 DEF Next, WorkerStep

-----------------------------------------------------------------------------
(* Counts *)

\* A step of worker w that is about job j only.
LEMMA OneJobCounts ==
  ASSUME Typed, Counts, NEW w \in Workers, NEW j \in Jobs,
         \A v \in Workers \ {w} :
             worker'[v] = worker[v] /\ (worker[v].at \in Busy => worker[v].job # j),
         worker'[w].at \in Busy => worker'[w].job = j,
         \A k \in Jobs \ {j} :
             record'[k] = record[k] /\ runs'[k] = runs[k] /\ (Queued(k)' => Queued(k)),
         producer' = producer,
         JobCount(j)', WorkerCount(w)'
  PROVE  Counts'
<1>1. ASSUME NEW k \in Jobs \ {j} PROVE JobCount(k)'
  <2>1. Held(k)' => Held(k)
    BY DEF Held, Holds
  <2>2. QED
    BY <2>1 DEF Counts, JobCount, Ended
<1>2. ASSUME NEW v \in Workers \ {w} PROVE WorkerCount(v)'
  <2>1. CASE worker[v].at \in Busy
    <3>1. worker[v].job \in Jobs \ {j}
      BY <2>1, MemoryFacts DEF Typed
    <3>2. QED
      BY <3>1 DEF Counts, WorkerCount
  <2>2. CASE worker[v].at \notin Busy
    BY <2>2 DEF WorkerCount, Busy
  <2>3. QED
    BY <2>1, <2>2
<1>3. QED
  BY <1>1, <1>2 DEF Counts

\* A busy worker's job: no one else has it, it is not in the list, has not ended.
LEMMA BusyFacts ==
  ASSUME Typed, Places, Counts, NEW w \in Workers, worker[w].at \in Busy
  PROVE  LET j == worker[w].job
         IN  /\ j \in Jobs /\ ~Queued(j) /\ ~Ended(j) /\ producer[j] = "pushed"
             /\ \A v \in Workers \ {w} : worker[v].at \in Busy => worker[v].job # j
             /\ record[j].attempts \in Nat /\ runs[j] \in Nat /\ runs[j] <= MaxAttempts
<1> DEFINE j == worker[w].job
<1>1. j \in Jobs
  BY MemoryFacts DEF Typed
<1>2. Held(j)
  BY DEF Held, Holds
<1>3. ~Queued(j) /\ \A v \in Workers \ {w} : worker[v].at \in Busy => worker[v].job # j
  BY DEF Places, ListOrWorker, OneHolder
<1> HIDE DEF j
<1>4. producer[j] = "pushed" /\ ~Ended(j) /\ runs[j] <= MaxAttempts
  BY <1>1, <1>2 DEF Places, PushedFirst, Counts, JobCount
<1>5. record[j].attempts \in Nat /\ runs[j] \in Nat
  BY <1>1 DEF Typed
<1>6. QED
  BY <1>1, <1>3, <1>4, <1>5 DEF j

\* The steps of a worker that leave the list alone.
LEMMA WorkerCounts ==
  ASSUME Typed, Places, Counts, NEW w \in Workers, worker[w].at \in Busy,
         \/ Load(w) \/ Activate(w) \/ Run(w) \/ MarkCompleted(w)
         \/ CompletionRefused(w) \/ MarkFailed(w)
  PROVE  Counts'
<1> DEFINE n == worker[w].attempts
<1>1. PICK j \in Jobs :
          /\ j = worker[w].job /\ ~Queued(j) /\ ~Ended(j) /\ producer[j] = "pushed"
          /\ \A v \in Workers \ {w} : worker[v].at \in Busy => worker[v].job # j
          /\ record[j].attempts \in Nat /\ runs[j] \in Nat /\ runs[j] <= MaxAttempts
  BY BusyFacts
<1>2. queue' = queue /\ producer' = producer
  BY DEF Load, Activate, Run, MarkCompleted, CompletionRefused, MarkFailed
<1>3. \A k : Queued(k)' <=> Queued(k)
  BY <1>2, SameList DEF Places
<1>4. worker[w] \in Memory /\ (worker[w].at \in Busy \ {"load"} => n \in Nat)
  BY MemoryFacts DEF Typed
<1>5. /\ DOMAIN worker = Workers /\ DOMAIN record = Jobs /\ DOMAIN runs = Jobs
      /\ DOMAIN record[j] = {"status", "attempts"}
  BY <1>1 DEF Typed
<1>6. /\ \A v \in Workers \ {w} : worker'[v] = worker[v]
      /\ \A k \in Jobs \ {j} : record'[k] = record[k] /\ runs'[k] = runs[k]
  BY <1>1, <1>5 DEF Load, Activate, Run, MarkCompleted, CompletionRefused, MarkFailed, Goto
<1>7. WorkerCount(w)
  BY DEF Counts
<1>8. ASSUME worker'[w].at \in Busy => worker'[w].job = j,
             JobCount(j)', WorkerCount(w)'
      PROVE  Counts'
  BY <1>1, <1>2, <1>3, <1>6, <1>8, OneJobCounts
<1>9. Held(j)' => worker'[w].at \in Busy
  BY <1>1, <1>6 DEF Held, Holds
<1>10. JobCount(j)
  BY <1>1 DEF Counts
<1>11. CASE Load(w)
  <2>1. /\ worker[w].at = "load" /\ record' = record /\ runs' = runs
        /\ worker'[w] = [at |-> "activate", job |-> j, attempts |-> record[j].attempts + 1]
    BY <1>1, <1>5, <1>11 DEF Load, Goto, At
  <2>2. /\ worker'[w].at = "activate" /\ worker'[w].job = j
        /\ worker'[w].attempts = record[j].attempts + 1
    BY <1>1, <2>1
  <2>3. record[j].attempts = runs[j] /\ runs[j] < MaxAttempts
    BY <1>1, <1>7, <2>1 DEF WorkerCount
  <2> HIDE DEF n
  <2>4. JobCount(j)'
    BY <1>1, <1>2, <1>3, <1>10, <2>1, <2>3 DEF JobCount, Ended
  <2>5. WorkerCount(w)'
    BY <1>1, <2>1, <2>2, <2>3 DEF WorkerCount, Busy
  <2>6. QED
    BY <1>8, <2>2, <2>4, <2>5
<1>12. CASE Activate(w)
  <2>1. /\ worker[w].at = "activate" /\ runs' = runs
        /\ record'[j] = [status |-> "active", attempts |-> n]
        /\ worker'[w] = [worker[w] EXCEPT !.at = "run"]
    BY <1>1, <1>5, <1>12 DEF Activate, Goto, At
  <2>2. /\ worker'[w].at = "run" /\ worker'[w].job = j /\ worker'[w].attempts = n
        /\ record'[j].status = "active" /\ record'[j].attempts = n
    BY <1>1, <1>4, <2>1, MemoryFacts DEF Busy
  <2>3. n = runs[j] + 1 /\ runs[j] < MaxAttempts
    BY <1>1, <1>7, <2>1 DEF WorkerCount
  <2> HIDE DEF n
  <2>4. JobCount(j)'
    BY <1>1, <1>2, <1>3, <2>1, <2>2 DEF JobCount, Ended
  <2>5. WorkerCount(w)'
    BY <1>1, <2>1, <2>2, <2>3 DEF WorkerCount, Busy
  <2>6. QED
    BY <1>8, <2>2, <2>4, <2>5
<1>13. CASE Run(w)
  <2>1. /\ worker[w].at = "run" /\ record' = record /\ runs'[j] = runs[j] + 1
        /\ \E l \in {"complete", "fail"} : worker'[w] = [worker[w] EXCEPT !.at = l]
    BY <1>1, <1>5, <1>13 DEF Run, Goto, At
  <2>2. /\ worker'[w].at \in {"complete", "fail"} /\ worker'[w].job = j /\ worker'[w].attempts = n
    BY <1>1, <1>4, <2>1, MemoryFacts DEF Busy
  <2>3. n = runs[j] + 1 /\ runs[j] < MaxAttempts /\ record[j].attempts = n
    BY <1>1, <1>7, <2>1 DEF WorkerCount, Busy
  <2> HIDE DEF n
  <2>4. JobCount(j)'
    BY <1>1, <1>2, <1>3, <2>1, <2>3, AttemptsAssumption DEF JobCount, Ended
  <2>5. WorkerCount(w)'
    BY <1>1, <2>1, <2>2, <2>3 DEF WorkerCount, Busy
  <2>6. QED
    BY <1>8, <2>2, <2>4, <2>5 DEF Busy
<1>14. CASE MarkCompleted(w)
  <2>1. /\ record'[j] = [record[j] EXCEPT !.status = "completed"] /\ runs' = runs
        /\ worker'[w].at \notin Busy
    BY <1>1, <1>5, <1>14, MemoryMade DEF MarkCompleted, Goto
  <2>2. record'[j].status = "completed"
    BY <1>1, <1>5, <2>1
  <2> HIDE DEF n
  <2>3. JobCount(j)'
    BY <1>1, <1>2, <1>3, <1>9, <2>1, <2>2 DEF JobCount, Ended
  <2>4. WorkerCount(w)'
    BY <1>1, <2>1 DEF WorkerCount, Busy
  <2>5. QED
    BY <1>8, <2>1, <2>3, <2>4
<1>15. CASE CompletionRefused(w)
  <2>1. /\ worker[w].at = "complete" /\ record' = record /\ runs' = runs
        /\ worker'[w] = [worker[w] EXCEPT !.at = "fail"]
    BY <1>1, <1>5, <1>15 DEF CompletionRefused, Goto, At
  <2>2. /\ worker'[w].at = "fail" /\ worker'[w].job = j /\ worker'[w].attempts = n
    BY <1>1, <1>4, <2>1, MemoryFacts DEF Busy
  <2>3. n = runs[j] /\ record[j].attempts = n
    BY <1>1, <1>7, <2>1 DEF WorkerCount, Busy
  <2> HIDE DEF n
  <2>4. JobCount(j)'
    BY <1>1, <1>2, <1>3, <1>10, <2>1 DEF JobCount, Ended
  <2>5. WorkerCount(w)'
    BY <1>1, <2>1, <2>2, <2>3 DEF WorkerCount, Busy
  <2>6. QED
    BY <1>8, <2>2, <2>4, <2>5
<1>16. CASE MarkFailed(w)
  <2>1. /\ worker[w].at = "fail" /\ runs' = runs
        /\ record'[j] = [record[j] EXCEPT !.status = IF n >= MaxAttempts THEN "failed" ELSE "queued"]
        /\ worker'[w] = IF n >= MaxAttempts THEN Polling ELSE [worker[w] EXCEPT !.at = "requeue"]
    BY <1>1, <1>5, <1>16 DEF MarkFailed, Exhausted, Goto, At
  <2>2. n = runs[j] /\ record[j].attempts = n
    BY <1>1, <1>7, <2>1 DEF WorkerCount, Busy
  <2>3. record'[j].attempts = record[j].attempts
    BY <1>1, <1>5, <2>1
  <2>4. record'[j].status = IF n >= MaxAttempts THEN "failed" ELSE "queued"
    BY <1>1, <1>5, <2>1
  <2>5. CASE n >= MaxAttempts
    <3>1. worker'[w].at \notin Busy
      BY <1>1, <2>1, <2>5, MemoryMade
    <3> HIDE DEF n
    <3>2. JobCount(j)'
      BY <1>1, <1>2, <1>3, <1>9, <2>1, <2>2, <2>4, <2>5, <3>1, AttemptsAssumption DEF JobCount, Ended
    <3>3. WorkerCount(w)'
      BY <1>1, <3>1 DEF WorkerCount, Busy
    <3>4. QED
      BY <1>8, <3>1, <3>2, <3>3
  <2>6. CASE ~(n >= MaxAttempts)
    <3>1. /\ worker'[w].at = "requeue" /\ worker'[w].job = j /\ worker'[w].attempts = n
      BY <1>1, <1>4, <2>1, <2>6, MemoryFacts DEF Busy
    <3>2. runs'[j] < MaxAttempts /\ n = runs'[j] /\ record'[j].attempts = n
      BY <1>1, <2>1, <2>2, <2>3, <2>6, AttemptsAssumption
    <3> HIDE DEF n
    <3>3. JobCount(j)'
      BY <1>1, <1>2, <1>3, <2>1, <2>4, <2>6 DEF JobCount, Ended
    <3>4. WorkerCount(w)'
      BY <3>1, <3>2 DEF WorkerCount, Busy
    <3>5. QED
      BY <1>8, <3>1, <3>3, <3>4
  <2>7. QED
    BY <1>1, <2>5, <2>6
<1>17. QED
  BY <1>11, <1>12, <1>13, <1>14, <1>15, <1>16

\* Every step keeps the counts.
LEMMA CountsKeeps == Typed /\ Places /\ Counts /\ [Next]_vars => Counts'
<1> SUFFICES ASSUME Typed, Places, Counts, [Next]_vars PROVE Counts'
  OBVIOUS
<1>1. ASSUME NEW j \in Jobs, CreateRecord(j) \/ Push(j) \/ EnqueueFails(j) PROVE Counts'
  <2>1. /\ worker' = worker /\ runs' = runs /\ producer[j] # "pushed"
        /\ DOMAIN record = Jobs /\ DOMAIN producer = Jobs
        /\ \A k \in Jobs \ {j} : record'[k] = record[k] /\ producer'[k] = producer[k]
    BY <1>1 DEF CreateRecord, Push, EnqueueFails, Typed
  <2>2. /\ ~Queued(j) /\ ~Held(j) /\ ~Ended(j)
        /\ record[j].attempts = 0 /\ runs[j] = 0
    BY <2>1 DEF Counts, JobCount, Places, PushedFirst
  <2>3. \A k : Queued(k)' => Queued(k) \/ (k = j /\ Push(j))
    <3>1. CASE CreateRecord(j) \/ EnqueueFails(j)
      BY <3>1, SameList DEF CreateRecord, EnqueueFails, Places
    <3>2. CASE Push(j)
      BY <2>2, <3>2, PushList DEF Push, Typed, Places
    <3>3. QED
      BY <1>1, <3>1, <3>2
  <2>4. record'[j].attempts = 0 /\ record'[j].status \notin {"completed", "failed"}
    BY <1>1, <2>1, <2>2 DEF CreateRecord, Push, EnqueueFails, Ended
  <2>5. \A k : Held(k)' <=> Held(k)
    BY <2>1 DEF Held, Holds
  <2>6. JobCount(j)'
    BY <2>1, <2>2, <2>4, AttemptsAssumption DEF JobCount, Ended
  <2>7. \A k \in Jobs \ {j} : JobCount(k)'
    BY <2>1, <2>3, <2>5 DEF Counts, JobCount, Ended
  <2>8. ASSUME NEW w \in Workers PROVE WorkerCount(w)'
    <3>1. CASE worker[w].at \in Busy
      <4>1. worker[w].job \in Jobs \ {j}
        BY <2>2, <3>1, BusyFacts DEF Held, Holds
      <4>2. QED
        BY <2>1, <4>1 DEF Counts, WorkerCount
    <3>2. CASE worker[w].at \notin Busy
      BY <2>1, <3>2 DEF WorkerCount, Busy
    <3>3. QED
      BY <3>1, <3>2
  <2>9. QED
    BY <2>6, <2>7, <2>8 DEF Counts
<1>2. ASSUME NEW w \in Workers, Pop(w) PROVE Counts'
  <2>0. PICK j \in Jobs : j = Head(queue)
    BY <1>2 DEF Pop, Typed
  <2>1. /\ worker[w].at = "poll" /\ queue # <<>> /\ queue' = Tail(queue)
        /\ record' = record /\ producer' = producer /\ runs' = runs
        /\ worker'[w].at = "load" /\ worker'[w].job = j
        /\ \A v \in Workers \ {w} : worker'[v] = worker[v]
    BY <1>2, <2>0 DEF Pop, Goto, At, Typed
  <2>2. j \in Jobs /\ Queued(j) /\ \A k : Queued(k)' => Queued(k) /\ k # j
    BY <2>0, <2>1, PopList DEF Places, Typed
  <2>3. \A v \in Workers : worker[v].at \in Busy => worker[v].job # j
    BY <2>2 DEF Places, ListOrWorker
  <2>4. JobCount(j) /\ producer[j] = "pushed" /\ ~Ended(j)
    BY <2>2 DEF Counts, JobCount, Places, PushedFirst
  <2>5. JobCount(j)'
    BY <2>1, <2>2, <2>4 DEF JobCount, Ended
  <2>6. WorkerCount(w)'
    BY <2>1, <2>2, <2>4 DEF WorkerCount, JobCount, Busy
  <2>7. QED
    BY <2>1, <2>2, <2>3, <2>5, <2>6, OneJobCounts
<1>3. ASSUME NEW w \in Workers, Requeue(w) PROVE Counts'
  <2>0. PICK j \in Jobs :
            /\ j = worker[w].job /\ ~Queued(j) /\ ~Ended(j) /\ producer[j] = "pushed"
            /\ \A v \in Workers \ {w} : worker[v].at \in Busy => worker[v].job # j
    BY <1>3, BusyFacts DEF Requeue, At, Busy
  <2>1. /\ worker[w].at = "requeue" /\ queue' = Append(queue, j)
        /\ record' = record /\ producer' = producer /\ runs' = runs
        /\ worker'[w].at \notin Busy
        /\ \A v \in Workers \ {w} : worker'[v] = worker[v]
    BY <1>3, <2>0, MemoryMade DEF Requeue, Goto, At, Typed
  <2>3. record[j].attempts = runs[j] /\ runs[j] < MaxAttempts
    BY <2>0, <2>1 DEF Counts, WorkerCount, Busy
  <2>4. \A k : Queued(k)' <=> Queued(k) \/ k = j
    BY <2>0, <2>1, PushList DEF Typed, Places
  <2>5. JobCount(j)'
    BY <2>0, <2>1, <2>3 DEF Counts, JobCount, Ended
  <2>6. WorkerCount(w)'
    BY <2>1 DEF WorkerCount, Busy
  <2>7. QED
    BY <2>0, <2>1, <2>4, <2>5, <2>6, OneJobCounts
<1>4. ASSUME NEW w \in Workers, Restart(w) \/ Hang(w) PROVE Counts'
  <2>1. /\ queue' = queue /\ record' = record /\ producer' = producer /\ runs' = runs
        /\ worker'[w].at \notin Busy
        /\ \A v \in Workers \ {w} : worker'[v] = worker[v]
    BY <1>4, MemoryMade DEF Restart, Hang, Goto, Typed
  <2>2. \A k : (Queued(k)' <=> Queued(k)) /\ (Held(k)' => Held(k))
    BY <2>1, SameList DEF Places, Held, Holds
  <2>3. \A k \in Jobs : JobCount(k)'
    BY <2>1, <2>2 DEF Counts, JobCount, Ended
  <2>4. WorkerCount(w)'
    BY <2>1 DEF WorkerCount, Busy
  <2>5. \A v \in Workers \ {w} : WorkerCount(v)'
    BY <2>1 DEF Counts, WorkerCount
  <2>6. QED
    BY <2>3, <2>4, <2>5 DEF Counts
<1>5. ASSUME NEW w \in Workers,
             \/ Load(w) \/ Activate(w) \/ Run(w) \/ MarkCompleted(w)
             \/ CompletionRefused(w) \/ MarkFailed(w)
      PROVE  Counts'
  <2>1. worker[w].at \in Busy
    BY <1>5 DEF Load, Activate, Run, MarkCompleted, CompletionRefused, MarkFailed, At, Busy
  <2>2. QED
    BY <1>5, <2>1, WorkerCounts
<1>6. CASE UNCHANGED vars
  BY <1>6 DEF vars, Counts, JobCount, WorkerCount, Ended, Queued, Held, Holds
<1>7. QED
  BY <1>1, <1>2, <1>3, <1>4, <1>5, <1>6 DEF Next, WorkerStep

-----------------------------------------------------------------------------
(* The theorems *)

\* The invariant holds in the empty queue.
LEMMA InitIInv == Init => IInv
<1> SUFFICES ASSUME Init PROVE IInv
  OBVIOUS
<1>1. \A j \in Jobs : ~Queued(j) /\ ~Held(j)
  BY MemoryMade DEF Init, Queued, Held, Holds
<1>2. \A w \in Workers : worker[w].at \notin Busy
  BY MemoryMade DEF Init
<1>3. Typed
  BY MemoryMade DEF Init, Typed, NoRecord, Statuses
<1>4. Places
  BY <1>1, <1>2 DEF Init, Places, InListOnce, ListOrWorker, OneHolder, PushedFirst
<1>5. Counts
  BY <1>1, <1>2, AttemptsAssumption DEF Init, Counts, JobCount, WorkerCount, NoRecord, Ended, Busy
<1>6. QED
  BY <1>3, <1>4, <1>5 DEF IInv

\* Every step of a queue keeps the invariant.
LEMMA NextIInv == IInv /\ [Next]_vars => IInv'
BY TypedKeeps, PlacesKeeps, CountsKeeps DEF IInv

\* The invariant holds in every state of the queue.
LEMMA SpecIInv == Spec => []IInv
BY InitIInv, NextIInv, PTL DEF Spec

\* redisQueue.js, reserveJob and markJobFailed: BLPOP and RPUSH keep a job in
\* one place, in the list once or with one worker, however workers stop.
THEOREM OnePlaceHolds == Spec => []OnePlace
<1>1. IInv => OnePlace
  <2> SUFFICES ASSUME IInv, NEW j \in Jobs
               PROVE  Cardinality({i \in DOMAIN queue : queue[i] = j}) + Cardinality(Holders(j)) <= 1
    BY DEF OnePlace
  <2> DEFINE places == {i \in DOMAIN queue : queue[i] = j}
  <2>1. \/ places = {}
        \/ Queued(j) /\ \E i \in DOMAIN queue : places = {i}
    BY DEF IInv, Places, InListOnce, Queued
  <2>2. \/ Holders(j) = {}
        \/ Held(j) /\ \E w \in Workers : Holders(j) = {w}
    BY DEF IInv, Places, OneHolder, Holders, Held, Holds
  <2>3. ~(Queued(j) /\ Held(j))
    BY DEF IInv, Places, ListOrWorker, Held, Holds
  <2>4. \A S : (S = {} => Cardinality(S) = 0) /\ ((\E x : S = {x}) => Cardinality(S) = 1)
    BY FS_EmptySet, FS_Singleton
  <2>5. Cardinality(places) \in {0, 1} /\ Cardinality(Holders(j)) \in {0, 1}
    BY <2>1, <2>2, <2>4
  <2>6. Cardinality(places) = 0 \/ Cardinality(Holders(j)) = 0
    BY <2>1, <2>2, <2>3, <2>4
  <2> HIDE DEF places
  <2>7. Cardinality(places) + Cardinality(Holders(j)) <= 1
    BY <2>5, <2>6
  <2>8. QED
    BY <2>7 DEF places
<1>2. QED
  BY SpecIInv, <1>1, PTL

\* worker.js, poll, and redisQueue.js, markJobFailed: a job is run at most
\* max_attempts times, and given up only when it was run as often as that.
THEOREM AttemptsBoundedHolds == Spec => []AttemptsBounded
<1>1. IInv => AttemptsBounded
  BY DEF IInv, Counts, JobCount, AttemptsBounded
<1>2. QED
  BY SpecIInv, <1>1, PTL

\* A job that has ended is not taken up again: no worker has it, and it is
\* not in the list.
THEOREM EndIsFinalHolds == Spec => EndIsFinal
<1>1. IInv /\ [Next]_vars =>
        [\A j \in Jobs : Ended(j) => record'[j] = record[j] /\ runs'[j] = runs[j]]_vars
  <2> SUFFICES ASSUME IInv, Next, NEW j \in Jobs, Ended(j)
               PROVE  record'[j] = record[j] /\ runs'[j] = runs[j]
    OBVIOUS
  <2>1. producer[j] = "pushed" /\ ~Held(j)
    BY DEF IInv, Counts, JobCount
  <2>2. ASSUME NEW i \in Jobs, CreateRecord(i) \/ Push(i) \/ EnqueueFails(i)
        PROVE  record'[j] = record[j] /\ runs' = runs
    <3>1. CASE CreateRecord(i)
      BY <2>1, <3>1 DEF CreateRecord, IInv, Typed
    <3>2. CASE Push(i) \/ EnqueueFails(i)
      BY <3>2 DEF Push, EnqueueFails
    <3>3. QED
      BY <2>2, <3>1, <3>2
  <2>3. ASSUME NEW w \in Workers, WorkerStep(w)
        PROVE  record'[j] = record[j] /\ runs'[j] = runs[j]
    <3>1. DOMAIN record = Jobs /\ DOMAIN runs = Jobs
      BY DEF IInv, Typed
    <3>2. worker[w].at \in Busy => worker[w].job # j
      BY <2>1 DEF Held, Holds
    <3>3. CASE Pop(w) \/ Load(w) \/ CompletionRefused(w) \/ Requeue(w)
      BY <3>3 DEF Pop, Load, CompletionRefused, Requeue
    <3>4. CASE Activate(w)
      BY <3>1, <3>2, <3>4 DEF Activate, At, Busy
    <3>5. CASE Run(w)
      BY <3>1, <3>2, <3>5 DEF Run, At, Busy
    <3>6. CASE MarkCompleted(w)
      BY <3>1, <3>2, <3>6 DEF MarkCompleted, At, Busy
    <3>7. CASE MarkFailed(w)
      BY <3>1, <3>2, <3>7 DEF MarkFailed, At, Busy
    <3>8. QED
      BY <2>3, <3>3, <3>4, <3>5, <3>6, <3>7 DEF WorkerStep
  <2>4. ASSUME NEW w \in Workers, Restart(w) \/ Hang(w)
        PROVE  record' = record /\ runs' = runs
    BY <2>4 DEF Restart, Hang
  <2>5. QED
    BY <2>2, <2>3, <2>4 DEF Next
<1>2. QED
  BY SpecIInv, <1>1, PTL DEF Spec, EndIsFinal

-----------------------------------------------------------------------------
(* The decay of dead stock: a candidate was outside of the window when it   *)
(* was read, and stays so as time passes; the conditional update makes sure *)
(* that the date it was read with is still that of the last audit.          *)

DecayTypes ==
    /\ now \in Nat
    /\ catalog \in [Lots -> Nat]
    /\ last \in [Lots -> Int]
    /\ job \in [Calls -> SUBSET [lot : Lots, last : Int, discount : Nat]]
    /\ audits \in [Lots -> Seq(Int)]

\* last_decay_applied_at is the date of the last audit, and not a later one.
LastIsAudit ==
    \A l \in Lots :
        /\ last[l] <= now
        /\ audits[l] # <<>> => last[l] = audits[l][Len(audits[l])]

\* What a call read of a candidate was outside of the window then, and is now.
CandidatesRested ==
    \A j \in Calls : \A c \in job[j] : c.last <= now - Window

DecayInv == DecayTypes /\ LastIsAudit /\ CandidatesRested /\ OncePerWindow

LEMMA InitDecayInv == DecayInit => DecayInv
<1> SUFFICES ASSUME DecayInit PROVE DecayInv
  OBVIOUS
<1> USE TimesAssumption, DiscountsAssumption
<1>1. DecayTypes
  BY DEF DecayInit, DecayTypes, Never
<1>2. LastIsAudit
  BY DEF DecayInit, LastIsAudit, Never
<1>3. CandidatesRested
  BY DEF DecayInit, CandidatesRested
<1>4. OncePerWindow
  BY DEF DecayInit, OncePerWindow
<1> QED
  BY <1>1, <1>2, <1>3, <1>4 DEF DecayInv

\* A call that only gives candidates up, at the same or a later time.
LEMMA FewerCandidates ==
    ASSUME DecayInv, now' \in Nat, now <= now',
           UNCHANGED <<last, audits>>, catalog' \in [Lots -> Nat],
           job' \in [Calls -> SUBSET [lot : Lots, last : Int, discount : Nat]],
           \A j \in Calls : job'[j] \subseteq job[j]
    PROVE  DecayInv'
<1> USE TimesAssumption DEF DecayInv
<1>1. DecayTypes'
  BY DEF DecayTypes
<1>2. LastIsAudit'
  BY DEF DecayTypes, LastIsAudit
<1>3. CandidatesRested'
  <2> SUFFICES ASSUME NEW j \in Calls, NEW c \in job'[j] PROVE c.last <= now' - Window
    BY DEF CandidatesRested
  <2>1. c \in job[j] /\ c.last \in Int
    BY DEF DecayTypes
  <2> QED
    BY <2>1 DEF DecayTypes, CandidatesRested
<1>4. OncePerWindow'
  BY DEF OncePerWindow
<1> QED
  BY <1>1, <1>2, <1>3, <1>4

LEMMA ScanKeeps ==
    ASSUME DecayInv, NEW j \in Calls, NEW options \in Options, Scan(j, options)
    PROVE  DecayInv'
<1> USE TimesAssumption DEF DecayInv, Scan, rows
<1> DEFINE new == {[lot |-> l, last |-> last[l], discount |-> catalog[l]] : l \in Candidates(options)}
<1>0. options.lots \subseteq Lots
  BY LotsAssumption DEF Options
<1>1. \A l \in Candidates(options) : l \in Lots /\ last[l] <= now - Window
  BY <1>0 DEF Candidates, Stale
<1>2. new \subseteq [lot : Lots, last : Int, discount : Nat]
  BY <1>1 DEF DecayTypes
<1>3. job' = [job EXCEPT ![j] = new]
  OBVIOUS
<1> HIDE DEF new
<1>4. DecayTypes'
  BY <1>2, <1>3 DEF DecayTypes
<1>5. LastIsAudit'
  BY DEF LastIsAudit
<1>6. CandidatesRested'
  <2> SUFFICES ASSUME NEW i \in Calls, NEW c \in job'[i] PROVE c.last <= now' - Window
    BY DEF CandidatesRested
  <2>1. CASE i = j
    <3>1. c \in new
      BY <2>1, <1>3 DEF DecayTypes
    <3> QED
      BY <3>1, <1>1 DEF new
  <2>2. CASE i # j
    BY <2>2, <1>3 DEF DecayTypes, CandidatesRested
  <2> QED
    BY <2>1, <2>2
<1>7. OncePerWindow'
  BY DEF OncePerWindow
<1> QED
  BY <1>4, <1>5, <1>6, <1>7

LEMMA DecayKeeps ==
    ASSUME DecayInv, NEW j \in Calls, NEW c \in job[j], Decay(j, c)
    PROVE  DecayInv'
<1> USE TimesAssumption, DiscountsAssumption DEF DecayInv
<1> DEFINE jobs == [Calls -> SUBSET [lot : Lots, last : Int, discount : Nat]]
<1>1. job' \in jobs /\ (\A i \in Calls : job'[i] \subseteq job[i])
  BY DEF DecayTypes, Decay, Visit
<1>2. now' = now /\ now \in Nat /\ catalog' = catalog /\ catalog \in [Lots -> Nat]
  BY DEF DecayTypes, Decay, rows
<1>3. CASE ~UnchangedSince(c)
  <2>1. UNCHANGED <<last, audits>>
    BY <1>3 DEF Decay
  <2> QED
    BY <1>1, <1>2, <2>1, FewerCandidates
<1>4. CASE UnchangedSince(c)
  <2> DEFINE l == c.lot
  <2> DEFINE audit == now
  <2>1. c.lot \in Lots /\ c.last \in Int /\ c.discount \in Nat
    BY DEF DecayTypes
  <2>2. last' = [last EXCEPT ![l] = now] /\ audits' = [audits EXCEPT ![l] = Append(@, audit)]
    BY <1>4 DEF Decay
  <2>3. audit \in Int /\ audit = now
    BY <2>1, <1>2
  <2>4. last[l] = c.last /\ c.last <= now - Window
    BY <1>4 DEF UnchangedSince, CandidatesRested
  <2> HIDE DEF l, audit
  <2>5. l \in Lots /\ audits[l] \in Seq(Int)
    BY <2>1 DEF l, DecayTypes
  <2>6. audits'[l] = Append(audits[l], audit) /\ last'[l] = now
    BY <2>2, <2>5 DEF DecayTypes
  <2>7. \A k \in Lots : k # l => audits'[k] = audits[k] /\ last'[k] = last[k]
    BY <2>2 DEF DecayTypes
  <2>8. /\ Len(audits'[l]) = Len(audits[l]) + 1
        /\ audits'[l][Len(audits[l]) + 1] = audit
        /\ \A i \in 1..Len(audits[l]) : audits'[l][i] = audits[l][i]
    BY <2>3, <2>5, <2>6
  <2>9. DecayTypes'
    <3>1. audits' \in [Lots -> Seq(Int)]
      BY <2>2, <2>3, <2>5 DEF DecayTypes
    <3>2. last' \in [Lots -> Int]
      BY <2>2, <1>2, <2>5 DEF DecayTypes
    <3> QED
      BY <3>1, <3>2, <1>1, <1>2 DEF DecayTypes
  <2>10. LastIsAudit'
    <3> SUFFICES ASSUME NEW k \in Lots
                 PROVE  /\ last'[k] <= now'
                        /\ audits'[k] # <<>> => last'[k] = audits'[k][Len(audits'[k])]
      BY DEF LastIsAudit
    <3>1. CASE k = l
      BY <3>1, <1>2, <2>3, <2>6, <2>8
    <3>2. CASE k # l
      BY <3>2, <1>2, <2>7 DEF LastIsAudit
    <3> QED
      BY <3>1, <3>2
  <2>11. CandidatesRested'
    <3> SUFFICES ASSUME NEW i \in Calls, NEW d \in job'[i] PROVE d.last <= now' - Window
      BY DEF CandidatesRested
    <3> QED
      BY <1>1, <1>2 DEF CandidatesRested
  <2>12. OncePerWindow'
    <3> SUFFICES ASSUME NEW k \in Lots, NEW i \in 1..Len(audits'[k]) - 1
                 PROVE  audits'[k][i + 1] - audits'[k][i] >= Window
      BY DEF OncePerWindow
    <3>1. CASE k # l
      BY <3>1, <2>7 DEF OncePerWindow
    <3>2. CASE k = l /\ i < Len(audits[l])
      <4>1. i \in 1..Len(audits[l]) - 1 /\ i + 1 \in 1..Len(audits[l])
        BY <3>2, <2>5, <2>8
      <4>2. audits'[l][i] = audits[l][i] /\ audits'[l][i + 1] = audits[l][i + 1]
        <5>1. i \in 1..Len(audits[l])
          BY <4>1, <2>5
        <5> QED
          BY <4>1, <5>1, <2>8
      <4>3. audits[l][i + 1] - audits[l][i] >= Window
        BY <4>1, <2>5 DEF OncePerWindow
      <4> QED
        BY <4>2, <4>3, <3>2
    <3>3. CASE k = l /\ i >= Len(audits[l])
      <4>1. i = Len(audits[l]) /\ audits[l] # <<>>
        BY <3>3, <2>5, <2>8
      <4>2. audits'[l][i + 1] = now /\ audits'[l][i] = audits[l][i]
        <5>1. Len(audits[l]) \in 1..Len(audits[l])
          BY <4>1, <2>5
        <5> QED
          BY <4>1, <5>1, <2>3, <2>8
      <4>3. audits[l][i] = last[l]
        <5>1. audits[l] # <<>> => last[l] = audits[l][Len(audits[l])]
          BY <2>5 DEF LastIsAudit
        <5> QED
          BY <5>1, <4>1
      <4>4. last[l] <= now - Window /\ last[l] \in Int
        BY <2>4, <2>5 DEF DecayTypes
      <4>5. now - last[l] >= Window
        BY <4>4, <1>2
      <4> QED
        BY <3>3, <4>2, <4>3, <4>5
    <3> QED
      BY <3>1, <3>2, <3>3, <2>5, <2>8
  <2> QED
    BY <2>9, <2>10, <2>11, <2>12
<1> QED
  BY <1>3, <1>4

\* No lot is decayed twice within the window (OncePerWindow), whichever calls
\* of applyDeadStockDecay overlap, fail or stop.
THEOREM DecayedOncePerWindow == DecaySpec => []OncePerWindow
<1>1. DecayInv /\ [DecayNext]_decayVars => DecayInv'
  <2> SUFFICES ASSUME DecayInv, [DecayNext]_decayVars PROVE DecayInv'
    OBVIOUS
  <2> DEFINE jobs == [Calls -> SUBSET [lot : Lots, last : Int, discount : Nat]]
  <2>0. now \in Nat /\ job \in jobs /\ catalog \in [Lots -> Nat]
    BY DEF DecayInv, DecayTypes
  <2>1. ASSUME NEW j \in Calls, NEW options \in Options, Scan(j, options) PROVE DecayInv'
    BY <2>1, ScanKeeps
  <2>2. ASSUME NEW j \in Calls, NEW c \in job[j], PassOver(j, c) \/ Fail(j, c) PROVE DecayInv'
    <3>1. job' \in jobs /\ (\A i \in Calls : job'[i] \subseteq job[i])
      BY <2>2, <2>0 DEF PassOver, Fail, Visit
    <3> QED
      BY <3>1, <2>2, <2>0, FewerCandidates DEF PassOver, Fail, rows
  <2>3. ASSUME NEW j \in Calls, NEW c \in job[j], Decay(j, c) PROVE DecayInv'
    BY <2>3, DecayKeeps
  <2>4. ASSUME NEW j \in Calls, Stop(j) PROVE DecayInv'
    <3>1. job' \in jobs /\ (\A i \in Calls : job'[i] \subseteq job[i])
      BY <2>4, <2>0 DEF Stop
    <3> QED
      BY <3>1, <2>4, <2>0, FewerCandidates DEF Stop, rows
  <2>5. ASSUME NEW l \in Lots,
               \/ \E date \in 0..now : Arrive(l, date)
               \/ Deplete(l)
               \/ \E offer \in BOOLEAN : Offer(l, offer)
        PROVE  DecayInv'
    BY <2>5, <2>0, FewerCandidates DEF Arrive, Deplete, Offer
  <2>6. ASSUME NEW l \in Lots, NEW discount \in Discounts, Reprice(l, discount) PROVE DecayInv'
    <3>1. catalog' \in [Lots -> Nat]
      BY <2>6, <2>0, DiscountsAssumption DEF Reprice
    <3> QED
      BY <3>1, <2>6, <2>0, FewerCandidates DEF Reprice
  <2>7. CASE Tick
    BY <2>7, <2>0, FewerCandidates DEF Tick, rows
  <2>8. CASE UNCHANGED decayVars
    BY <2>8, <2>0, FewerCandidates DEF decayVars
  <2> QED
    BY <2>1, <2>2, <2>3, <2>4, <2>5, <2>6, <2>7, <2>8 DEF DecayNext
<1>2. DecayInv => OncePerWindow
  BY DEF DecayInv
<1> QED
  BY InitDecayInv, <1>1, <1>2, PTL DEF DecaySpec
=============================================================================
