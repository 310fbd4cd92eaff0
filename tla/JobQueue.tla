------------------------------- MODULE JobQueue -------------------------------
(***************************************************************************)
(* One Redis queue of src/jobs/redisQueue.js, those who enqueue jobs, and  *)
(* the poll loop of src/worker.js in each worker process.  REDIS_REQUIRED  *)
(* is set, as in production: there is no queue in memory.                  *)
(*                                                                         *)
(* Each Redis command is a step of its own.  BLPOP takes the job out of    *)
(* the list, so that a process that stops holding it takes it away.        *)
(***************************************************************************)
EXTENDS Integers, FiniteSets, SequencesExt

CONSTANTS
    Jobs,         \* job ids; INCR makes each one once
    Workers,      \* poll loops of this queue, one per process
    MaxAttempts   \* max_attempts of a job

ASSUME AttemptsAssumption == MaxAttempts \in Nat \ {0}

VARIABLES
    queue,     \* the Redis list
    record,    \* the hash of each job
    producer,  \* how far enqueueJob is with each job
    worker,    \* where each poll loop is, with which job
    runs,      \* how often processJob was called for a job (history)
    dropped    \* jobs whose holder stopped (history)

vars == <<queue, record, producer, worker, runs, dropped>>

NoRecord == [status |-> "none", attempts |-> 0]
Record == [status : {"none", "queued", "active", "completed", "failed"}, attempts : 0..MaxAttempts]

Polling == [at |-> "poll"]
Hung == [at |-> "hung"]
Busy == {"load", "activate", "run", "complete", "fail", "requeue"}

Init ==
    /\ queue = <<>>
    /\ record = [j \in Jobs |-> NoRecord]
    /\ producer = [j \in Jobs |-> "none"]
    /\ worker = [w \in Workers |-> Polling]
    /\ runs = [j \in Jobs |-> 0]
    /\ dropped = {}

Goto(w, state) == worker' = [worker EXCEPT ![w] = state]
At(w, label) == worker[w].at = label

-----------------------------------------------------------------------------
(* enqueueJob: the hash, then the list *)

CreateRecord(j) ==
    /\ producer[j] = "none"
    /\ record' = [record EXCEPT ![j] = [status |-> "queued", attempts |-> 0]]
    /\ producer' = [producer EXCEPT ![j] = "recorded"]
    /\ UNCHANGED <<queue, worker, runs, dropped>>

Push(j) ==
    /\ producer[j] = "recorded"
    /\ queue' = Append(queue, j)
    /\ producer' = [producer EXCEPT ![j] = "pushed"]
    /\ UNCHANGED <<record, worker, runs, dropped>>

\* Redis fails or the process stops: whoever enqueued the job got an error.
EnqueueFails(j) ==
    /\ producer[j] \in {"none", "recorded"}
    /\ producer' = [producer EXCEPT ![j] = "failed"]
    /\ UNCHANGED <<queue, record, worker, runs, dropped>>

-----------------------------------------------------------------------------
(* reserveJob: BLPOP, HGETALL, HSET *)

\* Variant: the job is looked at and left in the list.
PopPeek(w) ==
    /\ At(w, "poll")
    /\ queue # <<>>
    /\ Goto(w, [at |-> "load", job |-> Head(queue)])
    /\ UNCHANGED <<queue, record, producer, runs, dropped>>

Pop(w) ==
    /\ At(w, "poll")
    /\ queue # <<>>
    /\ queue' = Tail(queue)
    /\ Goto(w, [at |-> "load", job |-> Head(queue)])
    /\ UNCHANGED <<record, producer, runs, dropped>>

Load(w) ==
    /\ At(w, "load")
    /\ Goto(w, [at |-> "activate", job |-> worker[w].job, attempts |-> record[worker[w].job].attempts + 1])
    /\ UNCHANGED <<queue, record, producer, runs, dropped>>

Activate(w) ==
    /\ At(w, "activate")
    /\ record' = [record EXCEPT ![worker[w].job] = [status |-> "active", attempts |-> worker[w].attempts]]
    /\ Goto(w, [worker[w] EXCEPT !.at = "run"])
    /\ UNCHANGED <<queue, producer, runs, dropped>>

-----------------------------------------------------------------------------
(* poll: processJob, then markJobCompleted or markJobFailed *)

Run(w) ==
    /\ At(w, "run")
    /\ runs' = [runs EXCEPT ![worker[w].job] = @ + 1]
    /\ \E outcome \in {"complete", "fail"} : Goto(w, [worker[w] EXCEPT !.at = outcome])
    /\ UNCHANGED <<queue, record, producer, dropped>>

MarkCompleted(w) ==
    /\ At(w, "complete")
    /\ record' = [record EXCEPT ![worker[w].job].status = "completed"]
    /\ Goto(w, Polling)
    /\ UNCHANGED <<queue, producer, runs, dropped>>

\* Redis answers with an error: the catch takes the job for a failed one.
CompletionRefused(w) ==
    /\ At(w, "complete")
    /\ Goto(w, [worker[w] EXCEPT !.at = "fail"])
    /\ UNCHANGED <<queue, record, producer, runs, dropped>>

\* Variant: an attempt too many is counted.
ExhaustedEarly(w) == worker[w].attempts + 1 >= MaxAttempts

Exhausted(w) == worker[w].attempts >= MaxAttempts

MarkFailed(w) ==
    /\ At(w, "fail")
    /\ record' = [record EXCEPT ![worker[w].job].status = IF Exhausted(w) THEN "failed" ELSE "queued"]
    /\ Goto(w, IF Exhausted(w) THEN Polling ELSE [worker[w] EXCEPT !.at = "requeue"])
    /\ UNCHANGED <<queue, producer, runs, dropped>>

\* Variant: the hash is updated, the list is not.
RequeueStatusOnly(w) ==
    /\ At(w, "requeue")
    /\ Goto(w, Polling)
    /\ UNCHANGED <<queue, record, producer, runs, dropped>>

Requeue(w) ==
    /\ At(w, "requeue")
    /\ queue' = Append(queue, worker[w].job)
    /\ Goto(w, Polling)
    /\ UNCHANGED <<record, producer, runs, dropped>>

-----------------------------------------------------------------------------
(* Failures of a worker process *)

Drop(w) ==
    dropped' = IF worker[w].at \in Busy THEN dropped \cup {worker[w].job} ELSE dropped

\* A crash, a deployment, or a Redis error outside of the try: the process
\* exits and is started again.
Restart(w) ==
    /\ worker[w].at \in Busy
    /\ Drop(w)
    /\ Goto(w, Polling)
    /\ UNCHANGED <<queue, record, producer, runs>>

\* The connection is lost.  RedisConnection goes on writing to the closed
\* socket and no command is ever answered again; the health check still is.
Hang(w) ==
    /\ worker[w].at # "hung"
    /\ Drop(w)
    /\ Goto(w, Hung)
    /\ UNCHANGED <<queue, record, producer, runs>>

-----------------------------------------------------------------------------

WorkerStep(w) ==
    \/ Pop(w) \/ Load(w) \/ Activate(w) \/ Run(w)
    \/ MarkCompleted(w) \/ CompletionRefused(w) \/ MarkFailed(w) \/ Requeue(w)

Next ==
    \/ \E j \in Jobs : CreateRecord(j) \/ Push(j) \/ EnqueueFails(j)
    \/ \E w \in Workers : WorkerStep(w) \/ Restart(w) \/ Hang(w)

\* A worker process that is connected goes on.
Spec == Init /\ [][Next]_vars /\ \A w \in Workers : WF_vars(WorkerStep(w))

-----------------------------------------------------------------------------
(* Correctness *)

Ended(j) == record[j].status \in {"completed", "failed"}

Holders(j) == {w \in Workers : worker[w].at \in Busy /\ worker[w].job = j}

\* No job is in two places: it is once in the list, or one worker has it.
\* What keeps two workers from running the same job is only this.
OnePlace ==
    \A j \in Jobs :
        Cardinality({i \in DOMAIN queue : queue[i] = j}) + Cardinality(Holders(j)) <= 1

\* No job is run more often than max_attempts, and one that is given up was run that
\* often, though attempts are counted in the memory of one worker after the other and
\* a failure to mark a job completed is counted too (worker.js, the catch of poll).
AttemptsBounded ==
    \A j \in Jobs : /\ runs[j] <= MaxAttempts
                   /\ record[j].status = "failed" => runs[j] = MaxAttempts

\* A job that has ended is not taken up again.
EndIsFinal ==
    [][\A j \in Jobs : Ended(j) => record'[j] = record[j] /\ runs'[j] = runs[j]]_vars

\* As long as some worker stays connected, every job that was enqueued and not
\* lost with a worker ends.
HeldJobsEnd ==
    (\E w \in Workers : [](worker[w].at # "hung")) =>
        \A j \in Jobs : producer[j] = "pushed" ~> Ended(j) \/ j \in dropped
=============================================================================
