----------------------------- MODULE AlgoRunner -----------------------------
(***************************************************************************)
(* The thread pool of the server (struct AlgoRunnerIpml,                   *)
(* algorithm_runner.cpp): pthread workers that take jobs from a queue      *)
(* guarded by qMtx/qCv, and the server's main thread, the only caller of   *)
(* init, run, get and deinit.                                              *)
(*                                                                         *)
(* Grain of atomicity.  qMtx is explicit, because a worker reads the       *)
(* atomic flag `running' while it holds the mutex and deinit writes the    *)
(* flag without it.  jobsMtx guards a map only the main thread touches,    *)
(* and everything read or written under a job's own mutex is guarded by    *)
(* it, so each of those critical sections is one step.  runMath and runStr *)
(* read only the job's immutable request and are part of the step that     *)
(* publishes their outcome.                                                *)
(***************************************************************************)
EXTENDS JobTypes

CONSTANT MaxThreads   \* the argument of AlgoRunner::init (4 by default)

ASSUME AlgoRunnerAssumption == MaxThreads \in Nat

VARIABLES
    running,      \* atomic<bool> running
    jobs,         \* keys of the map jobs: the tickets that can still be got
    job,          \* the Job objects by ticket
    queue,        \* jobQueue
    qMtx,         \* the worker that holds qMtx, 0 when it is free
    wpc,          \* where each worker is
    wjob,         \* the job a worker holds, 0 when none
    workers,      \* the vector workers: the threads deinit joins
    spawned,      \* loop counter of init
    issued,       \* how many tickets enqueue has issued
    mpc,          \* where the main thread is
    mjob,         \* the job of the main thread's current call
    cvSignalled,  \* main was woken by a broadcast on that job's cv
    resp          \* the response of the last finished call

poolVars == <<running, wpc, workers, spawned>>
jobVars  == <<jobs, job, issued>>
vars == <<running, jobs, job, queue, qMtx, wpc, wjob, workers, spawned,
          issued, mpc, mjob, cvSignalled, resp>>

Worker == 1..MaxThreads
Free   == 0

(* Worker: unborn; at the loop head (top); about to lock qMtx (lock); holds  *)
(* it and is to test the predicate (test) or has found it true (sleep);      *)
(* in pthread_cond_wait on qCv (wait); runs a job (run); has published the   *)
(* outcome and is to broadcast on the job's cv (notify); returned (exit).    *)
WorkerPC == {"unborn", "top", "lock", "test", "sleep", "wait", "run",
             "notify", "exit"}

(* Main: before init; creating threads (spawn); between calls (idle); in     *)
(* enqueue after the map insert (push) and after the queue insert (signal);  *)
(* in pthread_cond_timedwait of get (cvwait); in deinit after running was    *)
(* cleared (bcast) and in pthread_join (join); deinit done, pool freed.      *)
MainPC == {"init", "spawn", "idle", "push", "signal", "cvwait", "bcast",
           "join", "freed"}

Job == [req : Requests \union {NoPayload}, status : Status,
        result : Result, done : BOOLEAN]

NewJob == [req |-> NoPayload, status |-> "NOT_FINISHED",
           result |-> VALUE_NOT_SET, done |-> FALSE]

Init ==
    /\ running = FALSE
    /\ jobs = {}
    /\ job = [t \in Ticket |-> NewJob]
    /\ queue = <<>>
    /\ qMtx = Free
    /\ wpc = [w \in Worker |-> "unborn"]
    /\ wjob = [w \in Worker |-> 0]
    /\ workers = {}
    /\ spawned = 0
    /\ issued = 0
    /\ mpc = "init"
    /\ mjob = 0
    /\ cvSignalled = FALSE
    /\ resp = NoResp

-----------------------------------------------------------------------------
(* init: set running, then create the threads one by one.  A worker runs    *)
(* as soon as it is created; a failed pthread_create is only logged.        *)

StartPool ==
    /\ mpc = "init"
    /\ running' = TRUE
    /\ mpc' = "spawn"
    /\ UNCHANGED <<jobVars, queue, qMtx, wpc, wjob, workers, spawned, mjob,
                   cvSignalled, resp>>

Bug_SpawnOneMore(created) ==
    /\ mpc = "spawn"
    /\ spawned <= MaxThreads
    /\ spawned' = spawned + 1
    /\ IF created
       THEN /\ workers' = workers \union {spawned + 1}
            /\ wpc' = [wpc EXCEPT ![spawned + 1] = "top"]
       ELSE UNCHANGED <<workers, wpc>>
    /\ UNCHANGED <<running, jobVars, queue, qMtx, wjob, mpc, mjob,
                   cvSignalled, resp>>

Spawn(created) ==
    /\ mpc = "spawn"
    /\ spawned < MaxThreads
    /\ spawned' = spawned + 1
    /\ IF created
       THEN /\ workers' = workers \union {spawned + 1}
            /\ wpc' = [wpc EXCEPT ![spawned + 1] = "top"]
       ELSE UNCHANGED <<workers, wpc>>
    /\ UNCHANGED <<running, jobVars, queue, qMtx, wjob, mpc, mjob,
                   cvSignalled, resp>>

PoolReady ==
    /\ mpc = "spawn"
    /\ spawned = MaxThreads
    /\ mpc' = "idle"
    /\ UNCHANGED <<poolVars, jobVars, queue, qMtx, wjob, mjob, cvSignalled,
                   resp>>

-----------------------------------------------------------------------------
(* run and enqueue. *)

(* A call returns: its response is out and its locals are gone. *)
Reply(r) ==
    /\ resp' = r
    /\ mpc' = "idle"
    /\ mjob' = 0
    /\ cvSignalled' = FALSE

RunBlocking(r) ==
    /\ mpc = "idle"
    /\ Reply(SubmitResp(0, execute(r)))
    /\ UNCHANGED <<poolVars, jobVars, queue, qMtx, wjob>>

(* A non-blocking request without payload, or a mode outside the enum. *)
RunRefused ==
    /\ mpc = "idle"
    /\ Reply(SubmitResp(0, InvalidInput))
    /\ UNCHANGED <<poolVars, jobVars, queue, qMtx, wjob>>

(* enqueue, first part: make the job and enter it into the map. *)
EnqueueInsert(r) ==
    /\ mpc = "idle"
    /\ HasWork(r)
    /\ issued < MaxJobs
    /\ issued' = issued + 1
    /\ job' = [job EXCEPT ![issued + 1] = [NewJob EXCEPT !.req = r]]
    /\ jobs' = jobs \union {issued + 1}
    /\ mjob' = issued + 1
    /\ mpc' = "push"
    /\ UNCHANGED <<poolVars, queue, qMtx, wjob, cvSignalled, resp>>

(* enqueue, second part: append to the queue under qMtx. *)
EnqueuePush ==
    /\ mpc = "push"
    /\ qMtx = Free
    /\ queue' = Append(queue, mjob)
    /\ mpc' = "signal"
    /\ UNCHANGED <<poolVars, jobVars, qMtx, wjob, mjob, cvSignalled, resp>>

(* The waiters on qCv that a wake-up may choose. *)
Waiting == {w \in Worker : wpc[w] = "wait"}

Bug_SignalNobody ==
    /\ mpc = "signal"
    /\ Reply(SubmitResp(mjob, NotFinished))
    /\ UNCHANGED <<poolVars, jobVars, queue, qMtx, wjob>>

(* enqueue, last part: pthread_cond_signal after the unlock, then run       *)
(* answers with the ticket.                                                 *)
EnqueueSignal ==
    /\ mpc = "signal"
    /\ \/ /\ Waiting = {}
          /\ UNCHANGED wpc
       \/ \E w \in Waiting : wpc' = [wpc EXCEPT ![w] = "lock"]
    /\ Reply(SubmitResp(mjob, NotFinished))
    /\ UNCHANGED <<running, workers, spawned, jobVars, queue, qMtx, wjob>>

-----------------------------------------------------------------------------
(* get. *)

Bug_DeliverKeepsTicket(t) ==
    /\ Reply(GetResp(t, job[t]))
    /\ job' = [job EXCEPT ![t].result = VALUE_NOT_SET]
    /\ UNCHANGED jobs

(* A finished job: its status is copied, its result swapped out of the job  *)
(* and the ticket erased.                                                   *)
Deliver(t) ==
    /\ Reply(GetResp(t, job[t]))
    /\ job' = [job EXCEPT ![t].result = VALUE_NOT_SET]
    /\ jobs' = jobs \ {t}

(* findJobById finds nothing. *)
GetUnknown(t) ==
    /\ mpc = "idle"
    /\ t \notin jobs
    /\ Reply(GetResp(t, InvalidInput))
    /\ UNCHANGED <<poolVars, jobVars, queue, qMtx, wjob>>

(* A wait mode outside the enum. *)
GetRefused(t) ==
    /\ mpc = "idle"
    /\ t \in jobs
    /\ Reply(GetResp(0, InvalidInput))
    /\ UNCHANGED <<poolVars, jobVars, queue, qMtx, wjob>>

(* NO_WAIT, and WAIT_UP_TO when the job is already done. *)
GetFinished(t) ==
    /\ mpc = "idle"
    /\ t \in jobs
    /\ job[t].done
    /\ Deliver(t)
    /\ UNCHANGED <<poolVars, queue, qMtx, wjob, issued>>

GetNoWait(t) ==
    /\ mpc = "idle"
    /\ t \in jobs
    /\ ~job[t].done
    /\ Reply(GetResp(t, NotFinished))
    /\ UNCHANGED <<poolVars, jobVars, queue, qMtx, wjob>>

(* WAIT_UP_TO on an unfinished job: sleep on the job's cv. *)
GetWait(t) ==
    /\ mpc = "idle"
    /\ t \in jobs
    /\ ~job[t].done
    /\ mjob' = t
    /\ cvSignalled' = FALSE
    /\ mpc' = "cvwait"
    /\ UNCHANGED <<poolVars, jobVars, queue, qMtx, wjob, resp>>

(* The broadcast of the worker ends the wait. *)
GetWoken ==
    /\ mpc = "cvwait"
    /\ cvSignalled
    /\ job[mjob].done
    /\ Deliver(mjob)
    /\ UNCHANGED <<poolVars, queue, qMtx, wjob, issued>>

Bug_TimeoutIgnoresDone ==
    /\ mpc = "cvwait"
    /\ Reply(GetResp(mjob, NotFinished))
    /\ UNCHANGED <<jobVars, poolVars, queue, qMtx, wjob>>

(* The deadline passes (or the wait wakes spuriously on a finished job):    *)
(* done is read once more before answering.  A spurious wake-up on an       *)
(* unfinished job goes back to sleep and changes nothing.                   *)
GetTimeout ==
    /\ mpc = "cvwait"
    /\ \/ /\ job[mjob].done
          /\ Deliver(mjob)
       \/ /\ ~job[mjob].done
          /\ Reply(GetResp(mjob, NotFinished))
          /\ UNCHANGED <<jobs, job>>
    /\ UNCHANGED <<poolVars, queue, qMtx, wjob, issued>>

-----------------------------------------------------------------------------
(* deinit: clear running (without qMtx), broadcast, join every thread that  *)
(* was created, clear the vector; AlgoRunner::deinit then frees the pool.   *)

StopPool ==
    /\ mpc = "idle"
    /\ running' = FALSE
    /\ mpc' = "bcast"
    /\ UNCHANGED <<jobVars, queue, qMtx, wpc, wjob, workers, spawned, mjob,
                   cvSignalled, resp>>

StopBroadcast ==
    /\ mpc = "bcast"
    /\ wpc' = [w \in Worker |-> IF wpc[w] = "wait" THEN "lock" ELSE wpc[w]]
    /\ mpc' = "join"
    /\ UNCHANGED <<running, workers, spawned, jobVars, queue, qMtx, wjob,
                   mjob, cvSignalled, resp>>

Bug_FreeWithoutJoin ==
    /\ mpc = "join"
    /\ workers' = {}
    /\ mpc' = "freed"
    /\ UNCHANGED <<running, wpc, spawned, jobVars, queue, qMtx, wjob, mjob,
                   cvSignalled, resp>>

JoinAndFree ==
    /\ mpc = "join"
    /\ \A w \in workers : wpc[w] = "exit"
    /\ workers' = {}
    /\ mpc' = "freed"
    /\ UNCHANGED <<running, wpc, spawned, jobVars, queue, qMtx, wjob, mjob,
                   cvSignalled, resp>>

-----------------------------------------------------------------------------
(* workerLoop. *)

mainVars == <<mpc, mjob, resp, workers, spawned, issued, running>>

LoopHead(w) ==
    /\ wpc[w] = "top"
    /\ wpc' = [wpc EXCEPT ![w] = IF running THEN "lock" ELSE "exit"]
    /\ UNCHANGED <<mainVars, jobs, job, queue, qMtx, wjob, cvSignalled>>

(* Lock qMtx, on entry or on return from pthread_cond_wait. *)
LockQueue(w) ==
    /\ wpc[w] = "lock"
    /\ qMtx = Free
    /\ qMtx' = w
    /\ wpc' = [wpc EXCEPT ![w] = "test"]
    /\ UNCHANGED <<mainVars, jobs, job, queue, wjob, cvSignalled>>

Bug_FindEmptyIgnoresStop(w) ==
    /\ wpc[w] = "test"
    /\ queue = <<>>
    /\ wpc' = [wpc EXCEPT ![w] = "sleep"]
    /\ UNCHANGED <<mainVars, jobs, job, queue, qMtx, wjob, cvSignalled>>

(* The wait predicate is true when it is read ... *)
FindEmpty(w) ==
    /\ wpc[w] = "test"
    /\ running
    /\ queue = <<>>
    /\ wpc' = [wpc EXCEPT ![w] = "sleep"]
    /\ UNCHANGED <<mainVars, jobs, job, queue, qMtx, wjob, cvSignalled>>

(* ... and only then does pthread_cond_wait release qMtx and wait. *)
Sleep(w) ==
    /\ wpc[w] = "sleep"
    /\ qMtx' = Free
    /\ wpc' = [wpc EXCEPT ![w] = "wait"]
    /\ UNCHANGED <<mainVars, jobs, job, queue, wjob, cvSignalled>>

SpuriousWake(w) ==
    /\ wpc[w] = "wait"
    /\ wpc' = [wpc EXCEPT ![w] = "lock"]
    /\ UNCHANGED <<mainVars, jobs, job, queue, qMtx, wjob, cvSignalled>>

Leave(w) ==
    /\ wpc[w] = "test"
    /\ ~running
    /\ queue = <<>>
    /\ qMtx' = Free
    /\ wpc' = [wpc EXCEPT ![w] = "exit"]
    /\ UNCHANGED <<mainVars, jobs, job, queue, wjob, cvSignalled>>

Bug_TakeWithoutPop(w) ==
    /\ wpc[w] = "test"
    /\ queue # <<>>
    /\ wjob' = [wjob EXCEPT ![w] = Head(queue)]
    /\ qMtx' = Free
    /\ wpc' = [wpc EXCEPT ![w] = "run"]
    /\ UNCHANGED <<mainVars, jobs, job, queue, cvSignalled>>

(* A job is taken even when running has been cleared meanwhile. *)
TakeJob(w) ==
    /\ wpc[w] = "test"
    /\ queue # <<>>
    /\ wjob' = [wjob EXCEPT ![w] = Head(queue)]
    /\ queue' = Tail(queue)
    /\ qMtx' = Free
    /\ wpc' = [wpc EXCEPT ![w] = "run"]
    /\ UNCHANGED <<mainVars, jobs, job, cvSignalled>>

(* Run the job and publish status, result and done under its mutex. *)
Publish(w) ==
    /\ wpc[w] = "run"
    /\ LET o == execute(job[wjob[w]].req)
       IN  job' = [job EXCEPT ![wjob[w]].status = o.status,
                              ![wjob[w]].result = o.result,
                              ![wjob[w]].done = TRUE]
    /\ wpc' = [wpc EXCEPT ![w] = "notify"]
    /\ UNCHANGED <<mainVars, jobs, queue, qMtx, wjob, cvSignalled>>

Bug_NotifyNobody(w) ==
    /\ wpc[w] = "notify"
    /\ wjob' = [wjob EXCEPT ![w] = 0]
    /\ wpc' = [wpc EXCEPT ![w] = "top"]
    /\ UNCHANGED <<mainVars, jobs, job, queue, qMtx, cvSignalled>>

(* Broadcast on the job's cv after its mutex was released; the worker's     *)
(* reference to the job ends with the loop body.                            *)
Notify(w) ==
    /\ wpc[w] = "notify"
    /\ cvSignalled' = (cvSignalled \/ (mpc = "cvwait" /\ mjob = wjob[w]))
    /\ wjob' = [wjob EXCEPT ![w] = 0]
    /\ wpc' = [wpc EXCEPT ![w] = "top"]
    /\ UNCHANGED <<mainVars, jobs, job, queue, qMtx>>

-----------------------------------------------------------------------------
MainStep ==
    \/ StartPool
    \/ \E created \in BOOLEAN : Spawn(created)
    \/ PoolReady
    \/ \E r \in Requests : RunBlocking(r) \/ EnqueueInsert(r)
    \/ RunRefused \/ EnqueuePush \/ EnqueueSignal
    \/ \E t \in Ticket : \/ GetUnknown(t) \/ GetRefused(t) \/ GetFinished(t)
                         \/ GetNoWait(t) \/ GetWait(t)
    \/ GetWoken \/ GetTimeout
    \/ StopPool \/ StopBroadcast \/ JoinAndFree

WorkerStep(w) ==
    \/ LoopHead(w) \/ LockQueue(w) \/ FindEmpty(w) \/ Sleep(w)
    \/ SpuriousWake(w) \/ Leave(w) \/ TakeJob(w) \/ Publish(w) \/ Notify(w)

(* The process may end once the pool is freed. *)
Finished ==
    /\ mpc = "freed"
    /\ UNCHANGED vars

Next == MainStep \/ (\E w \in Worker : WorkerStep(w)) \/ Finished

Spec == Init /\ [][Next]_vars

-----------------------------------------------------------------------------
(* Fairness.  A thread that can run is scheduled; a thread that waits for    *)
(* qMtx gets it in the end (strong, because others take it in between).      *)
(* Nothing is assumed of the caller, of spurious wake-ups or of the timeout  *)
(* of get, which the client may set to 2^32 - 1 milliseconds.                *)

MainFairness ==
    /\ WF_vars(StartPool \/ PoolReady \/ EnqueueSignal \/ GetWoken
                 \/ StopBroadcast \/ JoinAndFree)
    /\ WF_vars(\E created \in BOOLEAN : Spawn(created))
    /\ SF_vars(EnqueuePush)

WorkerFairness(w) ==
    /\ WF_vars(LoopHead(w) \/ Sleep(w) \/ Publish(w) \/ Notify(w))
    /\ WF_vars(FindEmpty(w) \/ Leave(w) \/ TakeJob(w))
    /\ SF_vars(LockQueue(w))

FairSpec == Spec /\ MainFairness /\ \A w \in Worker : WorkerFairness(w)

-----------------------------------------------------------------------------
(* Properties. *)

(* Every variable has its type: in particular a job always carries a status *)
(* and a result of the protocol, whoever wrote it last.                     *)
TypeOK ==
    /\ running \in BOOLEAN
    /\ jobs \in SUBSET Ticket
    /\ job \in [Ticket -> Job]
    /\ queue \in Seq(Ticket)
    /\ qMtx \in Worker \union {Free}
    /\ wpc \in [Worker -> WorkerPC]
    /\ wjob \in [Worker -> Ticket \union {0}]
    /\ workers \in SUBSET Worker
    /\ spawned \in 0..MaxThreads
    /\ issued \in 0..MaxJobs
    /\ mpc \in MainPC
    /\ mjob \in Ticket \union {0}
    /\ cvSignalled \in BOOLEAN
    /\ resp \in ResponseType

Issued     == 1..issued
Queued(t)  == \E i \in 1..Len(queue) : queue[i] = t
Held(t)    == \E w \in Worker : wpc[w] = "run" /\ wjob[w] = t
Pushing(t) == mpc = "push" /\ mjob = t

(* Every ticket that enqueue issued is in exactly one place: in the main    *)
(* thread's hands, once in jobQueue, with one worker, or done.  No job is   *)
(* lost, run twice or run by two workers, shutdown included.                *)
ExactlyOnePlace ==
    /\ \A t \in Issued :
          /\ job[t].done <=> ~(Queued(t) \/ Held(t) \/ Pushing(t))
          /\ ~(Queued(t) /\ Held(t))
          /\ ~(Queued(t) /\ Pushing(t))
          /\ ~(Held(t) /\ Pushing(t))
    /\ \A i, j \in 1..Len(queue) : queue[i] = queue[j] => i = j
    /\ \A v, w \in Worker :
          wpc[v] = "run" /\ wpc[w] = "run" /\ wjob[v] = wjob[w] => v = w

(* A ticket that can still be got and whose job is done holds the complete  *)
(* outcome of its own request: get never finds a result that an earlier     *)
(* get swapped out, or one that belongs to another job.                     *)
HeldOutcomesIntact ==
    \A t \in jobs : job[t].done =>
        /\ job[t].status = execute(job[t].req).status
        /\ job[t].result = execute(job[t].req).result

(* No worker sleeps through work: when jobQueue is not empty some worker is *)
(* awake, or enqueue is just about to signal qCv.                           *)
NoLostWakeup ==
    queue # <<>> /\ workers # {} /\ mpc # "signal"
        => \E w \in workers : wpc[w] # "wait"

(* deinit frees the pool (mutexes, queue, map) only when no thread can      *)
(* touch it any more.                                                       *)
NoWorkerAfterFree ==
    mpc = "freed" => \A w \in Worker : wpc[w] \in {"unborn", "exit"}

(* The pool implements the abstract job table: whatever the threads do, the *)
(* responses of run and get are those of JobStore.                          *)
PhaseOf(t) ==
    IF t > issued THEN "unused"
    ELSE IF t \notin jobs THEN "consumed"
    ELSE IF job[t].done THEN "finished" ELSE "pending"

Store == INSTANCE JobStore WITH
    phase <- [t \in Ticket |-> PhaseOf(t)],
    reqOf <- [t \in Ticket |-> job[t].req]

ImplementsJobStore == Store!Spec

(* With at least one thread, an accepted job is finished unless the pool is *)
(* being stopped.                                                           *)
AcceptedWorkFinishes ==
    \A t \in Ticket :
        (t \in Issued /\ workers # {}) ~> (job[t].done \/ ~running)

(* With at least one thread, a waiting get is woken by the worker: it does  *)
(* not need its timeout to come back.                                       *)
WaitingGetReturns ==
    (mpc = "cvwait" /\ workers # {}) ~> (mpc # "cvwait")

(* deinit returns when its broadcast found every worker at work or on its   *)
(* way to test the predicate: from then on no worker goes to sleep.         *)
DeinitReturnsUnlessRaced ==
    (mpc = "join" /\ \A w \in Worker : wpc[w] \notin {"sleep", "wait"})
        ~> (mpc = "freed")

(* deinit stops all threads and returns. *)
DeinitReturns == (mpc = "bcast") ~> (mpc = "freed")

=============================================================================
