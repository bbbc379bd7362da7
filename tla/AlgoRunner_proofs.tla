-------------------------- MODULE AlgoRunner_proofs --------------------------
(***************************************************************************)
(* The safety properties of AlgoRunner for every number of threads, every  *)
(* number of jobs and every set of requests.                               *)
(***************************************************************************)
EXTENDS AlgoRunner, AlgoOps_proofs, SequenceTheorems

-----------------------------------------------------------------------------
(* The constants and the responses. *)

(* What execute makes of a request that is sent, or of none. *)
LEMMA RequestOutcome ==
    ASSUME NEW r \in Requests \union {NoPayload}
    PROVE  /\ execute(r) \in Outcome
           /\ execute(r).status \in Status
           /\ execute(r).result \in Result
<1>1. r \in Payload
  BY JobTypesAssumption DEF NoPayload, Payload
<1>2. execute(r) \in Outcome
  BY <1>1, ExecuteOutcome
<1> QED  BY <1>2 DEF Outcome, Status

(* Responses are typed when their parts are. *)
LEMMA ResponseTyped ==
    ASSUME NEW t \in Ticket \union {0}, NEW o,
           o.status \in Status, o.result \in Result
    PROVE  SubmitResp(t, o) \in ResponseType /\ GetResp(t, o) \in ResponseType
BY DEF SubmitResp, GetResp, Response, ResponseType

(* The two refusals of run and get are typed. *)
LEMMA FailTyped ==
    /\ NotFinished.status \in Status /\ NotFinished.result \in Result
    /\ InvalidInput.status \in Status /\ InvalidInput.result \in Result
BY DEF NotFinished, InvalidInput, Fail, Status, FinalStatus, Result

(* Tickets and workers are positive naturals, so 0 stands for none. *)
LEMMA TicketNat ==
    /\ MaxJobs \in Nat /\ MaxThreads \in Nat
    /\ Ticket \subseteq Nat \ {0} /\ Worker \subseteq Nat \ {0}
BY JobTypesAssumption, AlgoRunnerAssumption DEF Ticket, Worker

-----------------------------------------------------------------------------
(* Types, and where tickets may appear: the map holds issued tickets only,  *)
(* the main thread's current ticket is in the map while its call lasts, and *)
(* the queue and the workers hold issued tickets.                           *)
TicketInv ==
    /\ jobs \subseteq Issued
    /\ mpc \in {"push", "signal", "cvwait"} => mjob \in jobs
    /\ \A i \in 1..Len(queue) : queue[i] \in Issued
    /\ \A w \in Worker : wpc[w] \in {"run", "notify"} => wjob[w] \in Issued

(* The first half of type correctness: the initial states ... *)
LEMMA TypeInit == Init => TypeOK /\ TicketInv
<1> SUFFICES ASSUME Init PROVE TypeOK /\ TicketInv
  OBVIOUS
<1>1. NewJob \in Job
  BY DEF NewJob, Job, Status, FinalStatus, Result
<1>2. NoResp \in ResponseType
  BY FailTyped DEF NoResp, Response, ResponseType
<1>3. queue \in Seq(Ticket) /\ Len(queue) = 0
  BY EmptySeq DEF Init
<1>4. TypeOK
  <2>1. running \in BOOLEAN /\ cvSignalled \in BOOLEAN
    BY Zenon DEF Init
  <2>2. job \in [Ticket -> Job] /\ resp \in ResponseType
    BY <1>1, <1>2, Zenon DEF Init
  <2>3. wpc \in [Worker -> WorkerPC] /\ wjob \in [Worker -> Ticket \union {0}]
    BY DEF Init, WorkerPC
  <2>4. /\ jobs \in SUBSET Ticket /\ workers \in SUBSET Worker
        /\ qMtx \in Worker \union {Free}
        /\ spawned \in 0..MaxThreads /\ issued \in 0..MaxJobs
        /\ mpc \in MainPC /\ mjob \in Ticket \union {0}
    BY TicketNat DEF Init, MainPC
  <2> QED  BY <1>3, <2>1, <2>2, <2>3, <2>4, Zenon DEF TypeOK
<1>5. TicketInv
  BY <1>3 DEF Init, TicketInv
<1> QED  BY <1>4, <1>5

(* ... and every step of the main thread and of the workers. *)
LEMMA TypeStep == TypeOK /\ TicketInv /\ [Next]_vars => TypeOK'
<1> SUFFICES ASSUME TypeOK, TicketInv, [Next]_vars PROVE TypeOK'
  OBVIOUS
<1> USE TicketNat DEF TypeOK, Issued
<1>0. Issued \subseteq Ticket
  BY DEF Ticket
<1>r. ASSUME NEW t \in Ticket \union {0}
      PROVE  /\ SubmitResp(t, NotFinished) \in ResponseType
             /\ SubmitResp(t, InvalidInput) \in ResponseType
             /\ GetResp(t, NotFinished) \in ResponseType
             /\ GetResp(t, InvalidInput) \in ResponseType
  BY ResponseTyped, FailTyped
<1>d. ASSUME NEW t \in Ticket, Deliver(t)
      PROVE  /\ jobs' \in SUBSET Ticket
             /\ job' \in [Ticket -> Job]
             /\ mpc' \in MainPC
             /\ mjob' \in Ticket \union {0}
             /\ cvSignalled' \in BOOLEAN
             /\ resp' \in ResponseType
  <2>1. job[t].status \in Status /\ job[t].result \in Result
    BY DEF Job
  <2>2. resp' \in ResponseType
    BY <1>d, <2>1, ResponseTyped DEF Deliver, Reply
  <2>3. job' \in [Ticket -> Job]
    BY <1>d DEF Deliver, Job, Result
  <2> QED  BY <1>d, <2>2, <2>3 DEF Deliver, Reply, MainPC
<1>1. CASE StartPool
  BY <1>1 DEF StartPool, MainPC, jobVars
<1>2. ASSUME NEW created \in BOOLEAN, Spawn(created) PROVE TypeOK'
  <2>1. spawned' \in 0..MaxThreads /\ spawned + 1 \in Worker
    BY <1>2 DEF Spawn, Worker
  <2>2. workers' \in SUBSET Worker
    BY <1>2, <2>1 DEF Spawn
  <2>3. wpc' \in [Worker -> WorkerPC]
    BY <1>2, <2>1 DEF Spawn, WorkerPC
  <2> QED  BY <1>2, <2>1, <2>2, <2>3 DEF Spawn, jobVars
<1>3. CASE PoolReady
  BY <1>3 DEF PoolReady, MainPC, poolVars, jobVars
<1>4. ASSUME NEW r \in Requests, RunBlocking(r) PROVE TypeOK'
  <2>1. resp' \in ResponseType
    BY <1>4, RequestOutcome, ResponseTyped DEF RunBlocking, Reply
  <2> QED  BY <1>4, <2>1 DEF RunBlocking, Reply, MainPC, poolVars, jobVars
<1>5. ASSUME NEW r \in Requests, EnqueueInsert(r) PROVE TypeOK'
  <2>1. [NewJob EXCEPT !.req = r] \in Job
    BY DEF NewJob, Job, Status, FinalStatus, Result
  <2>2. issued + 1 \in Ticket
    BY <1>5 DEF EnqueueInsert, Ticket
  <2>3. job' \in [Ticket -> Job]
    BY <1>5, <2>1, <2>2 DEF EnqueueInsert
  <2> QED  BY <1>5, <2>2, <2>3 DEF EnqueueInsert, MainPC, poolVars, Ticket
<1>6. CASE RunRefused
  BY <1>6, <1>r DEF RunRefused, Reply, MainPC, poolVars, jobVars
<1>7. CASE EnqueuePush
  <2>1. mjob \in Ticket
    BY <1>0, <1>7 DEF EnqueuePush, TicketInv
  <2>2. queue' \in Seq(Ticket)
    BY <1>7, <2>1, AppendProperties DEF EnqueuePush
  <2> QED  BY <1>7, <2>2 DEF EnqueuePush, MainPC, poolVars, jobVars
<1>8. CASE EnqueueSignal
  BY <1>8, <1>r DEF EnqueueSignal, Reply, Waiting, MainPC, WorkerPC, jobVars
<1>9. ASSUME NEW t \in Ticket, GetUnknown(t) PROVE TypeOK'
  BY <1>9, <1>r DEF GetUnknown, Reply, MainPC, poolVars, jobVars
<1>10. ASSUME NEW t \in Ticket, GetRefused(t) PROVE TypeOK'
  BY <1>10, <1>r DEF GetRefused, Reply, MainPC, poolVars, jobVars
<1>11. ASSUME NEW t \in Ticket, GetFinished(t) PROVE TypeOK'
  BY <1>11, <1>d DEF GetFinished, poolVars
<1>12. ASSUME NEW t \in Ticket, GetNoWait(t) PROVE TypeOK'
  BY <1>12, <1>r DEF GetNoWait, Reply, MainPC, poolVars, jobVars
<1>13. ASSUME NEW t \in Ticket, GetWait(t) PROVE TypeOK'
  BY <1>13 DEF GetWait, MainPC, poolVars, jobVars
<1>14. CASE GetWoken
  <2>1. mjob \in Ticket
    BY <1>0, <1>14 DEF GetWoken, TicketInv
  <2> QED  BY <1>14, <1>d, <2>1 DEF GetWoken, poolVars
<1>15. CASE GetTimeout
  <2>1. mjob \in Ticket
    BY <1>0, <1>15 DEF GetTimeout, TicketInv
  <2>2. CASE Deliver(mjob)
    BY <1>15, <1>d, <2>1, <2>2 DEF GetTimeout, poolVars
  <2>3. CASE Reply(GetResp(mjob, NotFinished)) /\ UNCHANGED <<jobs, job>>
    BY <1>15, <1>r, <2>3 DEF GetTimeout, Reply, MainPC, poolVars
  <2> QED  BY <1>15, <2>2, <2>3 DEF GetTimeout
<1>16. CASE StopPool
  BY <1>16 DEF StopPool, MainPC, jobVars
<1>17. CASE StopBroadcast
  BY <1>17 DEF StopBroadcast, MainPC, WorkerPC, jobVars
<1>18. CASE JoinAndFree
  BY <1>18 DEF JoinAndFree, MainPC, jobVars
<1>19. ASSUME NEW w \in Worker, WorkerStep(w) PROVE TypeOK'
  <2>1. CASE LoopHead(w)
    BY <2>1 DEF LoopHead, WorkerPC, mainVars
  <2>2. CASE LockQueue(w)
    BY <2>2 DEF LockQueue, WorkerPC, mainVars
  <2>3. CASE FindEmpty(w)
    BY <2>3 DEF FindEmpty, WorkerPC, mainVars
  <2>4. CASE Sleep(w)
    BY <2>4 DEF Sleep, WorkerPC, mainVars
  <2>5. CASE SpuriousWake(w)
    BY <2>5 DEF SpuriousWake, WorkerPC, mainVars
  <2>6. CASE Leave(w)
    BY <2>6 DEF Leave, WorkerPC, mainVars
  <2>7. CASE TakeJob(w)
    <3>1. Head(queue) \in Ticket /\ Tail(queue) \in Seq(Ticket)
      BY <2>7, HeadTailProperties DEF TakeJob
    <3> QED  BY <2>7, <3>1 DEF TakeJob, WorkerPC, mainVars
  <2>8. CASE Publish(w)
    <3> DEFINE o == execute(job[wjob[w]].req)
    <3>1. wjob[w] \in Ticket
      BY <1>0, <2>8 DEF Publish, TicketInv
    <3>2. job[wjob[w]].req \in Requests \union {NoPayload}
      BY <3>1 DEF Job
    <3>3. o.status \in Status /\ o.result \in Result
      BY <3>2, RequestOutcome
    <3>4. job' = [job EXCEPT ![wjob[w]] =
                    [[[@ EXCEPT !.status = o.status] EXCEPT !.result = o.result]
                        EXCEPT !.done = TRUE]]
      BY <2>8, <3>1 DEF Publish
    <3> HIDE DEF o
    <3>5. job' \in [Ticket -> Job]
      BY <3>1, <3>3, <3>4 DEF Job
    <3> QED  BY <2>8, <3>5 DEF Publish, WorkerPC, mainVars
  <2>9. CASE Notify(w)
    BY <2>9 DEF Notify, WorkerPC, mainVars
  <2> QED  BY <1>19, <2>1, <2>2, <2>3, <2>4, <2>5, <2>6, <2>7, <2>8, <2>9
           DEF WorkerStep
<1>20. CASE UNCHANGED vars
  BY <1>20 DEF vars
<1> QED
  BY <1>1, <1>2, <1>3, <1>4, <1>5, <1>6, <1>7, <1>8, <1>9, <1>10, <1>11,
     <1>12, <1>13, <1>14, <1>15, <1>16, <1>17, <1>18, <1>19, <1>20
  DEF Next, MainStep, Finished

(* No step of enqueue, get or a worker brings in a ticket never issued. *)
LEMMA TicketStep == TypeOK /\ TicketInv /\ [Next]_vars => TicketInv'
<1> SUFFICES ASSUME TypeOK, TicketInv, [Next]_vars PROVE TicketInv'
  OBVIOUS
<1> USE TicketNat DEF TicketInv, Issued
<1>0. issued \in Nat /\ jobs \subseteq 1..issued
  BY DEF TypeOK
<1>1. CASE StartPool
  BY <1>1 DEF StartPool, jobVars
<1>2. ASSUME NEW created \in BOOLEAN, Spawn(created) PROVE TicketInv'
  BY <1>2 DEF Spawn, jobVars, TypeOK
<1>3. CASE PoolReady
  BY <1>3 DEF PoolReady, poolVars, jobVars
<1>4. ASSUME NEW r \in Requests, RunBlocking(r) PROVE TicketInv'
  BY <1>4 DEF RunBlocking, Reply, poolVars, jobVars
<1>5. ASSUME NEW r \in Requests, EnqueueInsert(r) PROVE TicketInv'
  <2>1. 1..issued \subseteq 1..(issued + 1) /\ issued + 1 \in 1..(issued + 1)
    BY <1>0
  <2> QED  BY <1>0, <1>5, <2>1 DEF EnqueueInsert, poolVars
<1>6. CASE RunRefused
  BY <1>6 DEF RunRefused, Reply, poolVars, jobVars
<1>7. CASE EnqueuePush
  <2>1. mjob \in jobs /\ mjob \in Ticket
    BY <1>7 DEF EnqueuePush, TypeOK
  <2>2. /\ Len(queue') = Len(queue) + 1
        /\ \A i \in 1..Len(queue) : queue'[i] = queue[i]
        /\ queue'[Len(queue) + 1] = mjob
    BY <1>7, <2>1, AppendProperties DEF EnqueuePush, TypeOK
  <2>3. Len(queue) \in Nat
    BY DEF TypeOK
  <2>4. \A i \in 1..Len(queue') : queue'[i] \in 1..issued
    BY <1>0, <2>1, <2>2, <2>3
  <2> QED  BY <1>7, <2>1, <2>4 DEF EnqueuePush, poolVars, jobVars
<1>8. CASE EnqueueSignal
  BY <1>8 DEF EnqueueSignal, Reply, Waiting, jobVars, TypeOK
<1>9. ASSUME NEW t \in Ticket, GetUnknown(t) PROVE TicketInv'
  BY <1>9 DEF GetUnknown, Reply, poolVars, jobVars
<1>10. ASSUME NEW t \in Ticket, GetRefused(t) PROVE TicketInv'
  BY <1>10 DEF GetRefused, Reply, poolVars, jobVars
<1>11. ASSUME NEW t \in Ticket, GetFinished(t) PROVE TicketInv'
  BY <1>11 DEF GetFinished, Deliver, Reply, poolVars
<1>12. ASSUME NEW t \in Ticket, GetNoWait(t) PROVE TicketInv'
  BY <1>12 DEF GetNoWait, Reply, poolVars, jobVars
<1>13. ASSUME NEW t \in Ticket, GetWait(t) PROVE TicketInv'
  BY <1>13 DEF GetWait, poolVars, jobVars
<1>14. CASE GetWoken
  BY <1>14 DEF GetWoken, Deliver, Reply, poolVars
<1>15. CASE GetTimeout
  BY <1>15 DEF GetTimeout, Deliver, Reply, poolVars
<1>16. CASE StopPool
  BY <1>16 DEF StopPool, jobVars
<1>17. CASE StopBroadcast
  BY <1>17 DEF StopBroadcast, jobVars, TypeOK
<1>18. CASE JoinAndFree
  BY <1>18 DEF JoinAndFree, jobVars
<1>19. ASSUME NEW w \in Worker, WorkerStep(w) PROVE TicketInv'
  <2> USE DEF TypeOK, mainVars
  <2>1. CASE LoopHead(w)
    BY <2>1 DEF LoopHead
  <2>2. CASE LockQueue(w)
    BY <2>2 DEF LockQueue
  <2>3. CASE FindEmpty(w)
    BY <2>3 DEF FindEmpty
  <2>4. CASE Sleep(w)
    BY <2>4 DEF Sleep
  <2>5. CASE SpuriousWake(w)
    BY <2>5 DEF SpuriousWake
  <2>6. CASE Leave(w)
    BY <2>6 DEF Leave
  <2>7. CASE TakeJob(w)
    <3>1. /\ Len(queue) \in Nat \ {0} /\ Head(queue) = queue[1]
          /\ Len(queue') = Len(queue) - 1
          /\ \A i \in 1..Len(queue') : queue'[i] = queue[i + 1]
      BY <2>7, HeadTailProperties DEF TakeJob
    <3>2. \A i \in 1..Len(queue') : queue'[i] \in 1..issued
      BY <3>1
    <3>3. Head(queue) \in 1..issued
      BY <3>1
    <3> QED  BY <2>7, <3>2, <3>3 DEF TakeJob
  <2>8. CASE Publish(w)
    BY <2>8 DEF Publish
  <2>9. CASE Notify(w)
    BY <2>9 DEF Notify
  <2> QED  BY <1>19, <2>1, <2>2, <2>3, <2>4, <2>5, <2>6, <2>7, <2>8, <2>9
           DEF WorkerStep
<1>20. CASE UNCHANGED vars
  BY <1>20 DEF vars
<1> QED
  BY <1>1, <1>2, <1>3, <1>4, <1>5, <1>6, <1>7, <1>8, <1>9, <1>10, <1>11,
     <1>12, <1>13, <1>14, <1>15, <1>16, <1>17, <1>18, <1>19, <1>20
  DEF Next, MainStep, Finished

(* Types and the whereabouts of tickets together are invariant. *)
LEMMA TicketsTyped == Spec => [](TypeOK /\ TicketInv)
BY TypeInit, TypeStep, TicketStep, PTL DEF Spec

(* Type correctness: in particular every job holds a status and a result of *)
(* the protocol whoever wrote it last.                                      *)
THEOREM TypeCorrect == Spec => []TypeOK
BY TicketsTyped, PTL

-----------------------------------------------------------------------------
(* The workers.  qMtx is held by the worker that is testing the predicate   *)
(* or has found it true, and by no other; the queue a worker found empty    *)
(* stays empty until that worker waits.  The vector workers names exactly   *)
(* the threads that were started, until deinit clears it.                   *)
MutexInv ==
    \A w \in Worker :
        /\ wpc[w] \in {"test", "sleep"} <=> qMtx = w
        /\ wpc[w] = "sleep" => queue = <<>>

PoolInv ==
    /\ \A w \in Worker : w > spawned => wpc[w] = "unborn"
    /\ mpc # "freed" => workers = {w \in Worker : wpc[w] # "unborn"}

WorkerInv == MutexInv /\ PoolInv /\ NoLostWakeup /\ NoWorkerAfterFree

(* Before init there are no workers and the queue is empty. *)
LEMMA WorkerInit == Init => WorkerInv
<1> SUFFICES ASSUME Init PROVE WorkerInv
  OBVIOUS
<1>1. MutexInv
  BY TicketNat DEF Init, MutexInv, Free
<1>2. PoolInv
  BY DEF Init, PoolInv
<1>3. NoLostWakeup /\ NoWorkerAfterFree
  BY DEF Init, NoLostWakeup, NoWorkerAfterFree
<1> QED  BY <1>1, <1>2, <1>3 DEF WorkerInv

(* The main thread outside enqueue's last part, init and deinit changes     *)
(* nothing a worker depends on.                                             *)
LEMMA WorkerFrame ==
    ASSUME WorkerInv, UNCHANGED <<wpc, workers, spawned, queue, qMtx>>,
           (mpc = "freed") <=> (mpc' = "freed"), mpc # "signal"
    PROVE  WorkerInv'
BY DEF WorkerInv, MutexInv, PoolInv, NoLostWakeup, NoWorkerAfterFree

(* Every step keeps the mutex, pool and wake-up invariants, by action. *)
LEMMA WorkerInvStep == TypeOK /\ WorkerInv /\ [Next]_vars => WorkerInv'
<1> SUFFICES ASSUME TypeOK, WorkerInv, [Next]_vars PROVE WorkerInv'
  OBVIOUS
<1> USE TicketNat
<1>1. CASE StartPool
  BY <1>1, WorkerFrame DEF StartPool
<1>2. ASSUME NEW created \in BOOLEAN, Spawn(created) PROVE WorkerInv'
  <2>1. spawned + 1 \in Worker /\ spawned' = spawned + 1 /\ spawned \in Nat
    BY <1>2 DEF Spawn, Worker, TypeOK
  <2>2. wpc[spawned + 1] = "unborn"
    BY <2>1 DEF WorkerInv, PoolInv
  <2>3. CASE ~created
    BY <1>2, <2>1, <2>3 DEF Spawn, WorkerInv, MutexInv, PoolInv, NoLostWakeup,
                  NoWorkerAfterFree
  <2>4. CASE created
    <3>1. /\ workers' = workers \union {spawned + 1}
          /\ wpc' = [wpc EXCEPT ![spawned + 1] = "top"]
      BY <1>2, <2>4 DEF Spawn
    <3>2. MutexInv'
      BY <1>2, <2>1, <2>2, <3>1 DEF Spawn, WorkerInv, MutexInv, TypeOK
    <3>3. PoolInv'
      BY <1>2, <2>1, <2>2, <3>1 DEF Spawn, WorkerInv, PoolInv, TypeOK
    <3>4. NoLostWakeup'
      BY <1>2, <2>1, <3>1 DEF Spawn, NoLostWakeup, TypeOK
    <3>5. NoWorkerAfterFree'
      BY <1>2 DEF Spawn, NoWorkerAfterFree
    <3> QED  BY <3>2, <3>3, <3>4, <3>5 DEF WorkerInv
  <2> QED  BY <2>3, <2>4
<1>3. CASE PoolReady
  BY <1>3, WorkerFrame DEF PoolReady, poolVars
<1>4. ASSUME NEW r \in Requests, RunBlocking(r) PROVE WorkerInv'
  BY <1>4, WorkerFrame DEF RunBlocking, Reply, poolVars
<1>5. ASSUME NEW r \in Requests, EnqueueInsert(r) PROVE WorkerInv'
  BY <1>5, WorkerFrame DEF EnqueueInsert, poolVars
<1>6. CASE RunRefused
  BY <1>6, WorkerFrame DEF RunRefused, Reply, poolVars
<1>7. CASE EnqueuePush
  <2>1. \A w \in Worker : wpc[w] # "sleep"
    BY <1>7 DEF EnqueuePush, WorkerInv, MutexInv, Free
  <2> QED  BY <1>7, <2>1 DEF EnqueuePush, poolVars, WorkerInv, MutexInv,
                     PoolInv, NoLostWakeup, NoWorkerAfterFree
<1>8. CASE EnqueueSignal
  <2>1. /\ mpc = "signal" /\ mpc' = "idle"
        /\ UNCHANGED <<workers, spawned, queue, qMtx>>
    BY <1>8 DEF EnqueueSignal, Reply
  <2>2. workers = {w \in Worker : wpc[w] # "unborn"}
    BY <2>1 DEF WorkerInv, PoolInv
  <2>3. CASE Waiting = {} /\ UNCHANGED wpc
    BY <2>1, <2>2, <2>3 DEF Waiting, WorkerInv, MutexInv, PoolInv,
                        NoLostWakeup, NoWorkerAfterFree
  <2>4. ASSUME NEW w \in Waiting, wpc' = [wpc EXCEPT ![w] = "lock"]
        PROVE  WorkerInv'
    <3>1. w \in Worker /\ wpc[w] = "wait" /\ w \in workers
      BY <2>2 DEF Waiting
    <3>2. wpc'[w] = "lock" /\ \A v \in Worker : v # w => wpc'[v] = wpc[v]
      BY <2>4, <3>1 DEF TypeOK
    <3>3. MutexInv'
      BY <2>1, <3>1, <3>2 DEF WorkerInv, MutexInv
    <3>4. PoolInv'
      BY <2>1, <2>2, <3>1, <3>2 DEF WorkerInv, PoolInv
    <3>5. NoLostWakeup' /\ NoWorkerAfterFree'
      BY <2>1, <3>1, <3>2 DEF NoLostWakeup, NoWorkerAfterFree
    <3> QED  BY <3>3, <3>4, <3>5 DEF WorkerInv
  <2> QED  BY <1>8, <2>3, <2>4 DEF EnqueueSignal
<1>9. ASSUME NEW t \in Ticket, GetUnknown(t) PROVE WorkerInv'
  BY <1>9, WorkerFrame DEF GetUnknown, Reply, poolVars
<1>10. ASSUME NEW t \in Ticket, GetRefused(t) PROVE WorkerInv'
  BY <1>10, WorkerFrame DEF GetRefused, Reply, poolVars
<1>11. ASSUME NEW t \in Ticket, GetFinished(t) PROVE WorkerInv'
  BY <1>11, WorkerFrame DEF GetFinished, Deliver, Reply, poolVars
<1>12. ASSUME NEW t \in Ticket, GetNoWait(t) PROVE WorkerInv'
  BY <1>12, WorkerFrame DEF GetNoWait, Reply, poolVars
<1>13. ASSUME NEW t \in Ticket, GetWait(t) PROVE WorkerInv'
  BY <1>13, WorkerFrame DEF GetWait, poolVars
<1>14. CASE GetWoken
  BY <1>14, WorkerFrame DEF GetWoken, Deliver, Reply, poolVars
<1>15. CASE GetTimeout
  BY <1>15, WorkerFrame DEF GetTimeout, Deliver, Reply, poolVars
<1>16. CASE StopPool
  BY <1>16, WorkerFrame DEF StopPool
<1>17. CASE StopBroadcast
  <2>1. /\ mpc = "bcast" /\ mpc' = "join"
        /\ UNCHANGED <<workers, spawned, queue, qMtx>>
        /\ \A w \in Worker :
              wpc'[w] = IF wpc[w] = "wait" THEN "lock" ELSE wpc[w]
    BY <1>17 DEF StopBroadcast
  <2>2. MutexInv'
    BY <2>1 DEF WorkerInv, MutexInv
  <2>3. PoolInv'
    BY <2>1 DEF WorkerInv, PoolInv
  <2>4. NoLostWakeup' /\ NoWorkerAfterFree'
    BY <2>1 DEF WorkerInv, NoLostWakeup, NoWorkerAfterFree, TypeOK
  <2> QED  BY <2>2, <2>3, <2>4 DEF WorkerInv
<1>18. CASE JoinAndFree
  BY <1>18 DEF JoinAndFree, WorkerInv, MutexInv, PoolInv, NoLostWakeup,
              NoWorkerAfterFree
<1>19. ASSUME NEW w \in Worker, WorkerStep(w) PROVE WorkerInv'
  <2> USE DEF TypeOK, mainVars
  <2>0. /\ wpc[w] \notin {"unborn", "exit"} /\ mpc # "freed"
        /\ workers = {v \in Worker : wpc[v] # "unborn"}
    BY <1>19 DEF WorkerStep, LoopHead, LockQueue, FindEmpty, Sleep,
            SpuriousWake, Leave, TakeJob, Publish, Notify, WorkerInv, PoolInv,
            NoWorkerAfterFree
  <2>f. ASSUME NEW pc \in WorkerPC \ {"unborn"},
               wpc' = [wpc EXCEPT ![w] = pc],
               UNCHANGED <<mpc, workers, spawned>>,
               queue' # <<>> => queue # <<>> /\ pc # "wait"
        PROVE  PoolInv' /\ NoLostWakeup' /\ NoWorkerAfterFree'
    <3>1. PoolInv'
      BY <2>0, <2>f DEF WorkerInv, PoolInv
    <3>2. NoLostWakeup'
      BY <2>0, <2>f DEF WorkerInv, NoLostWakeup
    <3>3. NoWorkerAfterFree'
      BY <2>0, <2>f DEF NoWorkerAfterFree
    <3> QED  BY <3>1, <3>2, <3>3
  <2> USE DEF WorkerPC, Free
  <2>1. CASE LoopHead(w)
    <3>1. MutexInv'
      BY <2>1 DEF LoopHead, WorkerInv, MutexInv
    <3> QED  BY <2>1, <2>f, <3>1 DEF LoopHead, WorkerInv
  <2>2. CASE LockQueue(w)
    <3>1. MutexInv'
      BY <2>2 DEF LockQueue, WorkerInv, MutexInv
    <3> QED  BY <2>2, <2>f, <3>1 DEF LockQueue, WorkerInv
  <2>3. CASE FindEmpty(w)
    <3>1. MutexInv'
      BY <2>3 DEF FindEmpty, WorkerInv, MutexInv
    <3> QED  BY <2>3, <2>f, <3>1 DEF FindEmpty, WorkerInv
  <2>4. CASE Sleep(w)
    <3>1. MutexInv' /\ queue = <<>>
      BY <2>4 DEF Sleep, WorkerInv, MutexInv
    <3> QED  BY <2>4, <2>f, <3>1 DEF Sleep, WorkerInv
  <2>5. CASE SpuriousWake(w)
    <3>1. MutexInv'
      BY <2>5 DEF SpuriousWake, WorkerInv, MutexInv
    <3> QED  BY <2>5, <2>f, <3>1 DEF SpuriousWake, WorkerInv
  <2>6. CASE Leave(w)
    <3>1. MutexInv'
      BY <2>6 DEF Leave, WorkerInv, MutexInv
    <3> QED  BY <2>6, <2>f, <3>1 DEF Leave, WorkerInv
  <2>7. CASE TakeJob(w)
    <3>1. MutexInv'
      BY <2>7 DEF TakeJob, WorkerInv, MutexInv
    <3> QED  BY <2>7, <2>f, <3>1 DEF TakeJob, WorkerInv
  <2>8. CASE Publish(w)
    <3>1. MutexInv'
      BY <2>8 DEF Publish, WorkerInv, MutexInv
    <3> QED  BY <2>8, <2>f, <3>1 DEF Publish, WorkerInv
  <2>9. CASE Notify(w)
    <3>1. MutexInv'
      BY <2>9 DEF Notify, WorkerInv, MutexInv
    <3> QED  BY <2>9, <2>f, <3>1 DEF Notify, WorkerInv
  <2> QED  BY <1>19, <2>1, <2>2, <2>3, <2>4, <2>5, <2>6, <2>7, <2>8, <2>9
           DEF WorkerStep
<1>20. CASE UNCHANGED vars
  BY <1>20 DEF vars, WorkerInv, MutexInv, PoolInv, NoLostWakeup,
              NoWorkerAfterFree
<1> QED
  BY <1>1, <1>2, <1>3, <1>4, <1>5, <1>6, <1>7, <1>8, <1>9, <1>10, <1>11,
     <1>12, <1>13, <1>14, <1>15, <1>16, <1>17, <1>18, <1>19, <1>20
  DEF Next, MainStep, Finished

(* The invariants of the workers hold throughout. *)
LEMMA WorkersInvariant == Spec => []WorkerInv
BY TicketsTyped, WorkerInit, WorkerInvStep, PTL DEF Spec

(* No worker sleeps through work, whatever the number of threads: when      *)
(* jobQueue is not empty some worker is awake, or enqueue is about to       *)
(* signal qCv.                                                              *)
THEOREM WakeupsNotLost == Spec => []NoLostWakeup
<1>1. WorkerInv => NoLostWakeup
  BY DEF WorkerInv
<1> QED  BY <1>1, WorkersInvariant, PTL

(* deinit frees the pool only when every thread has returned. *)
THEOREM FreeAfterJoin == Spec => []NoWorkerAfterFree
<1>1. WorkerInv => NoWorkerAfterFree
  BY DEF WorkerInv
<1> QED  BY <1>1, WorkersInvariant, PTL

-----------------------------------------------------------------------------
(* Where the jobs are.  ExactlyOnePlace is inductive once it is known that  *)
(* queue and workers hold issued tickets (TicketInv); that an unfinished    *)
(* ticket is still in the map is what the refinement needs besides.         *)
UnfinishedInMap == \A t \in Issued : ~job[t].done => t \in jobs

PlaceInv == ExactlyOnePlace /\ UnfinishedInMap

(* Nothing is issued in the initial states. *)
LEMMA PlaceInit == Init => PlaceInv
BY DEF Init, PlaceInv, ExactlyOnePlace, UnfinishedInMap, Issued

(* A step that moves no job keeps all jobs in place. *)
LEMMA PlaceFrame ==
    ASSUME PlaceInv, UNCHANGED <<queue, issued>>,
           \A w \in Worker : wpc'[w] = "run" <=> wpc[w] = "run",
           \A w \in Worker : wpc[w] = "run" => wjob'[w] = wjob[w],
           mpc' = "push" <=> mpc = "push",
           mpc = "push" => mjob' = mjob,
           \A t \in Issued : job'[t].done <=> job[t].done,
           \A t \in Issued : ~job[t].done => (t \in jobs => t \in jobs')
    PROVE  PlaceInv'
<1>1. \A t : Queued(t)' <=> Queued(t)
  BY DEF Queued
<1>2. \A t : Held(t)' <=> Held(t)
  BY DEF Held
<1>3. \A t : Pushing(t)' <=> Pushing(t)
  BY DEF Pushing
<1>4. Issued' = Issued
  BY DEF Issued
<1>5. ExactlyOnePlace'
  BY <1>1, <1>2, <1>3, <1>4 DEF PlaceInv, ExactlyOnePlace
<1>6. UnfinishedInMap'
  BY <1>4 DEF PlaceInv, UnfinishedInMap
<1> QED  BY <1>5, <1>6 DEF PlaceInv

(* Every step moves a job from one place to the next, or none at all. *)
LEMMA PlaceStep ==
    TypeOK /\ TicketInv /\ WorkerInv /\ PlaceInv /\ [Next]_vars => PlaceInv'
<1> SUFFICES ASSUME TypeOK, TicketInv, WorkerInv, PlaceInv, [Next]_vars
             PROVE  PlaceInv'
  OBVIOUS
<1> USE TicketNat
<1>0. issued \in Nat /\ Issued \subseteq Ticket
  BY DEF TypeOK, Issued, Ticket
<1>d. ASSUME NEW t \in Ticket, job[t].done, Deliver(t)
      PROVE  /\ \A u \in Issued : job'[u].done <=> job[u].done
             /\ \A u \in Issued : ~job[u].done => (u \in jobs => u \in jobs')
             /\ mpc' # "push"
  BY <1>0, <1>d DEF Deliver, Reply, TypeOK, Job
<1>1. CASE StartPool
  BY <1>1, PlaceFrame DEF StartPool, jobVars
<1>2. ASSUME NEW created \in BOOLEAN, Spawn(created) PROVE PlaceInv'
  <2>1. spawned + 1 \in Worker => wpc[spawned + 1] = "unborn"
    BY <1>2 DEF Spawn, TypeOK, WorkerInv, PoolInv
  <2>2. \A w \in Worker : wpc'[w] = "run" <=> wpc[w] = "run"
    BY <1>2, <2>1 DEF Spawn, TypeOK
  <2> QED  BY <1>2, <2>2, PlaceFrame DEF Spawn, jobVars
<1>3. CASE PoolReady
  BY <1>3, PlaceFrame DEF PoolReady, poolVars, jobVars
<1>4. ASSUME NEW r \in Requests, RunBlocking(r) PROVE PlaceInv'
  BY <1>4, PlaceFrame DEF RunBlocking, Reply, poolVars, jobVars
<1>5. ASSUME NEW r \in Requests, EnqueueInsert(r) PROVE PlaceInv'
  <2> DEFINE n == issued + 1
  <2>1. /\ n \in Ticket /\ n \notin Issued
        /\ \A t \in Issued' : t \in Issued \/ t = n
    BY <1>0, <1>5 DEF EnqueueInsert, Issued, Ticket
  <2>2. /\ ~job'[n].done /\ n \in jobs' /\ jobs \subseteq jobs'
        /\ \A t \in Issued : job'[t] = job[t]
    BY <1>0, <1>5, <2>1 DEF EnqueueInsert, NewJob, TypeOK
  <2>3. UNCHANGED <<queue, wpc, wjob>> /\ mpc = "idle"
        /\ mpc' = "push" /\ mjob' = n
    BY <1>5 DEF EnqueueInsert, poolVars
  <2> HIDE DEF n
  <2>4. \A t : (Queued(t)' <=> Queued(t)) /\ (Held(t)' <=> Held(t))
               /\ ~Pushing(t) /\ (Pushing(t)' <=> t = n)
    BY <2>3 DEF Queued, Held, Pushing
  <2>5. ~Queued(n) /\ ~Held(n)
    BY <2>1 DEF Queued, Held, TicketInv
  <2>6. UnfinishedInMap'
    BY <2>1, <2>2 DEF PlaceInv, UnfinishedInMap
  <2>7. \A t \in Issued' :
          /\ job'[t].done <=> ~(Queued(t)' \/ Held(t)' \/ Pushing(t)')
          /\ ~(Queued(t)' /\ Held(t)')
          /\ ~(Queued(t)' /\ Pushing(t)')
          /\ ~(Held(t)' /\ Pushing(t)')
    BY <2>1, <2>2, <2>4, <2>5 DEF PlaceInv, ExactlyOnePlace
  <2>8. ExactlyOnePlace'
    BY <2>3, <2>7 DEF PlaceInv, ExactlyOnePlace
  <2> QED  BY <2>6, <2>8 DEF PlaceInv
<1>6. CASE RunRefused
  BY <1>6, PlaceFrame DEF RunRefused, Reply, poolVars, jobVars
<1>7. CASE EnqueuePush
  <2>1. /\ mpc = "push" /\ mpc' = "signal"
        /\ UNCHANGED <<wpc, wjob, jobs, job, issued>>
        /\ mjob \in Issued /\ Len(queue) \in Nat
    BY <1>7 DEF EnqueuePush, poolVars, jobVars, TicketInv, TypeOK
  <2>2. /\ Len(queue') = Len(queue) + 1
        /\ \A i \in 1..Len(queue) : queue'[i] = queue[i]
        /\ queue'[Len(queue) + 1] = mjob
    BY <1>0, <1>7, <2>1, AppendProperties DEF EnqueuePush, TypeOK
  <2>3. \A t : Queued(t)' <=> (Queued(t) \/ t = mjob)
    BY <2>1, <2>2 DEF Queued
  <2>4. \A t : (Held(t)' <=> Held(t)) /\ ~Pushing(t)' /\ (Pushing(t) <=> t = mjob)
    BY <2>1 DEF Held, Pushing
  <2>5. ~Queued(mjob) /\ ~Held(mjob) /\ ~job[mjob].done
    BY <2>1, <2>4 DEF PlaceInv, ExactlyOnePlace
  <2>6. Issued' = Issued
    BY <2>1 DEF Issued
  <2>7. \A t \in Issued' :
          /\ job'[t].done <=> ~(Queued(t)' \/ Held(t)' \/ Pushing(t)')
          /\ ~(Queued(t)' /\ Held(t)')
          /\ ~(Queued(t)' /\ Pushing(t)')
          /\ ~(Held(t)' /\ Pushing(t)')
    BY <2>1, <2>3, <2>4, <2>5, <2>6 DEF PlaceInv, ExactlyOnePlace
  <2>8. \A i, j \in 1..Len(queue') : queue'[i] = queue'[j] => i = j
    <3>1. \A i \in 1..Len(queue) : queue[i] # mjob
      BY <2>5 DEF Queued
    <3> QED  BY <2>1, <2>2, <3>1 DEF PlaceInv, ExactlyOnePlace
  <2>9. ExactlyOnePlace' /\ UnfinishedInMap'
    BY <2>1, <2>6, <2>7, <2>8
    DEF PlaceInv, ExactlyOnePlace, UnfinishedInMap
  <2> QED  BY <2>9 DEF PlaceInv
<1>8. CASE EnqueueSignal
  <2>1. \A w \in Worker : wpc'[w] = "run" <=> wpc[w] = "run"
    BY <1>8 DEF EnqueueSignal, Waiting, TypeOK
  <2> QED  BY <1>8, <2>1, PlaceFrame DEF EnqueueSignal, Reply, jobVars
<1>9. ASSUME NEW t \in Ticket, GetUnknown(t) PROVE PlaceInv'
  BY <1>9, PlaceFrame DEF GetUnknown, Reply, poolVars, jobVars
<1>10. ASSUME NEW t \in Ticket, GetRefused(t) PROVE PlaceInv'
  BY <1>10, PlaceFrame DEF GetRefused, Reply, poolVars, jobVars
<1>11. ASSUME NEW t \in Ticket, GetFinished(t) PROVE PlaceInv'
  BY <1>11, <1>d, PlaceFrame DEF GetFinished, poolVars
<1>12. ASSUME NEW t \in Ticket, GetNoWait(t) PROVE PlaceInv'
  BY <1>12, PlaceFrame DEF GetNoWait, Reply, poolVars, jobVars
<1>13. ASSUME NEW t \in Ticket, GetWait(t) PROVE PlaceInv'
  BY <1>13, PlaceFrame DEF GetWait, poolVars, jobVars
<1>14. CASE GetWoken
  <2>1. mjob \in Ticket
    BY <1>14 DEF GetWoken, TicketInv, TypeOK
  <2> QED  BY <1>14, <1>d, <2>1, PlaceFrame DEF GetWoken, poolVars
<1>15. CASE GetTimeout
  <2>1. mjob \in Ticket
    BY <1>15 DEF GetTimeout, TicketInv, TypeOK
  <2>2. CASE job[mjob].done /\ Deliver(mjob)
    BY <1>15, <1>d, <2>1, <2>2, PlaceFrame DEF GetTimeout, poolVars
  <2>3. CASE Reply(GetResp(mjob, NotFinished)) /\ UNCHANGED <<jobs, job>>
    BY <1>15, <2>3, PlaceFrame DEF GetTimeout, Reply, poolVars
  <2> QED  BY <1>15, <2>2, <2>3 DEF GetTimeout
<1>16. CASE StopPool
  BY <1>16, PlaceFrame DEF StopPool, jobVars
<1>17. CASE StopBroadcast
  BY <1>17, PlaceFrame DEF StopBroadcast, jobVars
<1>18. CASE JoinAndFree
  BY <1>18, PlaceFrame DEF JoinAndFree, jobVars
<1>19. ASSUME NEW w \in Worker, WorkerStep(w) PROVE PlaceInv'
  <2> USE DEF mainVars
  <2>f. ASSUME NEW pc \in WorkerPC \ {"run"}, wpc[w] # "run",
               wpc' = [wpc EXCEPT ![w] = pc],
               \A v \in Worker : v # w => wjob'[v] = wjob[v],
               UNCHANGED <<mpc, mjob, jobs, job, queue, issued>>
        PROVE  PlaceInv'
    BY <2>f, PlaceFrame DEF TypeOK
  <2> USE DEF WorkerPC
  <2>1. CASE LoopHead(w)
    BY <2>1, <2>f DEF LoopHead
  <2>2. CASE LockQueue(w)
    BY <2>2, <2>f DEF LockQueue
  <2>3. CASE FindEmpty(w)
    BY <2>3, <2>f DEF FindEmpty
  <2>4. CASE Sleep(w)
    BY <2>4, <2>f DEF Sleep
  <2>5. CASE SpuriousWake(w)
    BY <2>5, <2>f DEF SpuriousWake
  <2>6. CASE Leave(w)
    BY <2>6, <2>f DEF Leave
  <2>7. CASE TakeJob(w)
    <3>0. PICK h : h = Head(queue)
      OBVIOUS
    <3>1. /\ Len(queue) \in Nat \ {0} /\ h = queue[1] /\ h \in Issued
          /\ Len(queue') = Len(queue) - 1
          /\ \A i \in 1..Len(queue') : queue'[i] = queue[i + 1]
      BY <2>7, <3>0, HeadTailProperties DEF TakeJob, TypeOK, TicketInv
    <3>2. /\ UNCHANGED <<mpc, mjob, jobs, job, issued>>
          /\ wpc[w] # "run" /\ wpc'[w] = "run" /\ wjob'[w] = h
          /\ \A v \in Worker : v # w => wpc'[v] = wpc[v] /\ wjob'[v] = wjob[v]
      BY <2>7, <3>0 DEF TakeJob, TypeOK
    <3>3. \A i, j \in 1..Len(queue) : queue[i] = queue[j] => i = j
      BY DEF PlaceInv, ExactlyOnePlace
    <3>4. Queued(h) /\ ~Queued(h)'
      <4>1. 1 \in 1..Len(queue) /\ queue[1] = h
        BY <3>1
      <4>2. ASSUME NEW i \in 1..Len(queue') PROVE queue'[i] # h
        <5>1. i + 1 \in 1..Len(queue) /\ queue'[i] = queue[i + 1] /\ i + 1 # 1
          BY <3>1
        <5> QED  BY <3>3, <4>1, <5>1
      <4>3. Queued(h)
        BY <4>1 DEF Queued
      <4>4. ~Queued(h)'
        BY <4>2 DEF Queued
      <4> QED  BY <4>3, <4>4
    <3>5. \A t : t # h => (Queued(t)' <=> Queued(t))
      <4> SUFFICES ASSUME NEW t, t # h PROVE Queued(t)' <=> Queued(t)
        OBVIOUS
      <4>1. ASSUME NEW i \in 1..Len(queue), queue[i] = t PROVE Queued(t)'
        <5>1. i # 1 /\ i - 1 \in 1..Len(queue') /\ queue'[i - 1] = queue[i]
          BY <3>1, <4>1
        <5> QED  BY <4>1, <5>1 DEF Queued
      <4>2. ASSUME NEW i \in 1..Len(queue'), queue'[i] = t PROVE Queued(t)
        BY <3>1, <4>2 DEF Queued
      <4> QED  BY <4>1, <4>2 DEF Queued
    <3>6. \A t : Held(t)' <=> (Held(t) \/ t = h)
      BY <3>2 DEF Held
    <3>7. (\A t : Pushing(t)' <=> Pushing(t)) /\ Issued' = Issued
      BY <3>2 DEF Pushing, Issued
    <3>8. ~Held(h) /\ ~Pushing(h) /\ ~job[h].done
      BY <3>1, <3>4 DEF PlaceInv, ExactlyOnePlace
    <3>9. \A t \in Issued' :
            /\ job'[t].done <=> ~(Queued(t)' \/ Held(t)' \/ Pushing(t)')
            /\ ~(Queued(t)' /\ Held(t)')
            /\ ~(Queued(t)' /\ Pushing(t)')
            /\ ~(Held(t)' /\ Pushing(t)')
      <4> TAKE t \in Issued'
      <4>1. CASE t = h
        BY <4>1, <3>2, <3>4, <3>6, <3>7, <3>8
      <4>2. CASE t # h
        <5>1. /\ job[t].done <=> ~(Queued(t) \/ Held(t) \/ Pushing(t))
              /\ ~(Queued(t) /\ Held(t))
              /\ ~(Queued(t) /\ Pushing(t))
              /\ ~(Held(t) /\ Pushing(t))
          BY <3>7 DEF PlaceInv, ExactlyOnePlace
        <5> QED  BY <4>2, <5>1, <3>2, <3>5, <3>6, <3>7
      <4> QED  BY <4>1, <4>2
    <3>10. \A i, j \in 1..Len(queue') : queue'[i] = queue'[j] => i = j
      <4> SUFFICES ASSUME NEW i \in 1..Len(queue'), NEW j \in 1..Len(queue'),
                          queue'[i] = queue'[j]
                   PROVE  i = j
        OBVIOUS
      <4>1. i + 1 \in 1..Len(queue) /\ j + 1 \in 1..Len(queue)
        BY <3>1
      <4>2. i + 1 = j + 1
        BY <3>1, <3>3, <4>1
      <4> QED  BY <4>2
    <3>11. \A u, v \in Worker :
             wpc'[u] = "run" /\ wpc'[v] = "run" /\ wjob'[u] = wjob'[v] => u = v
      BY <3>2, <3>8 DEF Held, PlaceInv, ExactlyOnePlace
    <3>12. UnfinishedInMap'
      BY <3>2, <3>7 DEF PlaceInv, UnfinishedInMap
    <3>13. ExactlyOnePlace'
      BY <3>9, <3>10, <3>11 DEF ExactlyOnePlace
    <3> QED  BY <3>12, <3>13 DEF PlaceInv
  <2>8. CASE Publish(w)
    <3>0. PICK t0 : t0 = wjob[w]
      OBVIOUS
    <3>1. wpc[w] = "run" /\ t0 \in Issued /\ t0 \in Ticket
      BY <1>0, <2>8, <3>0 DEF Publish, TicketInv
    <3>2. /\ UNCHANGED <<mpc, mjob, jobs, queue, wjob, issued>>
          /\ wpc'[w] = "notify"
          /\ \A v \in Worker : v # w => wpc'[v] = wpc[v]
      BY <2>8 DEF Publish, TypeOK
    <3>3. job'[t0].done /\ \A t \in Issued : t # t0 => job'[t] = job[t]
      BY <1>0, <2>8, <3>0, <3>1 DEF Publish, TypeOK, Job
    <3>4. Held(t0) /\ ~Queued(t0) /\ ~Pushing(t0)
      <4>1. Held(t0)
        BY <3>0, <3>1 DEF Held
      <4> QED  BY <3>1, <4>1 DEF PlaceInv, ExactlyOnePlace
    <3>5. ~Held(t0)'
      BY <3>0, <3>1, <3>2 DEF Held, PlaceInv, ExactlyOnePlace
    <3>6. \A t : t # t0 => (Held(t)' <=> Held(t))
      BY <3>0, <3>1, <3>2 DEF Held
    <3>7. /\ \A t : (Queued(t)' <=> Queued(t)) /\ (Pushing(t)' <=> Pushing(t))
          /\ Issued' = Issued
      BY <3>2 DEF Queued, Pushing, Issued
    <3>8. \A t \in Issued' :
            /\ job'[t].done <=> ~(Queued(t)' \/ Held(t)' \/ Pushing(t)')
            /\ ~(Queued(t)' /\ Held(t)')
            /\ ~(Queued(t)' /\ Pushing(t)')
            /\ ~(Held(t)' /\ Pushing(t)')
      <4> TAKE t \in Issued'
      <4>1. CASE t = t0
        BY <4>1, <3>3, <3>4, <3>5, <3>7
      <4>2. CASE t # t0
        <5>1. /\ job[t].done <=> ~(Queued(t) \/ Held(t) \/ Pushing(t))
              /\ ~(Queued(t) /\ Held(t))
              /\ ~(Queued(t) /\ Pushing(t))
              /\ ~(Held(t) /\ Pushing(t))
          BY <3>7 DEF PlaceInv, ExactlyOnePlace
        <5> QED  BY <4>2, <5>1, <3>3, <3>6, <3>7
      <4> QED  BY <4>1, <4>2
    <3>9. \A u, v \in Worker :
            wpc'[u] = "run" /\ wpc'[v] = "run" /\ wjob'[u] = wjob'[v] => u = v
      BY <3>1, <3>2 DEF PlaceInv, ExactlyOnePlace
    <3>10. UnfinishedInMap'
      BY <3>2, <3>3, <3>7 DEF PlaceInv, UnfinishedInMap
    <3>11. ExactlyOnePlace'
      BY <3>2, <3>8, <3>9 DEF PlaceInv, ExactlyOnePlace
    <3> QED  BY <3>10, <3>11 DEF PlaceInv
  <2>9. CASE Notify(w)
    BY <2>9, <2>f DEF Notify, TypeOK
  <2> QED  BY <1>19, <2>1, <2>2, <2>3, <2>4, <2>5, <2>6, <2>7, <2>8, <2>9
           DEF WorkerStep
<1>20. CASE UNCHANGED vars
  BY <1>20, PlaceFrame DEF vars
<1> QED
  BY <1>1, <1>2, <1>3, <1>4, <1>5, <1>6, <1>7, <1>8, <1>9, <1>10, <1>11,
     <1>12, <1>13, <1>14, <1>15, <1>16, <1>17, <1>18, <1>19, <1>20
  DEF Next, MainStep, Finished

(* Issued jobs are in exactly one place throughout. *)
LEMMA PlacesInvariant == Spec => []PlaceInv
BY TicketsTyped, WorkersInvariant, PlaceInit, PlaceStep, PTL DEF Spec

(* No job is lost, run twice or run by two workers, however many threads    *)
(* there are and whenever the pool is stopped.                              *)
THEOREM JobsInOnePlace == Spec => []ExactlyOnePlace
<1>1. PlaceInv => ExactlyOnePlace
  BY DEF PlaceInv
<1> QED  BY <1>1, PlacesInvariant, PTL

-----------------------------------------------------------------------------
(* What the finished jobs hold. *)

(* No ticket can be got in the initial states. *)
LEMMA OutcomesInit == Init => HeldOutcomesIntact
BY DEF Init, HeldOutcomesIntact

(* A step that leaves map and jobs alone keeps the outcomes. *)
LEMMA OutcomesFrame ==
    ASSUME HeldOutcomesIntact, jobs' \subseteq jobs,
           \A t \in jobs' : job'[t] = job[t]
    PROVE  HeldOutcomesIntact'
BY DEF HeldOutcomesIntact

(* publish writes the whole outcome; get empties it with its ticket. *)
LEMMA OutcomesStep ==
    TypeOK /\ TicketInv /\ HeldOutcomesIntact /\ [Next]_vars
        => HeldOutcomesIntact'
<1> SUFFICES ASSUME TypeOK, TicketInv, HeldOutcomesIntact, [Next]_vars
             PROVE  HeldOutcomesIntact'
  OBVIOUS
<1> USE TicketNat
<1>0. issued \in Nat /\ Issued \subseteq Ticket
  BY DEF TypeOK, Issued, Ticket
<1>d. ASSUME NEW t \in Ticket, Deliver(t) PROVE HeldOutcomesIntact'
  BY <1>d, OutcomesFrame DEF Deliver, TypeOK
<1>1. CASE UNCHANGED <<jobs, job>>
  BY <1>1, OutcomesFrame
<1>2. ASSUME NEW r \in Requests, EnqueueInsert(r) PROVE HeldOutcomesIntact'
  <2> DEFINE n == issued + 1
  <2>1. n \in Ticket /\ n \notin jobs /\ jobs' = jobs \union {n}
    BY <1>0, <1>2 DEF EnqueueInsert, TicketInv, Issued, Ticket
  <2>2. ~job'[n].done /\ \A t \in jobs : job'[t] = job[t]
    BY <1>2, <2>1 DEF EnqueueInsert, NewJob, TypeOK
  <2> HIDE DEF n
  <2> QED  BY <2>1, <2>2 DEF HeldOutcomesIntact
<1>3. ASSUME NEW t \in Ticket, GetFinished(t) PROVE HeldOutcomesIntact'
  BY <1>3, <1>d DEF GetFinished
<1>4. CASE GetWoken
  BY <1>4, <1>d DEF GetWoken, TicketInv, TypeOK
<1>5. CASE GetTimeout
  BY <1>1, <1>5, <1>d DEF GetTimeout, TicketInv, TypeOK
<1>6. ASSUME NEW w \in Worker, Publish(w) PROVE HeldOutcomesIntact'
  <2>0. PICK t0 : t0 = wjob[w]
    OBVIOUS
  <2>1. t0 \in Ticket /\ UNCHANGED jobs
    BY <1>0, <1>6, <2>0 DEF Publish, TicketInv
  <2>2. /\ job'[t0].status = execute(job[t0].req).status
        /\ job'[t0].result = execute(job[t0].req).result
        /\ job'[t0].req = job[t0].req
        /\ \A t \in jobs : t # t0 => job'[t] = job[t]
    BY <1>6, <2>0, <2>1 DEF Publish, TypeOK, Job
  <2> QED  BY <2>1, <2>2 DEF HeldOutcomesIntact
<1>7. ASSUME NEW w \in Worker, WorkerStep(w) PROVE HeldOutcomesIntact'
  BY <1>1, <1>6, <1>7 DEF WorkerStep, LoopHead, LockQueue, FindEmpty, Sleep,
        SpuriousWake, Leave, TakeJob, Notify
<1>8. ASSUME MainStep PROVE HeldOutcomesIntact'
  BY <1>1, <1>2, <1>3, <1>4, <1>5, <1>8 DEF MainStep, StartPool, Spawn,
        PoolReady, RunBlocking, RunRefused, EnqueuePush, EnqueueSignal,
        GetUnknown, GetRefused, GetNoWait, GetWait, StopPool, StopBroadcast,
        JoinAndFree, jobVars
<1> QED  BY <1>1, <1>7, <1>8 DEF Next, Finished, vars

(* A ticket that can still be got and is done holds the outcome of its own  *)
(* request.                                                                 *)
THEOREM OutcomesIntact == Spec => []HeldOutcomesIntact
BY TicketsTyped, OutcomesInit, OutcomesStep, PTL DEF Spec

-----------------------------------------------------------------------------
(* The refinement.  Few actions change the abstract table or the response:  *)
(* enqueue's insert opens a ticket, its signal acknowledges it, a worker's  *)
(* publish finishes it, run answers at once, and get answers finished,      *)
(* pending, unknown or refused.  All other steps stutter.                   *)

phaseBar == [t \in Ticket |-> PhaseOf(t)]
reqBar   == [t \in Ticket |-> job[t].req]

(* The instance speaks the same vocabulary. *)
LEMMA StoreExecute == \A r : Store!execute(r) = execute(r)
BY DEF Store!execute, execute, Store!has_math, has_math, Store!has_str,
       has_str, Store!runMath, runMath, Store!runStr, runStr, Store!Fail,
       Fail, Store!Succeed, Succeed, Store!VALUE_NOT_SET, VALUE_NOT_SET,
       Store!Wrap, Wrap, Store!IntMin, IntMin, Store!TruncDiv, TruncDiv,
       Store!Abs, Abs, Store!Occurrences, Occurrences, Store!OccursAt,
       OccursAt, Store!find, find

(* ... and the same responses. *)
LEMMA StoreVocabulary ==
    /\ Store!Ticket = Ticket
    /\ Store!NoPayload = NoPayload
    /\ Store!NoResp = NoResp
    /\ Store!NotFinished = NotFinished
    /\ Store!InvalidInput = InvalidInput
    /\ \A r : Store!HasWork(r) <=> HasWork(r)
    /\ \A t, o : Store!SubmitResp(t, o) = SubmitResp(t, o)
    /\ \A t, o : Store!GetResp(t, o) = GetResp(t, o)
BY DEF Store!Ticket, Ticket, Store!NoPayload, NoPayload, Store!NoResp, NoResp,
       Store!NotFinished, NotFinished, Store!InvalidInput, InvalidInput,
       Store!HasWork, HasWork, Store!has_math, has_math, Store!has_str,
       has_str, Store!SubmitResp, SubmitResp, Store!GetResp, GetResp,
       Store!Response, Response, Store!Fail, Fail, Store!VALUE_NOT_SET,
       VALUE_NOT_SET

(* The initial states of the pool are initial states of the table. *)
LEMMA RefinementInit == Init => Store!Init
<1> SUFFICES ASSUME Init PROVE Store!Init
  OBVIOUS
<1>1. phaseBar = [t \in Ticket |-> "unused"]
  BY TicketNat DEF Init, phaseBar, PhaseOf
<1>2. reqBar = [t \in Ticket |-> NoPayload]
  BY DEF Init, reqBar, NewJob
<1>3. resp = NoResp
  BY DEF Init
<1> QED  BY <1>1, <1>2, <1>3, StoreVocabulary DEF Store!Init, phaseBar, reqBar

(* A step that leaves map, jobs and response alone stutters. *)
LEMMA RefinementStutter ==
    ASSUME UNCHANGED <<jobs, job, issued, resp>>
    PROVE  UNCHANGED Store!vars
<1>1. phaseBar' = phaseBar /\ reqBar' = reqBar /\ resp' = resp
  BY DEF phaseBar, reqBar, PhaseOf
<1> QED  BY <1>1 DEF Store!vars, phaseBar, reqBar

(* A step that leaves map and jobs alone changes at most the response. *)
LEMMA RefinementReply ==
    ASSUME UNCHANGED <<jobs, job, issued>>
    PROVE  phaseBar' = phaseBar /\ reqBar' = reqBar
BY DEF phaseBar, reqBar, PhaseOf

(* Every step of the pool is a step of the table, or stutters. *)
LEMMA RefinementStep ==
    TypeOK /\ TicketInv /\ PlaceInv /\ HeldOutcomesIntact /\ [Next]_vars
        => [Store!Next]_(Store!vars)
<1> SUFFICES ASSUME TypeOK, TicketInv, PlaceInv, HeldOutcomesIntact,
                    [Next]_vars
             PROVE  [Store!Next]_(Store!vars)
  OBVIOUS
<1> USE TicketNat, StoreVocabulary
<1>0. issued \in Nat /\ Issued \subseteq Ticket /\ Ticket \subseteq Nat
  BY DEF TypeOK, Issued, Ticket
<1>s. CASE UNCHANGED <<jobs, job, issued, resp>>
  BY <1>s, RefinementStutter
<1>1. ASSUME NEW r \in Requests, EnqueueInsert(r) PROVE Store!Next
  <2>0. PICK n : n = issued + 1
    OBVIOUS
  <2>1. /\ n \in Ticket /\ HasWork(r) /\ n \notin jobs /\ UNCHANGED resp
        /\ jobs' = jobs \union {n} /\ issued' = n
        /\ job' = [job EXCEPT ![n] = [NewJob EXCEPT !.req = r]]
    BY <1>0, <1>1, <2>0 DEF EnqueueInsert, TicketInv, Issued, Ticket
  <2>2. job'[n].req = r /\ ~job'[n].done
        /\ \A t \in Ticket : t # n => job'[t] = job[t]
    BY <2>1 DEF NewJob, TypeOK
  <2>3. phaseBar[n] = "unused"
    BY <1>0, <2>0, <2>1 DEF phaseBar, PhaseOf
  <2>p. /\ PhaseOf(n)' = "pending"
        /\ \A u \in Ticket : u # n => PhaseOf(u)' = PhaseOf(u)
    BY <1>0, <2>0, <2>1, <2>2 DEF PhaseOf
  <2>4. phaseBar' = [phaseBar EXCEPT ![n] = "pending"]
    BY <2>p DEF phaseBar
  <2>5. reqBar' = [reqBar EXCEPT ![n] = r]
    <3>1. job'[n].req = r /\ \A u \in Ticket : u # n => job'[u].req = job[u].req
      BY <2>2
    <3> QED  BY <3>1 DEF reqBar
  <2>6. Store!Submit(n, r)
    BY <2>1, <2>3, <2>4, <2>5 DEF Store!Submit, phaseBar, reqBar
  <2> QED  BY <2>1, <2>6 DEF Store!Next
<1>2. CASE EnqueueSignal
  <2>0. PICK t : t = mjob
    OBVIOUS
  <2>1. /\ t \in jobs /\ t \in Ticket /\ t \in Issued
        /\ resp' = SubmitResp(t, NotFinished)
        /\ UNCHANGED <<jobs, job, issued>>
    BY <1>0, <1>2, <2>0 DEF EnqueueSignal, Reply, TicketInv, jobVars
  <2>2. phaseBar[t] \in {"pending", "finished"}
    BY <1>0, <2>1 DEF phaseBar, PhaseOf, Issued
  <2>3. Store!Acknowledge(t)
    BY <2>1, <2>2, RefinementReply DEF Store!Acknowledge, phaseBar, reqBar
  <2> QED  BY <2>1, <2>3 DEF Store!Next
<1>3. ASSUME NEW r \in Requests, RunBlocking(r) PROVE Store!Next
  <2>1. Store!RunBlocking(r)
    BY <1>3, RefinementReply, StoreExecute
    DEF RunBlocking, Reply, jobVars, Store!RunBlocking, phaseBar, reqBar
  <2> QED  BY <2>1 DEF Store!Next
<1>4. CASE RunRefused
  <2>1. Store!Refuse
    BY <1>4, RefinementReply
    DEF RunRefused, Reply, jobVars, Store!Refuse, phaseBar, reqBar
  <2> QED  BY <2>1 DEF Store!Next
<1>5. ASSUME NEW t \in Ticket, GetUnknown(t) PROVE Store!Next
  <2>1. phaseBar[t] \in {"unused", "consumed"}
    BY <1>5 DEF GetUnknown, phaseBar, PhaseOf
  <2>2. Store!GetUnknown(t)
    BY <1>5, <2>1, RefinementReply
    DEF GetUnknown, Reply, jobVars, Store!GetUnknown, phaseBar, reqBar
  <2> QED  BY <2>2 DEF Store!Next
<1>6. ASSUME NEW t \in Ticket, GetRefused(t) PROVE Store!Next
  <2>1. Store!GetRefused
    BY <1>6, RefinementReply
    DEF GetRefused, Reply, jobVars, Store!GetRefused, phaseBar, reqBar
  <2> QED  BY <2>1 DEF Store!Next
<1>p. ASSUME NEW t \in jobs, ~job[t].done, UNCHANGED <<jobs, job, issued>>,
             resp' = GetResp(t, NotFinished)
      PROVE  Store!Next
  <2>1. t \in Ticket /\ phaseBar[t] = "pending"
    BY <1>0, <1>p DEF TypeOK, TicketInv, Issued, phaseBar, PhaseOf
  <2>2. Store!GetPending(t)
    BY <1>p, <2>1, RefinementReply DEF Store!GetPending, phaseBar, reqBar
  <2> QED  BY <2>1, <2>2 DEF Store!Next
<1>d. ASSUME NEW t \in jobs, job[t].done, Deliver(t), UNCHANGED issued
      PROVE  Store!Next
  <2>1. t \in Ticket /\ t \in Issued
    BY <1>0 DEF TypeOK, TicketInv
  <2>2. phaseBar[t] = "finished"
    BY <1>0, <1>d, <2>1 DEF Issued, phaseBar, PhaseOf
  <2>3. /\ jobs' = jobs \ {t} /\ resp' = GetResp(t, job[t])
        /\ \A u \in Ticket : job'[u].req = job[u].req
                              /\ (job'[u].done <=> job[u].done)
    BY <1>d, <2>1 DEF Deliver, Reply, TypeOK, Job
  <2>4. phaseBar' = [phaseBar EXCEPT ![t] = "consumed"]
    <3>1. /\ PhaseOf(t)' = "consumed"
          /\ \A u \in Ticket : u # t => PhaseOf(u)' = PhaseOf(u)
      BY <1>0, <1>d, <2>1, <2>3 DEF Issued, PhaseOf
    <3> QED  BY <3>1 DEF phaseBar
  <2>5. reqBar' = reqBar
    BY <2>3 DEF reqBar
  <2>6. resp' = GetResp(t, execute(reqBar[t]))
    BY <1>d, <2>1, <2>3 DEF GetResp, Response, HeldOutcomesIntact, reqBar
  <2>7. Store!GetFinished(t)
    BY <2>2, <2>4, <2>5, <2>6, StoreExecute DEF Store!GetFinished, phaseBar, reqBar
  <2> QED  BY <2>1, <2>7 DEF Store!Next
<1>7. ASSUME NEW t \in Ticket, GetFinished(t) PROVE Store!Next
  BY <1>7, <1>d DEF GetFinished
<1>8. ASSUME NEW t \in Ticket, GetNoWait(t) PROVE Store!Next
  BY <1>8, <1>p DEF GetNoWait, Reply, jobVars
<1>9. CASE GetWoken
  <2>0. PICK t : t = mjob
    OBVIOUS
  <2> QED  BY <1>9, <1>d, <2>0 DEF GetWoken, TicketInv
<1>10. CASE GetTimeout
  <2>0. PICK t : t = mjob
    OBVIOUS
  <2>1. t \in jobs /\ UNCHANGED issued
    BY <1>10, <2>0 DEF GetTimeout, TicketInv
  <2>2. CASE job[mjob].done /\ Deliver(mjob)
    BY <1>d, <2>0, <2>1, <2>2
  <2>3. CASE /\ ~job[mjob].done
             /\ Reply(GetResp(mjob, NotFinished)) /\ UNCHANGED <<jobs, job>>
    BY <1>p, <2>0, <2>1, <2>3 DEF Reply
  <2> QED  BY <1>10, <2>2, <2>3 DEF GetTimeout
<1>11. ASSUME NEW w \in Worker, Publish(w) PROVE Store!Next
  <2>0. PICK t : t = wjob[w]
    OBVIOUS
  <2>1. t \in Issued /\ t \in Ticket /\ Held(t)
    BY <1>0, <1>11, <2>0 DEF Publish, TicketInv, Held
  <2>2. ~job[t].done /\ t \in jobs
    BY <2>1 DEF PlaceInv, ExactlyOnePlace, UnfinishedInMap
  <2>3. /\ UNCHANGED <<jobs, issued, resp>>
        /\ job'[t].done
        /\ \A u \in Ticket : job'[u].req = job[u].req
        /\ \A u \in Ticket : u # t => job'[u] = job[u]
    BY <1>11, <2>0, <2>1 DEF Publish, mainVars, TypeOK, Job
  <2>4. phaseBar[t] = "pending"
    BY <1>0, <2>1, <2>2 DEF Issued, phaseBar, PhaseOf
  <2>5. phaseBar' = [phaseBar EXCEPT ![t] = "finished"]
    <3>1. /\ PhaseOf(t)' = "finished"
          /\ \A u \in Ticket : u # t => PhaseOf(u)' = PhaseOf(u)
      <4>1. PhaseOf(t)' = "finished"
        BY <1>0, <2>1, <2>2, <2>3 DEF Issued, PhaseOf
      <4>2. ASSUME NEW u \in Ticket, u # t PROVE PhaseOf(u)' = PhaseOf(u)
        <5>1. job'[u].done = job[u].done /\ issued' = issued /\ jobs' = jobs
          BY <2>3, <4>2
        <5> QED  BY <5>1, Zenon DEF PhaseOf
      <4> QED  BY <4>1, <4>2
    <3> QED  BY <3>1 DEF phaseBar
  <2>6. reqBar' = reqBar
    BY <2>3 DEF reqBar
  <2>7. Store!Finish(t)
    BY <2>3, <2>4, <2>5, <2>6 DEF Store!Finish, phaseBar, reqBar
  <2> QED  BY <2>1, <2>7 DEF Store!Next
<1>12. ASSUME NEW w \in Worker, WorkerStep(w)
       PROVE  [Store!Next]_(Store!vars)
  BY <1>s, <1>11, <1>12 DEF WorkerStep, LoopHead, LockQueue, FindEmpty, Sleep,
        SpuriousWake, Leave, TakeJob, Notify, mainVars
<1>13. CASE MainStep
  BY <1>s, <1>1, <1>2, <1>3, <1>4, <1>5, <1>6, <1>7, <1>8, <1>9, <1>10, <1>13
  DEF MainStep, StartPool, Spawn, PoolReady, EnqueuePush, GetWait, StopPool,
      StopBroadcast, JoinAndFree, jobVars
<1> QED  BY <1>s, <1>12, <1>13 DEF Next, Finished, vars

(* The thread pool implements the abstract job table: whatever the threads  *)
(* do, and however many there are, the responses of run and get are those   *)
(* of JobStore.                                                             *)
THEOREM PoolImplementsJobStore == Spec => ImplementsJobStore
BY TicketsTyped, PlacesInvariant, OutcomesIntact, RefinementInit,
   RefinementStep, PTL DEF Spec, ImplementsJobStore, Store!Spec
=============================================================================
