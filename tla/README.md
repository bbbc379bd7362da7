# A TLA+ model of InterProcessCommunication

A server computes small arithmetic and string operations for interactive
clients over ZeroMQ. This directory holds TLA+ modules of the server's thread
pool, its message loop, the clients, the connections between them and the life
cycle of the processes, TLC configurations that check them on small instances,
and TLAPS proofs that the pool, the protocol and the life cycle are safe for
every number of threads, jobs, clients, commands, restarts and signals.

## 1. The system

| Component | State | Operations | Interacts with |
|---|---|---|---|
| **AlgoRunner** (`server/algorithm_runner.cpp`): pthread pool and job table | `running`, map `jobs`, `jobQueue`, `workers`, mutexes `qMtx`/`jobsMtx`/`Job::m`, condition variables `qCv`/`Job::cv` | `init`, `run` (blocking, non-blocking), `get` (no wait, wait up to), `deinit`, `workerLoop` | called by the server's main thread only; workers through the queue |
| **Operations** (same file): `runMath`, `runStr`, `addMsToTimespec` | none | ADD SUB MUL DIV, CONCAT FIND_START, deadline | called by workers and by blocking `run` |
| **Capabilities** (`ipc.h`, `ipc.cpp`, `server/application.cpp`) | a `uint8_t` mask per client | `verifyExecCaps`, `clientHasCapabilityFor` | client start, server loop |
| **Server loop** (`server/application.cpp`) | `mClientExecCaps`, ROUTER socket | `run`, `handleEnvelope` | one message at a time, one response per envelope |
| **Client** (`client/application.cpp`, `ipc_clients.cpp`) | DEALER socket, list `pending` of tickets | handshake, blocking/non-blocking submit, `get`, `list`, `quit` | one request, then a receive with `rcvtimeo` |
| **Ticket identifiers** (`enqueue`) | the counter `seq`, the steady clock | `(ts << 16) \| (seq & 0xFFFF)` in 64 bits | key of `jobs` |
| **Server life cycle** (`server.cpp`, `ipc_server.cpp`, `server/application.cpp`) | `sigStop`, `appPtr`, `mInitialized`, ROUTER socket | `serverInitialize`, `serverRun`, `serverDeinitialize`, signal handler, destructor | signals against a blocking receive; owns the pool |
| **Client life cycle** (`client_1.cpp`, `client_2.cpp`, `ipc_clients.cpp`) | `sigStop`, the loaded library, DEALER socket | `dlopen`/`dlsym`, `clientInitialize`, `clientStart`, `clientDeinitialize`, `dlclose`, signal handler | signals against the prompt and the receive |

What is hard in it: worker threads against the main thread (a flag written
without the mutex its readers hold; signals sent after the unlock; a timed wait
expiring while the result is published; shutdown at any moment); a protocol in
which a response names neither its request nor its ticket, read by a client that
gives up after three seconds; a single-threaded loop that a waiting `get` can
hold up; signals that arrive between the test of a flag and a blocking call, or
inside one; initialisation that fails half way; and a server that is restarted (`compose.yml`: `restart:
unless-stopped`) with empty tables while its clients carry on.

What makes each part correct:

* AlgoRunner: no job is lost or run twice; a result is handed out once, complete,
  and under its own ticket; no worker sleeps while there is nobody left to run
  queued work; a waiting `get` is woken; nothing is freed under a running
  thread; `deinit` returns.
* Operations: exact where the type permits, explicit errors otherwise; the
  deadline is a valid `timespec`.
* Server loop and capabilities: a client gets only what it announced; one
  response per request and none for a handshake; responses and tickets go to the
  client that asked.
* Client: the response it reads is the response to what it sent; its list of
  tickets is the server's.
* Identifiers: no job gets the identifier of a live one.
* Life cycle: a signal is noticed; after it at most one more message is handled
  and one more request sent; nothing is served before the pool and the socket
  are there; on every path what was opened is closed, and in order.

`PROJECT.json` lists the hazards line by line, with the properties that
cover them.

## 2. The modules

| Module | Models | Uses |
|---|---|---|
| `AlgoOps` | the protobuf value types, `runMath`, `runStr`, the payload dispatch, `addMsToTimespec` | |
| `JobTypes` | tickets, requests, responses | `AlgoOps` |
| `JobStore` | what AlgoRunner promises: a table of tickets (abstract specification) | `JobTypes` |
| `AlgoRunner` | the thread pool, step by step; refines `JobStore` | `JobTypes`, `JobStore` |
| `Capabilities` | masks as sets of bit positions and the two checks on them | `JobTypes` |
| `Sessions` | what client and server together promise a client that keeps in touch: an atomic table of its tickets (abstract specification) | `Capabilities` |
| `IpcSystem` | clients, connections, server loop; the job table is `JobStore`; refines `Sessions` | `Capabilities`, `JobStore`, `Sessions` |
| `TicketId` | the `req_id` of a job, with its widths | |
| `ServerLifecycle`, `ClientLifecycle` | `main`, the C API and the singletons of either process, with signals | |
| `Processes` | a server and a client process together | both life cycles |
| `AlgoOps_proofs`, `AlgoRunner_proofs`, `Processes_proofs` | lemmas and theorems | the modules they prove about |
| `MCAlgoOps_proofs` | the operations and identifiers against their reference definitions | `MCAlgoOps`, `AlgoOps_proofs` |
| `IpcSystem_proofs` | types, capabilities and owners of tickets | `IpcSystem`, `AlgoOps_proofs` |
| `IpcFlight_proofs` | what is under way between a client and the server | `IpcSystem_proofs` |
| `IpcTickets_proofs` | a client's list against the server's table | `IpcFlight_proofs` |
| `IpcSessions_proofs` | outcomes and their owners; the refinement of `Sessions` | `IpcTickets_proofs` |
| `MCAlgoOps`, `MCAlgoRunner`, `MCIpcSystem`, `MCProcesses` | instances for TLC | |

The system is checked in two layers. `AlgoRunner` shows, for the threads, that
the responses of `run` and `get` are those of the sequential table `JobStore`;
`IpcSystem` uses that table, so clients, messages and crashes are explored
without the interleavings of the pool; it in turn implements `Sessions`, which
has no queues and no loop. `Processes` goes over the same code from
the other side: it keeps every path from `main` to exit and only counts messages.

### AlgoRunner

`wpc[w]` is the place of worker `w` in `workerLoop`, `mpc` that of the main
thread in `init`, `enqueue`, `get` or `deinit`; `PROJECT.json` gives the lines
of every action. The grain:

* `qMtx` is explicit, and testing the wait predicate (`FindEmpty`), starting to
  wait (`Sleep`) and locking (`LockQueue`) are separate steps, because `deinit`
  writes `running` without the mutex. Locking for a single push is one step that
  needs the mutex free (`EnqueuePush`).
* `pthread_cond_wait` releases and waits atomically; `pthread_cond_signal` wakes
  one waiter if there is one; wake-ups may be spurious (`SpuriousWake`).
* `jobsMtx` guards a map that only the main thread touches, and a job's
  status/result/done are only touched under its own mutex: each such critical
  section is one step. `runMath` and `runStr` read the job's immutable request
  only and belong to the step that publishes their outcome.
* `pthread_create` may fail for any thread (`Spawn(FALSE)`).
* The value of the timeout of `get` is abstracted to "may expire at any time";
  what it is computed from is `addMsToTimespec` in `AlgoOps`.
* Tickets are numbers in order of submission. That `enqueue` does not build the
  same `req_id` twice is theorem `IdsDistinct` (section 4).

### AlgoOps

`int32` is `-IntMax-1..IntMax`, the CONCAT limit, nanoseconds per millisecond
and milliseconds per second are constants, so that small instances reach the
boundaries. `+ - *` wrap, as the compiled code does; `INT_MIN / -1` may trap
(x86) or wrap, a nondeterministic choice in `MCAlgoOps`. Requests with that
division are excluded from the pool's constant `Requests`: the process would end.

### IpcSystem

Each client has two FIFO queues, `toServer` and `toClient`. A client is before
its start, idle at the prompt, awaiting a response, or gone; a receive may time
out at any moment while it waits (`ReceiveTimeout`), because the response may
still be on its way. A signal during the receive ends the client
(`Interrupted`, see the life cycle). As in the code, failing arithmetic commands end the client
(`RETURN_IF_ERROR` in `Application::run`), failing string and get commands only
print an error. The server handles one message at a time; `sv` says whether it
is receiving, about to acknowledge a non-blocking submit, in the timed wait of
a `get`, or dead. `ServerDies` empties the server's tables, loses any prefix of
what each client had sent (the part the server had already received) and any
suffix of what was on its way back. First messages that are not handshakes are
parsed as handshakes, as protobuf does: a `get` parses with
`exec_functions = 0`, a submit does when its bytes are valid UTF-8. The history
variables `owner` and `late` and the request recorded with a response are not
in the code; no action's guard reads them.

### Sessions

The promise to a client. Its call is idle, asked, answered, or lost in a crash;
an execution is one step on the tickets (`Open`, `Run`, `TakeOutcome`, `NotYet`,
`Gone`, `Refuse`, and `Misread` for a request that a restarted server takes for
a handshake), at most one per question, and the answer is the outcome of that
step. `Gone`, `Misread` and the refusal of something the client announced need
a crash. A client that gave up on a response or ended is `Out`: what is left of
its calls may still issue and consume tickets, its own only (`Stray`), and
nobody else sees it. The mapping is in `IpcSystem`: `CallOf` and `ListOf`. A
non-blocking submit has been executed when its ticket exists, a get when its
answer is formed, however long either takes to reach the client.

### TicketId

`reqId` shifts the clock, loses what exceeds the width and adds the masked
sequence number; the ranges of the two parts are constants (2^48 and 2^16 in the
code). The clock never goes back within a process, and the map does not outlive
the process.

### ServerLifecycle, ClientLifecycle, Processes

`spc` and `cpc` are the places of the two `main` threads. Decisions taken from
the platform the code is built for:

* A signal is delivered to the main thread. glibc's `signal()` installs handlers
  that restart system calls: `fgets` at the prompt is not disturbed. `poll`,
  inside `recv_multipart`, is never restarted: it fails with `EINTR` and cppzmq
  throws. The server's `run` catches that, the client's `recvEnvelope` does not.
* Between the test of `sigStop` and the poll there is a step (`enter`) at which a
  signal only sets the flag. The poll also returns for internal reasons (a peer
  connects) and is then entered again (`PollReturns`).
* Before the handlers are installed a signal kills the process; after `dlclose`
  the handler of `client_2` may be gone (`crashed`) or still be mapped.
* A negative `--threads` throws in `reserve` and aborts; zero is accepted. A bind
  that fails leaves the pool running: `mInitialized` is false and `deinit`
  refuses.
* Joining the workers is one step (`RunnerDeinit`) that nothing makes happen;
  whether it does is `AlgoRunner`'s subject.
* `client_1` begins with the library linked, `client_2` with loading it; every
  early return of `mustSym` and of both mains is a disjunct.
* What the linger period loses at exit is left out.

## 3. What TLC checks

| Run | Shows |
|---|---|
| `AlgoRunner_safety` | `TypeOK`, `ExactlyOnePlace`, `HeldOutcomesIntact`, `NoLostWakeup`, `NoWorkerAfterFree`, `ImplementsJobStore` |
| `AlgoRunner_liveness` | `AcceptedWorkFinishes`, `WaitingGetReturns`, `DeinitReturnsUnlessRaced` |
| `AlgoOps` | `MathIsExact`, `FindIsFirst`, `ConcatUpToLimit`, `DeadlineIsValid`, `IdsSharedOnlyAfterWrap` |
| `IpcSystem_safety` | `TypeOK`, `InStepUnlessLate`, `ServesAnnouncedOnly`, `TicketsPrivate`, `AnswersAreRight`, `CapsAsAnnounced`, `ListAgreesWithTable`, `OutcomeGoesToOwner`, `ImplementsSessions` |
| `IpcSystem_liveness` | `RequestsAnswered` |
| `Processes` | `TypeOK`, `OneMoreMessage`, `ServesOnlyWhenReady`, `CleanEnd`, `OneMoreRequest`, `ClosedBeforeUnload`, `StopNoticed`, `ClientStopNoticed` |

Six runs end in a counterexample, each to a sentence of the repository:

| Run | The code |
|---|---|
| `AlgoRunner_DeinitReturns` | `deinit` clears `running` and broadcasts without `qMtx`; a worker between its test and its wait misses both and `pthread_join` never returns |
| `AlgoOps_FindChecksPrefix` | `FIND_START` succeeds with the first occurrence anywhere in the string, where the README says it "checks if string starts with substring" |
| `IpcSystem_GetReadsItsOwnAnswer` | after a timeout, a late response is read as the response to the next request |
| `IpcSystem_RegisteredAreValid` | after a restart a client is registered with the invalid mask 0 and locked out |
| `Processes_SignalStopsServer` | a signal between the test of `sigStop` and the poll only sets the flag; without another message or signal the server waits for ever |
| `Processes_ClientStopsGracefully` | a signal during the client's receive throws through `main`; the process is aborted |

Where the code is right only under a condition, the passing property names the
condition: `InStepUnlessLate`, `ListAgreesWithTable` (a ticket whose response
came too late stays listed and is dead), `DeinitReturnsUnlessRaced`,
`AcceptedWorkFinishes` (a pool in which no thread could be created accepts work
nobody does), `MathIsExact` (an overflow wraps and is answered SUCCESS; `INT_MIN
/ -1` is `INT_MIN` where it does not trap), `StopNoticed` and `ClientStopNoticed`.

### Bounds

* Pool: 2 threads and 3 jobs (2 in the liveness run), with a request that
  succeeds, one that fails and one without payload. Two workers are needed for
  a race between workers, the third job for a queue that is refilled while both
  are busy. The proofs remove the bound.
* Operations: 3-bit integers, two characters, strings up to 3, limit 4, a
  second of 6 ns: every overflow, carry and limit occurs.
* System: two clients with different capabilities, two commands for one and one
  for the other, one crash (`safety`, `liveness`): the two commands are the
  submit and the waiting get that holds up the loop while the other client's
  request is queued. One client with four commands and one crash in the runs
  that end in a counterexample (submit, a get that times out, a retry, and one
  more), in `IpcSystem_RegisteredAreValid` beside a client whose mask is refused
  at its start. There are as many tickets as a run can ask for (`MaxJobs`),
  since the code never runs out of them.
  The proofs remove these bounds for everything but liveness.
* Identifiers: a sequence range of 2 and a clock range of 3, with clocks and
  counters that wrap more than once.
* Processes: two signals to each process (one for the flag, one more to break a
  receive that missed it), three requests, thread counts -1, 0 and 4; about
  106,000 states.

### Fairness

* Pool: a thread that can take a step takes it (weak); a thread that wants
  `qMtx` gets it in the end (strong, since others take it in between), which
  the scheduler and the mutex give in practice. Nothing is assumed of the
  caller, of spurious wake-ups, or of the timeout of `get`.
* System: the server finishes the call it is in (the timed wait expires or the
  worker wakes it), it is restarted when dead, a client reads a response that is there,
  and ROUTER takes messages from its peers in turn, so no client is passed over for ever
  (strong, since other clients' calls come in between). Nothing is assumed of users, of workers, or of
  the client's receive timeout: requests are answered without it.
* Processes: `main` goes on by itself, a poll with a message waiting returns, and
  `rcvtimeo` ends the client's receive. Nothing is assumed of the user at the
  prompt, of signals, of peers that connect, or of the join in `deinit`.

Deadlock is checked in every run: the only states allowed to stand still are a
freed pool, a system whose users have all quit (`Quiet`) and two processes that
are gone (`BothGone`).

## 4. What is proved

All theorems hold for every value of the constants. The assumptions are those
named in the modules: the constants have their types (`AlgoOpsAssumption`,
`AlgoRunnerAssumption`, `IpcSystemAssumption`, `TicketIdAssumption`,
`ServerLifecycleAssumption`, `ClientLifecycleAssumption`, `BoundsAssumption`) and no request of the
clients is the trapping division (`JobTypesAssumption`).

The pool and the operations:

* `TypeCorrect`: `TypeOK` with `TicketInv` (map, queue, workers and the main
  thread hold issued tickets only) is inductive. It rests on `ExecuteOutcome`:
  whatever the payload, an outcome is one of the protocol.
* `WakeupsNotLost`, `FreeAfterJoin`: `NoLostWakeup` is not inductive: a worker
  that found the queue empty could go to sleep after a push. `MutexInv` (the
  worker between test and wait holds `qMtx`, and the queue stays empty
  meanwhile) excludes it; `PoolInv` (the vector names the started threads) is
  needed because only listed threads are joined.
* `JobsInOnePlace`: `ExactlyOnePlace` with `TicketInv` and `UnfinishedInMap`.
* `OutcomesIntact`: the result swapped out by `get` and the erased ticket go
  together.
* `PoolImplementsJobStore`: the refinement. The table's phase of a ticket is
  unused, pending, finished or consumed as it is not issued, in the map and not
  done, in the map and done, or out of the map. Insertion is `Submit`, the
  signal is `Acknowledge`, publication is `Finish`; all else in the pool
  stutters. Publication needs `ExactlyOnePlace` (the job was not done) and
  `UnfinishedInMap` (it is still in the map).
* `DeadlineExact`: the deadline is normalised and exact.
* `MathCorrect`, `FindCorrect`, `ConcatCorrect`, `DeadlineCorrect`, `IdsCorrect`
  (`MCAlgoOps_proofs`): the operations against the reference definitions of
  `MCAlgoOps`, for every integer width, alphabet, string length, limit, clock
  resolution and identifier width. `AnswerInv` says that an answer is the
  operation applied to its question; the rest are facts about the operators.
  `TruncDiv` divides magnitudes and restores the sign: `TruncDivRemainder` shows
  that the remainder is smaller than the divisor and has the sign of the dividend.
  `WrapCongruent` and `WrapIdentity` give the result of an overflow and of its
  absence, `WrapTrapped` that of `INT_MIN / -1`.
  Occurrence by positions is turned into the splitting `h = u \o n \o v` of the
  reference (`OccursIffSplits`), which needs no induction. The identifier's two
  parts are recovered by division (`DivModUnique`, `IdParts`).
* `IdsDistinct`: two jobs have different identifiers while the clock advances by
  less than 2^48 ns (78 hours) between them and fewer than 65536 jobs share one
  clock value. Equal identifiers have equal parts (`PartsDetermineId`); numbers
  less than a modulus apart and equal modulo it are equal (`NearIsEqual`).

The protocol, for any number of clients, commands, tickets and restarts:

* `TypeCorrect` (`IpcFlight_proofs`): the types, and the bounds of the queues.
  The bound needs `CountInv`: what is unread, unseen and in the loop for a client
  is never more than the client sent; every server step moves a message on or
  drops it.
* `TicketsStayPrivate`, `AnnouncedOnly`: neither is inductive, because a late
  response is believed by whoever reads it. `ContentInv` says what may be under
  way at all: every response that carries a ticket is on its way to the ticket's
  owner, every one that carries a result is for something the client announced,
  and the server's mask of a client is unknown, empty or the announced one.
* `CapsStayAnnounced`: until the first crash the first message the server sees of
  a client is its handshake (`HandshakeFirst`).
* `InStep`: `FlightInv`, for a client that was never late: of its last request at
  most one thing is under way, the request (last in its queue), the call in the
  server's loop, or the response, and each rules out the others. Valid handshakes
  are not answered, which is why the handshake does not disturb the count. A
  crash cuts queues and keeps the invariant.
* `ListIsTable`: the tickets held by the server are those the client will list
  when it has read the response under way (`ListInv`). It needs `FlightInv` (that
  response is the one to its request), `HandshakeFirst` (no request is taken for
  a handshake) and `OwnGets` (a get in a queue or in the loop is for a ticket of
  its sender, so that no client consumes another one's).
* `OutcomesGoToOwners`: the action property `OutcomeGoesToOwner`. The response
  that takes a ticket out of the table is the last element of the queue to its
  owner; `OwnGets` says that the get it answers came from the owner, before and
  after the timed wait.
* `SystemImplementsSessions`: the refinement. `SessionInv` is the invariant of
  `ListIsTable` with `AwaitInv` (a waiting client asked something, and a get is
  for a ticket on its list). Each client sees only its own state, its queues and
  whether the loop is in a call of it (`SeenFrame`), so a step changes at most
  one client's view; the one exception is a crash, where `DyingCall` shows that a
  call is kept or lost, never altered. `ServedHead` (from `FlightInv`) says that
  what the loop takes from a client in touch is what that client is waiting
  for; `HandshakeFirst` and `CapsAsAnnounced` that it is misread or wrongly refused
  only after a crash; `ListInv` that a listed ticket is gone only after a crash
  (`AsGet`). Handshakes, the start of a timed wait, the acknowledgement of a
  ticket and restarts stutter.
* `AnswersRight`: end to end, what a client that was never late reads is right
  for what it asked. It is proved of the steps of `Sessions`, where a call is
  answered in one step (`ExecuteRight`) and no step takes back what an answer
  says of the table (`Grows`), and carried over by the refinement
  (`SystemStep`).

The processes, for any number of signals and requests and any thread counts:

* `TypeCorrect`, `ServesReady`, `EndsClean` (`Processes_proofs`) from
  `ServerPhases`: what each place of `main` knows of singleton, pool and socket.
* `AtMostOneMoreMessage` from `LateIsLast`: a message taken after the flag was
  set leaves `main` beyond the receive, and the way back is through the test.
* `SocketClosedFirst` and `AtMostOneMoreRequest` from `SocketPhases` and
  `LateRequestIsLast`, the same on the client's side.

Only model-checked: liveness under fairness, which is outside this prover
(`AcceptedWorkFinishes`, `WaitingGetReturns`, `DeinitReturnsUnlessRaced`,
`RequestsAnswered`, `StopNoticed`, `ClientStopNoticed`). Every invariant, action
property and refinement of the passing runs is proved.

## 5. Not modelled

* Messages that no client of the repository sends (unparsable envelopes,
  `REQ_NOT_SET`), failing sends other than as a way out of the server's `run`,
  high-water marks, the linger period.
* Command-line text, printing, logging, error macros (their early returns are
  in the actions), the vendored option parser, build files and tests.
* The unlimited growth of `jobs` and `mClientExecCaps`: nothing bounds it.

## 6. Plan

1. Done: `AlgoOps`, `JobTypes`, `JobStore`, `AlgoRunner`, `Capabilities`,
   `IpcSystem`, their runs and the proofs about the pool.
2. Done: `TicketId` and `IdsDistinct`.
3. Done: `ServerLifecycle`, `ClientLifecycle`, `Processes`, with their proofs.
4. Done: the interrupted client in `IpcSystem`; all invariants of `IpcSystem`
   proved.
5. Done: the operations against their references, for all inputs; `Sessions`,
   implemented by `IpcSystem`.
6. Left: more of what chains of calls of one client can observe, along the
   pattern of `AnswersRight`; envelopes outside the protocol.
