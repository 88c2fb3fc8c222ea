# omniORB in TLA+

Specifications of the parts of omniORB in which threads, locks, callbacks and
restarts meet: the thread manager of the ORB, the client's connections and
calls, the server's connections and workers, the portable object adapter with
its manager and object table, and the persistent naming service omniNames with
its readers/writer lock. Each part has a module translated from the C++ source
and an instance for TLC, and a module of proofs for TLAPS.

To repeat the work in this directory:

    tlc -workers 2 -config Async.cfg MCAsyncInvoker           # a run
    tlapm AsyncInvoker_proofs.tla                             # the proofs

Paths below are relative to `src/omniORB`; `orbcore` is
`src/lib/omniORB/orbcore`.

## 1. Inventory

### The system

A client's call goes from an object reference to its identity, which is either
a local object (dispatched in the process) or a remote one (GIOP over a strand
of a rope). On the server side a listening endpoint and its connections give
work to the invoker's threads; a worker reads a request, finds the object in
the object table and passes it to the object's adapter, which makes the upcall.
Everything that is asynchronous in the ORB (upcalls, connection watching, the
scavenger of idle connections, calls on the main thread, the servant
activator's queue) is a task of the invoker. omniNames is an application of all
this, with a log of its own.

| Component | State it keeps | Operations | Interacts with | What is hard |
|---|---|---|---|---|
| Asynchronous invoker (`orbcore/invoker.cc`) | tasks queued per pool, idle threads of the invoker and of each pool, counts of threads, a dedicated queue | insert, worker loop, perform (main thread), shutdown, destructor | every other server component hands it tasks; `CORBA::ORB::run`, `perform_work`, `shutdown` | lent threads, two idle lists, limits that ImmediateDispatch tasks escape, timeouts that race with signals, a destructor that waits |
| Object adapter and object table (`orbcore/poa.cc`, `objectAdapter.cc`, `omniInternal.cc`, `localIdentity.cc`) | state and invocations of each entry, requests inside the adapter, detached objects, list of active objects, queue of the servant activator | dispatch, activate, deactivate, incarnate, etherealise, destroy | GIOP server and local calls; the manager; invoker (queue thread) | three locks, of which two are taken one after the other; work that moves to the last request, to a queue or to a job; waits for counts |
| POA manager (`orbcore/poamanager.cc`) | its state, the POAs it has, the end of its deactivation | activate, hold, discard, deactivate | changes the state of its POAs, waits for their requests | a deactivation in a thread of its own against `destroy` |
| omniNames contexts and log (`src/appl/omniNames`) | contexts and bindings in memory, files `.dat`, `.bak`, `.ckp`, a flag | bind, rebind, unbind, new and destroy context, checkpoint, start | POA (contexts are servants), readers/writer lock | crash between any two file operations, a record half written, calls that overlap the destruction of their context |
| Readers/writer lock (`src/appl/omniNames/ReadersWritersLock.h`) | a counter and the id of the last writer | readerIn, readerOut, writerIn, writerOut | all of omniNames | one signal for many sleepers, a writer that nests |
| GIOP server (`orbcore/giopServer.cc`, `giopRendezvouser.cc`, `giopWorker.cc`) | its state, rendezvousers, connections and the workers of each, counts of both kinds of workers | instantiate, start, stop, remove; notifications of tasks | invoker, socket collection, strands | who reads the next request is spread over flags under two locks; shutdown against new connections; the limit of threads per connection; a connection deleted by its last worker |
| Socket collection (`orbcore/SocketCollection.cc`) | what is watched, what has data in a buffer, who peeks | select, peek, set and clear selectable | rendezvouser and workers of the server | a connection is used after the lock that found it is released |
| Ropes, strands, client calls (`orbcore/giopRope.cc`, `giopStrand.cc`, `GIOP_C.cc`) | strands of a rope, their users and state, waiting clients, the order of addresses and the one in use, idle counters | acquire and release a client, filter and reset addresses, scavenger, failure and retry, disconnect | references, invoker | a connection scavenged as a call takes it, the limit of connections, a signal to the wrong waiter, a retry of a call that may have been executed |
| References and identities (`orbcore/omniObjRef.cc`, `remoteIdentity.cc`) | identity, forwarding flags, retry counts | invoke, relocate | ropes, object table | a call that is forwarded or retried while others use the reference |
| ORB life cycle (`orbcore/corbaOrb.cc`) | state of the ORB, threads inside it | init, run, perform_work, shutdown, destroy | all | shutdown from an upcall |
| Threads library, recursive mutex (`src/lib/omnithread`, `orbcore/rmutex.cc`) | thread states, semaphore counts, owner and depth | create, start, join, detach, wait, post | all | timed waits, joining |
| Rest | transports, code sets, marshalling, Any and DynAny, IDL compiler, utilities, omniORBpy | | | conversions and system calls |

What makes each of the modelled parts correct is in section 3; what would make
the others correct is in the plan (section 2). `PROJECT.json` lists all
components with what is left out of each, and the hazards of the code at their
lines.

### What is assumed of the environment

Mutexes exclude, conditions may wake spuriously where the model says so, threads
that can run do run. Connections may be closed in order or break at any moment;
what was sent on one that breaks may or may not have been executed. An upcall, an `incarnate()` or an `etherealize()` takes any
number of steps and returns. Memory is not exhausted. A timed wait may time out
at any moment, as nothing in the models measures time.

## 2. Plan

The invoker comes first, as every other component runs on its threads. Then
what has to survive more than a schedule: the naming service, over the lock it
uses. Then the object adapter, the largest machine of the ORB, and the two GIOP
layers: a call on its way out, and a connection on its way in.

| Step | Modules | State |
|---|---|---|
| 1 | `TaskService` (promise), `AsyncInvoker`, `MCAsyncInvoker`, `AsyncInvoker_proofs` | done: checked; all safety and the refinement proved |
| 2 | `RWLock` (promise), `ReadersWritersLock`, `MCReadersWritersLock`, `ReadersWritersLock_proofs` | done: checked; all safety and the refinement proved |
| 3 | `NamingStore` (promise), `NamingGraph` (records and their replay), `OmniNames` over `RWLock`, `MCOmniNames`, `OmniNames_proofs` | done: checked; all safety and the refinement proved |
| 4 | `ObjectLife` (promise), `OmniOrbPOA`, `MCOmniOrbPOA`, `OmniOrbPOA_proofs` | done: checked and proved |
| 5 | `RemoteCall` (promise), `GiopRope`, `MCGiopRope`, `GiopRope_proofs` | done: checked; all safety and the refinement proved |
| 6 | `GiopServer`, `MCGiopServer`, `GiopServer_proofs` | done: checked; all safety proved |
| 7 | several connections in one server run, `remove()`, bidirectional GIOP; replies that one caller reads for another; location forwarding; the tree of POAs; the binding iterators; the semaphore and the recursive mutex | left |

`OmniNames` composes with the lock by its promise: `Lock == INSTANCE RWLock`
takes the place of the lock's code, and `LockKeepsPromise` is the proof that the
code keeps the promise. `GiopServer` takes a task handed to the invoker for one
that some thread executes, as `TaskService` promises of the kind of task it
uses.

Modules that are proved about declare no recursive operator and state their
invariants as conjunctions of named parts.

## 3. The modules

### AsyncInvoker

`pd_lock` guards the whole object, so an action is one critical section of it;
`insert()` is five actions by what the code finds (an idle thread of the pool,
of the invoker, room for a new thread, a thread that cannot be started, none of
these). A worker's `pc` follows `mid_run` and `real_run`: `mid` and `midwait`
look for work or sleep on the invoker's list, `run` and `runwait` in a pool,
`exec`, `leave` and `release` around a task. `perform()` is the main thread
(`mainPc`), `shutdown()` is two steps, as it wakes the main thread in a second
critical section, and the destructor waits and may give up.

`Counted`, and with it `PoolThreadsExact`, is what the increments and
decrements of `pd_pool_threads` spread over `insert` and `real_run` amount to.
`TaskService` promises that an accepted task is executed at most once, by a
thread or, for the dedicated queue, in order by the main thread.

Which of the idle threads is taken is not modelled, nor the interceptors around
a thread's run and the counters that are only logged.

### ReadersWritersLock

The counter `n`, `writerId` that is never reset, the threads asleep on the
condition. `readerOut` signals one sleeper, `writerOut` all. A writer may enter
again as reader or writer (`Nest`). A spurious wakeup is an action.

### NamingGraph, NamingStore, OmniNames

A file is what its replay gives (`NamingGraph!Files`): the contexts and bindings
its records build, whether it ends in a torn record, and whether a context
refused a record. So replay is not a loop in the model: `Written` extends the
result record by record, as `getCreate`, `getDestroy`, `getBind` do.

Files are names linked to inodes, as the checkpoint depends on hard links: it
writes `.ckp`, removes `.bak`, links `.dat` to `.bak`, removes `.dat`, links
`.ckp` to `.dat`, removes `.ckp`. Each is an action of the main thread, whose
phases are `loop`, `prepared`, `written`, `unbacked`, `backed`, `dataless`,
`committed`, `unlinked`, `released`. `Crash` may come between any two, and a
failed system call, to which the code answers with `exit(1)`, is a crash too. A
crash is one of the process: what was written stays.

A client's call is `enter` (it waits for the lock), `logged` (its record is in
the log, its change not yet in memory), `leave`, and `reap` for the call that
turns out to be the last on a destroyed context. `bind_new_context` is four
calls in a row. A context is `active`, `leaving` (deactivated, calls inside) or
`ending`. Here the POA's part is reduced to who is last, which is what
`OmniOrbPOA` shows of `lastInvocationHasCompleted`.

At a start three things may be found. With a data file it is replayed; with
neither data file nor backup, `-start` makes a new graph (`FirstStart`,
`FirstRoot`); with a backup alone, as a stop between the unlink of `.dat` and
the link of `.ckp` to it leaves, omniNames refuses (`RefusesToStart`), unless the
operator gives `-always` without `-start`: then it unlinks the backup and exits
(`RemovesBackup`). `Always` says whether an operator does. What `.ckp` has at
that moment is read by nobody, so the graph ends there, and `used` and `gone`,
the history of the graph, begin anew.

`NamingStore` promises a store that outlives its server: what is served is the
graph, changes are one record at a time, and a stop leaves the graph as it is.
It is lost only as a whole (`Lose`), between two runs of the server and while it
is `exposed`: here, with such an operator and no data file.

### ObjectLife, OmniOrbPOA

One POA with the policies RETAIN and MULTIPLE_ID, with a servant activator or
with an active object map alone, and its manager. A step is a critical section
of `internalLock`, of `pd_lock` or of `pm_lock`. `pd_lock` is held over two
steps in one place, where `deactivate_object` counts a busy object as detached
after it has let go of `internalLock`.

A request is at `locate` ... `sa_exit` while it incarnates its object
(`dispatch_to_sa`), `held` in `synchronise_request`, at `upcall`, at `leave` in
the destructor of the reference holder, and at `retire` and `met` in
`lastInvocationHasCompleted`. `deactivate_thread_fn` with `pm_deactivate`, and
`destroy` with `do_destroy`, are two jobs with a program counter each
(`job`), executed by the caller or by a thread of their own. Both take the list
of active objects, mark them, wait for all requests to leave, and see to the
objects.

Sleepers on `pd_signal` and `pm_cond` are explicit, since here signals can be
lost. The other conditions are signalled under the lock that their condition is
changed under, and a wait on them is a guard. A spurious wakeup of `pd_signal`
only repeats a test.

`ObjectLife` promises that a servant is given up only when no call is inside it
and that none enters an adapter that appears destroyed.

Left out: the tree of POAs, adapter activators, UNIQUE_ID, NON_RETAIN, default
servants, the threading policies, and operations that raise an exception before
they change anything.

### RemoteCall, GiopRope

A rope with its order of addresses and the one in use, its strands, and its
callers. A caller goes through `acquireClient()` (`acquire`, `filter` and
`filtering` while names are resolved without the lock, `queue` and `woken` on
`pd_cond`), the states of its `GIOP_C` (`acquired`, `sending`, `waiting`,
`completed`) and the ways out of a failure (`exhausted`, `failing`, `failed`),
and comes back to `acquire` when `_invoke()` tries again. What a scan of the
strands ends in is one operator each: `TakeUnused`, `NewStrand`, `NoProfile`,
`Queue`, `Share`; `Scan` has the code's conditions between them, and `Entry`
is the state in which a caller begins a scan, as the lock is not given up
between a wait and the scan after it. `NotifyCommFailure`, `Verdict` and
`Again` decide on the next address and on the retry.

A strand is free, `ACTIVE`, `DYING` or on the scavenger's own list. The
scavenger's `RemoveIdle` runs under the lock and `CloseIdle` one strand at a
time after it. The environment executes requests, closes connections in order
or breaks them; which error a caller then meets depends on where it is.

`RemoteCall` promises that a call is executed at most once and ends as it was
executed. `first` and `current` are the addresses of the call descriptor,
`req` the request on the wire.

Left out: several GIOP versions, bidirectional strands, `selectRope` and the
reference counts of ropes, the reply that one caller of a shared strand reads
for another, location forwarding, LocateRequest, and the parameters
`retainAddressOrder`, `immediateRopeSwitch` and `clientConnectTimeOutPeriod`
(their default is 0).

### GiopServer

`giopServer` with `pd_lock`, its connections with the flags of
`SocketCollection` (another lock) and their strand (`omniTransportLock`), the
rendezvouser and the workers. A worker's `at` follows `giopWorker::execute`,
`GIOP_S::dispatcher`, `notifyWkPreUpCall`, `notifyWkDone` and
`removeConnectionAndWorker`, and is split where one lock is given up before the
next is taken: `selecting` and `ending`, `select` and `leaving`, `clearing`,
`removing`, `deleting`. `stage` is what `deactivate()` waits for. Thread per
connection is suspended and restored by the number of connections.

`poked` is `tcpEndpoint::pd_poked`, which `stop()` sets so that the rendezvouser
comes back from `AcceptAndMonitor()`, and which nothing resets: `StartServer`
leaves it as it is. After a `stop()` and a `start()` the new rendezvouser therefore
leaves at its first `Select()` without a new connection (`RzPoked`), and
`notifyRzDone()` shuts the endpoint down, as the server is not stopping.
`Attended` and `IdleIsEmpty` say what is true of such a server (section 6).

Requests are counted, not represented: `socket` is what has arrived and `head`
what was read too far into the strand's buffers, for which the collection has
`pd_data_in_buffer`. One recv() may return any number of them.

Left out: `remove()`, `instantiate()`, `giopMonitor`, bidirectional
connections, several endpoints, the contents of requests, and a second worker
at the gatekeeper (section 6).

## 4. The runs

| Run | What it asks | Properties | Bounds |
|---|---|---|---|
| `async` | every interleaving of inserts, workers, main thread, timeouts, shutdown, destructor; and no signal is lost | types, `PoolThreadsExact`, `AnyTimeWithinLimit`, `IdleListsExact`, `TaskInOnePlace`, `FreedWhenQuiet`, `ImplementsTaskService`, `HandedExecuted`, `DestructorDrains`, `MainServed` | 2 threads lent between two pools of limit 1, three of four tasks of all categories |
| `async_stall` | (violation) every queued task is executed | `AnyTimeExecuted` | 2 threads, two tasks |
| `rwlock` | the counter is the lock | types, `CounterExact`, `Exclusion`, `NoLostWakeup`, `WaiterEnters`, `ImplementsRWLock` | 3 threads, 3 entries each, depth 2 |
| `names_durable` | nothing acknowledged is lost, but by an operator's `-always` | types, `MemoryIsLog`, `RestartReads`, `ImplementsNamingStore` | 2 clients, 3 calls of six kinds, a crash, a failed checkpoint; `Always` |
| `names_overlap` | calls overlap a destruction and a checkpoint, or race to bind a new context, over torn records | `NoneHalfGone`, `NoOrphans`, `TornIsDue`, `CallsEnd` | 2 clients, 3 calls of three kinds, a crash, one failed write of the log or of a checkpoint; `Always` |
| `names_late_call` | (violation) a restart can read the log | `RestartReads` | 2 clients, 3 calls, no crash |
| `poa` | requests, application, manager, both jobs | types, `CountsExact`, `OnlyAbandonedLeft`, `ImplementsObjectLife`, `JobsEnd` | 1 object, 2 requests, 3 operations of 2 threads, 4 in all |
| `poa_forgotten` | (violation) a request held proceeds or is discarded | `NoForgottenRequest` | 1 request, 3 operations |
| `giop_client` | callers share, wait, fail, retry, time out; the scavenger runs | types, `CallKeepsStrand`, `LimitsKept`, `ImplementsRemoteCall`, `CallsEnd` | 3 callers, 3 calls, one strand, one or two addresses, 1 failure |
| `giop_noprofile` | (violation) the exception for a reference without addresses means that | `NoProfileMeansNone` | 2 callers, 3 calls, 1 failure |
| `giop_server` | requests, closed and refused connections, cancelled requests, scavenger, stop, start, stop again | types, `FreedOnce`, `DyingIsRemoved`, `IdleIsEmpty`, `Attended`, `StopEnds` | one connection object opened twice, 3 workers, 2 requests, 1 fault, two stops |
| `giop_server_stale` | (violation) a removed connection is out of the rendezvouser's hands | `NotifiedExists` | the same, no stop |

### Why the bounds are enough

- Invoker. Any three of the four tasks are inserted (`MaxInserts`), the fourth
  stays outside. The limit of a pool is met at its first thread, and an
  ImmediateDispatch task passes it and comes back to it. With two pools and two
  threads a thread that leaves one is taken by the other, idles there or in the
  invoker, or has to be made. That a third thread changes nothing for counts
  and limits is what the proofs show (section 5).
- Lock. Two readers and a writer, or a reader and two writers, are all the ways
  in which one signal can wake the wrong sleeper.
- Naming service. One context besides the root is created, bound, destroyed, and
  used after; a crash comes at every step of one checkpoint, and a second one at
  every step of the recovery (`names_overlap`). The operator of `Always` finds
  the window without a data file after a crash in it, and a new graph is
  made, changed and read after the loss. Two objects tell a rebind from what was
  bound before; a `bind` differs from a `rebind` in its check of the name only,
  and `names_overlap` has it. `names_durable` leaves out calls that overlap a destruction, and torn
  records, for which the property is false of the code (section 6).
- Adapter. The counts that matter are zero, one and more than one, for which two
  requests suffice; entries do not interact except on the list, whose order no
  step depends on. In the first state objects may already be active and the
  manager in use, so that three operations are, say, a deactivation of the
  object, one of the manager and the destruction, with the object activated
  before; they run with one request, and two requests with two operations
  (`MaxEvents`). `OneIdle` makes one idle thread take a call instead of any; idle
  threads do not differ. Deadlock is not checked there: the bounds on calls run
  out, and a wait for an abandoned object (section 6) really has no end.

- Rope. With one strand and three callers one has it, and the others wait for
  it or share it; a failure leaves it dying while they wait, so the limit is met
  by a dying strand too. The failure ends a call of a reference with one
  address and takes one with two to the second; two strand objects let a new one be made while the old one is still
  being closed. The proofs cover any number of all of these.
- Server. One connection is dedicated to a thread or served from the pool
  (`UpperLimits` 1 and 2), opened again after it was removed while threads may
  still have its old socket; two workers are its limit, a third is there for
  the stop. The second stop meets a server that was started with its endpoint
  poked, with its rendezvouser and endpoint or without them; a third would find
  nothing else. The fault is a cancelled request, or a connection that is closed or
  refused.
  Connections meet in the counts of workers and in the switch between the
  policies only. Deadlock is not checked there: a server may wait for requests
  that never come.

### Fairness

Weak fairness of the steps of a thread that it takes by itself, nothing else.
It stands for a scheduler that runs every thread and for mutexes that do not
starve. No fairness is assumed of clients' calls, of shutdown and destruction,
of crashes, failures and timeouts, nor of a spurious wakeup: no property may
depend on these. In the invoker, `MainStep` and `DtorFinish` have fairness but
`PerformTimeout` and the idle timeouts have none, so the destructor drains by
signals and not by patience. In the lock, a waiting thread gets in only because
arrivals are bounded: readers may overtake a writer for ever, and the code does
not say otherwise. In the adapter an upcall returns and a held request may stay
held; `JobsEnd` then rests on `destroy` and `deactivate` having told the
requests to go. A caller of the rope goes on by itself, the server executes what
it has received and the scavenger runs; deadlines may never come. In the server
the rendezvouser, each worker, and the closing of expired connections are fair,
and so is the end of a wait of `deactivate()` for which what it waits for has
come (`StopInTime`): its deadline is not needed. `PeekTimesOut` and the timeout
of `poll()` are steps of a thread that has a timeout in the code, and belong to
the worker's fairness.

## 5. What is proved

For every number of threads, pools, tasks and every limit
(`ConstantsAssumption`), every set of threads and depth for the lock, every finite
set of callers and strands, every set of addresses and orders of them and all
bounds for the rope, any contexts, names, objects, clients and bounds for
the naming service, any finite sets of objects and threads
(`FiniteAssumption`), policies and bounds for the adapter, and any finite sets of
connections and workers (`FiniteAssumption`), limits, policies and bounds for the
server:

`AsyncInvoker_proofs`
- `IdleLists`: the two idle lists are exactly the threads that wait in them. The
  invariant `Inv1` adds to the types what a worker's `pc` says of its pool, its
  task and its flags (`Shape`); it is inductive on its own, action by action.
- `Types`, `PoolThreads`, `AnyTimeLimit`, `NoIdle`, `Freed`: over `Inv1` the
  invariant `Inv2` relates the counters to the sets they count
  (`PoolThreadsExact`, the limit, `TotalCoversThreads`). The limit is not
  inductive without the exact count, since `real_run` compares the counter and
  not the threads; and that the destructor frees the object when no thread is
  left needs that `pd_total_threads` never falls below the number of threads.
  The lemmas `CountSame`, `CountJoin`, `CountQuit` (and `Limit...`, `Total...`)
  say how a cardinality changes when one worker's state does; each action cites
  one of them.
- `OnePlace`: over `Inv1` the invariant `Inv3` says where a task can be. What a
  worker has (`Held`), what a queue has (`Queued`) and what the main thread and
  its queue have (`Lined`) are accepted tasks of that pool and kind, each there
  once; and an accepted task is in one of these places (`Kept`). The steps are
  reduced first to what they do to the tasks (`Moves`: a task is handed over,
  waits, is refused, begun, ended), as most of them move none.
- `ServiceImplemented`: the invoker implements `TaskService`. From `Inv3` every
  move is one step of the service. That a thread begins an AnyTime task within
  the limit needs both other invariants: the threads that execute one are others
  than the thread that begins (`RunningFew`), and with it they are no more than
  the limit.

`ReadersWritersLock_proofs`
- `Types`, `Counter`, `WriterAlone`, `Wakeups` from one invariant, in which
  `Placement` says that a thread is inside or waiting in one way only. The
  counter is needed for exclusion: a reader looks at its sign alone. That no
  wakeup is lost rests on who can be awake when the lock is free.
- `LockKeepsPromise`: the lock implements `RWLock`, every step being a lock, an
  unlock or a stutter of the promise.

`GiopRope_proofs`
- `SpecIInv` (from `InitIInv` and `NextIInv`): the inductive invariant. `Flags`,
  `Bounded`, `CallTypes`, `RopeTypes` and `InOrder` are types and the order of
  addresses; `Held` says that a caller has a strand exactly in the places in
  which it has a `GIOP_C`, `Paired` that a call has a first address exactly when it
  has a current one, `Addressed` that every strand in use has an address, and
  `Counted` that a strand whose idle counter runs is in the cache, on nobody's
  call. `CallKeepsStrand` is one of its conjuncts and not inductive without
  them: the scavenger looks at `idlebeats` and not at the callers, and
  `acquireClient()` at `cached`. The steps are first reduced to what they do to
  the caller (`Moves`, `Stays`, `Found`, `Failure`), since a wakeup or a
  broadcast may move others at the same time.
- `KeepsStrand`, `TypesHold`, `LimitsHold`: the first follows; the second adds
  that `pd_nwaiting` counts the callers that wait, the third that strands,
  dying ones included, are few, and that a caller is alone on a strand with
  `pd_oneCallPerConnection`; each by the change of one cardinality per step.
- `RopeImplementsCalls`: the rope implements `RemoteCall`. The argument is that
  of at-most-once: `Verdict` lets a call be tried again only if its connection
  is lost or was closed in order *and* the request was not executed and can not
  be any more (`ClosedLost`), and a reply is there only for an executed request
  (`Answer`).

`OmniNames_proofs`
- `TypesHold`: the inductive invariant `TInv`. Besides the types it says which
  thread has the lock in which phase (`Locked`), which file names exist in which
  phase of a checkpoint (`Filed`), what is known of a call by its operation and
  place (`Proper`), that a context in the making is one call's alone (`Apart`),
  that what is in memory or in a file was created (`Born`), and that nothing is
  served before the log is read (`Quiescent`). `TypeOK` alone is not inductive:
  that a record names a context needs `Proper`, and that `Put` finds the log
  open needs `Locked` and `Filed`, as the checkpoint takes the name `.dat` away.
- `NoneLeftBehind`: `Ending` adds that a context being left has a call inside
  and one being taken out has exactly one call that does so, and nobody inside.
  `bind_new_context` is the difficult case, since its call is inside two
  contexts and leaves them one after the other; that its new context is active
  until it undoes it is part of the invariant.
- `TornReplaced`: `Mended` says the same of the checkpoint file in the making,
  so that `.ckp` may become `.dat`. No assumption on overlapping calls.
- `ServedIsKept`, `RestartNeverRefused`, `StoreKept`: for constants with
  `Sheltered`, that is, clients do not call a context that is being destroyed,
  nobody destroys the root, a stop does not tear a record and a write of the log
  does not fail (a checkpoint may). Each of these is needed: section 6 names what
  the code does without it. The
  invariant `SInv` says that a file is `Whole` (no record was refused, and it
  has every context that was created and not destroyed) and that memory
  is its `Mirror`, up to the one record whose change is still to be made; and
  that both are true of `.ckp` as well from the end of its writing to the
  moment it becomes `.dat`, while the file that is kept is `.dat` or, between
  the unlink and the link, `.bak`. So a stop loses nothing by itself. A start
  in that window is refused, or is that of an operator who has the backup
  removed: the theorem is for both values of `Always`, and with it the graph ends
  there (`Lose`, by the lemmas `Removed`, `DurableRemoved` and `StoreRemoved`),
  after which `SInv` holds of the new graph, which is empty. What a checkpoint
  file left behind has in it is no part of the new graph, which is why `Born`
  speaks of the files that will be read (`Readable`) and not of all.
  For the refinement `LikeOf`, `OfAfter` and `OfElsewhere` carry a record from
  the file to the graph of the contexts that were not destroyed. A record is
  `Keep`, its change and a start's replay are `Serve`, the first record is
  `Found`, a stop is `Stop`, an unlinked backup is `Lose`, and every other step
  stutters: of the checkpoint's
  the only one that is not obvious is `CkpCommit`.

- `NoneUnbound`: `Sheltered`, and clients that neither make a context without
  binding it nor take a binding away (`BindsOnly`), as `NoOrphans` says. `OInv`
  says where nothing is bound (`Vacant`: in a context that is yet to be created,
  in the making, or given up, and under a name that a bind has logged), and
  that an active context is bound or has a call that will bind or
  destroy it (`Tied`). That the call which gives up its context finds nothing
  in it needs that nobody else knows the context (`Apart`).

`OmniOrbPOA_proofs`
- `SpecIInv` (from `InitIInv` and `NextIInv`): the inductive invariant. The
  counts are in it as sizes of sets (`CountsInside`, `CountsOfEntries`,
  `CountsDetached`), and none of them is inductive alone. That the last
  request out of an object counts it down once needs that an object
  has one thread that activates or retires it (`Owned`, `OneOwner`), is in the
  activator's queue once (`Queued`), and is on the list its state
  says (`Lists`). That `deactivate_object` counts a busy object late is
  harmless because `pd_lock` is kept until then (`Locked`, `Detaching`).
  `Destruction`, `Deactivation` and `Closing` say how far the two jobs are and
  what is over by then; `Used` that an object with requests in it is there.
- `TypesHold`, `CountsAreExact`: the counts are integers in the invariant; that
  they are never negative follows from their being sizes.
- `OnlyAbandonedAreLeft`: at the end of `destroy()` no detached object is left
  to wait for, so nothing is due, retiring or queued; and an object whose
  etherealisation is due is in somebody's hands (`Kept`), so there is none.
- `LifeImplemented`: every step is one of `ObjectLife` or none. What each step
  does to servants and upcalls is stated by one lemma per step of the promise
  (`LifeEnters`, `LifeGivesUp`, ...). A servant is given up in three places, by
  the last request out, by `deactivate_object` and by a job, and each
  needs the counts: that 1 or 0 in the counter means that nobody is inside.

`GiopServer_proofs`
- `SpecIInv` (from `InitIInv` and `NextIInv`): the inductive invariant. The three
  counters of workers are in it as sizes of sets (`CountsServer`, `CountsOf`).
  `InTable` says what a connection in `pd_connectionState` owes to its workers:
  it has two references until a deletion is pending and nobody has its `GIOP_S`,
  and one from then on; a pending deletion with a user means that the strand is
  DYING, because a worker that sleeps for the read lock finds out by the strand
  and by nothing else; and who has met an error comes with a deletion pending.
  `OffTable` says that a connection outside the table is new, in the hands of
  its one last worker, or gone. `OneReads` is the read lock. `Stopping` says
  what each stage of `deactivate()` has waited for, unless a wait has timed out.
  It says nothing of the rendezvouser and the endpoint of an ACTIVE server, as
  nothing is true of them after a restart; `EndpointStays`, an invariant on top
  of it, says that an ACTIVE server has a rendezvouser as long as its endpoint was
  not poked, and that the first `stop()`, or any of an endpoint that was not
  poked, leaves the endpoint for the next `start()`.
  Steps of a worker that goes on with its connection are treated by one lemma
  (`GoesOnKeeps`), those that start and end one by `JoinKeeps` and `LeavesKeeps`.
- `TypesHold`, `FreedOnceOnly`, `DyingRemoved` follow, and with `EndpointStays`
  `IdleEmpty`, which promises the endpoint after the first `stop()` only, or
  where the endpoint was never poked. That
  the last worker of a dying connection is the one that removes it needs
  `pd_n_workers` to be exact; that nobody serves when `stop()` returns needs the
  counters too, as `deactivate()` waits for them and not for threads.

Model-checked only: all liveness (`HandedExecuted`,
`DestructorDrains`, `MainServed`, `WaiterEnters`, `CallsEnd`, `JobsEnd`,
`Attended`, `StopEnds`), which with fairness and ENABLED is out of the prover's
reach, as is induction over data.

## 6. Where code and words differ

Found by a run:
- `async_stall` (`orbcore/invoker.cc:605`): a worker that has found its queue
  empty and leaves its pool is still counted when a task is queued for it, and
  the task stays until another comes.
- `names_late_call` (`NamingContext_i.cc:258`): a bind, or a second destroy,
  that waited for the lock while its context was destroyed is logged after the
  destroy; the replay of that record raises an exception nobody catches and
  omniNames does not start any more.
- `poa_forgotten` (`orbcore/poa.cc:2229`): `hold_requests()` after `destroy()`
  has discarded the held requests and before it has left its manager holds them
  again; `do_destroy` sets INACTIVE without a broadcast and waits for them.
- `giop_noprofile` (`orbcore/giopRope.cc:302`): a caller that wakes up when
  another has reset the order of addresses does not filter them again and is
  told that the reference has no usable address.
- `giop_server_stale` (`orbcore/giopServer.cc:1050`): `Select()` has a
  connection on its list when a worker removes and deletes it.
- `giop_server` (`orbcore/tcp/tcpEndpoint.cc:323`): `pd_poked` is set by the
  first `stop()` (line 278) and never reset, so that after the next `start()` the
  rendezvouser leaves as soon as a `Select()` brings no new connection, and
  `notifyRzDone()` shuts the endpoint down while the server is ACTIVE
  (`giopServer.cc:954-961`). From then on nothing is accepted and nobody watches
  the pool's connections; the next `stop()` ends without an endpoint. This is
  against `omniServer.h:98-102` ("the endpoints will stay. This server will serve
  incoming requests again when start() is called"). It is not a run that fails:
  `Attended` says that the rendezvouser is gone for good exactly if the endpoint
  was poked, and `IdleIsEmpty` gives the endpoint up from the second `stop()` on.

Met while modelling, in the models but without a run of their own:
- A `bind_new_context` on a context that is destroyed between its two steps binds
  its new context in one that is about to go, and leaves it bound nowhere
  (`NamingContext_i.cc:363`). It takes three contexts; `NoOrphans` leaves out
  calls that are overtaken by a destruction.
- A record appended behind a torn one is lost (`log.cc:636`, `log.cc:517`). A
  checkpoint during the end of a destruction brings the context back, or stops
  the process (`log.cc:717`). `checkpointNeeded` is reset outside its lock
  (`log.cc:834`). A first start cut short leaves a file without a root
  (`log.cc:428`). Nothing guards the root context against `destroy()`.
- omniNames started with `-always` and without `-start` removes the backup when
  there is no data file, and exits (`log.cc:327-337`); after a stop in the middle
  of a checkpoint the backup is the only file that is read, and the next
  `-start` begins with an empty graph. The usage text (`omniNames.cc:85`) and
  `doc/tex/omniNames.tex:109-111` speak of `-always` with `-start` only.
  `RemovesBackup` in the model, `Lose` in the promise.
- `deactivate(FALSE)` of a manager leaves its objects in the state
  ETHEREALISING for ever (`poa.cc:2375`): `Abandoned` in the model.
- `deactivate_thread_fn` wakes the waiters without their lock
  (`poamanager.cc:242`).
- The comment at `poa.cc:2897` promises TRANSIENT to a request whose object was
  deactivated while it was held; the request itself keeps the object from being
  deactivated, so it is executed.
- The destructor of the invoker gives up after a deadline that its header does
  not mention (`invoker.cc:769`); `pd_total_threads` keeps a thread that could
  not be started (`invoker.cc:103`), for which `TotalCoversThreads` is an
  inequality.

- `notifyCommFailure()` indexes the order of addresses after a reset has cleared
  it (`giopRope.cc:616`): `SwitchFrom` takes any address then.
- A call that moves to a forwarded location is tried again although its status
  is COMPLETED_MAYBE (`omniObjRef.cc:687`), as `doc/omniORB.tex:2514` says; the
  model has no forwarding.
- A request that is cancelled half way leaves a connection of the pool
  unwatched (`GIOP_S.cc:563`); `Attended` excepts it.
- `giopStrand.h:111-124` says that `safeDelete()` returns TRUE only if the
  strand may be deleted now; it always returns 1. Nobody looks at it.
- When `stop()` has started a second worker for a connection and the gatekeeper
  refuses it to both, each gives up the strand's reference (`giopWorker.cc:57`).
- A rendezvouser that ends after `stop()` has timed out meets an assertion
  (`giopServer.cc:934`), and after TIMEDOUT `start()` does nothing, though
  `omniServer.h:98-102` says that the server can be started again.

Seen in parts that are not modelled: a second deadlock of `deactivate()` called
from an upcall (`poamanager.cc:267`), an assertion in `create_POA` with two
waiters (`poa.cc:505`), a name left as being activated after an exception
(`poa.cc:3448`), `removeFromOAObjList` without `pd_lock` (`poa.cc:3285`).

## 7. What is not modelled

Data conversions (marshalling, code sets, IORs, URIs, GIOP framing), the dynamic
library, the IDL compiler, command line utilities and the Python binding have
little state that several actors share; what they compute is a matter for tests
of inputs and outputs, and most of the repository's lines are theirs, generated
tables included. Transports and the operating system's part of the socket
collection are system calls, of which the GIOP modules have what their callers
can observe. Bidirectional GIOP, the removal of endpoints, location forwarding,
the ORB's life cycle, adapter activators, binding iterators and the threads
library are left for the plan's last step. The `components` of `PROJECT.json`
name each part with the reason.
