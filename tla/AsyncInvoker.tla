---------------------------- MODULE AsyncInvoker ----------------------------
(***************************************************************************)
(* The ORB's thread manager, omniAsyncInvoker: every upcall, connection    *)
(* watcher, scavenger, asynchronous client call and main-thread call of    *)
(* omniORB is an omniTask handed to it.  One mutex (pd_lock) guards the    *)
(* whole object, so an action below is one critical section of pd_lock.    *)
(*                                                                         *)
(* A worker thread belongs to the invoker and is lent to a pool (general,  *)
(* server or client).  pd_pool_threads counts the workers lent to a pool   *)
(* less those executing an ImmediateDispatch task; it is what the limit    *)
(* pd_max is compared with.                                                *)
(*                                                                         *)
(* Abstracted: which member of an idle list is taken (the code takes the   *)
(* most recent one), the per-pool pd_total_threads and pd_self, which are  *)
(* only logged or handed to the task, the interceptors around run(), and   *)
(* time: a timed wait may time out at any moment.                          *)
(***************************************************************************)
EXTENDS Integers, Sequences, FiniteSets

CONSTANTS Workers,   \* the threads the operating system will give the ORB
          Pools,     \* the pools: general, server, client
          Tasks,     \* omniTask objects, each inserted at most once
          PoolMax,   \* pd_max of each pool
          TaskPool,  \* purpose(): the pool that serves a task
          TaskCat,   \* category()
          MaxInserts, \* bound: how many of the tasks callers come to insert
          None       \* a null pointer

ASSUME ConstantsAssumption ==
  /\ IsFiniteSet(Workers)
  /\ PoolMax \in [Pools -> Nat \ {0}]
  /\ TaskPool \in [Tasks -> Pools]
  /\ TaskCat \in [Tasks -> {"AnyTime", "ImmediateDispatch", "DedicatedThread"}]
  /\ MaxInserts \in Nat
  /\ None \notin Workers \cup Pools \cup Tasks

VARIABLES
  keepWorking,  \* pd_keep_working
  totalThreads, \* pd_total_threads of the invoker
  invokerIdle,  \* pd_idle_threads of the invoker
  poolIdle,     \* pd_idle_threads of each pool
  poolThreads,  \* pd_pool_threads of each pool
  queue,        \* pd_tasks of each pool
  pc,           \* where each worker thread is, "none" when it does not exist
  pool,         \* pd_pool of each worker
  task,         \* pd_task of each worker
  immediate,    \* the local of real_run
  signalled,    \* workers whose pd_cond was signalled while they waited
  dedicated,    \* pd_tasks of the dedicated queue
  mainPc,       \* where the main thread is in perform()
  mainTask,     \* the local `task' of perform()
  mainTimed,    \* whether perform() was given a deadline
  mainGo,       \* the local `go' of perform()
  shut,         \* progress of shutdown(): "no", "flagged", "done"
  dtor,         \* the destructor: "none", "waiting", "freed", "leaked"
  status        \* what became of each task

poolVars == <<poolIdle, poolThreads, queue>>
workerVars == <<pc, pool, task, immediate, signalled>>
mainVars == <<dedicated, mainPc, mainTask, mainTimed, mainGo>>
lifeVars == <<keepWorking, shut, dtor>>
vars == <<totalThreads, invokerIdle, poolVars, workerVars, mainVars, lifeVars,
          status>>

PoolTypes ==
  /\ invokerIdle \in SUBSET Workers
  /\ poolIdle \in [Pools -> SUBSET Workers]
  /\ poolThreads \in [Pools -> Int]
  /\ queue \in [Pools -> Seq(Tasks)]

WorkerTypes ==
  /\ pc \in [Workers -> {"none", "mid", "midwait", "run", "runwait", "exec",
                         "leave", "release", "exit"}]
  /\ pool \in [Workers -> Pools \cup {None}]
  /\ task \in [Workers -> Tasks \cup {None}]
  /\ immediate \in [Workers -> BOOLEAN]
  /\ signalled \in SUBSET Workers

MainTypes ==
  /\ dedicated \in Seq(Tasks)
  /\ mainPc \in {"out", "check", "wait", "woken", "exec", "leaving"}
  /\ mainTask \in Tasks \cup {None}
  /\ mainTimed \in BOOLEAN
  /\ mainGo \in BOOLEAN

LifeTypes ==
  /\ keepWorking \in BOOLEAN
  /\ shut \in {"no", "flagged", "done"}
  /\ dtor \in {"none", "waiting", "freed", "leaked"}
  /\ status \in [Tasks -> {"new", "accepted", "refused", "done"}]

\* The types of the state, the counter of threads apart.
StateTypes == PoolTypes /\ WorkerTypes /\ MainTypes /\ LifeTypes

\* The type invariant: in particular pd_total_threads, an unsigned int, never
\* wraps below zero.
TypeOK == StateTypes /\ totalThreads \in Nat

Init ==
  /\ keepWorking = TRUE
  /\ totalThreads = 0
  /\ invokerIdle = {}
  /\ poolIdle = [p \in Pools |-> {}]
  /\ poolThreads = [p \in Pools |-> 0]
  /\ queue = [p \in Pools |-> <<>>]
  /\ pc = [w \in Workers |-> "none"]
  /\ pool = [w \in Workers |-> None]
  /\ task = [w \in Workers |-> None]
  /\ immediate = [w \in Workers |-> FALSE]
  /\ signalled = {}
  /\ dedicated = <<>>
  /\ mainPc = "out"
  /\ mainTask = None
  /\ mainTimed = FALSE
  /\ mainGo = TRUE
  /\ shut = "no"
  /\ dtor = "none"
  /\ status = [t \in Tasks |-> "new"]

-----------------------------------------------------------------------------
(* Helpers.  An operator A_B is a faulty variant of A: no action uses it, and  *)
(* the properties below must fail when it replaces A.                          *)

\* The object exists: its destructor has not returned.
Alive == dtor \in {"none", "waiting"}

\* No thread of the process calls insert() once the ORB deletes the invoker,
\* except a task still being executed.
MayInsert(t) ==
  /\ status[t] = "new"
  /\ Cardinality({u \in Tasks : status[u] # "new"}) < MaxInserts
  /\ \/ dtor = "none"
     \/ dtor = "waiting" /\ (mainPc = "exec" \/ \E w \in Workers : pc[w] = "exec")

IsImmediate(t) == TaskCat[t] = "ImmediateDispatch"

ToPool(t) == MayInsert(t) /\ TaskCat[t] # "DedicatedThread"

NoPoolIdle(t) == poolIdle[TaskPool[t]] = {}

\* What insert() does without a thread: refuse, or queue.
Refusable_Always(t) == TRUE

Refusable(t) == IsImmediate(t)

\* The condition of insert() for lending the pool one more worker.
WantsWorker(t) ==
  IsImmediate(t) \/ poolThreads[TaskPool[t]] < PoolMax[TaskPool[t]]

Unborn == {w \in Workers : pc[w] = "none"}

Signal_Lost(ws) == UNCHANGED signalled

\* handle() or stop() on a set of workers: pd_cond.signal() reaches a worker
\* only if it is waiting.
Signal(ws) ==
  signalled' = signalled \cup {w \in ws : pc[w] \in {"midwait", "runwait"}}

\* workerStart() and workerStop() of the invoker.
WorkerStart_Missing == UNCHANGED totalThreads

WorkerStart == totalThreads' = totalThreads + 1

WorkerStop_Twice == totalThreads' = totalThreads - 2

WorkerStop == totalThreads' = totalThreads - 1

\* The condition the destructor waits for.
AllStopped_OneReturn == TRUE

AllStopped == totalThreads = 0

RemIdle_Missing(w) == UNCHANGED invokerIdle

\* remIdle() outside the pools.
RemIdle(w) == invokerIdle' = invokerIdle \ {w}

Accept(t) == status' = [status EXCEPT ![t] = "accepted"]

-----------------------------------------------------------------------------
(* insert() on a pool *)

\* A worker idle in the pool takes the task.
InsertOnPoolIdle(t) ==
  LET p == TaskPool[t] IN
  /\ ToPool(t)
  /\ \E w \in poolIdle[p] :
       /\ poolIdle' = [poolIdle EXCEPT ![p] = @ \ {w}]
       /\ task' = [task EXCEPT ![w] = t]
       /\ Signal({w})
  /\ Accept(t)
  /\ UNCHANGED <<totalThreads, invokerIdle, poolThreads, queue, pc, pool,
                 immediate, mainVars, lifeVars>>

\* getWorker() finds a worker idle in the invoker and assigns it to the pool.
InsertOnInvokerIdle(t) ==
  LET p == TaskPool[t] IN
  /\ ToPool(t)
  /\ NoPoolIdle(t) /\ WantsWorker(t)
  /\ \E w \in invokerIdle :
       /\ RemIdle(w)
       /\ pool' = [pool EXCEPT ![w] = p]
       /\ task' = [task EXCEPT ![w] = t]
       /\ Signal({w})
  /\ poolThreads' = [poolThreads EXCEPT ![p] = @ + 1]
  /\ Accept(t)
  /\ UNCHANGED <<totalThreads, poolIdle, queue, pc, immediate, mainVars,
                 lifeVars>>

\* getWorker() starts a thread: it is lent to the pool and holds the task
\* before it first runs.
InsertOnNewThread(t) ==
  LET p == TaskPool[t] IN
  /\ ToPool(t)
  /\ NoPoolIdle(t) /\ WantsWorker(t) /\ invokerIdle = {}
  /\ \E w \in Unborn :
       /\ pc' = [pc EXCEPT ![w] = "mid"]
       /\ pool' = [pool EXCEPT ![w] = p]
       /\ task' = [task EXCEPT ![w] = t]
  /\ WorkerStart
  /\ poolThreads' = [poolThreads EXCEPT ![p] = @ + 1]
  /\ Accept(t)
  /\ UNCHANGED <<invokerIdle, poolIdle, queue, immediate, signalled, mainVars,
                 lifeVars>>

\* No thread can be created: the constructor of omniAsyncWorker counts the
\* thread before start() throws, and nothing takes the count back.  An
\* ImmediateDispatch task is refused, another is queued.
InsertWithoutThread(t) ==
  LET p == TaskPool[t] IN
  /\ ToPool(t)
  /\ NoPoolIdle(t) /\ WantsWorker(t) /\ invokerIdle = {} /\ Unborn = {}
  /\ WorkerStart
  /\ \/ /\ Refusable(t)
        /\ status' = [status EXCEPT ![t] = "refused"]
        /\ UNCHANGED queue
     \/ /\ ~Refusable(t)
        /\ queue' = [queue EXCEPT ![p] = Append(@, t)]
        /\ Accept(t)
  /\ UNCHANGED <<invokerIdle, poolIdle, poolThreads, workerVars, mainVars,
                 lifeVars>>

\* The pool is at its limit.
InsertQueued(t) ==
  LET p == TaskPool[t] IN
  /\ ToPool(t)
  /\ NoPoolIdle(t) /\ ~WantsWorker(t)
  /\ queue' = [queue EXCEPT ![p] = Append(@, t)]
  /\ Accept(t)
  /\ UNCHANGED <<totalThreads, invokerIdle, poolIdle, poolThreads, workerVars,
                 mainVars, lifeVars>>

-----------------------------------------------------------------------------
(* A worker outside the pools: mid_run() *)

\* The critical section at the head of the loop.
MidRun(w) ==
  /\ Alive /\ pc[w] = "mid"
  /\ \/ /\ pool[w] # None
        /\ pc' = [pc EXCEPT ![w] = "run"]
        /\ UNCHANGED invokerIdle
     \/ /\ pool[w] = None /\ keepWorking
        /\ pc' = [pc EXCEPT ![w] = "midwait"]
        /\ invokerIdle' = invokerIdle \cup {w}
     \/ /\ pool[w] = None /\ ~keepWorking
        /\ pc' = [pc EXCEPT ![w] = "exit"]
        /\ UNCHANGED invokerIdle
  /\ UNCHANGED <<totalThreads, poolVars, pool, task, immediate, signalled,
                 mainVars, lifeVars, status>>

\* Back from timedwait() in mid_run().
LeaveMidWait(w) ==
  /\ Alive /\ pc[w] = "midwait"
  /\ \/ /\ pool[w] # None
        /\ pc' = [pc EXCEPT ![w] = "run"]
        /\ UNCHANGED invokerIdle
     \/ /\ pool[w] = None
        /\ pc' = [pc EXCEPT ![w] = "exit"]
        /\ RemIdle(w)
  /\ signalled' = signalled \ {w}
  /\ UNCHANGED <<totalThreads, poolVars, pool, task, immediate, mainVars,
                 lifeVars, status>>

MidWake(w) == w \in signalled /\ LeaveMidWait(w)

MidTimeout(w) == w \notin signalled /\ LeaveMidWait(w)

\* mid_run() has returned: ~omniAsyncWorker() counts the thread out and wakes
\* the destructor at zero (DtorFinish tests the count).
Exit(w) ==
  /\ Alive /\ pc[w] = "exit"
  /\ pc' = [pc EXCEPT ![w] = "none"]
  /\ WorkerStop
  /\ UNCHANGED <<invokerIdle, poolVars, pool, task, immediate, signalled,
                 mainVars, lifeVars, status>>

-----------------------------------------------------------------------------
(* A worker in a pool: real_run() *)

Dequeue_Missing(p) == UNCHANGED queue

Dequeue(p) == queue' = [queue EXCEPT ![p] = Tail(@)]

Begin_StaysCounted(w, t) ==
  /\ task' = [task EXCEPT ![w] = t]
  /\ immediate' = [immediate EXCEPT ![w] = IsImmediate(t)]
  /\ pc' = [pc EXCEPT ![w] = "exec"]
  /\ UNCHANGED poolThreads

\* The end of the first critical section: task t is about to be executed.
Begin(w, t) ==
  /\ task' = [task EXCEPT ![w] = t]
  /\ immediate' = [immediate EXCEPT ![w] = IsImmediate(t)]
  /\ poolThreads' = [poolThreads EXCEPT ![pool[w]] =
                       IF IsImmediate(t) THEN @ - 1 ELSE @]
  /\ pc' = [pc EXCEPT ![w] = "exec"]

\* The head of the loop: the task handed over, else the oldest queued one, else
\* wait; after shutdown there is no wait and the worker leaves.
RunHanded(w) ==
  /\ Alive /\ pc[w] = "run" /\ task[w] # None
  /\ Begin(w, task[w])
  /\ UNCHANGED <<totalThreads, invokerIdle, poolIdle, queue, pool, signalled,
                 mainVars, lifeVars, status>>

RunQueued(w) ==
  /\ Alive /\ pc[w] = "run" /\ task[w] = None
  /\ queue[pool[w]] # <<>>
  /\ Begin(w, Head(queue[pool[w]]))
  /\ Dequeue(pool[w])
  /\ UNCHANGED <<totalThreads, invokerIdle, poolIdle, pool, signalled,
                 mainVars, lifeVars, status>>

RunIdle(w) ==
  /\ Alive /\ pc[w] = "run" /\ task[w] = None
  /\ queue[pool[w]] = <<>>
  /\ \/ /\ keepWorking
        /\ pc' = [pc EXCEPT ![w] = "runwait"]
        /\ poolIdle' = [poolIdle EXCEPT ![pool[w]] = @ \cup {w}]
     \/ /\ ~keepWorking
        /\ pc' = [pc EXCEPT ![w] = "leave"]
        /\ UNCHANGED poolIdle
  /\ UNCHANGED <<totalThreads, invokerIdle, poolThreads, queue, pool, task,
                 immediate, signalled, mainVars, lifeVars, status>>

\* Back from timedwait() in real_run().
LeaveRunWait(w) ==
  /\ Alive /\ pc[w] = "runwait"
  /\ \/ /\ task[w] # None
        /\ Begin(w, task[w])
        /\ UNCHANGED poolIdle
     \/ /\ task[w] = None
        /\ pc' = [pc EXCEPT ![w] = "leave"]
        /\ poolIdle' = [poolIdle EXCEPT ![pool[w]] = @ \ {w}]
        /\ UNCHANGED <<task, immediate, poolThreads>>
  /\ signalled' = signalled \ {w}
  /\ UNCHANGED <<totalThreads, invokerIdle, queue, pool, mainVars, lifeVars,
                 status>>

RunWake(w) == w \in signalled /\ LeaveRunWait(w)

RunTimeout(w) == w \notin signalled /\ LeaveRunWait(w)

StaysInPool_Always(n, p) == TRUE

StaysInPool(n, p) == n <= PoolMax[p]

\* execute() has returned; the second critical section.
Executed(w) ==
  LET p == pool[w]
      n == IF immediate[w] THEN poolThreads[p] + 1 ELSE poolThreads[p] IN
  /\ Alive /\ pc[w] = "exec"
  /\ status' = [status EXCEPT ![task[w]] = "done"]
  /\ task' = [task EXCEPT ![w] = None]
  /\ poolThreads' = [poolThreads EXCEPT ![p] = n]
  /\ pc' = [pc EXCEPT ![w] = IF StaysInPool(n, p) THEN "run" ELSE "leave"]
  /\ UNCHANGED <<totalThreads, invokerIdle, poolIdle, queue, pool, immediate,
                 signalled, mainVars, lifeVars>>

\* The critical section after the loop, a separate one.
Leave(w) ==
  /\ Alive /\ pc[w] = "leave"
  /\ poolThreads' = [poolThreads EXCEPT ![pool[w]] = @ - 1]
  /\ pc' = [pc EXCEPT ![w] = "release"]
  /\ UNCHANGED <<totalThreads, invokerIdle, poolIdle, queue, pool, task,
                 immediate, signalled, mainVars, lifeVars, status>>

\* mid_run() after workerRun(): the worker goes back to the invoker.
Release(w) ==
  /\ Alive /\ pc[w] = "release"
  /\ pool' = [pool EXCEPT ![w] = None]
  /\ pc' = [pc EXCEPT ![w] = "mid"]
  /\ UNCHANGED <<totalThreads, invokerIdle, poolVars, task, immediate,
                 signalled, mainVars, lifeVars, status>>

-----------------------------------------------------------------------------
(* The dedicated queue: insert() and perform(), called by the main thread *)

WakeMain_Lost == UNCHANGED mainPc

\* A signal reaches the main thread only if it waits.
WakeMain == mainPc' = IF mainPc = "wait" THEN "woken" ELSE mainPc

InsertDedicated(t) ==
  /\ MayInsert(t) /\ TaskCat[t] = "DedicatedThread"
  /\ dedicated' = Append(dedicated, t)
  /\ WakeMain
  /\ Accept(t)
  /\ UNCHANGED <<totalThreads, invokerIdle, poolVars, workerVars, mainTask,
                 mainTimed, mainGo, lifeVars>>

\* work_pending()
WorkPending == dedicated # <<>>

\* perform() is entered from ORB::run(), run_timeout() or perform_work().
PerformStart(timed) ==
  /\ dtor = "none" /\ mainPc = "out"
  /\ WorkerStart
  /\ mainPc' = "check"
  /\ mainTimed' = timed
  /\ mainGo' = TRUE
  /\ UNCHANGED <<invokerIdle, poolVars, workerVars, dedicated, mainTask,
                 lifeVars, status>>

MainTake ==
  /\ mainPc' = "exec"
  /\ mainTask' = Head(dedicated)
  /\ dedicated' = Tail(dedicated)

\* The critical section of the loop, up to a task, the end or a wait.
PerformCheck ==
  /\ Alive /\ mainPc \in {"check", "woken"}
  /\ \/ WorkPending /\ MainTake /\ UNCHANGED mainGo
     \/ /\ ~WorkPending /\ ~keepWorking
        /\ mainPc' = "leaving" /\ mainGo' = FALSE
        /\ UNCHANGED <<mainTask, dedicated>>
     \/ /\ ~WorkPending /\ keepWorking
        /\ mainPc' = "wait"
        /\ UNCHANGED <<mainTask, dedicated, mainGo>>
  /\ UNCHANGED <<totalThreads, invokerIdle, poolVars, workerVars, mainTimed,
                 lifeVars, status>>

\* The deadline passes while the thread waits or is being woken; a task found
\* then is still executed, and is the last one.
PerformTimeout ==
  /\ Alive /\ mainPc \in {"wait", "woken"} /\ mainTimed
  /\ mainGo' = FALSE
  /\ \/ WorkPending /\ MainTake
     \/ /\ ~WorkPending
        /\ mainPc' = "leaving"
        /\ UNCHANGED <<mainTask, dedicated>>
  /\ UNCHANGED <<totalThreads, invokerIdle, poolVars, workerVars, mainTimed,
                 lifeVars, status>>

PerformExecuted ==
  /\ Alive /\ mainPc = "exec"
  /\ status' = [status EXCEPT ![mainTask] = "done"]
  /\ mainTask' = None
  /\ mainPc' = IF mainGo THEN "check" ELSE "leaving"
  /\ UNCHANGED <<totalThreads, invokerIdle, poolVars, workerVars, dedicated,
                 mainTimed, mainGo, lifeVars>>

PerformEnd ==
  /\ Alive /\ mainPc = "leaving"
  /\ WorkerStop
  /\ mainPc' = "out"
  /\ UNCHANGED <<invokerIdle, poolVars, workerVars, dedicated, mainTask,
                 mainTimed, mainGo, lifeVars, status>>

-----------------------------------------------------------------------------
(* shutdown() and the destructor *)

\* pd_keep_working is cleared in one critical section ...
ShutdownFlag ==
  /\ dtor = "none" /\ shut = "no"
  /\ keepWorking' = FALSE
  /\ shut' = "flagged"
  /\ UNCHANGED <<totalThreads, invokerIdle, poolVars, workerVars, mainVars,
                 dtor, status>>

\* ... and the main thread is woken in another.  Idle workers are not.
ShutdownWake ==
  /\ dtor = "none" /\ shut = "flagged"
  /\ shut' = "done"
  /\ WakeMain
  /\ UNCHANGED <<totalThreads, invokerIdle, poolVars, workerVars, dedicated,
                 mainTask, mainTimed, mainGo, keepWorking, dtor, status>>

\* ORB::destroy() shuts down first.  stop() signals every idle worker.
DtorStart ==
  /\ dtor = "none" /\ shut = "done"
  /\ keepWorking' = FALSE
  /\ Signal(invokerIdle \cup UNION {poolIdle[p] : p \in Pools})
  /\ dtor' = IF AllStopped THEN "freed" ELSE "waiting"
  /\ UNCHANGED <<totalThreads, invokerIdle, poolVars, pc, pool, task, immediate,
                 mainVars, shut, status>>

\* The last thread has broadcast pd_idle_cond: the pools are deleted.
DtorFinish ==
  /\ dtor = "waiting" /\ AllStopped
  /\ dtor' = "freed"
  /\ UNCHANGED <<totalThreads, invokerIdle, poolVars, workerVars, mainVars,
                 keepWorking, shut, status>>

\* The deadline of the destructor passes: it returns and leaves the pools.
DtorTimeout ==
  /\ dtor = "waiting"
  /\ dtor' = "leaked"
  /\ UNCHANGED <<totalThreads, invokerIdle, poolVars, workerVars, mainVars,
                 keepWorking, shut, status>>

\* Nothing runs on a deleted invoker.
Deleted == ~Alive /\ UNCHANGED vars

-----------------------------------------------------------------------------
Insert(t) ==
  \/ InsertOnPoolIdle(t)
  \/ InsertOnInvokerIdle(t)
  \/ InsertOnNewThread(t)
  \/ InsertWithoutThread(t)
  \/ InsertQueued(t)
  \/ InsertDedicated(t)

\* The steps a worker takes without waiting for a deadline.
WorkerStep(w) ==
  \/ MidRun(w)
  \/ MidWake(w)
  \/ Exit(w)
  \/ RunHanded(w)
  \/ RunQueued(w)
  \/ RunIdle(w)
  \/ RunWake(w)
  \/ Executed(w)
  \/ Leave(w)
  \/ Release(w)

MainStep == PerformCheck \/ PerformExecuted \/ PerformEnd

Next ==
  \/ \E t \in Tasks : Insert(t)
  \/ \E w \in Workers : WorkerStep(w) \/ MidTimeout(w) \/ RunTimeout(w)
  \/ \E timed \in BOOLEAN : PerformStart(timed)
  \/ MainStep
  \/ PerformTimeout
  \/ ShutdownFlag
  \/ ShutdownWake
  \/ DtorStart
  \/ DtorFinish
  \/ DtorTimeout
  \/ Deleted

\* Every runnable thread runs, every execute() returns, and a shutdown() or a
\* destructor under way continues.  No deadline is assumed ever to pass, and no
\* caller to come.
Fairness ==
  /\ \A w \in Workers : WF_vars(WorkerStep(w))
  /\ WF_vars(MainStep)
  /\ WF_vars(ShutdownWake)
  /\ WF_vars(DtorFinish)

Spec == Init /\ [][Next]_vars

FairSpec == Spec /\ Fairness

-----------------------------------------------------------------------------
(* Properties *)

\* A worker counted in pd_pool_threads: lent to the pool, not yet past the
\* final decrement of real_run() and not executing an ImmediateDispatch task.
Counted(w, p) ==
  /\ pool[w] = p
  /\ pc[w] \in {"mid", "midwait", "run", "runwait", "exec", "leave"}
  /\ ~(pc[w] = "exec" /\ immediate[w])

\* pd_pool_threads is exactly the number of counted workers, whatever the
\* order of the decrements and increments in insert() and real_run().  Were it
\* to drift, the pool would refuse threads below its limit or pass the limit.
PoolThreadsExact ==
  \A p \in Pools :
    poolThreads[p] = Cardinality({w \in Workers : Counted(w, p)})

\* A worker committed to AnyTime work: counted, holding or open to an AnyTime
\* task, and not on its way out of real_run().
OnAnyTime(w, p) ==
  /\ Counted(w, p)
  /\ pc[w] # "leave"
  /\ (task[w] # None => ~IsImmediate(task[w]))

\* The limit maxServerThreadPoolSize (maxClientThreadPoolSize) holds: no more
\* workers serve AnyTime tasks of a pool than pd_max, although ImmediateDispatch
\* tasks lift pd_pool_threads above it and workers come back from them.
AnyTimeWithinLimit ==
  \A p \in Pools :
    Cardinality({w \in Workers : OnAnyTime(w, p)}) <= PoolMax[p]

\* The idle lists hold exactly the waiting workers that have been given nothing,
\* so that the assertions of assign(), handle(), addIdle() and remIdle() hold
\* and no worker handed a task is handed another.
IdleListsExact ==
  /\ \A w \in Workers :
       w \in invokerIdle <=> pc[w] = "midwait" /\ pool[w] = None
  /\ \A w \in Workers, p \in Pools :
       w \in poolIdle[p] <=> pc[w] = "runwait" /\ pool[w] = p /\ task[w] = None

\* A worker never waits in a pool that has queued tasks.
NoIdleWhileQueued == \A p \in Pools : queue[p] # <<>> => poolIdle[p] = {}

InQueue(t, q) == \E i \in DOMAIN q : q[i] = t

\* An accepted task is in one place only: once in one queue, or held by one
\* thread.  A task that is new, refused or done is nowhere, so no task is
\* executed twice and none is executed after its insert() failed.
TaskInOnePlace ==
  \A t \in Tasks :
    LET holders == {w \in Workers : task[w] = t}
        slots == UNION {{p} \X {i \in DOMAIN queue[p] : queue[p][i] = t} :
                          p \in Pools}
        main == {i \in DOMAIN dedicated : dedicated[i] = t}
        n == Cardinality(holders) + Cardinality(slots) + Cardinality(main)
               + (IF mainTask = t THEN 1 ELSE 0)
    IN n = IF status[t] = "accepted" THEN 1 ELSE 0

Threads ==
  Cardinality({w \in Workers : pc[w] # "none"})
    + (IF mainPc = "out" THEN 0 ELSE 1)

\* pd_total_threads never falls below the number of threads inside the invoker,
\* so that the destructor cannot delete the pools under a running thread.
TotalCoversThreads == totalThreads >= Threads

\* When the destructor deletes the pools no thread is left inside the invoker.
FreedWhenQuiet == dtor = "freed" => Threads = 0

\* A task handed to a worker, as every accepted ImmediateDispatch task is, gets
\* executed without any idle timeout: no signal of insert() is lost.
HandedExecuted ==
  \A t \in {u \in Tasks : TaskCat[u] # "DedicatedThread"} :
    (\E w \in Workers : task[w] = t) ~> (status[t] = "done" \/ ~Alive)

\* The destructor does not depend on idle timeouts: stop() reaches every idle
\* worker, so all workers exit once it has started.
DestructorDrains ==
  (dtor = "waiting") ~> ((\A w \in Workers : pc[w] = "none") \/ ~Alive)

\* A dedicated task is executed while the main thread is in an untimed
\* perform(): no signal is lost between insert() and perform(). After shutdown()
\* the main thread leaves perform().
MainServed ==
  /\ \A t \in {u \in Tasks : TaskCat[u] = "DedicatedThread"} :
       (/\ InQueue(t, dedicated)
        /\ mainPc \in {"check", "wait", "woken", "exec"} /\ ~mainTimed)
         ~> (status[t] = "done" \/ ~Alive)
  /\ (shut = "done") ~> (mainPc = "out" \/ ~Alive)

\* Every accepted AnyTime task is executed, as omniAsyncInvoker.h says.  The
\* code does not do this: a worker that leaves a pool is still counted between
\* its last look at the queue and Leave, and a task inserted then is queued for
\* no worker.
AnyTimeExecuted ==
  \A t \in Tasks :
    (status[t] = "accepted" /\ TaskCat[t] = "AnyTime")
      ~> (status[t] = "done" \/ ~keepWorking)

-----------------------------------------------------------------------------
(* The invoker implements TaskService *)

Running(t) ==
  \/ \E w \in Workers : pc[w] = "exec" /\ task[w] = t
  \/ mainPc = "exec" /\ mainTask = t

TaskState ==
  [t \in Tasks |->
     IF status[t] # "accepted" THEN status[t]
     ELSE IF Running(t) THEN "running" ELSE "waiting"]

Service == INSTANCE TaskService WITH state <- TaskState, line <- dedicated

\* Each step of the invoker is a step of the service or none: tasks run once,
\* within the limits, and are refused only if ImmediateDispatch.
ImplementsTaskService == Service!Spec

=============================================================================
