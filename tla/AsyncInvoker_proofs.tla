------------------------- MODULE AsyncInvoker_proofs -------------------------
(***************************************************************************)
(* Proofs about AsyncInvoker, for any numbers of threads, pools and tasks. *)
(*                                                                         *)
(* Inv1 says where each thread is and what it holds, and that the idle     *)
(* lists agree with it.  Inv2 adds the counts.                             *)
(***************************************************************************)
EXTENDS AsyncInvoker, FiniteSetTheorems, TLAPS

\* What the control locations of the threads say about their variables.
Shape ==
  /\ \A w \in Workers :
       /\ pc[w] \in {"none", "exit"} => pool[w] = None /\ task[w] = None
       /\ pc[w] \in {"mid", "midwait"} => (pool[w] = None <=> task[w] = None)
       /\ pc[w] \in {"run", "runwait", "exec", "leave", "release"}
            => pool[w] # None
       /\ pc[w] \in {"leave", "release"} => task[w] = None
       /\ pc[w] = "exec" =>
            task[w] # None /\ immediate[w] = IsImmediate(task[w])
  /\ mainPc = "exec" => mainTask # None

Inv1 == StateTypes /\ totalThreads \in Int /\ Shape /\ IdleListsExact

-----------------------------------------------------------------------------
(* Inv1 holds initially and is preserved by every action. *)

LEMMA Inv1Init == Init => Inv1
<1> SUFFICES ASSUME Init PROVE Inv1
  OBVIOUS
<1> USE ConstantsAssumption
<1>1. PoolTypes
  <2>1. queue \in [Pools -> Seq(Tasks)]
    BY <<>> \in Seq(Tasks) DEF Init
  <2> QED BY <2>1 DEF Init, PoolTypes
<1>2. WorkerTypes
  BY DEF Init, WorkerTypes
<1>3. MainTypes /\ LifeTypes /\ totalThreads \in Int
  <2>1. MainTypes
    BY <<>> \in Seq(Tasks) DEF Init, MainTypes
  <2>2. shut \in {"no", "flagged", "done"} /\ keepWorking \in BOOLEAN
    BY DEF Init
  <2>3. dtor \in {"none", "waiting", "freed", "leaked"}
    BY DEF Init
  <2>4. status \in [Tasks -> {"new", "accepted", "refused", "done"}]
    BY DEF Init
  <2> QED BY <2>1, <2>2, <2>3, <2>4 DEF Init, LifeTypes
<1>4. Shape
  BY DEF Init, Shape
<1>5. IdleListsExact
  BY DEF Init, IdleListsExact
<1> QED BY <1>1, <1>2, <1>3, <1>4, <1>5 DEF Inv1, StateTypes

LEMMA Inv1InsertOnPoolIdle ==
  ASSUME Inv1, NEW t \in Tasks, InsertOnPoolIdle(t)
  PROVE  Inv1'
<1> USE ConstantsAssumption DEF Inv1, StateTypes
<1>1. PICK w \in poolIdle[TaskPool[t]] :
        /\ poolIdle' = [poolIdle EXCEPT ![TaskPool[t]] = @ \ {w}]
        /\ task' = [task EXCEPT ![w] = t]
        /\ Signal({w})
  BY DEF InsertOnPoolIdle
<1>2. w \in Workers /\ pc[w] = "runwait" /\ pool[w] = TaskPool[t]
  BY DEF PoolTypes, IdleListsExact
<1>3. PoolTypes'
  BY <1>1, <1>2 DEF PoolTypes, WorkerTypes, Shape, InsertOnPoolIdle, Signal, Accept, mainVars, lifeVars
<1>4. WorkerTypes'
  BY <1>1, <1>2 DEF PoolTypes, WorkerTypes, Shape, InsertOnPoolIdle, Signal, Accept, mainVars, lifeVars
<1>5. MainTypes' /\ LifeTypes' /\ totalThreads' \in Int
  BY <1>1, <1>2 DEF MainTypes, LifeTypes, InsertOnPoolIdle, Signal, Accept, mainVars, lifeVars
<1>6. Shape'
  BY <1>1, <1>2 DEF PoolTypes, WorkerTypes, Shape, InsertOnPoolIdle, Signal, Accept, mainVars, lifeVars
<1>7. IdleListsExact'
  BY <1>1, <1>2 DEF PoolTypes, WorkerTypes, Shape, IdleListsExact, InsertOnPoolIdle, Signal, Accept, mainVars, lifeVars
<1> QED BY <1>3, <1>4, <1>5, <1>6, <1>7

LEMMA Inv1InsertOnInvokerIdle ==
  ASSUME Inv1, NEW t \in Tasks, InsertOnInvokerIdle(t)
  PROVE  Inv1'
<1> USE ConstantsAssumption DEF Inv1, StateTypes
<1>1. PICK w \in invokerIdle :
        /\ RemIdle(w)
        /\ pool' = [pool EXCEPT ![w] = TaskPool[t]]
        /\ task' = [task EXCEPT ![w] = t]
        /\ Signal({w})
  BY DEF InsertOnInvokerIdle
<1>2. w \in Workers /\ pc[w] = "midwait" /\ pool[w] = None
  BY DEF PoolTypes, IdleListsExact
<1>3. PoolTypes'
  BY <1>1, <1>2 DEF PoolTypes, WorkerTypes, Shape, InsertOnInvokerIdle, RemIdle, Signal, Accept, mainVars, lifeVars
<1>4. WorkerTypes'
  BY <1>1, <1>2 DEF PoolTypes, WorkerTypes, Shape, InsertOnInvokerIdle, RemIdle, Signal, Accept, mainVars, lifeVars
<1>5. MainTypes' /\ LifeTypes' /\ totalThreads' \in Int
  BY <1>1, <1>2 DEF MainTypes, LifeTypes, InsertOnInvokerIdle, RemIdle, Signal, Accept, mainVars, lifeVars
<1>6. Shape'
  BY <1>1, <1>2 DEF PoolTypes, WorkerTypes, Shape, InsertOnInvokerIdle, RemIdle, Signal, Accept, mainVars, lifeVars
<1>7. IdleListsExact'
  BY <1>1, <1>2 DEF PoolTypes, WorkerTypes, Shape, IdleListsExact, InsertOnInvokerIdle, RemIdle, Signal, Accept, mainVars, lifeVars
<1> QED BY <1>3, <1>4, <1>5, <1>6, <1>7

LEMMA Inv1InsertOnNewThread ==
  ASSUME Inv1, NEW t \in Tasks, InsertOnNewThread(t)
  PROVE  Inv1'
<1> USE ConstantsAssumption DEF Inv1, StateTypes
<1>1. PICK w \in Unborn :
        /\ pc' = [pc EXCEPT ![w] = "mid"]
        /\ pool' = [pool EXCEPT ![w] = TaskPool[t]]
        /\ task' = [task EXCEPT ![w] = t]
  BY DEF InsertOnNewThread
<1>2. w \in Workers /\ pc[w] = "none"
  BY DEF Unborn
<1>3. PoolTypes'
  BY <1>1, <1>2 DEF PoolTypes, WorkerTypes, Shape, InsertOnNewThread, WorkerStart, Accept, mainVars, lifeVars
<1>4. WorkerTypes'
  BY <1>1, <1>2 DEF PoolTypes, WorkerTypes, Shape, InsertOnNewThread, WorkerStart, Accept, mainVars, lifeVars
<1>5. MainTypes' /\ LifeTypes' /\ totalThreads' \in Int
  BY <1>1, <1>2 DEF MainTypes, LifeTypes, InsertOnNewThread, WorkerStart, Accept, mainVars, lifeVars
<1>6. Shape'
  BY <1>1, <1>2 DEF PoolTypes, WorkerTypes, Shape, InsertOnNewThread, WorkerStart, Accept, mainVars, lifeVars
<1>7. IdleListsExact'
  BY <1>1, <1>2 DEF PoolTypes, WorkerTypes, Shape, IdleListsExact, InsertOnNewThread, WorkerStart, Accept, mainVars, lifeVars
<1> QED BY <1>3, <1>4, <1>5, <1>6, <1>7

LEMMA Inv1InsertWithoutThreadRefused ==
  ASSUME Inv1, NEW t \in Tasks, InsertWithoutThread(t), IsImmediate(t)
  PROVE  Inv1'
<1> USE ConstantsAssumption DEF Inv1, StateTypes
<1>1. /\ status' = [status EXCEPT ![t] = "refused"]
      /\ UNCHANGED <<invokerIdle, poolVars, workerVars, mainVars, lifeVars>>
  BY DEF InsertWithoutThread, Refusable, Accept, poolVars
<1>2. totalThreads' = totalThreads + 1
  BY DEF InsertWithoutThread, WorkerStart
<1>3. PoolTypes'
  BY <1>1, <1>2 DEF PoolTypes, WorkerTypes, Shape, poolVars, workerVars, mainVars, lifeVars
<1>4. WorkerTypes'
  BY <1>1, <1>2 DEF PoolTypes, WorkerTypes, Shape, poolVars, workerVars, mainVars, lifeVars
<1>5. MainTypes' /\ LifeTypes' /\ totalThreads' \in Int
  BY <1>1, <1>2 DEF MainTypes, LifeTypes, poolVars, workerVars, mainVars, lifeVars
<1>6. Shape'
  BY <1>1, <1>2 DEF PoolTypes, WorkerTypes, Shape, poolVars, workerVars, mainVars, lifeVars
<1>7. IdleListsExact'
  BY <1>1, <1>2 DEF PoolTypes, WorkerTypes, Shape, IdleListsExact, poolVars, workerVars, mainVars, lifeVars
<1> QED BY <1>3, <1>4, <1>5, <1>6, <1>7

LEMMA Inv1InsertWithoutThreadQueued ==
  ASSUME Inv1, NEW t \in Tasks, InsertWithoutThread(t), ~IsImmediate(t)
  PROVE  Inv1'
<1> USE ConstantsAssumption DEF Inv1, StateTypes
<1>1. /\ queue' = [queue EXCEPT ![TaskPool[t]] = Append(@, t)]
      /\ status' = [status EXCEPT ![t] = "accepted"]
      /\ totalThreads' = totalThreads + 1
      /\ UNCHANGED <<invokerIdle, poolIdle, poolThreads, workerVars, mainVars,
                     lifeVars>>
  BY DEF InsertWithoutThread, Refusable, Accept, WorkerStart
<1>2. TaskPool[t] \in Pools /\ Append(queue[TaskPool[t]], t) \in Seq(Tasks)
  BY DEF PoolTypes
<1>3. PoolTypes'
  BY <1>1, <1>2 DEF PoolTypes, WorkerTypes, Shape, workerVars, mainVars, lifeVars
<1>4. WorkerTypes'
  BY <1>1, <1>2 DEF PoolTypes, WorkerTypes, Shape, workerVars, mainVars, lifeVars
<1>5. MainTypes' /\ LifeTypes' /\ totalThreads' \in Int
  BY <1>1, <1>2 DEF MainTypes, LifeTypes, workerVars, mainVars, lifeVars
<1>6. Shape'
  BY <1>1, <1>2 DEF PoolTypes, WorkerTypes, Shape, workerVars, mainVars, lifeVars
<1>7. IdleListsExact'
  BY <1>1, <1>2 DEF PoolTypes, WorkerTypes, Shape, IdleListsExact, workerVars, mainVars, lifeVars
<1> QED BY <1>3, <1>4, <1>5, <1>6, <1>7

LEMMA Inv1InsertQueued ==
  ASSUME Inv1, NEW t \in Tasks, InsertQueued(t)
  PROVE  Inv1'
<1> USE ConstantsAssumption DEF Inv1, StateTypes
<1>3. PoolTypes'
  BY DEF PoolTypes, WorkerTypes, Shape, InsertQueued, Accept, workerVars, mainVars, lifeVars
<1>4. WorkerTypes'
  BY DEF PoolTypes, WorkerTypes, Shape, InsertQueued, Accept, workerVars, mainVars, lifeVars
<1>5. MainTypes' /\ LifeTypes' /\ totalThreads' \in Int
  BY DEF MainTypes, LifeTypes, InsertQueued, Accept, workerVars, mainVars, lifeVars
<1>6. Shape'
  BY DEF PoolTypes, WorkerTypes, Shape, InsertQueued, Accept, workerVars, mainVars, lifeVars
<1>7. IdleListsExact'
  BY DEF PoolTypes, WorkerTypes, Shape, IdleListsExact, InsertQueued, Accept, workerVars, mainVars, lifeVars
<1> QED BY <1>3, <1>4, <1>5, <1>6, <1>7

LEMMA Inv1InsertDedicated ==
  ASSUME Inv1, NEW t \in Tasks, InsertDedicated(t)
  PROVE  Inv1'
<1> USE ConstantsAssumption DEF Inv1, StateTypes
<1>3. PoolTypes'
  BY DEF PoolTypes, WorkerTypes, Shape, InsertDedicated, WakeMain, Accept, poolVars, workerVars, lifeVars
<1>4. WorkerTypes'
  BY DEF PoolTypes, WorkerTypes, Shape, InsertDedicated, WakeMain, Accept, poolVars, workerVars, lifeVars
<1>5. MainTypes' /\ LifeTypes' /\ totalThreads' \in Int
  BY DEF MainTypes, LifeTypes, InsertDedicated, WakeMain, Accept, poolVars, workerVars, lifeVars
<1>6. Shape'
  BY DEF PoolTypes, WorkerTypes, Shape, InsertDedicated, WakeMain, Accept, poolVars, workerVars, lifeVars
<1>7. IdleListsExact'
  BY DEF PoolTypes, WorkerTypes, Shape, IdleListsExact, InsertDedicated, WakeMain, Accept, poolVars, workerVars, lifeVars
<1> QED BY <1>3, <1>4, <1>5, <1>6, <1>7

LEMMA Inv1MidRun ==
  ASSUME Inv1, NEW w \in Workers, MidRun(w)
  PROVE  Inv1'
<1> USE ConstantsAssumption DEF Inv1, StateTypes
<1>3. PoolTypes'
  BY DEF PoolTypes, WorkerTypes, Shape, MidRun, poolVars, mainVars, lifeVars
<1>4. WorkerTypes'
  BY DEF PoolTypes, WorkerTypes, Shape, MidRun, poolVars, mainVars, lifeVars
<1>5. MainTypes' /\ LifeTypes' /\ totalThreads' \in Int
  BY DEF MainTypes, LifeTypes, MidRun, poolVars, mainVars, lifeVars
<1>6. Shape'
  BY DEF PoolTypes, WorkerTypes, Shape, MidRun, poolVars, mainVars, lifeVars
<1>7. IdleListsExact'
  BY DEF PoolTypes, WorkerTypes, Shape, IdleListsExact, MidRun, poolVars, mainVars, lifeVars
<1> QED BY <1>3, <1>4, <1>5, <1>6, <1>7

LEMMA Inv1LeaveMidWait ==
  ASSUME Inv1, NEW w \in Workers, LeaveMidWait(w)
  PROVE  Inv1'
<1> USE ConstantsAssumption DEF Inv1, StateTypes
<1>3. PoolTypes'
  BY DEF PoolTypes, WorkerTypes, Shape, LeaveMidWait, RemIdle, poolVars, mainVars, lifeVars
<1>4. WorkerTypes'
  BY DEF PoolTypes, WorkerTypes, Shape, LeaveMidWait, RemIdle, poolVars, mainVars, lifeVars
<1>5. MainTypes' /\ LifeTypes' /\ totalThreads' \in Int
  BY DEF MainTypes, LifeTypes, LeaveMidWait, RemIdle, poolVars, mainVars, lifeVars
<1>6. Shape'
  BY DEF PoolTypes, WorkerTypes, Shape, LeaveMidWait, RemIdle, poolVars, mainVars, lifeVars
<1>7. IdleListsExact'
  BY DEF PoolTypes, WorkerTypes, Shape, IdleListsExact, LeaveMidWait, RemIdle, poolVars, mainVars, lifeVars
<1> QED BY <1>3, <1>4, <1>5, <1>6, <1>7

LEMMA Inv1Exit ==
  ASSUME Inv1, NEW w \in Workers, Exit(w)
  PROVE  Inv1'
<1> USE ConstantsAssumption DEF Inv1, StateTypes
<1>3. PoolTypes'
  BY DEF PoolTypes, WorkerTypes, Shape, Exit, WorkerStop, poolVars, mainVars, lifeVars
<1>4. WorkerTypes'
  BY DEF PoolTypes, WorkerTypes, Shape, Exit, WorkerStop, poolVars, mainVars, lifeVars
<1>5. MainTypes' /\ LifeTypes' /\ totalThreads' \in Int
  BY DEF MainTypes, LifeTypes, Exit, WorkerStop, poolVars, mainVars, lifeVars
<1>6. Shape'
  BY DEF PoolTypes, WorkerTypes, Shape, Exit, WorkerStop, poolVars, mainVars, lifeVars
<1>7. IdleListsExact'
  BY DEF PoolTypes, WorkerTypes, Shape, IdleListsExact, Exit, WorkerStop, poolVars, mainVars, lifeVars
<1> QED BY <1>3, <1>4, <1>5, <1>6, <1>7

LEMMA Inv1RunHanded ==
  ASSUME Inv1, NEW w \in Workers, RunHanded(w)
  PROVE  Inv1'
<1> USE ConstantsAssumption DEF Inv1, StateTypes
<1>3. PoolTypes'
  BY DEF PoolTypes, WorkerTypes, Shape, RunHanded, Begin, IsImmediate, mainVars, lifeVars
<1>4. WorkerTypes'
  BY DEF PoolTypes, WorkerTypes, Shape, RunHanded, Begin, IsImmediate, mainVars, lifeVars
<1>5. MainTypes' /\ LifeTypes' /\ totalThreads' \in Int
  BY DEF MainTypes, LifeTypes, RunHanded, Begin, IsImmediate, mainVars, lifeVars
<1>6. Shape'
  BY DEF PoolTypes, WorkerTypes, Shape, RunHanded, Begin, IsImmediate, mainVars, lifeVars
<1>7. IdleListsExact'
  BY DEF PoolTypes, WorkerTypes, Shape, IdleListsExact, RunHanded, Begin, IsImmediate, mainVars, lifeVars
<1> QED BY <1>3, <1>4, <1>5, <1>6, <1>7

LEMMA Inv1RunQueued ==
  ASSUME Inv1, NEW w \in Workers, RunQueued(w)
  PROVE  Inv1'
<1> USE ConstantsAssumption DEF Inv1, StateTypes
<1>1. pool[w] \in Pools /\ Head(queue[pool[w]]) \in Tasks
  BY DEF PoolTypes, WorkerTypes, Shape, RunQueued
<1>3. PoolTypes'
  BY <1>1 DEF PoolTypes, WorkerTypes, Shape, RunQueued, Begin, IsImmediate, Dequeue, mainVars, lifeVars
<1>4. WorkerTypes'
  BY <1>1 DEF PoolTypes, WorkerTypes, Shape, RunQueued, Begin, IsImmediate, Dequeue, mainVars, lifeVars
<1>5. MainTypes' /\ LifeTypes' /\ totalThreads' \in Int
  BY <1>1 DEF MainTypes, LifeTypes, RunQueued, Begin, IsImmediate, Dequeue, mainVars, lifeVars
<1>6. Shape'
  BY <1>1 DEF PoolTypes, WorkerTypes, Shape, RunQueued, Begin, IsImmediate, Dequeue, mainVars, lifeVars
<1>7. IdleListsExact'
  BY <1>1 DEF PoolTypes, WorkerTypes, Shape, IdleListsExact, RunQueued, Begin, IsImmediate, Dequeue, mainVars, lifeVars
<1> QED BY <1>3, <1>4, <1>5, <1>6, <1>7

LEMMA Inv1RunIdleWaits ==
  ASSUME Inv1, NEW w \in Workers, RunIdle(w), keepWorking
  PROVE  Inv1'
<1> USE ConstantsAssumption DEF Inv1, StateTypes
<1>1. pool[w] \in Pools /\ poolIdle[pool[w]] \cup {w} \in SUBSET Workers
  BY DEF WorkerTypes, PoolTypes, Shape, RunIdle
<1>2. /\ poolIdle' = [poolIdle EXCEPT ![pool[w]] = @ \cup {w}]
      /\ pc' = [pc EXCEPT ![w] = "runwait"]
      /\ pc[w] = "run" /\ task[w] = None
      /\ UNCHANGED <<invokerIdle, poolThreads, queue, pool, task, immediate,
                     signalled, mainPc, mainTask>>
  BY DEF RunIdle, mainVars
<1>3. PoolTypes'
  BY <1>1, <1>2 DEF PoolTypes, WorkerTypes, Shape
<1>4. WorkerTypes'
  BY <1>1, <1>2 DEF PoolTypes, WorkerTypes, Shape
<1>5. MainTypes' /\ LifeTypes' /\ totalThreads' \in Int
  BY <1>1, <1>2 DEF MainTypes, LifeTypes, RunIdle, mainVars, lifeVars
<1>6. Shape'
  BY <1>1, <1>2 DEF PoolTypes, WorkerTypes, Shape
<1>7. IdleListsExact'
  BY <1>1, <1>2 DEF PoolTypes, WorkerTypes, Shape, IdleListsExact
<1> QED BY <1>3, <1>4, <1>5, <1>6, <1>7

LEMMA Inv1RunIdleQuits ==
  ASSUME Inv1, NEW w \in Workers, RunIdle(w), ~keepWorking
  PROVE  Inv1'
<1> USE ConstantsAssumption DEF Inv1, StateTypes
<1>1. pool[w] \in Pools
  BY DEF WorkerTypes, Shape, RunIdle
<1>2. /\ pc' = [pc EXCEPT ![w] = "leave"]
      /\ pc[w] = "run" /\ task[w] = None
      /\ UNCHANGED <<invokerIdle, poolIdle, poolThreads, queue, pool, task,
                     immediate, signalled, mainPc, mainTask>>
  BY DEF RunIdle, mainVars
<1>3. PoolTypes'
  BY <1>1, <1>2 DEF PoolTypes, WorkerTypes, Shape
<1>4. WorkerTypes'
  BY <1>1, <1>2 DEF PoolTypes, WorkerTypes, Shape
<1>5. MainTypes' /\ LifeTypes' /\ totalThreads' \in Int
  BY <1>1, <1>2 DEF MainTypes, LifeTypes, RunIdle, mainVars, lifeVars
<1>6. Shape'
  BY <1>1, <1>2 DEF PoolTypes, WorkerTypes, Shape
<1>7. IdleListsExact'
  BY <1>1, <1>2 DEF PoolTypes, WorkerTypes, Shape, IdleListsExact
<1> QED BY <1>3, <1>4, <1>5, <1>6, <1>7

LEMMA Inv1LeaveRunWaitHanded ==
  ASSUME Inv1, NEW w \in Workers, LeaveRunWait(w), task[w] # None
  PROVE  Inv1'
<1> USE ConstantsAssumption DEF Inv1, StateTypes
<1>1. pool[w] \in Pools /\ task[w] \in Tasks
  BY DEF WorkerTypes, Shape, LeaveRunWait
<1>2. /\ Begin(w, task[w]) /\ pc[w] = "runwait"
      /\ signalled' = signalled \ {w}
      /\ UNCHANGED <<invokerIdle, poolIdle, queue, pool, mainPc, mainTask>>
  BY DEF LeaveRunWait, mainVars
<1>3. PoolTypes'
  BY <1>1, <1>2 DEF PoolTypes, WorkerTypes, Shape, Begin, IsImmediate
<1>4. WorkerTypes'
  BY <1>1, <1>2 DEF PoolTypes, WorkerTypes, Shape, Begin, IsImmediate
<1>5. MainTypes' /\ LifeTypes' /\ totalThreads' \in Int
  BY <1>1, <1>2 DEF MainTypes, LifeTypes, LeaveRunWait, mainVars, lifeVars
<1>6. Shape'
  BY <1>1, <1>2 DEF PoolTypes, WorkerTypes, Shape, Begin, IsImmediate
<1>7. IdleListsExact'
  BY <1>1, <1>2 DEF PoolTypes, WorkerTypes, Shape, IdleListsExact, Begin, IsImmediate
<1> QED BY <1>3, <1>4, <1>5, <1>6, <1>7

LEMMA Inv1LeaveRunWaitEmpty ==
  ASSUME Inv1, NEW w \in Workers, LeaveRunWait(w), task[w] = None
  PROVE  Inv1'
<1> USE ConstantsAssumption DEF Inv1, StateTypes
<1>1. pool[w] \in Pools /\ poolIdle[pool[w]] \ {w} \in SUBSET Workers
  BY DEF WorkerTypes, PoolTypes, Shape, LeaveRunWait
<1>2. /\ poolIdle' = [poolIdle EXCEPT ![pool[w]] = @ \ {w}]
      /\ pc' = [pc EXCEPT ![w] = "leave"]
      /\ pc[w] = "runwait"
      /\ signalled' = signalled \ {w}
      /\ UNCHANGED <<invokerIdle, poolThreads, queue, pool, task, immediate,
                     mainPc, mainTask>>
  BY DEF LeaveRunWait, mainVars
<1>3. PoolTypes'
  BY <1>1, <1>2 DEF PoolTypes, WorkerTypes, Shape
<1>4. WorkerTypes'
  BY <1>1, <1>2 DEF PoolTypes, WorkerTypes, Shape
<1>5. MainTypes' /\ LifeTypes' /\ totalThreads' \in Int
  BY <1>1, <1>2 DEF MainTypes, LifeTypes, LeaveRunWait, mainVars, lifeVars
<1>6. Shape'
  BY <1>1, <1>2 DEF PoolTypes, WorkerTypes, Shape
<1>7. IdleListsExact'
  BY <1>1, <1>2 DEF PoolTypes, WorkerTypes, Shape, IdleListsExact
<1> QED BY <1>3, <1>4, <1>5, <1>6, <1>7

LEMMA Inv1Executed ==
  ASSUME Inv1, NEW w \in Workers, Executed(w)
  PROVE  Inv1'
<1> USE ConstantsAssumption DEF Inv1, StateTypes
<1>3. PoolTypes'
  BY DEF PoolTypes, WorkerTypes, Shape, Executed, mainVars, lifeVars
<1>4. WorkerTypes'
  BY DEF PoolTypes, WorkerTypes, Shape, Executed, mainVars, lifeVars
<1>5. MainTypes' /\ LifeTypes' /\ totalThreads' \in Int
  BY DEF MainTypes, LifeTypes, WorkerTypes, Executed, mainVars, lifeVars
<1>6. Shape'
  BY DEF PoolTypes, WorkerTypes, Shape, Executed, mainVars, lifeVars
<1>7. IdleListsExact'
  BY DEF PoolTypes, WorkerTypes, Shape, IdleListsExact, Executed, mainVars, lifeVars
<1> QED BY <1>3, <1>4, <1>5, <1>6, <1>7

LEMMA Inv1Leave ==
  ASSUME Inv1, NEW w \in Workers, Leave(w)
  PROVE  Inv1'
<1> USE ConstantsAssumption DEF Inv1, StateTypes
<1>3. PoolTypes'
  BY DEF PoolTypes, WorkerTypes, Shape, Leave, mainVars, lifeVars
<1>4. WorkerTypes'
  BY DEF PoolTypes, WorkerTypes, Shape, Leave, mainVars, lifeVars
<1>5. MainTypes' /\ LifeTypes' /\ totalThreads' \in Int
  BY DEF MainTypes, LifeTypes, Leave, mainVars, lifeVars
<1>6. Shape'
  BY DEF PoolTypes, WorkerTypes, Shape, Leave, mainVars, lifeVars
<1>7. IdleListsExact'
  BY DEF PoolTypes, WorkerTypes, Shape, IdleListsExact, Leave, mainVars, lifeVars
<1> QED BY <1>3, <1>4, <1>5, <1>6, <1>7

LEMMA Inv1Release ==
  ASSUME Inv1, NEW w \in Workers, Release(w)
  PROVE  Inv1'
<1> USE ConstantsAssumption DEF Inv1, StateTypes
<1>3. PoolTypes'
  BY DEF PoolTypes, WorkerTypes, Shape, Release, poolVars, mainVars, lifeVars
<1>4. WorkerTypes'
  BY DEF PoolTypes, WorkerTypes, Shape, Release, poolVars, mainVars, lifeVars
<1>5. MainTypes' /\ LifeTypes' /\ totalThreads' \in Int
  BY DEF MainTypes, LifeTypes, Release, poolVars, mainVars, lifeVars
<1>6. Shape'
  BY DEF PoolTypes, WorkerTypes, Shape, Release, poolVars, mainVars, lifeVars
<1>7. IdleListsExact'
  BY DEF PoolTypes, WorkerTypes, Shape, IdleListsExact, Release, poolVars, mainVars, lifeVars
<1> QED BY <1>3, <1>4, <1>5, <1>6, <1>7

LEMMA Inv1PerformStart ==
  ASSUME Inv1, NEW timed \in BOOLEAN, PerformStart(timed)
  PROVE  Inv1'
<1> USE ConstantsAssumption DEF Inv1, StateTypes
<1>3. PoolTypes'
  BY DEF PoolTypes, WorkerTypes, Shape, PerformStart, WorkerStart, poolVars, workerVars, lifeVars
<1>4. WorkerTypes'
  BY DEF PoolTypes, WorkerTypes, Shape, PerformStart, WorkerStart, poolVars, workerVars, lifeVars
<1>5. MainTypes' /\ LifeTypes' /\ totalThreads' \in Int
  BY DEF MainTypes, LifeTypes, PerformStart, WorkerStart, poolVars, workerVars, lifeVars
<1>6. Shape'
  BY DEF PoolTypes, WorkerTypes, Shape, PerformStart, WorkerStart, poolVars, workerVars, lifeVars
<1>7. IdleListsExact'
  BY DEF PoolTypes, WorkerTypes, Shape, IdleListsExact, PerformStart, WorkerStart, poolVars, workerVars, lifeVars
<1> QED BY <1>3, <1>4, <1>5, <1>6, <1>7

LEMMA Inv1PerformCheck ==
  ASSUME Inv1, PerformCheck
  PROVE  Inv1'
<1> USE ConstantsAssumption DEF Inv1, StateTypes
<1>1. WorkPending => Head(dedicated) \in Tasks /\ Tail(dedicated) \in Seq(Tasks)
  BY DEF MainTypes, WorkPending
<1>3. PoolTypes'
  BY <1>1 DEF PoolTypes, WorkerTypes, Shape, PerformCheck, MainTake, poolVars, workerVars, lifeVars
<1>4. WorkerTypes'
  BY <1>1 DEF PoolTypes, WorkerTypes, Shape, PerformCheck, MainTake, poolVars, workerVars, lifeVars
<1>5. MainTypes' /\ LifeTypes' /\ totalThreads' \in Int
  BY <1>1 DEF MainTypes, LifeTypes, PerformCheck, MainTake, poolVars, workerVars, lifeVars
<1>6. Shape'
  BY <1>1 DEF PoolTypes, WorkerTypes, Shape, PerformCheck, MainTake, poolVars, workerVars, lifeVars
<1>7. IdleListsExact'
  BY <1>1 DEF PoolTypes, WorkerTypes, Shape, IdleListsExact, PerformCheck, MainTake, poolVars, workerVars, lifeVars
<1> QED BY <1>3, <1>4, <1>5, <1>6, <1>7

LEMMA Inv1PerformTimeout ==
  ASSUME Inv1, PerformTimeout
  PROVE  Inv1'
<1> USE ConstantsAssumption DEF Inv1, StateTypes
<1>1. WorkPending => Head(dedicated) \in Tasks /\ Tail(dedicated) \in Seq(Tasks)
  BY DEF MainTypes, WorkPending
<1>3. PoolTypes'
  BY <1>1 DEF PoolTypes, WorkerTypes, Shape, PerformTimeout, MainTake, poolVars, workerVars, lifeVars
<1>4. WorkerTypes'
  BY <1>1 DEF PoolTypes, WorkerTypes, Shape, PerformTimeout, MainTake, poolVars, workerVars, lifeVars
<1>5. MainTypes' /\ LifeTypes' /\ totalThreads' \in Int
  BY <1>1 DEF MainTypes, LifeTypes, PerformTimeout, MainTake, poolVars, workerVars, lifeVars
<1>6. Shape'
  BY <1>1 DEF PoolTypes, WorkerTypes, Shape, PerformTimeout, MainTake, poolVars, workerVars, lifeVars
<1>7. IdleListsExact'
  BY <1>1 DEF PoolTypes, WorkerTypes, Shape, IdleListsExact, PerformTimeout, MainTake, poolVars, workerVars, lifeVars
<1> QED BY <1>3, <1>4, <1>5, <1>6, <1>7

LEMMA Inv1PerformExecuted ==
  ASSUME Inv1, PerformExecuted
  PROVE  Inv1'
<1> USE ConstantsAssumption DEF Inv1, StateTypes
<1>3. PoolTypes'
  BY DEF PoolTypes, WorkerTypes, Shape, PerformExecuted, poolVars, workerVars, lifeVars
<1>4. WorkerTypes'
  BY DEF PoolTypes, WorkerTypes, Shape, PerformExecuted, poolVars, workerVars, lifeVars
<1>5. MainTypes' /\ LifeTypes' /\ totalThreads' \in Int
  BY DEF MainTypes, LifeTypes, WorkerTypes, PerformExecuted, poolVars, workerVars, lifeVars
<1>6. Shape'
  BY DEF PoolTypes, WorkerTypes, Shape, PerformExecuted, poolVars, workerVars, lifeVars
<1>7. IdleListsExact'
  BY DEF PoolTypes, WorkerTypes, Shape, IdleListsExact, PerformExecuted, poolVars, workerVars, lifeVars
<1> QED BY <1>3, <1>4, <1>5, <1>6, <1>7

LEMMA Inv1PerformEnd ==
  ASSUME Inv1, PerformEnd
  PROVE  Inv1'
<1> USE ConstantsAssumption DEF Inv1, StateTypes
<1>3. PoolTypes'
  BY DEF PoolTypes, WorkerTypes, Shape, PerformEnd, WorkerStop, poolVars, workerVars, lifeVars
<1>4. WorkerTypes'
  BY DEF PoolTypes, WorkerTypes, Shape, PerformEnd, WorkerStop, poolVars, workerVars, lifeVars
<1>5. MainTypes' /\ LifeTypes' /\ totalThreads' \in Int
  BY DEF MainTypes, LifeTypes, PerformEnd, WorkerStop, poolVars, workerVars, lifeVars
<1>6. Shape'
  BY DEF PoolTypes, WorkerTypes, Shape, PerformEnd, WorkerStop, poolVars, workerVars, lifeVars
<1>7. IdleListsExact'
  BY DEF PoolTypes, WorkerTypes, Shape, IdleListsExact, PerformEnd, WorkerStop, poolVars, workerVars, lifeVars
<1> QED BY <1>3, <1>4, <1>5, <1>6, <1>7

LEMMA Inv1ShutdownFlag ==
  ASSUME Inv1, ShutdownFlag
  PROVE  Inv1'
<1> USE ConstantsAssumption DEF Inv1, StateTypes
<1>3. PoolTypes'
  BY DEF PoolTypes, WorkerTypes, Shape, ShutdownFlag, poolVars, workerVars, mainVars
<1>4. WorkerTypes'
  BY DEF PoolTypes, WorkerTypes, Shape, ShutdownFlag, poolVars, workerVars, mainVars
<1>5. MainTypes' /\ LifeTypes' /\ totalThreads' \in Int
  BY DEF MainTypes, LifeTypes, ShutdownFlag, poolVars, workerVars, mainVars
<1>6. Shape'
  BY DEF PoolTypes, WorkerTypes, Shape, ShutdownFlag, poolVars, workerVars, mainVars
<1>7. IdleListsExact'
  BY DEF PoolTypes, WorkerTypes, Shape, IdleListsExact, ShutdownFlag, poolVars, workerVars, mainVars
<1> QED BY <1>3, <1>4, <1>5, <1>6, <1>7

LEMMA Inv1ShutdownWake ==
  ASSUME Inv1, ShutdownWake
  PROVE  Inv1'
<1> USE ConstantsAssumption DEF Inv1, StateTypes
<1>3. PoolTypes'
  BY DEF PoolTypes, WorkerTypes, Shape, ShutdownWake, WakeMain, poolVars, workerVars
<1>4. WorkerTypes'
  BY DEF PoolTypes, WorkerTypes, Shape, ShutdownWake, WakeMain, poolVars, workerVars
<1>5. MainTypes' /\ LifeTypes' /\ totalThreads' \in Int
  BY DEF MainTypes, LifeTypes, ShutdownWake, WakeMain, poolVars, workerVars
<1>6. Shape'
  BY DEF PoolTypes, WorkerTypes, Shape, ShutdownWake, WakeMain, poolVars, workerVars
<1>7. IdleListsExact'
  BY DEF PoolTypes, WorkerTypes, Shape, IdleListsExact, ShutdownWake, WakeMain, poolVars, workerVars
<1> QED BY <1>3, <1>4, <1>5, <1>6, <1>7

LEMMA Inv1DtorStart ==
  ASSUME Inv1, DtorStart
  PROVE  Inv1'
<1> USE ConstantsAssumption DEF Inv1, StateTypes
<1>3. PoolTypes'
  BY DEF PoolTypes, WorkerTypes, Shape, DtorStart, Signal, poolVars, mainVars
<1>4. WorkerTypes'
  BY DEF PoolTypes, WorkerTypes, Shape, DtorStart, Signal, poolVars, mainVars
<1>5. MainTypes' /\ LifeTypes' /\ totalThreads' \in Int
  BY DEF MainTypes, LifeTypes, DtorStart, Signal, poolVars, mainVars
<1>6. Shape'
  BY DEF PoolTypes, WorkerTypes, Shape, DtorStart, Signal, poolVars, mainVars
<1>7. IdleListsExact'
  BY DEF PoolTypes, WorkerTypes, Shape, IdleListsExact, DtorStart, Signal, poolVars, mainVars
<1> QED BY <1>3, <1>4, <1>5, <1>6, <1>7

LEMMA Inv1DtorFinish ==
  ASSUME Inv1, DtorFinish
  PROVE  Inv1'
<1> USE ConstantsAssumption DEF Inv1, StateTypes
<1>3. PoolTypes'
  BY DEF PoolTypes, WorkerTypes, Shape, DtorFinish, poolVars, workerVars, mainVars
<1>4. WorkerTypes'
  BY DEF PoolTypes, WorkerTypes, Shape, DtorFinish, poolVars, workerVars, mainVars
<1>5. MainTypes' /\ LifeTypes' /\ totalThreads' \in Int
  BY DEF MainTypes, LifeTypes, DtorFinish, poolVars, workerVars, mainVars
<1>6. Shape'
  BY DEF PoolTypes, WorkerTypes, Shape, DtorFinish, poolVars, workerVars, mainVars
<1>7. IdleListsExact'
  BY DEF PoolTypes, WorkerTypes, Shape, IdleListsExact, DtorFinish, poolVars, workerVars, mainVars
<1> QED BY <1>3, <1>4, <1>5, <1>6, <1>7

LEMMA Inv1DtorTimeout ==
  ASSUME Inv1, DtorTimeout
  PROVE  Inv1'
<1> USE ConstantsAssumption DEF Inv1, StateTypes
<1>3. PoolTypes'
  BY DEF PoolTypes, WorkerTypes, Shape, DtorTimeout, poolVars, workerVars, mainVars
<1>4. WorkerTypes'
  BY DEF PoolTypes, WorkerTypes, Shape, DtorTimeout, poolVars, workerVars, mainVars
<1>5. MainTypes' /\ LifeTypes' /\ totalThreads' \in Int
  BY DEF MainTypes, LifeTypes, DtorTimeout, poolVars, workerVars, mainVars
<1>6. Shape'
  BY DEF PoolTypes, WorkerTypes, Shape, DtorTimeout, poolVars, workerVars, mainVars
<1>7. IdleListsExact'
  BY DEF PoolTypes, WorkerTypes, Shape, IdleListsExact, DtorTimeout, poolVars, workerVars, mainVars
<1> QED BY <1>3, <1>4, <1>5, <1>6, <1>7

LEMMA Inv1Step == Inv1 /\ [Next]_vars => Inv1'
<1> SUFFICES ASSUME Inv1, [Next]_vars PROVE Inv1'
  OBVIOUS
<1>1. CASE UNCHANGED vars
  BY <1>1 DEF vars, poolVars, workerVars, mainVars, lifeVars, Inv1, StateTypes,
    PoolTypes, WorkerTypes, MainTypes, LifeTypes, Shape, IdleListsExact
<1>2. ASSUME NEW t \in Tasks, Insert(t) PROVE Inv1'
  BY <1>2, Inv1InsertOnPoolIdle, Inv1InsertOnInvokerIdle,
     Inv1InsertOnNewThread, Inv1InsertWithoutThreadRefused,
     Inv1InsertWithoutThreadQueued, Inv1InsertQueued, Inv1InsertDedicated
     DEF Insert
<1>3. ASSUME NEW w \in Workers, WorkerStep(w) \/ MidTimeout(w) \/ RunTimeout(w)
      PROVE  Inv1'
  <2>1. CASE LeaveMidWait(w)
    BY <2>1, Inv1LeaveMidWait
  <2>2. CASE LeaveRunWait(w)
    BY <2>2, Inv1LeaveRunWaitHanded, Inv1LeaveRunWaitEmpty
  <2>3. CASE RunIdle(w)
    BY <2>3, Inv1RunIdleWaits, Inv1RunIdleQuits
  <2> QED
    BY <1>3, <2>1, <2>2, <2>3, Inv1MidRun, Inv1Exit, Inv1RunHanded,
       Inv1RunQueued, Inv1Executed, Inv1Leave, Inv1Release
       DEF WorkerStep, MidWake, MidTimeout, RunWake, RunTimeout
<1>4. ASSUME NEW timed \in BOOLEAN, PerformStart(timed) PROVE Inv1'
  BY <1>4, Inv1PerformStart
<1>5. CASE MainStep \/ PerformTimeout
  BY <1>5, Inv1PerformCheck, Inv1PerformExecuted, Inv1PerformEnd,
     Inv1PerformTimeout DEF MainStep
<1>6. CASE ShutdownFlag \/ ShutdownWake \/ DtorStart \/ DtorFinish \/ DtorTimeout
  BY <1>6, Inv1ShutdownFlag, Inv1ShutdownWake, Inv1DtorStart, Inv1DtorFinish,
     Inv1DtorTimeout
<1> QED
  BY <1>1, <1>2, <1>3, <1>4, <1>5, <1>6 DEF Next, Deleted

THEOREM Inv1Always == Spec => []Inv1
  BY Inv1Init, Inv1Step, PTL DEF Spec

\* The idle lists are exactly the waiting workers that were given nothing.
THEOREM IdleLists == Spec => []IdleListsExact
<1>1. Inv1 => IdleListsExact
  BY DEF Inv1
<1> QED BY <1>1, Inv1Always, PTL

-----------------------------------------------------------------------------
(* Counting: how the counters follow one worker that moves. *)

CountedIn(p) == {w \in Workers : Counted(w, p)}
OnAnyTimeIn(p) == {w \in Workers : OnAnyTime(w, p)}
Live == {w \in Workers : pc[w] # "none"}

LEMMA Sizes ==
  ASSUME NEW S \in SUBSET Workers
  PROVE  /\ IsFiniteSet(S) /\ Cardinality(S) \in Nat
         /\ \A w \in Workers \ S : Cardinality(S \cup {w}) = Cardinality(S) + 1
         /\ \A w \in S : Cardinality(S \ {w}) = Cardinality(S) - 1
         /\ \A T \in SUBSET S : Cardinality(T) <= Cardinality(S)
<1>1. IsFiniteSet(S)
  BY ConstantsAssumption, FS_Subset DEF ConstantsAssumption
<1> QED BY <1>1, FS_CardinalityType, FS_AddElement, FS_RemoveElement, FS_Subset

LEMMA CountSame ==
  ASSUME PoolThreadsExact, UNCHANGED poolThreads,
         \A v \in Workers, p \in Pools : Counted(v, p)' <=> Counted(v, p)
  PROVE  PoolThreadsExact'
<1> SUFFICES ASSUME NEW p \in Pools
             PROVE  poolThreads'[p] = Cardinality(CountedIn(p)')
  BY DEF PoolThreadsExact, CountedIn
<1>1. CountedIn(p)' = CountedIn(p)
  BY DEF CountedIn
<1> QED BY <1>1 DEF PoolThreadsExact, CountedIn

LEMMA CountJoin ==
  ASSUME PoolThreadsExact, PoolTypes, NEW w \in Workers, NEW q \in Pools,
         poolThreads' = [poolThreads EXCEPT ![q] = @ + 1],
         \A v \in Workers \ {w}, p \in Pools : Counted(v, p)' <=> Counted(v, p),
         ~Counted(w, q), Counted(w, q)',
         \A p \in Pools \ {q} : Counted(w, p)' <=> Counted(w, p)
  PROVE  PoolThreadsExact'
<1> SUFFICES ASSUME NEW p \in Pools
             PROVE  poolThreads'[p] = Cardinality(CountedIn(p)')
  BY DEF PoolThreadsExact, CountedIn
<1>1. CASE p = q
  <2>1. CountedIn(p)' = CountedIn(p) \cup {w} /\ w \notin CountedIn(p)
    BY <1>1 DEF CountedIn
  <2>2. CountedIn(p) \in SUBSET Workers
    BY DEF CountedIn
  <2>3. Cardinality(CountedIn(p)') = Cardinality(CountedIn(p)) + 1
    BY <2>1, <2>2, Sizes
  <2> QED BY <1>1, <2>3 DEF PoolThreadsExact, CountedIn, PoolTypes
<1>2. CASE p # q
  <2>1. CountedIn(p)' = CountedIn(p)
    BY <1>2 DEF CountedIn
  <2> QED BY <1>2, <2>1 DEF PoolThreadsExact, CountedIn, PoolTypes
<1> QED BY <1>1, <1>2

LEMMA CountQuit ==
  ASSUME PoolThreadsExact, PoolTypes, NEW w \in Workers, NEW q \in Pools,
         poolThreads' = [poolThreads EXCEPT ![q] = @ - 1],
         \A v \in Workers \ {w}, p \in Pools : Counted(v, p)' <=> Counted(v, p),
         Counted(w, q), ~Counted(w, q)',
         \A p \in Pools \ {q} : Counted(w, p)' <=> Counted(w, p)
  PROVE  PoolThreadsExact'
<1> SUFFICES ASSUME NEW p \in Pools
             PROVE  poolThreads'[p] = Cardinality(CountedIn(p)')
  BY DEF PoolThreadsExact, CountedIn
<1>1. CASE p = q
  <2>1. CountedIn(p)' = CountedIn(p) \ {w} /\ w \in CountedIn(p)
    BY <1>1 DEF CountedIn
  <2>2. CountedIn(p) \in SUBSET Workers
    BY DEF CountedIn
  <2>3. Cardinality(CountedIn(p)') = Cardinality(CountedIn(p)) - 1
    BY <2>1, <2>2, Sizes
  <2> QED BY <1>1, <2>3 DEF PoolThreadsExact, CountedIn, PoolTypes
<1>2. CASE p # q
  <2>1. CountedIn(p)' = CountedIn(p)
    BY <1>2 DEF CountedIn
  <2> QED BY <1>2, <2>1 DEF PoolThreadsExact, CountedIn, PoolTypes
<1> QED BY <1>1, <1>2

\* No worker takes up AnyTime work.
LEMMA LimitSame ==
  ASSUME AnyTimeWithinLimit,
         \A v \in Workers, p \in Pools : OnAnyTime(v, p)' => OnAnyTime(v, p)
  PROVE  AnyTimeWithinLimit'
<1> SUFFICES ASSUME NEW p \in Pools
             PROVE  Cardinality(OnAnyTimeIn(p)') <= PoolMax[p]
  BY DEF AnyTimeWithinLimit, OnAnyTimeIn
<1>1. OnAnyTimeIn(p)' \in SUBSET OnAnyTimeIn(p) /\ OnAnyTimeIn(p) \in SUBSET Workers
  BY DEF OnAnyTimeIn
<1>2. /\ Cardinality(OnAnyTimeIn(p)') <= Cardinality(OnAnyTimeIn(p))
      /\ Cardinality(OnAnyTimeIn(p)) \in Nat
      /\ Cardinality(OnAnyTimeIn(p)') \in Nat
  BY <1>1, Sizes
<1>3. Cardinality(OnAnyTimeIn(p)) <= PoolMax[p] /\ PoolMax[p] \in Nat
  BY ConstantsAssumption DEF AnyTimeWithinLimit, OnAnyTimeIn, ConstantsAssumption
<1> QED BY <1>2, <1>3

\* Worker w may take up AnyTime work in q, where pd_pool_threads is then within
\* the limit.
LEMMA LimitJoin ==
  ASSUME AnyTimeWithinLimit, PoolThreadsExact', NEW w \in Workers, NEW q \in Pools,
         poolThreads'[q] <= PoolMax[q],
         \A v \in Workers, p \in Pools :
           OnAnyTime(v, p)' => OnAnyTime(v, p) \/ (v = w /\ p = q)
  PROVE  AnyTimeWithinLimit'
<1> SUFFICES ASSUME NEW p \in Pools
             PROVE  Cardinality(OnAnyTimeIn(p)') <= PoolMax[p]
  BY DEF AnyTimeWithinLimit, OnAnyTimeIn
<1>1. CASE p = q
  <2>1. /\ OnAnyTimeIn(p)' \in SUBSET (CountedIn(p)')
        /\ CountedIn(p)' \in SUBSET Workers
    BY DEF OnAnyTimeIn, CountedIn, OnAnyTime
  <2>2. /\ Cardinality(OnAnyTimeIn(p)') <= Cardinality(CountedIn(p)')
        /\ Cardinality(CountedIn(p)') \in Nat
        /\ Cardinality(OnAnyTimeIn(p)') \in Nat
    BY <2>1, Sizes
  <2>3. Cardinality(CountedIn(p)') = poolThreads'[q]
    BY <1>1 DEF PoolThreadsExact, CountedIn
  <2>4. PoolMax[p] \in Nat
    BY ConstantsAssumption DEF ConstantsAssumption
  <2> QED BY <1>1, <2>2, <2>3, <2>4
<1>2. CASE p # q
  <2>1. OnAnyTimeIn(p)' \in SUBSET OnAnyTimeIn(p) /\ OnAnyTimeIn(p) \in SUBSET Workers
    BY <1>2 DEF OnAnyTimeIn
  <2>2. /\ Cardinality(OnAnyTimeIn(p)') <= Cardinality(OnAnyTimeIn(p))
        /\ Cardinality(OnAnyTimeIn(p)) \in Nat
        /\ Cardinality(OnAnyTimeIn(p)') \in Nat
    BY <2>1, Sizes
  <2>3. Cardinality(OnAnyTimeIn(p)) <= PoolMax[p] /\ PoolMax[p] \in Nat
    BY ConstantsAssumption DEF AnyTimeWithinLimit, OnAnyTimeIn, ConstantsAssumption
  <2> QED BY <2>2, <2>3
<1> QED BY <1>1, <1>2

-----------------------------------------------------------------------------
(* The count of threads *)

MainIn == mainPc # "out"

LEMMA TotalSame ==
  ASSUME TotalCoversThreads, totalThreads \in Int, totalThreads' \in Int,
         totalThreads' >= totalThreads, Live' = Live, MainIn' <=> MainIn
  PROVE  TotalCoversThreads'
<1>1. Cardinality(Live) \in Nat /\ Cardinality(Live') = Cardinality(Live)
  BY Sizes DEF Live
<1> QED BY <1>1 DEF TotalCoversThreads, Threads, Live, MainIn

LEMMA TotalJoin ==
  ASSUME TotalCoversThreads, totalThreads \in Int, NEW w \in Workers,
         totalThreads' = totalThreads + 1, MainIn' <=> MainIn,
         w \notin Live, Live' = Live \cup {w}
  PROVE  TotalCoversThreads'
<1>1. Live \in SUBSET Workers
  BY DEF Live
<1>2. Cardinality(Live) \in Nat /\ Cardinality(Live') = Cardinality(Live) + 1
  BY <1>1, Sizes
<1> QED BY <1>2 DEF TotalCoversThreads, Threads, Live, MainIn

LEMMA TotalQuit ==
  ASSUME TotalCoversThreads, totalThreads \in Int, NEW w \in Workers,
         totalThreads' = totalThreads - 1, MainIn' <=> MainIn,
         w \in Live, Live' = Live \ {w}
  PROVE  TotalCoversThreads'
<1>1. Live \in SUBSET Workers
  BY DEF Live
<1>2. Cardinality(Live) \in Nat /\ Cardinality(Live') = Cardinality(Live) - 1
  BY <1>1, Sizes
<1> QED BY <1>2 DEF TotalCoversThreads, Threads, Live, MainIn

LEMMA ThreadsIsNat == Threads \in Nat
<1>1. Live \in SUBSET Workers
  BY DEF Live
<1>2. Cardinality(Live) \in Nat
  BY <1>1, Sizes
<1> QED BY <1>2 DEF Threads, Live

\* The counts, the limit and the deletion of the pools.
Inv2 ==
  /\ PoolThreadsExact
  /\ AnyTimeWithinLimit
  /\ NoIdleWhileQueued
  /\ TotalCoversThreads
  /\ FreedWhenQuiet

LEMMA Inv2Init == Init => Inv2
<1> SUFFICES ASSUME Init PROVE Inv2
  OBVIOUS
<1> USE ConstantsAssumption DEF ConstantsAssumption
<1>1. \A p \in Pools : CountedIn(p) = {} /\ OnAnyTimeIn(p) = {}
  BY DEF Init, CountedIn, OnAnyTimeIn, OnAnyTime, Counted
<1>2. Live = {}
  BY DEF Init, Live
<1>3. Cardinality({}) = 0
  BY FS_EmptySet
<1>4. PoolThreadsExact
  BY <1>1, <1>3 DEF Init, PoolThreadsExact, CountedIn
<1>5. AnyTimeWithinLimit
  <2>1. \A p \in Pools : 0 <= PoolMax[p]
    BY SMT
  <2> QED BY <1>1, <1>3, <2>1 DEF AnyTimeWithinLimit, OnAnyTimeIn
<1>6. Threads = 0 /\ totalThreads = 0
  <2>1. Cardinality({w \in Workers : pc[w] # "none"}) = 0
    BY <1>2, <1>3 DEF Live
  <2> QED BY <2>1 DEF Init, Threads
<1>7. TotalCoversThreads /\ FreedWhenQuiet
  BY <1>6 DEF TotalCoversThreads, FreedWhenQuiet
<1>8. NoIdleWhileQueued
  BY DEF Init, NoIdleWhileQueued
<1> QED BY <1>4, <1>5, <1>7, <1>8 DEF Inv2

LEMMA Inv2Stutter ==
  ASSUME Inv2, UNCHANGED vars
  PROVE  Inv2'
<1> USE DEF vars, poolVars, workerVars, mainVars, lifeVars
<1>1. PoolThreadsExact' /\ AnyTimeWithinLimit' /\ NoIdleWhileQueued'
  BY DEF Inv2, PoolThreadsExact, AnyTimeWithinLimit, NoIdleWhileQueued, Counted, OnAnyTime
<1>2. TotalCoversThreads' /\ FreedWhenQuiet'
  BY DEF Inv2, TotalCoversThreads, FreedWhenQuiet, Threads
<1> QED BY <1>1, <1>2 DEF Inv2

LEMMA Inv2InsertOnPoolIdle ==
  ASSUME Inv1, Inv2, NEW t \in Tasks, InsertOnPoolIdle(t)
  PROVE  Inv2'
<1> USE ConstantsAssumption DEF Inv1, Inv2, StateTypes, ConstantsAssumption
<1>1. PICK w \in poolIdle[TaskPool[t]] :
        /\ poolIdle' = [poolIdle EXCEPT ![TaskPool[t]] = @ \ {w}]
        /\ task' = [task EXCEPT ![w] = t]
        /\ Signal({w})
  BY DEF InsertOnPoolIdle
<1>2. w \in Workers /\ pc[w] = "runwait" /\ pool[w] = TaskPool[t]
  BY DEF PoolTypes, IdleListsExact
<1>3. PoolThreadsExact'
  <2>1. \A v \in Workers, p \in Pools : Counted(v, p)' <=> Counted(v, p)
    BY <1>1, <1>2 DEF Counted, WorkerTypes, PoolTypes, Shape, InsertOnPoolIdle, mainVars, lifeVars
  <2>2. UNCHANGED poolThreads
    BY <1>1, <1>2 DEF PoolTypes, InsertOnPoolIdle, mainVars, lifeVars
  <2> QED BY <2>1, <2>2, CountSame
<1>4. AnyTimeWithinLimit'
  <2>1. task[w] = None
    BY <1>1 DEF PoolTypes, IdleListsExact
  <2>2. \A v \in Workers, p \in Pools : OnAnyTime(v, p)' => OnAnyTime(v, p)
    BY <1>1, <1>2, <2>1 DEF OnAnyTime, Counted, WorkerTypes, InsertOnPoolIdle
  <2> QED BY <2>2, LimitSame
<1>5. NoIdleWhileQueued'
  BY <1>1, <1>2 DEF NoIdleWhileQueued, PoolTypes, WorkerTypes, Shape, InsertOnPoolIdle, mainVars, lifeVars
<1>6. TotalCoversThreads'
  <2>1. Live' = Live /\ (MainIn' <=> MainIn)
    BY <1>1, <1>2 DEF Live, MainIn, WorkerTypes, InsertOnPoolIdle, mainVars, lifeVars
  <2>2. totalThreads' \in Int /\ totalThreads' >= totalThreads
    BY <1>1, <1>2 DEF InsertOnPoolIdle, mainVars, lifeVars
  <2> QED BY <2>1, <2>2, TotalSame
<1>7. FreedWhenQuiet'
  BY DEF FreedWhenQuiet, Alive, InsertOnPoolIdle, mainVars, lifeVars, ToPool, MayInsert
<1> QED BY <1>3, <1>4, <1>5, <1>6, <1>7

LEMMA Inv2InsertOnInvokerIdle ==
  ASSUME Inv1, Inv2, NEW t \in Tasks, InsertOnInvokerIdle(t)
  PROVE  Inv2'
<1> USE ConstantsAssumption DEF Inv1, Inv2, StateTypes, ConstantsAssumption
<1>1. PICK w \in invokerIdle :
        /\ RemIdle(w)
        /\ pool' = [pool EXCEPT ![w] = TaskPool[t]]
        /\ task' = [task EXCEPT ![w] = t]
        /\ Signal({w})
  BY DEF InsertOnInvokerIdle
<1>2. w \in Workers /\ pc[w] = "midwait" /\ pool[w] = None
  BY DEF PoolTypes, IdleListsExact
<1>3. PoolThreadsExact'
  <2>1. PICK q \in Pools : q = TaskPool[t]
    BY <1>1, <1>2 DEF WorkerTypes, Shape
  <2>2. poolThreads' = [poolThreads EXCEPT ![q] = @ + 1]
    BY <1>1, <1>2, <2>1 DEF InsertOnInvokerIdle, mainVars, lifeVars
  <2>3. \A v \in Workers \ {w}, p \in Pools : Counted(v, p)' <=> Counted(v, p)
    BY <1>1, <1>2 DEF Counted, WorkerTypes, InsertOnInvokerIdle, mainVars, lifeVars
  <2>4. /\ ~Counted(w, q) /\ Counted(w, q)'
        /\ \A p \in Pools \ {q} : Counted(w, p)' <=> Counted(w, p)
    BY <1>1, <1>2, <2>1 DEF Counted, WorkerTypes, Shape, InsertOnInvokerIdle, mainVars, lifeVars
  <2> QED BY <1>2, <2>1, <2>2, <2>3, <2>4, CountJoin
<1>4. AnyTimeWithinLimit'
  <2>8. CASE IsImmediate(t)
    <3>1. \A v \in Workers, p \in Pools : OnAnyTime(v, p)' => OnAnyTime(v, p)
      BY <1>1, <1>2, <2>8 DEF OnAnyTime, Counted, WorkerTypes, PoolTypes, Shape, IsImmediate, InsertOnInvokerIdle, mainVars, lifeVars
    <3> QED BY <3>1, LimitSame
  <2>9. CASE ~IsImmediate(t)
    <3>1. PICK q \in Pools : q = TaskPool[t]
      BY <1>1, <1>2, <2>9 DEF WorkerTypes, Shape
    <3>2. poolThreads'[q] <= PoolMax[q]
      <4>1. poolThreads[q] < PoolMax[q]
        BY <3>1, <2>9 DEF WantsWorker, InsertOnInvokerIdle
      <4>2. poolThreads'[q] = poolThreads[q] + 1
        BY <3>1 DEF PoolTypes, InsertOnInvokerIdle
      <4>3. poolThreads[q] \in Int /\ PoolMax[q] \in Nat
        BY DEF PoolTypes
      <4> QED BY <4>1, <4>2, <4>3
    <3>3. \A v \in Workers, p \in Pools :
            OnAnyTime(v, p)' => OnAnyTime(v, p) \/ (v = w /\ p = q)
      BY <1>1, <1>2, <2>9, <3>1 DEF OnAnyTime, Counted, WorkerTypes, InsertOnInvokerIdle, mainVars, lifeVars
    <3> QED BY <1>2, <1>3, <3>1, <3>2, <3>3, LimitJoin
  <2> QED BY <2>8, <2>9
<1>5. NoIdleWhileQueued'
  BY <1>1, <1>2 DEF NoIdleWhileQueued, PoolTypes, WorkerTypes, Shape, InsertOnInvokerIdle, mainVars, lifeVars
<1>6. TotalCoversThreads'
  <2>1. Live' = Live /\ (MainIn' <=> MainIn)
    BY <1>1, <1>2 DEF Live, MainIn, WorkerTypes, InsertOnInvokerIdle, mainVars, lifeVars
  <2>2. totalThreads' \in Int /\ totalThreads' >= totalThreads
    BY <1>1, <1>2 DEF InsertOnInvokerIdle, mainVars, lifeVars
  <2> QED BY <2>1, <2>2, TotalSame
<1>7. FreedWhenQuiet'
  BY DEF FreedWhenQuiet, Alive, InsertOnInvokerIdle, mainVars, lifeVars, ToPool, MayInsert
<1> QED BY <1>3, <1>4, <1>5, <1>6, <1>7

LEMMA Inv2InsertOnNewThread ==
  ASSUME Inv1, Inv2, NEW t \in Tasks, InsertOnNewThread(t)
  PROVE  Inv2'
<1> USE ConstantsAssumption DEF Inv1, Inv2, StateTypes, ConstantsAssumption
<1>1. PICK w \in Unborn :
        /\ pc' = [pc EXCEPT ![w] = "mid"]
        /\ pool' = [pool EXCEPT ![w] = TaskPool[t]]
        /\ task' = [task EXCEPT ![w] = t]
  BY DEF InsertOnNewThread
<1>2. w \in Workers /\ pc[w] = "none"
  BY DEF Unborn
<1>3. PoolThreadsExact'
  <2>1. PICK q \in Pools : q = TaskPool[t]
    BY <1>1, <1>2 DEF WorkerTypes, Shape
  <2>2. poolThreads' = [poolThreads EXCEPT ![q] = @ + 1]
    BY <1>1, <1>2, <2>1 DEF InsertOnNewThread, WorkerStart, mainVars, lifeVars
  <2>3. \A v \in Workers \ {w}, p \in Pools : Counted(v, p)' <=> Counted(v, p)
    BY <1>1, <1>2 DEF Counted, WorkerTypes, InsertOnNewThread, WorkerStart, mainVars, lifeVars
  <2>4. /\ ~Counted(w, q) /\ Counted(w, q)'
        /\ \A p \in Pools \ {q} : Counted(w, p)' <=> Counted(w, p)
    BY <1>1, <1>2, <2>1 DEF Counted, WorkerTypes, Shape, InsertOnNewThread, WorkerStart, mainVars, lifeVars
  <2> QED BY <1>2, <2>1, <2>2, <2>3, <2>4, CountJoin
<1>4. AnyTimeWithinLimit'
  <2>8. CASE IsImmediate(t)
    <3>1. \A v \in Workers, p \in Pools : OnAnyTime(v, p)' => OnAnyTime(v, p)
      BY <1>1, <1>2, <2>8 DEF OnAnyTime, Counted, WorkerTypes, PoolTypes, Shape, IsImmediate, InsertOnNewThread, WorkerStart, mainVars, lifeVars
    <3> QED BY <3>1, LimitSame
  <2>9. CASE ~IsImmediate(t)
    <3>1. PICK q \in Pools : q = TaskPool[t]
      BY <1>1, <1>2, <2>9 DEF WorkerTypes, Shape
    <3>2. poolThreads'[q] <= PoolMax[q]
      <4>1. poolThreads[q] < PoolMax[q]
        BY <3>1, <2>9 DEF WantsWorker, InsertOnNewThread
      <4>2. poolThreads'[q] = poolThreads[q] + 1
        BY <3>1 DEF PoolTypes, InsertOnNewThread
      <4>3. poolThreads[q] \in Int /\ PoolMax[q] \in Nat
        BY DEF PoolTypes
      <4> QED BY <4>1, <4>2, <4>3
    <3>3. \A v \in Workers, p \in Pools :
            OnAnyTime(v, p)' => OnAnyTime(v, p) \/ (v = w /\ p = q)
      BY <1>1, <1>2, <2>9, <3>1 DEF OnAnyTime, Counted, WorkerTypes, InsertOnNewThread, WorkerStart, mainVars, lifeVars
    <3> QED BY <1>2, <1>3, <3>1, <3>2, <3>3, LimitJoin
  <2> QED BY <2>8, <2>9
<1>5. NoIdleWhileQueued'
  BY <1>1, <1>2 DEF NoIdleWhileQueued, PoolTypes, WorkerTypes, Shape, InsertOnNewThread, WorkerStart, mainVars, lifeVars
<1>6. TotalCoversThreads'
  <2>1. w \notin Live /\ Live' = Live \cup {w}
    BY <1>1, <1>2 DEF Live, WorkerTypes
  <2> QED BY <1>2, <2>1, TotalJoin DEF MainIn, InsertOnNewThread, WorkerStart, mainVars, lifeVars
<1>7. FreedWhenQuiet'
  BY DEF FreedWhenQuiet, Alive, InsertOnNewThread, WorkerStart, mainVars, lifeVars, ToPool, MayInsert
<1> QED BY <1>3, <1>4, <1>5, <1>6, <1>7

LEMMA Inv2InsertWithoutThread ==
  ASSUME Inv1, Inv2, NEW t \in Tasks, InsertWithoutThread(t)
  PROVE  Inv2'
<1> USE ConstantsAssumption DEF Inv1, Inv2, StateTypes, ConstantsAssumption
<1>3. PoolThreadsExact'
  <2>1. \A v \in Workers, p \in Pools : Counted(v, p)' <=> Counted(v, p)
    BY DEF Counted, WorkerTypes, PoolTypes, Shape, InsertWithoutThread, WorkerStart, workerVars, mainVars, lifeVars
  <2>2. UNCHANGED poolThreads
    BY DEF PoolTypes, InsertWithoutThread, WorkerStart, workerVars, mainVars, lifeVars
  <2> QED BY <2>1, <2>2, CountSame
<1>4. AnyTimeWithinLimit'
  <2>1. \A v \in Workers, p \in Pools : OnAnyTime(v, p)' => OnAnyTime(v, p)
    BY DEF OnAnyTime, Counted, WorkerTypes, PoolTypes, Shape, IsImmediate, InsertWithoutThread, WorkerStart, workerVars, mainVars, lifeVars
  <2> QED BY <2>1, LimitSame
<1>5. NoIdleWhileQueued'
  BY DEF NoIdleWhileQueued, PoolTypes, WorkerTypes, Shape, InsertWithoutThread, WorkerStart, workerVars, mainVars, lifeVars, NoPoolIdle
<1>6. TotalCoversThreads'
  <2>1. Live' = Live /\ (MainIn' <=> MainIn)
    BY DEF Live, MainIn, WorkerTypes, InsertWithoutThread, WorkerStart, workerVars, mainVars, lifeVars
  <2>2. totalThreads' \in Int /\ totalThreads' >= totalThreads
    BY DEF InsertWithoutThread, WorkerStart, workerVars, mainVars, lifeVars
  <2> QED BY <2>1, <2>2, TotalSame
<1>7. FreedWhenQuiet'
  BY DEF FreedWhenQuiet, Alive, InsertWithoutThread, WorkerStart, workerVars, mainVars, lifeVars, ToPool, MayInsert
<1> QED BY <1>3, <1>4, <1>5, <1>6, <1>7

LEMMA Inv2InsertQueued ==
  ASSUME Inv1, Inv2, NEW t \in Tasks, InsertQueued(t)
  PROVE  Inv2'
<1> USE ConstantsAssumption DEF Inv1, Inv2, StateTypes, ConstantsAssumption
<1>3. PoolThreadsExact'
  <2>1. \A v \in Workers, p \in Pools : Counted(v, p)' <=> Counted(v, p)
    BY DEF Counted, WorkerTypes, PoolTypes, Shape, InsertQueued, workerVars, mainVars, lifeVars
  <2>2. UNCHANGED poolThreads
    BY DEF PoolTypes, InsertQueued, workerVars, mainVars, lifeVars
  <2> QED BY <2>1, <2>2, CountSame
<1>4. AnyTimeWithinLimit'
  <2>1. \A v \in Workers, p \in Pools : OnAnyTime(v, p)' => OnAnyTime(v, p)
    BY DEF OnAnyTime, Counted, WorkerTypes, PoolTypes, Shape, IsImmediate, InsertQueued, workerVars, mainVars, lifeVars
  <2> QED BY <2>1, LimitSame
<1>5. NoIdleWhileQueued'
  BY DEF NoIdleWhileQueued, PoolTypes, WorkerTypes, Shape, InsertQueued, workerVars, mainVars, lifeVars, NoPoolIdle
<1>6. TotalCoversThreads'
  <2>1. Live' = Live /\ (MainIn' <=> MainIn)
    BY DEF Live, MainIn, WorkerTypes, InsertQueued, workerVars, mainVars, lifeVars
  <2>2. totalThreads' \in Int /\ totalThreads' >= totalThreads
    BY DEF InsertQueued, workerVars, mainVars, lifeVars
  <2> QED BY <2>1, <2>2, TotalSame
<1>7. FreedWhenQuiet'
  BY DEF FreedWhenQuiet, Alive, InsertQueued, workerVars, mainVars, lifeVars, ToPool, MayInsert
<1> QED BY <1>3, <1>4, <1>5, <1>6, <1>7

LEMMA Inv2InsertDedicated ==
  ASSUME Inv1, Inv2, NEW t \in Tasks, InsertDedicated(t)
  PROVE  Inv2'
<1> USE ConstantsAssumption DEF Inv1, Inv2, StateTypes, ConstantsAssumption
<1>3. PoolThreadsExact'
  <2>1. \A v \in Workers, p \in Pools : Counted(v, p)' <=> Counted(v, p)
    BY DEF Counted, WorkerTypes, PoolTypes, Shape, InsertDedicated, WakeMain, poolVars, workerVars, lifeVars
  <2>2. UNCHANGED poolThreads
    BY DEF PoolTypes, InsertDedicated, WakeMain, poolVars, workerVars, lifeVars
  <2> QED BY <2>1, <2>2, CountSame
<1>4. AnyTimeWithinLimit'
  <2>1. \A v \in Workers, p \in Pools : OnAnyTime(v, p)' => OnAnyTime(v, p)
    BY DEF OnAnyTime, Counted, WorkerTypes, PoolTypes, Shape, IsImmediate, InsertDedicated, WakeMain, poolVars, workerVars, lifeVars
  <2> QED BY <2>1, LimitSame
<1>5. NoIdleWhileQueued'
  BY DEF NoIdleWhileQueued, PoolTypes, WorkerTypes, Shape, InsertDedicated, WakeMain, poolVars, workerVars, lifeVars
<1>6. TotalCoversThreads'
  <2>1. Live' = Live /\ (MainIn' <=> MainIn)
    BY DEF Live, MainIn, WorkerTypes, InsertDedicated, WakeMain, poolVars, workerVars, lifeVars
  <2>2. totalThreads' \in Int /\ totalThreads' >= totalThreads
    BY DEF InsertDedicated, WakeMain, poolVars, workerVars, lifeVars
  <2> QED BY <2>1, <2>2, TotalSame
<1>7. FreedWhenQuiet'
  BY DEF FreedWhenQuiet, Alive, InsertDedicated, WakeMain, poolVars, workerVars, lifeVars, MayInsert
<1> QED BY <1>3, <1>4, <1>5, <1>6, <1>7

LEMMA Inv2MidRun ==
  ASSUME Inv1, Inv2, NEW w \in Workers, MidRun(w)
  PROVE  Inv2'
<1> USE ConstantsAssumption DEF Inv1, Inv2, StateTypes, ConstantsAssumption
<1>3. PoolThreadsExact'
  <2>1. \A v \in Workers, p \in Pools : Counted(v, p)' <=> Counted(v, p)
    BY DEF Counted, WorkerTypes, PoolTypes, Shape, MidRun, poolVars, mainVars, lifeVars
  <2>2. UNCHANGED poolThreads
    BY DEF PoolTypes, MidRun, poolVars, mainVars, lifeVars
  <2> QED BY <2>1, <2>2, CountSame
<1>4. AnyTimeWithinLimit'
  <2>1. \A v \in Workers, p \in Pools : OnAnyTime(v, p)' => OnAnyTime(v, p)
    BY DEF OnAnyTime, Counted, WorkerTypes, PoolTypes, Shape, IsImmediate, MidRun, poolVars, mainVars, lifeVars
  <2> QED BY <2>1, LimitSame
<1>5. NoIdleWhileQueued'
  BY DEF NoIdleWhileQueued, PoolTypes, WorkerTypes, Shape, MidRun, poolVars, mainVars, lifeVars
<1>6. TotalCoversThreads'
  <2>1. Live' = Live /\ (MainIn' <=> MainIn)
    BY DEF Live, MainIn, WorkerTypes, MidRun, poolVars, mainVars, lifeVars
  <2>2. totalThreads' \in Int /\ totalThreads' >= totalThreads
    BY DEF MidRun, poolVars, mainVars, lifeVars
  <2> QED BY <2>1, <2>2, TotalSame
<1>7. FreedWhenQuiet'
  BY DEF FreedWhenQuiet, Alive, MidRun, poolVars, mainVars, lifeVars
<1> QED BY <1>3, <1>4, <1>5, <1>6, <1>7

LEMMA Inv2LeaveMidWait ==
  ASSUME Inv1, Inv2, NEW w \in Workers, LeaveMidWait(w)
  PROVE  Inv2'
<1> USE ConstantsAssumption DEF Inv1, Inv2, StateTypes, ConstantsAssumption
<1>3. PoolThreadsExact'
  <2>1. \A v \in Workers, p \in Pools : Counted(v, p)' <=> Counted(v, p)
    BY DEF Counted, WorkerTypes, PoolTypes, Shape, LeaveMidWait, poolVars, mainVars, lifeVars
  <2>2. UNCHANGED poolThreads
    BY DEF PoolTypes, LeaveMidWait, poolVars, mainVars, lifeVars
  <2> QED BY <2>1, <2>2, CountSame
<1>4. AnyTimeWithinLimit'
  <2>1. \A v \in Workers, p \in Pools : OnAnyTime(v, p)' => OnAnyTime(v, p)
    BY DEF OnAnyTime, Counted, WorkerTypes, PoolTypes, Shape, IsImmediate, LeaveMidWait, poolVars, mainVars, lifeVars
  <2> QED BY <2>1, LimitSame
<1>5. NoIdleWhileQueued'
  BY DEF NoIdleWhileQueued, PoolTypes, WorkerTypes, Shape, LeaveMidWait, poolVars, mainVars, lifeVars
<1>6. TotalCoversThreads'
  <2>1. Live' = Live /\ (MainIn' <=> MainIn)
    BY DEF Live, MainIn, WorkerTypes, LeaveMidWait, poolVars, mainVars, lifeVars
  <2>2. totalThreads' \in Int /\ totalThreads' >= totalThreads
    BY DEF LeaveMidWait, poolVars, mainVars, lifeVars
  <2> QED BY <2>1, <2>2, TotalSame
<1>7. FreedWhenQuiet'
  BY DEF FreedWhenQuiet, Alive, LeaveMidWait, poolVars, mainVars, lifeVars
<1> QED BY <1>3, <1>4, <1>5, <1>6, <1>7

LEMMA Inv2Exit ==
  ASSUME Inv1, Inv2, NEW w \in Workers, Exit(w)
  PROVE  Inv2'
<1> USE ConstantsAssumption DEF Inv1, Inv2, StateTypes, ConstantsAssumption
<1>3. PoolThreadsExact'
  <2>1. \A v \in Workers, p \in Pools : Counted(v, p)' <=> Counted(v, p)
    BY DEF Counted, WorkerTypes, PoolTypes, Shape, Exit, WorkerStop, poolVars, mainVars, lifeVars
  <2>2. UNCHANGED poolThreads
    BY DEF PoolTypes, Exit, WorkerStop, poolVars, mainVars, lifeVars
  <2> QED BY <2>1, <2>2, CountSame
<1>4. AnyTimeWithinLimit'
  <2>1. \A v \in Workers, p \in Pools : OnAnyTime(v, p)' => OnAnyTime(v, p)
    BY DEF OnAnyTime, Counted, WorkerTypes, PoolTypes, Shape, IsImmediate, Exit, WorkerStop, poolVars, mainVars, lifeVars
  <2> QED BY <2>1, LimitSame
<1>5. NoIdleWhileQueued'
  BY DEF NoIdleWhileQueued, PoolTypes, WorkerTypes, Shape, Exit, WorkerStop, poolVars, mainVars, lifeVars
<1>6. TotalCoversThreads'
  <2>1. w \in Live /\ Live' = Live \ {w}
    BY DEF Live, WorkerTypes, Exit
  <2> QED BY <2>1, TotalQuit DEF MainIn, Exit, WorkerStop, poolVars, mainVars, lifeVars
<1>7. FreedWhenQuiet'
  BY DEF FreedWhenQuiet, Alive, Exit, WorkerStop, poolVars, mainVars, lifeVars
<1> QED BY <1>3, <1>4, <1>5, <1>6, <1>7

LEMMA Inv2RunHanded ==
  ASSUME Inv1, Inv2, NEW w \in Workers, RunHanded(w)
  PROVE  Inv2'
<1> USE ConstantsAssumption DEF Inv1, Inv2, StateTypes, ConstantsAssumption
<1>1. pool[w] \in Pools /\ task[w] \in Tasks
  BY DEF WorkerTypes, Shape, RunHanded
<1>2. Begin(w, task[w]) /\ pc[w] = "run" /\ UNCHANGED pool
  BY DEF RunHanded
<1>3. PoolThreadsExact'
  <2>8. CASE IsImmediate(task[w])
    <3>1. PICK q \in Pools : q = pool[w]
      BY <1>1, <1>2, <2>8 DEF WorkerTypes, Shape
    <3>2. poolThreads' = [poolThreads EXCEPT ![q] = @ - 1]
      BY <1>1, <1>2, <2>8, <3>1 DEF Begin, mainVars, lifeVars
    <3>3. \A v \in Workers \ {w}, p \in Pools : Counted(v, p)' <=> Counted(v, p)
      BY <1>1, <1>2, <2>8 DEF Counted, WorkerTypes, Begin, mainVars, lifeVars
    <3>4. /\ Counted(w, q) /\ ~Counted(w, q)'
          /\ \A p \in Pools \ {q} : Counted(w, p)' <=> Counted(w, p)
      BY <1>1, <1>2, <2>8, <3>1 DEF Counted, WorkerTypes, Shape, Begin, mainVars, lifeVars
    <3> QED BY <3>1, <3>2, <3>3, <3>4, CountQuit
  <2>9. CASE ~IsImmediate(task[w])
    <3>1. \A v \in Workers, p \in Pools : Counted(v, p)' <=> Counted(v, p)
      BY <1>1, <1>2, <2>9 DEF Counted, WorkerTypes, PoolTypes, Shape, Begin, mainVars, lifeVars
    <3>2. UNCHANGED poolThreads
      BY <1>1, <1>2, <2>9 DEF PoolTypes, Begin, mainVars, lifeVars
    <3> QED BY <3>1, <3>2, CountSame
  <2> QED BY <2>8, <2>9
<1>4. AnyTimeWithinLimit'
  <2>1. \A v \in Workers, p \in Pools : OnAnyTime(v, p)' => OnAnyTime(v, p)
    BY <1>1, <1>2 DEF OnAnyTime, Counted, WorkerTypes, PoolTypes, Shape, IsImmediate, Begin, mainVars, lifeVars
  <2> QED BY <2>1, LimitSame
<1>5. NoIdleWhileQueued'
  BY <1>2 DEF NoIdleWhileQueued, PoolTypes, WorkerTypes, Shape, RunHanded
<1>6. TotalCoversThreads'
  <2>1. Live' = Live /\ (MainIn' <=> MainIn)
    BY <1>1, <1>2 DEF Live, MainIn, WorkerTypes, Begin, mainVars, lifeVars, RunHanded
  <2>2. totalThreads' \in Int /\ totalThreads' >= totalThreads
    BY <1>1, <1>2 DEF Begin, mainVars, lifeVars, RunHanded
  <2> QED BY <2>1, <2>2, TotalSame
<1>7. FreedWhenQuiet'
  BY DEF FreedWhenQuiet, Alive, RunHanded, mainVars, lifeVars
<1> QED BY <1>3, <1>4, <1>5, <1>6, <1>7

LEMMA Inv2RunQueued ==
  ASSUME Inv1, Inv2, NEW w \in Workers, RunQueued(w)
  PROVE  Inv2'
<1> USE ConstantsAssumption DEF Inv1, Inv2, StateTypes, ConstantsAssumption
<1>1. pool[w] \in Pools /\ Head(queue[pool[w]]) \in Tasks
  BY DEF PoolTypes, WorkerTypes, Shape, RunQueued
<1>2. /\ Begin(w, Head(queue[pool[w]])) /\ pc[w] = "run" /\ UNCHANGED pool
      /\ task[w] = None
  BY DEF RunQueued
<1>3. PoolThreadsExact'
  <2>8. CASE IsImmediate(Head(queue[pool[w]]))
    <3>1. PICK q \in Pools : q = pool[w]
      BY <1>1, <1>2, <2>8 DEF WorkerTypes, Shape
    <3>2. poolThreads' = [poolThreads EXCEPT ![q] = @ - 1]
      BY <1>1, <1>2, <2>8, <3>1 DEF Begin, mainVars, lifeVars
    <3>3. \A v \in Workers \ {w}, p \in Pools : Counted(v, p)' <=> Counted(v, p)
      BY <1>1, <1>2, <2>8 DEF Counted, WorkerTypes, Begin, mainVars, lifeVars
    <3>4. /\ Counted(w, q) /\ ~Counted(w, q)'
          /\ \A p \in Pools \ {q} : Counted(w, p)' <=> Counted(w, p)
      BY <1>1, <1>2, <2>8, <3>1 DEF Counted, WorkerTypes, Shape, Begin, mainVars, lifeVars
    <3> QED BY <3>1, <3>2, <3>3, <3>4, CountQuit
  <2>9. CASE ~IsImmediate(Head(queue[pool[w]]))
    <3>1. \A v \in Workers, p \in Pools : Counted(v, p)' <=> Counted(v, p)
      BY <1>1, <1>2, <2>9 DEF Counted, WorkerTypes, PoolTypes, Shape, Begin, mainVars, lifeVars
    <3>2. UNCHANGED poolThreads
      BY <1>1, <1>2, <2>9 DEF PoolTypes, Begin, mainVars, lifeVars
    <3> QED BY <3>1, <3>2, CountSame
  <2> QED BY <2>8, <2>9
<1>4. AnyTimeWithinLimit'
  <2>1. \A v \in Workers, p \in Pools : OnAnyTime(v, p)' => OnAnyTime(v, p)
    BY <1>1, <1>2 DEF OnAnyTime, Counted, WorkerTypes, PoolTypes, Shape, IsImmediate, Begin, mainVars, lifeVars
  <2> QED BY <2>1, LimitSame
<1>5. NoIdleWhileQueued'
  BY <1>2 DEF NoIdleWhileQueued, PoolTypes, WorkerTypes, Shape, RunQueued, Dequeue
<1>6. TotalCoversThreads'
  <2>1. Live' = Live /\ (MainIn' <=> MainIn)
    BY <1>1, <1>2 DEF Live, MainIn, WorkerTypes, Begin, mainVars, lifeVars, RunQueued, Dequeue
  <2>2. totalThreads' \in Int /\ totalThreads' >= totalThreads
    BY <1>1, <1>2 DEF Begin, mainVars, lifeVars, RunQueued, Dequeue
  <2> QED BY <2>1, <2>2, TotalSame
<1>7. FreedWhenQuiet'
  BY DEF FreedWhenQuiet, Alive, RunQueued, Dequeue, mainVars, lifeVars
<1> QED BY <1>3, <1>4, <1>5, <1>6, <1>7

LEMMA Inv2LeaveRunWaitHanded ==
  ASSUME Inv1, Inv2, NEW w \in Workers, LeaveRunWait(w), task[w] # None
  PROVE  Inv2'
<1> USE ConstantsAssumption DEF Inv1, Inv2, StateTypes, ConstantsAssumption
<1>1. pool[w] \in Pools /\ task[w] \in Tasks
  BY DEF WorkerTypes, Shape, LeaveRunWait
<1>2. Begin(w, task[w]) /\ pc[w] = "runwait" /\ UNCHANGED <<pool, poolIdle>>
  BY DEF LeaveRunWait
<1>3. PoolThreadsExact'
  <2>8. CASE IsImmediate(task[w])
    <3>1. PICK q \in Pools : q = pool[w]
      BY <1>1, <1>2, <2>8 DEF WorkerTypes, Shape
    <3>2. poolThreads' = [poolThreads EXCEPT ![q] = @ - 1]
      BY <1>1, <1>2, <2>8, <3>1 DEF Begin, mainVars, lifeVars
    <3>3. \A v \in Workers \ {w}, p \in Pools : Counted(v, p)' <=> Counted(v, p)
      BY <1>1, <1>2, <2>8 DEF Counted, WorkerTypes, Begin, mainVars, lifeVars
    <3>4. /\ Counted(w, q) /\ ~Counted(w, q)'
          /\ \A p \in Pools \ {q} : Counted(w, p)' <=> Counted(w, p)
      BY <1>1, <1>2, <2>8, <3>1 DEF Counted, WorkerTypes, Shape, Begin, mainVars, lifeVars
    <3> QED BY <3>1, <3>2, <3>3, <3>4, CountQuit
  <2>9. CASE ~IsImmediate(task[w])
    <3>1. \A v \in Workers, p \in Pools : Counted(v, p)' <=> Counted(v, p)
      BY <1>1, <1>2, <2>9 DEF Counted, WorkerTypes, PoolTypes, Shape, Begin, mainVars, lifeVars
    <3>2. UNCHANGED poolThreads
      BY <1>1, <1>2, <2>9 DEF PoolTypes, Begin, mainVars, lifeVars
    <3> QED BY <3>1, <3>2, CountSame
  <2> QED BY <2>8, <2>9
<1>4. AnyTimeWithinLimit'
  <2>1. \A v \in Workers, p \in Pools : OnAnyTime(v, p)' => OnAnyTime(v, p)
    BY <1>1, <1>2 DEF OnAnyTime, Counted, WorkerTypes, PoolTypes, Shape, IsImmediate, Begin, mainVars, lifeVars
  <2> QED BY <2>1, LimitSame
<1>5. NoIdleWhileQueued'
  BY <1>2 DEF NoIdleWhileQueued, PoolTypes, WorkerTypes, Shape, LeaveRunWait
<1>6. TotalCoversThreads'
  <2>1. Live' = Live /\ (MainIn' <=> MainIn)
    BY <1>1, <1>2 DEF Live, MainIn, WorkerTypes, Begin, mainVars, lifeVars, LeaveRunWait
  <2>2. totalThreads' \in Int /\ totalThreads' >= totalThreads
    BY <1>1, <1>2 DEF Begin, mainVars, lifeVars, LeaveRunWait
  <2> QED BY <2>1, <2>2, TotalSame
<1>7. FreedWhenQuiet'
  BY DEF FreedWhenQuiet, Alive, LeaveRunWait, mainVars, lifeVars
<1> QED BY <1>3, <1>4, <1>5, <1>6, <1>7

LEMMA Inv2RunIdleWaits ==
  ASSUME Inv1, Inv2, NEW w \in Workers, RunIdle(w), keepWorking
  PROVE  Inv2'
<1> USE ConstantsAssumption DEF Inv1, Inv2, StateTypes, ConstantsAssumption
<1>1. pool[w] \in Pools /\ poolIdle[pool[w]] \cup {w} \in SUBSET Workers
  BY DEF WorkerTypes, PoolTypes, Shape, RunIdle
<1>2. /\ poolIdle' = [poolIdle EXCEPT ![pool[w]] = @ \cup {w}]
      /\ pc' = [pc EXCEPT ![w] = "runwait"]
      /\ pc[w] = "run" /\ task[w] = None
      /\ UNCHANGED <<invokerIdle, poolThreads, queue, pool, task, immediate,
                     signalled, mainPc, mainTask>>
  BY DEF RunIdle, mainVars
<1>3. PoolThreadsExact'
  <2>1. \A v \in Workers, p \in Pools : Counted(v, p)' <=> Counted(v, p)
    BY <1>1, <1>2 DEF Counted, WorkerTypes, PoolTypes, Shape, mainVars
  <2>2. UNCHANGED poolThreads
    BY <1>1, <1>2 DEF PoolTypes, mainVars
  <2> QED BY <2>1, <2>2, CountSame
<1>4. AnyTimeWithinLimit'
  <2>1. \A v \in Workers, p \in Pools : OnAnyTime(v, p)' => OnAnyTime(v, p)
    BY <1>1, <1>2 DEF OnAnyTime, Counted, WorkerTypes, PoolTypes, Shape, IsImmediate, mainVars
  <2> QED BY <2>1, LimitSame
<1>5. NoIdleWhileQueued'
  BY <1>1, <1>2 DEF NoIdleWhileQueued, PoolTypes, WorkerTypes, Shape, RunIdle
<1>6. TotalCoversThreads'
  <2>1. Live' = Live /\ (MainIn' <=> MainIn)
    BY <1>1, <1>2 DEF Live, MainIn, WorkerTypes, mainVars, RunIdle, lifeVars
  <2>2. totalThreads' \in Int /\ totalThreads' >= totalThreads
    BY <1>1, <1>2 DEF mainVars, RunIdle, lifeVars
  <2> QED BY <2>1, <2>2, TotalSame
<1>7. FreedWhenQuiet'
  BY DEF FreedWhenQuiet, Alive, RunIdle, lifeVars
<1> QED BY <1>3, <1>4, <1>5, <1>6, <1>7

LEMMA Inv2RunIdleQuits ==
  ASSUME Inv1, Inv2, NEW w \in Workers, RunIdle(w), ~keepWorking
  PROVE  Inv2'
<1> USE ConstantsAssumption DEF Inv1, Inv2, StateTypes, ConstantsAssumption
<1>1. pool[w] \in Pools
  BY DEF WorkerTypes, Shape, RunIdle
<1>2. /\ pc' = [pc EXCEPT ![w] = "leave"]
      /\ pc[w] = "run" /\ task[w] = None
      /\ UNCHANGED <<invokerIdle, poolIdle, poolThreads, queue, pool, task,
                     immediate, signalled, mainPc, mainTask>>
  BY DEF RunIdle, mainVars
<1>3. PoolThreadsExact'
  <2>1. \A v \in Workers, p \in Pools : Counted(v, p)' <=> Counted(v, p)
    BY <1>1, <1>2 DEF Counted, WorkerTypes, PoolTypes, Shape, mainVars
  <2>2. UNCHANGED poolThreads
    BY <1>1, <1>2 DEF PoolTypes, mainVars
  <2> QED BY <2>1, <2>2, CountSame
<1>4. AnyTimeWithinLimit'
  <2>1. \A v \in Workers, p \in Pools : OnAnyTime(v, p)' => OnAnyTime(v, p)
    BY <1>1, <1>2 DEF OnAnyTime, Counted, WorkerTypes, PoolTypes, Shape, IsImmediate, mainVars
  <2> QED BY <2>1, LimitSame
<1>5. NoIdleWhileQueued'
  BY <1>1, <1>2 DEF NoIdleWhileQueued, PoolTypes, WorkerTypes, Shape, RunIdle
<1>6. TotalCoversThreads'
  <2>1. Live' = Live /\ (MainIn' <=> MainIn)
    BY <1>1, <1>2 DEF Live, MainIn, WorkerTypes, mainVars, RunIdle, lifeVars
  <2>2. totalThreads' \in Int /\ totalThreads' >= totalThreads
    BY <1>1, <1>2 DEF mainVars, RunIdle, lifeVars
  <2> QED BY <2>1, <2>2, TotalSame
<1>7. FreedWhenQuiet'
  BY DEF FreedWhenQuiet, Alive, RunIdle, lifeVars
<1> QED BY <1>3, <1>4, <1>5, <1>6, <1>7

LEMMA Inv2LeaveRunWaitEmpty ==
  ASSUME Inv1, Inv2, NEW w \in Workers, LeaveRunWait(w), task[w] = None
  PROVE  Inv2'
<1> USE ConstantsAssumption DEF Inv1, Inv2, StateTypes, ConstantsAssumption
<1>1. pool[w] \in Pools /\ poolIdle[pool[w]] \ {w} \in SUBSET Workers
  BY DEF WorkerTypes, PoolTypes, Shape, LeaveRunWait
<1>2. /\ poolIdle' = [poolIdle EXCEPT ![pool[w]] = @ \ {w}]
      /\ pc' = [pc EXCEPT ![w] = "leave"]
      /\ pc[w] = "runwait"
      /\ signalled' = signalled \ {w}
      /\ UNCHANGED <<invokerIdle, poolThreads, queue, pool, task, immediate,
                     mainPc, mainTask>>
  BY DEF LeaveRunWait, mainVars
<1>3. PoolThreadsExact'
  <2>1. \A v \in Workers, p \in Pools : Counted(v, p)' <=> Counted(v, p)
    BY <1>1, <1>2 DEF Counted, WorkerTypes, PoolTypes, Shape, mainVars
  <2>2. UNCHANGED poolThreads
    BY <1>1, <1>2 DEF PoolTypes, mainVars
  <2> QED BY <2>1, <2>2, CountSame
<1>4. AnyTimeWithinLimit'
  <2>1. \A v \in Workers, p \in Pools : OnAnyTime(v, p)' => OnAnyTime(v, p)
    BY <1>1, <1>2 DEF OnAnyTime, Counted, WorkerTypes, PoolTypes, Shape, IsImmediate, mainVars
  <2> QED BY <2>1, LimitSame
<1>5. NoIdleWhileQueued'
  BY <1>1, <1>2 DEF NoIdleWhileQueued, PoolTypes, WorkerTypes, Shape, IsImmediate
<1>6. TotalCoversThreads'
  <2>1. Live' = Live /\ (MainIn' <=> MainIn)
    BY <1>1, <1>2 DEF Live, MainIn, WorkerTypes, mainVars, LeaveRunWait, lifeVars
  <2>2. totalThreads' \in Int /\ totalThreads' >= totalThreads
    BY <1>1, <1>2 DEF mainVars, LeaveRunWait, lifeVars
  <2> QED BY <2>1, <2>2, TotalSame
<1>7. FreedWhenQuiet'
  BY DEF FreedWhenQuiet, Alive, LeaveRunWait, lifeVars
<1> QED BY <1>3, <1>4, <1>5, <1>6, <1>7

LEMMA Inv2Executed ==
  ASSUME Inv1, Inv2, NEW w \in Workers, Executed(w)
  PROVE  Inv2'
<1> USE ConstantsAssumption DEF Inv1, Inv2, StateTypes, ConstantsAssumption
<1>1. /\ pool[w] \in Pools /\ task[w] \in Tasks /\ pc[w] = "exec"
      /\ immediate[w] <=> IsImmediate(task[w])
      /\ immediate[w] \in BOOLEAN
      /\ poolThreads[pool[w]] \in Int
  BY DEF WorkerTypes, PoolTypes, Shape, Executed
<1>2. /\ task' = [task EXCEPT ![w] = None]
      /\ pc'[w] \in {"run", "leave"}
      /\ \A v \in Workers \ {w} : pc'[v] = pc[v]
      /\ UNCHANGED <<pool, immediate>>
  BY DEF Executed, WorkerTypes
<1>3. PoolThreadsExact'
  <2>8. CASE immediate[w]
    <3>1. PICK q \in Pools : q = pool[w]
      BY <1>1, <1>2, <2>8 DEF WorkerTypes, Shape
    <3>2. poolThreads' = [poolThreads EXCEPT ![q] = @ + 1]
      BY <1>1, <1>2, <2>8, <3>1 DEF Executed
    <3>3. \A v \in Workers \ {w}, p \in Pools : Counted(v, p)' <=> Counted(v, p)
      BY <1>1, <1>2, <2>8 DEF Counted, WorkerTypes, Executed
    <3>4. /\ ~Counted(w, q) /\ Counted(w, q)'
          /\ \A p \in Pools \ {q} : Counted(w, p)' <=> Counted(w, p)
      BY <1>1, <1>2, <2>8, <3>1 DEF Counted, WorkerTypes, Shape, Executed
    <3> QED BY <3>1, <3>2, <3>3, <3>4, CountJoin
  <2>9. CASE ~immediate[w]
    <3>1. \A v \in Workers, p \in Pools : Counted(v, p)' <=> Counted(v, p)
      BY <1>1, <1>2, <2>9 DEF Counted, WorkerTypes
    <3>2. UNCHANGED poolThreads
      BY <1>1, <2>9 DEF PoolTypes, Executed
    <3> QED BY <3>1, <3>2, CountSame
  <2> QED BY <2>8, <2>9
<1>4. AnyTimeWithinLimit'
  <2>8. CASE ~immediate[w] \/ pc'[w] = "leave"
    <3>1. \A v \in Workers, p \in Pools : OnAnyTime(v, p)' => OnAnyTime(v, p)
      BY <1>1, <1>2, <2>8 DEF OnAnyTime, Counted, WorkerTypes
    <3> QED BY <3>1, LimitSame
  <2>9. CASE immediate[w] /\ pc'[w] = "run"
    <3>1. PICK q \in Pools : q = pool[w]
      BY <1>1, <1>2, <2>9 DEF WorkerTypes, Shape
    <3>2. poolThreads'[q] <= PoolMax[q]
      BY <3>1, <1>1, <2>9 DEF PoolTypes, WorkerTypes, StaysInPool, Executed
    <3>3. \A v \in Workers, p \in Pools :
            OnAnyTime(v, p)' => OnAnyTime(v, p) \/ (v = w /\ p = q)
      BY <1>1, <1>2, <2>9, <3>1 DEF OnAnyTime, Counted, WorkerTypes, IsImmediate
    <3> QED BY <1>2, <1>3, <3>1, <3>2, <3>3, LimitJoin
  <2> QED BY <1>1, <1>2, <2>8, <2>9
<1>5. NoIdleWhileQueued'
  BY DEF NoIdleWhileQueued, PoolTypes, WorkerTypes, Shape, Executed
<1>6. TotalCoversThreads'
  <2>1. Live' = Live /\ (MainIn' <=> MainIn)
    BY <1>1, <1>2 DEF Live, MainIn, Executed, mainVars
  <2> QED BY <2>1, TotalSame DEF Executed
<1>7. FreedWhenQuiet'
  BY DEF FreedWhenQuiet, Alive, Executed, lifeVars
<1> QED BY <1>3, <1>4, <1>5, <1>6, <1>7

LEMMA Inv2Leave ==
  ASSUME Inv1, Inv2, NEW w \in Workers, Leave(w)
  PROVE  Inv2'
<1> USE ConstantsAssumption DEF Inv1, Inv2, StateTypes, ConstantsAssumption
<1>1. pool[w] \in Pools /\ pc[w] = "leave"
  BY DEF WorkerTypes, Shape, Leave
<1>2. pc' = [pc EXCEPT ![w] = "release"] /\ UNCHANGED <<pool, task, immediate>>
  BY DEF Leave
<1>3. PoolThreadsExact'
  <2>1. PICK q \in Pools : q = pool[w]
    BY <1>1, <1>2 DEF WorkerTypes, Shape
  <2>2. poolThreads' = [poolThreads EXCEPT ![q] = @ - 1]
    BY <1>1, <1>2, <2>1 DEF Leave
  <2>3. \A v \in Workers \ {w}, p \in Pools : Counted(v, p)' <=> Counted(v, p)
    BY <1>1, <1>2 DEF Counted, WorkerTypes, Leave
  <2>4. /\ Counted(w, q) /\ ~Counted(w, q)'
        /\ \A p \in Pools \ {q} : Counted(w, p)' <=> Counted(w, p)
    BY <1>1, <1>2, <2>1 DEF Counted, WorkerTypes, Shape, Leave
  <2> QED BY <1>2, <2>1, <2>2, <2>3, <2>4, CountQuit
<1>4. AnyTimeWithinLimit'
  <2>1. \A v \in Workers, p \in Pools : OnAnyTime(v, p)' => OnAnyTime(v, p)
    BY <1>1, <1>2 DEF OnAnyTime, Counted, WorkerTypes, PoolTypes, Shape, IsImmediate, mainVars
  <2> QED BY <2>1, LimitSame
<1>5. NoIdleWhileQueued'
  BY DEF NoIdleWhileQueued, PoolTypes, WorkerTypes, Shape, Leave
<1>6. TotalCoversThreads'
  <2>1. Live' = Live /\ (MainIn' <=> MainIn)
    BY <1>1, <1>2 DEF Live, MainIn, WorkerTypes, Leave, mainVars
  <2>2. totalThreads' \in Int /\ totalThreads' >= totalThreads
    BY <1>1, <1>2 DEF Leave, mainVars
  <2> QED BY <2>1, <2>2, TotalSame
<1>7. FreedWhenQuiet'
  BY DEF FreedWhenQuiet, Alive, Leave, lifeVars
<1> QED BY <1>3, <1>4, <1>5, <1>6, <1>7

LEMMA Inv2Release ==
  ASSUME Inv1, Inv2, NEW w \in Workers, Release(w)
  PROVE  Inv2'
<1> USE ConstantsAssumption DEF Inv1, Inv2, StateTypes, ConstantsAssumption
<1>3. PoolThreadsExact'
  <2>1. \A v \in Workers, p \in Pools : Counted(v, p)' <=> Counted(v, p)
    BY DEF Counted, WorkerTypes, PoolTypes, Shape, Release, poolVars, mainVars, lifeVars
  <2>2. UNCHANGED poolThreads
    BY DEF PoolTypes, Release, poolVars, mainVars, lifeVars
  <2> QED BY <2>1, <2>2, CountSame
<1>4. AnyTimeWithinLimit'
  <2>1. \A v \in Workers, p \in Pools : OnAnyTime(v, p)' => OnAnyTime(v, p)
    BY DEF OnAnyTime, Counted, WorkerTypes, PoolTypes, Shape, IsImmediate, Release, poolVars, mainVars, lifeVars
  <2> QED BY <2>1, LimitSame
<1>5. NoIdleWhileQueued'
  BY DEF NoIdleWhileQueued, PoolTypes, WorkerTypes, Shape, Release, poolVars, mainVars, lifeVars
<1>6. TotalCoversThreads'
  <2>1. Live' = Live /\ (MainIn' <=> MainIn)
    BY DEF Live, MainIn, WorkerTypes, Release, poolVars, mainVars, lifeVars
  <2>2. totalThreads' \in Int /\ totalThreads' >= totalThreads
    BY DEF Release, poolVars, mainVars, lifeVars
  <2> QED BY <2>1, <2>2, TotalSame
<1>7. FreedWhenQuiet'
  BY DEF FreedWhenQuiet, Alive, Release, poolVars, mainVars, lifeVars
<1> QED BY <1>3, <1>4, <1>5, <1>6, <1>7

LEMMA Inv2PerformStart ==
  ASSUME Inv1, Inv2, NEW timed \in BOOLEAN, PerformStart(timed)
  PROVE  Inv2'
<1> USE ConstantsAssumption DEF Inv1, Inv2, StateTypes, ConstantsAssumption
<1>3. PoolThreadsExact'
  <2>1. \A v \in Workers, p \in Pools : Counted(v, p)' <=> Counted(v, p)
    BY DEF Counted, WorkerTypes, PoolTypes, Shape, PerformStart, WorkerStart, poolVars, workerVars
  <2>2. UNCHANGED poolThreads
    BY DEF PoolTypes, PerformStart, WorkerStart, poolVars, workerVars
  <2> QED BY <2>1, <2>2, CountSame
<1>4. AnyTimeWithinLimit'
  <2>1. \A v \in Workers, p \in Pools : OnAnyTime(v, p)' => OnAnyTime(v, p)
    BY DEF OnAnyTime, Counted, WorkerTypes, PoolTypes, Shape, IsImmediate, PerformStart, WorkerStart, poolVars, workerVars
  <2> QED BY <2>1, LimitSame
<1>5. NoIdleWhileQueued'
  BY DEF NoIdleWhileQueued, PoolTypes, WorkerTypes, Shape, PerformStart, WorkerStart, poolVars, workerVars
<1>6. TotalCoversThreads'
  <2>1. Live' = Live /\ ~MainIn /\ MainIn'
    BY DEF Live, MainIn, PerformStart, WorkerStart, poolVars, workerVars
  <2>2. totalThreads' = totalThreads + 1
    BY DEF PerformStart, WorkerStart, poolVars, workerVars
  <2> QED BY <2>1, <2>2, Sizes DEF TotalCoversThreads, Threads, Live, MainIn
<1>7. FreedWhenQuiet'
  BY DEF FreedWhenQuiet, Alive, PerformStart, WorkerStart, poolVars, workerVars, lifeVars
<1> QED BY <1>3, <1>4, <1>5, <1>6, <1>7

LEMMA Inv2PerformCheck ==
  ASSUME Inv1, Inv2, PerformCheck
  PROVE  Inv2'
<1> USE ConstantsAssumption DEF Inv1, Inv2, StateTypes, ConstantsAssumption
<1>3. PoolThreadsExact'
  <2>1. \A v \in Workers, p \in Pools : Counted(v, p)' <=> Counted(v, p)
    BY DEF Counted, WorkerTypes, PoolTypes, Shape, PerformCheck, MainTake, poolVars, workerVars
  <2>2. UNCHANGED poolThreads
    BY DEF PoolTypes, PerformCheck, MainTake, poolVars, workerVars
  <2> QED BY <2>1, <2>2, CountSame
<1>4. AnyTimeWithinLimit'
  <2>1. \A v \in Workers, p \in Pools : OnAnyTime(v, p)' => OnAnyTime(v, p)
    BY DEF OnAnyTime, Counted, WorkerTypes, PoolTypes, Shape, IsImmediate, PerformCheck, MainTake, poolVars, workerVars
  <2> QED BY <2>1, LimitSame
<1>5. NoIdleWhileQueued'
  BY DEF NoIdleWhileQueued, PoolTypes, WorkerTypes, Shape, PerformCheck, MainTake, poolVars, workerVars
<1>6. TotalCoversThreads'
  <2>1. Live' = Live /\ (MainIn' <=> MainIn)
    BY DEF Live, MainIn, WorkerTypes, PerformCheck, MainTake, poolVars, workerVars
  <2>2. totalThreads' \in Int /\ totalThreads' >= totalThreads
    BY DEF PerformCheck, MainTake, poolVars, workerVars
  <2> QED BY <2>1, <2>2, TotalSame
<1>7. FreedWhenQuiet'
  BY DEF FreedWhenQuiet, Alive, PerformCheck, MainTake, poolVars, workerVars, lifeVars
<1> QED BY <1>3, <1>4, <1>5, <1>6, <1>7

LEMMA Inv2PerformTimeout ==
  ASSUME Inv1, Inv2, PerformTimeout
  PROVE  Inv2'
<1> USE ConstantsAssumption DEF Inv1, Inv2, StateTypes, ConstantsAssumption
<1>3. PoolThreadsExact'
  <2>1. \A v \in Workers, p \in Pools : Counted(v, p)' <=> Counted(v, p)
    BY DEF Counted, WorkerTypes, PoolTypes, Shape, PerformTimeout, MainTake, poolVars, workerVars
  <2>2. UNCHANGED poolThreads
    BY DEF PoolTypes, PerformTimeout, MainTake, poolVars, workerVars
  <2> QED BY <2>1, <2>2, CountSame
<1>4. AnyTimeWithinLimit'
  <2>1. \A v \in Workers, p \in Pools : OnAnyTime(v, p)' => OnAnyTime(v, p)
    BY DEF OnAnyTime, Counted, WorkerTypes, PoolTypes, Shape, IsImmediate, PerformTimeout, MainTake, poolVars, workerVars
  <2> QED BY <2>1, LimitSame
<1>5. NoIdleWhileQueued'
  BY DEF NoIdleWhileQueued, PoolTypes, WorkerTypes, Shape, PerformTimeout, MainTake, poolVars, workerVars
<1>6. TotalCoversThreads'
  <2>1. Live' = Live /\ (MainIn' <=> MainIn)
    BY DEF Live, MainIn, WorkerTypes, PerformTimeout, MainTake, poolVars, workerVars
  <2>2. totalThreads' \in Int /\ totalThreads' >= totalThreads
    BY DEF PerformTimeout, MainTake, poolVars, workerVars
  <2> QED BY <2>1, <2>2, TotalSame
<1>7. FreedWhenQuiet'
  BY DEF FreedWhenQuiet, Alive, PerformTimeout, MainTake, poolVars, workerVars, lifeVars
<1> QED BY <1>3, <1>4, <1>5, <1>6, <1>7

LEMMA Inv2PerformExecuted ==
  ASSUME Inv1, Inv2, PerformExecuted
  PROVE  Inv2'
<1> USE ConstantsAssumption DEF Inv1, Inv2, StateTypes, ConstantsAssumption
<1>3. PoolThreadsExact'
  <2>1. \A v \in Workers, p \in Pools : Counted(v, p)' <=> Counted(v, p)
    BY DEF Counted, WorkerTypes, PoolTypes, Shape, PerformExecuted, poolVars, workerVars
  <2>2. UNCHANGED poolThreads
    BY DEF PoolTypes, PerformExecuted, poolVars, workerVars
  <2> QED BY <2>1, <2>2, CountSame
<1>4. AnyTimeWithinLimit'
  <2>1. \A v \in Workers, p \in Pools : OnAnyTime(v, p)' => OnAnyTime(v, p)
    BY DEF OnAnyTime, Counted, WorkerTypes, PoolTypes, Shape, IsImmediate, PerformExecuted, poolVars, workerVars
  <2> QED BY <2>1, LimitSame
<1>5. NoIdleWhileQueued'
  BY DEF NoIdleWhileQueued, PoolTypes, WorkerTypes, Shape, PerformExecuted, poolVars, workerVars
<1>6. TotalCoversThreads'
  <2>1. Live' = Live /\ (MainIn' <=> MainIn)
    BY DEF Live, MainIn, WorkerTypes, PerformExecuted, poolVars, workerVars
  <2>2. totalThreads' \in Int /\ totalThreads' >= totalThreads
    BY DEF PerformExecuted, poolVars, workerVars
  <2> QED BY <2>1, <2>2, TotalSame
<1>7. FreedWhenQuiet'
  BY DEF FreedWhenQuiet, Alive, PerformExecuted, poolVars, workerVars, lifeVars
<1> QED BY <1>3, <1>4, <1>5, <1>6, <1>7

LEMMA Inv2PerformEnd ==
  ASSUME Inv1, Inv2, PerformEnd
  PROVE  Inv2'
<1> USE ConstantsAssumption DEF Inv1, Inv2, StateTypes, ConstantsAssumption
<1>3. PoolThreadsExact'
  <2>1. \A v \in Workers, p \in Pools : Counted(v, p)' <=> Counted(v, p)
    BY DEF Counted, WorkerTypes, PoolTypes, Shape, PerformEnd, WorkerStop, poolVars, workerVars
  <2>2. UNCHANGED poolThreads
    BY DEF PoolTypes, PerformEnd, WorkerStop, poolVars, workerVars
  <2> QED BY <2>1, <2>2, CountSame
<1>4. AnyTimeWithinLimit'
  <2>1. \A v \in Workers, p \in Pools : OnAnyTime(v, p)' => OnAnyTime(v, p)
    BY DEF OnAnyTime, Counted, WorkerTypes, PoolTypes, Shape, IsImmediate, PerformEnd, WorkerStop, poolVars, workerVars
  <2> QED BY <2>1, LimitSame
<1>5. NoIdleWhileQueued'
  BY DEF NoIdleWhileQueued, PoolTypes, WorkerTypes, Shape, PerformEnd, WorkerStop, poolVars, workerVars
<1>6. TotalCoversThreads'
  <2>1. Live' = Live /\ MainIn /\ ~MainIn'
    BY DEF Live, MainIn, PerformEnd, WorkerStop, poolVars, workerVars
  <2>2. totalThreads' = totalThreads - 1
    BY DEF PerformEnd, WorkerStop, poolVars, workerVars
  <2> QED BY <2>1, <2>2, Sizes DEF TotalCoversThreads, Threads, Live, MainIn
<1>7. FreedWhenQuiet'
  BY DEF FreedWhenQuiet, Alive, PerformEnd, WorkerStop, poolVars, workerVars, lifeVars
<1> QED BY <1>3, <1>4, <1>5, <1>6, <1>7

LEMMA Inv2ShutdownFlag ==
  ASSUME Inv1, Inv2, ShutdownFlag
  PROVE  Inv2'
<1> USE ConstantsAssumption DEF Inv1, Inv2, StateTypes, ConstantsAssumption
<1>3. PoolThreadsExact'
  <2>1. \A v \in Workers, p \in Pools : Counted(v, p)' <=> Counted(v, p)
    BY DEF Counted, WorkerTypes, PoolTypes, Shape, ShutdownFlag, mainVars, poolVars, workerVars
  <2>2. UNCHANGED poolThreads
    BY DEF PoolTypes, ShutdownFlag, mainVars, poolVars, workerVars
  <2> QED BY <2>1, <2>2, CountSame
<1>4. AnyTimeWithinLimit'
  <2>1. \A v \in Workers, p \in Pools : OnAnyTime(v, p)' => OnAnyTime(v, p)
    BY DEF OnAnyTime, Counted, WorkerTypes, PoolTypes, Shape, IsImmediate, ShutdownFlag, mainVars, poolVars, workerVars
  <2> QED BY <2>1, LimitSame
<1>5. NoIdleWhileQueued'
  BY DEF NoIdleWhileQueued, PoolTypes, WorkerTypes, Shape, ShutdownFlag, mainVars, poolVars, workerVars
<1>6. TotalCoversThreads'
  <2>1. Live' = Live /\ (MainIn' <=> MainIn)
    BY DEF Live, MainIn, WorkerTypes, ShutdownFlag, mainVars, poolVars, workerVars
  <2>2. totalThreads' \in Int /\ totalThreads' >= totalThreads
    BY DEF ShutdownFlag, mainVars, poolVars, workerVars
  <2> QED BY <2>1, <2>2, TotalSame
<1>7. FreedWhenQuiet'
  BY DEF FreedWhenQuiet, Alive, ShutdownFlag, mainVars, poolVars, workerVars, lifeVars
<1> QED BY <1>3, <1>4, <1>5, <1>6, <1>7

LEMMA Inv2ShutdownWake ==
  ASSUME Inv1, Inv2, ShutdownWake
  PROVE  Inv2'
<1> USE ConstantsAssumption DEF Inv1, Inv2, StateTypes, ConstantsAssumption
<1>3. PoolThreadsExact'
  <2>1. \A v \in Workers, p \in Pools : Counted(v, p)' <=> Counted(v, p)
    BY DEF Counted, WorkerTypes, PoolTypes, Shape, ShutdownWake, WakeMain, poolVars, workerVars
  <2>2. UNCHANGED poolThreads
    BY DEF PoolTypes, ShutdownWake, WakeMain, poolVars, workerVars
  <2> QED BY <2>1, <2>2, CountSame
<1>4. AnyTimeWithinLimit'
  <2>1. \A v \in Workers, p \in Pools : OnAnyTime(v, p)' => OnAnyTime(v, p)
    BY DEF OnAnyTime, Counted, WorkerTypes, PoolTypes, Shape, IsImmediate, ShutdownWake, WakeMain, poolVars, workerVars
  <2> QED BY <2>1, LimitSame
<1>5. NoIdleWhileQueued'
  BY DEF NoIdleWhileQueued, PoolTypes, WorkerTypes, Shape, ShutdownWake, WakeMain, poolVars, workerVars
<1>6. TotalCoversThreads'
  <2>1. Live' = Live /\ (MainIn' <=> MainIn)
    BY DEF Live, MainIn, WorkerTypes, ShutdownWake, WakeMain, poolVars, workerVars
  <2>2. totalThreads' \in Int /\ totalThreads' >= totalThreads
    BY DEF ShutdownWake, WakeMain, poolVars, workerVars
  <2> QED BY <2>1, <2>2, TotalSame
<1>7. FreedWhenQuiet'
  BY DEF FreedWhenQuiet, Alive, ShutdownWake, WakeMain, poolVars, workerVars, lifeVars
<1> QED BY <1>3, <1>4, <1>5, <1>6, <1>7

LEMMA Inv2DtorTimeout ==
  ASSUME Inv1, Inv2, DtorTimeout
  PROVE  Inv2'
<1> USE ConstantsAssumption DEF Inv1, Inv2, StateTypes, ConstantsAssumption
<1>3. PoolThreadsExact'
  <2>1. \A v \in Workers, p \in Pools : Counted(v, p)' <=> Counted(v, p)
    BY DEF Counted, WorkerTypes, PoolTypes, Shape, DtorTimeout, mainVars, poolVars, workerVars
  <2>2. UNCHANGED poolThreads
    BY DEF PoolTypes, DtorTimeout, mainVars, poolVars, workerVars
  <2> QED BY <2>1, <2>2, CountSame
<1>4. AnyTimeWithinLimit'
  <2>1. \A v \in Workers, p \in Pools : OnAnyTime(v, p)' => OnAnyTime(v, p)
    BY DEF OnAnyTime, Counted, WorkerTypes, PoolTypes, Shape, IsImmediate, DtorTimeout, mainVars, poolVars, workerVars
  <2> QED BY <2>1, LimitSame
<1>5. NoIdleWhileQueued'
  BY DEF NoIdleWhileQueued, PoolTypes, WorkerTypes, Shape, DtorTimeout, mainVars, poolVars, workerVars
<1>6. TotalCoversThreads'
  <2>1. Live' = Live /\ (MainIn' <=> MainIn)
    BY DEF Live, MainIn, WorkerTypes, DtorTimeout, mainVars, poolVars, workerVars
  <2>2. totalThreads' \in Int /\ totalThreads' >= totalThreads
    BY DEF DtorTimeout, mainVars, poolVars, workerVars
  <2> QED BY <2>1, <2>2, TotalSame
<1>7. FreedWhenQuiet'
  BY DEF FreedWhenQuiet, Alive, DtorTimeout, mainVars, poolVars, workerVars, lifeVars
<1> QED BY <1>3, <1>4, <1>5, <1>6, <1>7

LEMMA Inv2DtorStart ==
  ASSUME Inv1, Inv2, DtorStart
  PROVE  Inv2'
<1> USE ConstantsAssumption DEF Inv1, Inv2, StateTypes, ConstantsAssumption
<1>3. PoolThreadsExact'
  <2>1. \A v \in Workers, p \in Pools : Counted(v, p)' <=> Counted(v, p)
    BY DEF Counted, WorkerTypes, PoolTypes, Shape, DtorStart, poolVars, mainVars
  <2>2. UNCHANGED poolThreads
    BY DEF PoolTypes, DtorStart, poolVars, mainVars
  <2> QED BY <2>1, <2>2, CountSame
<1>4. AnyTimeWithinLimit'
  <2>1. \A v \in Workers, p \in Pools : OnAnyTime(v, p)' => OnAnyTime(v, p)
    BY DEF OnAnyTime, Counted, WorkerTypes, PoolTypes, Shape, IsImmediate, DtorStart, poolVars, mainVars
  <2> QED BY <2>1, LimitSame
<1>5. NoIdleWhileQueued'
  BY DEF NoIdleWhileQueued, PoolTypes, WorkerTypes, Shape, DtorStart, poolVars, mainVars
<1>6. TotalCoversThreads'
  <2>1. Live' = Live /\ (MainIn' <=> MainIn)
    BY DEF Live, MainIn, WorkerTypes, DtorStart, poolVars, mainVars
  <2>2. totalThreads' \in Int /\ totalThreads' >= totalThreads
    BY DEF DtorStart, poolVars, mainVars
  <2> QED BY <2>1, <2>2, TotalSame
<1>7. FreedWhenQuiet'
  <2>1. SUFFICES ASSUME dtor' = "freed" PROVE Threads' = 0
    BY DEF FreedWhenQuiet
  <2>2. totalThreads = 0
    BY <2>1 DEF DtorStart, AllStopped
  <2>3. Threads' = Threads
    BY DEF Threads, DtorStart, poolVars, mainVars
  <2> QED BY <2>2, <2>3, ThreadsIsNat DEF TotalCoversThreads
<1> QED BY <1>3, <1>4, <1>5, <1>6, <1>7

LEMMA Inv2DtorFinish ==
  ASSUME Inv1, Inv2, DtorFinish
  PROVE  Inv2'
<1> USE ConstantsAssumption DEF Inv1, Inv2, StateTypes, ConstantsAssumption
<1>3. PoolThreadsExact'
  <2>1. \A v \in Workers, p \in Pools : Counted(v, p)' <=> Counted(v, p)
    BY DEF Counted, WorkerTypes, PoolTypes, Shape, DtorFinish, poolVars, mainVars, workerVars
  <2>2. UNCHANGED poolThreads
    BY DEF PoolTypes, DtorFinish, poolVars, mainVars, workerVars
  <2> QED BY <2>1, <2>2, CountSame
<1>4. AnyTimeWithinLimit'
  <2>1. \A v \in Workers, p \in Pools : OnAnyTime(v, p)' => OnAnyTime(v, p)
    BY DEF OnAnyTime, Counted, WorkerTypes, PoolTypes, Shape, IsImmediate, DtorFinish, poolVars, mainVars, workerVars
  <2> QED BY <2>1, LimitSame
<1>5. NoIdleWhileQueued'
  BY DEF NoIdleWhileQueued, PoolTypes, WorkerTypes, Shape, DtorFinish, poolVars, mainVars, workerVars
<1>6. TotalCoversThreads'
  <2>1. Live' = Live /\ (MainIn' <=> MainIn)
    BY DEF Live, MainIn, WorkerTypes, DtorFinish, poolVars, mainVars, workerVars
  <2>2. totalThreads' \in Int /\ totalThreads' >= totalThreads
    BY DEF DtorFinish, poolVars, mainVars, workerVars
  <2> QED BY <2>1, <2>2, TotalSame
<1>7. FreedWhenQuiet'
  <2>1. SUFFICES ASSUME dtor' = "freed" PROVE Threads' = 0
    BY DEF FreedWhenQuiet
  <2>2. totalThreads = 0
    BY <2>1 DEF DtorFinish, AllStopped
  <2>3. Threads' = Threads
    BY DEF Threads, DtorFinish, poolVars, mainVars, workerVars
  <2> QED BY <2>2, <2>3, ThreadsIsNat DEF TotalCoversThreads
<1> QED BY <1>3, <1>4, <1>5, <1>6, <1>7

LEMMA Inv2Step == Inv1 /\ Inv2 /\ [Next]_vars => Inv2'
<1> SUFFICES ASSUME Inv1, Inv2, [Next]_vars PROVE Inv2'
  OBVIOUS
<1>1. CASE UNCHANGED vars
  BY <1>1, Inv2Stutter
<1>2. ASSUME NEW t \in Tasks, Insert(t) PROVE Inv2'
  BY <1>2, Inv2InsertOnPoolIdle, Inv2InsertOnInvokerIdle,
     Inv2InsertOnNewThread, Inv2InsertWithoutThread, Inv2InsertQueued,
     Inv2InsertDedicated DEF Insert
<1>3. ASSUME NEW w \in Workers, WorkerStep(w) \/ MidTimeout(w) \/ RunTimeout(w)
      PROVE  Inv2'
  <2>1. CASE LeaveMidWait(w)
    BY <2>1, Inv2LeaveMidWait
  <2>2. CASE LeaveRunWait(w)
    BY <2>2, Inv2LeaveRunWaitHanded, Inv2LeaveRunWaitEmpty
  <2>3. CASE RunIdle(w)
    BY <2>3, Inv2RunIdleWaits, Inv2RunIdleQuits
  <2> QED
    BY <1>3, <2>1, <2>2, <2>3, Inv2MidRun, Inv2Exit, Inv2RunHanded,
       Inv2RunQueued, Inv2Executed, Inv2Leave, Inv2Release
       DEF WorkerStep, MidWake, MidTimeout, RunWake, RunTimeout
<1>4. ASSUME NEW timed \in BOOLEAN, PerformStart(timed) PROVE Inv2'
  BY <1>4, Inv2PerformStart
<1>5. CASE MainStep \/ PerformTimeout
  BY <1>5, Inv2PerformCheck, Inv2PerformExecuted, Inv2PerformEnd,
     Inv2PerformTimeout DEF MainStep
<1>6. CASE ShutdownFlag \/ ShutdownWake \/ DtorStart \/ DtorFinish \/ DtorTimeout
  BY <1>6, Inv2ShutdownFlag, Inv2ShutdownWake, Inv2DtorStart, Inv2DtorFinish,
     Inv2DtorTimeout
<1> QED
  BY <1>1, <1>2, <1>3, <1>4, <1>5, <1>6 DEF Next, Deleted

LEMMA Inv2Always == Spec => []Inv2
  BY Inv1Always, Inv2Init, Inv2Step, PTL DEF Spec

\* pd_pool_threads counts exactly the workers it should, for any number of
\* threads, pools and tasks.
THEOREM PoolThreads == Spec => []PoolThreadsExact
<1>1. Inv2 => PoolThreadsExact
  BY DEF Inv2
<1> QED BY <1>1, Inv2Always, PTL

\* The limit of a pool on AnyTime work holds whatever ImmediateDispatch tasks do.
THEOREM AnyTimeLimit == Spec => []AnyTimeWithinLimit
<1>1. Inv2 => AnyTimeWithinLimit
  BY DEF Inv2
<1> QED BY <1>1, Inv2Always, PTL

\* No worker waits in a pool with queued tasks.
THEOREM NoIdle == Spec => []NoIdleWhileQueued
<1>1. Inv2 => NoIdleWhileQueued
  BY DEF Inv2
<1> QED BY <1>1, Inv2Always, PTL

\* The pools are deleted only when no thread is left in the invoker.
THEOREM Freed == Spec => [](TotalCoversThreads /\ FreedWhenQuiet)
<1>1. Inv2 => TotalCoversThreads /\ FreedWhenQuiet
  BY DEF Inv2
<1> QED BY <1>1, Inv2Always, PTL

\* Type correctness; that the counter of threads never wraps below zero rests on
\* TotalCoversThreads.
THEOREM Types == Spec => []TypeOK
<1>1. Inv1 /\ Inv2 => TypeOK
  BY ThreadsIsNat DEF Inv1, Inv2, TypeOK, TotalCoversThreads
<1> QED BY <1>1, Inv1Always, Inv2Always, PTL

-----------------------------------------------------------------------------
(* Where the tasks are.                                                      *)

Unlike(q) == \A i, j \in DOMAIN q : q[i] = q[j] => i = j

\* A worker has a task of the pool it is lent to.
Held ==
  /\ \A w \in Workers : task[w] # None =>
       /\ status[task[w]] = "accepted" /\ TaskCat[task[w]] # "DedicatedThread"
       /\ pool[w] = TaskPool[task[w]]
  /\ \A w, v \in Workers : task[w] # None /\ task[w] = task[v] => w = v

\* A queue has tasks of its pool that no worker has.
Queued ==
  \A p \in Pools :
    /\ Unlike(queue[p])
    /\ \A t \in Tasks : InQueue(t, queue[p]) =>
         /\ status[t] = "accepted" /\ TaskCat[t] # "DedicatedThread"
         /\ TaskPool[t] = p
         /\ \A w \in Workers : task[w] # t

\* The dedicated queue, and the main thread.
Lined ==
  /\ Unlike(dedicated)
  /\ \A t \in Tasks : InQueue(t, dedicated) =>
       status[t] = "accepted" /\ TaskCat[t] = "DedicatedThread" /\ mainTask # t
  /\ mainPc = "exec" <=> mainTask # None
  /\ mainTask # None =>
       status[mainTask] = "accepted" /\ TaskCat[mainTask] = "DedicatedThread"

\* No accepted task is lost.
Kept ==
  \A t \in Tasks : status[t] = "accepted" =>
    \/ \E w \in Workers : task[w] = t
    \/ InQueue(t, queue[TaskPool[t]])
    \/ InQueue(t, dedicated)
    \/ mainTask = t

Inv3 == Held /\ Queued /\ Lined /\ Kept

LEMMA AppendIs ==
  ASSUME NEW q \in Seq(Tasks), NEW t \in Tasks
  PROVE  /\ \A u \in Tasks : InQueue(u, Append(q, t)) <=> InQueue(u, q) \/ u = t
         /\ Unlike(q) /\ ~InQueue(t, q) => Unlike(Append(q, t))
<1> DEFINE r == Append(q, t)
<1>1. /\ Len(r) = Len(q) + 1 /\ Len(q) \in Nat
      /\ DOMAIN q = 1..Len(q) /\ DOMAIN r = 1..Len(r)
      /\ r[Len(q) + 1] = t /\ \A i \in 1..Len(q) : r[i] = q[i]
  OBVIOUS
<1> HIDE DEF r
<1>2. \A u \in Tasks : InQueue(u, r) <=> InQueue(u, q) \/ u = t
  BY <1>1 DEF InQueue
<1>3. Unlike(q) /\ ~InQueue(t, q) => Unlike(r)
  BY <1>1 DEF InQueue, Unlike
<1> QED
  BY <1>2, <1>3 DEF r

LEMMA TailIs ==
  ASSUME NEW q \in Seq(Tasks), q # <<>>, Unlike(q)
  PROVE  /\ Head(q) \in Tasks /\ InQueue(Head(q), q)
         /\ \A u \in Tasks : InQueue(u, Tail(q)) <=> InQueue(u, q) /\ u # Head(q)
         /\ Unlike(Tail(q))
<1> DEFINE r == Tail(q)
<1>1. /\ Len(r) = Len(q) - 1 /\ Len(q) \in Nat /\ Len(q) >= 1
      /\ DOMAIN q = 1..Len(q) /\ DOMAIN r = 1..Len(r)
      /\ \A i \in 1..Len(r) : r[i] = q[i + 1]
      /\ Head(q) = q[1] /\ q[1] \in Tasks
  OBVIOUS
<1> HIDE DEF r
<1>2. InQueue(Head(q), q)
  BY <1>1 DEF InQueue
<1>3. ASSUME NEW u \in Tasks PROVE InQueue(u, r) <=> InQueue(u, q) /\ u # Head(q)
  <2>1. ASSUME InQueue(u, r) PROVE InQueue(u, q) /\ u # Head(q)
    BY <1>1, <2>1 DEF InQueue, Unlike
  <2>2. ASSUME InQueue(u, q), u # Head(q) PROVE InQueue(u, r)
    <3>1. PICK i \in 1..Len(q) : q[i] = u
      BY <1>1, <2>2 DEF InQueue
    <3>2. i - 1 \in 1..Len(r) /\ (i - 1) + 1 = i
      BY <1>1, <2>2, <3>1
    <3>3. r[i - 1] = u
      BY <1>1, <3>1, <3>2
    <3> QED
      BY <1>1, <3>2, <3>3 DEF InQueue
  <2> QED
    BY <2>1, <2>2
<1>4. Unlike(r)
  BY <1>1 DEF Unlike
<1> QED
  BY <1>1, <1>2, <1>3, <1>4 DEF r

-----------------------------------------------------------------------------
(* What the steps do to the tasks.                                           *)

ExecSame(S) == \A v \in Workers \ S : pc'[v] = "exec" <=> pc[v] = "exec"

Lends(S) == \A v \in Workers \ S : task[v] # None => pool'[v] = pool[v]

\* No task moves.
Still ==
  /\ UNCHANGED <<task, queue, dedicated, mainTask, status>>
  /\ mainPc' = "exec" <=> mainPc = "exec"
  /\ Lends({}) /\ ExecSame({})

\* w begins the task it was handed.
Starts(w) ==
  /\ UNCHANGED <<task, pool, queue, dedicated, mainTask, mainPc, status>>
  /\ task[w] # None /\ pc[w] \in {"run", "runwait"} /\ pc'[w] = "exec"
  /\ ExecSame({w})

\* w begins the oldest task of its pool.
Takes(w) ==
  /\ UNCHANGED <<pool, dedicated, mainTask, mainPc, status>>
  /\ task[w] = None /\ pool[w] \in Pools /\ queue[pool[w]] # <<>>
  /\ task' = [task EXCEPT ![w] = Head(queue[pool[w]])]
  /\ queue' = [queue EXCEPT ![pool[w]] = Tail(@)]
  /\ pc[w] = "run" /\ pc'[w] = "exec" /\ ExecSame({w})

Finishes(w) ==
  /\ UNCHANGED <<pool, queue, dedicated, mainTask, mainPc>>
  /\ pc[w] = "exec" /\ pc'[w] # "exec" /\ ExecSame({w})
  /\ task[w] # None
  /\ status' = [status EXCEPT ![task[w]] = "done"]
  /\ task' = [task EXCEPT ![w] = None]

\* A new task is handed to w, queued, or refused.
Arrives(t) == status[t] = "new" /\ ExecSame({}) /\ (mainPc' = "exec" <=> mainPc = "exec")

Handed(t, w) ==
  /\ Arrives(t) /\ TaskCat[t] # "DedicatedThread"
  /\ UNCHANGED <<queue, dedicated, mainTask>>
  /\ task[w] = None /\ task' = [task EXCEPT ![w] = t]
  /\ pool'[w] = TaskPool[t] /\ Lends({w})
  /\ pc[w] # "exec"
  /\ Accept(t)

Waits(t) ==
  /\ Arrives(t) /\ TaskCat[t] # "DedicatedThread"
  /\ UNCHANGED <<task, pool, dedicated, mainTask>>
  /\ queue' = [queue EXCEPT ![TaskPool[t]] = Append(@, t)]
  /\ Accept(t)

Turned(t) ==
  /\ Arrives(t) /\ IsImmediate(t)
  /\ UNCHANGED <<task, pool, queue, dedicated, mainTask>>
  /\ status' = [status EXCEPT ![t] = "refused"]

Lines(t) ==
  /\ Arrives(t) /\ TaskCat[t] = "DedicatedThread"
  /\ UNCHANGED <<task, pool, queue, mainTask>>
  /\ dedicated' = Append(dedicated, t)
  /\ Accept(t)

\* The main thread takes and ends a task.
MainBegins ==
  /\ UNCHANGED <<task, pool, queue, status>> /\ ExecSame({})
  /\ mainPc # "exec" /\ dedicated # <<>> /\ MainTake

MainEnds ==
  /\ UNCHANGED <<task, pool, queue, dedicated>> /\ ExecSame({})
  /\ mainPc = "exec" /\ mainPc' # "exec" /\ mainTask' = None
  /\ status' = [status EXCEPT ![mainTask] = "done"]

LEMMA InsertMoves ==
  ASSUME Inv1, NEW t \in Tasks, Insert(t)
  PROVE  \/ \E w \in Workers : Handed(t, w)
         \/ Waits(t) \/ Turned(t) \/ Lines(t)
<1> USE ConstantsAssumption
<1>0. StateTypes /\ Shape /\ IdleListsExact
  BY DEF Inv1
<1>1. CASE InsertOnPoolIdle(t)
  <2>1. PICK w \in poolIdle[TaskPool[t]] : task' = [task EXCEPT ![w] = t]
    BY <1>1 DEF InsertOnPoolIdle
  <2>2. w \in Workers /\ pc[w] = "runwait" /\ pool[w] = TaskPool[t] /\ task[w] = None
    BY <1>0, <2>1 DEF StateTypes, PoolTypes, IdleListsExact
  <2>3. Handed(t, w)
    BY <1>1, <2>1, <2>2
       DEF InsertOnPoolIdle, ToPool, MayInsert, Handed, Arrives, ExecSame, Lends, mainVars
  <2> QED
    BY <2>2, <2>3
<1>2. CASE InsertOnInvokerIdle(t)
  <2>1. PICK w \in invokerIdle : /\ pool' = [pool EXCEPT ![w] = TaskPool[t]]
                                 /\ task' = [task EXCEPT ![w] = t]
    BY <1>2 DEF InsertOnInvokerIdle
  <2>2. w \in Workers /\ pc[w] = "midwait" /\ pool[w] = None /\ task[w] = None
    BY <1>0, <2>1 DEF StateTypes, PoolTypes, IdleListsExact, Shape
  <2>3. Handed(t, w)
    BY <1>0, <1>2, <2>1, <2>2
       DEF InsertOnInvokerIdle, ToPool, MayInsert, Handed, Arrives, ExecSame, Lends,
           mainVars, StateTypes, WorkerTypes
  <2> QED
    BY <2>2, <2>3
<1>3. CASE InsertOnNewThread(t)
  <2>1. PICK w \in Unborn : /\ pc' = [pc EXCEPT ![w] = "mid"]
                            /\ pool' = [pool EXCEPT ![w] = TaskPool[t]]
                            /\ task' = [task EXCEPT ![w] = t]
    BY <1>3 DEF InsertOnNewThread
  <2>2. w \in Workers /\ pc[w] = "none" /\ pool[w] = None /\ task[w] = None
    BY <1>0, <2>1 DEF Unborn, Shape
  <2>3. Handed(t, w)
    BY <1>0, <1>3, <2>1, <2>2
       DEF InsertOnNewThread, ToPool, MayInsert, Handed, Arrives, ExecSame, Lends,
           mainVars, StateTypes, WorkerTypes
  <2> QED
    BY <2>2, <2>3
<1>4. CASE InsertWithoutThread(t)
  BY <1>4 DEF InsertWithoutThread, ToPool, MayInsert, Refusable, Waits, Turned, Arrives,
     ExecSame, mainVars, workerVars
<1>5. CASE InsertQueued(t)
  BY <1>5 DEF InsertQueued, ToPool, MayInsert, Waits, Arrives, ExecSame, mainVars, workerVars
<1>6. CASE InsertDedicated(t)
  BY <1>6 DEF InsertDedicated, MayInsert, WakeMain, Lines, Arrives, ExecSame, poolVars,
     workerVars
<1> QED
  BY <1>1, <1>2, <1>3, <1>4, <1>5, <1>6 DEF Insert

LEMMA WorkerMoves ==
  ASSUME Inv1, NEW w \in Workers, WorkerStep(w) \/ MidTimeout(w) \/ RunTimeout(w)
  PROVE  Still \/ Starts(w) \/ Takes(w) \/ Finishes(w)
<1> USE ConstantsAssumption
<1>0. StateTypes /\ Shape
  BY DEF Inv1
<1>1. CASE MidRun(w) \/ LeaveMidWait(w) \/ Exit(w)
  BY <1>0, <1>1 DEF MidRun, LeaveMidWait, Exit, Still, Lends, ExecSame, mainVars, poolVars,
     StateTypes, WorkerTypes
<1>2. CASE RunIdle(w) \/ Leave(w)
  BY <1>0, <1>2 DEF RunIdle, Leave, Still, Lends, ExecSame, mainVars, StateTypes, WorkerTypes
<1>3. CASE Release(w)
  BY <1>0, <1>3 DEF Release, Still, Lends, ExecSame, mainVars, poolVars, StateTypes,
     WorkerTypes, Shape
<1>4. CASE RunHanded(w)
  BY <1>0, <1>4 DEF RunHanded, Begin, Starts, ExecSame, mainVars, StateTypes, WorkerTypes
<1>5. CASE LeaveRunWait(w)
  BY <1>0, <1>5 DEF LeaveRunWait, Begin, Starts, Still, Lends, ExecSame, mainVars,
     StateTypes, WorkerTypes
<1>6. CASE RunQueued(w)
  <2>1. pool[w] \in Pools
    BY <1>0, <1>6 DEF RunQueued, Shape, StateTypes, WorkerTypes
  <2> QED
    BY <1>0, <1>6, <2>1 DEF RunQueued, Begin, Dequeue, Takes, ExecSame, mainVars,
       StateTypes, WorkerTypes
<1>7. CASE Executed(w)
  <2>1. task[w] # None
    BY <1>0, <1>7 DEF Executed, Shape
  <2> QED
    BY <1>0, <1>7, <2>1 DEF Executed, Finishes, ExecSame, mainVars, StateTypes, WorkerTypes
<1> QED
  BY <1>1, <1>2, <1>3, <1>4, <1>5, <1>6, <1>7
     DEF WorkerStep, MidWake, MidTimeout, RunWake, RunTimeout

LEMMA OtherMoves ==
  ASSUME Inv1, \/ \E timed \in BOOLEAN : PerformStart(timed)
               \/ MainStep \/ PerformTimeout
               \/ ShutdownFlag \/ ShutdownWake \/ DtorStart \/ DtorFinish \/ DtorTimeout
               \/ UNCHANGED vars
  PROVE  Still \/ MainBegins \/ MainEnds
<1>1. CASE \E timed \in BOOLEAN : PerformStart(timed)
  BY <1>1 DEF PerformStart, Still, Lends, ExecSame, poolVars, workerVars
<1>2. CASE PerformCheck \/ PerformTimeout
  BY <1>2 DEF PerformCheck, PerformTimeout, WorkPending, MainTake, MainBegins, Still,
     Lends, ExecSame, poolVars, workerVars
<1>3. CASE PerformExecuted
  BY <1>3 DEF PerformExecuted, MainEnds, ExecSame, poolVars, workerVars
<1>4. CASE PerformEnd
  BY <1>4 DEF PerformEnd, Still, Lends, ExecSame, poolVars, workerVars
<1>5. CASE ShutdownFlag \/ DtorFinish \/ DtorTimeout \/ UNCHANGED vars
  BY <1>5 DEF ShutdownFlag, DtorFinish, DtorTimeout, vars, Still, Lends, ExecSame,
     poolVars, workerVars, mainVars
<1>6. CASE ShutdownWake \/ DtorStart
  BY <1>6 DEF ShutdownWake, WakeMain, DtorStart, Still, Lends, ExecSame, poolVars,
     workerVars, mainVars
<1> QED
  BY <1>1, <1>2, <1>3, <1>4, <1>5, <1>6 DEF MainStep

-----------------------------------------------------------------------------
(* Inv3 holds initially and is preserved by every step.                      *)

LEMMA Inv3Init == Init => Inv3
<1> SUFFICES ASSUME Init PROVE Inv3
  OBVIOUS
<1>1. \A q : q = <<>> => Unlike(q) /\ \A t \in Tasks : ~InQueue(t, q)
  BY DEF Unlike, InQueue
<1>2. Held /\ Kept
  BY DEF Init, Held, Kept
<1>3. Queued
  BY <1>1 DEF Init, Queued
<1>4. Lined
  BY <1>1 DEF Init, Lined
<1> QED
  BY <1>2, <1>3, <1>4 DEF Inv3

LEMMA Inv3Still ==
  ASSUME Inv3, Still PROVE Inv3'
<1>1. Held'
  BY DEF Inv3, Held, Still, Lends
<1>2. Queued' /\ Lined' /\ Kept'
  BY DEF Inv3, Queued, Lined, Kept, Still, InQueue, Unlike
<1> QED
  BY <1>1, <1>2 DEF Inv3

LEMMA Inv3Starts ==
  ASSUME Inv3, NEW w \in Workers, Starts(w) PROVE Inv3'
BY DEF Inv3, Held, Queued, Lined, Kept, Starts, InQueue, Unlike

LEMMA Inv3Takes ==
  ASSUME StateTypes, Inv3, NEW w \in Workers, Takes(w) PROVE Inv3'
<1> USE ConstantsAssumption
<1>1. PICK p, q, u : p = pool[w] /\ q = queue[p] /\ u = Head(q)
  OBVIOUS
<1>2. /\ p \in Pools /\ q \in Seq(Tasks) /\ q # <<>> /\ Unlike(q)
      /\ task \in [Workers -> Tasks \cup {None}] /\ queue \in [Pools -> Seq(Tasks)]
  BY <1>1 DEF Takes, StateTypes, PoolTypes, WorkerTypes, Inv3, Queued
<1>3. /\ u \in Tasks /\ InQueue(u, q) /\ Unlike(Tail(q))
      /\ \A v \in Tasks : InQueue(v, Tail(q)) <=> InQueue(v, q) /\ v # u
  BY <1>1, <1>2, TailIs
<1>4. /\ task' = [task EXCEPT ![w] = u] /\ queue' = [queue EXCEPT ![p] = Tail(q)]
      /\ task[w] = None /\ UNCHANGED <<pool, dedicated, mainTask, mainPc, status>>
  BY <1>1 DEF Takes
<1>5. /\ status[u] = "accepted" /\ TaskCat[u] # "DedicatedThread" /\ TaskPool[u] = p
      /\ \A v \in Workers : task[v] # u
  BY <1>1, <1>2, <1>3 DEF Inv3, Queued
<1>6. task'[w] = u /\ \A v \in Workers : v # w => task'[v] = task[v]
  BY <1>2, <1>4
<1>7. queue'[p] = Tail(q) /\ \A o \in Pools : o # p => queue'[o] = queue[o]
  BY <1>2, <1>4
<1>8. Held'
  BY <1>1, <1>4, <1>5, <1>6 DEF Inv3, Held
<1>9. Queued'
  <2> SUFFICES ASSUME NEW o \in Pools
               PROVE  /\ Unlike(queue'[o])
                      /\ \A t \in Tasks : InQueue(t, queue'[o]) =>
                           /\ status[t] = "accepted" /\ TaskCat[t] # "DedicatedThread"
                           /\ TaskPool[t] = o
                           /\ \A v \in Workers : task'[v] # t
    BY <1>4 DEF Queued
  <2>1. CASE o = p
    BY <1>1, <1>3, <1>6, <1>7, <2>1 DEF Inv3, Queued
  <2>2. CASE o # p
    BY <1>5, <1>6, <1>7, <2>2 DEF Inv3, Queued
  <2> QED
    BY <2>1, <2>2
<1>10. Lined'
  BY <1>4 DEF Inv3, Lined
<1>11. Kept'
  <2> SUFFICES ASSUME NEW t \in Tasks, status[t] = "accepted"
               PROVE  \/ \E v \in Workers : task'[v] = t
                      \/ InQueue(t, queue'[TaskPool[t]])
                      \/ InQueue(t, dedicated) \/ mainTask = t
    BY <1>4 DEF Kept
  <2>1. CASE t = u
    BY <1>6, <2>1
  <2>2. CASE t # u
    <3>1. \/ \E v \in Workers : task[v] = t
          \/ InQueue(t, queue[TaskPool[t]])
          \/ InQueue(t, dedicated) \/ mainTask = t
      BY DEF Inv3, Kept
    <3>2. t # None
      OBVIOUS
    <3>3. InQueue(t, queue[TaskPool[t]]) => InQueue(t, queue'[TaskPool[t]])
      BY <1>1, <1>3, <1>7, <2>2
    <3> QED
      BY <1>4, <1>6, <3>1, <3>2, <3>3
  <2> QED
    BY <2>1, <2>2
<1> QED
  BY <1>8, <1>9, <1>10, <1>11 DEF Inv3

LEMMA Inv3Finishes ==
  ASSUME StateTypes, Inv3, NEW w \in Workers, Finishes(w) PROVE Inv3'
<1> USE ConstantsAssumption
<1>1. PICK u : u = task[w]
  OBVIOUS
<1>2. /\ u \in Tasks /\ u # None /\ status[u] = "accepted"
      /\ TaskCat[u] # "DedicatedThread"
      /\ task' = [task EXCEPT ![w] = None] /\ status' = [status EXCEPT ![u] = "done"]
      /\ UNCHANGED <<pool, queue, dedicated, mainTask, mainPc>>
  BY <1>1 DEF Finishes, Inv3, Held, StateTypes, WorkerTypes
<1>3. /\ task'[w] = None /\ \A v \in Workers : v # w => task'[v] = task[v]
      /\ \A t \in Tasks : t # u => status'[t] = status[t]
      /\ status'[u] = "done"
  BY <1>2 DEF StateTypes, WorkerTypes, LifeTypes
<1>4. \A v \in Workers : v # w => task[v] # u
  BY <1>1, <1>2 DEF Inv3, Held
<1>5. Held'
  BY <1>2, <1>3, <1>4 DEF Inv3, Held, StateTypes, WorkerTypes
<1>6. Queued'
  BY <1>1, <1>2, <1>3 DEF Inv3, Queued
<1>7. Lined'
  BY <1>2, <1>3 DEF Inv3, Lined, StateTypes, MainTypes
<1>8. Kept'
  BY <1>1, <1>2, <1>3 DEF Inv3, Kept
<1> QED
  BY <1>5, <1>6, <1>7, <1>8 DEF Inv3

\* A task that is new is nowhere.
LEMMA NewNowhere ==
  ASSUME StateTypes, Inv3, NEW t \in Tasks, status[t] = "new"
  PROVE  /\ \A w \in Workers : task[w] # t
         /\ \A p \in Pools : ~InQueue(t, queue[p])
         /\ ~InQueue(t, dedicated) /\ mainTask # t
BY ConstantsAssumption DEF Inv3, Held, Queued, Lined

LEMMA Inv3Handed ==
  ASSUME StateTypes, Inv3, NEW t \in Tasks, NEW w \in Workers, Handed(t, w)
  PROVE  Inv3'
<1> USE ConstantsAssumption
<1>1. /\ status[t] = "new" /\ TaskCat[t] # "DedicatedThread"
      /\ UNCHANGED <<queue, dedicated, mainTask>>
      /\ task[w] = None /\ task' = [task EXCEPT ![w] = t]
      /\ pool'[w] = TaskPool[t] /\ (mainPc' = "exec" <=> mainPc = "exec")
      /\ status' = [status EXCEPT ![t] = "accepted"]
      /\ \A v \in Workers : v # w /\ task[v] # None => pool'[v] = pool[v]
  BY DEF Handed, Arrives, Accept, Lends
<1>2. /\ task'[w] = t /\ \A v \in Workers : v # w => task'[v] = task[v]
      /\ status'[t] = "accepted" /\ \A u \in Tasks : u # t => status'[u] = status[u]
  BY <1>1 DEF StateTypes, WorkerTypes, LifeTypes
<1>3. /\ \A v \in Workers : task[v] # t
      /\ \A p \in Pools : ~InQueue(t, queue[p])
      /\ ~InQueue(t, dedicated) /\ mainTask # t
  BY <1>1, NewNowhere
<1>4. \A v \in Workers : task[v] \in Tasks \cup {None}
  BY DEF StateTypes, WorkerTypes
<1>5. Held'
  BY <1>1, <1>2, <1>3, <1>4 DEF Inv3, Held
<1>6. Queued'
  BY <1>1, <1>2, <1>3 DEF Inv3, Queued
<1>7. Lined'
  BY <1>1, <1>2, <1>3 DEF Inv3, Lined, StateTypes, MainTypes
<1>8. Kept'
  BY <1>1, <1>2, <1>3 DEF Inv3, Kept
<1> QED
  BY <1>5, <1>6, <1>7, <1>8 DEF Inv3

LEMMA Inv3Waits ==
  ASSUME StateTypes, Inv3, NEW t \in Tasks, Waits(t) PROVE Inv3'
<1> USE ConstantsAssumption
<1>1. PICK p, q : p = TaskPool[t] /\ q = queue[p]
  OBVIOUS
<1>2. /\ status[t] = "new" /\ TaskCat[t] # "DedicatedThread"
      /\ UNCHANGED <<task, pool, dedicated, mainTask>>
      /\ queue' = [queue EXCEPT ![p] = Append(q, t)]
      /\ (mainPc' = "exec" <=> mainPc = "exec")
      /\ status' = [status EXCEPT ![t] = "accepted"]
      /\ p \in Pools /\ q \in Seq(Tasks) /\ Unlike(q)
  BY <1>1 DEF Waits, Arrives, Accept, StateTypes, PoolTypes, Inv3, Queued
<1>3. /\ queue'[p] = Append(q, t) /\ \A o \in Pools : o # p => queue'[o] = queue[o]
      /\ status'[t] = "accepted" /\ \A u \in Tasks : u # t => status'[u] = status[u]
  BY <1>2 DEF StateTypes, PoolTypes, LifeTypes
<1>4. /\ \A v \in Workers : task[v] # t
      /\ \A o \in Pools : ~InQueue(t, queue[o])
      /\ ~InQueue(t, dedicated) /\ mainTask # t
  BY <1>2, NewNowhere
<1>5. /\ \A u \in Tasks : InQueue(u, Append(q, t)) <=> InQueue(u, q) \/ u = t
      /\ Unlike(Append(q, t))
  BY <1>1, <1>2, <1>4, AppendIs
<1>6. Held'
  BY <1>2, <1>3, <1>4 DEF Inv3, Held, StateTypes, WorkerTypes
<1>7. Queued'
  <2> SUFFICES ASSUME NEW o \in Pools
               PROVE  /\ Unlike(queue'[o])
                      /\ \A u \in Tasks : InQueue(u, queue'[o]) =>
                           /\ status'[u] = "accepted" /\ TaskCat[u] # "DedicatedThread"
                           /\ TaskPool[u] = o
                           /\ \A v \in Workers : task[v] # u
    BY <1>2 DEF Queued
  <2>1. CASE o = p
    BY <1>1, <1>2, <1>3, <1>4, <1>5, <2>1 DEF Inv3, Queued
  <2>2. CASE o # p
    BY <1>3, <1>4, <2>2 DEF Inv3, Queued
  <2> QED
    BY <2>1, <2>2
<1>8. Lined'
  BY <1>2, <1>3, <1>4 DEF Inv3, Lined, StateTypes, MainTypes
<1>9. Kept'
  <2> SUFFICES ASSUME NEW u \in Tasks, status'[u] = "accepted"
               PROVE  \/ \E v \in Workers : task[v] = u
                      \/ InQueue(u, queue'[TaskPool[u]])
                      \/ InQueue(u, dedicated) \/ mainTask = u
    BY <1>2 DEF Kept
  <2>1. CASE u = t
    BY <1>1, <1>3, <1>5, <2>1
  <2>2. CASE u # t
    BY <1>1, <1>3, <1>5, <2>2 DEF Inv3, Kept
  <2> QED
    BY <2>1, <2>2
<1> QED
  BY <1>6, <1>7, <1>8, <1>9 DEF Inv3

LEMMA Inv3Turned ==
  ASSUME StateTypes, Inv3, NEW t \in Tasks, Turned(t) PROVE Inv3'
<1> USE ConstantsAssumption
<1>1. /\ status[t] = "new" /\ UNCHANGED <<task, pool, queue, dedicated, mainTask>>
      /\ (mainPc' = "exec" <=> mainPc = "exec")
      /\ status' = [status EXCEPT ![t] = "refused"]
  BY DEF Turned, Arrives
<1>2. status'[t] = "refused" /\ \A u \in Tasks : u # t => status'[u] = status[u]
  BY <1>1 DEF StateTypes, LifeTypes
<1>3. /\ \A v \in Workers : task[v] # t
      /\ \A o \in Pools : ~InQueue(t, queue[o])
      /\ ~InQueue(t, dedicated) /\ mainTask # t
  BY <1>1, NewNowhere
<1>4. Held' /\ Queued' /\ Kept'
  BY <1>1, <1>2, <1>3 DEF Inv3, Held, Queued, Kept, StateTypes, WorkerTypes
<1>5. Lined'
  BY <1>1, <1>2, <1>3 DEF Inv3, Lined, StateTypes, MainTypes
<1> QED
  BY <1>4, <1>5 DEF Inv3

LEMMA Inv3Lines ==
  ASSUME StateTypes, Inv3, NEW t \in Tasks, Lines(t) PROVE Inv3'
<1> USE ConstantsAssumption
<1>1. /\ status[t] = "new" /\ TaskCat[t] = "DedicatedThread"
      /\ UNCHANGED <<task, pool, queue, mainTask>>
      /\ dedicated' = Append(dedicated, t)
      /\ (mainPc' = "exec" <=> mainPc = "exec")
      /\ status' = [status EXCEPT ![t] = "accepted"]
      /\ dedicated \in Seq(Tasks) /\ Unlike(dedicated)
  BY DEF Lines, Arrives, Accept, StateTypes, MainTypes, Inv3, Lined
<1>2. status'[t] = "accepted" /\ \A u \in Tasks : u # t => status'[u] = status[u]
  BY <1>1 DEF StateTypes, LifeTypes
<1>3. /\ \A v \in Workers : task[v] # t
      /\ \A o \in Pools : ~InQueue(t, queue[o])
      /\ ~InQueue(t, dedicated) /\ mainTask # t
  BY <1>1, NewNowhere
<1>4. /\ \A u \in Tasks : InQueue(u, dedicated') <=> InQueue(u, dedicated) \/ u = t
      /\ Unlike(dedicated')
  BY <1>1, <1>3, AppendIs
<1>5. Held' /\ Queued'
  BY <1>1, <1>2, <1>3 DEF Inv3, Held, Queued, StateTypes, WorkerTypes
<1>6. Lined'
  BY <1>1, <1>2, <1>3, <1>4 DEF Inv3, Lined, StateTypes, MainTypes
<1>7. Kept'
  BY <1>1, <1>2, <1>4 DEF Inv3, Kept
<1> QED
  BY <1>5, <1>6, <1>7 DEF Inv3

LEMMA Inv3MainBegins ==
  ASSUME StateTypes, Inv3, MainBegins PROVE Inv3'
<1> USE ConstantsAssumption
<1>1. PICK u : u = Head(dedicated)
  OBVIOUS
<1>2. /\ UNCHANGED <<task, pool, queue, status>>
      /\ mainPc # "exec" /\ dedicated # <<>> /\ mainPc' = "exec"
      /\ mainTask' = u /\ dedicated' = Tail(dedicated)
      /\ dedicated \in Seq(Tasks) /\ Unlike(dedicated) /\ mainTask = None
  BY <1>1 DEF MainBegins, MainTake, StateTypes, MainTypes, Inv3, Lined
<1>3. /\ u \in Tasks /\ InQueue(u, dedicated) /\ Unlike(dedicated')
      /\ \A v \in Tasks : InQueue(v, dedicated') <=> InQueue(v, dedicated) /\ v # u
  BY <1>1, <1>2, TailIs
<1>4. Held' /\ Queued'
  BY <1>2 DEF Inv3, Held, Queued
<1>5. Lined'
  BY <1>2, <1>3 DEF Inv3, Lined
<1>6. Kept'
  BY <1>2, <1>3 DEF Inv3, Kept
<1> QED
  BY <1>4, <1>5, <1>6 DEF Inv3

LEMMA Inv3MainEnds ==
  ASSUME StateTypes, Inv3, MainEnds PROVE Inv3'
<1> USE ConstantsAssumption
<1>1. PICK u : u = mainTask
  OBVIOUS
<1>2. /\ UNCHANGED <<task, pool, queue, dedicated>>
      /\ mainPc' # "exec" /\ mainTask' = None /\ status' = [status EXCEPT ![u] = "done"]
      /\ u \in Tasks /\ status[u] = "accepted" /\ TaskCat[u] = "DedicatedThread"
  BY <1>1 DEF MainEnds, StateTypes, MainTypes, Inv3, Lined
<1>3. status'[u] = "done" /\ \A t \in Tasks : t # u => status'[t] = status[t]
  BY <1>2 DEF StateTypes, LifeTypes
<1>4. Held'
  BY <1>2, <1>3 DEF Inv3, Held, StateTypes, WorkerTypes
<1>5. Queued' /\ Kept'
  BY <1>1, <1>2, <1>3 DEF Inv3, Queued, Kept
<1>6. Lined'
  BY <1>1, <1>2, <1>3 DEF Inv3, Lined
<1> QED
  BY <1>4, <1>5, <1>6 DEF Inv3

LEMMA Moves ==
  ASSUME Inv1, [Next]_vars
  PROVE  \/ Still \/ MainBegins \/ MainEnds
         \/ \E w \in Workers : Starts(w) \/ Takes(w) \/ Finishes(w)
         \/ \E t \in Tasks : \/ Waits(t) \/ Turned(t) \/ Lines(t)
                             \/ \E w \in Workers : Handed(t, w)
BY InsertMoves, WorkerMoves, OtherMoves DEF Next, Deleted

LEMMA Inv3Step == Inv1 /\ Inv3 /\ [Next]_vars => Inv3'
BY Moves, Inv3Still, Inv3MainBegins, Inv3MainEnds, Inv3Starts, Inv3Takes, Inv3Finishes,
   Inv3Waits, Inv3Turned, Inv3Lines, Inv3Handed DEF Inv1

LEMMA Inv3Always == Spec => []Inv3
BY Inv1Always, Inv3Init, Inv3Step, PTL DEF Spec

-----------------------------------------------------------------------------
(* A task is in one place.                                                   *)

LEMMA OneOrNone ==
  ASSUME NEW S, \A a, b \in S : a = b
  PROVE  Cardinality(S) = IF S = {} THEN 0 ELSE 1
<1>1. CASE S = {}
  BY <1>1, FS_EmptySet
<1>2. CASE S # {}
  <2>1. PICK x : S = {x}
    BY <1>2
  <2> QED
    BY <1>2, <2>1, FS_Singleton
<1> QED
  BY <1>1, <1>2

\* An accepted task is once in one queue or held by one thread, and any other is
\* nowhere (insert() and real_run(), invoker.cc:231-270, 392-437, 529-604).
THEOREM OnePlace == Spec => []TaskInOnePlace
<1> USE ConstantsAssumption
<1>1. ASSUME StateTypes, Inv3 PROVE TaskInOnePlace
  <2> SUFFICES ASSUME NEW t \in Tasks
      PROVE  LET holders == {w \in Workers : task[w] = t}
                 slots == UNION {{p} \X {i \in DOMAIN queue[p] : queue[p][i] = t} :
                                   p \in Pools}
                 main == {i \in DOMAIN dedicated : dedicated[i] = t}
                 n == Cardinality(holders) + Cardinality(slots) + Cardinality(main)
                        + (IF mainTask = t THEN 1 ELSE 0)
             IN  n = IF status[t] = "accepted" THEN 1 ELSE 0
    BY DEF TaskInOnePlace
  <2> DEFINE H == {w \in Workers : task[w] = t}
             S == UNION {{p} \X {i \in DOMAIN queue[p] : queue[p][i] = t} : p \in Pools}
             M == {i \in DOMAIN dedicated : dedicated[i] = t}
  <2>0. t # None
    OBVIOUS
  <2>1. \A a, b \in H : a = b
    BY <1>1, <2>0 DEF Inv3, Held
  <2>2. \A a, b \in M : a = b
    BY <1>1 DEF Inv3, Lined, Unlike
  <2>3. \A a \in S : \E i \in DOMAIN queue[TaskPool[t]] :
          a = <<TaskPool[t], i>> /\ queue[TaskPool[t]][i] = t
    <3> SUFFICES ASSUME NEW p \in Pools,
                        NEW i \in DOMAIN queue[p], queue[p][i] = t
                 PROVE  p = TaskPool[t]
      OBVIOUS
    <3> QED
      BY <1>1 DEF Inv3, Queued, InQueue
  <2>4. TaskPool[t] \in Pools
    OBVIOUS
  <2>5. \A a, b \in S : a = b
    BY <1>1, <2>3, <2>4 DEF Inv3, Queued, Unlike
  <2>6. /\ H # {} <=> \E w \in Workers : task[w] = t
        /\ M # {} <=> InQueue(t, dedicated)
    BY DEF InQueue
  <2>7. S # {} <=> InQueue(t, queue[TaskPool[t]])
    <3>1. ASSUME InQueue(t, queue[TaskPool[t]]) PROVE S # {}
      <4>1. PICK i \in DOMAIN queue[TaskPool[t]] : queue[TaskPool[t]][i] = t
        BY <3>1 DEF InQueue
      <4>2. <<TaskPool[t], i>> \in S
        BY <2>4, <4>1
      <4> QED
        BY <4>2
    <3>2. ASSUME S # {} PROVE InQueue(t, queue[TaskPool[t]])
      BY <2>3, <3>2 DEF InQueue
    <3> QED
      BY <3>1, <3>2
  <2> HIDE DEF H, S, M
  <2>8. /\ Cardinality(H) = IF H = {} THEN 0 ELSE 1
        /\ Cardinality(S) = IF S = {} THEN 0 ELSE 1
        /\ Cardinality(M) = IF M = {} THEN 0 ELSE 1
    BY <2>1, <2>2, <2>5, OneOrNone
  <2>9. CASE status[t] # "accepted"
    <3>1. H = {} /\ S = {} /\ M = {} /\ mainTask # t
      BY <1>1, <2>0, <2>4, <2>6, <2>7, <2>9 DEF Inv3, Held, Queued, Lined
    <3> QED
      BY <2>8, <2>9, <3>1 DEF H, S, M
  <2>10. CASE status[t] = "accepted"
    <3>1. \/ H # {} /\ S = {} /\ M = {} /\ mainTask # t
          \/ H = {} /\ S # {} /\ M = {} /\ mainTask # t
          \/ H = {} /\ S = {} /\ M # {} /\ mainTask # t
          \/ H = {} /\ S = {} /\ M = {} /\ mainTask = t
      BY <1>1, <2>0, <2>4, <2>6, <2>7, <2>10 DEF Inv3, Held, Queued, Lined, Kept
    <3> QED
      BY <2>8, <2>10, <3>1 DEF H, S, M
  <2> QED
    BY <2>9, <2>10
<1> QED
  BY <1>1, Inv1Always, Inv3Always, PTL DEF Inv1

-----------------------------------------------------------------------------
(* The invoker implements TaskService.                                       *)

LEMMA StateIs ==
  \A t \in Tasks : TaskState[t] = IF status[t] # "accepted" THEN status[t]
                                  ELSE IF Running(t) THEN "running" ELSE "waiting"
BY DEF TaskState

LEMMA StateWill ==
  \A t \in Tasks : TaskState'[t] = IF status'[t] # "accepted" THEN status'[t]
                                   ELSE IF Running(t)' THEN "running" ELSE "waiting"
BY DEF TaskState

LEMMA StateSame ==
  ASSUME \A t \in Tasks : TaskState'[t] = TaskState[t]
  PROVE  TaskState' = TaskState
<1>1. /\ TaskState' = [t \in Tasks |-> TaskState'[t]]
      /\ TaskState = [t \in Tasks |-> TaskState[t]]
  BY DEF TaskState
<1> QED
  BY <1>1, Zenon

LEMMA StateMoves ==
  ASSUME NEW t \in Tasks, NEW s, TaskState'[t] = s,
         \A u \in Tasks : u # t => TaskState'[u] = TaskState[u]
  PROVE  TaskState' = [TaskState EXCEPT ![t] = s]
<1>1. /\ TaskState' = [u \in Tasks |-> TaskState'[u]]
      /\ TaskState = [u \in Tasks |-> TaskState[u]]
  BY DEF TaskState
<1>2. PICK A, B : A = TaskState' /\ B = TaskState
  OBVIOUS
<1>3. A = [B EXCEPT ![t] = s]
  BY <1>1, <1>2
<1> QED
  BY <1>2, <1>3

\* TaskService, instantiated, counts with a Cardinality of its own.
LEMMA SameCount ==
  ASSUME NEW S PROVE Service!Cardinality(S) = Cardinality(S)
  BY DEF Service!Cardinality, Cardinality

\* Who executes an AnyTime task of a pool is one of the workers that the limit
\* counts: while w is another of them, the pool is below its limit.
LEMMA RunningFew ==
  ASSUME StateTypes, Shape, Inv3, AnyTimeWithinLimit,
         NEW p \in Pools, NEW w \in Workers, OnAnyTime(w, p), pc[w] # "exec"
  PROVE  Cardinality(Service!RunningAnyTime(p)) < PoolMax[p]
<1> USE ConstantsAssumption
<1> DEFINE E == {v \in Workers : OnAnyTime(v, p) /\ pc[v] = "exec"}
           R == Service!RunningAnyTime(p)
           O == OnAnyTimeIn(p)
           f == [v \in E |-> task[v]]
<1>1. \A v \in E : task[v] \in R
  <2> SUFFICES ASSUME NEW v \in Workers, OnAnyTime(v, p), pc[v] = "exec"
               PROVE  task[v] \in R
    OBVIOUS
  <2>1. task[v] # None /\ task[v] \in Tasks
    BY DEF Shape, StateTypes, WorkerTypes
  <2>2. /\ status[task[v]] = "accepted" /\ TaskPool[task[v]] = p
        /\ TaskCat[task[v]] = "AnyTime"
    BY <2>1 DEF Inv3, Held, OnAnyTime, Counted, IsImmediate
  <2>3. TaskState[task[v]] = "running"
    BY <2>1, <2>2, StateIs DEF Running
  <2> QED
    BY <2>1, <2>2, <2>3 DEF Service!RunningAnyTime
<1>2. \A t \in R : \E v \in E : task[v] = t
  <2> SUFFICES ASSUME NEW t \in Tasks, TaskCat[t] = "AnyTime", TaskPool[t] = p,
                      TaskState[t] = "running"
               PROVE  \E v \in E : task[v] = t
    BY DEF Service!RunningAnyTime
  <2>1. status[t] = "accepted" /\ Running(t)
    BY StateIs DEF StateTypes, LifeTypes
  <2>2. mainTask # t
    BY DEF Inv3, Lined
  <2>3. PICK v \in Workers : pc[v] = "exec" /\ task[v] = t
    BY <2>1, <2>2 DEF Running
  <2>4. pool[v] = p /\ ~immediate[v]
    BY <2>3 DEF Inv3, Held, Shape, IsImmediate
  <2>5. OnAnyTime(v, p)
    BY <2>3, <2>4 DEF OnAnyTime, Counted, IsImmediate
  <2> QED
    BY <2>3, <2>5
<1>3. f \in Surjection(E, R)
  <2> HIDE DEF E, R
  <2> QED
    BY <1>1, <1>2 DEF Surjection
<1>4. IsFiniteSet(E) /\ IsFiniteSet(O) /\ w \in O /\ E \subseteq O \ {w}
  <2>1. E \in SUBSET Workers /\ O \in SUBSET Workers
    BY DEF OnAnyTimeIn
  <2> QED
    BY <2>1, FS_Subset DEF OnAnyTimeIn
<1> HIDE DEF E, R, O, f
<1>5. Cardinality(R) <= Cardinality(E) /\ IsFiniteSet(R)
  BY <1>3, <1>4, FS_Surjection
<1>6. IsFiniteSet(O \ {w}) /\ Cardinality(O \ {w}) = Cardinality(O) - 1
  BY <1>4, FS_RemoveElement
<1>7. Cardinality(E) <= Cardinality(O \ {w})
  BY <1>4, <1>6, FS_Subset
<1>8. Cardinality(O) <= PoolMax[p] /\ PoolMax[p] \in Nat
  BY DEF AnyTimeWithinLimit, O, OnAnyTimeIn
<1>9. Cardinality(R) \in Nat /\ Cardinality(E) \in Nat /\ Cardinality(O) \in Nat
  BY <1>4, <1>5, FS_CardinalityType
<1>10. Cardinality(R) < PoolMax[p]
  BY <1>5, <1>6, <1>7, <1>8, <1>9
<1> QED
  BY <1>10 DEF R

\* What a worker executes is not executed by another, nor by the main thread.
LEMMA RunningIs ==
  ASSUME StateTypes, Inv3, NEW w \in Workers, task[w] # None
  PROVE  /\ task[w] \in Tasks /\ status[task[w]] = "accepted"
         /\ TaskCat[task[w]] # "DedicatedThread" /\ mainTask # task[w]
         /\ Running(task[w]) <=> pc[w] = "exec"
<1>1. /\ task[w] \in Tasks /\ status[task[w]] = "accepted"
      /\ TaskCat[task[w]] # "DedicatedThread" /\ mainTask # task[w]
  BY DEF StateTypes, WorkerTypes, Inv3, Held, Lined
<1>2. \A v \in Workers : task[v] = task[w] => v = w
  BY DEF Inv3, Held
<1> QED
  BY <1>1, <1>2 DEF Running

LEMMA ServiceStill ==
  ASSUME Still PROVE UNCHANGED Service!vars
<1>1. \A t \in Tasks : Running(t)' <=> Running(t)
  BY DEF Still, ExecSame, Running
<1>2. \A t \in Tasks : TaskState'[t] = TaskState[t]
  BY <1>1, StateIs, StateWill DEF Still
<1> QED
  BY <1>2, StateSame DEF Still, Service!vars

\* w begins t, which nobody executed.
LEMMA ServiceRuns ==
  ASSUME StateTypes, Shape, Inv3, AnyTimeWithinLimit, NEW w \in Workers, NEW t \in Tasks,
         pc[w] \in {"run", "runwait"}, pc'[w] = "exec", ExecSame({w}),
         pool[w] = TaskPool[t], task[w] \in {t, None}, task'[w] = t,
         \A v \in Workers : v # w => task'[v] = task[v] /\ task[v] # t,
         UNCHANGED <<mainTask, mainPc, dedicated, status>>,
         status[t] = "accepted", TaskCat[t] # "DedicatedThread"
  PROVE  Service!Next
<1> USE ConstantsAssumption
<1>0. t # None /\ mainTask # t
  BY DEF Inv3, Lined
<1>1. ~Running(t) /\ Running(t)'
  BY <1>0 DEF Running
<1>2. \A u \in Tasks : u # t => (Running(u)' <=> Running(u))
  BY DEF ExecSame, Running
<1>3. TaskState[t] = "waiting" /\ TaskState'[t] = "running"
  BY <1>1, StateIs, StateWill
<1>4. \A u \in Tasks : u # t => TaskState'[u] = TaskState[u]
  BY <1>2, StateIs, StateWill
<1>5. TaskState' = [TaskState EXCEPT ![t] = "running"]
  BY <1>3, <1>4, StateMoves
<1>6. ASSUME TaskCat[t] = "AnyTime"
      PROVE  Cardinality(Service!RunningAnyTime(TaskPool[t])) < PoolMax[TaskPool[t]]
  <2>1. OnAnyTime(w, TaskPool[t])
    BY <1>6 DEF OnAnyTime, Counted, IsImmediate
  <2> QED
    BY <2>1, RunningFew
<1>7. TaskCat[t] \in {"AnyTime", "ImmediateDispatch"}
  OBVIOUS
<1>8. Service!Run(t)
  BY <1>3, <1>5, <1>6, <1>7, SameCount DEF Service!Run
<1> QED
  BY <1>8 DEF Service!Next

LEMMA ServiceStarts ==
  ASSUME StateTypes, Shape, Inv3, AnyTimeWithinLimit, NEW w \in Workers, Starts(w)
  PROVE  Service!Next
<1>1. PICK t : t = task[w]
  OBVIOUS
<1>2. /\ t \in Tasks /\ status[t] = "accepted" /\ TaskCat[t] # "DedicatedThread"
      /\ pool[w] = TaskPool[t] /\ t # None
  BY <1>1, RunningIs DEF Starts, Inv3, Held
<1>3. \A v \in Workers : v # w => task'[v] = task[v] /\ task[v] # t
  BY <1>1, <1>2 DEF Starts, Inv3, Held
<1> QED
  BY <1>1, <1>2, <1>3, ServiceRuns DEF Starts

LEMMA ServiceTakes ==
  ASSUME StateTypes, Shape, Inv3, AnyTimeWithinLimit, NEW w \in Workers, Takes(w)
  PROVE  Service!Next
<1>1. PICK p, q, t : p = pool[w] /\ q = queue[p] /\ t = Head(q)
  OBVIOUS
<1>2. /\ p \in Pools /\ q \in Seq(Tasks) /\ q # <<>> /\ Unlike(q)
      /\ task' = [task EXCEPT ![w] = t] /\ task[w] = None
  BY <1>1 DEF Takes, StateTypes, PoolTypes, Inv3, Queued
<1>3. t \in Tasks /\ InQueue(t, q)
  BY <1>1, <1>2, TailIs
<1>4. /\ status[t] = "accepted" /\ TaskCat[t] # "DedicatedThread" /\ TaskPool[t] = p
      /\ \A v \in Workers : task[v] # t
  BY <1>1, <1>2, <1>3 DEF Inv3, Queued
<1>5. task'[w] = t /\ \A v \in Workers : v # w => task'[v] = task[v]
  BY <1>2 DEF StateTypes, WorkerTypes
<1> QED
  BY <1>1, <1>2, <1>3, <1>4, <1>5, ServiceRuns DEF Takes

LEMMA ServiceFinishes ==
  ASSUME StateTypes, Inv3, NEW w \in Workers, Finishes(w)
  PROVE  Service!Next
<1> USE ConstantsAssumption
<1>1. PICK t : t = task[w]
  OBVIOUS
<1>2. /\ t \in Tasks /\ status[t] = "accepted" /\ Running(t) /\ t # None
      /\ pc'[w] # "exec"
  BY <1>1, RunningIs DEF Finishes
<1>3. /\ status' = [status EXCEPT ![t] = "done"] /\ task' = [task EXCEPT ![w] = None]
      /\ UNCHANGED <<mainTask, mainPc, dedicated>> /\ ExecSame({w})
  BY <1>1 DEF Finishes
<1>4. /\ status'[t] = "done" /\ \A u \in Tasks : u # t => status'[u] = status[u]
      /\ task'[w] = None /\ \A v \in Workers : v # w => task'[v] = task[v]
  BY <1>2, <1>3 DEF StateTypes, WorkerTypes, LifeTypes
<1>5. \A u \in Tasks : u # t => (Running(u)' <=> Running(u))
  BY <1>1, <1>3, <1>4 DEF ExecSame, Running
<1>6. TaskState[t] = "running" /\ TaskState'[t] = "done"
  BY <1>2, <1>4, StateIs, StateWill
<1>7. \A u \in Tasks : u # t => TaskState'[u] = TaskState[u]
  BY <1>4, <1>5, StateIs, StateWill
<1>8. TaskState' = [TaskState EXCEPT ![t] = "done"]
  BY <1>2, <1>6, <1>7, StateMoves
<1>9. Service!Finish(t)
  BY <1>3, <1>6, <1>8 DEF Service!Finish
<1> QED
  BY <1>2, <1>9 DEF Service!Next

\* A task that arrives was nowhere, and changes what no thread executes.
LEMMA ServiceAccepts ==
  ASSUME StateTypes, Inv3, NEW t \in Tasks, Arrives(t), Accept(t), UNCHANGED mainTask,
         \A v \in Workers : pc[v] = "exec" => task'[v] = task[v],
         dedicated' = IF TaskCat[t] = "DedicatedThread" THEN Append(dedicated, t)
                      ELSE dedicated
  PROVE  Service!Next
<1> USE ConstantsAssumption
<1>1. status[t] = "new" /\ ExecSame({}) /\ (mainPc' = "exec" <=> mainPc = "exec")
  BY DEF Arrives
<1>2. status'[t] = "accepted" /\ \A u \in Tasks : u # t => status'[u] = status[u]
  BY DEF Accept, StateTypes, LifeTypes
<1>3. \A u \in Tasks : Running(u)' <=> Running(u)
  BY <1>1 DEF ExecSame, Running
<1>4. ~Running(t)
  BY <1>1, NewNowhere DEF Running
<1>5. TaskState[t] = "new" /\ TaskState'[t] = "waiting"
  BY <1>1, <1>2, <1>3, <1>4, StateIs, StateWill
<1>6. \A u \in Tasks : u # t => TaskState'[u] = TaskState[u]
  BY <1>2, <1>3, StateIs, StateWill
<1>7. TaskState' = [TaskState EXCEPT ![t] = "waiting"]
  BY <1>5, <1>6, StateMoves
<1>8. Service!Accept(t)
  BY <1>5, <1>7 DEF Service!Accept
<1> QED
  BY <1>8 DEF Service!Next

LEMMA ServiceArrives ==
  ASSUME StateTypes, Inv3, NEW t \in Tasks,
         Waits(t) \/ Lines(t) \/ \E w \in Workers : Handed(t, w)
  PROVE  Service!Next
<1>1. CASE Waits(t)
  BY <1>1, ServiceAccepts DEF Waits
<1>2. CASE Lines(t)
  BY <1>2, ServiceAccepts DEF Lines
<1>3. CASE \E w \in Workers : Handed(t, w)
  <2>1. PICK w \in Workers : Handed(t, w)
    BY <1>3
  <2>2. \A v \in Workers : pc[v] = "exec" => task'[v] = task[v]
    BY <2>1 DEF Handed, StateTypes, WorkerTypes
  <2> QED
    BY <2>1, <2>2, ServiceAccepts DEF Handed
<1> QED
  BY <1>1, <1>2, <1>3

LEMMA ServiceTurned ==
  ASSUME StateTypes, Inv3, NEW t \in Tasks, Turned(t)
  PROVE  Service!Next
<1>1. /\ status[t] = "new" /\ ExecSame({}) /\ (mainPc' = "exec" <=> mainPc = "exec")
      /\ UNCHANGED <<task, dedicated, mainTask>> /\ TaskCat[t] = "ImmediateDispatch"
      /\ status' = [status EXCEPT ![t] = "refused"]
  BY DEF Turned, Arrives, IsImmediate
<1>2. status'[t] = "refused" /\ \A u \in Tasks : u # t => status'[u] = status[u]
  BY <1>1 DEF StateTypes, LifeTypes
<1>3. \A u \in Tasks : Running(u)' <=> Running(u)
  BY <1>1 DEF ExecSame, Running
<1>4. TaskState[t] = "new" /\ TaskState'[t] = "refused"
  BY <1>1, <1>2, StateIs, StateWill
<1>5. \A u \in Tasks : u # t => TaskState'[u] = TaskState[u]
  BY <1>2, <1>3, StateIs, StateWill
<1>6. TaskState' = [TaskState EXCEPT ![t] = "refused"]
  BY <1>4, <1>5, StateMoves
<1>7. Service!Refuse(t)
  BY <1>1, <1>4, <1>6 DEF Service!Refuse
<1> QED
  BY <1>7 DEF Service!Next

\* The main thread takes the oldest dedicated task, and nobody else such a task.
LEMMA ServiceMainBegins ==
  ASSUME StateTypes, Inv3, MainBegins
  PROVE  Service!Next
<1> USE ConstantsAssumption
<1>1. PICK t : t = Head(dedicated)
  OBVIOUS
<1>2. /\ UNCHANGED <<task, status>> /\ ExecSame({}) /\ mainTask = None
      /\ mainPc # "exec" /\ mainPc' = "exec" /\ mainTask' = t
      /\ dedicated # <<>> /\ dedicated' = Tail(dedicated)
      /\ dedicated \in Seq(Tasks) /\ Unlike(dedicated)
  BY <1>1 DEF MainBegins, MainTake, StateTypes, MainTypes, Inv3, Lined
<1>3. t \in Tasks /\ InQueue(t, dedicated)
  BY <1>1, <1>2, TailIs
<1>4. status[t] = "accepted" /\ TaskCat[t] = "DedicatedThread" /\ t # None
  BY <1>3 DEF Inv3, Lined
<1>5. \A u \in Tasks : TaskCat[u] = "DedicatedThread" => ~Running(u)
  BY <1>2 DEF Inv3, Held, Running
<1>6. Running(t)' /\ \A u \in Tasks : u # t => (Running(u)' <=> Running(u))
  BY <1>2, <1>4 DEF ExecSame, Running
<1>7. TaskState[t] = "waiting" /\ TaskState'[t] = "running"
  BY <1>2, <1>3, <1>4, <1>5, <1>6, StateIs, StateWill
<1>8. \A u \in Tasks : u # t => TaskState'[u] = TaskState[u]
  BY <1>2, <1>6, StateIs, StateWill
<1>9. TaskState' = [TaskState EXCEPT ![t] = "running"]
  BY <1>3, <1>7, <1>8, StateMoves
<1>10. Service!RunningDedicated = {}
  <2> SUFFICES ASSUME NEW u \in Tasks, TaskCat[u] = "DedicatedThread",
                      TaskState[u] = "running"
               PROVE  FALSE
    BY DEF Service!RunningDedicated
  <2>1. status[u] \in {"new", "accepted", "refused", "done"}
    BY DEF StateTypes, LifeTypes
  <2> QED
    BY <1>5, <2>1, StateIs
<1>11. Service!Run(t)
  BY <1>1, <1>2, <1>4, <1>7, <1>9, <1>10 DEF Service!Run
<1> QED
  BY <1>3, <1>11 DEF Service!Next

LEMMA ServiceMainEnds ==
  ASSUME StateTypes, Inv3, MainEnds
  PROVE  Service!Next
<1> USE ConstantsAssumption
<1>1. PICK t : t = mainTask
  OBVIOUS
<1>2. /\ UNCHANGED <<task, dedicated>> /\ ExecSame({})
      /\ mainPc = "exec" /\ mainPc' # "exec"
      /\ status' = [status EXCEPT ![t] = "done"]
      /\ t \in Tasks /\ status[t] = "accepted"
  BY <1>1 DEF MainEnds, StateTypes, MainTypes, Inv3, Lined
<1>3. status'[t] = "done" /\ \A u \in Tasks : u # t => status'[u] = status[u]
  BY <1>2 DEF StateTypes, LifeTypes
<1>4. Running(t) /\ \A u \in Tasks : u # t => (Running(u)' <=> Running(u))
  BY <1>1, <1>2 DEF ExecSame, Running
<1>5. TaskState[t] = "running" /\ TaskState'[t] = "done"
  BY <1>2, <1>3, <1>4, StateIs, StateWill
<1>6. \A u \in Tasks : u # t => TaskState'[u] = TaskState[u]
  BY <1>3, <1>4, StateIs, StateWill
<1>7. TaskState' = [TaskState EXCEPT ![t] = "done"]
  BY <1>2, <1>5, <1>6, StateMoves
<1>8. Service!Finish(t)
  BY <1>2, <1>5, <1>7 DEF Service!Finish
<1> QED
  BY <1>2, <1>8 DEF Service!Next

LEMMA ServiceInit == Init => Service!Init
<1> SUFFICES ASSUME Init PROVE Service!Init
  OBVIOUS
<1>1. dedicated = <<>> /\ \A t \in Tasks : status[t] = "new"
  BY DEF Init
<1>2. TaskState = [t \in Tasks |-> "new"]
  BY <1>1 DEF TaskState
<1> QED
  BY <1>1, <1>2 DEF Service!Init

LEMMA ServiceStep ==
  Inv1 /\ Inv2 /\ Inv3 /\ [Next]_vars => [Service!Next]_Service!vars
<1> SUFFICES ASSUME Inv1, Inv2, Inv3, [Next]_vars
             PROVE  Service!Next \/ UNCHANGED Service!vars
  OBVIOUS
<1>1. StateTypes /\ Shape /\ AnyTimeWithinLimit
  BY DEF Inv1, Inv2
<1>2. CASE Still
  BY <1>2, ServiceStill
<1>3. CASE MainBegins \/ MainEnds
  BY <1>1, <1>3, ServiceMainBegins, ServiceMainEnds
<1>4. CASE \E w \in Workers : Starts(w) \/ Takes(w) \/ Finishes(w)
  BY <1>1, <1>4, ServiceStarts, ServiceTakes, ServiceFinishes
<1>5. CASE \E t \in Tasks : \/ Waits(t) \/ Turned(t) \/ Lines(t)
                            \/ \E w \in Workers : Handed(t, w)
  BY <1>1, <1>5, ServiceArrives, ServiceTurned
<1> QED
  BY <1>2, <1>3, <1>4, <1>5, Moves

\* Every step of the invoker is a step of the service or none: a task is accepted
\* once, executed once, within its pool's limit or alone and in order, and refused
\* only if it wanted a thread at once (omniAsyncInvoker.h).
THEOREM ServiceImplemented == Spec => ImplementsTaskService
BY Inv1Always, Inv2Always, Inv3Always, ServiceInit, ServiceStep, PTL
   DEF Spec, ImplementsTaskService, Service!Spec
=============================================================================
