---------------------------- MODULE TaskService ----------------------------
(***************************************************************************)
(* What omniAsyncInvoker promises its callers (omniAsyncInvoker.h): a task  *)
(* accepted by insert() is executed at most once; only an ImmediateDispatch *)
(* task is ever refused, and once accepted it waits for no other task;      *)
(* AnyTime tasks of one purpose are executed by at most so many threads,    *)
(* and those of the dedicated queue by one thread, in order of insertion.   *)
(***************************************************************************)
EXTENDS Integers, Sequences, FiniteSets

CONSTANTS Pools, Tasks, PoolMax, TaskPool, TaskCat

VARIABLES
  state, \* "new", "waiting", "running", "done" or "refused", for each task
  line   \* the dedicated tasks waiting, in order

vars == <<state, line>>

Init ==
  /\ state = [t \in Tasks |-> "new"]
  /\ line = <<>>

RunningAnyTime(p) ==
  {t \in Tasks : /\ TaskCat[t] = "AnyTime"
                 /\ TaskPool[t] = p
                 /\ state[t] = "running"}

RunningDedicated ==
  {t \in Tasks : TaskCat[t] = "DedicatedThread" /\ state[t] = "running"}

Accept(t) ==
  /\ state[t] = "new"
  /\ state' = [state EXCEPT ![t] = "waiting"]
  /\ line' = IF TaskCat[t] = "DedicatedThread" THEN Append(line, t) ELSE line

Refuse(t) ==
  /\ state[t] = "new" /\ TaskCat[t] = "ImmediateDispatch"
  /\ state' = [state EXCEPT ![t] = "refused"]
  /\ UNCHANGED line

Run(t) ==
  /\ state[t] = "waiting"
  /\ state' = [state EXCEPT ![t] = "running"]
  /\ \/ TaskCat[t] = "ImmediateDispatch" /\ UNCHANGED line
     \/ /\ TaskCat[t] = "AnyTime"
        /\ Cardinality(RunningAnyTime(TaskPool[t])) < PoolMax[TaskPool[t]]
        /\ UNCHANGED line
     \/ /\ TaskCat[t] = "DedicatedThread"
        /\ RunningDedicated = {}
        /\ t = Head(line) /\ line' = Tail(line)

Finish(t) ==
  /\ state[t] = "running"
  /\ state' = [state EXCEPT ![t] = "done"]
  /\ UNCHANGED line

Next == \E t \in Tasks : Accept(t) \/ Refuse(t) \/ Run(t) \/ Finish(t)

Spec == Init /\ [][Next]_vars
=============================================================================
