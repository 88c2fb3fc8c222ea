----------------------------- MODULE OmniOrbPOA -----------------------------
(* One POA (omniOrbPOA over omniObjAdapter), the POA manager it belongs to   *)
(* (omniOrbPOAManager) and its entries in the object table                   *)
(* (omniObjTableEntry): requests, activation and deactivation of objects,    *)
(* incarnation and etherealisation by a servant activator, the states of the *)
(* manager, its deactivation and the destruction of the POA.                 *)
(*                                                                           *)
(* A step is a critical section of internalLock, pd_lock or pm_lock, with    *)
(* what is done under a nested lock. pd_lock is held over two steps in one   *)
(* place only. Waits on pd_signal and pm_cond are modelled with their        *)
(* sleepers; the other conditions are signalled under their lock after every *)
(* change, and a wait on them is a guard. Operations that raise an exception *)
(* before they change anything are left out. The policies are RETAIN and     *)
(* MULTIPLE_ID, with an active object map alone or with an activator.        *)
EXTENDS Naturals, Sequences, FiniteSets

CONSTANTS
  Objects,       \* object ids of the POA
  Callers,       \* threads that dispatch requests to it
  Apps,          \* threads that call operations of the POA and its manager
  Ops,           \* the operations they call
  Policies,      \* values of the policy and the parameter below
  MaxCalls,      \* bound: requests
  MaxOps,        \* bound: operations
  MaxEvents,     \* bound: requests and operations together
  None

Jobs == {"deactivate", "destroy"}

ASSUME ThreadsAssumption == /\ Callers \cap (Apps \cup Jobs) = {}
                            /\ Apps \cap Jobs = {}
                            /\ None \notin Callers \cup Apps \cup Objects
                            /\ None \notin [o : Objects, dead : BOOLEAN]
ASSUME FiniteAssumption == IsFiniteSet(Callers \cup Apps) /\ IsFiniteSet(Objects)
ASSUME PoliciesAssumption == 
  Policies \subseteq [activator : BOOLEAN, holdTimeout : BOOLEAN]
ASSUME BoundsAssumption ==
  MaxCalls \in Nat /\ MaxOps \in Nat /\ MaxEvents \in Nat

VARIABLES
  activator,     \* policy: requests are processed by a servant activator
  holdTimeout,   \* parameter: poaHoldRequestTimeout is set
  pd_state,      \* of the manager
  pd_deactivated,
  listed,        \* the manager's pd_poas has the POA
  pd_rq_state,   \* the state the POA was last told
  life,          \* "alive"; then pd_dying is 1 and pd_destroyed 0, 1 or 2
  nReqInThis,
  nReqActive,
  nDetached,
  pd_lock,       \* the thread that keeps pd_lock over a step, or None
  entry,         \* the object table: state and pd_nInvocations of each object
  list,          \* the list an entry is in: "active", that of a job, "none"
  at,            \* where each thread is
  arg,           \* and the object it works on
  asleep,        \* threads and jobs asleep on pd_signal
  job,           \* how far the manager's deactivation and destruction are
  by,            \* the thread that waits for a job's end
  eth,           \* whether it etherealises objects
  pretended,     \* the deactivation counts itself as a detached object
  queue,         \* objects waiting for the servant activator's thread
  server,        \* what that thread has taken from it, or None
  calls, ops

manager == <<pd_state, pd_deactivated, listed>>
counts == <<nReqInThis, nReqActive>>
objects == <<entry, list>>
threads == <<at, arg>>
jobs == <<job, by, eth, pretended>>
serving == <<queue, server>>
bounds == <<calls, ops>>
policy == <<activator, holdTimeout>>
vars == <<policy, manager, pd_rq_state, life, counts, nDetached, pd_lock,
          objects, threads, asleep, jobs, serving, bounds>>

Threads == Callers \cup Apps
Dead == [st |-> "none", inv |-> 0]
Active == [st |-> "ACTIVE", inv |-> 1]
Reserved == [st |-> "ACTIVATING", inv |-> 1]
Present == {"ACTIVE", "DEACTIVATING", "DEACTIVATING_OA"}

\* The POA has been created, with a manager in use or a new one, and maybe some
\* of its objects have been activated.
Init ==
  /\ \E p \in Policies : activator = p.activator /\ holdTimeout = p.holdTimeout
  /\ pd_state \in {"HOLDING", "ACTIVE"} /\ pd_deactivated = FALSE /\ listed = TRUE
  /\ pd_rq_state = pd_state /\ life = "alive"
  /\ nReqInThis = 0 /\ nReqActive = 0 /\ nDetached = 0 /\ pd_lock = None
  /\ list \in [Objects -> {"none", "active"}]
  /\ entry = [o \in Objects |-> IF list[o] = "none" THEN Dead ELSE Active]
  /\ at = [t \in Threads |-> "idle"] /\ arg = [t \in Threads |-> None]
  /\ asleep = {}
  /\ job = [j \in Jobs |-> "none"] /\ by = [j \in Jobs |-> None]
  /\ eth = [j \in Jobs |-> FALSE] /\ pretended = FALSE
  /\ queue = <<>> /\ server = None
  /\ calls = 0 /\ ops = 0

Go(t, phase) == at' = [at EXCEPT ![t] = phase]
Ends(t) == at' = [at EXCEPT ![t] = "idle"] /\ arg' = [arg EXCEPT ![t] = None]

\* pd_signalOnZeroInvocations is not zero.
SignalOnZero == \/ \E j \in Jobs : job[j] = "drain"
                \/ \E a \in Apps : at[a] \in {"HOLDING", "DISCARDING"}

PdLockFree == pd_lock = None

\* Who sleeps on after leaveAdapter and exitAdapter.
AfterLeave_Forgets == asleep
AfterLeave == IF nReqActive = 1 /\ SignalOnZero THEN {} ELSE asleep
AfterExit == IF nReqInThis = 1 /\ SignalOnZero THEN {} ELSE asleep

\* exitAdapter takes a request out that was never dispatched.
Exited == nReqInThis - 1

\* pd_dying
Dying_SeenLate == life \in {"destroyed", "gone"}
Dying == life # "alive"

-----------------------------------------------------------------------------
(* Requests. *)

\* The request enters the adapter, whose count is then in, and goes on
\* according to the state of the POA.
Dispatch(r, o, e, in, sleepers) ==
  /\ entry' = [entry EXCEPT ![o] = [e EXCEPT !.inv = @ + 1]]
  /\ nReqInThis' = in
  /\ \/ /\ pd_rq_state = "ACTIVE"
        /\ nReqActive' = nReqActive + 1
        /\ Go(r, "upcall") /\ asleep' = sleepers
     \/ /\ pd_rq_state = "HOLDING"
        /\ Go(r, "held") /\ asleep' = sleepers \cup {r}
        /\ UNCHANGED nReqActive
     \/ /\ pd_rq_state \in {"DISCARDING", "INACTIVE"}
        /\ nReqActive' = nReqActive + 1
        /\ Go(r, "leave") /\ asleep' = sleepers

\* locateActive finds the entry, for which it waits while it is activating; or
\* the adapter is asked, which has none for an object that is not active.
Request(r, o) ==
  /\ at[r] = "idle" /\ calls < MaxCalls /\ calls + ops < MaxEvents
  /\ calls' = calls + 1
  /\ arg' = [arg EXCEPT ![r] = o]
  /\ \/ /\ entry[o].st \in Present
        /\ Dispatch(r, o, entry[o], nReqInThis + 1, asleep)
     \/ /\ entry[o].st \in {"none", "ETHEREALISING"}
        /\ activator /\ life = "alive"
        /\ Go(r, "locate")
        /\ UNCHANGED <<entry, counts, asleep>>
  /\ UNCHANGED <<policy, manager, pd_rq_state, life, nDetached, pd_lock, list, jobs,
                 serving, ops>>

\* synchronise_request wakes up.
HeldGoesOn(r) ==
  /\ at[r] = "held" /\ r \notin asleep
  /\ \/ /\ pd_rq_state = "HOLDING"
        /\ asleep' = asleep \cup {r}
        /\ UNCHANGED <<nReqActive, at>>
     \/ /\ pd_rq_state # "HOLDING"
        /\ nReqActive' = nReqActive + 1
        /\ Go(r, IF pd_rq_state = "ACTIVE" /\ entry[arg[r]].st \in Present
                 THEN "upcall" ELSE "leave")
        /\ UNCHANGED asleep
  /\ UNCHANGED <<policy, manager, pd_rq_state, life, nReqInThis, nDetached, pd_lock,
                 objects, arg, jobs, serving, bounds>>

HeldTimesOut(r) ==
  /\ at[r] = "held" /\ r \in asleep /\ holdTimeout
  /\ asleep' = asleep \ {r}
  /\ nReqActive' = nReqActive + 1
  /\ Go(r, "leave")
  /\ UNCHANGED <<policy, manager, pd_rq_state, life, nReqInThis, nDetached, pd_lock,
                 objects, arg, jobs, serving, bounds>>

UpcallReturns(r) ==
  /\ at[r] = "upcall"
  /\ Go(r, "leave")
  /\ UNCHANGED <<policy, manager, pd_rq_state, life, counts, nDetached, pd_lock,
                 objects, arg, asleep, jobs, serving, bounds>>

\* No request is left and it is for the last one to see to the object; an
\* object on a job's list is left to the job.
LastOut_OfAny(o) == entry[o].inv = 1
LastOut(o) == entry[o].inv = 1 /\ entry[o].st # "DEACTIVATING_OA"

\* ~omniLocalIdentity_RefHolder: the last request out of a deactivated object
\* sees to its etherealisation.
Leave(r) ==
  /\ at[r] = "leave"
  /\ nReqInThis' = nReqInThis - 1 /\ nReqActive' = nReqActive - 1
  /\ asleep' = AfterLeave
  /\ \E o \in {arg[r]} :
       IF LastOut(o)
       THEN /\ entry' = [entry EXCEPT ![o] = [st |-> "ETHEREALISING", inv |-> 0]]
            /\ Go(r, "retire") /\ UNCHANGED arg
       ELSE /\ entry' = [entry EXCEPT ![o].inv = @ - 1]
            /\ Ends(r)
  /\ UNCHANGED <<policy, manager, pd_rq_state, life, nDetached, pd_lock, list, jobs,
                 serving, bounds>>

\* The rest of lastInvocationHasCompleted: it takes pd_lock to be sure that
\* deactivate_object has counted the object.
DetachCounted_NotWaitedFor == TRUE
DetachCounted == PdLockFree

Retire(t) ==
  /\ at[t] = "retire" /\ DetachCounted
  /\ \/ /\ activator
        /\ queue' = Append(queue, arg[t])
        /\ Ends(t) /\ UNCHANGED entry
     \/ /\ ~activator
        /\ entry' = [entry EXCEPT ![arg[t]] = Dead]
        /\ Go(t, "met") /\ UNCHANGED <<arg, queue>>
  /\ UNCHANGED <<policy, manager, pd_rq_state, life, counts, nDetached, pd_lock, list,
                 asleep, jobs, server, bounds>>

Met(t) ==
  /\ at[t] = "met"
  /\ nDetached' = nDetached - 1
  /\ Ends(t)
  /\ UNCHANGED <<policy, manager, pd_rq_state, life, counts, pd_lock, objects, asleep,
                 jobs, serving, bounds>>

-----------------------------------------------------------------------------
(* dispatch_to_sa: a request incarnates its object. *)

Incarnating == \E r \in Callers : at[r] = "incarnate"

\* It waits for an object that is being activated or etherealised.
Locate(r) ==
  /\ at[r] = "locate"
  /\ \/ /\ entry[arg[r]].st \in Present
        /\ Dispatch(r, arg[r], entry[arg[r]], nReqInThis + 1, asleep)
     \/ /\ entry[arg[r]].st = "none"
        /\ entry' = [entry EXCEPT ![arg[r]] = Reserved]
        /\ nReqInThis' = nReqInThis + 1
        /\ Go(r, "sa_check")
        /\ UNCHANGED <<nReqActive, asleep>>
  /\ UNCHANGED <<policy, manager, pd_rq_state, life, nDetached, pd_lock, list, arg,
                 jobs, serving, bounds>>

\* The entry goes, and the request out of the adapter.
GiveUp(r) ==
  /\ entry' = [entry EXCEPT ![arg[r]] = Dead]
  /\ nReqInThis' = Exited
  /\ asleep' = AfterExit
  /\ Ends(r)

SaCheck(r) ==
  /\ at[r] = "sa_check" /\ PdLockFree
  /\ \/ Dying /\ GiveUp(r)
     \/ ~Dying /\ Go(r, "sa_ready")
        /\ UNCHANGED <<entry, nReqInThis, asleep, arg>>
  /\ UNCHANGED <<policy, manager, pd_rq_state, life, nReqActive, nDetached, pd_lock, list,
                 jobs, serving, bounds>>

\* The task lock serialises incarnations and etherealisations.
TaskLockFree == server = None /\ ~Incarnating

Incarnate(r) ==
  /\ at[r] = "sa_ready" /\ TaskLockFree
  /\ Go(r, "incarnate")
  /\ UNCHANGED <<policy, manager, pd_rq_state, life, counts, nDetached, pd_lock, objects,
                 arg, asleep, jobs, serving, bounds>>

Incarnated(r) ==
  /\ at[r] = "incarnate"
  /\ Go(r, "incarnated")
  /\ UNCHANGED <<policy, manager, pd_rq_state, life, counts, nDetached, pd_lock, objects,
                 arg, asleep, jobs, serving, bounds>>

\* incarnate() raised an exception or returned no servant.
IncarnateFails(r) ==
  /\ at[r] = "incarnate"
  /\ GiveUp(r)
  /\ UNCHANGED <<policy, manager, pd_rq_state, life, nReqActive, nDetached, pd_lock, list,
                 jobs, serving, bounds>>

\* The object becomes active and takes the request; if the POA is dying by now
\* the object goes to etherealisation at once.
SaActivate(r) ==
  /\ at[r] = "incarnated" /\ PdLockFree
  /\ \/ /\ ~Dying
        /\ list' = [list EXCEPT ![arg[r]] = "active"]
        /\ Dispatch(r, arg[r], Active, nReqInThis, AfterExit)
     \/ /\ Dying
        /\ entry' = [entry EXCEPT ![arg[r]] = [st |-> "ETHEREALISING", inv |-> 0]]
        /\ Go(r, "sa_queue")
        /\ UNCHANGED <<list, counts, asleep>>
  /\ UNCHANGED <<policy, manager, pd_rq_state, life, nDetached, pd_lock, arg, jobs, serving,
                 bounds>>

SaQueue(r) ==
  /\ at[r] = "sa_queue"
  /\ nDetached' = nDetached + 1
  /\ queue' = Append(queue, arg[r])
  /\ Go(r, "sa_exit")
  /\ UNCHANGED <<policy, manager, pd_rq_state, life, counts, pd_lock, objects, arg, asleep,
                 jobs, server, bounds>>

SaExit(r) ==
  /\ at[r] = "sa_exit"
  /\ nReqInThis' = Exited
  /\ asleep' = AfterExit
  /\ Ends(r)
  /\ UNCHANGED <<policy, manager, pd_rq_state, life, nReqActive, nDetached, pd_lock, objects,
                 jobs, serving, bounds>>

\* omniServantActivatorTaskQueue::execute takes the task lock for a task.
QueueTakes ==
  /\ queue # <<>> /\ TaskLockFree
  /\ server' = [o |-> Head(queue), dead |-> FALSE] /\ queue' = Tail(queue)
  /\ UNCHANGED <<policy, manager, pd_rq_state, life, counts, nDetached, pd_lock, objects,
                 threads, asleep, jobs, bounds>>

\* omniEtherealiser::doit after etherealize().
QueueDone ==
  /\ server # None /\ ~server.dead
  /\ entry' = [entry EXCEPT ![server.o] = Dead]
  /\ server' = [server EXCEPT !.dead = TRUE]
  /\ UNCHANGED <<policy, manager, pd_rq_state, life, counts, nDetached, pd_lock, list,
                 threads, asleep, jobs, queue, bounds>>

QueueMet ==
  /\ server # None /\ server.dead
  /\ nDetached' = nDetached - 1
  /\ server' = None
  /\ UNCHANGED <<policy, manager, pd_rq_state, life, counts, pd_lock, objects,
                 threads, asleep, jobs, queue, bounds>>

-----------------------------------------------------------------------------
(* Objects are activated and deactivated by the application. *)

Call(a) ==
  /\ at[a] = "idle" /\ ops < MaxOps /\ calls + ops < MaxEvents
  /\ ops' = ops + 1
Takes(a, o, phase) == Go(a, phase) /\ arg' = [arg EXCEPT ![a] = o]

\* activate_object_with_id puts a place-holder into the object table, before it
\* takes pd_lock, once an earlier entry is dead.
Place(a, o) ==
  /\ Call(a) /\ entry[o].st = "none"
  /\ entry' = [entry EXCEPT ![o] = Reserved]
  /\ Takes(a, o, "placed")
  /\ UNCHANGED <<policy, manager, pd_rq_state, life, counts, nDetached, pd_lock, list, asleep,
                 jobs, serving, calls>>

Activate(a) ==
  /\ at[a] = "placed" /\ PdLockFree
  /\ \/ /\ ~Dying
        /\ entry' = [entry EXCEPT ![arg[a]].st = "ACTIVE"]
        /\ list' = [list EXCEPT ![arg[a]] = "active"]
     \/ /\ Dying
        /\ entry' = [entry EXCEPT ![arg[a]] = Dead]
        /\ UNCHANGED list
  /\ Ends(a)
  /\ UNCHANGED <<policy, manager, pd_rq_state, life, counts, nDetached, pd_lock, asleep,
                 jobs, serving, bounds>>

\* An idle object is counted as detached and retired at once; a busy one is
\* counted when internalLock has been released, but before pd_lock is.
DeactivateObject(a, o) ==
  /\ Call(a) /\ PdLockFree
  /\ life \in {"alive", "dying"} /\ entry[o].st = "ACTIVE"
  /\ list' = [list EXCEPT ![o] = "none"]
  /\ \/ /\ entry[o].inv = 1
        /\ entry' = [entry EXCEPT ![o] = [st |-> "ETHEREALISING", inv |-> 0]]
        /\ nDetached' = nDetached + 1
        /\ Takes(a, o, "retire")
        /\ UNCHANGED pd_lock
     \/ /\ entry[o].inv > 1
        /\ entry' = [entry EXCEPT ![o] = [st |-> "DEACTIVATING", inv |-> @.inv - 1]]
        /\ pd_lock' = a
        /\ Takes(a, o, "detach")
        /\ UNCHANGED nDetached
  /\ UNCHANGED <<policy, manager, pd_rq_state, life, counts, asleep, jobs, serving, calls>>

Detach(a) ==
  /\ at[a] = "detach"
  /\ nDetached' = nDetached + 1
  /\ pd_lock' = None
  /\ Ends(a)
  /\ UNCHANGED <<policy, manager, pd_rq_state, life, counts, objects, asleep, jobs, serving,
                 bounds>>

-----------------------------------------------------------------------------
(* The POA manager. *)

PmLockFree == \A a \in Apps : at[a] # "pm_check"

\* The manager's new state reaches the POA by pm_change_state, which wakes all.
ChangeState(s) ==
  /\ pd_state' = s
  /\ \/ listed /\ pd_rq_state' = s /\ asleep' = {}
     \/ ~listed /\ UNCHANGED <<pd_rq_state, asleep>>

PmActivate(a) ==
  /\ Call(a) /\ PmLockFree
  /\ pd_state \notin {"INACTIVE", "ACTIVE"}
  /\ ChangeState("ACTIVE")
  /\ UNCHANGED <<policy, pd_deactivated, listed, life, counts, nDetached, pd_lock, objects,
                 threads, jobs, serving, calls>>

\* hold_requests and discard_requests.
PmStop(a, s, wait) ==
  /\ Call(a) /\ PmLockFree
  /\ pd_state \notin {"INACTIVE", s}
  /\ ChangeState(s)
  /\ at' = [at EXCEPT ![a] = IF wait /\ listed THEN s ELSE "idle"]
  /\ UNCHANGED <<policy, pd_deactivated, listed, life, counts, nDetached, pd_lock, objects,
                 arg, jobs, serving, calls>>

\* pm_waitForReqCmpltnOrSttChnge
PmWaits(a) ==
  /\ at[a] \in {"HOLDING", "DISCARDING"} /\ a \notin asleep
  /\ \/ /\ pd_rq_state = at[a] /\ nReqActive > 0
        /\ asleep' = asleep \cup {a} /\ UNCHANGED threads
     \/ /\ pd_rq_state # at[a] \/ nReqActive = 0
        /\ Ends(a) /\ UNCHANGED asleep
  /\ UNCHANGED <<policy, manager, pd_rq_state, life, counts, nDetached, pd_lock, objects, jobs,
                 serving, bounds>>

\* The first deactivate() does the work, in its thread or in one of its own.
PmDeactivate(a, etherealise, wait) ==
  /\ Call(a) /\ PmLockFree
  /\ pd_state # "INACTIVE"
  /\ ChangeState("INACTIVE")
  /\ job' = [job EXCEPT !["deactivate"] = IF listed THEN "start" ELSE "flag"]
  /\ eth' = [eth EXCEPT !["deactivate"] = etherealise]
  /\ by' = [by EXCEPT !["deactivate"] = IF wait THEN a ELSE None]
  /\ at' = [at EXCEPT ![a] = IF wait THEN "working" ELSE "idle"]
  /\ UNCHANGED <<policy, pd_deactivated, listed, life, counts, nDetached, pd_lock, objects, arg,
                 pretended, serving, calls>>

\* A later one has read pd_deactivated and goes to wait on pm_cond; neither is
\* changed nor signalled under the lock it holds.
PmDeactivateAgain(a) ==
  /\ Call(a) /\ PmLockFree
  /\ pd_state = "INACTIVE" /\ ~pd_deactivated
  /\ Go(a, "pm_check")
  /\ UNCHANGED <<policy, manager, pd_rq_state, life, counts, nDetached, pd_lock, objects, arg,
                 asleep, jobs, serving, calls>>

PmSleeps(a) ==
  /\ at[a] = "pm_check"
  /\ Go(a, "pm_sleep")
  /\ UNCHANGED <<policy, manager, pd_rq_state, life, counts, nDetached, pd_lock, objects, arg,
                 asleep, jobs, serving, bounds>>

\* destroy()
Destroy(a, etherealise, wait) ==
  /\ Call(a) /\ PdLockFree /\ life = "alive"
  /\ life' = "dying"
  /\ job' = [job EXCEPT !["destroy"] = "discard"]
  /\ eth' = [eth EXCEPT !["destroy"] = etherealise]
  /\ by' = [by EXCEPT !["destroy"] = a]
  /\ Go(a, IF wait THEN "working" ELSE "destroying")
  /\ UNCHANGED <<policy, manager, pd_rq_state, counts, nDetached, pd_lock, objects, arg, asleep,
                 pretended, serving, calls>>

DestroyAgain(a) ==
  /\ Call(a) /\ PdLockFree /\ life = "dying"
  /\ Go(a, "join")
  /\ UNCHANGED <<policy, manager, pd_rq_state, life, counts, nDetached, pd_lock, objects, arg,
                 asleep, jobs, serving, calls>>

Destroyed(a) ==
  /\ at[a] = "join" /\ life = "gone"
  /\ Ends(a)
  /\ UNCHANGED <<policy, manager, pd_rq_state, life, counts, nDetached, pd_lock, objects,
                 asleep, jobs, serving, bounds>>

-----------------------------------------------------------------------------
(* The manager's deactivation (deactivate_thread_fn, pm_deactivate) and the  *)
(* POA's destruction (destroy, do_destroy).                                  *)

Goes(j, phase) == job' = [job EXCEPT ![j] = phase]
Listed(j) == {o \in Objects : list[o] = j}

\* The job is over for the thread that waits for it.
Release(j) ==
  /\ at' = [t \in Threads |-> IF t = by[j] THEN "idle" ELSE at[t]]
  /\ by' = [by EXCEPT ![j] = None]

\* destroy() discards the requests held at this moment.
DestroyDiscards ==
  /\ job["destroy"] = "discard"
  /\ \/ pd_rq_state = "HOLDING" /\ pd_rq_state' = "DISCARDING" /\ asleep' = {}
     \/ pd_rq_state # "HOLDING" /\ UNCHANGED <<pd_rq_state, asleep>>
  /\ Goes("destroy", "lose")
  /\ UNCHANGED <<policy, manager, life, counts, nDetached, pd_lock, objects, threads, by, eth,
                 pretended, serving, bounds>>

\* The manager loses the POA; a destroy() that does not wait starts a thread.
LosePoa ==
  /\ job["destroy"] = "lose" /\ PmLockFree
  /\ listed' = FALSE
  /\ Goes("destroy", "start")
  /\ \/ at[by["destroy"]] = "destroying" /\ Release("destroy")
     \/ at[by["destroy"]] = "working" /\ UNCHANGED <<at, by>>
  /\ UNCHANGED <<policy, pd_state, pd_deactivated, pd_rq_state, life, counts, nDetached,
                 pd_lock, objects, arg, asleep, eth, pretended, serving, bounds>>

\* The manager's deactivation leaves a dying POA to its destruction.
PmLeavesIt ==
  /\ job["deactivate"] = "start" /\ life = "gone"
  /\ Goes("deactivate", "flag")
  /\ UNCHANGED <<policy, manager, pd_rq_state, life, counts, nDetached, pd_lock, objects,
                 threads, asleep, by, eth, pretended, serving, bounds>>

\* The job takes the POA's list of active objects.
TakeList(j) ==
  /\ job[j] = "start" /\ PdLockFree
  /\ life = IF j = "destroy" THEN "dying" ELSE "alive"
  /\ list' = [o \in Objects |-> IF list[o] = "active" THEN j ELSE list[o]]
  /\ IF j = "deactivate" /\ Listed("active") # {}
     THEN nDetached' = nDetached + 1 /\ pretended' = TRUE
     ELSE UNCHANGED <<nDetached, pretended>>
  /\ Goes(j, "mark")
  /\ UNCHANGED <<policy, manager, pd_rq_state, life, counts, pd_lock, entry, threads, asleep,
                 by, eth, serving, bounds>>

Marked(j) == [o \in Objects |->
  IF list[o] = j /\ entry[o].st = "ACTIVE"
  THEN [st |-> "DEACTIVATING_OA", inv |-> entry[o].inv - 1] ELSE entry[o]]

\* Where the job goes on. A deactivation that took objects which are gone from
\* its list by now must still take back what it pretended.
AfterDrain_Forgets(j) ==
  CASE j = "destroy" -> "close"
    [] j # "destroy" /\ Listed(j) # {} -> IF eth[j] THEN "take" ELSE "met"
    [] OTHER -> "flag"
AfterDrain(j) ==
  CASE j = "destroy" -> "close"
    [] j # "destroy" /\ Listed(j) # {} -> IF eth[j] THEN "take" ELSE "met"
    [] OTHER -> IF pretended THEN "unpretend" ELSE "flag"

\* waitForAllRequestsToComplete waits for the held requests too.
StillInside_ActiveOnly == nReqActive > 0
StillInside == nReqInThis > 0

\* The job waits for the requests to leave; the objects on its list are then
\* ready to be etherealised.
Drains(j, E) ==
  \/ /\ StillInside
     /\ entry' = E /\ asleep' = asleep \cup {j} /\ Goes(j, "drain")
  \/ /\ ~StillInside
     /\ entry' = [o \in Objects |->
          IF list[o] = j THEN [E[o] EXCEPT !.st = "ETHEREALISING"] ELSE E[o]]
     /\ Goes(j, AfterDrain(j)) /\ UNCHANGED asleep

\* deactivate_objects; do_destroy then makes the POA reject requests.
Mark(j) ==
  /\ job[j] = "mark"
  /\ Drains(j, Marked(j))
  /\ pd_rq_state' = IF j = "destroy" THEN "INACTIVE" ELSE pd_rq_state
  /\ UNCHANGED <<policy, manager, life, counts, nDetached, pd_lock, list, threads, by, eth,
                 pretended, serving, bounds>>

\* waitForAllRequestsToComplete and complete_object_deactivation.
Drain(j) ==
  /\ job[j] = "drain" /\ j \notin asleep
  /\ Drains(j, entry)
  /\ UNCHANGED <<policy, manager, pd_rq_state, life, counts, nDetached, pd_lock, list,
                 threads, by, eth, pretended, serving, bounds>>

\* Apparent destruction of the POA.
Close ==
  /\ job["destroy"] = "close" /\ PdLockFree
  /\ life' = "destroyed"
  /\ Goes("destroy", "take")
  /\ UNCHANGED <<policy, manager, pd_rq_state, counts, nDetached, pd_lock, objects, threads,
                 asleep, by, eth, pretended, serving, bounds>>

\* etherealise_objects, object by object.
Etherealise(j, o) ==
  /\ job[j] = "take" /\ list[o] = j
  /\ list' = [list EXCEPT ![o] = "none"]
  /\ \/ /\ activator /\ eth[j]
        /\ nDetached' = nDetached + 1 /\ queue' = Append(queue, o)
        /\ UNCHANGED entry
     \/ /\ ~(activator /\ eth[j])
        /\ entry' = [entry EXCEPT ![o] = Dead]
        /\ UNCHANGED <<nDetached, queue>>
  /\ UNCHANGED <<policy, manager, pd_rq_state, life, counts, pd_lock, threads, asleep, jobs,
                 server, bounds>>

Etherealised(j) ==
  /\ job[j] = "take" /\ Listed(j) = {}
  /\ Goes(j, IF j = "destroy" THEN "join" ELSE "met")
  /\ UNCHANGED <<policy, manager, pd_rq_state, life, counts, nDetached, pd_lock, objects,
                 threads, asleep, by, eth, pretended, serving, bounds>>

\* The deactivation is no detached object any more.
Unpretend ==
  /\ job["deactivate"] \in {"met", "unpretend"}
  /\ nDetached' = nDetached - 1 /\ pretended' = FALSE
  /\ Goes("deactivate", IF job["deactivate"] = "met" THEN "join" ELSE "flag")
  /\ UNCHANGED <<policy, manager, pd_rq_state, life, counts, pd_lock, objects, threads, asleep,
                 by, eth, serving, bounds>>

\* wait_for_detached_objects
Join(j) ==
  /\ job[j] = "join" /\ nDetached = 0
  /\ Goes(j, IF j = "destroy" THEN "end" ELSE "flag")
  /\ UNCHANGED <<policy, manager, pd_rq_state, life, counts, nDetached, pd_lock, objects,
                 threads, asleep, by, eth, pretended, serving, bounds>>

DestroyEnds ==
  /\ job["destroy"] = "end" /\ PdLockFree
  /\ life' = "gone"
  /\ Goes("destroy", "done") /\ Release("destroy")
  /\ UNCHANGED <<policy, manager, pd_rq_state, counts, nDetached, pd_lock, objects, arg, asleep,
                 eth, pretended, serving, bounds>>

\* deactivate_thread_fn sets the flag and broadcasts, without pm_lock.
SetFlag ==
  /\ job["deactivate"] = "flag"
  /\ pd_deactivated' = TRUE
  /\ Goes("deactivate", "broadcast")
  /\ UNCHANGED <<policy, pd_state, listed, pd_rq_state, life, counts, nDetached, pd_lock,
                 objects, threads, asleep, by, eth, pretended, serving, bounds>>

Broadcast ==
  /\ job["deactivate"] = "broadcast"
  /\ Goes("deactivate", "done")
  /\ at' = [t \in Threads |-> IF t = by["deactivate"] \/ at[t] = "pm_sleep"
                             THEN "idle" ELSE at[t]]
  /\ by' = [by EXCEPT !["deactivate"] = None]
  /\ UNCHANGED <<policy, manager, pd_rq_state, life, counts, nDetached, pd_lock, objects, arg,
                 asleep, eth, pretended, serving, bounds>>

-----------------------------------------------------------------------------
CallerStep(r) ==
  \/ HeldGoesOn(r) \/ UpcallReturns(r) \/ Leave(r) \/ Retire(r) \/ Met(r)
  \/ Locate(r) \/ SaCheck(r) \/ Incarnate(r) \/ Incarnated(r) \/ IncarnateFails(r)
  \/ SaActivate(r) \/ SaQueue(r) \/ SaExit(r)
AppStep(a) ==
  \/ Activate(a) \/ Detach(a) \/ Retire(a) \/ Met(a)
  \/ PmWaits(a) \/ PmSleeps(a) \/ Destroyed(a)
JobStep(j) ==
  \/ TakeList(j) \/ Mark(j) \/ Drain(j) \/ Etherealised(j) \/ Join(j)
  \/ \E o \in Objects : Etherealise(j, o)
DestroyStep == DestroyDiscards \/ LosePoa \/ Close \/ DestroyEnds
DeactivateStep == PmLeavesIt \/ Unpretend \/ SetFlag \/ Broadcast
QueueStep == QueueTakes \/ QueueDone \/ QueueMet

AppCall(a) ==
  \/ \E o \in Objects :
       \/ "activate_object" \in Ops /\ Place(a, o)
       \/ "deactivate_object" \in Ops /\ DeactivateObject(a, o)
  \/ "activate" \in Ops /\ PmActivate(a)
  \/ \E wait \in BOOLEAN :
       \/ "hold_requests" \in Ops /\ PmStop(a, "HOLDING", wait)
       \/ "discard_requests" \in Ops /\ PmStop(a, "DISCARDING", wait)
       \/ \E etherealise \in BOOLEAN :
            \/ "deactivate" \in Ops /\ PmDeactivate(a, etherealise, wait)
            \/ "destroy" \in Ops /\ Destroy(a, etherealise, wait)
  \/ "deactivate" \in Ops /\ PmDeactivateAgain(a)
  \/ "destroy" \in Ops /\ DestroyAgain(a)

\* Idle threads do not differ: a request or an operation takes one of them.
OneIdle(S) == {t \in S : at[t] = "idle" /\ t = CHOOSE u \in S : at[u] = "idle"}

Next ==
  \/ \E r \in Callers : CallerStep(r) \/ HeldTimesOut(r)
  \/ \E r \in OneIdle(Callers), o \in Objects : Request(r, o)
  \/ \E a \in Apps : AppStep(a)
  \/ \E a \in OneIdle(Apps) : AppCall(a)
  \/ \E j \in Jobs : JobStep(j)
  \/ DestroyStep \/ DeactivateStep \/ QueueStep

Spec == Init /\ [][Next]_vars

\* Threads run, locks are fair, upcalls return.
Fairness ==
  /\ \A r \in Callers : WF_vars(CallerStep(r))
  /\ \A a \in Apps : WF_vars(AppStep(a))
  /\ \A j \in Jobs : WF_vars(JobStep(j))
  /\ WF_vars(DestroyStep) /\ WF_vars(DeactivateStep) /\ WF_vars(QueueStep)

FairSpec == Spec /\ Fairness

-----------------------------------------------------------------------------
(* Properties. *)

CallerPhases == {"idle", "locate", "sa_check", "sa_ready", "incarnate", "incarnated", "sa_queue",
                 "sa_exit", "held", "upcall", "leave", "retire", "met"}
AppPhases == {"idle", "placed", "detach", "retire", "met", "HOLDING", "DISCARDING", "pm_check",
              "pm_sleep", "working", "destroying", "join"}
JobPhases == {"none", "discard", "lose", "start", "mark", "drain", "close", "take", "met",
              "unpretend", "join", "end", "flag", "broadcast", "done"}
PmStates == {"HOLDING", "ACTIVE", "DISCARDING", "INACTIVE"}
EntryStates == Present \cup {"none", "ACTIVATING", "ETHEREALISING"}

\* The variables have the types of the code's; no count is ever negative.
TypeOK ==
  /\ activator \in BOOLEAN /\ holdTimeout \in BOOLEAN
  /\ pd_state \in PmStates /\ pd_rq_state \in PmStates
  /\ pd_deactivated \in BOOLEAN /\ listed \in BOOLEAN
  /\ life \in {"alive", "dying", "destroyed", "gone"}
  /\ nReqInThis \in Nat /\ nReqActive \in Nat /\ nDetached \in Nat
  /\ pd_lock \in Apps \cup {None}
  /\ entry \in [Objects -> [st : EntryStates, inv : Nat]]
  /\ list \in [Objects -> Jobs \cup {"active", "none"}]
  /\ at \in [Threads -> CallerPhases \cup AppPhases]
  /\ arg \in [Threads -> Objects \cup {None}]
  /\ asleep \subseteq Threads \cup Jobs
  /\ job \in [Jobs -> JobPhases] /\ by \in [Jobs -> Apps \cup {None}]
  /\ eth \in [Jobs -> BOOLEAN] /\ pretended \in BOOLEAN
  /\ queue \in Seq(Objects)
  /\ server \in [o : Objects, dead : BOOLEAN] \cup {None}
  /\ calls \in 0..MaxCalls /\ ops \in 0..MaxOps

At(S) == {t \in Threads : at[t] \in S}

\* The counts on which destroy(), deactivate() and the manager's waits depend,
\* and those of each object, are exact at every step: pd_nReqInThis the requests
\* inside the adapter, pd_nReqActive those past synchronise_request(), an
\* entry's pd_nInvocations the requests on it and the one for being active. The
\* detached objects are what is being retired or still in use, what the servant
\* activator's thread has yet to do, and the deactivation of the manager.
CountsExact ==
  /\ nReqInThis = Cardinality(At({"sa_check", "sa_ready", "incarnate", "incarnated",
                                  "sa_queue", "sa_exit", "held", "upcall", "leave"}))
  /\ nReqActive = Cardinality(At({"upcall", "leave"}))
  /\ \A o \in Objects :
       entry[o].inv = Cardinality({r \in At({"held", "upcall", "leave"}) : arg[r] = o})
                      + IF entry[o].st \in {"ACTIVATING", "ACTIVE"} THEN 1 ELSE 0
  /\ nDetached + Cardinality(At({"detach"})) =
       Cardinality({o \in Objects : entry[o].st = "DEACTIVATING"})
       + Cardinality(At({"retire", "met"}))
       + Len(queue) + (IF server = None THEN 0 ELSE 1)
       + (IF pretended THEN 1 ELSE 0)

\* Its deactivation did not see to the object (poa.cc:2375).
Abandoned(o) == list[o] = "deactivate" /\ entry[o].st = "ETHEREALISING"
                /\ ~eth["deactivate"]

\* A destroyed POA leaves nothing in the object table, but what a deactivation
\* of the manager without etherealisation has left there, and the
\* place of an activation that has yet to see that the POA is gone. Nobody is
\* inside the POA's code for longer than that.
OnlyAbandonedLeft == life = "gone" =>
  /\ \A o \in Objects : entry[o].st \in {"none", "ACTIVATING"} \/ Abandoned(o)
  /\ queue = <<>> /\ server = None
  /\ \A t \in Callers : at[t] \in {"idle", "locate", "sa_check"}

Life == INSTANCE ObjectLife WITH
  servant <- [o \in Objects |-> CASE entry[o].st \in Present -> "present"
                                 [] entry[o].st = "ETHEREALISING" -> "going"
                                 [] OTHER -> "absent"],
  users <- [o \in Objects |-> {r \in Callers : at[r] = "upcall" /\ arg[r] = o}],
  closed <- life \in {"destroyed", "gone"}

\* What an object adapter promises: a servant's etherealisation begins only when
\* no upcall is in it and none enters then, and none enters a destroyed POA.
ImplementsObjectLife == Life!LifeSpec

\* A request is asleep though the POA does not hold requests any more.
Forgotten == \E r \in Callers : at[r] = "held" /\ r \in asleep /\ pd_rq_state # "HOLDING"

AllJobsOver == \A j \in Jobs : job[j] \in {"none", "done"}

\* The deactivation of the manager and the destruction of the POA end, whatever
\* requests and operations overlap them; but for a request forgotten when
\* hold_requests() runs into destroy().
JobsEnd == <>[](AllJobsOver \/ Forgotten)

\* poa.cc:2834 "Wait until the request can proceed, or discard it.": a request
\* does not sleep on when the POA does not hold requests any more.
NoForgottenRequest == ~Forgotten
=============================================================================
