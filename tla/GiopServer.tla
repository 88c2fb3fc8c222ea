------------------------------ MODULE GiopServer ------------------------------
(* The server side of the transport: giopServer with its connections, the    *)
(* rendezvouser that accepts connections and watches them, and the workers   *)
(* that read requests and make the upcalls.                                  *)
(*                                                                           *)
(* A connection is served by a dedicated worker, helped by temporary ones    *)
(* while it is in an upcall, or, with a thread pool, by temporary workers    *)
(* that the rendezvouser starts when it sees data. Whether anybody looks for *)
(* the next request depends on flags that the threads set and clear with     *)
(* two locks: pd_lock for the server and its connections, and the lock of    *)
(* the SocketCollection for pd_selectable and pd_data_in_buffer.             *)
(*                                                                           *)
(* A step is a critical section of one of the locks (or omniTransportLock    *)
(* for the strand) or the I/O between two of them. The model has one         *)
(* endpoint, no bidirectional connections, and requests that are read as a   *)
(* whole except those that a client cancels half way. The invoker runs every *)
(* task at some time (module AsyncInvoker says when it does not).            *)
EXTENDS Naturals, FiniteSets

CONSTANTS
  Connections,   \* connection objects; one is used anew once it is deleted
  Workers,       \* giopWorker objects
  Policies,      \* values of threadPerConnectionPolicy
  UpperLimits,   \* values of threadPerConnectionUpperLimit
  LowerLimit,    \* threadPerConnectionLowerLimit
  MaxWorkers,    \* maxServerThreadPerConnection
  Watch,         \* threadPoolWatchConnection
  PoolSize,      \* maxServerThreadPoolSize
  MaxAccepts,    \* bound: connections that clients open
  MaxRequests,   \* bound: requests that clients send
  MaxFaults,     \* bound: closed and refused connections, cancelled requests
  MaxStops,      \* bound: calls of stop()
  None

ASSUME ObjectsAssumption == None \notin Connections \cup Workers
ASSUME FiniteAssumption == IsFiniteSet(Connections) /\ IsFiniteSet(Workers)
ASSUME LimitsAssumption ==
  /\ Policies \subseteq BOOLEAN
  /\ UpperLimits \subseteq Nat \ {0} /\ LowerLimit \in Nat
  /\ MaxWorkers \in Nat \ {0} /\ Watch \in Nat /\ PoolSize \in Nat
ASSUME BoundsAssumption ==
  /\ MaxAccepts \in Nat /\ MaxRequests \in Nat
  /\ MaxFaults \in Nat /\ MaxStops \in Nat

VARIABLES
  policy,          \* threadPerConnectionPolicy
  upperLimit,      \* threadPerConnectionUpperLimit
  threadPer,       \* pd_thread_per_connection
  state,           \* pd_state: "IDLE", "ACTIVE", "INFLUX" or "TIMEDOUT"
  stage,           \* what deactivate() waits for
  timedOut,        \* timed_out there
  nTemporary,      \* pd_n_temporary_workers
  nDedicated,      \* pd_n_dedicated_workers
  conn,            \* each connection with its strand, see ConnectionType
  worker,          \* each worker, see WorkerType
  rendezvouser,    \* where it is: "none", "select", "accepted", "insert"
  fresh,           \* the connection it has accepted
  toNotify,        \* to_notify of the Select() it is in
  poked,           \* pd_poked of the endpoint
  endpoint,        \* the endpoint is in pd_endpoints
  accepts, requests, faults, stops

params == <<policy, upperLimit>>
serverVars == <<params, threadPer, state, stage, timedOut>>
counters == <<nTemporary, nDedicated>>
rzVars == <<rendezvouser, fresh, toNotify, poked, endpoint>>
bounds == <<accepts, requests, faults, stops>>
vars == <<serverVars, counters, conn, worker, rzVars, bounds>>

ConnectionType ==
  [refs : 0 .. 2,             \* pd_refcount: the strand's and the table's
   known : BOOLEAN,           \* is in pd_connectionState
   dedicated : BOOLEAN,       \* pd_has_dedicated_thread
   n_workers : Nat,           \* pd_n_workers
   in_upcall : BOOLEAN,       \* pd_dedicated_thread_in_upcall
   hit_limit : BOOLEAN,       \* pd_has_hit_n_workers_limit
   dying : BOOLEAN,           \* pd_dying
   selectable : BOOLEAN,      \* pd_selectable
   buffered : BOOLEAN,        \* pd_data_in_buffer
   peek_go : BOOLEAN,         \* pd_peek_go
   strand : {"ACTIVE", "DYING"},
   pending : BOOLEAN,         \* deletePending()
   checked : BOOLEAN,         \* gatekeeper_checked
   idle : {"off", "on", "expired"},
   link : {"up", "closed", "shut"},   \* closed by the client, or shut here
   socket : Nat,              \* requests that have arrived on it
   head : Nat,                \* requests read too far, in the strand's buffers
   cancelled : BOOLEAN]       \* a request was cancelled half way

NoConnection ==
  [refs |-> 0, known |-> FALSE, dedicated |-> FALSE, n_workers |-> 0,
   in_upcall |-> FALSE, hit_limit |-> FALSE, dying |-> FALSE,
   selectable |-> FALSE, buffered |-> FALSE, peek_go |-> FALSE,
   strand |-> "ACTIVE", pending |-> FALSE, checked |-> FALSE, idle |-> "off",
   link |-> "shut", socket |-> 0, head |-> 0, cancelled |-> FALSE]

(* "none" is no worker. "reading" to "ending" hold the read lock of the      *)
(* strand, "sleeping" waits for it; "done" to "leaving" are notifyWkDone(),  *)
(* "error" to "deleting" removeConnectionAndWorker().                        *)
Places == {"none", "start", "acquire", "sleeping", "reading", "read",
           "cancelled", "broken", "selecting", "ending", "upcall", "replied",
           "failed", "done", "peek", "peeking", "select", "leaving",
           "error", "clearing", "removing", "deleting"}

WorkerType ==
  [at : Places, conn : Connections \cup {None}, singleshot : BOOLEAN]

NoWorker == [at |-> "none", conn |-> None, singleshot |-> FALSE]

Init ==
  /\ policy \in Policies /\ upperLimit \in UpperLimits /\ threadPer = policy
  /\ state = "IDLE" /\ stage = "none" /\ timedOut = FALSE
  /\ nTemporary = 0 /\ nDedicated = 0
  /\ conn = [c \in Connections |-> NoConnection]
  /\ worker = [w \in Workers |-> NoWorker]
  /\ rendezvouser = "none" /\ fresh = None /\ toNotify = {}
  /\ poked = FALSE /\ endpoint = TRUE
  /\ accepts = 0 /\ requests = 0 /\ faults = 0 /\ stops = 0

-----------------------------------------------------------------------------
Known == {c \in Connections : conn[c].known}
On(c) == {w \in Workers : worker[w].conn = c}
Reading(c) ==
  {w \in On(c) : worker[w].at \in
     {"reading", "read", "cancelled", "broken", "selecting", "ending"}}
\* Those that have a GIOP_S of the strand, and those with a request in it.
Serving(c) ==
  {w \in On(c) : worker[w].at \in {"upcall", "replied", "failed"}}
    \cup Reading(c)
Busy(c) == {w \in Serving(c) : worker[w].at # "reading"}
Peeking(c) == \E w \in On(c) : worker[w].at = "peeking"

Free == {w \in Workers : worker[w].at = "none"}
Start(c, single) == [at |-> "start", conn |-> c, singleshot |-> single]

Fault == faults < MaxFaults /\ faults' = faults + 1
NoFault == UNCHANGED faults

\* Places and flags that a worker's step changes; the rest of the server stays.
Goes(w, place) == worker' = [worker EXCEPT ![w].at = place]
UnchangedByStep == <<serverVars, counters, rzVars, bounds>>

-----------------------------------------------------------------------------
(* The clients.                                                              *)

SendRequest(c) ==
  /\ conn[c].link = "up" /\ requests < MaxRequests
  /\ conn' = [conn EXCEPT ![c].socket = @ + 1]
  /\ requests' = requests + 1
  /\ UNCHANGED <<serverVars, counters, worker, rzVars, accepts, faults, stops>>

PeerCloses(c) ==
  /\ conn[c].link = "up"
  /\ Fault
  /\ conn' = [conn EXCEPT ![c].link = "closed"]
  /\ UNCHANGED <<serverVars, counters, worker, rzVars, accepts, requests, stops>>

-----------------------------------------------------------------------------
(* The rendezvouser: AcceptAndMonitor() with SocketCollection::Select().     *)

\* Data, or the end of it.
Readable(c) == conn[c].socket > 0 \/ conn[c].link # "up"

Selected == {c \in Connections : /\ conn[c].refs > 0 /\ conn[c].selectable
                                 /\ conn[c].buffered \/ Readable(c)}

\* Select() takes those that are ready out of the watch under the lock of the
\* collection, all or some (the list for poll() is made anew from time to time).
RzSelect ==
  /\ rendezvouser = "select" /\ toNotify = {}
  /\ \E S \in SUBSET Selected \ {{}} :
       LET told == {c \in S : conn[c].buffered \/ ~Peeking(c)} IN
       /\ toNotify' = told
       /\ conn' = [c \in Connections |->
            IF c \in told
            THEN [conn[c] EXCEPT !.selectable = FALSE, !.buffered = FALSE]
            ELSE IF c \in S THEN [conn[c] EXCEPT !.peek_go = TRUE]
            ELSE conn[c]]
       /\ toNotify' = {} => conn' # conn
  /\ UNCHANGED <<serverVars, counters, worker, rendezvouser, fresh, poked,
                 endpoint, bounds>>

AddWorker(c, w, single) ==
  /\ worker' = [worker EXCEPT ![w] = Start(c, single)]
  /\ nTemporary' = nTemporary + (IF single THEN 1 ELSE 0)
  /\ nDedicated' = nDedicated + (IF single THEN 0 ELSE 1)

\* notifyRzReadable()
NotifyReadable(c) ==
  IF state \notin {"ACTIVE", "INFLUX"} \/ conn[c].dying \/ ~conn[c].known
  THEN UNCHANGED <<conn, worker, counters>>
  ELSE IF conn[c].n_workers >= MaxWorkers
  THEN /\ conn' = [conn EXCEPT ![c].hit_limit = TRUE]
       /\ UNCHANGED <<worker, counters>>
  ELSE /\ Free # {} /\ AddWorker(c, CHOOSE w \in Free : TRUE, TRUE)
       /\ conn' = [conn EXCEPT ![c].n_workers = @ + 1]

\* sendNotifications(), when the lock of the collection is released. A
\* connection that has been deleted is used all the same; here it reads as one
\* that is not known.
RzNotify(c) ==
  /\ rendezvouser = "select" /\ c \in toNotify
  /\ toNotify' = toNotify \ {c}
  /\ NotifyReadable(c)
  /\ UNCHANGED <<serverVars, rendezvouser, fresh, poked, endpoint, bounds>>

RzAccept(c) ==
  /\ rendezvouser = "select" /\ toNotify = {}
  /\ conn[c].refs = 0 /\ On(c) = {}
  /\ accepts < MaxAccepts /\ accepts' = accepts + 1
  /\ rendezvouser' = "accepted" /\ fresh' = c
  /\ conn' = [conn EXCEPT ![c].refs = 1, ![c].link = "up"]
  /\ UNCHANGED <<serverVars, counters, worker, toNotify, poked, endpoint,
                 requests, faults, stops>>

\* Threads per connection are given up when there are many connections, and
\* taken up again when there are few: csInsert() and csRemove() of one of n.
Suspended(n) == threadPer /\ n < upperLimit
Restored(per, n) == per \/ (policy /\ n - 1 <= LowerLimit)

\* csInsert()
Insert(c) ==
  LET per == Suspended(Cardinality(Known) + 1) IN
  /\ threadPer' = per
  /\ conn' = [conn EXCEPT ![c] = [@ EXCEPT !.refs = 2, !.known = TRUE,
       !.idle = "on", !.dedicated = per, !.n_workers = IF per THEN 1 ELSE 0]]

\* notifyRzNewConnection(); the lock is released before setSelectable().
RzNewConnection ==
  /\ rendezvouser = "accepted" /\ state = "ACTIVE"
  /\ Insert(fresh)
  /\ IF threadPer'
     THEN /\ Free # {} /\ AddWorker(fresh, CHOOSE w \in Free : TRUE, FALSE)
          /\ rendezvouser' = "select" /\ fresh' = None
     ELSE rendezvouser' = "insert" /\ UNCHANGED <<fresh, worker, counters>>
  /\ UNCHANGED <<params, state, stage, timedOut, toNotify, poked,
                 endpoint, bounds>>

RzWatch ==
  /\ rendezvouser = "insert"
  /\ conn' = [conn EXCEPT ![fresh].selectable = TRUE]
  /\ rendezvouser' = "select" /\ fresh' = None
  /\ UNCHANGED <<serverVars, counters, worker, toNotify, poked, endpoint,
                 bounds>>

\* outOfResource: no thread, or a socket that cannot be watched.
RzRefuse ==
  /\ rendezvouser = "accepted" /\ state = "ACTIVE"
  /\ Fault
  /\ conn' = [conn EXCEPT ![fresh] = NoConnection]
  /\ LET n == Cardinality(Known) + 1 IN threadPer' = Restored(Suspended(n), n)
  /\ rendezvouser' = "select" /\ fresh' = None
  /\ UNCHANGED <<params, state, stage, timedOut, counters, worker, toNotify,
                 poked, endpoint, accepts, requests, stops>>

\* Terminate, then notifyRzDone().
RzTerminate ==
  /\ rendezvouser = "accepted" /\ state # "ACTIVE"
  /\ conn' = [conn EXCEPT ![fresh] = NoConnection]
  /\ rendezvouser' = "none" /\ fresh' = None
  /\ endpoint' = TRUE
  /\ UNCHANGED <<serverVars, counters, worker, toNotify, poked, bounds>>

\* AcceptAndMonitor() of an endpoint that was poked, by this stop() or by an
\* earlier one, ends when Select() brings no new connection. An endpoint whose
\* rendezvouser goes outside stop() is shut down.
RzPoked ==
  /\ rendezvouser = "select" /\ toNotify = {} /\ poked
  /\ rendezvouser' = "none"
  /\ endpoint' = (state = "INFLUX")
  /\ UNCHANGED <<serverVars, counters, conn, worker, fresh, toNotify, poked,
                 bounds>>

-----------------------------------------------------------------------------
(* A worker: giopWorker::execute() with GIOP_S::dispatcher().                *)

GatekeeperPasses(w) ==
  /\ worker[w].at = "start"
  /\ conn' = [conn EXCEPT ![worker[w].conn].checked = TRUE]
  /\ Goes(w, "acquire")
  /\ UNCHANGED UnchangedByStep

\* Mutant: safeDelete() does not ask whether a worker waits for the read lock.
SafelyDeleted_Sleeping(c, others) ==
  [conn[c] EXCEPT !.pending = TRUE, !.refs = IF others = {} THEN @ - 1 ELSE @]

\* What safeDelete() leaves of the references of a connection.
SafelyDeleted(c, others) ==
  [conn[c] EXCEPT !.pending = TRUE,
     !.refs = IF others = {} /\ ~\E v \in On(c) : worker[v].at = "sleeping"
              THEN @ - 1 ELSE @]

\* (When stop() has started a second worker that checks at the same time, that
\* one may give up the reference again; that is not modelled.)
GatekeeperRefuses(w) ==
  LET c == worker[w].conn IN
  /\ worker[w].at = "start" /\ ~conn[c].checked /\ ~conn[c].pending
  /\ Fault
  /\ conn' = [conn EXCEPT ![c] = SafelyDeleted(c, Serving(c))]
  /\ Goes(w, "error")
  /\ UNCHANGED <<serverVars, counters, rzVars, accepts, requests, stops>>

\* acquireServer()
AcquireServer(w) ==
  LET c == worker[w].conn IN
  /\ worker[w].at = "acquire"
  /\ Goes(w, IF conn[c].pending THEN "error"
             ELSE IF Reading(c) = {} THEN "reading" ELSE "sleeping")
  /\ UNCHANGED <<UnchangedByStep, conn>>

\* sleepOnRdLock(); deletePending() is not asked again.
WakeUp(w) ==
  /\ worker[w].at = "sleeping" /\ Reading(worker[w].conn) = {}
  /\ Goes(w, "reading")
  /\ UNCHANGED <<UnchangedByStep, conn>>

\* One request; what else recv() has returned stays in the buffers.
Taken(c, k) ==
  IF conn[c].head > 0 THEN [conn[c] EXCEPT !.head = @ - 1]
  ELSE [conn[c] EXCEPT !.socket = @ - k, !.head = k - 1]

\* The header is read and stopIdleCounter() called.
ReadRequest(w) ==
  LET c == worker[w].conn IN
  /\ worker[w].at = "reading" /\ conn[c].strand = "ACTIVE"
  /\ conn[c].head > 0 \/ (conn[c].socket > 0 /\ conn[c].link # "shut")
  /\ \E k \in 1 .. (IF conn[c].head > 0 THEN 1 ELSE conn[c].socket) :
       IF conn[c].idle = "expired"
       THEN /\ conn' =
                 [conn EXCEPT ![c] = [Taken(c, k) EXCEPT !.strand = "DYING"]]
            /\ Goes(w, "broken")
       ELSE /\ conn' = [conn EXCEPT ![c] = [Taken(c, k) EXCEPT !.idle = "off"]]
            /\ Goes(w, "read")
  /\ UNCHANGED UnchangedByStep

\* The client cancels a request of several fragments: terminateProcessing. The
\* server is not told that the request has been read.
Cancelled(w) ==
  LET c == worker[w].conn IN
  /\ worker[w].at = "read"
  /\ Fault
  /\ conn' = [conn EXCEPT ![c].cancelled = TRUE]
  /\ Goes(w, "cancelled")
  /\ UNCHANGED <<serverVars, counters, rzVars, accepts, requests, stops>>

ReadFails(w) ==
  LET c == worker[w].conn IN
  /\ worker[w].at = "reading"
  /\ conn[c].strand = "DYING" \/ (conn[c].head = 0 /\ conn[c].link # "up")
  /\ conn' = [conn EXCEPT ![c].strand = "DYING"]
  /\ Goes(w, "broken")
  /\ UNCHANGED UnchangedByStep

\* notifyWkPreUpCall(), the part under pd_lock: is the connection to be watched
\* while the upcall lasts?
Watched(w, c) ==
  IF ~conn[c].dedicated THEN TRUE
  ELSE IF ~worker[w].singleshot THEN MaxWorkers > 1
  ELSE conn[c].in_upcall

PreUpCall(w) ==
  LET c == worker[w].conn IN
  /\ worker[w].at = "read"
  /\ conn' = [conn EXCEPT ![c].in_upcall =
                @ \/ (conn[c].dedicated /\ ~worker[w].singleshot)]
  /\ Goes(w, IF Watched(w, c) THEN "selecting" ELSE "ending")
  /\ UNCHANGED UnchangedByStep

\* setSelectable(now, data_in_buffer); now only says how soon.
SetSelectable(w) ==
  LET c == worker[w].conn IN
  /\ worker[w].at = "selecting"
  /\ conn' = [conn EXCEPT ![c].selectable = TRUE,
                          ![c].buffered = @ \/ conn[c].head > 0]
  /\ Goes(w, "ending")
  /\ UNCHANGED UnchangedByStep

\* inputMessageEnd() gives up the read lock.
EndMessage(w) ==
  /\ worker[w].at = "ending"
  /\ Goes(w, "upcall")
  /\ UNCHANGED <<UnchangedByStep, conn>>

UpcallReturns(w) ==
  /\ worker[w].at = "upcall"
  /\ Goes(w, "replied")
  /\ UNCHANGED <<UnchangedByStep, conn>>

ReplyFails(w) ==
  LET c == worker[w].conn IN
  /\ worker[w].at = "upcall"
  /\ conn[c].strand = "DYING" \/ conn[c].link # "up"
  /\ conn' = [conn EXCEPT ![c].strand = "DYING"]
  /\ Goes(w, "failed")
  /\ UNCHANGED UnchangedByStep

\* releaseServer(); it starts the idle counter when no request is served.
ReleaseServer(w) ==
  LET c == worker[w].conn IN
  /\ worker[w].at \in {"replied", "cancelled", "failed", "broken"}
  /\ conn' = [conn EXCEPT ![c] =
       IF @.strand = "DYING" THEN SafelyDeleted(c, Serving(c) \ {w})
       ELSE IF Busy(c) = {w} /\ @.idle = "off" THEN [@ EXCEPT !.idle = "on"]
       ELSE @]
  /\ Goes(w, IF worker[w].at \in {"replied", "cancelled"} THEN "done"
             ELSE "error")
  /\ UNCHANGED UnchangedByStep

-----------------------------------------------------------------------------
(* notifyWkDone(): does the worker go round again?                           *)

\* Mutant: pd_n_temporary_workers is not counted down.
RemoveWorker_Uncounted(w) ==
  LET c == worker[w].conn IN
  /\ worker' = [worker EXCEPT ![w] = NoWorker]
  /\ conn' = [conn EXCEPT ![c].n_workers = @ - 1]
  /\ UNCHANGED counters

\* The worker is no longer needed.
RemoveWorker(w) ==
  LET c == worker[w].conn IN
  /\ worker' = [worker EXCEPT ![w] = NoWorker]
  /\ conn' = [conn EXCEPT ![c].n_workers = @ - 1]
  /\ nTemporary' = nTemporary - 1
  /\ UNCHANGED nDedicated

AgainAfterLimit(w) ==
  /\ Goes(w, "acquire")
  /\ conn' = [conn EXCEPT ![worker[w].conn].hit_limit = FALSE]
  /\ UNCHANGED counters

Again(w) == Goes(w, "acquire") /\ UNCHANGED <<conn, counters>>

\* Mutant: the last worker goes without a look at pd_dying.
LastOfDying_Unseen(c) == FALSE

\* The last worker of a connection that dies must notice it.
LastOfDying(c) == conn[c].n_workers = 1 /\ conn[c].dying

\* clearSelectable() comes first, under the other lock.
DedicatedDone(w) ==
  LET c == worker[w].conn IN
  /\ ~worker[w].singleshot
  /\ \/ /\ worker[w].at = "done"
        /\ conn' = [conn EXCEPT ![c].selectable = FALSE]
        /\ Goes(w, "leaving")
     \/ /\ worker[w].at = "leaving"
        /\ conn' = [conn EXCEPT ![c].in_upcall = FALSE, ![c].hit_limit = FALSE]
        /\ Goes(w, "acquire")
  /\ UNCHANGED counters

HelperDone(w) ==
  LET c == worker[w].conn
      rest == [conn EXCEPT ![c].hit_limit = FALSE] IN
  /\ worker[w].at = "done" /\ worker[w].singleshot /\ conn[c].dedicated
  /\ IF conn[c].hit_limit /\ conn[c].in_upcall THEN AgainAfterLimit(w)
     ELSE IF LastOfDying(c)
     THEN Goes(w, "acquire") /\ conn' = rest /\ UNCHANGED counters
     ELSE /\ worker' = [worker EXCEPT ![w] = NoWorker]
          /\ conn' = [rest EXCEPT ![c].n_workers = @ - 1]
          /\ nTemporary' = nTemporary - 1 /\ UNCHANGED nDedicated

PoolDone(w) ==
  LET c == worker[w].conn IN
  /\ worker[w].at = "done" /\ ~conn[c].dedicated
  /\ IF conn[c].hit_limit THEN AgainAfterLimit(w)
     ELSE /\ Goes(w, IF conn[c].n_workers > Watch \/ nTemporary > PoolSize
                     THEN "select" ELSE "peek")
          /\ UNCHANGED <<conn, counters>>

\* Peek() waits until it may look, but not for long.
PeekStart(w) ==
  LET c == worker[w].conn IN
  /\ worker[w].at = "peek" /\ conn[c].selectable /\ ~Peeking(c)
  /\ IF conn[c].buffered
     THEN /\ conn' = [conn EXCEPT ![c].buffered = FALSE, ![c].selectable = FALSE]
          /\ Goes(w, "acquire")
     ELSE /\ conn' = [conn EXCEPT ![c].peek_go = FALSE]
          /\ Goes(w, "peeking")
  /\ UNCHANGED counters

PeekTimesOut(w) ==
  /\ worker[w].at = "peek"
  /\ ~(conn[worker[w].conn].selectable /\ ~Peeking(worker[w].conn))
  /\ Goes(w, "select")
  /\ UNCHANGED <<conn, counters>>

\* poll() returns with data, or at its timeout; buffered data counts anyway.
PeekEnd(w) ==
  LET c == worker[w].conn IN
  /\ worker[w].at = "peeking"
  /\ \E polled \in {TRUE, FALSE} :
       LET yes == \/ conn[c].buffered
                  \/ polled /\ conn[c].selectable
                  \/ ~polled /\ conn[c].peek_go IN
       /\ IF polled THEN Readable(c) ELSE ~Readable(c) \/ conn[c].peek_go
       /\ conn' = [conn EXCEPT ![c].buffered = FALSE,
                               ![c].selectable = @ /\ ~yes]
       /\ Goes(w, IF yes THEN "acquire" ELSE "select")
  /\ UNCHANGED counters

\* setSelectable(2) has the connection watched at once if it is watched at all;
\* here that is no change.
SelectNow(w) ==
  /\ worker[w].at = "select"
  /\ Goes(w, "leaving")
  /\ UNCHANGED <<conn, counters>>

\* Mutant: the limit is not tested again after Peek().
PoolLeave_NotAgain(w) ==
  LET c == worker[w].conn IN
  /\ worker[w].at = "leaving" /\ ~conn[c].dedicated
  /\ IF LastOfDying(c) THEN Again(w) ELSE RemoveWorker(w)

PoolLeave(w) ==
  LET c == worker[w].conn IN
  /\ worker[w].at = "leaving" /\ ~conn[c].dedicated
  /\ IF conn[c].hit_limit THEN AgainAfterLimit(w)
     ELSE IF LastOfDying(c) THEN Again(w)
     ELSE RemoveWorker(w)

WorkerDone(w) ==
  /\ \/ DedicatedDone(w) \/ HelperDone(w) \/ PoolDone(w) \/ PeekStart(w)
     \/ PeekTimesOut(w) \/ PeekEnd(w) \/ SelectNow(w) \/ PoolLeave(w)
  /\ UNCHANGED <<serverVars, rzVars, bounds>>

-----------------------------------------------------------------------------
(* removeConnectionAndWorker(): the connection is lost.                      *)

MarkDying(w) ==
  /\ worker[w].at = "error"
  /\ conn' = [conn EXCEPT ![worker[w].conn].dying = TRUE]
  /\ Goes(w, "clearing")
  /\ UNCHANGED UnchangedByStep

\* Without pd_lock.
ClearSelectable(w) ==
  /\ worker[w].at = "clearing"
  /\ conn' = [conn EXCEPT ![worker[w].conn].selectable = FALSE]
  /\ Goes(w, "removing")
  /\ UNCHANGED UnchangedByStep

Remove(w) ==
  LET c == worker[w].conn
      last == conn[c].n_workers = 1 IN
  /\ worker[w].at = "removing"
  /\ IF worker[w].singleshot
     THEN nTemporary' = nTemporary - 1 /\ UNCHANGED nDedicated
     ELSE nDedicated' = nDedicated - 1 /\ UNCHANGED nTemporary
  /\ conn' = [conn EXCEPT ![c].n_workers = @ - 1, ![c].known = ~last]
  /\ threadPer' = IF last THEN Restored(threadPer, Cardinality(Known))
                  ELSE threadPer
  /\ worker' = [worker EXCEPT ![w] = IF last THEN [@ EXCEPT !.at = "deleting"]
                                     ELSE NoWorker]
  /\ UNCHANGED <<params, state, stage, timedOut, rzVars, bounds>>

\* The connection's record gives up its reference, without pd_lock.
DeleteState(w) ==
  LET c == worker[w].conn IN
  /\ worker[w].at = "deleting"
  /\ conn' = [conn EXCEPT ![c] = IF @.refs = 1 THEN NoConnection
                                 ELSE [@ EXCEPT !.refs = @ - 1]]
  /\ worker' = [worker EXCEPT ![w] = NoWorker]
  /\ UNCHANGED UnchangedByStep

-----------------------------------------------------------------------------
(* The scavenger closes connections that are idle.                           *)

\* removeIdle()
Expire(c) ==
  /\ conn[c].idle = "on" /\ conn[c].refs > 0
  /\ Fault
  /\ conn' = [conn EXCEPT ![c].idle = "expired"]
  /\ UNCHANGED <<serverVars, counters, worker, rzVars, accepts, requests, stops>>

CloseIdle(c) ==
  /\ conn[c].idle = "expired" /\ ~conn[c].pending
  /\ conn[c].strand = "ACTIVE" \/ conn[c].link # "shut"
  /\ conn' = [conn EXCEPT ![c].strand = "DYING", ![c].link = "shut"]
  /\ UNCHANGED <<UnchangedByStep, worker>>

-----------------------------------------------------------------------------
(* start(), and stop() with deactivate(), which releases pd_lock where it    *)
(* waits. (Where there is nothing to wait for it does not; the model lets    *)
(* the other threads in there as well.)                                      *)

\* The endpoint does not forget that it was poked.
StartServer ==
  /\ state = "IDLE"
  /\ state' = "ACTIVE"
  /\ rendezvouser' = (IF endpoint THEN "select" ELSE "none")
  /\ endpoint' = FALSE
  /\ UNCHANGED <<params, threadPer, stage, timedOut, counters, conn, worker,
                 fresh, toNotify, poked, bounds>>

\* Mutant: Shutdown() is not called.
Shut_Forgotten(C) == conn

Shut(C) == [c \in Connections |->
  IF c \in C THEN [conn[c] EXCEPT !.link = "shut"] ELSE conn[c]]

Deactivate ==
  /\ state = "ACTIVE" /\ stops < MaxStops
  /\ stops' = stops + 1
  /\ state' = "INFLUX" /\ stage' = "dedicated" /\ timedOut' = FALSE
  /\ conn' = Shut({c \in Known : conn[c].dedicated})
  /\ UNCHANGED <<params, threadPer, counters, worker, rzVars, accepts,
                 requests, faults>>

\* Mutant: the deadline is not noted in timed_out.
WaitEnds_NotNoted(done) == UNCHANGED timedOut

\* A wait of deactivate() ends when the last that it waits for has gone, or at
\* its deadline.
WaitEnds(done) ==
  \/ done /\ UNCHANGED timedOut
  \/ ~done /\ timedOut' = TRUE

\* Poke(), for a rendezvouser that has not gone.
StopRendezvousers ==
  /\ stage = "dedicated"
  /\ WaitEnds(nDedicated = 0 \/ Known = {})
  /\ stage' = "rendezvousers" /\ poked' = (poked \/ rendezvouser # "none")
  /\ UNCHANGED <<params, threadPer, state, counters, conn, worker,
                 rendezvouser, fresh, toNotify, endpoint, bounds>>

\* A worker is started for each remaining connection, to notice its closure.
CloseRemaining ==
  LET rest == {c \in Known : ~conn[c].dedicated} IN
  /\ stage = "rendezvousers"
  /\ WaitEnds(rendezvouser = "none")
  /\ Cardinality(Free) >= Cardinality(rest)
  /\ LET pick == CHOOSE f \in [rest -> Free] :
                   \A c, d \in rest : f[c] = f[d] => c = d IN
       worker' = [w \in Workers |->
         IF \E c \in rest : pick[c] = w
         THEN Start(CHOOSE c \in rest : pick[c] = w, TRUE) ELSE worker[w]]
  /\ conn' = [c \in Connections |->
       IF c \in rest THEN [conn[c] EXCEPT !.link = "shut", !.n_workers = @ + 1]
       ELSE conn[c]]
  /\ nTemporary' = nTemporary + Cardinality(rest)
  /\ stage' = "temporary"
  /\ UNCHANGED <<params, threadPer, state, nDedicated, rzVars, bounds>>

Deactivated ==
  /\ stage = "temporary"
  /\ WaitEnds(nTemporary = 0)
  /\ stage' = "none"
  /\ state' = IF timedOut' THEN "TIMEDOUT" ELSE "IDLE"
  /\ UNCHANGED <<params, threadPer, counters, conn, worker, rzVars, bounds>>

-----------------------------------------------------------------------------
Client == \E c \in Connections : SendRequest(c) \/ PeerCloses(c)

Rendezvouser ==
  \/ RzSelect
  \/ \E c \in Connections : RzNotify(c)
  \/ RzNewConnection \/ RzWatch \/ RzTerminate \/ RzPoked

Work(w) ==
  \/ GatekeeperPasses(w) \/ AcquireServer(w) \/ WakeUp(w) \/ ReadRequest(w)
  \/ ReadFails(w) \/ PreUpCall(w) \/ SetSelectable(w) \/ EndMessage(w)
  \/ UpcallReturns(w) \/ ReplyFails(w) \/ ReleaseServer(w) \/ WorkerDone(w)
  \/ MarkDying(w) \/ ClearSelectable(w) \/ Remove(w) \/ DeleteState(w)

Incident ==
  \/ RzRefuse
  \/ \E w \in Workers : GatekeeperRefuses(w) \/ Cancelled(w)
  \/ \E c \in Connections : Expire(c)

Stop == StopRendezvousers \/ CloseRemaining \/ Deactivated

Next ==
  \/ Client \/ Rendezvouser \/ Incident \/ StartServer \/ Deactivate \/ Stop
  \/ \E c \in Connections : RzAccept(c) \/ CloseIdle(c)
  \/ \E w \in Workers : Work(w)

Spec == Init /\ [][Next]_vars

\* What deactivate() waits for has come: it does not need its deadline.
StopInTime == Stop /\ timedOut' = timedOut

(* The threads run, upcalls return, the rendezvouser looks again and again,  *)
(* and stop() goes on when what it waits for has come; nobody has to call,   *)
(* to connect or to send.                                                    *)
FairSpec ==
  /\ Spec
  /\ WF_vars(Rendezvouser) /\ WF_vars(StopInTime)
  /\ \A w \in Workers : WF_vars(Work(w))
  /\ \A c \in Connections : WF_vars(CloseIdle(c))

-----------------------------------------------------------------------------
(* Properties.                                                               *)

Temporary == {w \in Workers : worker[w].at \notin {"none", "deleting"}
                              /\ worker[w].singleshot}
Dedicated == {w \in Workers : worker[w].at \notin {"none", "deleting"}
                              /\ ~worker[w].singleshot}

\* The variables have their types, the counters of workers are those of the
\* threads there are, and a worker's connection is in the table.
TypeOK ==
  /\ policy \in BOOLEAN /\ upperLimit \in Nat /\ threadPer \in {FALSE, policy}
  /\ state \in {"IDLE", "ACTIVE", "INFLUX", "TIMEDOUT"}
  /\ stage \in {"none", "dedicated", "rendezvousers", "temporary"}
  /\ (stage = "none") = (state # "INFLUX")
  /\ timedOut \in BOOLEAN
  /\ conn \in [Connections -> ConnectionType]
  /\ worker \in [Workers -> WorkerType]
  /\ rendezvouser \in {"none", "select", "accepted", "insert"}
  /\ fresh \in Connections \cup {None} /\ toNotify \subseteq Connections
  /\ nTemporary = Cardinality(Temporary) /\ nDedicated = Cardinality(Dedicated)
  /\ \A c \in Connections :
       conn[c].n_workers = Cardinality(On(c) \cap (Temporary \cup Dedicated))
  /\ \A w \in Temporary \cup Dedicated : conn[worker[w].conn].known

\* One thread reads from a connection, and while any thread uses it, it exists:
\* it is deleted with its last reference, when its last worker has gone, and
\* then always. The strand gives up its reference once.
FreedOnce ==
  \A c \in Connections :
    /\ Cardinality(Reading(c)) <= 1
    /\ On(c) # {} => conn[c].refs > 0
    /\ On(c) = {} /\ ~conn[c].known /\ fresh # c => conn[c].refs = 0
    /\ Serving(c) # {} => conn[c].refs = 2

\* A connection that dies is never left behind without a worker that removes it
\* from the table: the last one looks at pd_dying before it goes.
DyingIsRemoved ==
  \A c \in Connections : conn[c].known /\ conn[c].dying => conn[c].n_workers > 0

\* A stop() that did not time out leaves nobody who serves: every connection is
\* shut (one may stay in the table, until a thread looks) and no worker is left.
\* The first time the endpoint is there for the next start(). Later it may have
\* been lost in between, though only if it was poked.
IdleIsEmpty ==
  state = "IDLE" =>
    /\ stops <= 1 \/ ~poked => endpoint
    /\ \A c \in Known : conn[c].link = "shut"
    /\ rendezvouser = "none"
    /\ \A w \in Workers : worker[w].at \in {"none", "deleting"}

\* When a connection is taken out of the table, the thread that watches
\* connections takes no interest in it any more, as the comment in
\* removeConnectionAndWorker() says; it does not call back with one deleted.
NotifiedExists == \A c \in toNotify : conn[c].refs > 0

\* Whatever a client sends is read, and a connection that was closed is removed,
\* though nobody but these threads looks: no flag that says who looks next is
\* lost between the workers and the rendezvouser. (Where a request is cancelled
\* half way and its worker comes from the pool, nobody looks any more.) A server
\* keeps its rendezvouser, and looks after the connections of the pool, exactly
\* if its endpoint was never poked: one that has been stopped and started again
\* ends up with the connections only that have a thread of their own.
Attended ==
  <>[](state = "ACTIVE" =>
         /\ (rendezvouser = "none") = poked
         /\ \A c \in Known :
              ~conn[c].cancelled /\ (conn[c].dedicated \/ ~poked) =>
                conn[c].link = "up" /\ conn[c].socket + conn[c].head = 0)

\* stop() comes to an end by itself: the threads that end tell it so, and it
\* need not time out.
StopEnds == <>[](state # "INFLUX")
=============================================================================
