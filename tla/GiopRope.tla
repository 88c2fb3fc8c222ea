------------------------------ MODULE GiopRope ------------------------------
(* The client's connections to one server: a rope (giopRope) with its        *)
(* addresses, its strands (giopStrand), the calls (GIOP_C) they carry and    *)
(* the scavenger that closes idle strands.                                   *)
(*                                                                           *)
(* Callers take a strand from the rope or make one, wait when there are too  *)
(* many, send a request, read its reply and give the strand back; after a    *)
(* failure they move the rope to another address and try again. The server   *)
(* and the network are an environment that executes requests, closes         *)
(* connections in order and breaks them.                                     *)
(*                                                                           *)
(* A step is a critical section of omniTransportLock, or a call of the       *)
(* transport made without it. The model has one GIOP version, no             *)
(* bidirectional strands, a rope that stays referenced, addresses that stay  *)
(* the same when names are resolved anew, and the parameters                 *)
(* retainAddressOrder, immediateRopeSwitch and clientConnectTimeOutPeriod at *)
(* their default, 0.                                                         *)
EXTENDS Naturals, Sequences, FiniteSets

CONSTANTS
  Callers,       \* threads that invoke
  Timed,         \* those whose calls have a deadline
  Strands,       \* strand objects; one is used anew once it is deleted
  Addresses,     \* addresses of the server
  Orders,        \* what filterAndSortAddressList() may make of them
  MaxStrands,    \* pd_maxStrands
  Modes,         \* values of pd_oneCallPerConnection
  Beats,         \* idleOutgoingBeats
  MaxCalls,      \* bound: calls
  MaxFaults,     \* bound: failures and closures of connections
  None

ASSUME OrdersAssumption == Orders \subseteq Seq(Addresses)
ASSUME CallersAssumption == Timed \subseteq Callers /\ None \notin Callers
ASSUME StrandsAssumption == None \notin Strands \cup Addresses
ASSUME FiniteAssumption == IsFiniteSet(Callers) /\ IsFiniteSet(Strands)
ASSUME ParametersAssumption ==
  /\ MaxStrands \in Nat \ {0} /\ Beats \in Nat \ {0}
  /\ Modes \subseteq BOOLEAN
ASSUME BoundsAssumption ==
  MaxCalls \in Nat /\ MaxFaults \in Nat

VARIABLES
  oneCall,       \* pd_oneCallPerConnection
  filtered,      \* pd_addrs_filtered
  filtering,     \* pd_filtering
  order,         \* pd_addresses_order
  inUse,         \* pd_address_in_use, from 1
  nwaiting,      \* pd_nwaiting
  strand,        \* each strand, see StrandType
  pc,            \* where each caller is, see Places
  on,            \* the strand whose GIOP_C it has
  req,           \* its request: "none", "writing", "sent", executed: "done"
  first,         \* firstAddressUsed() of its call descriptor
  current,       \* currentAddress()
  result,        \* what its call will do next or has ended with
  executed,      \* times the server has executed its call
  scavenging,    \* the scavenger has strands to close
  calls, faults,
  forced         \* disconnect() was called

ropeVars == <<oneCall, filtered, filtering, order, inUse, nwaiting>>
callVars == <<on, req, first, current, result, executed>>
bounds == <<calls, faults, forced>>
vars == <<ropeVars, strand, pc, callVars, scavenging, bounds>>

(* "filter" and "queue" are asleep on pd_cond, "woken" is signalled there;   *)
(* "filtering" resolves names; "acquired", "sending", "waiting", "completed" *)
(* are the states Idle, RequestInProgress, WaitingForReply and Idle again of *)
(* the GIOP_C; "exhausted", "failing" and "failed" are on the way out.       *)
Places == {"out", "acquire", "filter", "filtering", "queue", "woken",
           "acquired", "sending", "waiting", "completed", "exhausted",
           "failing", "failed"}

Ends == {"ok", "no", "maybe"}

\* state "free" is no strand; "scavenged" is on the scavenger's own list.
StrandType ==
  [state : {"free", "ACTIVE", "DYING", "scavenged"},
   connection : {"none", "open", "closing", "broken"},
   address : Addresses \cup {None},
   first_use : BOOLEAN, orderly_closed : BOOLEAN,
   cached : BOOLEAN,           \* its list has an UnUsed GIOP_C
   idlebeats : 0 .. Beats]     \* 0: the counter is off

NoStrand ==
  [state |-> "free", connection |-> "none", address |-> None,
   first_use |-> TRUE, orderly_closed |-> FALSE, cached |-> FALSE,
   idlebeats |-> 0]

-----------------------------------------------------------------------------
Users(s) == {c \in Callers : on[c] = s}
InRope == {s \in Strands : strand[s].state \in {"ACTIVE", "DYING"}}
Active == {s \in Strands : strand[s].state = "ACTIVE"}
Dying == InRope \ Active
Unused == {s \in Active : strand[s].cached}

Init ==
  /\ oneCall \in Modes
  /\ filtered = FALSE /\ filtering = FALSE
  /\ order = <<>> /\ inUse = 1 /\ nwaiting = 0
  /\ strand = [s \in Strands |-> NoStrand]
  /\ pc = [c \in Callers |-> "out"]
  /\ on = [c \in Callers |-> None]
  /\ req = [c \in Callers |-> "none"]
  /\ first = [c \in Callers |-> None]
  /\ current = [c \in Callers |-> None]
  /\ result = [c \in Callers |-> "none"]
  /\ executed = [c \in Callers |-> 0]
  /\ scavenging = FALSE
  /\ calls = 0 /\ faults = 0 /\ forced = FALSE

-----------------------------------------------------------------------------
(* Waiting on pd_cond.                                                       *)

Awake(place) == IF place = "queue" THEN "woken" ELSE "acquire"
Asleep == {c \in Callers : pc[c] \in {"filter", "queue"}}

Broadcast ==
  [c \in Callers |-> IF c \in Asleep THEN Awake(pc[c]) ELSE pc[c]]

\* Mutant: nobody is signalled.
Signalled_Nobody(c, place) == {[pc EXCEPT ![c] = place]}

\* What pd_cond.signal() may leave of pc, given that c has gone to place.
Signalled(c, place) ==
  IF nwaiting > 0 /\ Asleep # {}
  THEN {[pc EXCEPT ![c] = place, ![w] = Awake(pc[w])] : w \in Asleep}
  ELSE {[pc EXCEPT ![c] = place]}

\* A wait on a condition may end by itself.
WakeByItself(c) ==
  /\ pc[c] = "queue"
  /\ pc' = [pc EXCEPT ![c] = "woken"]
  /\ UNCHANGED <<ropeVars, strand, callVars, scavenging, bounds>>

-----------------------------------------------------------------------------
(* acquireClient()                                                           *)

\* The rope as a caller finds it at the label again, where it scans the strands:
\* what it did before in the same critical section counts.
Entry(places, filt, ord, nw) ==
  [pc |-> places, filtered |-> filt, order |-> ord, nwaiting |-> nw]

Settle(c, e, place) ==
  /\ pc' = [e.pc EXCEPT ![c] = place]
  /\ order' = e.order

descriptor == <<first, current, executed>>

\* The call and its descriptor are gone; the next has one of its own.
EndCall(c) ==
  /\ first' = [first EXCEPT ![c] = None]
  /\ current' = [current EXCEPT ![c] = None]
  /\ executed' = [executed EXCEPT ![c] = 0]

Acquired(c, s, e) ==
  /\ Settle(c, e, "acquired")
  /\ on' = [on EXCEPT ![c] = s]
  /\ filtered' = e.filtered /\ nwaiting' = e.nwaiting
  /\ UNCHANGED <<inUse, result, descriptor>>

\* Mutant: the count that retires the strand goes on.
TakeUnused_StillCounts(c, e) ==
  \E s \in Unused :
    Acquired(c, s, e) /\ strand' = [strand EXCEPT ![s].cached = FALSE]

TakeUnused(c, e) ==
  \E s \in Unused :
    /\ Acquired(c, s, e)
    /\ strand' = [strand EXCEPT ![s].cached = FALSE, ![s].idlebeats = 0]

\* Which object is free makes no difference.
NewStrand(c, e) ==
  LET s == CHOOSE s \in Strands : strand[s].state = "free" IN
  /\ e.order # <<>> /\ \E f \in Strands : strand[f].state = "free"
  /\ Acquired(c, s, e)
  /\ strand' = [strand EXCEPT ![s] =
       [NoStrand EXCEPT !.state = "ACTIVE", !.address = e.order[inUse]]]

\* TRANSIENT_NoUsableProfile, after resetAddressOrder().
NoProfile(c, e) ==
  /\ e.order = <<>>
  /\ Settle(c, e, "out")
  /\ result' = [result EXCEPT ![c] = "noprofile"]
  /\ filtered' = FALSE /\ nwaiting' = e.nwaiting
  /\ EndCall(c)
  /\ UNCHANGED <<strand, on, inUse>>

Queue(c, e) ==
  /\ Settle(c, e, "queue")
  /\ filtered' = e.filtered /\ nwaiting' = e.nwaiting + 1
  /\ UNCHANGED <<strand, on, inUse, result, descriptor>>

Share(c, e) ==
  \E s \in Active : Acquired(c, s, e) /\ UNCHANGED strand

\* Mutant: strands that die do not count.
Full_ActiveOnly == Cardinality(Active) >= MaxStrands

Full == Cardinality(InRope) >= MaxStrands
AllDying == Cardinality(Dying) >= MaxStrands

Scan(c, e) ==
  /\ IF Unused # {} THEN TakeUnused(c, e)
     ELSE IF ~Full THEN NewStrand(c, e) \/ NoProfile(c, e)
     ELSE IF oneCall \/ AllDying THEN Queue(c, e)
     ELSE Share(c, e)
  /\ UNCHANGED <<oneCall, req, scavenging, bounds>>

AcquireFiltered(c) ==
  /\ pc[c] = "acquire" /\ filtered
  /\ Scan(c, Entry(pc, TRUE, order, nwaiting))
  /\ UNCHANGED filtering

\* Another thread filters: wait for it, or start.
AcquireFilter(c) ==
  /\ pc[c] = "acquire" /\ ~filtered
  /\ filtering' = TRUE
  /\ pc' = [pc EXCEPT ![c] = IF filtering THEN "filter" ELSE "filtering"]
  /\ UNCHANGED <<oneCall, filtered, order, inUse, nwaiting, strand, callVars,
                 scavenging, bounds>>

\* filterAndSortAddressList() has resolved the names, without the lock.
Filtered(c) ==
  /\ pc[c] = "filtering"
  /\ filtering' = FALSE
  /\ \E ord \in Orders : Scan(c, Entry(Broadcast, TRUE, ord, nwaiting))

\* A thread that waited for a strand goes to again, not to the filtering.
Rescan(c) ==
  /\ pc[c] = "woken"
  /\ Scan(c, Entry(pc, filtered, order, nwaiting - 1))
  /\ UNCHANGED filtering

\* Mutant: the caller still counts as waiting.
QueueTimeout_StillWaiting(c) ==
  /\ pc[c] = "queue" /\ c \in Timed
  /\ pc' = [pc EXCEPT ![c] = "out"]
  /\ EndCall(c)
  /\ UNCHANGED <<ropeVars, strand, on, req, result, scavenging, bounds>>

\* The deadline passes while the caller waits for a strand.
QueueTimeout(c) ==
  /\ pc[c] = "queue" /\ c \in Timed
  /\ nwaiting' = nwaiting - 1
  /\ pc' = [pc EXCEPT ![c] = "out"]
  /\ EndCall(c)
  /\ UNCHANGED <<oneCall, filtered, filtering, order, inUse, strand, on, req,
                 result, scavenging, bounds>>

-----------------------------------------------------------------------------
(* A call on its strand.                                                     *)

UnchangedByIO == <<ropeVars, on, first, current, scavenging, calls, forced>>

Invoke(c) ==
  /\ pc[c] = "out" /\ calls < MaxCalls
  /\ pc' = [pc EXCEPT ![c] = "acquire"]
  /\ result' = [result EXCEPT ![c] = "none"]
  /\ calls' = calls + 1
  /\ UNCHANGED <<ropeVars, strand, on, req, first, current, executed,
                 scavenging, faults, forced>>

\* outputMessageBegin() takes the write lock of the strand.
BeginRequest(c) ==
  /\ pc[c] = "acquired"
  /\ \A d \in Users(on[c]) : req[d] # "writing"
  /\ pc' = [pc EXCEPT ![c] = "sending"]
  /\ req' = [req EXCEPT ![c] = "writing"]
  /\ UNCHANGED <<UnchangedByIO, strand, result, executed, faults>>

\* openConnection()
Connect(c) ==
  LET s == on[c] IN
  /\ pc[c] = "sending"
  /\ strand[s].connection = "none" /\ strand[s].state = "ACTIVE"
  /\ strand' = [strand EXCEPT ![s].connection = "open"]
  /\ UNCHANGED <<UnchangedByIO, pc, req, result, executed, faults>>

\* The last of the request has been sent; a peer that has gone may not show.
SendRequest(c) ==
  /\ pc[c] = "sending"
  /\ strand[on[c]].connection \in {"open", "closing"}
  /\ pc' = [pc EXCEPT ![c] = "waiting"]
  /\ req' = [req EXCEPT ![c] = "sent"]
  /\ UNCHANGED <<UnchangedByIO, strand, result, executed, faults>>

\* ReceiveReply(), RequestCompleted(): the reply was read, by this caller or
\* for it by another on the strand.
ReceiveReply(c) ==
  /\ pc[c] = "waiting" /\ req[c] = "done"
  /\ pc' = [pc EXCEPT ![c] = "completed"]
  /\ strand' = [strand EXCEPT ![on[c]].first_use = FALSE]
  /\ result' = [result EXCEPT ![c] = "ok"]
  /\ UNCHANGED <<UnchangedByIO, req, executed, faults>>

-----------------------------------------------------------------------------
(* Failures: GIOP_C::notifyCommFailure() and what the caller does about them.*)

NextIndex == IF inUse >= Len(order) THEN 1 ELSE inUse + 1

\* giopRope::notifyCommFailure(): the rope leaves addr if it is the one in use;
\* next is the address it will try. The vector pd_addresses_order is indexed
\* even if another call has cleared it: then next is whatever is found there.
SwitchFrom(addr, next) ==
  IF order = <<>> THEN UNCHANGED inUse
  ELSE IF addr = order[inUse] THEN inUse' = NextIndex /\ next = order[NextIndex]
  ELSE UNCHANGED inUse /\ next = order[inUse]

FirstAddress(c) == IF first[c] = None THEN strand[on[c]].address ELSE first[c]
CurrentAddress(c) == IF first[c] = None THEN strand[on[c]].address ELSE current[c]

\* Mutant: a call that may have been executed is retried.
Verdict_RetriesMaybe(retry, completion) ==
  IF retry THEN "retry" ELSE completion

\* CommFailure::_raise() retries only what the server cannot have executed.
Verdict(retry, completion) ==
  IF completion # "no" THEN "maybe" ELSE IF retry THEN "retry" ELSE "no"

Fails(c, place, f, cur, verdict) ==
  /\ pc' = [pc EXCEPT ![c] = place]
  /\ first' = [first EXCEPT ![c] = f]
  /\ current' = [current EXCEPT ![c] = cur]
  /\ result' = [result EXCEPT ![c] = verdict]

\* The strand was closed in order: the same address again.
SameAddress(c, mayRetry, completion) ==
  /\ Fails(c, "failing", FirstAddress(c), CurrentAddress(c),
           Verdict(mayRetry, completion))
  /\ UNCHANGED inUse

NextAddress(c, mayRetry, completion) ==
  \E next \in Addresses :
    /\ SwitchFrom(CurrentAddress(c), next)
    /\ IF next = FirstAddress(c)
       THEN Fails(c, "exhausted", None, None, Verdict(FALSE, completion))
       ELSE Fails(c, "failing", FirstAddress(c), next,
                  Verdict(mayRetry, completion))

\* The strand has served a call before: whatever broke, a new one may work.
AnyAddress(c, mayRetry, completion) ==
  /\ Fails(c, "exhausted", first[c], current[c], Verdict(mayRetry, completion))
  /\ UNCHANGED inUse

\* closed: orderly_closed, as this failure leaves it.
NotifyCommFailure(c, closed, mayRetry, completion) ==
  /\ IF ~strand[on[c]].first_use THEN AnyAddress(c, mayRetry, completion)
     ELSE IF closed THEN SameAddress(c, mayRetry, completion)
     ELSE NextAddress(c, mayRetry, completion)
  /\ strand' = [strand EXCEPT ![on[c]].orderly_closed = closed]
  /\ UNCHANGED <<oneCall, filtered, filtering, order, nwaiting, on, req,
                 executed, scavenging, calls, forced>>

Fault == faults < MaxFaults /\ faults' = faults + 1
NoFault == UNCHANGED faults

\* No connection can be made, or the strand has died before there was one.
ConnectFails(c) ==
  LET s == on[c] IN
  /\ pc[c] = "sending" /\ strand[s].connection = "none"
  /\ IF strand[s].state = "ACTIVE" THEN Fault ELSE NoFault
  /\ NotifyCommFailure(c, strand[s].orderly_closed, TRUE, "no")

SendFails(c) ==
  LET s == on[c] IN
  /\ pc[c] = "sending" /\ strand[s].connection = "broken"
  /\ NoFault
  /\ NotifyCommFailure(c, strand[s].orderly_closed, TRUE, "no")

\* The server's CloseConnection is read: inputQueueMessage().
ReadClose(c) ==
  /\ pc[c] = "waiting" /\ req[c] = "sent"
  /\ strand[on[c]].connection = "closing"
  /\ NoFault
  /\ NotifyCommFailure(c, TRUE, TRUE, "no")

ReceiveFails(c) ==
  LET s == on[c] IN
  /\ pc[c] = "waiting" /\ strand[s].connection = "broken"
  /\ NoFault
  /\ NotifyCommFailure(c, strand[s].orderly_closed, TRUE, "maybe")

\* inputMessage() finds the strand dying. What came before a CloseConnection
\* was read before it.
ReceiveDying(c) ==
  LET s == on[c] IN
  /\ pc[c] = "waiting" /\ strand[s].state = "DYING"
  /\ strand[s].orderly_closed => req[c] = "sent"
  /\ NoFault
  /\ NotifyCommFailure(c, strand[s].orderly_closed, TRUE,
                       IF strand[s].orderly_closed THEN "no" ELSE "maybe")

\* The deadline passes: waiting for the write lock, connecting, sending or
\* receiving.
CallTimeout(c) ==
  /\ pc[c] \in {"acquired", "sending", "waiting"} /\ c \in Timed
  /\ pc[c] = "acquired" => \E d \in Users(on[c]) : req[d] = "writing"
  /\ NoFault
  /\ NotifyCommFailure(c, strand[on[c]].orderly_closed, FALSE,
                       IF pc[c] = "waiting" THEN "maybe" ELSE "no")

\* resetAddressOrder()
ResetAddresses(c) ==
  /\ pc[c] = "exhausted"
  /\ pc' = [pc EXCEPT ![c] = "failing"]
  /\ IF filtered
     THEN order' = <<>> /\ inUse' = 1 /\ filtered' = FALSE
     ELSE UNCHANGED <<order, inUse, filtered>>
  /\ UNCHANGED <<oneCall, filtering, nwaiting, strand, callVars, scavenging,
                 bounds>>

\* errorOnSend() and the others set the state without the lock. (A caller that
\* fails while it holds the lock does these steps in one.)
MarkDying(c) ==
  /\ pc[c] = "failing"
  /\ pc' = [pc EXCEPT ![c] = "failed"]
  /\ strand' = [strand EXCEPT ![on[c]].state = "DYING"]
  /\ UNCHANGED <<ropeVars, callVars, scavenging, bounds>>

\* The arguments cannot be marshalled: an exception leaves the GIOP_C as it is.
MarshalFails(c) ==
  /\ pc[c] = "sending"
  /\ Fault
  /\ pc' = [pc EXCEPT ![c] = "failed"]
  /\ result' = [result EXCEPT ![c] = "no"]
  /\ UNCHANGED <<UnchangedByIO, strand, req, executed>>

-----------------------------------------------------------------------------
(* releaseClient(), and _invoke() when it has an exception that says retry.  *)

Again(c) == IF result[c] = "retry" THEN "acquire" ELSE "out"

\* A strand in an unexpected state is closed; safeDelete() deletes one that
\* dies with its last user, and says that it did in any case.
ReleaseDying(c) ==
  LET s == on[c] IN
  /\ strand' = [strand EXCEPT ![s] = IF Users(s) = {c} THEN NoStrand
                                     ELSE [@ EXCEPT !.state = "DYING"]]
  /\ pc' \in Signalled(c, Again(c))

\* One GIOP_C is kept for the next call.
ReleaseLast(c) ==
  LET s == on[c] IN
  /\ strand' = [strand EXCEPT ![s].cached = TRUE, ![s].idlebeats = Beats]
  /\ pc' \in Signalled(c, "out")

ReleaseShared(c) ==
  /\ pc' = [pc EXCEPT ![c] = "out"]
  /\ UNCHANGED strand

Release(c) ==
  LET s == on[c] IN
  /\ pc[c] \in {"completed", "failed"}
  /\ IF pc[c] = "failed" \/ strand[s].state = "DYING" THEN ReleaseDying(c)
     ELSE IF Users(s) = {c} THEN ReleaseLast(c)
     ELSE ReleaseShared(c)
  /\ on' = [on EXCEPT ![c] = None]
  /\ req' = [req EXCEPT ![c] = "none"]
  /\ result' = [result EXCEPT ![c] = "none"]
  /\ IF Again(c) = "out" THEN EndCall(c) ELSE UNCHANGED descriptor
  /\ UNCHANGED <<ropeVars, scavenging, bounds>>

-----------------------------------------------------------------------------
(* The server and the network.                                               *)

Execute(c) ==
  /\ req[c] = "sent" /\ strand[on[c]].connection = "open"
  /\ req' = [req EXCEPT ![c] = "done"]
  /\ executed' = [executed EXCEPT ![c] = @ + 1]
  /\ UNCHANGED <<UnchangedByIO, strand, pc, result, faults>>

\* The server sends CloseConnection, or the connection breaks.
Lose(s, how) ==
  /\ strand[s].connection \in {"open", "closing"} \ {how}
  /\ Fault
  /\ strand' = [strand EXCEPT ![s].connection = how]
  /\ UNCHANGED <<UnchangedByIO, pc, req, result, executed>>

Environment ==
  \/ \E c \in Callers : Execute(c)
  \/ \E s \in Strands : Lose(s, "closing") \/ Lose(s, "broken")

-----------------------------------------------------------------------------
(* The scavenger, and disconnect().                                          *)

Scavenged == {s \in Strands : strand[s].state = "scavenged"}
Counting == {s \in InRope : strand[s].idlebeats > 0}
Expiring == {s \in Counting : strand[s].idlebeats = 1}

\* removeIdle(): those whose count ends leave the rope.
RemoveIdle ==
  /\ ~scavenging /\ Counting # {}
  /\ strand' = [s \in Strands |->
       IF s \notin Counting THEN strand[s]
       ELSE [strand[s] EXCEPT !.idlebeats = @ - 1,
               !.state = IF s \in Expiring THEN "scavenged" ELSE @]]
  /\ scavenging' = (Expiring # {})
  /\ UNCHANGED <<ropeVars, pc, callVars, bounds>>

\* sendCloseConnection() and safeDelete(1).
CloseIdle(s) ==
  /\ s \in Scavenged
  /\ strand' = [strand EXCEPT ![s] = NoStrand]
  /\ UNCHANGED <<ropeVars, pc, callVars, scavenging, bounds>>

\* resetIdleRopeAddresses()
ResetIdleRope ==
  /\ scavenging /\ Scavenged = {}
  /\ scavenging' = FALSE
  /\ IF filtered /\ InRope = {}
     THEN order' = <<>> /\ inUse' = 1 /\ filtered' = FALSE
     ELSE UNCHANGED <<order, inUse, filtered>>
  /\ UNCHANGED <<oneCall, filtering, nwaiting, strand, pc, callVars, bounds>>

Disconnect ==
  /\ Fault /\ forced' = TRUE
  /\ strand' = [s \in Strands |->
       IF strand[s].state = "ACTIVE" /\ strand[s].connection # "none"
       THEN [strand[s] EXCEPT !.state = "DYING", !.connection = "broken"]
       ELSE strand[s]]
  /\ UNCHANGED <<ropeVars, pc, callVars, scavenging, calls>>

-----------------------------------------------------------------------------
Acquire(c) ==
  AcquireFiltered(c) \/ AcquireFilter(c) \/ Filtered(c) \/ Rescan(c)

Communicate(c) ==
  \/ BeginRequest(c) \/ Connect(c) \/ SendRequest(c) \/ ReceiveReply(c)
  \/ ConnectFails(c) \/ SendFails(c) \/ ReadClose(c) \/ ReceiveFails(c)
  \/ ReceiveDying(c) \/ ResetAddresses(c) \/ MarkDying(c) \/ MarshalFails(c)

\* What a caller's thread does by itself.
Proceed(c) == Acquire(c) \/ Communicate(c) \/ Release(c)

Deadline(c) == QueueTimeout(c) \/ CallTimeout(c)

Scavenger == RemoveIdle \/ ResetIdleRope \/ \E s \in Strands : CloseIdle(s)

\* Nothing is left to do; the program may run on.
Done ==
  /\ calls = MaxCalls /\ \A c \in Callers : pc[c] = "out"
  /\ UNCHANGED vars

Next ==
  \/ \E c \in Callers :
       Invoke(c) \/ Proceed(c) \/ Deadline(c) \/ WakeByItself(c)
  \/ Environment \/ Scavenger \/ Disconnect \/ Done

Spec == Init /\ [][Next]_vars

(* A thread runs on, the server executes what reaches it or loses it, and    *)
(* the scavenger runs; deadlines may come late and nobody needs to call.     *)
FairSpec ==
  /\ Spec
  /\ \A c \in Callers : WF_vars(Proceed(c)) /\ WF_vars(Execute(c))
  /\ WF_vars(Scavenger)

-----------------------------------------------------------------------------
(* Properties.                                                               *)

OnStrand == {"acquired", "sending", "waiting", "completed", "exhausted",
             "failing", "failed"}

Structure ==
  /\ filtered => ~filtering
  /\ IF order = <<>> THEN inUse = 1 ELSE inUse \in 1 .. Len(order)
  /\ nwaiting = Cardinality({c \in Callers : pc[c] \in {"queue", "woken"}})
  /\ \A c \in Callers : on[c] # None <=> pc[c] \in OnStrand
  /\ \A c \in Callers : first[c] = None <=> current[c] = None

\* The variables have their types, pd_nwaiting counts the callers that wait
\* for a strand, and the address in use is one of the order.
TypeOK ==
  /\ oneCall \in BOOLEAN /\ filtered \in BOOLEAN /\ filtering \in BOOLEAN
  /\ scavenging \in BOOLEAN /\ forced \in BOOLEAN
  /\ calls \in 0 .. MaxCalls /\ faults \in 0 .. MaxFaults
  /\ order \in Orders \cup {<<>>}
  /\ strand \in [Strands -> StrandType]
  /\ pc \in [Callers -> Places]
  /\ on \in [Callers -> Strands \cup {None}]
  /\ req \in [Callers -> {"none", "writing", "sent", "done"}]
  /\ first \in [Callers -> Addresses \cup {None}]
  /\ current \in [Callers -> Addresses \cup {None}]
  /\ result \in [Callers -> Ends \cup {"none", "retry", "noprofile"}]
  /\ executed \in [Callers -> Nat]
  /\ Structure

\* A strand is not scavenged, deleted or kept for the next call while a call
\* is on it: acquireClient() stops the idle counter, releaseClient() starts it.
CallKeepsStrand ==
  \A c \in Callers : on[c] # None =>
    /\ strand[on[c]].state \in {"ACTIVE", "DYING"}
    /\ ~strand[on[c]].cached /\ strand[on[c]].idlebeats = 0

\* A rope has at most pd_maxStrands strands, dying ones included, and with
\* pd_oneCallPerConnection each carries one call.
LimitsKept ==
  /\ Cardinality(InRope) <= MaxStrands
  /\ oneCall => \A c, d \in Callers : on[c] # None /\ on[c] = on[d] => c = d

\* A call is executed at most once however often the client retries it, and
\* how it ends agrees with whether it was executed.
Call == INSTANCE RemoteCall WITH
  phase <- [c \in Callers |->
    IF pc[c] = "out" THEN "out"
    ELSE IF result[c] \in Ends THEN result[c] ELSE "in"]

ImplementsRemoteCall == Call!CallSpec

\* TRANSIENT_NoUsableProfile is for a reference whose rope has no address to
\* use, as the comment in acquireClient() says.
NoProfileMeansNone ==
  <<>> \notin Orders => \A c \in Callers : result[c] # "noprofile"

\* Every call ends: a signal of releaseClient() reaches a caller that waits for
\* a strand. Only a call that was told wrongly that there is no address, which
\* keeps the signal it was given, and disconnect(), whose strands the scavenger
\* deletes without a signal, may leave callers behind.
CallsEnd ==
  \/ <>[](forced \/ \A c \in Callers : pc[c] = "out")
  \/ <>(\E c \in Callers : result[c] = "noprofile")
=============================================================================
