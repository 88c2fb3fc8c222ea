--------------------------- MODULE GiopRope_proofs ---------------------------
(* Proofs about the rope, for any number of callers, strands and addresses   *)
(* and any bounds.                                                           *)
EXTENDS GiopRope, FiniteSetTheorems, TLAPS

-----------------------------------------------------------------------------
(* How the callers move.                                                     *)

\* What a signal or a broadcast may do to a caller that is not awake.
Stays(p, q) ==
  q = p \/ (p = "filter" /\ q = "acquire") \/ (p = "queue" /\ q = "woken")

\* c goes to place; the others stay or are woken.
Moves(c, place) ==
  /\ pc' \in [Callers -> Places]
  /\ pc'[c] = place
  /\ \A d \in Callers : d # c => Stays(pc[d], pc'[d])

\* The places of a caller that looks for a strand.
Searching == {"acquire", "filtering", "woken"}

\* e is what c finds when it scans the strands: filtered already, filtered by
\* itself as ord, or after a wait.
Found(c, e) ==
  /\ \/ /\ pc[c] = "acquire" /\ filtered /\ UNCHANGED filtering
        /\ e = Entry(pc, TRUE, order, nwaiting)
     \/ /\ pc[c] = "filtering" /\ filtering' = FALSE
        /\ \E ord \in Orders : e = Entry(Broadcast, TRUE, ord, nwaiting)
     \/ /\ pc[c] = "woken" /\ UNCHANGED filtering
        /\ e = Entry(pc, filtered, order, nwaiting - 1)
  /\ Scan(c, e)

Placed(p) == p \in [Callers -> Places]

\* A broadcast leaves everybody where he is or wakes him.
LEMMA BroadcastStays ==
  ASSUME Placed(pc)
  PROVE  /\ Broadcast \in [Callers -> Places]
         /\ \A d \in Callers : Stays(pc[d], Broadcast[d])
BY DEF Placed, Places, Broadcast, Awake, Asleep, Stays

LEMMA SettleMoves ==
  ASSUME Placed(pc), NEW c \in Callers, NEW e, e.pc = pc \/ e.pc = Broadcast,
         NEW place \in Places, Settle(c, e, place)
  PROVE  Moves(c, place)
<1>1. /\ e.pc \in [Callers -> Places]
      /\ \A d \in Callers : Stays(pc[d], e.pc[d])
  BY BroadcastStays DEF Placed, Stays
<1>2. pc' = [e.pc EXCEPT ![c] = place]
  BY DEF Settle
<1> QED
  BY <1>1, <1>2 DEF Moves

LEMMA SignalledMoves ==
  ASSUME Placed(pc), NEW c \in Callers, c \notin Asleep,
         NEW place \in Places, pc' \in Signalled(c, place)
  PROVE  Moves(c, place)
<1>1. CASE pc' = [pc EXCEPT ![c] = place]
  BY <1>1 DEF Moves, Stays, Placed
<1>2. ASSUME NEW w \in Asleep,
             pc' = [pc EXCEPT ![c] = place, ![w] = Awake(pc[w])]
      PROVE  Moves(c, place)
  <2>1. w \in Callers /\ w # c
    BY DEF Asleep
  <2>2. Awake(pc[w]) \in Places /\ Stays(pc[w], Awake(pc[w]))
    BY <2>1 DEF Asleep, Awake, Stays, Places
  <2>3. /\ pc' \in [Callers -> Places]
        /\ pc'[c] = place /\ pc'[w] = Awake(pc[w])
        /\ \A d \in Callers : d # c /\ d # w => pc'[d] = pc[d]
    BY <1>2, <2>1, <2>2 DEF Placed
  <2> QED
    BY <2>2, <2>3 DEF Moves, Stays
<1> QED
  BY <1>1, <1>2 DEF Signalled

\* The outcomes of a scan.
LEMMA ScanCases ==
  ASSUME NEW c, NEW e, Scan(c, e)
  PROVE  /\ \/ TakeUnused(c, e)
            \/ ~Full /\ NewStrand(c, e)
            \/ NoProfile(c, e)
            \/ Queue(c, e)
            \/ ~oneCall /\ Unused = {} /\ Share(c, e)
         /\ UNCHANGED <<oneCall, req, scavenging, bounds>>
BY Zenon DEF Scan

\* Looking for a strand is a scan, or begins a filtering, or waits for one.
LEMMA AcquireCases ==
  ASSUME NEW c \in Callers, Acquire(c)
  PROVE  \/ AcquireFilter(c)
         \/ \E e : Found(c, e)
<1>1. CASE AcquireFiltered(c)
  <2> DEFINE e == Entry(pc, TRUE, order, nwaiting)
  <2>1. Found(c, e)
    BY <1>1, Zenon DEF AcquireFiltered, Found
  <2> QED
    BY <2>1, Zenon
<1>2. CASE Filtered(c)
  <2>1. PICK ord \in Orders : Scan(c, Entry(Broadcast, TRUE, ord, nwaiting))
    BY <1>2, Zenon DEF Filtered
  <2> DEFINE e == Entry(Broadcast, TRUE, ord, nwaiting)
  <2>2. Found(c, e)
    BY <1>2, <2>1, Zenon DEF Filtered, Found
  <2> QED
    BY <2>2, Zenon
<1>3. CASE Rescan(c)
  <2> DEFINE e == Entry(pc, filtered, order, nwaiting - 1)
  <2>1. Found(c, e)
    BY <1>3, Zenon DEF Rescan, Found
  <2> QED
    BY <2>1, Zenon
<1> QED
  BY <1>1, <1>2, <1>3, Zenon DEF Acquire

\* A call fails while it has its strand.
Failure(c, closed, retry, completion) ==
  /\ pc[c] \in {"acquired", "sending", "waiting"}
  /\ closed \in BOOLEAN /\ retry \in BOOLEAN
  /\ completion \in {"no", "maybe"}
  /\ Fault \/ NoFault
  /\ NotifyCommFailure(c, closed, retry, completion)

Broken(c) ==
  \/ ConnectFails(c) \/ SendFails(c) \/ ReadClose(c) \/ ReceiveFails(c)
  \/ ReceiveDying(c) \/ CallTimeout(c)

LEMMA FailureCases ==
  ASSUME NEW c \in Callers, Broken(c), strand[on[c]].orderly_closed \in BOOLEAN
  PROVE  \E closed, retry, completion : Failure(c, closed, retry, completion)
<1> DEFINE was == strand[on[c]].orderly_closed
<1>1. CASE ConnectFails(c)
  <2>1. Failure(c, was, TRUE, "no")
    BY <1>1, Zenon DEF ConnectFails, Failure
  <2> QED
    BY <2>1, Zenon
<1>2. CASE SendFails(c)
  <2>1. Failure(c, was, TRUE, "no")
    BY <1>2, Zenon DEF SendFails, Failure
  <2> QED
    BY <2>1, Zenon
<1>3. CASE ReadClose(c)
  <2>1. Failure(c, TRUE, TRUE, "no")
    BY <1>3, Zenon DEF ReadClose, Failure
  <2> QED
    BY <2>1, Zenon
<1>4. CASE ReceiveFails(c)
  <2>1. Failure(c, was, TRUE, "maybe")
    BY <1>4, Zenon DEF ReceiveFails, Failure
  <2> QED
    BY <2>1, Zenon
<1>5. CASE ReceiveDying(c)
  <2> DEFINE end == IF was THEN "no" ELSE "maybe"
  <2>1. end \in {"no", "maybe"}
    OBVIOUS
  <2>2. Failure(c, was, TRUE, end)
    BY <1>5, <2>1, Zenon DEF ReceiveDying, Failure
  <2> QED
    BY <2>2, Zenon
<1>6. CASE CallTimeout(c)
  <2> DEFINE end == IF pc[c] = "waiting" THEN "maybe" ELSE "no"
  <2>1. end \in {"no", "maybe"}
    OBVIOUS
  <2>2. Failure(c, was, FALSE, end)
    BY <1>6, <2>1, Zenon DEF CallTimeout, Failure
  <2> QED
    BY <2>2, Zenon
<1> QED
  BY <1>1, <1>2, <1>3, <1>4, <1>5, <1>6, Zenon DEF Broken

\* The steps of Next, the failures and the ways to look for a strand in one.
Step(c) ==
  \/ Invoke(c) \/ AcquireFilter(c) \/ \E e : Found(c, e)
  \/ BeginRequest(c) \/ Connect(c) \/ SendRequest(c) \/ ReceiveReply(c)
  \/ Broken(c) \/ ResetAddresses(c) \/ MarkDying(c) \/ MarshalFails(c)
  \/ Release(c) \/ QueueTimeout(c) \/ WakeByItself(c) \/ Execute(c)

LEMMA StepCases ==
  ASSUME [Next]_vars
  PROVE  \/ \E c \in Callers : Step(c)
         \/ \E s \in Strands : Lose(s, "closing") \/ Lose(s, "broken") \/ CloseIdle(s)
         \/ RemoveIdle \/ ResetIdleRope \/ Disconnect
         \/ UNCHANGED vars
<1>1. ASSUME NEW c \in Callers, Proceed(c)
      PROVE  Step(c)
  <2>1. CASE Acquire(c)
    BY <2>1, AcquireCases, Zenon DEF Step
  <2>2. CASE Communicate(c)
    BY <2>2, Zenon DEF Communicate, Step, Broken
  <2> QED
    BY <1>1, <2>1, <2>2, Zenon DEF Proceed, Step
<1>2. ASSUME NEW c \in Callers, Deadline(c)
      PROVE  Step(c)
  BY <1>2, Zenon DEF Deadline, Step, Broken
<1>3. CASE \E c \in Callers : Invoke(c) \/ Proceed(c) \/ Deadline(c) \/ WakeByItself(c)
  BY <1>1, <1>2, <1>3, Zenon DEF Step
<1>4. CASE Environment
  BY <1>4, Zenon DEF Environment, Step
<1>5. CASE Scavenger
  BY <1>5, Zenon DEF Scavenger
<1>6. CASE Done
  BY <1>6, Zenon DEF Done
<1> QED
  BY <1>3, <1>4, <1>5, <1>6, Zenon DEF Next

\* What a scan starts from.
LEMMA FoundEntry ==
  ASSUME Placed(pc), NEW c \in Callers, NEW e, Found(c, e)
  PROVE  /\ pc[c] \in {"acquire", "filtering", "woken"}
         /\ e.pc = pc \/ e.pc = Broadcast
         /\ e.order = order \/ e.order \in Orders
         /\ Scan(c, e)
BY DEF Found, Entry
-----------------------------------------------------------------------------
(* Types, and the order of the addresses.                                    *)

Flags ==
  /\ oneCall \in BOOLEAN /\ filtered \in BOOLEAN /\ filtering \in BOOLEAN
  /\ scavenging \in BOOLEAN /\ forced \in BOOLEAN
Bounded ==
  /\ calls \in 0 .. MaxCalls /\ faults \in 0 .. MaxFaults
CallTypes ==
  /\ pc \in [Callers -> Places]
  /\ on \in [Callers -> Strands \cup {None}]
  /\ req \in [Callers -> {"none", "writing", "sent", "done"}]
  /\ first \in [Callers -> Addresses \cup {None}]
  /\ current \in [Callers -> Addresses \cup {None}]
  /\ result \in [Callers -> Ends \cup {"none", "retry", "noprofile"}]
  /\ executed \in [Callers -> Nat]
RopeTypes ==
  /\ order \in Orders \cup {<<>>}
  /\ strand \in [Strands -> StrandType]

\* One caller at a time filters, when there is no order; the address in use is
\* one of the order.
InOrder ==
  /\ filtered => ~filtering
  /\ ~filtered => order = <<>>
  /\ \A c \in Callers : pc[c] = "filtering" => filtering
  /\ \A c, d \in Callers : pc[c] = "filtering" /\ pc[d] = "filtering" => c = d
  /\ order = <<>> => inUse = 1
  /\ order # <<>> => inUse \in 1 .. Len(order)

\* Who has a strand, and what has an address.
Held == \A c \in Callers : on[c] # None <=> pc[c] \in OnStrand
Addressed == \A s \in Strands : strand[s].state # "free" => strand[s].address \in Addresses
Paired == \A c \in Callers : first[c] = None <=> current[c] = None

\* A strand that counts is on nobody's call.
Counted == \A s \in Strands : strand[s].idlebeats > 0 => strand[s].cached

IInv ==
  /\ Flags /\ Bounded /\ CallTypes /\ RopeTypes
  /\ InOrder /\ Held /\ Addressed /\ Paired /\ Counted /\ CallKeepsStrand

\* A new rope, with no strand and nobody calling, has the invariant.
THEOREM InitIInv == Init => IInv
<1> SUFFICES ASSUME Init PROVE IInv
  OBVIOUS
<1> USE DEF Init
<1>0. NoStrand \in StrandType
  BY ParametersAssumption DEF NoStrand, StrandType
<1>1. Flags
  BY ParametersAssumption DEF Flags
<1>5. Bounded /\ RopeTypes
  BY <1>0, BoundsAssumption DEF Bounded, RopeTypes
<1>6. CallTypes
  BY DEF CallTypes, Places
<1>2. InOrder
  BY DEF InOrder
<1>3. Held /\ Paired /\ CallKeepsStrand
  BY DEF Held, Paired, CallKeepsStrand, OnStrand
<1>4. Addressed /\ Counted
  BY DEF Addressed, Counted, NoStrand
<1> QED
  BY <1>1, <1>2, <1>3, <1>4, <1>5, <1>6 DEF IInv

-----------------------------------------------------------------------------
(* Every step keeps the types.                                               *)

LEMMA FlagsStep ==
  ASSUME IInv, [Next]_vars PROVE Flags' /\ Bounded'
<1> USE DEF IInv, Flags, Bounded
<1>1. ASSUME NEW c \in Callers, Step(c) PROVE Flags' /\ Bounded'
  <2>1. CASE Invoke(c)
    BY <2>1, BoundsAssumption DEF Invoke, ropeVars
  <2>2. CASE \E e : Found(c, e)
    <3>1. PICK e : Found(c, e)
      BY <2>2
    <3>2. UNCHANGED <<oneCall, scavenging, bounds>>
      BY <3>1, ScanCases, Zenon DEF Found
    <3>3. filtering' \in BOOLEAN /\ e.filtered \in BOOLEAN
      <4>1. UNCHANGED filtering \/ filtering' = FALSE
        BY <3>1, Zenon DEF Found
      <4>2. e.filtered = TRUE \/ e.filtered = filtered
        BY <3>1 DEF Found, Entry
      <4> QED
        BY <4>1, <4>2
    <3>4. filtered' \in BOOLEAN
      <4>1. filtered' = e.filtered \/ filtered' = FALSE \/ UNCHANGED filtered
        BY <3>1, ScanCases, Zenon
           DEF Found, TakeUnused, NewStrand, NoProfile, Queue, Share, Acquired
      <4> QED
        BY <3>3, <4>1
    <3> QED
      BY <3>2, <3>3, <3>4 DEF bounds
  <2>3. CASE AcquireFilter(c)
    BY <2>3 DEF AcquireFilter, bounds
  <2>4. CASE BeginRequest(c) \/ Connect(c) \/ SendRequest(c) \/ ReceiveReply(c)
    BY <2>4 DEF BeginRequest, Connect, SendRequest, ReceiveReply, UnchangedByIO, ropeVars
  <2>5. CASE Broken(c)
    <3>1. Fault \/ NoFault
      BY <2>5, Zenon DEF Broken, ConnectFails, SendFails, ReadClose, ReceiveFails, ReceiveDying, CallTimeout
    <3>2. UNCHANGED <<oneCall, filtered, filtering, scavenging, calls, forced>>
      BY <2>5, Zenon DEF Broken, ConnectFails, SendFails, ReadClose, ReceiveFails,
         ReceiveDying, CallTimeout, NotifyCommFailure
    <3> QED
      BY <3>1, <3>2, BoundsAssumption DEF Fault, NoFault
  <2>6. CASE ResetAddresses(c) \/ MarkDying(c)
    BY <2>6 DEF ResetAddresses, MarkDying, bounds, ropeVars
  <2>7. CASE MarshalFails(c)
    BY <2>7, BoundsAssumption DEF MarshalFails, Fault, UnchangedByIO, ropeVars
  <2>8. CASE Release(c) \/ QueueTimeout(c) \/ WakeByItself(c)
    BY <2>8 DEF Release, QueueTimeout, WakeByItself, bounds, ropeVars
  <2>9. CASE Execute(c)
    BY <2>9 DEF Execute, UnchangedByIO, ropeVars
  <2> QED
    BY <1>1, <2>1, <2>2, <2>3, <2>4, <2>5, <2>6, <2>7, <2>8, <2>9, Zenon DEF Step
<1>2. ASSUME NEW s \in Strands, NEW how, Lose(s, how) PROVE Flags' /\ Bounded'
  BY <1>2, BoundsAssumption DEF Lose, Fault, UnchangedByIO, ropeVars
<1>3. ASSUME NEW s \in Strands, CloseIdle(s) PROVE Flags' /\ Bounded'
  BY <1>3 DEF CloseIdle, ropeVars, bounds
<1>4. CASE RemoveIdle
  BY <1>4 DEF RemoveIdle, ropeVars, bounds
<1>5. CASE ResetIdleRope
  BY <1>5 DEF ResetIdleRope, bounds
<1>6. CASE Disconnect
  <2>1. /\ Fault /\ forced' = TRUE
        /\ UNCHANGED <<oneCall, filtered, filtering, scavenging, calls>>
    BY <1>6, Zenon DEF Disconnect, ropeVars
  <2> QED
    BY <2>1, BoundsAssumption DEF Fault
<1>7. CASE UNCHANGED vars
  BY <1>7 DEF vars, ropeVars, bounds
<1> QED
  BY <1>1, <1>2, <1>3, <1>4, <1>5, <1>6, <1>7, StepCases, Zenon

\* What an end of a call and a verdict are.
LEMMA VerdictType ==
  ASSUME NEW retry \in BOOLEAN, NEW completion \in {"no", "maybe"}
  PROVE  /\ Verdict(retry, completion) \in {"no", "maybe", "retry"}
         /\ completion = "maybe" => Verdict(retry, completion) = "maybe"
BY DEF Verdict

\* A caller's strand exists.
LEMMA HeldStrand ==
  ASSUME IInv, NEW c \in Callers, pc[c] \in OnStrand
  PROVE  /\ on[c] \in Strands /\ on[c] # None
         /\ strand[on[c]] \in StrandType
         /\ strand[on[c]].orderly_closed \in BOOLEAN
         /\ strand[on[c]].state \in {"ACTIVE", "DYING"}
<1>1. on[c] \in Strands /\ on[c] # None
  BY DEF IInv, Held, CallTypes
<1> QED
  BY <1>1 DEF IInv, CallKeepsStrand, RopeTypes, StrandType

LEMMA BrokenOnStrand ==
  ASSUME NEW c, Broken(c) PROVE pc[c] \in OnStrand
BY DEF Broken, ConnectFails, SendFails, ReadClose, ReceiveFails, ReceiveDying,
       CallTimeout, OnStrand

\* A failure takes the caller out of its call, with both addresses or neither.
LEMMA FailureEffect ==
  ASSUME IInv, NEW c \in Callers, NEW closed, NEW retry, NEW completion,
         Failure(c, closed, retry, completion)
  PROVE  /\ \E place \in {"failing", "exhausted"} : pc' = [pc EXCEPT ![c] = place]
         /\ \E f, g \in Addresses \cup {None} :
              /\ first' = [first EXCEPT ![c] = f]
              /\ current' = [current EXCEPT ![c] = g]
              /\ f = None <=> g = None
         /\ \E v \in {"no", "maybe", "retry"} :
              /\ result' = [result EXCEPT ![c] = v]
              /\ completion = "maybe" => v = "maybe"
         /\ inUse' = inUse \/ (order # <<>> /\ inUse' = NextIndex)
         /\ strand' = [strand EXCEPT ![on[c]].orderly_closed = closed]
         /\ UNCHANGED <<oneCall, filtered, filtering, order, nwaiting, on, req,
                        executed, scavenging, calls, forced>>
<1> USE DEF IInv
<1> DEFINE f0 == FirstAddress(c)
           g0 == CurrentAddress(c)
<1>1. on[c] \in Strands /\ on[c] # None
  BY StrandsAssumption DEF Failure, Held, OnStrand, CallTypes
<1>2. strand[on[c]].address \in Addresses
  BY <1>1 DEF CallKeepsStrand, Addressed
<1>3. /\ f0 \in Addresses /\ g0 \in Addresses
      /\ first[c] \in Addresses \cup {None} /\ current[c] \in Addresses \cup {None}
      /\ first[c] = None <=> current[c] = None
  BY <1>2 DEF FirstAddress, CurrentAddress, Paired, CallTypes
<1>4. None \notin Addresses
  BY StrandsAssumption
<1>5. \/ AnyAddress(c, retry, completion)
      \/ SameAddress(c, retry, completion)
      \/ NextAddress(c, retry, completion)
  BY Zenon DEF Failure, NotifyCommFailure
<1>6. /\ strand' = [strand EXCEPT ![on[c]].orderly_closed = closed]
      /\ UNCHANGED <<oneCall, filtered, filtering, order, nwaiting, on, req,
                     executed, scavenging, calls, forced>>
  BY Zenon DEF Failure, NotifyCommFailure
<1>7. /\ Verdict(retry, completion) \in {"no", "maybe", "retry"}
      /\ Verdict(FALSE, completion) \in {"no", "maybe", "retry"}
      /\ completion = "maybe" => Verdict(retry, completion) = "maybe"
      /\ completion = "maybe" => Verdict(FALSE, completion) = "maybe"
  BY VerdictType DEF Failure
<1>8. \E place \in {"failing", "exhausted"} :
      \E f, g \in Addresses \cup {None}, v \in {"no", "maybe", "retry"} :
        /\ f = None <=> g = None
        /\ completion = "maybe" => v = "maybe"
        /\ Fails(c, place, f, g, v)
  <2>1. CASE AnyAddress(c, retry, completion)
    BY <2>1, <1>3, <1>7, Zenon DEF AnyAddress
  <2>2. CASE SameAddress(c, retry, completion)
    BY <2>2, <1>3, <1>4, <1>7, Zenon DEF SameAddress
  <2>3. CASE NextAddress(c, retry, completion)
    BY <2>3, <1>3, <1>4, <1>7, Zenon DEF NextAddress
  <2> QED
    BY <1>5, <2>1, <2>2, <2>3
<1>9. inUse' = inUse \/ (order # <<>> /\ inUse' = NextIndex)
  BY <1>5 DEF AnyAddress, SameAddress, NextAddress, SwitchFrom
<1>10. PICK place \in {"failing", "exhausted"}, f \in Addresses \cup {None},
            g \in Addresses \cup {None}, v \in {"no", "maybe", "retry"} :
         /\ f = None <=> g = None
         /\ completion = "maybe" => v = "maybe"
         /\ Fails(c, place, f, g, v)
  BY <1>8, Zenon
<1>11. /\ pc' = [pc EXCEPT ![c] = place]
       /\ first' = [first EXCEPT ![c] = f]
       /\ current' = [current EXCEPT ![c] = g]
       /\ result' = [result EXCEPT ![c] = v]
  BY <1>10, Zenon DEF Fails
<1> QED
  BY <1>6, <1>9, <1>10, <1>11, Zenon

\* A scan gives the caller a strand, sends it away or lets it wait.
LEMMA ScanEffect ==
  ASSUME IInv, NEW c \in Callers, NEW e, Found(c, e)
  PROVE  \/ /\ Moves(c, "acquired")
            /\ \E s \in Strands : on' = [on EXCEPT ![c] = s]
            /\ UNCHANGED <<req, result, first, current, executed>>
         \/ /\ Moves(c, "out")
            /\ result' = [result EXCEPT ![c] = "noprofile"]
            /\ EndCall(c)
            /\ UNCHANGED <<on, req, strand>>
         \/ /\ Moves(c, "queue")
            /\ UNCHANGED <<on, req, result, first, current, executed, strand>>
<1> USE DEF IInv
<1>1. Placed(pc)
  BY DEF Placed, CallTypes
<1>2. e.pc = pc \/ e.pc = Broadcast
  BY <1>1, FoundEntry
<1>3. ASSUME NEW place \in Places, Settle(c, e, place) PROVE Moves(c, place)
  BY <1>1, <1>2, <1>3, SettleMoves
<1>4. UNCHANGED req
  BY ScanCases, Zenon DEF Found
<1>5. ASSUME NEW s \in Strands, Acquired(c, s, e)
      PROVE  /\ Moves(c, "acquired")
             /\ on' = [on EXCEPT ![c] = s]
             /\ UNCHANGED <<result, first, current, executed>>
  BY <1>3, <1>5 DEF Acquired, Places, descriptor
<1>6. CASE TakeUnused(c, e)
  <2>1. \E s \in Strands : Acquired(c, s, e)
    BY <1>6 DEF TakeUnused, Unused, Active
  <2> QED
    BY <1>4, <1>5, <2>1
<1>7. CASE NewStrand(c, e)
  <2>1. \E s \in Strands : Acquired(c, s, e)
    BY <1>7 DEF NewStrand
  <2> QED
    BY <1>4, <1>5, <2>1
<1>8. CASE Share(c, e)
  <2>1. \E s \in Strands : Acquired(c, s, e)
    BY <1>8 DEF Share, Active
  <2> QED
    BY <1>4, <1>5, <2>1
<1>9. CASE NoProfile(c, e)
  BY <1>3, <1>4, <1>9 DEF NoProfile, Places
<1>10. CASE Queue(c, e)
  BY <1>3, <1>4, <1>10 DEF Queue, Places, descriptor
<1> QED
  BY ScanCases, <1>6, <1>7, <1>8, <1>9, <1>10, Zenon DEF Found

\* A caller gives its strand back and leaves or begins anew.
LEMMA ReleaseEffect ==
  ASSUME IInv, NEW c \in Callers, Release(c)
  PROVE  /\ Moves(c, Again(c)) \/ (Again(c) = "acquire" /\ Moves(c, "out"))
         /\ on' = [on EXCEPT ![c] = None]
         /\ req' = [req EXCEPT ![c] = "none"]
         /\ result' = [result EXCEPT ![c] = "none"]
         /\ EndCall(c) \/ UNCHANGED descriptor
<1> USE DEF IInv
<1>1. Placed(pc) /\ Again(c) \in {"out", "acquire"} /\ c \notin Asleep
  BY DEF Placed, CallTypes, Release, Asleep, Again
<1>2. Again(c) \in Places /\ "out" \in Places
  BY <1>1 DEF Places
<1>3. CASE ReleaseDying(c)
  <2>1. pc' \in Signalled(c, Again(c))
    BY <1>3 DEF ReleaseDying
  <2> QED
    BY <1>1, <1>2, <2>1, SignalledMoves DEF Release
<1>4. CASE ReleaseLast(c)
  <2>1. pc' \in Signalled(c, "out")
    BY <1>4 DEF ReleaseLast
  <2> QED
    BY <1>1, <1>2, <2>1, SignalledMoves DEF Release
<1>5. CASE ReleaseShared(c)
  <2>1. pc' = [pc EXCEPT ![c] = "out"]
    BY <1>5 DEF ReleaseShared
  <2>2. Moves(c, "out")
    BY <1>1, <1>2, <2>1 DEF Moves, Stays, Placed
  <2> QED
    BY <1>1, <2>2 DEF Release
<1> QED
  BY <1>3, <1>4, <1>5, Zenon DEF Release

LEMMA CallTypesStep ==
  ASSUME IInv, [Next]_vars PROVE CallTypes' /\ Paired'
<1> USE DEF IInv, CallTypes, Paired
<1>1. ASSUME NEW c \in Callers, Step(c) PROVE CallTypes' /\ Paired'
  <2>1. CASE Invoke(c)
    BY <2>1 DEF Invoke, Places
  <2>2. CASE \E e : Found(c, e)
    <3>1. PICK e : Found(c, e)
      BY <2>2
    <3> QED
      BY <3>1, ScanEffect DEF Moves, EndCall
  <2>3. CASE AcquireFilter(c)
    BY <2>3 DEF AcquireFilter, callVars, Places
  <2>4. CASE BeginRequest(c) \/ Connect(c) \/ SendRequest(c) \/ ReceiveReply(c)
    <3>1. UNCHANGED <<on, first, current, executed>>
      BY <2>4, Zenon DEF BeginRequest, Connect, SendRequest, ReceiveReply, UnchangedByIO
    <3>2. /\ pc' \in [Callers -> Places]
          /\ req' \in [Callers -> {"none", "writing", "sent", "done"}]
          /\ result' \in [Callers -> Ends \cup {"none", "retry", "noprofile"}]
      BY <2>4 DEF BeginRequest, Connect, SendRequest, ReceiveReply, Places, Ends
    <3> QED
      BY <3>1, <3>2
  <2>5. CASE Broken(c)
    <3>1. PICK closed, retry, completion : Failure(c, closed, retry, completion)
      BY <2>5, FailureCases, BrokenOnStrand, HeldStrand
    <3>2. PICK place \in {"failing", "exhausted"} : pc' = [pc EXCEPT ![c] = place]
      BY <3>1, FailureEffect, Zenon
    <3>3. PICK f \in Addresses \cup {None}, g \in Addresses \cup {None} :
            /\ first' = [first EXCEPT ![c] = f]
            /\ current' = [current EXCEPT ![c] = g]
            /\ f = None <=> g = None
      BY <3>1, FailureEffect, Zenon
    <3>4. PICK v \in {"no", "maybe", "retry"} : result' = [result EXCEPT ![c] = v]
      BY <3>1, FailureEffect, Zenon
    <3>5. UNCHANGED <<on, req, executed>>
      BY <3>1, FailureEffect, Zenon
    <3>6. CallTypes'
      BY <3>2, <3>3, <3>4, <3>5 DEF Places, Ends
    <3>7. Paired'
      BY <3>3
    <3> QED
      BY <3>6, <3>7
  <2>6. CASE ResetAddresses(c)
    BY <2>6 DEF ResetAddresses, callVars, Places
  <2>7. CASE MarkDying(c)
    <3>1. pc' = [pc EXCEPT ![c] = "failed"] /\ UNCHANGED callVars
      BY <2>7, Zenon DEF MarkDying
    <3> QED
      BY <3>1 DEF callVars, Places
  <2>8. CASE MarshalFails(c)
    BY <2>8 DEF MarshalFails, UnchangedByIO, Places, Ends
  <2>9. CASE Release(c)
    <3>1. /\ UNCHANGED <<first, current, executed>> \/ EndCall(c)
          /\ pc' \in [Callers -> Places]
      BY <2>9, ReleaseEffect DEF descriptor, Moves
    <3>2. /\ on' = [on EXCEPT ![c] = None]
          /\ req' = [req EXCEPT ![c] = "none"]
          /\ result' = [result EXCEPT ![c] = "none"]
      BY <2>9, ReleaseEffect
    <3> QED
      BY <3>1, <3>2 DEF EndCall
  <2>10. CASE QueueTimeout(c)
    BY <2>10 DEF QueueTimeout, EndCall, Places
  <2>11. CASE WakeByItself(c)
    BY <2>11 DEF WakeByItself, callVars, Places
  <2>12. CASE Execute(c)
    BY <2>12 DEF Execute, UnchangedByIO
  <2> QED
    BY <1>1, <2>1, <2>2, <2>3, <2>4, <2>5, <2>6, <2>7, <2>8, <2>9, <2>10, <2>11, <2>12, Zenon DEF Step
<1>2. ASSUME NEW s \in Strands, NEW how, Lose(s, how) PROVE CallTypes' /\ Paired'
  <2>1. UNCHANGED <<pc, on, req, first, current, result, executed>>
    BY <1>2, Zenon DEF Lose, UnchangedByIO
  <2> QED
    BY <2>1
<1>3. ASSUME UNCHANGED <<pc, callVars>> PROVE CallTypes' /\ Paired'
  BY <1>3 DEF callVars
<1>4. ASSUME NEW s \in Strands, CloseIdle(s) PROVE CallTypes' /\ Paired'
  BY <1>3, <1>4, Zenon DEF CloseIdle
<1>5. CASE RemoveIdle \/ ResetIdleRope \/ Disconnect
  BY <1>3, <1>5, Zenon DEF RemoveIdle, ResetIdleRope, Disconnect
<1>6. CASE UNCHANGED vars
  BY <1>3, <1>6, Zenon DEF vars
<1> QED
  BY <1>1, <1>2, <1>4, <1>5, <1>6, StepCases, Zenon

-----------------------------------------------------------------------------
(* One caller filters, and the address in use is one of the order.           *)

LEMMA InOrderStep ==
  ASSUME IInv, [Next]_vars PROVE InOrder' /\ order' \in Orders \cup {<<>>}
<1> USE DEF IInv, InOrder
<1> DEFINE Goal == InOrder' /\ order' \in Orders \cup {<<>>}
<1>0. order \in Seq(Addresses) /\ order \in Orders \cup {<<>>}
  BY OrdersAssumption, <<>> \in Seq(Addresses) DEF RopeTypes
<1>1. ASSUME UNCHANGED <<filtered, filtering, order, inUse>>,
             \A c \in Callers : pc'[c] = "filtering" => pc[c] = "filtering"
      PROVE  Goal
  BY <1>0, <1>1
<1>2. ASSUME NEW c \in Callers, NEW place, place # "filtering", Moves(c, place)
      PROVE  \A d \in Callers : pc'[d] = "filtering" => (d # c /\ pc[d] = "filtering")
  BY <1>2 DEF Moves, Stays
<1>3. ASSUME filtered => (filtered' = FALSE /\ order' = <<>> /\ inUse' = 1),
             ~filtered => UNCHANGED <<order, inUse, filtered>>,
             UNCHANGED filtering,
             \A c \in Callers : pc'[c] = "filtering" => pc[c] = "filtering"
      PROVE  Goal
  BY <1>0, <1>3 DEF Flags
<1>4. ASSUME NEW c \in Callers, Step(c) PROVE Goal
  <2>1. CASE Invoke(c)
    BY <1>1, <2>1 DEF Invoke, ropeVars, CallTypes
  <2>2. CASE \E e : Found(c, e)
    <3>1. PICK e : Found(c, e)
      BY <2>2
    <3>2. \A d \in Callers : pc'[d] = "filtering" => (d # c /\ pc[d] = "filtering")
      BY <1>2, <3>1, ScanEffect
    <3>3. /\ order' = e.order
          /\ UNCHANGED inUse
          /\ filtered' = e.filtered \/ (filtered' = FALSE /\ e.order = <<>>)
      BY <3>1, ScanCases, Zenon
         DEF Found, TakeUnused, NewStrand, NoProfile, Queue, Share, Acquired, Settle
    <3>4. CASE UNCHANGED filtering /\ e.order = order /\ e.filtered = filtered
      BY <1>0, <3>2, <3>3, <3>4 DEF Flags
    <3>5. CASE /\ pc[c] = "filtering" /\ filtering' = FALSE
               /\ e.filtered = TRUE /\ e.order \in Orders
      <4>1. ~filtered /\ order = <<>> /\ inUse = 1
        BY <3>5 DEF Flags
      <4>2. order' \in Seq(Addresses) /\ inUse' = 1
        BY <3>3, <3>5, <4>1, OrdersAssumption
      <4>3. order' # <<>> => 1 \in 1 .. Len(order')
        BY <4>2
      <4>4. \A d \in Callers : pc'[d] # "filtering"
        BY <3>2, <3>5
      <4> QED
        BY <3>3, <3>5, <4>2, <4>3, <4>4
    <3>6. CASE pc[c] = "acquire" /\ filtered /\ UNCHANGED filtering
               /\ e = Entry(pc, TRUE, order, nwaiting)
      <4>1. e.order = order /\ e.filtered = TRUE /\ filtered = TRUE
        BY <3>6 DEF Entry, Flags
      <4> QED
        BY <3>4, <3>6, <4>1
    <3>7. ASSUME NEW ord \in Orders, pc[c] = "filtering", filtering' = FALSE,
                 e = Entry(Broadcast, TRUE, ord, nwaiting)
          PROVE  Goal
      BY <3>5, <3>7 DEF Entry
    <3>8. CASE pc[c] = "woken" /\ UNCHANGED filtering
               /\ e = Entry(pc, filtered, order, nwaiting - 1)
      BY <3>4, <3>8 DEF Entry
    <3> QED
      BY <3>1, <3>6, <3>7, <3>8, Zenon DEF Found
  <2>3. CASE AcquireFilter(c)
    BY <1>0, <2>3 DEF AcquireFilter, CallTypes, Flags
  <2>4. CASE BeginRequest(c) \/ Connect(c) \/ SendRequest(c) \/ ReceiveReply(c) \/ MarshalFails(c)
    <3>1. UNCHANGED <<filtered, filtering, order, inUse>>
      BY <2>4, Zenon DEF BeginRequest, Connect, SendRequest, ReceiveReply, MarshalFails,
                         UnchangedByIO, ropeVars
    <3>2. \E place \in Places \ {"filtering"} : pc' = [pc EXCEPT ![c] = place]
      BY <2>4 DEF BeginRequest, Connect, SendRequest, ReceiveReply, MarshalFails, Places, CallTypes
    <3> QED
      BY <1>1, <3>1, <3>2 DEF CallTypes
  <2>5. CASE Broken(c)
    <3>1. PICK closed, retry, completion : Failure(c, closed, retry, completion)
      BY <2>5, FailureCases, BrokenOnStrand, HeldStrand
    <3>2. \A d \in Callers : pc'[d] = "filtering" => pc[d] = "filtering"
      BY <3>1, FailureEffect DEF CallTypes
    <3>3. UNCHANGED <<filtered, filtering, order>>
      BY <3>1, FailureEffect
    <3>4. inUse' = inUse \/ (order # <<>> /\ inUse' = NextIndex)
      BY <3>1, FailureEffect
    <3>5. order # <<>> => NextIndex \in 1 .. Len(order)
      <4>1. order # <<>> => (inUse \in 1 .. Len(order) /\ Len(order) \in Nat)
        BY <1>0
      <4> QED
        BY <4>1 DEF NextIndex
    <3> QED
      BY <1>0, <3>2, <3>3, <3>4, <3>5
  <2>6. CASE ResetAddresses(c)
    <3>1. \A d \in Callers : pc'[d] = "filtering" => pc[d] = "filtering"
      BY <2>6 DEF ResetAddresses, CallTypes
    <3> QED
      BY <1>3, <2>6, <3>1 DEF ResetAddresses
  <2>7. CASE MarkDying(c)
    <3>1. pc' = [pc EXCEPT ![c] = "failed"] /\ UNCHANGED ropeVars
      BY <2>7, Zenon DEF MarkDying
    <3> QED
      BY <1>1, <3>1 DEF ropeVars, CallTypes
  <2>8. CASE Release(c)
    <3>1. \A d \in Callers : pc'[d] = "filtering" => pc[d] = "filtering"
      BY <1>2, <2>8, ReleaseEffect DEF Again
    <3>2. UNCHANGED ropeVars
      BY <2>8, Zenon DEF Release
    <3> QED
      BY <1>1, <3>1, <3>2 DEF ropeVars
  <2>9. CASE QueueTimeout(c)
    BY <1>1, <2>9 DEF QueueTimeout, CallTypes
  <2>10. CASE WakeByItself(c)
    BY <1>1, <2>10 DEF WakeByItself, CallTypes, ropeVars
  <2>11. CASE Execute(c)
    BY <1>1, <2>11 DEF Execute, UnchangedByIO, ropeVars
  <2> QED
    BY <1>4, <2>1, <2>2, <2>3, <2>4, <2>5, <2>6, <2>7, <2>8, <2>9, <2>10, <2>11, Zenon DEF Step
<1>5. ASSUME UNCHANGED <<ropeVars, pc>> PROVE Goal
  BY <1>1, <1>5 DEF ropeVars
<1>6. ASSUME NEW s \in Strands, NEW how, Lose(s, how) PROVE Goal
  BY <1>5, <1>6, Zenon DEF Lose, UnchangedByIO
<1>7. ASSUME NEW s \in Strands, CloseIdle(s) PROVE Goal
  BY <1>5, <1>7, Zenon DEF CloseIdle
<1>8. CASE RemoveIdle \/ Disconnect
  BY <1>5, <1>8, Zenon DEF RemoveIdle, Disconnect
<1>9. CASE ResetIdleRope
  BY <1>0, <1>9 DEF ResetIdleRope, Flags
<1>10. CASE UNCHANGED vars
  BY <1>5, <1>10, Zenon DEF vars
<1> QED
  BY <1>4, <1>6, <1>7, <1>8, <1>9, <1>10, StepCases, Zenon

-----------------------------------------------------------------------------
(* A caller has a strand exactly where it should have one.                   *)

LEMMA HeldStep ==
  ASSUME IInv, [Next]_vars PROVE Held'
<1> USE DEF IInv, Held, CallTypes
<1>0. None \notin Strands
  BY StrandsAssumption
<1>1. ASSUME UNCHANGED <<on, pc>> PROVE Held'
  BY <1>1
<1>2. ASSUME NEW c \in Callers, NEW place, Moves(c, place), UNCHANGED on,
             pc[c] \in OnStrand <=> place \in OnStrand
      PROVE  Held'
  BY <1>2 DEF Moves, Stays, OnStrand
<1>3. ASSUME NEW c \in Callers, NEW place \in Places, UNCHANGED on,
             pc' = [pc EXCEPT ![c] = place],
             pc[c] \in OnStrand <=> place \in OnStrand
      PROVE  Held'
  BY <1>3
<1>4. ASSUME NEW c \in Callers, Step(c) PROVE Held'
  <2>1. CASE Invoke(c)
    BY <1>3, <2>1 DEF Invoke, OnStrand, Places
  <2>2. CASE \E e : Found(c, e)
    <3>1. PICK e : Found(c, e)
      BY <2>2
    <3>2. pc[c] \notin OnStrand
      BY <3>1, FoundEntry DEF Placed, OnStrand
    <3>3. CASE Moves(c, "acquired") /\ \E s \in Strands : on' = [on EXCEPT ![c] = s]
      BY <1>0, <3>3 DEF Moves, Stays, OnStrand
    <3> QED
      BY <1>2, <3>1, <3>2, <3>3, ScanEffect DEF OnStrand
  <2>3. CASE AcquireFilter(c)
    BY <1>3, <2>3 DEF AcquireFilter, callVars, OnStrand, Places
  <2>4. CASE BeginRequest(c) \/ Connect(c) \/ SendRequest(c) \/ ReceiveReply(c) \/ MarshalFails(c)
    <3>1. UNCHANGED on
      BY <2>4, Zenon DEF BeginRequest, Connect, SendRequest, ReceiveReply, MarshalFails, UnchangedByIO
    <3>2. /\ \E place \in OnStrand : pc' = [pc EXCEPT ![c] = place]
          /\ pc[c] \in OnStrand
      BY <2>4 DEF BeginRequest, Connect, SendRequest, ReceiveReply, MarshalFails, OnStrand
    <3> QED
      BY <3>1, <3>2
  <2>5. CASE Broken(c)
    <3>1. PICK closed, retry, completion : Failure(c, closed, retry, completion)
      BY <2>5, FailureCases, BrokenOnStrand, HeldStrand
    <3>2. PICK place \in {"failing", "exhausted"} : pc' = [pc EXCEPT ![c] = place]
      BY <3>1, FailureEffect, Zenon
    <3>3. UNCHANGED on
      BY <3>1, FailureEffect, Zenon
    <3> QED
      BY <2>5, <3>2, <3>3, BrokenOnStrand DEF OnStrand
  <2>6. CASE ResetAddresses(c) \/ MarkDying(c)
    <3>1. UNCHANGED on
      BY <2>6, Zenon DEF ResetAddresses, MarkDying, callVars
    <3>2. /\ \E place \in OnStrand : pc' = [pc EXCEPT ![c] = place]
          /\ pc[c] \in OnStrand
      BY <2>6 DEF ResetAddresses, MarkDying, OnStrand
    <3> QED
      BY <3>1, <3>2
  <2>7. CASE Release(c)
    <3>1. /\ \E place \in {"acquire", "out"} : Moves(c, place)
          /\ on' = [on EXCEPT ![c] = None]
      BY <2>7, ReleaseEffect DEF Again
    <3> QED
      BY <1>0, <3>1 DEF Moves, Stays, OnStrand
  <2>8. CASE QueueTimeout(c)
    BY <1>3, <2>8 DEF QueueTimeout, OnStrand, Places
  <2>9. CASE WakeByItself(c)
    BY <1>3, <2>9 DEF WakeByItself, callVars, OnStrand, Places
  <2>10. CASE Execute(c)
    BY <1>1, <2>10, Zenon DEF Execute, UnchangedByIO
  <2> QED
    BY <1>4, <2>1, <2>2, <2>3, <2>4, <2>5, <2>6, <2>7, <2>8, <2>9, <2>10, Zenon DEF Step
<1>5. ASSUME NEW s \in Strands, NEW how, Lose(s, how) PROVE Held'
  BY <1>1, <1>5, Zenon DEF Lose, UnchangedByIO
<1>6. ASSUME NEW s \in Strands, CloseIdle(s) PROVE Held'
  BY <1>1, <1>6, Zenon DEF CloseIdle, callVars
<1>7. CASE RemoveIdle \/ ResetIdleRope \/ Disconnect
  BY <1>1, <1>7, Zenon DEF RemoveIdle, ResetIdleRope, Disconnect, callVars
<1>8. CASE UNCHANGED vars
  BY <1>1, <1>8, Zenon DEF vars, callVars
<1> QED
  BY <1>4, <1>5, <1>6, <1>7, <1>8, StepCases, Zenon

-----------------------------------------------------------------------------
(* What becomes of a strand.                                                 *)

Sound(r) ==
  /\ r \in StrandType
  /\ r.state # "free" => r.address \in Addresses
  /\ r.idlebeats > 0 => r.cached

LEMMA StateSound ==
  ASSUME NEW r, Sound(r), r.state # "free", NEW st \in {"ACTIVE", "DYING", "scavenged"},
         NEW q, q = [r EXCEPT !.state = st]
  PROVE  /\ Sound(q) /\ q.state = st /\ q.cached = r.cached
         /\ q.idlebeats = r.idlebeats /\ q.connection = r.connection
         /\ q.orderly_closed = r.orderly_closed
BY DEF Sound, StrandType

LEMMA ConnectionSound ==
  ASSUME NEW r, Sound(r), NEW con \in {"open", "closing", "broken"},
         NEW q, q = [r EXCEPT !.connection = con]
  PROVE  /\ Sound(q) /\ q.state = r.state /\ q.cached = r.cached
         /\ q.idlebeats = r.idlebeats /\ q.connection = con
         /\ q.orderly_closed = r.orderly_closed
BY DEF Sound, StrandType

LEMMA ClosedSound ==
  ASSUME NEW r, Sound(r), NEW closed \in BOOLEAN,
         NEW q, q = [r EXCEPT !.orderly_closed = closed]
  PROVE  /\ Sound(q) /\ q.state = r.state /\ q.cached = r.cached
         /\ q.idlebeats = r.idlebeats /\ q.connection = r.connection
         /\ q.orderly_closed = closed
BY DEF Sound, StrandType

LEMMA UsedSound ==
  ASSUME NEW r, Sound(r),
         NEW q, q = [r EXCEPT !.first_use = FALSE]
  PROVE  /\ Sound(q) /\ q.state = r.state /\ q.cached = r.cached
         /\ q.idlebeats = r.idlebeats /\ q.connection = r.connection
         /\ q.orderly_closed = r.orderly_closed
BY DEF Sound, StrandType

LEMMA CachedSound ==
  ASSUME NEW r, Sound(r),
         NEW q, q = [r EXCEPT !.cached = TRUE, !.idlebeats = Beats]
  PROVE  /\ Sound(q) /\ q.state = r.state /\ q.connection = r.connection
         /\ q.orderly_closed = r.orderly_closed
<1> DEFINE r1 == [r EXCEPT !.cached = TRUE]
<1>1. r1 \in StrandType /\ r1.cached = TRUE
      /\ r1.state = r.state /\ r1.address = r.address
      /\ r1.connection = r.connection /\ r1.orderly_closed = r.orderly_closed
  BY ParametersAssumption DEF Sound, StrandType, NoStrand
<1>2. q = [r1 EXCEPT !.idlebeats = Beats]
  OBVIOUS
<1> HIDE DEF r1
<1> QED
  BY <1>1, <1>2, ParametersAssumption DEF Sound, StrandType

LEMMA TakenSound ==
  ASSUME NEW r, Sound(r),
         NEW q, q = [r EXCEPT !.cached = FALSE, !.idlebeats = 0]
  PROVE  /\ Sound(q) /\ q.state = r.state /\ ~q.cached /\ q.idlebeats = 0
         /\ q.connection = r.connection
         /\ q.orderly_closed = r.orderly_closed
<1> DEFINE r1 == [r EXCEPT !.cached = FALSE]
<1>1. r1 \in StrandType /\ r1.cached = FALSE
      /\ r1.state = r.state /\ r1.address = r.address
      /\ r1.connection = r.connection /\ r1.orderly_closed = r.orderly_closed
  BY ParametersAssumption DEF Sound, StrandType, NoStrand
<1>2. q = [r1 EXCEPT !.idlebeats = 0]
  OBVIOUS
<1> HIDE DEF r1
<1> QED
  BY <1>1, <1>2, ParametersAssumption DEF Sound, StrandType

LEMMA NewSound ==
  ASSUME NEW a \in Addresses,
         NEW q, q = [NoStrand EXCEPT !.state = "ACTIVE", !.address = a]
  PROVE  /\ Sound(q) /\ q.state = "ACTIVE" /\ ~q.cached /\ q.idlebeats = 0
         /\ q.connection = "none" /\ ~q.orderly_closed
<1> DEFINE r1 == [NoStrand EXCEPT !.state = "ACTIVE"]
<1>0. /\ NoStrand \in StrandType /\ NoStrand.cached = FALSE
      /\ NoStrand.idlebeats = 0 /\ NoStrand.connection = "none"
      /\ NoStrand.orderly_closed = FALSE
  BY ParametersAssumption DEF StrandType, NoStrand
<1>1. /\ r1 \in StrandType /\ r1.cached = FALSE
      /\ r1.idlebeats = 0 /\ r1.connection = "none"
      /\ r1.orderly_closed = FALSE /\ r1.state = "ACTIVE"
  BY <1>0 DEF StrandType
<1>2. q = [r1 EXCEPT !.address = a]
  OBVIOUS
<1> HIDE DEF r1
<1>3. a \in Addresses \cup {None} /\ a \in Addresses
  OBVIOUS
<1>4. q \in StrandType /\ q.address = a
  BY <1>1, <1>2, <1>3 DEF StrandType
<1>5. /\ q.state = "ACTIVE" /\ q.cached = FALSE /\ q.idlebeats = 0
      /\ q.connection = "none" /\ q.orderly_closed = FALSE
  BY <1>1, <1>2 DEF StrandType
<1> QED
  BY <1>3, <1>4, <1>5 DEF Sound

LEMMA NoStrandSound == Sound(NoStrand) /\ NoStrand.state = "free" /\ ~NoStrand.orderly_closed
BY ParametersAssumption DEF Sound, StrandType, NoStrand

LEMMA CountSound ==
  ASSUME NEW r, Sound(r), r.state # "free", r.idlebeats > 0,
         NEW st \in {r.state, "scavenged"},
         NEW q, q = [r EXCEPT !.idlebeats = @ - 1, !.state = st]
  PROVE  /\ Sound(q) /\ q.state = st /\ q.connection = r.connection
         /\ q.orderly_closed = r.orderly_closed
<1> DEFINE r1 == [r EXCEPT !.idlebeats = @ - 1]
<1>1. r1 \in StrandType /\ r1.cached = r.cached /\ r.cached
      /\ r1.state = r.state /\ r1.address = r.address
      /\ r1.connection = r.connection /\ r1.orderly_closed = r.orderly_closed
  BY ParametersAssumption DEF Sound, StrandType, NoStrand
<1>2. q = [r1 EXCEPT !.state = st]
  OBVIOUS
<1> HIDE DEF r1
<1> QED
  BY <1>1, <1>2, ParametersAssumption DEF Sound, StrandType

LEMMA AllSound ==
  ASSUME IInv PROVE \A s \in Strands : Sound(strand[s])
BY DEF IInv, RopeTypes, Addressed, Counted, Sound

\* Nothing but the strand s changes, and s stays as sound as it was.
Changes(s, q) ==
  /\ strand' = [strand EXCEPT ![s] = q]
  /\ Sound(q)

\* Everything the invariant says of strands.
StrandsInv ==
  /\ strand \in [Strands -> StrandType]
  /\ Addressed /\ Counted /\ CallKeepsStrand

LEMMA SoundStrands ==
  ASSUME strand' \in [Strands -> StrandType],
         \A s \in Strands : Sound(strand'[s]),
         CallKeepsStrand'
  PROVE  StrandsInv'
BY DEF StrandsInv, Addressed, Counted, Sound

\* A user's strand may change as long as the user can go on.
LEMMA ChangeKeeps ==
  ASSUME IInv, NEW s \in Strands, NEW q, Changes(s, q), UNCHANGED on,
         (\E c \in Callers : on[c] = s) =>
           /\ q.state \in {"ACTIVE", "DYING"}
           /\ ~q.cached /\ q.idlebeats = 0
  PROVE  StrandsInv'
<1>1. strand \in [Strands -> StrandType] /\ on \in [Callers -> Strands \cup {None}]
  BY DEF IInv, RopeTypes, CallTypes
<1>2. q \in StrandType
  BY DEF Changes, Sound
<1>3. strand' \in [Strands -> StrandType]
  BY <1>1, <1>2 DEF Changes
<1>4. \A t \in Strands : strand'[t] = IF t = s THEN q ELSE strand[t]
  BY <1>1 DEF Changes
<1>5. \A t \in Strands : Sound(strand'[t])
  BY <1>4, AllSound DEF Changes
<1>6. CallKeepsStrand'
  <2> SUFFICES ASSUME NEW c \in Callers, on[c] # None
               PROVE  /\ strand'[on[c]].state \in {"ACTIVE", "DYING"}
                      /\ ~strand'[on[c]].cached /\ strand'[on[c]].idlebeats = 0
    BY DEF CallKeepsStrand
  <2>1. on[c] \in Strands
    BY <1>1
  <2> QED
    BY <1>4, <2>1 DEF IInv, CallKeepsStrand
<1> QED
  BY <1>3, <1>5, <1>6, SoundStrands

\* A caller takes the strand s as q.
LEMMA AcquireKeeps ==
  ASSUME IInv, NEW c \in Callers, NEW s \in Strands, NEW q, Changes(s, q),
         on' = [on EXCEPT ![c] = s],
         q.state \in {"ACTIVE", "DYING"}, ~q.cached, q.idlebeats = 0
  PROVE  StrandsInv'
<1>1. strand \in [Strands -> StrandType] /\ on \in [Callers -> Strands \cup {None}]
  BY DEF IInv, RopeTypes, CallTypes
<1>2. q \in StrandType
  BY DEF Changes, Sound
<1>3. strand' \in [Strands -> StrandType]
  BY <1>1, <1>2 DEF Changes
<1>4. \A t \in Strands : strand'[t] = IF t = s THEN q ELSE strand[t]
  BY <1>1 DEF Changes
<1>5. \A t \in Strands : Sound(strand'[t])
  BY <1>4, AllSound DEF Changes
<1>6. CallKeepsStrand'
  <2> SUFFICES ASSUME NEW d \in Callers, on'[d] # None
               PROVE  /\ strand'[on'[d]].state \in {"ACTIVE", "DYING"}
                      /\ ~strand'[on'[d]].cached /\ strand'[on'[d]].idlebeats = 0
    BY DEF CallKeepsStrand
  <2>1. CASE d = c
    BY <1>1, <1>4, <2>1
  <2>2. CASE d # c
    <3>1. on'[d] = on[d] /\ on[d] \in Strands
      BY <1>1, <2>2
    <3> QED
      BY <1>4, <3>1 DEF IInv, CallKeepsStrand
  <2> QED
    BY <2>1, <2>2
<1> QED
  BY <1>3, <1>5, <1>6, SoundStrands

\* A caller leaves its strand, which becomes q.
LEMMA LeaveKeeps ==
  ASSUME IInv, NEW c \in Callers, on[c] \in Strands, NEW q, Changes(on[c], q),
         on' = [on EXCEPT ![c] = None],
         Users(on[c]) # {c} =>
           /\ q.state \in {"ACTIVE", "DYING"}
           /\ ~q.cached /\ q.idlebeats = 0
  PROVE  StrandsInv'
<1> DEFINE s == on[c]
<1>1. strand \in [Strands -> StrandType] /\ on \in [Callers -> Strands \cup {None}]
  BY DEF IInv, RopeTypes, CallTypes
<1>2. q \in StrandType
  BY DEF Changes, Sound
<1>3. strand' \in [Strands -> StrandType]
  BY <1>1, <1>2 DEF Changes
<1>4. \A t \in Strands : strand'[t] = IF t = s THEN q ELSE strand[t]
  BY <1>1 DEF Changes
<1>5. \A t \in Strands : Sound(strand'[t])
  BY <1>4, AllSound DEF Changes
<1>6. CallKeepsStrand'
  <2> SUFFICES ASSUME NEW d \in Callers, on'[d] # None
               PROVE  /\ strand'[on'[d]].state \in {"ACTIVE", "DYING"}
                      /\ ~strand'[on'[d]].cached /\ strand'[on'[d]].idlebeats = 0
    BY DEF CallKeepsStrand
  <2>1. d # c /\ on'[d] = on[d] /\ on[d] \in Strands
    BY <1>1
  <2>2. CASE on[d] = s
    <3>1. d \in Users(s) /\ d \notin {c}
      BY <2>1, <2>2 DEF Users
    <3>2. Users(s) # {c}
      BY <3>1
    <3> QED
      BY <1>4, <2>1, <2>2, <3>2
  <2>3. CASE on[d] # s
    BY <1>4, <2>1, <2>3 DEF IInv, CallKeepsStrand
  <2> QED
    BY <2>2, <2>3
<1> QED
  BY <1>3, <1>5, <1>6, SoundStrands

LEMMA ScanKeeps ==
  ASSUME IInv, NEW c \in Callers, NEW e, Found(c, e) PROVE StrandsInv'
<1>0. /\ \A s \in Strands : Sound(strand[s])
      /\ strand \in [Strands -> StrandType]
  BY AllSound DEF IInv, RopeTypes
<1>1. ASSUME UNCHANGED <<strand, on>> PROVE StrandsInv'
  BY <1>0, <1>1 DEF StrandsInv, IInv, Addressed, Counted, CallKeepsStrand
<1>2. CASE TakeUnused(c, e)
  <2>1. PICK s \in Unused :
          /\ Acquired(c, s, e)
          /\ strand' = [strand EXCEPT ![s].cached = FALSE, ![s].idlebeats = 0]
    BY <1>2 DEF TakeUnused
  <2> DEFINE q == [strand[s] EXCEPT !.cached = FALSE, !.idlebeats = 0]
  <2>2. s \in Strands /\ strand[s].state = "ACTIVE"
    BY DEF Unused, Active
  <2>3. /\ Sound(q) /\ q.state = strand[s].state /\ ~q.cached /\ q.idlebeats = 0
    <3> HIDE DEF q
    <3>1. q = [strand[s] EXCEPT !.cached = FALSE, !.idlebeats = 0]
      BY DEF q
    <3> QED
      BY <1>0, <2>2, <3>1, TakenSound
  <2>4. strand' = [strand EXCEPT ![s] = q]
    BY <1>0, <2>1, <2>2
  <2> HIDE DEF q
  <2>5. on' = [on EXCEPT ![c] = s]
    BY <2>1 DEF Acquired
  <2>6. Changes(s, q)
    BY <2>3, <2>4 DEF Changes
  <2> QED
    BY <2>2, <2>3, <2>5, <2>6, AcquireKeeps
<1>3. CASE NewStrand(c, e)
  <2> DEFINE s == CHOOSE s \in Strands : strand[s].state = "free"
             q == [NoStrand EXCEPT !.state = "ACTIVE", !.address = e.order[inUse]]
  <2>1. /\ e.order # <<>> /\ \E f \in Strands : strand[f].state = "free"
        /\ Acquired(c, s, e)
        /\ strand' = [strand EXCEPT ![s] = q]
    BY <1>3, Zenon DEF NewStrand
  <2>2. s \in Strands
    BY <2>1, Zenon
  <2>3. e.order[inUse] \in Addresses
    <3>1. e.order = order \/ (e.order \in Orders /\ ~filtered)
      <4>1. pc[c] = "filtering" => ~filtered
        BY DEF IInv, InOrder, Flags
      <4> QED
        BY <4>1 DEF Found, Entry
    <3>2. e.order \in Seq(Addresses)
      BY <3>1, OrdersAssumption, <<>> \in Seq(Addresses) DEF IInv, RopeTypes
    <3>3. inUse \in 1 .. Len(e.order)
      <4>1. ~filtered => inUse = 1
        BY DEF IInv, InOrder
      <4>2. CASE e.order = order
        BY <2>1, <4>2 DEF IInv, InOrder
      <4>3. CASE ~filtered
        BY <2>1, <3>2, <4>1, <4>3
      <4> QED
        BY <3>1, <4>2, <4>3
    <3> QED
      BY <3>2, <3>3
  <2>4. Sound(q) /\ q.state = "ACTIVE" /\ ~q.cached /\ q.idlebeats = 0
    <3> DEFINE a == e.order[inUse]
    <3> HIDE DEF q, a
    <3>1. q = [NoStrand EXCEPT !.state = "ACTIVE", !.address = a] /\ a \in Addresses
      BY <2>3 DEF q, a
    <3> QED
      BY <3>1, NewSound
  <2> HIDE DEF q, s
  <2>5. on' = [on EXCEPT ![c] = s]
    BY <2>1 DEF Acquired
  <2>6. Changes(s, q)
    BY <2>1, <2>4 DEF Changes
  <2> QED
    BY <2>2, <2>4, <2>5, <2>6, AcquireKeeps
<1>4. CASE Unused = {} /\ Share(c, e)
  <2>1. PICK s \in Active : Acquired(c, s, e) /\ UNCHANGED strand
    BY <1>4 DEF Share
  <2>2. s \in Strands /\ strand[s].state = "ACTIVE" /\ ~strand[s].cached
    BY <1>4 DEF Active, Unused
  <2>3. strand[s].idlebeats = 0
    <3>1. strand[s].idlebeats \in 0 .. Beats /\ ~(strand[s].idlebeats > 0)
      BY <1>0, <2>2 DEF StrandType, Sound
    <3> QED
      BY <3>1, ParametersAssumption
  <2>4. on' = [on EXCEPT ![c] = s]
    BY <2>1 DEF Acquired
  <2>5. Changes(s, strand[s])
    BY <1>0, <2>1, <2>2 DEF Changes
  <2> QED
    BY <2>2, <2>3, <2>4, <2>5, AcquireKeeps
<1>5. CASE NoProfile(c, e) \/ Queue(c, e)
  BY <1>1, <1>5, Zenon DEF NoProfile, Queue
<1> QED
  BY <1>2, <1>3, <1>4, <1>5, ScanCases, Zenon DEF Found

LEMMA ReleaseKeeps ==
  ASSUME IInv, NEW c \in Callers, Release(c) PROVE StrandsInv'
<1> DEFINE s == on[c]
<1>0. /\ \A t \in Strands : Sound(strand[t])
      /\ strand \in [Strands -> StrandType]
  BY AllSound DEF IInv, RopeTypes
<1>1. /\ s \in Strands /\ s # None /\ strand[s].state \in {"ACTIVE", "DYING"}
      /\ ~strand[s].cached /\ strand[s].idlebeats = 0
  <2>1. pc[c] \in OnStrand
    BY DEF Release, OnStrand
  <2> QED
    BY <2>1, HeldStrand DEF IInv, CallKeepsStrand
<1>2. on' = [on EXCEPT ![c] = None]
  BY DEF Release
<1>3. CASE ReleaseDying(c)
  <2>1. CASE Users(s) = {c}
    <3>1. strand' = [strand EXCEPT ![s] = NoStrand]
      BY <1>3, <2>1 DEF ReleaseDying
    <3>2. Changes(s, NoStrand)
      BY <3>1, NoStrandSound DEF Changes
    <3> QED
      BY <1>1, <1>2, <2>1, <3>2, LeaveKeeps
  <2>2. CASE Users(s) # {c}
    <3> DEFINE q == [strand[s] EXCEPT !.state = "DYING"]
    <3>1. strand' = [strand EXCEPT ![s] = q]
      BY <1>3, <2>2 DEF ReleaseDying
    <3>2. Sound(q) /\ q.state = "DYING" /\ ~q.cached /\ q.idlebeats = 0
      <4> HIDE DEF q
      <4>1. q = [strand[s] EXCEPT !.state = "DYING"]
        BY DEF q
      <4> QED
        BY <1>0, <1>1, <4>1, StateSound
    <3> HIDE DEF q
    <3>3. Changes(s, q)
      BY <3>1, <3>2 DEF Changes
    <3> QED
      BY <1>1, <1>2, <3>2, <3>3, LeaveKeeps
  <2> QED
    BY <2>1, <2>2
<1>4. CASE ReleaseLast(c) /\ Users(s) = {c}
  <2> DEFINE q == [strand[s] EXCEPT !.cached = TRUE, !.idlebeats = Beats]
  <2>1. strand' = [strand EXCEPT ![s] = q]
    BY <1>0, <1>1, <1>4 DEF ReleaseLast
  <2>2. Sound(q)
    <3> HIDE DEF q
    <3>1. q = [strand[s] EXCEPT !.cached = TRUE, !.idlebeats = Beats]
      BY DEF q
    <3> QED
      BY <1>0, <1>1, <3>1, CachedSound
  <2> HIDE DEF q
  <2>3. Changes(s, q)
    BY <2>1, <2>2 DEF Changes
  <2> QED
    BY <1>1, <1>2, <1>4, <2>3, LeaveKeeps
<1>5. CASE ReleaseShared(c)
  <2>1. Changes(s, strand[s])
    BY <1>0, <1>1, <1>5 DEF ReleaseShared, Changes
  <2> QED
    BY <1>1, <1>2, <2>1, LeaveKeeps
<1> QED
  BY <1>3, <1>4, <1>5, Zenon DEF Release

LEMMA StrandsStep ==
  ASSUME IInv, [Next]_vars PROVE StrandsInv'
<1>0. /\ \A t \in Strands : Sound(strand[t])
      /\ strand \in [Strands -> StrandType]
      /\ on \in [Callers -> Strands \cup {None}]
  BY AllSound DEF IInv, RopeTypes, CallTypes
<1>1. ASSUME UNCHANGED <<strand, on>> PROVE StrandsInv'
  BY <1>0, <1>1 DEF StrandsInv, IInv, Addressed, Counted, CallKeepsStrand
<1>2. ASSUME NEW c \in Callers, Step(c) PROVE StrandsInv'
  <2> DEFINE s == on[c]
  <2>0. ASSUME pc[c] \in OnStrand
        PROVE  /\ s \in Strands /\ Sound(strand[s])
               /\ strand[s].state \in {"ACTIVE", "DYING"}
               /\ ~strand[s].cached /\ strand[s].idlebeats = 0
    BY <1>0, <2>0, HeldStrand DEF IInv, CallKeepsStrand
  <2>1. CASE Invoke(c) \/ AcquireFilter(c) \/ BeginRequest(c) \/ SendRequest(c)
             \/ ResetAddresses(c) \/ MarshalFails(c) \/ QueueTimeout(c)
             \/ WakeByItself(c) \/ Execute(c)
    BY <1>1, <2>1, Zenon DEF Invoke, AcquireFilter, BeginRequest, SendRequest, ResetAddresses,
       MarshalFails, QueueTimeout, WakeByItself, Execute, UnchangedByIO, callVars
  <2>2. CASE \E e : Found(c, e)
    BY <2>2, ScanKeeps
  <2>3. CASE Connect(c)
    <3> DEFINE q == [strand[s] EXCEPT !.connection = "open"]
    <3>1. pc[c] \in OnStrand /\ UNCHANGED on
      BY <2>3 DEF Connect, OnStrand, UnchangedByIO
    <3>2. strand' = [strand EXCEPT ![s] = q]
      BY <2>3 DEF Connect
    <3>3. Sound(q) /\ q.state = strand[s].state /\ q.cached = strand[s].cached
          /\ q.idlebeats = strand[s].idlebeats
      <4> HIDE DEF q
      <4>1. q = [strand[s] EXCEPT !.connection = "open"]
        BY DEF q
      <4> QED
        BY <2>0, <3>1, <4>1, ConnectionSound
    <3> HIDE DEF q
    <3>4. Changes(s, q)
      BY <3>2, <3>3 DEF Changes
    <3> QED
      BY <2>0, <3>1, <3>3, <3>4, ChangeKeeps
  <2>4. CASE ReceiveReply(c)
    <3> DEFINE q == [strand[s] EXCEPT !.first_use = FALSE]
    <3>1. pc[c] \in OnStrand /\ UNCHANGED on
      BY <2>4 DEF ReceiveReply, OnStrand, UnchangedByIO
    <3>2. strand' = [strand EXCEPT ![s] = q]
      BY <2>4 DEF ReceiveReply
    <3>3. Sound(q) /\ q.state = strand[s].state /\ q.cached = strand[s].cached
          /\ q.idlebeats = strand[s].idlebeats
      <4> HIDE DEF q
      <4>1. q = [strand[s] EXCEPT !.first_use = FALSE]
        BY DEF q
      <4> QED
        BY <2>0, <3>1, <4>1, UsedSound
    <3> HIDE DEF q
    <3>4. Changes(s, q)
      BY <3>2, <3>3 DEF Changes
    <3> QED
      BY <2>0, <3>1, <3>3, <3>4, ChangeKeeps
  <2>5. CASE Broken(c)
    <3>0. pc[c] \in OnStrand
      BY <2>5, BrokenOnStrand
    <3>1. PICK closed, retry, completion : Failure(c, closed, retry, completion)
      BY <2>5, <3>0, FailureCases, HeldStrand
    <3> DEFINE q == [strand[s] EXCEPT !.orderly_closed = closed]
    <3>2. strand' = [strand EXCEPT ![s] = q] /\ UNCHANGED on
      BY <3>1, FailureEffect
    <3>3. Sound(q) /\ q.state = strand[s].state /\ q.cached = strand[s].cached
          /\ q.idlebeats = strand[s].idlebeats
      <4> HIDE DEF q
      <4>1. q = [strand[s] EXCEPT !.orderly_closed = closed] /\ closed \in BOOLEAN
        BY <3>1 DEF q, Failure
      <4> QED
        BY <2>0, <3>0, <4>1, ClosedSound
    <3> HIDE DEF q
    <3>4. Changes(s, q)
      BY <3>2, <3>3 DEF Changes
    <3> QED
      BY <2>0, <3>0, <3>2, <3>3, <3>4, ChangeKeeps
  <2>6. CASE MarkDying(c)
    <3> DEFINE q == [strand[s] EXCEPT !.state = "DYING"]
    <3>1. pc[c] \in OnStrand /\ UNCHANGED on
      BY <2>6 DEF MarkDying, OnStrand, callVars
    <3>2. strand' = [strand EXCEPT ![s] = q]
      BY <2>6 DEF MarkDying
    <3>3. Sound(q) /\ q.state = "DYING" /\ q.cached = strand[s].cached
          /\ q.idlebeats = strand[s].idlebeats
      <4> HIDE DEF q
      <4>1. q = [strand[s] EXCEPT !.state = "DYING"]
        BY DEF q
      <4> QED
        BY <2>0, <3>1, <4>1, StateSound
    <3> HIDE DEF q
    <3>4. Changes(s, q)
      BY <3>2, <3>3 DEF Changes
    <3> QED
      BY <2>0, <3>1, <3>3, <3>4, ChangeKeeps
  <2>7. CASE Release(c)
    BY <2>7, ReleaseKeeps
  <2> QED
    BY <1>2, <2>1, <2>2, <2>3, <2>4, <2>5, <2>6, <2>7, Zenon DEF Step
<1>3. ASSUME NEW s \in Strands, NEW how \in {"closing", "broken"}, Lose(s, how)
      PROVE  StrandsInv'
  <2> DEFINE q == [strand[s] EXCEPT !.connection = how]
  <2>1. strand' = [strand EXCEPT ![s] = q] /\ UNCHANGED on
    BY <1>3 DEF Lose, UnchangedByIO
  <2>2. Sound(q) /\ q.state = strand[s].state /\ q.cached = strand[s].cached
        /\ q.idlebeats = strand[s].idlebeats
    <3> HIDE DEF q
    <3>1. q = [strand[s] EXCEPT !.connection = how]
      BY DEF q
    <3> QED
      BY <1>0, <3>1, ConnectionSound
  <2> HIDE DEF q
  <2>3. Changes(s, q)
    BY <2>1, <2>2 DEF Changes
  <2>4. (\E c \in Callers : on[c] = s) =>
           /\ q.state \in {"ACTIVE", "DYING"} /\ ~q.cached /\ q.idlebeats = 0
    BY <2>2, StrandsAssumption DEF IInv, CallKeepsStrand
  <2> QED
    BY <2>1, <2>3, <2>4, ChangeKeeps
<1>4. ASSUME NEW s \in Strands, CloseIdle(s) PROVE StrandsInv'
  <2>1. strand' = [strand EXCEPT ![s] = NoStrand] /\ UNCHANGED on
    BY <1>4 DEF CloseIdle, callVars
  <2>2. Changes(s, NoStrand)
    BY <2>1, NoStrandSound DEF Changes
  <2>3. ~ \E c \in Callers : on[c] = s
    BY <1>4, StrandsAssumption DEF CloseIdle, Scavenged, IInv, CallKeepsStrand
  <2> QED
    BY <2>1, <2>2, <2>3, ChangeKeeps
<1>5. ASSUME UNCHANGED on, strand' \in [Strands -> StrandType],
             \A t \in Strands : Sound(strand'[t]),
             \A t \in Strands : strand[t].idlebeats = 0 /\ strand[t].state \in {"ACTIVE", "DYING"}
               => /\ strand'[t].state \in {"ACTIVE", "DYING"}
                  /\ strand'[t].cached = strand[t].cached
                  /\ strand'[t].idlebeats = strand[t].idlebeats
      PROVE  StrandsInv'
  <2>1. CallKeepsStrand'
    BY <1>0, <1>5 DEF IInv, CallKeepsStrand
  <2> QED
    BY <1>5, <2>1, SoundStrands
<1>6. CASE RemoveIdle
  <2>1. \A t \in Strands : t \notin Counting => strand'[t] = strand[t]
    BY <1>6 DEF RemoveIdle
  <2>2. ASSUME NEW t \in Counting PROVE Sound(strand'[t])
    <3> DEFINE st == IF t \in Expiring THEN "scavenged" ELSE strand[t].state
    <3>1. t \in Strands /\ strand[t].state # "free" /\ strand[t].idlebeats > 0
      BY DEF Counting, InRope
    <3>2. strand'[t] = [strand[t] EXCEPT !.idlebeats = @ - 1, !.state = st]
      BY <1>6, <3>1 DEF RemoveIdle
    <3>3. st \in {strand[t].state, "scavenged"}
      OBVIOUS
    <3> HIDE DEF st
    <3> QED
      BY <1>0, <3>1, <3>2, <3>3, CountSound
  <2>3. \A t \in Strands : Sound(strand'[t])
    BY <1>0, <2>1, <2>2
  <2>4. strand' = [t \in Strands |-> strand'[t]]
    BY <1>6 DEF RemoveIdle
  <2>5. strand' \in [Strands -> StrandType]
    BY <2>3, <2>4 DEF Sound
  <2>6. UNCHANGED on
    BY <1>6 DEF RemoveIdle, callVars
  <2>7. \A t \in Strands : strand[t].idlebeats = 0 => strand'[t] = strand[t]
    BY <2>1 DEF Counting
  <2> QED
    BY <1>5, <2>3, <2>5, <2>6, <2>7
<1>7. CASE Disconnect
  <2> DEFINE Cut(t) == strand[t].state = "ACTIVE" /\ strand[t].connection # "none"
  <2>1. /\ UNCHANGED on
        /\ strand' = [t \in Strands |->
             IF Cut(t) THEN [strand[t] EXCEPT !.state = "DYING", !.connection = "broken"]
             ELSE strand[t]]
    BY <1>7 DEF Disconnect, callVars
  <2>2. ASSUME NEW t \in Strands
        PROVE  /\ Sound(strand'[t])
               /\ strand'[t] = strand[t] \/ strand'[t].state = "DYING"
               /\ strand'[t].cached = strand[t].cached
               /\ strand'[t].idlebeats = strand[t].idlebeats
    <3>1. CASE Cut(t)
      <4> DEFINE r == [strand[t] EXCEPT !.state = "DYING"]
      <4>1. Sound(r) /\ r.state = "DYING" /\ r.cached = strand[t].cached
            /\ r.idlebeats = strand[t].idlebeats
        <5> HIDE DEF r
        <5>1. r = [strand[t] EXCEPT !.state = "DYING"] /\ strand[t].state # "free"
          BY <3>1 DEF r
        <5> QED
          BY <1>0, <5>1, StateSound
      <4>2. strand'[t] = [r EXCEPT !.connection = "broken"]
        BY <2>1, <3>1
      <4> HIDE DEF r
      <4> QED
        BY <4>1, <4>2, ConnectionSound
    <3>2. CASE ~Cut(t)
      BY <1>0, <2>1, <3>2
    <3> QED
      BY <3>1, <3>2
  <2>3. strand' = [t \in Strands |-> strand'[t]]
    BY <2>1
  <2>4. strand' \in [Strands -> StrandType]
    BY <2>2, <2>3 DEF Sound
  <2> HIDE DEF Cut
  <2> QED
    BY <1>5, <2>1, <2>2, <2>4
<1>8. CASE ResetIdleRope
  BY <1>1, <1>8, Zenon DEF ResetIdleRope, callVars
<1>9. CASE UNCHANGED vars
  BY <1>1, <1>9, Zenon DEF vars, callVars
<1> QED
  BY <1>2, <1>3, <1>4, <1>6, <1>7, <1>8, <1>9, StepCases, Zenon

-----------------------------------------------------------------------------
\* The invariant is inductive: every step of a caller on the rope, of the
\* server and of the scavenger keeps it.
THEOREM NextIInv == IInv /\ [Next]_vars => IInv'
<1> SUFFICES ASSUME IInv, [Next]_vars PROVE IInv'
  OBVIOUS
<1>1. Flags' /\ Bounded'
  BY FlagsStep
<1>2. CallTypes' /\ Paired'
  BY CallTypesStep
<1>3. InOrder' /\ order' \in Orders \cup {<<>>}
  BY InOrderStep
<1>4. Held'
  BY HeldStep
<1>5. StrandsInv'
  BY StrandsStep
<1> QED
  BY <1>1, <1>2, <1>3, <1>4, <1>5 DEF IInv, StrandsInv, RopeTypes

\* What the callers hold, wait for and have sent agrees with the rope and its
\* strands in every behaviour of acquireClient(), releaseClient(),
\* notifyCommFailure() and the scavenger.
THEOREM SpecIInv == Spec => []IInv
<1>1. Init => IInv
  BY InitIInv
<1>2. IInv /\ [Next]_vars => IInv'
  BY NextIInv
<1> QED
  BY <1>1, <1>2, PTL DEF Spec

\* The scavenger and the other callers leave the strand of a call alone:
\* acquireClient() stops the idle counter that releaseClient() starts.
THEOREM KeepsStrand == Spec => []CallKeepsStrand
<1>1. IInv => CallKeepsStrand
  BY DEF IInv
<1> QED
  BY <1>1, SpecIInv, PTL

-----------------------------------------------------------------------------
(* pd_nwaiting.                                                              *)

Waiters(p) == {c \in Callers : p[c] \in {"queue", "woken"}}
Counts == nwaiting = Cardinality(Waiters(pc))

LEMMA WaitersFinite ==
  ASSUME NEW p PROVE IsFiniteSet(Waiters(p)) /\ Cardinality(Waiters(p)) \in Nat
BY FiniteAssumption, FS_Subset, FS_CardinalityType DEF Waiters

LEMMA WaitersMove ==
  ASSUME NEW c \in Callers, NEW place, Moves(c, place)
  PROVE  Waiters(pc') = IF place \in {"queue", "woken"} THEN Waiters(pc) \cup {c}
                        ELSE Waiters(pc) \ {c}
BY DEF Moves, Stays, Waiters

\* What a scan does to the count.
LEMMA ScanCounts ==
  ASSUME IInv, Counts, NEW c \in Callers, NEW e, Found(c, e)
  PROVE  Counts'
<1> DEFINE W == Waiters(pc)
<1>1. IsFiniteSet(W) /\ Cardinality(W) \in Nat /\ nwaiting = Cardinality(W)
  BY WaitersFinite DEF Counts
<1>2. \/ Moves(c, "acquired") /\ nwaiting' = e.nwaiting
      \/ Moves(c, "out") /\ nwaiting' = e.nwaiting
      \/ Moves(c, "queue") /\ nwaiting' = e.nwaiting + 1
  <2>0. Placed(pc) /\ (e.pc = pc \/ e.pc = Broadcast)
    <3>1. Placed(pc)
      BY DEF IInv, CallTypes, Placed
    <3> QED
      BY <3>1, FoundEntry
  <2>1. ASSUME NEW place \in Places, Settle(c, e, place) PROVE Moves(c, place)
    BY <2>0, <2>1, SettleMoves
  <2>2. {"acquired", "out", "queue"} \subseteq Places
    BY DEF Places
  <2>3. \/ Settle(c, e, "acquired") /\ nwaiting' = e.nwaiting
        \/ Settle(c, e, "out") /\ nwaiting' = e.nwaiting
        \/ Settle(c, e, "queue") /\ nwaiting' = e.nwaiting + 1
    BY ScanCases, Zenon
       DEF Found, TakeUnused, NewStrand, NoProfile, Queue, Share, Acquired
  <2> QED
    BY <2>1, <2>2, <2>3
<1>3. \/ c \notin W /\ e.nwaiting = nwaiting
      \/ c \in W /\ e.nwaiting = nwaiting - 1
  BY DEF Found, Entry, Waiters
<1>4. CASE Moves(c, "acquired") \/ Moves(c, "out")
  <2>1. Waiters(pc') = W \ {c} /\ nwaiting' = e.nwaiting
    BY <1>2, <1>4, WaitersMove DEF Moves
  <2>2. CASE c \notin W
    BY <1>1, <1>3, <2>1, <2>2 DEF Counts
  <2>3. CASE c \in W
    BY <1>1, <1>3, <2>1, <2>3, FS_RemoveElement DEF Counts
  <2> QED
    BY <2>2, <2>3
<1>5. CASE Moves(c, "queue")
  <2>1. Waiters(pc') = W \cup {c} /\ nwaiting' = e.nwaiting + 1
    BY <1>2, <1>5, WaitersMove DEF Moves
  <2>2. CASE c \notin W
    BY <1>1, <1>3, <2>1, <2>2, FS_AddElement DEF Counts
  <2>3. CASE c \in W
    <3>1. W \cup {c} = W
      BY <2>3
    <3>2. nwaiting' = (nwaiting - 1) + 1 /\ nwaiting \in Nat
      BY <1>1, <1>3, <2>1, <2>3
    <3>3. nwaiting' = nwaiting
      BY <3>2
    <3>4. Waiters(pc') = W
      BY <2>1, <3>1
    <3> QED
      BY <1>1, <3>3, <3>4 DEF Counts
  <2> QED
    BY <2>2, <2>3
<1> QED
  BY <1>2, <1>4, <1>5

LEMMA CountsStep ==
  ASSUME IInv, Counts, [Next]_vars PROVE Counts'
<1> USE DEF IInv, CallTypes
<1>1. ASSUME UNCHANGED <<nwaiting, pc>> PROVE Counts'
  BY <1>1 DEF Counts, Waiters
<1>2. ASSUME UNCHANGED nwaiting, NEW c \in Callers, NEW place, Moves(c, place),
             pc[c] \in {"queue", "woken"} <=> place \in {"queue", "woken"}
      PROVE  Counts'
  <2>1. Waiters(pc') = Waiters(pc)
    BY <1>2, WaitersMove DEF Waiters
  <2> QED
    BY <1>2, <2>1 DEF Counts
<1>3. ASSUME NEW c \in Callers, NEW place \in Places, pc' = [pc EXCEPT ![c] = place]
      PROVE  Moves(c, place)
  BY <1>3 DEF Moves, Stays
<1>4. ASSUME NEW c \in Callers, Step(c) PROVE Counts'
  <2>1. CASE Invoke(c)
    <3>1. Moves(c, "acquire") /\ UNCHANGED nwaiting
      BY <1>3, <2>1 DEF Invoke, Places, ropeVars
    <3> QED
      BY <1>2, <2>1, <3>1 DEF Invoke
  <2>2. CASE \E e : Found(c, e)
    BY <2>2, ScanCounts
  <2>3. CASE AcquireFilter(c)
    <3>1. /\ Moves(c, "filter") \/ Moves(c, "filtering")
          /\ UNCHANGED nwaiting
      BY <1>3, <2>3 DEF AcquireFilter, Places
    <3> QED
      BY <1>2, <2>3, <3>1 DEF AcquireFilter
  <2>4. CASE BeginRequest(c) \/ Connect(c) \/ SendRequest(c) \/ ReceiveReply(c)
             \/ MarshalFails(c) \/ ResetAddresses(c) \/ MarkDying(c)
    <3>1. UNCHANGED nwaiting
      BY <2>4, Zenon DEF BeginRequest, Connect, SendRequest, ReceiveReply, MarshalFails,
                         ResetAddresses, MarkDying, UnchangedByIO, ropeVars
    <3>2. /\ \E place \in OnStrand : pc' = [pc EXCEPT ![c] = place]
          /\ pc[c] \in OnStrand
      BY <2>4 DEF BeginRequest, Connect, SendRequest, ReceiveReply, MarshalFails,
                  ResetAddresses, MarkDying, OnStrand
    <3> QED
      BY <1>2, <1>3, <3>1, <3>2 DEF OnStrand, Places
  <2>5. CASE Broken(c)
    <3>1. PICK closed, retry, completion : Failure(c, closed, retry, completion)
      BY <2>5, FailureCases, BrokenOnStrand, HeldStrand
    <3>2. PICK place \in {"failing", "exhausted"} : pc' = [pc EXCEPT ![c] = place]
      BY <3>1, FailureEffect, Zenon
    <3>3. UNCHANGED nwaiting
      BY <3>1, FailureEffect, Zenon
    <3> QED
      BY <1>2, <1>3, <2>5, <3>2, <3>3, BrokenOnStrand DEF OnStrand, Places
  <2>6. CASE Release(c)
    <3>1. \E place \in {"acquire", "out"} : Moves(c, place)
      BY <2>6, ReleaseEffect DEF Again
    <3>2. UNCHANGED nwaiting
      BY <2>6 DEF Release, ropeVars
    <3>3. pc[c] \notin {"queue", "woken"}
      BY <2>6 DEF Release
    <3> QED
      BY <1>2, <3>1, <3>2, <3>3
  <2>7. CASE QueueTimeout(c)
    <3>1. Moves(c, "out") /\ nwaiting' = nwaiting - 1
      BY <1>3, <2>7 DEF QueueTimeout, Places
    <3>2. Waiters(pc') = Waiters(pc) \ {c} /\ c \in Waiters(pc)
      BY <2>7, <3>1, WaitersMove DEF Waiters, QueueTimeout
    <3> QED
      BY <3>1, <3>2, WaitersFinite, FS_RemoveElement DEF Counts
  <2>8. CASE WakeByItself(c)
    <3>1. Moves(c, "woken") /\ UNCHANGED nwaiting
      BY <1>3, <2>8 DEF WakeByItself, Places, ropeVars
    <3> QED
      BY <1>2, <2>8, <3>1 DEF WakeByItself
  <2>9. CASE Execute(c)
    BY <1>1, <2>9, Zenon DEF Execute, UnchangedByIO, ropeVars
  <2> QED
    BY <1>4, <2>1, <2>2, <2>3, <2>4, <2>5, <2>6, <2>7, <2>8, <2>9, Zenon DEF Step
<1>5. ASSUME NEW s \in Strands, NEW how, Lose(s, how) PROVE Counts'
  BY <1>1, <1>5, Zenon DEF Lose, UnchangedByIO, ropeVars
<1>6. ASSUME NEW s \in Strands, CloseIdle(s) PROVE Counts'
  BY <1>1, <1>6, Zenon DEF CloseIdle, ropeVars
<1>7. CASE RemoveIdle \/ ResetIdleRope \/ Disconnect
  BY <1>1, <1>7, Zenon DEF RemoveIdle, ResetIdleRope, Disconnect, ropeVars
<1>8. CASE UNCHANGED vars
  BY <1>1, <1>8, Zenon DEF vars, ropeVars
<1> QED
  BY <1>4, <1>5, <1>6, <1>7, <1>8, StepCases, Zenon

\* The variables of the rope have their types, pd_nwaiting counts the callers
\* that wait, and the address in use is one of the order.
THEOREM TypesHold == Spec => []TypeOK
<1>1. Init => IInv /\ Counts
  <2>1. ASSUME Init PROVE Counts
    <3>1. Waiters(pc) = {} /\ nwaiting = 0
      BY <2>1 DEF Init, Waiters
    <3> QED
      BY <3>1, FS_EmptySet DEF Counts
  <2> QED
    BY <2>1, InitIInv
<1>2. (IInv /\ Counts) /\ [Next]_vars => (IInv /\ Counts)'
  BY NextIInv, CountsStep
<1>3. IInv /\ Counts => TypeOK
  <2> SUFFICES ASSUME IInv, Counts PROVE TypeOK
    OBVIOUS
  <2> USE DEF IInv
  <2>1. filtered => ~filtering
    BY DEF InOrder
  <2>2. IF order = <<>> THEN inUse = 1 ELSE inUse \in 1 .. Len(order)
    BY DEF InOrder
  <2>3. nwaiting = Cardinality({c \in Callers : pc[c] \in {"queue", "woken"}})
    BY DEF Counts, Waiters
  <2>4. Structure
    BY <2>1, <2>2, <2>3, Zenon DEF Structure, Held, Paired
  <2> QED
    BY <2>4, Zenon DEF TypeOK, Flags, Bounded, CallTypes, RopeTypes
<1> QED
  BY <1>1, <1>2, <1>3, PTL DEF Spec

-----------------------------------------------------------------------------
(* The limits of the rope.                                                   *)

Few == Cardinality(InRope) <= MaxStrands
Alone == oneCall => \A c, d \in Callers : on[c] # None /\ on[c] = on[d] => c = d

Roped(s) == strand[s].state \in {"ACTIVE", "DYING"}

LEMMA RopeFinite == IsFiniteSet(InRope) /\ Cardinality(InRope) \in Nat
BY FiniteAssumption, FS_Subset, FS_CardinalityType DEF InRope

\* No strand comes into the rope.
LEMMA FewKept ==
  ASSUME Few, \A s \in Strands : Roped(s)' => Roped(s)
  PROVE  Few'
<1>1. InRope' \subseteq InRope
  BY DEF InRope, Roped
<1>2. /\ Cardinality(InRope') <= Cardinality(InRope)
      /\ Cardinality(InRope') \in Nat
  BY <1>1, RopeFinite, FS_Subset, FS_CardinalityType
<1> QED
  BY <1>2, RopeFinite, ParametersAssumption DEF Few

\* A strand may be taken if nobody is on it, or if calls may share it.
LEMMA TakenAlone ==
  ASSUME IInv, Alone, NEW c \in Callers, NEW s \in Strands,
         on' = [on EXCEPT ![c] = s], UNCHANGED oneCall,
         pc[c] \notin OnStrand,
         oneCall => \A d \in Callers : on[d] # s
  PROVE  Alone'
<1>1. on \in [Callers -> Strands \cup {None}] /\ None \notin Strands
  BY StrandsAssumption DEF IInv, CallTypes
<1> SUFFICES ASSUME oneCall, NEW a \in Callers, NEW b \in Callers,
                    on'[a] # None, on'[a] = on'[b]
             PROVE  a = b
  BY DEF Alone
<1>2. CASE a = c \/ b = c
  BY <1>1, <1>2
<1>3. CASE a # c /\ b # c
  BY <1>1, <1>3 DEF Alone
<1> QED
  BY <1>2, <1>3

LEMMA ScanLimits ==
  ASSUME IInv, Few, Alone, NEW c \in Callers, NEW e, Found(c, e)
  PROVE  Few' /\ Alone'
<1>0. /\ strand \in [Strands -> StrandType]
      /\ None \notin Strands
      /\ pc[c] \notin OnStrand /\ UNCHANGED oneCall
  BY ScanCases, StrandsAssumption, FoundEntry
     DEF IInv, RopeTypes, CallTypes, Placed, Found, OnStrand
<1>1. ASSUME UNCHANGED <<strand, on>> PROVE Few' /\ Alone'
  BY <1>0, <1>1 DEF Few, Alone, InRope
<1>2. CASE TakeUnused(c, e)
  <2>1. PICK s \in Unused :
          /\ Acquired(c, s, e)
          /\ strand' = [strand EXCEPT ![s].cached = FALSE, ![s].idlebeats = 0]
    BY <1>2 DEF TakeUnused
  <2>2. s \in Strands /\ strand[s].state = "ACTIVE" /\ strand[s].cached
    BY DEF Unused, Active
  <2>3. \A d \in Callers : on[d] # s
    BY <1>0, <2>2 DEF IInv, CallKeepsStrand
  <2>4. on' = [on EXCEPT ![c] = s]
    BY <2>1 DEF Acquired
  <2>5. Alone'
    BY <1>0, <2>2, <2>3, <2>4, TakenAlone
  <2>6. \A t \in Strands : t # s => strand'[t] = strand[t]
    BY <1>0, <2>1
  <2>7. Roped(s)
    BY <2>2 DEF Roped
  <2>8. Few'
    BY <2>6, <2>7, FewKept DEF Roped
  <2> QED
    BY <2>5, <2>8
<1>3. CASE ~Full /\ NewStrand(c, e)
  <2> DEFINE s == CHOOSE s \in Strands : strand[s].state = "free"
             q == [NoStrand EXCEPT !.state = "ACTIVE", !.address = e.order[inUse]]
  <2>1. /\ \E f \in Strands : strand[f].state = "free"
        /\ Acquired(c, s, e)
        /\ strand' = [strand EXCEPT ![s] = q]
    BY <1>3, Zenon DEF NewStrand
  <2>2. s \in Strands /\ strand[s].state = "free"
    BY <2>1, Zenon
  <2> HIDE DEF s, q
  <2>3. \A d \in Callers : on[d] # s
    BY <1>0, <2>2 DEF IInv, CallKeepsStrand
  <2>4. on' = [on EXCEPT ![c] = s]
    BY <2>1 DEF Acquired
  <2>5. Alone'
    BY <1>0, <2>2, <2>3, <2>4, TakenAlone
  <2>6. \A t \in Strands : t # s => strand'[t] = strand[t]
    BY <1>0, <2>1
  <2>7. InRope' \subseteq InRope \cup {s} /\ s \notin InRope
    BY <2>2, <2>6 DEF InRope
  <2>8. /\ IsFiniteSet(InRope \cup {s})
        /\ Cardinality(InRope \cup {s}) = Cardinality(InRope) + 1
    BY <2>7, RopeFinite, FS_AddElement
  <2>9. /\ Cardinality(InRope') <= Cardinality(InRope) + 1
        /\ Cardinality(InRope') \in Nat
    BY <2>7, <2>8, FS_Subset, FS_CardinalityType
  <2>10. Cardinality(InRope) < MaxStrands
    BY <1>3, RopeFinite, ParametersAssumption DEF Full
  <2>11. Few'
    BY <2>9, <2>10, RopeFinite, ParametersAssumption DEF Few
  <2> QED
    BY <2>5, <2>11
<1>4. CASE ~oneCall /\ Share(c, e)
  <2>1. PICK s \in Strands : on' = [on EXCEPT ![c] = s] /\ UNCHANGED strand
    BY <1>4 DEF Share, Active, Acquired
  <2>2. Alone'
    BY <1>0, <1>4, <2>1, TakenAlone
  <2>3. Few'
    BY <2>1 DEF Few, InRope
  <2> QED
    BY <2>2, <2>3
<1>5. CASE NoProfile(c, e) \/ Queue(c, e)
  BY <1>1, <1>5, Zenon DEF NoProfile, Queue
<1> QED
  BY <1>2, <1>3, <1>4, <1>5, ScanCases, Zenon DEF Found

\* A step changes the strands of calls only, and they are in the rope.
LEMMA LimitsStep ==
  ASSUME IInv, Few, Alone, [Next]_vars PROVE Few' /\ Alone'
<1>0. /\ strand \in [Strands -> StrandType]
      /\ on \in [Callers -> Strands \cup {None}]
      /\ None \notin Strands
      /\ \A t \in Strands : Sound(strand[t])
  BY StrandsAssumption, AllSound DEF IInv, RopeTypes, CallTypes
<1>1. ASSUME UNCHANGED <<on, oneCall>> PROVE Alone'
  BY <1>1 DEF Alone
<1>2. ASSUME UNCHANGED strand PROVE Few'
  BY <1>2 DEF Few, InRope
<1>3. ASSUME NEW s \in Strands, Roped(s),
             \A t \in Strands : t # s => strand'[t] = strand[t]
      PROVE  Few'
  BY <1>3, FewKept DEF Roped
<1>4. ASSUME NEW c \in Callers, Step(c) PROVE Few' /\ Alone'
  <2>1. CASE Invoke(c) \/ AcquireFilter(c) \/ BeginRequest(c) \/ SendRequest(c)
             \/ ResetAddresses(c) \/ MarshalFails(c) \/ QueueTimeout(c)
             \/ WakeByItself(c) \/ Execute(c)
    <3>1. UNCHANGED <<strand, on, oneCall>>
      BY <2>1, Zenon DEF Invoke, AcquireFilter, BeginRequest, SendRequest, ResetAddresses,
         MarshalFails, QueueTimeout, WakeByItself, Execute, UnchangedByIO, callVars, ropeVars
    <3> QED
      BY <1>1, <1>2, <3>1
  <2>2. CASE \E e : Found(c, e)
    BY <2>2, ScanLimits
  <2>3. CASE Connect(c) \/ ReceiveReply(c) \/ Broken(c) \/ MarkDying(c) \/ Release(c)
    <3>1. pc[c] \in OnStrand
      BY <2>3, BrokenOnStrand DEF Connect, ReceiveReply, MarkDying, Release, OnStrand
    <3>2. on[c] \in Strands /\ Roped(on[c])
      BY <3>1, HeldStrand DEF Roped
    <3>3. CASE Connect(c)
      <4>1. /\ UNCHANGED <<on, oneCall>>
            /\ \A t \in Strands : t # on[c] => strand'[t] = strand[t]
        BY <1>0, <3>2, <3>3 DEF Connect, UnchangedByIO, ropeVars
      <4> QED
        BY <1>1, <1>3, <3>2, <4>1
    <3>4. CASE ReceiveReply(c)
      <4>1. /\ UNCHANGED <<on, oneCall>>
            /\ \A t \in Strands : t # on[c] => strand'[t] = strand[t]
        BY <1>0, <3>2, <3>4 DEF ReceiveReply, UnchangedByIO, ropeVars
      <4> QED
        BY <1>1, <1>3, <3>2, <4>1
    <3>5. CASE MarkDying(c)
      <4>1. /\ UNCHANGED <<on, oneCall>>
            /\ \A t \in Strands : t # on[c] => strand'[t] = strand[t]
        BY <1>0, <3>2, <3>5 DEF MarkDying, callVars, ropeVars
      <4> QED
        BY <1>1, <1>3, <3>2, <4>1
    <3>6. CASE Broken(c)
      <4>1. PICK closed, retry, completion : Failure(c, closed, retry, completion)
        BY <3>1, <3>6, FailureCases, HeldStrand
      <4>2. /\ UNCHANGED <<on, oneCall>>
            /\ strand' = [strand EXCEPT ![on[c]].orderly_closed = closed]
        BY <4>1, FailureEffect
      <4>3. \A t \in Strands : t # on[c] => strand'[t] = strand[t]
        BY <1>0, <4>2
      <4> QED
        BY <1>1, <1>3, <3>2, <4>2, <4>3
    <3>7. CASE Release(c)
      <4>1. ReleaseDying(c) \/ ReleaseLast(c) \/ ReleaseShared(c)
        BY <3>7, Zenon DEF Release
      <4>2. \A t \in Strands : t # on[c] => strand'[t] = strand[t]
        BY <1>0, <4>1 DEF ReleaseDying, ReleaseLast, ReleaseShared
      <4>3. /\ on' = [on EXCEPT ![c] = None]
            /\ UNCHANGED oneCall
        BY <3>7 DEF Release, ropeVars
      <4>4. Alone'
        BY <1>0, <4>3 DEF Alone
      <4> QED
        BY <1>3, <3>2, <4>2, <4>4
    <3> QED
      BY <2>3, <3>3, <3>4, <3>5, <3>6, <3>7
  <2> QED
    BY <1>4, <2>1, <2>2, <2>3, Zenon DEF Step
<1>5. ASSUME NEW s \in Strands, NEW how \in {"closing", "broken"}, Lose(s, how)
      PROVE  Few' /\ Alone'
  <2>1. UNCHANGED <<on, oneCall>>
    BY <1>5, Zenon DEF Lose, UnchangedByIO, ropeVars
  <2>2. strand' = [strand EXCEPT ![s] = [@ EXCEPT !.connection = how]]
    BY <1>5 DEF Lose
  <2> DEFINE q == [strand[s] EXCEPT !.connection = how]
  <2>3. q.state = strand[s].state
    <3> HIDE DEF q
    <3>1. q = [strand[s] EXCEPT !.connection = how]
      BY DEF q
    <3> QED
      BY <1>0, <3>1, ConnectionSound
  <2>4. strand' = [strand EXCEPT ![s] = q]
    BY <2>2
  <2> HIDE DEF q
  <2>5. Few'
    BY <1>0, <2>3, <2>4, FewKept DEF Roped
  <2> QED
    BY <1>1, <2>1, <2>5
<1>6. ASSUME NEW s \in Strands, CloseIdle(s) PROVE Few' /\ Alone'
  <2>1. /\ UNCHANGED <<on, oneCall>>
        /\ strand' = [strand EXCEPT ![s] = NoStrand]
    BY <1>6, Zenon DEF CloseIdle, callVars, ropeVars
  <2>2. Few'
    BY <1>0, <2>1, NoStrandSound, FewKept DEF Roped
  <2> QED
    BY <1>1, <2>1, <2>2
<1>7. CASE RemoveIdle
  <2>1. /\ UNCHANGED <<on, oneCall>>
        /\ \A t \in Strands : t \notin Counting => strand'[t] = strand[t]
    BY <1>7 DEF RemoveIdle, callVars, ropeVars
  <2>2. \A t \in Counting : Roped(t)
    BY DEF Counting, InRope, Roped
  <2>3. Few'
    BY <2>1, <2>2, FewKept DEF Roped
  <2> QED
    BY <1>1, <2>1, <2>3
<1>8. CASE Disconnect
  <2>1. /\ UNCHANGED <<on, oneCall>>
        /\ \A t \in Strands : strand[t].state # "ACTIVE" => strand'[t] = strand[t]
    BY <1>8 DEF Disconnect, callVars, ropeVars
  <2>2. Few'
    BY <2>1, FewKept DEF Roped
  <2> QED
    BY <1>1, <2>1, <2>2
<1>9. CASE ResetIdleRope \/ UNCHANGED vars
  <2>1. UNCHANGED <<strand, on, oneCall>>
    BY <1>9, Zenon DEF ResetIdleRope, vars, callVars, ropeVars
  <2> QED
    BY <1>1, <1>2, <2>1
<1> QED
  BY <1>4, <1>5, <1>6, <1>7, <1>8, <1>9, StepCases, Zenon

\* acquireClient() makes no strand beyond pd_maxStrands, the dying ones
\* included, and with pd_oneCallPerConnection puts no second call on one.
THEOREM LimitsHold == Spec => []LimitsKept
<1>1. Init => IInv /\ Few /\ Alone
  <2>1. ASSUME Init PROVE Few /\ Alone
    <3>1. InRope = {}
      BY <2>1, NoStrandSound DEF Init, InRope
    <3>2. Few
      BY <3>1, FS_EmptySet, ParametersAssumption DEF Few
    <3>3. Alone
      BY <2>1 DEF Init, Alone
    <3> QED
      BY <3>2, <3>3
  <2> QED
    BY <2>1, InitIInv
<1>2. (IInv /\ Few /\ Alone) /\ [Next]_vars => (IInv /\ Few /\ Alone)'
  BY NextIInv, LimitsStep
<1>3. Few /\ Alone => LimitsKept
  BY Zenon DEF Few, Alone, LimitsKept
<1> QED
  BY <1>1, <1>2, <1>3, PTL DEF Spec

-----------------------------------------------------------------------------
(* Connections that are lost stay lost for the calls on them.                *)

Lost(s) == strand[s].connection \in {"closing", "broken"}
ClosedLost == \A s \in Strands : strand[s].orderly_closed => Lost(s)

\* A strand whose closure was noted is lost, and who is on a lost strand stays
\* on one.
StayLost ==
  /\ ClosedLost'
  /\ \A c \in Callers : on[c] # None /\ on'[c] = on[c] /\ Lost(on[c]) => Lost(on[c])'

LEMMA StayLostChange ==
  ASSUME IInv, ClosedLost, NEW s \in Strands, NEW q,
         strand' = [strand EXCEPT ![s] = q],
         q.orderly_closed => q.connection \in {"closing", "broken"},
         \/ Lost(s) => q.connection \in {"closing", "broken"}
         \/ \A c \in Callers : on[c] = s => on'[c] # s
  PROVE  StayLost
<1>1. /\ strand \in [Strands -> StrandType]
      /\ on \in [Callers -> Strands \cup {None}]
  BY DEF IInv, RopeTypes, CallTypes
<1>2. \A t \in Strands : strand'[t] = IF t = s THEN q ELSE strand[t]
  BY <1>1
<1>3. ClosedLost'
  BY <1>2 DEF ClosedLost, Lost
<1>4. ASSUME NEW c \in Callers, on[c] # None, on'[c] = on[c], Lost(on[c])
      PROVE  Lost(on[c])'
  <2>1. on[c] \in Strands
    BY <1>1, <1>4
  <2>2. strand'[on'[c]].connection \in {"closing", "broken"}
    BY <1>2, <1>4, <2>1 DEF Lost
  <2> QED
    BY <2>2 DEF Lost
<1> QED
  BY <1>3, <1>4 DEF StayLost

\* What the failures know of the request: it cannot be executed any more.
Unsent(c) ==
  /\ req[c] # "done"
  /\ req[c] = "sent" => Lost(on[c])

\* A request is where its call is.
InPlace(c) ==
  /\ pc[c] \notin OnStrand => req[c] = "none"
  /\ pc[c] = "acquired" => req[c] = "none"
  /\ pc[c] = "sending" => req[c] = "writing"
  /\ pc[c] = "waiting" => req[c] \in {"sent", "done"}
  /\ pc[c] = "completed" => req[c] = "done"

LEMMA BrokenUnsent ==
  ASSUME IInv, ClosedLost, NEW c \in Callers, InPlace(c), Broken(c)
  PROVE  \E closed, retry, completion :
           /\ Failure(c, closed, retry, completion)
           /\ closed => Lost(on[c])
           /\ completion = "no" => Unsent(c)
<1> DEFINE s == on[c]
           was == strand[s].orderly_closed
<1>0. /\ s \in Strands /\ was \in BOOLEAN
      /\ was => Lost(s)
  BY BrokenOnStrand, HeldStrand DEF ClosedLost
<1>1. CASE ConnectFails(c)
  <2>1. Failure(c, was, TRUE, "no") /\ req[c] = "writing"
    BY <1>0, <1>1, Zenon DEF ConnectFails, Failure, InPlace
  <2>2. Unsent(c)
    BY <2>1 DEF Unsent
  <2> QED
    BY <1>0, <2>1, <2>2, Zenon
<1>2. CASE SendFails(c)
  <2>1. Failure(c, was, TRUE, "no") /\ req[c] = "writing"
    BY <1>0, <1>2, Zenon DEF SendFails, Failure, InPlace
  <2>2. Unsent(c)
    BY <2>1 DEF Unsent
  <2> QED
    BY <1>0, <2>1, <2>2, Zenon
<1>3. CASE ReadClose(c)
  <2>1. Failure(c, TRUE, TRUE, "no") /\ req[c] = "sent" /\ strand[s].connection = "closing"
    BY <1>3, Zenon DEF ReadClose, Failure
  <2>2. Lost(s)
    BY <2>1 DEF Lost
  <2>3. Unsent(c)
    BY <2>1, <2>2 DEF Unsent
  <2> QED
    BY <2>1, <2>2, <2>3, Zenon
<1>4. CASE ReceiveFails(c)
  <2>1. Failure(c, was, TRUE, "maybe")
    BY <1>0, <1>4, Zenon DEF ReceiveFails, Failure
  <2>2. ("maybe" = "no") => Unsent(c)
    OBVIOUS
  <2> QED
    BY <1>0, <2>1, <2>2, Zenon
<1>5. CASE ReceiveDying(c)
  <2> DEFINE end == IF was THEN "no" ELSE "maybe"
  <2>1. end \in {"no", "maybe"} /\ (end = "no" => was)
    OBVIOUS
  <2>2. Failure(c, was, TRUE, end) /\ (was => req[c] = "sent")
    BY <1>0, <1>5, <2>1, Zenon DEF ReceiveDying, Failure
  <2>3. was => Unsent(c)
    BY <1>0, <2>2 DEF Unsent
  <2> QED
    BY <1>0, <2>1, <2>2, <2>3, Zenon
<1>6. CASE CallTimeout(c)
  <2> DEFINE end == IF pc[c] = "waiting" THEN "maybe" ELSE "no"
  <2>1. end \in {"no", "maybe"} /\ (end = "no" => pc[c] # "waiting")
    OBVIOUS
  <2>2. Failure(c, was, FALSE, end) /\ pc[c] \in {"acquired", "sending", "waiting"}
    BY <1>0, <1>6, <2>1, Zenon DEF CallTimeout, Failure
  <2>3. pc[c] # "waiting" => Unsent(c)
    BY <2>2 DEF Unsent, InPlace
  <2> QED
    BY <1>0, <2>1, <2>2, <2>3, Zenon
<1> QED
  BY <1>1, <1>2, <1>3, <1>4, <1>5, <1>6, Zenon DEF Broken

LEMMA LostStep ==
  ASSUME IInv, ClosedLost, \A c \in Callers : InPlace(c), [Next]_vars
  PROVE  StayLost
<1>0. /\ strand \in [Strands -> StrandType]
      /\ on \in [Callers -> Strands \cup {None}]
      /\ None \notin Strands
      /\ \A t \in Strands : Sound(strand[t])
  BY StrandsAssumption, AllSound DEF IInv, RopeTypes, CallTypes
<1>1. ASSUME UNCHANGED strand PROVE StayLost
  BY <1>1 DEF StayLost, ClosedLost, Lost
<1>2. ASSUME NEW c \in Callers, Step(c) PROVE StayLost
  <2> DEFINE s == on[c]
  <2>0. ASSUME pc[c] \in OnStrand
        PROVE  /\ s \in Strands /\ s # None /\ Sound(strand[s]) /\ strand[s].state # "free"
               /\ strand[s].orderly_closed => Lost(s)
    BY <1>0, <2>0, HeldStrand DEF ClosedLost
  <2>1. CASE Invoke(c) \/ AcquireFilter(c) \/ BeginRequest(c) \/ SendRequest(c)
             \/ ResetAddresses(c) \/ MarshalFails(c) \/ QueueTimeout(c)
             \/ WakeByItself(c) \/ Execute(c)
    <3>1. UNCHANGED strand
      BY <2>1, Zenon DEF Invoke, AcquireFilter, BeginRequest, SendRequest, ResetAddresses,
         MarshalFails, QueueTimeout, WakeByItself, Execute, UnchangedByIO
    <3> QED
      BY <1>1, <3>1
  <2>2. CASE \E e : Found(c, e)
    <3>1. PICK e : Found(c, e)
      BY <2>2
    <3>2. CASE TakeUnused(c, e)
      <4>1. PICK t \in Unused :
              strand' = [strand EXCEPT ![t].cached = FALSE, ![t].idlebeats = 0]
        BY <3>2 DEF TakeUnused
      <4> DEFINE q == [strand[t] EXCEPT !.cached = FALSE, !.idlebeats = 0]
      <4>2. t \in Strands
        BY DEF Unused, Active
      <4>3. /\ q.connection = strand[t].connection
            /\ q.orderly_closed = strand[t].orderly_closed
        <5> HIDE DEF q
        <5>1. q = [strand[t] EXCEPT !.cached = FALSE, !.idlebeats = 0]
          BY DEF q
        <5> QED
          BY <1>0, <4>2, <5>1, TakenSound
      <4>4. strand' = [strand EXCEPT ![t] = q]
        BY <1>0, <4>1, <4>2
      <4> HIDE DEF q
      <4> QED
        BY <4>2, <4>3, <4>4, StayLostChange DEF ClosedLost, Lost
    <3>3. CASE NewStrand(c, e)
      <4> DEFINE t == CHOOSE t \in Strands : strand[t].state = "free"
                 a == e.order[inUse]
                 q == [NoStrand EXCEPT !.state = "ACTIVE", !.address = a]
      <4>1. /\ \E f \in Strands : strand[f].state = "free"
            /\ strand' = [strand EXCEPT ![t] = q]
        BY <3>3, Zenon DEF NewStrand
      <4>2. t \in Strands /\ strand[t].state = "free"
        BY <4>1, Zenon
      <4>3. q.orderly_closed = FALSE
        BY DEF NoStrand
      <4> HIDE DEF t, q
      <4>4. \A d \in Callers : on[d] # t
        BY <1>0, <4>2 DEF IInv, CallKeepsStrand
      <4> QED
        BY <4>1, <4>2, <4>3, <4>4, StayLostChange
    <3>4. CASE Share(c, e) \/ NoProfile(c, e) \/ Queue(c, e)
      <4>1. UNCHANGED strand
        BY <3>4, Zenon DEF Share, NoProfile, Queue
      <4> QED
        BY <1>1, <4>1
    <3> QED
      BY <3>1, <3>2, <3>3, <3>4, ScanCases, Zenon DEF Found
  <2>3. CASE Connect(c)
    <3> DEFINE q == [strand[s] EXCEPT !.connection = "open"]
    <3>1. /\ pc[c] \in OnStrand /\ strand[s].connection = "none"
          /\ strand' = [strand EXCEPT ![s] = q]
      BY <2>3 DEF Connect, OnStrand
    <3>2. q.orderly_closed = strand[s].orderly_closed
      <4> HIDE DEF q
      <4>1. q = [strand[s] EXCEPT !.connection = "open"]
        BY DEF q
      <4> QED
        BY <2>0, <3>1, <4>1, ConnectionSound
    <3>3. ~Lost(s)
      BY <3>1 DEF Lost
    <3> HIDE DEF q
    <3> QED
      BY <2>0, <3>1, <3>2, <3>3, StayLostChange
  <2>4. CASE ReceiveReply(c)
    <3> DEFINE q == [strand[s] EXCEPT !.first_use = FALSE]
    <3>1. /\ pc[c] \in OnStrand
          /\ strand' = [strand EXCEPT ![s] = q]
      BY <2>4 DEF ReceiveReply, OnStrand
    <3>2. /\ q.orderly_closed = strand[s].orderly_closed
          /\ q.connection = strand[s].connection
      <4> HIDE DEF q
      <4>1. q = [strand[s] EXCEPT !.first_use = FALSE]
        BY DEF q
      <4> QED
        BY <2>0, <3>1, <4>1, UsedSound
    <3> HIDE DEF q
    <3> QED
      BY <2>0, <3>1, <3>2, StayLostChange DEF Lost
  <2>5. CASE Broken(c)
    <3>1. pc[c] \in OnStrand
      BY <2>5, BrokenOnStrand
    <3>2. PICK closed, retry, completion :
            /\ Failure(c, closed, retry, completion)
            /\ closed => Lost(s)
      BY <2>5, BrokenUnsent
    <3> DEFINE q == [strand[s] EXCEPT !.orderly_closed = closed]
    <3>3. strand' = [strand EXCEPT ![s] = q]
      BY <3>2, FailureEffect
    <3>4. q.orderly_closed = closed /\ q.connection = strand[s].connection
      <4> HIDE DEF q
      <4>1. q = [strand[s] EXCEPT !.orderly_closed = closed] /\ closed \in BOOLEAN
        BY <3>2 DEF q, Failure
      <4> QED
        BY <2>0, <3>1, <4>1, ClosedSound
    <3> HIDE DEF q
    <3> QED
      BY <2>0, <3>1, <3>2, <3>3, <3>4, StayLostChange DEF Lost
  <2>6. CASE MarkDying(c)
    <3> DEFINE q == [strand[s] EXCEPT !.state = "DYING"]
    <3>1. /\ pc[c] \in OnStrand
          /\ strand' = [strand EXCEPT ![s] = q]
      BY <2>6 DEF MarkDying, OnStrand
    <3>2. /\ q.orderly_closed = strand[s].orderly_closed
          /\ q.connection = strand[s].connection
      <4> HIDE DEF q
      <4>1. q = [strand[s] EXCEPT !.state = "DYING"]
        BY DEF q
      <4> QED
        BY <2>0, <3>1, <4>1, StateSound
    <3> HIDE DEF q
    <3> QED
      BY <2>0, <3>1, <3>2, StayLostChange DEF Lost
  <2>7. CASE Release(c)
    <3>0. pc[c] \in OnStrand /\ on' = [on EXCEPT ![c] = None]
      BY <2>7 DEF Release, OnStrand
    <3>1. CASE ReleaseDying(c)
      <4>1. CASE Users(s) = {c}
        <5>1. strand' = [strand EXCEPT ![s] = NoStrand]
          BY <3>1, <4>1 DEF ReleaseDying
        <5>2. \A d \in Callers : on[d] = s => on'[d] # s
          <6>1. \A d \in Callers : on[d] = s => d = c
            BY <4>1 DEF Users
          <6> QED
            BY <1>0, <2>0, <3>0, <6>1
        <5> QED
          BY <2>0, <3>0, <5>1, <5>2, NoStrandSound, StayLostChange
      <4>2. CASE Users(s) # {c}
        <5> DEFINE q == [strand[s] EXCEPT !.state = "DYING"]
        <5>1. strand' = [strand EXCEPT ![s] = q]
          BY <3>1, <4>2 DEF ReleaseDying
        <5>2. /\ q.orderly_closed = strand[s].orderly_closed
              /\ q.connection = strand[s].connection
          <6> HIDE DEF q
          <6>1. q = [strand[s] EXCEPT !.state = "DYING"]
            BY DEF q
          <6> QED
            BY <2>0, <3>0, <6>1, StateSound
        <5> HIDE DEF q
        <5> QED
          BY <2>0, <3>0, <5>1, <5>2, StayLostChange DEF Lost
      <4> QED
        BY <4>1, <4>2
    <3>2. CASE ReleaseLast(c)
      <4> DEFINE q == [strand[s] EXCEPT !.cached = TRUE, !.idlebeats = Beats]
      <4>1. strand' = [strand EXCEPT ![s] = q]
        BY <1>0, <2>0, <3>0, <3>2 DEF ReleaseLast
      <4>2. /\ q.orderly_closed = strand[s].orderly_closed
            /\ q.connection = strand[s].connection
        <5> HIDE DEF q
        <5>1. q = [strand[s] EXCEPT !.cached = TRUE, !.idlebeats = Beats]
          BY DEF q
        <5> QED
          BY <2>0, <3>0, <5>1, CachedSound
      <4> HIDE DEF q
      <4> QED
        BY <2>0, <3>0, <4>1, <4>2, StayLostChange DEF Lost
    <3>3. CASE ReleaseShared(c)
      BY <1>1, <3>3, Zenon DEF ReleaseShared
    <3> QED
      BY <2>7, <3>1, <3>2, <3>3, Zenon DEF Release
  <2> QED
    BY <1>2, <2>1, <2>2, <2>3, <2>4, <2>5, <2>6, <2>7, Zenon DEF Step
<1>3. ASSUME NEW s \in Strands, NEW how \in {"closing", "broken"}, Lose(s, how)
      PROVE  StayLost
  <2> DEFINE q == [strand[s] EXCEPT !.connection = how]
  <2>1. strand' = [strand EXCEPT ![s] = q]
    BY <1>3 DEF Lose
  <2>2. q.connection = how
    <3> HIDE DEF q
    <3>1. q = [strand[s] EXCEPT !.connection = how]
      BY DEF q
    <3> QED
      BY <1>0, <3>1, ConnectionSound
  <2> HIDE DEF q
  <2> QED
    BY <2>1, <2>2, StayLostChange
<1>4. ASSUME NEW s \in Strands, CloseIdle(s) PROVE StayLost
  <2>1. strand' = [strand EXCEPT ![s] = NoStrand]
    BY <1>4 DEF CloseIdle
  <2>2. \A d \in Callers : on[d] # s
    BY <1>0, <1>4 DEF CloseIdle, Scavenged, IInv, CallKeepsStrand
  <2> QED
    BY <2>1, <2>2, NoStrandSound, StayLostChange
<1>5. ASSUME UNCHANGED on,
             \A t \in Strands : /\ strand'[t].orderly_closed = strand[t].orderly_closed
                                /\ Lost(t) => strand'[t].connection \in {"closing", "broken"}
      PROVE  StayLost
  BY <1>0, <1>5 DEF StayLost, ClosedLost, Lost
<1>6. CASE RemoveIdle
  <2>1. UNCHANGED on /\ \A t \in Strands : t \notin Counting => strand'[t] = strand[t]
    BY <1>6 DEF RemoveIdle, callVars
  <2>2. ASSUME NEW t \in Counting
        PROVE  /\ strand'[t].orderly_closed = strand[t].orderly_closed
               /\ strand'[t].connection = strand[t].connection
    <3> DEFINE st == IF t \in Expiring THEN "scavenged" ELSE strand[t].state
    <3>1. t \in Strands /\ strand[t].state # "free" /\ strand[t].idlebeats > 0
      BY DEF Counting, InRope
    <3>2. strand'[t] = [strand[t] EXCEPT !.idlebeats = @ - 1, !.state = st]
      BY <1>6, <3>1 DEF RemoveIdle
    <3>3. st \in {strand[t].state, "scavenged"}
      OBVIOUS
    <3> DEFINE r == strand[t]
               q == strand'[t]
    <3>4. /\ Sound(r) /\ r.state # "free" /\ r.idlebeats > 0
          /\ st \in {r.state, "scavenged"}
          /\ q = [r EXCEPT !.idlebeats = @ - 1, !.state = st]
      BY <1>0, <3>1, <3>2, <3>3
    <3> HIDE DEF st, r, q
    <3>5. q.orderly_closed = r.orderly_closed /\ q.connection = r.connection
      BY <3>4, CountSound
    <3> QED
      BY <3>5 DEF q, r
  <2> QED
    BY <1>5, <2>1, <2>2 DEF Lost
<1>7. CASE Disconnect
  <2> DEFINE Cut(t) == strand[t].state = "ACTIVE" /\ strand[t].connection # "none"
  <2>1. /\ UNCHANGED on
        /\ strand' = [t \in Strands |->
             IF Cut(t) THEN [strand[t] EXCEPT !.state = "DYING", !.connection = "broken"]
             ELSE strand[t]]
    BY <1>7 DEF Disconnect, callVars
  <2>2. ASSUME NEW t \in Strands
        PROVE  /\ strand'[t].orderly_closed = strand[t].orderly_closed
               /\ Lost(t) => strand'[t].connection \in {"closing", "broken"}
    <3>1. CASE Cut(t)
      <4> DEFINE r == [strand[t] EXCEPT !.state = "DYING"]
      <4>1. Sound(r) /\ r.orderly_closed = strand[t].orderly_closed
        <5> HIDE DEF r
        <5>1. r = [strand[t] EXCEPT !.state = "DYING"] /\ strand[t].state # "free"
          BY <3>1 DEF r
        <5> QED
          BY <1>0, <5>1, StateSound
      <4>2. strand'[t] = [r EXCEPT !.connection = "broken"]
        BY <2>1, <3>1
      <4> HIDE DEF r
      <4> QED
        BY <4>1, <4>2, ConnectionSound
    <3>2. CASE ~Cut(t)
      BY <1>0, <2>1, <3>2 DEF Lost
    <3> QED
      BY <3>1, <3>2
  <2> HIDE DEF Cut
  <2> QED
    BY <1>5, <2>1, <2>2
<1>8. CASE ResetIdleRope \/ UNCHANGED vars
  BY <1>1, <1>8, Zenon DEF ResetIdleRope, vars
<1> QED
  BY <1>2, <1>3, <1>4, <1>6, <1>7, <1>8, StepCases, Zenon

-----------------------------------------------------------------------------
(* A call is executed at most once and ends as it was executed.              *)

Underway == {"acquire", "filter", "filtering", "queue", "woken", "acquired",
             "sending", "waiting"}

\* What becomes of a call agrees with where its request is.
Answer(c) ==
  /\ InPlace(c)
  /\ pc[c] = "out" => result[c] \in {"none", "noprofile"}
  /\ pc[c] \in Underway => result[c] = "none"
  /\ pc[c] = "completed" => result[c] = "ok"
  /\ pc[c] \in {"exhausted", "failing", "failed"} => result[c] \in {"retry", "no", "maybe"}
  /\ executed[c] = IF req[c] = "done" THEN 1 ELSE 0
  /\ result[c] \in {"no", "retry"} => Unsent(c)

\* The phase of RemoteCall.
Phase(c) ==
  IF pc[c] = "out" THEN "out" ELSE IF result[c] \in Ends THEN result[c] ELSE "in"

\* Nothing happens to the call of d, whoever wakes it.
Still(d) ==
  /\ Stays(pc[d], pc'[d])
  /\ on'[d] = on[d] /\ req'[d] = req[d] /\ result'[d] = result[d]
  /\ executed'[d] = executed[d]

LEMMA StillAnswers ==
  ASSUME IInv, NEW d \in Callers, Answer(d), StayLost, Still(d)
  PROVE  Answer(d)' /\ Phase(d)' = Phase(d)
<1>1. pc'[d] = pc[d] \/ (pc[d] \in Underway /\ pc'[d] \in Underway
                          /\ pc[d] \notin OnStrand /\ pc'[d] \notin OnStrand
                          /\ pc'[d] \notin {"acquired", "sending", "waiting"})
  BY DEF Still, Stays, Underway, OnStrand
<1>2. Unsent(d) => Unsent(d)'
  <2>1. req[d] = "sent" => on[d] # None
    BY DEF Answer, InPlace, IInv, Held
  <2> QED
    BY <2>1 DEF Unsent, Still, StayLost
<1>3. InPlace(d)'
  BY <1>1 DEF Answer, InPlace, Still, OnStrand, Underway
<1>4. /\ pc'[d] = "out" => result'[d] \in {"none", "noprofile"}
      /\ pc'[d] \in Underway => result'[d] = "none"
      /\ pc'[d] = "completed" => result'[d] = "ok"
      /\ pc'[d] \in {"exhausted", "failing", "failed"} => result'[d] \in {"retry", "no", "maybe"}
  BY <1>1 DEF Answer, Still, Underway
<1>5. executed'[d] = IF req'[d] = "done" THEN 1 ELSE 0
  BY DEF Answer, Still
<1>6. result'[d] \in {"no", "retry"} => Unsent(d)'
  BY <1>2 DEF Answer, Still
<1>7. Phase(d)' = Phase(d)
  BY <1>1 DEF Phase, Still, Underway
<1> QED
  BY <1>3, <1>4, <1>5, <1>6, <1>7 DEF Answer

\* What a step may do to the call of c, seen from RemoteCall.
Serves(c) ==
  \/ /\ Phase(c)' = Phase(c) /\ executed'[c] = executed[c]
  \/ /\ Phase(c) = "out" /\ Phase(c)' = "in" /\ executed'[c] = executed[c]
  \/ /\ Phase(c) \in {"in", "maybe"} /\ Phase(c)' = Phase(c)
     /\ executed[c] = 0 /\ executed'[c] = 1
  \/ /\ Phase(c) = "in" /\ executed'[c] = executed[c]
     /\ \/ executed[c] = 1 /\ Phase(c)' = "ok"
        \/ executed[c] = 0 /\ Phase(c)' = "no"
        \/ Phase(c)' = "maybe"
  \/ /\ Phase(c) \in Ends \/ (Phase(c) = "in" /\ executed[c] = 0)
     /\ Phase(c)' = "out" /\ executed'[c] = 0

Alters(c) ==
  /\ Answer(c)' /\ Serves(c)
  /\ \A d \in Callers : d # c => Still(d)

\* The steps of a caller that leave its call where it is.
LEMMA GoesOn ==
  ASSUME IInv, NEW c \in Callers, Answer(c), StayLost,
         NEW place, Moves(c, place),
         UNCHANGED <<on, req, result, executed>>,
         \/ pc[c] \in Underway /\ place \in Underway
            /\ pc[c] \notin OnStrand /\ place \notin OnStrand
         \/ pc[c] \in {"exhausted", "failing"} /\ place \in {"failing", "failed"}
         \/ pc[c] = "sending" /\ place = "sending"
  PROVE  Alters(c)
<1>1. \A d \in Callers : d # c => Still(d)
  BY DEF Moves, Still
<1>2. pc'[c] = place
  BY DEF Moves
<1>3. Unsent(c) => Unsent(c)'
  <2>1. req[c] = "sent" => on[c] # None
    BY DEF Answer, InPlace, IInv, Held
  <2> QED
    BY <2>1 DEF Unsent, StayLost
<1>4. InPlace(c)'
  BY <1>2 DEF Answer, InPlace, OnStrand, Underway
<1>5. Answer(c)'
  BY <1>2, <1>3, <1>4 DEF Answer, Underway
<1>6. Serves(c)
  BY <1>2 DEF Serves, Phase, Underway
<1> QED
  BY <1>1, <1>5, <1>6 DEF Alters

LEMMA UnsentStays ==
  ASSUME IInv, NEW c \in Callers, Answer(c), StayLost, Unsent(c),
         on'[c] = on[c], req'[c] = req[c]
  PROVE  Unsent(c)'
<1>1. req[c] = "sent" => on[c] # None
  BY DEF Answer, InPlace, IInv, Held
<1> QED
  BY <1>1 DEF Unsent, StayLost

LEMMA StepAlters ==
  ASSUME IInv, NEW c \in Callers, \A d \in Callers : Answer(d),
         ClosedLost, StayLost, Step(c)
  PROVE  Alters(c)
<1> USE DEF IInv, CallTypes
<1>0. Answer(c)
  OBVIOUS
<1>1. ASSUME NEW place \in Places, pc' = [pc EXCEPT ![c] = place] PROVE Moves(c, place)
  BY <1>1 DEF Moves, Stays
<1>2. {"acquire", "filter", "filtering", "queue", "woken", "acquired", "sending",
       "waiting", "completed", "failing", "failed", "exhausted", "out"} \subseteq Places
  BY DEF Places
<1>3. CASE Invoke(c)
  <2>1. /\ pc[c] = "out" /\ pc' = [pc EXCEPT ![c] = "acquire"]
        /\ result' = [result EXCEPT ![c] = "none"]
        /\ UNCHANGED <<on, req, executed>>
    BY <1>3 DEF Invoke
  <2>2. \A d \in Callers : d # c => Still(d)
    BY <2>1 DEF Still, Stays
  <2>3. pc'[c] = "acquire" /\ result'[c] = "none"
    BY <2>1
  <2>4. Answer(c)'
    BY <1>0, <2>1, <2>3 DEF Answer, InPlace, OnStrand, Underway
  <2>5. Serves(c)
    BY <2>1, <2>3 DEF Serves, Phase, Ends
  <2> QED
    BY <2>2, <2>4, <2>5 DEF Alters
<1>4. CASE AcquireFilter(c)
  <2>1. /\ pc[c] = "acquire"
        /\ \E place \in {"filter", "filtering"} : pc' = [pc EXCEPT ![c] = place]
        /\ UNCHANGED <<on, req, result, executed>>
    BY <1>4 DEF AcquireFilter, callVars
  <2> QED
    BY <1>0, <1>1, <1>2, <2>1, GoesOn DEF Underway, OnStrand
<1>5. CASE \E e : Found(c, e)
  <2>1. PICK e : Found(c, e)
    BY <1>5
  <2>2. /\ pc[c] \in {"acquire", "filtering", "woken"}
        /\ req[c] = "none" /\ result[c] = "none" /\ executed[c] = 0
    BY <1>0, <2>1, FoundEntry DEF Placed, Answer, InPlace, OnStrand, Underway
  <2>3. CASE Moves(c, "acquired") /\ (\E s \in Strands : on' = [on EXCEPT ![c] = s])
             /\ UNCHANGED <<req, result, first, current, executed>>
    <3>1. \A d \in Callers : d # c => Still(d)
      BY <2>3 DEF Moves, Still
    <3>2. pc'[c] = "acquired"
      BY <2>3 DEF Moves
    <3>3. Answer(c)'
      BY <1>0, <2>2, <2>3, <3>2 DEF Answer, InPlace, OnStrand, Underway
    <3>4. Serves(c)
      BY <2>2, <2>3, <3>2 DEF Serves, Phase
    <3> QED
      BY <3>1, <3>3, <3>4 DEF Alters
  <2>4. CASE /\ Moves(c, "out") /\ EndCall(c)
             /\ result' = [result EXCEPT ![c] = "noprofile"]
             /\ UNCHANGED <<on, req>>
    <3>1. \A d \in Callers : d # c => Still(d)
      BY <2>4 DEF Moves, Still, EndCall
    <3>2. pc'[c] = "out" /\ result'[c] = "noprofile" /\ executed'[c] = 0
      BY <2>4 DEF Moves, EndCall
    <3>3. Answer(c)'
      BY <2>2, <2>4, <3>2 DEF Answer, InPlace, OnStrand, Underway
    <3>4. Serves(c)
      BY <2>2, <3>2 DEF Serves, Phase, Ends
    <3> QED
      BY <3>1, <3>3, <3>4 DEF Alters
  <2>5. CASE Moves(c, "queue") /\ UNCHANGED <<on, req, result, first, current, executed>>
    BY <1>0, <2>2, <2>5, GoesOn DEF Underway, OnStrand
  <2> QED
    BY <2>1, <2>3, <2>4, <2>5, ScanEffect
<1>6. CASE BeginRequest(c) \/ SendRequest(c)
  <2>1. /\ pc[c] \in {"acquired", "sending"}
        /\ \/ pc' = [pc EXCEPT ![c] = "sending"] /\ req' = [req EXCEPT ![c] = "writing"]
           \/ pc' = [pc EXCEPT ![c] = "waiting"] /\ req' = [req EXCEPT ![c] = "sent"]
        /\ UNCHANGED <<on, result, executed>>
    BY <1>6 DEF BeginRequest, SendRequest, UnchangedByIO
  <2>2. \A d \in Callers : d # c => Still(d)
    BY <2>1 DEF Still, Stays
  <2>3. \/ pc'[c] = "sending" /\ req'[c] = "writing"
        \/ pc'[c] = "waiting" /\ req'[c] = "sent"
    BY <2>1
  <2>4. result[c] = "none" /\ executed[c] = 0
    BY <1>0, <2>1 DEF Answer, InPlace, Underway
  <2>5. Answer(c)'
    BY <2>1, <2>3, <2>4 DEF Answer, InPlace, OnStrand, Underway
  <2>6. Serves(c)
    BY <2>1, <2>3, <2>4 DEF Serves, Phase
  <2> QED
    BY <2>2, <2>5, <2>6 DEF Alters
<1>7. CASE Connect(c)
  <2>1. pc[c] = "sending" /\ UNCHANGED <<pc, on, req, result, executed>>
    BY <1>7 DEF Connect, UnchangedByIO
  <2>2. pc' = [pc EXCEPT ![c] = "sending"]
    BY <2>1
  <2> QED
    BY <1>0, <1>1, <1>2, <2>1, <2>2, GoesOn
<1>8. CASE ReceiveReply(c)
  <2>1. /\ pc[c] = "waiting" /\ req[c] = "done"
        /\ pc' = [pc EXCEPT ![c] = "completed"]
        /\ result' = [result EXCEPT ![c] = "ok"]
        /\ UNCHANGED <<on, req, executed>>
    BY <1>8 DEF ReceiveReply, UnchangedByIO
  <2>2. \A d \in Callers : d # c => Still(d)
    BY <2>1 DEF Still, Stays
  <2>3. pc'[c] = "completed" /\ result'[c] = "ok"
    BY <2>1
  <2>4. result[c] = "none" /\ executed[c] = 1
    BY <1>0, <2>1 DEF Answer, Underway
  <2>5. Answer(c)'
    BY <2>1, <2>3, <2>4 DEF Answer, InPlace, OnStrand, Underway
  <2>6. Serves(c)
    BY <2>1, <2>3, <2>4 DEF Serves, Phase, Ends
  <2> QED
    BY <2>2, <2>5, <2>6 DEF Alters
<1>9. CASE Broken(c)
  <2>1. PICK closed, retry, completion :
          /\ Failure(c, closed, retry, completion)
          /\ completion = "no" => Unsent(c)
    BY <1>0, <1>9, BrokenUnsent DEF Answer
  <2>2. /\ pc[c] \in {"acquired", "sending", "waiting"}
        /\ completion \in {"no", "maybe"}
    BY <2>1 DEF Failure
  <2>3. PICK place \in {"failing", "exhausted"} : pc' = [pc EXCEPT ![c] = place]
    BY <2>1, FailureEffect, Zenon
  <2>4. PICK v \in {"no", "maybe", "retry"} :
          /\ result' = [result EXCEPT ![c] = v]
          /\ completion = "maybe" => v = "maybe"
    <3>1. Failure(c, closed, retry, completion)
      BY <2>1, Zenon
    <3> QED
      BY <3>1, FailureEffect
  <2>5. UNCHANGED <<on, req, executed>>
    BY <2>1, FailureEffect, Zenon
  <2>6. \A d \in Callers : d # c => Still(d)
    BY <2>3, <2>4, <2>5 DEF Still, Stays
  <2>7. pc'[c] = place /\ result'[c] = v
    BY <2>3, <2>4
  <2>8. result[c] = "none" /\ executed[c] = IF req[c] = "done" THEN 1 ELSE 0
    BY <1>0, <2>2 DEF Answer, Underway
  <2>9. v # "maybe" => Unsent(c)
    BY <2>1, <2>2, <2>4
  <2>10. v # "maybe" => Unsent(c)'
    BY <1>0, <2>5, <2>9, UnsentStays
  <2>11. InPlace(c)'
    BY <2>3, <2>7 DEF InPlace, OnStrand
  <2>12. Answer(c)'
    BY <2>5, <2>7, <2>8, <2>10, <2>11 DEF Answer, Underway
  <2>13. v # "maybe" => executed[c] = 0
    BY <2>8, <2>9 DEF Unsent
  <2>14. Serves(c)
    BY <2>2, <2>5, <2>7, <2>8, <2>13 DEF Serves, Phase, Ends
  <2> QED
    BY <2>6, <2>12, <2>14 DEF Alters
<1>10. CASE ResetAddresses(c) \/ MarkDying(c)
  <2>1. /\ pc[c] \in {"exhausted", "failing"}
        /\ \E place \in {"failing", "failed"} : pc' = [pc EXCEPT ![c] = place]
    BY <1>10 DEF ResetAddresses, MarkDying
  <2>2. UNCHANGED <<on, req, result, executed>>
    BY <1>10, Zenon DEF ResetAddresses, MarkDying, callVars
  <2> QED
    BY <1>0, <1>1, <1>2, <2>1, <2>2, GoesOn
<1>11. CASE MarshalFails(c)
  <2>1. /\ pc[c] = "sending" /\ pc' = [pc EXCEPT ![c] = "failed"]
        /\ result' = [result EXCEPT ![c] = "no"]
        /\ UNCHANGED <<on, req, executed>>
    BY <1>11 DEF MarshalFails, UnchangedByIO
  <2>2. \A d \in Callers : d # c => Still(d)
    BY <2>1 DEF Still, Stays
  <2>3. pc'[c] = "failed" /\ result'[c] = "no"
    BY <2>1
  <2>4. result[c] = "none" /\ executed[c] = 0 /\ req[c] = "writing"
    BY <1>0, <2>1 DEF Answer, InPlace, Underway
  <2>5. Answer(c)'
    BY <2>1, <2>3, <2>4 DEF Answer, InPlace, OnStrand, Underway, Unsent
  <2>6. Serves(c)
    BY <2>1, <2>3, <2>4 DEF Serves, Phase, Ends
  <2> QED
    BY <2>2, <2>5, <2>6 DEF Alters
<1>12. CASE Release(c)
  <2>1. /\ pc[c] \in {"completed", "failed"}
        /\ IF Again(c) = "out" THEN EndCall(c) ELSE UNCHANGED descriptor
    BY <1>12, Zenon DEF Release
  <2>2. /\ on' = [on EXCEPT ![c] = None]
        /\ req' = [req EXCEPT ![c] = "none"]
        /\ result' = [result EXCEPT ![c] = "none"]
    BY <1>12, ReleaseEffect
  <2>3. result[c] \in Ends \/ result[c] = "retry"
    BY <1>0, <2>1 DEF Answer, Ends
  <2>4. Again(c) = IF result[c] = "retry" THEN "acquire" ELSE "out"
    BY DEF Again
  <2>5. CASE result[c] = "retry"
    <3>1. Moves(c, "acquire")
      <4>1. pc[c] = "failed"
        BY <1>0, <2>1, <2>5 DEF Answer
      <4>2. ReleaseDying(c)
        BY <1>12, <4>1, Zenon DEF Release
      <4>3. pc' \in Signalled(c, "acquire")
        BY <2>4, <2>5, <4>2 DEF ReleaseDying
      <4>4. Placed(pc) /\ c \notin Asleep
        BY <4>1 DEF Placed, Asleep
      <4> QED
        BY <1>2, <4>3, <4>4, SignalledMoves
    <3>2. UNCHANGED executed
      BY <2>1, <2>4, <2>5 DEF descriptor
    <3>3. \A d \in Callers : d # c => Still(d)
      BY <2>2, <3>1, <3>2 DEF Moves, Still
    <3>4. pc'[c] = "acquire" /\ result'[c] = "none" /\ req'[c] = "none"
      BY <2>2, <3>1 DEF Moves
    <3>5. executed[c] = 0
      BY <1>0, <2>5 DEF Answer, Unsent
    <3>6. Answer(c)'
      BY <3>2, <3>4, <3>5 DEF Answer, InPlace, OnStrand, Underway
    <3>7. Serves(c)
      BY <2>1, <2>5, <3>2, <3>4 DEF Serves, Phase, Ends
    <3> QED
      BY <3>3, <3>6, <3>7 DEF Alters
  <2>6. CASE result[c] # "retry"
    <3>1. Moves(c, "out") /\ EndCall(c)
      BY <1>12, <2>1, <2>4, <2>6, ReleaseEffect
    <3>2. \A d \in Callers : d # c => Still(d)
      BY <2>2, <3>1 DEF Moves, Still, EndCall
    <3>3. /\ pc'[c] = "out" /\ result'[c] = "none" /\ req'[c] = "none"
          /\ executed'[c] = 0
      BY <2>2, <3>1 DEF Moves, EndCall
    <3>4. Answer(c)'
      BY <3>3 DEF Answer, InPlace, OnStrand, Underway
    <3>5. Phase(c) \in Ends
      BY <2>1, <2>3, <2>6 DEF Phase
    <3>6. Serves(c)
      BY <3>3, <3>5 DEF Serves, Phase
    <3> QED
      BY <3>2, <3>4, <3>6 DEF Alters
  <2> QED
    BY <2>5, <2>6
<1>13. CASE QueueTimeout(c)
  <2>1. /\ pc[c] = "queue" /\ pc' = [pc EXCEPT ![c] = "out"]
        /\ EndCall(c) /\ UNCHANGED <<on, req, result>>
    BY <1>13 DEF QueueTimeout
  <2>2. \A d \in Callers : d # c => Still(d)
    BY <2>1 DEF Still, Stays, EndCall
  <2>3. pc'[c] = "out" /\ executed'[c] = 0
    BY <2>1 DEF EndCall
  <2>4. req[c] = "none" /\ result[c] = "none" /\ executed[c] = 0
    BY <1>0, <2>1 DEF Answer, InPlace, OnStrand, Underway
  <2>5. Answer(c)'
    BY <2>1, <2>3, <2>4 DEF Answer, InPlace, OnStrand, Underway
  <2>6. Serves(c)
    BY <2>1, <2>3, <2>4 DEF Serves, Phase, Ends
  <2> QED
    BY <2>2, <2>5, <2>6 DEF Alters
<1>14. CASE WakeByItself(c)
  <2>1. /\ pc[c] = "queue" /\ pc' = [pc EXCEPT ![c] = "woken"]
        /\ UNCHANGED <<on, req, result, executed>>
    BY <1>14 DEF WakeByItself, callVars
  <2> QED
    BY <1>0, <1>1, <1>2, <2>1, GoesOn DEF Underway, OnStrand
<1>15. CASE Execute(c)
  <2>1. /\ req[c] = "sent" /\ ~Lost(on[c])
        /\ req' = [req EXCEPT ![c] = "done"]
        /\ executed' = [executed EXCEPT ![c] = @ + 1]
        /\ UNCHANGED <<pc, on, result>>
    BY <1>15 DEF Execute, UnchangedByIO, Lost
  <2>2. \A d \in Callers : d # c => Still(d)
    BY <2>1 DEF Still, Stays
  <2>3. executed[c] = 0 /\ executed'[c] = 1 /\ req'[c] = "done"
    BY <1>0, <2>1 DEF Answer
  <2>4. result[c] \notin {"no", "retry"}
    BY <1>0, <2>1 DEF Answer, Unsent
  <2>5. pc[c] \in {"waiting", "exhausted", "failing", "failed"}
    BY <1>0, <2>1 DEF Answer, InPlace, OnStrand, Places
  <2>6. Answer(c)'
    BY <1>0, <2>1, <2>3, <2>4, <2>5 DEF Answer, InPlace, OnStrand, Underway
  <2>7. Phase(c) \in {"in", "maybe"} /\ Phase(c)' = Phase(c)
    BY <1>0, <2>1, <2>4, <2>5 DEF Answer, Phase, Ends, Underway
  <2>8. Serves(c)
    BY <2>3, <2>7 DEF Serves
  <2> QED
    BY <2>2, <2>6, <2>8 DEF Alters
<1> QED
  BY <1>3, <1>4, <1>5, <1>6, <1>7, <1>8, <1>9, <1>10, <1>11, <1>12, <1>13, <1>14, <1>15, Zenon DEF Step

\* What the caller and the request agree on.
CallInv == ClosedLost /\ \A c \in Callers : Answer(c)

\* Every step is one of RemoteCall, or none of it.
LEMMA CallStep ==
  ASSUME IInv, CallInv, [Next]_vars
  PROVE  /\ CallInv'
         /\ \/ \E c \in Callers : Alters(c)
            \/ \A c \in Callers : Still(c)
<1>1. StayLost
  BY LostStep DEF CallInv, Answer
<1>2. ClosedLost'
  BY <1>1 DEF StayLost
<1>3. ASSUME \A c \in Callers : Still(c) PROVE \A c \in Callers : Answer(c)'
  BY <1>1, <1>3, StillAnswers DEF CallInv
<1>4. ASSUME NEW c \in Callers, Step(c)
      PROVE  Alters(c) /\ \A d \in Callers : Answer(d)'
  <2>1. Alters(c)
    BY <1>1, <1>4, StepAlters DEF CallInv
  <2>2. \A d \in Callers : Answer(d)'
    BY <1>1, <2>1, StillAnswers DEF Alters, CallInv
  <2> QED
    BY <2>1, <2>2
<1>5. ASSUME UNCHANGED <<pc, on, req, result, executed>> PROVE \A c \in Callers : Still(c)
  BY <1>5 DEF Still, Stays
<1>6. ASSUME NEW s \in Strands, NEW how, Lose(s, how) PROVE \A c \in Callers : Still(c)
  BY <1>5, <1>6, Zenon DEF Lose, UnchangedByIO
<1>7. ASSUME NEW s \in Strands, CloseIdle(s) PROVE \A c \in Callers : Still(c)
  BY <1>5, <1>7, Zenon DEF CloseIdle, callVars
<1>8. CASE RemoveIdle \/ ResetIdleRope \/ Disconnect \/ UNCHANGED vars
  <2>1. \A c \in Callers : Still(c)
    BY <1>5, <1>8, Zenon DEF RemoveIdle, ResetIdleRope, Disconnect, vars, callVars
  <2> QED
    BY <1>2, <1>3, <2>1, Zenon DEF CallInv
<1>9. CASE \E c \in Callers : Step(c)
  BY <1>2, <1>4, <1>9, Zenon DEF CallInv
<1>10. CASE \E s \in Strands : Lose(s, "closing") \/ Lose(s, "broken") \/ CloseIdle(s)
  <2>1. \A c \in Callers : Still(c)
    BY <1>6, <1>7, <1>10, Zenon
  <2> QED
    BY <1>2, <1>3, <2>1, Zenon DEF CallInv
<1> QED
  BY <1>8, <1>9, <1>10, StepCases, Zenon

phases == [c \in Callers |-> Phase(c)]

LEMMA CallSimulated ==
  ASSUME IInv, IInv', CallInv, [Next]_vars
  PROVE  [Call!CallNext]_(Call!callVars)
<1>1. phases' = [c \in Callers |-> Phase(c)']
  BY DEF phases
<1>2. /\ executed \in [Callers -> Nat] /\ executed' \in [Callers -> Nat]
  BY DEF IInv, CallTypes
<1>3. phases = [c \in Callers |->
        IF pc[c] = "out" THEN "out" ELSE IF result[c] \in Ends THEN result[c] ELSE "in"]
  BY DEF phases, Phase
<1>4. phases' = [c \in Callers |->
        IF pc'[c] = "out" THEN "out" ELSE IF result'[c] \in Ends THEN result'[c] ELSE "in"]
  BY <1>1 DEF Phase
<1>5. ASSUME \A c \in Callers : Still(c) PROVE UNCHANGED Call!callVars
  <2>1. StayLost
    BY LostStep DEF CallInv, Answer
  <2>2. phases' = phases
    BY <1>1, <1>5, <2>1, StillAnswers DEF phases, CallInv
  <2>3. executed' = executed
    BY <1>2, <1>5 DEF Still
  <2> QED
    BY <1>3, <1>4, <2>2, <2>3 DEF Call!callVars
<1>6. ASSUME NEW c \in Callers, Alters(c) PROVE Call!CallNext \/ UNCHANGED Call!callVars
  <2>1. StayLost
    BY LostStep DEF CallInv, Answer
  <2>2. \A d \in Callers : d # c => Phase(d)' = Phase(d) /\ executed'[d] = executed[d]
    BY <1>6, <2>1, StillAnswers DEF Alters, CallInv, Still
  <2>3. /\ phases[c] = Phase(c)
        /\ phases' = [phases EXCEPT ![c] = Phase(c)']
        /\ executed' = [executed EXCEPT ![c] = executed'[c]]
    BY <1>1, <1>2, <2>2 DEF phases
  <2>4. CASE Phase(c)' = Phase(c) /\ executed'[c] = executed[c]
    <3>1. phases' = phases /\ executed' = executed
      BY <1>1, <1>2, <2>2, <2>4 DEF phases
    <3> QED
      BY <1>3, <1>4, <3>1 DEF Call!callVars
  <2>5. CASE Phase(c) = "out" /\ Phase(c)' = "in" /\ executed'[c] = executed[c]
    <3>1. /\ phases[c] = "out" /\ phases' = [phases EXCEPT ![c] = "in"]
          /\ executed' = executed
      BY <1>2, <2>2, <2>3, <2>5
    <3>2. Call!Invoke(c)
      BY <1>3, <1>4, <3>1 DEF Call!Invoke
    <3> QED
      BY <3>2 DEF Call!CallNext
  <2>6. CASE /\ Phase(c) \in {"in", "maybe"} /\ Phase(c)' = Phase(c)
             /\ executed[c] = 0 /\ executed'[c] = 1
    <3>1. /\ phases[c] \in {"in", "maybe"} /\ phases' = phases
          /\ executed[c] = 0 /\ executed' = [executed EXCEPT ![c] = 1]
      BY <1>1, <2>2, <2>3, <2>6 DEF phases
    <3>2. Call!Execute(c)
      BY <1>3, <1>4, <3>1 DEF Call!Execute
    <3> QED
      BY <3>2 DEF Call!CallNext
  <2>7. CASE /\ Phase(c) = "in" /\ executed'[c] = executed[c]
             /\ \/ executed[c] = 1 /\ Phase(c)' = "ok"
                \/ executed[c] = 0 /\ Phase(c)' = "no"
                \/ Phase(c)' = "maybe"
    <3>1. executed' = executed /\ phases[c] = "in"
      BY <1>2, <2>2, <2>3, <2>7
    <3>2. \/ executed[c] = 1 /\ phases' = [phases EXCEPT ![c] = "ok"]
          \/ executed[c] = 0 /\ phases' = [phases EXCEPT ![c] = "no"]
          \/ phases' = [phases EXCEPT ![c] = "maybe"]
      BY <2>3, <2>7
    <3>3. Call!Finish(c)
      BY <1>3, <1>4, <3>1, <3>2 DEF Call!Finish
    <3> QED
      BY <3>3 DEF Call!CallNext
  <2>8. CASE /\ Phase(c) \in Ends \/ (Phase(c) = "in" /\ executed[c] = 0)
             /\ Phase(c)' = "out" /\ executed'[c] = 0
    <3>1. /\ phases[c] \in Ends \/ (phases[c] = "in" /\ executed[c] = 0)
          /\ phases' = [phases EXCEPT ![c] = "out"]
          /\ executed' = [executed EXCEPT ![c] = 0]
      BY <2>3, <2>8
    <3>2. Call!Return(c)
      BY <1>3, <1>4, <3>1 DEF Call!Return, Ends
    <3> QED
      BY <3>2 DEF Call!CallNext
  <2> QED
    BY <1>6, <2>4, <2>5, <2>6, <2>7, <2>8, Zenon DEF Alters, Serves
<1> QED
  BY <1>5, <1>6, CallStep, Zenon

\* However often notifyCommFailure() and _invoke() retry it, a call is executed
\* at most once, and it ends as it was executed.
THEOREM RopeImplementsCalls == Spec => ImplementsRemoteCall
<1>1. Init => IInv /\ CallInv
  <2>1. ASSUME Init PROVE CallInv
    <3>1. ClosedLost
      BY <2>1, NoStrandSound DEF Init, ClosedLost
    <3>2. \A c \in Callers : Answer(c)
      BY <2>1 DEF Init, Answer, InPlace, OnStrand, Underway
    <3> QED
      BY <3>1, <3>2 DEF CallInv
  <2> QED
    BY <2>1, InitIInv
<1>2. Init => Call!CallInit
  BY DEF Init, Call!CallInit
<1>3. (IInv /\ CallInv) /\ [Next]_vars => (IInv /\ CallInv)'
  BY NextIInv, CallStep
<1>4. (IInv /\ CallInv) /\ (IInv /\ CallInv)' /\ [Next]_vars => [Call!CallNext]_(Call!callVars)
  BY CallSimulated
<1> QED
  BY <1>1, <1>2, <1>3, <1>4, PTL DEF Spec, ImplementsRemoteCall, Call!CallSpec
=============================================================================
