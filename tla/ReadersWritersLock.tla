------------------------- MODULE ReadersWritersLock -------------------------
(* The lock that guards every naming context of omniNames. One mutex m, one  *)
(* condition variable c, a counter n that is positive with readers inside    *)
(* and negative, by its depth of entry, with a writer inside, and the id of  *)
(* the last writer to enter. A writer may enter again, as either; a reader   *)
(* never does (no caller of the lock nests a reader lock). Each method runs  *)
(* under m, so it is one action, up to the wait on c.                        *)
EXTENDS Integers, FiniteSets

CONSTANTS
  Threads,
  MaxDepth,      \* bound: how deep a writer nests
  Budget         \* bound: how many times a thread enters

ASSUME DepthAssumption == MaxDepth \in Nat \ {0}
ASSUME BudgetAssumption == Budget \in Nat

ASSUME ThreadsAssumption == IsFiniteSet(Threads)

VARIABLES
  n,             \* the counter
  writerId,      \* never reset: stale while n >= 0 (at first 0, some thread's id)
  readers,       \* threads between readerIn and readerOut
  depth,         \* how many entries a thread has made as the writer
  wantRead,      \* threads inside readerIn, waiting for n >= 0
  wantWrite,     \* threads inside writerIn, waiting for n = 0
  asleep,        \* the waiting threads that nothing has woken
  entered        \* how many times each thread called readerIn or writerIn

vars == <<n, writerId, readers, depth, wantRead, wantWrite, asleep, entered>>

Waiting == wantRead \cup wantWrite
Outside(t) == t \notin readers \cup Waiting /\ depth[t] = 0

Init ==
  /\ n = 0
  /\ writerId \in Threads
  /\ readers = {} /\ wantRead = {} /\ wantWrite = {} /\ asleep = {}
  /\ depth = [t \in Threads |-> 0]
  /\ entered = [t \in Threads |-> 0]

\* The calling thread already has the lock as its writer.
IsWriter_Stale(t) == n # 0 /\ writerId = t
IsWriter(t) == n < 0 /\ writerId = t

\* What a thread does once its wait is over.
TakeRead(t) == n' = n + 1 /\ readers' = readers \cup {t}
               /\ UNCHANGED <<writerId, depth>>
TakeWrite(t) == n' = n - 1 /\ writerId' = t /\ depth' = [depth EXCEPT ![t] = 1]
                /\ UNCHANGED readers

\* The conditions of the two while loops.
ReaderMustWait_Never == FALSE
ReaderMustWait == n < 0
WriterMustWait_Negative == n < 0
WriterMustWait == n # 0

\* Both methods begin alike: count a nested entry of the writer, else wait.
Nest(t) ==
  /\ IsWriter(t) /\ t \notin Waiting
  /\ depth[t] < MaxDepth /\ entered[t] < Budget
  /\ n' = n - 1
  /\ depth' = [depth EXCEPT ![t] = @ + 1]
  /\ entered' = [entered EXCEPT ![t] = @ + 1]
  /\ UNCHANGED <<writerId, readers, wantRead, wantWrite, asleep>>

ReaderIn(t) ==
  /\ Outside(t) /\ ~IsWriter(t) /\ entered[t] < Budget
  /\ entered' = [entered EXCEPT ![t] = @ + 1]
  /\ UNCHANGED wantWrite
  /\ \/ /\ ReaderMustWait
        /\ wantRead' = wantRead \cup {t} /\ asleep' = asleep \cup {t}
        /\ UNCHANGED <<n, writerId, readers, depth>>
     \/ /\ ~ReaderMustWait
        /\ TakeRead(t)
        /\ UNCHANGED <<wantRead, asleep>>

WriterIn(t) ==
  /\ Outside(t) /\ ~IsWriter(t) /\ entered[t] < Budget
  /\ entered' = [entered EXCEPT ![t] = @ + 1]
  /\ UNCHANGED wantRead
  /\ \/ /\ WriterMustWait
        /\ wantWrite' = wantWrite \cup {t} /\ asleep' = asleep \cup {t}
        /\ UNCHANGED <<n, writerId, readers, depth>>
     \/ /\ ~WriterMustWait
        /\ TakeWrite(t)
        /\ UNCHANGED <<wantWrite, asleep>>

\* A woken thread has m again and goes round its loop.
ReaderWakes(t) ==
  /\ t \in wantRead \ asleep
  /\ \/ /\ ReaderMustWait
        /\ asleep' = asleep \cup {t}
        /\ UNCHANGED <<n, writerId, readers, depth, wantRead>>
     \/ /\ ~ReaderMustWait
        /\ TakeRead(t)
        /\ wantRead' = wantRead \ {t}
        /\ UNCHANGED asleep
  /\ UNCHANGED <<wantWrite, entered>>

WriterWakes(t) ==
  /\ t \in wantWrite \ asleep
  /\ \/ /\ WriterMustWait
        /\ asleep' = asleep \cup {t}
        /\ UNCHANGED <<n, writerId, readers, depth, wantWrite>>
     \/ /\ ~WriterMustWait
        /\ TakeWrite(t)
        /\ wantWrite' = wantWrite \ {t}
        /\ UNCHANGED asleep
  /\ UNCHANGED <<wantRead, entered>>

\* A condition variable may wake a thread nobody signalled.
SpuriousWake(t) ==
  /\ t \in asleep
  /\ asleep' = asleep \ {t}
  /\ UNCHANGED <<n, writerId, readers, depth, wantRead, wantWrite, entered>>

\* One sleeper, any of them, if there is one.
WakeOne_Lost == UNCHANGED asleep
WakeOne == \/ asleep = {} /\ UNCHANGED asleep
           \/ \E s \in asleep : asleep' = asleep \ {s}
WakeAll_OneOnly == WakeOne
WakeAll == asleep' = {}

ReaderOut(t) ==
  /\ t \in readers
  /\ n' = n - 1 /\ readers' = readers \ {t}
  /\ IF n = 1 THEN WakeOne ELSE UNCHANGED asleep
  /\ UNCHANGED <<writerId, depth, wantRead, wantWrite, entered>>

\* An inner entry is left through readerOut or writerOut alike; the outermost
\* one was made by writerIn, so it is left through writerOut.
Leave(t) ==
  /\ depth[t] > 0
  /\ n' = n + 1
  /\ depth' = [depth EXCEPT ![t] = @ - 1]
  /\ IF n = -1 THEN WakeAll ELSE UNCHANGED asleep
  /\ UNCHANGED <<writerId, readers, wantRead, wantWrite, entered>>

Step(t) == \/ Nest(t) \/ ReaderIn(t) \/ WriterIn(t) \/ ReaderWakes(t)
           \/ WriterWakes(t) \/ SpuriousWake(t) \/ ReaderOut(t) \/ Leave(t)

\* Every thread has spent its budget and left.
AllDone ==
  /\ \A t \in Threads : entered[t] = Budget /\ Outside(t)
  /\ UNCHANGED vars

Next == (\E t \in Threads : Step(t)) \/ AllDone

Spec == Init /\ [][Next]_vars

\* A thread that holds the lock leaves it, and a woken thread runs. Nothing
\* is assumed of new entries or of spurious wakeups.
Fairness ==
  \A t \in Threads :
    /\ WF_vars(ReaderOut(t)) /\ WF_vars(Leave(t))
    /\ WF_vars(ReaderWakes(t)) /\ WF_vars(WriterWakes(t))

FairSpec == Spec /\ Fairness

-----------------------------------------------------------------------------
(* Types; the counter never goes below the depth a writer may reach          *)
(* (ReadersWritersLock.h:35-43).                                             *)
Typed ==
  /\ n \in Int
  /\ writerId \in Threads
  /\ readers \in SUBSET Threads
  /\ depth \in [Threads -> 0..MaxDepth]
  /\ wantRead \in SUBSET Threads
  /\ wantWrite \in SUBSET Threads
  /\ asleep \in SUBSET Threads
  /\ entered \in [Threads -> 0..Budget]

TypeOK == Typed /\ n >= -MaxDepth

(* The counter tells the truth about who is inside: with n >= 0 it is the    *)
(* number of readers and no thread is a writer; with n < 0 the last writer   *)
(* to enter is inside as deep as -n, alone. It is what readerIn, writerIn    *)
(* and the two exits decide by (ReadersWritersLock.h:47-96).                 *)
CounterExact ==
  /\ n >= 0 => /\ n = Cardinality(readers)
               /\ \A t \in Threads : depth[t] = 0
  /\ n < 0 => /\ readers = {}
              /\ depth[writerId] = -n
              /\ \A t \in Threads \ {writerId} : depth[t] = 0

(* A writer is inside with no reader and no other writer                     *)
(* (ReadersWritersLock.h:41-42).                                             *)
Exclusion ==
  \A t, u \in Threads :
    depth[t] > 0 /\ t # u => depth[u] = 0 /\ u \notin readers /\ t \notin readers

(* No wakeup is lost: no reader sleeps unless a writer is inside, and when   *)
(* nobody is inside and a thread sleeps, another thread is on its way in and *)
(* will wake it when it leaves. readerOut signals only one thread, writerOut *)
(* all of them (ReadersWritersLock.h:69-71 and 92-94).                       *)
NoLostWakeup ==
  /\ asleep \subseteq Waiting
  /\ wantRead \cap wantWrite = {}
  /\ n >= 0 => asleep \cap wantRead = {}
  /\ n = 0 /\ asleep # {} => Waiting \ asleep # {}

(* A thread that waits for the lock gets it, if the others stop coming:      *)
(* the lock has no queue, so nothing is promised against endless arrivals    *)
(* (ReadersWritersLock.h:55-56 and 83-84).                                   *)
WaiterEnters == \A t \in Threads : t \in Waiting ~> t \notin Waiting

(* A thread waits or is inside, never both (ReadersWritersLock.h:47-88): the *)
(* part of the inductive invariant that the other parts leave unsaid.        *)
Placement ==
  /\ readers \cap Waiting = {}
  /\ \A t \in Waiting : depth[t] = 0

(* The counter, the id and the condition variable implement the promise of a *)
(* readers/writer lock.                                                      *)
LockMode == [t \in Threads |-> IF depth[t] > 0 THEN "write"
                               ELSE IF t \in readers THEN "read" ELSE "none"]
Promise == INSTANCE RWLock WITH mode <- LockMode
ImplementsRWLock == Promise!RWSpec
=============================================================================
