---------------------- MODULE ReadersWritersLock_proofs ----------------------
(* The lock of omniNames, proved for any finite set of threads: its counter  *)
(* is exact, a writer is alone, no wakeup is lost, and it implements RWLock. *)
EXTENDS ReadersWritersLock, FiniteSetTheorems, TLAPS

(* The inductive invariant: the four parts need each other. The counter is   *)
(* right because a thread that waits is not inside (Placement) and because a *)
(* thread enters only where the counter allows it; the wakeups need the      *)
(* counter.                                                                  *)
Inv == Typed /\ CounterExact /\ Placement /\ NoLostWakeup

(* A set of threads is finite, so its cardinality is a natural number that   *)
(* adding or removing one member moves by one, and is zero only when it is   *)
(* empty.                                                                    *)
LEMMA ReaderCount ==
  ASSUME NEW R \in SUBSET Threads
  PROVE  /\ IsFiniteSet(R) /\ Cardinality(R) \in Nat
         /\ Cardinality(R) = 0 <=> R = {}
         /\ \A t \in Threads \ R : Cardinality(R \cup {t}) = Cardinality(R) + 1
         /\ \A t \in R : Cardinality(R \ {t}) = Cardinality(R) - 1
<1>1. IsFiniteSet(R)
  BY ThreadsAssumption, FS_Subset
<1> QED
  BY <1>1, FS_CardinalityType, FS_EmptySet, FS_AddElement, FS_RemoveElement

-----------------------------------------------------------------------------
(* Init and the actions, one lemma for each part of the invariant. *)

LEMMA InitInv == Init => Inv
<1> SUFFICES ASSUME Init PROVE Inv
  OBVIOUS
<1>1. Typed
  BY DepthAssumption, BudgetAssumption DEF Init, Typed
<1>2. CounterExact
  BY FS_EmptySet DEF Init, CounterExact
<1>3. Placement /\ NoLostWakeup
  BY DEF Init, Placement, NoLostWakeup, Waiting
<1> QED
  BY <1>1, <1>2, <1>3 DEF Inv

LEMMA TypeStep ==
  ASSUME Typed, [Next]_vars
  PROVE  Typed'
<1>1. ASSUME NEW t \in Threads, Nest(t) PROVE Typed'
  BY <1>1, DepthAssumption, BudgetAssumption DEF Typed, Nest, IsWriter
<1>2. ASSUME NEW t \in Threads, ReaderIn(t) PROVE Typed'
  BY <1>2, DepthAssumption, BudgetAssumption DEF Typed, ReaderIn, TakeRead
<1>3. ASSUME NEW t \in Threads, WriterIn(t) PROVE Typed'
  BY <1>3, DepthAssumption, BudgetAssumption DEF Typed, WriterIn, TakeWrite
<1>4. ASSUME NEW t \in Threads, ReaderWakes(t) PROVE Typed'
  BY <1>4, DepthAssumption, BudgetAssumption DEF Typed, ReaderWakes, TakeRead
<1>5. ASSUME NEW t \in Threads, WriterWakes(t) PROVE Typed'
  BY <1>5, DepthAssumption, BudgetAssumption DEF Typed, WriterWakes, TakeWrite
<1>6. ASSUME NEW t \in Threads, SpuriousWake(t) PROVE Typed'
  BY <1>6, DepthAssumption, BudgetAssumption DEF Typed, SpuriousWake
<1>7. ASSUME NEW t \in Threads, ReaderOut(t) PROVE Typed'
  BY <1>7, DepthAssumption, BudgetAssumption DEF Typed, ReaderOut, WakeOne
<1>8. ASSUME NEW t \in Threads, Leave(t) PROVE Typed'
  BY <1>8, DepthAssumption, BudgetAssumption DEF Typed, Leave, WakeAll
<1>9. CASE UNCHANGED vars
  BY <1>9, DepthAssumption, BudgetAssumption DEF Typed, vars
<1> QED
  BY <1>1, <1>2, <1>3, <1>4, <1>5, <1>6, <1>7, <1>8, <1>9 DEF Next, Step, AllDone

LEMMA CounterStep ==
  ASSUME Inv, [Next]_vars
  PROVE  CounterExact'
<1>1. ASSUME NEW t \in Threads, Nest(t) PROVE CounterExact'
  BY <1>1 DEF Inv, Typed, CounterExact, Placement, Waiting, Nest, IsWriter
<1>2. ASSUME NEW t \in Threads, ReaderIn(t) PROVE CounterExact'
  <2>1. t \notin readers
    BY <1>2 DEF ReaderIn, Outside, Inv, Placement, Waiting
  <2>2. Cardinality(readers \cup {t}) = Cardinality(readers) + 1
    BY <2>1, ReaderCount DEF Inv, Typed
  <2>3. CASE ReaderMustWait
    BY <1>2, <2>3 DEF Inv, CounterExact, ReaderIn
  <2>4. CASE ~ReaderMustWait
    <3>1. n \in Int /\ n >= 0 /\ ~(n < 0)
      BY <2>4 DEF ReaderMustWait, Inv, Typed
    <3>2. n' = n + 1 /\ readers' = readers \cup {t} /\ depth' = depth
      BY <1>2, <2>4 DEF ReaderIn, TakeRead
    <3>3. n = Cardinality(readers) /\ \A u \in Threads : depth[u] = 0
      BY <3>1 DEF Inv, CounterExact
    <3>4. n' = Cardinality(readers')
      BY <2>2, <3>2, <3>3
    <3>5. n' >= 0 /\ ~(n' < 0)
      BY <3>1, <3>2
    <3> QED
      BY <3>2, <3>3, <3>4, <3>5 DEF CounterExact
  <2> QED
    BY <2>3, <2>4
<1>3. ASSUME NEW t \in Threads, WriterIn(t) PROVE CounterExact'
  <2>1. CASE WriterMustWait
    BY <1>3, <2>1 DEF Inv, CounterExact, WriterIn
  <2>2. CASE ~WriterMustWait
    <3>1. readers = {}
      BY <2>2, ReaderCount DEF Inv, Typed, CounterExact, WriterMustWait
    <3>2. n = 0 /\ \A u \in Threads : depth[u] = 0
      BY <2>2 DEF Inv, Typed, CounterExact, WriterMustWait
    <3>3. /\ n' = n - 1 /\ writerId' = t /\ readers' = readers
          /\ depth' = [depth EXCEPT ![t] = 1]
      BY <1>3, <2>2 DEF WriterIn, TakeWrite
    <3>4. n' = -1
      BY <3>2, <3>3
    <3>5. depth'[t] = 1 /\ \A u \in Threads \ {t} : depth'[u] = 0
      BY <1>3, <3>2, <3>3 DEF Inv, Typed
    <3> QED
      BY <3>1, <3>3, <3>4, <3>5 DEF CounterExact
  <2> QED
    BY <2>1, <2>2
<1>4. ASSUME NEW t \in Threads, ReaderWakes(t) PROVE CounterExact'
  <2>1. t \notin readers
    BY <1>4 DEF ReaderWakes, Outside, Inv, Placement, Waiting
  <2>2. Cardinality(readers \cup {t}) = Cardinality(readers) + 1
    BY <2>1, ReaderCount DEF Inv, Typed
  <2>3. CASE ReaderMustWait
    BY <1>4, <2>3 DEF Inv, CounterExact, ReaderWakes
  <2>4. CASE ~ReaderMustWait
    <3>1. n \in Int /\ n >= 0 /\ ~(n < 0)
      BY <2>4 DEF ReaderMustWait, Inv, Typed
    <3>2. n' = n + 1 /\ readers' = readers \cup {t} /\ depth' = depth
      BY <1>4, <2>4 DEF ReaderWakes, TakeRead
    <3>3. n = Cardinality(readers) /\ \A u \in Threads : depth[u] = 0
      BY <3>1 DEF Inv, CounterExact
    <3>4. n' = Cardinality(readers')
      BY <2>2, <3>2, <3>3
    <3>5. n' >= 0 /\ ~(n' < 0)
      BY <3>1, <3>2
    <3> QED
      BY <3>2, <3>3, <3>4, <3>5 DEF CounterExact
  <2> QED
    BY <2>3, <2>4
<1>5. ASSUME NEW t \in Threads, WriterWakes(t) PROVE CounterExact'
  <2>1. CASE WriterMustWait
    BY <1>5, <2>1 DEF Inv, CounterExact, WriterWakes
  <2>2. CASE ~WriterMustWait
    <3>1. readers = {}
      BY <2>2, ReaderCount DEF Inv, Typed, CounterExact, WriterMustWait
    <3>2. n = 0 /\ \A u \in Threads : depth[u] = 0
      BY <2>2 DEF Inv, Typed, CounterExact, WriterMustWait
    <3>3. /\ n' = n - 1 /\ writerId' = t /\ readers' = readers
          /\ depth' = [depth EXCEPT ![t] = 1]
      BY <1>5, <2>2 DEF WriterWakes, TakeWrite
    <3>4. n' = -1
      BY <3>2, <3>3
    <3>5. depth'[t] = 1 /\ \A u \in Threads \ {t} : depth'[u] = 0
      BY <1>5, <3>2, <3>3 DEF Inv, Typed
    <3> QED
      BY <3>1, <3>3, <3>4, <3>5 DEF CounterExact
  <2> QED
    BY <2>1, <2>2
<1>6. ASSUME NEW t \in Threads, SpuriousWake(t) PROVE CounterExact'
  BY <1>6 DEF CounterExact, SpuriousWake, Inv
<1>7. ASSUME NEW t \in Threads, ReaderOut(t) PROVE CounterExact'
  <2>1. Cardinality(readers \ {t}) = Cardinality(readers) - 1
    BY <1>7, ReaderCount DEF ReaderOut, Inv, Typed
  <2>2. Cardinality(readers) # 0
    BY <1>7, ReaderCount DEF ReaderOut, Inv, Typed
  <2> QED
    BY <1>7, <2>1, <2>2, ReaderCount DEF Inv, Typed, CounterExact, ReaderOut
<1>8. ASSUME NEW t \in Threads, Leave(t) PROVE CounterExact'
  <2>1. /\ depth[t] > 0 /\ n' = n + 1 /\ depth' = [depth EXCEPT ![t] = @ - 1]
        /\ writerId' = writerId /\ readers' = readers
    BY <1>8 DEF Leave
  <2>2. n \in Int /\ writerId \in Threads /\ depth \in [Threads -> Nat]
    BY DEF Inv, Typed
  <2>3. n < 0
    BY <1>8, <2>1, <2>2 DEF Inv, CounterExact
  <2>4. /\ readers = {} /\ depth[writerId] = -n
        /\ \A u \in Threads \ {writerId} : depth[u] = 0
    BY <2>3 DEF Inv, CounterExact
  <2>5. t = writerId
    BY <1>8, <2>1, <2>4
  <2>6. depth'[writerId] = -n - 1 /\ \A u \in Threads \ {writerId} : depth'[u] = 0
    BY <2>1, <2>2, <2>4, <2>5
  <2>7. CASE n = -1
    BY <2>1, <2>2, <2>4, <2>6, <2>7, ReaderCount, FS_EmptySet DEF CounterExact
  <2>8. CASE n < -1
    BY <2>1, <2>2, <2>4, <2>6, <2>8 DEF CounterExact
  <2> QED
    BY <2>2, <2>3, <2>7, <2>8
<1>9. CASE UNCHANGED vars
  BY <1>9 DEF Inv, CounterExact, vars
<1> QED
  BY <1>1, <1>2, <1>3, <1>4, <1>5, <1>6, <1>7, <1>8, <1>9 DEF Next, Step, AllDone

LEMMA PlacementStep ==
  ASSUME Inv, [Next]_vars
  PROVE  Placement'
<1>1. ASSUME NEW t \in Threads, Nest(t) PROVE Placement'
  BY <1>1 DEF Inv, Typed, CounterExact, Placement, Waiting, NoLostWakeup, Nest, IsWriter
<1>2. ASSUME NEW t \in Threads, ReaderIn(t) PROVE Placement'
  BY <1>2 DEF Inv, Typed, CounterExact, Placement, Waiting, NoLostWakeup, ReaderIn, TakeRead, Outside, ReaderMustWait
<1>3. ASSUME NEW t \in Threads, WriterIn(t) PROVE Placement'
  BY <1>3 DEF Inv, Typed, CounterExact, Placement, Waiting, NoLostWakeup, WriterIn, TakeWrite, Outside, WriterMustWait
<1>4. ASSUME NEW t \in Threads, ReaderWakes(t) PROVE Placement'
  BY <1>4 DEF Inv, Typed, CounterExact, Placement, Waiting, NoLostWakeup, ReaderWakes, TakeRead, ReaderMustWait
<1>5. ASSUME NEW t \in Threads, WriterWakes(t) PROVE Placement'
  BY <1>5 DEF Inv, Typed, CounterExact, Placement, Waiting, NoLostWakeup, WriterWakes, TakeWrite, WriterMustWait
<1>6. ASSUME NEW t \in Threads, SpuriousWake(t) PROVE Placement'
  BY <1>6 DEF Inv, Typed, CounterExact, Placement, Waiting, NoLostWakeup, SpuriousWake
<1>7. ASSUME NEW t \in Threads, ReaderOut(t) PROVE Placement'
  BY <1>7 DEF Inv, Typed, CounterExact, Placement, Waiting, NoLostWakeup, ReaderOut, WakeOne
<1>8. ASSUME NEW t \in Threads, Leave(t) PROVE Placement'
  BY <1>8 DEF Inv, Typed, CounterExact, Placement, Waiting, NoLostWakeup, Leave, WakeAll
<1>9. CASE UNCHANGED vars
  BY <1>9 DEF Inv, Placement, Waiting, vars
<1> QED
  BY <1>1, <1>2, <1>3, <1>4, <1>5, <1>6, <1>7, <1>8, <1>9 DEF Next, Step, AllDone

LEMMA WakeupStep ==
  ASSUME Inv, [Next]_vars
  PROVE  NoLostWakeup'
<1>1. ASSUME NEW t \in Threads, Nest(t) PROVE NoLostWakeup'
  BY <1>1 DEF Inv, Typed, CounterExact, Placement, Waiting, NoLostWakeup, Nest, IsWriter
<1>2. ASSUME NEW t \in Threads, ReaderIn(t) PROVE NoLostWakeup'
  BY <1>2 DEF Inv, Typed, CounterExact, Placement, Waiting, NoLostWakeup, ReaderIn, TakeRead, Outside, ReaderMustWait
<1>3. ASSUME NEW t \in Threads, WriterIn(t) PROVE NoLostWakeup'
  BY <1>3 DEF Inv, Typed, CounterExact, Placement, Waiting, NoLostWakeup, WriterIn, TakeWrite, Outside, WriterMustWait
<1>4. ASSUME NEW t \in Threads, ReaderWakes(t) PROVE NoLostWakeup'
  BY <1>4 DEF Inv, Typed, CounterExact, Placement, Waiting, NoLostWakeup, ReaderWakes, TakeRead, ReaderMustWait
<1>5. ASSUME NEW t \in Threads, WriterWakes(t) PROVE NoLostWakeup'
  BY <1>5 DEF Inv, Typed, CounterExact, Placement, Waiting, NoLostWakeup, WriterWakes, TakeWrite, WriterMustWait
<1>6. ASSUME NEW t \in Threads, SpuriousWake(t) PROVE NoLostWakeup'
  BY <1>6 DEF Inv, Typed, CounterExact, Placement, Waiting, NoLostWakeup, SpuriousWake
<1>7. ASSUME NEW t \in Threads, ReaderOut(t) PROVE NoLostWakeup'
  BY <1>7 DEF Inv, Typed, CounterExact, Placement, Waiting, NoLostWakeup, ReaderOut, WakeOne
<1>8. ASSUME NEW t \in Threads, Leave(t) PROVE NoLostWakeup'
  BY <1>8 DEF Inv, Typed, CounterExact, Placement, Waiting, NoLostWakeup, Leave, WakeAll
<1>9. CASE UNCHANGED vars
  BY <1>9 DEF Inv, NoLostWakeup, Waiting, vars
<1> QED
  BY <1>1, <1>2, <1>3, <1>4, <1>5, <1>6, <1>7, <1>8, <1>9 DEF Next, Step, AllDone

THEOREM Invariant == Spec => []Inv
<1>1. Init => Inv
  BY InitInv
<1>2. Inv /\ [Next]_vars => Inv'
  <2> SUFFICES ASSUME Inv, [Next]_vars PROVE Inv'
    OBVIOUS
  <2>1. Typed'
    BY TypeStep DEF Inv
  <2> QED
    BY <2>1, CounterStep, PlacementStep, WakeupStep DEF Inv
<1> QED
  BY <1>1, <1>2, PTL DEF Spec

-----------------------------------------------------------------------------
(* The results. *)

(* Every variable has its type, and the counter stays above minus the depth  *)
(* a writer may reach (ReadersWritersLock.h:35-43).                          *)
THEOREM Types == Spec => []TypeOK
<1>1. Inv => TypeOK
  <2> SUFFICES ASSUME Inv PROVE TypeOK
    OBVIOUS
  <2>1. CASE n < 0
    BY <2>1, DepthAssumption DEF Inv, Typed, TypeOK, CounterExact
  <2>2. CASE n >= 0
    BY <2>2, DepthAssumption DEF Inv, Typed, TypeOK
  <2> QED
    BY <2>1, <2>2 DEF Inv, Typed
<1> QED
  BY <1>1, Invariant, PTL

(* The counter is the number of readers, or minus the depth of the writer    *)
(* whose id is kept (ReadersWritersLock.h:47-96).                            *)
THEOREM Counter == Spec => []CounterExact
<1>1. Inv => CounterExact
  BY DEF Inv
<1> QED
  BY <1>1, Invariant, PTL

(* A writer shares the lock with nobody (ReadersWritersLock.h:41-42).        *)
THEOREM WriterAlone == Spec => []Exclusion
<1>1. Inv => Exclusion
  BY DEF Inv, Typed, CounterExact, Exclusion
<1> QED
  BY <1>1, Invariant, PTL

(* No thread is left asleep with the lock free and nobody on the way in      *)
(* (ReadersWritersLock.h:69-71 and 92-94).                                   *)
THEOREM Wakeups == Spec => []NoLostWakeup
<1>1. Inv => NoLostWakeup
  BY DEF Inv
<1> QED
  BY <1>1, Invariant, PTL

(* The lock implements the promise of a readers/writer lock: what the source *)
(* counts and compares amounts to taking and leaving it in a mode            *)
(* (ReadersWritersLock.h:47-96).                                             *)
LEMMA InitPromise == Init => Promise!RWInit
  BY DEF Init, Promise!RWInit, LockMode

(* A step maps to the promise's or changes no thread's mode.                 *)
LEMMA StepPromise ==
  ASSUME Inv, Inv', [Next]_vars
  PROVE  [Promise!RWNext]_LockMode
<1> USE DEF Inv
<1>1. ASSUME NEW t \in Threads, Nest(t) PROVE UNCHANGED LockMode
  BY <1>1 DEF Typed, CounterExact, Nest, IsWriter, LockMode
<1>2. ASSUME NEW t \in Threads, t \notin readers, TakeRead(t), ~ReaderMustWait
      PROVE  Promise!ReadLock(t)
  <2>1. n >= 0 /\ \A u \in Threads : depth[u] = 0
    BY <1>2 DEF Typed, CounterExact, ReaderMustWait
  <2>2. LockMode' = [LockMode EXCEPT ![t] = "read"]
    <3>1. readers' = readers \cup {t} /\ \A u \in Threads : ~(depth[u] > 0) /\ ~(depth'[u] > 0)
      BY <1>2, <2>1 DEF TakeRead
    <3> QED
      BY <3>1, Zenon DEF LockMode
  <2> QED
    BY <1>2, <2>1, <2>2 DEF Promise!ReadLock, LockMode
<1>3. ASSUME NEW t \in Threads, TakeWrite(t), ~WriterMustWait
      PROVE  Promise!WriteLock(t)
  <2>1. readers = {} /\ \A u \in Threads : depth[u] = 0
    BY <1>3, ReaderCount DEF Typed, CounterExact, WriterMustWait
  <2>2. depth' = [depth EXCEPT ![t] = 1] /\ readers' = readers
    BY <1>3 DEF TakeWrite
  <2>3. LockMode' = [LockMode EXCEPT ![t] = "write"]
    <3>1. depth'[t] > 0 /\ \A u \in Threads \ {t} : ~(depth[u] > 0) /\ ~(depth'[u] > 0)
      BY <1>3, <2>1, <2>2 DEF Typed
    <3>2. readers = {} /\ readers' = {}
      BY <2>1, <2>2
    <3> QED
      BY <3>1, <3>2, Zenon DEF LockMode
  <2> QED
    BY <2>1, <2>3 DEF Promise!WriteLock, LockMode
<1>4. ASSUME NEW t \in Threads, ReaderIn(t)
      PROVE  Promise!ReadLock(t) \/ UNCHANGED LockMode
  BY <1>2, <1>4 DEF ReaderIn, Outside, LockMode
<1>5. ASSUME NEW t \in Threads, WriterIn(t)
      PROVE  Promise!WriteLock(t) \/ UNCHANGED LockMode
  BY <1>3, <1>5 DEF WriterIn, LockMode
<1>6. ASSUME NEW t \in Threads, ReaderWakes(t)
      PROVE  Promise!ReadLock(t) \/ UNCHANGED LockMode
  BY <1>2, <1>6 DEF ReaderWakes, Placement, Waiting, LockMode
<1>7. ASSUME NEW t \in Threads, WriterWakes(t)
      PROVE  Promise!WriteLock(t) \/ UNCHANGED LockMode
  BY <1>3, <1>7 DEF WriterWakes, LockMode
<1>8. ASSUME NEW t \in Threads, SpuriousWake(t) PROVE UNCHANGED LockMode
  BY <1>8 DEF SpuriousWake, LockMode
<1>9. ASSUME NEW t \in Threads, ReaderOut(t) PROVE Promise!Unlock(t)
  <2>1. t \in readers /\ readers' = readers \ {t} /\ depth' = depth
    BY <1>9 DEF ReaderOut
  <2>2. depth[t] = 0
    BY <2>1, <1>9 DEF Typed, CounterExact
  <2>3. LockMode' = [LockMode EXCEPT ![t] = "none"]
    <3>1. ~(depth[t] > 0)
      BY <2>2
    <3> QED
      BY <2>1, <3>1, Zenon DEF LockMode
  <2> QED
    BY <2>1, <2>2, <2>3 DEF Promise!Unlock, LockMode
<1>10. ASSUME NEW t \in Threads, Leave(t)
       PROVE  Promise!Unlock(t) \/ UNCHANGED LockMode
  <2>1. /\ depth[t] > 0 /\ depth' = [depth EXCEPT ![t] = @ - 1]
        /\ readers' = readers
    BY <1>10 DEF Leave
  <2>2. readers = {}
    BY <1>10, <2>1 DEF Typed, CounterExact
  <2>3. CASE depth[t] = 1
    <3>1. ~(depth'[t] > 0) /\ \A u \in Threads \ {t} : depth'[u] = depth[u]
      BY <2>1, <2>3 DEF Typed
    <3>2. readers = {} /\ readers' = {}
      BY <2>1, <2>2
    <3>3. LockMode' = [LockMode EXCEPT ![t] = "none"]
      BY <3>1, <3>2, Zenon DEF LockMode
    <3> QED
      BY <2>1, <3>3 DEF Promise!Unlock, LockMode
  <2>4. CASE depth[t] > 1
    <3>1. depth'[t] > 0 /\ \A u \in Threads \ {t} : depth'[u] = depth[u]
      BY <2>1, <2>4 DEF Typed
    <3> QED
      BY <2>1, <3>1 DEF LockMode
  <2> QED
    BY <2>1, <2>3, <2>4 DEF Typed
<1>11. CASE UNCHANGED vars
  BY <1>11 DEF vars, LockMode
<1> QED
  BY <1>1, <1>4, <1>5, <1>6, <1>7, <1>8, <1>9, <1>10, <1>11
     DEF Next, Step, AllDone, vars, LockMode, Promise!RWNext

THEOREM LockKeepsPromise == Spec => ImplementsRWLock
<1>1. Inv /\ Inv' /\ [Next]_vars => [Promise!RWNext]_LockMode
  BY StepPromise
<1> QED
  BY <1>1, InitPromise, Invariant, PTL DEF Spec, ImplementsRWLock, Promise!RWSpec
=============================================================================
