-------------------------- MODULE OmniOrbPOA_proofs --------------------------
(***************************************************************************)
(* Proofs about OmniOrbPOA, for any objects, threads and bounds.           *)
(*                                                                         *)
(* IInv is inductive. That the counts are exact needs to know which step   *)
(* takes what off whose hands: an object is on one job's list, with one    *)
(* thread that is to retire or queue it, in the activator's queue once, or *)
(* nowhere (Lists, Owned, OneOwner, Queued), so no step counts or finishes *)
(* it twice. That nothing is left by a destroyed POA needs the converse:   *)
(* an object whose etherealisation is due is in somebody's hands (Kept),   *)
(* and those hands are counted, so that no detached object means none due. *)
(* Destruction, Deactivation and Closing say how far the two jobs are, and *)
(* Used that a request inside an object keeps its servant there.           *)
(* The counts are integers in IInv, and natural numbers because they are   *)
(* sizes. The last part shows each step to be one of ObjectLife or none.   *)
(***************************************************************************)
EXTENDS OmniOrbPOA, FiniteSetTheorems, TLAPS

InsidePhases == {"sa_check", "sa_ready", "incarnate", "incarnated", "sa_queue", "sa_exit",
                 "held", "upcall", "leave"}
UserPhases == {"held", "upcall", "leave"}
ReservePhases == {"sa_check", "sa_ready", "incarnate", "incarnated", "placed"}
GivingPhases == {"retire", "sa_queue"}
OwnerPhases == ReservePhases \cup GivingPhases
ObjectPhases == OwnerPhases \cup UserPhases \cup {"locate", "sa_exit", "detach"}

DestroyPhases == {"none", "discard", "lose", "start", "mark", "drain", "close", "take", "join",
                  "end", "done"}
DeactivatePhases == {"none", "start", "mark", "drain", "take", "met", "unpretend", "join",
                     "flag", "broadcast", "done"}

\* The types, without a lower bound for the counts.
Flags ==
  /\ activator \in BOOLEAN /\ holdTimeout \in BOOLEAN
  /\ pd_state \in PmStates /\ pd_rq_state \in PmStates
  /\ pd_deactivated \in BOOLEAN /\ listed \in BOOLEAN
  /\ life \in {"alive", "dying", "destroyed", "gone"}
  /\ pd_lock \in Apps \cup {None}
  /\ calls \in 0..MaxCalls /\ ops \in 0..MaxOps
Numbers == nReqInThis \in Int /\ nReqActive \in Int /\ nDetached \in Int
EntryTypes ==
  /\ entry \in [Objects -> [st : EntryStates, inv : Int]]
  /\ list \in [Objects -> Jobs \cup {"active", "none"}]
ThreadTypes ==
  /\ at \in [Threads -> CallerPhases \cup AppPhases]
  /\ arg \in [Threads -> Objects \cup {None}]
Sleepers == asleep \subseteq Threads \cup Jobs
JobTypes ==
  /\ job \in [Jobs -> JobPhases] /\ by \in [Jobs -> Apps \cup {None}]
  /\ eth \in [Jobs -> BOOLEAN] /\ pretended \in BOOLEAN
ServingTypes ==
  queue \in Seq(Objects) /\ server \in [o : Objects, dead : BOOLEAN] \cup {None}
Types == /\ Flags /\ Numbers /\ EntryTypes /\ ThreadTypes /\ Sleepers /\ JobTypes
         /\ ServingTypes

\* A thread is in a place of its kind, and has an object where it works on one.
Placed ==
  /\ \A r \in Callers : at[r] \in CallerPhases
  /\ \A a \in Apps : at[a] \in AppPhases
  /\ \A t \in Threads : at[t] \in ObjectPhases => arg[t] \in Objects

\* pd_lock is held over a step by deactivate_object() only.
Locked == \A t \in Threads : pd_lock = t <=> at[t] = "detach"

\* The threads that wait for a job are elsewhere than in an operation.
Waiters ==
  /\ \A j \in Jobs : by[j] # None => at[by[j]] \in {"working", "destroying"}
  /\ by["deactivate"] # None => by["deactivate"] # by["destroy"]

\* How far the destruction is, and what was done on the way.
Destruction ==
  /\ job["destroy"] \in DestroyPhases
  /\ life = "alive" <=> job["destroy"] = "none"
  /\ life = "dying" <=>
       job["destroy"] \in {"discard", "lose", "start", "mark", "drain", "close"}
  /\ life = "destroyed" <=> job["destroy"] \in {"take", "join", "end"}
  /\ listed => job["destroy"] \in {"none", "discard", "lose"}
  /\ job["destroy"] \in {"drain", "close", "take", "join", "end", "done"}
       => pd_rq_state = "INACTIVE"

\* The same of the manager's deactivation.
Deactivation ==
  /\ job["deactivate"] \in DeactivatePhases
  /\ job["deactivate"] = "none" <=> pd_state # "INACTIVE"
  /\ pretended => job["deactivate"] \in {"mark", "drain", "take", "met", "unpretend"}
  /\ job["deactivate"] \in {"take", "met", "unpretend"} => pretended

\* What is on a job's list is in the state which the job has given it.
Lists == \A o \in Objects :
  /\ list[o] = "none"
       => entry[o].st \in {"none", "ACTIVATING", "DEACTIVATING", "ETHEREALISING"}
  /\ list[o] = "active" => entry[o].st = "ACTIVE"
  /\ list[o] \in Jobs => \/ job[list[o]] = "mark" /\ entry[o].st = "ACTIVE"
                         \/ job[list[o]] = "drain" /\ entry[o].st = "DEACTIVATING_OA"
                         \/ job[list[o]] \notin {"none", "discard", "lose", "start", "mark", "drain"}
                            /\ entry[o].st = "ETHEREALISING"
  /\ list[o] = "destroy" => job["destroy"] \in {"mark", "drain", "close", "take"}
  /\ list[o] = "deactivate" =>
       IF job["deactivate"] \in {"mark", "drain", "take"} THEN pretended
       ELSE ~eth["deactivate"] /\ job["deactivate"] \in {"met", "join", "flag", "broadcast", "done"}

\* An object that requests are in, is there.
Used == \A t \in Threads, o \in Objects :
  at[t] \in UserPhases /\ arg[t] = o => entry[o].st \in Present

\* The servant activator's thread has the object, or its queue.
Serves(o) == server # None /\ ~server.dead /\ server.o = o
Lined(o) == \E i \in 1..Len(queue) : queue[i] = o
InHand(o) == Serves(o) \/ Lined(o)

\* A thread that activates an object, or is to hand it on to etherealisation,
\* does so alone.
Owned == \A t \in Threads, o \in Objects : arg[t] = o =>
  /\ at[t] \in ReservePhases => entry[o].st = "ACTIVATING"
  /\ at[t] \in GivingPhases =>
       entry[o].st = "ETHEREALISING" /\ list[o] = "none" /\ ~InHand(o)
OneOwner == \A t \in Threads, u \in Threads :
  at[t] \in OwnerPhases /\ at[u] \in OwnerPhases /\ arg[t] = arg[u] => t = u

\* The activator's thread and its queue have an object once.
Queued ==
  /\ \A o \in Objects : InHand(o) => entry[o].st = "ETHEREALISING" /\ list[o] = "none"
  /\ \A o \in Objects : ~(Serves(o) /\ Lined(o))
  /\ \A i \in 1..Len(queue), k \in 1..Len(queue) : queue[i] = queue[k] => i = k

\* And somebody has every object whose etherealisation is due.
Kept == \A o \in Objects : entry[o].st = "ETHEREALISING" /\ list[o] = "none" =>
  InHand(o) \/ \E t \in Threads : at[t] \in GivingPhases /\ arg[t] = o

\* An object that is about to be counted as detached was not met before.
Detaching == \A t \in Threads, o \in Objects : at[t] = "detach" /\ arg[t] = o =>
  \/ entry[o].st = "DEACTIVATING"
  \/ \E u \in Threads : at[u] = "retire" /\ arg[u] = o

\* The counts are exact, stated of the sets they count.
Inside == At(InsidePhases)
Working == At({"upcall", "leave"})
UsersOf(o) == {r \in At(UserPhases) : arg[r] = o}
Detachers == At({"detach"})
Leavers == At({"retire", "met"})
Doomed == {o \in Objects : entry[o].st = "DEACTIVATING"}
OneIf(b) == IF b THEN 1 ELSE 0
Due == Len(queue) + OneIf(server # None) + OneIf(pretended)
CountsInside ==
  nReqInThis = Cardinality(Inside) /\ nReqActive = Cardinality(Working)
CountsOfEntries == \A o \in Objects :
  entry[o].inv = Cardinality(UsersOf(o)) + OneIf(entry[o].st \in {"ACTIVATING", "ACTIVE"})
CountsDetached ==
  nDetached + Cardinality(Detachers) =
    Cardinality(Doomed) + Cardinality(Leavers) + Due

\* What is over, and when, once the POA is being destroyed.
Closing ==
  /\ job["destroy"] \in {"mark", "drain", "close", "take", "join", "end", "done"}
       => \A o \in Objects : list[o] # "active"
  /\ job["destroy"] \in {"close", "take", "join", "end", "done"}
       => \A r \in Threads : at[r] \in InsidePhases => at[r] \in {"sa_check", "leave"}
  /\ job["destroy"] \in {"take", "join", "end", "done"} => pd_lock = None
  /\ job["destroy"] \in {"end", "done"} => nDetached = 0

IInv == /\ Types /\ Placed /\ Locked /\ Waiters /\ Destruction /\ Deactivation
        /\ Lists /\ Used /\ Owned /\ OneOwner /\ Queued /\ Kept /\ Detaching
        /\ CountsInside /\ CountsOfEntries /\ CountsDetached /\ Closing

-----------------------------------------------------------------------------
(* Cardinalities. *)

\* Two sets that differ in one element at most differ by one at most.
LEMMA OneApart ==
  ASSUME NEW X, IsFiniteSet(X), NEW S \in SUBSET X, NEW T \in SUBSET X, NEW x \in X,
         \A y \in X : y # x => (y \in S <=> y \in T)
  PROVE  /\ Cardinality(S) \in Nat /\ Cardinality(T) \in Nat
         /\ Cardinality(T) + OneIf(x \in S) = Cardinality(S) + OneIf(x \in T)
<1>1. IsFiniteSet(S) /\ IsFiniteSet(T)
  BY FS_Subset
<1>2. Cardinality(S) \in Nat /\ Cardinality(T) \in Nat
  BY <1>1, FS_CardinalityType
<1>3. CASE x \in S <=> x \in T
  <2>1. S = T
    BY <1>3
  <2> QED BY <2>1, <1>2 DEF OneIf
<1>4. CASE x \in S /\ x \notin T
  <2>1. S = T \cup {x}
    BY <1>4
  <2>2. Cardinality(S) = Cardinality(T) + 1
    BY <2>1, <1>1, <1>4, FS_AddElement
  <2> QED BY <2>2, <1>2, <1>4 DEF OneIf
<1>5. CASE x \notin S /\ x \in T
  <2>1. T = S \cup {x}
    BY <1>5
  <2>2. Cardinality(T) = Cardinality(S) + 1
    BY <2>1, <1>1, <1>5, FS_AddElement
  <2> QED BY <2>2, <1>2, <1>5 DEF OneIf
<1> QED BY <1>2, <1>3, <1>4, <1>5

\* A thread's step changes its own place only.
Moves(t) == \A u \in Threads : u # t => at'[u] = at[u] /\ arg'[u] = arg[u]

LEMMA CountsAreNat ==
  /\ Cardinality(Inside) \in Nat /\ Cardinality(Working) \in Nat
  /\ Cardinality(Detachers) \in Nat /\ Cardinality(Leavers) \in Nat
  /\ Cardinality(Doomed) \in Nat
  /\ \A o \in Objects : Cardinality(UsersOf(o)) \in Nat
<1>1. ASSUME NEW S \in SUBSET Threads PROVE Cardinality(S) \in Nat
  BY <1>1, FiniteAssumption, FS_Subset, FS_CardinalityType DEF Threads
<1>2. ASSUME NEW S \in SUBSET Objects PROVE Cardinality(S) \in Nat
  BY <1>2, FiniteAssumption, FS_Subset, FS_CardinalityType
<1>3. Inside \in SUBSET Threads /\ Working \in SUBSET Threads /\ Detachers \in SUBSET Threads
      /\ Leavers \in SUBSET Threads
  BY DEF Inside, Working, Detachers, Leavers, At
<1>4. \A o \in Objects : UsersOf(o) \in SUBSET Threads
  BY DEF UsersOf, At
<1>5. Doomed \in SUBSET Objects
  BY DEF Doomed
<1> QED BY <1>1, <1>2, <1>3, <1>4, <1>5

LEMMA CountsMove ==
  ASSUME NEW t \in Threads, Moves(t)
  PROVE  /\ Cardinality(Inside)' + OneIf(at[t] \in InsidePhases)
              = Cardinality(Inside) + OneIf(at'[t] \in InsidePhases)
         /\ Cardinality(Working)' + OneIf(at[t] \in {"upcall", "leave"})
              = Cardinality(Working) + OneIf(at'[t] \in {"upcall", "leave"})
         /\ Cardinality(Detachers)' + OneIf(at[t] = "detach")
              = Cardinality(Detachers) + OneIf(at'[t] = "detach")
         /\ Cardinality(Leavers)' + OneIf(at[t] \in {"retire", "met"})
              = Cardinality(Leavers) + OneIf(at'[t] \in {"retire", "met"})
         /\ \A o \in Objects :
              Cardinality(UsersOf(o))' + OneIf(at[t] \in UserPhases /\ arg[t] = o)
              = Cardinality(UsersOf(o)) + OneIf(at'[t] \in UserPhases /\ arg'[t] = o)
         /\ Cardinality(Inside)' \in Nat /\ Cardinality(Working)' \in Nat
         /\ Cardinality(Detachers)' \in Nat /\ Cardinality(Leavers)' \in Nat
         /\ \A o \in Objects : Cardinality(UsersOf(o))' \in Nat
<1> USE FiniteAssumption DEF Threads, Moves
<1>1. Cardinality(Inside)' \in Nat /\ Cardinality(Inside)' + OneIf(t \in Inside) = Cardinality(Inside) + OneIf(t \in Inside')
  BY OneApart DEF Inside, At
<1>2. Cardinality(Working)' \in Nat /\ Cardinality(Working)' + OneIf(t \in Working) = Cardinality(Working) + OneIf(t \in Working')
  BY OneApart DEF Working, At
<1>3. Cardinality(Detachers)' \in Nat /\ Cardinality(Detachers)' + OneIf(t \in Detachers)
        = Cardinality(Detachers) + OneIf(t \in Detachers')
  BY OneApart DEF Detachers, At
<1>4. Cardinality(Leavers)' \in Nat /\ Cardinality(Leavers)' + OneIf(t \in Leavers) = Cardinality(Leavers) + OneIf(t \in Leavers')
  BY OneApart DEF Leavers, At
<1>5. ASSUME NEW o \in Objects
      PROVE  /\ Cardinality(UsersOf(o))' \in Nat
             /\ Cardinality(UsersOf(o))' + OneIf(t \in UsersOf(o))
               = Cardinality(UsersOf(o)) + OneIf(t \in UsersOf(o)')
  BY OneApart DEF UsersOf, At
<1> QED BY <1>1, <1>2, <1>3, <1>4, <1>5 DEF OneIf, Inside, Working, Detachers, Leavers, UsersOf, At

-----------------------------------------------------------------------------
(* The initial state, and what holds of steps that change little. *)

LEMMA Kinds ==
  /\ Callers \cap Apps = {} /\ \A t \in Threads : t \in Callers \/ t \in Apps
  /\ \A r \in Callers : r \in Threads
  /\ \A a \in Apps : a \in Threads
  /\ None \notin Threads /\ None \notin Objects
  /\ "deactivate" \in Jobs /\ "destroy" \in Jobs
  /\ \A j \in Jobs : j = "deactivate" \/ j = "destroy"
BY ThreadsAssumption DEF Threads, Jobs

\* A step of a thread that neither keeps nor releases pd_lock.
LEMMA PlainMove ==
  ASSUME Placed, Locked, NEW t \in Threads, Moves(t), UNCHANGED pd_lock,
         at[t] # "detach", at'[t] # "detach",
         t \in Callers => at'[t] \in CallerPhases,
         t \in Apps => at'[t] \in AppPhases,
         at'[t] \in ObjectPhases => arg'[t] \in Objects
  PROVE  Placed' /\ Locked'
<1>1. Placed'
  BY Kinds DEF Placed, Moves
<1>2. Locked'
  BY DEF Locked, Moves
<1> QED BY <1>1, <1>2

\* A step of a thread that works for no job and takes none on.
LEMMA WaitersStay ==
  ASSUME JobTypes, Waiters, NEW t \in Threads, Moves(t), UNCHANGED by,
         at[t] \notin {"working", "destroying"}
  PROVE  Waiters'
<1>1. ASSUME NEW j \in Jobs, by[j] # None
      PROVE  by[j] \in Threads /\ by[j] # t
  BY <1>1, Kinds DEF JobTypes, Waiters
<1> QED BY <1>1 DEF Waiters, Moves

\* A thread stays where it has the same to say of an object, or has come to where
\* it says nothing of any.
Quiet(u) ==
  \/ at'[u] = at[u] /\ arg'[u] = arg[u]
  \/ at'[u] \in ReservePhases /\ at[u] \in ReservePhases /\ arg'[u] = arg[u]
  \/ at'[u] \in UserPhases /\ at[u] \in UserPhases /\ arg'[u] = arg[u]
  \/ /\ at'[u] \in UserPhases /\ at[u] \notin GivingPhases
     /\ \A o \in Objects : arg'[u] = o => entry[o].st \in Present
  \/ at[u] \notin GivingPhases
     /\ at'[u] \notin OwnerPhases \cup UserPhases \cup {"detach"}

LEMMA QuietMove ==
  ASSUME Used, Owned, OneOwner, Queued, Kept, Detaching,
         \A u \in Threads : Quiet(u),
         \A o \in Objects : entry'[o].st = entry[o].st,
         UNCHANGED <<list, queue, server>>
  PROVE  Used' /\ Owned' /\ OneOwner' /\ Queued' /\ Kept' /\ Detaching'
<1> USE DEF Quiet, UserPhases, OwnerPhases, ReservePhases, GivingPhases
<1>1. \A o \in Objects : InHand(o)' <=> InHand(o)
  BY DEF InHand, Serves, Lined
<1>2. Used'
  BY DEF Used
<1>3. Owned'
  BY <1>1 DEF Owned
<1>4. OneOwner'
  BY DEF OneOwner
<1>5. Queued'
  BY <1>1 DEF Queued, Serves, Lined
<1>6. Kept'
  <2> SUFFICES ASSUME NEW o \in Objects, entry[o].st = "ETHEREALISING", list[o] = "none",
                      ~InHand(o)
               PROVE  \E t \in Threads : at'[t] \in GivingPhases /\ arg'[t] = o
    BY <1>1 DEF Kept
  <2>1. PICK t \in Threads : at[t] \in GivingPhases /\ arg[t] = o
    BY DEF Kept
  <2> QED BY <2>1
<1>7. Detaching'
  <2> SUFFICES ASSUME NEW t \in Threads, NEW o \in Objects, at'[t] = "detach", arg'[t] = o,
                      entry[o].st # "DEACTIVATING"
               PROVE  \E u \in Threads : at'[u] = "retire" /\ arg'[u] = o
    BY DEF Detaching
  <2>1. at[t] = "detach" /\ arg[t] = o
    OBVIOUS
  <2>2. PICK u \in Threads : at[u] = "retire" /\ arg[u] = o
    BY <2>1 DEF Detaching
  <2> QED BY <2>2
<1> QED BY <1>2, <1>3, <1>4, <1>5, <1>6, <1>7

-----------------------------------------------------------------------------
(* What the counts say of the threads, and how they follow a thread's step. *)

\* A set with a member has a positive size, one with two has two at least.
LEMMA Members ==
  ASSUME NEW X, IsFiniteSet(X), NEW S \in SUBSET X, NEW x \in S
  PROVE  /\ Cardinality(S) \in Nat /\ Cardinality(S) >= 1
         /\ \A y \in S : y # x => Cardinality(S) >= 2
<1>1. IsFiniteSet(S) /\ IsFiniteSet(S \ {x})
  BY FS_Subset
<1>2. Cardinality(S) \in Nat /\ Cardinality(S \ {x}) \in Nat
  BY <1>1, FS_CardinalityType
<1>3. Cardinality(S \ {x}) = Cardinality(S) - 1
  BY <1>1, FS_RemoveElement
<1>4. ASSUME NEW y \in S, y # x PROVE Cardinality(S) >= 2
  <2>1. S \ {x} # {}
    BY <1>4
  <2>2. Cardinality(S \ {x}) # 0
    BY <2>1, <1>1, FS_EmptySet
  <2> QED BY <2>2, <1>2, <1>3
<1> QED BY <1>2, <1>3, <1>4

LEMMA ThreadsInside ==
  /\ \A t \in Threads : at[t] \in InsidePhases => Cardinality(Inside) >= 1
  /\ \A t \in Threads : at[t] \in {"retire", "met"} => Cardinality(Leavers) >= 1
  /\ \A t \in Threads, u \in Threads :
       at[t] \in {"retire", "met"} /\ at[u] \in {"retire", "met"} /\ t # u
         => Cardinality(Leavers) >= 2
  /\ \A o \in Objects : entry[o].st = "DEACTIVATING" => Cardinality(Doomed) >= 1
  /\ \A t \in Threads, o \in Objects :
       at[t] \in UserPhases /\ arg[t] = o =>
         /\ Cardinality(UsersOf(o)) >= 1
         /\ \A u \in Threads : at[u] \in UserPhases /\ arg[u] = o /\ u # t
              => Cardinality(UsersOf(o)) >= 2
<1> USE FiniteAssumption, Members DEF Threads, At
<1>1. \A t \in Threads : at[t] \in InsidePhases => Cardinality(Inside) >= 1
  <2> SUFFICES ASSUME NEW t \in Threads, at[t] \in InsidePhases
               PROVE  Cardinality(Inside) >= 1
    OBVIOUS
  <2>1. t \in Inside /\ Inside \in SUBSET Threads
    BY DEF Inside
  <2> QED BY <2>1
<1>2. ASSUME NEW t \in Threads, at[t] \in {"retire", "met"}
      PROVE  /\ Cardinality(Leavers) >= 1
             /\ \A u \in Threads : at[u] \in {"retire", "met"} /\ t # u
                  => Cardinality(Leavers) >= 2
  <2>1. t \in Leavers /\ Leavers \in SUBSET Threads
    BY <1>2 DEF Leavers
  <2>2. \A u \in Threads : at[u] \in {"retire", "met"} => u \in Leavers
    BY DEF Leavers
  <2> QED BY <2>1, <2>2
<1>3. ASSUME NEW o \in Objects, entry[o].st = "DEACTIVATING"
      PROVE  Cardinality(Doomed) >= 1
  <2>1. o \in Doomed /\ Doomed \in SUBSET Objects
    BY <1>3 DEF Doomed
  <2> QED BY <2>1
<1>4. ASSUME NEW t \in Threads, NEW o \in Objects, at[t] \in UserPhases, arg[t] = o
      PROVE  /\ Cardinality(UsersOf(o)) >= 1
             /\ \A u \in Threads : at[u] \in UserPhases /\ arg[u] = o /\ u # t
                  => Cardinality(UsersOf(o)) >= 2
  <2>1. t \in UsersOf(o) /\ UsersOf(o) \in SUBSET Threads
    BY <1>4 DEF UsersOf
  <2>2. \A u \in Threads : at[u] \in UserPhases /\ arg[u] = o => u \in UsersOf(o)
    BY DEF UsersOf
  <2> QED BY <2>1, <2>2
<1> QED BY <1>1, <1>2, <1>3, <1>4

LEMMA DueIsNat == ASSUME Types PROVE Due \in Nat
<1>1. Len(queue) \in Nat
  BY DEF Types, ServingTypes
<1>2. OneIf(server # None) \in Nat /\ OneIf(pretended) \in Nat
  BY DEF OneIf
<1> QED BY <1>1, <1>2 DEF Due

\* At most one thread is about to count an object as detached, and what it is to
\* count is there: the count covers all the rest.
LEMMA DetachedCovers ==
  ASSUME Types, Placed, Locked, Detaching, CountsDetached
  PROVE  /\ nDetached >= Due
         /\ \A t \in Threads : at[t] = "met" => nDetached >= 1 + Due
<1>1. nDetached \in Int /\ Due \in Nat
      /\ nDetached + Cardinality(Detachers) = Cardinality(Doomed) + Cardinality(Leavers) + Due
  BY DueIsNat DEF Types, Numbers, CountsDetached
<1>2. CASE Detachers = {}
  <2>1. Cardinality(Detachers) = 0
    BY <1>2, FS_EmptySet
  <2> QED BY <1>1, <2>1, CountsAreNat, ThreadsInside DEF OneIf
<1>3. CASE Detachers # {}
  <2> PICK a \in Detachers : TRUE
    BY <1>3
  <2>1. a \in Threads /\ at[a] = "detach" /\ arg[a] \in Objects
    BY Kinds DEF Detachers, At, Placed, ObjectPhases
  <2>2. Detachers = {a}
    BY <2>1 DEF Locked, Detachers, At
  <2>3. Cardinality(Detachers) = 1
    BY <2>2, FS_Singleton
  <2>4. CASE entry[arg[a]].st = "DEACTIVATING"
    BY <1>1, <2>1, <2>3, <2>4, CountsAreNat, ThreadsInside DEF OneIf
  <2>5. CASE \E u \in Threads : at[u] = "retire" /\ arg[u] = arg[a]
    BY <1>1, <2>1, <2>3, <2>5, CountsAreNat, ThreadsInside DEF OneIf
  <2> QED BY <2>1, <2>4, <2>5 DEF Detaching
<1> QED BY <1>2, <1>3

\* A step of a thread which changes the counts by what it moves between the sets,
\* and no object.
LEMMA CountsFollow ==
  ASSUME Types, CountsInside, CountsOfEntries, CountsDetached,
         NEW t \in Threads, Moves(t),
         UNCHANGED <<entry, queue, server, pretended>>,
         nReqInThis' \in Int, nReqActive' \in Int,
         nReqInThis' + OneIf(at[t] \in InsidePhases)
           = nReqInThis + OneIf(at'[t] \in InsidePhases),
         nReqActive' + OneIf(at[t] \in {"upcall", "leave"})
           = nReqActive + OneIf(at'[t] \in {"upcall", "leave"}),
         \/ /\ nDetached' = nDetached
            /\ at[t] = "detach" <=> at'[t] = "detach"
            /\ at[t] \in {"retire", "met"} <=> at'[t] \in {"retire", "met"}
         \/ nDetached' = nDetached - 1 /\ at[t] = "met" /\ at'[t] = "idle"
         \/ nDetached' = nDetached + 1 /\ at[t] = "detach" /\ at'[t] = "idle",
         at[t] \in UserPhases <=> at'[t] \in UserPhases,
         at[t] \in UserPhases => arg'[t] = arg[t]
  PROVE  CountsInside' /\ CountsOfEntries' /\ CountsDetached'
<1>1. CountsInside'
  BY CountsMove, CountsAreNat DEF CountsInside, Types, Numbers, OneIf
<1>2. CountsOfEntries'
  <2> SUFFICES ASSUME NEW o \in Objects
               PROVE  Cardinality(UsersOf(o))' = Cardinality(UsersOf(o))
    BY DEF CountsOfEntries
  <2>1. Cardinality(UsersOf(o))' + OneIf(at[t] \in UserPhases /\ arg[t] = o)
              = Cardinality(UsersOf(o)) + OneIf(at'[t] \in UserPhases /\ arg'[t] = o)
    BY CountsMove
  <2>2. (at[t] \in UserPhases /\ arg[t] = o) = (at'[t] \in UserPhases /\ arg'[t] = o)
    OBVIOUS
  <2> QED BY <2>1, <2>2, CountsMove, CountsAreNat DEF OneIf
<1>3. CountsDetached'
  <2>1. Doomed' = Doomed
    BY DEF Doomed
  <2>2. Due' = Due /\ Due \in Nat
    BY DueIsNat DEF Due
  <2>3. nDetached + Cardinality(Detachers) = Cardinality(Doomed) + Cardinality(Leavers) + Due
    BY DEF CountsDetached
  <2>4. /\ Cardinality(Detachers)' \in Nat /\ Cardinality(Leavers)' \in Nat
        /\ Cardinality(Detachers)' + OneIf(at[t] = "detach")
             = Cardinality(Detachers) + OneIf(at'[t] = "detach")
        /\ Cardinality(Leavers)' + OneIf(at[t] \in {"retire", "met"})
             = Cardinality(Leavers) + OneIf(at'[t] \in {"retire", "met"})
    BY CountsMove
  <2>5. nDetached \in Int
    BY DEF Types, Numbers
  <2>6. nDetached' + Cardinality(Detachers)' = Cardinality(Doomed) + Cardinality(Leavers)' + Due
    <3>1. CASE /\ nDetached' = nDetached
               /\ at[t] = "detach" <=> at'[t] = "detach"
               /\ at[t] \in {"retire", "met"} <=> at'[t] \in {"retire", "met"}
      BY <2>2, <2>3, <2>4, <2>5, <3>1, CountsAreNat DEF OneIf
    <3>2. CASE nDetached' = nDetached - 1 /\ at[t] = "met" /\ at'[t] = "idle"
      BY <2>2, <2>3, <2>4, <2>5, <3>2, CountsAreNat DEF OneIf
    <3>3. CASE nDetached' = nDetached + 1 /\ at[t] = "detach" /\ at'[t] = "idle"
      BY <2>2, <2>3, <2>4, <2>5, <3>3, CountsAreNat DEF OneIf
    <3> QED BY <3>1, <3>2, <3>3
  <2> QED BY <2>1, <2>2, <2>6 DEF CountsDetached
<1> QED BY <1>1, <1>2, <1>3

LEMMA ClosingMove ==
  ASSUME Closing, NEW t \in Threads, Moves(t), UNCHANGED <<job, list, pd_lock, nDetached>>,
         job["destroy"] \in {"close", "take", "join", "end", "done"}
           /\ at'[t] \in InsidePhases => at'[t] \in {"sa_check", "leave"}
  PROVE  Closing'
BY DEF Closing, Moves

-----------------------------------------------------------------------------
(* Steps of a thread that leave every object as it is. *)

\* Such a step moves a thread between places that say the same of the objects.
QuietPlaces(t) ==
  /\ Quiet(t)
  /\ at[t] \notin {"detach", "working", "destroying"} /\ at'[t] # "detach"
  /\ t \in Callers => at'[t] \in CallerPhases
  /\ t \in Apps => at'[t] \in AppPhases
  /\ at'[t] \in ObjectPhases => arg'[t] \in Objects
  /\ at[t] \in UserPhases <=> at'[t] \in UserPhases
  /\ at[t] \in UserPhases => arg'[t] = arg[t]

\* The counts follow it.
QuietCounts(t) ==
  /\ nReqInThis' + OneIf(at[t] \in InsidePhases)
       = nReqInThis + OneIf(at'[t] \in InsidePhases)
  /\ nReqActive' + OneIf(at[t] \in {"upcall", "leave"})
       = nReqActive + OneIf(at'[t] \in {"upcall", "leave"})
  /\ \/ /\ nDetached' = nDetached
        /\ at[t] \in {"retire", "met"} <=> at'[t] \in {"retire", "met"}
     \/ nDetached' = nDetached - 1 /\ at[t] = "met" /\ at'[t] = "idle"

LEMMA QuietStep ==
  ASSUME IInv, Types', NEW t \in Threads, Moves(t), QuietPlaces(t), QuietCounts(t),
         UNCHANGED <<pd_lock, pretended, entry, list, queue, server>>
  PROVE  /\ Placed' /\ Locked'
         /\ Used' /\ Owned' /\ OneOwner' /\ Queued' /\ Kept' /\ Detaching'
         /\ CountsInside' /\ CountsOfEntries' /\ CountsDetached'
<1> USE DEF IInv
<1>1. Placed' /\ Locked'
  BY PlainMove DEF QuietPlaces
<1>2. Used' /\ Owned' /\ OneOwner' /\ Queued' /\ Kept' /\ Detaching'
  <2>1. \A u \in Threads : Quiet(u)
    BY DEF Moves, Quiet, QuietPlaces
  <2> QED BY <2>1, QuietMove
<1>3. CountsInside' /\ CountsOfEntries' /\ CountsDetached'
  <2>1. nReqInThis' \in Int /\ nReqActive' \in Int
    BY DEF Types, Numbers
  <2> QED BY <2>1, CountsFollow DEF QuietPlaces, QuietCounts
<1> QED BY <1>1, <1>2, <1>3

\* What it leaves to be shown, if the jobs are where they were.
LEMMA QuietStepKeeps ==
  ASSUME IInv, Types', NEW t \in Threads, Moves(t), QuietPlaces(t), QuietCounts(t),
         UNCHANGED <<pd_lock, by, pretended, entry, list, queue, server,
                     job, life, listed, pd_rq_state, pd_state, eth>>,
         at'[t] \in InsidePhases => \/ at'[t] \in {"sa_check", "leave"}
                                    \/ at[t] \in InsidePhases \ {"sa_check", "leave"}
                                    \/ life \in {"alive", "dying"} /\ job["destroy"] # "close"
  PROVE  IInv'
<1> USE DEF IInv
<1>1. Destruction' /\ Deactivation' /\ Lists'
  BY DEF Destruction, Deactivation, Lists
<1>2. UNCHANGED nDetached \/ (at[t] = "met" /\ job["destroy"] \notin {"end", "done"})
  <2>1. ASSUME at[t] = "met" PROVE nDetached # 0
    <3>1. nDetached >= 1 + Due /\ Due \in Nat
      BY <2>1, DetachedCovers, DueIsNat
    <3> QED BY <3>1
  <2> QED BY <2>1 DEF QuietCounts, Closing
<1>3. Closing'
  <2>1. life \in {"alive", "dying"} /\ job["destroy"] # "close"
          => job["destroy"] \notin {"close", "take", "join", "end", "done"}
    BY DEF Destruction
  <2> QED BY <1>2, <2>1 DEF Closing, Moves
<1>4. Waiters'
  BY WaitersStay DEF Types, QuietPlaces
<1> QED BY <1>1, <1>3, <1>4, QuietStep

-----------------------------------------------------------------------------
(* Requests and operations that wait, go on or end. *)

LEMMA HeldTimesOutKeeps ==
  ASSUME IInv, NEW r \in Callers, HeldTimesOut(r)
  PROVE  IInv'
<1> USE Kinds DEF IInv, Types
<1>1. /\ Moves(r) /\ at[r] = "held"
      /\ at'[r] = "leave" /\ arg'[r] = arg[r]
  BY DEF HeldTimesOut, ThreadTypes, Moves, threads, Go, Ends
<1>2. UNCHANGED <<pd_lock, by, pretended, entry, list, queue, server,
                  job, life, listed, pd_rq_state, pd_state, eth>>
  BY DEF HeldTimesOut, manager, objects, jobs, serving
<1>3. Types'
  BY <1>2 DEF HeldTimesOut, Flags, Numbers, EntryTypes, ThreadTypes, Sleepers, JobTypes, ServingTypes, policy,
     manager, counts, threads, bounds, Go, Ends, CallerPhases, AppPhases, Threads
<1>4. QuietPlaces(r)
  BY <1>1 DEF QuietPlaces, Quiet, Placed, CallerPhases, AppPhases, ObjectPhases, OwnerPhases,
     ReservePhases, GivingPhases, UserPhases
<1>5. QuietCounts(r)
  BY <1>1 DEF HeldTimesOut, QuietCounts, InsidePhases, OneIf, Numbers, counts, Exited
<1> QED BY <1>1, <1>2, <1>3, <1>4, <1>5, QuietStepKeeps DEF InsidePhases

LEMMA UpcallReturnsKeeps ==
  ASSUME IInv, NEW r \in Callers, UpcallReturns(r)
  PROVE  IInv'
<1> USE Kinds DEF IInv, Types
<1>1. /\ Moves(r) /\ at[r] = "upcall"
      /\ at'[r] = "leave" /\ arg'[r] = arg[r]
  BY DEF UpcallReturns, ThreadTypes, Moves, threads, Go, Ends
<1>2. UNCHANGED <<pd_lock, by, pretended, entry, list, queue, server,
                  job, life, listed, pd_rq_state, pd_state, eth>>
  BY DEF UpcallReturns, manager, objects, jobs, serving
<1>3. Types'
  BY <1>2 DEF UpcallReturns, Flags, Numbers, EntryTypes, ThreadTypes, Sleepers, JobTypes, ServingTypes, policy,
     manager, counts, threads, bounds, Go, Ends, CallerPhases, AppPhases, Threads
<1>4. QuietPlaces(r)
  BY <1>1 DEF QuietPlaces, Quiet, Placed, CallerPhases, AppPhases, ObjectPhases, OwnerPhases,
     ReservePhases, GivingPhases, UserPhases
<1>5. QuietCounts(r)
  BY <1>1 DEF UpcallReturns, QuietCounts, InsidePhases, OneIf, Numbers, counts, Exited
<1> QED BY <1>1, <1>2, <1>3, <1>4, <1>5, QuietStepKeeps DEF InsidePhases

LEMMA IncarnateKeeps ==
  ASSUME IInv, NEW r \in Callers, Incarnate(r)
  PROVE  IInv'
<1> USE Kinds DEF IInv, Types
<1>1. /\ Moves(r) /\ at[r] = "sa_ready"
      /\ at'[r] = "incarnate" /\ arg'[r] = arg[r]
  BY DEF Incarnate, ThreadTypes, Moves, threads, Go, Ends
<1>2. UNCHANGED <<pd_lock, by, pretended, entry, list, queue, server,
                  job, life, listed, pd_rq_state, pd_state, eth>>
  BY DEF Incarnate, manager, objects, jobs, serving
<1>3. Types'
  BY <1>2 DEF Incarnate, Flags, Numbers, EntryTypes, ThreadTypes, Sleepers, JobTypes, ServingTypes, policy,
     manager, counts, threads, bounds, Go, Ends, CallerPhases, AppPhases, Threads
<1>4. QuietPlaces(r)
  BY <1>1 DEF QuietPlaces, Quiet, Placed, CallerPhases, AppPhases, ObjectPhases, OwnerPhases,
     ReservePhases, GivingPhases, UserPhases
<1>5. QuietCounts(r)
  BY <1>1 DEF Incarnate, QuietCounts, InsidePhases, OneIf, Numbers, counts, Exited
<1> QED BY <1>1, <1>2, <1>3, <1>4, <1>5, QuietStepKeeps DEF InsidePhases

LEMMA IncarnatedKeeps ==
  ASSUME IInv, NEW r \in Callers, Incarnated(r)
  PROVE  IInv'
<1> USE Kinds DEF IInv, Types
<1>1. /\ Moves(r) /\ at[r] = "incarnate"
      /\ at'[r] = "incarnated" /\ arg'[r] = arg[r]
  BY DEF Incarnated, ThreadTypes, Moves, threads, Go, Ends
<1>2. UNCHANGED <<pd_lock, by, pretended, entry, list, queue, server,
                  job, life, listed, pd_rq_state, pd_state, eth>>
  BY DEF Incarnated, manager, objects, jobs, serving
<1>3. Types'
  BY <1>2 DEF Incarnated, Flags, Numbers, EntryTypes, ThreadTypes, Sleepers, JobTypes, ServingTypes, policy,
     manager, counts, threads, bounds, Go, Ends, CallerPhases, AppPhases, Threads
<1>4. QuietPlaces(r)
  BY <1>1 DEF QuietPlaces, Quiet, Placed, CallerPhases, AppPhases, ObjectPhases, OwnerPhases,
     ReservePhases, GivingPhases, UserPhases
<1>5. QuietCounts(r)
  BY <1>1 DEF Incarnated, QuietCounts, InsidePhases, OneIf, Numbers, counts, Exited
<1> QED BY <1>1, <1>2, <1>3, <1>4, <1>5, QuietStepKeeps DEF InsidePhases

LEMMA SaExitKeeps ==
  ASSUME IInv, NEW r \in Callers, SaExit(r)
  PROVE  IInv'
<1> USE Kinds DEF IInv, Types
<1>1. /\ Moves(r) /\ at[r] = "sa_exit"
      /\ at'[r] = "idle" /\ arg'[r] = None
  BY DEF SaExit, ThreadTypes, Moves, threads, Go, Ends
<1>2. UNCHANGED <<pd_lock, by, pretended, entry, list, queue, server,
                  job, life, listed, pd_rq_state, pd_state, eth>>
  BY DEF SaExit, manager, objects, jobs, serving
<1>3. Types'
  BY <1>2 DEF SaExit, Flags, Numbers, EntryTypes, ThreadTypes, Sleepers, JobTypes, ServingTypes, policy,
     manager, counts, threads, bounds, Go, Ends, CallerPhases, AppPhases, Threads, AfterExit, Exited
<1>4. QuietPlaces(r)
  BY <1>1 DEF QuietPlaces, Quiet, Placed, CallerPhases, AppPhases, ObjectPhases, OwnerPhases,
     ReservePhases, GivingPhases, UserPhases
<1>5. QuietCounts(r)
  BY <1>1 DEF SaExit, QuietCounts, InsidePhases, OneIf, Numbers, counts, Exited
<1> QED BY <1>1, <1>2, <1>3, <1>4, <1>5, QuietStepKeeps DEF InsidePhases

LEMMA MetKeeps ==
  ASSUME IInv, NEW t \in Threads, Met(t)
  PROVE  IInv'
<1> USE Kinds DEF IInv, Types
<1>1. /\ Moves(t) /\ at[t] = "met"
      /\ at'[t] = "idle" /\ arg'[t] = None
  BY DEF Met, ThreadTypes, Moves, threads, Go, Ends
<1>2. UNCHANGED <<pd_lock, by, pretended, entry, list, queue, server,
                  job, life, listed, pd_rq_state, pd_state, eth>>
  BY DEF Met, manager, objects, jobs, serving
<1>3. Types'
  BY <1>2 DEF Met, Flags, Numbers, EntryTypes, ThreadTypes, Sleepers, JobTypes, ServingTypes, policy,
     manager, counts, threads, bounds, Go, Ends, CallerPhases, AppPhases, Threads
<1>4. QuietPlaces(t)
  BY <1>1 DEF QuietPlaces, Quiet, Placed, CallerPhases, AppPhases, ObjectPhases, OwnerPhases,
     ReservePhases, GivingPhases, UserPhases
<1>5. QuietCounts(t)
  BY <1>1 DEF Met, QuietCounts, InsidePhases, OneIf, Numbers, counts, Exited
<1> QED BY <1>1, <1>2, <1>3, <1>4, <1>5, QuietStepKeeps DEF InsidePhases

LEMMA PmSleepsKeeps ==
  ASSUME IInv, NEW a \in Apps, PmSleeps(a)
  PROVE  IInv'
<1> USE Kinds DEF IInv, Types
<1>1. /\ Moves(a) /\ at[a] = "pm_check"
      /\ at'[a] = "pm_sleep" /\ arg'[a] = arg[a]
  BY DEF PmSleeps, ThreadTypes, Moves, threads, Go, Ends
<1>2. UNCHANGED <<pd_lock, by, pretended, entry, list, queue, server,
                  job, life, listed, pd_rq_state, pd_state, eth>>
  BY DEF PmSleeps, manager, objects, jobs, serving
<1>3. Types'
  BY <1>2 DEF PmSleeps, Flags, Numbers, EntryTypes, ThreadTypes, Sleepers, JobTypes, ServingTypes, policy,
     manager, counts, threads, bounds, Go, Ends, CallerPhases, AppPhases, Threads
<1>4. QuietPlaces(a)
  BY <1>1 DEF QuietPlaces, Quiet, Placed, CallerPhases, AppPhases, ObjectPhases, OwnerPhases,
     ReservePhases, GivingPhases, UserPhases
<1>5. QuietCounts(a)
  BY <1>1 DEF PmSleeps, QuietCounts, InsidePhases, OneIf, Numbers, counts, Exited
<1> QED BY <1>1, <1>2, <1>3, <1>4, <1>5, QuietStepKeeps DEF InsidePhases

LEMMA PmDeactivateAgainKeeps ==
  ASSUME IInv, NEW a \in Apps, PmDeactivateAgain(a)
  PROVE  IInv'
<1> USE Kinds DEF IInv, Types
<1>1. /\ Moves(a) /\ at[a] = "idle"
      /\ at'[a] = "pm_check" /\ arg'[a] = arg[a]
  BY DEF PmDeactivateAgain, Call, ThreadTypes, Moves, threads, Go, Ends
<1>2. UNCHANGED <<pd_lock, by, pretended, entry, list, queue, server,
                  job, life, listed, pd_rq_state, pd_state, eth>>
  BY DEF PmDeactivateAgain, manager, objects, jobs, serving
<1>3. Types'
  <2>1. Flags'
    BY BoundsAssumption, <1>2 DEF PmDeactivateAgain, Call, Flags, policy, manager
  <2>2. ThreadTypes'
    BY DEF PmDeactivateAgain, ThreadTypes, AppPhases, Go
  <2> QED BY <1>2, <2>1, <2>2
         DEF PmDeactivateAgain, Numbers, EntryTypes, Sleepers, JobTypes, ServingTypes, counts
<1>4. QuietPlaces(a)
  BY <1>1 DEF QuietPlaces, Quiet, Placed, CallerPhases, AppPhases, ObjectPhases, OwnerPhases,
     ReservePhases, GivingPhases, UserPhases
<1>5. QuietCounts(a)
  BY <1>1 DEF PmDeactivateAgain, QuietCounts, InsidePhases, OneIf, Numbers, counts, Exited
<1> QED BY <1>1, <1>2, <1>3, <1>4, <1>5, QuietStepKeeps DEF InsidePhases

LEMMA DestroyAgainKeeps ==
  ASSUME IInv, NEW a \in Apps, DestroyAgain(a)
  PROVE  IInv'
<1> USE Kinds DEF IInv, Types
<1>1. /\ Moves(a) /\ at[a] = "idle"
      /\ at'[a] = "join" /\ arg'[a] = arg[a]
  BY DEF DestroyAgain, Call, ThreadTypes, Moves, threads, Go, Ends
<1>2. UNCHANGED <<pd_lock, by, pretended, entry, list, queue, server,
                  job, life, listed, pd_rq_state, pd_state, eth>>
  BY DEF DestroyAgain, manager, objects, jobs, serving
<1>3. Types'
  <2>1. Flags'
    BY BoundsAssumption, <1>2 DEF DestroyAgain, Call, Flags, policy, manager
  <2>2. ThreadTypes'
    BY DEF DestroyAgain, ThreadTypes, AppPhases, Go
  <2> QED BY <1>2, <2>1, <2>2
         DEF DestroyAgain, Numbers, EntryTypes, Sleepers, JobTypes, ServingTypes, counts
<1>4. QuietPlaces(a)
  BY <1>1 DEF QuietPlaces, Quiet, Placed, CallerPhases, AppPhases, ObjectPhases, OwnerPhases,
     ReservePhases, GivingPhases, UserPhases
<1>5. QuietCounts(a)
  BY <1>1 DEF DestroyAgain, QuietCounts, InsidePhases, OneIf, Numbers, counts, Exited
<1> QED BY <1>1, <1>2, <1>3, <1>4, <1>5, QuietStepKeeps DEF InsidePhases

LEMMA DestroyedKeeps ==
  ASSUME IInv, NEW a \in Apps, Destroyed(a)
  PROVE  IInv'
<1> USE Kinds DEF IInv, Types
<1>1. /\ Moves(a) /\ at[a] = "join"
      /\ at'[a] = "idle" /\ arg'[a] = None
  BY DEF Destroyed, ThreadTypes, Moves, threads, Go, Ends
<1>2. UNCHANGED <<pd_lock, by, pretended, entry, list, queue, server,
                  job, life, listed, pd_rq_state, pd_state, eth>>
  BY DEF Destroyed, manager, objects, jobs, serving
<1>3. Types'
  BY <1>2 DEF Destroyed, Flags, Numbers, EntryTypes, ThreadTypes, Sleepers, JobTypes, ServingTypes, policy,
     manager, counts, threads, bounds, Go, Ends, CallerPhases, AppPhases, Threads
<1>4. QuietPlaces(a)
  BY <1>1 DEF QuietPlaces, Quiet, Placed, CallerPhases, AppPhases, ObjectPhases, OwnerPhases,
     ReservePhases, GivingPhases, UserPhases
<1>5. QuietCounts(a)
  BY <1>1 DEF Destroyed, QuietCounts, InsidePhases, OneIf, Numbers, counts, Exited
<1> QED BY <1>1, <1>2, <1>3, <1>4, <1>5, QuietStepKeeps DEF InsidePhases

LEMMA PmWaitsKeeps ==
  ASSUME IInv, NEW a \in Apps, PmWaits(a)
  PROVE  IInv'
<1> USE Kinds DEF IInv, Types
<1>1. /\ Moves(a) /\ at[a] \in {"HOLDING", "DISCARDING"}
      /\ at'[a] \in {at[a], "idle"} /\ arg'[a] \in {arg[a], None}
  BY DEF PmWaits, ThreadTypes, Moves, threads, Go, Ends
<1>2. UNCHANGED <<pd_lock, by, pretended, entry, list, queue, server,
                  job, life, listed, pd_rq_state, pd_state, eth>>
  BY DEF PmWaits, manager, objects, jobs, serving
<1>3. Types'
  <2>1. Flags' /\ Numbers' /\ EntryTypes' /\ JobTypes' /\ ServingTypes'
    BY <1>2 DEF PmWaits, Flags, Numbers, EntryTypes, JobTypes, ServingTypes, policy, manager,
       counts, bounds
  <2>2. Sleepers'
    BY DEF PmWaits, Sleepers
  <2>3. ThreadTypes'
    <3>1. CASE UNCHANGED threads
      BY <3>1 DEF threads, ThreadTypes
    <3>2. CASE Ends(a)
      BY <3>2 DEF Ends, ThreadTypes, CallerPhases
    <3> QED BY <3>1, <3>2 DEF PmWaits
  <2> QED BY <2>1, <2>2, <2>3
<1>4. QuietPlaces(a)
  BY <1>1 DEF QuietPlaces, Quiet, Placed, CallerPhases, AppPhases, ObjectPhases, OwnerPhases,
     ReservePhases, GivingPhases, UserPhases
<1>5. QuietCounts(a)
  BY <1>1 DEF PmWaits, QuietCounts, InsidePhases, OneIf, Numbers, counts, Exited
<1> QED BY <1>1, <1>2, <1>3, <1>4, <1>5, QuietStepKeeps DEF InsidePhases

LEMMA HeldGoesOnKeeps ==
  ASSUME IInv, NEW r \in Callers, HeldGoesOn(r)
  PROVE  IInv'
<1> USE Kinds DEF IInv, Types
<1>1. /\ Moves(r) /\ at[r] = "held"
      /\ at'[r] \in {"held", "upcall", "leave"} /\ arg'[r] = arg[r]
  BY DEF HeldGoesOn, ThreadTypes, Moves, threads, Go, Ends
<1>2. UNCHANGED <<pd_lock, by, pretended, entry, list, queue, server,
                  job, life, listed, pd_rq_state, pd_state, eth>>
  BY DEF HeldGoesOn, manager, objects, jobs, serving
<1>3. Types'
  <2>1. Numbers'
    BY DEF HeldGoesOn, Numbers
  <2>2. ThreadTypes'
    BY DEF HeldGoesOn, ThreadTypes, CallerPhases, Go
  <2>3. Sleepers'
    BY DEF HeldGoesOn, Sleepers
  <2> QED BY <1>2, <2>1, <2>2, <2>3
         DEF HeldGoesOn, Flags, EntryTypes, JobTypes, ServingTypes, policy, manager, bounds
<1>4. QuietPlaces(r)
  BY <1>1 DEF QuietPlaces, Quiet, Placed, CallerPhases, AppPhases, ObjectPhases, OwnerPhases,
     ReservePhases, GivingPhases, UserPhases
<1>5. QuietCounts(r)
  <2>1. \/ nReqActive' = nReqActive /\ at'[r] = "held"
        \/ nReqActive' = nReqActive + 1 /\ at'[r] \in {"upcall", "leave"}
    BY <1>1 DEF HeldGoesOn, ThreadTypes, Go
  <2>2. UNCHANGED <<nReqInThis, nDetached>>
    BY DEF HeldGoesOn
  <2> QED BY <1>1, <2>1, <2>2 DEF QuietCounts, InsidePhases, OneIf, Numbers
<1> QED BY <1>1, <1>2, <1>3, <1>4, <1>5, QuietStepKeeps DEF InsidePhases

-----------------------------------------------------------------------------
(* Operations of the manager, and destroy(). *)

\* The manager's state reaches the POA as long as the POA is on its list.
LEMMA ManagerTells ==
  ASSUME IInv, NEW s \in {"HOLDING", "ACTIVE", "DISCARDING"}, ChangeState(s),
         pd_state # "INACTIVE",
         UNCHANGED <<job, by, eth, pretended, life, listed, entry, list>>
  PROVE  /\ Destruction' /\ Deactivation' /\ Lists'
         /\ pd_state' \in PmStates /\ pd_rq_state' \in PmStates
<1> USE DEF IInv, ChangeState
<1>1. Destruction'
  BY DEF Destruction
<1>2. Deactivation'
  BY DEF Deactivation
<1>3. Lists'
  BY DEF Lists
<1> QED BY <1>1, <1>2, <1>3 DEF Types, Flags, PmStates

LEMMA PmActivateKeeps ==
  ASSUME IInv, NEW a \in Apps, PmActivate(a)
  PROVE  IInv'
<1> USE Kinds DEF IInv
<1>1. /\ at[a] = "idle" /\ pd_state # "INACTIVE" /\ ChangeState("ACTIVE")
      /\ UNCHANGED <<activator, holdTimeout, pd_deactivated, listed, life, nReqInThis, nReqActive,
                     nDetached, pd_lock, entry, list, at, arg, job, by, eth, pretended, queue,
                     server, calls>>
  BY DEF PmActivate, Call, policy, counts, objects, threads, jobs, serving
<1>2. Destruction' /\ Deactivation' /\ Lists' /\ pd_state' \in PmStates
      /\ pd_rq_state' \in PmStates
  BY <1>1, ManagerTells
<1>3. Types'
  <2>1. Flags'
    BY <1>1, <1>2, BoundsAssumption DEF PmActivate, Call, Types, Flags
  <2>2. Sleepers'
    BY <1>1 DEF ChangeState, Types, Sleepers
  <2> QED BY <1>1, <2>1, <2>2
         DEF Types, Numbers, EntryTypes, ThreadTypes, JobTypes, ServingTypes
<1>4. Moves(a) /\ QuietPlaces(a) /\ QuietCounts(a)
  BY <1>1 DEF Moves, QuietPlaces, Quiet, QuietCounts, Placed
<1>5. Waiters' /\ Closing'
  BY <1>1 DEF Waiters, Closing
<1> QED BY <1>1, <1>2, <1>3, <1>4, <1>5, QuietStep

LEMMA PmStopKeeps ==
  ASSUME IInv, NEW a \in Apps, NEW s \in {"HOLDING", "DISCARDING"}, NEW wait \in BOOLEAN,
         PmStop(a, s, wait)
  PROVE  IInv'
<1> USE Kinds DEF IInv
<1>1. /\ at[a] = "idle" /\ pd_state # "INACTIVE" /\ ChangeState(s)
      /\ UNCHANGED <<activator, holdTimeout, pd_deactivated, listed, life, nReqInThis, nReqActive,
                     nDetached, pd_lock, entry, list, arg, job, by, eth, pretended, queue,
                     server, calls>>
  BY DEF PmStop, Call, policy, counts, objects, threads, jobs, serving
<1>2. Destruction' /\ Deactivation' /\ Lists' /\ pd_state' \in PmStates
      /\ pd_rq_state' \in PmStates
  BY <1>1, ManagerTells
<1>3. Moves(a) /\ at'[a] \in {"HOLDING", "DISCARDING", "idle"} /\ arg' = arg
  BY <1>1 DEF PmStop, Moves, Types, ThreadTypes
<1>4. Types'
  <2>1. Flags'
    BY <1>1, <1>2, BoundsAssumption DEF PmStop, Call, Types, Flags
  <2>2. Sleepers'
    BY <1>1 DEF ChangeState, Types, Sleepers
  <2>3. ThreadTypes'
    BY DEF PmStop, Types, ThreadTypes, AppPhases
  <2> QED BY <1>1, <2>1, <2>2, <2>3 DEF Types, Numbers, EntryTypes, JobTypes, ServingTypes
<1>5. QuietPlaces(a)
  BY <1>1, <1>3 DEF QuietPlaces, Quiet, AppPhases, ObjectPhases, OwnerPhases, ReservePhases,
     GivingPhases, UserPhases
<1>6. QuietCounts(a)
  BY <1>1, <1>3 DEF QuietCounts, InsidePhases, OneIf
<1>7. Waiters'
  BY <1>1, <1>3, WaitersStay DEF Types
<1>8. Closing'
  BY <1>1, <1>3, ClosingMove DEF InsidePhases
<1> QED BY <1>1, <1>2, <1>3, <1>4, <1>5, <1>6, <1>7, <1>8, QuietStep

LEMMA PmDeactivateKeeps ==
  ASSUME IInv, NEW a \in Apps, NEW e \in BOOLEAN, NEW wait \in BOOLEAN,
         PmDeactivate(a, e, wait)
  PROVE  IInv'
<1> USE Kinds DEF IInv
<1>1. /\ at[a] = "idle" /\ pd_state # "INACTIVE" /\ ChangeState("INACTIVE")
      /\ UNCHANGED <<activator, holdTimeout, pd_deactivated, listed, life, nReqInThis, nReqActive,
                     nDetached, pd_lock, entry, list, arg, pretended, queue, server, calls>>
  BY DEF PmDeactivate, Call, policy, counts, objects, serving
<1>2. /\ Moves(a) /\ at'[a] \in {"working", "idle"} /\ arg' = arg
      /\ by'["destroy"] = by["destroy"]
      /\ by'["deactivate"] = None \/ (by'["deactivate"] = a /\ at'[a] = "working")
  BY <1>1 DEF PmDeactivate, Moves, Types, ThreadTypes, JobTypes, Jobs
<1>3. /\ job'["destroy"] = job["destroy"] /\ job["deactivate"] = "none"
      /\ job'["deactivate"] \in {"start", "flag"}
  BY <1>1 DEF PmDeactivate, Types, JobTypes, Deactivation, Jobs
<1>4. Types'
  <2>1. Flags'
    BY <1>1, BoundsAssumption DEF PmDeactivate, ChangeState, Call, Types, Flags, PmStates
  <2>2. Sleepers'
    BY <1>1 DEF ChangeState, Types, Sleepers
  <2>3. ThreadTypes'
    BY DEF PmDeactivate, Types, ThreadTypes, AppPhases, threads
  <2>4. JobTypes'
    BY <1>1 DEF PmDeactivate, Types, JobTypes, JobPhases
  <2> QED BY <1>1, <2>1, <2>2, <2>3, <2>4 DEF Types, Numbers, EntryTypes, ServingTypes
<1>5. QuietPlaces(a)
  BY <1>1, <1>2 DEF QuietPlaces, Quiet, AppPhases, ObjectPhases, OwnerPhases, ReservePhases,
     GivingPhases, UserPhases
<1>6. QuietCounts(a)
  BY <1>1, <1>2 DEF QuietCounts, InsidePhases, OneIf
<1>7. Waiters'
  BY <1>1, <1>2 DEF Waiters, Moves, Types, JobTypes
<1>8. Destruction'
  BY <1>1, <1>3 DEF Destruction, ChangeState
<1>9. Deactivation'
  BY <1>1, <1>3 DEF Deactivation, ChangeState, DeactivatePhases
<1>10. Lists'
  BY <1>1, <1>3 DEF Lists
<1>11. Closing'
  BY <1>1, <1>2, <1>3 DEF Closing, Moves, InsidePhases
<1> QED BY <1>1, <1>2, <1>4, <1>5, <1>6, <1>7, <1>8, <1>9, <1>10, <1>11, QuietStep

LEMMA DestroyKeeps ==
  ASSUME IInv, NEW a \in Apps, NEW e \in BOOLEAN, NEW wait \in BOOLEAN,
         Destroy(a, e, wait)
  PROVE  IInv'
<1> USE Kinds DEF IInv
<1>1. /\ at[a] = "idle" /\ life = "alive" /\ life' = "dying"
      /\ UNCHANGED <<activator, holdTimeout, pd_state, pd_deactivated, listed, pd_rq_state,
                     nReqInThis, nReqActive, nDetached, pd_lock, entry, list, arg, asleep,
                     pretended, queue, server, calls>>
  BY DEF Destroy, Call, policy, manager, counts, objects, serving
<1>2. /\ Moves(a) /\ at'[a] \in {"working", "destroying"} /\ arg' = arg
      /\ by'["deactivate"] = by["deactivate"] /\ by'["destroy"] = a
  BY <1>1 DEF Destroy, Moves, Types, ThreadTypes, JobTypes, Go, Jobs
<1>3. /\ job'["deactivate"] = job["deactivate"] /\ job["destroy"] = "none"
      /\ job'["destroy"] = "discard" /\ eth'["deactivate"] = eth["deactivate"]
  BY <1>1 DEF Destroy, Types, JobTypes, Destruction, Jobs
<1>4. Types'
  <2>1. Flags'
    BY <1>1, BoundsAssumption DEF Destroy, Call, Types, Flags
  <2>2. ThreadTypes'
    BY DEF Destroy, Go, Types, ThreadTypes, AppPhases
  <2>3. JobTypes'
    BY <1>1 DEF Destroy, Types, JobTypes, JobPhases
  <2> QED BY <1>1, <2>1, <2>2, <2>3 DEF Types, Numbers, EntryTypes, Sleepers, ServingTypes
<1>5. QuietPlaces(a)
  BY <1>1, <1>2 DEF QuietPlaces, Quiet, AppPhases, ObjectPhases, OwnerPhases, ReservePhases,
     GivingPhases, UserPhases
<1>6. QuietCounts(a)
  BY <1>1, <1>2 DEF QuietCounts, InsidePhases, OneIf
<1>7. Waiters'
  BY <1>1, <1>2 DEF Waiters, Moves, Types, JobTypes
<1>8. Destruction'
  BY <1>1, <1>3 DEF Destruction, DestroyPhases
<1>9. Deactivation'
  BY <1>1, <1>3 DEF Deactivation
<1>10. Lists'
  BY <1>1, <1>3 DEF Lists
<1>11. Closing'
  BY <1>1, <1>2, <1>3 DEF Closing
<1> QED BY <1>1, <1>2, <1>4, <1>5, <1>6, <1>7, <1>8, <1>9, <1>10, <1>11, QuietStep

-----------------------------------------------------------------------------
(* Steps of a thread with one object. *)

\* Of the objects, only o may change its state, its list or its place in a queue.
OnlyObject(o) == \A p \in Objects : p # o =>
  /\ entry'[p] = entry[p] /\ list'[p] = list[p]
  /\ InHand(p)' <=> InHand(p)

\* The thread has no other object, before and after.
WorksOn(t, o) ==
  /\ at[t] \in OwnerPhases \cup UserPhases => arg[t] = o
  /\ at'[t] \in OwnerPhases \cup UserPhases \cup {"detach"} => arg'[t] = o
  /\ at[t] # "detach"

\* What must then be true of the object afterwards.
ObjectLeft(t, o) ==
  /\ (at'[t] \in UserPhases \/ \E u \in Threads : u # t /\ at[u] \in UserPhases /\ arg[u] = o)
       => entry'[o].st \in Present
  /\ at'[t] \in ReservePhases => entry'[o].st = "ACTIVATING"
  /\ at'[t] \in GivingPhases \/ InHand(o)'
       => entry'[o].st = "ETHEREALISING" /\ list'[o] = "none"
  /\ ~(at'[t] \in GivingPhases /\ InHand(o)')
  /\ entry'[o].st = "ETHEREALISING" /\ list'[o] = "none"
       => at'[t] \in GivingPhases \/ InHand(o)'
  /\ at'[t] = "detach" => entry'[o].st = "DEACTIVATING"
  /\ (\E u \in Threads : u # t /\ at[u] = "detach" /\ arg[u] = o)
       => entry'[o].st = "DEACTIVATING" \/ at'[t] = "retire"
  /\ \A u \in Threads : u # t /\ arg[u] = o => at[u] \notin OwnerPhases

LEMMA ObjectStep ==
  ASSUME Used, Owned, OneOwner, Queued, Kept, Detaching,
         NEW t \in Threads, NEW o \in Objects, Moves(t), OnlyObject(o), WorksOn(t, o),
         ObjectLeft(t, o)
  PROVE  /\ Used' /\ Owned' /\ OneOwner' /\ Kept' /\ Detaching'
         /\ \A p \in Objects : InHand(p)' => entry'[p].st = "ETHEREALISING" /\ list'[p] = "none"
<1> USE DEF Moves, OnlyObject, WorksOn, ObjectLeft, OwnerPhases
<1>1. Used'
  BY DEF Used
<1>2. Owned'
  BY DEF Owned, UserPhases, ReservePhases, GivingPhases
<1>3. OneOwner'
  BY DEF OneOwner
<1>4. Kept'
  <2> SUFFICES ASSUME NEW p \in Objects, entry'[p].st = "ETHEREALISING", list'[p] = "none",
                      ~InHand(p)'
               PROVE  \E u \in Threads : at'[u] \in GivingPhases /\ arg'[u] = p
    BY DEF Kept
  <2>1. CASE p = o
    BY <2>1
  <2>2. CASE p # o
    <3>1. PICK u \in Threads : at[u] \in GivingPhases /\ arg[u] = p
      BY <2>2 DEF Kept
    <3> QED BY <2>2, <3>1
  <2> QED BY <2>1, <2>2
<1>5. Detaching'
  <2> SUFFICES ASSUME NEW u \in Threads, NEW p \in Objects, at'[u] = "detach", arg'[u] = p,
                      entry'[p].st # "DEACTIVATING"
               PROVE  \E v \in Threads : at'[v] = "retire" /\ arg'[v] = p
    BY DEF Detaching
  <2>1. CASE p = o
    <3>1. u # t /\ at[u] = "detach" /\ arg[u] = o
      BY <2>1
    <3>2. at'[t] = "retire"
      BY <2>1, <3>1
    <3> QED BY <2>1, <3>2 DEF GivingPhases
  <2>2. CASE p # o
    <3>1. u # t
      BY <2>2
    <3>2. PICK v \in Threads : at[v] = "retire" /\ arg[v] = p
      BY <2>2, <3>1 DEF Detaching
    <3>3. v # t
      BY <2>2, <3>2 DEF GivingPhases
    <3> QED BY <3>2, <3>3
  <2> QED BY <2>1, <2>2
<1>6. \A p \in Objects : InHand(p)' => entry'[p].st = "ETHEREALISING" /\ list'[p] = "none"
  BY DEF Queued
<1> QED BY <1>1, <1>2, <1>3, <1>4, <1>5, <1>6

\* The object is then on no job's list.
LEMMA ObjectListed ==
  ASSUME Lists, NEW o \in Objects, OnlyObject(o), UNCHANGED <<job, pretended, eth>>,
         \/ list'[o] = "active" /\ entry'[o].st = "ACTIVE"
         \/ /\ list'[o] = "none"
            /\ entry'[o].st \in {"none", "ACTIVATING", "DEACTIVATING", "ETHEREALISING"}
  PROVE  Lists'
BY Kinds DEF Lists, OnlyObject, Jobs

LEMMA DoomedMove ==
  ASSUME NEW o \in Objects, OnlyObject(o)
  PROVE  /\ Cardinality(Doomed)' \in Nat
         /\ Cardinality(Doomed)' + OneIf(entry[o].st = "DEACTIVATING")
              = Cardinality(Doomed) + OneIf(entry'[o].st = "DEACTIVATING")
<1>1. /\ Cardinality(Doomed)' \in Nat
      /\ Cardinality(Doomed)' + OneIf(o \in Doomed) = Cardinality(Doomed) + OneIf(o \in Doomed')
  BY FiniteAssumption, OneApart DEF OnlyObject, Doomed
<1> QED BY <1>1 DEF Doomed, OneIf

\* The requests on another object are the same.
LEMMA OtherUsers ==
  ASSUME NEW t \in Threads, NEW o \in Objects, Moves(t), WorksOn(t, o)
  PROVE  \A p \in Objects : p # o => UsersOf(p)' = UsersOf(p)
BY DEF Moves, WorksOn, UsersOf, At

\* And the object's own requests follow the thread.
LEMMA EntriesFollow ==
  ASSUME CountsOfEntries, NEW t \in Threads, NEW o \in Objects, Moves(t), WorksOn(t, o),
         OnlyObject(o),
         entry'[o].inv = Cardinality(UsersOf(o))'
                           + OneIf(entry'[o].st \in {"ACTIVATING", "ACTIVE"})
  PROVE  CountsOfEntries'
<1> SUFFICES ASSUME NEW p \in Objects, p # o
             PROVE  entry'[p].inv = Cardinality(UsersOf(p))'
                                      + OneIf(entry'[p].st \in {"ACTIVATING", "ACTIVE"})
  BY DEF CountsOfEntries
<1>1. UsersOf(p)' = UsersOf(p) /\ entry'[p] = entry[p]
  BY OtherUsers DEF OnlyObject
<1> QED BY <1>1 DEF CountsOfEntries

\* What the state of an object says of the threads.
LEMMA Known ==
  ASSUME IInv, NEW o \in Objects
  PROVE  /\ entry[o] \in [st : EntryStates, inv : Int]
         /\ entry[o].st \notin {"ACTIVATING", "ETHEREALISING"} =>
              /\ \A u \in Threads : arg[u] = o => at[u] \notin OwnerPhases
              /\ ~InHand(o)
         /\ entry[o].st \in {"none", "ACTIVATING"} =>
              list[o] = "none" /\ ~InHand(o) /\ \A u \in Threads : arg[u] = o => at[u] # "detach"
         /\ entry[o].st \notin Present =>
              /\ \A u \in Threads : arg[u] = o => at[u] \notin UserPhases
              /\ Cardinality(UsersOf(o)) = 0
         /\ entry[o].st \in {"none", "ETHEREALISING"} => entry[o].inv = 0
         /\ entry[o].st = "ACTIVATING" => entry[o].inv = 1
         /\ entry[o].st \in Present =>
              entry[o].inv = Cardinality(UsersOf(o)) + OneIf(entry[o].st = "ACTIVE")
<1> USE DEF IInv
<1>1. entry[o] \in [st : EntryStates, inv : Int]
  BY DEF Types, EntryTypes
<1>2. entry[o].st \notin {"ACTIVATING", "ETHEREALISING"} =>
        /\ \A u \in Threads : arg[u] = o => at[u] \notin OwnerPhases
        /\ ~InHand(o)
  BY DEF Owned, Queued, OwnerPhases
<1>3. entry[o].st \in {"none", "ACTIVATING"} =>
        list[o] = "none" /\ ~InHand(o) /\ \A u \in Threads : arg[u] = o => at[u] # "detach"
  <2>1. entry[o].st \in {"none", "ACTIVATING"} => list[o] = "none" /\ ~InHand(o)
    BY DEF Lists, Queued, Types, EntryTypes
  <2>2. entry[o].st \in {"none", "ACTIVATING"} =>
          \A u \in Threads : arg[u] = o => at[u] # "detach"
    BY DEF Detaching, Owned, GivingPhases
  <2> QED BY <2>1, <2>2
<1>4. entry[o].st \notin Present =>
        /\ \A u \in Threads : arg[u] = o => at[u] \notin UserPhases
        /\ Cardinality(UsersOf(o)) = 0
  <2> SUFFICES ASSUME entry[o].st \notin Present
               PROVE  /\ \A u \in Threads : arg[u] = o => at[u] \notin UserPhases
                      /\ Cardinality(UsersOf(o)) = 0
    OBVIOUS
  <2>1. \A u \in Threads : arg[u] = o => at[u] \notin UserPhases
    BY DEF Used
  <2>2. UsersOf(o) = {}
    BY <2>1 DEF UsersOf, At
  <2> QED BY <2>1, <2>2, FS_EmptySet
<1>5. entry[o].inv = Cardinality(UsersOf(o)) + OneIf(entry[o].st \in {"ACTIVATING", "ACTIVE"})
      /\ Cardinality(UsersOf(o)) \in Nat
  BY CountsAreNat DEF CountsOfEntries
<1> QED BY <1>1, <1>2, <1>3, <1>4, <1>5 DEF OneIf, Present

\* What remains to be shown of a step of a thread with one object.
LEMMA ObjectStepKeeps ==
  ASSUME IInv, Types', NEW t \in Threads, NEW o \in Objects, Moves(t), OnlyObject(o),
         WorksOn(t, o), ObjectLeft(t, o),
         UNCHANGED <<job, by, eth, pretended, life, listed, pd_rq_state, pd_state>>,
         at[t] \notin {"working", "destroying"},
         t \in Callers => at'[t] \in CallerPhases,
         t \in Apps => at'[t] \in AppPhases,
         at'[t] \in ObjectPhases => arg'[t] \in Objects,
         pd_lock' = IF at'[t] = "detach" THEN t ELSE pd_lock,
         at'[t] = "detach" => pd_lock = None,
         \/ list'[o] = "active" /\ entry'[o].st = "ACTIVE"
         \/ /\ list'[o] = "none"
            /\ entry'[o].st \in {"none", "ACTIVATING", "DEACTIVATING", "ETHEREALISING"},
         \A p \in Objects : ~(Serves(p) /\ Lined(p))',
         \A i \in 1..Len(queue'), k \in 1..Len(queue') : queue'[i] = queue'[k] => i = k,
         CountsInside',
         entry'[o].inv = Cardinality(UsersOf(o))'
                           + OneIf(entry'[o].st \in {"ACTIVATING", "ACTIVE"}),
         CountsDetached',
         Closing'
  PROVE  IInv'
<1> USE DEF IInv
<1>1. Placed'
  BY Kinds DEF Placed, Moves
<1>2. Locked'
  BY Kinds DEF Locked, Moves, WorksOn
<1>3. Waiters'
  BY WaitersStay DEF Types
<1>4. Destruction' /\ Deactivation'
  BY DEF Destruction, Deactivation
<1>5. Lists'
  BY ObjectListed
<1>6. Used' /\ Owned' /\ OneOwner' /\ Kept' /\ Detaching' /\ Queued'
  BY ObjectStep DEF Queued
<1>7. CountsOfEntries'
  BY EntriesFollow
<1> QED BY <1>1, <1>2, <1>3, <1>4, <1>5, <1>6, <1>7

-----------------------------------------------------------------------------
(* Objects are reserved, given up and activated. *)

\* Nothing is detached, and nothing detached is met.
LEMMA SameDetached ==
  ASSUME IInv, NEW t \in Threads, NEW o \in Objects, Moves(t), OnlyObject(o),
         UNCHANGED <<nDetached, queue, server, pretended>>,
         at[t] \notin {"detach", "retire", "met"}, at'[t] \notin {"detach", "retire", "met"},
         entry[o].st # "DEACTIVATING", entry'[o].st # "DEACTIVATING"
  PROVE  CountsDetached'
<1>1. Cardinality(Doomed)' = Cardinality(Doomed)
  BY DoomedMove, CountsAreNat DEF OneIf
<1>2. Cardinality(Detachers)' = Cardinality(Detachers)
      /\ Cardinality(Leavers)' = Cardinality(Leavers)
  BY CountsMove, CountsAreNat DEF OneIf
<1>3. Due' = Due
  BY DEF Due
<1> QED BY <1>1, <1>2, <1>3 DEF IInv, CountsDetached

LEMMA QueueStays ==
  ASSUME Queued, UNCHANGED <<queue, server>>
  PROVE  /\ \A p \in Objects : InHand(p)' <=> InHand(p)
         /\ \A p \in Objects : ~(Serves(p) /\ Lined(p))'
         /\ \A i \in 1..Len(queue'), k \in 1..Len(queue') : queue'[i] = queue'[k] => i = k
BY DEF Queued, InHand, Serves, Lined

\* A request or an activation reserves an object that is not there.
LEMMA Reserve ==
  ASSUME IInv, Types', NEW t \in Threads, NEW o \in Objects, Moves(t),
         at[t] \in {"idle", "locate"}, at'[t] \in {"sa_check", "placed"}, arg'[t] = o,
         t \in Callers => at'[t] = "sa_check",
         t \in Apps => at'[t] = "placed",
         entry[o].st = "none", entry' = [entry EXCEPT ![o] = Reserved],
         nReqInThis' = IF at'[t] = "sa_check" THEN nReqInThis + 1 ELSE nReqInThis,
         UNCHANGED <<nReqActive, nDetached, list, queue, server, job, by, eth, pretended, life,
                     listed, pd_rq_state, pd_state, pd_lock>>
  PROVE  IInv'
<1> USE DEF IInv
<1>1. OnlyObject(o) /\ entry'[o] = [st |-> "ACTIVATING", inv |-> 1]
  BY QueueStays DEF OnlyObject, Types, EntryTypes, Reserved
<1>2. WorksOn(t, o)
  BY DEF WorksOn, OwnerPhases, ReservePhases, GivingPhases, UserPhases
<1>3. ObjectLeft(t, o)
  BY <1>1, Known, QueueStays DEF ObjectLeft, ReservePhases, GivingPhases, UserPhases, Present
<1>4. CountsInside'
  BY CountsMove, CountsAreNat DEF CountsInside, InsidePhases, OneIf
<1>5. Cardinality(UsersOf(o))' = 0
  BY CountsMove, Known DEF UserPhases, OneIf, Present
<1>6. CountsDetached'
  BY <1>1, SameDetached
<1>7. Closing'
  BY ClosingMove DEF InsidePhases
<1>8. list[o] = "none"
  BY Known
<1>9. entry'[o].inv = Cardinality(UsersOf(o))'
                        + OneIf(entry'[o].st \in {"ACTIVATING", "ACTIVE"})
  BY <1>1, <1>5 DEF OneIf
<1> QED BY <1>1, <1>2, <1>3, <1>4, <1>6, <1>7, <1>8, <1>9, QueueStays, ObjectStepKeeps
     DEF CallerPhases, AppPhases

\* A reserved object is given up: the request or the activation is over.
LEMMA Withdraw ==
  ASSUME IInv, Types', NEW t \in Threads, NEW o \in Objects, Moves(t),
         at[t] \in {"sa_check", "incarnate", "placed"}, arg[t] = o, at'[t] = "idle",
         entry' = [entry EXCEPT ![o] = Dead],
         nReqInThis' = IF at[t] = "placed" THEN nReqInThis ELSE nReqInThis - 1,
         UNCHANGED <<nReqActive, nDetached, list, queue, server, job, by, eth, pretended, life,
                     listed, pd_rq_state, pd_state, pd_lock>>
  PROVE  IInv'
<1> USE DEF IInv
<1>1. entry[o].st = "ACTIVATING"
  BY DEF Owned, ReservePhases
<1>2. OnlyObject(o) /\ entry'[o] = [st |-> "none", inv |-> 0]
  BY QueueStays DEF OnlyObject, Types, EntryTypes, Dead
<1>3. WorksOn(t, o)
  BY DEF WorksOn, OwnerPhases, ReservePhases, GivingPhases, UserPhases
<1>4. ObjectLeft(t, o)
  <2>1. \A u \in Threads : u # t /\ arg[u] = o => at[u] \notin OwnerPhases
    BY DEF OneOwner, OwnerPhases, ReservePhases
  <2> QED BY <1>1, <1>2, <2>1, Known, QueueStays
         DEF ObjectLeft, ReservePhases, GivingPhases, UserPhases, Present
<1>5. CountsInside'
  <2>1. nReqInThis \in Int
    BY DEF Types, Numbers
  <2> QED BY <2>1, CountsMove, CountsAreNat DEF CountsInside, InsidePhases, OneIf
<1>6. Cardinality(UsersOf(o))' = 0
  BY <1>1, CountsMove, Known DEF UserPhases, OneIf, Present
<1>7. CountsDetached'
  BY <1>1, <1>2, SameDetached
<1>8. Closing'
  BY ClosingMove DEF InsidePhases
<1>9. list[o] = "none"
  BY <1>1, Known
<1>10. entry'[o].inv = Cardinality(UsersOf(o))'
                         + OneIf(entry'[o].st \in {"ACTIVATING", "ACTIVE"})
  BY <1>2, <1>6 DEF OneIf
<1> QED BY <1>2, <1>3, <1>4, <1>5, <1>7, <1>8, <1>9, <1>10, QueueStays, ObjectStepKeeps
     DEF CallerPhases, AppPhases, ObjectPhases, OwnerPhases, ReservePhases, GivingPhases, UserPhases

\* A reserved object becomes active.
LEMMA Activated ==
  ASSUME IInv, Types', NEW a \in Apps, NEW o \in Objects, Moves(a),
         at[a] = "placed", arg[a] = o, at'[a] = "idle", life = "alive",
         entry' = [entry EXCEPT ![o].st = "ACTIVE"], list' = [list EXCEPT ![o] = "active"],
         UNCHANGED <<nReqInThis, nReqActive, nDetached, queue, server, job, by, eth, pretended,
                     life, listed, pd_rq_state, pd_state, pd_lock>>
  PROVE  IInv'
<1> USE Kinds DEF IInv
<1>1. entry[o].st = "ACTIVATING"
  BY DEF Owned, ReservePhases
<1>2. OnlyObject(o) /\ entry'[o].st = "ACTIVE" /\ entry'[o].inv = 1 /\ list'[o] = "active"
  BY <1>1, Known, QueueStays DEF OnlyObject, Types, EntryTypes
<1>3. WorksOn(a, o)
  BY DEF WorksOn, OwnerPhases, ReservePhases, GivingPhases, UserPhases
<1>4. ObjectLeft(a, o)
  <2>1. \A u \in Threads : u # a /\ arg[u] = o => at[u] \notin OwnerPhases
    BY DEF OneOwner, OwnerPhases, ReservePhases
  <2> QED BY <1>1, <1>2, <2>1, Known, QueueStays
         DEF ObjectLeft, ReservePhases, GivingPhases, UserPhases, Present
<1>5. CountsInside'
  BY CountsMove, CountsAreNat DEF CountsInside, InsidePhases, OneIf
<1>6. Cardinality(UsersOf(o))' = 0
  BY <1>1, CountsMove, Known DEF UserPhases, OneIf, Present
<1>7. CountsDetached'
  BY <1>1, <1>2, SameDetached
<1>8. Closing'
  BY DEF Closing, Moves, InsidePhases, Destruction
<1>9. entry'[o].inv = Cardinality(UsersOf(o))'
                        + OneIf(entry'[o].st \in {"ACTIVATING", "ACTIVE"})
  BY <1>2, <1>6 DEF OneIf
<1> QED BY <1>2, <1>3, <1>4, <1>5, <1>7, <1>8, <1>9, QueueStays, ObjectStepKeeps
     DEF CallerPhases, AppPhases, ObjectPhases, OwnerPhases, ReservePhases, GivingPhases, UserPhases

-----------------------------------------------------------------------------
(* Requests enter and leave objects. *)

\* What Dispatch does of the state of the POA.
Admitted(r) ==
  \/ pd_rq_state = "ACTIVE" /\ nReqActive' = nReqActive + 1 /\ at'[r] = "upcall"
  \/ pd_rq_state = "HOLDING" /\ nReqActive' = nReqActive /\ at'[r] = "held"
  \/ /\ pd_rq_state \in {"DISCARDING", "INACTIVE"} /\ nReqActive' = nReqActive + 1
     /\ at'[r] = "leave"

LEMMA AdmittedCounts ==
  ASSUME IInv, NEW r \in Callers, Moves(r), Admitted(r),
         \/ at[r] \in {"idle", "locate"} /\ nReqInThis' = nReqInThis + 1
         \/ at[r] = "incarnated" /\ nReqInThis' = nReqInThis
  PROVE  CountsInside'
<1> USE Kinds DEF IInv
<1>1. nReqInThis' = Cardinality(Inside)'
  BY CountsMove, CountsAreNat DEF CountsInside, InsidePhases, OneIf, Admitted
<1>2. nReqActive' = Cardinality(Working)'
  BY CountsMove, CountsAreNat DEF CountsInside, OneIf, Admitted
<1> QED BY <1>1, <1>2 DEF CountsInside

\* Once the destruction has seen the requests leave, it admits none but to
\* reject it.
LEMMA AdmittedCloses ==
  ASSUME IInv, NEW r \in Callers, Moves(r), Admitted(r), UNCHANGED <<job, pd_lock, nDetached>>,
         \/ UNCHANGED list
         \/ life = "alive"
  PROVE  Closing'
BY Kinds DEF IInv, Closing, Destruction, Admitted, Moves, InsidePhases

LEMMA EnterPresent ==
  ASSUME IInv, Types', NEW r \in Callers, NEW o \in Objects, Moves(r), Admitted(r),
         at[r] \in {"idle", "locate"}, arg'[r] = o, entry[o].st \in Present,
         entry' = [entry EXCEPT ![o] = [entry[o] EXCEPT !.inv = @ + 1]],
         nReqInThis' = nReqInThis + 1,
         UNCHANGED <<nDetached, list, queue, server, job, by, eth, pretended, life,
                     listed, pd_rq_state, pd_state, pd_lock>>
  PROVE  IInv'
<1> USE Kinds DEF IInv
<1>1. /\ \A p \in Objects : entry'[p].st = entry[p].st
      /\ \A p \in Objects : p # o => entry'[p] = entry[p]
      /\ entry'[o].inv = entry[o].inv + 1 /\ entry[o].inv \in Int
  BY DEF Types, EntryTypes
<1>2. Used' /\ Owned' /\ OneOwner' /\ Queued' /\ Kept' /\ Detaching'
  <2>1. Quiet(r)
    BY DEF Quiet, Admitted, UserPhases, GivingPhases
  <2>2. \A u \in Threads : Quiet(u)
    BY <2>1 DEF Moves, Quiet
  <2> QED BY <1>1, <2>2, QuietMove
<1>3. Placed' /\ Locked'
  BY PlainMove DEF Admitted, CallerPhases
<1>4. Waiters'
  BY WaitersStay DEF Types
<1>5. Destruction' /\ Deactivation' /\ Lists'
  BY <1>1 DEF Destruction, Deactivation, Lists
<1>6. CountsInside' /\ Closing'
  BY AdmittedCounts, AdmittedCloses
<1>7. CountsOfEntries'
  <2>1. WorksOn(r, o) /\ OnlyObject(o)
    BY <1>1, QueueStays DEF WorksOn, OnlyObject, OwnerPhases, ReservePhases, GivingPhases,
       UserPhases
  <2>2. Cardinality(UsersOf(o))' = Cardinality(UsersOf(o)) + 1
    BY CountsMove, CountsAreNat DEF Admitted, UserPhases, OneIf
  <2>3. entry[o].inv = Cardinality(UsersOf(o)) + OneIf(entry[o].st \in {"ACTIVATING", "ACTIVE"})
    BY DEF CountsOfEntries
  <2>4. entry'[o].inv = Cardinality(UsersOf(o))'
                          + OneIf(entry'[o].st \in {"ACTIVATING", "ACTIVE"})
    BY <1>1, <2>2, <2>3, CountsAreNat DEF OneIf
  <2> QED BY <2>1, <2>4, EntriesFollow
<1>8. CountsDetached'
  <2>1. Doomed' = Doomed /\ Due' = Due
    BY <1>1 DEF Doomed, Due
  <2>2. Cardinality(Detachers)' = Cardinality(Detachers)
        /\ Cardinality(Leavers)' = Cardinality(Leavers)
    BY CountsMove, CountsAreNat DEF Admitted, OneIf
  <2> QED BY <2>1, <2>2 DEF CountsDetached
<1> QED BY <1>2, <1>3, <1>4, <1>5, <1>6, <1>7, <1>8

\* The request that has incarnated the object enters it first.
LEMMA EnterIncarnated ==
  ASSUME IInv, Types', NEW r \in Callers, NEW o \in Objects, Moves(r), Admitted(r),
         at[r] = "incarnated", arg[r] = o, arg'[r] = o, life = "alive",
         entry' = [entry EXCEPT ![o] = [st |-> "ACTIVE", inv |-> 2]],
         list' = [list EXCEPT ![o] = "active"],
         UNCHANGED <<nReqInThis, nDetached, queue, server, job, by, eth, pretended, life,
                     listed, pd_rq_state, pd_state, pd_lock>>
  PROVE  IInv'
<1> USE Kinds DEF IInv
<1>1. entry[o].st = "ACTIVATING"
  BY DEF Owned, ReservePhases
<1>2. OnlyObject(o) /\ entry'[o].st = "ACTIVE" /\ entry'[o].inv = 2 /\ list'[o] = "active"
  BY <1>1, QueueStays DEF OnlyObject, Types, EntryTypes
<1>3. at'[r] \in UserPhases
  BY DEF Admitted, UserPhases
<1>4. WorksOn(r, o)
  BY DEF WorksOn, OwnerPhases, ReservePhases, GivingPhases, UserPhases
<1>5. ObjectLeft(r, o)
  <2>1. \A u \in Threads : u # r /\ arg[u] = o => at[u] \notin OwnerPhases
    BY DEF OneOwner, OwnerPhases, ReservePhases
  <2> QED BY <1>1, <1>2, <1>3, <2>1, Known, QueueStays
         DEF ObjectLeft, ReservePhases, GivingPhases, UserPhases, Present
<1>6. CountsInside' /\ Closing'
  BY AdmittedCounts, AdmittedCloses
<1>7. Cardinality(UsersOf(o))' = 1
  <2>1. Cardinality(UsersOf(o)) = 0
    BY <1>1, Known DEF Present
  <2> QED BY <1>3, <2>1, CountsMove DEF UserPhases, OneIf
<1>8. CountsDetached'
  BY <1>1, <1>2, SameDetached DEF Admitted
<1>9. entry'[o].inv = Cardinality(UsersOf(o))'
                        + OneIf(entry'[o].st \in {"ACTIVATING", "ACTIVE"})
  BY <1>2, <1>7 DEF OneIf
<1>10. at'[r] \in CallerPhases /\ at'[r] # "detach"
  BY DEF Admitted, CallerPhases
<1> QED BY <1>2, <1>4, <1>5, <1>6, <1>8, <1>9, <1>10, QueueStays, ObjectStepKeeps

\* A request leaves an object that others are in, or that is not its to see to.
LEMMA LeavesObject ==
  ASSUME IInv, Types', NEW r \in Callers, NEW o \in Objects, Moves(r),
         at[r] = "leave", arg[r] = o, at'[r] = "idle",
         entry' = [entry EXCEPT ![o].inv = @ - 1],
         nReqInThis' = nReqInThis - 1, nReqActive' = nReqActive - 1,
         UNCHANGED <<nDetached, list, queue, server, job, by, eth, pretended, life,
                     listed, pd_rq_state, pd_state, pd_lock>>
  PROVE  IInv'
<1> USE Kinds DEF IInv
<1>1. /\ \A p \in Objects : entry'[p].st = entry[p].st
      /\ \A p \in Objects : p # o => entry'[p] = entry[p]
      /\ entry'[o].inv = entry[o].inv - 1 /\ entry[o].inv \in Int
  BY DEF Types, EntryTypes
<1>2. Used' /\ Owned' /\ OneOwner' /\ Queued' /\ Kept' /\ Detaching'
  <2>1. Quiet(r)
    BY DEF Quiet, UserPhases, OwnerPhases, ReservePhases, GivingPhases
  <2>2. \A u \in Threads : Quiet(u)
    BY <2>1 DEF Moves, Quiet
  <2> QED BY <1>1, <2>2, QuietMove
<1>3. Placed' /\ Locked'
  BY PlainMove DEF CallerPhases, ObjectPhases, OwnerPhases, ReservePhases, GivingPhases, UserPhases
<1>4. Waiters'
  BY WaitersStay DEF Types
<1>5. Destruction' /\ Deactivation' /\ Lists'
  BY <1>1 DEF Destruction, Deactivation, Lists
<1>6. CountsInside' /\ Closing'
  <2>1. nReqInThis \in Int /\ nReqActive \in Int
    BY DEF Types, Numbers
  <2>2. CountsInside'
    BY <2>1, CountsMove, CountsAreNat DEF CountsInside, InsidePhases, OneIf
  <2> QED BY <2>2, ClosingMove DEF InsidePhases
<1>7. CountsOfEntries'
  <2>1. WorksOn(r, o) /\ OnlyObject(o)
    BY <1>1, QueueStays DEF WorksOn, OnlyObject, OwnerPhases, ReservePhases, GivingPhases,
       UserPhases
  <2>2. Cardinality(UsersOf(o))' = Cardinality(UsersOf(o)) - 1
    BY CountsMove, CountsAreNat DEF UserPhases, OneIf
  <2>3. entry[o].inv = Cardinality(UsersOf(o)) + OneIf(entry[o].st \in {"ACTIVATING", "ACTIVE"})
    BY DEF CountsOfEntries
  <2>4. entry'[o].inv = Cardinality(UsersOf(o))'
                          + OneIf(entry'[o].st \in {"ACTIVATING", "ACTIVE"})
    BY <1>1, <2>2, <2>3, CountsAreNat DEF OneIf
  <2> QED BY <2>1, <2>4, EntriesFollow
<1>8. CountsDetached'
  <2>1. Doomed' = Doomed /\ Due' = Due
    BY <1>1 DEF Doomed, Due
  <2>2. Cardinality(Detachers)' = Cardinality(Detachers)
        /\ Cardinality(Leavers)' = Cardinality(Leavers)
    BY CountsMove, CountsAreNat DEF OneIf
  <2> QED BY <2>1, <2>2 DEF CountsDetached
<1> QED BY <1>2, <1>3, <1>4, <1>5, <1>6, <1>7, <1>8

-----------------------------------------------------------------------------
(* Objects are detached and retired. *)

\* The last request out of a deactivated object takes it over.
LEMMA LeavesLast ==
  ASSUME IInv, Types', NEW r \in Callers, NEW o \in Objects, Moves(r),
         at[r] = "leave", arg[r] = o, at'[r] = "retire", arg'[r] = o, LastOut(o),
         entry' = [entry EXCEPT ![o] = [st |-> "ETHEREALISING", inv |-> 0]],
         nReqInThis' = nReqInThis - 1, nReqActive' = nReqActive - 1,
         UNCHANGED <<nDetached, list, queue, server, job, by, eth, pretended, life,
                     listed, pd_rq_state, pd_state, pd_lock>>
  PROVE  /\ IInv'
         /\ entry[o].st = "DEACTIVATING" /\ \A u \in Threads : u # r /\ at[u] \in UserPhases
                                                => arg[u] # o
<1> USE Kinds DEF IInv
<1>1. /\ entry[o].st \in Present /\ entry[o].inv = 1 /\ entry[o].st # "DEACTIVATING_OA"
      /\ Cardinality(UsersOf(o)) >= 1 /\ Cardinality(UsersOf(o)) \in Nat
  BY ThreadsInside, CountsAreNat DEF Used, UserPhases, LastOut
<1>2. entry[o].st = "DEACTIVATING" /\ Cardinality(UsersOf(o)) = 1
  BY <1>1, Known DEF OneIf, Present
<1>3. \A u \in Threads : u # r /\ at[u] \in UserPhases => arg[u] # o
  BY <1>2, ThreadsInside DEF UserPhases
<1>4. list[o] = "none"
  BY <1>2 DEF Lists, Types, EntryTypes
<1>5. OnlyObject(o) /\ entry'[o] = [st |-> "ETHEREALISING", inv |-> 0]
  BY QueueStays DEF OnlyObject, Types, EntryTypes
<1>6. WorksOn(r, o)
  BY DEF WorksOn, OwnerPhases, ReservePhases, GivingPhases, UserPhases
<1>7. ObjectLeft(r, o)
  BY <1>2, <1>3, <1>4, <1>5, Known, QueueStays
     DEF ObjectLeft, ReservePhases, GivingPhases, UserPhases, Present
<1>8. CountsInside'
  <2>1. nReqInThis \in Int /\ nReqActive \in Int
    BY DEF Types, Numbers
  <2> QED BY <2>1, CountsMove, CountsAreNat DEF CountsInside, InsidePhases, OneIf
<1>9. Cardinality(UsersOf(o))' = 0
  BY <1>2, CountsMove DEF UserPhases, OneIf
<1>10. CountsDetached'
  <2>1. Cardinality(Doomed)' = Cardinality(Doomed) - 1
    BY <1>2, <1>5, DoomedMove, CountsAreNat DEF OneIf
  <2>2. Cardinality(Detachers)' = Cardinality(Detachers)
        /\ Cardinality(Leavers)' = Cardinality(Leavers) + 1
    BY CountsMove, CountsAreNat DEF OneIf
  <2>3. Due' = Due /\ Due \in Nat
    BY DueIsNat DEF Due
  <2>4. nDetached \in Int
    BY DEF Types, Numbers
  <2> QED BY <2>1, <2>2, <2>3, <2>4, CountsAreNat DEF CountsDetached
<1>11. Closing'
  BY ClosingMove DEF InsidePhases
<1>12. entry'[o].inv = Cardinality(UsersOf(o))'
                         + OneIf(entry'[o].st \in {"ACTIVATING", "ACTIVE"})
  BY <1>5, <1>9 DEF OneIf
<1> QED BY <1>2, <1>3, <1>4, <1>5, <1>6, <1>7, <1>8, <1>10, <1>11, <1>12, QueueStays,
           ObjectStepKeeps DEF CallerPhases

\* deactivate_object() of an idle object.
LEMMA DetachIdle ==
  ASSUME IInv, Types', NEW a \in Apps, NEW o \in Objects, Moves(a),
         at[a] = "idle", at'[a] = "retire", arg'[a] = o, life \in {"alive", "dying"},
         entry[o].st = "ACTIVE", entry[o].inv = 1,
         entry' = [entry EXCEPT ![o] = [st |-> "ETHEREALISING", inv |-> 0]],
         list' = [list EXCEPT ![o] = "none"], nDetached' = nDetached + 1,
         UNCHANGED <<nReqInThis, nReqActive, queue, server, job, by, eth, pretended, life,
                     listed, pd_rq_state, pd_state, pd_lock>>
  PROVE  IInv' /\ \A u \in Threads : at[u] \in UserPhases => arg[u] # o
<1> USE Kinds DEF IInv
<1>1. Cardinality(UsersOf(o)) = 0
  BY Known, CountsAreNat DEF Present, OneIf
<1>2. \A u \in Threads : at[u] \in UserPhases => arg[u] # o
  BY <1>1, ThreadsInside
<1>3. OnlyObject(o) /\ entry'[o] = [st |-> "ETHEREALISING", inv |-> 0] /\ list'[o] = "none"
  BY QueueStays DEF OnlyObject, Types, EntryTypes
<1>4. WorksOn(a, o)
  BY DEF WorksOn, OwnerPhases, ReservePhases, GivingPhases, UserPhases
<1>5. ObjectLeft(a, o)
  BY <1>2, <1>3, Known, QueueStays
     DEF ObjectLeft, ReservePhases, GivingPhases, UserPhases, Present
<1>6. CountsInside'
  BY CountsMove, CountsAreNat DEF CountsInside, InsidePhases, OneIf
<1>7. Cardinality(UsersOf(o))' = 0
  BY <1>1, CountsMove DEF UserPhases, OneIf
<1>8. CountsDetached'
  <2>1. Cardinality(Doomed)' = Cardinality(Doomed)
    BY <1>3, DoomedMove, CountsAreNat DEF OneIf
  <2>2. Cardinality(Detachers)' = Cardinality(Detachers)
        /\ Cardinality(Leavers)' = Cardinality(Leavers) + 1
    BY CountsMove, CountsAreNat DEF OneIf
  <2>3. Due' = Due /\ Due \in Nat
    BY DueIsNat DEF Due
  <2>4. nDetached \in Int
    BY DEF Types, Numbers
  <2> QED BY <2>1, <2>2, <2>3, <2>4, CountsAreNat DEF CountsDetached
<1>9. Closing'
  BY DEF Closing, Destruction, Moves, InsidePhases, Types, EntryTypes
<1>10. entry'[o].inv = Cardinality(UsersOf(o))'
                         + OneIf(entry'[o].st \in {"ACTIVATING", "ACTIVE"})
  BY <1>3, <1>7 DEF OneIf
<1> QED BY <1>2, <1>3, <1>4, <1>5, <1>6, <1>8, <1>9, <1>10, QueueStays, ObjectStepKeeps
     DEF AppPhases

\* deactivate_object() of a busy one, which is counted in the next step.
LEMMA DetachBusy ==
  ASSUME IInv, Types', NEW a \in Apps, NEW o \in Objects, Moves(a),
         at[a] = "idle", at'[a] = "detach", arg'[a] = o, life \in {"alive", "dying"},
         entry[o].st = "ACTIVE", entry[o].inv > 1,
         entry' = [entry EXCEPT ![o] = [st |-> "DEACTIVATING", inv |-> entry[o].inv - 1]],
         list' = [list EXCEPT ![o] = "none"], pd_lock = None, pd_lock' = a,
         UNCHANGED <<nReqInThis, nReqActive, nDetached, queue, server, job, by, eth, pretended,
                     life, listed, pd_rq_state, pd_state>>
  PROVE  IInv'
<1> USE Kinds DEF IInv
<1>1. entry[o].inv = Cardinality(UsersOf(o)) + 1
  BY Known DEF Present, OneIf
<1>2. /\ OnlyObject(o) /\ list'[o] = "none"
      /\ entry'[o].st = "DEACTIVATING" /\ entry'[o].inv = entry[o].inv - 1
  BY QueueStays DEF OnlyObject, Types, EntryTypes
<1>3. WorksOn(a, o)
  BY DEF WorksOn, OwnerPhases, ReservePhases, GivingPhases, UserPhases
<1>4. ObjectLeft(a, o)
  BY <1>2, Known, QueueStays DEF ObjectLeft, ReservePhases, GivingPhases, UserPhases, Present
<1>5. CountsInside'
  BY CountsMove, CountsAreNat DEF CountsInside, InsidePhases, OneIf
<1>6. Cardinality(UsersOf(o))' = Cardinality(UsersOf(o))
  BY CountsMove, CountsAreNat DEF UserPhases, OneIf
<1>7. CountsDetached'
  <2>1. Cardinality(Doomed)' = Cardinality(Doomed) + 1
    BY <1>2, DoomedMove, CountsAreNat DEF OneIf
  <2>2. Cardinality(Detachers)' = Cardinality(Detachers) + 1
        /\ Cardinality(Leavers)' = Cardinality(Leavers)
    BY CountsMove, CountsAreNat DEF OneIf
  <2>3. Due' = Due /\ Due \in Nat
    BY DueIsNat DEF Due
  <2>4. nDetached \in Int
    BY DEF Types, Numbers
  <2> QED BY <2>1, <2>2, <2>3, <2>4, CountsAreNat DEF CountsDetached
<1>8. Closing'
  BY DEF Closing, Destruction, Moves, InsidePhases, Types, EntryTypes
<1>9. entry'[o].inv = Cardinality(UsersOf(o))'
                        + OneIf(entry'[o].st \in {"ACTIVATING", "ACTIVE"})
  BY <1>1, <1>2, <1>6, CountsAreNat DEF OneIf
<1> QED BY <1>2, <1>3, <1>4, <1>5, <1>7, <1>8, <1>9, QueueStays, ObjectStepKeeps
     DEF AppPhases

\* deactivate_object() counts the object and releases pd_lock.
LEMMA DetachKeeps ==
  ASSUME IInv, NEW a \in Apps, Detach(a)
  PROVE  IInv'
<1> USE Kinds DEF IInv
<1>1. /\ at[a] = "detach" /\ at'[a] = "idle" /\ arg'[a] = None /\ Moves(a)
      /\ nDetached' = nDetached + 1 /\ pd_lock' = None /\ pd_lock = a
  BY DEF Detach, Ends, Types, ThreadTypes, Moves, Locked
<1>2. UNCHANGED <<activator, holdTimeout, nReqInThis, nReqActive, entry, list, queue, server, job,
                  by, eth, pretended, life, listed, pd_rq_state, pd_state, pd_deactivated,
                  asleep, calls, ops>>
  BY DEF Detach, policy, manager, counts, objects, serving, jobs, bounds
<1>3. Types'
  <2>1. ThreadTypes'
    BY DEF Detach, Ends, Types, ThreadTypes, AppPhases
  <2> QED BY <1>1, <1>2, <2>1
         DEF Types, Flags, Numbers, EntryTypes, Sleepers, JobTypes, ServingTypes
<1>4. Placed' /\ Locked'
  <2>1. Placed'
    BY <1>1 DEF Placed, Moves, AppPhases, ObjectPhases, OwnerPhases, ReservePhases, GivingPhases,
       UserPhases
  <2>2. Locked'
    BY <1>1 DEF Locked, Moves
  <2> QED BY <2>1, <2>2
<1>5. Waiters'
  BY <1>1, <1>2, WaitersStay DEF Types
<1>6. Used' /\ Owned' /\ OneOwner' /\ Queued' /\ Kept' /\ Detaching'
  <2>1. Quiet(a)
    BY <1>1 DEF Quiet, UserPhases, OwnerPhases, ReservePhases, GivingPhases
  <2>2. \A u \in Threads : Quiet(u)
    BY <1>1, <2>1 DEF Moves, Quiet
  <2> QED BY <1>2, <2>2, QuietMove
<1>7. CountsInside' /\ CountsOfEntries' /\ CountsDetached'
  <2>1. nReqInThis' \in Int /\ nReqActive' \in Int
    BY <1>2 DEF Types, Numbers
  <2> QED BY <1>1, <1>2, <2>1, CountsFollow DEF InsidePhases, UserPhases, OneIf
<1>8. Closing'
  BY <1>1, <1>2 DEF Closing, Moves, InsidePhases
<1>9. Destruction' /\ Deactivation' /\ Lists'
  BY <1>2 DEF Destruction, Deactivation, Lists
<1> QED BY <1>3, <1>4, <1>5, <1>6, <1>7, <1>8, <1>9

-----------------------------------------------------------------------------
(* Objects go to the servant activator's thread, and through it. *)

LEMMA QueueGrows ==
  ASSUME ServingTypes, Queued, NEW o \in Objects, ~InHand(o),
         queue' = Append(queue, o), UNCHANGED <<server, pretended>>
  PROVE  /\ \A p \in Objects : InHand(p)' <=> InHand(p) \/ p = o
         /\ \A p \in Objects : ~(Serves(p) /\ Lined(p))'
         /\ \A i \in 1..Len(queue'), k \in 1..Len(queue') : queue'[i] = queue'[k] => i = k
         /\ Due \in Int => Due' = Due + 1
<1>1. /\ Len(queue) \in Nat /\ Len(queue') = Len(queue) + 1
      /\ \A i \in 1..Len(queue) : queue'[i] = queue[i]
      /\ queue'[Len(queue) + 1] = o
  BY DEF ServingTypes
<1>2. \A i \in 1..Len(queue') : i \in 1..Len(queue) \/ i = Len(queue) + 1
  BY <1>1
<1>3. \A p \in Objects : Lined(p)' <=> Lined(p) \/ p = o
  <2>1. ASSUME NEW p \in Objects, Lined(p)' PROVE Lined(p) \/ p = o
    BY <1>1, <1>2, <2>1 DEF Lined
  <2>2. ASSUME NEW p \in Objects, Lined(p) PROVE Lined(p)'
    <3>1. PICK i \in 1..Len(queue) : queue[i] = p
      BY <2>2 DEF Lined
    <3>2. i \in 1..Len(queue') /\ queue'[i] = p
      BY <1>1, <3>1
    <3> QED BY <3>2 DEF Lined
  <2>3. Lined(o)'
    <3>1. Len(queue) + 1 \in 1..Len(queue')
      BY <1>1
    <3> QED BY <1>1, <3>1 DEF Lined
  <2> QED BY <2>1, <2>2, <2>3
<1>4. \A p \in Objects : Serves(p)' <=> Serves(p)
  BY DEF Serves
<1>5. \A p \in Objects : InHand(p)' <=> InHand(p) \/ p = o
  BY <1>3, <1>4 DEF InHand
<1>6. \A p \in Objects : ~(Serves(p) /\ Lined(p))'
  BY <1>3, <1>4 DEF Queued, InHand
<1>7. \A i \in 1..Len(queue) : queue[i] # o
  BY DEF InHand, Lined
<1>8. \A i \in 1..Len(queue'), k \in 1..Len(queue') : queue'[i] = queue'[k] => i = k
  BY <1>1, <1>2, <1>7 DEF Queued
<1>9. Due \in Int => Due' = Due + 1
  <2>1. OneIf(server # None) \in Int /\ OneIf(pretended) \in Int
    BY DEF OneIf
  <2>2. Due' = Len(queue') + OneIf(server # None) + OneIf(pretended)
    BY DEF Due
  <2> QED BY <1>1, <2>1, <2>2 DEF Due
<1> QED BY <1>5, <1>6, <1>8, <1>9

\* A step that leaves the requests inside where they are.
LEMMA SameInside ==
  ASSUME CountsInside, NEW t \in Threads, Moves(t), UNCHANGED <<nReqInThis, nReqActive>>,
         at[t] \in InsidePhases <=> at'[t] \in InsidePhases,
         at[t] \in {"upcall", "leave"} <=> at'[t] \in {"upcall", "leave"}
  PROVE  CountsInside'
BY CountsMove, CountsAreNat DEF CountsInside, OneIf

\* And one that leaves those on an object as many.
LEMMA SameUsers ==
  ASSUME NEW t \in Threads, NEW o \in Objects, Moves(t),
         at[t] \notin UserPhases, at'[t] \notin UserPhases
  PROVE  Cardinality(UsersOf(o))' = Cardinality(UsersOf(o))
BY CountsMove, CountsAreNat DEF OneIf

\* A detached object is retired, or no thread has to do with one.
LEMMA LeaversMove ==
  ASSUME NEW t \in Threads, Moves(t), at[t] # "detach", at'[t] # "detach",
         at'[t] \notin {"retire", "met"}
  PROVE  /\ Cardinality(Detachers)' = Cardinality(Detachers)
         /\ at[t] \in {"retire", "met"} => Cardinality(Leavers)' = Cardinality(Leavers) - 1
         /\ at[t] \notin {"retire", "met"} => Cardinality(Leavers)' = Cardinality(Leavers)
BY CountsMove, CountsAreNat DEF OneIf

\* The etherealisation of an object becomes due, and the object is counted.
LEMMA OneMoreDue ==
  ASSUME CountsDetached, nDetached \in Int, Due \in Nat,
         nDetached' = nDetached + 1, Due' = Due + 1,
         Cardinality(Doomed)' = Cardinality(Doomed),
         Cardinality(Detachers)' = Cardinality(Detachers),
         Cardinality(Leavers)' = Cardinality(Leavers)
  PROVE  CountsDetached'
BY CountsAreNat DEF CountsDetached

\* It is done, and the object is met.
LEMMA OneLessDue ==
  ASSUME CountsDetached, nDetached \in Int, Due \in Nat,
         nDetached' = nDetached - 1, Due' = Due - 1,
         Cardinality(Doomed)' = Cardinality(Doomed),
         Cardinality(Detachers)' = Cardinality(Detachers),
         Cardinality(Leavers)' = Cardinality(Leavers)
  PROVE  CountsDetached'
BY CountsAreNat DEF CountsDetached

\* A retired object is queued, by an operation or a request that is then over.
LEMMA RetireQueues ==
  ASSUME IInv, Types', NEW t \in Threads, NEW o \in Objects, Moves(t), pd_lock = None,
         at[t] = "retire", arg[t] = o, at'[t] = "idle", queue' = Append(queue, o),
         UNCHANGED <<entry, list, nReqInThis, nReqActive, nDetached, server, job, by, eth,
                     pretended, life, listed, pd_rq_state, pd_state, pd_lock>>
  PROVE  IInv'
<1> USE DEF IInv
<1>1. entry[o].st = "ETHEREALISING" /\ list[o] = "none" /\ ~InHand(o)
  BY DEF Owned, GivingPhases
<1>2. /\ \A p \in Objects : InHand(p)' <=> InHand(p) \/ p = o
      /\ \A p \in Objects : ~(Serves(p) /\ Lined(p))'
      /\ \A i \in 1..Len(queue'), k \in 1..Len(queue') : queue'[i] = queue'[k] => i = k
      /\ Due' = Due + 1 /\ Due \in Nat
  BY <1>1, QueueGrows, DueIsNat DEF Types
<1>3. OnlyObject(o)
  BY <1>2 DEF OnlyObject
<1>4. WorksOn(t, o)
  BY DEF WorksOn, OwnerPhases, ReservePhases, GivingPhases, UserPhases
<1>5. ObjectLeft(t, o)
  <2>1. \A u \in Threads : u # t /\ arg[u] = o => at[u] \notin OwnerPhases
    BY DEF OneOwner, OwnerPhases, GivingPhases
  <2>2. \A u \in Threads : at[u] # "detach"
    BY Kinds DEF Locked
  <2> QED BY <1>1, <1>2, <2>1, <2>2, Known
         DEF ObjectLeft, ReservePhases, GivingPhases, UserPhases, Present
<1>6. CountsInside'
  BY SameInside DEF InsidePhases
<1>7. entry'[o].inv = Cardinality(UsersOf(o))'
                        + OneIf(entry'[o].st \in {"ACTIVATING", "ACTIVE"})
  <2>1. Cardinality(UsersOf(o))' = Cardinality(UsersOf(o))
    BY SameUsers DEF UserPhases
  <2> QED BY <2>1 DEF CountsOfEntries
<1>8. CountsDetached'
  <2>1. Cardinality(Doomed)' = Cardinality(Doomed)
    BY DEF Doomed
  <2>2. Cardinality(Detachers)' = Cardinality(Detachers)
        /\ Cardinality(Leavers)' = Cardinality(Leavers) - 1
    BY LeaversMove
  <2>3. nDetached + Cardinality(Detachers) = Cardinality(Doomed) + Cardinality(Leavers) + Due
    BY DEF CountsDetached
  <2> QED BY <1>2, <2>1, <2>2, <2>3, CountsAreNat DEF CountsDetached
<1>9. Closing'
  BY ClosingMove DEF InsidePhases
<1> QED BY <1>1, <1>2, <1>3, <1>4, <1>5, <1>6, <1>7, <1>8, <1>9, ObjectStepKeeps
     DEF CallerPhases, AppPhases, ObjectPhases, OwnerPhases, ReservePhases, GivingPhases, UserPhases

\* Or it dies there and then, without a servant activator.
LEMMA RetireKills ==
  ASSUME IInv, Types', NEW t \in Threads, NEW o \in Objects, Moves(t), pd_lock = None,
         at[t] = "retire", arg[t] = o, at'[t] = "met",
         entry' = [entry EXCEPT ![o] = Dead],
         UNCHANGED <<list, nReqInThis, nReqActive, nDetached, queue, server, job, by, eth,
                     pretended, life, listed, pd_rq_state, pd_state, pd_lock>>
  PROVE  IInv'
<1> USE DEF IInv
<1>1. entry[o].st = "ETHEREALISING" /\ list[o] = "none" /\ ~InHand(o)
  BY DEF Owned, GivingPhases
<1>2. OnlyObject(o) /\ entry'[o] = [st |-> "none", inv |-> 0]
  BY QueueStays DEF OnlyObject, Types, EntryTypes, Dead
<1>3. WorksOn(t, o)
  BY DEF WorksOn, OwnerPhases, ReservePhases, GivingPhases, UserPhases
<1>4. ObjectLeft(t, o)
  <2>1. \A u \in Threads : u # t /\ arg[u] = o => at[u] \notin OwnerPhases
    BY DEF OneOwner, OwnerPhases, GivingPhases
  <2>2. \A u \in Threads : at[u] # "detach"
    BY Kinds DEF Locked
  <2> QED BY <1>1, <1>2, <2>1, <2>2, Known, QueueStays
         DEF ObjectLeft, ReservePhases, GivingPhases, UserPhases, Present
<1>5. CountsInside'
  BY CountsMove, CountsAreNat DEF CountsInside, InsidePhases, OneIf
<1>6. entry'[o].inv = Cardinality(UsersOf(o))'
                        + OneIf(entry'[o].st \in {"ACTIVATING", "ACTIVE"})
  <2>1. Cardinality(UsersOf(o)) = 0
    BY <1>1, Known DEF Present
  <2>2. Cardinality(UsersOf(o))' = 0
    BY <2>1, CountsMove DEF UserPhases, OneIf
  <2> QED BY <1>2, <2>2 DEF OneIf
<1>7. CountsDetached'
  <2>1. Cardinality(Doomed)' = Cardinality(Doomed)
    BY <1>1, <1>2, DoomedMove, CountsAreNat DEF OneIf
  <2>2. Cardinality(Detachers)' = Cardinality(Detachers)
        /\ Cardinality(Leavers)' = Cardinality(Leavers)
    BY CountsMove, CountsAreNat DEF OneIf
  <2>3. Due' = Due
    BY DEF Due
  <2> QED BY <2>1, <2>2, <2>3 DEF CountsDetached
<1>8. Closing'
  BY ClosingMove DEF InsidePhases
<1> QED BY <1>1, <1>2, <1>3, <1>4, <1>5, <1>6, <1>7, <1>8, QueueStays, ObjectStepKeeps
     DEF CallerPhases, AppPhases, ObjectPhases, OwnerPhases, ReservePhases, GivingPhases, UserPhases

\* An object that was incarnated too late goes to etherealisation.
LEMMA ArrivesLate ==
  ASSUME IInv, Types', NEW r \in Callers, NEW o \in Objects, Moves(r),
         at[r] = "incarnated", arg[r] = o, at'[r] = "sa_queue", arg'[r] = o,
         entry' = [entry EXCEPT ![o] = [st |-> "ETHEREALISING", inv |-> 0]],
         UNCHANGED <<list, nReqInThis, nReqActive, nDetached, queue, server, job, by, eth,
                     pretended, life, listed, pd_rq_state, pd_state, pd_lock>>
  PROVE  IInv'
<1> USE Kinds DEF IInv
<1>1. entry[o].st = "ACTIVATING"
  BY DEF Owned, ReservePhases
<1>2. OnlyObject(o) /\ entry'[o] = [st |-> "ETHEREALISING", inv |-> 0] /\ list[o] = "none"
  BY <1>1, Known, QueueStays DEF OnlyObject, Types, EntryTypes
<1>3. WorksOn(r, o)
  BY DEF WorksOn, OwnerPhases, ReservePhases, GivingPhases, UserPhases
<1>4. ObjectLeft(r, o)
  <2>1. \A u \in Threads : u # r /\ arg[u] = o => at[u] \notin OwnerPhases
    BY DEF OneOwner, OwnerPhases, ReservePhases
  <2> QED BY <1>1, <1>2, <2>1, Known, QueueStays
         DEF ObjectLeft, ReservePhases, GivingPhases, UserPhases, Present
<1>5. CountsInside'
  BY CountsMove, CountsAreNat DEF CountsInside, InsidePhases, OneIf
<1>6. entry'[o].inv = Cardinality(UsersOf(o))'
                        + OneIf(entry'[o].st \in {"ACTIVATING", "ACTIVE"})
  <2>1. Cardinality(UsersOf(o)) = 0
    BY <1>1, Known DEF Present
  <2>2. Cardinality(UsersOf(o))' = 0
    BY <2>1, CountsMove DEF UserPhases, OneIf
  <2> QED BY <1>2, <2>2 DEF OneIf
<1>7. CountsDetached'
  BY <1>1, <1>2, SameDetached
<1>8. Closing'
  BY DEF Closing, Moves, InsidePhases
<1> QED BY <1>1, <1>2, <1>3, <1>4, <1>5, <1>6, <1>7, <1>8, QueueStays, ObjectStepKeeps
     DEF CallerPhases, AppPhases

LEMMA LateQueues ==
  ASSUME IInv, Types', NEW r \in Callers, NEW o \in Objects, Moves(r),
         at[r] = "sa_queue", arg[r] = o, at'[r] = "sa_exit", arg'[r] = o,
         queue' = Append(queue, o), nDetached' = nDetached + 1,
         UNCHANGED <<entry, list, nReqInThis, nReqActive, server, job, by, eth,
                     pretended, life, listed, pd_rq_state, pd_state, pd_lock>>
  PROVE  IInv'
<1> USE Kinds DEF IInv
<1>1. entry[o].st = "ETHEREALISING" /\ list[o] = "none" /\ ~InHand(o)
  BY DEF Owned, GivingPhases
<1>2. /\ \A p \in Objects : InHand(p)' <=> InHand(p) \/ p = o
      /\ \A p \in Objects : ~(Serves(p) /\ Lined(p))'
      /\ \A i \in 1..Len(queue'), k \in 1..Len(queue') : queue'[i] = queue'[k] => i = k
      /\ Due' = Due + 1 /\ Due \in Nat
  BY <1>1, QueueGrows, DueIsNat DEF Types
<1>3. OnlyObject(o)
  BY <1>2 DEF OnlyObject
<1>4. WorksOn(r, o)
  BY DEF WorksOn, OwnerPhases, ReservePhases, GivingPhases, UserPhases
<1>5. ObjectLeft(r, o)
  <2>1. \A u \in Threads : u # r /\ arg[u] = o => at[u] \notin OwnerPhases
    BY DEF OneOwner, OwnerPhases, GivingPhases
  <2>2. \A u \in Threads : at[u] = "detach" => arg[u] # o
    BY <1>1, <2>1 DEF Detaching, OwnerPhases, GivingPhases
  <2> QED BY <1>1, <1>2, <2>1, <2>2, Known
         DEF ObjectLeft, ReservePhases, GivingPhases, UserPhases, Present
<1>6. CountsInside'
  BY SameInside DEF InsidePhases
<1>7. entry'[o].inv = Cardinality(UsersOf(o))'
                        + OneIf(entry'[o].st \in {"ACTIVATING", "ACTIVE"})
  <2>1. Cardinality(UsersOf(o))' = Cardinality(UsersOf(o))
    BY SameUsers DEF UserPhases
  <2> QED BY <2>1 DEF CountsOfEntries
<1>8. CountsDetached'
  <2>1. Cardinality(Doomed)' = Cardinality(Doomed)
    BY DEF Doomed
  <2>2. Cardinality(Detachers)' = Cardinality(Detachers)
        /\ Cardinality(Leavers)' = Cardinality(Leavers)
    BY LeaversMove
  <2>3. nDetached \in Int
    BY DEF Types, Numbers
  <2> QED BY <1>2, <2>1, <2>2, <2>3, OneMoreDue
<1>9. Closing'
  BY DEF Closing, Moves, InsidePhases
<1> QED BY <1>1, <1>2, <1>3, <1>4, <1>5, <1>6, <1>7, <1>8, <1>9, ObjectStepKeeps
     DEF CallerPhases, AppPhases

-----------------------------------------------------------------------------
(* The actions of a request. *)

LEMMA Sleeping ==
  ASSUME IInv
  PROVE  asleep \in SUBSET (Threads \cup Jobs) /\ AfterExit \in SUBSET (Threads \cup Jobs)
         /\ AfterLeave \in SUBSET (Threads \cup Jobs)
BY DEF IInv, Types, Sleepers, AfterExit, AfterLeave

LEMMA Dispatched ==
  ASSUME IInv, NEW r \in Callers, NEW o, NEW e, NEW in \in Int,
         NEW sleepers \in SUBSET (Threads \cup Jobs), Dispatch(r, o, e, in, sleepers)
  PROVE  /\ Admitted(r) /\ \A u \in Threads : u # r => at'[u] = at[u]
         /\ at' \in [Threads -> CallerPhases \cup AppPhases]
         /\ Sleepers' /\ nReqActive' \in Int /\ nReqInThis' = in
<1> USE Kinds DEF IInv, Types
<1>1. \E phase \in {"upcall", "held", "leave"} : at' = [at EXCEPT ![r] = phase]
  BY DEF Dispatch, Go
<1>2. /\ \A u \in Threads : u # r => at'[u] = at[u]
      /\ at' \in [Threads -> CallerPhases \cup AppPhases]
  BY <1>1 DEF ThreadTypes, CallerPhases
<1>3. Admitted(r)
  BY DEF Dispatch, Go, Admitted, ThreadTypes
<1>4. Sleepers' /\ nReqActive' \in Int
  BY DEF Dispatch, Sleepers, Numbers
<1> QED BY <1>2, <1>3, <1>4 DEF Dispatch

LEMMA RequestKeeps ==
  ASSUME IInv, NEW r \in Callers, NEW o \in Objects, Request(r, o)
  PROVE  IInv'
<1> USE Kinds DEF IInv
<1>1. /\ at[r] = "idle" /\ arg' = [arg EXCEPT ![r] = o] /\ arg'[r] = o
      /\ calls' \in 0..MaxCalls
  BY BoundsAssumption DEF Request, Types, Flags, ThreadTypes
<1>2. UNCHANGED <<activator, holdTimeout, nDetached, list, queue, server, job, by, eth,
                  pretended, life, listed, pd_rq_state, pd_state, pd_deactivated, pd_lock, ops>>
  BY DEF Request, policy, manager, serving, jobs
<1>3. Flags' /\ JobTypes' /\ ServingTypes' /\ arg' \in [Threads -> Objects \cup {None}]
      /\ list' \in [Objects -> Jobs \cup {"active", "none"}] /\ nDetached' \in Int
  BY <1>1, <1>2 DEF Types, Flags, Numbers, JobTypes, ServingTypes, ThreadTypes, EntryTypes
<1>4. CASE /\ entry[o].st \in Present
           /\ Dispatch(r, o, entry[o], nReqInThis + 1, asleep)
  <2>1. /\ Admitted(r) /\ Moves(r) /\ at' \in [Threads -> CallerPhases \cup AppPhases]
        /\ Sleepers' /\ nReqActive' \in Int /\ nReqInThis' = nReqInThis + 1
        /\ entry' = [entry EXCEPT ![o] = [entry[o] EXCEPT !.inv = @ + 1]]
    <3> DEFINE in == nReqInThis + 1
    <3>1. in \in Int /\ asleep \in SUBSET (Threads \cup Jobs)
      BY DEF Types, Numbers, Sleepers
    <3>0. Dispatch(r, o, entry[o], in, asleep)
      BY <1>4
    <3> HIDE DEF in
    <3>2. \A u \in Threads : u # r => arg'[u] = arg[u]
      BY <1>1 DEF Types, ThreadTypes
    <3>3. /\ Admitted(r) /\ \A u \in Threads : u # r => at'[u] = at[u]
          /\ at' \in [Threads -> CallerPhases \cup AppPhases]
          /\ Sleepers' /\ nReqActive' \in Int /\ nReqInThis' = in
      BY <3>0, <3>1, Dispatched
    <3>4. entry' = [entry EXCEPT ![o] = [entry[o] EXCEPT !.inv = @ + 1]]
      BY <3>0 DEF Dispatch
    <3> QED BY <3>2, <3>3, <3>4 DEF Moves, in
  <2>2. entry' \in [Objects -> [st : EntryStates, inv : Int]] /\ nReqInThis' \in Int
    BY <2>1 DEF Types, EntryTypes, Numbers
  <2>3. Types'
    BY <1>3, <2>1, <2>2 DEF Types, Numbers, EntryTypes, ThreadTypes
  <2> QED BY <1>1, <1>2, <1>4, <2>1, <2>3, EnterPresent
<1>5. CASE /\ entry[o].st \in {"none", "ETHEREALISING"}
           /\ Go(r, "locate") /\ UNCHANGED <<entry, counts, asleep>>
  <2>1. at' = [at EXCEPT ![r] = "locate"] /\ at'[r] = "locate" /\ Moves(r)
        /\ UNCHANGED <<entry, nReqInThis, nReqActive, asleep>>
    BY <1>1, <1>5 DEF Go, Moves, Types, ThreadTypes, counts
  <2>2. ThreadTypes'
    BY <1>3, <2>1 DEF Types, ThreadTypes, CallerPhases
  <2>3. Types'
    BY <1>2, <1>3, <2>1, <2>2 DEF Types, Numbers, EntryTypes, Sleepers
  <2>4. QuietPlaces(r)
    BY <1>1, <2>1 DEF QuietPlaces, Quiet, CallerPhases, OwnerPhases, ReservePhases, GivingPhases,
       UserPhases
  <2>5. QuietCounts(r)
    BY <1>1, <1>2, <2>1 DEF QuietCounts, InsidePhases, OneIf
  <2> QED BY <1>1, <1>2, <2>1, <2>3, <2>4, <2>5, QuietStepKeeps DEF InsidePhases
<1> QED BY <1>4, <1>5 DEF Request

LEMMA LocateKeeps ==
  ASSUME IInv, NEW r \in Callers, Locate(r)
  PROVE  IInv'
<1> USE Kinds DEF IInv
<1> DEFINE o == arg[r]
<1>1. at[r] = "locate" /\ o \in Objects /\ arg' = arg
  BY DEF Locate, Placed, ObjectPhases
<1>2. UNCHANGED <<activator, holdTimeout, nDetached, list, queue, server, job, by, eth,
                  pretended, life, listed, pd_rq_state, pd_state, pd_deactivated, pd_lock,
                  calls, ops>>
  BY DEF Locate, policy, manager, serving, jobs, bounds
<1>3. Flags' /\ JobTypes' /\ ServingTypes' /\ arg' \in [Threads -> Objects \cup {None}]
      /\ list' \in [Objects -> Jobs \cup {"active", "none"}] /\ nDetached' \in Int
  BY <1>1, <1>2 DEF Types, Flags, Numbers, JobTypes, ServingTypes, ThreadTypes, EntryTypes
<1>4. CASE /\ entry[o].st \in Present
           /\ Dispatch(r, o, entry[o], nReqInThis + 1, asleep)
  <2>1. /\ Admitted(r) /\ Moves(r) /\ at' \in [Threads -> CallerPhases \cup AppPhases]
        /\ Sleepers' /\ nReqActive' \in Int /\ nReqInThis' = nReqInThis + 1
        /\ entry' = [entry EXCEPT ![o] = [entry[o] EXCEPT !.inv = @ + 1]]
    <3> DEFINE in == nReqInThis + 1
    <3>1. in \in Int /\ asleep \in SUBSET (Threads \cup Jobs)
      BY DEF Types, Numbers, Sleepers
    <3>0. Dispatch(r, o, entry[o], in, asleep)
      BY <1>4
    <3> HIDE DEF in
    <3>2. /\ Admitted(r) /\ \A u \in Threads : u # r => at'[u] = at[u]
          /\ at' \in [Threads -> CallerPhases \cup AppPhases]
          /\ Sleepers' /\ nReqActive' \in Int /\ nReqInThis' = in
      BY <1>1, <3>0, <3>1, Dispatched
    <3>3. entry' = [entry EXCEPT ![o] = [entry[o] EXCEPT !.inv = @ + 1]]
      BY <3>0 DEF Dispatch
    <3> QED BY <1>1, <3>2, <3>3 DEF Moves, in
  <2>2. entry' \in [Objects -> [st : EntryStates, inv : Int]] /\ nReqInThis' \in Int
    BY <1>1, <2>1 DEF Types, EntryTypes, Numbers
  <2>3. Types'
    BY <1>3, <2>1, <2>2 DEF Types, Numbers, EntryTypes, ThreadTypes
  <2> QED BY <1>1, <1>2, <1>4, <2>1, <2>3, EnterPresent
<1>5. CASE /\ entry[o].st = "none"
           /\ entry' = [entry EXCEPT ![o] = Reserved]
           /\ nReqInThis' = nReqInThis + 1
           /\ Go(r, "sa_check") /\ UNCHANGED <<nReqActive, asleep>>
  <2>1. at' = [at EXCEPT ![r] = "sa_check"] /\ at'[r] = "sa_check" /\ Moves(r)
    BY <1>1, <1>5 DEF Go, Moves, Types, ThreadTypes
  <2>2. ThreadTypes'
    BY <1>3, <2>1 DEF Types, ThreadTypes, CallerPhases
  <2>3. EntryTypes'
    BY <1>1, <1>3, <1>5 DEF Types, EntryTypes, Reserved, EntryStates
  <2>4. Types'
    BY <1>2, <1>3, <1>5, <2>2, <2>3 DEF Types, Numbers, Sleepers
  <2> QED BY <1>1, <1>2, <1>5, <2>1, <2>4, Reserve
<1> QED BY <1>4, <1>5 DEF Locate


LEMMA LeaveKeeps ==
  ASSUME IInv, NEW r \in Callers, Leave(r)
  PROVE  /\ IInv'
         /\ LastOut(arg[r]) => /\ entry[arg[r]].st = "DEACTIVATING"
                               /\ \A u \in Threads : u # r /\ at[u] \in UserPhases
                                                       => arg[u] # arg[r]
<1> USE Kinds DEF IInv
<1>1. PICK o \in Objects : arg[r] = o
  BY DEF Leave, Placed, ObjectPhases, UserPhases
<1>2. /\ at[r] = "leave" /\ nReqInThis' = nReqInThis - 1 /\ nReqActive' = nReqActive - 1
      /\ asleep' = AfterLeave
      /\ UNCHANGED <<activator, holdTimeout, nDetached, list, queue, server, job, by, eth,
                     pretended, life, listed, pd_rq_state, pd_state, pd_deactivated, pd_lock,
                     calls, ops>>
  BY DEF Leave, policy, manager, serving, jobs, bounds
<1>3. Flags' /\ Numbers' /\ JobTypes' /\ ServingTypes' /\ Sleepers'
      /\ list' \in [Objects -> Jobs \cup {"active", "none"}]
  <2>1. Sleepers'
    BY <1>2, Sleeping DEF Sleepers
  <2> QED BY <1>2, <2>1 DEF Types, Flags, Numbers, JobTypes, ServingTypes, EntryTypes
<1>4. CASE LastOut(o)
  <2>1. /\ entry' = [entry EXCEPT ![o] = [st |-> "ETHEREALISING", inv |-> 0]]
        /\ at' = [at EXCEPT ![r] = "retire"] /\ arg' = arg
    BY <1>1, <1>4 DEF Leave, Go
  <2>2. at'[r] = "retire" /\ Moves(r) /\ ThreadTypes'
    BY <2>1 DEF Types, ThreadTypes, Moves, CallerPhases
  <2>3. EntryTypes'
    BY <1>3, <2>1 DEF Types, EntryTypes, EntryStates
  <2>4. Types'
    BY <1>3, <2>2, <2>3 DEF Types
  <2> QED BY <1>1, <1>2, <1>4, <2>1, <2>2, <2>4, LeavesLast
<1>5. CASE ~LastOut(o)
  <2>1. entry' = [entry EXCEPT ![o].inv = @ - 1] /\ Ends(r)
    BY <1>1, <1>5 DEF Leave
  <2>2. at'[r] = "idle" /\ Moves(r) /\ ThreadTypes'
    BY <2>1 DEF Ends, Types, ThreadTypes, Moves, CallerPhases
  <2>3. EntryTypes'
    BY <1>3, <2>1 DEF Types, EntryTypes
  <2>4. Types'
    BY <1>3, <2>2, <2>3 DEF Types
  <2> QED BY <1>1, <1>2, <1>5, <2>1, <2>2, <2>4, LeavesObject
<1> QED BY <1>4, <1>5

\* A request that has reserved the object gives it up.
LEMMA GiveUpKeeps ==
  ASSUME IInv, NEW r \in Callers, GiveUp(r), at[r] \in {"sa_check", "incarnate"},
         UNCHANGED <<policy, manager, pd_rq_state, life, nReqActive, nDetached, pd_lock, list,
                     jobs, serving, bounds>>
  PROVE  IInv'
<1> USE Kinds DEF IInv
<1>1. PICK o \in Objects : arg[r] = o
  BY DEF Placed, ObjectPhases, OwnerPhases, ReservePhases
<1>2. /\ entry' = [entry EXCEPT ![o] = Dead] /\ nReqInThis' = nReqInThis - 1
      /\ asleep' = AfterExit
      /\ UNCHANGED <<activator, holdTimeout, nReqActive, nDetached, list, queue, server, job, by,
                     eth, pretended, life, listed, pd_rq_state, pd_state, pd_deactivated, pd_lock,
                     calls, ops>>
  BY <1>1 DEF GiveUp, Exited, policy, manager, serving, jobs, bounds
<1>3. at'[r] = "idle" /\ Moves(r) /\ ThreadTypes'
  BY DEF GiveUp, Ends, Types, ThreadTypes, Moves, CallerPhases
<1>4. Types'
  <2>1. Sleepers'
    BY <1>2, Sleeping DEF Sleepers
  <2>2. EntryTypes'
    BY <1>2 DEF Types, EntryTypes, EntryStates, Dead
  <2> QED BY <1>2, <1>3, <2>1, <2>2 DEF Types, Flags, Numbers, JobTypes, ServingTypes
<1> QED BY <1>1, <1>2, <1>3, <1>4, Withdraw

LEMMA SaCheckKeeps ==
  ASSUME IInv, NEW r \in Callers, SaCheck(r)
  PROVE  IInv'
<1> USE Kinds DEF IInv
<1>1. CASE GiveUp(r)
  BY <1>1, GiveUpKeeps DEF SaCheck
<1>2. CASE ~Dying /\ Go(r, "sa_ready") /\ UNCHANGED <<entry, nReqInThis, asleep, arg>>
  <2>1. /\ at[r] = "sa_check" /\ at'[r] = "sa_ready" /\ Moves(r) /\ life = "alive"
        /\ arg' = arg
    BY <1>2 DEF SaCheck, Go, Moves, Types, ThreadTypes, Dying
  <2>2. UNCHANGED <<activator, holdTimeout, nReqActive, nDetached, list, queue, server, job, by,
                    eth, pretended, life, listed, pd_rq_state, pd_state, pd_deactivated, pd_lock,
                    calls, ops, entry, nReqInThis, asleep>>
    BY <1>2 DEF SaCheck, policy, manager, serving, jobs, bounds
  <2>3. Types'
    <3>1. ThreadTypes'
      BY <1>2 DEF Go, Types, ThreadTypes, CallerPhases
    <3> QED BY <2>2, <3>1
           DEF Types, Flags, Numbers, EntryTypes, Sleepers, JobTypes, ServingTypes
  <2>4. QuietPlaces(r)
    BY <2>1 DEF QuietPlaces, Quiet, Placed, CallerPhases, ObjectPhases, OwnerPhases, ReservePhases,
       GivingPhases, UserPhases
  <2>5. QuietCounts(r)
    BY <2>1, <2>2 DEF QuietCounts, InsidePhases, OneIf
  <2>6. job["destroy"] = "none"
    BY <2>1 DEF Destruction
  <2> QED BY <2>1, <2>2, <2>3, <2>4, <2>5, <2>6, QuietStepKeeps
<1> QED BY <1>1, <1>2 DEF SaCheck

LEMMA IncarnateFailsKeeps ==
  ASSUME IInv, NEW r \in Callers, IncarnateFails(r)
  PROVE  IInv'
BY GiveUpKeeps DEF IncarnateFails

LEMMA SaActivateKeeps ==
  ASSUME IInv, NEW r \in Callers, SaActivate(r)
  PROVE  IInv'
<1> USE Kinds DEF IInv
<1>1. PICK o \in Objects : arg[r] = o
  BY DEF SaActivate, Placed, ObjectPhases, OwnerPhases, ReservePhases
<1>2. /\ at[r] = "incarnated" /\ arg' = arg
      /\ UNCHANGED <<activator, holdTimeout, nDetached, queue, server, job, by,
                     eth, pretended, life, listed, pd_rq_state, pd_state, pd_deactivated, pd_lock,
                     calls, ops>>
  BY DEF SaActivate, policy, manager, serving, jobs, bounds
<1>3. Flags' /\ JobTypes' /\ ServingTypes' /\ nDetached' \in Int
  BY <1>2 DEF Types, Flags, Numbers, JobTypes, ServingTypes
<1>4. CASE /\ ~Dying
           /\ list' = [list EXCEPT ![arg[r]] = "active"]
           /\ Dispatch(r, arg[r], Active, nReqInThis, AfterExit)
  <2>1. life = "alive" /\ list' = [list EXCEPT ![o] = "active"]
        /\ Dispatch(r, o, Active, nReqInThis, AfterExit) /\ nReqInThis \in Int
    BY <1>1, <1>4 DEF Dying, Types, Flags, Numbers
  <2>2. /\ Admitted(r) /\ \A u \in Threads : u # r => at'[u] = at[u]
        /\ at' \in [Threads -> CallerPhases \cup AppPhases]
        /\ Sleepers' /\ nReqActive' \in Int /\ nReqInThis' = nReqInThis
    BY <2>1, Sleeping, Dispatched
  <2>3. entry' = [entry EXCEPT ![o] = [st |-> "ACTIVE", inv |-> 2]]
    <3>1. [Active EXCEPT !.inv = Active.inv + 1] = [st |-> "ACTIVE", inv |-> 2]
      BY DEF Active
    <3>2. entry' = [entry EXCEPT ![o] = [Active EXCEPT !.inv = Active.inv + 1]]
      BY <2>1 DEF Dispatch
    <3> QED BY <3>1, <3>2
  <2>4. Moves(r)
    BY <1>2, <2>2 DEF Moves
  <2>5. EntryTypes'
    BY <2>1, <2>3 DEF Types, EntryTypes, EntryStates, Present
  <2>6. ThreadTypes'
    BY <1>2, <2>2 DEF Types, ThreadTypes
  <2>7. Types'
    BY <1>3, <2>1, <2>2, <2>5, <2>6 DEF Types, Numbers
  <2> QED BY <1>1, <1>2, <2>1, <2>2, <2>3, <2>4, <2>7, EnterIncarnated
<1>5. CASE /\ entry' = [entry EXCEPT ![arg[r]] = [st |-> "ETHEREALISING", inv |-> 0]]
           /\ Go(r, "sa_queue") /\ UNCHANGED <<list, counts, asleep>>
  <2>1. at'[r] = "sa_queue" /\ Moves(r) /\ ThreadTypes'
    BY <1>2, <1>5 DEF Go, Moves, Types, ThreadTypes, CallerPhases
  <2>2. /\ entry' = [entry EXCEPT ![o] = [st |-> "ETHEREALISING", inv |-> 0]]
        /\ UNCHANGED <<list, nReqInThis, nReqActive, asleep>>
    BY <1>1, <1>5 DEF counts
  <2>3. EntryTypes'
    BY <2>2 DEF Types, EntryTypes, EntryStates
  <2>4. Types'
    BY <1>3, <2>1, <2>2, <2>3 DEF Types, Numbers, Sleepers
  <2> QED BY <1>1, <1>2, <2>1, <2>2, <2>4, ArrivesLate
<1> QED BY <1>4, <1>5 DEF SaActivate

LEMMA SaQueueKeeps ==
  ASSUME IInv, NEW r \in Callers, SaQueue(r)
  PROVE  IInv'
<1> USE Kinds DEF IInv
<1>1. PICK o \in Objects : arg[r] = o
  BY DEF SaQueue, Placed, ObjectPhases, OwnerPhases, GivingPhases
<1>2. /\ at[r] = "sa_queue" /\ queue' = Append(queue, o) /\ nDetached' = nDetached + 1
      /\ arg' = arg
      /\ UNCHANGED <<activator, holdTimeout, entry, list, nReqInThis, nReqActive, server, job, by,
                     eth, pretended, life, listed, pd_rq_state, pd_state, pd_deactivated, pd_lock,
                     calls, ops, asleep>>
  BY <1>1 DEF SaQueue, policy, manager, counts, objects, jobs, bounds
<1>3. at'[r] = "sa_exit" /\ Moves(r) /\ ThreadTypes'
  BY <1>2 DEF SaQueue, Go, Moves, Types, ThreadTypes, CallerPhases
<1>4. Types'
  <2>1. queue' \in Seq(Objects)
    BY <1>2 DEF Types, ServingTypes
  <2> QED BY <1>2, <1>3, <2>1
         DEF Types, Flags, Numbers, EntryTypes, Sleepers, JobTypes, ServingTypes
<1> QED BY <1>1, <1>2, <1>3, <1>4, LateQueues

LEMMA RetireKeeps ==
  ASSUME IInv, NEW t \in Threads, Retire(t)
  PROVE  IInv'
<1> USE Kinds DEF IInv
<1>1. PICK o \in Objects : arg[t] = o
  BY DEF Retire, Placed, ObjectPhases, OwnerPhases, GivingPhases
<1>2. /\ at[t] = "retire" /\ pd_lock = None
      /\ UNCHANGED <<activator, holdTimeout, list, nReqInThis, nReqActive, nDetached, server, job,
                     by, eth, pretended, life, listed, pd_rq_state, pd_state, pd_deactivated,
                     pd_lock, calls, ops, asleep>>
  BY DEF Retire, DetachCounted, PdLockFree, policy, manager, counts, jobs, bounds
<1>3. Flags' /\ Numbers' /\ JobTypes' /\ Sleepers'
  BY <1>2 DEF Types, Flags, Numbers, JobTypes, Sleepers
<1>4. CASE queue' = Append(queue, arg[t]) /\ Ends(t) /\ UNCHANGED entry
  <2>1. at'[t] = "idle" /\ Moves(t) /\ ThreadTypes'
    BY <1>4 DEF Ends, Moves, Types, ThreadTypes, CallerPhases
  <2>2. ServingTypes' /\ EntryTypes'
    BY <1>1, <1>2, <1>4 DEF Types, ServingTypes, EntryTypes
  <2>3. Types'
    BY <1>3, <2>1, <2>2 DEF Types
  <2> QED BY <1>1, <1>2, <1>4, <2>1, <2>3, RetireQueues
<1>5. CASE /\ entry' = [entry EXCEPT ![arg[t]] = Dead]
           /\ Go(t, "met") /\ UNCHANGED <<arg, queue>>
  <2>1. at'[t] = "met" /\ Moves(t) /\ ThreadTypes'
    BY <1>5 DEF Go, Moves, Types, ThreadTypes, CallerPhases
  <2>2. ServingTypes' /\ EntryTypes'
    BY <1>1, <1>2, <1>5 DEF Types, ServingTypes, EntryTypes, Dead, EntryStates
  <2>3. Types'
    BY <1>3, <2>1, <2>2 DEF Types
  <2> QED BY <1>1, <1>2, <1>5, <2>1, <2>3, RetireKills
<1> QED BY <1>4, <1>5 DEF Retire

-----------------------------------------------------------------------------
(* The operations on objects. *)

LEMMA PlaceKeeps ==
  ASSUME IInv, NEW a \in Apps, NEW o \in Objects, Place(a, o)
  PROVE  IInv'
<1> USE Kinds DEF IInv
<1>1. /\ at[a] = "idle" /\ entry[o].st = "none" /\ entry' = [entry EXCEPT ![o] = Reserved]
      /\ UNCHANGED <<activator, holdTimeout, list, nReqInThis, nReqActive, nDetached, queue, server,
                     job, by, eth, pretended, life, listed, pd_rq_state, pd_state, pd_deactivated,
                     pd_lock, calls, asleep>>
      /\ ops' \in 0..MaxOps
  BY BoundsAssumption
     DEF Place, Call, policy, manager, counts, jobs, serving, Types, Flags
<1>2. at'[a] = "placed" /\ arg'[a] = o /\ Moves(a) /\ ThreadTypes'
  BY DEF Place, Takes, Go, Moves, Types, ThreadTypes, AppPhases
<1>3. EntryTypes'
  BY <1>1 DEF Types, EntryTypes, EntryStates, Reserved
<1>4. Types'
  BY <1>1, <1>2, <1>3 DEF Types, Flags, Numbers, Sleepers, JobTypes, ServingTypes
<1> QED BY <1>1, <1>2, <1>4, Reserve

LEMMA ActivateKeeps ==
  ASSUME IInv, NEW a \in Apps, Activate(a)
  PROVE  IInv'
<1> USE Kinds DEF IInv
<1>1. PICK o \in Objects : arg[a] = o
  BY DEF Activate, Placed, ObjectPhases, OwnerPhases, ReservePhases
<1>2. /\ at[a] = "placed" /\ Ends(a)
      /\ UNCHANGED <<activator, holdTimeout, nReqInThis, nReqActive, nDetached, queue, server,
                     job, by, eth, pretended, life, listed, pd_rq_state, pd_state, pd_deactivated,
                     pd_lock, calls, ops, asleep>>
  BY DEF Activate, policy, manager, counts, jobs, serving, bounds
<1>3. at'[a] = "idle" /\ Moves(a) /\ ThreadTypes'
  BY <1>2 DEF Ends, Moves, Types, ThreadTypes, AppPhases
<1>4. Flags' /\ Numbers' /\ Sleepers' /\ JobTypes' /\ ServingTypes'
  BY <1>2 DEF Types, Flags, Numbers, Sleepers, JobTypes, ServingTypes
<1>5. CASE /\ ~Dying
           /\ entry' = [entry EXCEPT ![o].st = "ACTIVE"]
           /\ list' = [list EXCEPT ![o] = "active"]
  <2>1. EntryTypes'
    BY <1>5 DEF Types, EntryTypes, EntryStates, Present
  <2>2. Types' /\ life = "alive"
    BY <1>3, <1>4, <1>5, <2>1 DEF Types, Dying
  <2> QED BY <1>1, <1>2, <1>3, <1>5, <2>2, Activated
<1>6. CASE entry' = [entry EXCEPT ![o] = Dead] /\ UNCHANGED list
  <2>1. EntryTypes'
    BY <1>6 DEF Types, EntryTypes, EntryStates, Dead
  <2>2. Types'
    BY <1>3, <1>4, <2>1 DEF Types
  <2> QED BY <1>1, <1>2, <1>3, <1>6, <2>2, Withdraw
<1> QED BY <1>1, <1>5, <1>6 DEF Activate

LEMMA DeactivateObjectKeeps ==
  ASSUME IInv, NEW a \in Apps, NEW o \in Objects, DeactivateObject(a, o)
  PROVE  /\ IInv'
         /\ entry[o].inv = 1 => \A u \in Threads : at[u] \in UserPhases => arg[u] # o
<1> USE Kinds DEF IInv
<1>1. /\ at[a] = "idle" /\ pd_lock = None /\ life \in {"alive", "dying"}
      /\ entry[o].st = "ACTIVE" /\ entry[o].inv \in Int /\ list' = [list EXCEPT ![o] = "none"]
      /\ UNCHANGED <<activator, holdTimeout, nReqInThis, nReqActive, queue, server,
                     job, by, eth, pretended, life, listed, pd_rq_state, pd_state, pd_deactivated,
                     calls, asleep>>
      /\ ops' \in 0..MaxOps
  BY BoundsAssumption
     DEF DeactivateObject, Call, PdLockFree, policy, manager, counts, jobs, serving, Types, Flags,
         EntryTypes
<1>2. Sleepers' /\ JobTypes' /\ ServingTypes'
  BY <1>1 DEF Types, Sleepers, JobTypes, ServingTypes
<1>3. CASE /\ entry[o].inv = 1
           /\ entry' = [entry EXCEPT ![o] = [st |-> "ETHEREALISING", inv |-> 0]]
           /\ nDetached' = nDetached + 1
           /\ Takes(a, o, "retire")
           /\ UNCHANGED pd_lock
  <2>1. at'[a] = "retire" /\ arg'[a] = o /\ Moves(a) /\ ThreadTypes'
    BY <1>3 DEF Takes, Go, Moves, Types, ThreadTypes, AppPhases
  <2>2. EntryTypes'
    BY <1>1, <1>3 DEF Types, EntryTypes, EntryStates
  <2>3. Flags' /\ Numbers'
    BY <1>1, <1>3 DEF Types, Flags, Numbers
  <2>4. Types'
    BY <1>2, <2>1, <2>2, <2>3 DEF Types
  <2> QED BY <1>1, <1>3, <2>1, <2>4, DetachIdle
<1>4. CASE /\ entry[o].inv > 1
           /\ entry' = [entry EXCEPT ![o] = [st |-> "DEACTIVATING", inv |-> @.inv - 1]]
           /\ pd_lock' = a
           /\ Takes(a, o, "detach")
           /\ UNCHANGED nDetached
  <2>1. at'[a] = "detach" /\ arg'[a] = o /\ Moves(a) /\ ThreadTypes'
    BY <1>4 DEF Takes, Go, Moves, Types, ThreadTypes, AppPhases
  <2>2. EntryTypes'
    BY <1>1, <1>4 DEF Types, EntryTypes, EntryStates, Present
  <2>3. Flags' /\ Numbers'
    BY <1>1, <1>4 DEF Types, Flags, Numbers
  <2>4. Types'
    BY <1>2, <2>1, <2>2, <2>3 DEF Types
  <2>5. /\ entry' = [entry EXCEPT ![o] = [st |-> "DEACTIVATING", inv |-> entry[o].inv - 1]]
        /\ UNCHANGED <<nReqInThis, nReqActive, nDetached, queue, server, job, by, eth, pretended,
                       life, listed, pd_rq_state, pd_state>>
        /\ entry[o].inv > 1 /\ pd_lock' = a
    BY <1>1, <1>4
  <2>6. IInv'
    BY <1>1, <2>1, <2>4, <2>5, DetachBusy
  <2> QED BY <1>4, <2>6
<1> QED BY <1>3, <1>4 DEF DeactivateObject

-----------------------------------------------------------------------------
(* The servant activator's thread. *)

LEMMA SameThreads ==
  ASSUME UNCHANGED <<at, arg>>
  PROVE  /\ Inside' = Inside /\ Working' = Working /\ Detachers' = Detachers
         /\ Leavers' = Leavers /\ \A o \in Objects : UsersOf(o)' = UsersOf(o)
         /\ Placed <=> Placed'
         /\ CountsInside /\ UNCHANGED counts => CountsInside'
BY DEF Inside, Working, Detachers, Leavers, UsersOf, At, Placed, CountsInside, counts

\* It has one object less to see to, or as many as before.
LEMMA ServingKeeps ==
  ASSUME IInv, ServingTypes', nDetached' \in Int,
         UNCHANGED <<activator, holdTimeout, pd_state, pd_deactivated, listed, pd_rq_state, life,
                     nReqInThis, nReqActive, pd_lock, entry, list, at, arg, asleep, job, by, eth,
                     pretended, calls, ops>>,
         \A p \in Objects : InHand(p)' <=> InHand(p), Queued',
         \/ Due' = Due /\ nDetached' = nDetached
         \/ Due' = Due - 1 /\ nDetached' = nDetached - 1,
         job["destroy"] \in {"end", "done"} => nDetached' = nDetached
  PROVE  IInv'
<1> USE DEF IInv
<1>1. Types'
  BY DEF Types, Flags, Numbers, EntryTypes, ThreadTypes, Sleepers, JobTypes
<1>2. Placed' /\ Locked' /\ Waiters' /\ Destruction' /\ Deactivation' /\ Lists' /\ Used'
  BY DEF Placed, Locked, Waiters, Destruction, Deactivation, Lists, Used
<1>3. Owned' /\ OneOwner' /\ Kept' /\ Detaching'
  BY DEF Owned, OneOwner, Kept, Detaching
<1>4. CountsInside' /\ CountsOfEntries'
  BY SameThreads DEF CountsInside, CountsOfEntries
<1>5. CountsDetached'
  <2>1. Detachers' = Detachers /\ Leavers' = Leavers /\ Doomed' = Doomed
    BY SameThreads DEF Doomed
  <2>2. nDetached \in Int /\ Due \in Nat
    BY DueIsNat DEF Types, Numbers
  <2>3. CASE Due' = Due /\ nDetached' = nDetached
    BY <2>1, <2>3 DEF CountsDetached
  <2>4. CASE Due' = Due - 1 /\ nDetached' = nDetached - 1
    BY <2>1, <2>2, <2>4, OneLessDue
  <2> QED BY <2>3, <2>4
<1>6. Closing'
  BY DEF Closing
<1> QED BY <1>1, <1>2, <1>3, <1>4, <1>5, <1>6

LEMMA QueueTakesKeeps ==
  ASSUME IInv, QueueTakes
  PROVE  IInv'
<1> USE DEF IInv
<1>1. /\ server = None /\ server' = [o |-> Head(queue), dead |-> FALSE]
      /\ queue \in Seq(Objects) /\ queue # <<>> /\ queue' = Tail(queue)
      /\ UNCHANGED <<activator, holdTimeout, pd_state, pd_deactivated, listed, pd_rq_state, life,
                     nReqInThis, nReqActive, nDetached, pd_lock, entry, list, at, arg, asleep,
                     job, by, eth, pretended, calls, ops>>
  BY DEF QueueTakes, TaskLockFree, policy, manager, counts, objects, threads, jobs, bounds, Types,
         ServingTypes
<1>2. /\ Len(queue) \in Nat /\ Len(queue) >= 1 /\ Len(queue') = Len(queue) - 1
      /\ \A i \in 1..Len(queue') : queue'[i] = queue[i + 1]
      /\ Head(queue) = queue[1] /\ queue[1] \in Objects /\ queue' \in Seq(Objects)
  BY <1>1
<1> PICK q \in Objects : q = queue[1]
  BY <1>2
<1>3. server' \in [o : Objects, dead : BOOLEAN] /\ server' # None /\ server'.o = q
      /\ server'.dead = FALSE
  <2>1. server' = [o |-> q, dead |-> FALSE]
    BY <1>1, <1>2
  <2>2. server' \in [o : Objects, dead : BOOLEAN]
    BY <2>1
  <2> QED BY <2>1, <2>2, ThreadsAssumption
<1>4. \A p \in Objects : Serves(p)' <=> p = q
  BY <1>3 DEF Serves
<1>5. \A p \in Objects : Lined(p) <=> Lined(p)' \/ p = q
  <2>1. ASSUME NEW p \in Objects, Lined(p) PROVE Lined(p)' \/ p = q
    <3>1. PICK i \in 1..Len(queue) : queue[i] = p
      BY <2>1 DEF Lined
    <3>2. CASE i # 1
      <4>1. i - 1 \in 1..Len(queue') /\ queue'[i - 1] = p
        BY <1>2, <3>1, <3>2
      <4> QED BY <4>1 DEF Lined
    <3> QED BY <3>1, <3>2
  <2>2. ASSUME NEW p \in Objects, Lined(p)' PROVE Lined(p)
    <3>1. PICK i \in 1..Len(queue') : queue'[i] = p
      BY <2>2 DEF Lined
    <3>2. i + 1 \in 1..Len(queue) /\ queue[i + 1] = p
      BY <1>2, <3>1
    <3> QED BY <3>2 DEF Lined
  <2>3. Lined(q)
    <3>1. 1 \in 1..Len(queue)
      BY <1>2
    <3> QED BY <3>1 DEF Lined
  <2> QED BY <2>1, <2>2, <2>3
<1>6. \A p \in Objects : ~Serves(p)
  BY <1>1 DEF Serves
<1>7. \A p \in Objects : InHand(p)' <=> InHand(p)
  BY <1>4, <1>5, <1>6 DEF InHand
<1>8. Queued'
  <2>1. \A i \in 1..Len(queue'), k \in 1..Len(queue') : queue'[i] = queue'[k] => i = k
    <3> SUFFICES ASSUME NEW i \in 1..Len(queue'), NEW k \in 1..Len(queue'),
                        queue'[i] = queue'[k]
                 PROVE  i = k
      OBVIOUS
    <3>1. i + 1 \in 1..Len(queue) /\ k + 1 \in 1..Len(queue) /\ queue[i + 1] = queue[k + 1]
      BY <1>2
    <3>2. i + 1 = k + 1
      BY <3>1 DEF Queued
    <3> QED BY <1>2, <3>2
  <2>2. ~Lined(q)'
    <3> SUFFICES ASSUME NEW i \in 1..Len(queue'), queue'[i] = q
                 PROVE  FALSE
      BY <1>2 DEF Lined
    <3>1. i + 1 \in 1..Len(queue) /\ 1 \in 1..Len(queue) /\ queue[i + 1] = queue[1]
      BY <1>2
    <3>2. i + 1 = 1
      BY <3>1 DEF Queued
    <3> QED BY <1>2, <3>2
  <2>3. \A p \in Objects : ~(Serves(p) /\ Lined(p))'
    BY <1>4, <2>2
  <2>4. \A p \in Objects : InHand(p)' => entry'[p].st = "ETHEREALISING" /\ list'[p] = "none"
    BY <1>1, <1>7 DEF Queued
  <2> QED BY <2>1, <2>3, <2>4 DEF Queued
<1>9. Due' = Due
  <2>1. OneIf(server # None)' = 1 /\ OneIf(server # None) = 0 /\ OneIf(pretended)' = OneIf(pretended)
    BY <1>1, <1>3 DEF OneIf
  <2>2. OneIf(pretended) \in Int
    BY DEF OneIf
  <2> QED BY <1>2, <2>1, <2>2 DEF Due
<1>10. ServingTypes'
  BY <1>2, <1>3 DEF ServingTypes
<1>11. nDetached' \in Int
  BY <1>1 DEF Types, Numbers
<1>12. Due' = Due /\ nDetached' = nDetached
  BY <1>1, <1>9
<1>13. UNCHANGED <<activator, holdTimeout, pd_state, pd_deactivated, listed, pd_rq_state, life,
                   nReqInThis, nReqActive, pd_lock, entry, list, at, arg, asleep, job, by, eth,
                   pretended, calls, ops>>
  BY <1>1
<1> QED BY <1>7, <1>8, <1>10, <1>11, <1>12, <1>13, ServingKeeps

LEMMA QueueMetKeeps ==
  ASSUME IInv, QueueMet
  PROVE  IInv'
<1> USE DEF IInv
<1>1. /\ server # None /\ server.dead /\ server' = None /\ nDetached' = nDetached - 1
      /\ UNCHANGED <<activator, holdTimeout, pd_state, pd_deactivated, listed, pd_rq_state, life,
                     nReqInThis, nReqActive, pd_lock, entry, list, at, arg, asleep,
                     job, by, eth, pretended, queue, calls, ops>>
  BY DEF QueueMet, policy, manager, counts, objects, threads, jobs, bounds
<1>2. \A p \in Objects : ~Serves(p) /\ ~Serves(p)' /\ (Lined(p)' <=> Lined(p))
  BY <1>1 DEF Serves, Lined
<1>3. \A p \in Objects : InHand(p)' <=> InHand(p)
  BY <1>2 DEF InHand
<1>4. Queued'
  BY <1>1, <1>2, <1>3 DEF Queued
<1>5. Due' = Due - 1 /\ Due >= 1
  <2>1. OneIf(server # None)' = 0 /\ OneIf(server # None) = 1 /\ OneIf(pretended)' = OneIf(pretended)
    BY <1>1 DEF OneIf
  <2>2. OneIf(pretended) \in Nat /\ Len(queue) \in Nat /\ Len(queue') = Len(queue)
    BY <1>1 DEF OneIf, Types, ServingTypes
  <2> QED BY <2>1, <2>2 DEF Due
<1>6. nDetached' \in Int /\ nDetached # 0
  <2>1. nDetached \in Int /\ nDetached >= Due /\ Due \in Nat
    BY DetachedCovers, DueIsNat DEF Types, Numbers
  <2> QED BY <1>1, <1>5, <2>1
<1>7. ServingTypes'
  BY <1>1 DEF Types, ServingTypes
<1>8. job["destroy"] \notin {"end", "done"}
  BY <1>6 DEF Closing
<1> QED BY <1>1, <1>3, <1>4, <1>5, <1>6, <1>7, <1>8, ServingKeeps

LEMMA QueueDoneKeeps ==
  ASSUME IInv, QueueDone
  PROVE  /\ IInv'
         /\ \E o \in Objects : entry[o].st = "ETHEREALISING" /\ entry' = [entry EXCEPT ![o] = Dead]
<1> USE DEF IInv
<1> DEFINE o == server.o
<1>1. /\ server # None /\ server \in [o : Objects, dead : BOOLEAN] /\ ~server.dead
      /\ entry' = [entry EXCEPT ![o] = Dead] /\ server' = [server EXCEPT !.dead = TRUE]
      /\ UNCHANGED <<activator, holdTimeout, pd_state, pd_deactivated, listed, pd_rq_state, life,
                     nReqInThis, nReqActive, nDetached, pd_lock, list, at, arg, asleep,
                     job, by, eth, pretended, queue, calls, ops>>
  BY DEF QueueDone, policy, manager, counts, threads, jobs, bounds, Types, ServingTypes
<1>2. o \in Objects /\ Serves(o) /\ InHand(o) /\ ~Lined(o)
  BY <1>1 DEF Serves, InHand, Queued
<1>3. entry[o].st = "ETHEREALISING" /\ list[o] = "none"
  BY <1>2 DEF Queued
<1>4. server' \in [o : Objects, dead : BOOLEAN] /\ server' # None /\ server'.dead
  BY <1>1, ThreadsAssumption
<1>5. \A p \in Objects : InHand(p)' <=> InHand(p) /\ p # o
  BY <1>1, <1>2, <1>4 DEF InHand, Serves, Lined
<1>6. /\ \A p \in Objects : p # o => entry'[p] = entry[p]
      /\ entry'[o] = [st |-> "none", inv |-> 0]
  BY <1>1, <1>2 DEF Types, EntryTypes, Dead
<1>7. Types'
  <2>1. EntryTypes'
    BY <1>1, <1>2 DEF Types, EntryTypes, EntryStates, Dead
  <2>2. ServingTypes'
    BY <1>1, <1>4 DEF Types, ServingTypes
  <2> QED BY <1>1, <2>1, <2>2 DEF Types, Flags, Numbers, ThreadTypes, Sleepers, JobTypes
<1>8. Placed' /\ Locked' /\ Waiters' /\ Destruction' /\ Deactivation'
  BY <1>1 DEF Placed, Locked, Waiters, Destruction, Deactivation
<1>9. Lists'
  BY <1>1, <1>3, <1>6, Kinds DEF Lists
<1>10. Used'
  BY <1>1, <1>3, <1>6 DEF Used, Present
<1>11. Owned' /\ OneOwner'
  BY <1>1, <1>2, <1>3, <1>5, <1>6 DEF Owned, OneOwner
<1>12. Queued'
  <2>1. \A p \in Objects : ~Serves(p)'
    BY <1>4 DEF Serves
  <2> QED BY <1>1, <1>5, <1>6, <2>1 DEF Queued
<1>13. Kept'
  BY <1>1, <1>5, <1>6 DEF Kept
<1>14. Detaching'
  <2>1. \A t \in Threads : arg[t] = o => at[t] # "detach"
    BY <1>2, <1>3 DEF Detaching, Owned, GivingPhases
  <2> QED BY <1>1, <1>2, <1>6, <2>1 DEF Detaching
<1>15. CountsInside'
  BY <1>1, SameThreads DEF CountsInside
<1>16. CountsOfEntries'
  <2>1. Cardinality(UsersOf(o)) = 0
    BY <1>2, <1>3, Known DEF Present
  <2>2. \A p \in Objects : UsersOf(p)' = UsersOf(p)
    BY <1>1, SameThreads
  <2>3. ASSUME NEW p \in Objects
        PROVE  entry'[p].inv = Cardinality(UsersOf(p))'
                                 + OneIf(entry'[p].st \in {"ACTIVATING", "ACTIVE"})
    <3>1. CASE p = o
      BY <1>2, <1>6, <2>1, <2>2, <3>1 DEF OneIf
    <3>2. CASE p # o
      BY <1>6, <2>2, <3>2 DEF CountsOfEntries
    <3> QED BY <3>1, <3>2
  <2> QED BY <2>3 DEF CountsOfEntries
<1>17. CountsDetached'
  <2>1. Doomed' = Doomed
    BY <1>2, <1>3, <1>6 DEF Doomed
  <2>2. Due' = Due
    BY <1>1, <1>4 DEF Due, OneIf
  <2> QED BY <1>1, <2>1, <2>2, SameThreads DEF CountsDetached
<1>18. Closing'
  BY <1>1 DEF Closing
<1> QED BY <1>1, <1>2, <1>3, <1>7, <1>8, <1>9, <1>10, <1>11, <1>12, <1>13, <1>14, <1>15, <1>16,
           <1>17, <1>18

-----------------------------------------------------------------------------
(* The jobs: steps that change no object and no count. *)

\* Threads that rest may be let go.
Resting == {"working", "destroying", "pm_sleep"}
LetGo == \A t \in Threads : at'[t] = at[t] \/ (at[t] \in Resting /\ at'[t] = "idle")

LEMMA SameWithoutResting ==
  ASSUME Placed, Locked, LetGo, UNCHANGED <<arg, pd_lock>>
  PROVE  /\ Inside' = Inside /\ Working' = Working /\ Detachers' = Detachers
         /\ Leavers' = Leavers /\ \A o \in Objects : UsersOf(o)' = UsersOf(o)
         /\ Placed' /\ Locked'
         /\ \A t \in Threads : /\ at'[t] \in ObjectPhases => at'[t] = at[t]
                               /\ at[t] \in ObjectPhases => at'[t] = at[t]
<1> USE DEF LetGo, Resting
<1>1. \A t \in Threads : /\ at'[t] \in ObjectPhases => at'[t] = at[t]
                         /\ at[t] \in ObjectPhases => at'[t] = at[t]
  BY DEF ObjectPhases, OwnerPhases, ReservePhases, GivingPhases, UserPhases
<1>2. Inside' = Inside /\ Working' = Working
  BY DEF Inside, Working, At, InsidePhases
<1>3. Detachers' = Detachers /\ Leavers' = Leavers
  BY DEF Detachers, Leavers, At
<1>4. \A o \in Objects : UsersOf(o)' = UsersOf(o)
  BY DEF UsersOf, At, UserPhases
<1>5. Placed'
  <2>1. \A r \in Callers : at'[r] \in CallerPhases
    BY Kinds DEF Placed, CallerPhases
  <2>2. \A a \in Apps : at'[a] \in AppPhases
    BY Kinds DEF Placed, AppPhases
  <2> QED BY <1>1, <2>1, <2>2 DEF Placed
<1>6. Locked'
  BY DEF Locked
<1> QED BY <1>1, <1>2, <1>3, <1>4, <1>5, <1>6

LEMMA RestingKeeps ==
  ASSUME IInv, Types', LetGo,
         UNCHANGED <<arg, pd_lock, entry, list, queue, server, pretended, nReqInThis, nReqActive,
                     nDetached>>,
         Waiters', Destruction', Deactivation', Lists', Closing'
  PROVE  IInv'
<1> USE SameWithoutResting DEF IInv
<1>1. \A t \in Threads : /\ at'[t] \in ObjectPhases => at'[t] = at[t]
                         /\ at[t] \in ObjectPhases => at'[t] = at[t]
  OBVIOUS
<1>2. Used' /\ OneOwner'
  BY <1>1 DEF Used, OneOwner, ObjectPhases
<1>3. \A p \in Objects : (InHand(p)' <=> InHand(p)) /\ (Serves(p)' <=> Serves(p))
                         /\ (Lined(p)' <=> Lined(p))
  BY DEF InHand, Serves, Lined
<1>4. Owned'
  BY <1>1, <1>3 DEF Owned, ObjectPhases, OwnerPhases
<1>5. Queued'
  BY <1>3 DEF Queued
<1>6. Kept'
  BY <1>1, <1>3 DEF Kept, ObjectPhases, OwnerPhases
<1>7. Detaching'
  BY <1>1 DEF Detaching, ObjectPhases, OwnerPhases, GivingPhases
<1>8. CountsInside' /\ CountsOfEntries'
  BY DEF CountsInside, CountsOfEntries
<1>9. CountsDetached'
  <2>1. Doomed' = Doomed /\ Due' = Due
    BY DEF Doomed, Due
  <2> QED BY <2>1 DEF CountsDetached
<1> QED BY <1>2, <1>4, <1>5, <1>6, <1>7, <1>8, <1>9

\* A step of a job that ends for no thread.
LEMMA JobGoesOn ==
  ASSUME IInv, NEW j \in Jobs, NEW phase \in JobPhases, job' = [job EXCEPT ![j] = phase],
         Flags', Sleepers',
         UNCHANGED <<at, arg, by, eth, pd_lock, entry, list, queue, server, pretended, nReqInThis,
                     nReqActive, nDetached>>,
         Destruction', Deactivation', Lists', Closing'
  PROVE  IInv'
<1> USE DEF IInv
<1>1. Types'
  BY DEF Types, Numbers, EntryTypes, ThreadTypes, JobTypes, ServingTypes
<1>2. LetGo /\ Waiters'
  BY DEF LetGo, Waiters
<1> QED BY <1>1, <1>2, RestingKeeps

LEMMA Released ==
  ASSUME IInv, NEW j \in Jobs, UNCHANGED arg,
         \A t \in Threads : at'[t] = IF t = by[j] \/ (j = "deactivate" /\ at[t] = "pm_sleep")
                                     THEN "idle" ELSE at[t],
         by' = [by EXCEPT ![j] = None]
  PROVE  LetGo /\ Waiters' /\ by' \in [Jobs -> Apps \cup {None}]
<1> USE Kinds DEF IInv, Types, JobTypes
<1>1. LetGo
  BY DEF LetGo, Resting, Waiters
<1>2. by' \in [Jobs -> Apps \cup {None}] /\ by'[j] = None
      /\ \A k \in Jobs : k # j => by'[k] = by[k]
  OBVIOUS
<1>3. Waiters'
  <2>1. ASSUME NEW k \in Jobs, by'[k] # None
        PROVE  at'[by'[k]] \in {"working", "destroying"}
    <3>1. k # j /\ by'[k] = by[k] /\ by[k] \in Threads /\ at[by[k]] \in {"working", "destroying"}
      BY <1>2, <2>1 DEF Waiters
    <3>2. by[k] # by[j]
      BY <1>2, <2>1, <3>1 DEF Waiters, Jobs
    <3> QED BY <3>1, <3>2
  <2>2. by'["deactivate"] # None => by'["deactivate"] # by'["destroy"]
    BY <1>2 DEF Waiters
  <2> QED BY <2>1, <2>2 DEF Waiters
<1> QED BY <1>1, <1>2, <1>3

LEMMA DestroyDiscardsKeeps ==
  ASSUME IInv, DestroyDiscards
  PROVE  IInv'
<1> USE Kinds DEF IInv
<1>1. /\ job["destroy"] = "discard" /\ job' = [job EXCEPT !["destroy"] = "lose"]
      /\ pd_rq_state' \in {pd_rq_state, "DISCARDING"} /\ asleep' \in {asleep, {}}
      /\ UNCHANGED <<activator, holdTimeout, pd_state, pd_deactivated, listed, life, nReqInThis,
                     nReqActive, nDetached, pd_lock, entry, list, at, arg, by, eth, pretended,
                     queue, server, calls, ops>>
  BY DEF DestroyDiscards, Goes, policy, manager, counts, objects, threads, serving, bounds
<1>2. job'["destroy"] = "lose" /\ job'["deactivate"] = job["deactivate"]
  BY <1>1 DEF Types, JobTypes
<1>3. Flags' /\ Sleepers'
  BY <1>1 DEF Types, Flags, Sleepers, PmStates
<1>4. Destruction' /\ Deactivation'
  BY <1>1, <1>2 DEF Destruction, Deactivation, DestroyPhases
<1>5. Lists' /\ Closing'
  BY <1>1, <1>2 DEF Lists, Closing
<1>6. "lose" \in JobPhases
  BY DEF JobPhases
<1> QED BY <1>1, <1>3, <1>4, <1>5, <1>6, JobGoesOn

LEMMA LosePoaKeeps ==
  ASSUME IInv, LosePoa
  PROVE  IInv'
<1> USE Kinds DEF IInv
<1>1. /\ job["destroy"] = "lose" /\ job' = [job EXCEPT !["destroy"] = "start"] /\ listed' = FALSE
      /\ UNCHANGED <<activator, holdTimeout, pd_state, pd_deactivated, pd_rq_state, life,
                     nReqInThis, nReqActive, nDetached, pd_lock, entry, list, arg, asleep, eth,
                     pretended, queue, server, calls, ops>>
  BY DEF LosePoa, Goes, policy, counts, objects, serving, bounds
<1>2. job'["destroy"] = "start" /\ job'["deactivate"] = job["deactivate"]
  BY <1>1 DEF Types, JobTypes
<1>3. /\ LetGo /\ Waiters' /\ by' \in [Jobs -> Apps \cup {None}] /\ ThreadTypes'
  <2>1. CASE Release("destroy")
    <3>1. LetGo /\ Waiters' /\ by' \in [Jobs -> Apps \cup {None}]
      BY <1>1, <2>1, Released DEF Release
    <3>2. ThreadTypes'
      BY <1>1, <2>1 DEF Release, Types, ThreadTypes, AppPhases
    <3> QED BY <3>1, <3>2
  <2>2. CASE UNCHANGED <<at, by>>
    BY <1>1, <2>2 DEF LetGo, Waiters, Types, ThreadTypes, JobTypes
  <2> QED BY <2>1, <2>2 DEF LosePoa
<1>4. Types'
  <2>1. JobTypes'
    BY <1>1, <1>3 DEF Types, JobTypes, JobPhases
  <2> QED BY <1>1, <1>3, <2>1 DEF Types, Flags, Numbers, EntryTypes, Sleepers, ServingTypes
<1>5. Destruction' /\ Deactivation'
  BY <1>1, <1>2 DEF Destruction, Deactivation, DestroyPhases
<1>6. Lists' /\ Closing'
  BY <1>1, <1>2 DEF Lists, Closing
<1> QED BY <1>1, <1>3, <1>4, <1>5, <1>6, RestingKeeps

LEMMA PmLeavesItKeeps ==
  ASSUME IInv, PmLeavesIt
  PROVE  IInv'
<1> USE Kinds DEF IInv
<1>1. /\ job["deactivate"] = "start" /\ job' = [job EXCEPT !["deactivate"] = "flag"]
      /\ UNCHANGED <<activator, holdTimeout, pd_state, pd_deactivated, listed, pd_rq_state, life,
                     nReqInThis, nReqActive, nDetached, pd_lock, entry, list, at, arg, asleep, by,
                     eth, pretended, queue, server, calls, ops>>
  BY DEF PmLeavesIt, Goes, policy, manager, counts, objects, threads, serving, bounds
<1>2. job'["deactivate"] = "flag" /\ job'["destroy"] = job["destroy"] /\ "flag" \in JobPhases
  BY <1>1 DEF Types, JobTypes, JobPhases
<1>3. Flags' /\ Sleepers'
  BY <1>1 DEF Types, Flags, Sleepers
<1>4. Destruction' /\ Deactivation'
  BY <1>1, <1>2 DEF Destruction, Deactivation, DeactivatePhases
<1>5. Lists' /\ Closing'
  BY <1>1, <1>2 DEF Lists, Closing
<1> QED BY <1>1, <1>2, <1>3, <1>4, <1>5, JobGoesOn

LEMMA CloseKeeps ==
  ASSUME IInv, Close
  PROVE  /\ IInv'
         /\ \A t \in Threads : at[t] # "upcall"
<1> USE Kinds DEF IInv
<1>1. /\ job["destroy"] = "close" /\ job' = [job EXCEPT !["destroy"] = "take"]
      /\ life' = "destroyed" /\ pd_lock = None
      /\ UNCHANGED <<activator, holdTimeout, pd_state, pd_deactivated, listed, pd_rq_state,
                     nReqInThis, nReqActive, nDetached, pd_lock, entry, list, at, arg, asleep, by,
                     eth, pretended, queue, server, calls, ops>>
  BY DEF Close, Goes, PdLockFree, policy, manager, counts, objects, threads, serving, bounds
<1>2. job'["destroy"] = "take" /\ job'["deactivate"] = job["deactivate"] /\ "take" \in JobPhases
  BY <1>1 DEF Types, JobTypes, JobPhases
<1>3. Flags' /\ Sleepers'
  BY <1>1 DEF Types, Flags, Sleepers
<1>4. Destruction' /\ Deactivation'
  BY <1>1, <1>2 DEF Destruction, Deactivation, DestroyPhases
<1>5. Lists' /\ Closing'
  BY <1>1, <1>2 DEF Lists, Closing
<1>6. \A t \in Threads : at[t] # "upcall"
  BY <1>1 DEF Closing, InsidePhases
<1> QED BY <1>1, <1>2, <1>3, <1>4, <1>5, <1>6, JobGoesOn

LEMMA EtherealisedKeeps ==
  ASSUME IInv, NEW j \in Jobs, Etherealised(j)
  PROVE  IInv'
<1> USE Kinds DEF IInv
<1> DEFINE phase == IF j = "destroy" THEN "join" ELSE "met"
<1>1. /\ job[j] = "take" /\ job' = [job EXCEPT ![j] = phase] /\ \A o \in Objects : list[o] # j
      /\ UNCHANGED <<activator, holdTimeout, pd_state, pd_deactivated, listed, pd_rq_state, life,
                     nReqInThis, nReqActive, nDetached, pd_lock, entry, list, at, arg, asleep, by,
                     eth, pretended, queue, server, calls, ops>>
  BY DEF Etherealised, Goes, Listed, policy, manager, counts, objects, threads, serving, bounds
<1>2. /\ job'[j] = phase /\ \A k \in Jobs : k # j => job'[k] = job[k]
      /\ phase \in JobPhases
  BY <1>1 DEF Types, JobTypes, JobPhases
<1>3. Flags' /\ Sleepers'
  BY <1>1 DEF Types, Flags, Sleepers
<1>4. Destruction' /\ Deactivation'
  BY <1>1, <1>2 DEF Destruction, Deactivation, DestroyPhases, DeactivatePhases
<1>5. Lists'
  BY <1>1, <1>2 DEF Lists
<1>6. Closing'
  BY <1>1, <1>2 DEF Closing
<1> QED BY <1>1, <1>2, <1>3, <1>4, <1>5, <1>6, JobGoesOn

LEMMA JoinKeeps ==
  ASSUME IInv, NEW j \in Jobs, Join(j)
  PROVE  IInv'
<1> USE Kinds DEF IInv
<1> DEFINE phase == IF j = "destroy" THEN "end" ELSE "flag"
<1>1. /\ job[j] = "join" /\ job' = [job EXCEPT ![j] = phase] /\ nDetached = 0
      /\ UNCHANGED <<activator, holdTimeout, pd_state, pd_deactivated, listed, pd_rq_state, life,
                     nReqInThis, nReqActive, nDetached, pd_lock, entry, list, at, arg, asleep, by,
                     eth, pretended, queue, server, calls, ops>>
  BY DEF Join, Goes, policy, manager, counts, objects, threads, serving, bounds
<1>2. /\ job'[j] = phase /\ \A k \in Jobs : k # j => job'[k] = job[k]
      /\ phase \in JobPhases
  BY <1>1 DEF Types, JobTypes, JobPhases
<1>3. Flags' /\ Sleepers'
  BY <1>1 DEF Types, Flags, Sleepers
<1>4. Destruction' /\ Deactivation'
  BY <1>1, <1>2 DEF Destruction, Deactivation, DestroyPhases, DeactivatePhases
<1>5. Lists'
  BY <1>1, <1>2 DEF Lists
<1>6. Closing'
  BY <1>1, <1>2 DEF Closing
<1> QED BY <1>1, <1>2, <1>3, <1>4, <1>5, <1>6, JobGoesOn

LEMMA DestroyEndsKeeps ==
  ASSUME IInv, DestroyEnds
  PROVE  IInv'
<1> USE Kinds DEF IInv
<1>1. /\ job["destroy"] = "end" /\ job' = [job EXCEPT !["destroy"] = "done"] /\ life' = "gone"
      /\ Release("destroy")
      /\ UNCHANGED <<activator, holdTimeout, pd_state, pd_deactivated, listed, pd_rq_state,
                     nReqInThis, nReqActive, nDetached, pd_lock, entry, list, arg, asleep, eth,
                     pretended, queue, server, calls, ops>>
  BY DEF DestroyEnds, Goes, policy, manager, counts, objects, serving, bounds
<1>2. job'["destroy"] = "done" /\ job'["deactivate"] = job["deactivate"]
  BY <1>1 DEF Types, JobTypes
<1>3. LetGo /\ Waiters' /\ by' \in [Jobs -> Apps \cup {None}]
  BY <1>1, Released DEF Release
<1>4. Types'
  <2>1. JobTypes'
    BY <1>1, <1>3 DEF Types, JobTypes, JobPhases
  <2>2. ThreadTypes'
    BY <1>1 DEF Release, Types, ThreadTypes, AppPhases
  <2> QED BY <1>1, <2>1, <2>2 DEF Types, Flags, Numbers, EntryTypes, Sleepers, ServingTypes
<1>5. Destruction' /\ Deactivation'
  BY <1>1, <1>2 DEF Destruction, Deactivation, DestroyPhases
<1>6. Lists'
  BY <1>1, <1>2 DEF Lists
<1>7. Closing'
  BY <1>1, <1>2, <1>3 DEF Closing, LetGo, InsidePhases
<1> QED BY <1>1, <1>3, <1>4, <1>5, <1>6, <1>7, RestingKeeps

LEMMA SetFlagKeeps ==
  ASSUME IInv, SetFlag
  PROVE  IInv'
<1> USE Kinds DEF IInv
<1>1. /\ job["deactivate"] = "flag" /\ job' = [job EXCEPT !["deactivate"] = "broadcast"]
      /\ pd_deactivated' = TRUE
      /\ UNCHANGED <<activator, holdTimeout, pd_state, listed, pd_rq_state, life,
                     nReqInThis, nReqActive, nDetached, pd_lock, entry, list, at, arg, asleep, by,
                     eth, pretended, queue, server, calls, ops>>
  BY DEF SetFlag, Goes, policy, counts, objects, threads, serving, bounds
<1>2. job'["deactivate"] = "broadcast" /\ job'["destroy"] = job["destroy"]
      /\ "broadcast" \in JobPhases
  BY <1>1 DEF Types, JobTypes, JobPhases
<1>3. Flags' /\ Sleepers'
  BY <1>1 DEF Types, Flags, Sleepers
<1>4. Destruction' /\ Deactivation'
  BY <1>1, <1>2 DEF Destruction, Deactivation, DeactivatePhases
<1>5. Lists' /\ Closing'
  BY <1>1, <1>2 DEF Lists, Closing
<1> QED BY <1>1, <1>2, <1>3, <1>4, <1>5, JobGoesOn

LEMMA BroadcastKeeps ==
  ASSUME IInv, Broadcast
  PROVE  IInv'
<1> USE Kinds DEF IInv
<1>1. /\ job["deactivate"] = "broadcast" /\ job' = [job EXCEPT !["deactivate"] = "done"]
      /\ by' = [by EXCEPT !["deactivate"] = None]
      /\ at' = [t \in Threads |-> IF t = by["deactivate"] \/ at[t] = "pm_sleep"
                                 THEN "idle" ELSE at[t]]
      /\ UNCHANGED <<activator, holdTimeout, pd_state, pd_deactivated, listed, pd_rq_state, life,
                     nReqInThis, nReqActive, nDetached, pd_lock, entry, list, arg, asleep, eth,
                     pretended, queue, server, calls, ops>>
  BY DEF Broadcast, Goes, policy, manager, counts, objects, serving, bounds
<1>2. job'["deactivate"] = "done" /\ job'["destroy"] = job["destroy"]
  BY <1>1 DEF Types, JobTypes
<1>3. LetGo /\ Waiters' /\ by' \in [Jobs -> Apps \cup {None}]
  <2>1. \A t \in Threads : at'[t] = IF t = by["deactivate"]
                                       \/ ("deactivate" = "deactivate" /\ at[t] = "pm_sleep")
                                    THEN "idle" ELSE at[t]
    BY <1>1
  <2> QED BY <1>1, <2>1, Released
<1>4. Types'
  <2>1. JobTypes'
    BY <1>1, <1>3 DEF Types, JobTypes, JobPhases
  <2>2. ThreadTypes'
    BY <1>1 DEF Types, ThreadTypes, AppPhases
  <2> QED BY <1>1, <2>1, <2>2 DEF Types, Flags, Numbers, EntryTypes, Sleepers, ServingTypes
<1>5. Destruction' /\ Deactivation'
  BY <1>1, <1>2 DEF Destruction, Deactivation, DeactivatePhases
<1>6. Lists'
  BY <1>1, <1>2 DEF Lists
<1>7. Closing'
  BY <1>1, <1>2, <1>3 DEF Closing, LetGo, InsidePhases
<1> QED BY <1>1, <1>3, <1>4, <1>5, <1>6, <1>7, RestingKeeps

-----------------------------------------------------------------------------
(* The jobs: steps that detach objects and pretend to. *)

\* As long as the deactivation pretends, the destruction cannot be past its wait.
LEMMA PretenceHolds ==
  ASSUME IInv, pretended
  PROVE  nDetached \in Int /\ nDetached >= 1 /\ Due >= 1 /\ Due \in Nat
         /\ job["destroy"] \notin {"end", "done"}
<1> USE DEF IInv
<1>1. nDetached \in Int /\ nDetached >= Due /\ Due \in Nat
  BY DetachedCovers, DueIsNat DEF Types, Numbers
<1>2. Due >= 1
  <2>1. Len(queue) \in Nat
    BY DEF Types, ServingTypes
  <2>2. Due = Len(queue) + (IF server # None THEN 1 ELSE 0) + 1
    BY DEF Due, OneIf
  <2> QED BY <2>1, <2>2
<1>3. nDetached # 0
  BY <1>1, <1>2
<1> QED BY <1>1, <1>2, <1>3 DEF Closing

LEMMA UnpretendKeeps ==
  ASSUME IInv, Unpretend
  PROVE  IInv'
<1> USE Kinds DEF IInv
<1> DEFINE phase == IF job["deactivate"] = "met" THEN "join" ELSE "flag"
<1>1. /\ job["deactivate"] \in {"met", "unpretend"} /\ job' = [job EXCEPT !["deactivate"] = phase]
      /\ nDetached' = nDetached - 1 /\ pretended' = FALSE
      /\ UNCHANGED <<activator, holdTimeout, pd_state, pd_deactivated, listed, pd_rq_state, life,
                     nReqInThis, nReqActive, pd_lock, entry, list, at, arg, asleep, by,
                     eth, queue, server, calls, ops>>
  BY DEF Unpretend, Goes, policy, manager, counts, objects, threads, serving, bounds
<1>2. /\ job'["deactivate"] = phase /\ job'["destroy"] = job["destroy"] /\ phase \in JobPhases
  BY <1>1 DEF Types, JobTypes, JobPhases
<1>3. pretended
  BY <1>1 DEF Deactivation
<1>4. Types'
  <2>1. JobTypes'
    BY <1>1, <1>2 DEF Types, JobTypes
  <2> QED BY <1>1, <2>1 DEF Types, Flags, Numbers, EntryTypes, ThreadTypes, Sleepers, ServingTypes
<1>5. Placed' /\ Locked' /\ Waiters' /\ Used' /\ OneOwner'
  BY <1>1 DEF Placed, Locked, Waiters, Used, OneOwner
<1>6. Destruction' /\ Deactivation'
  BY <1>1, <1>2 DEF Destruction, Deactivation, DeactivatePhases
<1>7. Lists'
  BY <1>1, <1>2 DEF Lists
<1>8. Owned' /\ Queued' /\ Kept' /\ Detaching'
  BY <1>1 DEF Owned, Queued, Kept, Detaching, InHand, Serves, Lined
<1>9. CountsInside' /\ CountsOfEntries'
  BY <1>1, SameThreads DEF CountsInside, CountsOfEntries
<1>10. CountsDetached'
  <2>1. Doomed' = Doomed /\ Detachers' = Detachers /\ Leavers' = Leavers
    BY <1>1, SameThreads DEF Doomed
  <2>2. Due' = Due - 1 /\ nDetached' = nDetached - 1
    <3>1. OneIf(pretended)' = 0 /\ OneIf(pretended) = 1 /\ OneIf(server # None)' = OneIf(server # None)
      BY <1>1, <1>3 DEF OneIf
    <3>2. OneIf(server # None) \in Nat /\ Len(queue) \in Nat /\ Len(queue') = Len(queue)
      BY <1>1 DEF OneIf, Types, ServingTypes
    <3> QED BY <1>1, <3>1, <3>2 DEF Due
  <2> QED BY <1>3, <2>1, <2>2, OneLessDue, PretenceHolds
<1>11. Closing'
  BY <1>1, <1>2, <1>3, PretenceHolds DEF Closing
<1> QED BY <1>4, <1>5, <1>6, <1>7, <1>8, <1>9, <1>10, <1>11

LEMMA TakeListKeeps ==
  ASSUME IInv, NEW j \in Jobs, TakeList(j)
  PROVE  IInv'
<1> USE Kinds DEF IInv
<1>1. /\ job[j] = "start" /\ job' = [job EXCEPT ![j] = "mark"]
      /\ life = IF j = "destroy" THEN "dying" ELSE "alive"
      /\ list' = [o \in Objects |-> IF list[o] = "active" THEN j ELSE list[o]]
      /\ IF j = "deactivate" /\ Listed("active") # {}
         THEN nDetached' = nDetached + 1 /\ pretended' = TRUE
         ELSE UNCHANGED <<nDetached, pretended>>
      /\ UNCHANGED <<activator, holdTimeout, pd_state, pd_deactivated, listed, pd_rq_state, life,
                     nReqInThis, nReqActive, pd_lock, entry, at, arg, asleep, by,
                     eth, queue, server, calls, ops>>
  BY DEF TakeList, Goes, policy, manager, counts, threads, serving, bounds
<1>2. job'[j] = "mark" /\ \A k \in Jobs : k # j => job'[k] = job[k]
  BY <1>1 DEF Types, JobTypes
<1>3. \A o \in Objects : /\ list'[o] = IF list[o] = "active" THEN j ELSE list[o]
                         /\ list'[o] = "none" <=> list[o] = "none"
  BY <1>1 DEF Jobs
<1>4. j = "deactivate" => ~pretended
  BY <1>1 DEF Deactivation
<1>5. Types'
  <2>1. EntryTypes'
    BY <1>1 DEF Types, EntryTypes
  <2>2. JobTypes'
    BY <1>1 DEF Types, JobTypes, JobPhases
  <2>3. Numbers'
    BY <1>1 DEF Types, Numbers
  <2> QED BY <1>1, <2>1, <2>2, <2>3 DEF Types, Flags, ThreadTypes, Sleepers, ServingTypes
<1>6. Placed' /\ Locked' /\ Waiters' /\ Used' /\ OneOwner'
  BY <1>1 DEF Placed, Locked, Waiters, Used, OneOwner
<1>7. Destruction' /\ Deactivation'
  BY <1>1, <1>2 DEF Destruction, Deactivation, DestroyPhases, DeactivatePhases
<1>8. Lists'
  <2> SUFFICES ASSUME NEW o \in Objects
               PROVE  /\ list'[o] = "none"
                           => entry[o].st \in {"none", "ACTIVATING", "DEACTIVATING", "ETHEREALISING"}
                      /\ list'[o] = "active" => entry[o].st = "ACTIVE"
                      /\ list'[o] \in Jobs =>
                           \/ job'[list'[o]] = "mark" /\ entry[o].st = "ACTIVE"
                           \/ job'[list'[o]] = "drain" /\ entry[o].st = "DEACTIVATING_OA"
                           \/ job'[list'[o]] \notin {"none", "discard", "lose", "start", "mark",
                                                    "drain"}
                              /\ entry[o].st = "ETHEREALISING"
                      /\ list'[o] = "destroy" =>
                           job'["destroy"] \in {"mark", "drain", "close", "take"}
                      /\ list'[o] = "deactivate" =>
                           IF job'["deactivate"] \in {"mark", "drain", "take"} THEN pretended'
                           ELSE ~eth["deactivate"] /\ job'["deactivate"]
                                  \in {"met", "join", "flag", "broadcast", "done"}
    BY <1>1 DEF Lists
  <2>1. CASE list[o] = "active"
    <3>1. j = "deactivate" => pretended'
      BY <1>1, <2>1 DEF Listed
    <3> QED BY <1>2, <1>3, <2>1, <3>1 DEF Lists, Jobs
  <2>2. CASE list[o] # "active"
    <3>1. list'[o] = list[o] /\ (list[o] \in Jobs => list[o] # j)
      BY <1>1, <1>3, <2>2 DEF Lists
    <3>2. pretended => pretended'
      BY <1>1, <1>4
    <3> QED BY <1>2, <2>2, <3>1, <3>2 DEF Lists
  <2> QED BY <2>1, <2>2
<1>9. \A p \in Objects : (InHand(p)' <=> InHand(p)) /\ (Serves(p)' <=> Serves(p))
                         /\ (Lined(p)' <=> Lined(p))
  BY <1>1 DEF InHand, Serves, Lined
<1>10. Owned' /\ Queued' /\ Kept' /\ Detaching'
  BY <1>1, <1>3, <1>9 DEF Owned, Queued, Kept, Detaching
<1>11. CountsInside' /\ CountsOfEntries'
  BY <1>1, SameThreads DEF CountsInside, CountsOfEntries
<1>12. CountsDetached'
  <2>1. Doomed' = Doomed /\ Detachers' = Detachers /\ Leavers' = Leavers
    BY <1>1, SameThreads DEF Doomed
  <2>2. CASE UNCHANGED <<nDetached, pretended>>
    <3>1. Due' = Due
      BY <1>1, <2>2 DEF Due
    <3> QED BY <2>1, <2>2, <3>1 DEF CountsDetached
  <2>3. CASE ~pretended /\ nDetached' = nDetached + 1 /\ pretended' = TRUE
    <3>1. Due' = Due + 1
      <4>1. OneIf(pretended)' = 1 /\ OneIf(pretended) = 0
            /\ OneIf(server # None)' = OneIf(server # None)
        BY <1>1, <2>3 DEF OneIf
      <4>2. OneIf(server # None) \in Nat /\ Len(queue) \in Nat /\ Len(queue') = Len(queue)
        BY <1>1 DEF OneIf, Types, ServingTypes
      <4> QED BY <4>1, <4>2 DEF Due
    <3>2. nDetached \in Int /\ Due \in Nat
      BY DueIsNat DEF Types, Numbers
    <3> QED BY <2>1, <2>3, <3>1, <3>2, OneMoreDue
  <2> QED BY <1>1, <1>4, <2>2, <2>3
<1>13. Closing'
  <2>1. CASE j = "destroy"
    BY <1>1, <1>2, <1>3, <2>1 DEF Closing
  <2>2. CASE j = "deactivate"
    BY <1>1, <1>2, <2>2 DEF Closing, Destruction
  <2> QED BY <2>1, <2>2
<1> QED BY <1>5, <1>6, <1>7, <1>8, <1>10, <1>11, <1>12, <1>13

\* etherealise_objects() takes an object from the job's list.
LEMMA EtherealiseKeeps ==
  ASSUME IInv, NEW j \in Jobs, NEW o \in Objects, Etherealise(j, o)
  PROVE  IInv' /\ entry[o].st = "ETHEREALISING"
<1> USE Kinds DEF IInv
<1>1. /\ job[j] = "take" /\ list[o] = j /\ list' = [list EXCEPT ![o] = "none"]
      /\ UNCHANGED <<activator, holdTimeout, pd_state, pd_deactivated, listed, pd_rq_state, life,
                     nReqInThis, nReqActive, pd_lock, at, arg, asleep, job, by, pretended,
                     eth, server, calls, ops>>
  BY DEF Etherealise, policy, manager, counts, threads, jobs, bounds
<1>2. entry[o].st = "ETHEREALISING"
  BY <1>1 DEF Lists
<1>3. ~InHand(o) /\ \A t \in Threads : arg[t] = o => at[t] \notin OwnerPhases \cup {"detach"}
  <2>1. ~InHand(o) /\ \A t \in Threads : arg[t] = o => at[t] \notin OwnerPhases
    BY <1>1, <1>2, ThreadsAssumption DEF Queued, Owned, OwnerPhases, Jobs
  <2> QED BY <1>2, <2>1 DEF Detaching, OwnerPhases, GivingPhases
<1>4. /\ \A p \in Objects : p # o => list'[p] = list[p]
      /\ list'[o] = "none"
  BY <1>1 DEF Types, EntryTypes
<1>5. Placed' /\ Locked' /\ Waiters' /\ Destruction' /\ Deactivation' /\ OneOwner'
  BY <1>1 DEF Placed, Locked, Waiters, Destruction, Deactivation, OneOwner
<1>6. CountsInside'
  BY <1>1, SameThreads DEF CountsInside
<1>7. list' \in [Objects -> Jobs \cup {"active", "none"}]
  BY <1>1 DEF Types, EntryTypes
<1>8. CASE nDetached' = nDetached + 1 /\ queue' = Append(queue, o) /\ UNCHANGED entry
  <2>1. /\ \A p \in Objects : InHand(p)' <=> InHand(p) \/ p = o
        /\ \A p \in Objects : ~(Serves(p) /\ Lined(p))'
        /\ \A i \in 1..Len(queue'), k \in 1..Len(queue') : queue'[i] = queue'[k] => i = k
        /\ Due' = Due + 1 /\ Due \in Nat
    BY <1>1, <1>3, <1>8, QueueGrows, DueIsNat DEF Types
  <2>2. queue' \in Seq(Objects)
    BY <1>8 DEF Types, ServingTypes
  <2>3. entry' = entry /\ nDetached' = nDetached + 1
    BY <1>8
  <2>4. Types'
    BY <1>1, <1>7, <2>2, <2>3
       DEF Types, Flags, Numbers, EntryTypes, ThreadTypes, Sleepers, JobTypes, ServingTypes
  <2>5. Used'
    BY <1>1, <2>3 DEF Used
  <2>6. Lists'
    BY <1>1, <1>2, <1>4, <2>3 DEF Lists
  <2>7. Owned'
    BY <1>1, <1>3, <1>4, <2>1, <2>3 DEF Owned, OwnerPhases
  <2>8. Queued'
    <3>1. \A p \in Objects : InHand(p)' => entry'[p].st = "ETHEREALISING" /\ list'[p] = "none"
      BY <1>2, <1>4, <2>1, <2>3 DEF Queued
    <3> QED BY <2>1, <3>1 DEF Queued
  <2>9. Kept'
    BY <1>1, <1>4, <2>1, <2>3 DEF Kept
  <2>10. Detaching'
    BY <1>1, <2>3 DEF Detaching
  <2>11. CountsOfEntries'
    BY <1>1, <2>3, SameThreads DEF CountsOfEntries
  <2>12. CountsDetached'
    <3>1. Doomed' = Doomed /\ Detachers' = Detachers /\ Leavers' = Leavers
      BY <1>1, <2>3, SameThreads DEF Doomed
    <3>2. nDetached \in Int
      BY DEF Types, Numbers
    <3> QED BY <2>1, <2>3, <3>1, <3>2, OneMoreDue
  <2>13. Closing'
    <3>1. job["destroy"] \notin {"end", "done"}
      <4>1. CASE j = "destroy"
        BY <1>1, <4>1
      <4>2. CASE j = "deactivate"
        BY <1>1, <4>2, PretenceHolds DEF Deactivation
      <4> QED BY <4>1, <4>2
    <3>2. \A p \in Objects : list'[p] = "active" => list[p] = "active"
      BY <1>4
    <3> QED BY <1>1, <3>1, <3>2 DEF Closing
  <2> QED BY <1>2, <1>5, <1>6, <2>4, <2>5, <2>6, <2>7, <2>8, <2>9, <2>10, <2>11, <2>12, <2>13
<1>9. CASE entry' = [entry EXCEPT ![o] = Dead] /\ UNCHANGED <<nDetached, queue>>
  <2>1. /\ \A p \in Objects : p # o => entry'[p] = entry[p]
        /\ entry'[o] = [st |-> "none", inv |-> 0]
    BY <1>9 DEF Types, EntryTypes, Dead
  <2>2. \A p \in Objects : (InHand(p)' <=> InHand(p)) /\ (Serves(p)' <=> Serves(p))
                           /\ (Lined(p)' <=> Lined(p))
    BY <1>1, <1>9 DEF InHand, Serves, Lined
  <2>3. Types'
    <3>1. EntryTypes'
      BY <1>7, <1>9 DEF Types, EntryTypes, Dead, EntryStates
    <3> QED BY <1>1, <1>9, <3>1
           DEF Types, Flags, Numbers, ThreadTypes, Sleepers, JobTypes, ServingTypes
  <2>4. Used'
    BY <1>1, <1>2, <2>1 DEF Used, Present
  <2>5. Lists'
    BY <1>1, <1>4, <2>1 DEF Lists
  <2>6. Owned'
    BY <1>1, <1>3, <1>4, <2>1, <2>2 DEF Owned, OwnerPhases
  <2>7. Queued'
    BY <1>3, <1>4, <1>9, <2>1, <2>2 DEF Queued
  <2>8. Kept'
    BY <1>1, <1>4, <2>1, <2>2 DEF Kept
  <2>9. Detaching'
    BY <1>1, <1>3, <2>1 DEF Detaching
  <2>10. CountsOfEntries'
    <3>1. Cardinality(UsersOf(o)) = 0
      BY <1>2, Known DEF Present
    <3>2. \A p \in Objects : UsersOf(p)' = UsersOf(p)
      BY <1>1, SameThreads
    <3>3. ASSUME NEW p \in Objects
          PROVE  entry'[p].inv = Cardinality(UsersOf(p))'
                                   + OneIf(entry'[p].st \in {"ACTIVATING", "ACTIVE"})
      <4>1. CASE p = o
        BY <2>1, <3>1, <3>2, <4>1 DEF OneIf
      <4>2. CASE p # o
        BY <2>1, <3>2, <4>2 DEF CountsOfEntries
      <4> QED BY <4>1, <4>2
    <3> QED BY <3>3 DEF CountsOfEntries
  <2>11. CountsDetached'
    <3>1. Doomed' = Doomed
      BY <1>2, <2>1 DEF Doomed
    <3>2. Due' = Due
      BY <1>1, <1>9 DEF Due
    <3> QED BY <1>1, <1>9, <3>1, <3>2, SameThreads DEF CountsDetached
  <2>12. Closing'
    BY <1>1, <1>4, <1>9 DEF Closing
  <2> QED BY <1>2, <1>5, <1>6, <2>3, <2>4, <2>5, <2>6, <2>7, <2>8, <2>9, <2>10, <2>11, <2>12
<1> QED BY <1>8, <1>9 DEF Etherealise


\* The job marks the objects on its list, waits for the requests to leave, and
\* then has the objects ready for etherealisation.
LEMMA DrainsKeeps ==
  ASSUME IInv, NEW j \in Jobs, NEW E \in [Objects -> [st : EntryStates, inv : Int]],
         job[j] \in {"mark", "drain"}, Drains(j, E),
         \A o \in Objects : list[o] # j => E[o] = entry[o],
         \A o \in Objects : list[o] = j => E[o].st = "DEACTIVATING_OA"
                                           /\ E[o].inv = Cardinality(UsersOf(o)),
         pd_rq_state' = IF j = "destroy" THEN "INACTIVE" ELSE pd_rq_state,
         UNCHANGED <<activator, holdTimeout, pd_state, pd_deactivated, listed, life,
                     nReqInThis, nReqActive, nDetached, pd_lock, list, at, arg, by,
                     eth, pretended, queue, server, calls, ops>>
  PROVE  /\ IInv'
         /\ \/ \A o \in Objects : entry'[o] = E[o]
            \/ /\ \A t \in Threads : at[t] \notin InsidePhases
               /\ \A o \in Objects : list[o] # j => entry'[o] = entry[o]
               /\ \A o \in Objects : list[o] = j => entry'[o].st = "ETHEREALISING"
<1> USE Kinds DEF IInv
<1>1. \A o \in Objects : list[o] = j => entry[o].st \in {"ACTIVE", "DEACTIVATING_OA"}
  BY DEF Lists
<1>2. \A p \in Objects : (InHand(p)' <=> InHand(p)) /\ (Serves(p)' <=> Serves(p))
                         /\ (Lined(p)' <=> Lined(p))
  BY DEF InHand, Serves, Lined
<1>3. j # "none" /\ j # "active"
  BY DEF Jobs
<1>4. \A p \in Objects : InHand(p) => list[p] = "none"
  BY DEF Queued
<1>5. \A t \in Threads, o \in Objects : arg[t] = o /\ list[o] = j =>
        at[t] \notin OwnerPhases \cup {"detach"}
  <2>1. \A t \in Threads, o \in Objects : arg[t] = o /\ list[o] = j => at[t] \notin OwnerPhases
    BY <1>1 DEF Owned, OwnerPhases
  <2> QED BY <1>1, <2>1 DEF Detaching, OwnerPhases, GivingPhases
<1>6. \A o \in Objects : entry'[o].st = "DEACTIVATING" <=> entry[o].st = "DEACTIVATING"
  BY <1>1 DEF Drains, EntryStates, Present
<1>7. Placed' /\ Locked' /\ Waiters' /\ OneOwner'
  BY DEF Placed, Locked, Waiters, OneOwner
<1>8. CountsInside'
  BY SameThreads DEF CountsInside
<1>9. CountsDetached'
  <2>1. Doomed' = Doomed /\ Due' = Due
    BY <1>6 DEF Doomed, Due
  <2> QED BY <2>1, SameThreads DEF CountsDetached
<1>10. pd_rq_state' \in PmStates
  BY DEF Types, Flags, PmStates
<1>11. ASSUME \A o \in Objects : list[o] # j => entry'[o] = entry[o],
              \A o \in Objects : list[o] = j => entry'[o].st \in {"DEACTIVATING_OA", "ETHEREALISING"}
       PROVE  Owned' /\ Queued' /\ Kept' /\ Detaching'
  <2>1. Owned'
    BY <1>2, <1>5, <1>11 DEF Owned, OwnerPhases
  <2>2. Queued'
    BY <1>2, <1>3, <1>4, <1>11 DEF Queued
  <2>3. Kept'
    BY <1>2, <1>3, <1>11 DEF Kept
  <2>4. Detaching'
    BY <1>5, <1>11 DEF Detaching
  <2> QED BY <2>1, <2>2, <2>3, <2>4
<1>12. \A k \in Jobs : \A s : job' = [job EXCEPT ![k] = s] =>
         job'[k] = s /\ \A i \in Jobs : i # k => job'[i] = job[i]
  BY DEF Types, JobTypes
<1>13. j = "destroy" => pd_rq_state' = "INACTIVE" /\ life = "dying"
  BY DEF Destruction
<1>14. CASE entry' = E /\ asleep' = asleep \cup {j} /\ Goes(j, "drain")
  <2>1. job' = [job EXCEPT ![j] = "drain"] /\ job'[j] = "drain"
        /\ \A i \in Jobs : i # j => job'[i] = job[i]
    BY <1>12, <1>14 DEF Goes
  <2>2. Types'
    <3>1. Sleepers' /\ JobTypes'
      BY <1>14, <2>1 DEF Types, Sleepers, JobTypes, JobPhases
    <3>2. EntryTypes' /\ Flags'
      BY <1>10, <1>14 DEF Types, EntryTypes, Flags
    <3> QED BY <3>1, <3>2 DEF Types, Numbers, ThreadTypes, ServingTypes
  <2>3. Destruction' /\ Deactivation'
    BY <1>13, <2>1 DEF Destruction, Deactivation, DestroyPhases, DeactivatePhases
  <2>4. Lists'
    <3>1. \A o \in Objects : list[o] \in Jobs /\ list[o] # j => job'[list[o]] = job[list[o]]
      BY <2>1
    <3> QED BY <1>3, <1>14, <2>1, <3>1 DEF Lists
  <2>5. Used'
    BY <1>14 DEF Used, Present
  <2>6. Owned' /\ Queued' /\ Kept' /\ Detaching'
    BY <1>11, <1>14
  <2>7. CountsOfEntries'
    BY <1>14, SameThreads DEF CountsOfEntries, OneIf
  <2>8. Closing'
    BY <2>1 DEF Closing
  <2> QED BY <1>7, <1>8, <1>9, <1>14, <2>2, <2>3, <2>4, <2>5, <2>6, <2>7, <2>8
<1>15. CASE /\ ~StillInside
            /\ entry' = [o \in Objects |->
                 IF list[o] = j THEN [E[o] EXCEPT !.st = "ETHEREALISING"] ELSE E[o]]
            /\ Goes(j, AfterDrain(j)) /\ UNCHANGED asleep
  <2>1. \A t \in Threads : at[t] \notin InsidePhases
    <3>1. ~(Cardinality(Inside) > 0) /\ Cardinality(Inside) \in Nat
      BY <1>15, CountsAreNat DEF StillInside, CountsInside
    <3> QED BY <3>1, ThreadsInside
  <2>2. \A o \in Objects : Cardinality(UsersOf(o)) = 0
    <3>1. \A o \in Objects : UsersOf(o) = {}
      BY <2>1 DEF UsersOf, At, InsidePhases, UserPhases
    <3> QED BY <3>1, FS_EmptySet
  <2>3. /\ \A o \in Objects : list[o] # j => entry'[o] = entry[o]
        /\ \A o \in Objects : list[o] = j => entry'[o].st = "ETHEREALISING" /\ entry'[o].inv = 0
    BY <1>15, <2>2
  <2> DEFINE phase == AfterDrain(j)
  <2>4. /\ phase \in JobPhases
        /\ j = "destroy" => phase = "close"
        /\ j = "deactivate" => phase \in {"take", "met", "unpretend", "flag"}
        /\ j = "deactivate" /\ phase \in {"take", "met", "unpretend"} => pretended
        /\ pretended /\ j = "deactivate" => phase \in {"take", "met", "unpretend"}
        /\ j = "deactivate" /\ phase = "met" => ~eth["deactivate"]
        /\ j = "deactivate" /\ phase \in {"flag", "unpretend"}
             => \A o \in Objects : list[o] # "deactivate"
    <3>1. j = "deactivate" /\ Listed(j) # {} => pretended
      BY DEF Listed, Lists
    <3> QED BY <3>1 DEF AfterDrain, Listed, JobPhases
  <2> HIDE DEF phase
  <2>5. job' = [job EXCEPT ![j] = phase] /\ job'[j] = phase
        /\ \A i \in Jobs : i # j => job'[i] = job[i]
    <3>1. job' = [job EXCEPT ![j] = phase]
      BY <1>15 DEF Goes, phase
    <3> QED BY <1>12, <3>1
  <2>6. Types'
    <3>1. Sleepers' /\ JobTypes'
      BY <1>15, <2>4, <2>5 DEF Types, Sleepers, JobTypes
    <3>2. EntryTypes' /\ Flags'
      BY <1>10, <1>15 DEF Types, EntryTypes, Flags, EntryStates
    <3> QED BY <3>1, <3>2 DEF Types, Numbers, ThreadTypes, ServingTypes
  <2>7. Destruction' /\ Deactivation'
    BY <1>13, <2>4, <2>5 DEF Destruction, Deactivation, DestroyPhases, DeactivatePhases
  <2>8. Lists'
    <3>1. \A o \in Objects : list[o] \in Jobs /\ list[o] # j => job'[list[o]] = job[list[o]]
      BY <2>5
    <3> QED BY <1>3, <2>3, <2>4, <2>5, <3>1 DEF Lists
  <2>9. Used'
    BY <2>1 DEF Used, InsidePhases, UserPhases
  <2>10. Owned' /\ Queued' /\ Kept' /\ Detaching'
    BY <1>11, <2>3
  <2>11. CountsOfEntries'
    <3>1. \A p \in Objects : UsersOf(p)' = UsersOf(p)
      BY SameThreads
    <3>2. ASSUME NEW p \in Objects
          PROVE  entry'[p].inv = Cardinality(UsersOf(p))'
                                   + OneIf(entry'[p].st \in {"ACTIVATING", "ACTIVE"})
      <4>1. CASE list[p] = j
        BY <2>2, <2>3, <3>1, <4>1 DEF OneIf
      <4>2. CASE list[p] # j
        BY <2>3, <3>1, <4>2 DEF CountsOfEntries
      <4> QED BY <4>1, <4>2
    <3> QED BY <3>2 DEF CountsOfEntries
  <2>12. Closing'
    BY <2>1, <2>4, <2>5 DEF Closing
  <2> QED BY <1>7, <1>8, <1>9, <2>1, <2>3, <2>6, <2>7, <2>8, <2>9, <2>10, <2>11, <2>12
<1> QED BY <1>14, <1>15 DEF Drains

LEMMA MarkKeeps ==
  ASSUME IInv, NEW j \in Jobs, Mark(j)
  PROVE  /\ IInv'
         /\ \/ \A o \in Objects : entry'[o].st = entry[o].st
                 \/ (entry[o].st = "ACTIVE" /\ entry'[o].st = "DEACTIVATING_OA")
            \/ /\ \A t \in Threads : at[t] \notin InsidePhases
               /\ \A o \in Objects : entry'[o] = entry[o]
                    \/ (entry[o].st = "ACTIVE" /\ entry'[o].st = "ETHEREALISING")
<1> USE DEF IInv
<1>1. /\ job[j] = "mark" /\ Drains(j, Marked(j))
      /\ pd_rq_state' = IF j = "destroy" THEN "INACTIVE" ELSE pd_rq_state
      /\ UNCHANGED <<activator, holdTimeout, pd_state, pd_deactivated, listed, life,
                     nReqInThis, nReqActive, nDetached, pd_lock, list, at, arg, by,
                     eth, pretended, queue, server, calls, ops>>
  BY DEF Mark, policy, manager, counts, threads, serving, bounds
<1>2. \A o \in Objects : list[o] = j => entry[o].st = "ACTIVE"
                           /\ entry[o].inv = Cardinality(UsersOf(o)) + 1
  BY <1>1, CountsAreNat DEF Lists, CountsOfEntries, OneIf
<1>3. Marked(j) \in [Objects -> [st : EntryStates, inv : Int]]
  BY DEF Marked, Types, EntryTypes, EntryStates, Present
<1>4. \A o \in Objects : list[o] # j => Marked(j)[o] = entry[o]
  BY DEF Marked
<1>5. \A o \in Objects : list[o] = j => Marked(j)[o].st = "DEACTIVATING_OA"
                                        /\ Marked(j)[o].inv = Cardinality(UsersOf(o))
  BY <1>2, CountsAreNat DEF Marked
<1> DEFINE E == Marked(j)
<1> HIDE DEF E
<1>6. /\ E \in [Objects -> [st : EntryStates, inv : Int]] /\ Drains(j, E)
      /\ \A o \in Objects : list[o] # j => E[o] = entry[o]
      /\ \A o \in Objects : list[o] = j => E[o].st = "DEACTIVATING_OA"
                                           /\ E[o].inv = Cardinality(UsersOf(o))
  BY <1>1, <1>3, <1>4, <1>5 DEF E
<1>7. /\ IInv'
      /\ \/ \A o \in Objects : entry'[o] = E[o]
         \/ /\ \A t \in Threads : at[t] \notin InsidePhases
            /\ \A o \in Objects : list[o] # j => entry'[o] = entry[o]
            /\ \A o \in Objects : list[o] = j => entry'[o].st = "ETHEREALISING"
  BY <1>1, <1>6, DrainsKeeps
<1> QED BY <1>2, <1>6, <1>7

LEMMA DrainKeeps ==
  ASSUME IInv, NEW j \in Jobs, Drain(j)
  PROVE  /\ IInv'
         /\ \/ \A o \in Objects : entry'[o] = entry[o]
            \/ /\ \A t \in Threads : at[t] \notin InsidePhases
               /\ \A o \in Objects : entry'[o] = entry[o]
                    \/ (entry[o].st = "DEACTIVATING_OA" /\ entry'[o].st = "ETHEREALISING")
<1> USE DEF IInv
<1>1. /\ job[j] = "drain" /\ Drains(j, entry)
      /\ pd_rq_state' = pd_rq_state
      /\ UNCHANGED <<activator, holdTimeout, pd_state, pd_deactivated, listed, life,
                     nReqInThis, nReqActive, nDetached, pd_lock, list, at, arg, by,
                     eth, pretended, queue, server, calls, ops>>
  BY DEF Drain, policy, manager, counts, threads, serving, bounds
<1>2. pd_rq_state' = IF j = "destroy" THEN "INACTIVE" ELSE pd_rq_state
  BY <1>1 DEF Destruction
<1>3. \A o \in Objects : list[o] = j => entry[o].st = "DEACTIVATING_OA"
                           /\ entry[o].inv = Cardinality(UsersOf(o))
  BY <1>1, CountsAreNat DEF Lists, CountsOfEntries, OneIf
<1>4. entry \in [Objects -> [st : EntryStates, inv : Int]]
  BY DEF Types, EntryTypes
<1>5. /\ IInv'
      /\ \/ \A o \in Objects : entry'[o] = entry[o]
         \/ /\ \A t \in Threads : at[t] \notin InsidePhases
            /\ \A o \in Objects : list[o] # j => entry'[o] = entry[o]
            /\ \A o \in Objects : list[o] = j => entry'[o].st = "ETHEREALISING"
  BY <1>1, <1>2, <1>3, <1>4, DrainsKeeps
<1> QED BY <1>3, <1>5

-----------------------------------------------------------------------------
(* The invariant. *)

LEMMA InitIInv == Init => IInv
<1> SUFFICES ASSUME Init PROVE IInv
  OBVIOUS
<1> USE Kinds DEF Init
<1>1. Types
  <2>1. Flags
    <3>1. activator \in BOOLEAN /\ holdTimeout \in BOOLEAN
      <4> PICK p \in Policies : activator = p.activator /\ holdTimeout = p.holdTimeout
        OBVIOUS
      <4> QED BY PoliciesAssumption
    <3>2. calls \in 0..MaxCalls /\ ops \in 0..MaxOps
      BY BoundsAssumption
    <3>3. pd_state \in PmStates /\ pd_rq_state \in PmStates
      BY DEF PmStates
    <3> QED BY <3>1, <3>2, <3>3 DEF Flags
  <2>2. Numbers /\ Sleepers /\ ServingTypes
    BY DEF Numbers, Sleepers, ServingTypes
  <2>3. EntryTypes
    BY DEF EntryTypes, EntryStates, Present, Dead, Active
  <2>4. ThreadTypes /\ JobTypes
    BY DEF ThreadTypes, CallerPhases, JobTypes, JobPhases
  <2> QED BY <2>1, <2>2, <2>3, <2>4 DEF Types
<1>2. \A t \in Threads : at[t] = "idle"
  OBVIOUS
<1>3. Placed /\ Locked /\ Waiters
  BY DEF Placed, CallerPhases, AppPhases, ObjectPhases, OwnerPhases, ReservePhases, GivingPhases,
     UserPhases, Locked, Waiters
<1>4. Destruction /\ Deactivation
  BY DEF Destruction, DestroyPhases, Deactivation, DeactivatePhases
<1>5. \A o \in Objects : \/ list[o] = "none" /\ entry[o] = Dead
                         \/ list[o] = "active" /\ entry[o] = Active
  OBVIOUS
<1>6. Lists
  BY <1>5 DEF Lists, Dead, Active, Jobs
<1>7. Used /\ Owned /\ OneOwner /\ Detaching
  BY <1>2 DEF Used, Owned, OneOwner, Detaching, OwnerPhases, ReservePhases, GivingPhases, UserPhases
<1>8. \A o \in Objects : ~InHand(o)
  BY DEF InHand, Serves, Lined
<1>9. Queued /\ Kept
  BY <1>5, <1>8 DEF Queued, Kept, Dead, Active, InHand, Lined, Serves
<1>10. Inside = {} /\ Working = {} /\ Detachers = {} /\ Leavers = {}
  BY <1>2 DEF Inside, Working, Detachers, Leavers, At, InsidePhases
<1>11. \A o \in Objects : UsersOf(o) = {}
  BY <1>2 DEF UsersOf, At, UserPhases
<1>12. Doomed = {}
  BY <1>5 DEF Doomed, Dead, Active
<1>13. CountsInside /\ CountsOfEntries
  <2>1. CountsInside
    BY <1>10, FS_EmptySet DEF CountsInside
  <2>2. \A o \in Objects : Cardinality(UsersOf(o)) = 0
    BY <1>11, FS_EmptySet
  <2>3. CountsOfEntries
    BY <1>5, <2>2 DEF CountsOfEntries, OneIf, Dead, Active
  <2> QED BY <2>1, <2>3
<1>14. Due = 0
  BY DEF Due, OneIf
<1>15. CountsDetached
  BY <1>10, <1>12, <1>14, FS_EmptySet DEF CountsDetached
<1>16. Closing
  BY DEF Closing
<1> QED BY <1>1, <1>3, <1>4, <1>6, <1>7, <1>9, <1>13, <1>15, <1>16 DEF IInv

LEMMA StutterKeeps == ASSUME IInv, UNCHANGED vars PROVE IInv'
<1> USE DEF IInv
<1>1. UNCHANGED <<activator, holdTimeout, pd_state, pd_deactivated, listed, pd_rq_state, life,
                  nReqInThis, nReqActive, nDetached, pd_lock, entry, list, at, arg, asleep, job,
                  by, eth, pretended, queue, server, calls, ops>>
  BY DEF vars, policy, manager, counts, objects, threads, jobs, serving, bounds
<1>2. Types'
  BY <1>1 DEF Types, Flags, Numbers, EntryTypes, ThreadTypes, Sleepers, JobTypes, ServingTypes
<1>3. LetGo /\ Waiters' /\ Destruction' /\ Deactivation' /\ Lists' /\ Closing'
  BY <1>1 DEF LetGo, Waiters, Destruction, Deactivation, Lists, Closing
<1> QED BY <1>1, <1>2, <1>3, RestingKeeps

LEMMA NextIInv == IInv /\ [Next]_vars => IInv'
<1> SUFFICES ASSUME IInv, [Next]_vars PROVE IInv'
  OBVIOUS
<1>1. ASSUME NEW r \in Callers, CallerStep(r) \/ HeldTimesOut(r) PROVE IInv'
  BY <1>1, Kinds, HeldGoesOnKeeps, UpcallReturnsKeeps, LeaveKeeps, RetireKeeps, MetKeeps,
     LocateKeeps, SaCheckKeeps, IncarnateKeeps, IncarnatedKeeps, IncarnateFailsKeeps,
     SaActivateKeeps, SaQueueKeeps, SaExitKeeps, HeldTimesOutKeeps DEF CallerStep
<1>2. ASSUME NEW r \in Callers, NEW o \in Objects, Request(r, o) PROVE IInv'
  BY <1>2, RequestKeeps
<1>3. ASSUME NEW a \in Apps, AppStep(a) PROVE IInv'
  BY <1>3, Kinds, ActivateKeeps, DetachKeeps, RetireKeeps, MetKeeps, PmWaitsKeeps, PmSleepsKeeps,
     DestroyedKeeps DEF AppStep
<1>4. ASSUME NEW a \in Apps, AppCall(a) PROVE IInv'
  <2>1. CASE \E o \in Objects : Place(a, o) \/ DeactivateObject(a, o)
    BY <2>1, PlaceKeeps, DeactivateObjectKeeps
  <2>2. CASE PmActivate(a) \/ PmDeactivateAgain(a) \/ DestroyAgain(a)
    BY <2>2, PmActivateKeeps, PmDeactivateAgainKeeps, DestroyAgainKeeps
  <2>3. CASE \E wait \in BOOLEAN : PmStop(a, "HOLDING", wait) \/ PmStop(a, "DISCARDING", wait)
    BY <2>3, PmStopKeeps
  <2>4. CASE \E wait \in BOOLEAN, e \in BOOLEAN : PmDeactivate(a, e, wait) \/ Destroy(a, e, wait)
    BY <2>4, PmDeactivateKeeps, DestroyKeeps
  <2> QED BY <1>4, <2>1, <2>2, <2>3, <2>4 DEF AppCall
<1>5. ASSUME NEW j \in Jobs, JobStep(j) PROVE IInv'
  BY <1>5, TakeListKeeps, MarkKeeps, DrainKeeps, EtherealisedKeeps, JoinKeeps, EtherealiseKeeps
     DEF JobStep
<1>6. ASSUME DestroyStep \/ DeactivateStep \/ QueueStep PROVE IInv'
  BY <1>6, DestroyDiscardsKeeps, LosePoaKeeps, CloseKeeps, DestroyEndsKeeps, PmLeavesItKeeps,
     UnpretendKeeps, SetFlagKeeps, BroadcastKeeps, QueueTakesKeeps, QueueDoneKeeps, QueueMetKeeps
     DEF DestroyStep, DeactivateStep, QueueStep
<1> QED BY <1>1, <1>2, <1>3, <1>4, <1>5, <1>6, StutterKeeps DEF Next, OneIdle

LEMMA SpecIInv == Spec => []IInv
<1> QED BY InitIInv, NextIInv, PTL DEF Spec

\* The counts are natural numbers, since sets and queues have no other sizes.
LEMMA IInvTypeOK == IInv => TypeOK
<1> SUFFICES ASSUME IInv PROVE TypeOK
  OBVIOUS
<1> USE DEF IInv
<1>1. nReqInThis \in Nat /\ nReqActive \in Nat
  BY CountsAreNat DEF CountsInside
<1>2. nDetached \in Nat
  BY DetachedCovers, DueIsNat DEF Types, Numbers
<1>3. entry \in [Objects -> [st : EntryStates, inv : Nat]]
  <2>1. \A o \in Objects : entry[o].inv \in Nat
    BY CountsAreNat DEF CountsOfEntries, OneIf
  <2> QED BY <2>1 DEF Types, EntryTypes
<1> QED BY <1>1, <1>2, <1>3
     DEF TypeOK, Types, Flags, EntryTypes, ThreadTypes, Sleepers, JobTypes, ServingTypes

LEMMA IInvCountsExact == IInv => CountsExact
<1> SUFFICES ASSUME IInv PROVE CountsExact
  OBVIOUS
<1>1. nReqInThis = Cardinality(At({"sa_check", "sa_ready", "incarnate", "incarnated",
                                  "sa_queue", "sa_exit", "held", "upcall", "leave"}))
      /\ nReqActive = Cardinality(At({"upcall", "leave"}))
  BY DEF IInv, CountsInside, Inside, Working, InsidePhases
<1>2. \A o \in Objects :
        entry[o].inv = Cardinality({r \in At({"held", "upcall", "leave"}) : arg[r] = o})
                       + IF entry[o].st \in {"ACTIVATING", "ACTIVE"} THEN 1 ELSE 0
  BY DEF IInv, CountsOfEntries, UsersOf, UserPhases, OneIf
<1>3. nDetached + Cardinality(At({"detach"})) =
        Cardinality({o \in Objects : entry[o].st = "DEACTIVATING"})
        + Cardinality(At({"retire", "met"}))
        + Len(queue) + (IF server = None THEN 0 ELSE 1)
        + (IF pretended THEN 1 ELSE 0)
  <2>1. Len(queue) \in Nat
    BY DEF IInv, Types, ServingTypes
  <2> DEFINE one == IF server = None THEN 0 ELSE 1
             two == IF pretended THEN 1 ELSE 0
  <2>2. Due = Len(queue) + one + two /\ one \in Nat /\ two \in Nat
    BY DEF Due, OneIf
  <2>3. nDetached + Cardinality(Detachers) = Cardinality(Doomed) + Cardinality(Leavers) + Due
    BY DEF IInv, CountsDetached
  <2> HIDE DEF one, two
  <2>4. /\ Cardinality(Doomed) \in Nat /\ Cardinality(Leavers) \in Nat
    BY CountsAreNat
  <2>5. Cardinality(Doomed) + Cardinality(Leavers) + Due
          = Cardinality(Doomed) + Cardinality(Leavers) + Len(queue) + one + two
    BY <2>1, <2>2, <2>4
  <2> QED BY <2>3, <2>5 DEF Detachers, Doomed, Leavers, one, two
<1> QED BY <1>1, <1>2, <1>3 DEF CountsExact

LEMMA IInvOnlyAbandonedLeft == IInv => OnlyAbandonedLeft
<1> SUFFICES ASSUME IInv, life = "gone"
             PROVE  /\ \A o \in Objects : entry[o].st \in {"none", "ACTIVATING"} \/ Abandoned(o)
                    /\ queue = <<>> /\ server = None
                    /\ \A t \in Callers : at[t] \in {"idle", "locate", "sa_check"}
  BY DEF OnlyAbandonedLeft
<1> USE Kinds DEF IInv
<1>1. job["destroy"] = "done" /\ pd_lock = None /\ nDetached = 0
  BY DEF Destruction, DestroyPhases, Closing
<1>2. Detachers = {}
  BY <1>1 DEF Detachers, At, Locked
<1>3. Cardinality(Doomed) = 0 /\ Cardinality(Leavers) = 0 /\ Due = 0
  <2>1. Cardinality(Detachers) = 0
    BY <1>2, FS_EmptySet
  <2>2. nDetached + Cardinality(Detachers) = Cardinality(Doomed) + Cardinality(Leavers) + Due
    BY DEF CountsDetached
  <2>3. /\ Cardinality(Doomed) \in Nat /\ Cardinality(Leavers) \in Nat /\ Due \in Nat
    BY CountsAreNat, DueIsNat
  <2> QED BY <1>1, <2>1, <2>2, <2>3
<1>4. /\ \A o \in Objects : entry[o].st # "DEACTIVATING"
      /\ \A t \in Threads : at[t] \notin {"retire", "met"}
  BY <1>3, ThreadsInside
<1>5. queue = <<>> /\ server = None /\ ~pretended
  <2>1. Len(queue) \in Nat /\ queue \in Seq(Objects)
    BY DEF Types, ServingTypes
  <2> DEFINE one == IF server # None THEN 1 ELSE 0
             two == IF pretended THEN 1 ELSE 0
  <2>2. Due = Len(queue) + one + two /\ one \in Nat /\ two \in Nat
    BY DEF Due, OneIf
  <2> HIDE DEF one, two
  <2>3. Len(queue) = 0 /\ one = 0 /\ two = 0
    BY <1>3, <2>1, <2>2
  <2> QED BY <2>1, <2>3 DEF one, two
<1>6. \A t \in Threads : at[t] \in InsidePhases => at[t] \in {"sa_check", "leave"}
  BY <1>1 DEF Closing
<1>7. \A o \in Objects : ~InHand(o)
  BY <1>5 DEF InHand, Serves, Lined
<1>8. \A o \in Objects : entry[o].st \in {"none", "ACTIVATING"} \/ Abandoned(o)
  <2> SUFFICES ASSUME NEW o \in Objects, entry[o].st \notin {"none", "ACTIVATING"}
               PROVE  Abandoned(o)
    OBVIOUS
  <2>1. list[o] # "active" /\ list[o] # "destroy"
    BY <1>1 DEF Closing, Lists
  <2>2. list[o] # "none"
    <3> SUFFICES ASSUME list[o] = "none" PROVE FALSE
      OBVIOUS
    <3>1. entry[o].st = "ETHEREALISING"
      BY <1>4 DEF Lists
    <3>2. PICK t \in Threads : at[t] \in GivingPhases
      BY <1>7, <3>1 DEF Kept
    <3> QED BY <1>4, <1>6, <3>2 DEF GivingPhases, InsidePhases
  <2>3. list[o] = "deactivate"
    BY <2>1, <2>2 DEF Types, EntryTypes, Jobs
  <2> QED BY <1>5, <2>3 DEF Lists, Abandoned, Deactivation
<1>9. \A t \in Callers : at[t] \in {"idle", "locate", "sa_check"}
  <2> SUFFICES ASSUME NEW t \in Callers PROVE at[t] \in {"idle", "locate", "sa_check"}
    OBVIOUS
  <2>1. at[t] # "leave"
    <3> SUFFICES ASSUME at[t] = "leave" PROVE FALSE
      OBVIOUS
    <3>1. arg[t] \in Objects
      BY DEF Placed, ObjectPhases, UserPhases
    <3>2. entry[arg[t]].st \in Present
      BY <3>1 DEF Used, UserPhases
    <3> QED BY <1>8, <3>1, <3>2 DEF Abandoned, Present
  <2> QED BY <1>4, <1>6, <2>1 DEF Placed, CallerPhases, InsidePhases
<1> QED BY <1>5, <1>8, <1>9

-----------------------------------------------------------------------------
(* What the adapter promises of its objects: every step is one of ObjectLife, *)
(* or none.                                                                  *)

Class(o) == CASE entry[o].st \in Present -> "present"
              [] entry[o].st = "ETHEREALISING" -> "going"
              [] OTHER -> "absent"
Servants == [o \in Objects |-> Class(o)]
Upcalls(o) == {r \in Callers : at[r] = "upcall" /\ arg[r] = o}
ServantUsers == [o \in Objects |-> Upcalls(o)]
Closed == life \in {"destroyed", "gone"}

LifeSame == \A o \in Objects : Class(o)' = Class(o)
UpcallsSame == \A o \in Objects : Upcalls(o)' = Upcalls(o)

LEMMA LifeStutters ==
  ASSUME LifeSame, UpcallsSame, Closed' = Closed
  PROVE  UNCHANGED Life!lifeVars
<1>1. Servants' = Servants /\ ServantUsers' = ServantUsers
  BY DEF Servants, ServantUsers, LifeSame, UpcallsSame
<1> QED BY <1>1 DEF Life!lifeVars, Servants, Class, ServantUsers, Upcalls, Closed

LEMMA LifeArrives ==
  ASSUME NEW o \in Objects, Class(o) = "absent", Class(o)' = "present",
         \A p \in Objects : p # o => Class(p)' = Class(p),
         UpcallsSame, Closed' = Closed, ~Closed
  PROVE  Life!LifeNext
<1>1. Servants[o] = "absent" /\ Servants' = [Servants EXCEPT ![o] = "present"]
  BY DEF Servants
<1>2. ServantUsers' = ServantUsers
  BY DEF ServantUsers, UpcallsSame
<1>3. Life!Arrive(o)
  BY <1>1 DEF Life!Arrive, Servants, Class, Closed
<1> QED BY <1>2, <1>3 DEF Life!LifeNext, ServantUsers, Upcalls, Closed

LEMMA LifeArrivesLate ==
  ASSUME NEW o \in Objects, Class(o) = "absent", Class(o)' = "going",
         \A p \in Objects : p # o => Class(p)' = Class(p),
         UpcallsSame, Closed' = Closed, ~Closed
  PROVE  Life!LifeNext
<1>1. Servants[o] = "absent" /\ Servants' = [Servants EXCEPT ![o] = "going"]
  BY DEF Servants
<1>2. ServantUsers' = ServantUsers
  BY DEF ServantUsers, UpcallsSame
<1>3. Life!ArriveLate(o)
  BY <1>1, <1>2 DEF Life!ArriveLate, Servants, Class, ServantUsers, Upcalls, Closed
<1> QED BY <1>3 DEF Life!LifeNext

LEMMA LifeRemoves ==
  ASSUME NEW o \in Objects, Class(o) = "going", Class(o)' = "absent",
         \A p \in Objects : p # o => Class(p)' = Class(p),
         UpcallsSame, Closed' = Closed
  PROVE  Life!LifeNext
<1>1. Servants[o] = "going" /\ Servants' = [Servants EXCEPT ![o] = "absent"]
  BY DEF Servants
<1>2. ServantUsers' = ServantUsers
  BY DEF ServantUsers, UpcallsSame
<1>3. Life!Remove(o)
  BY <1>1, <1>2 DEF Life!Remove, Servants, Class, ServantUsers, Upcalls, Closed
<1> QED BY <1>3 DEF Life!LifeNext

LEMMA LifeGivesUp ==
  ASSUME NEW S \in SUBSET Objects,
         \A o \in S : Class(o) = "present" /\ Upcalls(o) = {} /\ Class(o)' = "going",
         \A o \in Objects \ S : Class(o)' = Class(o),
         UpcallsSame, Closed' = Closed
  PROVE  Life!LifeNext
<1>1. \A o \in S : Servants[o] = "present" /\ ServantUsers[o] = {}
  BY DEF Servants, ServantUsers
<1>2. Servants' = [o \in Objects |-> IF o \in S THEN "going" ELSE Servants[o]]
  BY DEF Servants
<1>3. ServantUsers' = ServantUsers
  BY DEF ServantUsers, UpcallsSame
<1>4. Life!GiveUp(S)
  BY <1>1, <1>2, <1>3 DEF Life!GiveUp, Servants, Class, ServantUsers, Upcalls, Closed
<1> QED BY <1>4 DEF Life!LifeNext

LEMMA LifeEnters ==
  ASSUME NEW r \in Callers, NEW o \in Objects, at[r] # "upcall",
         at'[r] = "upcall", arg'[r] = o,
         \A u \in Threads : u # r => at'[u] = at[u] /\ arg'[u] = arg[u],
         \/ Class(o) = "present" /\ LifeSame
         \/ /\ Class(o) = "absent" /\ Class(o)' = "present"
            /\ \A p \in Objects : p # o => Class(p)' = Class(p),
         Closed' = Closed, ~Closed
  PROVE  Life!LifeNext
<1>1. \A u \in Callers : u # r => at'[u] = at[u] /\ arg'[u] = arg[u]
  BY Kinds
<1>2. /\ \A p \in Objects : r \notin ServantUsers[p]
      /\ ServantUsers' = [ServantUsers EXCEPT ![o] = @ \cup {r}]
  <2>1. Upcalls(o)' = Upcalls(o) \cup {r}
    BY <1>1 DEF Upcalls
  <2>2. \A p \in Objects : p # o => Upcalls(p)' = Upcalls(p)
    BY <1>1 DEF Upcalls
  <2>3. \A p \in Objects : r \notin Upcalls(p)
    BY DEF Upcalls
  <2> QED BY <2>1, <2>2, <2>3 DEF ServantUsers
<1>3. Life!Enter(r, o)
  BY <1>2 DEF Life!Enter, ServantUsers, Upcalls, Closed
<1>4. CASE Class(o) = "present" /\ LifeSame
  <2>1. Servants[o] = "present" /\ Servants' = Servants
    BY <1>4 DEF Servants, LifeSame
  <2> QED BY <1>3, <2>1 DEF Life!LifeNext, Servants, Class
<1>5. CASE /\ Class(o) = "absent" /\ Class(o)' = "present"
           /\ \A p \in Objects : p # o => Class(p)' = Class(p)
  <2>1. Servants[o] = "absent" /\ Servants' = [Servants EXCEPT ![o] = "present"]
    BY <1>5 DEF Servants
  <2>2. Life!Arrive(o)
    BY <2>1 DEF Life!Arrive, Servants, Class, Closed
  <2> QED BY <1>3, <2>2 DEF Life!LifeNext
<1> QED BY <1>4, <1>5

LEMMA LifeExits ==
  ASSUME NEW r \in Callers, NEW o \in Objects, at[r] = "upcall", arg[r] = o,
         at'[r] # "upcall",
         \A u \in Threads : u # r => at'[u] = at[u] /\ arg'[u] = arg[u],
         LifeSame, Closed' = Closed
  PROVE  Life!LifeNext
<1>1. \A u \in Callers : u # r => at'[u] = at[u] /\ arg'[u] = arg[u]
  BY Kinds
<1>2. r \in ServantUsers[o] /\ ServantUsers' = [ServantUsers EXCEPT ![o] = @ \ {r}]
  <2>1. Upcalls(o)' = Upcalls(o) \ {r}
    BY <1>1 DEF Upcalls
  <2>2. \A p \in Objects : p # o => Upcalls(p)' = Upcalls(p)
    BY <1>1 DEF Upcalls
  <2>3. r \in Upcalls(o)
    BY DEF Upcalls
  <2> QED BY <2>1, <2>2, <2>3 DEF ServantUsers
<1>3. Servants' = Servants
  BY DEF Servants, LifeSame
<1>4. Life!Exit(r, o)
  BY <1>2, <1>3 DEF Life!Exit, Servants, Class, ServantUsers, Upcalls, Closed
<1> QED BY <1>4 DEF Life!LifeNext

LEMMA LifeCloses ==
  ASSUME LifeSame, UpcallsSame, Closed', \A o \in Objects : Upcalls(o) = {}
  PROVE  Life!LifeNext
<1>1. Servants' = Servants /\ ServantUsers' = ServantUsers /\ \A o \in Objects : ServantUsers[o] = {}
  BY DEF Servants, ServantUsers, LifeSame, UpcallsSame
<1>2. Closed' = TRUE
  BY DEF Closed
<1>3. Life!Close
  BY <1>1, <1>2 DEF Life!Close, Servants, Class, ServantUsers, Upcalls, Closed
<1> QED BY <1>3 DEF Life!LifeNext


LEMMA ClassIs ==
  ASSUME NEW o \in Objects
  PROVE  /\ entry[o].st \in Present => Class(o) = "present"
         /\ entry[o].st = "ETHEREALISING" => Class(o) = "going"
         /\ entry[o].st \in {"none", "ACTIVATING"} => Class(o) = "absent"
<1>1. CASE entry[o].st \in Present
  <2>1. entry[o].st # "ETHEREALISING" /\ entry[o].st \notin {"none", "ACTIVATING"}
    BY <1>1 DEF Present
  <2> QED BY <1>1, <2>1 DEF Class
<1>2. CASE entry[o].st = "ETHEREALISING"
  <2>1. entry[o].st \notin Present /\ entry[o].st \notin {"none", "ACTIVATING"}
    BY <1>2 DEF Present
  <2> QED BY <1>2, <2>1 DEF Class
<1>3. CASE entry[o].st \in {"none", "ACTIVATING"}
  <2>1. entry[o].st \notin Present /\ entry[o].st # "ETHEREALISING"
    BY <1>3 DEF Present
  <2> QED BY <1>3, <2>1 DEF Class
<1> QED BY <1>1, <1>2, <1>3

LEMMA ClassWillBe ==
  ASSUME NEW o \in Objects
  PROVE  /\ entry'[o].st \in Present => Class(o)' = "present"
         /\ entry'[o].st = "ETHEREALISING" => Class(o)' = "going"
         /\ entry'[o].st \in {"none", "ACTIVATING"} => Class(o)' = "absent"
<1>1. CASE entry'[o].st \in Present
  <2>1. entry'[o].st # "ETHEREALISING" /\ entry'[o].st \notin {"none", "ACTIVATING"}
    BY <1>1 DEF Present
  <2> QED BY <1>1, <2>1 DEF Class
<1>2. CASE entry'[o].st = "ETHEREALISING"
  <2>1. entry'[o].st \notin Present /\ entry'[o].st \notin {"none", "ACTIVATING"}
    BY <1>2 DEF Present
  <2> QED BY <1>2, <2>1 DEF Class
<1>3. CASE entry'[o].st \in {"none", "ACTIVATING"}
  <2>1. entry'[o].st \notin Present /\ entry'[o].st # "ETHEREALISING"
    BY <1>3 DEF Present
  <2> QED BY <1>3, <2>1 DEF Class
<1> QED BY <1>1, <1>2, <1>3

LEMMA ClassStays ==
  ASSUME NEW o \in Objects, entry'[o].st = entry[o].st
  PROVE  Class(o)' = Class(o)
BY DEF Class

\* No request enters a servant or leaves it.
Outside == \A r \in Callers :
  \/ at[r] # "upcall" /\ at'[r] # "upcall"
  \/ at'[r] = at[r] /\ arg'[r] = arg[r]

LEMMA OutsideKeepsUpcalls ==
  ASSUME Outside
  PROVE  UpcallsSame
BY DEF UpcallsSame, Upcalls, Outside

LEMMA MoveOutside ==
  ASSUME NEW t \in Threads, Moves(t), at[t] # "upcall", at'[t] # "upcall"
  PROVE  Outside
BY Kinds DEF Moves, Outside

LEMMA LetGoOutside ==
  ASSUME LetGo, UNCHANGED arg
  PROVE  Outside
BY Kinds DEF LetGo, Resting, Outside

LEMMA EntryStays == ASSUME UNCHANGED entry PROVE LifeSame
BY ClassStays DEF LifeSame

LEMMA LifeOf ==
  ASSUME IInv
  PROVE  /\ Closed => pd_rq_state = "INACTIVE"
         /\ Closed <=> job["destroy"] \in {"take", "join", "end", "done"}
BY DEF IInv, Destruction, DestroyPhases, Closed, Types, Flags


\* A step that the application cannot tell from none, and one it may tell.
Serene == LifeSame /\ UpcallsSame /\ Closed' = Closed
LifeGoesOn == Life!LifeNext \/ Serene

LEMMA ThreadsSerene ==
  ASSUME IInv, UNCHANGED <<entry, life>>, Outside
  PROVE  Serene
BY EntryStays, OutsideKeepsUpcalls DEF Serene, Closed

\* A step that changes the entry of one object only.
LEMMA EntryMoves ==
  ASSUME IInv, NEW o \in Objects, NEW e, entry' = [entry EXCEPT ![o] = e]
  PROVE  /\ entry'[o].st = e.st
         /\ \A p \in Objects : p # o => Class(p)' = Class(p)
<1>1. entry'[o] = e /\ \A p \in Objects : p # o => entry'[p] = entry[p]
  BY DEF IInv, Types, EntryTypes
<1> QED BY <1>1, ClassStays

LEMMA DispatchGoesOn ==
  ASSUME IInv, NEW r \in Callers, NEW o \in Objects, NEW e \in [st : Present, inv : Int],
         NEW in, NEW sleepers, Dispatch(r, o, e, in, sleepers),
         Moves(r), arg'[r] = o, at[r] # "upcall", UNCHANGED life,
         \/ entry[o].st \in Present
         \/ entry[o].st \in {"none", "ACTIVATING"} /\ ~Closed
  PROVE  LifeGoesOn
<1> USE Kinds
<1>1. /\ Class(o)' = "present"
      /\ \A p \in Objects : p # o => Class(p)' = Class(p)
  <2> DEFINE f == [e EXCEPT !.inv = @ + 1]
  <2>1. entry' = [entry EXCEPT ![o] = f]
    BY DEF Dispatch
  <2>2. f = [st |-> e.st, inv |-> e.inv + 1]
    OBVIOUS
  <2>3. f.st = e.st /\ e.st \in Present
    BY <2>2
  <2> HIDE DEF f
  <2>4. entry'[o].st \in Present /\ \A p \in Objects : p # o => Class(p)' = Class(p)
    BY <2>1, <2>3, EntryMoves
  <2> QED BY <2>4, ClassWillBe
<1>2. Closed' = Closed
  BY DEF Closed
<1>3. \/ Class(o) = "present"
      \/ Class(o) = "absent" /\ ~Closed
  BY ClassIs
<1>4. Class(o) = "present" => LifeSame
  BY <1>1 DEF LifeSame
<1>5. \/ pd_rq_state = "ACTIVE" /\ at'[r] = "upcall"
      \/ at'[r] # "upcall"
  <2>1. r \in Threads /\ at \in [Threads -> CallerPhases \cup AppPhases]
    BY DEF IInv, Types, ThreadTypes
  <2> QED BY <2>1 DEF Dispatch, Go
<1>6. CASE pd_rq_state = "ACTIVE" /\ at'[r] = "upcall"
  <2>1. ~Closed
    BY <1>6, LifeOf
  <2> QED BY <1>1, <1>2, <1>3, <1>4, <1>6, <2>1, LifeEnters DEF Moves, LifeGoesOn
<1>7. CASE at'[r] # "upcall"
  <2>1. UpcallsSame
    BY <1>7, MoveOutside, OutsideKeepsUpcalls
  <2>2. CASE Class(o) = "present"
    BY <1>2, <1>4, <2>1, <2>2 DEF LifeGoesOn, Serene
  <2>3. CASE Class(o) = "absent" /\ ~Closed
    BY <1>1, <1>2, <2>1, <2>3, LifeArrives DEF LifeGoesOn
  <2> QED BY <1>3, <2>2, <2>3
<1> QED BY <1>5, <1>6, <1>7

\* A thread's step that leaves servants and upcalls alone.
LEMMA ThreadsGoOn ==
  ASSUME IInv, NEW t \in Threads, Moves(t), at[t] # "upcall", at'[t] # "upcall",
         UNCHANGED <<entry, life>>
  PROVE  LifeGoesOn
BY MoveOutside, ThreadsSerene DEF LifeGoesOn

LEMMA CallerGoesOn ==
  ASSUME IInv, NEW r \in Callers,
         \/ HeldTimesOut(r) \/ Met(r) \/ Incarnate(r) \/ Incarnated(r) \/ SaQueue(r) \/ SaExit(r)
  PROVE  LifeGoesOn
<1> USE Kinds
<1>1. r \in Threads /\ at \in [Threads -> CallerPhases \cup AppPhases]
      /\ arg \in [Threads -> Objects \cup {None}]
  BY DEF IInv, Types, ThreadTypes
<1>2. /\ at[r] # "upcall" /\ at'[r] # "upcall" /\ Moves(r)
  BY <1>1 DEF HeldTimesOut, Met, Incarnate, Incarnated, SaQueue, SaExit, Go, Ends, Moves
<1>3. UNCHANGED <<entry, life>>
  BY DEF HeldTimesOut, Met, Incarnate, Incarnated, SaQueue, SaExit, objects
<1> QED BY <1>1, <1>2, <1>3, ThreadsGoOn

LEMMA HeldGoesOnGoesOn ==
  ASSUME IInv, NEW r \in Callers, HeldGoesOn(r)
  PROVE  LifeGoesOn
<1> USE Kinds
<1>1. /\ r \in Threads /\ at \in [Threads -> CallerPhases \cup AppPhases]
      /\ at[r] = "held" /\ arg[r] \in Objects /\ UNCHANGED <<entry, life, arg>>
  BY DEF HeldGoesOn, IInv, Types, ThreadTypes, Placed, ObjectPhases, UserPhases, objects
<1>2. Moves(r)
  BY <1>1 DEF HeldGoesOn, Go, Moves
<1>3. CASE at'[r] # "upcall"
  BY <1>1, <1>2, <1>3, ThreadsGoOn
<1>4. CASE at'[r] = "upcall"
  <2>1. pd_rq_state = "ACTIVE" /\ entry[arg[r]].st \in Present
    BY <1>1, <1>4 DEF HeldGoesOn, Go
  <2>2. Class(arg[r]) = "present" /\ LifeSame /\ ~Closed /\ Closed' = Closed
    BY <1>1, <2>1, ClassIs, EntryStays, LifeOf DEF Closed
  <2> QED BY <1>1, <1>2, <1>4, <2>2, LifeEnters DEF Moves, LifeGoesOn
<1> QED BY <1>3, <1>4

LEMMA UpcallReturnsGoesOn ==
  ASSUME IInv, NEW r \in Callers, UpcallReturns(r)
  PROVE  LifeGoesOn
<1> USE Kinds
<1>1. /\ r \in Threads /\ at \in [Threads -> CallerPhases \cup AppPhases]
      /\ at[r] = "upcall" /\ arg[r] \in Objects /\ UNCHANGED <<entry, life, arg>>
      /\ at' = [at EXCEPT ![r] = "leave"]
  BY DEF UpcallReturns, Go, IInv, Types, ThreadTypes, Placed, ObjectPhases, UserPhases, objects
<1>2. Moves(r) /\ at'[r] # "upcall"
  BY <1>1 DEF Moves
<1>3. LifeSame /\ Closed' = Closed
  BY <1>1, EntryStays DEF Closed
<1> QED BY <1>1, <1>2, <1>3, LifeExits DEF Moves, LifeGoesOn

\* An object without upcalls may be given up.
LEMMA GivingUpGoesOn ==
  ASSUME IInv, NEW o \in Objects, Class(o) = "present", Upcalls(o) = {},
         entry' = [entry EXCEPT ![o] = [st |-> "ETHEREALISING", inv |-> 0]],
         UpcallsSame, Closed' = Closed
  PROVE  LifeGoesOn
<1>1. /\ entry'[o] = [st |-> "ETHEREALISING", inv |-> 0]
      /\ \A p \in Objects : p # o => entry'[p] = entry[p]
  BY DEF IInv, Types, EntryTypes
<1>2. Class(o)' = "going"
  BY <1>1, ClassWillBe
<1>3. \A p \in Objects : p # o => Class(p)' = Class(p)
  BY <1>1, ClassStays
<1> DEFINE S == {o}
<1>4. /\ S \in SUBSET Objects
      /\ \A p \in S : Class(p) = "present" /\ Upcalls(p) = {} /\ Class(p)' = "going"
      /\ \A p \in Objects \ S : Class(p)' = Class(p)
  BY <1>2, <1>3
<1> HIDE DEF S
<1> QED BY <1>4, LifeGivesUp DEF LifeGoesOn

LEMMA LeaveGoesOn ==
  ASSUME IInv, NEW r \in Callers, Leave(r)
  PROVE  LifeGoesOn
<1> USE Kinds
<1>1. /\ r \in Threads /\ at \in [Threads -> CallerPhases \cup AppPhases]
      /\ arg \in [Threads -> Objects \cup {None}]
      /\ at[r] = "leave" /\ arg[r] \in Objects /\ UNCHANGED life
  BY DEF Leave, IInv, Types, ThreadTypes, Placed, ObjectPhases, UserPhases
<1>2. Moves(r) /\ at'[r] # "upcall"
  <2>1. \/ at' = [at EXCEPT ![r] = "retire"] /\ arg' = arg
        \/ at' = [at EXCEPT ![r] = "idle"] /\ arg' = [arg EXCEPT ![r] = None]
    BY DEF Leave, Go, Ends
  <2> QED BY <1>1, <2>1 DEF Moves
<1>3. UpcallsSame /\ Closed' = Closed
  BY <1>1, <1>2, MoveOutside, OutsideKeepsUpcalls DEF Closed
<1>4. CASE LastOut(arg[r])
  <2>1. entry' = [entry EXCEPT ![arg[r]] = [st |-> "ETHEREALISING", inv |-> 0]]
    BY <1>4 DEF Leave
  <2>2. /\ entry[arg[r]].st = "DEACTIVATING"
        /\ \A u \in Threads : u # r /\ at[u] \in UserPhases => arg[u] # arg[r]
    BY <1>4, LeaveKeeps
  <2>3. Upcalls(arg[r]) = {}
    BY <1>1, <2>2 DEF Upcalls, UserPhases
  <2>4. Class(arg[r]) = "present"
    BY <1>1, <2>2, ClassIs DEF Present
  <2> QED BY <1>1, <1>3, <2>1, <2>3, <2>4, GivingUpGoesOn
<1>5. CASE ~LastOut(arg[r])
  <2>1. entry' = [entry EXCEPT ![arg[r]].inv = @ - 1]
    BY <1>5 DEF Leave
  <2>2. \A p \in Objects : entry'[p].st = entry[p].st
    BY <1>1, <2>1 DEF IInv, Types, EntryTypes
  <2>3. LifeSame
    BY <2>2, ClassStays DEF LifeSame
  <2> QED BY <1>3, <2>3 DEF LifeGoesOn, Serene
<1> QED BY <1>4, <1>5

\* An etherealised object may be removed from the table.
LEMMA RemovalGoesOn ==
  ASSUME IInv, NEW o \in Objects, entry[o].st = "ETHEREALISING",
         entry' = [entry EXCEPT ![o] = Dead], UpcallsSame, UNCHANGED life
  PROVE  LifeGoesOn
<1>1. entry'[o].st = "none" /\ \A p \in Objects : p # o => entry'[p] = entry[p]
  BY DEF IInv, Types, EntryTypes, Dead
<1>2. /\ Class(o) = "going" /\ Class(o)' = "absent"
      /\ \A p \in Objects : p # o => Class(p)' = Class(p)
  BY <1>1, ClassIs, ClassWillBe, ClassStays
<1>3. Closed' = Closed
  BY DEF Closed
<1> QED BY <1>2, <1>3, LifeRemoves DEF LifeGoesOn

LEMMA RetireGoesOn ==
  ASSUME IInv, NEW t \in Threads, Retire(t)
  PROVE  LifeGoesOn
<1>1. /\ at \in [Threads -> CallerPhases \cup AppPhases]
      /\ arg \in [Threads -> Objects \cup {None}]
      /\ at[t] = "retire" /\ arg[t] \in Objects /\ UNCHANGED life
  BY DEF Retire, IInv, Types, ThreadTypes, Placed, ObjectPhases, OwnerPhases, GivingPhases
<1>2. entry[arg[t]].st = "ETHEREALISING"
  BY <1>1 DEF IInv, Owned, GivingPhases
<1>3. Moves(t) /\ at'[t] # "upcall"
  <2>1. \/ at' = [at EXCEPT ![t] = "met"] /\ arg' = arg
        \/ at' = [at EXCEPT ![t] = "idle"] /\ arg' = [arg EXCEPT ![t] = None]
    BY DEF Retire, Go, Ends
  <2> QED BY <1>1, <2>1 DEF Moves
<1>4. CASE UNCHANGED entry
  BY <1>1, <1>3, <1>4, ThreadsGoOn
<1>5. CASE entry' = [entry EXCEPT ![arg[t]] = Dead]
  <2>1. UpcallsSame
    BY <1>1, <1>3, MoveOutside, OutsideKeepsUpcalls
  <2> QED BY <1>1, <1>2, <1>5, <2>1, RemovalGoesOn
<1> QED BY <1>4, <1>5 DEF Retire


\* A place-holder in the object table is none of the adapter's objects.
LEMMA ReservingGoesOn ==
  ASSUME IInv, NEW o \in Objects, NEW e \in {Dead, Reserved},
         entry[o].st \in {"none", "ACTIVATING"},
         entry' = [entry EXCEPT ![o] = e], Outside, UNCHANGED life
  PROVE  LifeGoesOn
<1>1. entry'[o].st \in {"none", "ACTIVATING"} /\ \A p \in Objects : p # o => entry'[p] = entry[p]
  BY DEF IInv, Types, EntryTypes, Dead, Reserved
<1>2. LifeSame
  BY <1>1, ClassIs, ClassWillBe, ClassStays DEF LifeSame
<1> QED BY <1>2, OutsideKeepsUpcalls DEF Serene, LifeGoesOn, Closed

LEMMA LocateGoesOn ==
  ASSUME IInv, NEW r \in Callers, Locate(r)
  PROVE  LifeGoesOn
<1> USE Kinds
<1>1. /\ r \in Threads /\ at \in [Threads -> CallerPhases \cup AppPhases]
      /\ at[r] = "locate" /\ arg[r] \in Objects /\ UNCHANGED <<life, arg>>
  BY DEF Locate, IInv, Types, ThreadTypes, Placed, ObjectPhases
<1>2. PICK o \in Objects : o = arg[r]
  BY <1>1
<1>3. CASE entry[o].st \in Present /\ Dispatch(r, o, entry[o], nReqInThis + 1, asleep)
  <2>1. Moves(r)
    BY <1>1, <1>3 DEF Dispatch, Go, Moves
  <2> DEFINE e == entry[o]
             in == nReqInThis + 1
             sleepers == asleep
  <2>2. e \in [st : Present, inv : Int]
    BY <1>3 DEF IInv, Types, EntryTypes
  <2>3. Dispatch(r, o, e, in, sleepers)
    BY <1>3
  <2> HIDE DEF e, in, sleepers
  <2> QED BY <1>1, <1>2, <1>3, <2>1, <2>2, <2>3, DispatchGoesOn
<1>4. CASE entry[o].st = "none" /\ entry' = [entry EXCEPT ![o] = Reserved] /\ Go(r, "sa_check")
  <2>1. Outside
    BY <1>1, <1>4, MoveOutside DEF Go, Moves
  <2> QED BY <1>1, <1>4, <2>1, ReservingGoesOn
<1> QED BY <1>2, <1>3, <1>4 DEF Locate

LEMMA GiveUpGoesOn ==
  ASSUME IInv, NEW r \in Callers, at[r] \in {"sa_check", "incarnate"}, GiveUp(r), UNCHANGED life
  PROVE  LifeGoesOn
<1> USE Kinds
<1>1. /\ r \in Threads /\ at \in [Threads -> CallerPhases \cup AppPhases]
      /\ arg \in [Threads -> Objects \cup {None}] /\ arg[r] \in Objects
  BY DEF IInv, Types, ThreadTypes, Placed, ObjectPhases, OwnerPhases, ReservePhases
<1>2. entry[arg[r]].st = "ACTIVATING"
  BY <1>1 DEF IInv, Owned, ReservePhases
<1>3. Outside
  BY <1>1, MoveOutside DEF GiveUp, Ends, Moves
<1> QED BY <1>1, <1>2, <1>3, ReservingGoesOn DEF GiveUp

LEMMA SaCheckGoesOn ==
  ASSUME IInv, NEW r \in Callers, SaCheck(r) \/ IncarnateFails(r)
  PROVE  LifeGoesOn
<1> USE Kinds
<1>1. /\ r \in Threads /\ at \in [Threads -> CallerPhases \cup AppPhases]
      /\ at[r] \in {"sa_check", "incarnate"} /\ UNCHANGED life
  BY DEF SaCheck, IncarnateFails, IInv, Types, ThreadTypes
<1>2. CASE GiveUp(r)
  BY <1>1, <1>2, GiveUpGoesOn
<1>3. CASE Go(r, "sa_ready") /\ UNCHANGED <<entry, arg>>
  <2>1. Moves(r) /\ at[r] # "upcall" /\ at'[r] # "upcall"
    BY <1>1, <1>3 DEF Go, Moves
  <2> QED BY <1>1, <1>3, <2>1, ThreadsGoOn
<1> QED BY <1>2, <1>3 DEF SaCheck, IncarnateFails

\* An object becomes active only while the POA is not dying; a servant that is
\* late for that was incarnated before the adapter is closed.
LEMMA SaActivateGoesOn ==
  ASSUME IInv, NEW r \in Callers, SaActivate(r)
  PROVE  LifeGoesOn
<1> USE Kinds
<1>1. /\ r \in Threads /\ at \in [Threads -> CallerPhases \cup AppPhases]
      /\ at[r] = "incarnated" /\ arg[r] \in Objects /\ UNCHANGED <<life, arg>>
  BY DEF SaActivate, IInv, Types, ThreadTypes, Placed, ObjectPhases, OwnerPhases, ReservePhases
<1>2. PICK o \in Objects : o = arg[r]
  BY <1>1
<1>3. entry[o].st = "ACTIVATING"
  BY <1>1, <1>2 DEF IInv, Owned, ReservePhases
<1>4. ~Closed
  <2>1. job["destroy"] \notin {"close", "take", "join", "end", "done"}
    BY <1>1 DEF IInv, Closing, InsidePhases
  <2> QED BY <2>1, LifeOf
<1>5. CASE Dispatch(r, o, Active, nReqInThis, AfterExit)
  <2>1. Moves(r)
    BY <1>1, <1>5 DEF Dispatch, Go, Moves
  <2> DEFINE e == Active
             in == nReqInThis
             sleepers == AfterExit
  <2>2. e \in [st : Present, inv : Int]
    BY DEF Active, Present
  <2>3. Dispatch(r, o, e, in, sleepers)
    BY <1>5
  <2> HIDE DEF e, in, sleepers
  <2> QED BY <1>1, <1>2, <1>3, <1>4, <2>1, <2>2, <2>3, DispatchGoesOn
<1>6. CASE entry' = [entry EXCEPT ![o] = [st |-> "ETHEREALISING", inv |-> 0]] /\ Go(r, "sa_queue")
  <2>1. Outside
    BY <1>1, <1>6, MoveOutside DEF Go, Moves
  <2>2. entry'[o].st = "ETHEREALISING" /\ \A p \in Objects : p # o => entry'[p] = entry[p]
    BY <1>6 DEF IInv, Types, EntryTypes
  <2>3. /\ Class(o) = "absent" /\ Class(o)' = "going"
        /\ \A p \in Objects : p # o => Class(p)' = Class(p)
    BY <1>3, <2>2, ClassIs, ClassWillBe, ClassStays
  <2>4. UpcallsSame /\ Closed' = Closed
    BY <1>1, <2>1, OutsideKeepsUpcalls DEF Closed
  <2> QED BY <1>4, <2>3, <2>4, LifeArrivesLate DEF LifeGoesOn
<1> QED BY <1>2, <1>5, <1>6 DEF SaActivate

LEMMA RequestGoesOn ==
  ASSUME IInv, NEW r \in Callers, NEW o \in Objects, Request(r, o)
  PROVE  LifeGoesOn
<1> USE Kinds
<1>1. /\ r \in Threads /\ at \in [Threads -> CallerPhases \cup AppPhases]
      /\ arg \in [Threads -> Objects \cup {None}]
      /\ at[r] = "idle" /\ arg' = [arg EXCEPT ![r] = o] /\ UNCHANGED life
  BY DEF Request, IInv, Types, ThreadTypes
<1>2. CASE entry[o].st \in Present /\ Dispatch(r, o, entry[o], nReqInThis + 1, asleep)
  <2>1. Moves(r) /\ arg'[r] = o
    BY <1>1, <1>2 DEF Dispatch, Go, Moves
  <2> DEFINE e == entry[o]
             in == nReqInThis + 1
             sleepers == asleep
  <2>2. e \in [st : Present, inv : Int]
    BY <1>2 DEF IInv, Types, EntryTypes
  <2>3. Dispatch(r, o, e, in, sleepers)
    BY <1>2
  <2> HIDE DEF e, in, sleepers
  <2> QED BY <1>1, <1>2, <2>1, <2>2, <2>3, DispatchGoesOn
<1>3. CASE Go(r, "locate") /\ UNCHANGED entry
  <2>1. Moves(r) /\ at[r] # "upcall" /\ at'[r] # "upcall"
    BY <1>1, <1>3 DEF Go, Moves
  <2> QED BY <1>1, <1>3, <2>1, ThreadsGoOn
<1> QED BY <1>2, <1>3 DEF Request


LEMMA PlaceGoesOn ==
  ASSUME IInv, NEW a \in Apps, NEW o \in Objects, Place(a, o)
  PROVE  LifeGoesOn
<1> USE Kinds
<1>1. /\ a \in Threads /\ at \in [Threads -> CallerPhases \cup AppPhases]
      /\ arg \in [Threads -> Objects \cup {None}]
      /\ at[a] = "idle" /\ at' = [at EXCEPT ![a] = "placed"] /\ arg' = [arg EXCEPT ![a] = o]
      /\ entry[o].st = "none" /\ entry' = [entry EXCEPT ![o] = Reserved] /\ UNCHANGED life
  BY DEF Place, Call, Takes, Go, IInv, Types, ThreadTypes
<1>2. Outside
  BY <1>1, MoveOutside DEF Moves
<1> QED BY <1>1, <1>2, ReservingGoesOn

LEMMA ActivateGoesOn ==
  ASSUME IInv, NEW a \in Apps, Activate(a)
  PROVE  LifeGoesOn
<1> USE Kinds
<1>1. /\ a \in Threads /\ at \in [Threads -> CallerPhases \cup AppPhases]
      /\ arg \in [Threads -> Objects \cup {None}]
      /\ at[a] = "placed" /\ arg[a] \in Objects /\ Ends(a) /\ UNCHANGED life
  BY DEF Activate, IInv, Types, ThreadTypes, Placed, ObjectPhases, OwnerPhases, ReservePhases
<1>2. PICK o \in Objects : o = arg[a]
  BY <1>1
<1>3. entry[o].st = "ACTIVATING"
  BY <1>1, <1>2 DEF IInv, Owned, ReservePhases
<1>4. Outside
  BY <1>1, MoveOutside DEF Ends, Moves
<1>5. CASE ~Dying /\ entry' = [entry EXCEPT ![o].st = "ACTIVE"]
  <2>1. entry'[o].st = "ACTIVE" /\ \A p \in Objects : p # o => entry'[p] = entry[p]
    BY <1>5 DEF IInv, Types, EntryTypes
  <2>2. entry'[o].st \in Present
    BY <2>1 DEF Present
  <2>3. /\ Class(o) = "absent" /\ Class(o)' = "present"
        /\ \A p \in Objects : p # o => Class(p)' = Class(p)
    BY <1>3, <2>1, <2>2, ClassIs, ClassWillBe, ClassStays
  <2>4. UpcallsSame /\ Closed' = Closed /\ ~Closed
    BY <1>1, <1>4, <1>5, OutsideKeepsUpcalls DEF Closed, Dying
  <2> QED BY <2>3, <2>4, LifeArrives DEF LifeGoesOn
<1>6. CASE entry' = [entry EXCEPT ![o] = Dead]
  BY <1>1, <1>3, <1>4, <1>6, ReservingGoesOn
<1> QED BY <1>2, <1>5, <1>6 DEF Activate

LEMMA DeactivateObjectGoesOn ==
  ASSUME IInv, NEW a \in Apps, NEW o \in Objects, DeactivateObject(a, o)
  PROVE  LifeGoesOn
<1> USE Kinds
<1>1. /\ a \in Threads /\ at \in [Threads -> CallerPhases \cup AppPhases]
      /\ arg \in [Threads -> Objects \cup {None}]
      /\ at[a] = "idle" /\ arg' = [arg EXCEPT ![a] = o]
      /\ entry[o].st = "ACTIVE" /\ UNCHANGED life
  BY DEF DeactivateObject, Call, Takes, IInv, Types, ThreadTypes
<1>2. Moves(a) /\ at'[a] # "upcall"
  <2>1. \E phase \in {"retire", "detach"} : at' = [at EXCEPT ![a] = phase]
    BY DEF DeactivateObject, Takes, Go
  <2> QED BY <1>1, <2>1 DEF Moves
<1>3. UpcallsSame /\ Closed' = Closed
  BY <1>1, <1>2, MoveOutside, OutsideKeepsUpcalls DEF Closed
<1>4. CASE entry[o].inv = 1 /\ entry' = [entry EXCEPT ![o] = [st |-> "ETHEREALISING", inv |-> 0]]
  <2>1. \A u \in Threads : at[u] \in UserPhases => arg[u] # o
    BY <1>4, DeactivateObjectKeeps
  <2>2. Upcalls(o) = {}
    BY <2>1 DEF Upcalls, UserPhases
  <2>3. Class(o) = "present"
    BY <1>1, ClassIs DEF Present
  <2> QED BY <1>3, <1>4, <2>2, <2>3, GivingUpGoesOn
<1>5. CASE entry' = [entry EXCEPT ![o] = [st |-> "DEACTIVATING", inv |-> @.inv - 1]]
  <2>1. /\ entry'[o].st = "DEACTIVATING" /\ \A p \in Objects : p # o => entry'[p] = entry[p]
    BY <1>5 DEF IInv, Types, EntryTypes
  <2>2. entry[o].st \in Present /\ entry'[o].st \in Present
    BY <1>1, <2>1 DEF Present
  <2>3. LifeSame
    BY <2>1, <2>2, ClassIs, ClassWillBe, ClassStays DEF LifeSame
  <2> QED BY <1>3, <2>3 DEF LifeGoesOn, Serene
<1> QED BY <1>4, <1>5 DEF DeactivateObject

LEMMA AppGoesOn ==
  ASSUME IInv, NEW a \in Apps,
         \/ Detach(a) \/ Met(a) \/ PmWaits(a) \/ PmSleeps(a) \/ Destroyed(a)
         \/ PmActivate(a) \/ PmDeactivateAgain(a) \/ DestroyAgain(a)
         \/ \E wait \in BOOLEAN, s \in {"HOLDING", "DISCARDING"} : PmStop(a, s, wait)
         \/ \E wait \in BOOLEAN, e \in BOOLEAN : PmDeactivate(a, e, wait) \/ Destroy(a, e, wait)
  PROVE  LifeGoesOn
<1> USE Kinds
<1>1. /\ a \in Threads /\ at \in [Threads -> CallerPhases \cup AppPhases]
      /\ arg \in [Threads -> Objects \cup {None}]
      /\ at[a] \in AppPhases
  BY DEF IInv, Types, ThreadTypes, Placed
<1>2. at[a] # "upcall"
  BY <1>1 DEF AppPhases
<1>3. UNCHANGED entry
  BY DEF Detach, Met, PmWaits, PmSleeps, Destroyed, PmActivate, PmDeactivateAgain, DestroyAgain,
         PmStop, PmDeactivate, Destroy, objects
<1>4. Closed' = Closed
  <2>1. UNCHANGED life \/ (life = "alive" /\ life' = "dying")
    BY DEF Detach, Met, PmWaits, PmSleeps, Destroyed, PmActivate, PmDeactivateAgain, DestroyAgain,
           PmStop, PmDeactivate, Destroy
  <2> QED BY <2>1 DEF Closed
<1>5. Moves(a) /\ at'[a] # "upcall"
  <2>1. CASE Detach(a) \/ Met(a) \/ PmSleeps(a) \/ Destroyed(a)
    BY <1>1, <2>1 DEF Detach, Met, PmSleeps, Destroyed, Ends, Go, Moves
  <2>2. CASE PmWaits(a)
    BY <1>1, <1>2, <2>2 DEF PmWaits, Ends, threads, Moves
  <2>3. CASE PmActivate(a)
    BY <1>1, <1>2, <2>3 DEF PmActivate, threads, Moves
  <2>4. CASE PmDeactivateAgain(a) \/ DestroyAgain(a)
    BY <1>1, <2>4 DEF PmDeactivateAgain, DestroyAgain, Go, Moves
  <2>5. CASE \E wait \in BOOLEAN, s \in {"HOLDING", "DISCARDING"} : PmStop(a, s, wait)
    <3>1. /\ \E phase \in {"HOLDING", "DISCARDING", "idle"} : at' = [at EXCEPT ![a] = phase]
          /\ arg' = arg
      BY <2>5 DEF PmStop
    <3> QED BY <1>1, <3>1 DEF Moves
  <2>6. CASE \E wait \in BOOLEAN, e \in BOOLEAN : PmDeactivate(a, e, wait) \/ Destroy(a, e, wait)
    <3>1. /\ \E phase \in {"working", "destroying", "idle"} : at' = [at EXCEPT ![a] = phase]
          /\ arg' = arg
      BY <2>6 DEF PmDeactivate, Destroy, Go
    <3> QED BY <1>1, <3>1 DEF Moves
  <2> QED BY <2>1, <2>2, <2>3, <2>4, <2>5, <2>6
<1>6. LifeSame /\ UpcallsSame
  BY <1>1, <1>2, <1>3, <1>5, EntryStays, MoveOutside, OutsideKeepsUpcalls
<1> QED BY <1>4, <1>6 DEF LifeGoesOn, Serene


\* The objects on a job's list are given up together, when nobody is inside.
LEMMA DrainedGoesOn ==
  ASSUME IInv, UNCHANGED <<at, arg, life>>,
         \A t \in Threads : at[t] \notin InsidePhases,
         \A o \in Objects : \/ entry'[o] = entry[o]
                            \/ entry[o].st \in Present /\ entry'[o].st = "ETHEREALISING"
  PROVE  LifeGoesOn
<1> USE Kinds
<1> DEFINE S == {o \in Objects : entry[o].st \in Present /\ entry'[o].st = "ETHEREALISING"}
<1>1. \A o \in Objects : Upcalls(o) = {}
  BY DEF Upcalls, InsidePhases
<1>2. UpcallsSame /\ Closed' = Closed
  BY OutsideKeepsUpcalls DEF Outside, Closed
<1>3. \A o \in S : Class(o) = "present" /\ Upcalls(o) = {} /\ Class(o)' = "going"
  BY <1>1, ClassIs, ClassWillBe
<1>4. \A o \in Objects \ S : Class(o)' = Class(o)
  BY ClassStays
<1>5. S \in SUBSET Objects
  OBVIOUS
<1> HIDE DEF S
<1> QED BY <1>2, <1>3, <1>4, <1>5, LifeGivesUp DEF LifeGoesOn

LEMMA MarkGoesOn ==
  ASSUME IInv, NEW j \in Jobs, Mark(j) \/ Drain(j)
  PROVE  LifeGoesOn
<1>1. UNCHANGED <<at, arg, life>>
  BY DEF Mark, Drain, threads
<1>2. \/ \A o \in Objects : \/ entry'[o].st = entry[o].st
                            \/ entry[o].st = "ACTIVE" /\ entry'[o].st = "DEACTIVATING_OA"
      \/ /\ \A t \in Threads : at[t] \notin InsidePhases
         /\ \A o \in Objects : \/ entry'[o] = entry[o]
                               \/ entry[o].st \in Present /\ entry'[o].st = "ETHEREALISING"
  <2>1. CASE Mark(j)
    BY <2>1, MarkKeeps DEF Present
  <2>2. CASE Drain(j)
    BY <2>2, DrainKeeps DEF Present
  <2> QED BY <2>1, <2>2
<1>3. CASE \A o \in Objects : \/ entry'[o].st = entry[o].st
                              \/ entry[o].st = "ACTIVE" /\ entry'[o].st = "DEACTIVATING_OA"
  <2>1. \A o \in Objects : entry'[o].st = entry[o].st
                           \/ (entry[o].st \in Present /\ entry'[o].st \in Present)
    BY <1>3 DEF Present
  <2>2. LifeSame
    BY <2>1, ClassIs, ClassWillBe, ClassStays DEF LifeSame
  <2>3. UpcallsSame /\ Closed' = Closed
    BY <1>1, OutsideKeepsUpcalls DEF Outside, Closed
  <2> QED BY <2>2, <2>3 DEF LifeGoesOn, Serene
<1> QED BY <1>1, <1>2, <1>3, DrainedGoesOn

LEMMA OtherJobGoesOn ==
  ASSUME IInv, NEW j \in Jobs,
         TakeList(j) \/ Etherealised(j) \/ Join(j) \/ \E o \in Objects : Etherealise(j, o)
  PROVE  LifeGoesOn
<1>1. UNCHANGED <<at, arg, life>>
  BY DEF TakeList, Etherealised, Join, Etherealise, threads
<1>2. Outside
  BY <1>1 DEF Outside
<1>3. CASE UNCHANGED entry
  BY <1>1, <1>2, <1>3, ThreadsSerene DEF LifeGoesOn
<1>4. ASSUME NEW o \in Objects, Etherealise(j, o), entry' = [entry EXCEPT ![o] = Dead]
      PROVE  LifeGoesOn
  BY <1>1, <1>2, <1>4, EtherealiseKeeps, OutsideKeepsUpcalls, RemovalGoesOn
<1> QED BY <1>3, <1>4 DEF TakeList, Etherealised, Join, Etherealise, objects

LEMMA DestroyStepGoesOn ==
  ASSUME IInv, DestroyStep
  PROVE  LifeGoesOn
<1> USE Kinds
<1>1. UNCHANGED <<entry, arg>>
  BY DEF DestroyStep, DestroyDiscards, LosePoa, Close, DestroyEnds, objects, threads
<1>2. Outside
  <2>1. CASE UNCHANGED at
    BY <1>1, <2>1 DEF Outside
  <2>2. CASE Release("destroy")
    <3>1. by["destroy"] \in Apps \cup {None}
      BY DEF IInv, Types, JobTypes
    <3>2. \A r \in Callers : at'[r] = at[r]
      BY <2>2, <3>1 DEF Release
    <3> QED BY <1>1, <3>2 DEF Outside
  <2> QED BY <2>1, <2>2 DEF DestroyStep, DestroyDiscards, LosePoa, Close, DestroyEnds, threads
<1>3. LifeSame /\ UpcallsSame
  BY <1>1, <1>2, EntryStays, OutsideKeepsUpcalls
<1>4. CASE DestroyDiscards \/ LosePoa
  BY <1>3, <1>4 DEF DestroyDiscards, LosePoa, Closed, LifeGoesOn, Serene
<1>5. CASE Close
  <2>1. \A o \in Objects : Upcalls(o) = {}
    BY <1>5, CloseKeeps DEF Upcalls
  <2>2. Closed'
    BY <1>5 DEF Close, Closed
  <2> QED BY <1>3, <2>1, <2>2, LifeCloses DEF LifeGoesOn
<1>6. CASE DestroyEnds
  <2>1. Closed /\ Closed'
    BY <1>6, LifeOf DEF DestroyEnds, Closed
  <2> QED BY <1>3, <2>1 DEF LifeGoesOn, Serene, Closed
<1> QED BY <1>4, <1>5, <1>6 DEF DestroyStep

LEMMA OtherStepGoesOn ==
  ASSUME IInv, DeactivateStep \/ QueueStep
  PROVE  LifeGoesOn
<1> USE Kinds
<1>1. UNCHANGED <<arg, life>>
  BY DEF DeactivateStep, PmLeavesIt, Unpretend, SetFlag, Broadcast, QueueStep, QueueTakes,
         QueueDone, QueueMet, threads
<1>2. Outside
  <2>1. CASE UNCHANGED at
    BY <1>1, <2>1 DEF Outside
  <2>2. CASE Broadcast
    <3>1. by["deactivate"] \in Apps \cup {None}
      BY DEF IInv, Types, JobTypes
    <3>2. \A r \in Callers : at[r] # "pm_sleep"
      BY DEF IInv, Placed, CallerPhases
    <3>3. \A r \in Callers : at'[r] = at[r]
      BY <2>2, <3>1, <3>2 DEF Broadcast
    <3> QED BY <1>1, <3>3 DEF Outside
  <2> QED BY <2>1, <2>2 DEF DeactivateStep, PmLeavesIt, Unpretend, SetFlag, QueueStep, QueueTakes,
                            QueueDone, QueueMet, threads
<1>3. CASE UNCHANGED entry
  BY <1>1, <1>2, <1>3, ThreadsSerene DEF LifeGoesOn
<1>4. CASE QueueDone
  BY <1>1, <1>2, <1>4, QueueDoneKeeps, OutsideKeepsUpcalls, RemovalGoesOn
<1> QED BY <1>3, <1>4 DEF DeactivateStep, PmLeavesIt, Unpretend, SetFlag, Broadcast, QueueStep,
                          QueueTakes, QueueMet, objects

LEMMA InitLife == Init => Life!LifeInit
<1> SUFFICES ASSUME Init PROVE Life!LifeInit
  OBVIOUS
<1>1. \A o \in Objects : Class(o) \in {"absent", "present"}
  <2> SUFFICES ASSUME NEW o \in Objects PROVE Class(o) \in {"absent", "present"}
    OBVIOUS
  <2>1. entry[o] = Dead \/ entry[o] = Active
    BY DEF Init
  <2>2. entry[o].st \in Present \/ entry[o].st \in {"none", "ACTIVATING"}
    BY <2>1 DEF Dead, Active, Present
  <2> QED BY <2>2, ClassIs
<1>2. Servants \in [Objects -> {"absent", "present"}]
  BY <1>1 DEF Servants
<1>3. \A o \in Objects : Upcalls(o) = {}
  BY Kinds DEF Init, Upcalls
<1>4. ServantUsers = [o \in Objects |-> {}]
  BY <1>3 DEF ServantUsers
<1>5. Closed = FALSE
  BY DEF Init, Closed
<1> QED BY <1>2, <1>4, <1>5
        DEF Life!LifeInit, Servants, Class, ServantUsers, Upcalls, Closed

LEMMA NextLife == IInv /\ [Next]_vars => [Life!LifeNext]_Life!lifeVars
<1> SUFFICES ASSUME IInv, [Next]_vars
             PROVE  LifeGoesOn
  BY LifeStutters DEF LifeGoesOn, Serene
<1> USE Kinds
<1>1. CASE UNCHANGED vars
  <2>1. UNCHANGED <<at, arg, entry, life>>
    BY <1>1 DEF vars, threads, objects
  <2> QED BY <2>1, ThreadsSerene DEF Outside, LifeGoesOn
<1>2. ASSUME NEW r \in Callers, CallerStep(r) \/ HeldTimesOut(r) PROVE LifeGoesOn
  BY <1>2, HeldGoesOnGoesOn, UpcallReturnsGoesOn, LeaveGoesOn, RetireGoesOn, LocateGoesOn,
     SaCheckGoesOn, SaActivateGoesOn, CallerGoesOn DEF CallerStep
<1>3. ASSUME NEW r \in Callers, NEW o \in Objects, Request(r, o) PROVE LifeGoesOn
  BY <1>3, RequestGoesOn
<1>4. ASSUME NEW a \in Apps, AppStep(a) PROVE LifeGoesOn
  BY <1>4, ActivateGoesOn, RetireGoesOn, AppGoesOn DEF AppStep
<1>5. ASSUME NEW a \in Apps, AppCall(a) PROVE LifeGoesOn
  <2>1. CASE \E o \in Objects : Place(a, o) \/ DeactivateObject(a, o)
    BY <2>1, PlaceGoesOn, DeactivateObjectGoesOn
  <2>2. CASE \/ PmActivate(a) \/ PmDeactivateAgain(a) \/ DestroyAgain(a)
             \/ \E wait \in BOOLEAN : PmStop(a, "HOLDING", wait) \/ PmStop(a, "DISCARDING", wait)
             \/ \E wait \in BOOLEAN, e \in BOOLEAN : PmDeactivate(a, e, wait) \/ Destroy(a, e, wait)
    BY <2>2, AppGoesOn
  <2> QED BY <1>5, <2>1, <2>2 DEF AppCall
<1>6. ASSUME NEW j \in Jobs, JobStep(j) PROVE LifeGoesOn
  BY <1>6, MarkGoesOn, OtherJobGoesOn DEF JobStep
<1> QED BY <1>1, <1>2, <1>3, <1>4, <1>5, <1>6, DestroyStepGoesOn, OtherStepGoesOn DEF Next, OneIdle

-----------------------------------------------------------------------------
(* Theorems. *)

\* Each variable keeps the type of the code's, and no count ever becomes
\* negative, however requests, the application's operations, the manager's
\* deactivation and the POA's destruction overlap (poa.cc, poamanager.cc).
THEOREM TypesHold == Spec => []TypeOK
BY SpecIInv, IInvTypeOK, PTL

\* pd_nReqInThis, pd_nReqActive, pd_nDetachedObjects and pd_nInvocations are at
\* every step the numbers of what they count: on them depend the waits of
\* destroy(), deactivate() and hold_requests() and who etherealises an object.
THEOREM CountsAreExact == Spec => []CountsExact
BY SpecIInv, IInvCountsExact, PTL

\* When destroy() has ended, the object table, the servant activator's queue and
\* the POA's own code are empty of the POA's objects and requests, but for what
\* a deactivation without etherealisation leaves and an activation that will see
\* that the POA is gone.
THEOREM OnlyAbandonedAreLeft == Spec => []OnlyAbandonedLeft
BY SpecIInv, IInvOnlyAbandonedLeft, PTL

\* Every step of the POA is a step of an adapter as its applications know it, or
\* none: a servant is given up only when no upcall is in it, none enters it from
\* then on, and none enters any when the POA appears destroyed (poa.cc:
\* lastInvocationHasCompleted, deactivate_objects, do_destroy).
THEOREM LifeImplemented == Spec => ImplementsObjectLife
BY SpecIInv, InitLife, NextLife, PTL DEF Spec, ImplementsObjectLife, Life!LifeSpec
=============================================================================
