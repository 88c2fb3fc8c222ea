------------------------------ MODULE ObjectLife ------------------------------
(* What an object adapter promises of its objects: a servant is there while  *)
(* a call is inside it, it is given up only when no call is left, and once   *)
(* the adapter is closed no call enters a servant any more.                  *)
CONSTANTS Objects, Callers

VARIABLES
  servant,       \* of each object: "absent", "present", "going"
  users,         \* the calls inside each object's servant
  closed         \* the adapter appears destroyed

lifeVars == <<servant, users, closed>>

LifeInit ==
  /\ servant \in [Objects -> {"absent", "present"}]
  /\ users = [o \in Objects |-> {}]
  /\ closed = FALSE

Arrive(o) ==
  /\ servant[o] = "absent" /\ ~closed
  /\ servant' = [servant EXCEPT ![o] = "present"]

\* A servant that arrives too late to be used.
ArriveLate(o) ==
  /\ servant[o] = "absent" /\ ~closed
  /\ servant' = [servant EXCEPT ![o] = "going"]
  /\ UNCHANGED <<users, closed>>

Enter(r, o) ==
  /\ ~closed /\ \A p \in Objects : r \notin users[p]
  /\ users' = [users EXCEPT ![o] = @ \cup {r}]
  /\ UNCHANGED closed

Exit(r, o) ==
  /\ r \in users[o]
  /\ users' = [users EXCEPT ![o] = @ \ {r}]
  /\ UNCHANGED <<servant, closed>>

GiveUp(S) ==
  /\ \A o \in S : servant[o] = "present" /\ users[o] = {}
  /\ servant' = [o \in Objects |-> IF o \in S THEN "going" ELSE servant[o]]
  /\ UNCHANGED <<users, closed>>

Remove(o) ==
  /\ servant[o] = "going"
  /\ servant' = [servant EXCEPT ![o] = "absent"]
  /\ UNCHANGED <<users, closed>>

Close ==
  /\ \A o \in Objects : users[o] = {}
  /\ closed' = TRUE
  /\ UNCHANGED <<servant, users>>

LifeNext ==
  \/ \E o \in Objects : Arrive(o) /\ UNCHANGED <<users, closed>>
  \/ \E o \in Objects : ArriveLate(o) \/ Remove(o)
  \/ \E r \in Callers, o \in Objects :
       \/ servant[o] = "present" /\ Enter(r, o) /\ UNCHANGED servant
       \/ Arrive(o) /\ Enter(r, o)
       \/ Exit(r, o)
  \/ \E S \in SUBSET Objects : GiveUp(S)
  \/ Close

LifeSpec == LifeInit /\ [][LifeNext]_lifeVars
=============================================================================
