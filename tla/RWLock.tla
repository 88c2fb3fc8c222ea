------------------------------- MODULE RWLock -------------------------------
(* What a readers/writer lock promises its callers: any number of readers,   *)
(* or one writer and nobody else. ReadersWritersLock is shown to implement   *)
(* it, and OmniNames takes its lock from here, so that the naming service is *)
(* modelled over the promise and not over the counter that keeps it.         *)

CONSTANT Threads

VARIABLE mode          \* what each thread holds: "none", "read" or "write"

Modes == {"none", "read", "write"}

RWTypeOK == mode \in [Threads -> Modes]

RWInit == mode = [t \in Threads |-> "none"]

ReadLock(t) ==
  /\ mode[t] = "none"
  /\ \A u \in Threads : mode[u] # "write"
  /\ mode' = [mode EXCEPT ![t] = "read"]

WriteLock(t) ==
  /\ \A u \in Threads : mode[u] = "none"
  /\ mode' = [mode EXCEPT ![t] = "write"]

Unlock(t) ==
  /\ mode[t] # "none"
  /\ mode' = [mode EXCEPT ![t] = "none"]

RWNext == \E t \in Threads : ReadLock(t) \/ WriteLock(t) \/ Unlock(t)

RWSpec == RWInit /\ [][RWNext]_mode
=============================================================================
