----------------------------- MODULE RemoteCall -----------------------------
(* What a caller may rely on when it invokes a remote object: however often  *)
(* the client retries underneath, the server executes the call at most once; *)
(* a call that ends normally was executed, one that ends with an exception   *)
(* and the status COMPLETED_NO was not and will not be, and one that ends    *)
(* with COMPLETED_MAYBE may yet be.                                          *)
EXTENDS Naturals

CONSTANT Callers

VARIABLES
  phase,      \* of each caller: "out", "in" a call, or how its call has ended
  executed    \* how often the server has executed the call

callVars == <<phase, executed>>

CallInit ==
  /\ phase = [c \in Callers |-> "out"]
  /\ executed = [c \in Callers |-> 0]

Invoke(c) ==
  /\ phase[c] = "out"
  /\ phase' = [phase EXCEPT ![c] = "in"]
  /\ UNCHANGED executed

Execute(c) ==
  /\ phase[c] \in {"in", "maybe"} /\ executed[c] = 0
  /\ executed' = [executed EXCEPT ![c] = 1]
  /\ UNCHANGED phase

Finish(c) ==
  /\ phase[c] = "in"
  /\ \/ executed[c] = 1 /\ phase' = [phase EXCEPT ![c] = "ok"]
     \/ executed[c] = 0 /\ phase' = [phase EXCEPT ![c] = "no"]
     \/ phase' = [phase EXCEPT ![c] = "maybe"]
  /\ UNCHANGED executed

\* A call that has done nothing yet may also fail at once.
Return(c) ==
  /\ \/ phase[c] \in {"ok", "no", "maybe"}
     \/ phase[c] = "in" /\ executed[c] = 0
  /\ phase' = [phase EXCEPT ![c] = "out"]
  /\ executed' = [executed EXCEPT ![c] = 0]

CallNext == \E c \in Callers : Invoke(c) \/ Execute(c) \/ Finish(c) \/ Return(c)

CallSpec == CallInit /\ [][CallNext]_callVars
=============================================================================
