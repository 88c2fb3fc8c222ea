--------------------------- MODULE MCAsyncInvoker ---------------------------
(* Instances of AsyncInvoker for TLC. *)
EXTENDS AsyncInvoker

CONSTANTS server, general, a1, a2, a3, i1, i2, d1, d2

\* Every pool at its smallest limit, where each passage of it is seen.
MaxOne == [p \in Pools |-> 1]

Category ==
  [t \in Tasks |->
     IF t \in {a1, a2, a3} THEN "AnyTime"
     ELSE IF t \in {i1, i2} THEN "ImmediateDispatch" ELSE "DedicatedThread"]

AllServer == [t \in Tasks |-> server]

\* a2 in the general pool, as the scavenger and the rendezvousers are beside the
\* upcalls; the other tasks in the server pool.
Mixed == [t \in Tasks |-> IF t = a2 THEN general ELSE server]
=============================================================================
