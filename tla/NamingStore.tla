----------------------------- MODULE NamingStore -----------------------------
(* What omniNames promises of its naming graph: it is kept over restarts,    *)
(* only the operations clients call change it, one at a time, and what is    *)
(* served is what is kept. graph is what a restart would give; view is what  *)
(* the running service serves, None while it does not run. Nothing is lost   *)
(* but as a whole, while the service does not run and is exposed.            *)
EXTENDS NamingGraph

VARIABLES graph, view,
          exposed      \* the next start may lose all; when, is left open here

storeVars == <<graph, view>>

StoreInit == graph = EmptyGraph /\ view = None

\* The first start makes the root context.
Found ==
  /\ graph = EmptyGraph /\ view = None
  /\ graph' = [EmptyGraph EXCEPT !.live = {Root}]
  /\ UNCHANGED view

\* A change is kept before it is served.
Keep(r) ==
  /\ view = graph
  /\ Accepted(graph, r)
  /\ graph' = [live |-> LiveAfter(graph.live, r),
               bound |-> BoundAfter(graph.bound, r)]
  /\ view' = IF r.kind = "destroy" THEN graph' ELSE view

\* A start serves what was kept; so does the end of an operation.
Serve == graph # EmptyGraph /\ view' = graph /\ UNCHANGED graph

Stop == view' = None /\ UNCHANGED graph

\* The next start is a first start.
Lose == exposed /\ view = None /\ graph' = EmptyGraph /\ UNCHANGED view

StoreNext == \/ Found \/ Serve \/ Stop \/ Lose
             \/ \E r \in Records : Keep(r)

StoreSpec == StoreInit /\ [][StoreNext]_storeVars
=============================================================================
