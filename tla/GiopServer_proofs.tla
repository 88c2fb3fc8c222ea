--------------------------- MODULE GiopServer_proofs ---------------------------
(***************************************************************************)
(* Proofs about GiopServer, for any finite sets of connections and of      *)
(* workers and any limits and bounds.                                      *)
(*                                                                         *)
(* None of the properties is inductive by itself. That the references of a *)
(* connection are right rests on who may still use the strand: safeDelete()*)
(* leaves the strand's reference to the last that gives back its GIOP_S or *)
(* wakes up for the read lock, so that there are two references until a    *)
(* deletion is pending and nobody uses the strand, and then one, the       *)
(* table's. A worker that sleeps for the read lock does not ask again      *)
(* whether a deletion is pending; it finds the strand DYING when it reads, *)
(* which is why a pending connection with a user has to be DYING. Whoever  *)
(* comes to removeConnectionAndWorker() comes with a deletion pending, so  *)
(* the last one there leaves one reference for DeleteState. That the last  *)
(* one is the one that finds pd_n_workers = 1 rests on the counters being  *)
(* exact, and what stop() leaves behind rests on them too: deactivate()    *)
(* waits for the counters and not for the threads (Stopping).              *)
(* Of the endpoint only EndpointStays can be said: no stop() makes it      *)
(* forget that it was poked, so a rendezvouser may go while ACTIVE.        *)
(*                                                                         *)
(* Steps of a worker that goes on with its connection are treated by one   *)
(* lemma, GoesOnKeeps, with what is common to most of them in PlainStep,   *)
(* Moves and Retouches; LeavesKeeps and JoinKeeps are about workers that   *)
(* end and start, and AllAlikeKeeps about the steps of the others.         *)
(***************************************************************************)
EXTENDS GiopServer, FiniteSetTheorems, FunctionTheorems, TLAPS

ReadPlaces == {"reading", "read", "cancelled", "broken", "selecting", "ending"}
ServePlaces == ReadPlaces \cup {"upcall", "replied", "failed"}
UsePlaces == ServePlaces \cup {"sleeping"}
LostPlaces == {"error", "clearing", "removing"}
LivePlaces == Places \ {"none", "deleting"}

\* The types, and where the rendezvouser has a connection in its hands.
Types ==
  /\ policy \in BOOLEAN /\ upperLimit \in Nat /\ threadPer \in {FALSE, policy}
  /\ state \in {"IDLE", "ACTIVE", "INFLUX", "TIMEDOUT"}
  /\ stage \in {"none", "dedicated", "rendezvousers", "temporary"}
  /\ (stage = "none") = (state # "INFLUX")
  /\ timedOut \in BOOLEAN
  /\ conn \in [Connections -> ConnectionType]
  /\ worker \in [Workers -> WorkerType]
  /\ rendezvouser \in {"none", "select", "accepted", "insert"}
  /\ fresh \in Connections \cup {None} /\ toNotify \subseteq Connections
  /\ rendezvouser \in {"accepted", "insert"} => fresh \in Connections

\* The counters of the server are those of its threads.
LiveOn(c) == {w \in Workers : worker[w].conn = c /\ worker[w].at \in LivePlaces}
CountsServer ==
  nTemporary = Cardinality(Temporary) /\ nDedicated = Cardinality(Dedicated)
CountsOf(c) == conn[c].n_workers = Cardinality(LiveOn(c))

\* A worker that is none has no connection, and only that.
Employed == \A w \in Workers : worker[w].at = "none" <=> worker[w].conn = None

InUse(c) == \E w \in Workers : worker[w].conn = c /\ worker[w].at \in UsePlaces
Unharmed(c) == ~conn[c].pending /\ ~conn[c].dying
Accepted(c) == rendezvouser = "accepted" /\ fresh = c

\* A connection in the table: the strand's reference is given up when it is
\* pending and nobody has its GIOP_S, and whoever meets an error finds it pending.
InTable(c) == conn[c].known =>
  /\ ~Accepted(c)
  /\ conn[c].refs = IF conn[c].pending /\ ~InUse(c) THEN 1 ELSE 2
  /\ conn[c].pending /\ InUse(c) => conn[c].strand = "DYING"
  /\ \A w \in Workers : worker[w].conn = c =>
       /\ worker[w].at \in LivePlaces
       /\ ~conn[c].checked => worker[w].at \in {"start"} \cup LostPlaces
       /\ worker[w].at \in LostPlaces => conn[c].pending
       /\ worker[w].at \in {"failed", "broken"} => conn[c].strand = "DYING"
       /\ ~worker[w].singleshot => conn[c].dedicated

\* A connection that is not: it is new, being deleted, or deleted.
OffTable(c) == ~conn[c].known =>
  /\ \A w \in Workers : worker[w].conn = c =>
       /\ worker[w].at = "deleting" /\ conn[c].refs = 1 /\ ~Accepted(c)
       /\ \A v \in Workers : worker[v].conn = c => v = w
  /\ (\A w \in Workers : worker[w].conn # c) =>
       Unharmed(c) /\ conn[c].refs = IF Accepted(c) THEN 1 ELSE 0

OneReads(c) == \A v \in Workers, w \in Workers :
  /\ worker[v].conn = c /\ worker[v].at \in ReadPlaces
  /\ worker[w].conn = c /\ worker[w].at \in ReadPlaces
  => v = w

Noticed(c) == conn[c].known /\ conn[c].dying => conn[c].n_workers > 0

ConnectionOK(c) == CountsOf(c) /\ InTable(c) /\ OffTable(c) /\ OneReads(c) /\ Noticed(c)
ConnectionsOK == \A c \in Connections : ConnectionOK(c)

\* How far start() and stop() are, and what is over by then.
Stopping ==
  /\ state = "INFLUX" => \A c \in Connections :
       conn[c].known /\ conn[c].dedicated => conn[c].link = "shut"
  /\ stage \in {"rendezvousers", "temporary"} /\ ~timedOut => nDedicated = 0
  /\ stage = "temporary" =>
       /\ \A c \in Connections : conn[c].known => conn[c].link = "shut"
       /\ ~timedOut => rendezvouser = "none"
  /\ state = "IDLE" =>
       /\ rendezvouser = "none"
       /\ \A c \in Connections : conn[c].known => conn[c].link = "shut"
       /\ \A w \in Workers : worker[w].at \in {"none", "deleting"}

IInv == Types /\ CountsServer /\ Employed /\ ConnectionsOK /\ Stopping

-----------------------------------------------------------------------------
(* Threads and their counters. *)

LEMMA Staff ==
  /\ None \notin Connections
  /\ NoWorker \in WorkerType /\ NoWorker.at = "none" /\ NoWorker.conn = None
  /\ \A c \in Connections, single \in BOOLEAN :
       /\ Start(c, single) \in WorkerType /\ Start(c, single).at = "start"
       /\ Start(c, single).conn = c /\ Start(c, single).singleshot = single
BY ObjectsAssumption DEF NoWorker, WorkerType, Places, Start

\* What a worker's step does to the others.
OthersStay(w) == \A v \in Workers : v # w => worker'[v] = worker[v]
StaffSame(c) == \A v \in Workers :
  worker[v].conn = c \/ worker'[v].conn = c => worker'[v] = worker[v]

LEMMA CountsAreNat ==
  /\ IsFiniteSet(Temporary) /\ Cardinality(Temporary) \in Nat
  /\ IsFiniteSet(Dedicated) /\ Cardinality(Dedicated) \in Nat
  /\ \A c : IsFiniteSet(LiveOn(c)) /\ Cardinality(LiveOn(c)) \in Nat
<1>1. \A S \in SUBSET Workers : IsFiniteSet(S) /\ Cardinality(S) \in Nat
  BY FiniteAssumption, FS_Subset, FS_CardinalityType
<1>2. Temporary \in SUBSET Workers /\ Dedicated \in SUBSET Workers
  BY DEF Temporary, Dedicated
<1>3. \A c : LiveOn(c) \in SUBSET Workers
  BY DEF LiveOn
<1> QED BY <1>1, <1>2, <1>3

\* A worker that goes on with the same connection changes no count.
LEMMA SameStaff ==
  ASSUME NEW w \in Workers, OthersStay(w), worker[w].at \in LivePlaces,
         worker'[w].at \in LivePlaces, worker'[w].singleshot = worker[w].singleshot,
         worker'[w].conn = worker[w].conn
  PROVE  /\ Temporary' = Temporary /\ Dedicated' = Dedicated
         /\ \A c : LiveOn(c)' = LiveOn(c)
BY DEF OthersStay, Temporary, Dedicated, LiveOn, LivePlaces

\* One that begins to work for a connection, alone of those that do.
LEMMA OneStarts ==
  ASSUME NEW w \in Workers, OthersStay(w), worker[w].at = "none", worker[w].conn = None,
         NEW c \in Connections, NEW single \in BOOLEAN, worker'[w] = Start(c, single)
  PROVE  /\ Cardinality(Temporary)' = Cardinality(Temporary) + (IF single THEN 1 ELSE 0)
         /\ Cardinality(Dedicated)' = Cardinality(Dedicated) + (IF single THEN 0 ELSE 1)
         /\ Cardinality(LiveOn(c))' = Cardinality(LiveOn(c)) + 1
         /\ \A d \in Connections : d # c => LiveOn(d)' = LiveOn(d)
<1>1. /\ worker'[w].at = "start" /\ worker'[w].conn = c /\ worker'[w].singleshot = single
      /\ None # c
  BY Staff
<1>2. LiveOn(c)' = LiveOn(c) \cup {w} /\ w \notin LiveOn(c)
  BY <1>1 DEF OthersStay, LiveOn, LivePlaces, Places
<1>3. \A d \in Connections : d # c => LiveOn(d)' = LiveOn(d)
  BY <1>1, Staff DEF OthersStay, LiveOn
<1>4. /\ Temporary' = IF single THEN Temporary \cup {w} ELSE Temporary
      /\ Dedicated' = IF single THEN Dedicated ELSE Dedicated \cup {w}
      /\ w \notin Temporary /\ w \notin Dedicated
  BY <1>1 DEF OthersStay, Temporary, Dedicated
<1>5. Cardinality(LiveOn(c) \cup {w}) = Cardinality(LiveOn(c)) + 1
  BY <1>2, CountsAreNat, FS_AddElement
<1>6. /\ Cardinality(Temporary \cup {w}) = Cardinality(Temporary) + 1
      /\ Cardinality(Dedicated \cup {w}) = Cardinality(Dedicated) + 1
  BY <1>4, CountsAreNat, FS_AddElement
<1> QED BY <1>2, <1>3, <1>4, <1>5, <1>6, CountsAreNat

\* One that ceases to, or has only the connection to delete.
LEMMA OneEnds ==
  ASSUME NEW w \in Workers, OthersStay(w), worker[w].at \in LivePlaces,
         NEW c, worker[w].conn = c, worker[w].singleshot \in BOOLEAN,
         worker'[w].at \in {"none", "deleting"}
  PROVE  /\ Cardinality(Temporary)'
              = Cardinality(Temporary) - (IF worker[w].singleshot THEN 1 ELSE 0)
         /\ Cardinality(Dedicated)'
              = Cardinality(Dedicated) - (IF worker[w].singleshot THEN 0 ELSE 1)
         /\ Cardinality(LiveOn(c))' = Cardinality(LiveOn(c)) - 1
         /\ \A d : d # c => LiveOn(d)' = LiveOn(d)
<1>1. LiveOn(c)' = LiveOn(c) \ {w} /\ w \in LiveOn(c)
  BY DEF OthersStay, LiveOn, LivePlaces
<1>2. \A d : d # c => LiveOn(d)' = LiveOn(d)
  BY DEF OthersStay, LiveOn, LivePlaces
<1>3. Cardinality(LiveOn(c) \ {w}) = Cardinality(LiveOn(c)) - 1
  BY <1>1, CountsAreNat, FS_RemoveElement
<1>4. CASE worker[w].singleshot
  <2>1. Temporary' = Temporary \ {w} /\ w \in Temporary /\ Dedicated' = Dedicated
    BY <1>4 DEF OthersStay, Temporary, Dedicated, LivePlaces
  <2>2. Cardinality(Temporary \ {w}) = Cardinality(Temporary) - 1
    BY <2>1, CountsAreNat, FS_RemoveElement
  <2> QED BY <1>1, <1>2, <1>3, <1>4, <2>1, <2>2, CountsAreNat
<1>5. CASE ~worker[w].singleshot
  <2>1. Dedicated' = Dedicated \ {w} /\ w \in Dedicated /\ Temporary' = Temporary
    BY <1>5 DEF OthersStay, Temporary, Dedicated, LivePlaces
  <2>2. Cardinality(Dedicated \ {w}) = Cardinality(Dedicated) - 1
    BY <2>1, CountsAreNat, FS_RemoveElement
  <2> QED BY <1>1, <1>2, <1>3, <1>5, <2>1, <2>2, CountsAreNat
<1> QED BY <1>4, <1>5

\* A worker that has ended already is counted nowhere.
LEMMA SameWithoutEnded ==
  ASSUME NEW w \in Workers, OthersStay(w), worker[w].at = "deleting", worker'[w].at = "none"
  PROVE  /\ Temporary' = Temporary /\ Dedicated' = Dedicated
         /\ \A c : LiveOn(c)' = LiveOn(c)
BY DEF OthersStay, Temporary, Dedicated, LiveOn, LivePlaces

-----------------------------------------------------------------------------
(* Connections that a step leaves alone. *)

Alike(c) == /\ conn'[c].refs = conn[c].refs /\ conn'[c].known = conn[c].known
            /\ conn'[c].dedicated = conn[c].dedicated /\ conn'[c].dying = conn[c].dying
            /\ conn'[c].n_workers = conn[c].n_workers
            /\ conn[c].strand = "DYING" => conn'[c].strand = "DYING"
            /\ conn'[c].pending = conn[c].pending /\ conn'[c].checked = conn[c].checked

LEMMA AlikeKeeps ==
  ASSUME NEW c \in Connections, ConnectionOK(c), Alike(c), StaffSame(c),
         Accepted(c)' <=> Accepted(c)
  PROVE  ConnectionOK(c)'
<1> USE DEF ConnectionOK, Alike
<1>1. \A v \in Workers : worker'[v].conn = c <=> worker[v].conn = c
  BY DEF StaffSame
<1>2. \A v \in Workers : worker[v].conn = c => worker'[v] = worker[v]
  BY DEF StaffSame
<1>3. LiveOn(c)' = LiveOn(c)
  BY <1>1, <1>2 DEF LiveOn
<1>4. CountsOf(c)' /\ Noticed(c)'
  BY <1>3 DEF CountsOf, Noticed
<1>5. InUse(c)' <=> InUse(c)
  BY <1>1, <1>2 DEF InUse
<1>6. InTable(c)'
  BY <1>1, <1>2, <1>5 DEF InTable
<1>7. OneReads(c)'
  BY <1>1, <1>2 DEF OneReads
<1>8. OffTable(c)'
  BY <1>1, <1>2 DEF OffTable, Unharmed
<1> QED BY <1>4, <1>6, <1>7, <1>8


-----------------------------------------------------------------------------
(* Steps of a worker. *)

\* What is known of a worker's connection.
LEMMA AtWork ==
  ASSUME IInv, NEW w \in Workers, worker[w].at \in LivePlaces
  PROVE  /\ worker[w].conn \in Connections /\ worker[w].singleshot \in BOOLEAN
         /\ conn[worker[w].conn] \in ConnectionType
         /\ conn[worker[w].conn].known /\ ConnectionOK(worker[w].conn)
         /\ state # "IDLE"
<1> USE DEF IInv
<1>1. worker[w] \in WorkerType /\ worker[w].conn # None
  BY DEF Types, Employed, LivePlaces
<1>2. worker[w].conn \in Connections /\ worker[w].singleshot \in BOOLEAN
  BY <1>1 DEF WorkerType
<1>3. ConnectionOK(worker[w].conn) /\ conn[worker[w].conn] \in ConnectionType
  BY <1>2 DEF ConnectionsOK, Types
<1>4. conn[worker[w].conn].known
  <2>1. conn[worker[w].conn].known \in BOOLEAN
    BY <1>3 DEF ConnectionType
  <2> QED BY <1>2, <1>3, <2>1 DEF ConnectionOK, OffTable, LivePlaces
<1>5. state # "IDLE"
  BY DEF Stopping, LivePlaces
<1> QED BY <1>2, <1>3, <1>4, <1>5

LEMMA UseOf ==
  ASSUME NEW w \in Workers, OthersStay(w), NEW c, worker[w].conn = c, worker'[w].conn = c
  PROVE  /\ InUse(c)' <=> \/ worker'[w].at \in UsePlaces
                          \/ \E v \in Workers : v # w /\ worker[v].conn = c
                                                /\ worker[v].at \in UsePlaces
         /\ (worker[w].at \in UsePlaces <=> worker'[w].at \in UsePlaces)
              => (InUse(c)' <=> InUse(c))
BY DEF OthersStay, InUse

\* A worker of c goes on at place with its connection, which becomes x.
GoesOn(w, c, place, x) ==
  /\ worker[w].conn = c /\ worker[w].at \in LivePlaces /\ place \in LivePlaces
  /\ Goes(w, place) /\ x \in ConnectionType /\ conn' = [conn EXCEPT ![c] = x]
  /\ UNCHANGED <<serverVars, counters, rzVars>>
  /\ x.known = conn[c].known /\ x.dedicated = conn[c].dedicated
  /\ x.n_workers = conn[c].n_workers
  /\ conn[c].link = "shut" => x.link = "shut"
  /\ conn[c].checked => x.checked
  /\ conn[c].pending => x.pending
  /\ conn[c].strand = "DYING" => x.strand = "DYING"

\* What x is to agree with, then.
Fits(w, c, place, x) ==
  /\ x.refs = IF x.pending /\ ~InUse(c)' THEN 1 ELSE 2
  /\ x.pending /\ InUse(c)' => x.strand = "DYING"
  /\ x.checked \/ place \in {"start"} \cup LostPlaces
  /\ place \in LostPlaces => x.pending
  /\ place \in {"failed", "broken"} => x.strand = "DYING"
  /\ place \in ReadPlaces =>
       \A v \in Workers : v # w /\ worker[v].conn = c => worker[v].at \notin ReadPlaces

LEMMA GoesOnKeeps ==
  ASSUME IInv, NEW w \in Workers, NEW c \in Connections, NEW place, NEW x,
         GoesOn(w, c, place, x), Fits(w, c, place, x)
  PROVE  IInv'
<1>0. /\ worker[w].conn = c /\ worker[w].at \in LivePlaces /\ place \in LivePlaces
      /\ Goes(w, place) /\ x \in ConnectionType /\ conn' = [conn EXCEPT ![c] = x]
      /\ UNCHANGED <<serverVars, counters, rzVars>>
      /\ x.known = conn[c].known /\ x.dedicated = conn[c].dedicated
      /\ x.n_workers = conn[c].n_workers
      /\ conn[c].link = "shut" => x.link = "shut"
      /\ conn[c].checked => x.checked
      /\ conn[c].pending => x.pending
      /\ conn[c].strand = "DYING" => x.strand = "DYING"
      /\ x.refs = IF x.pending /\ ~InUse(c)' THEN 1 ELSE 2
      /\ x.pending /\ InUse(c)' => x.strand = "DYING"
      /\ x.checked \/ place \in {"start"} \cup LostPlaces
      /\ place \in LostPlaces => x.pending
      /\ place \in {"failed", "broken"} => x.strand = "DYING"
      /\ place \in ReadPlaces =>
           \A v \in Workers : v # w /\ worker[v].conn = c => worker[v].at \notin ReadPlaces
  BY DEF GoesOn, Fits
<1> USE <1>0 DEF IInv
<1>1. /\ worker \in [Workers -> WorkerType] /\ conn \in [Connections -> ConnectionType]
      /\ ConnectionOK(c) /\ conn[c].known /\ state # "IDLE"
  BY AtWork DEF Types
<1>2. /\ worker' = [worker EXCEPT ![w].at = place]
      /\ worker'[w].at = place /\ worker'[w].conn = c /\ OthersStay(w)
      /\ worker'[w].singleshot = worker[w].singleshot
  BY <1>1 DEF Goes, OthersStay, WorkerType
<1>3. worker' \in [Workers -> WorkerType]
  BY <1>1, <1>2 DEF WorkerType, LivePlaces
<1>4. conn' \in [Connections -> ConnectionType] /\ conn'[c] = x
      /\ \A d \in Connections : d # c => conn'[d] = conn[d]
  BY <1>1
<1>5. Types'
  BY <1>3, <1>4 DEF Types, serverVars, params, rzVars
<1>6. /\ Temporary' = Temporary /\ Dedicated' = Dedicated
      /\ \A d : LiveOn(d)' = LiveOn(d)
  BY <1>2, SameStaff
<1>7. CountsServer' /\ Employed'
  <2>1. CountsServer'
    BY <1>6 DEF CountsServer, counters
  <2> QED BY <1>2, <2>1, Staff DEF Employed, OthersStay, LivePlaces
<1>8. \A d \in Connections : Accepted(d)' <=> Accepted(d)
  BY DEF Accepted, rzVars
<1>9. ASSUME NEW d \in Connections, d # c PROVE ConnectionOK(d)'
  <2>1. StaffSame(d)
    BY <1>2, <1>9 DEF StaffSame, OthersStay
  <2>2. Alike(d)
    BY <1>4, <1>9 DEF Alike
  <2> QED BY <1>8, <2>1, <2>2, AlikeKeeps DEF ConnectionsOK
<1>10. ConnectionOK(c)'
  <2> USE <1>1 DEF ConnectionOK
  <2>1. CountsOf(c)'
    BY <1>4, <1>6 DEF CountsOf
  <2>2. InTable(c)'
    <3>1. \A v \in Workers : worker'[v].conn = c => v = w \/ (v # w /\ worker'[v] = worker[v])
      BY <1>2 DEF OthersStay
    <3>2. ASSUME NEW v \in Workers, worker'[v].conn = c
          PROVE  /\ worker'[v].at \in LivePlaces
                 /\ ~x.checked => worker'[v].at \in {"start"} \cup LostPlaces
                 /\ worker'[v].at \in LostPlaces => x.pending
                 /\ worker'[v].at \in {"failed", "broken"} => x.strand = "DYING"
                 /\ ~worker'[v].singleshot => x.dedicated
      BY <1>2, <3>1, <3>2 DEF InTable
    <3> QED BY <1>4, <1>8, <3>2 DEF InTable
  <2>3. OffTable(c)'
    BY <1>4 DEF OffTable
  <2>4. OneReads(c)'
    <3> SUFFICES ASSUME NEW u \in Workers, NEW v \in Workers,
                        worker'[u].conn = c, worker'[u].at \in ReadPlaces,
                        worker'[v].conn = c, worker'[v].at \in ReadPlaces
                 PROVE  u = v
      BY DEF OneReads
    <3> QED BY <1>2 DEF OneReads, OthersStay
  <2>5. Noticed(c)'
    <3>1. w \in LiveOn(c)
      BY DEF LiveOn
    <3>2. Cardinality(LiveOn(c)) > 0
      BY <3>1, CountsAreNat, FS_EmptySet
    <3> QED BY <1>4, <3>2 DEF Noticed, CountsOf
  <2> QED BY <2>1, <2>2, <2>3, <2>4, <2>5
<1>11. Stopping'
  <2>1. \A d \in Connections :
          /\ conn'[d].known = conn[d].known /\ conn'[d].dedicated = conn[d].dedicated
          /\ conn[d].link = "shut" => conn'[d].link = "shut"
    BY <1>4
  <2> QED BY <1>1, <2>1 DEF Stopping, serverVars, rzVars, counters
<1> QED BY <1>5, <1>7, <1>9, <1>10, <1>11 DEF ConnectionsOK

\* A step that gives up no reference, and by which the worker neither begins nor
\* ceases to use the strand.
PlainStep(w, c, place, x) ==
  /\ x.refs = conn[c].refs /\ x.pending = conn[c].pending
  /\ worker[w].at \in UsePlaces <=> place \in UsePlaces
  /\ \/ worker[w].at \notin {"start"} \cup LostPlaces
     \/ x.checked
     \/ place \in {"start"} \cup LostPlaces
  /\ place \in LostPlaces => worker[w].at \in LostPlaces \/ conn[c].pending
  /\ place \in {"failed", "broken"} => x.strand = "DYING"
  /\ place \in ReadPlaces => worker[w].at \in ReadPlaces \/ Reading(c) = {}

LEMMA PlainStepKeeps ==
  ASSUME IInv, NEW w \in Workers, NEW c \in Connections, NEW place, NEW x,
         GoesOn(w, c, place, x), PlainStep(w, c, place, x)
  PROVE  IInv'
<1> USE DEF PlainStep
<1>1. /\ worker \in [Workers -> WorkerType] /\ worker[w].conn = c
      /\ conn[c].known /\ InTable(c) /\ OneReads(c)
  BY AtWork DEF IInv, Types, ConnectionOK, GoesOn
<1>2. worker'[w].at = place /\ worker'[w].conn = c /\ OthersStay(w)
  BY <1>1 DEF Goes, OthersStay, WorkerType, GoesOn
<1>3. InUse(c)' <=> InUse(c)
  BY <1>1, <1>2, UseOf
<1>4. x.refs = IF x.pending /\ ~InUse(c)' THEN 1 ELSE 2
  BY <1>1, <1>3 DEF InTable
<1>5. x.pending /\ InUse(c)' => x.strand = "DYING"
  BY <1>1, <1>3 DEF InTable, GoesOn
<1>6. x.checked \/ place \in {"start"} \cup LostPlaces
  <2>1. worker[w].at \notin {"start"} \cup LostPlaces => conn[c].checked
    BY <1>1 DEF InTable
  <2> QED BY <2>1 DEF GoesOn
<1>7. place \in LostPlaces => x.pending
  BY <1>1 DEF InTable
<1>8. place \in ReadPlaces =>
        \A v \in Workers : v # w /\ worker[v].conn = c => worker[v].at \notin ReadPlaces
  <2>1. ASSUME NEW v \in Workers, worker[v].conn = c, worker[v].at \in ReadPlaces
        PROVE  v \in Reading(c)
    BY <2>1 DEF Reading, On, ReadPlaces
  <2> QED BY <1>1, <2>1 DEF OneReads
<1>9. Fits(w, c, place, x)
  BY <1>4, <1>5, <1>6, <1>7, <1>8 DEF Fits
<1> QED BY <1>9, GoesOnKeeps

\* The same when the connection stays as it is.
Moves(w, place) ==
  /\ worker[w].at \in LivePlaces /\ place \in LivePlaces
  /\ Goes(w, place) /\ UNCHANGED <<serverVars, counters, conn, rzVars>>
  /\ worker[w].at \in UsePlaces <=> place \in UsePlaces
  /\ worker[w].at \notin {"start"} \cup LostPlaces
  /\ place \in LostPlaces => conn[worker[w].conn].pending
  /\ place \notin {"failed", "broken"}
  /\ place \in ReadPlaces => worker[w].at \in ReadPlaces \/ Reading(worker[w].conn) = {}

LEMMA MovesKeeps ==
  ASSUME IInv, NEW w \in Workers, NEW place, Moves(w, place)
  PROVE  IInv'
<1>1. PICK c \in Connections : worker[w].conn = c /\ conn[c] \in ConnectionType
  BY AtWork DEF Moves
<1>2. PICK x : x = conn[c]
  OBVIOUS
<1>3. conn' = [conn EXCEPT ![c] = x]
  BY <1>2 DEF IInv, Types, Moves
<1>4. GoesOn(w, c, place, x) /\ PlainStep(w, c, place, x)
  BY <1>1, <1>2, <1>3 DEF GoesOn, PlainStep, Moves
<1> QED BY <1>4, PlainStepKeeps

LEMMA GatekeeperPassesKeeps ==
  ASSUME IInv, NEW w \in Workers, GatekeeperPasses(w)
  PROVE  IInv'
<1>1. worker[w].at = "start" /\ worker[w].at \in LivePlaces /\ "acquire" \in LivePlaces
  BY DEF GatekeeperPasses, LivePlaces, Places
<1>2. PICK c \in Connections : worker[w].conn = c /\ conn[c] \in ConnectionType
  BY <1>1, AtWork
<1>3. PICK x : x = [conn[c] EXCEPT !.checked = TRUE]
  OBVIOUS
<1>4. /\ x \in ConnectionType /\ x.checked /\ x.known = conn[c].known
      /\ x.dedicated = conn[c].dedicated /\ x.n_workers = conn[c].n_workers
      /\ x.pending = conn[c].pending /\ x.refs = conn[c].refs
      /\ x.link = conn[c].link /\ x.strand = conn[c].strand
  BY <1>2, <1>3 DEF ConnectionType
<1>5. /\ conn' = [conn EXCEPT ![c] = x] /\ Goes(w, "acquire")
      /\ UNCHANGED <<serverVars, counters, rzVars>>
  BY <1>2, <1>3 DEF GatekeeperPasses, UnchangedByStep
<1>6. GoesOn(w, c, "acquire", x)
  BY <1>1, <1>2, <1>4, <1>5 DEF GoesOn
<1>7. PlainStep(w, c, "acquire", x)
  BY <1>1, <1>4 DEF PlainStep, UsePlaces, ServePlaces, ReadPlaces, LostPlaces
<1> QED BY <1>6, <1>7, PlainStepKeeps

LEMMA AcquireServerKeeps ==
  ASSUME IInv, NEW w \in Workers, AcquireServer(w)
  PROVE  IInv'
<1> USE DEF LivePlaces, Places, UsePlaces, ServePlaces, ReadPlaces, LostPlaces
<1>1. /\ worker[w].at = "acquire" /\ worker[w].at \in LivePlaces /\ conn' = conn
      /\ UNCHANGED <<serverVars, counters, rzVars>>
  BY DEF AcquireServer, UnchangedByStep
<1>2. PICK c \in Connections :
        worker[w].conn = c /\ conn[c] \in ConnectionType /\ InTable(c) /\ conn[c].known
  BY <1>1, AtWork DEF ConnectionOK
<1>3. CASE conn[c].pending
  <2>1. Goes(w, "error")
    BY <1>2, <1>3 DEF AcquireServer
  <2>2. Moves(w, "error")
    BY <1>1, <1>2, <1>3, <2>1 DEF Moves
  <2> QED BY <2>2, MovesKeeps
<1>4. CASE ~conn[c].pending
  <2>1. PICK place \in {"reading", "sleeping"} :
          Goes(w, place) /\ (place = "reading" => Reading(c) = {})
    BY <1>2, <1>4 DEF AcquireServer
  <2>2. PICK x : x = conn[c]
    OBVIOUS
  <2>3. conn' = [conn EXCEPT ![c] = x]
    BY <1>1, <2>2 DEF IInv, Types
  <2>4. /\ x.refs = 2 /\ x.checked /\ ~x.pending /\ x.known = conn[c].known
        /\ x.dedicated = conn[c].dedicated /\ x.n_workers = conn[c].n_workers
        /\ x.pending = conn[c].pending /\ x.checked = conn[c].checked
        /\ x.link = conn[c].link /\ x.strand = conn[c].strand
        /\ x \in ConnectionType
    BY <1>1, <1>2, <1>4, <2>2 DEF InTable
  <2>5. place \in ReadPlaces =>
          \A v \in Workers : v # w /\ worker[v].conn = c => worker[v].at \notin ReadPlaces
    BY <2>1 DEF Reading, On
  <2>6. place \in LivePlaces /\ place \notin LostPlaces /\ place \notin {"failed", "broken"}
    OBVIOUS
  <2>7. GoesOn(w, c, place, x)
    BY <1>1, <1>2, <2>1, <2>3, <2>4, <2>6 DEF GoesOn
  <2>8. Fits(w, c, place, x)
    BY <2>4, <2>5, <2>6 DEF Fits
  <2> QED BY <2>7, <2>8, GoesOnKeeps
<1> QED BY <1>3, <1>4

LEMMA MoveStepsKeep ==
  ASSUME IInv, NEW w \in Workers,
         WakeUp(w) \/ EndMessage(w) \/ UpcallReturns(w)
  PROVE  IInv'
<1> USE DEF LivePlaces, Places, UsePlaces, ServePlaces, ReadPlaces, LostPlaces, UnchangedByStep
<1>1. CASE WakeUp(w)
  <2>1. Moves(w, "reading")
    BY <1>1 DEF WakeUp, Moves
  <2> QED BY <2>1, MovesKeeps
<1>2. CASE EndMessage(w)
  <2>1. Moves(w, "upcall")
    BY <1>2 DEF EndMessage, Moves
  <2> QED BY <2>1, MovesKeeps
<1>3. CASE UpcallReturns(w)
  <2>1. Moves(w, "replied")
    BY <1>3 DEF UpcallReturns, Moves
  <2> QED BY <2>1, MovesKeeps
<1> QED BY <1>1, <1>2, <1>3

\* What most steps change of a connection decides about nothing that IInv says.
Retouched(c, x) ==
  /\ x \in ConnectionType /\ x.refs = conn[c].refs /\ x.known = conn[c].known
  /\ x.dedicated = conn[c].dedicated /\ x.n_workers = conn[c].n_workers
  /\ x.strand = conn[c].strand /\ x.pending = conn[c].pending
  /\ x.checked = conn[c].checked /\ x.link = conn[c].link

Retouches(w, place) ==
  /\ worker[w].at \in LivePlaces /\ place \in LivePlaces
  /\ Goes(w, place) /\ UNCHANGED <<serverVars, counters, rzVars>>
  /\ worker[w].at \in UsePlaces <=> place \in UsePlaces
  /\ worker[w].at \notin {"start"} \cup LostPlaces
  /\ place \notin {"failed", "broken"} \cup LostPlaces
  /\ place \in ReadPlaces => worker[w].at \in ReadPlaces

LEMMA RetouchesKeeps ==
  ASSUME IInv, NEW w \in Workers, NEW place, Retouches(w, place),
         NEW c, worker[w].conn = c, NEW x, Retouched(c, x), conn' = [conn EXCEPT ![c] = x]
  PROVE  IInv'
<1>1. c \in Connections
  BY AtWork DEF Retouches
<1>2. GoesOn(w, c, place, x)
  BY <1>1 DEF GoesOn, Retouches, Retouched
<1>3. PlainStep(w, c, place, x)
  BY <1>1 DEF PlainStep, Retouches, Retouched
<1> QED BY <1>1, <1>2, <1>3, PlainStepKeeps

LEMMA TakenOf ==
  ASSUME NEW c, conn[c] \in ConnectionType, NEW k \in Nat, k > 0,
         conn[c].head = 0 => conn[c].socket >= k
  PROVE  Retouched(c, Taken(c, k))
<1>1. /\ conn[c].head \in Nat /\ conn[c].socket \in Nat /\ k - 1 \in Nat
      /\ conn[c].head > 0 => conn[c].head - 1 \in Nat
      /\ ~(conn[c].head > 0) => conn[c].socket - k \in Nat
  BY DEF ConnectionType
<1>2. CASE conn[c].head > 0
  <2>1. Taken(c, k) = [conn[c] EXCEPT !.head = @ - 1]
    BY <1>2 DEF Taken
  <2> QED BY <1>1, <1>2, <2>1 DEF Retouched, ConnectionType
<1>3. CASE ~(conn[c].head > 0)
  <2>1. Taken(c, k) = [conn[c] EXCEPT !.socket = @ - k, !.head = k - 1]
    BY <1>3 DEF Taken
  <2> QED BY <1>1, <1>3, <2>1 DEF Retouched, ConnectionType
<1> QED BY <1>2, <1>3

LEMMA ReadRequestKeeps ==
  ASSUME IInv, NEW w \in Workers, ReadRequest(w)
  PROVE  IInv'
<1>1. /\ worker[w].at = "reading" /\ worker[w].at \in LivePlaces
      /\ UNCHANGED <<serverVars, counters, rzVars>>
  BY DEF ReadRequest, UnchangedByStep, LivePlaces, Places
<1>2. PICK c \in Connections : worker[w].conn = c /\ conn[c] \in ConnectionType
  BY <1>1, AtWork
<1>3. PICK k \in 1 .. (IF conn[c].head > 0 THEN 1 ELSE conn[c].socket) :
        IF conn[c].idle = "expired"
        THEN /\ conn' = [conn EXCEPT ![c] = [Taken(c, k) EXCEPT !.strand = "DYING"]]
             /\ Goes(w, "broken")
        ELSE /\ conn' = [conn EXCEPT ![c] = [Taken(c, k) EXCEPT !.idle = "off"]]
             /\ Goes(w, "read")
  BY <1>2 DEF ReadRequest
<1>4. Retouched(c, Taken(c, k))
  <2>1. conn[c].head \in Nat /\ conn[c].socket \in Nat
    BY <1>2 DEF ConnectionType
  <2>2. k \in Nat /\ k > 0 /\ (conn[c].head = 0 => conn[c].socket >= k)
    BY <2>1
  <2> QED BY <1>2, <2>2, TakenOf
<1>5. CASE conn[c].idle = "expired"
  <2>1. PICK x : x = [Taken(c, k) EXCEPT !.strand = "DYING"]
    OBVIOUS
  <2>2. /\ x \in ConnectionType /\ x.refs = conn[c].refs /\ x.known = conn[c].known
        /\ x.dedicated = conn[c].dedicated /\ x.n_workers = conn[c].n_workers
        /\ x.strand = "DYING" /\ x.pending = conn[c].pending
        /\ x.checked = conn[c].checked /\ x.link = conn[c].link
    BY <1>4, <2>1 DEF Retouched, ConnectionType
  <2>3. conn' = [conn EXCEPT ![c] = x] /\ Goes(w, "broken")
    BY <1>3, <1>5, <2>1
  <2>4. GoesOn(w, c, "broken", x)
    BY <1>1, <1>2, <2>2, <2>3 DEF GoesOn, LivePlaces, Places
  <2>5. PlainStep(w, c, "broken", x)
    BY <1>1, <2>2 DEF PlainStep, UsePlaces, ServePlaces, ReadPlaces, LostPlaces
  <2> QED BY <2>4, <2>5, PlainStepKeeps
<1>6. CASE conn[c].idle # "expired"
  <2>1. PICK x : x = [Taken(c, k) EXCEPT !.idle = "off"]
    OBVIOUS
  <2>2. Retouched(c, x)
    BY <1>4, <2>1 DEF Retouched, ConnectionType
  <2>3. conn' = [conn EXCEPT ![c] = x] /\ Goes(w, "read")
    BY <1>3, <1>6, <2>1
  <2>4. Retouches(w, "read")
    BY <1>1, <2>3
      DEF Retouches, LivePlaces, Places, UsePlaces, ServePlaces, ReadPlaces, LostPlaces
  <2> QED BY <1>2, <2>2, <2>3, <2>4, RetouchesKeeps
<1> QED BY <1>5, <1>6

\* The strand dies under a worker that reads or replies.
LEMMA StrandDiesKeeps ==
  ASSUME IInv, NEW w \in Workers, ReadFails(w) \/ ReplyFails(w)
  PROVE  IInv'
<1>1. PICK place \in {"broken", "failed"} :
        /\ worker[w].at = IF place = "broken" THEN "reading" ELSE "upcall"
        /\ Goes(w, place) /\ UNCHANGED <<serverVars, counters, rzVars>>
        /\ conn' = [conn EXCEPT ![worker[w].conn].strand = "DYING"]
  BY DEF ReadFails, ReplyFails, UnchangedByStep
<1>2. worker[w].at \in LivePlaces
  BY <1>1 DEF LivePlaces, Places
<1>3. PICK c \in Connections : worker[w].conn = c /\ conn[c] \in ConnectionType
  BY <1>2, AtWork
<1>4. PICK x : x = [conn[c] EXCEPT !.strand = "DYING"]
  OBVIOUS
<1>5. /\ x \in ConnectionType /\ x.refs = conn[c].refs /\ x.known = conn[c].known
      /\ x.dedicated = conn[c].dedicated /\ x.n_workers = conn[c].n_workers
      /\ x.strand = "DYING" /\ x.pending = conn[c].pending
      /\ x.checked = conn[c].checked /\ x.link = conn[c].link
  BY <1>3, <1>4 DEF ConnectionType
<1>6. conn' = [conn EXCEPT ![c] = x]
  BY <1>1, <1>3, <1>4
<1>7. GoesOn(w, c, place, x)
  BY <1>1, <1>2, <1>3, <1>5, <1>6 DEF GoesOn, LivePlaces, Places
<1>8. PlainStep(w, c, place, x)
  BY <1>1, <1>5 DEF PlainStep, UsePlaces, ServePlaces, ReadPlaces, LostPlaces
<1> QED BY <1>7, <1>8, PlainStepKeeps

LEMMA ReadStepsKeep ==
  ASSUME IInv, NEW w \in Workers, Cancelled(w) \/ PreUpCall(w) \/ SetSelectable(w)
  PROVE  IInv'
<1> USE DEF LivePlaces, Places, UsePlaces, ServePlaces, ReadPlaces, LostPlaces
<1>1. worker[w].at \in {"read", "selecting"}
  BY DEF Cancelled, PreUpCall, SetSelectable
<1>2. PICK c \in Connections : worker[w].conn = c /\ conn[c] \in ConnectionType
  BY <1>1, AtWork
<1>3. worker[w].singleshot \in BOOLEAN
  BY <1>1, AtWork
<1>4. CASE Cancelled(w)
  <2>1. PICK x : x = [conn[c] EXCEPT !.cancelled = TRUE]
    OBVIOUS
  <2>2. Retouched(c, x)
    BY <1>2, <2>1 DEF Retouched, ConnectionType
  <2>3. conn' = [conn EXCEPT ![c] = x]
    BY <1>2, <1>4, <2>1 DEF Cancelled
  <2>4. Retouches(w, "cancelled")
    BY <1>4 DEF Cancelled, Retouches
  <2> QED BY <1>2, <2>2, <2>3, <2>4, RetouchesKeeps
<1>5. CASE PreUpCall(w)
  <2>1. PICK x : x = [conn[c] EXCEPT !.in_upcall =
                        @ \/ (conn[c].dedicated /\ ~worker[w].singleshot)]
    OBVIOUS
  <2>2. Retouched(c, x)
    BY <1>2, <1>3, <2>1 DEF Retouched, ConnectionType
  <2>3. conn' = [conn EXCEPT ![c] = x]
    BY <1>2, <1>5, <2>1 DEF PreUpCall
  <2>4. PICK place \in {"selecting", "ending"} : Goes(w, place)
    BY <1>5 DEF PreUpCall
  <2>5. Retouches(w, place)
    BY <1>5, <2>4 DEF PreUpCall, Retouches, UnchangedByStep
  <2> QED BY <1>2, <2>2, <2>3, <2>5, RetouchesKeeps
<1>6. CASE SetSelectable(w)
  <2>1. PICK x : x = [conn[c] EXCEPT !.selectable = TRUE, !.buffered = @ \/ conn[c].head > 0]
    OBVIOUS
  <2>2. Retouched(c, x)
    BY <1>2, <2>1 DEF Retouched, ConnectionType
  <2>3. conn' = [conn EXCEPT ![c] = x]
    BY <1>2, <1>6, <2>1 DEF SetSelectable
  <2>4. Retouches(w, "ending")
    BY <1>6 DEF SetSelectable, Retouches, UnchangedByStep
  <2> QED BY <1>2, <2>2, <2>3, <2>4, RetouchesKeeps
<1> QED BY <1>4, <1>5, <1>6

\* The first two steps of removeConnectionAndWorker().
LEMMA ErrorStepsKeep ==
  ASSUME IInv, NEW w \in Workers, MarkDying(w) \/ ClearSelectable(w)
  PROVE  IInv'
<1>1. PICK place \in {"clearing", "removing"} :
        /\ worker[w].at = IF place = "clearing" THEN "error" ELSE "clearing"
        /\ Goes(w, place) /\ UNCHANGED <<serverVars, counters, rzVars>>
  BY DEF MarkDying, ClearSelectable, UnchangedByStep
<1>2. worker[w].at \in LivePlaces
  BY <1>1 DEF LivePlaces, Places
<1>3. PICK c \in Connections : worker[w].conn = c /\ conn[c] \in ConnectionType
  BY <1>2, AtWork
<1>4. PICK x : /\ conn' = [conn EXCEPT ![c] = x]
               /\ x = [conn[c] EXCEPT !.dying = TRUE]
                    \/ x = [conn[c] EXCEPT !.selectable = FALSE]
  BY <1>3 DEF MarkDying, ClearSelectable
<1>5. Retouched(c, x)
  BY <1>3, <1>4, ZenonT(40) DEF Retouched, ConnectionType
<1>6. GoesOn(w, c, place, x)
  BY <1>1, <1>2, <1>3, <1>4, <1>5 DEF GoesOn, Retouched, LivePlaces, Places
<1>7. PlainStep(w, c, place, x)
  BY <1>1, <1>5 DEF PlainStep, Retouched, UsePlaces, ServePlaces, ReadPlaces, LostPlaces
<1> QED BY <1>3, <1>6, <1>7, PlainStepKeeps

\* Whom safeDelete() asks about are those that use the strand.
LEMMA UsersOf ==
  ASSUME NEW c, NEW w, worker[w].at # "sleeping"
  PROVE  (Serving(c) \ {w} = {} /\ ~\E v \in On(c) : worker[v].at = "sleeping")
           <=> ~\E v \in Workers : v # w /\ worker[v].conn = c /\ worker[v].at \in UsePlaces
BY DEF Serving, Reading, On, UsePlaces, ServePlaces, ReadPlaces

LEMMA ReleaseServerKeeps ==
  ASSUME IInv, NEW w \in Workers, ReleaseServer(w)
  PROVE  IInv'
<1> DEFINE others(c) ==
      \E v \in Workers : v # w /\ worker[v].conn = c /\ worker[v].at \in UsePlaces
<1>1. /\ worker[w].at \in {"replied", "cancelled", "failed", "broken"}
      /\ worker[w].at \in LivePlaces /\ worker[w].at \in UsePlaces
      /\ UNCHANGED <<serverVars, counters, rzVars>>
  BY DEF ReleaseServer, UnchangedByStep, LivePlaces, Places, UsePlaces, ServePlaces, ReadPlaces
<1>2. PICK c \in Connections :
        /\ worker[w].conn = c /\ conn[c] \in ConnectionType
        /\ InTable(c) /\ conn[c].known
  BY <1>1, AtWork DEF ConnectionOK
<1>3. InUse(c)
  BY <1>1, <1>2 DEF InUse
<1>4. conn[c].refs = 2 /\ conn[c].checked
      /\ (conn[c].strand = "DYING" \/ (~conn[c].pending
                                       /\ worker[w].at \in {"replied", "cancelled"}))
  BY <1>1, <1>2, <1>3 DEF InTable, LostPlaces
<1>5. PICK place \in {"done", "error"} :
        /\ Goes(w, place)
        /\ place = "done" <=> worker[w].at \in {"replied", "cancelled"}
  BY <1>1 DEF ReleaseServer
<1>6. place \in LivePlaces /\ place \notin UsePlaces /\ place \notin ReadPlaces
      /\ place \notin {"failed", "broken"} /\ (place \in LostPlaces => place = "error")
  BY DEF LivePlaces, Places, UsePlaces, ServePlaces, ReadPlaces, LostPlaces
<1>7. InUse(c)' <=> others(c)
  <2>1. worker'[w].at = place /\ worker'[w].conn = c /\ OthersStay(w)
    BY <1>2, <1>5 DEF IInv, Types, Goes, OthersStay, WorkerType
  <2> QED BY <1>2, <1>6, <2>1, UseOf
<1>8. CASE conn[c].strand = "DYING"
  <2>1. PICK x : x = SafelyDeleted(c, Serving(c) \ {w})
    OBVIOUS
  <2>2. conn' = [conn EXCEPT ![c] = x]
    BY <1>2, <1>8, <2>1 DEF ReleaseServer
  <2>3. (Serving(c) \ {w} = {} /\ ~\E v \in On(c) : worker[v].at = "sleeping") <=> ~others(c)
    <3>1. worker[w].at # "sleeping"
      BY <1>1
    <3> QED BY <3>1, UsersOf
  <2>4. PICK r \in 1 .. 2 : /\ r = IF others(c) THEN 2 ELSE 1
                            /\ x = [conn[c] EXCEPT !.pending = TRUE, !.refs = r]
    <3>1. x = [conn[c] EXCEPT !.pending = TRUE, !.refs = IF others(c) THEN @ ELSE @ - 1]
      BY <2>1, <2>3 DEF SafelyDeleted
    <3>2. PICK r : r = IF others(c) THEN 2 ELSE 1
      OBVIOUS
    <3>3. r \in 1 .. 2 /\ r = IF others(c) THEN conn[c].refs ELSE conn[c].refs - 1
      BY <1>4, <3>2
    <3> HIDE DEF others
    <3>4. x = [conn[c] EXCEPT !.pending = TRUE, !.refs = r]
      BY <3>1, <3>3
    <3> QED BY <3>2, <3>3, <3>4
  <2>5. /\ x \in ConnectionType /\ x.known = conn[c].known
        /\ x.dedicated = conn[c].dedicated /\ x.n_workers = conn[c].n_workers
        /\ x.strand = "DYING" /\ x.pending /\ x.refs = r
        /\ x.checked = conn[c].checked /\ x.link = conn[c].link
    <3> HIDE DEF others
    <3>1. r \in 0 .. 2
      OBVIOUS
    <3> QED BY <1>2, <1>8, <2>4, <3>1 DEF ConnectionType
  <2>6. GoesOn(w, c, place, x)
    BY <1>1, <1>2, <1>5, <1>6, <2>2, <2>5 DEF GoesOn
  <2>7. Fits(w, c, place, x)
    <3> HIDE DEF others
    <3> QED BY <1>4, <1>6, <1>7, <2>4, <2>5 DEF Fits
  <2> QED BY <2>6, <2>7, GoesOnKeeps
<1>9. CASE conn[c].strand # "DYING"
  <2>1. PICK x : /\ conn' = [conn EXCEPT ![c] = x]
                 /\ x = [conn[c] EXCEPT !.idle = "on"] \/ x = conn[c]
    BY <1>2, <1>9 DEF ReleaseServer
  <2>2. Retouched(c, x)
    BY <1>2, <2>1, ZenonT(40) DEF Retouched, ConnectionType
  <2>3. GoesOn(w, c, place, x)
    BY <1>1, <1>2, <1>5, <1>6, <2>1, <2>2 DEF GoesOn, Retouched
  <2>4. place = "done" /\ ~x.pending /\ x.refs = 2 /\ x.checked
    BY <1>4, <1>5, <1>9, <2>2 DEF Retouched
  <2>5. Fits(w, c, place, x)
    BY <1>6, <2>4 DEF Fits
  <2> QED BY <2>3, <2>5, GoesOnKeeps
<1> QED BY <1>8, <1>9

LEMMA GatekeeperRefusesKeeps ==
  ASSUME IInv, NEW w \in Workers, GatekeeperRefuses(w)
  PROVE  IInv'
<1>1. worker[w].at = "start" /\ worker[w].at \in LivePlaces
  BY DEF GatekeeperRefuses, LivePlaces, Places
<1>2. PICK c \in Connections :
        /\ worker[w].conn = c /\ conn[c] \in ConnectionType
        /\ InTable(c) /\ conn[c].known
  BY <1>1, AtWork DEF ConnectionOK
<1>3. ~conn[c].checked /\ ~conn[c].pending
  BY <1>2 DEF GatekeeperRefuses
<1>4. conn[c].refs = 2 /\ ~InUse(c)
  <2>1. \A v \in Workers : worker[v].conn = c => worker[v].at \notin UsePlaces
    BY <1>2, <1>3 DEF InTable, UsePlaces, ServePlaces, ReadPlaces, LostPlaces
  <2> QED BY <1>2, <1>3, <2>1 DEF InTable, InUse
<1>5. Goes(w, "error") /\ UNCHANGED <<serverVars, counters, rzVars>>
      /\ conn' = [conn EXCEPT ![c] = SafelyDeleted(c, Serving(c))]
  BY <1>2 DEF GatekeeperRefuses
<1>6. "error" \in LivePlaces /\ "error" \notin UsePlaces /\ "error" \notin ReadPlaces
      /\ "error" \in LostPlaces
  BY DEF LivePlaces, Places, UsePlaces, ServePlaces, ReadPlaces, LostPlaces
<1>7. ~InUse(c)'
  <2>1. worker'[w].at = "error" /\ worker'[w].conn = c /\ OthersStay(w)
    BY <1>2, <1>5 DEF IInv, Types, Goes, OthersStay, WorkerType
  <2> QED BY <1>2, <1>4, <1>6, <2>1, UseOf DEF InUse
<1>8. PICK x : \E r \in 0 .. 2 : r = 1 /\ x = [conn[c] EXCEPT !.pending = TRUE, !.refs = r]
  OBVIOUS
<1>9. conn' = [conn EXCEPT ![c] = x]
  <2>1. Serving(c) = {} /\ ~\E v \in On(c) : worker[v].at = "sleeping"
    BY <1>4 DEF InUse, Serving, Reading, On, UsePlaces, ServePlaces, ReadPlaces
  <2> QED BY <1>2, <1>4, <1>5, <1>8, <2>1 DEF SafelyDeleted
<1>10. /\ x \in ConnectionType /\ x.known = conn[c].known
       /\ x.dedicated = conn[c].dedicated /\ x.n_workers = conn[c].n_workers
       /\ x.strand = conn[c].strand /\ x.pending /\ x.refs = 1
       /\ x.checked = conn[c].checked /\ x.link = conn[c].link
  BY <1>2, <1>8, ZenonT(40) DEF ConnectionType
<1>11. GoesOn(w, c, "error", x)
  BY <1>1, <1>2, <1>5, <1>6, <1>9, <1>10 DEF GoesOn
<1>12. Fits(w, c, "error", x)
  BY <1>6, <1>7, <1>10 DEF Fits
<1> QED BY <1>11, <1>12, GoesOnKeeps

-----------------------------------------------------------------------------
(* A worker that leaves a connection which stays in the table. *)

LEMMA IsCounted ==
  ASSUME IInv, NEW w \in Workers, worker[w].at \in LivePlaces, NEW c, worker[w].conn = c
  PROVE  conn[c].n_workers \in Nat \ {0} /\ conn[c].n_workers = Cardinality(LiveOn(c))
<1>1. conn[c].n_workers = Cardinality(LiveOn(c))
  BY AtWork DEF ConnectionOK, CountsOf
<1>2. w \in LiveOn(c)
  BY DEF LiveOn
<1>3. Cardinality(LiveOn(c)) # 0
  BY <1>2, CountsAreNat, FS_EmptySet
<1> QED BY <1>1, <1>3, CountsAreNat

Leaves(w, c, x) ==
  /\ worker[w].conn = c /\ worker[w].at \in LivePlaces \ UsePlaces
  /\ worker' = [worker EXCEPT ![w] = NoWorker]
  /\ conn' = [conn EXCEPT ![c] = x] /\ x \in ConnectionType
  /\ x.refs = conn[c].refs /\ x.known = conn[c].known
  /\ x.dedicated = conn[c].dedicated /\ x.n_workers = conn[c].n_workers - 1
  /\ x.strand = conn[c].strand /\ x.pending = conn[c].pending
  /\ x.checked = conn[c].checked /\ x.link = conn[c].link
  /\ x.dying => conn[c].n_workers # 1
  /\ nTemporary' = nTemporary - (IF worker[w].singleshot THEN 1 ELSE 0)
  /\ nDedicated' = nDedicated - (IF worker[w].singleshot THEN 0 ELSE 1)
  /\ UNCHANGED <<serverVars, rzVars>>

LEMMA ZeroStays ==
  ASSUME NEW n \in Nat, NEW m \in Nat, NEW k \in 0 .. 1, m = n - k
  PROVE  n = 0 => m = 0
OBVIOUS

LEMMA LeavesKeeps ==
  ASSUME IInv, NEW w \in Workers, NEW c, NEW x, Leaves(w, c, x)
  PROVE  IInv'
<1> USE DEF IInv
<1>1. /\ worker[w].conn = c /\ worker[w].at \in LivePlaces \ UsePlaces
      /\ worker' = [worker EXCEPT ![w] = NoWorker]
      /\ conn' = [conn EXCEPT ![c] = x] /\ x \in ConnectionType
  BY DEF Leaves
<1>2. /\ c \in Connections /\ worker[w].singleshot \in BOOLEAN /\ state # "IDLE"
      /\ conn[c].known /\ ConnectionOK(c)
      /\ worker \in [Workers -> WorkerType] /\ conn \in [Connections -> ConnectionType]
  BY <1>1, AtWork DEF Types
<1>3. /\ worker'[w].at = "none" /\ worker'[w].conn = None /\ OthersStay(w)
      /\ worker' \in [Workers -> WorkerType]
      /\ \A d \in Connections : worker'[w].conn # d
  BY <1>1, <1>2, Staff DEF OthersStay
<1>4. conn' \in [Connections -> ConnectionType] /\ conn'[c] = x
      /\ \A d \in Connections : d # c => conn'[d] = conn[d]
  BY <1>1, <1>2
<1>5. Types'
  BY <1>3, <1>4 DEF Types, serverVars, params, rzVars, Leaves
<1>6. /\ Cardinality(Temporary)'
           = Cardinality(Temporary) - (IF worker[w].singleshot THEN 1 ELSE 0)
      /\ Cardinality(Dedicated)'
           = Cardinality(Dedicated) - (IF worker[w].singleshot THEN 0 ELSE 1)
      /\ Cardinality(LiveOn(c))' = Cardinality(LiveOn(c)) - 1
      /\ \A d : d # c => LiveOn(d)' = LiveOn(d)
  BY <1>1, <1>2, <1>3, OneEnds
<1>7. CountsServer'
  BY <1>6 DEF CountsServer, Leaves
<1>8. Employed'
  BY <1>3 DEF Employed, OthersStay
<1>9. \A d \in Connections : Accepted(d)' <=> Accepted(d)
  BY DEF Accepted, rzVars, Leaves
<1>10. ASSUME NEW d \in Connections, d # c PROVE ConnectionOK(d)'
  <2>1. StaffSame(d)
    BY <1>1, <1>3, <1>10 DEF StaffSame, OthersStay
  <2>2. Alike(d)
    BY <1>4, <1>10 DEF Alike
  <2> QED BY <1>9, <2>1, <2>2, AlikeKeeps DEF ConnectionsOK
<1>11. ConnectionOK(c)'
  <2> USE <1>2 DEF ConnectionOK
  <2>1. CountsOf(c)'
    BY <1>4, <1>6 DEF CountsOf, Leaves
  <2>2. \A v \in Workers : worker'[v].conn = c => worker'[v] = worker[v] /\ v # w
    BY <1>3 DEF OthersStay
  <2>3. InUse(c)' <=> InUse(c)
    <3>1. ASSUME NEW v \in Workers, worker[v].conn = c, worker[v].at \in UsePlaces
          PROVE  worker'[v] = worker[v]
      BY <1>1, <1>3, <3>1 DEF OthersStay
    <3> QED BY <2>2, <3>1 DEF InUse
  <2>4. InTable(c)'
    BY <1>4, <1>9, <2>2, <2>3 DEF InTable, Leaves
  <2>5. OffTable(c)'
    BY <1>4 DEF OffTable, Leaves
  <2>6. OneReads(c)'
    BY <2>2 DEF OneReads
  <2>7. Noticed(c)'
    <3>1. conn[c].n_workers \in Nat \ {0}
      BY <1>1, IsCounted
    <3> QED BY <1>4, <3>1 DEF Noticed, Leaves
  <2> QED BY <2>1, <2>4, <2>5, <2>6, <2>7
<1>12. Stopping'
  <2>1. \A d \in Connections :
          /\ conn'[d].known = conn[d].known /\ conn'[d].dedicated = conn[d].dedicated
          /\ conn[d].link = "shut" => conn'[d].link = "shut"
    BY <1>4 DEF Leaves
  <2>2. nDedicated = 0 => nDedicated' = 0
    <3>1. nDedicated \in Nat /\ Cardinality(Dedicated)' \in Nat
      <4>1. Dedicated' \subseteq Workers
        BY DEF Dedicated
      <4> QED BY <4>1, CountsAreNat, FiniteAssumption, FS_Subset, FS_CardinalityType
                DEF CountsServer
    <3>2. nDedicated' = nDedicated - (IF worker[w].singleshot THEN 0 ELSE 1)
      BY DEF Leaves
    <3>3. nDedicated' \in Nat
      BY <1>7, <3>1 DEF CountsServer
    <3>4. PICK k \in 0 .. 1 : k = IF worker[w].singleshot THEN 0 ELSE 1
      OBVIOUS
    <3>5. nDedicated' = nDedicated - k
      BY <3>2, <3>4
    <3> QED BY <3>1, <3>3, <3>5, ZeroStays
  <2> QED BY <1>2, <2>1, <2>2 DEF Stopping, serverVars, rzVars, Leaves
<1> QED BY <1>5, <1>7, <1>8, <1>10, <1>11, <1>12 DEF ConnectionsOK

\* A worker of a connection that is not dedicated is a temporary one, and it is
\* known who of those that are done may go.
LEMMA HelperLeaves ==
  ASSUME IInv, NEW w \in Workers, worker[w].at \in {"done", "leaving"}, worker[w].singleshot,
         NEW c, worker[w].conn = c, ~LastOfDying(c), NEW limit \in BOOLEAN,
         worker' = [worker EXCEPT ![w] = NoWorker],
         conn' = [conn EXCEPT ![c] = [conn[c] EXCEPT !.hit_limit = limit, !.n_workers = @ - 1]],
         nTemporary' = nTemporary - 1, UNCHANGED <<nDedicated, serverVars, rzVars>>
  PROVE  IInv'
<1>1. worker[w].at \in LivePlaces \ UsePlaces
  BY DEF LivePlaces, Places, UsePlaces, ServePlaces, ReadPlaces
<1>2. conn[c] \in ConnectionType /\ conn[c].n_workers \in Nat \ {0}
  BY <1>1, AtWork, IsCounted
<1>3. PICK n \in Nat : n = conn[c].n_workers - 1
  BY <1>2
<1>4. PICK x : x = [conn[c] EXCEPT !.hit_limit = limit, !.n_workers = n]
  OBVIOUS
<1>5. conn' = [conn EXCEPT ![c] = x]
  BY <1>3, <1>4
<1>6. /\ x \in ConnectionType /\ x.refs = conn[c].refs /\ x.known = conn[c].known
      /\ x.dedicated = conn[c].dedicated /\ x.n_workers = conn[c].n_workers - 1
      /\ x.strand = conn[c].strand /\ x.pending = conn[c].pending
      /\ x.checked = conn[c].checked /\ x.link = conn[c].link /\ x.dying = conn[c].dying
  BY <1>2, <1>3, <1>4, ZenonT(40) DEF ConnectionType
<1>7. /\ nTemporary' = nTemporary - (IF worker[w].singleshot THEN 1 ELSE 0)
      /\ nDedicated' = nDedicated - (IF worker[w].singleshot THEN 0 ELSE 1)
  <2>1. nDedicated \in Nat
    BY CountsAreNat DEF IInv, CountsServer
  <2> QED BY <2>1
<1>8. Leaves(w, c, x)
  BY <1>1, <1>5, <1>6, <1>7 DEF Leaves, LastOfDying
<1> QED BY <1>8, LeavesKeeps

\* notifyWkDone() when the worker goes round again.
LEMMA AgainAfterLimitKeeps ==
  ASSUME IInv, NEW w \in Workers, worker[w].at \in {"done", "leaving"},
         AgainAfterLimit(w), UNCHANGED <<serverVars, rzVars>>
  PROVE  IInv'
<1> USE DEF LivePlaces, Places, UsePlaces, ServePlaces, ReadPlaces, LostPlaces
<1>1. PICK c \in Connections : worker[w].conn = c /\ conn[c] \in ConnectionType
  BY AtWork
<1>2. PICK x : x = [conn[c] EXCEPT !.hit_limit = FALSE]
  OBVIOUS
<1>3. Retouched(c, x)
  BY <1>1, <1>2 DEF Retouched, ConnectionType
<1>4. conn' = [conn EXCEPT ![c] = x]
  BY <1>1, <1>2 DEF AgainAfterLimit
<1>5. Retouches(w, "acquire")
  BY DEF AgainAfterLimit, Retouches
<1> QED BY <1>1, <1>3, <1>4, <1>5, RetouchesKeeps

LEMMA DedicatedDoneKeeps ==
  ASSUME IInv, NEW w \in Workers, DedicatedDone(w), UNCHANGED <<serverVars, rzVars>>
  PROVE  IInv'
<1> USE DEF LivePlaces, Places, UsePlaces, ServePlaces, ReadPlaces, LostPlaces
<1>1. PICK place \in {"leaving", "acquire"} :
        worker[w].at \in {"done", "leaving"} /\ Goes(w, place) /\ UNCHANGED counters
  BY DEF DedicatedDone
<1>2. PICK c \in Connections : worker[w].conn = c /\ conn[c] \in ConnectionType
  BY <1>1, AtWork
<1>3. PICK x : /\ conn' = [conn EXCEPT ![c] = x]
               /\ \/ x = [conn[c] EXCEPT !.selectable = FALSE]
                  \/ x = [conn[c] EXCEPT !.in_upcall = FALSE, !.hit_limit = FALSE]
  <2>1. CASE worker[w].at = "done"
    BY <1>2, <2>1 DEF DedicatedDone
  <2>2. CASE worker[w].at = "leaving"
    <3>1. conn' = [conn EXCEPT ![c].in_upcall = FALSE, ![c].hit_limit = FALSE]
      BY <1>2, <2>2 DEF DedicatedDone
    <3>2. conn' = [conn EXCEPT ![c] = [conn[c] EXCEPT !.in_upcall = FALSE, !.hit_limit = FALSE]]
      BY <3>1 DEF IInv, Types
    <3> QED BY <3>2
  <2> QED BY <1>1, <2>1, <2>2
<1>4. Retouched(c, x)
  BY <1>2, <1>3, ZenonT(40) DEF Retouched, ConnectionType
<1>5. Retouches(w, place)
  BY <1>1 DEF Retouches
<1> QED BY <1>2, <1>3, <1>4, <1>5, RetouchesKeeps

LEMMA HelperDoneKeeps ==
  ASSUME IInv, NEW w \in Workers, HelperDone(w), UNCHANGED <<serverVars, rzVars>>
  PROVE  IInv'
<1>1. worker[w].at = "done" /\ worker[w].singleshot
  BY DEF HelperDone
<1>2. PICK c \in Connections : worker[w].conn = c /\ conn[c] \in ConnectionType
  BY <1>1, AtWork DEF LivePlaces, Places
<1>3. CASE conn[c].hit_limit /\ conn[c].in_upcall
  <2>1. AgainAfterLimit(w)
    BY <1>2, <1>3 DEF HelperDone
  <2> QED BY <1>1, <2>1, AgainAfterLimitKeeps
<1>4. CASE ~(conn[c].hit_limit /\ conn[c].in_upcall) /\ LastOfDying(c)
  <2>1. AgainAfterLimit(w)
    BY <1>2, <1>4 DEF HelperDone, AgainAfterLimit
  <2> QED BY <1>1, <2>1, AgainAfterLimitKeeps
<1>5. CASE ~(conn[c].hit_limit /\ conn[c].in_upcall) /\ ~LastOfDying(c)
  <2>1. /\ worker' = [worker EXCEPT ![w] = NoWorker]
        /\ conn' = [[conn EXCEPT ![c].hit_limit = FALSE] EXCEPT ![c].n_workers = @ - 1]
        /\ nTemporary' = nTemporary - 1 /\ UNCHANGED nDedicated
    BY <1>2, <1>5 DEF HelperDone
  <2>2. conn' = [conn EXCEPT ![c] = [conn[c] EXCEPT !.hit_limit = FALSE, !.n_workers = @ - 1]]
    BY <1>2, <2>1, ZenonT(40) DEF IInv, Types
  <2> QED BY <1>1, <1>2, <1>5, <2>1, <2>2, HelperLeaves
<1> QED BY <1>3, <1>4, <1>5

LEMMA PoolLeaveKeeps ==
  ASSUME IInv, NEW w \in Workers, PoolLeave(w), UNCHANGED <<serverVars, rzVars>>
  PROVE  IInv'
<1>1. worker[w].at = "leaving"
  BY DEF PoolLeave
<1>2. PICK c \in Connections :
        /\ worker[w].conn = c /\ conn[c] \in ConnectionType /\ worker[w].singleshot \in BOOLEAN
        /\ InTable(c) /\ conn[c].known
  BY <1>1, AtWork DEF LivePlaces, Places, ConnectionOK
<1>3. CASE conn[c].hit_limit
  <2>1. AgainAfterLimit(w)
    BY <1>2, <1>3 DEF PoolLeave
  <2> QED BY <1>1, <2>1, AgainAfterLimitKeeps
<1>4. CASE ~conn[c].hit_limit /\ LastOfDying(c)
  <2>1. Again(w)
    BY <1>2, <1>4 DEF PoolLeave
  <2>2. Moves(w, "acquire")
    BY <1>1, <2>1 DEF Again, Moves, LivePlaces, Places, UsePlaces, ServePlaces, ReadPlaces, LostPlaces
  <2> QED BY <2>2, MovesKeeps
<1>5. CASE ~conn[c].hit_limit /\ ~LastOfDying(c)
  <2>1. RemoveWorker(w)
    BY <1>2, <1>5 DEF PoolLeave
  <2>2. worker[w].singleshot
    BY <1>2 DEF InTable, PoolLeave
  <2>3. /\ worker' = [worker EXCEPT ![w] = NoWorker]
        /\ conn' = [conn EXCEPT ![c].n_workers = @ - 1]
        /\ nTemporary' = nTemporary - 1 /\ UNCHANGED nDedicated
    BY <1>2, <2>1 DEF RemoveWorker
  <2>4. conn' = [conn EXCEPT ![c] = [conn[c] EXCEPT !.hit_limit = FALSE, !.n_workers = @ - 1]]
    <3>1. conn[c].hit_limit = FALSE
      BY <1>2, <1>5 DEF ConnectionType
    <3>2. conn[c] = [conn[c] EXCEPT !.hit_limit = FALSE]
      BY <1>2, <3>1 DEF ConnectionType
    <3>3. [conn[c] EXCEPT !.n_workers = @ - 1]
            = [conn[c] EXCEPT !.hit_limit = FALSE, !.n_workers = @ - 1]
      BY <1>2, <3>1, <3>2 DEF ConnectionType
    <3> QED BY <2>3, <3>3
  <2> QED BY <1>1, <1>2, <1>5, <2>2, <2>3, <2>4, HelperLeaves
<1> QED BY <1>3, <1>4, <1>5

LEMMA PeekKeeps ==
  ASSUME IInv, NEW w \in Workers, UNCHANGED <<serverVars, rzVars>>,
         \/ PoolDone(w) \/ PeekStart(w) \/ PeekTimesOut(w) \/ PeekEnd(w) \/ SelectNow(w)
  PROVE  IInv'
<1> USE DEF LivePlaces, Places, UsePlaces, ServePlaces, ReadPlaces, LostPlaces
<1>1. worker[w].at \in {"done", "peek", "peeking", "select"}
  BY DEF PoolDone, PeekStart, PeekTimesOut, PeekEnd, SelectNow
<1>2. PICK c \in Connections : worker[w].conn = c /\ conn[c] \in ConnectionType
  BY <1>1, AtWork
<1>3. CASE PoolDone(w)
  <2>1. CASE conn[c].hit_limit
    <3>1. AgainAfterLimit(w) /\ worker[w].at = "done"
      BY <1>2, <1>3, <2>1 DEF PoolDone
    <3> QED BY <3>1, AgainAfterLimitKeeps
  <2>2. CASE ~conn[c].hit_limit
    <3>1. PICK place \in {"select", "peek"} :
            Goes(w, place) /\ UNCHANGED <<conn, counters>> /\ worker[w].at = "done"
      BY <1>2, <1>3, <2>2 DEF PoolDone
    <3>2. Moves(w, place)
      BY <3>1 DEF Moves
    <3> QED BY <3>2, MovesKeeps
  <2> QED BY <2>1, <2>2
<1>4. CASE PeekTimesOut(w) \/ SelectNow(w)
  <2>1. PICK place \in {"select", "leaving"} : Goes(w, place) /\ UNCHANGED <<conn, counters>>
    BY <1>4 DEF PeekTimesOut, SelectNow
  <2>2. Moves(w, place)
    BY <1>1, <2>1 DEF Moves
  <2> QED BY <2>2, MovesKeeps
<1>5. CASE PeekStart(w)
  <2>1. PICK place \in {"acquire", "peeking"} : Goes(w, place) /\ UNCHANGED counters
    BY <1>5 DEF PeekStart
  <2>2. PICK x : /\ conn' = [conn EXCEPT ![c] = x]
                 /\ \/ x = [conn[c] EXCEPT !.buffered = FALSE, !.selectable = FALSE]
                    \/ x = [conn[c] EXCEPT !.peek_go = FALSE]
    <3>1. CASE conn[c].buffered
      <4>1. conn' = [conn EXCEPT ![c].buffered = FALSE, ![c].selectable = FALSE]
        BY <1>2, <1>5, <3>1 DEF PeekStart
      <4>2. conn' = [conn EXCEPT ![c] = [conn[c] EXCEPT !.buffered = FALSE, !.selectable = FALSE]]
        BY <4>1 DEF IInv, Types
      <4> QED BY <4>2
    <3>2. CASE ~conn[c].buffered
      BY <1>2, <1>5, <3>2 DEF PeekStart
    <3> QED BY <3>1, <3>2
  <2>3. Retouched(c, x)
    BY <1>2, <2>2, ZenonT(40) DEF Retouched, ConnectionType
  <2>4. Retouches(w, place)
    BY <1>1, <2>1 DEF Retouches
  <2> QED BY <1>2, <2>2, <2>3, <2>4, RetouchesKeeps
<1>6. CASE PeekEnd(w)
  <2>1. PICK yes \in BOOLEAN :
          /\ conn' = [conn EXCEPT ![c].buffered = FALSE, ![c].selectable = @ /\ ~yes]
          /\ Goes(w, IF yes THEN "acquire" ELSE "select")
    <3>1. PICK polled \in {TRUE, FALSE} :
            LET yes == \/ conn[c].buffered
                       \/ polled /\ conn[c].selectable
                       \/ ~polled /\ conn[c].peek_go IN
            /\ conn' = [conn EXCEPT ![c].buffered = FALSE, ![c].selectable = @ /\ ~yes]
            /\ Goes(w, IF yes THEN "acquire" ELSE "select")
      BY <1>2, <1>6 DEF PeekEnd
    <3> QED BY <3>1
  <2>2. PICK x : \E s \in BOOLEAN :
                   /\ s = (conn[c].selectable /\ ~yes)
                   /\ x = [conn[c] EXCEPT !.buffered = FALSE, !.selectable = s]
    OBVIOUS
  <2>3. conn' = [conn EXCEPT ![c] = x]
    BY <2>1, <2>2 DEF IInv, Types
  <2>4. Retouched(c, x)
    BY <1>2, <2>2, ZenonT(40) DEF Retouched, ConnectionType
  <2>5. PICK place \in {"acquire", "select"} : Goes(w, place)
    BY <2>1
  <2>6. Retouches(w, place)
    BY <1>1, <1>6, <2>5 DEF Retouches, PeekEnd
  <2> QED BY <1>2, <2>3, <2>4, <2>6, RetouchesKeeps
<1> QED BY <1>3, <1>4, <1>5, <1>6

LEMMA WorkerDoneKeeps ==
  ASSUME IInv, NEW w \in Workers, WorkerDone(w)
  PROVE  IInv'
BY DedicatedDoneKeeps, HelperDoneKeeps, PeekKeeps, PoolLeaveKeeps DEF WorkerDone

-----------------------------------------------------------------------------
(* removeConnectionAndWorker(): the last worker takes the connection away. *)

LEMMA RemoveNotLastKeeps ==
  ASSUME IInv, NEW w \in Workers, Remove(w), conn[worker[w].conn].n_workers # 1
  PROVE  IInv'
<1>1. worker[w].at \in LivePlaces \ UsePlaces
  BY DEF Remove, LivePlaces, Places, UsePlaces, ServePlaces, ReadPlaces
<1>2. PICK c \in Connections :
        /\ worker[w].conn = c /\ conn[c] \in ConnectionType /\ conn[c].known
        /\ worker[w].singleshot \in BOOLEAN
  BY <1>1, AtWork
<1>3. PICK n \in Nat : n = conn[c].n_workers - 1
  BY <1>1, <1>2, IsCounted
<1>4. PICK x : x = [conn[c] EXCEPT !.n_workers = n, !.known = TRUE]
  OBVIOUS
<1>5. conn' = [conn EXCEPT ![c] = x]
  <2>1. conn' = [conn EXCEPT ![c].n_workers = @ - 1, ![c].known = TRUE]
    BY <1>2 DEF Remove
  <2>2. conn' = [conn EXCEPT ![c] = [conn[c] EXCEPT !.n_workers = @ - 1, !.known = TRUE]]
    BY <2>1 DEF IInv, Types
  <2> QED BY <1>3, <1>4, <2>2
<1>6. /\ x \in ConnectionType /\ x.refs = conn[c].refs /\ x.known = conn[c].known
      /\ x.dedicated = conn[c].dedicated /\ x.n_workers = conn[c].n_workers - 1
      /\ x.strand = conn[c].strand /\ x.pending = conn[c].pending
      /\ x.checked = conn[c].checked /\ x.link = conn[c].link
  BY <1>2, <1>3, <1>4, ZenonT(40) DEF ConnectionType
<1>7. worker' = [worker EXCEPT ![w] = NoWorker] /\ UNCHANGED <<serverVars, rzVars>>
  BY DEF Remove, serverVars
<1>8. /\ nTemporary' = nTemporary - (IF worker[w].singleshot THEN 1 ELSE 0)
      /\ nDedicated' = nDedicated - (IF worker[w].singleshot THEN 0 ELSE 1)
  <2>1. nTemporary \in Nat /\ nDedicated \in Nat
    BY CountsAreNat DEF IInv, CountsServer
  <2> QED BY <2>1 DEF Remove
<1>9. Leaves(w, c, x)
  BY <1>1, <1>2, <1>5, <1>6, <1>7, <1>8 DEF Leaves
<1> QED BY <1>9, LeavesKeeps

LEMMA RemoveLastKeeps ==
  ASSUME IInv, NEW w \in Workers, Remove(w), conn[worker[w].conn].n_workers = 1
  PROVE  IInv'
<1> USE DEF IInv
<1>1. worker[w].at = "removing" /\ worker[w].at \in LivePlaces
  BY DEF Remove, LivePlaces, Places
<1>2. PICK c \in Connections :
        /\ worker[w].conn = c /\ conn[c] \in ConnectionType /\ conn[c].known
        /\ worker[w].singleshot \in BOOLEAN /\ ConnectionOK(c) /\ state # "IDLE"
  BY <1>1, AtWork
<1>3. worker \in [Workers -> WorkerType] /\ conn \in [Connections -> ConnectionType]
  BY DEF Types
<1>4. PICK x : x = [conn[c] EXCEPT !.n_workers = 0, !.known = FALSE]
  OBVIOUS
<1>5. conn' = [conn EXCEPT ![c] = x]
  <2>1. conn' = [conn EXCEPT ![c].n_workers = @ - 1, ![c].known = FALSE]
    BY <1>2 DEF Remove
  <2>2. conn' = [conn EXCEPT ![c] = [conn[c] EXCEPT !.n_workers = conn[c].n_workers - 1,
                                                    !.known = FALSE]]
    BY <1>2, <1>3, <2>1
  <2>3. conn[c].n_workers - 1 = 0
    BY <1>2
  <2> QED BY <1>4, <2>2, <2>3
<1>6. /\ x \in ConnectionType /\ x.refs = conn[c].refs /\ ~x.known
      /\ x.n_workers = 0 /\ x.pending = conn[c].pending
  BY <1>2, <1>4 DEF ConnectionType
<1>7. PICK y : y = [worker[w] EXCEPT !.at = "deleting"]
  OBVIOUS
<1>8. worker' = [worker EXCEPT ![w] = y]
  BY <1>2, <1>7 DEF Remove
<1>9. y \in WorkerType /\ y.at = "deleting" /\ y.conn = c
  BY <1>2, <1>3, <1>7 DEF WorkerType, Places
<1>10. /\ worker' \in [Workers -> WorkerType] /\ OthersStay(w)
       /\ worker'[w].at = "deleting" /\ worker'[w].conn = c
  BY <1>3, <1>8, <1>9 DEF OthersStay
<1>11. conn' \in [Connections -> ConnectionType] /\ conn'[c] = x
       /\ \A d \in Connections : d # c => conn'[d] = conn[d]
  BY <1>3, <1>5, <1>6
<1>12. UNCHANGED <<params, state, stage, timedOut, rzVars>>
  BY DEF Remove
<1>13. Types'
  <2>1. threadPer' \in {FALSE, policy} /\ policy \in BOOLEAN
    BY DEF Remove, Restored, Types
  <2> QED BY <1>10, <1>11, <1>12, <2>1 DEF Types, params, rzVars
<1>14. /\ Cardinality(Temporary)'
            = Cardinality(Temporary) - (IF worker[w].singleshot THEN 1 ELSE 0)
       /\ Cardinality(Dedicated)'
            = Cardinality(Dedicated) - (IF worker[w].singleshot THEN 0 ELSE 1)
       /\ Cardinality(LiveOn(c))' = Cardinality(LiveOn(c)) - 1
       /\ \A d : d # c => LiveOn(d)' = LiveOn(d)
  BY <1>1, <1>2, <1>10, OneEnds
<1>15. nDedicated \in Nat /\ nTemporary \in Nat
  BY CountsAreNat DEF CountsServer
<1>16. /\ nTemporary' = nTemporary - (IF worker[w].singleshot THEN 1 ELSE 0)
       /\ nDedicated' = nDedicated - (IF worker[w].singleshot THEN 0 ELSE 1)
  BY <1>15 DEF Remove
<1>17. CountsServer'
  BY <1>14, <1>16 DEF CountsServer
<1>18. Employed'
  BY <1>10, Staff DEF Employed, OthersStay
<1>19. \A d \in Connections : Accepted(d)' <=> Accepted(d)
  BY <1>12 DEF Accepted, rzVars
<1>20. ASSUME NEW d \in Connections, d # c PROVE ConnectionOK(d)'
  <2>1. StaffSame(d)
    BY <1>2, <1>10, <1>20 DEF StaffSame, OthersStay
  <2>2. Alike(d)
    BY <1>11, <1>20 DEF Alike
  <2> QED BY <1>19, <2>1, <2>2, AlikeKeeps DEF ConnectionsOK
<1>21. \A v \in Workers : worker[v].conn = c => v = w
  <2>1. Cardinality(LiveOn(c)) = 1 /\ IsFiniteSet(LiveOn(c))
    BY <1>2, CountsAreNat DEF ConnectionOK, CountsOf
  <2>2. w \in LiveOn(c)
    BY <1>1, <1>2 DEF LiveOn
  <2>3. \A v \in LiveOn(c) : v = w
    <3>1. PICK u : LiveOn(c) = {u}
      BY <2>1, FS_Singleton
    <3> QED BY <2>2, <3>1
  <2> QED BY <1>2, <2>3 DEF ConnectionOK, InTable, LiveOn
<1>22. ConnectionOK(c)'
  <2>1. CountsOf(c)'
    <3>1. Cardinality(LiveOn(c)) = 1
      BY <1>2 DEF ConnectionOK, CountsOf
    <3> QED BY <1>6, <1>11, <1>14, <3>1 DEF CountsOf
  <2>2. InTable(c)' /\ Noticed(c)'
    BY <1>6, <1>11 DEF InTable, Noticed
  <2>3. \A v \in Workers : worker'[v].conn = c => v = w
    BY <1>10, <1>21 DEF OthersStay
  <2>4. OneReads(c)'
    BY <2>3 DEF OneReads
  <2>5. x.refs = 1 /\ ~Accepted(c)'
    <3>1. conn[c].pending /\ ~Accepted(c)
      BY <1>1, <1>2 DEF ConnectionOK, InTable, LostPlaces
    <3>2. ~InUse(c)
      BY <1>1, <1>21 DEF InUse, UsePlaces, ServePlaces, ReadPlaces
    <3>3. conn[c].refs = 1
      BY <1>2, <3>1, <3>2 DEF ConnectionOK, InTable
    <3> QED BY <1>6, <1>19, <3>1, <3>3
  <2>6. OffTable(c)'
    BY <1>10, <1>11, <2>3, <2>5 DEF OffTable
  <2> QED BY <2>1, <2>2, <2>4, <2>6 DEF ConnectionOK
<1>23. Stopping'
  <2>1. \A d \in Connections :
          conn'[d].known => conn[d].known /\ conn'[d].dedicated = conn[d].dedicated
                            /\ conn'[d].link = conn[d].link
    BY <1>6, <1>11
  <2>2. nDedicated = 0 => nDedicated' = 0
    <3>1. nDedicated' \in Nat
      <4>1. Dedicated' \subseteq Workers
        BY DEF Dedicated
      <4> QED BY <1>17, <4>1, FiniteAssumption, FS_Subset, FS_CardinalityType DEF CountsServer
    <3>2. PICK k \in 0 .. 1 : k = IF worker[w].singleshot THEN 0 ELSE 1
      OBVIOUS
    <3>3. nDedicated' = nDedicated - k
      BY <1>16, <3>2
    <3> QED BY <1>15, <3>1, <3>3, ZeroStays
  <2> QED BY <1>2, <1>12, <2>1, <2>2 DEF Stopping, rzVars
<1> QED BY <1>13, <1>17, <1>18, <1>20, <1>22, <1>23 DEF ConnectionsOK

\* With the last reference the connection is gone, and can be used anew.
LEMMA DeleteStateKeeps ==
  ASSUME IInv, NEW w \in Workers, DeleteState(w)
  PROVE  IInv'
<1> USE DEF IInv
<1>1. worker[w].at = "deleting" /\ UNCHANGED <<serverVars, counters, rzVars>>
  BY DEF DeleteState, UnchangedByStep
<1>2. worker \in [Workers -> WorkerType] /\ conn \in [Connections -> ConnectionType]
  BY DEF Types
<1>3. PICK c \in Connections : worker[w].conn = c /\ ConnectionOK(c)
  <2>1. worker[w].conn # None /\ worker[w].conn \in Connections \cup {None}
    BY <1>1, <1>2 DEF Employed, WorkerType
  <2> QED BY <2>1 DEF ConnectionsOK
<1>4. ~conn[c].known
  BY <1>1, <1>3 DEF ConnectionOK, InTable, LivePlaces
<1>5. /\ conn[c].refs = 1 /\ ~Accepted(c)
      /\ \A v \in Workers : worker[v].conn = c => v = w
  BY <1>3, <1>4 DEF ConnectionOK, OffTable
<1>6. PICK x : x = NoConnection
  OBVIOUS
<1>7. /\ conn' = [conn EXCEPT ![c] = x]
      /\ worker' = [worker EXCEPT ![w] = NoWorker]
  <2>1. conn' = [conn EXCEPT ![c] = NoConnection]
    BY <1>3, <1>5 DEF DeleteState
  <2> QED BY <1>6, <2>1 DEF DeleteState
<1>8. /\ x \in ConnectionType /\ ~x.known /\ x.refs = 0 /\ x.n_workers = 0
      /\ ~x.pending /\ ~x.dying
  BY <1>6 DEF NoConnection, ConnectionType
<1>9. /\ conn' \in [Connections -> ConnectionType] /\ conn'[c] = x
      /\ \A d \in Connections : d # c => conn'[d] = conn[d]
  BY <1>2, <1>7, <1>8
<1>10. /\ worker'[w].at = "none" /\ worker'[w].conn = None /\ OthersStay(w)
       /\ worker' \in [Workers -> WorkerType]
       /\ \A d \in Connections : worker'[w].conn # d
  BY <1>2, <1>7, Staff DEF OthersStay
<1>11. Types'
  BY <1>1, <1>9, <1>10 DEF Types, serverVars, params, rzVars
<1>12. /\ Temporary' = Temporary /\ Dedicated' = Dedicated
       /\ \A d : LiveOn(d)' = LiveOn(d)
  BY <1>1, <1>10, SameWithoutEnded
<1>13. CountsServer' /\ Employed'
  <2>1. CountsServer'
    BY <1>1, <1>12 DEF CountsServer, counters
  <2> QED BY <1>10, <2>1 DEF Employed, OthersStay
<1>14. \A d \in Connections : Accepted(d)' <=> Accepted(d)
  BY <1>1 DEF Accepted, rzVars
<1>15. ASSUME NEW d \in Connections, d # c PROVE ConnectionOK(d)'
  <2>1. StaffSame(d)
    BY <1>3, <1>10, <1>15 DEF StaffSame, OthersStay
  <2>2. Alike(d)
    BY <1>9, <1>15 DEF Alike
  <2> QED BY <1>14, <2>1, <2>2, AlikeKeeps DEF ConnectionsOK
<1>16. ConnectionOK(c)'
  <2>1. LiveOn(c)' = {}
    BY <1>1, <1>5, <1>12 DEF LiveOn, LivePlaces
  <2>2. CountsOf(c)'
    BY <1>8, <1>9, <2>1, FS_EmptySet DEF CountsOf
  <2>3. InTable(c)' /\ Noticed(c)'
    BY <1>8, <1>9 DEF InTable, Noticed
  <2>4. \A v \in Workers : worker'[v].conn # c
    BY <1>5, <1>10 DEF OthersStay
  <2>5. OneReads(c)'
    BY <2>4 DEF OneReads
  <2>6. OffTable(c)'
    BY <1>5, <1>8, <1>9, <1>14, <2>4 DEF OffTable, Unharmed
  <2> QED BY <2>2, <2>3, <2>5, <2>6 DEF ConnectionOK
<1>17. Stopping'
  <2>1. \A d \in Connections :
          conn'[d].known => conn[d].known /\ conn'[d].dedicated = conn[d].dedicated
                            /\ conn'[d].link = conn[d].link
    BY <1>8, <1>9
  <2>2. (\A v \in Workers : worker[v].at \in {"none", "deleting"})
          => \A v \in Workers : worker'[v].at \in {"none", "deleting"}
    BY <1>10 DEF OthersStay
  <2> QED BY <1>1, <2>1, <2>2 DEF Stopping, serverVars, rzVars, counters
<1> QED BY <1>11, <1>13, <1>15, <1>16, <1>17 DEF ConnectionsOK

LEMMA WorkKeeps ==
  ASSUME IInv, NEW w \in Workers,
         Work(w) \/ GatekeeperRefuses(w) \/ Cancelled(w)
  PROVE  IInv'
<1>1. CASE Remove(w)
  BY <1>1, RemoveLastKeeps, RemoveNotLastKeeps
<1>2. CASE GatekeeperPasses(w) \/ AcquireServer(w) \/ GatekeeperRefuses(w)
  BY <1>2, GatekeeperPassesKeeps, AcquireServerKeeps, GatekeeperRefusesKeeps
<1>3. CASE WakeUp(w) \/ EndMessage(w) \/ UpcallReturns(w)
  BY <1>3, MoveStepsKeep
<1>4. CASE ReadFails(w) \/ ReplyFails(w)
  BY <1>4, StrandDiesKeeps
<1>5. CASE Cancelled(w) \/ PreUpCall(w) \/ SetSelectable(w)
  BY <1>5, ReadStepsKeep
<1>6. CASE MarkDying(w) \/ ClearSelectable(w)
  BY <1>6, ErrorStepsKeep
<1>7. CASE ReadRequest(w) \/ ReleaseServer(w) \/ WorkerDone(w) \/ DeleteState(w)
  BY <1>7, ReadRequestKeeps, ReleaseServerKeeps, WorkerDoneKeeps, DeleteStateKeeps
<1> QED BY <1>1, <1>2, <1>3, <1>4, <1>5, <1>6, <1>7 DEF Work

-----------------------------------------------------------------------------
(* Steps of the clients, the rendezvouser, the scavenger and stop() that     *)
(* employ nobody.                                                            *)

LEMMA AllAlikeKeeps ==
  ASSUME IInv, UNCHANGED <<worker, counters>>, Types', Stopping',
         \A c \in Connections : Alike(c) /\ (Accepted(c)' <=> Accepted(c))
  PROVE  IInv'
<1>1. CountsServer' /\ Employed'
  <2>1. Temporary' = Temporary /\ Dedicated' = Dedicated
    BY DEF Temporary, Dedicated
  <2> QED BY <2>1 DEF IInv, CountsServer, Employed, counters
<1>2. ASSUME NEW c \in Connections PROVE ConnectionOK(c)'
  <2>1. StaffSame(c)
    BY DEF StaffSame
  <2> QED BY <2>1, AlikeKeeps DEF IInv, ConnectionsOK
<1> QED BY <1>1, <1>2 DEF IInv, ConnectionsOK

\* One connection that is not in the table, nor has a worker, is made new.
Renewed(c) ==
  /\ \A w \in Workers : worker[w].conn # c
  /\ ~conn'[c].known /\ conn'[c].n_workers = 0
  /\ ~conn'[c].pending /\ ~conn'[c].dying
  /\ conn'[c].refs = IF Accepted(c)' THEN 1 ELSE 0

LEMMA RenewedKeeps ==
  ASSUME IInv, UNCHANGED <<worker, counters>>, Types', Stopping',
         NEW c \in Connections, Renewed(c),
         \A d \in Connections : d # c => Alike(d) /\ (Accepted(d)' <=> Accepted(d))
  PROVE  IInv'
<1>1. CountsServer' /\ Employed'
  <2>1. Temporary' = Temporary /\ Dedicated' = Dedicated
    BY DEF Temporary, Dedicated
  <2> QED BY <2>1 DEF IInv, CountsServer, Employed, counters
<1>2. ASSUME NEW d \in Connections, d # c PROVE ConnectionOK(d)'
  <2>1. StaffSame(d)
    BY DEF StaffSame
  <2> QED BY <1>2, <2>1, AlikeKeeps DEF IInv, ConnectionsOK
<1>3. ConnectionOK(c)'
  <2>1. LiveOn(c)' = {}
    BY DEF LiveOn, Renewed
  <2>2. CountsOf(c)'
    BY <2>1, FS_EmptySet DEF CountsOf, Renewed
  <2>3. InTable(c)' /\ Noticed(c)' /\ OneReads(c)'
    BY DEF InTable, Noticed, OneReads, Renewed
  <2>4. OffTable(c)'
    BY DEF OffTable, Unharmed, Renewed
  <2> QED BY <2>2, <2>3, <2>4 DEF ConnectionOK
<1> QED BY <1>1, <1>2, <1>3 DEF IInv, ConnectionsOK

\* Where only connections change, in what decides about nothing else.
LinksStay == \A c \in Connections :
  /\ Alike(c)
  /\ conn[c].link = "shut" => conn'[c].link = "shut"

LEMMA LinksStayKeeps ==
  ASSUME IInv, UNCHANGED <<worker, counters, serverVars, rendezvouser, fresh, poked, endpoint>>,
         LinksStay, conn' \in [Connections -> ConnectionType], toNotify' \subseteq Connections
  PROVE  IInv'
<1>1. Types'
  BY DEF IInv, Types, serverVars, params
<1>2. Stopping'
  BY DEF IInv, Stopping, LinksStay, Alike, serverVars, counters
<1>3. \A c \in Connections : Alike(c) /\ (Accepted(c)' <=> Accepted(c))
  BY DEF LinksStay, Accepted
<1> QED BY <1>1, <1>2, <1>3, AllAlikeKeeps

LEMMA ConnectionsTyped ==
  ASSUME IInv
  PROVE  conn \in [Connections -> ConnectionType] /\ worker \in [Workers -> WorkerType]
BY DEF IInv, Types

LEMMA ClientKeeps ==
  ASSUME IInv, NEW c \in Connections,
         SendRequest(c) \/ PeerCloses(c) \/ Expire(c) \/ CloseIdle(c)
  PROVE  IInv'
<1>1. conn \in [Connections -> ConnectionType]
  BY ConnectionsTyped
<1>2. PICK x : /\ conn' = [conn EXCEPT ![c] = x]
               /\ \/ x = [conn[c] EXCEPT !.socket = @ + 1]
                  \/ x = [conn[c] EXCEPT !.link = "closed"] /\ conn[c].link = "up"
                  \/ x = [conn[c] EXCEPT !.idle = "expired"]
                  \/ x = [conn[c] EXCEPT !.strand = "DYING", !.link = "shut"]
  <2>1. CASE SendRequest(c)
    <3>1. conn' = [conn EXCEPT ![c] = [conn[c] EXCEPT !.socket = @ + 1]]
      BY <1>1, <2>1 DEF SendRequest
    <3> QED BY <3>1
  <2>2. CASE PeerCloses(c)
    BY <1>1, <2>2 DEF PeerCloses
  <2>3. CASE Expire(c)
    BY <1>1, <2>3 DEF Expire
  <2>4. CASE CloseIdle(c)
    <3>1. conn' = [conn EXCEPT ![c] = [conn[c] EXCEPT !.strand = "DYING", !.link = "shut"]]
      BY <1>1, <2>4 DEF CloseIdle
    <3> QED BY <3>1
  <2> QED BY <2>1, <2>2, <2>3, <2>4
<1>3. UNCHANGED <<worker, counters, serverVars, rzVars>>
  BY DEF SendRequest, PeerCloses, Expire, CloseIdle, UnchangedByStep
<1>4. /\ x \in ConnectionType /\ x.refs = conn[c].refs /\ x.known = conn[c].known
      /\ x.dedicated = conn[c].dedicated /\ x.dying = conn[c].dying
      /\ x.n_workers = conn[c].n_workers /\ x.pending = conn[c].pending
      /\ x.checked = conn[c].checked
      /\ conn[c].strand = "DYING" => x.strand = "DYING"
      /\ conn[c].link = "shut" => x.link = "shut"
  <2>1. conn[c] \in ConnectionType /\ conn[c].socket + 1 \in Nat
    BY <1>1 DEF ConnectionType
  <2> QED BY <1>2, <2>1, ZenonT(40) DEF ConnectionType
<1>5. conn' \in [Connections -> ConnectionType] /\ conn'[c] = x
      /\ \A d \in Connections : d # c => conn'[d] = conn[d]
  BY <1>1, <1>2, <1>4
<1>6. LinksStay
  <2>1. ASSUME NEW d \in Connections
        PROVE  Alike(d) /\ (conn[d].link = "shut" => conn'[d].link = "shut")
    <3>1. CASE d = c
      BY <1>4, <1>5, <3>1 DEF Alike
    <3>2. CASE d # c
      BY <1>5, <3>2 DEF Alike
    <3> QED BY <3>1, <3>2
  <2> QED BY <2>1 DEF LinksStay
<1>7. toNotify' \subseteq Connections
  BY <1>3 DEF IInv, Types, rzVars
<1> QED BY <1>3, <1>5, <1>6, <1>7, LinksStayKeeps DEF rzVars

LEMMA RzSelectKeeps ==
  ASSUME IInv, RzSelect
  PROVE  IInv'
<1>1. conn \in [Connections -> ConnectionType]
  BY ConnectionsTyped
<1>2. PICK S \in SUBSET Selected :
        LET told == {c \in S : conn[c].buffered \/ ~Peeking(c)} IN
        /\ toNotify' = told
        /\ conn' = [c \in Connections |->
             IF c \in told
             THEN [conn[c] EXCEPT !.selectable = FALSE, !.buffered = FALSE]
             ELSE IF c \in S THEN [conn[c] EXCEPT !.peek_go = TRUE]
             ELSE conn[c]]
  BY DEF RzSelect
<1>3. \A c \in Connections :
        \/ conn'[c] = [conn[c] EXCEPT !.selectable = FALSE, !.buffered = FALSE]
        \/ conn'[c] = [conn[c] EXCEPT !.peek_go = TRUE]
        \/ conn'[c] = conn[c]
  BY <1>2
<1>4. ASSUME NEW c \in Connections
      PROVE  conn'[c] \in ConnectionType /\ Alike(c) /\ conn'[c].link = conn[c].link
  <2>1. conn[c] \in ConnectionType
    BY <1>1
  <2>2. CASE conn'[c] = [conn[c] EXCEPT !.selectable = FALSE, !.buffered = FALSE]
    BY <2>1, <2>2 DEF ConnectionType, Alike
  <2>3. CASE conn'[c] = [conn[c] EXCEPT !.peek_go = TRUE]
    BY <2>1, <2>3 DEF ConnectionType, Alike
  <2>4. CASE conn'[c] = conn[c]
    BY <2>1, <2>4 DEF Alike
  <2> QED BY <1>3, <2>2, <2>3, <2>4
<1>5. conn' \in [Connections -> ConnectionType]
  <2>1. conn' = [c \in Connections |-> conn'[c]]
    BY <1>2
  <2> QED BY <1>4, <2>1
<1>6. LinksStay
  BY <1>4 DEF LinksStay
<1>7. toNotify' \subseteq Connections
  BY <1>2 DEF Selected
<1> QED BY <1>5, <1>6, <1>7, LinksStayKeeps DEF RzSelect

LEMMA AlikeWhenSame ==
  ASSUME UNCHANGED conn
  PROVE  \A c \in Connections : Alike(c)
BY DEF Alike

LEMMA StartAndStopKeep ==
  ASSUME IInv, StartServer \/ StopRendezvousers \/ Deactivated \/ RzPoked
  PROVE  IInv'
<1> USE DEF IInv
<1>1. UNCHANGED <<worker, counters, conn>>
  BY DEF StartServer, StopRendezvousers, Deactivated, RzPoked
<1>2. \A c \in Connections : Alike(c)
  BY <1>1, AlikeWhenSame
<1>3. Types' /\ Stopping' /\ \A c \in Connections : Accepted(c)' <=> Accepted(c)
  <2>1. CASE StartServer
    <3>1. rendezvouser = "none" /\ rendezvouser' \in {"none", "select"} /\ stage = "none"
      BY <2>1 DEF StartServer, Types, Stopping
    <3>2. Types'
      BY <2>1, <3>1 DEF StartServer, Types, params
    <3>3. Stopping'
      BY <2>1, <3>1 DEF StartServer, Stopping
    <3> QED BY <3>1, <3>2, <3>3 DEF Accepted
  <2>2. CASE RzPoked
    <3>1. /\ rendezvouser = "select" /\ rendezvouser' = "none" /\ poked
          /\ endpoint' = (state = "INFLUX")
          /\ UNCHANGED <<serverVars, counters, conn, worker, fresh, toNotify, poked>>
      BY <2>2 DEF RzPoked
    <3>2. Types'
      BY <3>1 DEF Types, serverVars, params
    <3>3. Stopping'
      BY <3>1 DEF Stopping, Types, serverVars, counters
    <3> QED BY <3>1, <3>2, <3>3 DEF Accepted
  <2>3. CASE StopRendezvousers
    <3>1. state = "INFLUX" /\ timedOut' \in BOOLEAN
      BY <2>3 DEF StopRendezvousers, WaitEnds, Types
    <3>2. ~timedOut' => nDedicated = 0
      <4>1. SUFFICES ASSUME Known = {} PROVE nDedicated = 0
        BY <2>3, <3>1 DEF StopRendezvousers, WaitEnds
      <4>2. ASSUME NEW w \in Dedicated PROVE FALSE
        <5>1. w \in Workers /\ worker[w].at \in LivePlaces
          BY ConnectionsTyped DEF Dedicated, LivePlaces, WorkerType
        <5>2. worker[w].conn \in Known
          BY <5>1, AtWork DEF Known
        <5> QED BY <4>1, <5>2
      <4> QED BY <4>2, FS_EmptySet DEF CountsServer
    <3>3. Types'
      BY <2>3, <3>1 DEF StopRendezvousers, Types, params
    <3>4. Stopping'
      BY <2>3, <3>1, <3>2 DEF StopRendezvousers, Stopping, counters
    <3> QED BY <2>3, <3>3, <3>4 DEF StopRendezvousers, Accepted
  <2>4. CASE Deactivated
    <3>1. /\ stage = "temporary" /\ stage' = "none" /\ state = "INFLUX"
          /\ timedOut' \in BOOLEAN /\ WaitEnds(nTemporary = 0)
          /\ state' = (IF timedOut' THEN "TIMEDOUT" ELSE "IDLE")
          /\ UNCHANGED <<params, threadPer, counters, conn, worker, rzVars>>
      BY <2>4 DEF Deactivated, WaitEnds, Types
    <3>2. Types'
      BY <3>1 DEF Types, params, rzVars
    <3>3. state' = "IDLE" => ~timedOut /\ nTemporary = 0 /\ nDedicated = 0
      BY <3>1 DEF WaitEnds, Stopping
    <3>4. state' = "IDLE" => \A w \in Workers : worker[w].at \in {"none", "deleting"}
      <4>1. nTemporary = 0 /\ nDedicated = 0 => Temporary = {} /\ Dedicated = {}
        BY CountsAreNat, FS_EmptySet DEF CountsServer
      <4>2. ASSUME NEW w \in Workers, Temporary = {}, Dedicated = {}
            PROVE  worker[w].at \in {"none", "deleting"}
        BY <4>2 DEF Temporary, Dedicated
      <4> QED BY <3>3, <4>1, <4>2
    <3>5. Stopping'
      BY <3>1, <3>3, <3>4 DEF Stopping, rzVars, counters
    <3> QED BY <3>1, <3>2, <3>5 DEF Accepted, rzVars
  <2> QED BY <2>1, <2>2, <2>3, <2>4
<1> QED BY <1>1, <1>2, <1>3, AllAlikeKeeps

LEMMA DeactivateKeeps ==
  ASSUME IInv, Deactivate
  PROVE  IInv'
<1> USE DEF IInv
<1>1. conn \in [Connections -> ConnectionType]
  BY ConnectionsTyped
<1>2. \A c \in Connections :
        IF c \in Known /\ conn[c].dedicated
        THEN conn'[c] = [conn[c] EXCEPT !.link = "shut"] ELSE conn'[c] = conn[c]
  BY DEF Deactivate, Shut, Known
<1>3. ASSUME NEW c \in Connections
      PROVE  /\ conn'[c] \in ConnectionType /\ Alike(c)
             /\ conn'[c].known /\ conn'[c].dedicated => conn'[c].link = "shut"
  <2>1. conn[c] \in ConnectionType
    BY <1>1
  <2>2. CASE c \in Known /\ conn[c].dedicated
    <3>1. conn'[c] = [conn[c] EXCEPT !.link = "shut"]
      BY <1>2, <2>2
    <3> QED BY <2>1, <3>1 DEF ConnectionType, Alike
  <2>3. CASE ~(c \in Known /\ conn[c].dedicated)
    <3>1. conn'[c] = conn[c]
      BY <1>2, <2>3
    <3> QED BY <2>1, <2>3, <3>1 DEF Known, Alike
  <2> QED BY <2>2, <2>3
<1>4. conn' \in [Connections -> ConnectionType]
  <2>1. conn' = [c \in Connections |-> conn'[c]]
    BY DEF Deactivate, Shut
  <2> QED BY <1>3, <2>1
<1>5. Types'
  BY <1>4 DEF Deactivate, Types, params, rzVars
<1>6. Stopping'
  BY <1>3 DEF Deactivate, Stopping, rzVars
<1>7. UNCHANGED <<worker, counters>> /\ \A c \in Connections : Accepted(c)' <=> Accepted(c)
  BY DEF Deactivate, Accepted, rzVars
<1> QED BY <1>3, <1>5, <1>6, <1>7, AllAlikeKeeps

\* Nobody works for a connection that the rendezvouser has just accepted.
LEMMA FreshIsIdle ==
  ASSUME IInv, rendezvouser = "accepted"
  PROVE  /\ fresh \in Connections /\ ~conn[fresh].known /\ conn[fresh].refs = 1
         /\ Unharmed(fresh) /\ conn[fresh].n_workers = 0
         /\ \A w \in Workers : worker[w].conn # fresh
<1>1. fresh \in Connections /\ ConnectionOK(fresh) /\ Accepted(fresh)
  BY DEF IInv, Types, ConnectionsOK, Accepted
<1>2. ~conn[fresh].known
  BY <1>1 DEF ConnectionOK, InTable
<1>3. \A w \in Workers : worker[w].conn # fresh
  BY <1>1, <1>2 DEF ConnectionOK, OffTable
<1>4. LiveOn(fresh) = {}
  BY <1>3 DEF LiveOn
<1>5. conn[fresh].n_workers = 0
  BY <1>1, <1>4, FS_EmptySet DEF ConnectionOK, CountsOf
<1> QED BY <1>1, <1>2, <1>3, <1>5 DEF ConnectionOK, OffTable

LEMMA GivenUpKeeps ==
  ASSUME IInv, RzRefuse \/ RzTerminate
  PROVE  IInv'
<1> USE DEF IInv
<1>1. rendezvouser = "accepted"
  BY DEF RzRefuse, RzTerminate
<1>2. PICK c : c = fresh
  OBVIOUS
<1>3. c \in Connections /\ (\A w \in Workers : worker[w].conn # c)
  BY <1>1, <1>2, FreshIsIdle
<1>4. conn \in [Connections -> ConnectionType]
  BY ConnectionsTyped
<1>5. conn' = [conn EXCEPT ![c] = NoConnection]
  BY <1>2 DEF RzRefuse, RzTerminate
<1>6. /\ UNCHANGED <<worker, counters, params, state, stage, timedOut, toNotify, poked>>
      /\ rendezvouser' = (IF state = "ACTIVE" THEN "select" ELSE "none") /\ fresh' = None
      /\ endpoint' = (IF state = "ACTIVE" THEN endpoint ELSE TRUE)
      /\ threadPer' \in {FALSE, policy}
  BY DEF RzRefuse, RzTerminate, Types, serverVars, Suspended, Restored
<1>7. /\ NoConnection \in ConnectionType /\ ~NoConnection.known /\ NoConnection.n_workers = 0
      /\ ~NoConnection.pending /\ ~NoConnection.dying /\ NoConnection.refs = 0
  BY DEF NoConnection, ConnectionType
<1>8. /\ conn' \in [Connections -> ConnectionType] /\ conn'[c] = NoConnection
      /\ \A d \in Connections : d # c => conn'[d] = conn[d]
  BY <1>3, <1>4, <1>5, <1>7
<1>9. Types'
  BY <1>6, <1>8 DEF Types, params
<1>10. Stopping'
  <2>1. \A d \in Connections :
          conn'[d].known => conn[d].known /\ conn'[d].dedicated = conn[d].dedicated
                            /\ conn'[d].link = conn[d].link
    BY <1>7, <1>8
  <2> QED BY <1>1, <1>6, <2>1 DEF Stopping, counters
<1>11. Renewed(c)
  BY <1>3, <1>6, <1>7, <1>8 DEF Renewed, Accepted
<1>12. \A d \in Connections : d # c => Alike(d) /\ (Accepted(d)' <=> Accepted(d))
  BY <1>2, <1>6, <1>8 DEF Alike, Accepted
<1> QED BY <1>3, <1>6, <1>9, <1>10, <1>11, <1>12, RenewedKeeps

LEMMA RzAcceptKeeps ==
  ASSUME IInv, NEW c \in Connections, RzAccept(c)
  PROVE  IInv'
<1> USE DEF IInv
<1>1. /\ conn \in [Connections -> ConnectionType] /\ conn[c] \in ConnectionType
      /\ ConnectionOK(c)
  BY ConnectionsTyped DEF ConnectionsOK
<1>2. PICK x : x = [conn[c] EXCEPT !.refs = 1, !.link = "up"]
  OBVIOUS
<1>3. conn' = [conn EXCEPT ![c] = x]
  <2>1. conn' = [conn EXCEPT ![c].refs = 1, ![c].link = "up"]
    BY DEF RzAccept
  <2> QED BY <1>1, <1>2, <2>1
<1>4. /\ rendezvouser = "select" /\ rendezvouser' = "accepted" /\ fresh' = c
      /\ UNCHANGED <<serverVars, counters, worker, toNotify, poked, endpoint>>
  BY DEF RzAccept
<1>5. \A w \in Workers : worker[w].conn # c
  BY DEF RzAccept, On
<1>6. ~conn[c].known
  BY <1>1 DEF RzAccept, ConnectionOK, InTable
<1>7. ~conn[c].pending /\ ~conn[c].dying /\ conn[c].n_workers = 0
  <2>1. LiveOn(c) = {}
    BY <1>5 DEF LiveOn
  <2> QED BY <1>1, <1>5, <1>6, <2>1, FS_EmptySet
        DEF ConnectionOK, OffTable, Unharmed, CountsOf
<1>8. /\ x \in ConnectionType /\ x.refs = 1 /\ ~x.known /\ x.n_workers = 0
      /\ ~x.pending /\ ~x.dying
  <2>1. PICK r \in 0 .. 2 : r = 1
    OBVIOUS
  <2>2. x = [conn[c] EXCEPT !.refs = r, !.link = "up"]
    BY <1>2, <2>1
  <2> QED BY <1>1, <1>6, <1>7, <2>1, <2>2 DEF ConnectionType
<1>9. /\ conn' \in [Connections -> ConnectionType] /\ conn'[c] = x
      /\ \A d \in Connections : d # c => conn'[d] = conn[d]
  BY <1>1, <1>3, <1>8
<1>10. Types'
  BY <1>4, <1>9 DEF Types, serverVars, params
<1>11. Stopping'
  <2>1. \A d \in Connections :
          conn'[d].known => conn[d].known /\ conn'[d].dedicated = conn[d].dedicated
                            /\ conn'[d].link = conn[d].link
    BY <1>8, <1>9
  <2> QED BY <1>4, <2>1 DEF Stopping, serverVars, counters
<1>12. Renewed(c)
  BY <1>4, <1>5, <1>8, <1>9 DEF Renewed, Accepted
<1>13. \A d \in Connections : d # c => Alike(d) /\ (Accepted(d)' <=> Accepted(d))
  BY <1>4, <1>9 DEF Alike, Accepted
<1> QED BY <1>4, <1>10, <1>11, <1>12, <1>13, RenewedKeeps

LEMMA RzWatchKeeps ==
  ASSUME IInv, RzWatch
  PROVE  IInv'
<1> USE DEF IInv
<1>1. conn \in [Connections -> ConnectionType] /\ fresh \in Connections
  BY ConnectionsTyped DEF Types, RzWatch
<1>2. PICK c \in Connections : c = fresh
  BY <1>1
<1>3. PICK x : x = [conn[c] EXCEPT !.selectable = TRUE]
  OBVIOUS
<1>4. conn' = [conn EXCEPT ![c] = x]
  BY <1>2, <1>3 DEF RzWatch
<1>5. /\ rendezvouser = "insert" /\ rendezvouser' = "select" /\ fresh' = None
      /\ UNCHANGED <<serverVars, counters, worker, toNotify, poked, endpoint>>
  BY DEF RzWatch
<1>6. Retouched(c, x) /\ x.dying = conn[c].dying
  <2>1. conn[c] \in ConnectionType
    BY <1>1
  <2> QED BY <1>3, <2>1 DEF Retouched, ConnectionType
<1>7. /\ conn' \in [Connections -> ConnectionType] /\ conn'[c] = x
      /\ \A d \in Connections : d # c => conn'[d] = conn[d]
  BY <1>1, <1>4, <1>6 DEF Retouched
<1>8. ASSUME NEW d \in Connections PROVE Alike(d) /\ conn'[d].link = conn[d].link
  <2>1. CASE d = c
    BY <1>6, <1>7, <2>1 DEF Alike, Retouched
  <2>2. CASE d # c
    BY <1>7, <2>2 DEF Alike
  <2> QED BY <2>1, <2>2
<1>9. Types'
  BY <1>5, <1>7 DEF Types, serverVars, params
<1>10. Stopping'
  BY <1>5, <1>8 DEF Stopping, Alike, serverVars, counters
<1>11. \A d \in Connections : Accepted(d)' <=> Accepted(d)
  BY <1>5 DEF Accepted
<1> QED BY <1>5, <1>8, <1>9, <1>10, <1>11, AllAlikeKeeps

-----------------------------------------------------------------------------
(* Workers that are started. *)

\* c is in the table when w begins to work for it.
Joined(w, c, single) ==
  /\ conn'[c].known /\ conn'[c].n_workers = conn[c].n_workers + 1
  /\ ~Accepted(c)'
  /\ \/ /\ conn[c].known /\ conn'[c].dedicated = conn[c].dedicated
        /\ conn'[c].checked = conn[c].checked /\ conn'[c].pending = conn[c].pending
        /\ conn'[c].strand = conn[c].strand
     \/ \A v \in Workers : worker[v].conn # c
  /\ ~single => conn'[c].dedicated
  /\ conn'[c].refs = IF conn'[c].pending /\ ~InUse(c) THEN 1 ELSE 2
  /\ conn'[c].pending /\ InUse(c) => conn'[c].strand = "DYING"

LEMMA JoinedKeeps ==
  ASSUME NEW c \in Connections, ConnectionOK(c), NEW w \in Workers, NEW single \in BOOLEAN,
         worker[w].conn # c, worker'[w].at = "start", worker'[w].conn = c,
         worker'[w].singleshot = single, Joined(w, c, single),
         \A v \in Workers : v # w /\ (worker[v].conn = c \/ worker'[v].conn = c)
                             => worker'[v] = worker[v],
         LiveOn(c)' = LiveOn(c) \cup {w}
  PROVE  ConnectionOK(c)'
<1> USE DEF ConnectionOK
<1>1. Cardinality(LiveOn(c))' = Cardinality(LiveOn(c)) + 1
  <2>1. w \notin LiveOn(c)
    BY DEF LiveOn
  <2>2. Cardinality(LiveOn(c) \cup {w}) = Cardinality(LiveOn(c)) + 1
    BY <2>1, CountsAreNat, FS_AddElement
  <2> QED BY <2>2
<1>2. CountsOf(c)'
  BY <1>1 DEF CountsOf, Joined
<1>3. \A v \in Workers : worker'[v].conn = c /\ v # w =>
        worker'[v] = worker[v] /\ worker[v].conn = c
  OBVIOUS
<1>4. \A v \in Workers : worker[v].conn = c => v # w /\ worker'[v] = worker[v]
  OBVIOUS
<1>5. InUse(c)' <=> InUse(c)
  BY <1>3, <1>4 DEF InUse, UsePlaces, ServePlaces, ReadPlaces
<1>6. ASSUME NEW v \in Workers, worker'[v].conn = c
      PROVE  /\ worker'[v].at \in LivePlaces
             /\ ~conn'[c].checked => worker'[v].at \in {"start"} \cup LostPlaces
             /\ worker'[v].at \in LostPlaces => conn'[c].pending
             /\ worker'[v].at \in {"failed", "broken"} => conn'[c].strand = "DYING"
             /\ ~worker'[v].singleshot => conn'[c].dedicated
  <2>1. CASE v = w
    BY <2>1 DEF Joined, LivePlaces, Places, LostPlaces
  <2>2. CASE v # w
    <3>1. worker'[v] = worker[v] /\ worker[v].conn = c
      BY <1>3, <1>6, <2>2
    <3> QED BY <3>1 DEF InTable, Joined
  <2> QED BY <2>1, <2>2
<1>7. InTable(c)'
  BY <1>5, <1>6 DEF InTable, Joined
<1>8. OffTable(c)'
  BY DEF OffTable, Joined
<1>9. OneReads(c)'
  BY <1>3 DEF OneReads, ReadPlaces
<1>10. Noticed(c)'
  BY CountsAreNat DEF Noticed, CountsOf, Joined
<1> QED BY <1>2, <1>7, <1>8, <1>9, <1>10

\* w begins to work for c, which is in the table then.
Joins(w, c, single) ==
  /\ worker[w].at = "none" /\ worker' = [worker EXCEPT ![w] = Start(c, single)]
  /\ nTemporary' = nTemporary + (IF single THEN 1 ELSE 0)
  /\ nDedicated' = nDedicated + (IF single THEN 0 ELSE 1)
  /\ Joined(w, c, single)

LEMMA JoinKeeps ==
  ASSUME IInv, Types', Stopping', NEW w \in Workers, NEW c \in Connections,
         NEW single \in BOOLEAN, Joins(w, c, single),
         \A d \in Connections : d # c => Alike(d) /\ (Accepted(d)' <=> Accepted(d))
  PROVE  IInv'
<1> USE DEF IInv
<1>1. worker[w].at = "none" /\ worker' = [worker EXCEPT ![w] = Start(c, single)]
  BY DEF Joins
<1>2. worker \in [Workers -> WorkerType] /\ worker[w].conn = None /\ None # c /\ ConnectionOK(c)
  BY <1>1, Staff DEF Types, Employed, ConnectionsOK
<1>3. /\ worker'[w] = Start(c, single) /\ worker'[w].at = "start" /\ worker'[w].conn = c
      /\ worker'[w].singleshot = single /\ OthersStay(w)
  BY <1>1, <1>2, Staff DEF OthersStay
<1>4. PICK one \in 0 .. 1, two \in 0 .. 1 :
        one = (IF single THEN 1 ELSE 0) /\ two = (IF single THEN 0 ELSE 1)
  OBVIOUS
<1>5. /\ Cardinality(Temporary)' = Cardinality(Temporary) + one
      /\ Cardinality(Dedicated)' = Cardinality(Dedicated) + two
      /\ Cardinality(LiveOn(c))' = Cardinality(LiveOn(c)) + 1
      /\ \A d \in Connections : d # c => LiveOn(d)' = LiveOn(d)
  BY <1>1, <1>2, <1>3, <1>4, OneStarts
<1>6. CountsServer'
  BY <1>4, <1>5 DEF CountsServer, Joins
<1>7. Employed'
  BY <1>2, <1>3 DEF Employed, OthersStay
<1>8. ASSUME NEW d \in Connections, d # c PROVE ConnectionOK(d)'
  <2>1. worker[w].conn # d
    BY <1>2, Staff
  <2>2. StaffSame(d)
    BY <1>3, <1>8, <2>1 DEF StaffSame, OthersStay
  <2> QED BY <1>8, <2>2, AlikeKeeps DEF ConnectionsOK
<1>9. ConnectionOK(c)'
  <2>1. LiveOn(c)' = LiveOn(c) \cup {w}
    BY <1>2, <1>3 DEF LiveOn, OthersStay, LivePlaces, Places
  <2>2. \A v \in Workers : v # w /\ (worker[v].conn = c \/ worker'[v].conn = c)
                             => worker'[v] = worker[v]
    BY <1>3 DEF OthersStay
  <2> QED BY <1>2, <1>3, <2>1, <2>2, JoinedKeeps DEF Joins
<1> QED BY <1>6, <1>7, <1>8, <1>9 DEF ConnectionsOK

LEMMA RzNotifyKeeps ==
  ASSUME IInv, NEW c \in Connections, RzNotify(c)
  PROVE  IInv'
<1> USE DEF IInv
<1>1. /\ conn \in [Connections -> ConnectionType] /\ conn[c] \in ConnectionType
      /\ ConnectionOK(c)
  BY ConnectionsTyped DEF ConnectionsOK
<1>2. /\ UNCHANGED <<serverVars, rendezvouser, fresh, poked, endpoint>>
      /\ toNotify' \subseteq Connections /\ NotifyReadable(c)
  BY DEF RzNotify, Types
<1>3. \A d \in Connections : Accepted(d)' <=> Accepted(d)
  BY <1>2 DEF Accepted
<1>4. CASE state \notin {"ACTIVE", "INFLUX"} \/ conn[c].dying \/ ~conn[c].known
  <2>1. UNCHANGED <<conn, worker, counters>>
    BY <1>2, <1>4 DEF NotifyReadable
  <2>2. LinksStay
    BY <2>1 DEF LinksStay, Alike
  <2> QED BY <1>1, <1>2, <2>1, <2>2, LinksStayKeeps
<1>5. CASE /\ ~(state \notin {"ACTIVE", "INFLUX"} \/ conn[c].dying \/ ~conn[c].known)
           /\ conn[c].n_workers >= MaxWorkers
  <2>1. conn' = [conn EXCEPT ![c].hit_limit = TRUE] /\ UNCHANGED <<worker, counters>>
    BY <1>2, <1>5 DEF NotifyReadable
  <2>2. PICK x : x = [conn[c] EXCEPT !.hit_limit = TRUE]
    OBVIOUS
  <2>3. Retouched(c, x) /\ x.dying = conn[c].dying
    BY <1>1, <2>2 DEF Retouched, ConnectionType
  <2>4. /\ conn' \in [Connections -> ConnectionType] /\ conn'[c] = x
        /\ \A d \in Connections : d # c => conn'[d] = conn[d]
    BY <1>1, <2>1, <2>2, <2>3 DEF Retouched
  <2>5. ASSUME NEW d \in Connections
        PROVE  Alike(d) /\ (conn[d].link = "shut" => conn'[d].link = "shut")
    <3>1. CASE d = c
      BY <2>3, <2>4, <3>1 DEF Alike, Retouched
    <3>2. CASE d # c
      BY <2>4, <3>2 DEF Alike
    <3> QED BY <3>1, <3>2
  <2>6. LinksStay
    BY <2>5 DEF LinksStay
  <2> QED BY <1>2, <2>1, <2>4, <2>6, LinksStayKeeps
<1>6. CASE /\ ~(state \notin {"ACTIVE", "INFLUX"} \/ conn[c].dying \/ ~conn[c].known)
           /\ ~(conn[c].n_workers >= MaxWorkers)
  <2>1. PICK w \in Free : AddWorker(c, w, TRUE)
    BY <1>2, <1>6 DEF NotifyReadable
  <2>2. w \in Workers /\ worker[w].at = "none"
    BY DEF Free
  <2>3. PICK n \in Nat : n = conn[c].n_workers + 1
    BY <1>1 DEF ConnectionType
  <2>4. PICK x : x = [conn[c] EXCEPT !.n_workers = n]
    OBVIOUS
  <2>5. conn' = [conn EXCEPT ![c] = x]
    <3>1. conn' = [conn EXCEPT ![c].n_workers = @ + 1]
      BY <1>2, <1>6 DEF NotifyReadable
    <3> QED BY <1>1, <2>3, <2>4, <3>1
  <2>6. /\ x \in ConnectionType /\ x.refs = conn[c].refs /\ x.known = conn[c].known
        /\ x.dedicated = conn[c].dedicated /\ x.n_workers = conn[c].n_workers + 1
        /\ x.strand = conn[c].strand /\ x.pending = conn[c].pending
        /\ x.checked = conn[c].checked /\ x.link = conn[c].link
    BY <1>1, <2>3, <2>4 DEF ConnectionType
  <2>7. /\ conn' \in [Connections -> ConnectionType] /\ conn'[c] = x
        /\ \A d \in Connections : d # c => conn'[d] = conn[d]
    BY <1>1, <2>5, <2>6
  <2>8. worker' = [worker EXCEPT ![w] = Start(c, TRUE)]
    BY <2>1 DEF AddWorker
  <2>9. worker' \in [Workers -> WorkerType]
    BY <2>2, <2>8, Staff, ConnectionsTyped
  <2>10. /\ nTemporary' = nTemporary + (IF TRUE THEN 1 ELSE 0)
         /\ nDedicated' = nDedicated + (IF TRUE THEN 0 ELSE 1) /\ nDedicated' = nDedicated
    <3>1. nDedicated \in Nat
      BY CountsAreNat DEF CountsServer
    <3> QED BY <2>1, <3>1 DEF AddWorker
  <2>11. Types'
    BY <1>2, <2>7, <2>9 DEF Types, serverVars, params
  <2>12. Stopping'
    <3>1. \A d \in Connections :
            conn'[d].known = conn[d].known /\ conn'[d].dedicated = conn[d].dedicated
            /\ conn'[d].link = conn[d].link
      BY <2>6, <2>7
    <3> QED BY <1>2, <1>6, <2>10, <3>1 DEF Stopping, serverVars
  <2>13. InTable(c) /\ ~Accepted(c)' /\ conn[c].known
    BY <1>1, <1>3, <1>6 DEF ConnectionOK, InTable
  <2>14. Joins(w, c, TRUE)
    BY <2>2, <2>6, <2>7, <2>8, <2>10, <2>13 DEF Joins, Joined, InTable
  <2>15. \A d \in Connections : d # c => Alike(d) /\ (Accepted(d)' <=> Accepted(d))
    BY <1>3, <2>7 DEF Alike
  <2> QED BY <2>2, <2>11, <2>12, <2>14, <2>15, JoinKeeps
<1> QED BY <1>4, <1>5, <1>6

\* What csInsert() makes of a connection.
LEMMA InsertOf ==
  ASSUME IInv, RzNewConnection
  PROVE  \E c \in Connections : \E per \in BOOLEAN, n \in {0, 1} : \E x \in ConnectionType :
           /\ c = fresh /\ threadPer' = per /\ per \in {FALSE, policy}
           /\ n = (IF per THEN 1 ELSE 0)
           /\ conn' = [conn EXCEPT ![c] = x] /\ conn'[c] = x
           /\ conn' \in [Connections -> ConnectionType]
           /\ \A d \in Connections : d # c => conn'[d] = conn[d]
           /\ x.refs = 2 /\ x.known /\ x.dedicated = per /\ x.n_workers = n
           /\ ~x.pending /\ ~x.dying
<1>1. conn \in [Connections -> ConnectionType]
  BY ConnectionsTyped
<1>2. PICK c \in Connections : c = fresh /\ Unharmed(c)
  BY FreshIsIdle DEF RzNewConnection
<1>3. conn[c] \in ConnectionType
  BY <1>1
<1>4. PICK per \in BOOLEAN : per = Suspended(Cardinality(Known) + 1) /\ per \in {FALSE, policy}
  BY DEF IInv, Types, Suspended
<1>5. PICK n \in {0, 1} : n = (IF per THEN 1 ELSE 0)
  OBVIOUS
<1>6. PICK r \in 0 .. 2 : r = 2
  OBVIOUS
<1>7. PICK x : x = [conn[c] EXCEPT !.refs = r, !.known = TRUE, !.idle = "on",
                                   !.dedicated = per, !.n_workers = n]
  OBVIOUS
<1>8. threadPer' = per /\ conn' = [conn EXCEPT ![c] = x]
  BY <1>2, <1>4, <1>5, <1>6, <1>7 DEF RzNewConnection, Insert
<1>9. /\ x \in ConnectionType /\ x.refs = 2 /\ x.known /\ x.dedicated = per /\ x.n_workers = n
      /\ x.pending = conn[c].pending /\ x.dying = conn[c].dying
  <2>1. n \in Nat
    OBVIOUS
  <2> QED BY <1>3, <1>6, <1>7, <2>1 DEF ConnectionType
<1>10. /\ conn' \in [Connections -> ConnectionType] /\ conn'[c] = x
       /\ \A d \in Connections : d # c => conn'[d] = conn[d]
  BY <1>1, <1>8, <1>9
<1> QED BY <1>2, <1>4, <1>5, <1>8, <1>9, <1>10 DEF Unharmed

LEMMA RzNewConnectionKeeps ==
  ASSUME IInv, RzNewConnection
  PROVE  IInv'
<1> USE DEF IInv
<1>1. PICK c \in Connections : \E per \in BOOLEAN, n \in {0, 1} : \E x \in ConnectionType :
           /\ c = fresh /\ threadPer' = per /\ per \in {FALSE, policy}
           /\ n = (IF per THEN 1 ELSE 0)
           /\ conn' = [conn EXCEPT ![c] = x] /\ conn'[c] = x
           /\ conn' \in [Connections -> ConnectionType]
           /\ \A d \in Connections : d # c => conn'[d] = conn[d]
           /\ x.refs = 2 /\ x.known /\ x.dedicated = per /\ x.n_workers = n
           /\ ~x.pending /\ ~x.dying
  BY InsertOf
<1>2. /\ rendezvouser = "accepted" /\ state = "ACTIVE" /\ stage = "none"
      /\ UNCHANGED <<params, state, stage, timedOut, toNotify, poked, endpoint>>
  BY DEF RzNewConnection, Types
<1>3. /\ ~conn[c].known /\ conn[c].n_workers = 0 /\ c = fresh
      /\ \A w \in Workers : worker[w].conn # c
  BY <1>1, <1>2, FreshIsIdle
<1>4. PICK per \in BOOLEAN, n \in {0, 1}, x \in ConnectionType :
           /\ threadPer' = per /\ per \in {FALSE, policy}
           /\ n = (IF per THEN 1 ELSE 0) /\ conn'[c] = x
           /\ conn' \in [Connections -> ConnectionType]
           /\ \A d \in Connections : d # c => conn'[d] = conn[d]
           /\ x.refs = 2 /\ x.known /\ x.dedicated = per /\ x.n_workers = n
           /\ ~x.pending /\ ~x.dying
  BY <1>1
<1>5. /\ threadPer' \in {FALSE, policy} /\ conn' \in [Connections -> ConnectionType]
      /\ \A d \in Connections : d # c => conn'[d] = conn[d]
      /\ conn'[c].refs = 2 /\ conn'[c].known /\ ~conn'[c].pending /\ ~conn'[c].dying
      /\ conn'[c].n_workers = (IF threadPer' THEN 1 ELSE 0)
      /\ conn'[c].dedicated = threadPer' /\ threadPer' \in BOOLEAN
  BY <1>4
<1>6. rendezvouser' \in {"select", "insert"}
      /\ (rendezvouser' = "insert" => fresh' = fresh) /\ (rendezvouser' = "select" => fresh' = None)
  BY DEF RzNewConnection
<1>7. \A d \in Connections : ~Accepted(d)'
  BY <1>6 DEF Accepted
<1>8. \A d \in Connections : d # c => Alike(d) /\ (Accepted(d)' <=> Accepted(d))
  BY <1>3, <1>5, <1>7 DEF Alike, Accepted
<1>9. Stopping'
  BY <1>2, <1>6 DEF Stopping, Types
<1>10. CASE threadPer'
  <2>1. PICK w \in Free : AddWorker(c, w, FALSE)
    BY <1>3, <1>10 DEF RzNewConnection
  <2>2. /\ w \in Workers /\ worker[w].at = "none"
        /\ worker' = [worker EXCEPT ![w] = Start(c, FALSE)]
    BY <2>1 DEF Free, AddWorker
  <2>3. worker' \in [Workers -> WorkerType]
    BY <2>2, Staff, ConnectionsTyped
  <2>4. Types'
    BY <1>2, <1>5, <1>6, <2>3, <1>3 DEF Types, params
  <2>5. /\ nTemporary' = nTemporary + (IF FALSE THEN 1 ELSE 0)
        /\ nDedicated' = nDedicated + (IF FALSE THEN 0 ELSE 1)
    BY <2>1 DEF AddWorker
  <2>6. Joins(w, c, FALSE)
    <3>1. conn'[c].n_workers = conn[c].n_workers + 1
      BY <1>3, <1>5, <1>10
    <3>2. conn'[c].dedicated
      BY <1>5, <1>10
    <3>3. /\ conn'[c].refs = IF conn'[c].pending /\ ~InUse(c) THEN 1 ELSE 2
          /\ conn'[c].pending /\ InUse(c) => conn'[c].strand = "DYING"
      BY <1>5
    <3> QED BY <1>3, <1>5, <1>7, <2>2, <2>5, <3>1, <3>2, <3>3 DEF Joins, Joined
  <2> QED BY <1>8, <1>9, <2>2, <2>4, <2>6, JoinKeeps
<1>11. CASE ~threadPer'
  <2>1. UNCHANGED <<worker, counters>>
    BY <1>11 DEF RzNewConnection
  <2>2. Types'
    BY <1>2, <1>3, <1>5, <1>6, <2>1 DEF Types, params
  <2>3. CountsServer' /\ Employed'
    <3>1. Temporary' = Temporary /\ Dedicated' = Dedicated
      BY <2>1 DEF Temporary, Dedicated
    <3> QED BY <2>1, <3>1 DEF CountsServer, Employed, counters
  <2>4. ASSUME NEW d \in Connections, d # c PROVE ConnectionOK(d)'
    <3>1. StaffSame(d)
      BY <2>1 DEF StaffSame
    <3> QED BY <1>8, <2>4, <3>1, AlikeKeeps DEF ConnectionsOK
  <2>5. ConnectionOK(c)'
    <3>1. \A w \in Workers : worker'[w].conn # c
      BY <1>3, <2>1
    <3>2. LiveOn(c)' = {}
      BY <3>1 DEF LiveOn
    <3>3. CountsOf(c)'
      BY <1>5, <1>11, <3>2, FS_EmptySet DEF CountsOf
    <3>4. InTable(c)'
      BY <1>5, <1>7, <3>1 DEF InTable
    <3>5. OffTable(c)' /\ OneReads(c)' /\ Noticed(c)'
      BY <1>5, <3>1 DEF OffTable, OneReads, Noticed
    <3> QED BY <3>3, <3>4, <3>5 DEF ConnectionOK
  <2> QED BY <1>9, <2>2, <2>3, <2>4, <2>5 DEF ConnectionsOK
<1> QED BY <1>10, <1>11

\* Where there are enough free workers, each of the remaining connections gets one.
LEMMA InjectionExists ==
  ASSUME NEW S, NEW T, IsFiniteSet(S), IsFiniteSet(T), Cardinality(T) >= Cardinality(S)
  PROVE  \E f \in [S -> T] : \A c \in S, d \in S : f[c] = f[d] => c = d
<1>1. /\ Cardinality(S) \in Nat /\ ExistsBijection(1 .. Cardinality(S), S)
      /\ Cardinality(T) \in Nat /\ ExistsBijection(1 .. Cardinality(T), T)
  BY FS_CardinalityType
<1>2. ExistsInjection(S, 1 .. Cardinality(S)) /\ ExistsInjection(1 .. Cardinality(T), T)
  BY <1>1, Fun_ExistsBijEquiv
<1>3. ExistsInjection(1 .. Cardinality(S), 1 .. Cardinality(T))
  BY <1>1, Fun_NatInjLeq
<1>4. ExistsInjection(S, T)
  <2>1. ExistsInjection(S, 1 .. Cardinality(T))
    BY <1>2, <1>3, Fun_ExistsInjTransitive
  <2> QED BY <1>2, <2>1, Fun_ExistsInjTransitive
<1>5. PICK f : f \in Injection(S, T)
  BY <1>4, Fun_ExistsInj
<1>6. f \in [S -> T] /\ \A a, b \in S : f[a] = f[b] => a = b
  BY <1>5, Fun_InjectionProperties
<1> QED BY <1>6

LEMMA ImageOfInjection ==
  ASSUME NEW S, NEW T, IsFiniteSet(S), NEW f \in [S -> T],
         \A c \in S, d \in S : f[c] = f[d] => c = d,
         NEW U, U = {f[c] : c \in S}
  PROVE  IsFiniteSet(U) /\ Cardinality(U) = Cardinality(S)
<1>1. f \in Injection(S, U)
  BY DEF Injection, IsInjective
<1>2. f \in Surjection(S, U)
  <2>1. f \in [S -> U] /\ \A u \in U : \E c \in S : f[c] = u
    OBVIOUS
  <2> QED BY <2>1 DEF Surjection
<1> QED BY <1>1, <1>2, FS_Surjection

Remaining == {c \in Known : ~conn[c].dedicated}

\* Whom CloseRemaining starts.
LEMMA RemainingGetWorkers ==
  ASSUME IInv, CloseRemaining
  PROVE  \E pick \in [Remaining -> Free] :
           /\ \A c \in Remaining, d \in Remaining : pick[c] = pick[d] => c = d
           /\ \A c \in Remaining : worker'[pick[c]] = Start(c, TRUE)
           /\ \A w \in Workers : (\A c \in Remaining : pick[c] # w) => worker'[w] = worker[w]
           /\ worker' = [w \in Workers |-> worker'[w]]
<1>1. Remaining \in SUBSET Connections /\ Free \in SUBSET Workers
  BY DEF Remaining, Known, Free
<1>2. IsFiniteSet(Remaining) /\ IsFiniteSet(Free)
  BY <1>1, FiniteAssumption, FS_Subset
<1>3. Cardinality(Free) >= Cardinality(Remaining)
  BY DEF CloseRemaining, Remaining
<1>4. \E f \in [Remaining -> Free] : \A c \in Remaining, d \in Remaining : f[c] = f[d] => c = d
  BY <1>2, <1>3, InjectionExists
<1>5. PICK pick : pick = CHOOSE f \in [Remaining -> Free] :
                           \A c, d \in Remaining : f[c] = f[d] => c = d
  OBVIOUS
<1>6. /\ pick \in [Remaining -> Free]
      /\ \A c \in Remaining, d \in Remaining : pick[c] = pick[d] => c = d
  BY <1>4, <1>5
<1>7. worker' = [w \in Workers |->
         IF \E c \in Remaining : pick[c] = w
         THEN Start(CHOOSE c \in Remaining : pick[c] = w, TRUE) ELSE worker[w]]
  BY <1>5 DEF CloseRemaining, Remaining
<1>8. ASSUME NEW c \in Remaining PROVE worker'[pick[c]] = Start(c, TRUE)
  <2>1. pick[c] \in Workers
    BY <1>1, <1>6
  <2>2. (CHOOSE d \in Remaining : pick[d] = pick[c]) = c
    BY <1>6
  <2> QED BY <1>7, <2>1, <2>2
<1>9. \A w \in Workers : (\A c \in Remaining : pick[c] # w) => worker'[w] = worker[w]
  BY <1>7
<1>10. worker' = [w \in Workers |-> worker'[w]]
  BY <1>7
<1> QED BY <1>6, <1>8, <1>9, <1>10

LEMMA CloseRemainingKeeps ==
  ASSUME IInv, CloseRemaining
  PROVE  IInv'
<1> USE DEF IInv
<1>1. /\ conn \in [Connections -> ConnectionType] /\ worker \in [Workers -> WorkerType]
      /\ \A c \in Connections : ConnectionOK(c)
  BY ConnectionsTyped DEF ConnectionsOK
<1>2. PICK pick \in [Remaining -> Free] :
           /\ \A c \in Remaining, d \in Remaining : pick[c] = pick[d] => c = d
           /\ \A c \in Remaining : worker'[pick[c]] = Start(c, TRUE)
           /\ \A w \in Workers : (\A c \in Remaining : pick[c] # w) => worker'[w] = worker[w]
           /\ worker' = [w \in Workers |-> worker'[w]]
  BY RemainingGetWorkers
<1>3. PICK Taking : Taking = {pick[c] : c \in Remaining}
  OBVIOUS
<1>4. /\ stage = "rendezvousers" /\ stage' = "temporary" /\ state = "INFLUX"
      /\ UNCHANGED <<params, threadPer, state, nDedicated, rzVars>>
      /\ WaitEnds(rendezvouser = "none") /\ timedOut' \in BOOLEAN
      /\ nTemporary' = nTemporary + Cardinality(Remaining)
  BY DEF CloseRemaining, Remaining, WaitEnds, Types
<1>5. \A c \in Connections :
        conn'[c] = IF c \in Remaining
                   THEN [conn[c] EXCEPT !.link = "shut", !.n_workers = @ + 1] ELSE conn[c]
  BY DEF CloseRemaining, Remaining
<1>6. /\ Remaining \subseteq Connections
      /\ \A c \in Remaining : /\ pick[c] \in Workers /\ worker[pick[c]].at = "none"
                              /\ worker[pick[c]].conn = None
  BY <1>1, <1>2 DEF Remaining, Known, Free, Employed
<1>7. ASSUME NEW c \in Remaining
      PROVE  /\ worker'[pick[c]].at = "start" /\ worker'[pick[c]].conn = c
             /\ worker'[pick[c]].singleshot = TRUE /\ worker'[pick[c]] \in WorkerType
             /\ c # None
  <2>1. c \in Connections /\ worker'[pick[c]] = Start(c, TRUE)
    BY <1>2, <1>6
  <2> QED BY <2>1, Staff
<1>8. \A w \in Workers : \/ w \notin Taking /\ worker'[w] = worker[w]
                         \/ \E c \in Remaining :
                              /\ w = pick[c] /\ w \in Taking /\ c # None
                              /\ worker[w].at = "none" /\ worker[w].conn = None
                              /\ worker'[w].at = "start" /\ worker'[w].conn = c
                              /\ worker'[w].singleshot = TRUE /\ worker'[w] \in WorkerType
  <2> SUFFICES ASSUME NEW w \in Workers
               PROVE  \/ w \notin Taking /\ worker'[w] = worker[w]
                      \/ \E c \in Remaining :
                           /\ w = pick[c] /\ w \in Taking /\ c # None
                           /\ worker[w].at = "none" /\ worker[w].conn = None
                           /\ worker'[w].at = "start" /\ worker'[w].conn = c
                           /\ worker'[w].singleshot = TRUE /\ worker'[w] \in WorkerType
    OBVIOUS
  <2>1. CASE \E c \in Remaining : pick[c] = w
    <3>1. PICK c \in Remaining : pick[c] = w
      BY <2>1
    <3>2. /\ worker'[pick[c]].at = "start" /\ worker'[pick[c]].conn = c
          /\ worker'[pick[c]].singleshot = TRUE /\ worker'[pick[c]] \in WorkerType
          /\ c # None /\ worker[pick[c]].at = "none" /\ worker[pick[c]].conn = None
      BY <1>6, <1>7
    <3>3. w \in Taking
      BY <1>3, <3>1
    <3> QED BY <3>1, <3>2, <3>3
  <2>2. CASE ~\E c \in Remaining : pick[c] = w
    <3>1. w \notin Taking
      BY <1>3, <2>2
    <3> QED BY <1>2, <2>2, <3>1
  <2> QED BY <2>1, <2>2
<1>9. worker' \in [Workers -> WorkerType]
  <2>1. \A w \in Workers : worker'[w] \in WorkerType
    BY <1>1, <1>8
  <2> QED BY <1>2, <2>1
<1>10. ASSUME NEW c \in Remaining
       PROVE  /\ conn'[c] \in ConnectionType /\ conn'[c].link = "shut"
              /\ conn'[c].n_workers = conn[c].n_workers + 1
              /\ conn'[c].refs = conn[c].refs /\ conn'[c].known = conn[c].known
              /\ conn'[c].dedicated = conn[c].dedicated
              /\ conn'[c].checked = conn[c].checked /\ conn'[c].pending = conn[c].pending
              /\ conn'[c].strand = conn[c].strand
  <2>1. conn[c] \in ConnectionType
    BY <1>1, <1>6
  <2>2. PICK n \in Nat : n = conn[c].n_workers + 1
    BY <2>1 DEF ConnectionType
  <2>3. conn'[c] = [conn[c] EXCEPT !.link = "shut", !.n_workers = conn[c].n_workers + 1]
    BY <1>5, <1>6
  <2>4. conn'[c] = [conn[c] EXCEPT !.link = "shut", !.n_workers = n]
    BY <2>2, <2>3
  <2> QED BY <2>1, <2>2, <2>4 DEF ConnectionType
<1>11. \A c \in Connections : c \notin Remaining => conn'[c] = conn[c]
  BY <1>5
<1>12. conn' \in [Connections -> ConnectionType]
  <2>1. \A c \in Connections : conn'[c] \in ConnectionType
    BY <1>1, <1>10, <1>11
  <2>2. conn' = [c \in Connections |-> conn'[c]]
    BY DEF CloseRemaining
  <2> QED BY <2>1, <2>2
<1>13. Types'
  BY <1>4, <1>9, <1>12 DEF Types, params, rzVars
<1>14. CountsServer'
  <2>1. Taking \cap Temporary = {} /\ Temporary' = Temporary \cup Taking
        /\ Dedicated' = Dedicated
    <3>1. Taking \cap Temporary = {} /\ Taking \cap Dedicated = {} /\ Taking \subseteq Workers
      BY <1>3, <1>6 DEF Temporary, Dedicated
    <3>2. \A w \in Taking : worker'[w].at = "start" /\ worker'[w].singleshot = TRUE
      <4>1. Taking \subseteq Workers
        BY <3>1
      <4> QED BY <1>8, <4>1
    <3> QED BY <1>8, <3>1, <3>2 DEF Temporary, Dedicated
  <2>2. IsFiniteSet(Remaining)
    BY <1>6, FiniteAssumption, FS_Subset
  <2>3. IsFiniteSet(Taking) /\ Cardinality(Taking) = Cardinality(Remaining)
    <3>1. PICK T : T = Free
      OBVIOUS
    <3>2. pick \in [Remaining -> T]
      BY <3>1
    <3>3. \A c \in Remaining, d \in Remaining : pick[c] = pick[d] => c = d
      BY <1>2
    <3> QED BY <1>3, <2>2, <3>2, <3>3, ImageOfInjection, SMTT(30)
  <2>4. Cardinality(Temporary \cup Taking) = Cardinality(Temporary) + Cardinality(Taking)
    <3>1. Cardinality(Temporary \cup Taking)
            = Cardinality(Temporary) + Cardinality(Taking) - Cardinality(Temporary \cap Taking)
      BY <2>3, CountsAreNat, FS_Union
    <3>2. Temporary \cap Taking = {}
      BY <2>1
    <3>3. Cardinality(Temporary \cap Taking) = 0
      BY <3>2, FS_EmptySet
    <3>4. Cardinality(Taking) \in Nat
      BY <2>3, FS_CardinalityType
    <3> QED BY <3>1, <3>3, <3>4, CountsAreNat
  <2>5. nTemporary' = Cardinality(Temporary \cup Taking)
    BY <1>4, <2>3, <2>4 DEF CountsServer
  <2> QED BY <1>4, <2>1, <2>5 DEF CountsServer
<1>15. Employed'
  BY <1>8 DEF Employed
<1>16. \A d \in Connections : Accepted(d)' <=> Accepted(d)
  BY <1>4 DEF Accepted, rzVars
<1>17. ASSUME NEW c \in Connections, c \notin Remaining PROVE ConnectionOK(c)'
  <2>1. ASSUME NEW v \in Workers, worker[v].conn = c \/ worker'[v].conn = c
        PROVE  worker'[v] = worker[v]
    <3>1. CASE v \in Taking
      <4>1. PICK d \in Remaining : worker[v].conn = None /\ worker'[v].conn = d
        BY <1>8, <3>1
      <4> QED BY <1>17, <2>1, <4>1, Staff
    <3>2. CASE v \notin Taking
      BY <1>8, <3>2
    <3> QED BY <3>1, <3>2
  <2>2. StaffSame(c)
    BY <2>1 DEF StaffSame
  <2>3. Alike(c)
    BY <1>11, <1>17 DEF Alike
  <2> QED BY <1>1, <1>16, <2>2, <2>3, AlikeKeeps
<1>18. ASSUME NEW c \in Remaining PROVE ConnectionOK(c)'
  <2>1. PICK w \in Workers : w = pick[c]
    BY <1>6
  <2>2. /\ worker[w].conn = None /\ worker[w].conn # c /\ worker'[w].at = "start"
        /\ worker'[w].conn = c /\ worker'[w].singleshot = TRUE
    BY <1>6, <1>7, <2>1, ZenonT(40)
  <2>3. ASSUME NEW v \in Workers, v # w, worker[v].conn = c \/ worker'[v].conn = c
        PROVE  worker'[v] = worker[v]
    <3>1. CASE v \in Taking
      <4>1. PICK d \in Remaining :
              v = pick[d] /\ worker[v].conn = None /\ worker'[v].conn = d /\ d # None
        BY <1>8, <3>1
      <4>2. c # None
        BY <1>7
      <4> QED BY <2>1, <2>3, <4>1, <4>2
    <3>2. CASE v \notin Taking
      BY <1>8, <3>2
    <3> QED BY <3>1, <3>2
  <2>4. LiveOn(c)' = LiveOn(c) \cup {w}
    <3>1. \A v \in Workers : v # w => (v \in LiveOn(c)' <=> v \in LiveOn(c))
      BY <2>3 DEF LiveOn
    <3>2. w \in LiveOn(c)'
      BY <2>2 DEF LiveOn, LivePlaces, Places
    <3>3. LiveOn(c)' \subseteq Workers /\ LiveOn(c) \subseteq Workers
      BY DEF LiveOn
    <3> QED BY <3>1, <3>2, <3>3
  <2>5. c \in Connections /\ conn[c].known /\ InTable(c) /\ ~Accepted(c)' /\ ConnectionOK(c)
    BY <1>1, <1>6, <1>16 DEF Remaining, Known, ConnectionOK, InTable
  <2>6. Joined(w, c, TRUE)
    BY <1>10, <2>5 DEF Joined, InTable
  <2> QED BY <2>2, <2>3, <2>4, <2>5, <2>6, JoinedKeeps
<1>19. Stopping'
  <2>1. \A c \in Connections :
          /\ conn'[c].known = conn[c].known /\ conn'[c].dedicated = conn[c].dedicated
          /\ conn[c].link = "shut" => conn'[c].link = "shut"
    BY <1>10, <1>11
  <2>2. \A c \in Connections : conn'[c].known => conn'[c].link = "shut"
    <3>1. ASSUME NEW c \in Connections, conn'[c].known PROVE conn'[c].link = "shut"
      <4>1. CASE c \in Remaining
        BY <1>10, <4>1
      <4>2. CASE c \notin Remaining
        <5>1. conn[c].known /\ conn[c].dedicated
          BY <2>1, <3>1, <4>2 DEF Remaining, Known
        <5> QED BY <1>4, <1>11, <4>2, <5>1 DEF Stopping
      <4> QED BY <4>1, <4>2
    <3> QED BY <3>1
  <2>3. ~timedOut' => ~timedOut /\ rendezvouser = "none"
    BY <1>4 DEF WaitEnds
  <2> QED BY <1>4, <2>1, <2>2, <2>3 DEF Stopping, rzVars
<1> QED BY <1>13, <1>14, <1>15, <1>17, <1>18, <1>19 DEF ConnectionsOK

-----------------------------------------------------------------------------
(* IInv is an invariant. *)

LEMMA InitIInv == Init => IInv
<1> SUFFICES ASSUME Init PROVE IInv
  OBVIOUS
<1>1. /\ NoConnection \in ConnectionType /\ ~NoConnection.known /\ NoConnection.n_workers = 0
      /\ ~NoConnection.pending /\ ~NoConnection.dying /\ NoConnection.refs = 0
  BY DEF NoConnection, ConnectionType
<1>2. /\ conn = [c \in Connections |-> NoConnection] /\ worker = [w \in Workers |-> NoWorker]
      /\ rendezvouser = "none"
  BY DEF Init
<1>3. Types
  BY <1>1, Staff, LimitsAssumption DEF Init, Types
<1>4. CountsServer
  <2>1. Temporary = {} /\ Dedicated = {}
    BY <1>2, Staff DEF Temporary, Dedicated
  <2> QED BY <2>1, FS_EmptySet DEF CountsServer, Init
<1>5. Employed
  BY <1>2, Staff DEF Employed
<1>6. ASSUME NEW c \in Connections PROVE ConnectionOK(c)
  <2>1. \A w \in Workers : worker[w].conn # c
    BY <1>2, Staff
  <2>2. CountsOf(c)
    <3>1. LiveOn(c) = {}
      BY <2>1 DEF LiveOn
    <3> QED BY <1>1, <1>2, <3>1, FS_EmptySet DEF CountsOf
  <2>3. InTable(c) /\ OffTable(c) /\ OneReads(c) /\ Noticed(c)
    BY <1>1, <1>2, <2>1 DEF InTable, OffTable, OneReads, Noticed, Unharmed, Accepted
  <2> QED BY <2>2, <2>3 DEF ConnectionOK
<1>7. Stopping
  BY <1>1, <1>2, Staff DEF Init, Stopping
<1> QED BY <1>3, <1>4, <1>5, <1>6, <1>7 DEF IInv, ConnectionsOK

LEMMA StutterKeeps == IInv /\ UNCHANGED vars => IInv'
<1> SUFFICES ASSUME IInv, UNCHANGED vars PROVE IInv'
  OBVIOUS
<1>1. UNCHANGED <<worker, counters, serverVars, rzVars, conn>>
  BY DEF vars
<1>2. LinksStay
  BY <1>1 DEF LinksStay, Alike
<1>3. conn' \in [Connections -> ConnectionType] /\ toNotify' \subseteq Connections
  BY <1>1 DEF IInv, Types, rzVars
<1> QED BY <1>1, <1>2, <1>3, LinksStayKeeps DEF rzVars

LEMMA NextIInv == IInv /\ [Next]_vars => IInv'
<1> SUFFICES ASSUME IInv, Next PROVE IInv'
  BY StutterKeeps
<1>1. CASE Client
  BY <1>1, ClientKeeps DEF Client
<1>2. CASE Rendezvouser
  BY <1>2, RzSelectKeeps, RzNotifyKeeps, RzNewConnectionKeeps, RzWatchKeeps, GivenUpKeeps,
     StartAndStopKeep DEF Rendezvouser
<1>3. CASE Incident
  BY <1>3, GivenUpKeeps, WorkKeeps, ClientKeeps DEF Incident
<1>4. CASE StartServer \/ Deactivate \/ Stop
  BY <1>4, StartAndStopKeep, DeactivateKeeps, CloseRemainingKeeps DEF Stop
<1>5. CASE \E c \in Connections : RzAccept(c) \/ CloseIdle(c)
  BY <1>5, RzAcceptKeeps, ClientKeeps
<1>6. CASE \E w \in Workers : Work(w)
  BY <1>6, WorkKeeps
<1> QED BY <1>1, <1>2, <1>3, <1>4, <1>5, <1>6 DEF Next

\* Whatever the rendezvouser, the workers, the scavenger and stop() do, and however
\* their steps fall between each other: the counters are those of the threads, the
\* references of a connection and the verdict on its strand agree with who uses it,
\* and what a stage of deactivate() has waited for is over.
THEOREM SpecIInv == Spec => []IInv
BY InitIInv, NextIInv, PTL DEF Spec

-----------------------------------------------------------------------------
(* What follows from it. *)

LEMMA IInvTypes == IInv => TypeOK
<1> SUFFICES ASSUME IInv PROVE TypeOK
  OBVIOUS
<1>1. ASSUME NEW w \in Workers, worker[w].at \notin {"none", "deleting"}
      PROVE  worker[w].at \in LivePlaces
  BY <1>1, ConnectionsTyped DEF LivePlaces, WorkerType
<1>2. ASSUME NEW w \in Temporary \cup Dedicated PROVE conn[worker[w].conn].known
  <2>1. w \in Workers /\ worker[w].at \in LivePlaces
    BY <1>1 DEF Temporary, Dedicated
  <2> QED BY <2>1, AtWork
<1>3. ASSUME NEW c \in Connections
      PROVE  conn[c].n_workers = Cardinality(On(c) \cap (Temporary \cup Dedicated))
  <2>1. \A w \in Workers : w \in Temporary \cup Dedicated <=> worker[w].at \in LivePlaces
    <3>1. \A w \in Workers : worker[w].singleshot \in BOOLEAN
      BY ConnectionsTyped DEF WorkerType
    <3> QED BY <1>1, <3>1 DEF Temporary, Dedicated, LivePlaces
  <2>2. On(c) \cap (Temporary \cup Dedicated) = LiveOn(c)
    BY <2>1 DEF On, LiveOn
  <2> QED BY <2>2 DEF IInv, ConnectionsOK, ConnectionOK, CountsOf
<1> QED BY <1>2, <1>3 DEF IInv, Types, CountsServer, TypeOK

LEMMA IInvFreed == IInv => FreedOnce
<1> SUFFICES ASSUME IInv, NEW c \in Connections
             PROVE  /\ Cardinality(Reading(c)) <= 1
                    /\ On(c) # {} => conn[c].refs > 0
                    /\ On(c) = {} /\ ~conn[c].known /\ fresh # c => conn[c].refs = 0
                    /\ Serving(c) # {} => conn[c].refs = 2
  BY DEF FreedOnce
<1>1. ConnectionOK(c)
  BY DEF IInv, ConnectionsOK
<1>2. Cardinality(Reading(c)) <= 1
  <2>1. \A v \in Reading(c), w \in Reading(c) : v = w
    BY <1>1 DEF Reading, On, ReadPlaces, ConnectionOK, OneReads
  <2>2. CASE Reading(c) = {}
    BY <2>2, FS_EmptySet
  <2>3. CASE Reading(c) # {}
    <3>1. PICK w : Reading(c) = {w}
      BY <2>1, <2>3
    <3>2. Cardinality({w}) = 1
      BY FS_Singleton
    <3>3. Cardinality(Reading(c)) = 1
      BY <3>1, <3>2
    <3> QED BY <3>3
  <2> QED BY <2>2, <2>3
<1>3. On(c) # {} => conn[c].refs > 0
  BY <1>1 DEF On, ConnectionOK, InTable, OffTable
<1>4. On(c) = {} /\ ~conn[c].known /\ fresh # c => conn[c].refs = 0
  BY <1>1 DEF On, ConnectionOK, OffTable, Accepted
<1>5. Serving(c) # {} => conn[c].refs = 2
  <2>1. SUFFICES ASSUME NEW w \in Serving(c) PROVE conn[c].refs = 2
    OBVIOUS
  <2>2. w \in Workers /\ worker[w].conn = c /\ worker[w].at \in ServePlaces
    BY DEF Serving, Reading, On, ServePlaces, ReadPlaces
  <2>3. worker[w].at \in LivePlaces /\ InUse(c)
    BY <2>2 DEF InUse, UsePlaces, ServePlaces, ReadPlaces, LivePlaces, Places
  <2> QED BY <1>1, <2>2, <2>3, AtWork DEF ConnectionOK, InTable
<1> QED BY <1>2, <1>3, <1>4, <1>5

\* The variables of giopServer have their types; pd_n_temporary_workers,
\* pd_n_dedicated_workers and the pd_n_workers of each connection are at all times
\* the numbers of the workers there are, however threads start, end and die with
\* their connections; and a worker's connection is in pd_connectionState until the
\* last worker takes it out.
THEOREM TypesHold == Spec => []TypeOK
BY SpecIInv, IInvTypes, PTL

\* One thread at a time reads from a connection, and the reference counts of
\* notifyRzNewConnection(), safeDelete() and removeConnectionAndWorker() are right:
\* a connection exists while any thread works for it, its strand's reference is
\* given up once and not while a request is served, and a connection that is no
\* longer in the table and has no worker is deleted.
THEOREM FreedOnceOnly == Spec => []FreedOnce
BY SpecIInv, IInvFreed, PTL

\* The last worker of a connection does not go in notifyWkDone() when pd_dying is
\* set: a connection that dies in the table has a worker that will remove it.
THEOREM DyingRemoved == Spec => []DyingIsRemoved
<1>1. IInv => DyingIsRemoved
  BY DEF IInv, ConnectionsOK, ConnectionOK, Noticed, DyingIsRemoved
<1> QED BY <1>1, SpecIInv, PTL

-----------------------------------------------------------------------------
(* Whether the endpoint is there for start(), which rests on pd_poked: it is  *)
(* set for good by the first stop() that finds a rendezvouser, and from then  *)
(* on the rendezvouser may leave a server that is ACTIVE.                     *)

\* Until the second stop(), or as long as nobody has poked it, an endpoint that has
\* no rendezvouser is in pd_endpoints.
Unspoiled == stops <= 1 \/ ~poked
EndpointStays ==
  /\ stops \in Nat
  /\ poked \/ state = "INFLUX" => stops > 0
  /\ state = "ACTIVE" /\ ~poked => rendezvouser # "none"
  /\ state = "INFLUX" /\ Unspoiled => (rendezvouser = "none" => endpoint)
  /\ state = "IDLE" /\ Unspoiled => endpoint

\* What a worker does is nothing to start() and stop().
LEMMA WorkLeavesEndpoint ==
  ASSUME NEW w \in Workers, Work(w)
  PROVE  UNCHANGED <<state, stops, rzVars>>
<1>1. CASE GatekeeperPasses(w) \/ AcquireServer(w) \/ WakeUp(w) \/ ReadRequest(w)
  BY <1>1 DEF GatekeeperPasses, AcquireServer, WakeUp, ReadRequest, UnchangedByStep,
              serverVars, bounds
<1>2. CASE ReadFails(w) \/ PreUpCall(w) \/ SetSelectable(w) \/ EndMessage(w)
  BY <1>2 DEF ReadFails, PreUpCall, SetSelectable, EndMessage, UnchangedByStep,
              serverVars, bounds
<1>3. CASE UpcallReturns(w) \/ ReplyFails(w) \/ ReleaseServer(w) \/ WorkerDone(w)
  BY <1>3 DEF UpcallReturns, ReplyFails, ReleaseServer, WorkerDone, UnchangedByStep,
              serverVars, bounds
<1>4. CASE MarkDying(w) \/ ClearSelectable(w) \/ Remove(w) \/ DeleteState(w)
  BY <1>4 DEF MarkDying, ClearSelectable, Remove, DeleteState, UnchangedByStep,
              serverVars, bounds
<1> QED BY <1>1, <1>2, <1>3, <1>4 DEF Work

LEMMA EndpointKeeps ==
  ASSUME IInv, EndpointStays, [Next]_vars
  PROVE  EndpointStays'
<1> USE DEF EndpointStays, Unspoiled
<1>1. /\ state \in {"IDLE", "ACTIVE", "INFLUX", "TIMEDOUT"}
      /\ (stage = "none") = (state # "INFLUX")
  BY DEF IInv, Types
<1>2. ASSUME UNCHANGED <<state, stops, poked, endpoint>>,
             rendezvouser' = rendezvouser \/ rendezvouser' # "none"
      PROVE  EndpointStays'
  BY <1>2
<1>3. CASE Client
  BY <1>2, <1>3 DEF Client, SendRequest, PeerCloses, serverVars, rzVars
<1>4. CASE RzSelect \/ RzWatch \/ \E c \in Connections : RzNotify(c) \/ RzAccept(c)
  BY <1>2, <1>4 DEF RzSelect, RzWatch, RzNotify, RzAccept, serverVars, bounds
<1>5. CASE RzNewConnection \/ RzRefuse
  <2>1. UNCHANGED <<state, stops, poked, endpoint>> /\ rendezvouser' # "none"
    BY <1>5 DEF RzNewConnection, RzRefuse, bounds
  <2> QED BY <1>2, <2>1
<1>6. CASE RzTerminate
  BY <1>1, <1>6 DEF RzTerminate, serverVars, bounds
<1>7. CASE RzPoked
  BY <1>1, <1>7 DEF RzPoked, serverVars, bounds, IInv, Stopping
<1>8. CASE \E w \in Workers : GatekeeperRefuses(w) \/ Cancelled(w)
  BY <1>2, <1>8 DEF GatekeeperRefuses, Cancelled, serverVars, rzVars
<1>9. CASE \E c \in Connections : Expire(c) \/ CloseIdle(c)
  BY <1>2, <1>9 DEF Expire, CloseIdle, UnchangedByStep, serverVars, rzVars, bounds
<1>10. CASE StartServer
  BY <1>10 DEF StartServer, bounds
<1>11. CASE Deactivate
  BY <1>11 DEF Deactivate, rzVars
<1>12. CASE StopRendezvousers
  BY <1>1, <1>12 DEF StopRendezvousers, bounds
<1>13. CASE CloseRemaining
  BY <1>2, <1>13 DEF CloseRemaining, rzVars, bounds
<1>14. CASE Deactivated
  <2>1. state = "INFLUX" /\ UNCHANGED <<stops, rzVars>> /\ state' \in {"IDLE", "TIMEDOUT"}
    BY <1>1, <1>14 DEF Deactivated, bounds
  <2>2. state' = "IDLE" => rendezvouser = "none"
    BY <1>14 DEF Deactivated, WaitEnds, IInv, Stopping
  <2> QED BY <2>1, <2>2 DEF rzVars
<1>15. CASE \E w \in Workers : Work(w)
  BY <1>2, <1>15, WorkLeavesEndpoint DEF rzVars
<1>16. CASE UNCHANGED vars
  BY <1>2, <1>16 DEF vars, serverVars, rzVars, bounds
<1> QED BY <1>3, <1>4, <1>5, <1>6, <1>7, <1>8, <1>9, <1>10, <1>11, <1>12, <1>13, <1>14,
           <1>15, <1>16 DEF Next, Rendezvouser, Incident, Stop

\* After a stop() that did not time out in deactivate() nobody serves: the
\* connections in the table are shut, the rendezvouser has gone and no worker is
\* left but one that is deleting. After the first stop(), and for as long as no
\* stop() has poked it, the endpoint is in pd_endpoints for start(); notifyRzDone()
\* may shut it down in a server that was started again.
THEOREM IdleEmpty == Spec => []IdleIsEmpty
<1>1. Init => EndpointStays
  BY DEF Init, EndpointStays, Unspoiled
<1>2. Spec => []EndpointStays
  BY <1>1, EndpointKeeps, SpecIInv, PTL DEF Spec
<1>3. IInv /\ EndpointStays => IdleIsEmpty
  BY DEF IInv, Stopping, EndpointStays, Unspoiled, Known, IdleIsEmpty
<1> QED BY <1>2, <1>3, SpecIInv, PTL
=============================================================================
