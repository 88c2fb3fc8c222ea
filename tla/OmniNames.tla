------------------------------ MODULE OmniNames ------------------------------
(* The naming service: clients call the operations of naming contexts        *)
(* (NamingContext_i), each change is written to the redo log before it is    *)
(* made (omniNameslog), the main thread checkpoints the log (log.cc), the    *)
(* process may stop anywhere and start again. A thread holds the global lock *)
(* as RWLock promises it. resolve and list change nothing: they are calls    *)
(* that only keep their context busy. A compound name is a call to each of   *)
(* its contexts in turn.                                                     *)
EXTENDS NamingGraph

CONSTANTS
  Clients,       \* threads that carry out calls
  Ops,           \* the operations clients call
  MayDestroy,    \* the contexts they call destroy on; the code excepts none
  MaxCalls,      \* bound: calls in a behaviour
  MaxCrashes,    \* bound: how often the process is killed
  MaxFailures,   \* bound: writes to a file that fail
  Failing,       \* which writes may fail: of the "log", of the checkpoint, "ckp"
  TornCrash,     \* a crash may leave part of a record behind
  Overlap,       \* clients may call a context while it is being destroyed
  Always         \* an operator may start it with -always and without -start

VARIABLES
  name,          \* the directory: the inode each file name links to
  inode,         \* the files
  main,          \* where the main thread is
  needed,        \* checkpointNeeded
  state,         \* of each context: "none", "active", "leaving", "ending"
  bound,         \* the bindings of each context
  mode,          \* who holds the global lock, and how
  call,          \* the call each client thread carries out
  calls, crashes, failures,
  used, gone     \* history of the graph since its root was first made: the
                 \* contexts created, and those destroyed

disk == <<name, inode>>
memory == <<state, bound>>
bounds == <<calls, crashes, failures>>
history == <<used, gone>>
vars == <<disk, main, needed, memory, mode, call, bounds, history>>

FileNames == {"dat", "bak", "ckp"}
Inodes == 1..3
Main == "main"

ASSUME ThreadsAssumption == Main \notin Clients
ASSUME OpsAssumption ==
  Ops \subseteq {"bind", "rebind", "unbind", "new", "bindnew", "destroy", "resolve"}
ASSUME BoundsAssumption ==
  MaxCalls \in Nat /\ MaxCrashes \in Nat /\ MaxFailures \in Nat
ASSUME InodesAssumption == None \notin Inodes
ASSUME OperatorAssumption == Always \in BOOLEAN

Lock == INSTANCE RWLock WITH Threads <- Clients \cup {Main}

\* What a thread needs to take the lock for one action and give it back.
LockFree == \A u \in Clients \cup {Main} : mode[u] = "none"
LockOpen == \A u \in Clients \cup {Main} : mode[u] # "write"

Release_Forgotten(t) == UNCHANGED mode
Release(t) == Lock!Unlock(t)

CkpLock == Lock!ReadLock(Main)

\* What the constructor of omniNameslog sets checkpointNeeded to.
NeededAtStart_Not == 0
NeededAtStart == 1

NoCall == [op |-> "none", at |-> "idle", ctx |-> None, name |-> None,
           thing |-> None, new |-> None, reap |-> None]

\* The process takes calls once init() has released the lock.
Serving == main \notin {"down", "first", "start"}

\* The data file, and what is in a file.
Contents(f) == inode[name[f]]
Free == CHOOSE i \in Inodes : \A f \in FileNames : name[f] # i

Init ==
  /\ name = [f \in FileNames |-> None]
  /\ inode = [i \in Inodes |-> HeaderOnly]
  /\ main = "down" /\ needed = NeededAtStart
  /\ state = [c \in Contexts |-> "none"]
  /\ bound = [c \in Contexts |-> NoBindings]
  /\ Lock!RWInit
  /\ call = [t \in Clients |-> NoCall]
  /\ calls = 0 /\ crashes = 0 /\ failures = 0
  /\ used = {} /\ gone = {}

-----------------------------------------------------------------------------
(* Calls. *)

\* The context a call is carried out by: bind_new_context destroys the context
\* it made when it cannot bind it.
Target(t) ==
  IF call[t].op = "undo" THEN call[t].new ELSE call[t].ctx

\* The calls that keep a context from being etherealised: those it carries out,
\* also while the unwanted context of one of them is being taken out, and the
\* one that destroys an unwanted context.
Busy(c) == {t \in Clients :
  \/ /\ call[t].ctx = c /\ call[t].at # "idle"
     /\ call[t].at = "reap" => call[t].op = "undo"
  \/ /\ call[t].new = c /\ call[t].op = "undo"
     /\ call[t].at # "reap"}

\* Nobody has a reference to a context that is still being made.
Known(c) == \A t \in Clients : call[t].at # "idle" => call[t].new # c

\* What the environment keeps to unless Overlap: nobody calls a context that
\* someone destroys.
Quiet(op, c) ==
  /\ state[c] = "active"
  /\ op = "destroy" => Busy(c) = {}
  /\ \A t \in Busy(c) : call[t].op # "destroy"

Invoke(t) ==
  /\ Serving /\ call[t].at = "idle" /\ calls < MaxCalls
  /\ calls' = calls + 1
  /\ \E op \in Ops, c \in Contexts, n \in Names, o \in Objects :
       /\ state[c] \in {"active", "leaving"} /\ Known(c)
       /\ op = "destroy" => c \in MayDestroy
       /\ Overlap \/ Quiet(op, c)
       /\ \E new \in IF op \in {"new", "bindnew"}
                    THEN Contexts \ (used \cup {call[u].new : u \in Clients})
                    ELSE {None} :
            call' = [call EXCEPT ![t] =
              [NoCall EXCEPT !.op = op, !.at = "enter", !.ctx = c, !.new = new,
                 !.name = IF op \in {"bind", "rebind", "unbind", "bindnew"}
                          THEN n ELSE None,
                 !.thing = IF op \in {"bind", "rebind"} THEN o ELSE None]]
  /\ UNCHANGED <<disk, main, needed, memory, mode, crashes, failures, history>>

\* Whether the operation goes on to the log, under the lock, or raises
\* AlreadyBound, NotFound or NotEmpty.
GoesOn(t) ==
  CASE call[t].op \in {"bind", "bindctx"} -> bound[call[t].ctx][call[t].name] = None
    [] call[t].op = "unbind" -> bound[call[t].ctx][call[t].name] # None
    [] call[t].op \in {"destroy", "undo"} -> bound[Target(t)] = NoBindings
    [] call[t].op = "resolve" -> FALSE
    [] OTHER -> TRUE

Record(t) ==
  CASE call[t].op \in {"bind", "rebind", "bindctx"} ->
         [kind |-> "bind", ctx |-> call[t].ctx, name |-> call[t].name,
          thing |-> call[t].thing]
    [] call[t].op = "unbind" ->
         [kind |-> "unbind", ctx |-> call[t].ctx, name |-> call[t].name]
    [] call[t].op \in {"destroy", "undo"} -> [kind |-> "destroy", ctx |-> Target(t)]
    [] OTHER -> [kind |-> "create", ctx |-> call[t].new]

\* An exception: bind_new_context goes back to destroy what it made, any
\* other call is over.
Raised_NothingUndone(t) == call' = [call EXCEPT ![t].at = "leave"]
Raised(t) ==
  call' = [call EXCEPT ![t] =
    IF call[t].op = "bindctx" THEN [@ EXCEPT !.op = "undo"]
    ELSE [@ EXCEPT !.at = "leave"]]

Refused(t) ==
  /\ call[t].at = "enter" /\ ~GoesOn(t)
  /\ IF call[t].op = "resolve" THEN LockOpen ELSE LockFree
  /\ Raised(t)
  /\ UNCHANGED <<disk, main, needed, memory, mode, bounds, history>>

\* The record is in the file, whole, before the graph is touched.
Put(t) ==
  /\ call[t].at = "enter" /\ GoesOn(t)
  /\ Lock!WriteLock(t)
  /\ inode' = [inode EXCEPT ![name["dat"]] = Written(@, Record(t))]
  /\ needed' = 1
  /\ used' = IF Record(t).kind = "create" THEN used \cup {call[t].new} ELSE used
  /\ gone' = IF Record(t).kind = "destroy" THEN gone \cup {Target(t)} ELSE gone
  /\ call' = [call EXCEPT ![t].at = "logged"]
  /\ UNCHANGED <<name, main, memory, bounds>>

\* A write that fails leaves part of the record, or nothing; PERSIST_STORE.
PutFails(t) ==
  /\ call[t].at = "enter" /\ GoesOn(t) /\ "log" \in Failing /\ failures < MaxFailures
  /\ LockFree
  /\ failures' = failures + 1
  /\ \E after \in {Contents("dat"), Torn(Contents("dat"))} :
       inode' = [inode EXCEPT ![name["dat"]] = after]
  /\ Raised(t)
  /\ UNCHANGED <<name, main, needed, memory, mode, calls, crashes, history>>

\* The change itself, and the lock is released. A context that someone else is
\* destroying cannot be deactivated again: ObjectNotActive.
Apply(t) ==
  /\ call[t].at = "logged"
  /\ Release(t)
  /\ \/ /\ Record(t).kind \in {"bind", "unbind"}
        /\ bound' = BoundAfter(bound, Record(t))
        /\ UNCHANGED state
     \/ /\ Record(t).kind = "create"
        /\ state' = [state EXCEPT ![call[t].new] = "active"]
        /\ UNCHANGED bound
     \/ /\ Record(t).kind = "destroy"
        /\ state' = [state EXCEPT ![Target(t)] = "leaving"]
        /\ UNCHANGED bound
  /\ call' = [call EXCEPT ![t] =
       IF call[t].op = "bindnew"
       THEN [@ EXCEPT !.op = "bindctx", !.at = "enter", !.thing = call[t].new]
       ELSE [@ EXCEPT !.at = "leave"]]
  /\ UNCHANGED <<disk, main, needed, bounds, history>>

\* The last call to leave a context that was deactivated etherealises it.
Last_CountsItself(t, c) == state[c] = "leaving" /\ Busy(c) = {}
Last(t, c) == state[c] = "leaving" /\ Busy(c) = {t}

\* The end of an invocation, of the one on the unwanted context first.
Leave(t) ==
  /\ call[t].at = "leave"
  /\ \/ /\ Last(t, Target(t))
        /\ state' = [state EXCEPT ![Target(t)] = "ending"]
        /\ call' = [call EXCEPT ![t].at = "reap", ![t].reap = Target(t)]
     \/ /\ ~Last(t, Target(t))
        /\ call' = [call EXCEPT ![t] = IF call[t].op = "undo"
                                       THEN [@ EXCEPT !.op = "undone"] ELSE NoCall]
        /\ UNCHANGED state
  /\ UNCHANGED <<disk, main, needed, bound, mode, bounds, history>>

\* ~NamingContext_i takes the lock to leave the list of contexts.
Reap(t) ==
  /\ call[t].at = "reap"
  /\ LockFree
  /\ state' = [state EXCEPT ![call[t].reap] = "none"]
  /\ bound' = [bound EXCEPT ![call[t].reap] = NoBindings]
  /\ call' = [call EXCEPT ![t] = IF call[t].op = "undo"
       THEN [@ EXCEPT !.op = "undone", !.at = "leave", !.reap = None] ELSE NoCall]
  /\ UNCHANGED <<disk, main, needed, mode, bounds, history>>

-----------------------------------------------------------------------------
(* Start. *)

\* -start, with neither a data file nor a backup: the port is written and
\* flushed.
FirstStart ==
  /\ main = "down" /\ name["dat"] = None /\ name["bak"] = None
  /\ name' = [name EXCEPT !["dat"] = Free]
  /\ inode' = [inode EXCEPT ![Free] = HeaderOnly]
  /\ main' = "first"
  /\ UNCHANGED <<needed, memory, mode, call, bounds, history>>

\* Then the root context, and the file is closed.
FirstRoot ==
  /\ main = "first"
  /\ inode' = [inode EXCEPT ![name["dat"]] =
                 Written(@, [kind |-> "create", ctx |-> Root])]
  /\ used' = used \cup {Root}
  /\ main' = "start"
  /\ UNCHANGED <<name, needed, memory, mode, call, bounds, gone>>

\* An I/O error removes the file again and exits.
FirstFails ==
  /\ main = "first"
  /\ name' = [name EXCEPT !["dat"] = None]
  /\ main' = "down"
  /\ UNCHANGED <<inode, needed, memory, mode, call, bounds, history>>

\* Without -start, or with -always: there must be a data file.
Restart ==
  /\ main = "down" /\ name["dat"] # None
  /\ main' = "start"
  /\ UNCHANGED <<disk, needed, memory, mode, call, bounds, history>>

\* With a backup file and no data file it refuses, with -start, and without it
\* unless -always is given (or the backup cannot be removed).
RefusesToStart ==
  /\ main = "down" /\ name["dat"] = None /\ name["bak"] # None
  /\ UNCHANGED vars

\* With -always and without -start it removes the backup, finds that there is no
\* data file to read and exits. That was the end of the graph: what an unfinished
\* checkpoint may have left in .ckp is read by nobody.
RemovesBackup ==
  /\ Always
  /\ main = "down" /\ name["dat"] = None /\ name["bak"] # None
  /\ name' = [name EXCEPT !["bak"] = None]
  /\ used' = {} /\ gone' = {}
  /\ UNCHANGED <<inode, main, needed, memory, mode, call, bounds>>

\* init() reads the file under the lock; calls to a context it activates
\* wait for the lock. What is read before a torn record is kept.
Replay ==
  /\ main = "start" /\ Startable(Contents("dat"))
  /\ state' = [c \in Contexts |-> IF c \in Contents("dat").live
                                   THEN "active" ELSE "none"]
  /\ bound' = Contents("dat").bound
  /\ main' = "started"
  /\ UNCHANGED <<disk, needed, mode, call, bounds, history>>

\* A record that is refused, or no root context: nothing catches it.
ReplayDies ==
  /\ main = "start" /\ ~Startable(Contents("dat"))
  /\ main' = "down"
  /\ UNCHANGED <<disk, needed, memory, mode, call, bounds, history>>

\* A checkpoint file left by a crash may be the data file under another name.
RemoveStale_Missing == UNCHANGED name
RemoveStale == name' = [name EXCEPT !["ckp"] = None]

Started ==
  /\ main = "started"
  /\ RemoveStale
  /\ main' = "loop"
  /\ UNCHANGED <<inode, needed, memory, mode, call, bounds, history>>

-----------------------------------------------------------------------------
(* Checkpoints, by the main thread. *)

NotNeeded == main = "loop" /\ needed = 0 /\ UNCHANGED vars

\* The lock is taken as a reader and the checkpoint file opened, truncated if
\* it exists.
CkpPrepare ==
  /\ main = "loop" /\ needed = 1
  /\ CkpLock
  /\ \E i \in {IF name["ckp"] = None THEN Free ELSE name["ckp"]} :
       /\ name' = [name EXCEPT !["ckp"] = i]
       /\ inode' = [inode EXCEPT ![i] = HeaderOnly]
  /\ main' = "prepared"
  /\ UNCHANGED <<needed, memory, call, bounds, history>>

\* An I/O error abandons the checkpoint.
CkpAbandon ==
  /\ main = "prepared" /\ "ckp" \in Failing /\ failures < MaxFailures
  /\ failures' = failures + 1
  /\ Release(Main)
  /\ name' = [name EXCEPT !["ckp"] = None]
  /\ main' = "loop"
  /\ UNCHANGED <<inode, needed, memory, call, calls, crashes, history>>

\* Every context in the list is written, one being deactivated too.
Listed == {c \in Contexts : state[c] \in {"active", "leaving"}}
Snapshot_NoBindings == [HeaderOnly EXCEPT !.live = Listed]
Snapshot == [HeaderOnly EXCEPT !.live = Listed, !.bound = bound]

CkpWrite ==
  /\ main = "prepared" /\ \A c \in Contexts : state[c] # "ending"
  /\ inode' = [inode EXCEPT ![name["ckp"]] = Snapshot]
  /\ main' = "written"
  /\ UNCHANGED <<name, needed, memory, mode, call, bounds, history>>

\* The log is closed, and the old backup goes.
CkpDropBackup ==
  /\ main = "written"
  /\ name' = [name EXCEPT !["bak"] = None]
  /\ main' = "unbacked"
  /\ UNCHANGED <<inode, needed, memory, mode, call, bounds, history>>

LinkBackup_Failed == UNCHANGED name
LinkBackup == name' = [name EXCEPT !["bak"] = name["dat"]]

CkpBackup ==
  /\ main = "unbacked"
  /\ LinkBackup
  /\ main' = "backed"
  /\ UNCHANGED <<inode, needed, memory, mode, call, bounds, history>>

CkpDropData ==
  /\ main = "backed"
  /\ name' = [name EXCEPT !["dat"] = None]
  /\ main' = "dataless"
  /\ UNCHANGED <<inode, needed, memory, mode, call, bounds, history>>

CkpCommit ==
  /\ main = "dataless"
  /\ name' = [name EXCEPT !["dat"] = name["ckp"]]
  /\ main' = "committed"
  /\ UNCHANGED <<inode, needed, memory, mode, call, bounds, history>>

CkpDropCkp ==
  /\ main = "committed"
  /\ name' = [name EXCEPT !["ckp"] = None]
  /\ main' = "unlinked"
  /\ UNCHANGED <<inode, needed, memory, mode, call, bounds, history>>

\* The new log is opened for appending and the lock released.
CkpReopen ==
  /\ main = "unlinked"
  /\ Release(Main)
  /\ main' = "released"
  /\ UNCHANGED <<disk, needed, memory, call, bounds, history>>

\* Only then, without the lock.
CkpDone ==
  /\ main = "released"
  /\ needed' = 0
  /\ main' = "loop"
  /\ UNCHANGED <<disk, memory, mode, call, bounds, history>>

-----------------------------------------------------------------------------
(* The process stops. *)

\* What is not in a file is gone. A new process has checkpointNeeded set.
Down ==
  /\ main' = "down" /\ needed' = NeededAtStart
  /\ state' = [c \in Contexts |-> "none"]
  /\ bound' = [c \in Contexts |-> NoBindings]
  /\ mode' = [t \in Clients \cup {Main} |-> "none"]
  /\ call' = [t \in Clients |-> NoCall]
  /\ UNCHANGED <<name, calls, failures, history>>

\* Killed, or exit(1) after a file operation of init() or of the checkpoint
\* that fails; perhaps with a record half written.
Crash ==
  /\ main # "down" /\ crashes < MaxCrashes
  /\ crashes' = crashes + 1
  /\ Down
  /\ \/ UNCHANGED inode
     \/ /\ TornCrash /\ LockFree
        /\ \E t \in Clients : call[t].at = "enter" /\ GoesOn(t)
        /\ inode' = [inode EXCEPT ![name["dat"]] = Torn(@)]

\* The checkpoint meets a context that is etherealised but still in the list:
\* ServantNotActive, which nobody catches.
CkpDies ==
  /\ main = "prepared" /\ \E c \in Contexts : state[c] = "ending"
  /\ Down
  /\ crashes' = crashes + 1
  /\ UNCHANGED inode

-----------------------------------------------------------------------------

ClientStep(t) == \/ Refused(t) \/ Put(t) \/ PutFails(t) \/ Apply(t)
                 \/ Leave(t) \/ Reap(t)

Checkpoint == \/ CkpPrepare \/ CkpAbandon \/ CkpWrite \/ CkpDropBackup \/ CkpBackup
              \/ CkpDropData \/ CkpCommit \/ CkpDropCkp \/ CkpReopen \/ CkpDone
              \/ CkpDies

Start == \/ FirstStart \/ FirstRoot \/ FirstFails \/ Restart \/ Replay
         \/ ReplayDies \/ Started

Next == \/ \E t \in Clients : Invoke(t) \/ ClientStep(t)
        \/ Start \/ RefusesToStart \/ RemovesBackup \/ NotNeeded \/ Checkpoint
        \/ Crash

Spec == Init /\ [][Next]_vars

\* The threads run. Nothing is assumed of the clients' calls, of crashes or of
\* writes that fail, and nobody has to start the process again.
Fairness == /\ \A t \in Clients : WF_vars(Refused(t) \/ Put(t) \/ Apply(t)
                                             \/ Leave(t) \/ Reap(t))
            /\ WF_vars(CkpWrite \/ CkpDies \/ CkpDropBackup \/ CkpBackup \/ CkpDropData
                       \/ CkpCommit \/ CkpDropCkp \/ CkpReopen \/ CkpDone)

FairSpec == Spec /\ Fairness

-----------------------------------------------------------------------------
(* Properties. *)

\* The file a restart reads, or the one an operator would have to restore.
Data == IF name["dat"] # None THEN Contents("dat")
        ELSE IF name["bak"] # None THEN Contents("bak") ELSE HeaderOnly

Kept == Contexts \ gone
Memory == [live |-> {c \in Contexts : state[c] = "active"}, bound |-> bound]

CallTypes ==
  [op : {"none", "bind", "rebind", "unbind", "new", "bindnew", "bindctx",
         "destroy", "undo", "undone", "resolve"},
   at : {"idle", "enter", "logged", "leave", "reap"},
   ctx : Contexts \cup {None}, name : Names \cup {None},
   thing : Things \cup {None}, new : Contexts \cup {None},
   reap : Contexts \cup {None}]

(* Types; the lock is held for writing exactly from a record to its change,  *)
(* and for reading by nobody but the checkpoint; a context being given up    *)
(* was destroyed (NamingContext_i.h:96-135, log.h:57-90).                    *)
TypeOK ==
  /\ name \in [FileNames -> Inodes \cup {None}]
  /\ inode \in [Inodes -> Files]
  /\ main \in {"down", "first", "start", "started", "loop", "prepared", "written",
               "unbacked", "backed", "dataless", "committed", "unlinked", "released"}
  /\ needed \in {0, 1}
  /\ state \in [Contexts -> {"none", "active", "leaving", "ending"}]
  /\ bound \in [Contexts -> Bindings]
  /\ Lock!RWTypeOK
  /\ call \in [Clients -> CallTypes]
  /\ calls \in 0..MaxCalls /\ crashes \in Nat /\ failures \in 0..MaxFailures
  /\ used \subseteq Contexts /\ gone \subseteq used
  /\ \A c \in Contexts : state[c] \in {"leaving", "ending"} => c \in gone
  /\ \A t \in Clients : mode[t] = IF call[t].at = "logged" THEN "write" ELSE "none"

(* What is served is what is kept: unless a call is between its record and   *)
(* its change, the contexts and bindings in memory are those a restart would *)
(* give (NamingContext_i.cc:236-258, 313-320, doc/tex/omniNames.tex:51-57).  *)
MemoryIsLog ==
  Serving /\ (\A t \in Clients : call[t].at # "logged")
    => Of(Kept, Data) = Of(Kept, Memory)

(* A restart reads the data file to its end: no context refuses a record     *)
(* (log.cc:463-527, doc/tex/omniNames.tex:51-57).                            *)
RestartReads == name["dat"] # None /\ Root \in used => Startable(Contents("dat"))

(* A record torn by a stop never stays: the first checkpoint after the       *)
(* restart that meets it replaces the file, and until then it is due, so     *)
(* long as no write fails (log.cc:129, 517-521, omniNames.cc:343-347).       *)
TornIsDue == failures = 0 /\ main # "dataless" /\ Data.torn => needed = 1

(* A context leaves the list of contexts when its last call is over: none is *)
(* left behind half destroyed once the calls are over, and no call is inside *)
(* one that is being taken out (NamingContext_i.cc:403-417, 466-485).        *)
NoneHalfGone ==
  /\ (\A t \in Clients : call[t].at = "idle")
       => \A c \in Contexts : state[c] \in {"none", "active"}
  /\ \A c \in Contexts : state[c] = "ending" => Busy(c) = {}

\* Destroyed though nobody could have called it: bind_new_context did.
Unwanted(d) == d # Root /\ \A e \in Contexts, n \in Names : bound[e][n] # d

(* bind_new_context makes a context and binds it, or leaves none behind,     *)
(* though it takes the lock for each step anew: with no other way to make or *)
(* unbind a context, and no stop or failed write, a context is the root or   *)
(* bound when the calls are over, unless a call was overtaken by the         *)
(* destruction of the context it is on (NamingContext_i.cc:352-373).         *)
NoOrphans ==
  /\ crashes = 0 /\ failures = 0 /\ \A t \in Clients : call[t].at = "idle"
  /\ Overlap => \A d \in gone : Unwanted(d)
  => \A c \in Contexts \ {Root} :
       state[c] = "active" => \E d \in Contexts, n \in Names : bound[d][n] = c

(* Every call comes to an end, whatever the checkpoint does, unless the      *)
(* process stops first.                                                      *)
CallsEnd == \A t \in Clients : call[t].at # "idle" ~> call[t].at = "idle"

(* The naming service keeps the promise of NamingStore, for the contexts     *)
(* that were not destroyed: the graph outlives every stop, except that an    *)
(* operator who gives -always without -start when a stop has left no data    *)
(* file, only its backup, loses it whole (log.cc:327-337).                   *)
Store == INSTANCE NamingStore WITH
  exposed <- Always /\ name["dat"] = None,
  graph <- Of(Kept, Data),
  view <- IF Serving THEN Of(Kept, Memory) ELSE None
ImplementsNamingStore == Store!StoreSpec
=============================================================================
