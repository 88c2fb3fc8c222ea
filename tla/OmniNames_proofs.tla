--------------------------- MODULE OmniNames_proofs ---------------------------
(* Proofs about the naming service, for any contexts, names, objects and     *)
(* clients, any number of calls, crashes and failures.                       *)
EXTENDS OmniNames, TLAPS

-----------------------------------------------------------------------------
(* Types.                                                                    *)

MainStates ==
  {"down", "first", "start", "started", "loop", "prepared", "written",
   "unbacked", "backed", "dataless", "committed", "unlinked", "released"}
\* From the opening of a checkpoint file to that of the new log.
Copying ==
  {"prepared", "written", "unbacked", "backed", "dataless", "committed", "unlinked"}

DiskTypes == name \in [FileNames -> Inodes \cup {None}] /\ inode \in [Inodes -> Files]
ControlTypes == main \in MainStates /\ needed \in {0, 1}
StateTypes == state \in [Contexts -> {"none", "active", "leaving", "ending"}]
BoundTypes == bound \in [Contexts -> Bindings]
LockTypes == mode \in [Clients \cup {Main} -> {"none", "read", "write"}]
Calling == call \in [Clients -> CallTypes]
BoundsTypes ==
  calls \in 0..MaxCalls /\ crashes \in Nat /\ failures \in 0..MaxFailures
Past == used \subseteq Contexts /\ gone \subseteq used

\* The lock, as the code uses it.
Locked ==
  /\ \A t \in Clients : mode[t] = IF call[t].at = "logged" THEN "write" ELSE "none"
  /\ mode[Main] = IF main \in Copying THEN "read" ELSE "none"
  /\ \A t \in Clients : mode[t] = "write" =>
       \A u \in Clients \cup {Main} : u # t => mode[u] = "none"

\* Which files there are.
Filed ==
  /\ main \in MainStates \ {"down", "dataless"} => name["dat"] # None
  /\ main \in {"backed", "dataless"} => name["bak"] # None
  /\ main \in Copying \ {"unlinked"} => name["ckp"] # None
  /\ main \in {"loop", "unlinked", "released"} => name["ckp"] = None

-----------------------------------------------------------------------------
(* What a call is about.                                                     *)

Making == {"new", "bindnew", "bindctx", "undo", "undone"}

Proper(t) ==
  /\ call[t].at = "idle" => call[t] = NoCall
  /\ call[t].at # "idle" => call[t].op # "none" /\ call[t].ctx \in used
  /\ call[t].op \in {"bind", "rebind", "unbind", "bindnew", "bindctx"} =>
       call[t].name \in Names
  /\ call[t].at \in {"enter", "logged"} =>
       /\ call[t].op \in {"bind", "rebind"} => call[t].thing \in Objects
       /\ call[t].op = "bindctx" => call[t].thing = call[t].new
  /\ call[t].op \in Making => call[t].new \in Contexts
  /\ call[t].op \notin Making => call[t].new = None
  /\ call[t].op \in {"new", "bindnew"} /\ call[t].at = "enter" => call[t].new \notin used
  /\ call[t].op \in {"new", "bindnew"} /\ call[t].at = "logged" => call[t].new \in used
  /\ call[t].op \in {"bindctx", "undo", "undone"} => call[t].new \in used
  /\ call[t].op = "undone" => call[t].at \in {"leave", "reap"}
  /\ call[t].at = "logged" => call[t].op # "resolve"
  /\ call[t].at = "logged" /\ call[t].op \in {"destroy", "undo"} => Target(t) \in gone
  /\ call[t].at = "reap" => call[t].reap \in gone

\* A context in the making is that call's alone.
Apart ==
  \A t, u \in Clients :
    /\ t # u /\ call[t].new # None => call[t].new # call[u].new
    /\ call[t].at # "idle" => call[t].ctx # call[u].new

\* Nothing is served before init() has read the file.
Quiescent ==
  ~Serving => /\ \A t \in Clients : call[t] = NoCall
              /\ \A c \in Contexts : state[c] = "none" /\ bound[c] = NoBindings

CallsProper == \A t \in Clients : Proper(t)

\* The files that a start or the rest of a checkpoint still reads. A checkpoint
\* file that a stop left behind is not one of them.
Readable ==
  {name["dat"], name["bak"]} \cup (IF main \in Copying THEN {name["ckp"]} ELSE {})
FilesBorn == \A i \in Inodes \cap Readable : inode[i].live \subseteq used

\* Every context in memory or in such a file was created.
Born ==
  /\ \A c \in Contexts : state[c] # "none" => c \in used
  /\ FilesBorn

TInv ==
  /\ DiskTypes /\ ControlTypes /\ StateTypes /\ BoundTypes /\ LockTypes
  /\ Calling /\ BoundsTypes /\ Past
  /\ (\A c \in Contexts : state[c] \in {"leaving", "ending"} => c \in gone)
  /\ Born /\ Locked /\ Filed /\ CallsProper /\ Apart /\ Quiescent

-----------------------------------------------------------------------------
(* How a context ends.                                                       *)

\* A context that was destroyed has calls inside, then one that takes it out.
Ending ==
  /\ \A c \in Contexts : state[c] = "leaving" => Busy(c) # {}
  /\ \A c \in Contexts : state[c] = "ending" =>
       Busy(c) = {} /\ \E t \in Clients : call[t].at = "reap" /\ call[t].reap = c
  /\ \A t \in Clients : call[t].at = "reap" => state[call[t].reap] = "ending"
  /\ \A t, u \in Clients :
       call[t].at = "reap" /\ call[u].at = "reap" /\ call[t].reap = call[u].reap
         => t = u
  /\ \A t \in Clients :
       call[t].op \in {"bindctx", "undo"} /\ call[t].at \in {"enter", "logged"}
         => state[call[t].new] = "active"
  /\ \A t \in Clients :
       call[t].op \in {"new", "bindnew"} /\ call[t].at = "logged"
         => state[call[t].new] = "none"

-----------------------------------------------------------------------------
(* What is kept.                                                             *)

\* Nobody calls a context that is being destroyed, no stop tears a record and
\* no write of a record fails, and nobody destroys the root.
Sheltered ==
  ~Overlap /\ ~TornCrash /\ "log" \notin Failing /\ Root \notin MayDestroy

\* Who destroys a context is alone in it, and contexts called are active.
Undisturbed ==
  /\ \A u \in Clients :
       call[u].op = "destroy" /\ call[u].at \in {"enter", "logged"}
         => Busy(call[u].ctx) \subseteq {u}
  /\ \A t \in Clients :
       call[t].op # "undo" /\ call[t].at \in {"enter", "logged"}
         => state[call[t].ctx] = "active"

\* The root is there from the first start on, and nobody may destroy it.
Rooted ==
  /\ used # {} => Root \in used
  /\ Serving => Root \in used
  /\ Root \notin gone
  /\ \A t \in Clients : /\ call[t].op = "destroy" => call[t].ctx # Root
                        /\ call[t].new # Root

\* A file that can be read to its end and has all that was created.
Whole(f) ==
  /\ ~f.torn /\ ~f.refused
  /\ f.live \subseteq used /\ used \ gone \subseteq f.live
  /\ \A c \in Contexts \ used : f.bound[c] = NoBindings

\* A file has the contexts A with the bindings B, and may have more only of
\* contexts that were destroyed.
Same(f, A, B) ==
  /\ A \subseteq f.live /\ f.live \cap Kept \subseteq A
  /\ \A c \in A \cup Kept : f.bound[c] = B[c]

ActiveContexts == {c \in Contexts : state[c] = "active"}

\* Memory is what is in the file, but for the change that a record announces.
Mirror(f) ==
  /\ (\A t \in Clients : call[t].at # "logged") => Same(f, ActiveContexts, bound)
  /\ \A t \in Clients : call[t].at = "logged" =>
       Same(f, LiveAfter(ActiveContexts, Record(t)), BoundAfter(bound, Record(t)))

\* The files from the first start to the end of a checkpoint.
OnDisk ==
  /\ name["dat"] = None /\ name["bak"] = None => used = {}
  /\ main = "first" =>
       name["bak"] = None /\ used = {} /\ Contents("dat") = HeaderOnly
  /\ main \in {"prepared", "written", "unbacked", "backed", "dataless"} =>
       name["ckp"] # name["dat"] /\ name["ckp"] # name["bak"]
  /\ main = "backed" => name["bak"] = name["dat"]
  /\ main = "dataless" => name["dat"] = None
  /\ main \in {"written", "unbacked", "backed", "dataless"} =>
       Whole(Contents("ckp")) /\ Mirror(Contents("ckp"))

Durable == Whole(Data) /\ (Serving => Mirror(Data))

SInv == Undisturbed /\ Rooted /\ OnDisk /\ Durable

-----------------------------------------------------------------------------
(* Records and files.                                                        *)

LEMMA Empty == NoBindings \in Bindings /\ HeaderOnly \in Files
<1>1. NoBindings \in Bindings
  BY DEF NoBindings, Bindings
<1> QED
  BY <1>1 DEF HeaderOnly, Files

LEMMA RecordIs ==
  ASSUME NEW t
  PROVE  /\ call[t].op \in {"bind", "rebind", "bindctx"} =>
              Record(t) = [kind |-> "bind", ctx |-> call[t].ctx,
                           name |-> call[t].name, thing |-> call[t].thing]
         /\ call[t].op = "unbind" =>
              Record(t) = [kind |-> "unbind", ctx |-> call[t].ctx, name |-> call[t].name]
         /\ call[t].op \in {"destroy", "undo"} =>
              Record(t) = [kind |-> "destroy", ctx |-> Target(t)]
         /\ call[t].op \in {"new", "bindnew"} =>
              Record(t) = [kind |-> "create", ctx |-> call[t].new]
BY DEF Record

\* The operations that write a record, by its kind.
Binding == {"bind", "rebind", "bindctx"}
Destroying == {"destroy", "undo"}
Creating == {"new", "bindnew"}
Recorded == Binding \cup Destroying \cup Creating \cup {"unbind"}

LEMMA Records_ ==
  ASSUME TInv, NEW t \in Clients, call[t].at \in {"enter", "logged"}
  PROVE  /\ call[t].op \in Recorded \cup {"resolve"}
         /\ call[t].op # "resolve" => Record(t) \in Records
         /\ call[t].op \in Recorded => Target(t) \in Contexts
<1>1. /\ call[t] \in CallTypes /\ Proper(t) /\ used \subseteq Contexts
  BY DEF TInv, Calling, CallsProper, Past
<1>2. call[t].op \in Recorded \cup {"resolve"}
  BY <1>1 DEF CallTypes, Proper, Recorded, Binding, Destroying, Creating
<1>3. call[t].ctx \in Contexts /\ (call[t].op \in Making => call[t].new \in Contexts)
  BY <1>1 DEF Proper
<1>4. Target(t) \in Contexts
  BY <1>3 DEF Target, Making
<1>5. CASE call[t].op \in Binding
  <2>1. call[t].name \in Names /\ call[t].thing \in Things
    BY <1>1, <1>3, <1>5 DEF Proper, Binding, Things, Making
  <2> QED
    BY <2>1, <1>2, <1>3, <1>4, <1>5, RecordIs DEF Records, Binding
<1>6. CASE call[t].op = "unbind"
  <2>1. call[t].name \in Names
    BY <1>1, <1>6 DEF Proper
  <2> QED
    BY <2>1, <1>2, <1>3, <1>4, <1>6, RecordIs DEF Records
<1>7. CASE call[t].op \in Destroying
  BY <1>2, <1>4, <1>7, RecordIs DEF Records, Destroying
<1>8. CASE call[t].op \in Creating
  <2>1. call[t].new \in Contexts
    BY <1>3, <1>8 DEF Creating, Making
  <2> QED
    BY <2>1, <1>2, <1>4, <1>8, RecordIs DEF Records, Creating
<1>9. CASE call[t].op = "resolve"
  BY <1>2, <1>4, <1>9
<1> QED
  BY <1>2, <1>5, <1>6, <1>7, <1>8, <1>9 DEF Recorded

LEMMA BoundType ==
  ASSUME NEW B \in [Contexts -> Bindings], NEW r \in Records
  PROVE  BoundAfter(B, r) \in [Contexts -> Bindings]
<1>1. CASE r.kind = "bind"
  <2>1. r.ctx \in Contexts /\ r.name \in Names /\ r.thing \in Things
    BY <1>1 DEF Records
  <2>2. [B[r.ctx] EXCEPT ![r.name] = r.thing] \in Bindings
    BY <2>1 DEF Bindings
  <2>3. BoundAfter(B, r) = [B EXCEPT ![r.ctx] = [B[r.ctx] EXCEPT ![r.name] = r.thing]]
    BY <1>1 DEF BoundAfter
  <2> QED
    BY <2>1, <2>2, <2>3
<1>2. CASE r.kind = "unbind"
  <2>1. r.ctx \in Contexts /\ r.name \in Names
    BY <1>2 DEF Records
  <2>2. [B[r.ctx] EXCEPT ![r.name] = None] \in Bindings
    BY <2>1 DEF Bindings
  <2>3. BoundAfter(B, r) = [B EXCEPT ![r.ctx] = [B[r.ctx] EXCEPT ![r.name] = None]]
    BY <1>2 DEF BoundAfter
  <2> QED
    BY <2>1, <2>2, <2>3
<1>3. CASE r.kind \notin {"bind", "unbind"}
  BY <1>3 DEF BoundAfter
<1> QED
  BY <1>1, <1>2, <1>3

LEMMA LiveType ==
  ASSUME NEW A \in SUBSET Contexts, NEW r \in Records
  PROVE  LiveAfter(A, r) \in SUBSET Contexts
<1>1. r.ctx \in Contexts
  BY DEF Records
<1> QED
  BY <1>1 DEF LiveAfter

\* What reading a file gives when a record was added to it.
LEMMA WrittenIs ==
  ASSUME NEW f \in Files, NEW r \in Records
  PROVE  /\ Written(f, r) \in Files
         /\ ~f.torn /\ ~f.refused /\ Accepted(f, r) =>
              /\ ~Written(f, r).torn /\ ~Written(f, r).refused
              /\ Written(f, r).live = LiveAfter(f.live, r)
              /\ Written(f, r).bound = BoundAfter(f.bound, r)
         /\ Written(f, r).torn = f.torn
         /\ Written(f, r).live \in {f.live, LiveAfter(f.live, r)}
<1>1. /\ LiveAfter(f.live, r) \in SUBSET Contexts
      /\ BoundAfter(f.bound, r) \in [Contexts -> Bindings]
  BY LiveType, BoundType DEF Files
<1> DEFINE L == LiveAfter(f.live, r)
           B == BoundAfter(f.bound, r)
           h == [f EXCEPT !.live = L]
           a == [h EXCEPT !.bound = B]
           b == [f EXCEPT !.refused = TRUE]
<1>2. /\ h \in Files /\ h.live = L /\ h.bound = f.bound
      /\ h.torn = f.torn /\ h.refused = f.refused
  BY <1>1 DEF Files
<1>3. /\ a \in Files /\ a.live = L /\ a.bound = B
      /\ a.torn = f.torn /\ a.refused = f.refused
  <2> HIDE DEF h
  <2> QED
    BY <1>1, <1>2 DEF Files
<1>4. b \in Files /\ b.torn = f.torn /\ b.live = f.live
  BY DEF Files
<1>5. a = [f EXCEPT !.live = LiveAfter(@, r), !.bound = BoundAfter(@, r)]
  BY <1>2, Zenon
<1>6. Written(f, r) = IF f.torn \/ f.refused THEN f ELSE IF Accepted(f, r) THEN a ELSE b
  BY <1>5, Zenon DEF Written
<1>7. f.torn \in BOOLEAN /\ f.refused \in BOOLEAN
  BY DEF Files
<1> HIDE DEF a, b
<1>8. CASE f.torn \/ f.refused
  BY <1>6, <1>8, Zenon
<1>9. CASE ~(f.torn \/ f.refused) /\ Accepted(f, r)
  BY <1>3, <1>6, <1>9, Zenon
<1>10. CASE ~(f.torn \/ f.refused) /\ ~Accepted(f, r)
  BY <1>4, <1>6, <1>10, Zenon
<1> QED
  BY <1>8, <1>9, <1>10, Zenon

LEMMA TornType ==
  ASSUME NEW f \in Files PROVE Torn(f) \in Files
BY DEF Torn, Files

-----------------------------------------------------------------------------
(* How a call goes on.                                                       *)

Ats == {"idle", "enter", "logged", "leave", "reap"}

Others(t) == \A u \in Clients : u # t => call'[u] = call[u]

\* The call of t is op now, at at; what it is about stays.
Becomes(t, op, at) ==
  /\ Calling' /\ Others(t)
  /\ call'[t].op = op /\ call'[t].at = at
  /\ call'[t].ctx = call[t].ctx /\ call'[t].name = call[t].name
  /\ call'[t].new = call[t].new

Clears(t) == Calling' /\ Others(t) /\ call'[t] = NoCall

LEMMA Turned ==
  ASSUME Calling, NEW t \in Clients, NEW q \in CallTypes, call' = [call EXCEPT ![t] = q]
  PROVE  Calling' /\ Others(t) /\ call'[t] = q
BY DEF Calling, Others

LEMMA NoCallType == NoCall \in CallTypes
BY DEF NoCall, CallTypes

LEMMA NewAt ==
  ASSUME NEW k \in CallTypes, NEW a \in Ats
  PROVE  LET q == [k EXCEPT !.at = a] IN
         /\ q \in CallTypes /\ q.at = a /\ q.op = k.op /\ q.ctx = k.ctx
         /\ q.name = k.name /\ q.thing = k.thing /\ q.new = k.new /\ q.reap = k.reap
BY DEF CallTypes, Ats

LEMMA NewOp ==
  ASSUME NEW k \in CallTypes, NEW o \in {"undo", "undone", "bindctx"}
  PROVE  LET q == [k EXCEPT !.op = o] IN
         /\ q \in CallTypes /\ q.at = k.at /\ q.op = o /\ q.ctx = k.ctx
         /\ q.name = k.name /\ q.thing = k.thing /\ q.new = k.new /\ q.reap = k.reap
BY DEF CallTypes

LEMMA RaisedDoes ==
  ASSUME Calling, NEW t \in Clients, Raised(t)
  PROVE  /\ call'[t].thing = call[t].thing /\ call'[t].reap = call[t].reap
         /\ \/ call[t].op = "bindctx" /\ Becomes(t, "undo", call[t].at)
            \/ call[t].op # "bindctx" /\ Becomes(t, call[t].op, "leave")
<1>0. call[t] \in CallTypes
  BY DEF Calling
<1>1. CASE call[t].op = "bindctx"
  <2> DEFINE q == [call[t] EXCEPT !.op = "undo"]
  <2>1. call' = [call EXCEPT ![t] = q]
    BY <1>1 DEF Raised
  <2>2. /\ q \in CallTypes /\ q.at = call[t].at /\ q.op = "undo" /\ q.ctx = call[t].ctx
        /\ q.name = call[t].name /\ q.thing = call[t].thing /\ q.new = call[t].new
        /\ q.reap = call[t].reap
    BY <1>0, NewOp
  <2> HIDE DEF q
  <2>3. Calling' /\ Others(t) /\ call'[t] = q
    BY <2>1, <2>2, Turned
  <2> QED
    BY <1>1, <2>2, <2>3 DEF Becomes
<1>2. CASE call[t].op # "bindctx"
  <2> DEFINE q == [call[t] EXCEPT !.at = "leave"]
  <2>1. call' = [call EXCEPT ![t] = q]
    BY <1>2 DEF Raised
  <2>2. /\ q \in CallTypes /\ q.at = "leave" /\ q.op = call[t].op /\ q.ctx = call[t].ctx
        /\ q.name = call[t].name /\ q.thing = call[t].thing /\ q.new = call[t].new
        /\ q.reap = call[t].reap
    BY <1>0, NewAt DEF Ats
  <2> HIDE DEF q
  <2>3. Calling' /\ Others(t) /\ call'[t] = q
    BY <2>1, <2>2, Turned
  <2> QED
    BY <1>2, <2>2, <2>3 DEF Becomes
<1> QED
  BY <1>1, <1>2

LEMMA NewThing ==
  ASSUME NEW k \in CallTypes, NEW x \in Things \cup {None}
  PROVE  LET q == [k EXCEPT !.thing = x] IN
         /\ q \in CallTypes /\ q.at = k.at /\ q.op = k.op /\ q.ctx = k.ctx
         /\ q.name = k.name /\ q.thing = x /\ q.new = k.new /\ q.reap = k.reap
BY DEF CallTypes

LEMMA NewReap ==
  ASSUME NEW k \in CallTypes, NEW x \in Contexts \cup {None}
  PROVE  LET q == [k EXCEPT !.reap = x] IN
         /\ q \in CallTypes /\ q.at = k.at /\ q.op = k.op /\ q.ctx = k.ctx
         /\ q.name = k.name /\ q.thing = k.thing /\ q.new = k.new /\ q.reap = x
BY DEF CallTypes

LEMMA PutDoes ==
  ASSUME Calling, NEW t \in Clients, Put(t)
  PROVE  /\ call[t].at = "enter" /\ Becomes(t, call[t].op, "logged")
         /\ call'[t].thing = call[t].thing
<1>0. call[t] \in CallTypes /\ call[t].at = "enter"
  BY DEF Calling, Put
<1> DEFINE q == [call[t] EXCEPT !.at = "logged"]
<1>1. call' = [call EXCEPT ![t] = q]
  BY DEF Put
<1>2. /\ q \in CallTypes /\ q.at = "logged" /\ q.op = call[t].op /\ q.ctx = call[t].ctx
      /\ q.name = call[t].name /\ q.thing = call[t].thing /\ q.new = call[t].new
  BY <1>0, NewAt DEF Ats
<1> HIDE DEF q
<1>3. Calling' /\ Others(t) /\ call'[t] = q
  BY <1>1, <1>2, Turned
<1> QED
  BY <1>0, <1>2, <1>3 DEF Becomes

\* The context that bind_new_context makes is what it binds then.
LEMMA ApplyDoes ==
  ASSUME Calling, NEW t \in Clients, Apply(t),
         call[t].op = "bindnew" => call[t].new \in Contexts
  PROVE  /\ call[t].at = "logged"
         /\ \/ call[t].op = "bindnew" /\ Becomes(t, "bindctx", "enter")
               /\ call'[t].thing = call[t].new
            \/ call[t].op # "bindnew" /\ Becomes(t, call[t].op, "leave")
               /\ call'[t].thing = call[t].thing
<1>0. call[t] \in CallTypes /\ call[t].at = "logged"
  BY DEF Calling, Apply
<1>1. CASE call[t].op = "bindnew"
  <2> DEFINE h == [call[t] EXCEPT !.op = "bindctx"]
             g == [h EXCEPT !.at = "enter"]
             q == [g EXCEPT !.thing = call[t].new]
  <2>1. call' = [call EXCEPT ![t] =
                   [@ EXCEPT !.op = "bindctx", !.at = "enter", !.thing = call[t].new]]
    BY <1>1 DEF Apply
  <2>2. call' = [call EXCEPT ![t] = q]
    BY <2>1, Zenon
  <2>3. /\ h \in CallTypes /\ h.op = "bindctx" /\ h.ctx = call[t].ctx
        /\ h.name = call[t].name /\ h.new = call[t].new
    BY <1>0, NewOp
  <2> HIDE DEF h
  <2>4. /\ g \in CallTypes /\ g.at = "enter" /\ g.op = "bindctx" /\ g.ctx = call[t].ctx
        /\ g.name = call[t].name /\ g.new = call[t].new
    BY <2>3, NewAt DEF Ats
  <2> HIDE DEF g
  <2>5. call[t].new \in Things
    BY <1>1 DEF Things
  <2>6. /\ q \in CallTypes /\ q.at = "enter" /\ q.op = "bindctx" /\ q.ctx = call[t].ctx
        /\ q.name = call[t].name /\ q.new = call[t].new /\ q.thing = call[t].new
    BY <2>4, <2>5, NewThing
  <2> HIDE DEF q
  <2>7. Calling' /\ Others(t) /\ call'[t] = q
    BY <2>2, <2>6, Turned
  <2> QED
    BY <1>0, <1>1, <2>6, <2>7 DEF Becomes
<1>2. CASE call[t].op # "bindnew"
  <2> DEFINE q == [call[t] EXCEPT !.at = "leave"]
  <2>1. call' = [call EXCEPT ![t] = q]
    BY <1>2 DEF Apply
  <2>2. /\ q \in CallTypes /\ q.at = "leave" /\ q.op = call[t].op /\ q.ctx = call[t].ctx
        /\ q.name = call[t].name /\ q.thing = call[t].thing /\ q.new = call[t].new
    BY <1>0, NewAt DEF Ats
  <2> HIDE DEF q
  <2>3. Calling' /\ Others(t) /\ call'[t] = q
    BY <2>1, <2>2, Turned
  <2> QED
    BY <1>0, <1>2, <2>2, <2>3 DEF Becomes
<1> QED
  BY <1>1, <1>2

\* The last call takes the context out; a call that made an unwanted one goes
\* on in its own context; any other is over.
LEMMA LeaveDoes ==
  ASSUME Calling, NEW t \in Clients, Leave(t), Target(t) \in Contexts
  PROVE  /\ call[t].at = "leave"
         /\ \/ /\ Last(t, Target(t)) /\ state' = [state EXCEPT ![Target(t)] = "ending"]
               /\ Becomes(t, call[t].op, "reap") /\ call'[t].reap = Target(t)
            \/ /\ ~Last(t, Target(t)) /\ UNCHANGED state /\ call[t].op = "undo"
               /\ Becomes(t, "undone", "leave")
            \/ /\ ~Last(t, Target(t)) /\ UNCHANGED state /\ call[t].op # "undo"
               /\ Clears(t)
<1>0. call[t] \in CallTypes /\ call[t].at = "leave"
  BY DEF Calling, Leave
<1>1. CASE Last(t, Target(t))
  <2> DEFINE h == [call[t] EXCEPT !.at = "reap"]
             q == [h EXCEPT !.reap = Target(t)]
  <2>1. /\ state' = [state EXCEPT ![Target(t)] = "ending"]
        /\ call' = [call EXCEPT ![t].at = "reap", ![t].reap = Target(t)]
    BY <1>1 DEF Leave
  <2>2. call' = [call EXCEPT ![t] = q]
    BY <2>1 DEF Calling
  <2>3. /\ h \in CallTypes /\ h.at = "reap" /\ h.op = call[t].op /\ h.ctx = call[t].ctx
        /\ h.name = call[t].name /\ h.new = call[t].new
    BY <1>0, NewAt DEF Ats
  <2> HIDE DEF h
  <2>4. /\ q \in CallTypes /\ q.at = "reap" /\ q.op = call[t].op /\ q.ctx = call[t].ctx
        /\ q.name = call[t].name /\ q.new = call[t].new /\ q.reap = Target(t)
    BY <2>3, NewReap
  <2> HIDE DEF q
  <2>5. Calling' /\ Others(t) /\ call'[t] = q
    BY <2>2, <2>4, Turned
  <2> QED
    BY <1>0, <1>1, <2>1, <2>4, <2>5 DEF Becomes
<1>2. CASE ~Last(t, Target(t)) /\ call[t].op = "undo"
  <2> DEFINE q == [call[t] EXCEPT !.op = "undone"]
  <2>1. UNCHANGED state /\ call' = [call EXCEPT ![t] = q]
    BY <1>2 DEF Leave
  <2>2. /\ q \in CallTypes /\ q.at = "leave" /\ q.op = "undone" /\ q.ctx = call[t].ctx
        /\ q.name = call[t].name /\ q.new = call[t].new
    BY <1>0, NewOp
  <2> HIDE DEF q
  <2>3. Calling' /\ Others(t) /\ call'[t] = q
    BY <2>1, <2>2, Turned
  <2> QED
    BY <1>0, <1>2, <2>1, <2>2, <2>3 DEF Becomes
<1>3. CASE ~Last(t, Target(t)) /\ call[t].op # "undo"
  <2>1. UNCHANGED state /\ call' = [call EXCEPT ![t] = NoCall]
    BY <1>3 DEF Leave
  <2>2. Clears(t)
    BY <2>1, NoCallType, Turned DEF Clears
  <2> QED
    BY <1>0, <1>3, <2>1, <2>2
<1> QED
  BY <1>1, <1>2, <1>3

LEMMA ReapDoes ==
  ASSUME Calling, NEW t \in Clients, Reap(t)
  PROVE  /\ call[t].at = "reap"
         /\ \/ call[t].op = "undo" /\ Becomes(t, "undone", "leave")
            \/ call[t].op # "undo" /\ Clears(t)
<1>0. call[t] \in CallTypes /\ call[t].at = "reap"
  BY DEF Calling, Reap
<1>1. CASE call[t].op = "undo"
  <2> DEFINE h == [call[t] EXCEPT !.op = "undone"]
             g == [h EXCEPT !.at = "leave"]
             q == [g EXCEPT !.reap = None]
  <2>1. call' = [call EXCEPT ![t] =
                   [@ EXCEPT !.op = "undone", !.at = "leave", !.reap = None]]
    BY <1>1 DEF Reap
  <2>2. call' = [call EXCEPT ![t] = q]
    BY <2>1, Zenon
  <2>3. /\ h \in CallTypes /\ h.op = "undone" /\ h.ctx = call[t].ctx
        /\ h.name = call[t].name /\ h.new = call[t].new
    BY <1>0, NewOp
  <2> HIDE DEF h
  <2>4. /\ g \in CallTypes /\ g.at = "leave" /\ g.op = "undone" /\ g.ctx = call[t].ctx
        /\ g.name = call[t].name /\ g.new = call[t].new
    BY <2>3, NewAt DEF Ats
  <2> HIDE DEF g
  <2>5. /\ q \in CallTypes /\ q.at = "leave" /\ q.op = "undone" /\ q.ctx = call[t].ctx
        /\ q.name = call[t].name /\ q.new = call[t].new
    BY <2>4, NewReap
  <2> HIDE DEF q
  <2>6. Calling' /\ Others(t) /\ call'[t] = q
    BY <2>2, <2>5, Turned
  <2> QED
    BY <1>0, <1>1, <2>5, <2>6 DEF Becomes
<1>2. CASE call[t].op # "undo"
  <2>1. call' = [call EXCEPT ![t] = NoCall]
    BY <1>2 DEF Reap
  <2>2. Clears(t)
    BY <2>1, NoCallType, Turned DEF Clears
  <2> QED
    BY <1>0, <1>2, <2>2
<1> QED
  BY <1>1, <1>2

\* A new call of t.
Begins(t) ==
  /\ Calling' /\ Others(t)
  /\ call'[t].op \in Ops /\ call'[t].at = "enter"
  /\ call'[t].ctx \in Contexts /\ state[call'[t].ctx] \in {"active", "leaving"}
  /\ Known(call'[t].ctx)
  /\ call'[t].op = "destroy" => call'[t].ctx \in MayDestroy
  /\ Overlap \/ Quiet(call'[t].op, call'[t].ctx)
  /\ IF call'[t].op \in Creating
     THEN call'[t].new \in Contexts \ (used \cup {call[u].new : u \in Clients})
     ELSE call'[t].new = None
  /\ call'[t].op \in {"bind", "rebind", "unbind", "bindnew"} => call'[t].name \in Names
  /\ call'[t].op \in {"bind", "rebind"} => call'[t].thing \in Objects

LEMMA InvokeDoes ==
  ASSUME Calling, NEW t \in Clients, Invoke(t)
  PROVE  call[t].at = "idle" /\ Serving /\ Begins(t)
<1>1. PICK op \in Ops, c \in Contexts, n \in Names, o \in Objects :
       /\ state[c] \in {"active", "leaving"} /\ Known(c)
       /\ op = "destroy" => c \in MayDestroy
       /\ Overlap \/ Quiet(op, c)
       /\ \E new \in IF op \in {"new", "bindnew"}
                    THEN Contexts \ (used \cup {call[u].new : u \in Clients})
                    ELSE {None} :
            call' = [call EXCEPT ![t] =
              [NoCall EXCEPT !.op = op, !.at = "enter", !.ctx = c, !.new = new,
                 !.name = IF op \in {"bind", "rebind", "unbind", "bindnew"}
                          THEN n ELSE None,
                 !.thing = IF op \in {"bind", "rebind"} THEN o ELSE None]]
  BY Zenon DEF Invoke
<1>2. PICK new \in IF op \in {"new", "bindnew"}
                  THEN Contexts \ (used \cup {call[u].new : u \in Clients})
                  ELSE {None} :
        call' = [call EXCEPT ![t] =
          [NoCall EXCEPT !.op = op, !.at = "enter", !.ctx = c, !.new = new,
             !.name = IF op \in {"bind", "rebind", "unbind", "bindnew"}
                      THEN n ELSE None,
             !.thing = IF op \in {"bind", "rebind"} THEN o ELSE None]]
  BY <1>1, Zenon
<1> DEFINE x == IF op \in {"bind", "rebind", "unbind", "bindnew"} THEN n ELSE None
           y == IF op \in {"bind", "rebind"} THEN o ELSE None
           q == [op |-> op, at |-> "enter", ctx |-> c, name |-> x, thing |-> y,
                 new |-> new, reap |-> None]
           q1 == [NoCall EXCEPT !.op = op]
           q2 == [q1 EXCEPT !.at = "enter"]
           q3 == [q2 EXCEPT !.ctx = c]
           q4 == [q3 EXCEPT !.new = new]
           q5 == [q4 EXCEPT !.name = x]
           q6 == [q5 EXCEPT !.thing = y]
<1>3. call' = [call EXCEPT ![t] = q]
  <2>1. call' = [call EXCEPT ![t] = q6]
    BY <1>2, Zenon
  <2>2. q1 = [op |-> op, at |-> "idle", ctx |-> None, name |-> None,
              thing |-> None, new |-> None, reap |-> None]
    BY DEF NoCall
  <2> HIDE DEF q1
  <2>3. q2 = [op |-> op, at |-> "enter", ctx |-> None, name |-> None,
              thing |-> None, new |-> None, reap |-> None]
    BY <2>2
  <2> HIDE DEF q2
  <2>4. q3 = [op |-> op, at |-> "enter", ctx |-> c, name |-> None,
              thing |-> None, new |-> None, reap |-> None]
    BY <2>3
  <2> HIDE DEF q3
  <2>5. q4 = [op |-> op, at |-> "enter", ctx |-> c, name |-> None,
              thing |-> None, new |-> new, reap |-> None]
    BY <2>4
  <2> HIDE DEF q4, x
  <2>6. q5 = [op |-> op, at |-> "enter", ctx |-> c, name |-> x,
              thing |-> None, new |-> new, reap |-> None]
    BY <2>5
  <2> HIDE DEF q5, y
  <2>7. q6 = q
    BY <2>6
  <2> HIDE DEF q6, q
  <2> QED
    BY <2>1, <2>7, Zenon
<1>4. /\ x \in Names \cup {None} /\ y \in Things \cup {None}
      /\ new \in Contexts \cup {None}
  BY <1>2 DEF Things
<1>5. q \in CallTypes
  BY <1>4, OpsAssumption DEF CallTypes
<1>6. Calling' /\ Others(t) /\ call'[t] = q
  BY <1>3, <1>5, Turned
<1> QED
  BY <1>1, <1>2, <1>6 DEF Begins, Creating, Invoke

-----------------------------------------------------------------------------
(* The steps.                                                                *)

ClientActs(t) ==
  \/ Invoke(t) \/ Refused(t) \/ Put(t) \/ PutFails(t) \/ Apply(t) \/ Leave(t) \/ Reap(t)

\* Steps of the main thread that are neither the first record nor a stop.
MainActs ==
  \/ FirstStart \/ FirstFails \/ Restart \/ Replay \/ ReplayDies \/ Started
  \/ CkpPrepare \/ CkpAbandon \/ CkpWrite \/ CkpDropBackup \/ CkpBackup
  \/ CkpDropData \/ CkpCommit \/ CkpDropCkp \/ CkpReopen \/ CkpDone

LEMMA StepCases ==
  ASSUME [Next]_vars
  PROVE  \/ \E t \in Clients : ClientActs(t)
         \/ MainActs \/ FirstRoot \/ RemovesBackup \/ CkpDies \/ Crash \/ UNCHANGED vars
BY Zenon DEF Next, ClientStep, Start, Checkpoint, ClientActs, MainActs, RefusesToStart, NotNeeded

\* Nothing runs when an operator makes the service remove the backup, and
\* nothing is left to read.
LEMMA Removed ==
  ASSUME TInv, RemovesBackup
  PROVE  /\ main = "down" /\ main' = "down" /\ used' = {} /\ gone' = {}
         /\ name' = [name EXCEPT !["bak"] = None]
         /\ name["dat"] = None /\ name'["dat"] = None /\ name'["bak"] = None
         /\ UNCHANGED <<inode, needed, state, bound, mode, call, calls, crashes, failures>>
         /\ \A t \in Clients : call'[t] = NoCall
         /\ \A c \in Contexts : state[c] = "none" /\ bound[c] = NoBindings
<1>1. /\ main = "down" /\ name["dat"] = None
      /\ name' = [name EXCEPT !["bak"] = None]
      /\ UNCHANGED <<inode, main, needed, state, bound, mode, call, calls, crashes, failures>>
  BY DEF RemovesBackup, memory, bounds
<1>2. name'["dat"] = None /\ name'["bak"] = None
  BY <1>1 DEF TInv, DiskTypes, FileNames
<1>3. /\ \A t \in Clients : call[t] = NoCall
      /\ \A c \in Contexts : state[c] = "none" /\ bound[c] = NoBindings
  BY <1>1 DEF TInv, Quiescent, Serving
<1> QED
  BY <1>1, <1>2, <1>3 DEF RemovesBackup

\* The main thread does nothing to the calls.
LEMMA MainKeeps ==
  ASSUME MainActs \/ UNCHANGED vars
  PROVE  UNCHANGED <<call, calls, crashes, used, gone>>
<1>1. CASE FirstStart
  BY <1>1 DEF FirstStart, bounds, history
<1>2. CASE FirstFails
  BY <1>2 DEF FirstFails, bounds, history
<1>3. CASE Restart
  BY <1>3 DEF Restart, bounds, history
<1>4. CASE Replay
  BY <1>4 DEF Replay, bounds, history
<1>5. CASE ReplayDies
  BY <1>5 DEF ReplayDies, bounds, history
<1>6. CASE Started
  BY <1>6 DEF Started, bounds, history
<1>7. CASE CkpPrepare
  BY <1>7 DEF CkpPrepare, bounds, history
<1>8. CASE CkpAbandon
  BY <1>8 DEF CkpAbandon, bounds, history
<1>9. CASE CkpWrite
  BY <1>9 DEF CkpWrite, bounds, history
<1>10. CASE CkpDropBackup
  BY <1>10 DEF CkpDropBackup, bounds, history
<1>11. CASE CkpBackup
  BY <1>11 DEF CkpBackup, bounds, history
<1>12. CASE CkpDropData
  BY <1>12 DEF CkpDropData, bounds, history
<1>13. CASE CkpCommit
  BY <1>13 DEF CkpCommit, bounds, history
<1>14. CASE CkpDropCkp
  BY <1>14 DEF CkpDropCkp, bounds, history
<1>15. CASE CkpReopen
  BY <1>15 DEF CkpReopen, bounds, history
<1>16. CASE CkpDone
  BY <1>16 DEF CkpDone, bounds, history
<1>17. CASE UNCHANGED vars
  BY <1>17 DEF vars, bounds, history
<1> QED
  BY <1>1, <1>2, <1>3, <1>4, <1>5, <1>6, <1>7, <1>8, <1>9, <1>10, <1>11, <1>12, <1>13,
     <1>14, <1>15, <1>16, <1>17 DEF MainActs

\* What goes on to the log.
LEMMA GoesOnIs ==
  ASSUME NEW t, GoesOn(t)
  PROVE  /\ call[t].op # "resolve"
         /\ call[t].op \in Destroying => bound[Target(t)] = NoBindings
         /\ call[t].op = "unbind" => bound[call[t].ctx][call[t].name] # None
BY DEF GoesOn, Destroying

\* The kind of a record, and what it says is created or destroyed.
LEMMA PutHistory ==
  ASSUME TInv, NEW t \in Clients, Put(t)
  PROVE  /\ call[t].op \in Recorded /\ Record(t) \in Records /\ Target(t) \in Contexts
         /\ call[t].op \in Creating => used' = used \cup {call[t].new} /\ gone' = gone
         /\ call[t].op \in Destroying => used' = used /\ gone' = gone \cup {Target(t)}
         /\ call[t].op \notin Creating \cup Destroying => used' = used /\ gone' = gone
<1>1. GoesOn(t) /\ call[t].at = "enter"
  BY DEF Put
<1>2. call[t].op \in Recorded /\ Record(t) \in Records /\ Target(t) \in Contexts
  BY <1>1, Records_, GoesOnIs
<1>3. /\ used' = IF Record(t).kind = "create" THEN used \cup {call[t].new} ELSE used
      /\ gone' = IF Record(t).kind = "destroy" THEN gone \cup {Target(t)} ELSE gone
  BY DEF Put
<1>4. /\ call[t].op \in Creating => Record(t).kind = "create"
      /\ call[t].op \in Destroying => Record(t).kind = "destroy"
      /\ call[t].op \in Binding => Record(t).kind = "bind"
      /\ call[t].op = "unbind" => Record(t).kind = "unbind"
  BY RecordIs DEF Creating, Destroying, Binding
<1> QED
  BY <1>2, <1>3, <1>4 DEF Recorded

-----------------------------------------------------------------------------
(* The calls.                                                                *)

LEMMA OthersProper ==
  ASSUME TInv, NEW t \in Clients, Others(t), used \subseteq used', gone \subseteq gone',
         \A u \in Clients : u # t /\ call[u].op \in Creating /\ call[u].at = "enter"
           => call[u].new \notin used',
         Proper(t)'
  PROVE  CallsProper'
<1> SUFFICES ASSUME NEW u \in Clients, u # t PROVE Proper(u)'
  BY DEF CallsProper
<1>1. Proper(u) /\ call'[u] = call[u]
  BY DEF TInv, CallsProper, Others
<1>2. Target(u)' = Target(u)
  BY <1>1 DEF Target
<1> QED
  BY <1>1, <1>2 DEF Proper, Creating

LEMMA ApartStays ==
  ASSUME TInv, NEW t \in Clients, NEW op, NEW at, Becomes(t, op, at), call[t].at # "idle"
  PROVE  Apart'
<1>1. /\ \A u \in Clients : /\ call'[u].new = call[u].new /\ call'[u].ctx = call[u].ctx
                            /\ call'[u].at # "idle" => call[u].at # "idle"
  BY DEF Becomes, Others
<1> QED
  BY <1>1 DEF TInv, Apart

LEMMA ApartCleared ==
  ASSUME TInv, NEW t \in Clients, Clears(t)
  PROVE  Apart'
<1>1. call'[t].new = None /\ call'[t].at = "idle"
  BY DEF Clears, NoCall
<1>2. \A u \in Clients : call[u].at # "idle" => call[u].ctx # None
  BY NoneAssumption DEF TInv, CallsProper, Proper, Past
<1>3. \A u \in Clients : u # t => call'[u] = call[u]
  BY DEF Clears, Others
<1> QED
  BY <1>1, <1>2, <1>3 DEF TInv, Apart

LEMMA IdleProper ==
  ASSUME NEW t, call[t] = NoCall PROVE Proper(t)
BY DEF Proper, NoCall, Making

LEMMA InvokeCalls ==
  ASSUME TInv, NEW t \in Clients, Invoke(t)
  PROVE  Calling' /\ CallsProper' /\ Apart'
<1>1. call[t].at = "idle" /\ Begins(t) /\ UNCHANGED <<used, gone>>
  BY InvokeDoes DEF TInv, Invoke, history
<1>2. call[t] = NoCall
  BY <1>1 DEF TInv, CallsProper, Proper
<1>3. call'[t].ctx \in used /\ call'[t].at = "enter" /\ call'[t].op \in Ops
  BY <1>1 DEF Begins, TInv, Born
<1>4. call'[t].op \in Creating => call'[t].new \in Contexts \ used
  BY <1>1 DEF Begins
<1>5. call'[t].op \notin Creating => call'[t].new = None
  BY <1>1 DEF Begins
<1>6. Proper(t)'
  BY <1>1, <1>3, <1>4, <1>5, OpsAssumption DEF Begins, Proper, Making, Creating
<1>7. Others(t) /\ Calling'
  BY <1>1 DEF Begins
<1>8. CallsProper'
  BY <1>1, <1>6, <1>7, OthersProper DEF TInv, CallsProper, Proper, Creating
<1>9. \A u \in Clients : u # t => call'[u] = call[u]
  BY <1>7 DEF Others
<1>10. \A u \in Clients : /\ call[u].at = "idle" => call[u].new = None
                          /\ call[u].at # "idle" => call[u].ctx \in used
  BY DEF TInv, CallsProper, Proper, NoCall
<1>11. None \notin used
  BY NoneAssumption DEF TInv, Past
<1>12. \A u \in Clients : u # t /\ call[u].new # None => call[u].new # call'[t].new
  BY <1>1, <1>5 DEF Begins
<1>13. \A u \in Clients : call[u].new # call'[t].ctx
  BY <1>1, <1>3, <1>10, <1>11 DEF Begins, Known
<1>14. call'[t].new \notin used
  BY <1>4, <1>5, <1>11
<1> QED
  BY <1>3, <1>7, <1>8, <1>9, <1>10, <1>12, <1>13, <1>14 DEF TInv, Apart

LEMMA RefusedCalls ==
  ASSUME TInv, NEW t \in Clients, Raised(t), call[t].at = "enter",
         UNCHANGED <<used, gone>>
  PROVE  Calling' /\ CallsProper' /\ Apart'
<1>1. Proper(t) /\ Calling
  BY DEF TInv, CallsProper
<1>2. /\ call'[t].thing = call[t].thing /\ call'[t].reap = call[t].reap
      /\ \/ call[t].op = "bindctx" /\ Becomes(t, "undo", "enter")
         \/ call[t].op # "bindctx" /\ Becomes(t, call[t].op, "leave")
  BY <1>1, RaisedDoes
<1>3. Proper(t)'
  BY <1>1, <1>2 DEF Proper, Becomes, Making
<1>4. Others(t) /\ Calling'
  BY <1>2 DEF Becomes
<1>5. CallsProper'
  BY <1>3, <1>4, OthersProper DEF TInv, CallsProper, Proper, Creating
<1>6. Apart'
  BY <1>2, ApartStays
<1> QED
  BY <1>4, <1>5, <1>6

LEMMA PutCalls ==
  ASSUME TInv, NEW t \in Clients, Put(t)
  PROVE  Calling' /\ CallsProper' /\ Apart' /\ Past'
<1>1. Proper(t) /\ Calling /\ Past /\ Apart
  BY DEF TInv, CallsProper
<1>2. /\ call[t].at = "enter" /\ Becomes(t, call[t].op, "logged")
      /\ call'[t].thing = call[t].thing
  BY <1>1, PutDoes
<1>3. /\ call[t].op \in Recorded /\ Target(t) \in Contexts
      /\ call[t].op \in Creating => used' = used \cup {call[t].new} /\ gone' = gone
      /\ call[t].op \in Destroying => used' = used /\ gone' = gone \cup {Target(t)}
      /\ call[t].op \notin Creating \cup Destroying => used' = used /\ gone' = gone
  BY PutHistory
<1>4. used \subseteq used' /\ gone \subseteq gone'
  BY <1>3 DEF Creating, Destroying
<1>5. Others(t) /\ Calling' /\ Target(t)' = Target(t)
  BY <1>2 DEF Becomes, Target
<1>6. call[t].op # "undone" /\ call[t].op # "resolve"
  BY <1>3 DEF Recorded, Binding, Creating, Destroying
<1>7. Proper(t)'
  <2>1. call[t].op \in Creating => call[t].new \in used'
    BY <1>3
  <2>2. call[t].op \in Destroying => Target(t)' \in gone'
    BY <1>3, <1>5
  <2> QED
    BY <1>1, <1>2, <1>4, <1>6, <2>1, <2>2
       DEF Proper, Becomes, Making, Creating, Destroying
<1>8. ASSUME NEW u \in Clients, u # t, call[u].op \in Creating, call[u].at = "enter"
      PROVE  call[u].new \notin used'
  <2>1. call[u].new \in Contexts /\ call[u].new \notin used
    BY <1>8 DEF TInv, CallsProper, Proper, Making, Creating
  <2>2. call[u].new # call[t].new
    BY <1>1, <1>8, <2>1, NoneAssumption DEF Apart
  <2> QED
    BY <1>3, <2>1, <2>2
<1>9. CallsProper'
  BY <1>4, <1>5, <1>7, <1>8, OthersProper
<1>10. Apart'
  BY <1>2, ApartStays
<1>11. Target(t) \in used
  BY <1>1, <1>2, <1>3 DEF Proper, Target
<1>12. call[t].op \in Creating => call[t].new \in Contexts
  BY <1>1 DEF Proper, Creating, Making
<1>13. Past'
  BY <1>1, <1>3, <1>11, <1>12 DEF Past, Creating, Destroying
<1> QED
  BY <1>5, <1>9, <1>10, <1>13

LEMMA ApplyCalls ==
  ASSUME TInv, NEW t \in Clients, Apply(t)
  PROVE  Calling' /\ CallsProper' /\ Apart'
<1>1. Proper(t) /\ Calling /\ UNCHANGED <<used, gone>>
  BY DEF TInv, CallsProper, Apply, history
<1>2. /\ call[t].at = "logged"
      /\ \/ call[t].op = "bindnew" /\ Becomes(t, "bindctx", "enter")
            /\ call'[t].thing = call[t].new
         \/ call[t].op # "bindnew" /\ Becomes(t, call[t].op, "leave")
            /\ call'[t].thing = call[t].thing
  BY <1>1, ApplyDoes DEF Proper, Making
<1>3. Proper(t)'
  BY <1>1, <1>2 DEF Proper, Becomes, Making
<1>4. Others(t) /\ Calling'
  BY <1>2 DEF Becomes
<1>5. CallsProper'
  BY <1>1, <1>3, <1>4, OthersProper DEF TInv, CallsProper, Proper, Creating
<1>6. Apart'
  BY <1>2, ApartStays
<1> QED
  BY <1>4, <1>5, <1>6

LEMMA TargetIs ==
  ASSUME TInv, NEW t \in Clients, call[t].at # "idle"
  PROVE  Target(t) \in Contexts
BY DEF TInv, CallsProper, Proper, Target, Making, Past

LEMMA LeaveCalls ==
  ASSUME TInv, NEW t \in Clients, Leave(t)
  PROVE  Calling' /\ CallsProper' /\ Apart'
<1>1. /\ Proper(t) /\ Calling /\ UNCHANGED <<used, gone>> /\ Target(t) \in Contexts
      /\ call[t].at = "leave"
  <2>1. call[t].at = "leave"
    BY DEF Leave
  <2> QED
    BY <2>1, TargetIs DEF TInv, CallsProper, Leave, history
<1>2. \/ /\ Last(t, Target(t))
         /\ Becomes(t, call[t].op, "reap") /\ call'[t].reap = Target(t)
      \/ call[t].op = "undo" /\ Becomes(t, "undone", "leave")
      \/ Clears(t)
  BY <1>1, LeaveDoes
<1>3. Last(t, Target(t)) => Target(t) \in gone
  BY <1>1 DEF TInv, Last
<1>4. Proper(t)'
  <2>1. CASE Clears(t)
    BY <2>1 DEF Clears, Proper, NoCall, Making
  <2>2. CASE call[t].op = "undo" /\ Becomes(t, "undone", "leave")
    BY <1>1, <2>2 DEF Proper, Becomes, Making
  <2>3. CASE /\ Last(t, Target(t))
             /\ Becomes(t, call[t].op, "reap") /\ call'[t].reap = Target(t)
    BY <1>1, <1>3, <2>3 DEF Proper, Becomes, Making
  <2> QED
    BY <1>2, <2>1, <2>2, <2>3
<1>5. Others(t) /\ Calling'
  BY <1>2 DEF Becomes, Clears
<1>6. CallsProper'
  BY <1>1, <1>4, <1>5, OthersProper DEF TInv, CallsProper, Proper, Creating
<1>7. Apart'
  BY <1>1, <1>2, ApartStays, ApartCleared
<1> QED
  BY <1>5, <1>6, <1>7

LEMMA ReapCalls ==
  ASSUME TInv, NEW t \in Clients, Reap(t)
  PROVE  Calling' /\ CallsProper' /\ Apart'
<1>1. Proper(t) /\ Calling /\ UNCHANGED <<used, gone>>
  BY DEF TInv, CallsProper, Reap, history
<1>2. /\ call[t].at = "reap"
      /\ \/ call[t].op = "undo" /\ Becomes(t, "undone", "leave")
         \/ Clears(t)
  BY <1>1, ReapDoes
<1>3. Proper(t)'
  <2>1. CASE Clears(t)
    BY <2>1 DEF Clears, Proper, NoCall, Making
  <2>2. CASE call[t].op = "undo" /\ Becomes(t, "undone", "leave")
    BY <1>1, <1>2, <2>2 DEF Proper, Becomes, Making
  <2> QED
    BY <1>2, <2>1, <2>2
<1>4. Others(t) /\ Calling'
  BY <1>2 DEF Becomes, Clears
<1>5. CallsProper'
  BY <1>1, <1>3, <1>4, OthersProper DEF TInv, CallsProper, Proper, Creating
<1>6. Apart'
  BY <1>2, ApartStays, ApartCleared
<1> QED
  BY <1>4, <1>5, <1>6

\* Nobody is calling.
LEMMA NoCalls ==
  ASSUME TInv, \/ call' = [t \in Clients |-> NoCall] /\ UNCHANGED <<used, gone>>
               \/ UNCHANGED <<call, used, gone>>
  PROVE  Calling' /\ CallsProper' /\ Apart' /\ Past'
<1>1. CASE UNCHANGED <<call, used, gone>>
  BY <1>1 DEF TInv, Calling, CallsProper, Proper, Apart, Past, Target
<1>2. CASE call' = [t \in Clients |-> NoCall] /\ UNCHANGED <<used, gone>>
  <2>1. \A t \in Clients : call'[t] = NoCall
    BY <1>2
  <2>2. CallsProper'
    BY <2>1 DEF CallsProper, Proper, NoCall, Making
  <2>3. Apart'
    BY <2>1 DEF Apart, NoCall
  <2> QED
    BY <1>2, <2>2, <2>3, NoCallType DEF TInv, Calling, Past
<1> QED
  BY <1>1, <1>2

LEMMA CallsKept ==
  ASSUME TInv, [Next]_vars
  PROVE  Calling' /\ CallsProper' /\ Apart' /\ Past'
<1>1. ASSUME NEW t \in Clients, ClientActs(t)
      PROVE  Calling' /\ CallsProper' /\ Apart' /\ Past'
  <2>1. CASE Put(t)
    BY <2>1, PutCalls
  <2>2. CASE ~Put(t)
    <3>1. UNCHANGED <<used, gone>>
      BY <1>1, <2>2 DEF ClientActs, Invoke, Refused, PutFails, Apply, Leave, Reap, history
    <3>2. Past'
      BY <3>1 DEF TInv, Past
    <3>3. CASE Refused(t) \/ PutFails(t)
      BY <3>1, <3>2, <3>3, RefusedCalls DEF Refused, PutFails
    <3> QED
      BY <1>1, <2>2, <3>2, <3>3, InvokeCalls, ApplyCalls, LeaveCalls, ReapCalls
         DEF ClientActs
  <2> QED
    BY <2>1, <2>2
<1>2. CASE MainActs \/ UNCHANGED vars
  BY <1>2, MainKeeps, NoCalls
<1>3. CASE CkpDies \/ Crash
  <2>1. call' = [t \in Clients |-> NoCall] /\ UNCHANGED <<used, gone>>
    BY <1>3 DEF CkpDies, Crash, Down, history
  <2> QED
    BY <2>1, NoCalls
<1>4. CASE FirstRoot
  <2>1. /\ UNCHANGED <<call, gone>> /\ used' = used \cup {Root} /\ main = "first"
    BY <1>4 DEF FirstRoot
  <2>2. \A t \in Clients : call[t] = NoCall
    BY <2>1 DEF TInv, Quiescent, Serving
  <2>3. \A t \in Clients : call'[t] = NoCall
    BY <2>1, <2>2
  <2>4. CallsProper' /\ Apart'
    BY <2>3 DEF CallsProper, Proper, Apart, NoCall, Making
  <2> QED
    BY <2>1, <2>4, RootAssumption DEF TInv, Calling, Past
<1>5. CASE RemovesBackup
  <2>1. /\ call' = call /\ used' = {} /\ gone' = {}
        /\ \A t \in Clients : call'[t] = NoCall
    BY <1>5, Removed
  <2>2. CallsProper' /\ Apart'
    BY <2>1 DEF CallsProper, Proper, Apart, NoCall, Making
  <2> QED
    BY <2>1, <2>2 DEF TInv, Calling, Past
<1> QED
  BY <1>1, <1>2, <1>3, <1>4, <1>5, StepCases

-----------------------------------------------------------------------------
(* The lock.                                                                 *)

\* What a client's step does to the lock.
LEMMA ClientLock ==
  ASSUME TInv, NEW t \in Clients, ClientActs(t)
  PROVE  /\ Others(t) /\ UNCHANGED main
         /\ \/ /\ Put(t) /\ Lock!WriteLock(t) /\ call'[t].at = "logged"
            \/ /\ Apply(t) /\ Lock!Unlock(t) /\ call'[t].at # "logged"
            \/ /\ UNCHANGED mode /\ call[t].at # "logged" /\ call'[t].at # "logged"
<1>0. Calling /\ Proper(t)
  BY DEF TInv, CallsProper
<1>1. CASE Invoke(t)
  BY <1>0, <1>1, InvokeDoes DEF Invoke, Begins
<1>2. CASE Refused(t)
  BY <1>0, <1>2, RaisedDoes DEF Refused, Becomes
<1>3. CASE Put(t)
  BY <1>0, <1>3, PutDoes DEF Put, Becomes
<1>4. CASE PutFails(t)
  BY <1>0, <1>4, RaisedDoes DEF PutFails, Becomes
<1>5. CASE Apply(t)
  BY <1>0, <1>5, ApplyDoes DEF Apply, Becomes, Release, Proper, Making
<1>6. CASE Leave(t)
  <2>1. call[t].at = "leave"
    BY <1>6 DEF Leave
  <2> QED
    BY <1>0, <1>6, <2>1, LeaveDoes, TargetIs DEF Leave, Becomes, Clears, NoCall
<1>7. CASE Reap(t)
  <2>1. UNCHANGED <<mode, main>>
    BY <1>7 DEF Reap
  <2>2. /\ call[t].at = "reap"
        /\ \/ call[t].op = "undo" /\ Becomes(t, "undone", "leave")
           \/ Clears(t)
    BY <1>0, <1>7, ReapDoes
  <2> QED
    BY <2>1, <2>2 DEF Becomes, Clears, NoCall
<1> QED
  BY <1>1, <1>2, <1>3, <1>4, <1>5, <1>6, <1>7 DEF ClientActs

\* What a step of the main thread does to it.
LEMMA MainLock ==
  ASSUME TInv, MainActs \/ UNCHANGED vars \/ FirstRoot
  PROVE  \/ main \notin Copying /\ main' \in Copying /\ Lock!ReadLock(Main)
         \/ main \in Copying /\ main' \notin Copying /\ Lock!Unlock(Main)
         \/ (main \in Copying <=> main' \in Copying) /\ UNCHANGED mode
<1>1. CASE FirstStart \/ FirstFails \/ FirstRoot
  BY <1>1 DEF FirstStart, FirstFails, FirstRoot, Copying
<1>2. CASE Restart \/ Replay \/ ReplayDies \/ Started
  BY <1>2 DEF Restart, Replay, ReplayDies, Started, Copying
<1>3. CASE CkpPrepare
  BY <1>3 DEF CkpPrepare, CkpLock, Copying
<1>4. CASE CkpAbandon
  BY <1>4 DEF CkpAbandon, Release, Copying
<1>5. CASE CkpWrite \/ CkpDropBackup \/ CkpBackup
  BY <1>5 DEF CkpWrite, CkpDropBackup, CkpBackup, Copying
<1>6. CASE CkpDropData \/ CkpCommit \/ CkpDropCkp
  BY <1>6 DEF CkpDropData, CkpCommit, CkpDropCkp, Copying
<1>7. CASE CkpReopen
  BY <1>7 DEF CkpReopen, Release, Copying
<1>8. CASE CkpDone
  BY <1>8 DEF CkpDone, Copying
<1>9. CASE UNCHANGED vars
  BY <1>9 DEF vars
<1> QED
  BY <1>1, <1>2, <1>3, <1>4, <1>5, <1>6, <1>7, <1>8, <1>9 DEF MainActs

LEMMA LockKept ==
  ASSUME TInv, [Next]_vars
  PROVE  LockTypes' /\ Locked'
<1>0. LockTypes /\ Locked /\ Main \notin Clients
  BY ThreadsAssumption DEF TInv
<1>1. ASSUME NEW t \in Clients, ClientActs(t)
      PROVE  LockTypes' /\ Locked'
  <2>1. /\ \A u \in Clients : u # t => call'[u] = call[u]
        /\ main' = main
        /\ \/ Lock!WriteLock(t) /\ call'[t].at = "logged"
           \/ Lock!Unlock(t) /\ call'[t].at # "logged"
           \/ UNCHANGED mode /\ call[t].at # "logged" /\ call'[t].at # "logged"
    BY <1>1, ClientLock DEF Others
  <2>2. CASE Lock!WriteLock(t) /\ call'[t].at = "logged"
    <3>1. /\ \A u \in Clients \cup {Main} : mode[u] = "none"
          /\ mode' = [mode EXCEPT ![t] = "write"]
      BY <2>2 DEF Lock!WriteLock
    <3>2. LockTypes'
      BY <1>0, <3>1 DEF LockTypes
    <3>3. /\ mode'[t] = "write"
          /\ \A u \in Clients \cup {Main} : u # t => mode'[u] = "none"
      BY <1>0, <3>1 DEF LockTypes
    <3>4. main \notin Copying
      BY <1>0, <3>1 DEF Locked
    <3> QED
      BY <1>0, <2>1, <2>2, <3>1, <3>2, <3>3, <3>4 DEF Locked
  <2>3. CASE Lock!Unlock(t) /\ call'[t].at # "logged"
    <3>1. mode' = [mode EXCEPT ![t] = "none"]
      BY <2>3 DEF Lock!Unlock
    <3>2. LockTypes'
      BY <1>0, <3>1 DEF LockTypes
    <3>3. /\ mode'[t] = "none"
          /\ \A u \in Clients \cup {Main} : u # t => mode'[u] = mode[u]
      BY <1>0, <3>1 DEF LockTypes
    <3>4. /\ \A u \in Clients :
               mode'[u] = IF call'[u].at = "logged" THEN "write" ELSE "none"
          /\ mode'[Main] = IF main' \in Copying THEN "read" ELSE "none"
      BY <1>0, <2>1, <2>3, <3>3 DEF Locked
    <3>5. \A u \in Clients : mode'[u] = "write" =>
            \A v \in Clients \cup {Main} : v # u => mode'[v] = "none"
      <4> SUFFICES ASSUME NEW u \in Clients, mode'[u] = "write",
                          NEW v \in Clients \cup {Main}, v # u
                   PROVE  mode'[v] = "none"
        OBVIOUS
      <4>1. u # t /\ mode[u] = "write"
        BY <3>3
      <4>2. mode[v] = "none"
        BY <1>0, <4>1 DEF Locked
      <4> QED
        BY <3>3, <4>2
    <3> QED
      BY <3>2, <3>4, <3>5 DEF Locked
  <2>4. CASE UNCHANGED mode /\ call[t].at # "logged" /\ call'[t].at # "logged"
    <3>1. \A u \in Clients : call'[u].at = "logged" <=> call[u].at = "logged"
      BY <2>1, <2>4
    <3> QED
      BY <1>0, <2>1, <2>4, <3>1 DEF Locked, LockTypes
  <2> QED
    BY <2>1, <2>2, <2>3, <2>4
<1>2. CASE MainActs \/ UNCHANGED vars \/ FirstRoot
  <2>0. call' = call
    BY <1>2, MainKeeps DEF FirstRoot
  <2>1. CASE main \notin Copying /\ main' \in Copying /\ Lock!ReadLock(Main)
    <3>1. /\ mode' = [mode EXCEPT ![Main] = "read"]
          /\ \A u \in Clients \cup {Main} : mode[u] # "write"
      BY <2>1 DEF Lock!ReadLock
    <3> QED
      BY <1>0, <2>0, <2>1, <3>1 DEF Locked, LockTypes
  <2>2. CASE main \in Copying /\ main' \notin Copying /\ Lock!Unlock(Main)
    <3>1. mode' = [mode EXCEPT ![Main] = "none"]
      BY <2>2 DEF Lock!Unlock
    <3>2. /\ mode'[Main] = "none"
          /\ \A u \in Clients : mode'[u] = mode[u]
      BY <1>0, <3>1 DEF LockTypes
    <3>3. LockTypes'
      BY <1>0, <3>1 DEF LockTypes
    <3> QED
      BY <1>0, <2>0, <2>2, <3>2, <3>3 DEF Locked
  <2>3. CASE (main \in Copying <=> main' \in Copying) /\ UNCHANGED mode
    BY <1>0, <2>0, <2>3 DEF Locked, LockTypes
  <2> QED
    BY <1>2, <2>1, <2>2, <2>3, MainLock
<1>3. CASE CkpDies \/ Crash
  <2>1. /\ mode' = [t \in Clients \cup {Main} |-> "none"] /\ main' = "down"
        /\ call' = [t \in Clients |-> NoCall]
    BY <1>3 DEF CkpDies, Crash, Down
  <2>2. /\ \A t \in Clients \cup {Main} : mode'[t] = "none"
        /\ \A t \in Clients : call'[t].at = "idle"
    BY <2>1 DEF NoCall
  <2> QED
    BY <2>1, <2>2 DEF LockTypes, Locked, Copying
<1>4. CASE RemovesBackup
  <2>1. UNCHANGED <<mode, call, main>>
    BY <1>4, Removed
  <2> QED
    BY <1>0, <2>1 DEF Locked, LockTypes
<1> QED
  BY <1>1, <1>2, <1>3, <1>4, StepCases

-----------------------------------------------------------------------------
(* The files.                                                                *)

LEMMA FreeIs ==
  ASSUME DiskTypes, NEW f \in FileNames, name[f] = None
  PROVE  Free \in Inodes /\ \A g \in FileNames : name[g] # Free
<1>1. \E i \in Inodes : \A g \in FileNames : name[g] # i
  BY InodesAssumption DEF DiskTypes, FileNames, Inodes
<1> QED
  BY <1>1 DEF Free

LEMMA FileIs ==
  ASSUME DiskTypes, NEW f \in FileNames, name[f] # None
  PROVE  name[f] \in Inodes /\ Contents(f) \in Files
BY DEF DiskTypes, Contents

\* Whoever has the lock for writing finds the log open.
LEMMA Writing ==
  ASSUME TInv, NEW t \in Clients, call[t].at # "idle", LockFree
  PROVE  /\ Serving /\ main \notin Copying /\ name["dat"] \in Inodes
         /\ \A u \in Clients : call[u].at # "logged"
<1>1. Serving
  BY DEF TInv, Quiescent, NoCall
<1>2. main \notin Copying /\ \A u \in Clients : call[u].at # "logged"
  BY DEF TInv, Locked, LockFree
<1>3. main \in MainStates \ {"down", "dataless"}
  BY <1>1, <1>2 DEF TInv, ControlTypes, Serving, Copying
<1>4. name["dat"] # None
  BY <1>3 DEF TInv, Filed
<1> QED
  BY <1>1, <1>2, <1>4 DEF TInv, DiskTypes, FileNames

LEMMA SnapshotIs ==
  ASSUME BoundTypes
  PROVE  /\ Snapshot \in Files /\ Snapshot.live = Listed /\ Snapshot.bound = bound
         /\ ~Snapshot.torn /\ ~Snapshot.refused
<1> DEFINE h == [HeaderOnly EXCEPT !.live = Listed]
           k == [h EXCEPT !.bound = bound]
<1>0. HeaderOnly \in Files /\ ~HeaderOnly.torn /\ ~HeaderOnly.refused
  BY Empty DEF HeaderOnly
<1>1. h \in Files /\ h.live = Listed /\ ~h.torn /\ ~h.refused
  BY <1>0 DEF Files, Listed
<1>2. Snapshot = k
  BY Zenon DEF Snapshot
<1> HIDE DEF h
<1>3. k \in Files /\ k.live = Listed /\ k.bound = bound /\ ~k.torn /\ ~k.refused
  BY <1>1 DEF Files, BoundTypes
<1> HIDE DEF k
<1> QED
  BY <1>2, <1>3

LEMMA TornLive ==
  ASSUME NEW f \in Files PROVE Torn(f).live = f.live /\ Torn(f).bound = f.bound
BY DEF Torn, Files

\* One file is written: it stays a file with contexts that were created.
LEMMA OneWritten ==
  ASSUME TInv, NEW f \in Files, NEW i \in Inodes, inode' = [inode EXCEPT ![i] = f],
         f.live \subseteq used', used \subseteq used', Readable' \subseteq Readable \cup {i}
  PROVE  inode' \in [Inodes -> Files] /\ FilesBorn'
<1>1. inode' \in [Inodes -> Files]
  BY DEF TInv, DiskTypes
<1>2. ASSUME NEW j \in Inodes, j \in Readable' PROVE inode'[j].live \subseteq used'
  <2>1. CASE j = i
    BY <2>1 DEF TInv, DiskTypes
  <2>2. CASE j # i
    BY <1>2, <2>2 DEF TInv, DiskTypes, Born, FilesBorn
  <2> QED
    BY <2>1, <2>2
<1> QED
  BY <1>1, <1>2 DEF FilesBorn

\* No file is written, and none is read that was not.
LEMMA NoneWritten ==
  ASSUME TInv, UNCHANGED <<inode, used>>, Readable' \subseteq Readable \cup {None}
  PROVE  FilesBorn'
BY InodesAssumption DEF TInv, Born, FilesBorn

LEMMA Reads ==
  ASSUME TInv, NEW f \in {"dat", "bak"}, name[f] \in Inodes
  PROVE  Contents(f) \in Files /\ Contents(f).live \subseteq used
BY DEF TInv, DiskTypes, Contents, Born, FilesBorn, Readable

LEMMA ClientDisk ==
  ASSUME TInv, NEW t \in Clients, ClientActs(t)
  PROVE  DiskTypes' /\ FilesBorn'
<1>0. Readable' = Readable
  BY DEF ClientActs, Invoke, Refused, Put, PutFails, Apply, Leave, Reap, disk, Readable
<1>1. CASE Put(t)
  <2>1. /\ call[t].at = "enter" /\ LockFree /\ name' = name
        /\ inode' = [inode EXCEPT ![name["dat"]] = Written(@, Record(t))]
    BY <1>1 DEF Put, LockFree, Lock!WriteLock
  <2>2. name["dat"] \in Inodes
    BY <2>1, Writing
  <2>3. Contents("dat") \in Files /\ Contents("dat").live \subseteq used
    BY <2>2, Reads
  <2>4. /\ call[t].op \in Recorded /\ Record(t) \in Records
        /\ call[t].op \in Creating => used' = used \cup {call[t].new}
        /\ used \subseteq used'
    BY <1>1, PutHistory DEF Creating, Destroying
  <2>5. LiveAfter(Contents("dat").live, Record(t)) \subseteq used'
    BY <2>3, <2>4, RecordIs DEF LiveAfter, Recorded, Binding, Creating, Destroying
  <2>6. /\ Written(Contents("dat"), Record(t)) \in Files
        /\ Written(Contents("dat"), Record(t)).live \subseteq used'
    BY <2>3, <2>4, <2>5, WrittenIs
  <2>7. inode' = [inode EXCEPT ![name["dat"]] = Written(Contents("dat"), Record(t))]
    BY <2>1 DEF Contents
  <2> QED
    BY <1>0, <2>1, <2>2, <2>4, <2>6, <2>7, OneWritten DEF TInv, DiskTypes
<1>2. CASE PutFails(t)
  <2>1. /\ call[t].at = "enter" /\ LockFree /\ name' = name /\ used' = used
    BY <1>2 DEF PutFails, history
  <2>2. name["dat"] \in Inodes
    BY <2>1, Writing
  <2>3. Contents("dat") \in Files /\ Contents("dat").live \subseteq used
    BY <2>2, Reads
  <2>4. PICK after \in {Contents("dat"), Torn(Contents("dat"))} :
          inode' = [inode EXCEPT ![name["dat"]] = after]
    BY <1>2 DEF PutFails
  <2>5. after \in Files /\ after.live = Contents("dat").live
    BY <2>3, <2>4, TornType, TornLive
  <2> QED
    BY <1>0, <2>1, <2>2, <2>3, <2>4, <2>5, OneWritten DEF TInv, DiskTypes
<1>3. CASE ~Put(t) /\ ~PutFails(t)
  <2>1. UNCHANGED <<name, inode, used>>
    BY <1>1, <1>3 DEF ClientActs, Invoke, Refused, Apply, Leave, Reap, history, disk
  <2> QED
    BY <1>0, <2>1, NoneWritten DEF TInv, DiskTypes
<1> QED
  BY <1>1, <1>2, <1>3

LEMMA MainDisk ==
  ASSUME TInv, MainActs \/ UNCHANGED vars \/ FirstRoot
  PROVE  DiskTypes' /\ FilesBorn'
<1>0. /\ name \in [FileNames -> Inodes \cup {None}] /\ inode \in [Inodes -> Files]
      /\ FileNames = {"dat", "bak", "ckp"}
      /\ HeaderOnly \in Files /\ HeaderOnly.live = {}
  BY Empty DEF TInv, DiskTypes, FileNames, HeaderOnly
<1>1. CASE FirstStart
  <2>1. /\ Free \in Inodes /\ used' = used /\ inode' = [inode EXCEPT ![Free] = HeaderOnly]
        /\ name' = [name EXCEPT !["dat"] = Free] /\ main' = "first"
    BY <1>0, <1>1, FreeIs DEF FirstStart, TInv, history
  <2>2. Readable' \subseteq Readable \cup {Free}
    BY <1>0, <2>1 DEF Readable, Copying
  <2>3. inode' \in [Inodes -> Files] /\ FilesBorn'
    BY <1>0, <2>1, <2>2, OneWritten
  <2> QED
    BY <1>0, <2>1, <2>3 DEF DiskTypes
<1>2. CASE FirstRoot
  <2> DEFINE r == [kind |-> "create", ctx |-> Root]
  <2>1. /\ main = "first" /\ name' = name /\ used' = used \cup {Root} /\ main' = "start"
        /\ inode' = [inode EXCEPT ![name["dat"]] = Written(@, r)]
    BY <1>2 DEF FirstRoot
  <2>2. name["dat"] \in Inodes /\ Readable' \subseteq Readable
    BY <1>0, <2>1 DEF TInv, Filed, MainStates, Readable, Copying
  <2>3. r \in Records /\ r.kind = "create" /\ r.ctx = Root
    BY RootAssumption DEF Records
  <2> HIDE DEF r
  <2>4. Contents("dat") \in Files /\ Contents("dat").live \subseteq used
    BY <2>2, Reads
  <2>5. /\ Written(Contents("dat"), r) \in Files
        /\ Written(Contents("dat"), r).live \subseteq used'
    <3>1. LiveAfter(Contents("dat").live, r) \subseteq used'
      BY <2>1, <2>3, <2>4 DEF LiveAfter
    <3> QED
      BY <2>1, <2>3, <2>4, <3>1, WrittenIs
  <2>6. inode' = [inode EXCEPT ![name["dat"]] = Written(Contents("dat"), r)]
    BY <2>1 DEF Contents
  <2>7. inode' \in [Inodes -> Files] /\ FilesBorn'
    BY <2>1, <2>2, <2>5, <2>6, OneWritten
  <2> QED
    BY <1>0, <2>1, <2>7 DEF DiskTypes
<1>3. CASE FirstFails \/ Started \/ CkpAbandon \/ CkpDropBackup \/ CkpBackup
           \/ CkpDropData \/ CkpCommit \/ CkpDropCkp
  <2>1. PICK f \in FileNames, x \in Inodes \cup {None} : name' = [name EXCEPT ![f] = x]
    BY <1>0, <1>3, Zenon DEF FirstFails, Started, RemoveStale, CkpAbandon, CkpDropBackup,
       CkpBackup, LinkBackup, CkpDropData, CkpCommit, CkpDropCkp, FileNames
  <2>2. UNCHANGED <<inode, used>>
    BY <1>3 DEF FirstFails, Started, CkpAbandon, CkpDropBackup,
       CkpBackup, CkpDropData, CkpCommit, CkpDropCkp, history
  <2>3. Readable' \subseteq Readable \cup {None}
    <3>1. CASE FirstFails \/ Started \/ CkpAbandon
      BY <1>0, <3>1 DEF FirstFails, Started, RemoveStale, CkpAbandon, Readable, Copying
    <3>2. CASE CkpDropBackup \/ CkpBackup \/ CkpDropData
      BY <1>0, <3>2 DEF CkpDropBackup, CkpBackup, LinkBackup, CkpDropData, Readable, Copying
    <3>3. CASE CkpCommit \/ CkpDropCkp
      BY <1>0, <3>3 DEF CkpCommit, CkpDropCkp, Readable, Copying
    <3> QED
      BY <1>3, <3>1, <3>2, <3>3
  <2>4. name' \in [FileNames -> Inodes \cup {None}]
    BY <1>0, <2>1
  <2> QED
    BY <1>0, <2>2, <2>3, <2>4, NoneWritten DEF DiskTypes
<1>4. CASE Restart \/ Replay \/ ReplayDies \/ CkpReopen \/ CkpDone \/ UNCHANGED vars
  <2>1. UNCHANGED <<name, inode, used>>
    BY <1>4 DEF Restart, Replay, ReplayDies, CkpReopen, CkpDone, vars, history, disk
  <2>2. main' \in Copying => main \in Copying
    BY <1>4 DEF Restart, Replay, ReplayDies, CkpReopen, CkpDone, vars, Copying
  <2>3. FilesBorn'
    BY <2>1, <2>2, NoneWritten DEF Readable
  <2> QED
    BY <1>0, <2>1, <2>3 DEF DiskTypes
<1>5. CASE CkpPrepare
  <2>1. PICK i \in {IF name["ckp"] = None THEN Free ELSE name["ckp"]} :
          /\ name' = [name EXCEPT !["ckp"] = i]
          /\ inode' = [inode EXCEPT ![i] = HeaderOnly]
    BY <1>5 DEF CkpPrepare
  <2>2. used' = used
    BY <1>5 DEF CkpPrepare, history
  <2>3. i \in Inodes
    BY <1>0, <2>1, FreeIs DEF TInv
  <2>4. Readable' \subseteq Readable \cup {i}
    BY <1>0, <2>1 DEF Readable
  <2>5. inode' \in [Inodes -> Files] /\ FilesBorn'
    BY <1>0, <2>1, <2>2, <2>3, <2>4, OneWritten
  <2> QED
    BY <1>0, <2>1, <2>3, <2>5 DEF DiskTypes
<1>6. CASE CkpWrite
  <2>1. /\ main = "prepared" /\ inode' = [inode EXCEPT ![name["ckp"]] = Snapshot]
        /\ name' = name /\ used' = used
    BY <1>6 DEF CkpWrite, history
  <2>2. name["ckp"] \in Inodes /\ Readable' \subseteq Readable
    BY <1>0, <2>1 DEF TInv, Filed, Readable, Copying
  <2>3. Snapshot \in Files /\ Snapshot.live \subseteq used
    BY SnapshotIs DEF TInv, Born, Listed
  <2>4. inode' \in [Inodes -> Files] /\ FilesBorn'
    BY <2>1, <2>2, <2>3, OneWritten
  <2> QED
    BY <1>0, <2>1, <2>4 DEF DiskTypes
<1> QED
  BY <1>1, <1>2, <1>3, <1>4, <1>5, <1>6 DEF MainActs

LEMMA DiskKept ==
  ASSUME TInv, [Next]_vars
  PROVE  DiskTypes' /\ FilesBorn'
<1>1. CASE CkpDies \/ Crash
  <2>0. name' = name /\ used' = used
    BY <1>1 DEF CkpDies, Crash, Down, history
  <2>1. Readable' \subseteq Readable
    BY <1>1, <2>0 DEF CkpDies, Crash, Down, Readable, Copying
  <2>2. CASE UNCHANGED inode
    BY <2>0, <2>1, <2>2, NoneWritten DEF TInv, DiskTypes
  <2>3. CASE inode' # inode
    <3>1. /\ LockFree /\ \E t \in Clients : call[t].at = "enter"
          /\ inode' = [inode EXCEPT ![name["dat"]] = Torn(@)]
      BY <1>1, <2>3 DEF CkpDies, Crash
    <3>2. name["dat"] \in Inodes
      BY <3>1, Writing
    <3>3. Contents("dat") \in Files /\ Contents("dat").live \subseteq used
      BY <3>2, Reads
    <3>4. /\ inode' = [inode EXCEPT ![name["dat"]] = Torn(Contents("dat"))]
          /\ Torn(Contents("dat")) \in Files
          /\ Torn(Contents("dat")).live \subseteq used
      BY <3>1, <3>3, TornType, TornLive DEF Contents
    <3> QED
      BY <2>0, <2>1, <3>2, <3>4, OneWritten DEF TInv, DiskTypes
  <2> QED
    BY <2>2, <2>3
<1>2. CASE RemovesBackup
  <2>1. /\ name' = [name EXCEPT !["bak"] = None] /\ inode' = inode
        /\ name'["dat"] = None /\ name'["bak"] = None /\ main' = "down"
    BY <1>2, Removed
  <2>2. Readable' = {None}
    BY <2>1 DEF Readable, Copying
  <2> QED
    BY <2>1, <2>2, InodesAssumption DEF TInv, DiskTypes, FileNames, FilesBorn
<1> QED
  BY <1>1, <1>2, ClientDisk, MainDisk, StepCases

-----------------------------------------------------------------------------
(* Memory.                                                                   *)

LEMMA RecordKind ==
  ASSUME NEW t
  PROVE  /\ call[t].op \in Binding => Record(t).kind = "bind"
         /\ call[t].op = "unbind" => Record(t).kind = "unbind"
         /\ call[t].op \in Destroying => Record(t).kind = "destroy"
         /\ call[t].op \in Creating => Record(t).kind = "create"
BY RecordIs DEF Binding, Destroying, Creating

\* What Apply does, by what the call is.
LEMMA ApplyMemory ==
  ASSUME TInv, NEW t \in Clients, Apply(t)
  PROVE  /\ call[t].op \in Recorded /\ Record(t) \in Records
         /\ call[t].op \in Binding \cup {"unbind"} =>
              bound' = BoundAfter(bound, Record(t)) /\ state' = state
         /\ call[t].op \in Creating =>
              state' = [state EXCEPT ![call[t].new] = "active"] /\ bound' = bound
         /\ call[t].op \in Destroying =>
              state' = [state EXCEPT ![Target(t)] = "leaving"] /\ bound' = bound
<1>1. call[t].at = "logged" /\ Proper(t)
  BY DEF Apply, TInv, CallsProper
<1>2. call[t].op \in Recorded /\ Record(t) \in Records
  BY <1>1, Records_ DEF Proper
<1> QED
  BY <1>2, RecordKind DEF Apply, Recorded

MemoryGood ==
  /\ StateTypes /\ BoundTypes
  /\ \A c \in Contexts : /\ state[c] \in {"leaving", "ending"} => c \in gone
                         /\ state[c] # "none" => c \in used

LEMMA ClientMemory ==
  ASSUME TInv, NEW t \in Clients, ClientActs(t)
  PROVE  MemoryGood'
<1>0. /\ state \in [Contexts -> {"none", "active", "leaving", "ending"}] /\ BoundTypes
      /\ \A c \in Contexts : /\ state[c] \in {"leaving", "ending"} => c \in gone
                             /\ state[c] # "none" => c \in used
      /\ gone \subseteq used /\ used \subseteq Contexts /\ Proper(t)
  BY DEF TInv, StateTypes, Born, Past, CallsProper
<1>1. CASE Invoke(t) \/ Refused(t) \/ Put(t) \/ PutFails(t)
  <2>1. UNCHANGED <<state, bound>>
    BY <1>1 DEF Invoke, Refused, Put, PutFails, memory
  <2>2. used \subseteq used' /\ gone \subseteq gone'
    BY <1>1 DEF Invoke, Refused, Put, PutFails, history
  <2> QED
    BY <1>0, <2>1, <2>2 DEF MemoryGood, StateTypes, BoundTypes
<1>2. CASE Apply(t)
  <2>1. call[t].at = "logged" /\ UNCHANGED <<used, gone>>
    BY <1>2 DEF Apply, history
  <2>2. call[t].op \in Recorded /\ Record(t) \in Records
    BY <1>2, ApplyMemory
  <2>3. CASE call[t].op \in Binding \cup {"unbind"}
    <3>1. bound' = BoundAfter(bound, Record(t)) /\ state' = state
      BY <1>2, <2>3, ApplyMemory
    <3> QED
      BY <1>0, <2>1, <2>2, <3>1, BoundType DEF MemoryGood, StateTypes, BoundTypes
  <2>4. CASE call[t].op \in Creating
    <3>1. state' = [state EXCEPT ![call[t].new] = "active"] /\ bound' = bound
      BY <1>2, <2>4, ApplyMemory
    <3>2. call[t].new \in used
      BY <1>0, <2>1, <2>4 DEF Proper, Creating
    <3> QED
      BY <1>0, <2>1, <3>1, <3>2 DEF MemoryGood, StateTypes, BoundTypes
  <2>5. CASE call[t].op \in Destroying
    <3>1. state' = [state EXCEPT ![Target(t)] = "leaving"] /\ bound' = bound
      BY <1>2, <2>5, ApplyMemory
    <3>2. Target(t) \in gone
      BY <1>0, <2>1, <2>5 DEF Proper, Destroying
    <3> QED
      BY <1>0, <2>1, <3>1, <3>2 DEF MemoryGood, StateTypes, BoundTypes
  <2> QED
    BY <2>2, <2>3, <2>4, <2>5 DEF Recorded
<1>3. CASE Leave(t)
  <2>1. call[t].at = "leave" /\ UNCHANGED <<bound, used, gone>>
    BY <1>3 DEF Leave, history
  <2>2. Target(t) \in Contexts
    BY <2>1, TargetIs
  <2>3. \/ state' = [state EXCEPT ![Target(t)] = "ending"] /\ state[Target(t)] = "leaving"
        \/ state' = state
    BY <1>3, <2>2, LeaveDoes DEF TInv, Last
  <2> QED
    BY <1>0, <2>1, <2>2, <2>3 DEF MemoryGood, StateTypes, BoundTypes
<1>4. CASE Reap(t)
  <2>1. /\ call[t].at = "reap" /\ UNCHANGED <<used, gone>>
        /\ state' = [state EXCEPT ![call[t].reap] = "none"]
        /\ bound' = [bound EXCEPT ![call[t].reap] = NoBindings]
    BY <1>4 DEF Reap, history
  <2> QED
    BY <1>0, <2>1, Empty DEF MemoryGood, StateTypes, BoundTypes
<1> QED
  BY <1>1, <1>2, <1>3, <1>4 DEF ClientActs

LEMMA MemoryKept ==
  ASSUME TInv, [Next]_vars
  PROVE  MemoryGood'
<1>0. MemoryGood
  BY DEF TInv, MemoryGood, Born
<1>1. CASE (MainActs /\ ~Replay) \/ UNCHANGED vars
  <2>1. UNCHANGED <<state, bound, used, gone>>
    BY <1>1 DEF MainActs, FirstStart, FirstFails, Restart, ReplayDies, Started,
       CkpPrepare, CkpAbandon, CkpWrite, CkpDropBackup, CkpBackup, CkpDropData,
       CkpCommit, CkpDropCkp, CkpReopen, CkpDone, vars, memory, history
  <2> QED
    BY <1>0, <2>1 DEF MemoryGood, StateTypes, BoundTypes
<1>2. CASE Replay
  <2>1. /\ main = "start" /\ bound' = Contents("dat").bound /\ UNCHANGED <<used, gone>>
        /\ state' = [c \in Contexts |-> IF c \in Contents("dat").live
                                         THEN "active" ELSE "none"]
    BY <1>2 DEF Replay, history
  <2>2. Contents("dat") \in Files /\ Contents("dat").live \subseteq used
    BY <2>1, Reads DEF TInv, Filed, MainStates, DiskTypes, FileNames
  <2>3. \A c \in Contexts : state'[c] # "none" => state'[c] = "active" /\ c \in used
    BY <2>1, <2>2
  <2> QED
    BY <2>1, <2>2, <2>3 DEF MemoryGood, StateTypes, BoundTypes, Files
<1>3. CASE FirstRoot
  BY <1>0, <1>3 DEF FirstRoot, MemoryGood, StateTypes, BoundTypes, memory
<1>4. CASE CkpDies \/ Crash
  <2>1. /\ state' = [c \in Contexts |-> "none"]
        /\ bound' = [c \in Contexts |-> NoBindings]
    BY <1>4 DEF CkpDies, Crash, Down
  <2> QED
    BY <2>1, Empty DEF MemoryGood, StateTypes, BoundTypes
<1>5. CASE RemovesBackup
  <2>1. UNCHANGED <<state, bound>> /\ \A c \in Contexts : state[c] = "none"
    BY <1>5, Removed
  <2> QED
    BY <1>0, <2>1 DEF MemoryGood, StateTypes, BoundTypes
<1> QED
  BY <1>1, <1>2, <1>3, <1>4, <1>5, ClientMemory, StepCases

LEMMA CallerServed ==
  ASSUME TInv, NEW t \in Clients, ClientActs(t)
  PROVE  Serving
<1>1. CASE Invoke(t)
  BY <1>1 DEF Invoke
<1>2. CASE ~Invoke(t)
  <2>1. call[t].at # "idle"
    BY <1>2 DEF ClientActs, Refused, Put, PutFails, Apply, Leave, Reap
  <2>2. call[t] # NoCall
    BY <2>1 DEF NoCall
  <2> QED
    BY <2>2 DEF TInv, Quiescent
<1> QED
  BY <1>1, <1>2

LEMMA QuiescentKept ==
  ASSUME TInv, [Next]_vars
  PROVE  Quiescent'
<1>1. ASSUME NEW t \in Clients, ClientActs(t) PROVE Quiescent'
  <2>1. main' = main
    BY <1>1, ClientLock
  <2>2. Serving
    BY <1>1, CallerServed
  <2> QED
    BY <2>1, <2>2 DEF Quiescent, Serving
<1>2. CASE FirstStart \/ FirstRoot \/ FirstFails \/ Restart \/ ReplayDies \/ UNCHANGED vars
  <2>1. UNCHANGED <<state, bound, call>> /\ (Serving' <=> Serving)
    BY <1>2 DEF FirstStart, FirstRoot, FirstFails, Restart, ReplayDies, vars, memory, Serving
  <2> QED
    BY <2>1 DEF TInv, Quiescent
<1>3. CASE /\ MainActs
           /\ ~(FirstStart \/ FirstFails \/ Restart \/ ReplayDies)
  <2>1. main' \notin {"down", "first", "start"}
    BY <1>3 DEF MainActs, Replay, Started, CkpPrepare, CkpAbandon, CkpWrite,
       CkpDropBackup, CkpBackup, CkpDropData, CkpCommit, CkpDropCkp, CkpReopen, CkpDone
  <2> QED
    BY <2>1 DEF Quiescent, Serving
<1>4. CASE CkpDies \/ Crash
  <2>1. /\ state' = [c \in Contexts |-> "none"]
        /\ bound' = [c \in Contexts |-> NoBindings]
        /\ call' = [t \in Clients |-> NoCall]
    BY <1>4 DEF CkpDies, Crash, Down
  <2> QED
    BY <2>1 DEF Quiescent
<1>5. CASE RemovesBackup
  <2>1. UNCHANGED <<state, bound, call, main>>
    BY <1>5, Removed
  <2> QED
    BY <2>1 DEF TInv, Quiescent, Serving
<1> QED
  BY <1>1, <1>2, <1>3, <1>4, <1>5, StepCases

-----------------------------------------------------------------------------
(* The main thread, and the bounds.                                          *)

LEMMA ControlKept ==
  ASSUME TInv, [Next]_vars
  PROVE  ControlTypes' /\ BoundsTypes'
<1>0. /\ main \in MainStates /\ needed \in {0, 1}
      /\ calls \in 0..MaxCalls /\ crashes \in Nat /\ failures \in 0..MaxFailures
      /\ MaxCalls \in Nat /\ MaxFailures \in Nat
  BY BoundsAssumption DEF TInv, ControlTypes, BoundsTypes
<1>1. ASSUME NEW t \in Clients, ClientActs(t) PROVE ControlTypes' /\ BoundsTypes'
  <2>1. CASE Invoke(t)
    BY <1>0, <2>1 DEF Invoke, ControlTypes, BoundsTypes
  <2>2. CASE PutFails(t)
    BY <1>0, <2>2 DEF PutFails, ControlTypes, BoundsTypes
  <2>3. CASE ~Invoke(t) /\ ~PutFails(t)
    <3>1. /\ UNCHANGED <<main, calls, crashes, failures>>
          /\ needed' = needed \/ needed' = 1
      BY <1>1, <2>3 DEF ClientActs, Refused, Put, Apply, Leave, Reap, bounds
    <3> QED
      BY <1>0, <3>1 DEF ControlTypes, BoundsTypes
  <2> QED
    BY <2>1, <2>2, <2>3
<1>2. CASE MainActs \/ UNCHANGED vars \/ FirstRoot
  <2>1. main' \in MainStates /\ needed' \in {0, 1} /\ UNCHANGED <<calls, crashes>>
    BY <1>0, <1>2 DEF MainActs, FirstStart, FirstRoot, FirstFails, Restart, Replay,
       ReplayDies, Started, CkpPrepare, CkpAbandon, CkpWrite, CkpDropBackup, CkpBackup,
       CkpDropData, CkpCommit, CkpDropCkp, CkpReopen, CkpDone, vars, bounds, MainStates
  <2>2. CASE CkpAbandon
    BY <1>0, <2>1, <2>2 DEF CkpAbandon, ControlTypes, BoundsTypes
  <2>3. CASE ~CkpAbandon
    <3>1. failures' = failures
      BY <1>2, <2>3 DEF MainActs, FirstStart, FirstRoot, FirstFails, Restart, Replay,
         ReplayDies, Started, CkpPrepare, CkpWrite, CkpDropBackup, CkpBackup,
         CkpDropData, CkpCommit, CkpDropCkp, CkpReopen, CkpDone, vars, bounds
    <3> QED
      BY <1>0, <2>1, <3>1 DEF ControlTypes, BoundsTypes
  <2> QED
    BY <2>2, <2>3
<1>3. CASE CkpDies \/ Crash
  <2>1. /\ main' = "down" /\ needed' = 1 /\ UNCHANGED <<calls, failures>>
        /\ crashes' = crashes + 1
    BY <1>3 DEF CkpDies, Crash, Down, NeededAtStart
  <2> QED
    BY <1>0, <2>1 DEF ControlTypes, BoundsTypes, MainStates
<1>4. CASE RemovesBackup
  <2>1. UNCHANGED <<main, needed, calls, crashes, failures>>
    BY <1>4, Removed
  <2> QED
    BY <1>0, <2>1 DEF ControlTypes, BoundsTypes
<1> QED
  BY <1>1, <1>2, <1>3, <1>4, StepCases

LEMMA FiledKept ==
  ASSUME TInv, [Next]_vars
  PROVE  Filed'
<1>0. /\ name \in [FileNames -> Inodes \cup {None}] /\ Filed /\ main \in MainStates
      /\ None \notin Inodes /\ FileNames = {"dat", "bak", "ckp"}
  BY InodesAssumption DEF TInv, DiskTypes, ControlTypes, FileNames
<1>1. ASSUME NEW t \in Clients, ClientActs(t) PROVE Filed'
  <2>1. UNCHANGED <<name, main>>
    BY <1>1 DEF ClientActs, Invoke, Refused, Put, PutFails, Apply, Leave, Reap, disk
  <2> QED
    BY <1>0, <2>1 DEF Filed
<1>2. CASE FirstStart
  <2>1. Free \in Inodes
    BY <1>0, <1>2, FreeIs DEF FirstStart, TInv
  <2> QED
    BY <1>0, <1>2, <2>1 DEF FirstStart, Filed, Copying
<1>3. CASE FirstRoot \/ Restart \/ Replay \/ ReplayDies \/ UNCHANGED vars
  <2>1. /\ name' = name
        /\ \/ main' = main
           \/ main' = "start" /\ name["dat"] # None
           \/ main' \in {"down", "started"} /\ main = "start"
    BY <1>0, <1>3 DEF FirstRoot, Restart, Replay, ReplayDies, vars, disk, Filed, MainStates
  <2> QED
    BY <1>0, <2>1 DEF Filed, Copying, MainStates
<1>4. CASE FirstFails \/ Started
  BY <1>0, <1>4 DEF FirstFails, Started, RemoveStale, Filed, Copying, MainStates
<1>5. CASE CkpPrepare
  <2>1. PICK i \in {IF name["ckp"] = None THEN Free ELSE name["ckp"]} :
          name' = [name EXCEPT !["ckp"] = i]
    BY <1>5 DEF CkpPrepare
  <2>2. i # None
    BY <1>0, FreeIs DEF TInv
  <2> QED
    BY <1>0, <1>5, <2>1, <2>2 DEF CkpPrepare, Filed, Copying, MainStates
<1>6. CASE CkpAbandon \/ CkpWrite \/ CkpDropBackup
  BY <1>0, <1>6 DEF CkpAbandon, CkpWrite, CkpDropBackup, Filed, Copying, MainStates
<1>7. CASE CkpBackup \/ CkpDropData
  BY <1>0, <1>7 DEF CkpBackup, LinkBackup, CkpDropData, Filed, Copying, MainStates
<1>8. CASE CkpCommit \/ CkpDropCkp
  BY <1>0, <1>8 DEF CkpCommit, CkpDropCkp, Filed, Copying, MainStates
<1>9. CASE CkpReopen \/ CkpDone
  BY <1>0, <1>9 DEF CkpReopen, CkpDone, Filed, Copying, MainStates, disk
<1>10. CASE CkpDies \/ Crash
  BY <1>0, <1>10 DEF CkpDies, Crash, Down, Filed, Copying, MainStates
<1>11. CASE RemovesBackup
  <2>1. main' = "down"
    BY <1>11, Removed
  <2> QED
    BY <2>1 DEF Filed, Copying
<1> QED
  BY <1>1, <1>2, <1>3, <1>4, <1>5, <1>6, <1>7, <1>8, <1>9, <1>10, <1>11, StepCases DEF MainActs

LEMMA TInit ==
  ASSUME Init PROVE TInv
<1>1. \A t \in Clients : call[t] = NoCall
  BY DEF Init
<1>2. CallsProper /\ Apart /\ Calling
  BY <1>1, NoCallType DEF Init, CallsProper, Proper, Apart, Calling, NoCall, Making
<1>3. DiskTypes /\ Born
  BY Empty DEF Init, DiskTypes, Born, FilesBorn, HeaderOnly
<1>4. ControlTypes /\ BoundsTypes /\ Filed
  BY BoundsAssumption
     DEF Init, ControlTypes, BoundsTypes, MainStates, NeededAtStart, Filed, Copying
<1>5. LockTypes /\ Locked
  BY <1>1 DEF Init, Lock!RWInit, LockTypes, Locked, NoCall, Copying
<1>6. /\ StateTypes /\ BoundTypes /\ Past /\ Quiescent
      /\ \A c \in Contexts : state[c] \in {"leaving", "ending"} => c \in gone
  BY <1>1, Empty DEF Init, StateTypes, BoundTypes, Past, Quiescent
<1> QED
  BY <1>2, <1>3, <1>4, <1>5, <1>6 DEF TInv

LEMMA TNext ==
  ASSUME TInv, [Next]_vars PROVE TInv'
<1>1. DiskTypes' /\ FilesBorn'
  BY DiskKept
<1>2. MemoryGood'
  BY MemoryKept
<1>3. Born'
  BY <1>1, <1>2 DEF Born, MemoryGood
<1> QED
  BY <1>1, <1>2, <1>3, CallsKept, LockKept, QuiescentKept, ControlKept, FiledKept
     DEF TInv, MemoryGood

(* Every variable has its type, the lock is held for writing exactly from a  *)
(* record to its change and for reading by nobody but the checkpoint, and a  *)
(* context that is given up was destroyed: of the service as it is, whatever *)
(* its clients do and whenever it stops.                                     *)
THEOREM TypesHold == Spec => []TypeOK
<1>1. TInv => TypeOK
  <2> SUFFICES ASSUME TInv PROVE TypeOK
    OBVIOUS
  <2>1. Lock!RWTypeOK
    BY DEF TInv, LockTypes, Lock!RWTypeOK, Lock!Modes
  <2> QED
    BY <2>1 DEF TInv, TypeOK, DiskTypes, ControlTypes, StateTypes, BoundTypes, Calling,
       BoundsTypes, Past, Locked, MainStates
<1>2. Init => TInv
  BY TInit
<1>3. TInv /\ [Next]_vars => TInv'
  BY TNext
<1> QED
  BY <1>1, <1>2, <1>3, PTL DEF Spec

-----------------------------------------------------------------------------
(* How a context ends.                                                       *)

\* t keeps c from being etherealised.
Inside(t, c) ==
  \/ /\ call[t].ctx = c /\ call[t].at # "idle"
     /\ call[t].at = "reap" => call[t].op = "undo"
  \/ /\ call[t].new = c /\ call[t].op = "undo"
     /\ call[t].at # "reap"

LEMMA BusyIs ==
  \A c, t : (t \in Busy(c)) <=> (t \in Clients /\ Inside(t, c))
BY DEF Busy, Inside

LEMMA BusyWill ==
  \A c, t : (t \in Busy(c)') <=> (t \in Clients /\ Inside(t, c)')
BY DEF Busy, Inside

\* Only t moves: the others are inside what they were inside.
LEMMA OthersInside ==
  ASSUME NEW t \in Clients, Others(t)
  PROVE  \A u \in Clients : \A c : u # t => (Inside(u, c)' <=> Inside(u, c))
BY DEF Others, Inside

\* A step after which as many are inside as before, and nobody is taken out
\* or in the making that was not.
LEMMA EndingStays ==
  ASSUME Ending, NEW t \in Clients, Others(t), UNCHANGED state,
         \A c \in Contexts : Inside(t, c) => Inside(t, c)',
         \A c \in Contexts : Inside(t, c)' => Inside(t, c) \/ state[c] # "ending",
         call[t].at # "reap" /\ call'[t].at # "reap",
         call'[t].op \in {"bindctx", "undo"} /\ call'[t].at \in {"enter", "logged"}
           => state[call'[t].new] = "active",
         call'[t].op \in {"new", "bindnew"} /\ call'[t].at = "logged"
           => state[call'[t].new] = "none"
  PROVE  Ending'
<1>1. \A u \in Clients : u # t => call'[u] = call[u]
  BY DEF Others
<1>2. \A u \in Clients : \A c : u # t => (Inside(u, c)' <=> Inside(u, c))
  BY OthersInside
<1>3. \A c \in Contexts : state'[c] = "leaving" => Busy(c)' # {}
  BY <1>2, BusyIs, BusyWill DEF Ending
<1>4. \A c \in Contexts : state'[c] = "ending" => Busy(c)' = {}
  BY <1>2, BusyIs, BusyWill DEF Ending
<1>5. \A c \in Contexts : state'[c] = "ending" =>
        \E u \in Clients : call'[u].at = "reap" /\ call'[u].reap = c
  BY <1>1 DEF Ending
<1>6. /\ \A u \in Clients : call'[u].at = "reap" => state'[call'[u].reap] = "ending"
      /\ \A u, v \in Clients :
           call'[u].at = "reap" /\ call'[v].at = "reap" /\ call'[u].reap = call'[v].reap
             => u = v
  BY <1>1 DEF Ending
<1>7. /\ \A u \in Clients :
           call'[u].op \in {"bindctx", "undo"} /\ call'[u].at \in {"enter", "logged"}
             => state'[call'[u].new] = "active"
      /\ \A u \in Clients :
           call'[u].op \in {"new", "bindnew"} /\ call'[u].at = "logged"
             => state'[call'[u].new] = "none"
  BY <1>1 DEF Ending
<1> QED
  BY <1>3, <1>4, <1>5, <1>6, <1>7 DEF Ending

LEMMA EndingInvoke ==
  ASSUME TInv, Ending, NEW t \in Clients, Invoke(t)
  PROVE  Ending'
<1>1. call[t].at = "idle" /\ Begins(t) /\ UNCHANGED state
  BY InvokeDoes DEF TInv, Invoke, memory
<1>2. call[t] = NoCall
  BY <1>1 DEF TInv, CallsProper, Proper
<1>3. \A c : ~Inside(t, c)
  BY <1>2 DEF Inside, NoCall
<1>4. /\ call'[t].at = "enter" /\ call'[t].op \in Ops /\ Others(t)
      /\ state[call'[t].ctx] \in {"active", "leaving"}
  BY <1>1 DEF Begins
<1>5. \A c \in Contexts : Inside(t, c)' => state[c] # "ending"
  BY <1>4, OpsAssumption DEF Inside
<1> QED
  BY <1>1, <1>3, <1>4, <1>5, EndingStays, OpsAssumption

LEMMA EndingRaised ==
  ASSUME TInv, Ending, NEW t \in Clients, Raised(t), call[t].at = "enter", UNCHANGED state
  PROVE  Ending'
<1>1. \/ call[t].op = "bindctx" /\ Becomes(t, "undo", "enter")
      \/ call[t].op # "bindctx" /\ Becomes(t, call[t].op, "leave")
  BY RaisedDoes DEF TInv
<1>2. CASE call[t].op = "bindctx" /\ Becomes(t, "undo", "enter")
  <2>1. state[call[t].new] = "active"
    BY <1>2 DEF Ending
  <2>2. \A c : Inside(t, c) => Inside(t, c)'
    BY <1>2 DEF Inside, Becomes
  <2>3. \A c : Inside(t, c)' => Inside(t, c) \/ c = call[t].new
    BY <1>2 DEF Inside, Becomes
  <2> QED
    BY <1>2, <2>1, <2>2, <2>3, EndingStays DEF Becomes
<1>3. CASE call[t].op # "bindctx" /\ Becomes(t, call[t].op, "leave")
  <2>1. \A c : Inside(t, c)' <=> Inside(t, c)
    BY <1>3 DEF Inside, Becomes
  <2> QED
    BY <1>3, <2>1, EndingStays DEF Becomes
<1> QED
  BY <1>1, <1>2, <1>3

LEMMA EndingPut ==
  ASSUME TInv, Ending, NEW t \in Clients, Put(t)
  PROVE  Ending'
<1>1. call[t].at = "enter" /\ Becomes(t, call[t].op, "logged") /\ UNCHANGED state
  BY PutDoes DEF TInv, Put, memory
<1>2. \A c : Inside(t, c)' <=> Inside(t, c)
  BY <1>1 DEF Inside, Becomes
<1>3. call[t].op \in {"new", "bindnew"} => state[call[t].new] = "none"
  BY <1>1 DEF TInv, CallsProper, Proper, Born, Making
<1>4. call[t].op \in {"bindctx", "undo"} => state[call[t].new] = "active"
  BY <1>1 DEF Ending
<1> QED
  BY <1>1, <1>2, <1>3, <1>4, EndingStays DEF Becomes

\* The change of a call: a context gets active, or is given up.
LEMMA EndingChanged ==
  ASSUME TInv, Ending, NEW t \in Clients, Others(t), NEW d \in Contexts,
         NEW x \in {"active", "leaving"}, state' = [state EXCEPT ![d] = x],
         state[d] # "ending", x = "leaving" => Inside(t, d)',
         \A c : Inside(t, c)' <=> Inside(t, c),
         call[t].at # "reap" /\ call'[t].at # "reap",
         call'[t].op \in {"bindctx", "undo"} /\ call'[t].at \in {"enter", "logged"}
           => call'[t].new = d /\ x = "active",
         ~(call'[t].op \in {"new", "bindnew"} /\ call'[t].at = "logged"),
         \A u \in Clients : u # t => call[u].new # d
  PROVE  Ending'
<1>0. /\ \A c \in Contexts : c # d => state'[c] = state[c]
      /\ state'[d] = x
  BY DEF TInv, StateTypes
<1>1. \A u \in Clients : u # t => call'[u] = call[u]
  BY DEF Others
<1>2. \A u \in Clients : \A c : Inside(u, c)' <=> Inside(u, c)
  BY OthersInside
<1>3. \A c \in Contexts : state'[c] = "leaving" => Busy(c)' # {}
  <2> SUFFICES ASSUME NEW c \in Contexts, state'[c] = "leaving" PROVE Busy(c)' # {}
    OBVIOUS
  <2>1. CASE c = d
    BY <1>0, <2>1, BusyWill
  <2>2. CASE c # d
    BY <1>0, <1>2, <2>2, BusyIs, BusyWill DEF Ending
  <2> QED
    BY <2>1, <2>2
<1>4. \A c \in Contexts : state'[c] = "ending" => state[c] = "ending"
  BY <1>0
<1>5. \A c \in Contexts : state'[c] = "ending" => Busy(c)' = {}
  BY <1>2, <1>4, BusyIs, BusyWill DEF Ending
<1>6. \A c \in Contexts : state'[c] = "ending" =>
        \E u \in Clients : call'[u].at = "reap" /\ call'[u].reap = c
  BY <1>1, <1>4 DEF Ending
<1>7. \A u \in Clients : call'[u].at = "reap" => state'[call'[u].reap] = "ending"
  <2> SUFFICES ASSUME NEW u \in Clients, call'[u].at = "reap"
               PROVE  state'[call'[u].reap] = "ending"
    OBVIOUS
  <2>1. u # t /\ call'[u] = call[u]
    BY <1>1
  <2>2. state[call[u].reap] = "ending" /\ call[u].reap \in Contexts
    BY <2>1 DEF Ending, TInv, CallsProper, Proper, Past
  <2> QED
    BY <1>0, <2>1, <2>2
<1>8. \A u, v \in Clients :
        call'[u].at = "reap" /\ call'[v].at = "reap" /\ call'[u].reap = call'[v].reap
          => u = v
  BY <1>1 DEF Ending
<1>9. \A u \in Clients :
        call'[u].op \in {"bindctx", "undo"} /\ call'[u].at \in {"enter", "logged"}
          => state'[call'[u].new] = "active"
  <2> SUFFICES ASSUME NEW u \in Clients, call'[u].op \in {"bindctx", "undo"},
                      call'[u].at \in {"enter", "logged"}
               PROVE  state'[call'[u].new] = "active"
    OBVIOUS
  <2>1. CASE u = t
    BY <1>0, <2>1
  <2>2. CASE u # t
    <3>1. /\ call'[u] = call[u] /\ state[call[u].new] = "active" /\ call[u].new # d
      BY <1>1, <2>2 DEF Ending
    <3>2. call[u].new \in Contexts
      BY <3>1 DEF TInv, CallsProper, Proper, Making
    <3> QED
      BY <1>0, <3>1, <3>2
  <2> QED
    BY <2>1, <2>2
<1>10. \A u \in Clients :
        call'[u].op \in {"new", "bindnew"} /\ call'[u].at = "logged"
          => state'[call'[u].new] = "none"
  <2> SUFFICES ASSUME NEW u \in Clients, call'[u].op \in {"new", "bindnew"},
                      call'[u].at = "logged"
               PROVE  state'[call'[u].new] = "none"
    OBVIOUS
  <2>1. u # t
    OBVIOUS
  <2>2. /\ call'[u] = call[u] /\ state[call[u].new] = "none" /\ call[u].new # d
    BY <1>1, <2>1 DEF Ending
  <2>3. call[u].new \in Contexts
    BY <2>2 DEF TInv, CallsProper, Proper, Making
  <2> QED
    BY <1>0, <2>2, <2>3
<1> QED
  BY <1>3, <1>5, <1>6, <1>7, <1>8, <1>9, <1>10 DEF Ending

LEMMA EndingApply ==
  ASSUME TInv, Ending, NEW t \in Clients, Apply(t)
  PROVE  Ending'
<1>1. /\ call[t].at = "logged"
      /\ \/ call[t].op = "bindnew" /\ Becomes(t, "bindctx", "enter")
         \/ call[t].op # "bindnew" /\ Becomes(t, call[t].op, "leave")
  BY ApplyDoes DEF TInv, CallsProper, Proper, Making
<1>2. \A c : Inside(t, c)' <=> Inside(t, c)
  BY <1>1 DEF Inside, Becomes
<1>3. /\ Proper(t) /\ call[t].op \in Recorded /\ Target(t) \in Contexts
  BY <1>1, Records_, ApplyMemory DEF TInv, CallsProper
<1>4. CASE call[t].op \in Binding \cup {"unbind"}
  <2>1. state' = state /\ Becomes(t, call[t].op, "leave")
    BY <1>1, <1>4, ApplyMemory DEF Binding
  <2> QED
    BY <1>1, <1>2, <2>1, EndingStays DEF Becomes
<1>5. CASE call[t].op \in Creating
  <2>1. state' = [state EXCEPT ![call[t].new] = "active"] /\ call[t].new \in Contexts
    BY <1>3, <1>5, ApplyMemory DEF Proper, Creating, Making
  <2>2. state[call[t].new] = "none"
    BY <1>1, <1>5 DEF Ending, Creating
  <2>3. \A u \in Clients : u # t => call[u].new # call[t].new
    BY <2>1, NoneAssumption DEF TInv, Apart
  <2>4. /\ Others(t) /\ call'[t].at # "reap" /\ call'[t].at # "logged"
        /\ call'[t].new = call[t].new
    BY <1>1 DEF Becomes
  <2> QED
    BY <1>1, <1>2, <2>1, <2>2, <2>3, <2>4, EndingChanged
<1>6. CASE call[t].op \in Destroying
  <2>1. state' = [state EXCEPT ![Target(t)] = "leaving"]
    BY <1>6, ApplyMemory
  <2>2. Inside(t, Target(t))
    BY <1>1, <1>6 DEF Inside, Target, Destroying
  <2>3. state[Target(t)] # "ending"
    BY <1>3, <2>2, BusyIs DEF Ending
  <2>4. \A u \in Clients : u # t => call[u].new # Target(t)
    BY <1>1, <1>3, <1>6, NoneAssumption DEF TInv, Apart, Target, Destroying
  <2>5. Becomes(t, call[t].op, "leave")
    BY <1>1, <1>6 DEF Destroying
  <2>6. Others(t) /\ call'[t].at = "leave"
    BY <2>5 DEF Becomes
  <2> QED
    BY <1>1, <1>2, <1>3, <2>1, <2>2, <2>3, <2>4, <2>6, EndingChanged
<1> QED
  BY <1>3, <1>4, <1>5, <1>6 DEF Recorded

\* A call goes out of a context, and it is not the last there.
LEMMA EndingLeft ==
  ASSUME Ending, NEW t \in Clients, Others(t), UNCHANGED state, NEW d \in Contexts,
         ~Last(t, d),
         \A c : Inside(t, c) /\ c # d => Inside(t, c)',
         \A c : Inside(t, c)' => Inside(t, c),
         call[t].at # "reap" /\ call'[t].at \notin {"reap", "enter", "logged"}
  PROVE  Ending'
<1>1. \A u \in Clients : u # t => call'[u] = call[u]
  BY DEF Others
<1>2. \A u \in Clients : \A c : u # t => (Inside(u, c)' <=> Inside(u, c))
  BY OthersInside
<1>3. \A c \in Contexts : state'[c] = "leaving" => Busy(c)' # {}
  <2> SUFFICES ASSUME NEW c \in Contexts, state[c] = "leaving" PROVE Busy(c)' # {}
    OBVIOUS
  <2>1. PICK u \in Clients : Inside(u, c) /\ (c = d => u # t)
    BY BusyIs DEF Ending, Last
  <2> QED
    BY <1>2, <2>1, BusyWill
<1>4. \A c \in Contexts : state'[c] = "ending" => Busy(c)' = {}
  BY <1>2, BusyIs, BusyWill DEF Ending
<1>5. \A c \in Contexts : state'[c] = "ending" =>
        \E u \in Clients : call'[u].at = "reap" /\ call'[u].reap = c
  BY <1>1 DEF Ending
<1>6. /\ \A u \in Clients : call'[u].at = "reap" => state'[call'[u].reap] = "ending"
      /\ \A u, v \in Clients :
           call'[u].at = "reap" /\ call'[v].at = "reap" /\ call'[u].reap = call'[v].reap
             => u = v
  BY <1>1 DEF Ending
<1>7. /\ \A u \in Clients :
           call'[u].op \in {"bindctx", "undo"} /\ call'[u].at \in {"enter", "logged"}
             => state'[call'[u].new] = "active"
      /\ \A u \in Clients :
           call'[u].op \in {"new", "bindnew"} /\ call'[u].at = "logged"
             => state'[call'[u].new] = "none"
  BY <1>1 DEF Ending
<1> QED
  BY <1>3, <1>4, <1>5, <1>6, <1>7 DEF Ending

LEMMA EndingLeave ==
  ASSUME TInv, Ending, NEW t \in Clients, Leave(t)
  PROVE  Ending'
<1>1. call[t].at = "leave" /\ Proper(t)
  BY DEF Leave, TInv, CallsProper
<1>2. Target(t) \in Contexts
  BY <1>1, TargetIs
<1>3. \/ /\ Last(t, Target(t)) /\ state' = [state EXCEPT ![Target(t)] = "ending"]
         /\ Becomes(t, call[t].op, "reap") /\ call'[t].reap = Target(t)
      \/ /\ ~Last(t, Target(t)) /\ UNCHANGED state /\ call[t].op = "undo"
         /\ Becomes(t, "undone", "leave")
      \/ /\ ~Last(t, Target(t)) /\ UNCHANGED state /\ call[t].op # "undo"
         /\ Clears(t)
  BY <1>2, LeaveDoes DEF TInv
<1>4. CASE /\ Last(t, Target(t)) /\ state' = [state EXCEPT ![Target(t)] = "ending"]
           /\ Becomes(t, call[t].op, "reap") /\ call'[t].reap = Target(t)
  <2>0. PICK d \in Contexts : d = Target(t)
    BY <1>2
  <2>1. /\ \A c \in Contexts : c # d => state'[c] = state[c]
        /\ state'[d] = "ending" /\ state[d] = "leaving"
        /\ Busy(d) = {t}
    BY <1>4, <2>0 DEF TInv, StateTypes, Last
  <2>2. /\ \A u \in Clients : u # t => call'[u] = call[u]
        /\ \A u \in Clients : \A c : u # t => (Inside(u, c)' <=> Inside(u, c))
    BY <1>4, OthersInside DEF Becomes, Others
  <2>3. call[t].op = "undo" => call[t].new # call[t].ctx
    BY <1>1 DEF TInv, Apart
  <2>4. ~Inside(t, d)'
    BY <1>4, <2>0, <2>3 DEF Becomes, Inside, Target
  <2>5. \A c : c # d => (Inside(t, c)' <=> Inside(t, c))
    BY <1>1, <1>4, <2>0 DEF Becomes, Inside, Target
  <2>6. Busy(d)' = {}
    BY <2>1, <2>2, <2>4, BusyIs, BusyWill
  <2>7. \A c \in Contexts : state'[c] = "leaving" => Busy(c)' # {}
    BY <2>1, <2>2, <2>5, BusyIs, BusyWill DEF Ending
  <2>8. \A c \in Contexts : state'[c] = "ending" => Busy(c)' = {}
    BY <2>1, <2>2, <2>5, <2>6, BusyIs, BusyWill DEF Ending
  <2>9. \A c \in Contexts : state'[c] = "ending" =>
          \E u \in Clients : call'[u].at = "reap" /\ call'[u].reap = c
    <3> SUFFICES ASSUME NEW c \in Contexts, state'[c] = "ending"
                 PROVE  \E u \in Clients : call'[u].at = "reap" /\ call'[u].reap = c
      OBVIOUS
    <3>1. CASE c = d
      BY <1>4, <2>0, <3>1 DEF Becomes
    <3>2. CASE c # d
      <4>1. PICK u \in Clients : call[u].at = "reap" /\ call[u].reap = c
        BY <2>1, <3>2 DEF Ending
      <4> QED
        BY <1>1, <2>2, <4>1
    <3> QED
      BY <3>1, <3>2
  <2>10. \A u \in Clients : u # t /\ call'[u].at = "reap" =>
           state'[call'[u].reap] = "ending" /\ call'[u].reap # d
    <3> SUFFICES ASSUME NEW u \in Clients, u # t, call'[u].at = "reap"
                 PROVE  state'[call'[u].reap] = "ending" /\ call'[u].reap # d
      OBVIOUS
    <3>1. call'[u] = call[u] /\ state[call[u].reap] = "ending" /\ call[u].reap \in Contexts
      BY <2>2 DEF Ending, TInv, CallsProper, Proper, Past
    <3> QED
      BY <2>1, <3>1
  <2>11. /\ \A u \in Clients : call'[u].at = "reap" => state'[call'[u].reap] = "ending"
         /\ \A u, v \in Clients :
              call'[u].at = "reap" /\ call'[v].at = "reap"
                /\ call'[u].reap = call'[v].reap => u = v
    BY <1>4, <2>0, <2>1, <2>2, <2>10 DEF Ending
  <2>12. \A u \in Clients :
           /\ call'[u].op \in {"bindctx", "undo"} /\ call'[u].at \in {"enter", "logged"}
                => state'[call'[u].new] = "active"
           /\ call'[u].op \in {"new", "bindnew"} /\ call'[u].at = "logged"
                => state'[call'[u].new] = "none"
    <3> SUFFICES ASSUME NEW u \in Clients, call'[u].at \in {"enter", "logged"}
                 PROVE  /\ call'[u].op \in {"bindctx", "undo"}
                             => state'[call'[u].new] = "active"
                        /\ call'[u].op \in {"new", "bindnew"} /\ call'[u].at = "logged"
                             => state'[call'[u].new] = "none"
      OBVIOUS
    <3>1. u # t /\ call'[u] = call[u]
      BY <1>4, <2>2 DEF Becomes
    <3>2. call[u].op \in {"bindctx", "undo", "new", "bindnew"} =>
            call[u].new \in Contexts
      BY <3>1 DEF TInv, CallsProper, Proper, Making
    <3>3. /\ call[u].op \in {"bindctx", "undo"} => state[call[u].new] = "active"
          /\ call[u].op \in {"new", "bindnew"} /\ call[u].at = "logged"
               => state[call[u].new] = "none"
      BY <3>1 DEF Ending
    <3> QED
      BY <2>1, <3>1, <3>2, <3>3
  <2> QED
    BY <2>7, <2>8, <2>9, <2>11, <2>12 DEF Ending
<1>5. CASE ~Last(t, Target(t)) /\ UNCHANGED state /\ call[t].op = "undo"
             /\ Becomes(t, "undone", "leave")
  <2>1. \A c : Inside(t, c)' => Inside(t, c)
    BY <1>1, <1>5 DEF Inside, Becomes
  <2>2. \A c : Inside(t, c) /\ c # Target(t) => Inside(t, c)'
    BY <1>1, <1>5 DEF Inside, Becomes, Target
  <2> QED
    BY <1>1, <1>2, <1>5, <2>1, <2>2, EndingLeft DEF Becomes
<1>6. CASE ~Last(t, Target(t)) /\ UNCHANGED state /\ call[t].op # "undo" /\ Clears(t)
  <2>1. call'[t].at = "idle" /\ call'[t].op = "none" /\ Others(t)
    BY <1>6 DEF Clears, NoCall
  <2>2. \A c : ~Inside(t, c)'
    BY <2>1 DEF Inside
  <2>3. \A c : Inside(t, c) => c = Target(t)
    BY <1>1, <1>6 DEF Inside, Target
  <2> QED
    BY <1>1, <1>2, <1>6, <2>1, <2>2, <2>3, EndingLeft
<1> QED
  BY <1>3, <1>4, <1>5, <1>6

LEMMA EndingReap ==
  ASSUME TInv, Ending, NEW t \in Clients, Reap(t)
  PROVE  Ending'
<1>1. /\ call[t].at = "reap" /\ Proper(t)
      /\ state' = [state EXCEPT ![call[t].reap] = "none"]
      /\ call[t].reap \in Contexts /\ state[call[t].reap] = "ending"
  BY DEF Reap, Ending, TInv, CallsProper, Proper, Past
<1>2. PICK d \in Contexts : d = call[t].reap
  BY <1>1
<1>3. /\ \A c \in Contexts : c # d => state'[c] = state[c]
      /\ state'[d] = "none" /\ state[d] = "ending"
  BY <1>1, <1>2 DEF TInv, StateTypes
<1>4. \/ call[t].op = "undo" /\ Becomes(t, "undone", "leave")
      \/ call[t].op # "undo" /\ Clears(t)
  BY ReapDoes DEF TInv
<1>5. Others(t) /\ call'[t].at \notin {"reap", "enter", "logged"}
  BY <1>4 DEF Becomes, Clears, NoCall
<1>6. \A c : Inside(t, c)' <=> Inside(t, c)
  BY <1>1, <1>4 DEF Becomes, Clears, NoCall, Inside
<1>7. /\ \A u \in Clients : u # t => call'[u] = call[u]
      /\ \A u \in Clients : \A c : Inside(u, c)' <=> Inside(u, c)
  BY <1>5, <1>6, OthersInside DEF Others
<1>8. \A c \in Contexts : state'[c] = "leaving" => Busy(c)' # {}
  BY <1>3, <1>7, BusyIs, BusyWill DEF Ending
<1>9. \A c \in Contexts : state'[c] = "ending" => c # d /\ Busy(c)' = {}
  BY <1>3, <1>7, BusyIs, BusyWill DEF Ending
<1>10. \A c \in Contexts : state'[c] = "ending" =>
         \E u \in Clients : call'[u].at = "reap" /\ call'[u].reap = c
  <2> SUFFICES ASSUME NEW c \in Contexts, state'[c] = "ending"
               PROVE  \E u \in Clients : call'[u].at = "reap" /\ call'[u].reap = c
    OBVIOUS
  <2>1. c # d /\ state[c] = "ending"
    BY <1>3
  <2>2. PICK u \in Clients : call[u].at = "reap" /\ call[u].reap = c
    BY <2>1 DEF Ending
  <2>3. u # t
    BY <1>2, <2>1, <2>2
  <2> QED
    BY <1>7, <2>2, <2>3
<1>11. \A u \in Clients : call'[u].at = "reap" => state'[call'[u].reap] = "ending"
  <2> SUFFICES ASSUME NEW u \in Clients, call'[u].at = "reap"
               PROVE  state'[call'[u].reap] = "ending"
    OBVIOUS
  <2>1. u # t /\ call'[u] = call[u]
    BY <1>5, <1>7
  <2>2. /\ state[call[u].reap] = "ending" /\ call[u].reap # d
        /\ call[u].reap \in Contexts
    BY <1>1, <1>2, <2>1 DEF Ending, TInv, CallsProper, Proper, Past
  <2> QED
    BY <1>3, <2>1, <2>2
<1>12. \A u, v \in Clients :
         call'[u].at = "reap" /\ call'[v].at = "reap" /\ call'[u].reap = call'[v].reap
           => u = v
  BY <1>5, <1>7 DEF Ending
<1>13. \A u \in Clients :
         /\ call'[u].op \in {"bindctx", "undo"} /\ call'[u].at \in {"enter", "logged"}
              => state'[call'[u].new] = "active"
         /\ call'[u].op \in {"new", "bindnew"} /\ call'[u].at = "logged"
              => state'[call'[u].new] = "none"
  <2> SUFFICES ASSUME NEW u \in Clients, call'[u].at \in {"enter", "logged"}
               PROVE  /\ call'[u].op \in {"bindctx", "undo"}
                           => state'[call'[u].new] = "active"
                      /\ call'[u].op \in {"new", "bindnew"} /\ call'[u].at = "logged"
                           => state'[call'[u].new] = "none"
    OBVIOUS
  <2>1. u # t /\ call'[u] = call[u]
    BY <1>5, <1>7
  <2>2. call[u].op \in {"bindctx", "undo", "new", "bindnew"} => call[u].new \in Contexts
    BY <2>1 DEF TInv, CallsProper, Proper, Making
  <2>3. /\ call[u].op \in {"bindctx", "undo"} => state[call[u].new] = "active"
        /\ call[u].op \in {"new", "bindnew"} /\ call[u].at = "logged"
             => state[call[u].new] = "none"
    BY <2>1 DEF Ending
  <2> QED
    BY <1>3, <2>1, <2>2, <2>3
<1> QED
  BY <1>8, <1>9, <1>10, <1>11, <1>12, <1>13 DEF Ending

\* Nobody calls, and no context is given up.
LEMMA EndingIdle ==
  ASSUME \A t \in Clients : call[t] = NoCall,
         \A c \in Contexts : state[c] \notin {"leaving", "ending"}
  PROVE  Ending
BY DEF Ending, NoCall

LEMMA EndingNext ==
  ASSUME TInv, Ending, [Next]_vars
  PROVE  Ending'
<1>1. ASSUME NEW t \in Clients, ClientActs(t) PROVE Ending'
  <2>1. CASE Refused(t) \/ PutFails(t)
    BY <2>1, EndingRaised DEF Refused, PutFails, memory
  <2> QED
    BY <1>1, <2>1, EndingInvoke, EndingPut, EndingApply, EndingLeave, EndingReap
       DEF ClientActs
<1>2. CASE (MainActs /\ ~Replay) \/ FirstRoot \/ UNCHANGED vars
  <2>1. UNCHANGED <<state, call>>
    BY <1>2 DEF MainActs, FirstStart, FirstFails, Restart, ReplayDies, Started,
       CkpPrepare, CkpAbandon, CkpWrite, CkpDropBackup, CkpBackup, CkpDropData,
       CkpCommit, CkpDropCkp, CkpReopen, CkpDone, FirstRoot, vars, memory
  <2> QED
    BY <2>1 DEF Ending, Busy
<1>3. CASE Replay
  <2>1. /\ \A t \in Clients : call'[t] = NoCall
        /\ \A c \in Contexts : state'[c] \notin {"leaving", "ending"}
    BY <1>3 DEF Replay, TInv, Quiescent, Serving
  <2> QED
    BY <2>1 DEF Ending, NoCall
<1>4. CASE CkpDies \/ Crash
  <2>1. /\ \A t \in Clients : call'[t] = NoCall
        /\ \A c \in Contexts : state'[c] \notin {"leaving", "ending"}
    BY <1>4 DEF CkpDies, Crash, Down
  <2> QED
    BY <2>1 DEF Ending, NoCall
<1>5. CASE RemovesBackup
  <2>1. UNCHANGED <<state, call>>
    BY <1>5, Removed
  <2> QED
    BY <2>1 DEF Ending, Busy
<1> QED
  BY <1>1, <1>2, <1>3, <1>4, <1>5, StepCases

(* No context is left behind half destroyed once the calls are over, and no  *)
(* call is inside one that is being taken out: also when clients call a      *)
(* context that others destroy (NamingContext_i.cc:403-417, 466-485).        *)
THEOREM NoneLeftBehind == Spec => []NoneHalfGone
<1>1. TInv /\ Ending => NoneHalfGone
  <2> SUFFICES ASSUME TInv, Ending PROVE NoneHalfGone
    OBVIOUS
  <2>1. ASSUME \A t \in Clients : call[t].at = "idle", NEW c \in Contexts
        PROVE  state[c] \in {"none", "active"}
    <3>1. \A t \in Clients : call[t] = NoCall
      BY <2>1 DEF TInv, CallsProper, Proper
    <3>2. Busy(c) = {}
      BY <3>1 DEF Busy, NoCall
    <3>3. state[c] \notin {"leaving", "ending"}
      BY <2>1, <3>2 DEF Ending
    <3> QED
      BY <3>3 DEF TInv, StateTypes
  <2> QED
    BY <2>1 DEF NoneHalfGone, Ending
<1>2. Init => TInv /\ Ending
  BY TInit, EndingIdle DEF Init
<1>3. TInv /\ Ending /\ [Next]_vars => (TInv /\ Ending)'
  BY TNext, EndingNext
<1> QED
  BY <1>1, <1>2, <1>3, PTL DEF Spec

-----------------------------------------------------------------------------
(* Torn records.                                                             *)

\* The file of a checkpoint is not torn, nor the log that comes of it.
Mended ==
  /\ needed = 0 => main = "loop"
  /\ failures = 0 =>
       /\ needed = 0 \/ main \in {"committed", "unlinked", "released"}
            => ~Contents("dat").torn
       /\ main \in {"written", "unbacked", "backed", "dataless"}
            => ~Contents("ckp").torn

LEMMA MendedNext ==
  ASSUME TInv, Mended, [Next]_vars
  PROVE  Mended'
<1>0. /\ name \in [FileNames -> Inodes \cup {None}] /\ inode \in [Inodes -> Files]
      /\ FileNames = {"dat", "bak", "ckp"} /\ failures \in Nat /\ Filed
      /\ main \in MainStates /\ needed \in {0, 1}
  BY BoundsAssumption DEF TInv, DiskTypes, FileNames, BoundsTypes, ControlTypes
<1>1. ASSUME NEW t \in Clients, ClientActs(t) PROVE Mended'
  <2>1. CASE Put(t)
    <3>1. /\ LockFree /\ needed' = 1 /\ UNCHANGED <<name, main, failures>>
          /\ call[t].at = "enter" /\ Record(t) \in Records
          /\ inode' = [inode EXCEPT ![name["dat"]] = Written(@, Record(t))]
      BY <2>1, PutHistory DEF Put, LockFree, Lock!WriteLock, bounds
    <3>2. main \notin Copying /\ name["dat"] \in Inodes
      BY <3>1, Writing
    <3>3. Contents("dat")' = Written(Contents("dat"), Record(t))
      BY <1>0, <3>1, <3>2 DEF Contents
    <3>4. Contents("dat")'.torn = Contents("dat").torn
      BY <1>0, <3>1, <3>2, <3>3, WrittenIs DEF Contents
    <3> QED
      BY <3>1, <3>2, <3>4 DEF Mended, Copying
  <2>2. CASE PutFails(t)
    BY <1>0, <2>2 DEF PutFails, Mended
  <2>3. CASE ~Put(t) /\ ~PutFails(t)
    <3>1. UNCHANGED <<name, inode, needed, main, failures>>
      BY <1>1, <2>3 DEF ClientActs, Invoke, Refused, Apply, Leave, Reap, disk, bounds
    <3> QED
      BY <3>1 DEF Mended, Contents
  <2> QED
    BY <2>1, <2>2, <2>3
<1>2. CASE FirstStart \/ FirstRoot \/ FirstFails \/ Restart \/ Replay \/ ReplayDies \/ Started
  <2>1. /\ needed' = needed /\ main \in {"down", "first", "start", "started"}
        /\ main' \in {"first", "start", "down", "started", "loop"}
    BY <1>2 DEF FirstStart, FirstRoot, FirstFails, Restart, Replay, ReplayDies, Started
  <2>2. needed = 1
    BY <1>0, <2>1 DEF Mended
  <2> QED
    BY <2>1, <2>2 DEF Mended
<1>3. CASE CkpPrepare
  BY <1>0, <1>3 DEF CkpPrepare, Mended
<1>4. CASE CkpAbandon
  BY <1>0, <1>4 DEF CkpAbandon, Mended
<1>5. CASE CkpWrite
  <2>1. /\ main = "prepared" /\ inode' = [inode EXCEPT ![name["ckp"]] = Snapshot]
        /\ name' = name /\ main' = "written" /\ needed' = needed
    BY <1>5 DEF CkpWrite
  <2>2. name["ckp"] \in Inodes /\ ~Snapshot.torn
    BY <1>0, <2>1, SnapshotIs DEF TInv, Filed, Copying, FileNames
  <2>3. Contents("ckp")' = Snapshot
    BY <1>0, <2>1, <2>2 DEF Contents
  <2> QED
    BY <1>0, <2>1, <2>2, <2>3 DEF Mended
<1>6. CASE CkpDropBackup \/ CkpBackup \/ CkpDropData
  <2>1. /\ needed' = needed /\ failures' = failures /\ inode' = inode
        /\ name'["ckp"] = name["ckp"]
        /\ main \in {"written", "unbacked", "backed"}
        /\ main' \in {"unbacked", "backed", "dataless"}
    BY <1>0, <1>6 DEF CkpDropBackup, CkpBackup, LinkBackup, CkpDropData, bounds
  <2> QED
    BY <1>0, <2>1 DEF Mended, Contents
<1>7. CASE CkpCommit
  <2>1. /\ needed' = needed /\ failures' = failures /\ inode' = inode
        /\ name'["dat"] = name["ckp"] /\ main = "dataless" /\ main' = "committed"
    BY <1>0, <1>7 DEF CkpCommit, bounds
  <2> QED
    BY <1>0, <2>1 DEF Mended, Contents
<1>8. CASE CkpDropCkp \/ CkpReopen \/ CkpDone
  <2>1. /\ failures' = failures /\ inode' = inode /\ name'["dat"] = name["dat"]
        /\ main \in {"committed", "unlinked", "released"}
        /\ \/ needed' = needed /\ main' \in {"unlinked", "released"}
           \/ needed' = 0 /\ main' = "loop"
    BY <1>0, <1>8 DEF CkpDropCkp, CkpReopen, CkpDone, bounds, disk
  <2> QED
    BY <1>0, <2>1 DEF Mended, Contents
<1>9. CASE CkpDies \/ Crash
  BY <1>9 DEF CkpDies, Crash, Down, NeededAtStart, Mended
<1>10. CASE UNCHANGED vars
  BY <1>10 DEF vars, disk, bounds, Mended, Contents
<1>11. CASE RemovesBackup
  <2>1. main = "down" /\ main' = "down" /\ needed' = needed
    BY <1>11, Removed
  <2> QED
    BY <1>0, <2>1 DEF Mended
<1> QED
  BY <1>1, <1>2, <1>3, <1>4, <1>5, <1>6, <1>7, <1>8, <1>9, <1>10, <1>11, StepCases
     DEF MainActs

(* A record torn by a stop does not stay: a checkpoint is due as long as the *)
(* file a restart would read has one, unless a write failed (log.cc:129,     *)
(* 517-521, omniNames.cc:343-347).                                           *)
THEOREM TornReplaced == Spec => []TornIsDue
<1>1. TInv /\ Mended => TornIsDue
  <2> SUFFICES ASSUME TInv, Mended, failures = 0, needed = 0
               PROVE  ~Data.torn
    BY DEF TornIsDue, TInv, ControlTypes
  <2>1. main = "loop" /\ ~Contents("dat").torn
    BY DEF Mended
  <2>2. name["dat"] # None
    BY <2>1 DEF TInv, Filed, MainStates
  <2> QED
    BY <2>1, <2>2 DEF Data
<1>2. Init => TInv /\ Mended
  BY TInit DEF Init, Mended, NeededAtStart
<1>3. TInv /\ Mended /\ [Next]_vars => (TInv /\ Mended)'
  BY TNext, MendedNext
<1> QED
  BY <1>1, <1>2, <1>3, PTL DEF Spec

-----------------------------------------------------------------------------
(* Contexts that nobody calls while they are destroyed.                      *)

\* Nobody goes where somebody destroys, and contexts stay as active as they were.
LEMMA UndisturbedStays ==
  ASSUME Undisturbed, NEW t \in Clients, Others(t),
         \A c : Inside(t, c)' => Inside(t, c) \/
           \A u \in Clients : u # t /\ call[u].op = "destroy"
                                /\ call[u].at \in {"enter", "logged"} => call[u].ctx # c,
         call'[t].op = "destroy" /\ call'[t].at \in {"enter", "logged"}
           => Busy(call'[t].ctx) \subseteq {t},
         call'[t].op # "undo" /\ call'[t].at \in {"enter", "logged"}
           => state'[call'[t].ctx] = "active",
         \A u \in Clients : u # t /\ call[u].op # "undo" /\ call[u].at \in {"enter", "logged"}
           => state'[call[u].ctx] = "active"
  PROVE  Undisturbed'
<1>1. \A u \in Clients : u # t => call'[u] = call[u]
  BY DEF Others
<1>2. \A u \in Clients : \A c : u # t => (Inside(u, c)' <=> Inside(u, c))
  BY OthersInside
<1>3. ASSUME NEW u \in Clients, call'[u].op = "destroy", call'[u].at \in {"enter", "logged"}
      PROVE  Busy(call[u].ctx)' \subseteq {u}
  <2>1. PICK d : d = call'[u].ctx
    OBVIOUS
  <2>2. Busy(d) \subseteq {u}
    BY <1>1, <1>3, <2>1 DEF Undisturbed
  <2>3. \A v \in Clients : v # u => ~Inside(v, d)
    BY <2>2, BusyIs
  <2>4. \A v \in Clients : v # u => ~Inside(v, d)'
    BY <1>1, <1>2, <1>3, <2>1, <2>3
  <2>5. Busy(d)' \subseteq {u}
    BY <2>4, BusyWill
  <2> QED
    BY <2>1, <2>5 DEF Busy
<1>4. \A u \in Clients :
        call'[u].op # "undo" /\ call'[u].at \in {"enter", "logged"}
          => state'[call'[u].ctx] = "active"
  BY <1>1
<1> QED
  BY <1>3, <1>4 DEF Undisturbed

LEMMA UndisturbedInvoke ==
  ASSUME Sheltered, TInv, Undisturbed, NEW t \in Clients, Invoke(t)
  PROVE  Undisturbed'
<1>1. call[t].at = "idle" /\ Begins(t) /\ UNCHANGED state
  BY InvokeDoes DEF TInv, Invoke, memory
<1>2. PICK d : d = call'[t].ctx
  OBVIOUS
<1>3. /\ call'[t].at = "enter" /\ call'[t].op \in Ops /\ Others(t)
      /\ Quiet(call'[t].op, d)
  BY <1>1, <1>2 DEF Begins, Sheltered
<1>4. /\ state[d] = "active" /\ (call'[t].op = "destroy" => Busy(d) = {})
      /\ \A u \in Busy(d) : call[u].op # "destroy"
  BY <1>3 DEF Quiet
<1>5. \A c : Inside(t, c)' => c = d
  BY <1>2, <1>3, OpsAssumption DEF Inside
<1>6. \A u \in Clients : call[u].op = "destroy" /\ call[u].at \in {"enter", "logged"}
        => call[u].ctx # d
  BY <1>4, BusyIs DEF Inside
<1>7. \A u \in Clients : u # t /\ call[u].op # "undo" /\ call[u].at \in {"enter", "logged"}
        => state'[call[u].ctx] = "active"
  BY <1>1 DEF Undisturbed
<1>8. state'[call'[t].ctx] = "active" /\ (call'[t].op = "destroy" => Busy(call'[t].ctx) \subseteq {t})
  BY <1>1, <1>2, <1>4
<1> QED
  BY <1>3, <1>5, <1>6, <1>7, <1>8, UndisturbedStays

LEMMA UndisturbedRaised ==
  ASSUME TInv, Undisturbed, NEW t \in Clients, Raised(t), call[t].at = "enter", UNCHANGED state
  PROVE  Undisturbed'
<1>1. \/ call[t].op = "bindctx" /\ Becomes(t, "undo", "enter")
      \/ call[t].op # "bindctx" /\ Becomes(t, call[t].op, "leave")
  BY RaisedDoes DEF TInv
<1>2. \A u \in Clients : u # t /\ call[u].op # "undo" /\ call[u].at \in {"enter", "logged"}
        => state'[call[u].ctx] = "active"
  BY DEF Undisturbed
<1>3. \A c : Inside(t, c)' => Inside(t, c) \/ c = call[t].new
  BY <1>1 DEF Inside, Becomes
<1>4. \A u \in Clients : call[u].op = "destroy" /\ call[u].at \in {"enter", "logged"}
        => call[u].ctx # call[t].new
  BY DEF TInv, Apart
<1> QED
  BY <1>1, <1>2, <1>3, <1>4, UndisturbedStays DEF Becomes

LEMMA UndisturbedPut ==
  ASSUME TInv, Undisturbed, NEW t \in Clients, Put(t)
  PROVE  Undisturbed'
<1>1. call[t].at = "enter" /\ Becomes(t, call[t].op, "logged") /\ UNCHANGED state
  BY PutDoes DEF TInv, Put, memory
<1>2. \A c : Inside(t, c)' => Inside(t, c)
  BY <1>1 DEF Inside, Becomes
<1>3. /\ call[t].op = "destroy" => Busy(call[t].ctx) \subseteq {t}
      /\ call[t].op # "undo" => state[call[t].ctx] = "active"
  BY <1>1 DEF Undisturbed
<1>4. /\ call'[t].op = call[t].op /\ call'[t].ctx = call[t].ctx /\ Others(t)
  BY <1>1 DEF Becomes
<1>5. \A u \in Clients : u # t /\ call[u].op # "undo" /\ call[u].at \in {"enter", "logged"}
        => state'[call[u].ctx] = "active"
  BY <1>1 DEF Undisturbed
<1> QED
  BY <1>1, <1>2, <1>3, <1>4, <1>5, UndisturbedStays

LEMMA UndisturbedApply ==
  ASSUME TInv, Ending, Undisturbed, NEW t \in Clients, Apply(t)
  PROVE  Undisturbed'
<1>1. /\ call[t].at = "logged"
      /\ \/ call[t].op = "bindnew" /\ Becomes(t, "bindctx", "enter")
         \/ call[t].op # "bindnew" /\ Becomes(t, call[t].op, "leave")
  BY ApplyDoes DEF TInv, CallsProper, Proper, Making
<1>2. \A c : Inside(t, c)' => Inside(t, c)
  BY <1>1 DEF Inside, Becomes
<1>3. /\ call[t].op \in Recorded /\ Target(t) \in Contexts
      /\ state \in [Contexts -> {"none", "active", "leaving", "ending"}]
  BY <1>1, Records_, ApplyMemory DEF TInv, StateTypes
<1>4. ASSUME NEW u \in Clients, call[u].op # "undo", call[u].at \in {"enter", "logged"},
             u = t => call[t].op = "bindnew"
      PROVE  state'[call[u].ctx] = "active"
  <2>1. state[call[u].ctx] = "active" /\ call[u].ctx \in Contexts
    BY <1>4 DEF Undisturbed, TInv, CallsProper, Proper, Past
  <2>2. CASE call[t].op \in Binding \cup {"unbind"}
    BY <2>1, <2>2, ApplyMemory
  <2>3. CASE call[t].op \in Creating
    BY <1>3, <2>1, <2>3, ApplyMemory
  <2>4. CASE call[t].op \in Destroying
    <3>1. u # t /\ state' = [state EXCEPT ![Target(t)] = "leaving"]
      BY <1>4, <2>4, ApplyMemory DEF Destroying
    <3>2. CASE call[t].op = "destroy"
      <4>1. Busy(call[t].ctx) \subseteq {t}
        BY <1>1, <3>2 DEF Undisturbed
      <4>2. ~Inside(u, call[t].ctx)
        BY <3>1, <4>1, BusyIs
      <4> QED
        BY <1>3, <1>4, <2>1, <3>1, <3>2, <4>2 DEF Inside, Target
    <3>3. CASE call[t].op = "undo"
      <4>1. call[u].ctx # call[t].new
        BY <1>4 DEF TInv, Apart
      <4> QED
        BY <1>3, <2>1, <3>1, <3>3, <4>1 DEF Target
    <3> QED
      BY <2>4, <3>2, <3>3 DEF Destroying
  <2> QED
    BY <1>3, <2>2, <2>3, <2>4 DEF Recorded
<1>5. call'[t].op # "undo" /\ call'[t].at \in {"enter", "logged"}
        => call[t].op = "bindnew" /\ call'[t].ctx = call[t].ctx /\ call'[t].op = "bindctx"
  BY <1>1 DEF Becomes
<1>6. /\ Others(t)
      /\ call'[t].op = "destroy" => call'[t].at \notin {"enter", "logged"}
  BY <1>1 DEF Becomes
<1>7. call'[t].op # "undo" /\ call'[t].at \in {"enter", "logged"}
        => state'[call'[t].ctx] = "active"
  BY <1>1, <1>4, <1>5
<1> QED
  BY <1>2, <1>4, <1>6, <1>7, UndisturbedStays

LEMMA UndisturbedLeave ==
  ASSUME TInv, Undisturbed, NEW t \in Clients, Leave(t)
  PROVE  Undisturbed'
<1>1. call[t].at = "leave"
  BY DEF Leave
<1>2. Target(t) \in Contexts
  BY <1>1, TargetIs
<1>3. /\ \/ Becomes(t, call[t].op, "reap")
         \/ Becomes(t, "undone", "leave")
         \/ Clears(t)
      /\ \/ state' = [state EXCEPT ![Target(t)] = "ending"] /\ state[Target(t)] = "leaving"
         \/ state' = state
  BY <1>2, LeaveDoes DEF TInv, Last
<1>4. Others(t) /\ call'[t].at \notin {"enter", "logged"}
  BY <1>3 DEF Becomes, Clears, NoCall
<1>5. \A c : Inside(t, c)' => Inside(t, c)
  BY <1>1, <1>3 DEF Becomes, Clears, NoCall, Inside
<1>6. \A u \in Clients : u # t /\ call[u].op # "undo" /\ call[u].at \in {"enter", "logged"}
        => state'[call[u].ctx] = "active"
  BY <1>2, <1>3 DEF Undisturbed, TInv, StateTypes, CallsProper, Proper, Past
<1> QED
  BY <1>4, <1>5, <1>6, UndisturbedStays

LEMMA UndisturbedReap ==
  ASSUME TInv, Ending, Undisturbed, NEW t \in Clients, Reap(t)
  PROVE  Undisturbed'
<1>1. /\ call[t].at = "reap"
      /\ state' = [state EXCEPT ![call[t].reap] = "none"]
      /\ call[t].reap \in Contexts /\ state[call[t].reap] = "ending"
  BY DEF Reap, Ending, TInv, CallsProper, Proper, Past
<1>2. \/ call[t].op = "undo" /\ Becomes(t, "undone", "leave")
      \/ call[t].op # "undo" /\ Clears(t)
  BY ReapDoes DEF TInv
<1>3. Others(t) /\ call'[t].at \notin {"enter", "logged"}
  BY <1>2 DEF Becomes, Clears, NoCall
<1>4. \A c : Inside(t, c)' => Inside(t, c)
  BY <1>1, <1>2 DEF Becomes, Clears, NoCall, Inside
<1>5. \A u \in Clients : u # t /\ call[u].op # "undo" /\ call[u].at \in {"enter", "logged"}
        => state'[call[u].ctx] = "active"
  BY <1>1 DEF Undisturbed, TInv, StateTypes, CallsProper, Proper, Past
<1> QED
  BY <1>3, <1>4, <1>5, UndisturbedStays

LEMMA UndisturbedNext ==
  ASSUME Sheltered, TInv, Ending, Undisturbed, [Next]_vars
  PROVE  Undisturbed'
<1>1. ASSUME NEW t \in Clients, ClientActs(t) PROVE Undisturbed'
  <2>1. CASE Refused(t) \/ PutFails(t)
    BY <2>1, UndisturbedRaised DEF Refused, PutFails, memory
  <2> QED
    BY <1>1, <2>1, UndisturbedInvoke, UndisturbedPut, UndisturbedApply,
       UndisturbedLeave, UndisturbedReap DEF ClientActs
<1>2. CASE (MainActs /\ ~Replay) \/ FirstRoot \/ UNCHANGED vars
  <2>1. UNCHANGED <<state, call>>
    BY <1>2 DEF MainActs, FirstStart, FirstFails, Restart, ReplayDies, Started,
       CkpPrepare, CkpAbandon, CkpWrite, CkpDropBackup, CkpBackup, CkpDropData,
       CkpCommit, CkpDropCkp, CkpReopen, CkpDone, FirstRoot, vars, memory
  <2> QED
    BY <2>1 DEF Undisturbed, Busy
<1>3. CASE Replay \/ CkpDies \/ Crash
  <2>1. \A t \in Clients : call'[t] = NoCall
    BY <1>3 DEF Replay, TInv, Quiescent, Serving, CkpDies, Crash, Down
  <2> QED
    BY <2>1 DEF Undisturbed, NoCall
<1>4. CASE RemovesBackup
  <2>1. UNCHANGED <<state, call>>
    BY <1>4, Removed
  <2> QED
    BY <2>1 DEF Undisturbed, Busy
<1> QED
  BY <1>1, <1>2, <1>3, <1>4, StepCases

-----------------------------------------------------------------------------
(* The root.                                                                 *)

LEMMA RootedNext ==
  ASSUME Sheltered, TInv, Rooted, [Next]_vars
  PROVE  Rooted'
<1>1. ASSUME NEW t \in Clients, ClientActs(t) PROVE Rooted'
  <2>0. Serving /\ Serving' /\ Root \in used /\ Others(t) /\ Calling'
    BY <1>1, CallerServed, ClientLock, CallsKept DEF Rooted, Serving
  <2>1. \A u \in Clients : u # t => call'[u] = call[u]
    BY <2>0 DEF Others
  <2>2. CASE Invoke(t)
    <3>1. Begins(t) /\ UNCHANGED <<used, gone>>
      BY <2>2, InvokeDoes DEF TInv, Invoke, history
    <3>2. call'[t].op = "destroy" => call'[t].ctx # Root
      BY <3>1 DEF Begins, Sheltered
    <3>3. call'[t].new # Root
      BY <2>0, <3>1, RootAssumption, NoneAssumption DEF Begins
    <3> QED
      BY <2>0, <2>1, <3>1, <3>2, <3>3 DEF Rooted
  <2>3. CASE Put(t)
    <3>1. /\ call'[t].op = call[t].op /\ call'[t].ctx = call[t].ctx
          /\ call'[t].new = call[t].new
      BY <2>3, PutDoes DEF TInv, Becomes
    <3>2. /\ call[t].op \in Recorded
          /\ call[t].op \in Creating => gone' = gone
          /\ call[t].op \in Destroying => gone' = gone \cup {Target(t)}
          /\ call[t].op \notin Creating \cup Destroying => gone' = gone
          /\ used \subseteq used'
      BY <2>3, PutHistory DEF Creating, Destroying
    <3>3. call[t].op \in Destroying => Target(t) # Root
      BY DEF Rooted, Target, Destroying
    <3>4. Root \notin gone'
      BY <3>2, <3>3 DEF Rooted
    <3> QED
      BY <2>0, <2>1, <3>1, <3>2, <3>4 DEF Rooted
  <2>4. CASE ~Invoke(t) /\ ~Put(t)
    <3>1. UNCHANGED <<used, gone>>
      BY <1>1, <2>4 DEF ClientActs, Refused, PutFails, Apply, Leave, Reap, history
    <3>2. /\ call'[t].op = "destroy" => call[t].op = "destroy" /\ call'[t].ctx = call[t].ctx
          /\ call'[t].new \in {call[t].new, None}
      <4>1. CASE Refused(t) \/ PutFails(t)
        BY <4>1, RaisedDoes DEF Refused, PutFails, TInv, Becomes
      <4>2. CASE Apply(t)
        BY <4>2, ApplyDoes DEF TInv, CallsProper, Proper, Making, Becomes
      <4>3. CASE Leave(t)
        <5>1. Target(t) \in Contexts
          BY <4>3, TargetIs DEF Leave
        <5> QED
          BY <4>3, <5>1, LeaveDoes DEF TInv, Becomes, Clears, NoCall
      <4>4. CASE Reap(t)
        BY <4>4, ReapDoes DEF TInv, Becomes, Clears, NoCall
      <4> QED
        BY <1>1, <2>4, <4>1, <4>2, <4>3, <4>4 DEF ClientActs
    <3>3. None # Root
      BY RootAssumption, NoneAssumption
    <3> QED
      BY <2>0, <2>1, <3>1, <3>2, <3>3 DEF Rooted
  <2> QED
    BY <2>2, <2>3, <2>4
<1>2. CASE (MainActs /\ ~Replay) \/ UNCHANGED vars
  <2>1. UNCHANGED <<call, used, gone>>
    BY <1>2, MainKeeps
  <2>2. Serving' => Serving
    BY <1>2 DEF MainActs, FirstStart, FirstFails, Restart, ReplayDies, Started,
       CkpPrepare, CkpAbandon, CkpWrite, CkpDropBackup, CkpBackup, CkpDropData,
       CkpCommit, CkpDropCkp, CkpReopen, CkpDone, vars, Serving
  <2> QED
    BY <2>1, <2>2 DEF Rooted
<1>3. CASE Replay
  <2>1. /\ UNCHANGED <<call, used, gone>> /\ main = "start"
        /\ Contents("dat").live # {}
    BY <1>3 DEF Replay, history, Startable
  <2>2. Contents("dat").live \subseteq used
    BY <2>1, Reads DEF TInv, Filed, MainStates, DiskTypes, FileNames
  <2>3. Root \in used
    BY <2>1, <2>2 DEF Rooted
  <2> QED
    BY <2>1, <2>3 DEF Rooted
<1>4. CASE FirstRoot
  BY <1>4 DEF FirstRoot, Rooted, Serving
<1>5. CASE CkpDies \/ Crash
  <2>1. /\ UNCHANGED <<used, gone>> /\ main' = "down"
        /\ \A t \in Clients : call'[t] = NoCall
    BY <1>5 DEF CkpDies, Crash, Down, history
  <2>2. None # Root
    BY RootAssumption, NoneAssumption
  <2> QED
    BY <2>1, <2>2 DEF Rooted, Serving, NoCall
<1>6. CASE RemovesBackup
  <2>1. main' = "down" /\ call' = call /\ used' = {} /\ gone' = {}
    BY <1>6, Removed
  <2> QED
    BY <2>1 DEF Rooted, Serving
<1> QED
  BY <1>1, <1>2, <1>3, <1>4, <1>5, <1>6, StepCases

-----------------------------------------------------------------------------
(* What is kept is what is served.                                           *)

\* Files and history stay: so does what is kept, if memory still mirrors it.
LEMMA DurableStays ==
  ASSUME OnDisk, Durable, UNCHANGED <<name, inode, used, gone, main>>,
         \A f : Mirror(f) => Mirror(f)'
  PROVE  OnDisk' /\ Durable'
<1>1. /\ Data' = Data /\ Contents("ckp")' = Contents("ckp")
      /\ Contents("dat")' = Contents("dat")
  BY DEF Data, Contents
<1>2. Whole(Data)' /\ (Whole(Contents("ckp")) => Whole(Contents("ckp"))')
  BY <1>1 DEF Whole, Durable
<1>3. PICK d, k : d = Data /\ k = Contents("ckp")
  OBVIOUS
<1>4. /\ Mirror(d) => Mirror(d)'
      /\ Mirror(k) => Mirror(k)'
  OBVIOUS
<1>5. /\ Mirror(Data) => Mirror(Data)'
      /\ Mirror(Contents("ckp")) => Mirror(Contents("ckp"))'
  BY <1>1, <1>3, <1>4 DEF Mirror
<1>6. OnDisk'
  BY <1>1, <1>2, <1>5 DEF OnDisk
<1>7. Durable'
  BY <1>2, <1>5 DEF Durable, Serving
<1> QED
  BY <1>6, <1>7

\* The calls that are between a record and its change stay as they are.
LEMMA MirrorStays ==
  ASSUME NEW f, Mirror(f), UNCHANGED <<ActiveContexts, bound, gone>>,
         \A u \in Clients : call'[u].at = "logged" <=> call[u].at = "logged",
         \A u \in Clients : call[u].at = "logged" => call'[u] = call[u]
  PROVE  Mirror(f)'
<1>1. \A u \in Clients : call[u].at = "logged" => Record(u)' = Record(u)
  BY DEF Record, Target
<1>2. Kept' = Kept
  BY DEF Kept
<1>3. (\A u \in Clients : call'[u].at # "logged") => Same(f, ActiveContexts, bound)'
  BY <1>2 DEF Mirror, Same
<1>4. ASSUME NEW u \in Clients, call'[u].at = "logged"
      PROVE  Same(f, LiveAfter(ActiveContexts, Record(u)), BoundAfter(bound, Record(u)))'
  <2>1. Same(f, LiveAfter(ActiveContexts, Record(u)), BoundAfter(bound, Record(u)))
    BY <1>4 DEF Mirror
  <2>2. call[u].at = "logged" /\ Record(u)' = Record(u)
    BY <1>1, <1>4
  <2>3. /\ LiveAfter(ActiveContexts, Record(u))' = LiveAfter(ActiveContexts, Record(u))
        /\ BoundAfter(bound, Record(u))' = BoundAfter(bound, Record(u))
    BY <2>2 DEF LiveAfter, BoundAfter
  <2> QED
    BY <1>2, <2>1, <2>3 DEF Same
<1> QED
  BY <1>3, <1>4 DEF Mirror

\* A step between records.
LEMMA DurableCall ==
  ASSUME TInv, OnDisk, Durable, NEW t \in Clients,
         Invoke(t) \/ Refused(t) \/ Leave(t)
  PROVE  /\ OnDisk' /\ Durable'
         /\ UNCHANGED <<name, inode, used, gone, main, bound, ActiveContexts>>
<1>0. Others(t) /\ call[t].at # "logged" /\ call'[t].at # "logged"
  <2>1. /\ ClientActs(t) /\ call[t].at # "logged"
        /\ call[t].at = "enter" => ~GoesOn(t)
    BY DEF ClientActs, Invoke, Refused, Leave
  <2> QED
    BY <2>1, ClientLock DEF Put
<1>1. UNCHANGED <<name, inode, used, gone, main, bound>>
  BY DEF Invoke, Refused, Leave, disk, history, memory
<1>2. ActiveContexts' = ActiveContexts
  <2>1. CASE Leave(t)
    <3>1. Target(t) \in Contexts
      BY <2>1, TargetIs DEF Leave
    <3>2. \/ /\ state' = [state EXCEPT ![Target(t)] = "ending"]
             /\ state[Target(t)] = "leaving"
          \/ state' = state
      BY <2>1, <3>1, LeaveDoes DEF TInv, Last
    <3> QED
      BY <3>1, <3>2 DEF ActiveContexts, TInv, StateTypes
  <2>2. CASE ~Leave(t)
    BY <2>2 DEF Invoke, Refused, memory, ActiveContexts
  <2> QED
    BY <2>1, <2>2
<1>3. /\ \A u \in Clients : call'[u].at = "logged" <=> call[u].at = "logged"
      /\ \A u \in Clients : call[u].at = "logged" => call'[u] = call[u]
  BY <1>0 DEF Others
<1>4. \A f : Mirror(f) => Mirror(f)'
  BY <1>1, <1>2, <1>3, MirrorStays
<1>5. OnDisk' /\ Durable'
  BY <1>1, <1>4, DurableStays
<1> QED
  BY <1>1, <1>2, <1>5

\* What is taken out of memory was destroyed.
LEMMA DurableReap ==
  ASSUME TInv, Ending, OnDisk, Durable, NEW t \in Clients, Reap(t)
  PROVE  OnDisk' /\ Durable'
<1>1. PICK d \in Contexts : d = call[t].reap /\ d \in gone /\ state[d] = "ending"
  BY DEF Reap, Ending, TInv, CallsProper, Proper, Past
<1>2. /\ UNCHANGED <<name, inode, used, gone, main>> /\ LockFree
      /\ state' = [state EXCEPT ![d] = "none"]
      /\ bound' = [bound EXCEPT ![d] = NoBindings]
  BY <1>1 DEF Reap, disk, history
<1>3. ActiveContexts' = ActiveContexts /\ d \notin ActiveContexts
  BY <1>1, <1>2 DEF ActiveContexts, TInv, StateTypes
<1>4. \A c \in Contexts : c # d => bound'[c] = bound[c]
  BY <1>2 DEF TInv, BoundTypes
<1>5. Kept' = Kept /\ d \notin Kept /\ Kept \subseteq Contexts /\ ActiveContexts \subseteq Contexts
  BY <1>1, <1>2 DEF Kept, ActiveContexts
<1>6. \A u \in Clients : call[u].at # "logged"
  BY <1>2, Writing DEF Reap
<1>7. \A u \in Clients : call'[u].at # "logged"
  BY <1>6, ReapDoes DEF TInv, Becomes, Clears, NoCall, Others
<1>8. ASSUME NEW f, Mirror(f) PROVE Mirror(f)'
  <2>1. Same(f, ActiveContexts, bound)
    BY <1>6, <1>8 DEF Mirror
  <2>2. Same(f, ActiveContexts, bound)'
    BY <1>3, <1>4, <1>5, <2>1 DEF Same
  <2> QED
    BY <1>7, <2>2 DEF Mirror
<1> QED
  BY <1>2, <1>8, DurableStays

-----------------------------------------------------------------------------
(* A record, and the change it announces.                                    *)

\* What a file says of a context that is served is what is served.
LEMMA RecordAccepted ==
  ASSUME TInv, Ending, Undisturbed, NEW t \in Clients, call[t].at = "enter", GoesOn(t),
         NEW f \in Files, Whole(f), Same(f, ActiveContexts, bound)
  PROVE  Accepted(f, Record(t))
<1>1. /\ call[t].op \in Recorded /\ Record(t) \in Records /\ Target(t) \in Contexts
      /\ Proper(t)
  BY Records_, GoesOnIs DEF TInv, CallsProper
<1>2. /\ call[t].op # "undo" => call[t].ctx \in ActiveContexts
      /\ call[t].op = "undo" => call[t].new \in ActiveContexts
  BY <1>1 DEF Undisturbed, Ending, ActiveContexts, Proper, Making, TInv, Past
<1>3. ActiveContexts \subseteq f.live /\ \A c \in ActiveContexts : f.bound[c] = bound[c]
  BY DEF Same
<1>4. CASE call[t].op \in Binding
  BY <1>2, <1>3, <1>4, RecordIs DEF Accepted, Binding
<1>5. CASE call[t].op = "unbind"
  BY <1>2, <1>3, <1>5, RecordIs, GoesOnIs DEF Accepted
<1>6. CASE call[t].op \in Destroying
  <2>1. Target(t) \in ActiveContexts /\ bound[Target(t)] = NoBindings
    BY <1>2, <1>6, GoesOnIs DEF Target, Destroying
  <2> QED
    BY <1>3, <1>6, <2>1, RecordIs DEF Accepted, Destroying
<1>7. CASE call[t].op \in Creating
  <2>1. call[t].new \notin f.live
    BY <1>1, <1>7 DEF Whole, Proper, Creating
  <2> QED
    BY <1>7, <2>1, RecordIs DEF Accepted, Creating
<1> QED
  BY <1>1, <1>4, <1>5, <1>6, <1>7 DEF Recorded

\* Two bindings that agree on a set of contexts still do after a record.
LEMMA BoundAgrees ==
  ASSUME NEW B \in [Contexts -> Bindings], NEW C \in [Contexts -> Bindings],
         NEW r \in Records, NEW S \in SUBSET Contexts, \A c \in S : B[c] = C[c]
  PROVE  \A c \in S : BoundAfter(B, r)[c] = BoundAfter(C, r)[c]
<1>1. CASE r.kind = "bind"
  <2>1. /\ BoundAfter(B, r) = [B EXCEPT ![r.ctx] = [B[r.ctx] EXCEPT ![r.name] = r.thing]]
        /\ BoundAfter(C, r) = [C EXCEPT ![r.ctx] = [C[r.ctx] EXCEPT ![r.name] = r.thing]]
    BY <1>1 DEF BoundAfter
  <2> QED
    BY <2>1
<1>2. CASE r.kind = "unbind"
  <2>1. /\ BoundAfter(B, r) = [B EXCEPT ![r.ctx] = [B[r.ctx] EXCEPT ![r.name] = None]]
        /\ BoundAfter(C, r) = [C EXCEPT ![r.ctx] = [C[r.ctx] EXCEPT ![r.name] = None]]
    BY <1>2 DEF BoundAfter
  <2> QED
    BY <2>1
<1>3. CASE r.kind \notin {"bind", "unbind"}
  BY <1>3 DEF BoundAfter
<1> QED
  BY <1>1, <1>2, <1>3

\* f has A with the bindings B, and of K no more.
Like(f, A, K, B) ==
  /\ A \subseteq f.live /\ f.live \cap K \subseteq A
  /\ \A c \in A \cup K : f.bound[c] = B[c]

\* A record makes the same of a file and of a graph that are the same on A and K.
LEMMA SameAfter ==
  ASSUME NEW f \in Files, NEW B \in [Contexts -> Bindings], NEW r \in Records,
         NEW A \in SUBSET Contexts, NEW K \in SUBSET Contexts, NEW L \in SUBSET K,
         Like(f, A, K, B),
         r.kind = "create" => r.ctx \in K,
         r.kind = "destroy" => r.ctx \notin L,
         NEW g, g.live = LiveAfter(f.live, r), g.bound = BoundAfter(f.bound, r)
  PROVE  Like(g, LiveAfter(A, r), L, BoundAfter(B, r))
<1>1. /\ LiveAfter(A, r) \subseteq LiveAfter(f.live, r)
      /\ LiveAfter(f.live, r) \cap L \subseteq LiveAfter(A, r)
      /\ LiveAfter(A, r) \cup L \subseteq A \cup K
  BY DEF LiveAfter, Records, Like
<1>2. f.bound \in [Contexts -> Bindings] /\ A \cup K \in SUBSET Contexts
  BY DEF Files
<1>3. \A c \in A \cup K : BoundAfter(f.bound, r)[c] = BoundAfter(B, r)[c]
  BY <1>2, BoundAgrees DEF Like
<1> QED
  BY <1>1, <1>3 DEF Like

\* What the record of t says, and to which calls it matters.
LEMMA PutRecord ==
  ASSUME TInv, NEW t \in Clients, Put(t)
  PROVE  /\ LockFree /\ call[t].at = "enter" /\ GoesOn(t) /\ Record(t) \in Records
         /\ Serving /\ main \notin Copying /\ name["dat"] \in Inodes
         /\ \A u \in Clients : call[u].at # "logged"
         /\ Record(t)' = Record(t)
         /\ \A u \in Clients : call'[u].at = "logged" => u = t
         /\ inode' = [inode EXCEPT ![name["dat"]] = Written(@, Record(t))]
         /\ UNCHANGED <<name, main, state, bound>>
<1>1. /\ LockFree /\ call[t].at = "enter" /\ GoesOn(t) /\ Record(t) \in Records
      /\ inode' = [inode EXCEPT ![name["dat"]] = Written(@, Record(t))]
      /\ UNCHANGED <<name, main, state, bound>>
  BY PutHistory DEF Put, LockFree, Lock!WriteLock, memory
<1>2. /\ Serving /\ main \notin Copying /\ name["dat"] \in Inodes
      /\ \A u \in Clients : call[u].at # "logged"
  BY <1>1, Writing
<1>3. Becomes(t, call[t].op, "logged") /\ call'[t].thing = call[t].thing
  BY PutDoes DEF TInv
<1>4. Record(t)' = Record(t)
  BY <1>3 DEF Record, Target, Becomes
<1>5. \A u \in Clients : call'[u].at = "logged" => u = t
  BY <1>2, <1>3 DEF Becomes, Others
<1> QED
  BY <1>1, <1>2, <1>4, <1>5

\* The history that a record makes.
LEMMA RecordHistory ==
  ASSUME TInv, NEW t \in Clients, Put(t)
  PROVE  /\ used' = IF Record(t).kind = "create" THEN used \cup {Record(t).ctx} ELSE used
         /\ gone' = IF Record(t).kind = "destroy" THEN gone \cup {Record(t).ctx} ELSE gone
         /\ Record(t).kind = "create" => Record(t).ctx \in Contexts \ used
         /\ Record(t).kind # "create" => Record(t).ctx \in used
<1>1. /\ call[t].op \in Recorded /\ Record(t) \in Records /\ Target(t) \in Contexts
      /\ Proper(t) /\ call[t].at = "enter"
  BY PutHistory, PutRecord DEF TInv, CallsProper
<1>2. /\ used' = IF Record(t).kind = "create" THEN used \cup {call[t].new} ELSE used
      /\ gone' = IF Record(t).kind = "destroy" THEN gone \cup {Target(t)} ELSE gone
  BY DEF Put
<1>3. CASE call[t].op \in Binding \cup {"unbind"}
  <2>1. Record(t).kind \in {"bind", "unbind"} /\ Record(t).ctx = call[t].ctx
    BY <1>3, RecordIs DEF Binding
  <2> QED
    BY <1>1, <1>2, <2>1 DEF Proper
<1>4. CASE call[t].op \in Destroying
  <2>1. Record(t).kind = "destroy" /\ Record(t).ctx = Target(t)
    BY <1>4, RecordIs DEF Destroying
  <2>2. Target(t) \in used
    BY <1>1, <1>4 DEF Proper, Target, Destroying
  <2> QED
    BY <1>2, <2>1, <2>2
<1>5. CASE call[t].op \in Creating
  <2>1. Record(t).kind = "create" /\ Record(t).ctx = call[t].new
    BY <1>5, RecordIs DEF Creating
  <2>2. call[t].new \in Contexts \ used
    BY <1>1, <1>5 DEF Proper, Creating, Making
  <2> QED
    BY <1>2, <2>1, <2>2
<1> QED
  BY <1>1, <1>3, <1>4, <1>5 DEF Recorded

\* A record leaves alone what it does not name.
LEMMA BoundElsewhere ==
  ASSUME NEW B \in [Contexts -> Bindings], NEW r \in Records, NEW c \in Contexts, c # r.ctx
  PROVE  BoundAfter(B, r)[c] = B[c]
<1>1. CASE r.kind = "bind"
  <2>1. BoundAfter(B, r) = [B EXCEPT ![r.ctx] = [B[r.ctx] EXCEPT ![r.name] = r.thing]]
    BY <1>1 DEF BoundAfter
  <2> QED
    BY <2>1
<1>2. CASE r.kind = "unbind"
  <2>1. BoundAfter(B, r) = [B EXCEPT ![r.ctx] = [B[r.ctx] EXCEPT ![r.name] = None]]
    BY <1>2 DEF BoundAfter
  <2> QED
    BY <2>1
<1>3. CASE r.kind \notin {"bind", "unbind"}
  BY <1>3 DEF BoundAfter
<1> QED
  BY <1>1, <1>2, <1>3

LEMMA DurablePut ==
  ASSUME TInv, Ending, Undisturbed, OnDisk, Durable, NEW t \in Clients, Put(t)
  PROVE  OnDisk' /\ Durable'
<1>1. /\ call[t].at = "enter" /\ GoesOn(t) /\ Record(t) \in Records
      /\ Serving /\ main \notin Copying /\ name["dat"] \in Inodes
      /\ \A u \in Clients : call[u].at # "logged"
      /\ Record(t)' = Record(t)
      /\ \A u \in Clients : call'[u].at = "logged" => u = t
      /\ inode' = [inode EXCEPT ![name["dat"]] = Written(@, Record(t))]
      /\ UNCHANGED <<name, main, state, bound>>
  BY PutRecord
<1>2. PICK f, r : f = Contents("dat") /\ r = Record(t)
  OBVIOUS
<1>3. /\ f \in Files /\ f = Data /\ r \in Records /\ Record(t)' = r
      /\ Data' = Written(f, r) /\ name'["dat"] # None
  BY <1>1, <1>2, InodesAssumption DEF TInv, DiskTypes, Contents, Data
<1>4. Whole(f) /\ Same(f, ActiveContexts, bound)
  BY <1>1, <1>3 DEF Durable, Mirror
<1>5. Accepted(f, r)
  BY <1>1, <1>2, <1>3, <1>4, RecordAccepted
<1>6. PICK g : g = Written(f, r)
  OBVIOUS
<1>7. /\ ~g.torn /\ ~g.refused /\ g.live = LiveAfter(f.live, r)
      /\ g.bound = BoundAfter(f.bound, r)
  BY <1>3, <1>4, <1>5, <1>6, WrittenIs DEF Whole
<1>8. /\ used' = IF r.kind = "create" THEN used \cup {r.ctx} ELSE used
      /\ gone' = IF r.kind = "destroy" THEN gone \cup {r.ctx} ELSE gone
      /\ r.kind = "create" => r.ctx \in Contexts \ used
      /\ r.kind # "create" => r.ctx \in used
  BY <1>2, RecordHistory
<1>9. used \subseteq Contexts /\ gone \subseteq used /\ bound \in [Contexts -> Bindings]
  BY DEF TInv, Past, BoundTypes
<1>10. Whole(g)'
  <2>1. g.live \subseteq used' /\ used' \ gone' \subseteq g.live
    BY <1>4, <1>7, <1>8 DEF Whole, LiveAfter
  <2>2. \A c \in Contexts \ used' : g.bound[c] = NoBindings
    <3> SUFFICES ASSUME NEW c \in Contexts \ used' PROVE g.bound[c] = NoBindings
      OBVIOUS
    <3>1. c \in Contexts \ used /\ c # r.ctx
      BY <1>8
    <3>2. f.bound[c] = NoBindings /\ f.bound \in [Contexts -> Bindings]
      BY <1>3, <1>4, <3>1 DEF Whole, Files
    <3> QED
      BY <1>7, <3>1, <3>2, BoundElsewhere, <1>3
  <2> QED
    BY <1>7, <2>1, <2>2 DEF Whole
<1>11. Same(g, LiveAfter(ActiveContexts, Record(t)), BoundAfter(bound, Record(t)))'
  <2>1. PICK A, K, L : A = ActiveContexts /\ K = Kept /\ L = Kept'
    OBVIOUS
  <2>2. /\ A \in SUBSET Contexts /\ K \in SUBSET Contexts /\ L \in SUBSET K
        /\ r.kind = "create" => r.ctx \in K
        /\ r.kind = "destroy" => r.ctx \notin L
    BY <1>8, <1>9, <2>1 DEF ActiveContexts, Kept
  <2>3. Like(f, A, K, bound)
    BY <1>4, <2>1 DEF Same, Like
  <2>4. Like(g, LiveAfter(A, r), L, BoundAfter(bound, r))
    BY <1>3, <1>7, <1>9, <2>2, <2>3, SameAfter
  <2>5. /\ LiveAfter(ActiveContexts, Record(t))' = LiveAfter(A, r)
        /\ BoundAfter(bound, Record(t))' = BoundAfter(bound, r)
    BY <1>1, <1>3, <2>1 DEF ActiveContexts, LiveAfter, BoundAfter
  <2> QED
    BY <2>1, <2>4, <2>5 DEF Same, Like
<1>12. Mirror(g)'
  <2>1. call'[t].at = "logged"
    BY PutDoes DEF TInv, Becomes
  <2> QED
    BY <1>1, <1>11, <2>1 DEF Mirror
<1>13. Durable'
  BY <1>3, <1>6, <1>10, <1>12 DEF Durable, Mirror, Whole
<1>14. OnDisk'
  <2>1. main' \notin {"prepared", "written", "unbacked", "backed", "dataless", "first"}
    BY <1>1 DEF Copying, Serving
  <2> QED
    BY <1>3, <2>1 DEF OnDisk
<1> QED
  BY <1>13, <1>14

\* The change is the one the record announced.
LEMMA ApplyIs ==
  ASSUME TInv, NEW t \in Clients, Apply(t)
  PROVE  /\ ActiveContexts' = LiveAfter(ActiveContexts, Record(t))
         /\ bound' = BoundAfter(bound, Record(t))
<1>1. call[t].op \in Recorded /\ Target(t) \in Contexts /\ call[t].at = "logged" /\ Proper(t)
  BY ApplyMemory, TargetIs DEF Apply, TInv, CallsProper
<1>2. state \in [Contexts -> {"none", "active", "leaving", "ending"}]
  BY DEF TInv, StateTypes
<1>3. CASE call[t].op \in Binding \cup {"unbind"}
  <2>1. Record(t).kind \in {"bind", "unbind"}
    BY <1>3, RecordKind
  <2> QED
    BY <1>3, <2>1, ApplyMemory DEF ActiveContexts, LiveAfter
<1>4. CASE call[t].op \in Creating
  <2>1. /\ Record(t).kind = "create" /\ Record(t).ctx = call[t].new
        /\ call[t].new \in Contexts
    BY <1>1, <1>4, RecordIs DEF Creating, Proper, Making
  <2>2. state' = [state EXCEPT ![call[t].new] = "active"] /\ bound' = bound
    BY <1>4, ApplyMemory
  <2>3. ActiveContexts' = ActiveContexts \cup {call[t].new}
    BY <1>2, <2>1, <2>2 DEF ActiveContexts
  <2> QED
    BY <2>1, <2>2, <2>3 DEF LiveAfter, BoundAfter
<1>5. CASE call[t].op \in Destroying
  <2>1. Record(t).kind = "destroy" /\ Record(t).ctx = Target(t)
    BY <1>5, RecordIs DEF Destroying
  <2>2. state' = [state EXCEPT ![Target(t)] = "leaving"] /\ bound' = bound
    BY <1>5, ApplyMemory
  <2>3. ActiveContexts' = ActiveContexts \ {Target(t)}
    BY <1>1, <1>2, <2>2 DEF ActiveContexts
  <2> QED
    BY <2>1, <2>2, <2>3 DEF LiveAfter, BoundAfter
<1> QED
  BY <1>1, <1>3, <1>4, <1>5 DEF Recorded

\* Nobody else is between a record and its change, and no checkpoint runs.
LEMMA ApplyAlone ==
  ASSUME TInv, NEW t \in Clients, Apply(t)
  PROVE  /\ call[t].at = "logged" /\ main \notin Copying /\ Serving
         /\ \A u \in Clients : call'[u].at # "logged"
         /\ UNCHANGED <<name, inode, used, gone, main>>
<1>1. call[t].at = "logged" /\ UNCHANGED <<name, inode, used, gone, main>>
  BY DEF Apply, disk, history
<1>2. mode[t] = "write" /\ mode[Main] = "none"
        /\ \A u \in Clients : u # t => mode[u] = "none"
  BY <1>1, ThreadsAssumption DEF TInv, Locked
<1>3. main \notin Copying /\ \A u \in Clients : u # t => call[u].at # "logged"
  BY <1>2 DEF TInv, Locked
<1>4. Others(t) /\ call'[t].at # "logged"
  BY ApplyDoes DEF TInv, CallsProper, Proper, Making, Becomes
<1>5. Serving
  BY <1>1 DEF TInv, Quiescent, NoCall
<1> QED
  BY <1>1, <1>3, <1>4, <1>5 DEF Others

LEMMA DurableApply ==
  ASSUME TInv, OnDisk, Durable, NEW t \in Clients, Apply(t)
  PROVE  OnDisk' /\ Durable'
<1>1. /\ call[t].at = "logged" /\ \A u \in Clients : call'[u].at # "logged"
      /\ UNCHANGED <<name, inode, used, gone, main>>
  BY ApplyAlone
<1>2. /\ ActiveContexts' = LiveAfter(ActiveContexts, Record(t))
      /\ bound' = BoundAfter(bound, Record(t))
  BY ApplyIs
<1>3. ASSUME NEW f, Mirror(f) PROVE Mirror(f)'
  <2>1. Same(f, LiveAfter(ActiveContexts, Record(t)), BoundAfter(bound, Record(t)))
    BY <1>1, <1>3 DEF Mirror
  <2>2. Same(f, ActiveContexts, bound)'
    BY <1>1, <1>2, <2>1 DEF Same, Kept
  <2> QED
    BY <1>1, <2>2 DEF Mirror
<1> QED
  BY <1>1, <1>3, DurableStays

-----------------------------------------------------------------------------
(* The steps of the main thread.                                             *)

\* What these steps leave alone.
LEMMA DurableNames ==
  ASSUME TInv, Rooted, OnDisk, Durable,
         UNCHANGED <<state, bound, call, used, gone>>, Serving' => Serving,
         Data' = Data
  PROVE  Durable'
<1>1. Whole(Data)'
  BY DEF Durable, Whole
<1>2. PICK d : d = Data
  OBVIOUS
<1>3. Mirror(d) => Mirror(d)'
  BY MirrorStays DEF ActiveContexts
<1>4. Mirror(Data) => Mirror(Data)'
  BY <1>2, <1>3 DEF Mirror
<1> QED
  BY <1>1, <1>4 DEF Durable

LEMMA DurableStart ==
  ASSUME TInv, Rooted, OnDisk, Durable,
         FirstStart \/ FirstFails \/ Restart \/ ReplayDies \/ Started
  PROVE  OnDisk' /\ Durable' /\ Data' = Data
<1>0. /\ name \in [FileNames -> Inodes \cup {None}] /\ inode \in [Inodes -> Files]
      /\ FileNames = {"dat", "bak", "ckp"} /\ gone \subseteq used /\ None \notin Inodes
  BY InodesAssumption DEF TInv, DiskTypes, FileNames, Past
<1>1. UNCHANGED <<state, bound, call, used, gone>> /\ (Serving' => Serving)
  BY DEF FirstStart, FirstFails, Restart, ReplayDies, Started, memory, history, Serving
<1>2. CASE FirstStart
  <2>1. /\ name["dat"] = None /\ name["bak"] = None /\ main' = "first"
        /\ name' = [name EXCEPT !["dat"] = Free] /\ Free \in Inodes
        /\ inode' = [inode EXCEPT ![Free] = HeaderOnly]
    BY <1>0, <1>2, FreeIs DEF FirstStart, TInv
  <2>2. /\ name'["dat"] # None /\ name'["bak"] = None /\ used = {}
        /\ Contents("dat")' = HeaderOnly
    BY <1>0, <2>1 DEF OnDisk, Contents
  <2>3. Data' = HeaderOnly /\ Data = HeaderOnly
    BY <2>1, <2>2 DEF Data
  <2>4. Durable'
    BY <1>1, <2>3, DurableNames
  <2>5. OnDisk'
    BY <1>1, <2>1, <2>2 DEF OnDisk
  <2> QED
    BY <2>3, <2>4, <2>5
<1>3. CASE FirstFails
  <2>1. /\ main = "first" /\ main' = "down" /\ name' = [name EXCEPT !["dat"] = None]
        /\ inode' = inode
    BY <1>3 DEF FirstFails
  <2>2. /\ name["bak"] = None /\ used = {} /\ Contents("dat") = HeaderOnly
    BY <2>1 DEF OnDisk
  <2>3. Data' = Data
    BY <1>0, <2>1, <2>2 DEF Data
  <2>4. Durable'
    BY <1>1, <2>3, DurableNames
  <2>5. OnDisk'
    BY <1>1, <2>1, <2>2 DEF OnDisk
  <2> QED
    BY <2>3, <2>4, <2>5
<1>4. CASE Restart \/ ReplayDies
  <2>1. UNCHANGED <<name, inode>> /\ main' \in {"start", "down"}
    BY <1>4 DEF Restart, ReplayDies, disk
  <2>2. Data' = Data
    BY <2>1 DEF Data, Contents
  <2>3. OnDisk'
    BY <1>1, <2>1 DEF OnDisk
  <2> QED
    BY <1>1, <2>2, <2>3, DurableNames
<1>5. CASE Started
  <2>1. /\ main' = "loop" /\ inode' = inode /\ name' = [name EXCEPT !["ckp"] = None]
    BY <1>5 DEF Started, RemoveStale
  <2>2. Data' = Data /\ name'["dat"] = name["dat"] /\ name'["bak"] = name["bak"]
    BY <1>0, <2>1 DEF Data, Contents
  <2>3. OnDisk'
    BY <1>1, <2>1, <2>2 DEF OnDisk
  <2> QED
    BY <1>1, <2>2, <2>3, DurableNames
<1> QED
  BY <1>2, <1>3, <1>4, <1>5

LEMMA DurableFirstRoot ==
  ASSUME TInv, OnDisk, Durable, FirstRoot
  PROVE  /\ OnDisk' /\ Durable'
         /\ main = "first" /\ main' = "start" /\ gone = {} /\ gone' = {}
         /\ Data = HeaderOnly
         /\ Data'.live = {Root} /\ Data'.bound = HeaderOnly.bound
<1> DEFINE r == [kind |-> "create", ctx |-> Root]
<1>1. /\ main = "first" /\ main' = "start" /\ name' = name /\ gone' = gone
      /\ used' = used \cup {Root}
      /\ inode' = [inode EXCEPT ![name["dat"]] = Written(@, r)]
  BY DEF FirstRoot
<1>2. r \in Records /\ r.kind = "create" /\ r.ctx = Root
  BY RootAssumption DEF Records
<1>3. /\ name["dat"] \in Inodes /\ name["dat"] # None
      /\ Contents("dat") = HeaderOnly /\ used = {} /\ gone = {}
  BY <1>1, InodesAssumption
     DEF TInv, OnDisk, Filed, MainStates, DiskTypes, FileNames, Past
<1> HIDE DEF r
<1>4. PICK g : g = Written(HeaderOnly, r)
  OBVIOUS
<1>5. Data' = g
  BY <1>1, <1>3, <1>4 DEF TInv, DiskTypes, Data, Contents
<1>6. ~HeaderOnly.torn /\ ~HeaderOnly.refused /\ HeaderOnly.live = {}
  BY DEF HeaderOnly
<1>7. \A c \in Contexts : HeaderOnly.bound[c] = NoBindings
  BY DEF HeaderOnly
<1>8. Accepted(HeaderOnly, r)
  BY <1>2, <1>6 DEF Accepted
<1>9. /\ ~g.torn /\ ~g.refused /\ g.live = {Root} /\ g.bound = HeaderOnly.bound
  <2>1. /\ ~g.torn /\ ~g.refused
        /\ g.live = LiveAfter(HeaderOnly.live, r) /\ g.bound = BoundAfter(HeaderOnly.bound, r)
    BY <1>2, <1>4, <1>6, <1>8, WrittenIs, Empty
  <2> QED
    BY <1>2, <1>6, <2>1 DEF LiveAfter, BoundAfter
<1>10. Whole(g)'
  BY <1>1, <1>3, <1>7, <1>9 DEF Whole
<1>11. Durable'
  BY <1>1, <1>5, <1>10 DEF Durable, Whole, Serving
<1>12. OnDisk'
  BY <1>1, <1>3 DEF OnDisk
<1>13. Data = HeaderOnly
  BY <1>3 DEF Data
<1> QED
  BY <1>1, <1>3, <1>5, <1>9, <1>11, <1>12, <1>13

LEMMA DurableReplay ==
  ASSUME TInv, OnDisk, Durable, Replay
  PROVE  OnDisk' /\ Durable'
<1>1. /\ main = "start" /\ main' = "started" /\ UNCHANGED <<name, inode, used, gone, call>>
      /\ state' = [c \in Contexts |-> IF c \in Contents("dat").live
                                       THEN "active" ELSE "none"]
      /\ bound' = Contents("dat").bound
  BY DEF Replay, disk, history
<1>2. name["dat"] # None /\ \A u \in Clients : call'[u].at # "logged"
  BY <1>1 DEF TInv, Filed, MainStates, Quiescent, Serving, NoCall
<1>3. PICK d : d = Contents("dat")
  OBVIOUS
<1>4. d = Data /\ Data' = d /\ d \in Files
  BY <1>1, <1>2, <1>3 DEF Data, Contents, TInv, DiskTypes, FileNames
<1>5. ActiveContexts' = d.live /\ bound' = d.bound
  BY <1>1, <1>3, <1>4 DEF ActiveContexts, Files
<1>6. Mirror(d)'
  BY <1>2, <1>5 DEF Mirror, Same
<1>7. Whole(d)'
  BY <1>1, <1>4 DEF Durable, Whole
<1>8. Durable'
  BY <1>4, <1>6, <1>7 DEF Durable, Mirror, Whole
<1>9. OnDisk'
  BY <1>1, <1>2 DEF OnDisk
<1> QED
  BY <1>8, <1>9

LEMMA DurableDown ==
  ASSUME Sheltered, TInv, OnDisk, Durable, CkpDies \/ Crash
  PROVE  OnDisk' /\ Durable' /\ Data' = Data
<1>1. UNCHANGED <<name, inode, used, gone>> /\ main' = "down"
  BY DEF Sheltered, CkpDies, Crash, Down, history
<1>2. Data' = Data
  BY <1>1 DEF Data, Contents
<1>3. Durable'
  BY <1>1, <1>2 DEF Durable, Whole, Serving
<1>4. OnDisk'
  BY <1>1 DEF OnDisk
<1> QED
  BY <1>2, <1>3, <1>4

\* What is read next is nothing, and that is all there is of the new graph.
LEMMA DurableRemoved ==
  ASSUME TInv, OnDisk, Durable, RemovesBackup
  PROVE  /\ OnDisk' /\ Durable' /\ Data' = HeaderOnly
         /\ main' = "down" /\ gone' = {}
<1>1. /\ main' = "down" /\ used' = {} /\ gone' = {}
      /\ name'["dat"] = None /\ name'["bak"] = None
  BY Removed
<1>2. Data' = HeaderOnly
  BY <1>1 DEF Data
<1>3. ~HeaderOnly.torn /\ ~HeaderOnly.refused /\ HeaderOnly.live = {}
        /\ \A c \in Contexts : HeaderOnly.bound[c] = NoBindings
  BY DEF HeaderOnly
<1>4. Durable'
  BY <1>1, <1>2, <1>3 DEF Durable, Whole, Serving
<1>5. OnDisk'
  BY <1>1 DEF OnDisk
<1> QED
  BY <1>1, <1>2, <1>4, <1>5

\* The checkpoint holds the lock: no call is between a record and its change.
LEMMA CopyAlone ==
  ASSUME TInv, main \in Copying
  PROVE  \A u \in Clients : call[u].at # "logged"
<1>1. mode[Main] # "none"
  BY DEF TInv, Locked
<1> QED
  BY <1>1, ThreadsAssumption DEF TInv, Locked

\* What is written in a checkpoint: the contexts that were not destroyed are
\* served, those given up may be in it too.
LEMMA SnapshotGood ==
  ASSUME TInv, Durable, main = "prepared"
  PROVE  Whole(Snapshot) /\ Mirror(Snapshot)
<1>1. \A u \in Clients : call[u].at # "logged"
  BY CopyAlone DEF Copying
<1>2. Whole(Data) /\ Same(Data, ActiveContexts, bound)
  BY <1>1 DEF Durable, Mirror, Serving
<1>3. /\ Snapshot.live = Listed /\ Snapshot.bound = bound
      /\ ~Snapshot.torn /\ ~Snapshot.refused
  BY SnapshotIs DEF TInv
<1>4. /\ ActiveContexts \subseteq Listed /\ Listed \cap Kept \subseteq ActiveContexts
      /\ Listed \subseteq used
  BY DEF ActiveContexts, Listed, Kept, TInv, Born
<1>5. used \ gone \subseteq Listed
  BY <1>2, <1>4 DEF Whole, Same, Kept, TInv, Past
<1>6. \A c \in Contexts \ used : bound[c] = NoBindings
  BY <1>2 DEF Whole, Same, Kept, TInv, Past
<1>7. Whole(Snapshot)
  BY <1>3, <1>4, <1>5, <1>6 DEF Whole
<1>8. Same(Snapshot, ActiveContexts, bound)
  BY <1>3, <1>4 DEF Same
<1> QED
  BY <1>1, <1>7, <1>8 DEF Mirror

LEMMA DurableCheckpoint ==
  ASSUME TInv, Rooted, OnDisk, Durable,
         \/ CkpPrepare \/ CkpAbandon \/ CkpWrite \/ CkpDropBackup \/ CkpBackup
         \/ CkpDropData \/ CkpCommit \/ CkpDropCkp \/ CkpReopen \/ CkpDone
         \/ UNCHANGED vars
  PROVE  OnDisk' /\ Durable' /\ (CkpCommit \/ Data' = Data)
<1>0. /\ name \in [FileNames -> Inodes \cup {None}] /\ inode \in [Inodes -> Files]
      /\ FileNames = {"dat", "bak", "ckp"} /\ None \notin Inodes
  BY InodesAssumption DEF TInv, DiskTypes, FileNames
<1>1. UNCHANGED <<state, bound, call, used, gone>> /\ (Serving' => Serving)
  BY DEF CkpPrepare, CkpAbandon, CkpWrite, CkpDropBackup, CkpBackup, CkpDropData,
     CkpCommit, CkpDropCkp, CkpReopen, CkpDone, vars, memory, history, Serving
<1>2. /\ \A f : Mirror(f) => Mirror(f)'
      /\ \A f : Whole(f) => Whole(f)'
  BY <1>1, MirrorStays DEF ActiveContexts, Whole
<1>3. CASE CkpPrepare
  <2>1. PICK i \in {IF name["ckp"] = None THEN Free ELSE name["ckp"]} :
          /\ name' = [name EXCEPT !["ckp"] = i]
          /\ inode' = [inode EXCEPT ![i] = HeaderOnly]
    BY <1>3 DEF CkpPrepare
  <2>2. main = "loop" /\ main' = "prepared" /\ name["ckp"] = None
    BY <1>3 DEF CkpPrepare, TInv, Filed
  <2>3. i \in Inodes /\ name["dat"] # i /\ name["bak"] # i
    BY <1>0, <2>1, <2>2, FreeIs DEF TInv
  <2>4. /\ name'["dat"] = name["dat"] /\ name'["bak"] = name["bak"] /\ name'["ckp"] = i
        /\ \A j \in Inodes : j # i => inode'[j] = inode[j]
    BY <1>0, <2>1, <2>3
  <2>5. name["dat"] \in Inodes
    BY <1>0, <2>2 DEF TInv, Filed, MainStates
  <2>6. Data' = Data
    BY <1>0, <2>3, <2>4, <2>5 DEF Data, Contents
  <2>7. OnDisk'
    BY <1>0, <1>1, <2>2, <2>3, <2>4, <2>5 DEF OnDisk
  <2> QED
    BY <1>1, <2>6, <2>7, DurableNames
<1>4. CASE CkpAbandon \/ CkpDropCkp
  <2>1. /\ main' \in {"loop", "unlinked"} /\ inode' = inode
        /\ name' = [name EXCEPT !["ckp"] = None]
    BY <1>4 DEF CkpAbandon, CkpDropCkp
  <2>2. Data' = Data /\ name'["dat"] = name["dat"] /\ name'["bak"] = name["bak"]
    BY <1>0, <2>1 DEF Data, Contents
  <2>3. OnDisk'
    BY <1>1, <2>1, <2>2 DEF OnDisk
  <2> QED
    BY <1>1, <2>2, <2>3, DurableNames
<1>5. CASE CkpWrite
  <2>1. /\ main = "prepared" /\ main' = "written" /\ name' = name
        /\ inode' = [inode EXCEPT ![name["ckp"]] = Snapshot]
    BY <1>5 DEF CkpWrite
  <2>2. /\ name["ckp"] \in Inodes /\ name["dat"] \in Inodes
        /\ name["ckp"] # name["dat"] /\ name["ckp"] # name["bak"]
    BY <1>0, <2>1 DEF TInv, Filed, MainStates, Copying, OnDisk
  <2>3. PICK s : s = Snapshot
    OBVIOUS
  <2>4. Contents("ckp")' = s /\ Data' = Data
    BY <1>0, <2>1, <2>2, <2>3 DEF Contents, Data
  <2>5. Whole(s)' /\ Mirror(s)'
    BY <1>2, <2>1, <2>3, SnapshotGood DEF Whole, Mirror
  <2>6. Whole(Contents("ckp"))' /\ Mirror(Contents("ckp"))'
    BY <2>4, <2>5 DEF Whole, Mirror
  <2>7. OnDisk'
    BY <1>0, <1>1, <2>1, <2>2, <2>6 DEF OnDisk
  <2> QED
    BY <1>1, <2>4, <2>7, DurableNames
<1>6. CASE CkpDropBackup \/ CkpBackup \/ CkpDropData
  <2>1. /\ main \in {"written", "unbacked", "backed"} /\ inode' = inode
        /\ main' \in {"unbacked", "backed", "dataless"}
        /\ name'["ckp"] = name["ckp"]
        /\ \/ /\ main' = "unbacked" /\ name'["bak"] = None
              /\ name'["dat"] = name["dat"]
           \/ /\ main' = "backed" /\ name'["bak"] = name["dat"]
              /\ name'["dat"] = name["dat"]
           \/ /\ main = "backed" /\ main' = "dataless" /\ name'["bak"] = name["bak"]
              /\ name'["dat"] = None
    BY <1>0, <1>6 DEF CkpDropBackup, CkpBackup, LinkBackup, CkpDropData
  <2>2. /\ name["dat"] # None /\ name["ckp"] # name["dat"] /\ name["ckp"] # name["bak"]
        /\ main = "backed" => name["bak"] = name["dat"]
        /\ name["ckp"] # None
    BY <2>1 DEF TInv, Filed, MainStates, Copying, OnDisk
  <2>3. Data' = Data
    BY <2>1, <2>2 DEF Data, Contents
  <2>4. PICK k : k = Contents("ckp")
    OBVIOUS
  <2>5. Whole(k)' /\ Mirror(k)'
    BY <1>2, <2>1, <2>4 DEF OnDisk
  <2>6. Whole(Contents("ckp"))' /\ Mirror(Contents("ckp"))'
    BY <2>1, <2>4, <2>5 DEF Whole, Mirror, Contents
  <2>7. OnDisk'
    BY <1>1, <2>1, <2>2, <2>6 DEF OnDisk
  <2> QED
    BY <1>1, <2>3, <2>7, DurableNames
<1>7. CASE CkpCommit
  <2>1. /\ main = "dataless" /\ main' = "committed" /\ inode' = inode
        /\ name' = [name EXCEPT !["dat"] = name["ckp"]] /\ name["ckp"] # None
    BY <1>7 DEF CkpCommit, TInv, Filed, Copying
  <2>2. PICK k : k = Contents("ckp")
    OBVIOUS
  <2>3. Data' = k /\ name'["dat"] # None
    BY <1>0, <2>1, <2>2 DEF Data, Contents
  <2>4. Whole(k)' /\ Mirror(k)'
    BY <1>2, <2>1, <2>2 DEF OnDisk
  <2>5. Durable'
    BY <2>3, <2>4 DEF Durable, Whole, Mirror
  <2>6. OnDisk'
    BY <2>1, <2>3 DEF OnDisk
  <2> QED
    BY <1>7, <2>5, <2>6
<1>8. CASE CkpReopen \/ CkpDone
  <2>1. UNCHANGED <<name, inode>> /\ main' \in {"released", "loop"}
    BY <1>8 DEF CkpReopen, CkpDone, disk
  <2>2. Data' = Data
    BY <2>1 DEF Data, Contents
  <2>3. OnDisk'
    BY <1>1, <2>1 DEF OnDisk
  <2> QED
    BY <1>1, <2>2, <2>3, DurableNames
<1>9. CASE UNCHANGED vars
  <2>1. UNCHANGED <<name, inode, used, gone, main>>
    BY <1>9 DEF vars, disk, history
  <2> QED
    BY <1>2, <2>1, DurableStays DEF Data, Contents
<1> QED
  BY <1>3, <1>4, <1>5, <1>6, <1>7, <1>8, <1>9

LEMMA SInit ==
  ASSUME Init PROVE SInv
<1>1. \A t \in Clients : call[t] = NoCall
  BY DEF Init
<1>2. None # Root
  BY RootAssumption, NoneAssumption
<1>3. Undisturbed /\ Rooted
  BY <1>1, <1>2 DEF Init, Undisturbed, Rooted, NoCall, Serving
<1>4. OnDisk
  BY DEF Init, OnDisk
<1>5. Data = HeaderOnly
  BY DEF Init, Data, FileNames
<1>6. ~HeaderOnly.torn /\ ~HeaderOnly.refused /\ HeaderOnly.live = {}
        /\ \A c \in Contexts : HeaderOnly.bound[c] = NoBindings
  BY DEF HeaderOnly
<1>7. Durable
  BY <1>5, <1>6 DEF Init, Durable, Whole, Serving
<1> QED
  BY <1>3, <1>4, <1>7 DEF SInv

LEMMA SNext ==
  ASSUME Sheltered, TInv, Ending, SInv, [Next]_vars
  PROVE  SInv'
<1>1. Undisturbed' /\ Rooted'
  BY UndisturbedNext, RootedNext DEF SInv
<1>2. ASSUME NEW t \in Clients, ClientActs(t) PROVE OnDisk' /\ Durable'
  <2>1. ~PutFails(t)
    BY DEF PutFails, Sheltered
  <2> QED
    BY <1>2, <2>1, DurableCall, DurableReap, DurablePut, DurableApply
       DEF SInv, ClientActs
<1>3. OnDisk' /\ Durable'
  BY <1>2, DurableStart, DurableFirstRoot, DurableReplay, DurableDown, DurableRemoved,
     DurableCheckpoint, StepCases DEF SInv, MainActs
<1> QED
  BY <1>1, <1>3 DEF SInv

-----------------------------------------------------------------------------
(* Theorems about what is kept.                                              *)

\* A graph and a file that are the same on K read the same there.
LEMMA LikeOf ==
  ASSUME NEW f, NEW A, NEW K, NEW B, Like(f, A, K, B)
  PROVE  Of(K, f) = Of(K, [live |-> A, bound |-> B])
<1>1. f.live \cap K = A \cap K /\ \A c \in K : f.bound[c] = B[c]
  BY DEF Like
<1>2. [c \in Contexts |-> IF c \in K THEN f.bound[c] ELSE NoBindings]
        = [c \in Contexts |-> IF c \in K THEN B[c] ELSE NoBindings]
  BY <1>1
<1> QED
  BY <1>1, <1>2 DEF Of

(* While nobody destroys a context that others call, or the root, and no     *)
(* write fails: what is served is what a restart would serve, unless a call  *)
(* is between its record and its change (NamingContext_i.cc:236-258,         *)
(* 313-320, doc/tex/omniNames.tex:51-57).                                    *)
THEOREM ServedIsKept ==
  ASSUME Sheltered PROVE Spec => []MemoryIsLog
<1>1. SInv => MemoryIsLog
  <2> SUFFICES ASSUME SInv, Serving, \A t \in Clients : call[t].at # "logged"
               PROVE  Of(Kept, Data) = Of(Kept, Memory)
    BY DEF MemoryIsLog
  <2>1. Like(Data, ActiveContexts, Kept, bound)
    BY DEF SInv, Durable, Mirror, Same, Like
  <2> QED
    BY <2>1, LikeOf DEF Memory, ActiveContexts
<1>2. Init => TInv /\ Ending /\ SInv
  BY TInit, SInit, EndingIdle DEF Init
<1>3. TInv /\ Ending /\ SInv /\ [Next]_vars => (TInv /\ Ending /\ SInv)'
  BY TNext, EndingNext, SNext
<1> QED
  BY <1>1, <1>2, <1>3, PTL DEF Spec

(* And a restart reads the data file to its end (log.cc:463-527).            *)
THEOREM RestartNeverRefused ==
  ASSUME Sheltered PROVE Spec => []RestartReads
<1>1. SInv => RestartReads
  BY DEF SInv, Rooted, Durable, Whole, Data, RestartReads, Startable
<1>2. Init => TInv /\ Ending /\ SInv
  BY TInit, SInit, EndingIdle DEF Init
<1>3. TInv /\ Ending /\ SInv /\ [Next]_vars => (TInv /\ Ending /\ SInv)'
  BY TNext, EndingNext, SNext
<1> QED
  BY <1>1, <1>2, <1>3, PTL DEF Spec

-----------------------------------------------------------------------------
(* What bind_new_context makes is bound, or taken away again.                *)

\* No client makes a context without binding it, or takes a binding away.
BindsOnly == Ops \subseteq {"bind", "bindnew", "destroy", "resolve"}
Plain == \A t \in Clients : call[t].op \notin {"new", "rebind", "unbind"}

\* Where nothing is bound: in a context that is yet to be created, being made or
\* given up, and under a name that a bind has logged.
Vacant ==
  /\ \A c \in Contexts \ used : bound[c] = NoBindings
  /\ \A c \in Contexts : state[c] \in {"leaving", "ending"} => bound[c] = NoBindings
  /\ \A t \in Clients :
       /\ call[t].op \in {"bindnew", "bindctx", "undo"} => bound[call[t].new] = NoBindings
       /\ call[t].at = "logged" /\ call[t].op = "destroy" => bound[call[t].ctx] = NoBindings
       /\ call[t].at = "logged" /\ call[t].op \in {"bind", "bindctx"}
            => bound[call[t].ctx][call[t].name] = None

\* Before the first start has read its file there is the root at most.
Early == crashes = 0 /\ ~Serving => used \subseteq {Root}

\* Who makes c has not bound it yet, and will bind it or destroy it.
Makes(t, c) ==
  /\ call[t].new = c /\ call[t].op \in {"bindctx", "undo"}
  /\ call[t].at \in {"enter", "logged"}
IsBound(c) == \E d \in Contexts, n \in Names : bound[d][n] = c
Tied ==
  crashes = 0 /\ failures = 0 => \A c \in Contexts \ {Root} :
    state[c] = "active" => IsBound(c) \/ \E t \in Clients : Makes(t, c)

OInv == Plain /\ Vacant /\ Early /\ Tied

\* A step of t that changes no binding.
LEMMA VacantStays ==
  ASSUME TInv, Vacant, NEW t \in Clients, Others(t), UNCHANGED bound, used \subseteq used',
         \A c \in Contexts : state'[c] \in {"leaving", "ending"}
           => state[c] \in {"leaving", "ending"},
         call'[t].op \in {"bindnew", "bindctx", "undo"} => bound[call'[t].new] = NoBindings,
         call'[t].at = "logged" /\ call'[t].op = "destroy" => bound[call'[t].ctx] = NoBindings,
         call'[t].at = "logged" /\ call'[t].op \in {"bind", "bindctx"}
           => bound[call'[t].ctx][call'[t].name] = None
  PROVE  Vacant'
<1>1. \A u \in Clients : u # t => call'[u] = call[u]
  BY DEF Others
<1>2. \A c \in Contexts \ used' : bound'[c] = NoBindings
  BY DEF Vacant
<1>3. \A c \in Contexts : state'[c] \in {"leaving", "ending"} => bound'[c] = NoBindings
  BY DEF Vacant
<1>4. ASSUME NEW u \in Clients
      PROVE  /\ call'[u].op \in {"bindnew", "bindctx", "undo"} => bound'[call'[u].new] = NoBindings
             /\ call'[u].at = "logged" /\ call'[u].op = "destroy"
                  => bound'[call'[u].ctx] = NoBindings
             /\ call'[u].at = "logged" /\ call'[u].op \in {"bind", "bindctx"}
                  => bound'[call'[u].ctx][call'[u].name] = None
  <2>1. CASE u = t
    BY <2>1
  <2>2. CASE u # t
    BY <1>1, <2>2 DEF Vacant
  <2> QED
    BY <2>1, <2>2
<1> QED
  BY <1>2, <1>3, <1>4 DEF Vacant

\* A step that creates no context, and after which t makes what it made.
LEMMA TiedStays ==
  ASSUME Tied, NEW t \in Clients, Others(t), UNCHANGED <<bound, crashes, failures>>,
         \A c \in Contexts : state'[c] = "active" => state[c] = "active",
         \A c \in Contexts : Makes(t, c) /\ state'[c] = "active" => Makes(t, c)'
  PROVE  Tied'
<1> SUFFICES ASSUME crashes = 0, failures = 0, NEW c \in Contexts \ {Root},
                    state'[c] = "active"
             PROVE  IsBound(c)' \/ \E u \in Clients : Makes(u, c)'
  BY DEF Tied
<1>1. CASE IsBound(c)
  BY <1>1 DEF IsBound
<1>2. ASSUME NEW u \in Clients, Makes(u, c) PROVE Makes(u, c)'
  <2>1. CASE u = t
    BY <1>2, <2>1
  <2>2. CASE u # t
    BY <1>2, <2>2 DEF Others, Makes
  <2> QED
    BY <2>1, <2>2
<1> QED
  BY <1>1, <1>2 DEF Tied

LEMMA OInvoke ==
  ASSUME BindsOnly, TInv, Plain, Vacant, Tied, NEW t \in Clients, Invoke(t)
  PROVE  Plain' /\ Vacant' /\ Tied'
<1>1. call[t].at = "idle" /\ Begins(t) /\ UNCHANGED <<state, bound, used, crashes, failures>>
  <2>1. UNCHANGED <<state, bound, used, crashes, failures>>
    BY DEF Invoke, memory, history
  <2>2. call[t].at = "idle" /\ Begins(t)
    BY InvokeDoes DEF TInv
  <2> QED
    BY <2>1, <2>2
<1>2. call[t] = NoCall /\ Others(t) /\ call'[t].at = "enter" /\ call'[t].op \in Ops
  BY <1>1 DEF TInv, CallsProper, Proper, Begins
<1>3. Plain'
  BY <1>2 DEF Plain, BindsOnly, Others
<1>4. call'[t].op \in {"bindnew", "bindctx", "undo"} => bound[call'[t].new] = NoBindings
  BY <1>1, <1>2 DEF BindsOnly, Begins, Creating, Vacant
<1>5. Vacant'
  BY <1>1, <1>2, <1>4, VacantStays
<1>6. Tied'
  BY <1>1, <1>2, TiedStays DEF Makes, NoCall
<1> QED
  BY <1>3, <1>5, <1>6

\* The call that takes back what it made is never refused: nobody else knows
\* the context, so that there is nothing in it.
LEMMA ORefused ==
  ASSUME TInv, Plain, Vacant, Tied, NEW t \in Clients, Refused(t)
  PROVE  Plain' /\ Vacant' /\ Tied'
<1>1. /\ call[t].at = "enter" /\ ~GoesOn(t)
      /\ UNCHANGED <<state, bound, used, crashes, failures>>
  BY DEF Refused, memory, history, bounds
<1>2. \/ call[t].op = "bindctx" /\ Becomes(t, "undo", "enter")
      \/ call[t].op # "bindctx" /\ Becomes(t, call[t].op, "leave")
  BY <1>1, RaisedDoes DEF Refused, TInv
<1>3. call[t].op # "undo"
  BY <1>1 DEF GoesOn, Vacant, Target
<1>4. Others(t) /\ call'[t].new = call[t].new /\ call'[t].at # "logged"
  BY <1>2 DEF Becomes
<1>5. Plain'
  BY <1>2 DEF Plain, Becomes, Others
<1>6. call'[t].op \in {"bindnew", "bindctx", "undo"} => bound[call'[t].new] = NoBindings
  BY <1>2, <1>4 DEF Vacant, Becomes
<1>7. Vacant'
  BY <1>1, <1>4, <1>6, VacantStays
<1>8. \A c : Makes(t, c) => Makes(t, c)'
  BY <1>2, <1>3, <1>4 DEF Makes, Becomes
<1> QED
  BY <1>1, <1>4, <1>5, <1>7, <1>8, TiedStays

LEMMA OPut ==
  ASSUME TInv, Plain, Vacant, Tied, NEW t \in Clients, Put(t)
  PROVE  Plain' /\ Vacant' /\ Tied'
<1>1. /\ call[t].at = "enter" /\ GoesOn(t) /\ Becomes(t, call[t].op, "logged")
      /\ UNCHANGED <<state, bound, crashes, failures>> /\ used \subseteq used'
  BY PutDoes, PutHistory DEF TInv, Put, memory, bounds
<1>2. /\ Others(t) /\ call'[t].op = call[t].op /\ call'[t].at = "logged"
      /\ call'[t].ctx = call[t].ctx /\ call'[t].name = call[t].name
      /\ call'[t].new = call[t].new
  BY <1>1 DEF Becomes
<1>3. Plain'
  BY <1>2 DEF Plain, Others
<1>4. /\ call[t].op \in {"bind", "bindctx"} => bound[call[t].ctx][call[t].name] = None
      /\ call[t].op = "destroy" => bound[call[t].ctx] = NoBindings
  BY <1>1 DEF GoesOn, Target
<1>5. Vacant'
  BY <1>1, <1>2, <1>4, VacantStays DEF Vacant
<1>6. \A c : Makes(t, c) => Makes(t, c)'
  BY <1>2 DEF Makes
<1> QED
  BY <1>1, <1>2, <1>3, <1>5, <1>6, TiedStays

LEMMA OLeave ==
  ASSUME TInv, Plain, Vacant, Tied, NEW t \in Clients, Leave(t)
  PROVE  Plain' /\ Vacant' /\ Tied'
<1>1. call[t].at = "leave" /\ UNCHANGED <<bound, used, crashes, failures>>
  BY DEF Leave, bounds, history
<1>2. Target(t) \in Contexts /\ state \in [Contexts -> {"none", "active", "leaving", "ending"}]
  BY <1>1, TargetIs DEF TInv, StateTypes
<1>3. /\ \/ Becomes(t, call[t].op, "reap")
         \/ Becomes(t, "undone", "leave")
         \/ Clears(t)
      /\ \/ state' = [state EXCEPT ![Target(t)] = "ending"] /\ state[Target(t)] = "leaving"
         \/ state' = state
  BY <1>2, LeaveDoes DEF TInv, Last
<1>4. /\ Others(t) /\ call'[t].at # "logged"
      /\ call'[t].op \in {call[t].op, "undone", "none"}
      /\ call'[t].op = call[t].op /\ call[t].op # "none" => call'[t].new = call[t].new
  BY <1>3 DEF Becomes, Clears, NoCall
<1>5. Plain'
  BY <1>4 DEF Plain, Others
<1>6. call'[t].op \in {"bindnew", "bindctx", "undo"} => bound[call'[t].new] = NoBindings
  BY <1>4 DEF Vacant
<1>7. \A c \in Contexts :
        /\ state'[c] \in {"leaving", "ending"} => state[c] \in {"leaving", "ending"}
        /\ state'[c] = "active" => state[c] = "active"
  BY <1>2, <1>3
<1>8. Vacant'
  BY <1>1, <1>4, <1>6, <1>7, VacantStays
<1> QED
  BY <1>1, <1>4, <1>5, <1>7, <1>8, TiedStays DEF Makes

\* A context that is taken out had nothing in it any more.
LEMMA OReap ==
  ASSUME TInv, Ending, Plain, Vacant, Tied, NEW t \in Clients, Reap(t)
  PROVE  Plain' /\ Vacant' /\ Tied'
<1>1. /\ call[t].at = "reap" /\ UNCHANGED <<used, crashes, failures>>
      /\ state' = [state EXCEPT ![call[t].reap] = "none"]
      /\ bound' = [bound EXCEPT ![call[t].reap] = NoBindings]
  BY DEF Reap, bounds, history
<1>2. call[t].reap \in Contexts /\ state[call[t].reap] = "ending"
  BY <1>1 DEF Ending, TInv, CallsProper, Proper, Past
<1>3. bound[call[t].reap] = NoBindings /\ bound \in [Contexts -> Bindings]
  BY <1>2 DEF Vacant, TInv, BoundTypes
<1>4. UNCHANGED bound
  BY <1>1, <1>2, <1>3
<1>5. \/ Becomes(t, "undone", "leave")
      \/ Clears(t)
  BY ReapDoes DEF TInv
<1>6. Others(t) /\ call'[t].at # "logged" /\ call'[t].op \in {"undone", "none"}
  BY <1>5 DEF Becomes, Clears, NoCall
<1>7. Plain'
  BY <1>6 DEF Plain, Others
<1>8. \A c \in Contexts :
        /\ state'[c] \in {"leaving", "ending"} => state[c] \in {"leaving", "ending"}
        /\ state'[c] = "active" => state[c] = "active"
  BY <1>1, <1>2 DEF TInv, StateTypes
<1>9. Vacant'
  BY <1>1, <1>4, <1>6, <1>8, VacantStays
<1> QED
  BY <1>1, <1>4, <1>6, <1>7, <1>8, <1>9, TiedStays DEF Makes

\* A binding that is made is under a name that was free, in a context that is
\* active; it is the one that ties what bind_new_context has made.
LEMMA OApplyBind ==
  ASSUME TInv, Undisturbed, Vacant, Tied, NEW t \in Clients, Apply(t),
         call[t].op \in {"bind", "bindctx"}
  PROVE  Vacant' /\ Tied'
<1>1. /\ call[t].at = "logged" /\ Becomes(t, call[t].op, "leave")
      /\ UNCHANGED <<state, used, crashes, failures>>
      /\ \A u \in Clients : call'[u].at # "logged"
  <2>1. call[t].at = "logged" /\ Becomes(t, call[t].op, "leave")
    BY ApplyDoes DEF TInv
  <2>2. UNCHANGED <<state, used>> /\ \A u \in Clients : call'[u].at # "logged"
    BY ApplyMemory, ApplyAlone DEF Binding
  <2> QED
    BY <2>1, <2>2 DEF Apply, bounds
<1>2. PICK d \in Contexts, n \in Names : d = call[t].ctx /\ n = call[t].name
  BY <1>1 DEF TInv, CallsProper, Proper, Past
<1>3. /\ bound' = [bound EXCEPT ![d][n] = call[t].thing]
      /\ bound \in [Contexts -> Bindings]
  <2>1. Record(t) = [kind |-> "bind", ctx |-> d, name |-> n, thing |-> call[t].thing]
    BY <1>2, RecordIs
  <2>2. bound' = BoundAfter(bound, Record(t))
    BY ApplyMemory DEF Binding
  <2>3. bound \in [Contexts -> Bindings]
    BY DEF TInv, BoundTypes
  <2> QED
    BY <2>1, <2>2, <2>3 DEF BoundAfter
<1>4. /\ \A e \in Contexts : e # d => bound'[e] = bound[e]
      /\ bound'[d] = [bound[d] EXCEPT ![n] = call[t].thing]
  BY <1>3
<1>5. bound[d] \in [Names -> Things \cup {None}]
  BY <1>3 DEF Bindings
<1>6. /\ bound'[d][n] = call[t].thing
      /\ \A m \in Names : m # n => bound'[d][m] = bound[d][m]
  BY <1>4, <1>5
<1>7. bound[d][n] = None /\ state[d] = "active" /\ d \in used
  BY <1>1, <1>2 DEF Vacant, Undisturbed, TInv, CallsProper, Proper
<1>8. \A u \in Clients : call'[u].op = call[u].op /\ call'[u].new = call[u].new
  BY <1>1 DEF Becomes, Others
<1>9. \A u \in Clients : call[u].op \in {"bindnew", "bindctx", "undo"} =>
        call[u].new \in Contexts /\ call[u].new # d
  BY <1>1, <1>2 DEF TInv, Apart, CallsProper, Proper, Making
<1>10. Vacant'
  <2>1. \A c \in Contexts \ used' : bound'[c] = NoBindings
    BY <1>1, <1>4, <1>7 DEF Vacant
  <2>2. \A c \in Contexts : state'[c] \in {"leaving", "ending"} => bound'[c] = NoBindings
    BY <1>1, <1>4, <1>7 DEF Vacant
  <2>3. \A u \in Clients : call'[u].op \in {"bindnew", "bindctx", "undo"}
          => bound'[call'[u].new] = NoBindings
    BY <1>4, <1>8, <1>9 DEF Vacant
  <2> QED
    BY <1>1, <2>1, <2>2, <2>3 DEF Vacant
<1>11. Tied'
  <2> SUFFICES ASSUME crashes = 0, failures = 0, NEW c \in Contexts \ {Root},
                      state[c] = "active"
               PROVE  IsBound(c)' \/ \E u \in Clients : Makes(u, c)'
    BY <1>1 DEF Tied
  <2>1. c # None
    BY NoneAssumption
  <2>2. CASE IsBound(c)
    <3>1. PICK e \in Contexts, m \in Names : bound[e][m] = c
      BY <2>2 DEF IsBound
    <3>2. bound'[e][m] = c
      BY <1>4, <1>6, <1>7, <2>1, <3>1
    <3> QED
      BY <3>2 DEF IsBound
  <2>3. ASSUME NEW u \in Clients, Makes(u, c), u # t PROVE Makes(u, c)'
    BY <1>1, <2>3 DEF Makes, Becomes, Others
  <2>4. CASE Makes(t, c)
    <3>1. call[t].thing = c
      BY <1>1, <2>4 DEF Makes, TInv, CallsProper, Proper
    <3> QED
      BY <1>6, <3>1 DEF IsBound
  <2> QED
    BY <2>2, <2>3, <2>4 DEF Tied
<1> QED
  BY <1>10, <1>11

LEMMA OApplyCreate ==
  ASSUME TInv, Vacant, Tied, NEW t \in Clients, Apply(t), call[t].op = "bindnew"
  PROVE  Vacant' /\ Tied'
<1>1. /\ Becomes(t, "bindctx", "enter")
      /\ state' = [state EXCEPT ![call[t].new] = "active"]
      /\ UNCHANGED <<bound, used, crashes, failures>>
  <2>1. Becomes(t, "bindctx", "enter")
    BY ApplyDoes DEF TInv, CallsProper, Proper, Making
  <2>2. state' = [state EXCEPT ![call[t].new] = "active"] /\ UNCHANGED <<bound, used>>
    BY ApplyMemory, ApplyAlone DEF Creating
  <2> QED
    BY <2>1, <2>2 DEF Apply, bounds
<1>2. /\ Others(t) /\ call'[t].op = "bindctx" /\ call'[t].at = "enter"
      /\ call'[t].new = call[t].new
  BY <1>1 DEF Becomes
<1>3. \A c \in Contexts : c # call[t].new => state'[c] = state[c]
  BY <1>1 DEF TInv, StateTypes
<1>4. call[t].new \in Contexts /\ state'[call[t].new] = "active"
  BY <1>1 DEF TInv, StateTypes, CallsProper, Proper, Making
<1>5. Vacant'
  BY <1>1, <1>2, <1>3, <1>4, VacantStays DEF Vacant
<1>6. Tied'
  <2> SUFFICES ASSUME crashes = 0, failures = 0, NEW c \in Contexts \ {Root},
                      state'[c] = "active"
               PROVE  IsBound(c)' \/ \E u \in Clients : Makes(u, c)'
    BY <1>1 DEF Tied
  <2>1. CASE c = call[t].new
    BY <1>2, <2>1 DEF Makes
  <2>2. CASE c # call[t].new
    <3>1. IsBound(c) => IsBound(c)'
      BY <1>1 DEF IsBound
    <3>2. \A u \in Clients : Makes(u, c) => Makes(u, c)'
      BY <1>2, <2>2 DEF Makes, Others
    <3> QED
      BY <1>3, <2>2, <3>1, <3>2 DEF Tied
  <2> QED
    BY <2>1, <2>2
<1> QED
  BY <1>5, <1>6

\* A context that is given up is empty and no longer one to be tied.
LEMMA OApplyDestroy ==
  ASSUME TInv, Vacant, Tied, NEW t \in Clients, Apply(t), call[t].op \in Destroying
  PROVE  Vacant' /\ Tied'
<1>1. /\ call[t].at = "logged" /\ Becomes(t, call[t].op, "leave")
      /\ state' = [state EXCEPT ![Target(t)] = "leaving"]
      /\ UNCHANGED <<bound, used, crashes, failures>>
      /\ \A u \in Clients : call'[u].at # "logged"
  <2>1. call[t].at = "logged" /\ Becomes(t, call[t].op, "leave")
    BY ApplyDoes DEF TInv, Destroying
  <2>2. /\ state' = [state EXCEPT ![Target(t)] = "leaving"] /\ UNCHANGED <<bound, used>>
        /\ \A u \in Clients : call'[u].at # "logged"
    BY ApplyMemory, ApplyAlone
  <2> QED
    BY <2>1, <2>2 DEF Apply, bounds
<1>2. /\ Others(t) /\ call'[t].op = call[t].op /\ call'[t].new = call[t].new
  BY <1>1 DEF Becomes
<1>3. Target(t) \in Contexts /\ bound[Target(t)] = NoBindings
  BY <1>1, TargetIs DEF Vacant, Target, Destroying
<1>4. \A c \in Contexts :
        /\ state'[c] = "active" => state[c] = "active" /\ c # Target(t)
        /\ state'[c] \in {"leaving", "ending"} =>
             c = Target(t) \/ state[c] \in {"leaving", "ending"}
  BY <1>1, <1>3 DEF TInv, StateTypes
<1>5. Vacant'
  <2>1. \A u \in Clients : call'[u].op = call[u].op /\ call'[u].new = call[u].new
    BY <1>2 DEF Others
  <2>2. \A c \in Contexts : state'[c] \in {"leaving", "ending"} => bound'[c] = NoBindings
    BY <1>1, <1>3, <1>4 DEF Vacant
  <2> QED
    BY <1>1, <2>1, <2>2 DEF Vacant
<1>6. \A c \in Contexts : Makes(t, c) => c = Target(t)
  BY DEF Makes, Target, Destroying
<1> QED
  BY <1>1, <1>2, <1>4, <1>5, <1>6, TiedStays

LEMMA OApply ==
  ASSUME TInv, Undisturbed, Plain, Vacant, Tied, NEW t \in Clients, Apply(t)
  PROVE  Plain' /\ Vacant' /\ Tied'
<1>1. call[t].op \in {"bind", "bindctx", "bindnew"} \cup Destroying
  BY ApplyMemory DEF Plain, Recorded, Binding, Creating
<1>2. \/ Becomes(t, "bindctx", "enter")
      \/ Becomes(t, call[t].op, "leave")
  BY ApplyDoes DEF TInv, CallsProper, Proper, Making
<1>3. Plain'
  BY <1>2 DEF Plain, Becomes, Others
<1> QED
  BY <1>1, <1>3, OApplyBind, OApplyCreate, OApplyDestroy

\* The first start reads a file with the root in it, and nothing else.
LEMMA OReplay ==
  ASSUME TInv, Durable, Early, Replay
  PROVE  Plain' /\ Vacant' /\ Tied'
<1>1. /\ main = "start" /\ UNCHANGED <<used, call, crashes>>
      /\ state' = [c \in Contexts |-> IF c \in Contents("dat").live
                                       THEN "active" ELSE "none"]
      /\ bound' = Contents("dat").bound
  BY DEF Replay, history, bounds
<1>2. \A t \in Clients : call'[t] = NoCall
  BY <1>1 DEF TInv, Quiescent, Serving
<1>3. name["dat"] # None
  BY <1>1 DEF TInv, Filed, MainStates
<1>4. Contents("dat") = Data
  BY <1>3 DEF Data
<1>5. Contents("dat").live \subseteq used /\ \A c \in Contexts \ used : bound'[c] = NoBindings
  BY <1>1, <1>4 DEF Durable, Whole
<1>6. \A c \in Contexts : state'[c] \in {"none", "active"}
                            /\ (state'[c] = "active" => c \in used)
  BY <1>1, <1>5
<1>7. Plain'
  BY <1>2 DEF Plain, NoCall
<1>8. Vacant'
  BY <1>1, <1>2, <1>5, <1>6 DEF Vacant, NoCall
<1>9. crashes = 0 => used \subseteq {Root}
  BY <1>1 DEF Early, Serving
<1>10. Tied'
  BY <1>1, <1>6, <1>9 DEF Tied
<1> QED
  BY <1>7, <1>8, <1>10

LEMMA OInit ==
  ASSUME Init PROVE OInv
BY DEF Init, OInv, Plain, Vacant, Early, Tied, NoCall

LEMMA EarlyNext ==
  ASSUME TInv, Early, [Next]_vars PROVE Early'
<1>1. ASSUME NEW t \in Clients, ClientActs(t) PROVE Early'
  BY <1>1, CallerServed, ClientLock DEF Early, Serving
<1>2. CASE MainActs \/ UNCHANGED vars
  <2>1. UNCHANGED <<crashes, used>>
    BY <1>2, MainKeeps
  <2>2. ~Serving' => ~Serving
    BY <1>2 DEF MainActs, FirstStart, FirstFails, Restart, Replay, ReplayDies, Started,
       CkpPrepare, CkpAbandon, CkpWrite, CkpDropBackup, CkpBackup, CkpDropData,
       CkpCommit, CkpDropCkp, CkpReopen, CkpDone, vars, Serving
  <2> QED
    BY <2>1, <2>2 DEF Early
<1>3. CASE FirstRoot
  <2>1. ~Serving /\ UNCHANGED crashes /\ used' = used \cup {Root}
    BY <1>3 DEF FirstRoot, Serving, bounds
  <2> QED
    BY <2>1 DEF Early
<1>4. CASE CkpDies \/ Crash
  <2>1. crashes' = crashes + 1 /\ crashes \in Nat
    BY <1>4 DEF CkpDies, Crash, TInv, BoundsTypes
  <2> QED
    BY <2>1 DEF Early
<1>5. CASE RemovesBackup
  <2>1. used' = {}
    BY <1>5, Removed
  <2> QED
    BY <2>1 DEF Early
<1> QED
  BY <1>1, <1>2, <1>3, <1>4, <1>5, StepCases

LEMMA ONext ==
  ASSUME Sheltered, BindsOnly, TInv, Ending, SInv, OInv, [Next]_vars
  PROVE  OInv'
<1>1. Early'
  BY EarlyNext DEF OInv
<1>2. ASSUME NEW t \in Clients, ClientActs(t) PROVE Plain' /\ Vacant' /\ Tied'
  <2>1. ~PutFails(t)
    BY DEF PutFails, Sheltered
  <2> QED
    BY <1>2, <2>1, OInvoke, ORefused, OPut, OApply, OLeave, OReap
       DEF OInv, SInv, ClientActs
<1>3. CASE Replay
  BY <1>1, <1>3, OReplay DEF OInv, SInv
<1>4. CASE (MainActs /\ ~Replay) \/ FirstRoot \/ UNCHANGED vars
  <2>1. /\ UNCHANGED <<state, bound, call, crashes>> /\ used \subseteq used'
        /\ failures' = 0 => failures = 0
    <3>1. CASE CkpAbandon
      BY <3>1 DEF CkpAbandon, memory, history, TInv, BoundsTypes
    <3>2. CASE ~CkpAbandon
      BY <1>4, <3>2 DEF MainActs, FirstStart, FirstFails, Restart, ReplayDies, Started,
         CkpPrepare, CkpWrite, CkpDropBackup, CkpBackup, CkpDropData, CkpCommit,
         CkpDropCkp, CkpReopen, CkpDone, FirstRoot, vars, memory, bounds, history
    <3> QED
      BY <3>1, <3>2
  <2> QED
    BY <1>1, <2>1 DEF OInv, Plain, Vacant, Tied, IsBound, Makes
<1>5. CASE CkpDies \/ Crash
  <2>1. /\ crashes' = crashes + 1 /\ crashes \in Nat
        /\ \A t \in Clients : call'[t] = NoCall
        /\ state' = [c \in Contexts |-> "none"]
        /\ bound' = [c \in Contexts |-> NoBindings]
    BY <1>5 DEF CkpDies, Crash, Down, TInv, BoundsTypes
  <2> QED
    BY <1>1, <2>1 DEF OInv, Plain, Vacant, Tied, NoCall
<1>6. CASE RemovesBackup
  <2>1. /\ UNCHANGED <<state, bound>> /\ \A t \in Clients : call'[t] = NoCall
        /\ \A c \in Contexts : state[c] = "none" /\ bound[c] = NoBindings
    BY <1>6, Removed
  <2> QED
    BY <1>1, <2>1 DEF OInv, Plain, Vacant, Tied, NoCall
<1> QED
  BY <1>1, <1>2, <1>3, <1>4, <1>5, <1>6, StepCases DEF OInv

(* While nobody destroys a context that others call, or the root, and        *)
(* clients neither make contexts they do not bind nor take bindings away:    *)
(* bind_new_context leaves no context behind that is bound nowhere, whatever *)
(* else is bound or destroyed between its steps (NamingContext_i.cc:352-373).*)
THEOREM NoneUnbound ==
  ASSUME Sheltered, BindsOnly PROVE Spec => []NoOrphans
<1>1. OInv => NoOrphans
  BY DEF OInv, Tied, IsBound, Makes, NoOrphans
<1>2. Init => TInv /\ Ending /\ SInv /\ OInv
  BY TInit, SInit, EndingIdle, OInit DEF Init
<1>3. TInv /\ Ending /\ SInv /\ OInv /\ [Next]_vars => (TInv /\ Ending /\ SInv /\ OInv)'
  BY TNext, EndingNext, SNext, ONext
<1> QED
  BY <1>1, <1>2, <1>3, PTL DEF Spec

-----------------------------------------------------------------------------
(* The naming service keeps the promise of NamingStore.                      *)

Graph == Of(Kept, Data)
View == IF Serving THEN Of(Kept, Memory) ELSE None

\* The operators of the abstract module are those of NamingGraph.
LEMMA StoreOps ==
  /\ Store!EmptyGraph = EmptyGraph /\ Store!Records = Records
  /\ \A f, r : Store!Accepted(f, r) <=> Accepted(f, r)
  /\ \A A, r : Store!LiveAfter(A, r) = LiveAfter(A, r)
  /\ \A B, r : Store!BoundAfter(B, r) = BoundAfter(B, r)
<1>1. Store!NoBindings = NoBindings
  BY DEF Store!NoBindings, NoBindings
<1>2. Store!EmptyGraph = EmptyGraph
  BY <1>1 DEF Store!EmptyGraph, EmptyGraph
<1>3. Store!Records = Records
  BY DEF Store!Records, Records, Store!Things, Things
<1>4. \A f, r : Store!Accepted(f, r) <=> Accepted(f, r)
  BY <1>1 DEF Store!Accepted, Accepted
<1>5. \A A, r : Store!LiveAfter(A, r) = LiveAfter(A, r)
  BY DEF Store!LiveAfter, LiveAfter
<1>6. \A B, r : Store!BoundAfter(B, r) = BoundAfter(B, r)
  BY DEF Store!BoundAfter, BoundAfter
<1> QED
  BY <1>2, <1>3, <1>4, <1>5, <1>6

\* Graphs and files that say the same of the contexts of K say the same of
\* fewer.
LEMMA OfFewer ==
  ASSUME NEW f, NEW g, NEW K, NEW L \in SUBSET K, Of(K, f) = Of(K, g)
  PROVE  Of(L, f) = Of(L, g)
<1>1. f.live \cap K = g.live \cap K
  BY DEF Of
<1>2. ASSUME NEW c \in Contexts, c \in K PROVE f.bound[c] = g.bound[c]
  <2>1. Of(K, f).bound[c] = f.bound[c] /\ Of(K, g).bound[c] = g.bound[c]
    BY <1>2 DEF Of
  <2> QED
    BY <2>1
<1>3. [c \in Contexts |-> IF c \in L THEN f.bound[c] ELSE NoBindings]
        = [c \in Contexts |-> IF c \in L THEN g.bound[c] ELSE NoBindings]
  BY <1>2
<1>4. f.live \cap L = g.live \cap L
  BY <1>1
<1> QED
  BY <1>3, <1>4 DEF Of

\* A record of a context outside K says nothing of K.
LEMMA OfElsewhere ==
  ASSUME NEW f \in Files, NEW r \in Records, NEW K \in SUBSET Contexts, r.ctx \notin K,
         NEW g, g.live = LiveAfter(f.live, r), g.bound = BoundAfter(f.bound, r)
  PROVE  Of(K, g) = Of(K, f)
<1>1. g.live \cap K = f.live \cap K
  BY DEF LiveAfter
<1>2. \A c \in K : g.bound[c] = f.bound[c]
  BY BoundElsewhere DEF Files
<1>3. [c \in Contexts |-> IF c \in K THEN g.bound[c] ELSE NoBindings]
        = [c \in Contexts |-> IF c \in K THEN f.bound[c] ELSE NoBindings]
  BY <1>2
<1> QED
  BY <1>1, <1>3 DEF Of

\* A record of a context of K does to what is said of K what it does to the
\* file.
LEMMA OfAfter ==
  ASSUME NEW f \in Files, NEW r \in Records, NEW K \in SUBSET Contexts, r.ctx \in K,
         Accepted(f, r),
         NEW L, L = IF r.kind = "destroy" THEN K \ {r.ctx} ELSE K,
         NEW g, g.live = LiveAfter(f.live, r), g.bound = BoundAfter(f.bound, r)
  PROVE  /\ Accepted(Of(K, f), r)
         /\ Of(L, g) = [live |-> LiveAfter(Of(K, f).live, r),
                        bound |-> BoundAfter(Of(K, f).bound, r)]
         /\ r.kind = "destroy" => Of(L, g) = Of(L, f)
<1> DEFINE h == Of(K, f)
           a == [c \in Contexts |-> IF c \in L THEN g.bound[c] ELSE NoBindings]
<1>1. /\ h.live = f.live \cap K
      /\ h.bound = [c \in Contexts |-> IF c \in K THEN f.bound[c] ELSE NoBindings]
  BY DEF Of
<1>2. f.bound \in [Contexts -> Bindings] /\ h.bound \in [Contexts -> Bindings]
  BY <1>1, Empty DEF Files
<1>3. \A c \in K : h.bound[c] = f.bound[c]
  BY <1>1
<1>4. \A c \in Contexts \ K : h.bound[c] = NoBindings
  BY <1>1
<1> HIDE DEF h
<1>5. Accepted(h, r)
  BY <1>1, <1>3 DEF Accepted
<1>6. LiveAfter(h.live, r) = g.live \cap L
  BY <1>1 DEF LiveAfter
<1>7. BoundAfter(h.bound, r) \in [Contexts -> Bindings]
  BY <1>2, BoundType
<1>8. \A c \in K : g.bound[c] = BoundAfter(h.bound, r)[c]
  BY <1>2, <1>3, BoundAgrees
<1>9. \A c \in Contexts \ K : BoundAfter(h.bound, r)[c] = NoBindings
  BY <1>2, <1>4, BoundElsewhere
<1>10. r.kind = "destroy" =>
         /\ g.bound = f.bound /\ BoundAfter(h.bound, r) = h.bound
         /\ h.bound[r.ctx] = NoBindings
  BY <1>3 DEF BoundAfter, Accepted
<1>11. \A c \in Contexts : a[c] = BoundAfter(h.bound, r)[c]
  BY <1>8, <1>9, <1>10
<1>12. a = BoundAfter(h.bound, r)
  BY <1>7, <1>11
<1>13. Of(L, g) = [live |-> LiveAfter(h.live, r), bound |-> BoundAfter(h.bound, r)]
  BY <1>6, <1>12 DEF Of
<1>14. ASSUME r.kind = "destroy" PROVE Of(L, g) = Of(L, f)
  <2>1. g.bound = f.bound /\ g.live \cap L = f.live \cap L
    BY <1>10, <1>14 DEF LiveAfter
  <2> QED
    BY <2>1 DEF Of
<1> QED
  BY <1>5, <1>13, <1>14 DEF h

\* The steps of NamingStore, said of what is kept and served here.
LEMMA StoreFound ==
  ASSUME Graph = EmptyGraph, View = None, View' = View,
         Graph' = [live |-> {Root}, bound |-> EmptyGraph.bound]
  PROVE  Store!StoreNext
<1>1. Graph' = [EmptyGraph EXCEPT !.live = {Root}]
  BY DEF EmptyGraph
<1>2. Store!Found
  BY <1>1, StoreOps DEF Store!Found, Graph, View
<1> QED
  BY <1>2 DEF Store!StoreNext

LEMMA StoreKeep ==
  ASSUME NEW r \in Records, View = Graph, Accepted(Graph, r),
         Graph' = [live |-> LiveAfter(Graph.live, r),
                   bound |-> BoundAfter(Graph.bound, r)],
         View' = IF r.kind = "destroy" THEN Graph' ELSE View
  PROVE  Store!StoreNext
<1>1. Store!Keep(r)
  BY StoreOps DEF Store!Keep, Graph, View
<1> QED
  BY <1>1, StoreOps DEF Store!StoreNext

LEMMA StoreServe ==
  ASSUME Graph # EmptyGraph, View' = Graph, Graph' = Graph
  PROVE  Store!StoreNext
<1>1. Store!Serve
  BY StoreOps DEF Store!Serve, Graph, View
<1> QED
  BY <1>1 DEF Store!StoreNext

LEMMA StoreStop ==
  ASSUME View' = None, Graph' = Graph
  PROVE  Store!StoreNext
<1>1. Store!Stop
  BY DEF Store!Stop, Graph, View
<1> QED
  BY <1>1 DEF Store!StoreNext

LEMMA StoreLose ==
  ASSUME Always, name["dat"] = None, View = None, View' = View, Graph' = EmptyGraph
  PROVE  Store!StoreNext
<1>1. Store!Lose
  BY StoreOps DEF Store!Lose, Graph, View
<1> QED
  BY <1>1 DEF Store!StoreNext

\* What is served is what is kept, but between a record and its change.
LEMMA ServedKept ==
  ASSUME SInv, Serving, \A t \in Clients : call[t].at # "logged"
  PROVE  View = Graph
<1>1. Like(Data, ActiveContexts, Kept, bound)
  BY DEF SInv, Durable, Mirror, Same, Like
<1>2. Of(Kept, Data) = Of(Kept, Memory)
  BY <1>1, LikeOf DEF Memory, ActiveContexts
<1> QED
  BY <1>2 DEF View, Graph

\* Nothing that NamingStore speaks of changes.
LEMMA GraphStays ==
  ASSUME Data' = Data, gone' = gone PROVE Graph' = Graph
BY DEF Graph, Kept

LEMMA ViewStays ==
  ASSUME UNCHANGED <<ActiveContexts, bound, gone>>, Serving' <=> Serving
  PROVE  View' = View
BY DEF View, Kept, Memory, ActiveContexts

\* Once served, there is at least the root.
LEMMA GraphHasRoot ==
  ASSUME TInv, SInv, Root \in used PROVE Graph # EmptyGraph
<1>1. Root \in Data.live /\ Root \in Kept
  BY RootAssumption DEF SInv, Durable, Whole, Rooted, Kept
<1>2. Graph.live = Data.live \cap Kept
  BY DEF Graph, Of
<1> QED
  BY <1>1, <1>2 DEF EmptyGraph

LEMMA StoreInits ==
  ASSUME Init PROVE Store!StoreInit
<1>1. Data = HeaderOnly /\ Kept = Contexts /\ ~Serving
  BY DEF Init, Data, FileNames, Kept, Serving
<1>2. HeaderOnly.live = {} /\ HeaderOnly.bound = [c \in Contexts |-> NoBindings]
  BY DEF HeaderOnly
<1>3. Of(Contexts, HeaderOnly) = EmptyGraph
  BY <1>2 DEF Of, EmptyGraph
<1> QED
  BY <1>1, <1>3, StoreOps DEF Store!StoreInit

LEMMA ServedKeptNext ==
  ASSUME SInv', Serving', \A t \in Clients : call'[t].at # "logged"
  PROVE  View' = Graph'
<1>1. Like(Data, ActiveContexts, Kept, bound)'
  BY DEF SInv, Durable, Mirror, Same, Like
<1>2. PICK f, A, K, B : f = Data' /\ A = ActiveContexts' /\ K = Kept' /\ B = bound'
  OBVIOUS
<1>3. Like(f, A, K, B)
  BY <1>1, <1>2 DEF Like
<1>4. Of(K, f) = Of(K, [live |-> A, bound |-> B])
  BY <1>3, LikeOf
<1>5. Of(Kept, Data)' = Of(Kept, Memory)'
  BY <1>2, <1>4 DEF Memory, ActiveContexts, Of
<1> QED
  BY <1>5 DEF View, Graph

LEMMA StorePut ==
  ASSUME TInv, Ending, SInv, NEW t \in Clients, Put(t)
  PROVE  Store!StoreNext \/ (View' = View /\ Graph' = Graph)
<1>1. /\ call[t].at = "enter" /\ GoesOn(t) /\ Record(t) \in Records
      /\ Serving /\ name["dat"] \in Inodes
      /\ \A u \in Clients : call[u].at # "logged"
      /\ inode' = [inode EXCEPT ![name["dat"]] = Written(@, Record(t))]
      /\ UNCHANGED <<name, main, state, bound>>
  BY PutRecord
<1>2. PICK f, r, K, L, m : /\ f = Contents("dat") /\ r = Record(t)
                           /\ K = Kept /\ L = Kept' /\ m = Memory
  OBVIOUS
<1>3. /\ f \in Files /\ f = Data /\ r \in Records /\ Data' = Written(f, r)
      /\ K \in SUBSET Contexts
  BY <1>1, <1>2, InodesAssumption DEF TInv, DiskTypes, Contents, Data, Kept
<1>4. Whole(f) /\ Same(f, ActiveContexts, bound)
  BY <1>1, <1>3 DEF SInv, Durable, Mirror
<1>5. Accepted(f, r)
  BY <1>1, <1>2, <1>3, <1>4, RecordAccepted DEF SInv
<1>6. PICK g : g = Written(f, r)
  OBVIOUS
<1>7. g.live = LiveAfter(f.live, r) /\ g.bound = BoundAfter(f.bound, r)
  BY <1>3, <1>4, <1>5, <1>6, WrittenIs DEF Whole
<1>8. /\ gone' = IF r.kind = "destroy" THEN gone \cup {r.ctx} ELSE gone
      /\ r.kind = "create" => r.ctx \in Contexts \ used
      /\ r.ctx \in Contexts
  BY <1>2, <1>3, RecordHistory DEF Records
<1>9. Memory' = m /\ Serving'
  BY <1>1, <1>2 DEF Memory, Serving
<1>10. /\ Graph = Of(K, f) /\ Graph' = Of(L, g)
       /\ View = Of(K, m) /\ View' = Of(L, m)
  BY <1>1, <1>2, <1>3, <1>6, <1>9 DEF Graph, View, Of
<1>11. View = Graph
  BY <1>1, ServedKept
<1>12. CASE r.ctx \in K
  <2>1. L = IF r.kind = "destroy" THEN K \ {r.ctx} ELSE K
    BY <1>2, <1>8 DEF Kept
  <2>2. /\ Accepted(Graph, r)
        /\ Graph' = [live |-> LiveAfter(Graph.live, r),
                     bound |-> BoundAfter(Graph.bound, r)]
        /\ r.kind = "destroy" => Graph' = Of(L, f)
    BY <1>3, <1>5, <1>7, <1>10, <1>12, <2>1, OfAfter
  <2>3. r.kind = "destroy" => View' = Graph'
    <3>1. Of(K, f) = Of(K, m) /\ L \in SUBSET K
      BY <1>10, <1>11, <2>1
    <3>2. Of(L, f) = Of(L, m)
      BY <3>1, OfFewer
    <3> QED
      BY <1>10, <2>2, <3>2
  <2>4. r.kind # "destroy" => View' = View
    BY <1>10, <2>1
  <2> QED
    BY <1>3, <1>11, <2>2, <2>3, <2>4, StoreKeep
<1>13. CASE r.ctx \notin K
  <2>1. L = K
    BY <1>2, <1>8, <1>13 DEF Kept
  <2>2. Of(K, g) = Of(K, f)
    BY <1>3, <1>7, <1>13, OfElsewhere
  <2> QED
    BY <1>10, <2>1, <2>2
<1> QED
  BY <1>12, <1>13

LEMMA StoreClient ==
  ASSUME Sheltered, TInv, Ending, SInv, SInv', NEW t \in Clients, ClientActs(t)
  PROVE  Store!StoreNext \/ (View' = View /\ Graph' = Graph)
<1>1. ~PutFails(t)
  BY DEF PutFails, Sheltered
<1>2. CASE Invoke(t) \/ Refused(t) \/ Leave(t)
  <2>1. UNCHANGED <<name, inode, used, gone, main, bound, ActiveContexts>>
    BY <1>2, DurableCall DEF SInv
  <2>2. Data' = Data /\ (Serving' <=> Serving)
    BY <2>1 DEF Data, Contents, Serving
  <2> QED
    BY <2>1, <2>2, GraphStays, ViewStays
<1>3. CASE Apply(t)
  <2>1. /\ Serving /\ \A u \in Clients : call'[u].at # "logged"
        /\ UNCHANGED <<name, inode, used, gone, main>>
    BY <1>3, ApplyAlone
  <2>2. Graph' = Graph /\ Serving'
    BY <2>1, GraphStays DEF Data, Contents, Serving
  <2>3. View' = Graph'
    BY <2>1, <2>2, ServedKeptNext
  <2>4. Graph # EmptyGraph
    BY <2>1, GraphHasRoot DEF SInv, Rooted
  <2> QED
    BY <2>2, <2>3, <2>4, StoreServe
<1>4. CASE Reap(t)
  <2>1. /\ LockFree /\ call[t].at = "reap" /\ UNCHANGED <<name, inode, used, gone, main>>
    BY <1>4 DEF Reap, disk, history
  <2>2. Serving /\ \A u \in Clients : call[u].at # "logged"
    BY <2>1, Writing
  <2>3. \A u \in Clients : call'[u].at # "logged"
    BY <1>4, <2>2, ReapDoes DEF TInv, Becomes, Clears, NoCall, Others
  <2>4. Graph' = Graph /\ Serving'
    BY <2>1, <2>2, GraphStays DEF Data, Contents, Serving
  <2>5. View = Graph /\ View' = Graph'
    BY <2>2, <2>3, <2>4, ServedKept, ServedKeptNext
  <2> QED
    BY <2>4, <2>5
<1> QED
  BY <1>1, <1>2, <1>3, <1>4, StorePut DEF ClientActs

LEMMA StoreFirst ==
  ASSUME TInv, SInv, FirstRoot PROVE Store!StoreNext
<1>1. /\ main = "first" /\ main' = "start" /\ gone = {} /\ gone' = {}
      /\ Data = HeaderOnly
      /\ Data'.live = {Root} /\ Data'.bound = HeaderOnly.bound
  BY DurableFirstRoot DEF SInv
<1>2. Kept = Contexts /\ Kept' = Contexts
  BY <1>1 DEF Kept
<1>3. /\ HeaderOnly.live = {}
      /\ HeaderOnly.bound = [c \in Contexts |-> NoBindings]
  BY DEF HeaderOnly
<1>4. Graph = EmptyGraph
  BY <1>1, <1>2, <1>3 DEF Graph, Of, EmptyGraph
<1>5. Graph' = [live |-> {Root}, bound |-> EmptyGraph.bound]
  BY <1>1, <1>2, <1>3, RootAssumption DEF Graph, Of, EmptyGraph
<1>6. View = None /\ View' = View
  BY <1>1 DEF View, Serving
<1> QED
  BY <1>4, <1>5, <1>6, StoreFound

LEMMA StoreMain ==
  ASSUME TInv, SInv, SInv', MainActs \/ UNCHANGED vars
  PROVE  Store!StoreNext \/ (View' = View /\ Graph' = Graph)
<1>1. CASE Replay
  <2>1. /\ main = "start" /\ main' = "started"
        /\ UNCHANGED <<name, inode, used, gone, call>>
    BY <1>1 DEF Replay, disk, history
  <2>2. Serving' /\ \A u \in Clients : call'[u].at # "logged"
    BY <2>1 DEF TInv, Quiescent, Serving, NoCall
  <2>3. Graph' = Graph /\ View' = Graph'
    BY <2>1, <2>2, GraphStays, ServedKeptNext DEF Data, Contents
  <2>4. Root \in used
    BY <2>1, <2>2 DEF SInv, Rooted
  <2> QED
    BY <2>3, <2>4, GraphHasRoot, StoreServe
<1>2. CASE FirstStart \/ FirstFails \/ Restart \/ ReplayDies \/ Started
  <2>1. Data' = Data
    BY <1>2, DurableStart DEF SInv
  <2>2. UNCHANGED <<state, bound, gone>> /\ (Serving' <=> Serving)
    BY <1>2 DEF FirstStart, FirstFails, Restart, ReplayDies, Started, memory, history,
       Serving
  <2> QED
    BY <2>1, <2>2, GraphStays, ViewStays DEF ActiveContexts
<1>3. CASE \/ CkpPrepare \/ CkpAbandon \/ CkpWrite \/ CkpDropBackup \/ CkpBackup
           \/ CkpDropData \/ CkpCommit \/ CkpDropCkp \/ CkpReopen \/ CkpDone
           \/ UNCHANGED vars
  <2>1. CkpCommit \/ Data' = Data
    BY <1>3, DurableCheckpoint DEF SInv
  <2>2. UNCHANGED <<state, bound, gone, call>> /\ (Serving' <=> Serving)
    BY <1>3 DEF CkpPrepare, CkpAbandon, CkpWrite, CkpDropBackup, CkpBackup, CkpDropData,
       CkpCommit, CkpDropCkp, CkpReopen, CkpDone, vars, memory, history, Serving
  <2>3. View' = View
    BY <2>2, ViewStays DEF ActiveContexts
  <2>4. CASE CkpCommit
    <3>1. Serving /\ main \in Copying
      BY <2>4 DEF CkpCommit, Serving, Copying
    <3>2. \A u \in Clients : call[u].at # "logged" /\ call'[u].at # "logged"
      BY <2>2, <3>1, CopyAlone
    <3>3. View = Graph /\ View' = Graph'
      BY <2>2, <3>1, <3>2, ServedKept, ServedKeptNext
    <3> QED
      BY <2>3, <3>3
  <2> QED
    BY <2>1, <2>2, <2>3, <2>4, GraphStays
<1> QED
  BY <1>1, <1>2, <1>3 DEF MainActs

LEMMA StoreDown ==
  ASSUME Sheltered, TInv, SInv, CkpDies \/ Crash
  PROVE  Store!StoreNext
<1>1. Data' = Data
  BY DurableDown DEF SInv
<1>2. main' = "down" /\ gone' = gone
  BY DEF CkpDies, Crash, Down, history
<1>3. View' = None
  BY <1>2 DEF View, Serving
<1> QED
  BY <1>1, <1>2, <1>3, GraphStays, StoreStop

LEMMA StoreRemoved ==
  ASSUME TInv, SInv, RemovesBackup
  PROVE  Store!StoreNext
<1>1. Data' = HeaderOnly /\ main' = "down" /\ gone' = {}
  BY DurableRemoved DEF SInv
<1>2. Always /\ main = "down" /\ name["dat"] = None
  BY DEF RemovesBackup
<1>3. HeaderOnly.live = {} /\ HeaderOnly.bound = [c \in Contexts |-> NoBindings]
  BY DEF HeaderOnly
<1>4. Kept' = Contexts
  BY <1>1 DEF Kept
<1>5. Graph' = EmptyGraph
  BY <1>1, <1>3, <1>4 DEF Graph, Of, EmptyGraph
<1>6. View = None /\ View' = View
  BY <1>1, <1>2 DEF View, Serving
<1> QED
  BY <1>2, <1>5, <1>6, StoreLose

LEMMA StoreStep ==
  ASSUME Sheltered, TInv, Ending, SInv, SInv', [Next]_vars
  PROVE  [Store!StoreNext]_(Store!storeVars)
<1>1. Store!StoreNext \/ (View' = View /\ Graph' = Graph)
  BY StepCases, StoreClient, StoreMain, StoreFirst, StoreDown, StoreRemoved
<1>2. View' = View /\ Graph' = Graph => UNCHANGED Store!storeVars
  BY DEF Store!storeVars, View, Graph
<1> QED
  BY <1>1, <1>2

(* While nobody destroys a context that others call, or the root, and no     *)
(* write of a record fails, the service with its log, its checkpoints and    *)
(* its restarts keeps the promise of NamingStore, for the contexts that were *)
(* not destroyed (log.cc:439-527, 698-844, NamingContext_i.cc:99-534).       *)
THEOREM StoreKept ==
  ASSUME Sheltered PROVE Spec => ImplementsNamingStore
<1>1. Init => TInv /\ Ending /\ SInv
  BY TInit, SInit, EndingIdle DEF Init
<1>2. TInv /\ Ending /\ SInv /\ [Next]_vars => (TInv /\ Ending /\ SInv)'
  BY TNext, EndingNext, SNext
<1>3. Init => Store!StoreInit
  BY StoreInits
<1>4. TInv /\ Ending /\ SInv /\ (TInv /\ Ending /\ SInv)' /\ [Next]_vars
        => [Store!StoreNext]_(Store!storeVars)
  BY StoreStep
<1> QED
  BY <1>1, <1>2, <1>3, <1>4, PTL DEF Spec, ImplementsNamingStore, Store!StoreSpec
=============================================================================
