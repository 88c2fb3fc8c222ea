----------------------------- MODULE NamingGraph -----------------------------
(* Naming graphs, and the redo log they are rebuilt from. A data file is     *)
(* only ever read from its first record on, one record after the other, so a *)
(* file is modelled by what reading it so far gives: the contexts that       *)
(* exist, their bindings, whether reading met a record that is not whole     *)
(* (it stops there, and keeps what it has), and whether a record was refused *)
(* by the context it names (nobody catches that: omniNames terminates).      *)
EXTENDS Naturals, FiniteSets

CONSTANTS
  Contexts,      \* object ids of naming contexts; no id is used twice in a graph
  Root,          \* the context "NameService"
  Names,         \* simple names
  Objects,       \* what is bound, apart from contexts
  None

ASSUME RootAssumption == Root \in Contexts
ASSUME NoneAssumption == None \notin Contexts \cup Objects \cup Names

Things == Objects \cup Contexts
Bindings == [Names -> Things \cup {None}]
NoBindings == [n \in Names |-> None]

Graphs == [live : SUBSET Contexts, bound : [Contexts -> Bindings]]
EmptyGraph == [live |-> {}, bound |-> [c \in Contexts |-> NoBindings]]

Files == [live : SUBSET Contexts, bound : [Contexts -> Bindings],
          torn : BOOLEAN, refused : BOOLEAN]

\* A file that says no more than its port and persistent identifier.
HeaderOnly == [live |-> {}, bound |-> [c \in Contexts |-> NoBindings],
               torn |-> FALSE, refused |-> FALSE]

Records ==
  [kind : {"create", "destroy"}, ctx : Contexts]
    \cup [kind : {"bind"}, ctx : Contexts, name : Names, thing : Things]
    \cup [kind : {"unbind"}, ctx : Contexts, name : Names]

\* Whether the context carries the record out when it is read: getCreate
\* activates an id, getDestroy, getBind (always a rebind) and getUnbind call
\* the operation, which raises OBJECT_NOT_EXIST for a context that is gone.
Accepted(f, r) ==
  \/ r.kind = "create" /\ r.ctx \notin f.live
  \/ r.kind = "destroy" /\ r.ctx \in f.live /\ f.bound[r.ctx] = NoBindings
  \/ r.kind = "bind" /\ r.ctx \in f.live
  \/ r.kind = "unbind" /\ r.ctx \in f.live /\ f.bound[r.ctx][r.name] # None

LiveAfter(live, r) ==
  CASE r.kind = "create" -> live \cup {r.ctx}
    [] r.kind = "destroy" -> live \ {r.ctx}
    [] OTHER -> live

BoundAfter(bound, r) ==
  CASE r.kind = "bind" -> [bound EXCEPT ![r.ctx][r.name] = r.thing]
    [] r.kind = "unbind" -> [bound EXCEPT ![r.ctx][r.name] = None]
    [] OTHER -> bound

\* A whole record at the end of a file. After a torn record nothing is read.
Written(f, r) ==
  IF f.torn \/ f.refused THEN f
  ELSE IF Accepted(f, r)
       THEN [f EXCEPT !.live = LiveAfter(@, r), !.bound = BoundAfter(@, r)]
       ELSE [f EXCEPT !.refused = TRUE]

\* Part of a record at the end of a file.
Torn(f) == IF f.refused THEN f ELSE [f EXCEPT !.torn = TRUE]

\* init() gets to the end: no record is refused, and there is a head context
\* to take the root reference from.
Startable(f) == ~f.refused /\ f.live # {}

\* What a file or a graph says of the contexts of C.
Of(C, g) == [live |-> g.live \cap C,
             bound |-> [c \in Contexts |-> IF c \in C THEN g.bound[c] ELSE NoBindings]]
=============================================================================
