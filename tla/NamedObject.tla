------------------------------ MODULE NamedObject ------------------------------
(***************************************************************************)
(* The life cycle of the objects behind the wrappers of one class          *)
(* (object.hpp): constructors that open an object by its name, which other *)
(* contexts share, or create one without a name; the destructor, which     *)
(* closes or deletes; unlink; and the implicit copy of a wrapper.          *)
(*                                                                         *)
(* A wrapper is the only one of its program, which a `throw;' of its       *)
(* constructor ends.  The identifier of an object that has gone may be     *)
(* that of a later one.                                                    *)
(***************************************************************************)
EXTENDS Naturals, FiniteSets

CONSTANTS
  Wrappers, Names, NoName,
  Ids, NoId,   \* identifiers of objects: a bound on those that live at a time
  Classes,     \* which of the classes
  Modes,       \* modes handed to constructors
  Copiers      \* wrappers that may be copied

ASSUME NamedObjectAssumption ==
  /\ IsFiniteSet(Wrappers)
  /\ NoName \notin Names /\ NoId \notin Ids
  /\ \A m \in Modes : m \subseteq {"OM_CREATE", "OM_EXCL", "OM_DESTROY_ON_LAST_CALL"}
  /\ Copiers \subseteq Wrappers

VARIABLES
  class,   \* the class of the wrappers
  live,    \* the objects there are
  kernel,  \* kernel[i]: what the kernel keeps of object i: its name, how often
           \* it is open, and whether the last close destroys it
  this,    \* this[w]: the state of wrapper w, its members named and id, and the
           \* name it was constructed with
  copied,  \* identifiers of which a wrapper was copied
  stale    \* wrappers whose name was unlinked since they opened it

vars == <<class, live, kernel, this, copied, stale>>

NoWrapper == [state |-> "none", named |-> FALSE, id |-> NoId, name |-> NoName]
NoObject  == [opens |-> 0, name |-> NoName, last |-> FALSE]

Open(w) == this[w].state = "open"

Constructs(w, c) ==
  /\ class = c /\ this[w].state = "none"
  /\ UNCHANGED <<class, copied, stale>>

\* w has been constructed with object i; a named one has a name n.
Constructed(w, i, n) ==
  this' = [this EXCEPT ![w] =
             [state |-> "open", named |-> n # NoName, id |-> i, name |-> n]]

-------------------------------------------------------------------------------
(***************************************************************************)
(* The kernel (external).                                                  *)
(***************************************************************************)
Linked(n) == {i \in live : kernel[i].name = n}

\* semMCreate and the like; and an open that creates.
Create(w, n, o) ==
  \E i \in Ids \ live :
    /\ live' = live \cup {i}
    /\ kernel' = [kernel EXCEPT ![i] = o]
    /\ Constructed(w, i, n)

\* semOpen, condVarOpen, msgQOpen; a NULL identifier ends the program.
OpenByName(w, n, mode) ==
  \/ \E i \in Linked(n) :
       /\ ~({"OM_CREATE", "OM_EXCL"} \subseteq mode)
       /\ kernel' = [kernel EXCEPT ![i].opens = @ + 1]
       /\ Constructed(w, i, n)
       /\ UNCHANGED live
  \/ /\ Linked(n) = {} /\ "OM_CREATE" \in mode
     /\ Create(w, n, [opens |-> 1, name |-> n,
                      last |-> "OM_DESTROY_ON_LAST_CALL" \in mode])
  \/ /\ IF Linked(n) = {} THEN "OM_CREATE" \notin mode
                          ELSE {"OM_CREATE", "OM_EXCL"} \subseteq mode
     /\ this' = [this EXCEPT ![w] = [NoWrapper EXCEPT !.state = "dead"]]
     /\ UNCHANGED <<live, kernel>>

Delete(i) ==
  /\ live' = live \ {i}
  /\ kernel' = [kernel EXCEPT ![i] = NoObject]

\* The last close destroys an object that has no name any more, or that was
\* created so; a close of what has gone, or was never opened, fails.
Close(i) ==
  IF i \notin live \/ kernel[i].opens = 0 THEN UNCHANGED <<live, kernel>>
  ELSE IF kernel[i].opens = 1 /\ (kernel[i].last \/ kernel[i].name = NoName)
  THEN Delete(i)
  ELSE /\ kernel' = [kernel EXCEPT ![i].opens = @ - 1]
       /\ UNCHANGED live

-------------------------------------------------------------------------------
\* named = true, then the open.
Named(w, c, n, mode) == Constructs(w, c) /\ OpenByName(w, n, mode)

\* The constructors without a name.
Unnamed(w) ==
  /\ \E c \in Classes : Constructs(w, c)
  /\ Create(w, NoName, NoObject)

\* The constructors with a name alone open with mode 0, and so do those with
\* options, which the kernel ignores when it opens.
mutexCommon_open(w, n)        == Named(w, "mutexCommon", n, {})
shared_mutex_open(w, n)       == Named(w, "shared_mutex", n, {})
counting_semaphore_open(w, n) == Named(w, "counting_semaphore", n, {})
binary_semaphore_open(w, n)   == Named(w, "binary_semaphore", n, {})
condvar_open(w, n)            == Named(w, "condition_variable", n, {})
msgQ_open(w, n)               == Named(w, "msgQ", n, {})
queue_open(w, n)              == Named(w, "queue", n, {})
mutexCommon_options(w, n)        == Named(w, "mutexCommon", n, {})
shared_mutex_options(w, n)       == Named(w, "shared_mutex", n, {})
counting_semaphore_options(w, n) == Named(w, "counting_semaphore", n, {})
binary_semaphore_options(w, n)   == Named(w, "binary_semaphore", n, {})

\* Those with a mode, and those of the queues with a size and no mode.
mutexCommon_mode(w, n, m)        == Named(w, "mutexCommon", n, m)
shared_mutex_mode(w, n, m)       == Named(w, "shared_mutex", n, m)
counting_semaphore_mode(w, n, m) == Named(w, "counting_semaphore", n, m)
binary_semaphore_mode(w, n, m)   == Named(w, "binary_semaphore", n, m)
condvar_mode(w, n, m)            == Named(w, "condition_variable", n, m)
condvar_context(w, n, m)         == Named(w, "condition_variable", n, m)
msgQ_mode(w, n, m)               == Named(w, "msgQ", n, m)
queue_mode(w, n, m)              == Named(w, "queue", n, m)

default_mode == {"OM_DESTROY_ON_LAST_CALL", "OM_CREATE"}
msgQ_create(w, n)  == Named(w, "msgQ", n, default_mode)
queue_create(w, n) == Named(w, "queue", n, default_mode)

-------------------------------------------------------------------------------
Destroys(w) ==
  /\ Open(w)
  /\ this' = [this EXCEPT ![w] = NoWrapper]
  /\ stale' = stale \ {w}
  /\ UNCHANGED <<class, copied>>

\* Slips: the destructor deletes whether named or not, or closes.
dtor_Deletes(w) == Destroys(w) /\ Delete(this[w].id)
dtor_Closes(w)  == Destroys(w) /\ Close(this[w].id)

dtor(w) ==
  /\ Destroys(w)
  /\ IF this[w].named THEN Close(this[w].id) ELSE Delete(this[w].id)

\* Only message queues have it.
unlink(n) ==
  /\ class \in {"msgQ", "queue"}
  /\ \E i \in Linked(n) :
       IF kernel[i].opens = 0 THEN Delete(i)
       ELSE /\ kernel' = [kernel EXCEPT ![i].name = NoName]
            /\ UNCHANGED live
  /\ stale' = stale \cup {w \in Wrappers : Open(w) /\ this[w].name = n}
  /\ UNCHANGED <<class, this, copied>>

\* The implicit copy constructor copies named and id.
copy(v, w) ==
  /\ v \in Copiers /\ Open(v) /\ this[w].state = "none"
  /\ this' = [this EXCEPT ![w] = this[v]]
  /\ copied' = copied \cup {this[v].id}
  /\ UNCHANGED <<class, live, kernel, stale>>

-------------------------------------------------------------------------------
Init ==
  /\ class \in Classes
  /\ live = {} /\ kernel = [i \in Ids |-> NoObject]
  /\ this = [w \in Wrappers |-> NoWrapper]
  /\ copied = {} /\ stale = {}

NamedStep(w, n) ==
  \/ mutexCommon_open(w, n) \/ shared_mutex_open(w, n)
  \/ counting_semaphore_open(w, n) \/ binary_semaphore_open(w, n)
  \/ condvar_open(w, n) \/ msgQ_open(w, n) \/ queue_open(w, n)
  \/ mutexCommon_options(w, n) \/ shared_mutex_options(w, n)
  \/ counting_semaphore_options(w, n) \/ binary_semaphore_options(w, n)
  \/ msgQ_create(w, n) \/ queue_create(w, n)
  \/ \E m \in Modes :
       \/ mutexCommon_mode(w, n, m) \/ shared_mutex_mode(w, n, m)
       \/ counting_semaphore_mode(w, n, m) \/ binary_semaphore_mode(w, n, m)
       \/ condvar_mode(w, n, m) \/ condvar_context(w, n, m)
       \/ msgQ_mode(w, n, m) \/ queue_mode(w, n, m)

Next ==
  \/ \E w \in Wrappers :
       \/ \E n \in Names : NamedStep(w, n)
       \/ Unnamed(w) \/ dtor(w)
       \/ \E v \in Wrappers : copy(v, w)
  \/ \E n \in Names : unlink(n)

Spec == Init /\ [][Next]_vars

-------------------------------------------------------------------------------
Wrapper == [state : {"none", "open", "dead"}, named : BOOLEAN,
            id : Ids \cup {NoId}, name : Names \cup {NoName}]
Object  == [opens : Nat, name : Names \cup {NoName}, last : BOOLEAN]

\* The types of the variables.
TypeOK ==
  /\ class \in Classes
  /\ live \subseteq Ids
  /\ kernel \in [Ids -> Object]
  /\ this \in [Wrappers -> Wrapper]
  /\ \A w \in Wrappers : Open(w) => this[w].id \in Ids
  /\ copied \subseteq Ids /\ stale \subseteq Wrappers

\* As long as no wrapper of it was copied, an object outlives every wrapper that
\* has it open, whatever other contexts close, delete, unlink or create anew.
NoDangling ==
  \A w \in Wrappers :
    Open(w) /\ this[w].id \notin copied => this[w].id \in live

\* An object that nobody has open is there only because it can be opened again
\* by its name, and was not to be destroyed by the last close.
NoLeak ==
  \A i \in live \ copied :
    \/ \E w \in Wrappers : Open(w) /\ this[w].id = i
    \/ kernel[i].name # NoName /\ ~kernel[i].last

\* Whoever has opened a name that was not unlinked since shares one object with
\* all others who have.
SharedByName ==
  \A v, w \in Wrappers :
    /\ Open(v) /\ Open(w) /\ {v, w} \cap stale = {}
    /\ {this[v].id, this[w].id} \cap copied = {}
    /\ this[v].name = this[w].name /\ this[v].name # NoName
    => this[v].id = this[w].id
===============================================================================
