--------------------------- MODULE NamedObjectProofs ---------------------------
(***************************************************************************)
(* Proofs about NamedObject, for any wrappers, names, identifiers, modes   *)
(* and classes.  IInv is the inductive invariant: the kernel counts the    *)
(* named wrappers of an object, an unnamed wrapper is the only one of its  *)
(* object, and a name is linked to one object.                             *)
(***************************************************************************)
EXTENDS NamedObject, FiniteSetTheorems, TLAPS

\* The wrappers that have object i open by its name.
Openers(i) == {w \in Wrappers : Open(w) /\ this[w].named /\ this[w].id = i}

\* named says that the wrapper was constructed with a name.
NamedByName ==
  \A w \in Wrappers : Open(w) => (this[w].named <=> this[w].name # NoName)

\* The object of an unnamed wrapper has no name and no other wrapper.
SoleWrapper ==
  \A w \in Wrappers :
    Open(w) /\ ~this[w].named /\ this[w].id \notin copied =>
      /\ kernel[this[w].id].name = NoName
      /\ \A v \in Wrappers : Open(v) /\ this[v].id = this[w].id => v = w

\* A name that was not unlinked is the name of the object.
NameKept ==
  \A w \in Wrappers :
    Open(w) /\ this[w].named /\ this[w].id \notin copied /\ w \notin stale =>
      kernel[this[w].id].name = this[w].name

\* The kernel's count of an object is the number of its named wrappers.
OpensCounted ==
  \A i \in live \ copied : kernel[i].opens = Cardinality(Openers(i))

\* A name is linked to one object.
LinkedOnce ==
  \A i, j \in live :
    kernel[i].name = kernel[j].name /\ kernel[i].name # NoName => i = j

IInv ==
  /\ TypeOK /\ NoDangling /\ NoLeak /\ NamedByName /\ SoleWrapper /\ NameKept
  /\ OpensCounted /\ LinkedOnce

-------------------------------------------------------------------------------
\* There are finitely many named wrappers of an object, and none of them means
\* that nobody has it open by its name.
LEMMA OpenersFinite ==
  ASSUME NEW i
  PROVE  /\ IsFiniteSet(Openers(i)) /\ Cardinality(Openers(i)) \in Nat
         /\ Cardinality(Openers(i)) = 0 <=> Openers(i) = {}
<1>1. Openers(i) \subseteq Wrappers /\ IsFiniteSet(Wrappers)
  BY NamedObjectAssumption DEF Openers
<1>2. IsFiniteSet(Openers(i))
  BY <1>1, FS_Subset
<1> QED
  BY <1>2, FS_CardinalityType, FS_EmptySet

\* What is known of the wrappers when w has been changed to r.
LEMMA ThisChanged ==
  ASSUME TypeOK, NEW w \in Wrappers, NEW r \in Wrapper,
         r.state = "open" => r.id \in Ids,
         this' = [this EXCEPT ![w] = r]
  PROVE  /\ this' \in [Wrappers -> Wrapper]
         /\ \A v \in Wrappers : Open(v)' => this'[v].id \in Ids
         /\ this'[w] = r /\ (Open(w)' <=> r.state = "open")
         /\ \A v \in Wrappers \ {w} : (Open(v)' <=> Open(v)) /\ this'[v] = this[v]
<1>1. this \in [Wrappers -> Wrapper]
  BY DEF TypeOK
<1>2. \A v \in Wrappers : this'[v] = IF v = w THEN r ELSE this[v]
  BY <1>1
<1> QED
  BY <1>1, <1>2 DEF TypeOK, Open

\* What is known of the wrappers when w has been constructed.
LEMMA ThisConstructed ==
  ASSUME TypeOK, NEW w \in Wrappers, NEW i \in Ids, NEW n \in Names \cup {NoName},
         this[w].state = "none", Constructed(w, i, n)
  PROVE  /\ this' \in [Wrappers -> Wrapper]
         /\ \A v \in Wrappers : Open(v)' => this'[v].id \in Ids
         /\ ~Open(w) /\ Open(w)'
         /\ this'[w].id = i /\ this'[w].name = n
         /\ this'[w].named <=> n # NoName
         /\ \A v \in Wrappers \ {w} : (Open(v)' <=> Open(v)) /\ this'[v] = this[v]
<1> DEFINE r == [state |-> "open", named |-> n # NoName, id |-> i, name |-> n]
<1>1. /\ r \in Wrapper /\ r.state = "open" /\ r.id = i /\ r.name = n
      /\ r.named <=> n # NoName
  BY DEF Wrapper
<1>2. this' = [this EXCEPT ![w] = r]
  BY DEF Constructed
<1> HIDE DEF r
<1> QED
  BY <1>1, <1>2, ThisChanged DEF Open

\* The invariant holds before anything is constructed.
LEMMA InitIInv == Init => IInv
<1> HAVE Init
<1>1. /\ class \in Classes /\ live = {} /\ copied = {} /\ stale = {}
      /\ kernel = [i \in Ids |-> NoObject] /\ this = [w \in Wrappers |-> NoWrapper]
  BY DEF Init
<1>2. \A w \in Wrappers : ~Open(w)
  BY <1>1 DEF Open, NoWrapper
<1>3. TypeOK
  BY <1>1, <1>2 DEF TypeOK, Wrapper, Object, NoWrapper, NoObject
<1> QED
  BY <1>1, <1>2, <1>3
  DEF IInv, NoDangling, NoLeak, NamedByName, SoleWrapper, NameKept, OpensCounted,
      LinkedOnce

-------------------------------------------------------------------------------
(***************************************************************************)
(* Constructors.                                                           *)
(***************************************************************************)
\* w is constructed with an object that is there.
LEMMA OpensIInv ==
  ASSUME IInv, NEW w \in Wrappers, NEW n \in Names, NEW i \in Linked(n),
         this[w].state = "none", Constructed(w, i, n),
         kernel' = [kernel EXCEPT ![i].opens = @ + 1],
         UNCHANGED <<class, live, copied, stale>>
  PROVE  IInv'
<1>1. i \in live /\ i \in Ids /\ kernel[i].name = n /\ n # NoName
  BY NamedObjectAssumption DEF Linked, IInv, TypeOK
<1>2. /\ this' \in [Wrappers -> Wrapper]
      /\ \A v \in Wrappers : Open(v)' => this'[v].id \in Ids
      /\ ~Open(w) /\ Open(w)'
      /\ this'[w].id = i /\ this'[w].name = n /\ this'[w].named
      /\ \A v \in Wrappers \ {w} : (Open(v)' <=> Open(v)) /\ this'[v] = this[v]
  BY <1>1, ThisConstructed DEF IInv
<1>4. kernel \in [Ids -> Object]
  BY DEF IInv, TypeOK
<1>6. \A j \in Ids : /\ kernel'[j].name = kernel[j].name
                     /\ kernel'[j].last = kernel[j].last
                     /\ kernel'[j].opens = IF j = i THEN kernel[j].opens + 1
                                           ELSE kernel[j].opens
  BY <1>1, <1>4 DEF Object
<1>7. TypeOK'
  <2>1. kernel' \in [Ids -> Object]
    BY <1>1, <1>4 DEF Object
  <2> QED
    BY <1>2, <2>1 DEF IInv, TypeOK
<1>9. live \subseteq Ids
  BY DEF IInv, TypeOK
<1>10. NoDangling' /\ NamedByName'
  BY <1>1, <1>2 DEF IInv, NoDangling, NamedByName
<1>11. NoLeak'
  BY <1>6, <1>2, <1>9 DEF IInv, NoLeak
<1>12. SoleWrapper'
  <2> SUFFICES ASSUME NEW u \in Wrappers, Open(u)', ~this'[u].named,
                      this'[u].id \notin copied
               PROVE  /\ kernel'[this'[u].id].name = NoName
                      /\ \A v \in Wrappers :
                           Open(v)' /\ this'[v].id = this'[u].id => v = u
    BY DEF SoleWrapper
  <2>1. u # w /\ Open(u) /\ this'[u] = this[u]
    BY <1>2
  <2>2. /\ kernel[this[u].id].name = NoName /\ this[u].id \in Ids
        /\ \A v \in Wrappers : Open(v) /\ this[v].id = this[u].id => v = u
    BY <2>1 DEF IInv, SoleWrapper, TypeOK
  <2>3. this[u].id # i
    BY <1>1, <2>2
  <2> QED
    BY <1>6, <1>2, <2>1, <2>2, <2>3
<1>13. NameKept'
  BY <1>1, <1>6, <1>2 DEF IInv, NameKept, TypeOK
<1>14. OpensCounted'
  <2> SUFFICES ASSUME NEW j \in live \ copied
               PROVE  kernel'[j].opens = Cardinality(Openers(j)')
    BY DEF OpensCounted
  <2>1. kernel[j].opens = Cardinality(Openers(j)) /\ j \in Ids
    BY <1>9 DEF IInv, OpensCounted
  <2>2. CASE j = i
    <3>1. Openers(j)' = Openers(j) \cup {w} /\ w \notin Openers(j)
      BY <1>2, <2>2 DEF Openers
    <3> QED
      BY <1>6, <2>1, <2>2, <3>1, OpenersFinite, FS_AddElement
  <2>3. CASE j # i
    <3>1. Openers(j)' = Openers(j)
      BY <1>2, <2>3 DEF Openers
    <3> QED
      BY <1>6, <2>1, <2>3, <3>1
  <2> QED
    BY <2>2, <2>3
<1>15. LinkedOnce'
  BY <1>6, <1>9 DEF IInv, LinkedOnce
<1> QED
  BY <1>7, <1>10, <1>11, <1>12, <1>13, <1>14, <1>15 DEF IInv

\* w is constructed with an object that is made for it.
LEMMA CreatesIInv ==
  ASSUME IInv, NEW w \in Wrappers, NEW n \in Names \cup {NoName}, NEW o \in Object,
         this[w].state = "none", Create(w, n, o), n # NoName => Linked(n) = {},
         o.name = n, o.opens = IF n = NoName THEN 0 ELSE 1,
         UNCHANGED <<class, copied, stale>>
  PROVE  IInv'
<1>1. PICK i \in Ids \ live : /\ live' = live \cup {i}
                              /\ kernel' = [kernel EXCEPT ![i] = o]
                              /\ Constructed(w, i, n)
  BY DEF Create
<1>2. /\ this' \in [Wrappers -> Wrapper]
      /\ \A v \in Wrappers : Open(v)' => this'[v].id \in Ids
      /\ ~Open(w) /\ Open(w)'
      /\ this'[w].id = i /\ this'[w].name = n
      /\ this'[w].named <=> n # NoName
      /\ \A v \in Wrappers \ {w} : (Open(v)' <=> Open(v)) /\ this'[v] = this[v]
  BY <1>1, ThisConstructed DEF IInv
<1>3. kernel \in [Ids -> Object] /\ live \subseteq Ids
  BY DEF IInv, TypeOK
<1>4. /\ kernel' \in [Ids -> Object] /\ kernel'[i] = o
      /\ \A j \in Ids \ {i} : kernel'[j] = kernel[j]
  BY <1>1, <1>3
<1>5. i \notin copied => \A v \in Wrappers : Open(v) => this[v].id # i
  BY <1>1 DEF IInv, NoDangling
<1>6. TypeOK'
  BY <1>1, <1>2, <1>3, <1>4 DEF IInv, TypeOK
<1>7. NoDangling' /\ NamedByName'
  BY <1>1, <1>2 DEF IInv, NoDangling, NamedByName
<1>8. NoLeak'
  BY <1>1, <1>2, <1>3, <1>4 DEF IInv, NoLeak
<1>9. SoleWrapper'
  <2> SUFFICES ASSUME NEW u \in Wrappers, Open(u)', ~this'[u].named,
                      this'[u].id \notin copied
               PROVE  /\ kernel'[this'[u].id].name = NoName
                      /\ \A v \in Wrappers :
                           Open(v)' /\ this'[v].id = this'[u].id => v = u
    BY DEF SoleWrapper
  <2>1. CASE u = w
    BY <1>2, <1>4, <1>5, <2>1
  <2>2. CASE u # w
    <3>1. Open(u) /\ this'[u] = this[u] /\ this[u].id \in Ids
      BY <1>2, <2>2 DEF IInv, TypeOK
    <3>2. /\ kernel[this[u].id].name = NoName
          /\ \A v \in Wrappers : Open(v) /\ this[v].id = this[u].id => v = u
      BY <3>1 DEF IInv, SoleWrapper
    <3>3. this[u].id # i
      BY <1>5, <3>1
    <3> QED
      BY <1>2, <1>4, <3>1, <3>2, <3>3
  <2> QED
    BY <2>1, <2>2
<1>10. NameKept'
  <2> SUFFICES ASSUME NEW u \in Wrappers, Open(u)', this'[u].named,
                      this'[u].id \notin copied, u \notin stale
               PROVE  kernel'[this'[u].id].name = this'[u].name
    BY DEF NameKept
  <2>1. CASE u = w
    BY <1>2, <1>4, <2>1
  <2>2. CASE u # w
    BY <1>2, <1>4, <1>5, <2>2 DEF IInv, NameKept, TypeOK
  <2> QED
    BY <2>1, <2>2
<1>11. OpensCounted'
  <2> SUFFICES ASSUME NEW j \in live' \ copied
               PROVE  kernel'[j].opens = Cardinality(Openers(j)')
    BY DEF OpensCounted
  <2>1. CASE j = i
    <3>1. Openers(j)' = IF n = NoName THEN {} ELSE {w}
      BY <1>2, <1>5, <2>1 DEF Openers
    <3> QED
      BY <1>4, <2>1, <3>1, FS_EmptySet, FS_Singleton
  <2>2. CASE j # i
    <3>1. Openers(j)' = Openers(j)
      BY <1>2, <2>2 DEF Openers
    <3> QED
      BY <1>1, <1>3, <1>4, <2>2, <3>1 DEF IInv, OpensCounted
  <2> QED
    BY <2>1, <2>2
<1>12. LinkedOnce'
  <2>1. \A j \in live : n # NoName => kernel[j].name # n
    BY DEF Linked
  <2> QED
    BY <1>1, <1>3, <1>4, <2>1 DEF IInv, LinkedOnce
<1> QED
  BY <1>6, <1>7, <1>8, <1>9, <1>10, <1>11, <1>12 DEF IInv

\* A constructor of any class, with or without a name, ended by `throw;' or not.
LEMMA NamedIInv ==
  ASSUME IInv, NEW w \in Wrappers, NEW c, NEW n \in Names,
         NEW m, Named(w, c, n, m)
  PROVE  IInv'
<1> USE DEF Named, Constructs
<1>1. n # NoName
  BY NamedObjectAssumption
<1>2. CASE \E i \in Linked(n) :
             /\ kernel' = [kernel EXCEPT ![i].opens = @ + 1]
             /\ Constructed(w, i, n) /\ UNCHANGED live
  BY <1>2, OpensIInv
<1>3. CASE /\ Linked(n) = {}
           /\ Create(w, n, [opens |-> 1, name |-> n,
                            last |-> "OM_DESTROY_ON_LAST_CALL" \in m])
  <2> DEFINE o == [opens |-> 1, name |-> n, last |-> "OM_DESTROY_ON_LAST_CALL" \in m]
  <2>1. o \in Object /\ o.name = n /\ o.opens = 1
    BY DEF Object
  <2>2. Create(w, n, o)
    BY <1>3
  <2> HIDE DEF o
  <2> QED
    BY <1>1, <1>3, <2>1, <2>2, CreatesIInv
<1>4. CASE /\ this' = [this EXCEPT ![w] = [NoWrapper EXCEPT !.state = "dead"]]
           /\ UNCHANGED <<live, kernel>>
  <2> DEFINE r == [NoWrapper EXCEPT !.state = "dead"]
  <2>1. r \in Wrapper /\ r.state = "dead"
    BY DEF NoWrapper, Wrapper
  <2> HIDE DEF r
  <2>2. /\ this' \in [Wrappers -> Wrapper]
        /\ \A v \in Wrappers : Open(v)' => this'[v].id \in Ids
        /\ ~Open(w)' /\ ~Open(w)
        /\ \A v \in Wrappers \ {w} : (Open(v)' <=> Open(v)) /\ this'[v] = this[v]
    BY <1>4, <2>1, ThisChanged DEF IInv, Open, r
  <2>3. \A i : Openers(i)' = Openers(i)
    BY <2>2 DEF Openers
  <2> QED
    BY <1>4, <2>2, <2>3
    DEF IInv, TypeOK, NoDangling, NoLeak, NamedByName, SoleWrapper, NameKept,
        OpensCounted, LinkedOnce
<1> QED
  BY <1>2, <1>3, <1>4 DEF OpenByName

\* A constructor without a name.
LEMMA UnnamedIInv ==
  ASSUME IInv, NEW w \in Wrappers, Unnamed(w)
  PROVE  IInv'
<1>1. NoObject \in Object /\ NoObject.name = NoName /\ NoObject.opens = 0
  BY DEF NoObject, Object
<1>2. /\ this[w].state = "none" /\ Create(w, NoName, NoObject)
      /\ UNCHANGED <<class, copied, stale>>
  BY DEF Unnamed, Constructs
<1> QED
  BY <1>1, <1>2, CreatesIInv

-------------------------------------------------------------------------------
(***************************************************************************)
(* Destructors.                                                            *)
(***************************************************************************)
\* What is known of the wrappers when w has been destroyed.
LEMMA ThisDestroyed ==
  ASSUME IInv, NEW w \in Wrappers, Destroys(w)
  PROVE  /\ this' \in [Wrappers -> Wrapper] /\ this[w].id \in Ids
         /\ \A v \in Wrappers : Open(v)' => this'[v].id \in Ids
         /\ Open(w) /\ ~Open(w)'
         /\ \A v \in Wrappers \ {w} : (Open(v)' <=> Open(v)) /\ this'[v] = this[v]
         /\ NamedByName'
<1>1. NoWrapper \in Wrapper /\ NoWrapper.state = "none"
  BY DEF NoWrapper, Wrapper
<1>2. this' = [this EXCEPT ![w] = NoWrapper] /\ Open(w)
  BY DEF Destroys
<1>3. /\ this' \in [Wrappers -> Wrapper] /\ ~Open(w)'
      /\ \A v \in Wrappers : Open(v)' => this'[v].id \in Ids
      /\ \A v \in Wrappers \ {w} : (Open(v)' <=> Open(v)) /\ this'[v] = this[v]
  BY <1>1, <1>2, ThisChanged DEF IInv
<1> QED
  BY <1>2, <1>3 DEF IInv, TypeOK, NamedByName

\* The object goes with its last wrapper, or was that of a copied one.
LEMMA LastDestroyedIInv ==
  ASSUME IInv, NEW w \in Wrappers, Destroys(w), Delete(this[w].id),
         \/ this[w].id \in copied
         \/ \A v \in Wrappers : Open(v) /\ this[v].id = this[w].id => v = w
  PROVE  IInv'
<1> DEFINE i == this[w].id
<1>1. /\ this' \in [Wrappers -> Wrapper] /\ i \in Ids
      /\ \A v \in Wrappers : Open(v)' => this'[v].id \in Ids
      /\ Open(w) /\ ~Open(w)'
      /\ \A v \in Wrappers \ {w} : (Open(v)' <=> Open(v)) /\ this'[v] = this[v]
      /\ NamedByName'
  BY ThisDestroyed
<1>2. class' = class /\ copied' = copied /\ stale' = stale \ {w}
  BY DEF Destroys
<1>3. kernel \in [Ids -> Object] /\ live \subseteq Ids
  BY DEF IInv, TypeOK
<1>4. /\ live' = live \ {i} /\ kernel' \in [Ids -> Object]
      /\ \A j \in Ids \ {i} : kernel'[j] = kernel[j]
  <2>1. NoObject \in Object
    BY DEF NoObject, Object
  <2> QED
    BY <1>1, <1>3, <2>1 DEF Delete
<1>5. \A v \in Wrappers : Open(v)' /\ this'[v].id \notin copied =>
        v # w /\ Open(v) /\ this'[v] = this[v] /\ this[v].id \in Ids \ {i}
  BY <1>1
<1> HIDE DEF i
<1>6. TypeOK'
  BY <1>1, <1>2, <1>4 DEF IInv, TypeOK
<1>7. NoDangling' /\ NoLeak'
  <2>1. NoDangling'
    BY <1>2, <1>4, <1>5 DEF IInv, NoDangling
  <2>2. NoLeak'
    BY <1>1, <1>2, <1>3, <1>4 DEF IInv, NoLeak, i
  <2> QED
    BY <2>1, <2>2
<1>8. SoleWrapper'
  BY <1>1, <1>2, <1>4, <1>5 DEF IInv, SoleWrapper
<1>9. NameKept'
  BY <1>1, <1>2, <1>4, <1>5 DEF IInv, NameKept
<1>10. OpensCounted'
  <2>1. ASSUME NEW j \in live' \ copied
        PROVE  Openers(j)' = Openers(j)
    BY <1>1, <1>4 DEF Openers, i
  <2> QED
    BY <1>2, <1>3, <1>4, <2>1 DEF IInv, OpensCounted
<1>11. LinkedOnce'
  BY <1>3, <1>4 DEF IInv, LinkedOnce
<1> QED
  BY <1>1, <1>6, <1>7, <1>8, <1>9, <1>10, <1>11 DEF IInv

\* The object is closed once and stays.
LEMMA ClosedIInv ==
  ASSUME IInv, NEW w \in Wrappers, Destroys(w), this[w].named,
         this[w].id \in live, kernel[this[w].id].opens # 0,
         \/ kernel[this[w].id].opens # 1
         \/ ~kernel[this[w].id].last /\ kernel[this[w].id].name # NoName,
         kernel' = [kernel EXCEPT ![this[w].id].opens = @ - 1],
         UNCHANGED live
  PROVE  IInv'
<1> DEFINE i == this[w].id
<1>1. /\ this' \in [Wrappers -> Wrapper] /\ i \in Ids
      /\ \A v \in Wrappers : Open(v)' => this'[v].id \in Ids
      /\ Open(w) /\ ~Open(w)'
      /\ \A v \in Wrappers \ {w} : (Open(v)' <=> Open(v)) /\ this'[v] = this[v]
      /\ NamedByName'
  BY ThisDestroyed
<1>2. class' = class /\ copied' = copied /\ stale' = stale \ {w}
  BY DEF Destroys
<1>3. kernel \in [Ids -> Object] /\ live \subseteq Ids
  BY DEF IInv, TypeOK
<1>4. /\ kernel' \in [Ids -> Object]
      /\ \A j \in Ids : /\ kernel'[j].name = kernel[j].name
                        /\ kernel'[j].last = kernel[j].last
                        /\ kernel'[j].opens = IF j = i THEN kernel[j].opens - 1
                                              ELSE kernel[j].opens
  BY <1>1, <1>3 DEF Object
<1>5. TypeOK'
  BY <1>1, <1>2, <1>4 DEF IInv, TypeOK
<1>6. NoDangling'
  BY <1>1, <1>2 DEF IInv, NoDangling
<1>7. OpensCounted'
  <2> SUFFICES ASSUME NEW j \in live \ copied
               PROVE  kernel'[j].opens = Cardinality(Openers(j)')
    BY <1>2 DEF OpensCounted
  <2>1. kernel[j].opens = Cardinality(Openers(j)) /\ j \in Ids
    BY <1>3 DEF IInv, OpensCounted
  <2>2. CASE j = i
    <3>1. Openers(j)' = Openers(j) \ {w} /\ w \in Openers(j)
      BY <1>1, <2>2 DEF Openers
    <3>2. Cardinality(Openers(j)') = Cardinality(Openers(j)) - 1
      BY <3>1, OpenersFinite, FS_RemoveElement
    <3> QED
      BY <1>4, <2>1, <2>2, <3>2
  <2>3. CASE j # i
    <3>1. Openers(j)' = Openers(j)
      BY <1>1, <2>3 DEF Openers
    <3> QED
      BY <1>4, <2>1, <2>3, <3>1
  <2> QED
    BY <2>2, <2>3
<1>8. NoLeak'
  <2> SUFFICES ASSUME NEW j \in live \ copied
               PROVE  \/ \E v \in Wrappers : Open(v)' /\ this'[v].id = j
                      \/ kernel'[j].name # NoName /\ ~kernel'[j].last
    BY <1>2 DEF NoLeak
  <2>1. CASE j = i /\ kernel[i].opens # 1
    <3>1. kernel[i].opens \in Nat
      BY <1>1, <1>3 DEF Object
    <3>2. kernel'[j].opens # 0
      BY <1>1, <1>4, <2>1, <3>1
    <3>3. kernel'[j].opens = Cardinality(Openers(j)')
      BY <1>2, <1>7 DEF OpensCounted
    <3>4. Openers(j)' # {}
      BY <3>2, <3>3, FS_EmptySet
    <3> QED
      BY <3>4 DEF Openers
  <2>2. CASE j = i /\ kernel[i].opens = 1
    BY <1>3, <1>4, <2>2
  <2>3. CASE j # i
    BY <1>1, <1>3, <1>4, <2>3 DEF IInv, NoLeak
  <2> QED
    BY <2>1, <2>2, <2>3
<1>9. SoleWrapper'
  BY <1>1, <1>2, <1>4 DEF IInv, SoleWrapper
<1>10. NameKept'
  BY <1>1, <1>2, <1>4 DEF IInv, NameKept
<1>11. LinkedOnce'
  BY <1>3, <1>4 DEF IInv, LinkedOnce
<1> QED
  BY <1>1, <1>5, <1>6, <1>7, <1>8, <1>9, <1>10, <1>11 DEF IInv

\* A close that fails was of a copied wrapper.
LEMMA CloseFailedIInv ==
  ASSUME IInv, NEW w \in Wrappers, Destroys(w), this[w].id \in copied,
         UNCHANGED <<live, kernel>>
  PROVE  IInv'
<1>1. /\ this' \in [Wrappers -> Wrapper] /\ this[w].id \in Ids
      /\ \A v \in Wrappers : Open(v)' => this'[v].id \in Ids
      /\ Open(w) /\ ~Open(w)'
      /\ \A v \in Wrappers \ {w} : (Open(v)' <=> Open(v)) /\ this'[v] = this[v]
      /\ NamedByName'
  BY ThisDestroyed
<1>2. class' = class /\ copied' = copied /\ stale' = stale \ {w}
  BY DEF Destroys
<1>3. TypeOK'
  BY <1>1, <1>2 DEF IInv, TypeOK
<1>4. NoDangling' /\ SoleWrapper' /\ NameKept'
  BY <1>1, <1>2 DEF IInv, NoDangling, SoleWrapper, NameKept
<1>5. NoLeak'
  BY <1>1, <1>2 DEF IInv, NoLeak
<1>6. OpensCounted'
  <2>1. ASSUME NEW j \in live \ copied
        PROVE  Openers(j)' = Openers(j)
    BY <1>1 DEF Openers
  <2> QED
    BY <1>2, <2>1 DEF IInv, OpensCounted
<1> QED
  BY <1>1, <1>3, <1>4, <1>5, <1>6 DEF IInv, LinkedOnce

\* The destructor closes a named object and deletes an unnamed one.
LEMMA DtorIInv ==
  ASSUME IInv, NEW w \in Wrappers, dtor(w)
  PROVE  IInv'
<1> DEFINE i == this[w].id
           sole == \A v \in Wrappers : Open(v) /\ this[v].id = i => v = w
<1>1. Destroys(w) /\ Open(w) /\ i \in Ids
  BY ThisDestroyed DEF dtor, Destroys
<1>2. CASE ~this[w].named
  <2>1. i \in copied \/ sole
    BY <1>1, <1>2 DEF IInv, SoleWrapper
  <2> QED
    BY <1>1, <1>2, <2>1, LastDestroyedIInv DEF dtor
<1>3. CASE this[w].named
  <2>1. Close(i)
    BY <1>3 DEF dtor
  <2>2. i \in copied \/ (i \in live /\ kernel[i].opens = Cardinality(Openers(i)))
    BY <1>1 DEF IInv, NoDangling, OpensCounted
  <2>3. w \in Openers(i)
    BY <1>1, <1>3 DEF Openers
  <2>4. CASE i \notin live \/ kernel[i].opens = 0
    <3>1. i \in copied
      BY <2>2, <2>3, <2>4, OpenersFinite
    <3> QED
      BY <1>1, <2>1, <2>4, <3>1, CloseFailedIInv DEF Close
  <2>5. CASE /\ i \in live /\ kernel[i].opens = 1
             /\ kernel[i].last \/ kernel[i].name = NoName
    <3>1. Delete(i)
      BY <2>1, <2>5 DEF Close
    <3>2. ASSUME i \notin copied, NEW v \in Wrappers, Open(v), this[v].id = i
          PROVE  v = w
      <4>1. this[v].named
        BY <1>1, <1>3, <3>2 DEF IInv, SoleWrapper
      <4>2. v \in Openers(i)
        BY <3>2, <4>1 DEF Openers
      <4>3. PICK x : Openers(i) = {x}
        BY <2>2, <2>5, <3>2, OpenersFinite, FS_Singleton
      <4> QED
        BY <2>3, <4>2, <4>3
    <3> QED
      BY <1>1, <3>1, <3>2, LastDestroyedIInv
  <2>6. CASE /\ i \in live /\ kernel[i].opens # 0
             /\ ~(kernel[i].opens = 1 /\ (kernel[i].last \/ kernel[i].name = NoName))
    <3>1. kernel' = [kernel EXCEPT ![i].opens = @ - 1] /\ UNCHANGED live
      BY <2>1, <2>6 DEF Close
    <3> QED
      BY <1>1, <1>3, <2>6, <3>1, ClosedIInv
  <2> QED
    BY <2>4, <2>5, <2>6
<1> QED
  BY <1>2, <1>3

-------------------------------------------------------------------------------
(***************************************************************************)
(* unlink and the implicit copy.                                           *)
(***************************************************************************)
\* unlink takes the name from an object that is open, and deletes another.
LEMMA UnlinkIInv ==
  ASSUME IInv, NEW n \in Names, unlink(n)
  PROVE  IInv'
<1>1. PICK i \in Linked(n) :
        IF kernel[i].opens = 0 THEN Delete(i)
        ELSE kernel' = [kernel EXCEPT ![i].name = NoName] /\ UNCHANGED live
  BY DEF unlink
<1>2. /\ stale' = stale \cup {w \in Wrappers : Open(w) /\ this[w].name = n}
      /\ class' = class /\ this' = this /\ copied' = copied
  BY DEF unlink
<1>3. /\ kernel \in [Ids -> Object] /\ live \subseteq Ids
      /\ \A w \in Wrappers : Open(w) => this[w].id \in Ids
  BY DEF IInv, TypeOK
<1>4. i \in live /\ i \in Ids /\ kernel[i].name = n /\ n # NoName
  BY <1>3, NamedObjectAssumption DEF Linked
<1>5. \A w : Open(w)' <=> Open(w)
  BY <1>2 DEF Open
<1>6. \A j : Openers(j)' = Openers(j)
  BY <1>2, <1>5 DEF Openers
<1>7. NamedByName'
  BY <1>2, <1>5 DEF IInv, NamedByName
<1>8. ASSUME NEW w \in Wrappers, Open(w), this[w].id = i, i \notin copied
      PROVE  this[w].named
  BY <1>4, <1>8 DEF IInv, SoleWrapper
<1>9. CASE kernel[i].opens = 0
  <2>1. /\ live' = live \ {i} /\ kernel' \in [Ids -> Object]
        /\ \A j \in Ids \ {i} : kernel'[j] = kernel[j]
    <3>1. NoObject \in Object
      BY DEF NoObject, Object
    <3> QED
      BY <1>1, <1>3, <1>4, <1>9, <3>1 DEF Delete
  <2>2. ASSUME NEW w \in Wrappers, Open(w), this[w].id \notin copied
        PROVE  this[w].id \in Ids \ {i}
    <3> SUFFICES ASSUME this[w].id = i PROVE FALSE
      BY <1>3, <2>2
    <3>1. w \in Openers(i) /\ Cardinality(Openers(i)) = 0
      BY <1>4, <1>8, <1>9, <2>2 DEF IInv, OpensCounted, Openers
    <3> QED
      BY <3>1, OpenersFinite
  <2>3. TypeOK'
    BY <1>2, <1>5, <2>1 DEF IInv, TypeOK
  <2>4. NoDangling' /\ SoleWrapper' /\ NameKept'
    BY <1>2, <1>5, <2>1, <2>2 DEF IInv, NoDangling, SoleWrapper, NameKept
  <2>5. NoLeak' /\ OpensCounted' /\ LinkedOnce'
    BY <1>2, <1>3, <1>5, <1>6, <2>1 DEF IInv, NoLeak, OpensCounted, LinkedOnce
  <2> QED
    BY <1>7, <2>3, <2>4, <2>5 DEF IInv
<1>10. CASE kernel[i].opens # 0
  <2>1. live' = live /\ kernel' = [kernel EXCEPT ![i].name = NoName]
    BY <1>1, <1>10
  <2>2. /\ kernel' \in [Ids -> Object]
        /\ \A j \in Ids : /\ kernel'[j].opens = kernel[j].opens
                          /\ kernel'[j].last = kernel[j].last
                          /\ kernel'[j].name = IF j = i THEN NoName
                                               ELSE kernel[j].name
    BY <1>3, <1>4, <2>1 DEF Object
  <2>3. TypeOK'
    BY <1>2, <1>5, <2>1, <2>2 DEF IInv, TypeOK
  <2>4. NoDangling' /\ SoleWrapper'
    BY <1>2, <1>3, <1>5, <2>1, <2>2 DEF IInv, NoDangling, SoleWrapper
  <2>5. NameKept'
    BY <1>2, <1>3, <1>4, <1>5, <2>2 DEF IInv, NameKept
  <2>6. NoLeak'
    <3> SUFFICES ASSUME NEW j \in live \ copied
                 PROVE  \/ \E v \in Wrappers : Open(v) /\ this[v].id = j
                        \/ kernel'[j].name # NoName /\ ~kernel'[j].last
      BY <1>2, <1>5, <2>1 DEF NoLeak
    <3>1. CASE j = i
      <4>1. Openers(i) # {}
        BY <1>4, <1>10, <3>1, FS_EmptySet DEF IInv, OpensCounted
      <4> QED
        BY <3>1, <4>1 DEF Openers
    <3>2. CASE j # i
      BY <1>3, <2>2, <3>2 DEF IInv, NoLeak
    <3> QED
      BY <3>1, <3>2
  <2>7. OpensCounted' /\ LinkedOnce'
    BY <1>2, <1>3, <1>6, <2>1, <2>2 DEF IInv, OpensCounted, LinkedOnce
  <2> QED
    BY <1>7, <2>3, <2>4, <2>5, <2>6, <2>7 DEF IInv
<1> QED
  BY <1>9, <1>10

\* A copy leaves every object alone that was never copied.
LEMMA CopyIInv ==
  ASSUME IInv, NEW v \in Wrappers, NEW w \in Wrappers, copy(v, w)
  PROVE  IInv'
<1>1. /\ Open(v) /\ ~Open(w) /\ v # w
      /\ this' = [this EXCEPT ![w] = this[v]]
      /\ copied' = copied \cup {this[v].id}
      /\ UNCHANGED <<class, live, kernel, stale>>
  BY DEF copy, Open
<1>2. this[v] \in Wrapper /\ this[v].state = "open" /\ this[v].id \in Ids
  BY <1>1 DEF IInv, TypeOK, Open
<1>3. /\ this' \in [Wrappers -> Wrapper]
      /\ \A u \in Wrappers : Open(u)' => this'[u].id \in Ids
      /\ this'[w] = this[v] /\ Open(w)'
      /\ \A u \in Wrappers \ {w} : (Open(u)' <=> Open(u)) /\ this'[u] = this[u]
  BY <1>1, <1>2, ThisChanged DEF IInv
<1>4. TypeOK'
  BY <1>1, <1>2, <1>3 DEF IInv, TypeOK
<1>5. NoDangling' /\ NamedByName'
  BY <1>1, <1>3 DEF IInv, NoDangling, NamedByName
<1>6. NoLeak'
  BY <1>1, <1>3 DEF IInv, NoLeak
<1>7. SoleWrapper' /\ NameKept'
  BY <1>1, <1>3 DEF IInv, SoleWrapper, NameKept
<1>8. OpensCounted'
  <2>1. ASSUME NEW j \in live \ copied'
        PROVE  Openers(j)' = Openers(j)
    BY <1>1, <1>3 DEF Openers
  <2> QED
    BY <1>1, <2>1 DEF IInv, OpensCounted
<1> QED
  BY <1>1, <1>4, <1>5, <1>6, <1>7, <1>8 DEF IInv, LinkedOnce

-------------------------------------------------------------------------------
\* Every step keeps the invariant.
LEMMA NextIInv == IInv /\ [Next]_vars => IInv'
<1> SUFFICES ASSUME IInv, [Next]_vars PROVE IInv'
  OBVIOUS
<1>1. CASE UNCHANGED vars
  <2>1. /\ UNCHANGED <<class, live, kernel, this, copied, stale>>
        /\ \A i : Openers(i)' = Openers(i)
    BY <1>1 DEF vars, Openers, Open
  <2> QED
    BY <2>1
    DEF IInv, TypeOK, NoDangling, NoLeak, NamedByName, SoleWrapper, NameKept,
        OpensCounted, LinkedOnce, Open
<1>2. ASSUME NEW w \in Wrappers, NEW n \in Names, NamedStep(w, n)
      PROVE  IInv'
  <2>1. \E c, m : Named(w, c, n, m)
    BY <1>2
    DEF NamedStep, mutexCommon_open, shared_mutex_open, counting_semaphore_open,
        binary_semaphore_open, condvar_open, msgQ_open, queue_open,
        mutexCommon_options, shared_mutex_options, counting_semaphore_options,
        binary_semaphore_options, msgQ_create, queue_create, mutexCommon_mode,
        shared_mutex_mode, counting_semaphore_mode, binary_semaphore_mode,
        condvar_mode, condvar_context, msgQ_mode, queue_mode
  <2> QED
    BY <2>1, NamedIInv
<1>3. ASSUME NEW w \in Wrappers, Unnamed(w) PROVE IInv'
  BY <1>3, UnnamedIInv
<1>4. ASSUME NEW w \in Wrappers, dtor(w) PROVE IInv'
  BY <1>4, DtorIInv
<1>5. ASSUME NEW v \in Wrappers, NEW w \in Wrappers, copy(v, w) PROVE IInv'
  BY <1>5, CopyIInv
<1>6. ASSUME NEW n \in Names, unlink(n) PROVE IInv'
  BY <1>6, UnlinkIInv
<1> QED
  BY <1>1, <1>2, <1>3, <1>4, <1>5, <1>6 DEF Next

\* Names that were not unlinked are shared, given that an object has one name.
LEMMA IInvShares == IInv => SharedByName
<1> SUFFICES ASSUME IInv, NEW v \in Wrappers, NEW w \in Wrappers,
                    Open(v), Open(w), {v, w} \cap stale = {},
                    {this[v].id, this[w].id} \cap copied = {},
                    this[v].name = this[w].name, this[v].name # NoName
             PROVE  this[v].id = this[w].id
  BY DEF SharedByName
<1>1. this[v].named /\ this[w].named
  BY DEF IInv, NamedByName
<1>2. /\ kernel[this[v].id].name = this[v].name
      /\ kernel[this[w].id].name = this[w].name
  BY <1>1 DEF IInv, NameKept
<1>3. this[v].id \in live /\ this[w].id \in live
  BY DEF IInv, NoDangling
<1> QED
  BY <1>2, <1>3 DEF IInv, LinkedOnce

\* Whatever contexts open, close, unlink, delete and copy, in any number.
THEOREM Invariance == Spec => []IInv
<1> QED
  BY InitIInv, NextIInv, PTL DEF Spec

\* The types of the variables.
THEOREM TypeCorrect == Spec => []TypeOK
<1>1. IInv => TypeOK
  BY DEF IInv
<1> QED
  BY <1>1, Invariance, PTL

\* An object outlives the wrappers that have it open (object.hpp, and the
\* destructor and constructors of every class).
THEOREM ObjectsOutlive == Spec => []NoDangling
<1>1. IInv => NoDangling
  BY DEF IInv
<1> QED
  BY <1>1, Invariance, PTL

\* An object that nobody has open can still be opened.
THEOREM NothingLeaks == Spec => []NoLeak
<1>1. IInv => NoLeak
  BY DEF IInv
<1> QED
  BY <1>1, Invariance, PTL

\* A name that was not unlinked means one object to all who have opened it.
THEOREM NamesShare == Spec => []SharedByName
  BY IInvShares, Invariance, PTL
===============================================================================
