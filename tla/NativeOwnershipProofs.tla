----------------------- MODULE NativeOwnershipProofs -----------------------
(***************************************************************************)
(* For any number of objects and values: every native object has one owner *)
(* (OneOwner), it outlives what points to it (UsesAlive), and llama.cpp    *)
(* reaches a freed object only in the known ways (KnownMisuse).            *)
(***************************************************************************)
EXTENDS NativeOwnership, FiniteSetTheorems, TLAPS

-----------------------------------------------------------------------------
(* Closures                                                                *)

LEMMA ClosureContains ==
  ASSUME NEW S \in SUBSET Made, NEW step
  PROVE  S \subseteq Closure(S, step) /\ Closure(S, step) \subseteq Made
BY DEF Closure, Closed

LEMMA ClosureClosed ==
  ASSUME NEW S, NEW step, NEW x \in Closure(S, step), NEW y \in step[x], y \in Made
  PROVE  y \in Closure(S, step)
BY DEF Closure, Closed

LEMMA WholeClosed ==
  ASSUME NEW S \in SUBSET Made, NEW o \in Made, objs[o].parent \in Whole(S)
  PROVE  o \in Whole(S)
<1>1. objs[o].parent \in Made
  BY ClosureContains DEF Whole
<1>2. o \in Parts[objs[o].parent]
  BY <1>1 DEF Parts
<1>. QED BY <1>2, ClosureClosed DEF Whole

\* What is in a whole is what it was made of, or belongs to something in it.
LEMMA WholeMinimal ==
  ASSUME NEW S \in SUBSET Made, NEW o \in Whole(S), o \notin S
  PROVE  objs[o].parent \in Whole(S)
<1>. SUFFICES ASSUME objs[o].parent \notin Whole(S) PROVE FALSE
  OBVIOUS
<1>. DEFINE T == Whole(S) \ {o}
<1>1. Whole(S) \subseteq Made /\ S \subseteq Whole(S)
  BY ClosureContains DEF Whole
<1>2. ASSUME NEW x \in T, NEW y \in Parts[x] PROVE y \in T
  <2>1. x \in Made /\ x \in Whole(S)
    BY <1>1
  <2>2. y \in Made /\ objs[y].parent = x
    BY <2>1, <1>2 DEF Parts
  <2>3. y \in Whole(S)
    BY <2>1, <2>2, WholeClosed
  <2>. QED BY <2>1, <2>2, <2>3
<1>3. T \in Closed(S, Parts)
  BY <1>1, <1>2 DEF Closed
<1>4. o \in T
  BY <1>3 DEF Whole, Closure
<1>. QED BY <1>4

-----------------------------------------------------------------------------
(* What the invariant says of one object and one value                     *)

\* The conjuncts of TypeOK about what only history variables and aborted hold.
HistoryType ==
  /\ exchanged \subseteq Ids \X Ids
  /\ cloned \subseteq Ids
  /\ aborted \in {"no"} \cup Aborts

LEMMA Numbers == IInv => made \in Nat /\ MaxObjects \in Nat /\ made <= MaxObjects
BY OwnershipAssumption DEF IInv, TypeOK, OwnershipAssumption

LEMMA ObjectFacts ==
  ASSUME IInv, NEW o \in Made
  PROVE  /\ o \in Ids /\ o \in Nat /\ o # 0 /\ objs[o] \in Object
         /\ objs[o].uses \subseteq Made /\ objs[o].parent \in {0} \cup Made
         /\ objs[o].live \in BOOLEAN
         /\ ~objs[o].live => objs[o].uses = {} /\ objs[o].parent = 0
         /\ objs[o].parent # 0 =>
              objs[objs[o].parent].live /\ objs[o].kind \in {"sampler", "matcher", "chunk"}
BY Numbers DEF IInv, TypeOK, ObjectsInv, Made, Ids, Object

LEMMA MadeIds == IInv => Made \subseteq Ids
BY ObjectFacts

LEMMA ValueFacts ==
  ASSUME IInv, NEW v \in ValueIds, values[v] # NoValue
  PROVE  /\ values[v] \in Value /\ values[v].ptr \in Made /\ v \in Nat /\ v # 0
         /\ values[v].owned \in BOOLEAN
BY Numbers, OwnershipAssumption
   DEF IInv, TypeOK, Made, Value, Ids, ValueIds, OwnershipAssumption

LEMMA OwnerFacts ==
  ASSUME IInv, NEW o \in Made, NEW v \in Owners(o)
  PROVE  /\ v \in ValueIds /\ values[v] # NoValue /\ values[v].ptr = o /\ values[v].owned
         /\ objs[o].parent = 0 /\ o \notin abandoned
         /\ objs[o].live \/ objs[o].kind = "bitmap"
         /\ objs[o].kind # "bitmap" \/ o \notin cloned =>
              objs[o].live /\ \A w \in Owners(o) : w = v
BY DEF IInv, ValuesInv, OwnersInv, BitmapInv, Owners, Ptr

\* The objects that a native object may not outlive.
LEMMA PointerAlive ==
  ASSUME IInv, NEW o \in Made, objs[o].live, NEW u \in objs[o].uses
  PROVE  objs[u].live \/ Untied(o, u)
<1>1. u \in Made
  BY ObjectFacts
<1>2. <<objs[o].kind, objs[u].kind>> \in Pointers
  BY DEF IInv, ObjectsInv
<1>3. CASE objs[o].kind = "context" /\ objs[u].kind \in {"model", "sampler"}
  <2>1. PICK w : w \in Owners(u)
    BY <1>3 DEF IInv, HeldInv
  <2>. QED BY <1>1, <1>3, <2>1, OwnerFacts
<1>4. CASE objs[o].kind \in {"sampler", "chunks"} /\ objs[u].kind # "model"
  <2>1. objs[u].parent = o /\ o # 0
    BY <1>4, ObjectFacts DEF IInv, ObjectsInv
  <2>. QED BY <1>1, <2>1, ObjectFacts
<1>5. CASE objs[o].kind = "mtp" /\ <<o, u>> \notin exchanged
  <2>1. PICK w : w \in Owners(u)
    BY <1>5 DEF IInv, DecoderInv
  <2>. QED BY <1>1, <1>2, <1>5, <2>1, OwnerFacts DEF Pointers
<1>. QED BY <1>2, <1>3, <1>4, <1>5 DEF Pointers, Untied

-----------------------------------------------------------------------------
(* The properties follow                                                   *)

LEMMA OwnedOnce == IInv => OneOwner
<1>. SUFFICES ASSUME IInv, NEW o \in Made, objs[o].live, o \notin abandoned
              PROVE  \/ objs[o].parent # 0 /\ objs[objs[o].parent].live /\ Owners(o) = {}
                     \/ objs[o].parent = 0 /\ Cardinality(Owners(o)) = 1
                     \/ o \in cloned /\ Owners(o) # {}
  BY DEF OneOwner
<1>1. CASE objs[o].parent # 0
  BY <1>1, ObjectFacts, OwnerFacts
<1>2. CASE objs[o].parent = 0 /\ o \notin cloned
  <2>1. PICK v : v \in Owners(o)
    BY <1>2 DEF IInv, OwnersInv
  <2>2. Owners(o) = {v}
    BY <1>2, <2>1, OwnerFacts
  <2>. QED BY <1>2, <2>2, FS_Singleton
<1>3. CASE objs[o].parent = 0 /\ o \in cloned
  BY <1>3 DEF IInv, OwnersInv
<1>. QED BY <1>1, <1>2, <1>3

LEMMA AliveLongEnough == IInv => UsesAlive
BY PointerAlive DEF UsesAlive

\* A value's object is there, or it is a chunk or a bitmap that was cloned.
LEMMA PointsToLive ==
  ASSUME IInv, NEW v \in ValueIds, values[v] # NoValue
  PROVE  /\ Ptr(v) \in Made
         /\ objs[Ptr(v)].live \/ objs[Ptr(v)].kind = "chunk" \/ Ptr(v) \in cloned
<1>1. Ptr(v) \in Made
  BY ValueFacts DEF Ptr
<1>2. CASE values[v].owned
  <2>1. v \in Owners(Ptr(v))
    BY <1>2 DEF Owners, Ptr
  <2>. QED BY <1>1, <2>1, OwnerFacts
<1>3. CASE ~values[v].owned
  BY <1>1, <1>3 DEF IInv, ValuesInv, Ptr
<1>. QED BY <1>1, <1>2, <1>3

\* The objects that are there stay what they are.
KindsKept == \A o \in Made : objs'[o].kind = objs[o].kind

\* A native call on the objects of values.
LEMMA TouchKnown ==
  ASSUME IInv, NEW S, \A o \in S : \E v \in ValueIds : values[v] # NoValue /\ o = Ptr(v),
         Touch(S), KindsKept, UNCHANGED <<exchanged, cloned>>
  PROVE  KnownMisuse'
<1>1. S \subseteq Made
  BY PointsToLive
<1>2. Reached(S) \subseteq Made
  BY <1>1, ClosureContains DEF Reached
<1>3. ASSUME NEW p \in misused', NEW o \in S, ~objs[o].live, p = <<o, o>>
      PROVE  p[1] = p[2] /\ (objs'[p[2]].kind = "chunk" \/ p[2] \in cloned')
  BY <1>1, <1>3, PointsToLive DEF KindsKept
<1>4. ASSUME NEW p \in misused', NEW o \in Reached(S), NEW u \in objs[o].uses,
             ~objs[u].live, p = <<o, u>>
      PROVE  p[1] \notin {0, p[2]} /\ Untied(p[1], p[2])'
  <2>1. o \in Made /\ o # 0 /\ objs[o].live /\ u \in Made
    BY <1>2, <1>4, ObjectFacts
  <2>2. Untied(o, u) /\ o # u
    BY <1>4, <2>1, PointerAlive
  <2>3. objs'[o].kind = objs[o].kind /\ objs'[u].kind = objs[u].kind
    BY <2>1 DEF KindsKept
  <2>. QED BY <1>4, <2>1, <2>2, <2>3 DEF Untied
<1>5. ASSUME NEW p \in misused'
      PROVE  \/ \E o \in S : ~objs[o].live /\ p = <<o, o>>
             \/ \E o \in Reached(S) : \E u \in objs[o].uses : ~objs[u].live /\ p = <<o, u>>
  BY <1>5 DEF Touch
<1>6. ASSUME NEW p \in misused'
      PROVE  \/ p[1] \notin {0, p[2]} /\ Untied(p[1], p[2])'
             \/ p[1] = p[2] /\ objs'[p[2]].kind = "chunk"
             \/ p[1] \in {0, p[2]} /\ p[2] \in cloned'
  BY <1>3, <1>4, <1>5
<1>. QED BY <1>6 DEF KnownMisuse

-----------------------------------------------------------------------------
(* A new object                                                            *)

\* What may be created: an object of its own that points to what exists.
NewGood(x) ==
  /\ x \in Object /\ x.live /\ x.parent = 0 /\ x.uses \subseteq Made
  /\ \A u \in x.uses :
       /\ <<x.kind, objs[u].kind>> \in Pointers
       /\ x.kind \in {"sampler", "chunks"} => objs[u].kind = "model"

\* A new object x with the value v, which borrows the value b and holds those of H.
Adds(x, v, b, H) ==
  /\ made < MaxObjects /\ made' = made + 1
  /\ objs' = [objs EXCEPT ![made + 1] = x]
  /\ values' = [w \in ValueIds |->
                  IF w = v THEN NewValue(made + 1, TRUE, b)
                  ELSE IF w \in H THEN [values[w] EXCEPT !.holder = v]
                  ELSE values[w]]
  /\ UNCHANGED history

\* What comes of it, if n is its number.
Added(x, v, b, H, n) ==
  /\ n \in Ids /\ n \notin Made /\ Made' = Made \cup {n} /\ objs'[n] = x
  /\ \A o \in Made : objs'[o] = objs[o]
  /\ values'[v] = NewValue(n, TRUE, b) /\ values'[v] # NoValue
  /\ \A w \in ValueIds \ {v} :
       /\ values'[w] # NoValue <=> values[w] # NoValue
       /\ values[w] # NoValue =>
            /\ values'[w].ptr = values[w].ptr /\ values'[w].owned = values[w].owned
            /\ values'[w].borrows = values[w].borrows
            /\ values'[w].holder = IF w \in H THEN v ELSE values[w].holder
  /\ UNCHANGED history

LEMMA AddsType ==
  ASSUME IInv, NEW x, NewGood(x), NEW v \in ValueIds, values[v] = NoValue,
         NEW b \in 0 .. MaxValues, NEW H \in SUBSET ValueIds,
         \A h \in H : values[h] # NoValue, Adds(x, v, b, H), NEW n, n = made + 1
  PROVE  TypeOK' /\ Added(x, v, b, H, n)
<1>1. made \in Nat /\ MaxObjects \in Nat /\ n \in Ids /\ n <= MaxObjects
  BY Numbers DEF Ids, Adds
<1>2. n \notin Made /\ Made' = Made \cup {n}
  BY <1>1 DEF Made, Adds
<1>3. objs \in [Ids -> Object \cup {NoObject}]
  BY DEF IInv, TypeOK
<1>4. objs'[n] = x /\ \A o \in Ids : o # n => objs'[o] = objs[o]
  BY <1>1, <1>3 DEF Adds
<1>5. \A o \in Made : objs'[o] = objs[o]
  BY <1>1, <1>2, <1>4 DEF Made, Ids
<1>6. objs' \in [Ids -> Object \cup {NoObject}]
  BY <1>1, <1>3 DEF Adds, NewGood
<1>7. values'[v] = NewValue(n, TRUE, b) /\ NewValue(n, TRUE, b) \in Value
  BY <1>1, OwnershipAssumption DEF Adds, NewValue, Value, OwnershipAssumption
<1>8. values'[v] # NoValue /\ values'[v].ptr = n
  <2>1. values'[v].ptr = n /\ NoValue.ptr = 0
    BY <1>7 DEF NewValue, NoValue
  <2>. QED BY <1>1, <2>1
<1>9. ASSUME NEW w \in ValueIds \ {v}
      PROVE  /\ values'[w] # NoValue <=> values[w] # NoValue
             /\ values'[w] \in Value \cup {NoValue}
             /\ values[w] # NoValue =>
                  /\ values'[w].ptr = values[w].ptr /\ values'[w].owned = values[w].owned
                  /\ values'[w].borrows = values[w].borrows
                  /\ values'[w].holder = IF w \in H THEN v ELSE values[w].holder
  <2>1. CASE w \notin H
    BY <2>1 DEF Adds, IInv, TypeOK
  <2>2. CASE w \in H
    <3>1. values[w] \in Value /\ values[w] # NoValue
      BY <2>2, ValueFacts
    <3>2. values'[w] = [values[w] EXCEPT !.holder = v]
      BY <2>2 DEF Adds
    <3>3. v \in 0 .. MaxValues
      BY OwnershipAssumption DEF ValueIds, OwnershipAssumption
    <3>4. values'[w] \in Value
      BY <3>1, <3>2, <3>3 DEF Value
    <3>5. /\ values'[w].ptr = values[w].ptr /\ values'[w].owned = values[w].owned
          /\ values'[w].borrows = values[w].borrows /\ values'[w].holder = v
      BY <3>1, <3>2 DEF Value
    <3>6. values'[w] # NoValue
      <4>1. values'[w].ptr # 0 /\ NoValue.ptr = 0
        BY <3>1, <3>5, OwnershipAssumption DEF Value, Ids, NoValue, OwnershipAssumption
      <4>. QED BY <4>1
    <3>. QED BY <2>2, <3>1, <3>4, <3>5, <3>6
  <2>. QED BY <2>1, <2>2
<1>10. values' \in [ValueIds -> Value \cup {NoValue}]
  <2>1. \A w \in ValueIds : values'[w] \in Value \cup {NoValue}
    BY <1>7, <1>9
  <2>2. values' = [w \in ValueIds |-> values'[w]]
    BY DEF Adds
  <2>. QED BY <2>1, <2>2
<1>11. TypeOK'
  <2>1. made' \in 0 .. MaxObjects
    BY <1>1 DEF Adds
  <2>2. \A o \in 1 .. made' : objs'[o] \in Object
    BY <1>2, <1>4, <1>5, ObjectFacts DEF Made, NewGood
  <2>3. \A w \in ValueIds : values'[w] # NoValue => values'[w].ptr <= made'
    <3>1. ASSUME NEW w \in ValueIds, w # v, values'[w] # NoValue
          PROVE  values'[w].ptr <= made'
      <4>1. values'[w].ptr = values[w].ptr /\ values[w].ptr \in Made
        BY <1>9, <3>1, ValueFacts
      <4>2. made' = made + 1
        BY DEF Adds
      <4>. QED BY <4>1, <4>2, <1>1 DEF Made
    <3>2. values'[v].ptr <= made'
      <4>1. made' = made + 1
        BY DEF Adds
      <4>. QED BY <4>1, <1>1, <1>8
    <3>. QED BY <3>1, <3>2
  <2>4. abandoned' \subseteq 1 .. made'
    BY <1>1 DEF IInv, TypeOK, Adds, history
  <2>5. /\ exchanged' \subseteq Ids \X Ids /\ cloned' \subseteq Ids
        /\ aborted' \in {"no"} \cup Aborts
    BY DEF IInv, TypeOK, Adds, history
  <2>. QED BY <1>6, <1>10, <2>1, <2>2, <2>3, <2>4, <2>5 DEF TypeOK
<1>12. UNCHANGED history
  BY DEF Adds
<1>. QED BY <1>1, <1>2, <1>4, <1>5, <1>7, <1>8, <1>9, <1>11, <1>12 DEF Added

LEMMA AddedOwners ==
  ASSUME IInv, NEW x, NEW v \in ValueIds, values[v] = NoValue, NEW b, NEW H, NEW n,
         Added(x, v, b, H, n)
  PROVE  /\ \A o \in Made : Owners(o)' = Owners(o)
         /\ Owners(n)' = {v}
<1>1. values'[v] # NoValue /\ values'[v].ptr = n /\ values'[v].owned /\ n \notin Made
  BY DEF Added, NewValue
<1>2. ASSUME NEW w \in ValueIds, w # v, NEW o
      PROVE  w \in Owners(o)' <=> w \in Owners(o)
  BY <1>2 DEF Added, Owners
<1>3. \A o : v \notin Owners(o)
  BY DEF Owners
<1>4. \A o \in Made : v \notin Owners(o)'
  BY <1>1 DEF Owners
<1>5. v \in Owners(n)'
  BY <1>1 DEF Owners
<1>6. ASSUME NEW w \in ValueIds, w # v PROVE w \notin Owners(n)'
  <2>1. w \notin Owners(n)
    BY <1>1, ValueFacts DEF Owners
  <2>. QED BY <2>1, <1>2, <1>6
<1>7. \A o : Owners(o)' \subseteq ValueIds /\ Owners(o) \subseteq ValueIds
  BY DEF Owners
<1>8. ASSUME NEW o \in Made PROVE Owners(o)' = Owners(o)
  BY <1>2, <1>3, <1>4, <1>7
<1>9. Owners(n)' = {v}
  BY <1>5, <1>6, <1>7
<1>. QED BY <1>8, <1>9

LEMMA AddStep ==
  ASSUME IInv, NEW x, NewGood(x), NEW v \in ValueIds, values[v] = NoValue,
         NEW b \in 0 .. MaxValues, NEW H \in SUBSET ValueIds,
         \A h \in H : values[h] # NoValue /\ values[h].holder = 0, Adds(x, v, b, H),
         x.kind = "context" =>
           \A u \in x.uses :
             /\ objs[u].kind = "model" => b \in Owners(u)
             /\ objs[u].kind = "sampler" => \E h \in H : h \in Owners(u),
         x.kind = "mtp" => \A u \in x.uses : \E h \in H : h \in Owners(u)
  PROVE  IInv'
<1>. PICK n : n = made + 1
  OBVIOUS
<1>0. \A h \in H : values[h] # NoValue
  OBVIOUS
<1>1. TypeOK' /\ Added(x, v, b, H, n)
  BY <1>0, AddsType
<1>2. /\ n \notin Made /\ Made' = Made \cup {n} /\ objs'[n] = x
      /\ \A o \in Made : objs'[o] = objs[o]
      /\ values'[v].ptr = n /\ values'[v].owned /\ values'[v].borrows = b
      /\ abandoned' = abandoned /\ exchanged' = exchanged /\ cloned' = cloned
  BY <1>1 DEF Added, NewValue, history
<1>3. /\ \A o \in Made : Owners(o)' = Owners(o)
      /\ Owners(n)' = {v}
  BY <1>1, AddedOwners
<1>5. ObjectsInv'
  <2>. SUFFICES ASSUME NEW o \in Made'
                PROVE  /\ objs'[o].uses \subseteq Made' /\ objs'[o].parent \in {0} \cup Made'
                       /\ ~objs'[o].live => objs'[o].uses = {} /\ objs'[o].parent = 0
                       /\ objs'[o].parent # 0 =>
                            /\ objs'[objs'[o].parent].live
                            /\ objs'[o].kind \in {"sampler", "matcher", "chunk"}
                       /\ \A u \in objs'[o].uses :
                            /\ <<objs'[o].kind, objs'[u].kind>> \in Pointers
                            /\ objs'[o].kind \in {"sampler", "chunks"} /\ objs'[u].kind # "model"
                                 => objs'[u].parent = o
    BY DEF ObjectsInv, Pointers
  <2>1. CASE o = n
    <3>1. \A u \in x.uses : u \in Made /\ objs'[u] = objs[u]
      BY <1>2 DEF NewGood
    <3>. QED BY <2>1, <3>1, <1>2 DEF NewGood
  <2>2. CASE o \in Made
    <3>1. objs'[o] = objs[o] /\ \A u \in objs[o].uses : u \in Made /\ objs'[u] = objs[u]
      BY <2>2, <1>2, ObjectFacts
    <3>2. objs[o].parent # 0 => objs'[objs[o].parent] = objs[objs[o].parent]
      BY <2>2, <1>2, ObjectFacts
    <3>. QED BY <2>2, <3>1, <3>2, <1>2 DEF IInv, ObjectsInv
  <2>. QED BY <2>1, <2>2, <1>2
<1>6. ValuesInv'
  <2>. SUFFICES ASSUME NEW w \in ValueIds, values'[w] # NoValue
                PROVE  /\ values'[w].owned =>
                            /\ objs'[values'[w].ptr].parent = 0
                            /\ values'[w].ptr \notin abandoned'
                            /\ \/ objs'[values'[w].ptr].live
                               \/ objs'[values'[w].ptr].kind = "bitmap"
                       /\ ~values'[w].owned => objs'[values'[w].ptr].kind = "chunk"
    BY DEF ValuesInv, Ptr
  <2>1. CASE w = v
    <3>1. n \notin abandoned
      BY <1>2 DEF IInv, TypeOK, Made
    <3>. QED BY <2>1, <3>1, <1>2 DEF NewGood
  <2>2. CASE w # v
    <3>1. /\ values[w] # NoValue /\ values[w].ptr \in Made
          /\ values'[w].ptr = values[w].ptr /\ values'[w].owned = values[w].owned
      BY <2>2, <1>1, ValueFacts DEF Added
    <3>. QED BY <3>1, <1>2 DEF IInv, ValuesInv, Ptr
  <2>. QED BY <2>1, <2>2
<1>7. OwnersInv'
  <2>. SUFFICES ASSUME NEW o \in Made'
                PROVE  /\ objs'[o].live /\ objs'[o].parent = 0 /\ o \notin abandoned' =>
                            Owners(o)' # {}
                       /\ objs'[o].kind # "bitmap" => \A y, w \in Owners(o)' : y = w
    BY DEF OwnersInv
  <2>1. CASE o = n
    BY <2>1, <1>3
  <2>2. CASE o \in Made
    BY <2>2, <1>2, <1>3 DEF IInv, OwnersInv
  <2>. QED BY <2>1, <2>2, <1>2
<1>8. HeldInv'
  <2>. SUFFICES ASSUME NEW o \in Made', objs'[o].live, objs'[o].kind = "context",
                       NEW u \in objs'[o].uses
                PROVE  /\ objs'[u].kind = "model" =>
                            \E y \in Owners(o)', w \in Owners(u)' : values'[y].borrows = w
                       /\ objs'[u].kind = "sampler" =>
                            \E y \in Owners(o)', w \in Owners(u)' : values'[w].holder = y
    BY DEF HeldInv
  <2>1. CASE o = n
    <3>1. u \in Made /\ objs'[u] = objs[u] /\ Owners(u)' = Owners(u) /\ Owners(o)' = {v}
      BY <2>1, <1>2, <1>3 DEF NewGood
    <3>2. ASSUME objs[u].kind = "model" PROVE values'[v].borrows = b /\ b \in Owners(u)
      BY <2>1, <3>2, <1>2
    <3>3. ASSUME NEW h \in H, h \in Owners(u) PROVE values'[h].holder = v
      BY <3>3, <1>1, <3>1, OwnerFacts DEF Added
    <3>4. ASSUME objs[u].kind = "sampler" PROVE \E h \in H : h \in Owners(u)
      BY <2>1, <3>4, <1>2
    <3>. QED BY <3>1, <3>2, <3>3, <3>4
  <2>2. CASE o \in Made
    <3>1. /\ objs'[o] = objs[o] /\ u \in Made /\ objs'[u] = objs[u]
          /\ Owners(u)' = Owners(u) /\ Owners(o)' = Owners(o)
      BY <2>2, <1>2, <1>3, ObjectFacts
    <3>2. ASSUME NEW w \in ValueIds, values[w] # NoValue, w \notin H
          PROVE  values'[w].borrows = values[w].borrows /\ values'[w].holder = values[w].holder
      BY <3>2, <1>1 DEF Added
    <3>3. ASSUME NEW w \in ValueIds, values[w] # NoValue
          PROVE  values'[w].borrows = values[w].borrows
      BY <3>3, <1>1 DEF Added
    <3>4. ASSUME objs[u].kind = "model"
          PROVE  \E y \in Owners(o), w \in Owners(u) : values'[y].borrows = w
      BY <2>2, <3>1, <3>3, <3>4, OwnerFacts DEF IInv, HeldInv
    <3>5. ASSUME objs[u].kind = "sampler"
          PROVE  \E y \in Owners(o), w \in Owners(u) : values'[w].holder = y
      <4>1. PICK y \in Owners(o), w \in Owners(u) : values[w].holder = y
        BY <2>2, <3>1, <3>5 DEF IInv, HeldInv
      <4>2. y # 0 /\ w \in ValueIds /\ values[w] # NoValue
        BY <4>1, <2>2, <3>1, OwnerFacts, ValueFacts
      <4>. QED BY <4>1, <4>2, <3>2
    <3>. QED BY <3>1, <3>4, <3>5
  <2>. QED BY <2>1, <2>2, <1>2
<1>9. DecoderInv'
  <2>. SUFFICES ASSUME NEW o \in Made', objs'[o].live, objs'[o].kind = "mtp",
                       NEW u \in objs'[o].uses, <<o, u>> \notin exchanged'
                PROVE  \E y \in Owners(o)', w \in Owners(u)' : values'[w].holder = y
    BY DEF DecoderInv
  <2>1. CASE o = n
    <3>1. u \in Made /\ Owners(u)' = Owners(u) /\ Owners(o)' = {v}
      BY <2>1, <1>2, <1>3 DEF NewGood
    <3>2. PICK h \in H : h \in Owners(u)
      BY <2>1, <1>2
    <3>3. values'[h].holder = v
      BY <3>1, <3>2, <1>1, OwnerFacts DEF Added
    <3>. QED BY <3>1, <3>2, <3>3
  <2>2. CASE o \in Made
    <3>1. /\ objs'[o] = objs[o] /\ u \in Made /\ Owners(u)' = Owners(u)
          /\ Owners(o)' = Owners(o) /\ <<o, u>> \notin exchanged
      BY <2>2, <1>2, <1>3, ObjectFacts
    <3>2. PICK y \in Owners(o), w \in Owners(u) : values[w].holder = y
      BY <2>2, <3>1 DEF IInv, DecoderInv
    <3>3. y # 0 /\ w \in ValueIds /\ values[w] # NoValue /\ w # v
      BY <3>2, <2>2, <3>1, OwnerFacts, ValueFacts
    <3>4. w \notin H
      BY <3>2, <3>3
    <3>5. values'[w].holder = y
      BY <3>2, <3>3, <3>4, <1>1 DEF Added
    <3>. QED BY <3>1, <3>2, <3>5
  <2>. QED BY <2>1, <2>2, <1>2
<1>10. BitmapInv'
  <2>. SUFFICES ASSUME NEW o \in Made', o \notin cloned', objs'[o].kind = "bitmap",
                       NEW y \in Owners(o)', NEW w \in Owners(o)'
                PROVE  objs'[o].live /\ y = w
    BY DEF BitmapInv
  <2>1. CASE o = n
    BY <2>1, <1>2, <1>3 DEF NewGood
  <2>2. CASE o \in Made
    BY <2>2, <1>2, <1>3 DEF IInv, BitmapInv
  <2>. QED BY <2>1, <2>2, <1>2
<1>. QED BY <1>1, <1>5, <1>6, <1>7, <1>8, <1>9, <1>10 DEF IInv


-----------------------------------------------------------------------------
(* Objects stay, values change                                             *)

\* A value is kept as it is but for who holds it, which does not change for a
\* sampler, and not for what a decoder holds unless that is counted as exchanged; a
\* new one is for a bitmap that counts as cloned, or for a chunk that it does not free.
Revalues ==
  /\ UNCHANGED <<objs, made, abandoned>>
  /\ exchanged' \subseteq Ids \X Ids
  /\ cloned \subseteq cloned' /\ cloned' \subseteq Ids
  /\ aborted' \in {"no"} \cup Aborts
  /\ values' \in [ValueIds -> Value \cup {NoValue}]
  /\ \A w \in ValueIds : values[w] # NoValue =>
       /\ values'[w] # NoValue
       /\ values'[w].ptr = values[w].ptr /\ values'[w].owned = values[w].owned
       /\ values'[w].borrows = values[w].borrows
       /\ objs[Ptr(w)].kind = "sampler" => values'[w].holder = values[w].holder
  /\ \A o \in Made : \A w \in ValueIds :
       values[w] # NoValue /\ values[w].holder \in Owners(o) =>
         values'[w].holder = values[w].holder \/ <<o, Ptr(w)>> \in exchanged'
  /\ \A o, u \in Made : <<o, u>> \in exchanged \ exchanged' =>
       \E v \in Owners(o), w \in Owners(u) : values'[w].holder = v
  /\ \A w \in ValueIds : values[w] = NoValue /\ values'[w] # NoValue =>
       /\ values'[w].ptr \in Made
       /\ values'[w].owned =>
            /\ objs[values'[w].ptr].kind = "bitmap" /\ objs[values'[w].ptr].parent = 0
            /\ values'[w].ptr \notin abandoned /\ values'[w].ptr \in cloned'
       /\ ~values'[w].owned => objs[values'[w].ptr].kind = "chunk"

LEMMA RevaluesStep == IInv /\ Revalues => IInv'
<1>. SUFFICES ASSUME IInv, Revalues PROVE IInv'
  OBVIOUS
<1>1. objs' = objs /\ made' = made /\ abandoned' = abandoned /\ Made' = Made
  BY DEF Revalues, Made
<1>2. ASSUME NEW w \in ValueIds, values[w] # NoValue
      PROVE  /\ values'[w] # NoValue
             /\ values'[w].ptr = values[w].ptr /\ values'[w].owned = values[w].owned
             /\ values'[w].borrows = values[w].borrows
             /\ objs[values[w].ptr].kind = "sampler" => values'[w].holder = values[w].holder
  BY <1>2 DEF Revalues, Ptr
<1>3. ASSUME NEW w \in ValueIds, values[w] = NoValue, values'[w] # NoValue
      PROVE  /\ values'[w].ptr \in Made
             /\ values'[w].owned =>
                  /\ objs[values'[w].ptr].kind = "bitmap" /\ objs[values'[w].ptr].parent = 0
                  /\ values'[w].ptr \notin abandoned /\ values'[w].ptr \in cloned'
             /\ ~values'[w].owned => objs[values'[w].ptr].kind = "chunk"
  BY <1>3 DEF Revalues
<1>4. ASSUME NEW o \in Made, NEW w \in Owners(o) PROVE w \in Owners(o)'
  BY <1>2, <1>4 DEF Owners
<1>5. ASSUME NEW o \in Made, objs[o].kind # "bitmap" \/ o \notin cloned', NEW w \in Owners(o)'
      PROVE  w \in Owners(o)
  BY <1>2, <1>3, <1>5 DEF Owners
<1>6. TypeOK'
  <2>1. ASSUME NEW v \in ValueIds, values'[v] # NoValue PROVE values'[v].ptr <= made
    <3>1. values'[v].ptr \in Made
      BY <2>1, <1>2, <1>3, ValueFacts
    <3>. QED BY <3>1, Numbers DEF Made
  <2>2. values' \in [ValueIds -> Value \cup {NoValue}]
    BY DEF Revalues
  <2>3. /\ exchanged' \subseteq Ids \X Ids /\ cloned' \subseteq Ids
        /\ aborted' \in {"no"} \cup Aborts
    BY DEF Revalues
  <2>. QED BY <1>1, <2>1, <2>2, <2>3 DEF IInv, TypeOK
<1>7. ObjectsInv'
  BY <1>1 DEF IInv, ObjectsInv
<1>8. ValuesInv'
  <2>. SUFFICES ASSUME NEW w \in ValueIds, values'[w] # NoValue
                PROVE  /\ values'[w].owned =>
                            /\ objs[values'[w].ptr].parent = 0
                            /\ values'[w].ptr \notin abandoned
                            /\ \/ objs[values'[w].ptr].live
                               \/ objs[values'[w].ptr].kind = "bitmap"
                       /\ ~values'[w].owned => objs[values'[w].ptr].kind = "chunk"
    BY <1>1 DEF ValuesInv, Ptr
  <2>1. CASE values[w] # NoValue
    BY <2>1, <1>2 DEF IInv, ValuesInv, Ptr
  <2>2. CASE values[w] = NoValue
    BY <2>2, <1>3
  <2>. QED BY <2>1, <2>2
<1>9. OwnersInv'
  <2>. SUFFICES ASSUME NEW o \in Made
                PROVE  /\ objs[o].live /\ objs[o].parent = 0 /\ o \notin abandoned =>
                            Owners(o)' # {}
                       /\ objs[o].kind # "bitmap" => \A y, w \in Owners(o)' : y = w
    BY <1>1 DEF OwnersInv
  <2>. QED BY <1>4, <1>5 DEF IInv, OwnersInv
<1>10. HeldInv'
  <2>. SUFFICES ASSUME NEW o \in Made, objs[o].live, objs[o].kind = "context",
                       NEW u \in objs[o].uses
                PROVE  /\ objs[u].kind = "model" =>
                            \E y \in Owners(o)', w \in Owners(u)' : values'[y].borrows = w
                       /\ objs[u].kind = "sampler" =>
                            \E y \in Owners(o)', w \in Owners(u)' : values'[w].holder = y
    BY <1>1 DEF HeldInv
  <2>1. u \in Made
    BY ObjectFacts
  <2>2. ASSUME objs[u].kind = "model"
        PROVE  \E y \in Owners(o)', w \in Owners(u)' : values'[y].borrows = w
    <3>1. PICK y \in Owners(o), w \in Owners(u) : values[y].borrows = w
      BY <2>2 DEF IInv, HeldInv
    <3>2. values'[y].borrows = w
      BY <3>1, <1>2, OwnerFacts
    <3>. QED BY <3>1, <3>2, <2>1, <1>4
  <2>3. ASSUME objs[u].kind = "sampler"
        PROVE  \E y \in Owners(o)', w \in Owners(u)' : values'[w].holder = y
    <3>1. PICK y \in Owners(o), w \in Owners(u) : values[w].holder = y
      BY <2>3 DEF IInv, HeldInv
    <3>2. values'[w].holder = y
      BY <2>1, <2>3, <3>1, <1>2, OwnerFacts
    <3>. QED BY <3>1, <3>2, <2>1, <1>4
  <2>. QED BY <2>2, <2>3
<1>11. DecoderInv'
  <2>. SUFFICES ASSUME NEW o \in Made, objs[o].live, objs[o].kind = "mtp",
                       NEW u \in objs[o].uses, <<o, u>> \notin exchanged'
                PROVE  \E y \in Owners(o)', w \in Owners(u)' : values'[w].holder = y
    BY <1>1 DEF DecoderInv
  <2>1. u \in Made
    BY ObjectFacts
  <2>2. CASE <<o, u>> \in exchanged
    <3>1. PICK y \in Owners(o), w \in Owners(u) : values'[w].holder = y
      BY <2>1, <2>2 DEF Revalues
    <3>. QED BY <2>1, <3>1, <1>4
  <2>3. CASE <<o, u>> \notin exchanged
    <3>1. PICK y \in Owners(o), w \in Owners(u) : values[w].holder = y
      BY <2>3 DEF IInv, DecoderInv
    <3>2. w \in ValueIds /\ values[w] # NoValue /\ Ptr(w) = u
      BY <2>1, <3>1, OwnerFacts DEF Ptr
    <3>3. values'[w].holder = y
      BY <3>1, <3>2 DEF Revalues
    <3>. QED BY <3>1, <3>3, <2>1, <1>4
  <2>. QED BY <2>2, <2>3
<1>12. BitmapInv'
  <2>. SUFFICES ASSUME NEW o \in Made, o \notin cloned', objs[o].kind = "bitmap",
                       NEW y \in Owners(o)', NEW w \in Owners(o)'
                PROVE  objs[o].live /\ y = w
    BY <1>1 DEF BitmapInv
  <2>1. y \in Owners(o) /\ w \in Owners(o) /\ o \notin cloned
    BY <1>5 DEF Revalues
  <2>. QED BY <2>1 DEF IInv, BitmapInv
<1>. QED BY <1>6, <1>7, <1>8, <1>9, <1>10, <1>11, <1>12 DEF IInv

\* The values of live objects that the caller may use.
LEMMA HeldFacts ==
  ASSUME IInv, NEW kind, NEW v \in ValuesOf(kind)
  PROVE  /\ v \in ValueIds /\ values[v] # NoValue /\ values[v].holder = 0
         /\ Ptr(v) \in Made /\ objs[Ptr(v)].kind = kind
         /\ kind # "chunk" => values[v].owned /\ v \in Owners(Ptr(v))
         /\ kind \notin {"bitmap", "chunk"} => objs[Ptr(v)].live
<1>1. v \in ValueIds /\ values[v] # NoValue /\ values[v].holder = 0 /\ objs[Ptr(v)].kind = kind
  BY DEF ValuesOf, Is, Held, Ptr
<1>2. kind # "chunk" => values[v].owned
  BY <1>1 DEF IInv, ValuesInv
<1>3. Ptr(v) \in Made
  BY <1>1, ValueFacts DEF Ptr
<1>4. kind # "chunk" => v \in Owners(Ptr(v))
  BY <1>1, <1>2 DEF Owners, Ptr
<1>. QED BY <1>1, <1>2, <1>3, <1>4, OwnerFacts

LEMMA FallingStep ==
  ASSUME IInv, NEW S \in SUBSET ValueIds, \A s \in S : values[s] # NoValue,
         values' = Falling(S), UNCHANGED <<objs, made, history>>
  PROVE  IInv'
<1>1. ASSUME NEW w \in ValueIds
      PROVE  /\ values'[w] \in Value \cup {NoValue}
             /\ values[w] = NoValue => values'[w] = NoValue
             /\ values[w] # NoValue =>
                  /\ values'[w] # NoValue
                  /\ values'[w].ptr = values[w].ptr /\ values'[w].owned = values[w].owned
                  /\ values'[w].borrows = values[w].borrows
                  /\ values'[w].holder = values[w].holder
  <2>1. CASE w \notin S
    BY <2>1 DEF Falling, IInv, TypeOK
  <2>2. CASE w \in S
    <3>1. values[w] \in Value /\ values[w] # NoValue
      BY <2>2, ValueFacts
    <3>2. values'[w] = [values[w] EXCEPT !.falling = TRUE]
      BY <2>2 DEF Falling
    <3>3. values'[w] \in Value
      BY <3>1, <3>2 DEF Value
    <3>4. /\ values'[w].ptr = values[w].ptr /\ values'[w].owned = values[w].owned
          /\ values'[w].borrows = values[w].borrows /\ values'[w].holder = values[w].holder
      BY <3>1, <3>2 DEF Value
    <3>5. values'[w] # NoValue
      <4>1. values'[w].ptr # 0 /\ NoValue.ptr = 0
        BY <3>1, <3>4, OwnershipAssumption DEF Value, Ids, NoValue, OwnershipAssumption
      <4>. QED BY <4>1
    <3>. QED BY <3>1, <3>3, <3>4, <3>5
  <2>. QED BY <2>1, <2>2
<1>2. values' \in [ValueIds -> Value \cup {NoValue}]
  BY <1>1 DEF Falling
<1>3. Revalues
  BY <1>1, <1>2 DEF Revalues, IInv, TypeOK, history
<1>. QED BY <1>3, RevaluesStep

\* A call that changes nothing, also if it is the last one.
LEMMA SameStep ==
  ASSUME IInv, UNCHANGED <<objs, made, values, abandoned, exchanged, cloned>>,
         aborted' \in {"no"} \cup Aborts
  PROVE  IInv'
<1>1. Revalues
  BY DEF Revalues, IInv, TypeOK
<1>. QED BY <1>1, RevaluesStep

LEMMA IdleStep == IInv /\ UNCHANGED <<objs, made, values, history>> => IInv'
BY SameStep DEF history, IInv, TypeOK

\* A free place is filled with a value for an object that is there.
LEMMA AnotherStep ==
  ASSUME IInv, NEW v \in ValueIds, values[v] = NoValue, NEW o \in Made, NEW owned \in BOOLEAN,
         values' = [values EXCEPT ![v] = NewValue(o, owned, 0)],
         UNCHANGED <<objs, made, abandoned, exchanged, aborted>>,
         cloned' = IF owned THEN cloned \cup {o} ELSE cloned,
         owned => objs[o].kind = "bitmap" /\ objs[o].parent = 0 /\ o \notin abandoned,
         ~owned => objs[o].kind = "chunk"
  PROVE  IInv'
<1>1. values \in [ValueIds -> Value \cup {NoValue}]
  BY DEF IInv, TypeOK
<1>2. o \in Ids
  BY ObjectFacts
<1>3. NewValue(o, owned, 0) \in Value
  BY <1>2, OwnershipAssumption DEF NewValue, Value, OwnershipAssumption
<1>4. values' \in [ValueIds -> Value \cup {NoValue}]
  BY <1>1, <1>3
<1>5. values'[v].ptr = o /\ values'[v].owned = owned
  BY <1>1 DEF NewValue
<1>6. \A w \in ValueIds : w # v => values'[w] = values[w]
  BY <1>1
<1>7. /\ exchanged' \subseteq Ids \X Ids /\ cloned \subseteq cloned' /\ cloned' \subseteq Ids
      /\ aborted' \in {"no"} \cup Aborts
  BY <1>2 DEF IInv, TypeOK
<1>8. Revalues
  BY <1>4, <1>5, <1>6, <1>7 DEF Revalues
<1>. QED BY <1>8, RevaluesStep

LEMMA CloneBitmapStep ==
  ASSUME IInv, NEW b \in ValuesOf("bitmap"), CloneBitmap(b)
  PROVE  IInv'
<1>1. PICK v \in ValueIds : Vacant(v) /\ values' = [values EXCEPT ![v] = NewValue(Ptr(b), TRUE, 0)]
  BY DEF CloneBitmap
<1>2. /\ UNCHANGED <<objs, made, abandoned, exchanged, aborted>> /\ values[v] = NoValue
      /\ cloned' = cloned \cup {Ptr(b)}
  BY <1>1 DEF CloneBitmap, Vacant
<1>3. b \in Owners(Ptr(b)) /\ Ptr(b) \in Made /\ objs[Ptr(b)].kind = "bitmap"
  BY HeldFacts
<1>4. objs[Ptr(b)].parent = 0 /\ Ptr(b) \notin abandoned
  BY <1>3, OwnerFacts
<1>. QED BY <1>1, <1>2, <1>3, <1>4, AnotherStep

LEMMA GetChunkStep ==
  ASSUME IInv, NEW c \in ValuesOf("chunks"), GetChunk(c)
  PROVE  IInv'
<1>1. Ptr(c) \in Made /\ objs[Ptr(c)].kind = "chunks"
  BY HeldFacts
<1>2. PICK o \in objs[Ptr(c)].uses, v \in ValueIds :
        Vacant(v) /\ values' = [values EXCEPT ![v] = NewValue(o, FALSE, 0)]
  BY DEF GetChunk
<1>3. UNCHANGED <<objs, made, abandoned, exchanged, cloned, aborted>> /\ values[v] = NoValue
  BY <1>2 DEF GetChunk, Vacant, history
<1>4. o \in Made
  BY <1>1, <1>2, ObjectFacts
<1>5. <<objs[Ptr(c)].kind, objs[o].kind>> \in Pointers
  BY <1>1, <1>2 DEF IInv, ObjectsInv
<1>6. objs[o].kind = "chunk"
  BY <1>1, <1>5 DEF Pointers
<1>. QED BY <1>2, <1>3, <1>4, <1>6, AnotherStep

LEMMA ReplaceContextStep ==
  ASSUME IInv, NEW p \in ValuesOf("mtp"), NEW inner \in ValueIds,
         NEW c \in ValuesOf("context"), ReplaceContext(p, inner, c)
  PROVE  IInv'
<1>1. /\ values[inner] # NoValue /\ values[inner].holder = p
      /\ objs[Ptr(inner)].kind = "context"
      /\ values' = [values EXCEPT ![inner].holder = 0, ![c].holder = p]
      /\ exchanged' = (exchanged \cup {<<Ptr(p), Ptr(inner)>>}) \ {<<Ptr(p), Ptr(c)>>}
      /\ UNCHANGED <<objs, made, abandoned, cloned, aborted>>
  BY DEF ReplaceContext, Ptr
<1>2. /\ c \in ValueIds /\ values[c] # NoValue /\ objs[Ptr(c)].kind = "context"
      /\ p \in ValueIds
  BY HeldFacts
<1>3. values[c] \in Value /\ values[inner] \in Value /\ 0 \in 0 .. MaxValues /\ p \in 0 .. MaxValues
  BY <1>1, <1>2, ValueFacts, OwnershipAssumption DEF ValueIds, OwnershipAssumption
<1>4. values \in [ValueIds -> Value \cup {NoValue}]
  BY DEF IInv, TypeOK
<1>5. ASSUME NEW w \in ValueIds, w \notin {inner, c} PROVE values'[w] = values[w]
  BY <1>1, <1>4, <1>5
<1>6. ASSUME NEW w \in {inner, c}
      PROVE  \E h \in {0, p} : values'[w] = [values[w] EXCEPT !.holder = h]
  <2>1. CASE w = c /\ c # inner
    BY <2>1, <1>1, <1>2, <1>3, <1>4
  <2>2. CASE w = inner /\ c # inner
    BY <2>2, <1>1, <1>2, <1>3, <1>4
  <2>3. CASE w = c /\ c = inner
    <3>1. values'[c] = [[values[c] EXCEPT !.holder = 0] EXCEPT !.holder = p]
      BY <2>3, <1>1, <1>2, <1>4
    <3>2. [[values[c] EXCEPT !.holder = 0] EXCEPT !.holder = p]
             = [values[c] EXCEPT !.holder = p]
      BY <1>3 DEF Value
    <3>. QED BY <2>3, <3>1, <3>2
  <2>. QED BY <2>1, <2>2, <2>3
<1>7. ASSUME NEW w \in {inner, c}
      PROVE  /\ values'[w] \in Value /\ values[w] # NoValue /\ values'[w] # NoValue
             /\ objs[Ptr(w)].kind # "sampler"
             /\ values'[w].ptr = values[w].ptr /\ values'[w].owned = values[w].owned
             /\ values'[w].borrows = values[w].borrows
  <2>1. PICK h \in {0, p} : values'[w] = [values[w] EXCEPT !.holder = h]
    BY <1>6
  <2>2. values[w] \in Value /\ values[w] # NoValue /\ objs[Ptr(w)].kind # "sampler"
    BY <1>1, <1>2, <1>3
  <2>3. values'[w] \in Value
    BY <2>1, <2>2, <1>3 DEF Value
  <2>4. /\ values'[w].ptr = values[w].ptr /\ values'[w].owned = values[w].owned
        /\ values'[w].borrows = values[w].borrows
    BY <2>1, <2>2 DEF Value
  <2>5. values'[w].ptr # 0 /\ NoValue.ptr = 0
    BY <2>2, <2>4, OwnershipAssumption DEF Value, Ids, NoValue, OwnershipAssumption
  <2>6. values'[w] # NoValue
    BY <2>5
  <2>. QED BY <2>2, <2>3, <2>4, <2>6
<1>8. values' \in [ValueIds -> Value \cup {NoValue}]
  <2>1. \A w \in ValueIds : values'[w] \in Value \cup {NoValue}
    BY <1>4, <1>5, <1>7
  <2>2. values' = [w \in ValueIds |-> values'[w]]
    BY <1>1, <1>4
  <2>. QED BY <2>1, <2>2
<1>9. /\ p \in Owners(Ptr(p)) /\ Ptr(p) \in Made /\ p # 0
      /\ c \in Owners(Ptr(c)) /\ Ptr(c) \in Made /\ values[c].holder = 0
  BY HeldFacts, ValueFacts
<1>10. inner \in Owners(Ptr(inner)) /\ Ptr(inner) \in Made
  BY <1>1, ValueFacts DEF IInv, ValuesInv, Owners, Ptr
<1>11. inner # c /\ Ptr(inner) # Ptr(c)
  BY <1>1, <1>9, <1>10, OwnerFacts
<1>12. values'[c].holder = p
  BY <1>1, <1>2, <1>3, <1>4, <1>11 DEF Value
<1>13. ASSUME NEW o \in Made, NEW w \in ValueIds, values[w] # NoValue,
              values[w].holder \in Owners(o)
       PROVE  values'[w].holder = values[w].holder \/ <<o, Ptr(w)>> \in exchanged'
  <2>1. CASE w = inner
    <3>1. o = Ptr(p)
      BY <2>1, <1>1, <1>13, OwnerFacts DEF Ptr
    <3>. QED BY <2>1, <3>1, <1>1, <1>11
  <2>2. w # c
    BY <1>9, <1>13, OwnerFacts, ValueFacts
  <2>. QED BY <2>1, <2>2, <1>5
<1>14. ASSUME NEW o \in Made, NEW u \in Made, <<o, u>> \in exchanged \ exchanged'
       PROVE  \E v \in Owners(o), w \in Owners(u) : values'[w].holder = v
  <2>1. o = Ptr(p) /\ u = Ptr(c)
    BY <1>1, <1>14
  <2>. QED BY <2>1, <1>9, <1>12
<1>15. /\ exchanged' \subseteq Ids \X Ids /\ cloned' \subseteq Ids
       /\ aborted' \in {"no"} \cup Aborts
  <2>1. <<Ptr(p), Ptr(inner)>> \in Ids \X Ids
    BY <1>9, <1>10, MadeIds
  <2>. QED BY <2>1, <1>1 DEF IInv, TypeOK
<1>16. Revalues
  BY <1>1, <1>2, <1>5, <1>7, <1>8, <1>13, <1>14, <1>15 DEF Revalues
<1>. QED BY <1>16, RevaluesStep


-----------------------------------------------------------------------------
(* The constructors of one object                                          *)

LEMMA OneNew ==
  ASSUME NEW x, NEW v \in ValueIds, NEW b, IInv, made < MaxObjects, made' = made + 1,
         objs' = [objs EXCEPT ![made + 1] = x],
         values' = [values EXCEPT ![v] = NewValue(made + 1, TRUE, b)], UNCHANGED history
  PROVE  Adds(x, v, b, {})
<1>1. values \in [ValueIds -> Value \cup {NoValue}]
  BY DEF IInv, TypeOK
<1>2. values' = [w \in ValueIds |-> IF w = v THEN NewValue(made + 1, TRUE, b)
                                   ELSE values[w]]
  BY <1>1
<1>. QED BY <1>2 DEF Adds

LEMMA CreateOne ==
  ASSUME IInv, NEW x, NEW b, Create(<<x>>, b), UNCHANGED history
  PROVE  \E v \in ValueIds : values[v] = NoValue /\ Adds(x, v, b, {})
<1>1. Cardinality(DOMAIN <<x>>) = 1
  <2>1. DOMAIN <<x>> = {1}
    OBVIOUS
  <2>. QED BY <2>1, FS_Singleton
<1>2. made + 1 <= MaxObjects /\ made' = made + 1
  BY <1>1 DEF Create
<1>3. objs' = [o \in Ids |-> IF o > made /\ o <= made' THEN <<x>>[o - made] ELSE objs[o]]
  BY DEF Create
<1>4. objs \in [Ids -> Object \cup {NoObject}] /\ made \in Nat /\ MaxObjects \in Nat
  BY Numbers DEF IInv, TypeOK
<1>5. objs' = [objs EXCEPT ![made + 1] = x]
  <2>1. ASSUME NEW o \in Ids
        PROVE  (IF o > made /\ o <= made' THEN <<x>>[o - made] ELSE objs[o]) =
               IF o = made + 1 THEN x ELSE objs[o]
    BY <1>2, <1>4 DEF Ids
  <2>2. objs' = [o \in Ids |-> IF o = made + 1 THEN x ELSE objs[o]]
    BY <1>3, <2>1
  <2>. QED BY <1>4, <2>2
<1>6. PICK v \in ValueIds :
        Vacant(v) /\ values' = [values EXCEPT ![v] = NewValue(made + 1, TRUE, b)]
  BY DEF Create
<1>7. made < MaxObjects
  BY <1>2, <1>4
<1>. QED BY <1>2, <1>5, <1>6, <1>7, OneNew DEF Vacant

\* A call that creates an object that points to none of the contexts' kind.
LEMMA CreateStep ==
  ASSUME IInv, NEW x, NewGood(x), NEW b \in 0 .. MaxValues, Create(<<x>>, b),
         UNCHANGED history,
         x.kind = "context" =>
           \A u \in x.uses :
             /\ objs[u].kind = "model" => b \in Owners(u)
             /\ objs[u].kind # "sampler",
         x.kind # "mtp"
  PROVE  IInv'
<1>1. PICK v \in ValueIds : values[v] = NoValue /\ Adds(x, v, b, {})
  BY CreateOne
<1>. QED BY <1>1, AddStep

LEMMA NativeObject ==
  ASSUME NEW kind \in Kinds, NEW uses \in SUBSET Ids
  PROVE  /\ native(kind, uses) \in Object
         /\ native(kind, uses).live /\ native(kind, uses).parent = 0
         /\ native(kind, uses).uses = uses /\ native(kind, uses).kind = kind
BY OwnershipAssumption DEF native, Object, OwnershipAssumption

LEMMA SamplerObject ==
  ASSUME NEW uses \in SUBSET Ids, NEW clones \in BOOLEAN, NEW selects \in BOOLEAN
  PROVE  /\ sampler(uses, clones, selects) \in Object
         /\ sampler(uses, clones, selects).live /\ sampler(uses, clones, selects).parent = 0
         /\ sampler(uses, clones, selects).uses = uses
         /\ sampler(uses, clones, selects).kind = "sampler"
<1>. DEFINE r == native("sampler", uses)
<1>1. r \in Object /\ r.live /\ r.parent = 0 /\ r.uses = uses /\ r.kind = "sampler"
  BY NativeObject DEF Kinds
<1>. HIDE DEF r
<1>. DEFINE q == [r EXCEPT !.clones = clones]
<1>2. q \in Object /\ q.live /\ q.parent = 0 /\ q.uses = uses /\ q.kind = "sampler"
  BY <1>1 DEF Object
<1>. HIDE DEF q
<1>3. [q EXCEPT !.selects = selects] = sampler(uses, clones, selects)
  BY DEF q, r, sampler
<1>. QED BY <1>2, <1>3 DEF Object

\* A value's object is made of nothing, and points nowhere or to that of a value v.
LEMMA FreshGood ==
  ASSUME IInv, NEW kind \in Kinds
  PROVE  /\ NewGood(native(kind, {}))
         /\ native(kind, {}).kind = kind /\ native(kind, {}).uses = {}
BY NativeObject DEF NewGood

LEMMA SamplerGood ==
  ASSUME IInv, NEW clones \in BOOLEAN, NEW selects \in BOOLEAN
  PROVE  /\ NewGood(sampler({}, clones, selects)) /\ sampler({}, clones, selects).kind = "sampler"
         /\ \A m \in ValuesOf("model") :
              /\ NewGood(sampler({Ptr(m)}, clones, selects))
              /\ sampler({Ptr(m)}, clones, selects).kind = "sampler"
<1>1. NewGood(sampler({}, clones, selects)) /\ sampler({}, clones, selects).kind = "sampler"
  BY SamplerObject DEF NewGood
<1>2. ASSUME NEW m \in ValuesOf("model")
      PROVE  /\ NewGood(sampler({Ptr(m)}, clones, selects))
             /\ sampler({Ptr(m)}, clones, selects).kind = "sampler"
  <2>1. Ptr(m) \in Made /\ objs[Ptr(m)].kind = "model" /\ {Ptr(m)} \in SUBSET Ids
    BY HeldFacts, MadeIds
  <2>. QED BY <2>1, SamplerObject DEF NewGood, Pointers
<1>. QED BY <1>1, <1>2

LEMMA PlainStep ==
  ASSUME IInv,
         \/ LoadFromFile \/ BitmapFromData \/ NewChunks
         \/ \E x \in ValuesOf("mtmd") : BitmapFromFile(x)
         \/ \E k \in ValuesOf("chunk") : CopyChunk(k)
  PROVE  IInv'
<1>1. ASSUME NEW kind \in Kinds \ {"context", "mtp"}, Create(<<native(kind, {})>>, 0), UNCHANGED history
      PROVE  IInv'
  <2>1. 0 \in 0 .. MaxValues
    BY OwnershipAssumption DEF OwnershipAssumption
  <2>2. NewGood(native(kind, {})) /\ native(kind, {}).kind \notin {"context", "mtp"}
    BY <1>1, FreshGood
  <2>. QED BY <1>1, <2>1, <2>2, CreateStep
<1>2. PICK kind \in {"model", "bitmap", "chunks", "chunk"} :
        Create(<<native(kind, {})>>, 0) /\ UNCHANGED history
  BY DEF LoadFromFile, BitmapFromData, NewChunks, BitmapFromFile, CopyChunk
<1>3. kind \in Kinds \ {"context", "mtp"}
  BY DEF Kinds
<1>. QED BY <1>1, <1>2, <1>3

LEMMA SamplerStep ==
  ASSUME IInv,
         \/ \E clones, selects \in BOOLEAN : InitFilter(clones) \/ InitSelector(clones, selects)
         \/ \E m \in ValuesOf("model") :
              \/ InitDry(m) \/ InitInfill(m)
              \/ \E text \in GrammarTexts : InitGrammar(m, text)
  PROVE  IInv'
<1>1. 0 \in 0 .. MaxValues
  BY OwnershipAssumption DEF OwnershipAssumption
<1>2. ASSUME NEW clones \in BOOLEAN, NEW selects \in BOOLEAN,
             Create(<<sampler({}, clones, selects)>>, 0), UNCHANGED history
      PROVE  IInv'
  <2>1. NewGood(sampler({}, clones, selects)) /\ sampler({}, clones, selects).kind = "sampler"
    BY SamplerGood
  <2>. QED BY <1>1, <1>2, <2>1, CreateStep
<1>3. ASSUME NEW m \in ValuesOf("model"), Create(<<sampler({Ptr(m)}, TRUE, FALSE)>>, 0),
             UNCHANGED history
      PROVE  IInv'
  <2>1. NewGood(sampler({Ptr(m)}, TRUE, FALSE)) /\ sampler({Ptr(m)}, TRUE, FALSE).kind = "sampler"
    BY SamplerGood
  <2>. QED BY <1>1, <1>3, <2>1, CreateStep
<1>4. ASSUME NEW clones \in BOOLEAN, NEW selects \in BOOLEAN,
             InitFilter(clones) \/ InitSelector(clones, selects)
      PROVE  IInv'
  BY <1>2, <1>4 DEF InitFilter, InitSelector
<1>5. ASSUME NEW m \in ValuesOf("model"),
             \/ InitDry(m) \/ InitInfill(m)
             \/ \E text \in GrammarTexts : InitGrammar(m, text)
      PROVE  IInv'
  BY <1>2, <1>3, <1>5 DEF InitDry, InitInfill, InitGrammar
<1>. QED BY <1>4, <1>5

LEMMA ContextStep ==
  ASSUME IInv, NEW m \in ValuesOf("model"),
         NewContext(m) \/ \E other \in ValuesOf("context") : NewContextWithCtxOther(m, other)
  PROVE  IInv'
<1>1. /\ m \in ValueIds /\ m \in Owners(Ptr(m)) /\ Ptr(m) \in Made /\ objs[Ptr(m)].kind = "model"
      /\ m \in 0 .. MaxValues
  BY HeldFacts, OwnershipAssumption DEF ValueIds, OwnershipAssumption
<1>2. ASSUME NEW C \in SUBSET Made, \A u \in C : objs[u].kind = "context",
             Create(<<native("context", {Ptr(m)} \cup C)>>, m), UNCHANGED history
      PROVE  IInv'
  <2>. DEFINE x == native("context", {Ptr(m)} \cup C)
  <2>1. x \in Object /\ x.live /\ x.parent = 0 /\ x.kind = "context" /\ x.uses = {Ptr(m)} \cup C
    BY <1>1, <1>2, NativeObject, MadeIds DEF Kinds
  <2>2. NewGood(x)
    BY <1>1, <1>2, <2>1 DEF NewGood, Pointers
  <2>3. \A u \in x.uses : /\ objs[u].kind = "model" => m \in Owners(u)
                          /\ objs[u].kind # "sampler"
    BY <1>1, <1>2, <2>1
  <2>. HIDE DEF x
  <2>4. Create(<<x>>, m)
    BY <1>2 DEF x
  <2>. QED BY <1>1, <1>2, <2>1, <2>2, <2>3, <2>4, CreateStep
<1>3. CASE NewContext(m)
  <2>1. {Ptr(m)} \cup {} = {Ptr(m)}
    OBVIOUS
  <2>2. Create(<<native("context", {Ptr(m)} \cup {})>>, m) /\ UNCHANGED history
    BY <1>3, <2>1 DEF NewContext
  <2>3. {} \in SUBSET Made /\ \A u \in {} : objs[u].kind = "context"
    OBVIOUS
  <2>. QED BY <1>2, <2>2, <2>3
<1>4. ASSUME NEW other \in ValuesOf("context"), NewContextWithCtxOther(m, other) PROVE IInv'
  <2>1. Ptr(other) \in Made /\ objs[Ptr(other)].kind = "context"
    BY HeldFacts
  <2>2. {Ptr(m)} \cup {Ptr(other)} = {Ptr(m), Ptr(other)}
    OBVIOUS
  <2>. QED BY <1>2, <1>4, <2>1, <2>2 DEF NewContextWithCtxOther
<1>. QED BY <1>3, <1>4

LEMMA InitFromFileStep ==
  ASSUME IInv, NEW m \in ValuesOf("model"), InitFromFile(m)
  PROVE  IInv'
<1>1. Ptr(m) \in Made /\ objs[Ptr(m)].kind = "model" /\ 0 \in 0 .. MaxValues
  BY HeldFacts, OwnershipAssumption DEF OwnershipAssumption
<1>. DEFINE x == native("mtmd", {Ptr(m)})
<1>2. NewGood(x) /\ x.kind = "mtmd"
  BY <1>1, NativeObject, MadeIds DEF NewGood, Pointers, Kinds
<1>3. Create(<<x>>, 0) /\ UNCHANGED history
  BY DEF InitFromFile
<1>. HIDE DEF x
<1>. QED BY <1>1, <1>2, <1>3, CreateStep

LEMMA BackendSamplersStep ==
  ASSUME IInv, NEW m \in ValuesOf("model"), NEW S \in SUBSET ValuesOf("sampler"),
         NewContextWithSamplers(m, S)
  PROVE  IInv'
<1>1. /\ m \in ValueIds /\ m \in Owners(Ptr(m)) /\ Ptr(m) \in Made /\ objs[Ptr(m)].kind = "model"
      /\ m \in 0 .. MaxValues
  BY HeldFacts, OwnershipAssumption DEF ValueIds, OwnershipAssumption
<1>2. ASSUME NEW s \in S
      PROVE  /\ s \in ValueIds /\ values[s] # NoValue /\ values[s].holder = 0
             /\ Ptr(s) \in Made /\ objs[Ptr(s)].kind = "sampler" /\ s \in Owners(Ptr(s))
  BY HeldFacts
<1>3. CASE values' = Falling(S) /\ UNCHANGED <<objs, made, history>>
  BY <1>2, <1>3, FallingStep
<1>4. CASE made < MaxObjects
           /\ made' = made + 1
           /\ objs' = [objs EXCEPT ![made + 1] =
                         native("context", {Ptr(m)} \cup {Ptr(s) : s \in S})]
           /\ UNCHANGED history
           /\ \E v \in ValueIds :
                /\ Vacant(v)
                /\ values' = [w \in ValueIds |->
                                IF w = v THEN NewValue(made + 1, TRUE, m)
                                ELSE IF w \in S THEN [values[w] EXCEPT !.holder = v]
                                ELSE values[w]]
  <2>. DEFINE x == native("context", {Ptr(m)} \cup {Ptr(s) : s \in S})
  <2>1. x \in Object /\ x.live /\ x.parent = 0 /\ x.kind = "context"
        /\ x.uses = {Ptr(m)} \cup {Ptr(s) : s \in S}
    BY <1>1, <1>2, NativeObject, MadeIds DEF Kinds
  <2>2. NewGood(x)
    BY <1>1, <1>2, <2>1 DEF NewGood, Pointers
  <2>3. \A u \in x.uses : /\ objs[u].kind = "model" => m \in Owners(u)
                          /\ objs[u].kind = "sampler" => \E h \in S : h \in Owners(u)
    BY <1>1, <1>2, <2>1
  <2>4. PICK v \in ValueIds : values[v] = NoValue /\ Adds(x, v, m, S)
    BY <1>4 DEF Adds, Vacant
  <2>. HIDE DEF x
  <2>. QED BY <1>1, <1>2, <2>1, <2>2, <2>3, <2>4, AddStep
<1>. QED BY <1>3, <1>4 DEF NewContextWithSamplers

LEMMA NewMtpStep ==
  ASSUME IInv, NEW t \in ValuesOf("context"), NEW d \in ValuesOf("context"), NewMtp(t, d)
  PROVE  IInv'
<1>1. ASSUME NEW s \in {t, d}
      PROVE  /\ s \in ValueIds /\ values[s] # NoValue /\ values[s].holder = 0
             /\ Ptr(s) \in Made /\ objs[Ptr(s)].kind = "context" /\ s \in Owners(Ptr(s))
  BY HeldFacts
<1>2. CASE values' = Falling({t, d}) /\ UNCHANGED <<objs, made, history>>
  BY <1>1, <1>2, FallingStep
<1>3. CASE made < MaxObjects
           /\ made' = made + 1
           /\ objs' = [objs EXCEPT ![made + 1] = native("mtp", {Ptr(t), Ptr(d)})]
           /\ UNCHANGED history
           /\ \E v \in ValueIds :
                /\ Vacant(v)
                /\ values' = [w \in ValueIds |->
                     IF w = v THEN NewValue(made + 1, TRUE, 0)
                     ELSE IF w \in {t, d} THEN [values[w] EXCEPT !.holder = v]
                     ELSE values[w]]
  <2>. DEFINE x == native("mtp", {Ptr(t), Ptr(d)})
  <2>1. NewGood(x) /\ x.kind = "mtp" /\ x.uses = {Ptr(t), Ptr(d)}
    BY <1>1, NativeObject, MadeIds DEF NewGood, Pointers, Kinds
  <2>2. PICK v \in ValueIds : values[v] = NoValue /\ Adds(x, v, 0, {t, d})
    BY <1>3 DEF Adds, Vacant
  <2>3. 0 \in 0 .. MaxValues
    BY OwnershipAssumption DEF OwnershipAssumption
  <2>. HIDE DEF x
  <2>. QED BY <1>1, <2>1, <2>2, <2>3, AddStep
<1>. QED BY <1>2, <1>3 DEF NewMtp


-----------------------------------------------------------------------------
(* Several new objects, some to which old samplers may belong from now on  *)

\* New objects; the samplers P belong to the new object top, their values are gone.
Grows(P, top) ==
  /\ P \subseteq Made /\ Made \subseteq Made'
  /\ P # {} => top \in Made' \ Made
  /\ \A o \in P : /\ objs[o].live /\ objs[o].kind = "sampler"
                  /\ \E s \in Owners(o) : values[s].holder = 0
  /\ \A o \in Made : objs'[o] = IF o \in P THEN [objs[o] EXCEPT !.parent = top] ELSE objs[o]
  /\ \A w \in ValueIds : values[w] # NoValue /\ values[w].ptr \notin P => values'[w] = values[w]
  /\ \A w \in ValueIds : values'[w] # NoValue =>
       \/ values[w] # NoValue /\ values[w].ptr \notin P /\ values'[w] = values[w]
       \/ /\ values'[w].owned /\ values'[w].ptr \in Made' \ Made
          /\ objs'[values'[w].ptr].parent = 0 /\ values'[w].ptr \notin abandoned'
  /\ UNCHANGED <<exchanged, cloned>> /\ abandoned \subseteq abandoned'
  /\ \A o \in abandoned' \cap Made : o \in abandoned \/ objs'[o].parent # 0

\* The new object n.
Grown(n) ==
  /\ objs'[n].live /\ objs'[n].kind \notin {"context", "mtp"}
  /\ objs'[n].uses \subseteq Made' /\ objs'[n].parent \in {0} \cup (Made' \ Made)
  /\ objs'[n].parent # 0 => objs'[n].kind \in {"sampler", "matcher", "chunk"}
  /\ \A u \in objs'[n].uses :
       /\ <<objs'[n].kind, objs'[u].kind>> \in Pointers
       /\ objs'[n].kind \in {"sampler", "chunks"} /\ objs'[u].kind # "model" => objs'[u].parent = n
  /\ objs'[n].parent = 0 /\ n \notin abandoned' => Owners(n)' # {}
  /\ \A v, w \in Owners(n)' : v = w

LEMMA GrowStep ==
  ASSUME IInv, TypeOK', NEW P, NEW top, Grows(P, top), \A n \in Made' \ Made : Grown(n)
  PROVE  IInv'
<1>1. ASSUME NEW o \in Made
      PROVE  /\ o \notin P => objs'[o] = objs[o]
             /\ o \in P => objs'[o].parent = top /\ objs[o].parent = 0 /\ objs[o].kind = "sampler"
             /\ objs'[o].live = objs[o].live /\ objs'[o].kind = objs[o].kind
             /\ objs'[o].uses = objs[o].uses
  <2>1. CASE o \in P
    <3>1. objs[o] \in Object /\ objs'[o] = [objs[o] EXCEPT !.parent = top]
      BY <2>1, ObjectFacts DEF Grows
    <3>2. objs[o].kind = "sampler" /\ objs[o].parent = 0
      BY <2>1, OwnerFacts DEF Grows
    <3>. QED BY <2>1, <3>1, <3>2 DEF Object
  <2>2. CASE o \notin P
    BY <2>2 DEF Grows
  <2>. QED BY <2>1, <2>2
<1>2. Made \subseteq Made' /\ P \subseteq Made /\ abandoned \subseteq abandoned'
  BY DEF Grows
<1>3. ASSUME NEW o \in Made PROVE Owners(o)' \subseteq Owners(o)
  <2>. SUFFICES ASSUME NEW w \in ValueIds, values'[w] # NoValue, values'[w].ptr = o,
                       values'[w].owned
                PROVE  w \in Owners(o)
    BY DEF Owners
  <2>. QED BY <1>3 DEF Grows, Owners
<1>4. ASSUME NEW o \in Made, o \notin P
      PROVE  /\ Owners(o)' = Owners(o)
             /\ \A w \in Owners(o) : values'[w] = values[w]
  <2>1. \A w \in Owners(o) : values'[w] = values[w] /\ w \in Owners(o)'
    BY <1>4 DEF Grows, Owners
  <2>. QED BY <2>1, <1>3
<1>5. ObjectsInv'
  <2>. SUFFICES ASSUME NEW o \in Made'
                PROVE  /\ objs'[o].uses \subseteq Made' /\ objs'[o].parent \in {0} \cup Made'
                       /\ ~objs'[o].live => objs'[o].uses = {} /\ objs'[o].parent = 0
                       /\ objs'[o].parent # 0 =>
                            /\ objs'[objs'[o].parent].live
                            /\ objs'[o].kind \in {"sampler", "matcher", "chunk"}
                       /\ \A u \in objs'[o].uses :
                            /\ <<objs'[o].kind, objs'[u].kind>> \in Pointers
                            /\ objs'[o].kind \in {"sampler", "chunks"} /\ objs'[u].kind # "model"
                                 => objs'[u].parent = o
    BY DEF ObjectsInv, Pointers
  <2>1. CASE o \notin Made
    <3>1. Grown(o) /\ \A n \in Made' \ Made : objs'[n].live
      BY <2>1 DEF Grown
    <3>. QED BY <3>1 DEF Grown
  <2>2. CASE o \in Made
    <3>1. /\ objs[o].uses \subseteq Made /\ objs[o].parent \in {0} \cup Made
          /\ ~objs[o].live => objs[o].uses = {} /\ objs[o].parent = 0
          /\ objs[o].parent # 0 =>
               objs[objs[o].parent].live /\ objs[o].kind \in {"sampler", "matcher", "chunk"}
      BY <2>2, ObjectFacts
    <3>2. ASSUME o \in P
          PROVE  /\ objs'[o].parent = top /\ top \in Made' /\ objs'[top].live /\ objs[o].live
                 /\ objs[o].kind = "sampler"
      BY <3>2, <2>2, <1>1 DEF Grows, Grown
    <3>3. ASSUME NEW u \in objs[o].uses
          PROVE  /\ <<objs'[o].kind, objs'[u].kind>> \in Pointers
                 /\ objs'[o].kind \in {"sampler", "chunks"} /\ objs'[u].kind # "model"
                      => objs'[u].parent = o
      <4>1. /\ <<objs[o].kind, objs[u].kind>> \in Pointers
            /\ objs[o].kind \in {"sampler", "chunks"} /\ objs[u].kind # "model"
                 => objs[u].parent = o
        BY <2>2 DEF IInv, ObjectsInv
      <4>2. u \in Made /\ o # 0
        BY <2>2, <3>1, ObjectFacts
      <4>3. objs'[o].kind = objs[o].kind /\ objs'[u].kind = objs[u].kind
        BY <2>2, <4>2, <1>1
      <4>4. objs[u].parent = o => objs'[u].parent = o
        BY <4>2, <1>1
      <4>. QED BY <4>1, <4>3, <4>4
    <3>4. objs[o].parent # 0 /\ o \notin P => objs'[objs'[o].parent].live
      BY <2>2, <3>1, <1>1
    <3>5. objs'[o].uses = objs[o].uses /\ objs'[o].live = objs[o].live /\ objs'[o].kind = objs[o].kind
      BY <2>2, <1>1
    <3>6. o \notin P => objs'[o].parent = objs[o].parent
      BY <2>2, <1>1
    <3>. QED BY <1>2, <3>1, <3>2, <3>3, <3>4, <3>5, <3>6
  <2>. QED BY <2>1, <2>2
<1>6. ValuesInv'
  <2>. SUFFICES ASSUME NEW w \in ValueIds, values'[w] # NoValue
                PROVE  /\ values'[w].owned =>
                            /\ objs'[values'[w].ptr].parent = 0
                            /\ values'[w].ptr \notin abandoned'
                            /\ \/ objs'[values'[w].ptr].live
                               \/ objs'[values'[w].ptr].kind = "bitmap"
                       /\ ~values'[w].owned => objs'[values'[w].ptr].kind = "chunk"
    BY DEF ValuesInv, Ptr
  <2>1. CASE values[w] # NoValue /\ values[w].ptr \notin P /\ values'[w] = values[w]
    <3>1. values[w].ptr \in Made /\ objs'[values[w].ptr] = objs[values[w].ptr]
      BY <2>1, <1>1, ValueFacts
    <3>2. values[w].ptr \in abandoned' => values[w].ptr \in abandoned \/ objs[values[w].ptr].parent # 0
      BY <3>1 DEF Grows
    <3>. QED BY <2>1, <3>1, <3>2 DEF IInv, ValuesInv, Ptr
  <2>2. CASE /\ values'[w].owned /\ values'[w].ptr \in Made' \ Made
             /\ objs'[values'[w].ptr].parent = 0 /\ values'[w].ptr \notin abandoned'
    BY <2>2 DEF Grown
  <2>. QED BY <2>1, <2>2 DEF Grows
<1>7. OwnersInv'
  <2>. SUFFICES ASSUME NEW o \in Made'
                PROVE  /\ objs'[o].live /\ objs'[o].parent = 0 /\ o \notin abandoned' =>
                            Owners(o)' # {}
                       /\ objs'[o].kind # "bitmap" => \A y, w \in Owners(o)' : y = w
    BY DEF OwnersInv
  <2>1. CASE o \notin Made
    BY <2>1 DEF Grown
  <2>2. CASE o \in Made /\ o \notin P
    BY <2>2, <1>1, <1>2, <1>4 DEF IInv, OwnersInv
  <2>3. CASE o \in P
    <3>1. top \in Made' /\ top # 0
      BY <2>3, Numbers DEF Grows, Made
    <3>. QED BY <2>3, <3>1, <1>1, <1>2, <1>3 DEF IInv, OwnersInv
  <2>. QED BY <2>1, <2>2, <2>3
<1>8. HeldInv'
  <2>. SUFFICES ASSUME NEW o \in Made', objs'[o].live, objs'[o].kind = "context",
                       NEW u \in objs'[o].uses
                PROVE  /\ objs'[u].kind = "model" =>
                            \E y \in Owners(o)', w \in Owners(u)' : values'[y].borrows = w
                       /\ objs'[u].kind = "sampler" =>
                            \E y \in Owners(o)', w \in Owners(u)' : values'[w].holder = y
    BY DEF HeldInv
  <2>1. o \in Made
    BY DEF Grown
  <2>2. o \notin P /\ u \in Made /\ objs'[o] = objs[o] /\ objs'[u].kind = objs[u].kind
    <3>1. o \notin P /\ objs'[o] = objs[o]
      BY <2>1, <1>1
    <3>. QED BY <2>1, <3>1, <1>1, ObjectFacts
  <2>3. ASSUME objs[u].kind = "model"
        PROVE  \E y \in Owners(o)', w \in Owners(u)' : values'[y].borrows = w
    <3>1. u \notin P
      BY <2>3 DEF Grows
    <3>. QED BY <2>1, <2>2, <2>3, <3>1, <1>4 DEF IInv, HeldInv
  <2>4. ASSUME objs[u].kind = "sampler"
        PROVE  \E y \in Owners(o)', w \in Owners(u)' : values'[w].holder = y
    <3>1. PICK y \in Owners(o), w \in Owners(u) : values[w].holder = y
      BY <2>1, <2>2, <2>4 DEF IInv, HeldInv
    <3>2. y # 0
      BY <2>1, <3>1, OwnerFacts, ValueFacts
    <3>3. u \notin P
      BY <2>2, <2>4, <3>1, <3>2, OwnerFacts DEF Grows
    <3>. QED BY <2>1, <2>2, <3>1, <3>3, <1>4
  <2>. QED BY <2>2, <2>3, <2>4
<1>9. DecoderInv'
  <2>. SUFFICES ASSUME NEW o \in Made', objs'[o].live, objs'[o].kind = "mtp",
                       NEW u \in objs'[o].uses, <<o, u>> \notin exchanged'
                PROVE  \E y \in Owners(o)', w \in Owners(u)' : values'[w].holder = y
    BY DEF DecoderInv
  <2>1. o \in Made
    BY DEF Grown
  <2>2. o \notin P /\ objs'[o] = objs[o]
    BY <2>1, <1>1
  <2>3. u \in Made /\ <<o, u>> \notin exchanged
    BY <2>1, <2>2, ObjectFacts DEF Grows
  <2>4. PICK y \in Owners(o), w \in Owners(u) : values[w].holder = y
    BY <2>1, <2>2, <2>3 DEF IInv, DecoderInv
  <2>5. u \notin P
    <3>1. <<objs[o].kind, objs[u].kind>> \in Pointers
      BY <2>1, <2>2 DEF IInv, ObjectsInv
    <3>. QED BY <2>2, <2>3, <3>1, <1>1 DEF Pointers
  <2>. QED BY <2>1, <2>2, <2>3, <2>4, <2>5, <1>4
<1>10. BitmapInv'
  <2>. SUFFICES ASSUME NEW o \in Made', o \notin cloned', objs'[o].kind = "bitmap",
                       NEW y \in Owners(o)', NEW w \in Owners(o)'
                PROVE  objs'[o].live /\ y = w
    BY DEF BitmapInv
  <2>1. CASE o \notin Made
    BY <2>1 DEF Grown
  <2>2. CASE o \in Made
    <3>1. o \notin P /\ objs'[o] = objs[o] /\ o \notin cloned
      BY <2>2, <1>1 DEF Grows
    <3>. QED BY <2>2, <3>1, <1>4 DEF IInv, BitmapInv
  <2>. QED BY <2>1, <2>2
<1>. QED BY <1>5, <1>6, <1>7, <1>8, <1>9, <1>10 DEF IInv

\* The place v gets a value for the object n, those of G become free.
Gets(v, n, b, G) ==
  values' = [w \in ValueIds |-> IF w = v THEN NewValue(n, TRUE, b)
                                ELSE IF w \in G THEN NoValue ELSE values[w]]

\* What comes of it.
Got(v, n, G) ==
  /\ values' \in [ValueIds -> Value \cup {NoValue}]
  /\ \A w \in ValueIds : values'[w] # NoValue => values'[w].ptr <= made'
  /\ values'[v] # NoValue /\ values'[v].ptr = n /\ values'[v].owned
  /\ Owners(n)' = {v}
  /\ \A w \in ValueIds \ {v} :
       values'[w] # NoValue => w \notin G /\ values[w] # NoValue /\ values'[w] = values[w]

LEMMA OneValueType ==
  ASSUME IInv, made' \in Nat, made <= made', made' <= MaxObjects, NEW v \in ValueIds,
         NEW n \in Made' \ Made, NEW G \in SUBSET ValueIds, NEW b \in 0 .. MaxValues,
         Gets(v, n, b, G)
  PROVE  Got(v, n, G)
<1>1. made \in Nat /\ MaxObjects \in Nat /\ n \in Ids /\ n \in Nat /\ n # 0 /\ n <= made' /\ n > made
  BY Numbers DEF Made, Ids
<1>2. NewValue(n, TRUE, b) \in Value
  BY <1>1, OwnershipAssumption DEF NewValue, Value, OwnershipAssumption
<1>3. values \in [ValueIds -> Value \cup {NoValue}]
  BY DEF IInv, TypeOK
<1>4. values' \in [ValueIds -> Value \cup {NoValue}]
  BY <1>2, <1>3 DEF Gets
<1>5. values'[v].ptr = n /\ values'[v].owned
  BY DEF NewValue, Gets
<1>6. values'[v] # NoValue
  <2>1. values'[v].ptr # 0 /\ NoValue.ptr = 0
    BY <1>1, <1>5 DEF NoValue
  <2>. QED BY <2>1
<1>7. ASSUME NEW w \in ValueIds \ {v}, values'[w] # NoValue
      PROVE  /\ w \notin G /\ values[w] # NoValue /\ values'[w] = values[w]
             /\ values[w].ptr \in Made
  BY <1>7, ValueFacts DEF Gets
<1>8. ASSUME NEW w \in ValueIds, values'[w] # NoValue PROVE values'[w].ptr <= made'
  <2>1. CASE w = v
    BY <2>1, <1>1, <1>5
  <2>2. CASE w # v
    <3>1. values'[w].ptr \in Made
      BY <2>2, <1>7, <1>8
    <3>2. \A p \in Made : p <= made'
      BY <1>1 DEF Made
    <3>. QED BY <3>1, <3>2
  <2>. QED BY <2>1, <2>2
<1>9. v \in Owners(n)'
  BY <1>5, <1>6 DEF Owners
<1>10. Owners(n)' \subseteq {v}
  BY <1>7 DEF Owners
<1>. QED BY <1>4, <1>5, <1>6, <1>7, <1>8, <1>9, <1>10 DEF Got

\* A new object with one that belongs to it.
LEMMA PairStep ==
  ASSUME IInv, NEW x, NEW y, NEW n, n = made + 1, Create(<<x, y>>, 0), UNCHANGED history,
         n \in Ids /\ n + 1 \in Ids => x \in Object /\ y \in Object,
         x.live /\ x.uses = {n + 1} /\ x.parent = 0,
         y.live /\ y.uses = {} /\ y.parent = n,
         <<x.kind, y.kind>> \in {<<"sampler", "matcher">>, <<"chunks", "chunk">>}
  PROVE  IInv'
<1>1. Cardinality(DOMAIN <<x, y>>) = 2
  <2>1. DOMAIN <<x, y>> = {1, 2}
    OBVIOUS
  <2>2. Cardinality({1}) = 1 /\ IsFiniteSet({1})
    BY FS_Singleton
  <2>3. {1, 2} = {1} \cup {2}
    OBVIOUS
  <2>4. Cardinality({1} \cup {2}) = Cardinality({1}) + 1
    <3>1. PICK one : one = {1}
      OBVIOUS
    <3>2. IsFiniteSet(one) /\ 2 \notin one
      BY <2>2, <3>1
    <3>3. Cardinality(one \cup {2}) = Cardinality(one) + 1
      BY <3>2, FS_AddElement
    <3>. QED BY <3>1, <3>3
  <2>. QED BY <2>1, <2>2, <2>3, <2>4
<1>2. made + 2 <= MaxObjects /\ made' = made + 2
  BY <1>1 DEF Create
<1>3. objs' = [o \in Ids |-> IF o > made /\ o <= made' THEN <<x, y>>[o - made] ELSE objs[o]]
  BY DEF Create
<1>4. objs \in [Ids -> Object \cup {NoObject}] /\ made \in Nat /\ MaxObjects \in Nat
  BY Numbers DEF IInv, TypeOK
<1>5. /\ n \in Ids /\ n + 1 \in Ids /\ Made' = Made \cup {n, n + 1} /\ Made' \ Made = {n, n + 1}
      /\ Made \subseteq Ids /\ n # 0
  BY <1>2, <1>4 DEF Made, Ids
<1>6. objs'[n] = x /\ objs'[n + 1] = y /\ \A o \in Ids \ {n, n + 1} : objs'[o] = objs[o]
  <2>1. n > made /\ n <= made' /\ n - made = 1 /\ n + 1 > made /\ n + 1 <= made' /\ (n + 1) - made = 2
    BY <1>2, <1>4
  <2>2. <<x, y>>[1] = x /\ <<x, y>>[2] = y
    OBVIOUS
  <2>3. ASSUME NEW o \in Ids \ {n, n + 1} PROVE ~(o > made /\ o <= made')
    BY <1>2, <1>4 DEF Ids
  <2>. QED BY <1>3, <1>5, <2>1, <2>2, <2>3
<1>7. x \in Object /\ y \in Object
  BY <1>5
<1>8. /\ x.live /\ x.uses = {n + 1} /\ x.parent = 0
      /\ y.live /\ y.uses = {} /\ y.parent = n
  OBVIOUS
<1>9. PICK v \in ValueIds :
        Vacant(v) /\ values' = [values EXCEPT ![v] = NewValue(made + 1, TRUE, 0)]
  BY DEF Create
<1>10. Gets(v, n, 0, {})
  BY <1>9 DEF IInv, TypeOK, Gets
<1>11. /\ values' \in [ValueIds -> Value \cup {NoValue}]
       /\ \A w \in ValueIds : values'[w] # NoValue => values'[w].ptr <= made'
       /\ values'[v] # NoValue /\ values'[v].ptr = n /\ values'[v].owned
       /\ Owners(n)' = {v}
       /\ \A w \in ValueIds \ {v} :
            values'[w] # NoValue => values[w] # NoValue /\ values'[w] = values[w]
  <2>1. made' \in Nat /\ made <= made' /\ made' <= MaxObjects
    BY <1>2, <1>4
  <2>2. 0 \in 0 .. MaxValues
    BY OwnershipAssumption DEF OwnershipAssumption
  <2>3. {} \in SUBSET ValueIds /\ n \in Made' \ Made
    BY <1>5
  <2>4. Got(v, n, {})
    BY <2>1, <2>2, <2>3, <1>10, OneValueType
  <2>. QED BY <2>4 DEF Got
<1>12. TypeOK'
  <2>1. objs' \in [Ids -> Object \cup {NoObject}]
    <3>1. \A o \in Ids : objs'[o] \in Object \cup {NoObject}
      BY <1>4, <1>6, <1>7
    <3>. QED BY <3>1, <1>3
  <2>2. ASSUME NEW o \in Made' PROVE objs'[o] \in Object
    <3>1. CASE o \in {n, n + 1}
      BY <1>6, <1>7, <3>1
    <3>2. CASE o \notin {n, n + 1}
      <4>1. o \in Made /\ o \in Ids
        BY <1>5, <3>2
      <4>2. objs'[o] = objs[o] /\ objs[o] \in Object
        BY <1>6, <3>2, <4>1, ObjectFacts
      <4>. QED BY <4>2
    <3>. QED BY <3>1, <3>2
  <2>3. made' \in 0 .. MaxObjects /\ abandoned' \subseteq Made'
    BY <1>2, <1>4, <1>5 DEF IInv, TypeOK, Made, history
  <2>4. HistoryType'
    BY DEF IInv, TypeOK, HistoryType, history
  <2>. QED BY <2>1, <2>2, <2>3, <2>4, <1>11 DEF TypeOK, HistoryType, Made
<1>13. n \notin abandoned'
  BY <1>5 DEF IInv, TypeOK, Made, history
<1>14. Grows({}, 0)
  <2>1. ASSUME NEW o \in Made PROVE objs'[o] = objs[o]
    BY <1>5, <1>6
  <2>2. ASSUME NEW w \in ValueIds, values[w] # NoValue PROVE values'[w] = values[w]
    BY <2>2, <1>9, <1>10 DEF Vacant, Gets
  <2>3. ASSUME NEW w \in ValueIds, values'[w] # NoValue
        PROVE  \/ values[w] # NoValue /\ values'[w] = values[w]
               \/ /\ values'[w].owned /\ values'[w].ptr \in Made' \ Made
                  /\ objs'[values'[w].ptr].parent = 0 /\ values'[w].ptr \notin abandoned'
    BY <2>3, <1>5, <1>6, <1>8, <1>11, <1>13
  <2>. QED BY <1>5, <2>1, <2>2, <2>3 DEF Grows, history
<1>15. Grown(n)
  <2>1. objs'[n] = x /\ objs'[n + 1] = y
    BY <1>6
  <2>2. <<x.kind, y.kind>> \in Pointers /\ x.kind # "context"
    BY DEF Pointers
  <2>. QED BY <2>1, <2>2, <1>5, <1>8, <1>11 DEF Grown
<1>16. Grown(n + 1)
  <2>1. objs'[n + 1] = y /\ y.kind \in {"matcher", "chunk"}
    BY <1>6
  <2>2. Owners(n + 1)' = {}
    <3>1. ASSUME NEW w \in ValueIds, values'[w] # NoValue PROVE values'[w].ptr # n + 1
      <4>1. n # n + 1
        BY <1>4
      <4>2. w # v => values'[w].ptr \in Made
        BY <3>1, <1>11, ValueFacts
      <4>. QED BY <4>1, <4>2, <1>5, <1>11
    <3>. QED BY <3>1 DEF Owners
  <2>. QED BY <2>1, <2>2, <1>5, <1>8 DEF Grown
<1>17. \A o \in Made' \ Made : Grown(o)
  BY <1>5, <1>15, <1>16
<1>. QED BY <1>12, <1>14, <1>17, GrowStep

\* The object y that belongs to the object n.
LEMMA PartObject ==
  ASSUME NEW kind \in Kinds, NEW n
  PROVE  LET y == [native(kind, {}) EXCEPT !.parent = n]
         IN  /\ y.kind = kind /\ y.live /\ y.uses = {} /\ y.parent = n
             /\ n \in Ids => y \in Object
<1>1. /\ native(kind, {}) \in Object /\ native(kind, {}).kind = kind
      /\ native(kind, {}).live /\ native(kind, {}).uses = {}
  BY NativeObject
<1>2. n \in Ids => n \in 0 .. MaxObjects
  BY OwnershipAssumption DEF Ids, OwnershipAssumption
<1>. QED BY <1>1, <1>2 DEF Object

LEMMA MatcherStep == IInv /\ FromMatcher => IInv'
<1>. SUFFICES ASSUME IInv, FromMatcher PROVE IInv'
  OBVIOUS
<1>. PICK n : n = made + 1
  OBVIOUS
<1>. DEFINE x == sampler({n + 1}, TRUE, FALSE)
            y == [native("matcher", {}) EXCEPT !.parent = n]
<1>1. n + 1 = made + 2
  BY Numbers
<1>2. Create(<<x, y>>, 0) /\ UNCHANGED history
  BY <1>1 DEF FromMatcher
<1>3. x.live /\ x.uses = {n + 1} /\ x.parent = 0 /\ x.kind = "sampler"
  BY DEF sampler, native
<1>4. n + 1 \in Ids => x \in Object
  BY SamplerObject
<1>5. /\ y.live /\ y.uses = {} /\ y.parent = n /\ y.kind = "matcher"
      /\ n \in Ids => y \in Object
  BY PartObject DEF Kinds
<1>. HIDE DEF x, y
<1>. QED BY <1>2, <1>3, <1>4, <1>5, PairStep

LEMMA TokenizeStep ==
  ASSUME IInv, NEW X, NEW B, Tokenize(X, B)
  PROVE  IInv'
<1>. PICK n : n = made + 1
  OBVIOUS
<1>. DEFINE x == native("chunks", {n + 1})
            y == [native("chunk", {}) EXCEPT !.parent = n]
<1>1. n + 1 = made + 2
  BY Numbers
<1>2. Create(<<x, y>>, 0) /\ UNCHANGED history
  BY <1>1 DEF Tokenize
<1>3. x.live /\ x.uses = {n + 1} /\ x.parent = 0 /\ x.kind = "chunks"
  BY DEF native
<1>4. n + 1 \in Ids => x \in Object
  BY NativeObject DEF Kinds
<1>5. /\ y.live /\ y.uses = {} /\ y.parent = n /\ y.kind = "chunk"
      /\ n \in Ids => y \in Object
  BY PartObject DEF Kinds
<1>. HIDE DEF x, y
<1>. QED BY <1>2, <1>3, <1>4, <1>5, PairStep


-----------------------------------------------------------------------------
(* The chain of samplers                                                   *)

\* The objects after the samplers of the values S came into the chain n.
Chained(S, n) ==
  LET P == {Ptr(s) : s \in S}
  IN  /\ n \in Ids /\ n \in Nat /\ n # 0 /\ n \notin Made /\ Made' = Made \cup {n}
      /\ made' \in 0 .. MaxObjects
      /\ objs' \in [Ids -> Object \cup {NoObject}]
      /\ \A o \in Made' : objs'[o] \in Object
      /\ objs'[n].live /\ objs'[n].kind = "sampler" /\ objs'[n].uses = P /\ objs'[n].parent = 0
      /\ \A o \in Made : objs'[o] = IF o \in P THEN [objs[o] EXCEPT !.parent = n] ELSE objs[o]
      /\ P \subseteq Made
      /\ \A o \in P : objs[o].live /\ objs[o].kind = "sampler" /\ objs'[o].parent = n
                      /\ objs'[o].kind = "sampler"
      /\ \A o \in P : \E s \in Owners(o) : values[s].holder = 0
      /\ \A w \in ValueIds : values[w] # NoValue /\ values[w].ptr \in P => w \in S
      /\ \A w \in S : w \in ValueIds /\ values[w] # NoValue /\ values[w].ptr \in P

LEMMA ChainedObjects ==
  ASSUME IInv, NEW S \in SUBSET ValuesOf("sampler"), NEW last \in S, NEW n, n = made + 1,
         made < MaxObjects, made' = made + 1, objs' = ChainObjects(S, last)
  PROVE  Chained(S, n)
<1>. DEFINE P == {Ptr(s) : s \in S}
            x == sampler(P, TRUE, objs[Ptr(last)].selects)
<1>1. ASSUME NEW s \in S
      PROVE  /\ s \in ValueIds /\ values[s] # NoValue /\ values[s].holder = 0
             /\ Ptr(s) \in Made /\ objs[Ptr(s)].kind = "sampler" /\ objs[Ptr(s)].live
             /\ s \in Owners(Ptr(s))
  BY HeldFacts
<1>2. /\ made \in Nat /\ MaxObjects \in Nat /\ n \in Ids /\ n \in Nat /\ n # 0
      /\ n \notin Made /\ Made' = Made \cup {n} /\ made' \in 0 .. MaxObjects
  BY Numbers DEF Made, Ids
<1>3. P \subseteq Made /\ P \in SUBSET Ids
  BY <1>1, MadeIds
<1>4. objs[Ptr(last)].selects \in BOOLEAN
  BY <1>1, ObjectFacts DEF Object
<1>5. x \in Object /\ x.live /\ x.parent = 0 /\ x.uses = P /\ x.kind = "sampler"
  BY <1>3, <1>4, SamplerObject
<1>6. objs' = [o \in Ids |-> IF o = n THEN x
                             ELSE IF o \in P THEN [objs[o] EXCEPT !.parent = n]
                             ELSE objs[o]]
  BY DEF ChainObjects
<1>. HIDE DEF x
<1>7. objs'[n] = x
  BY <1>2, <1>6
<1>8. ASSUME NEW o \in P
      PROVE  /\ objs[o].live /\ objs[o].kind = "sampler" /\ objs'[o].parent = n
             /\ objs'[o].kind = "sampler" /\ objs'[o] \in Object
             /\ objs'[o] = [objs[o] EXCEPT !.parent = n]
  <2>1. o \in Made /\ o \in Ids /\ o # n /\ objs[o].live /\ objs[o].kind = "sampler"
    BY <1>1, <1>2, <1>3
  <2>2. objs'[o] = [objs[o] EXCEPT !.parent = n]
    BY <1>6, <2>1
  <2>3. objs[o] \in Object
    BY <2>1, ObjectFacts
  <2>4. n \in 0 .. MaxObjects
    BY <1>2 DEF Ids
  <2>. QED BY <2>1, <2>2, <2>3, <2>4 DEF Object
<1>9. ASSUME NEW o \in Ids, o \notin P, o # n PROVE objs'[o] = objs[o]
  BY <1>6, <1>9
<1>10. objs' \in [Ids -> Object \cup {NoObject}]
  <2>1. \A o \in Ids : objs'[o] \in Object \cup {NoObject}
    BY <1>5, <1>7, <1>8, <1>9 DEF IInv, TypeOK
  <2>. QED BY <1>6, <2>1
<1>11. \A o \in Made : objs'[o] = IF o \in P THEN [objs[o] EXCEPT !.parent = n] ELSE objs[o]
  BY <1>2, <1>8, <1>9, MadeIds
<1>12. \A o \in Made' : objs'[o] \in Object
  <2>1. \A o \in Made : objs[o] \in Object /\ o \in Ids
    BY ObjectFacts
  <2>2. \A o \in Made : objs'[o] \in Object
    BY <2>1, <1>2, <1>8, <1>9
  <2>. QED BY <2>2, <1>2, <1>5, <1>7
<1>13. \A o \in P : \E s \in Owners(o) : values[s].holder = 0
  BY <1>1
<1>14. ASSUME NEW w \in ValueIds, values[w] # NoValue, values[w].ptr \in P PROVE w \in S
  <2>1. PICK s \in S : values[w].ptr = Ptr(s)
    BY <1>14
  <2>2. values[w].owned
    BY <1>1, <1>14, <2>1 DEF IInv, ValuesInv, Ptr
  <2>3. w \in Owners(Ptr(s))
    BY <1>14, <2>1, <2>2 DEF Owners
  <2>. QED BY <1>1, <2>1, <2>3, OwnerFacts
<1>15. \A w \in S : w \in ValueIds /\ values[w] # NoValue /\ values[w].ptr \in P
  BY <1>1 DEF Ptr
<1>. QED BY <1>2, <1>3, <1>5, <1>7, <1>8, <1>10, <1>11, <1>12, <1>13, <1>14, <1>15 DEF Chained

LEMMA ChainStep ==
  ASSUME IInv, NEW S \in SUBSET ValuesOf("sampler"), Chain(S)
  PROVE  IInv'
<1>. PICK n : n = made + 1
  OBVIOUS
<1>1. PICK last \in S, v \in S :
        /\ objs' = ChainObjects(S, last)
        /\ values' = [w \in ValueIds |-> IF w = v THEN NewValue(made + 1, TRUE, 0)
                                         ELSE IF w \in S THEN NoValue ELSE values[w]]
  BY DEF Chain
<1>2. made < MaxObjects /\ made' = made + 1 /\ UNCHANGED <<abandoned, exchanged, cloned, aborted>>
  BY DEF Chain, history
<1>3. Gets(v, n, 0, S)
  BY <1>1 DEF Gets
<1>4. Chained(S, n)
  BY <1>1, <1>2, ChainedObjects
<1>. DEFINE P == {Ptr(s) : s \in S}
<1>5. /\ n \in Nat /\ n # 0 /\ n \notin Made /\ Made' = Made \cup {n} /\ Made' \ Made = {n}
      /\ v \in ValueIds
  BY <1>1, <1>4 DEF Chained
<1>6. Got(v, n, S)
  <2>1. made' \in Nat /\ made <= made' /\ made' <= MaxObjects
    BY <1>2, Numbers
  <2>2. 0 \in 0 .. MaxValues /\ S \in SUBSET ValueIds
    BY <1>4, OwnershipAssumption DEF Chained, OwnershipAssumption
  <2>3. n \in Made' \ Made
    BY <1>5
  <2>. QED BY <1>3, <1>5, <2>1, <2>2, <2>3, OneValueType
<1>7. TypeOK'
  <2>1. abandoned' \subseteq 1 .. made'
    BY <1>2, <1>5 DEF IInv, TypeOK, Made
  <2>2. HistoryType'
    BY <1>2 DEF IInv, TypeOK, HistoryType
  <2>. QED BY <2>1, <2>2, <1>4, <1>6 DEF TypeOK, HistoryType, Chained, Got, Made
<1>8. n \notin abandoned'
  BY <1>2, <1>5 DEF IInv, TypeOK, Made
<1>9. ASSUME NEW w \in ValueIds, values[w] # NoValue, values[w].ptr \notin P
      PROVE  values'[w] = values[w]
  <2>1. w \notin S
    BY <1>4, <1>9 DEF Chained
  <2>. QED BY <1>1, <2>1
<1>10. ASSUME NEW w \in ValueIds, values'[w] # NoValue
       PROVE  \/ values[w] # NoValue /\ values[w].ptr \notin P /\ values'[w] = values[w]
              \/ /\ values'[w].owned /\ values'[w].ptr \in Made' \ Made
                 /\ objs'[values'[w].ptr].parent = 0 /\ values'[w].ptr \notin abandoned'
  <2>1. CASE w = v
    BY <2>1, <1>4, <1>5, <1>6, <1>8 DEF Chained, Got
  <2>2. CASE w # v
    BY <2>2, <1>4, <1>6, <1>10 DEF Chained, Got
  <2>. QED BY <2>1, <2>2
<1>11. Grows(P, n)
  BY <1>2, <1>4, <1>5, <1>9, <1>10 DEF Grows, Chained
<1>12. Grown(n)
  BY <1>4, <1>5, <1>6 DEF Grown, Chained, Got, Pointers
<1>13. \A o \in Made' \ Made : Grown(o)
  BY <1>5, <1>12
<1>. QED BY <1>7, <1>11, <1>13, GrowStep

LEMMA ChainPanicsStep ==
  ASSUME IInv, NEW S \in SUBSET ValuesOf("sampler"), ChainPanics(S)
  PROVE  IInv'
<1>. PICK n : n = made + 1
  OBVIOUS
<1>. DEFINE P == {Ptr(s) : s \in S}
<1>1. PICK last \in S : objs' = ChainObjects(S, last)
  BY DEF ChainPanics
<1>2. made < MaxObjects /\ made' = made + 1
  BY DEF ChainPanics
<1>3. values' = [w \in ValueIds |-> IF w \in S THEN NoValue ELSE values[w]]
  BY DEF ChainPanics
<1>4. abandoned' = abandoned \cup {n} \cup Whole(P)
  BY DEF ChainPanics
<1>5. Chained(S, n)
  BY <1>1, <1>2, ChainedObjects
<1>6. /\ n \in Nat /\ n # 0 /\ n \notin Made /\ Made' = Made \cup {n} /\ Made' \ Made = {n}
      /\ P \subseteq Made
  BY <1>5 DEF Chained
<1>7. Whole(P) \subseteq Made
  BY <1>6, ClosureContains DEF Whole
<1>8. TypeOK'
  <2>1. abandoned' \subseteq 1 .. made'
    BY <1>4, <1>6, <1>7 DEF IInv, TypeOK, Made
  <2>2. values' \in [ValueIds -> Value \cup {NoValue}]
    BY <1>3 DEF IInv, TypeOK
  <2>3. ASSUME NEW w \in ValueIds, values'[w] # NoValue PROVE values'[w].ptr <= made'
    <3>1. values'[w] = values[w] /\ values[w].ptr \in Made
      BY <1>3, <2>3, ValueFacts
    <3>2. \A p \in Made : p <= made'
      BY <1>2, Numbers DEF Made
    <3>. QED BY <3>1, <3>2
  <2>4. HistoryType'
    BY DEF ChainPanics, IInv, TypeOK, HistoryType
  <2>. QED BY <2>1, <2>2, <2>3, <2>4, <1>5 DEF TypeOK, HistoryType, Chained, Made
<1>9. ASSUME NEW w \in ValueIds, values[w] # NoValue, values[w].ptr \notin P
      PROVE  values'[w] = values[w]
  <2>1. w \notin S
    BY <1>5, <1>9 DEF Chained
  <2>. QED BY <1>3, <2>1
<1>10. ASSUME NEW w \in ValueIds, values'[w] # NoValue
       PROVE  values[w] # NoValue /\ values[w].ptr \notin P /\ values'[w] = values[w]
  <2>1. w \notin S /\ values'[w] = values[w]
    BY <1>3, <1>10
  <2>. QED BY <2>1, <1>5, <1>10 DEF Chained
<1>11. ASSUME NEW o \in abandoned' \cap Made, o \notin abandoned PROVE objs'[o].parent # 0
  <2>1. o \in Whole(P)
    BY <1>4, <1>6, <1>11
  <2>2. CASE o \in P
    BY <2>2, <1>5, <1>6 DEF Chained
  <2>3. CASE o \notin P
    <3>1. objs[o].parent \in Made
      BY <2>1, <2>3, <1>6, <1>7, WholeMinimal
    <3>2. objs'[o] = objs[o]
      BY <2>3, <1>5, <1>11 DEF Chained
    <3>3. 0 \notin Made
      BY Numbers DEF Made
    <3>. QED BY <3>1, <3>2, <3>3
  <2>. QED BY <2>2, <2>3
<1>12. Grows(P, n)
  <2>1. \A o \in abandoned' \cap Made : o \in abandoned \/ objs'[o].parent # 0
    BY <1>11
  <2>2. abandoned \subseteq abandoned'
    BY <1>4
  <2>3. UNCHANGED <<exchanged, cloned>>
    BY DEF ChainPanics
  <2>. QED BY <2>1, <2>2, <2>3, <1>5, <1>6, <1>9, <1>10 DEF Grows, Chained
<1>13. Grown(n)
  <2>1. Owners(n)' = {}
    BY <1>6, <1>10, ValueFacts DEF Owners
  <2>2. n \in abandoned'
    BY <1>4
  <2>. QED BY <2>1, <2>2, <1>5, <1>6 DEF Grown, Chained, Pointers
<1>14. \A o \in Made' \ Made : Grown(o)
  BY <1>6, <1>13
<1>. QED BY <1>8, <1>12, <1>14, GrowStep


-----------------------------------------------------------------------------
(* The clone of a sampler                                                  *)

\* The copies get the numbers after made, each its own.
LEMMA CopyNumbers ==
  ASSUME made \in Nat, NEW W \in SUBSET Made
  PROVE  /\ IsFiniteSet(W) /\ Cardinality(W) \in Nat /\ DOMAIN Copies(W) = W
         /\ \A x \in W : Copies(W)[x] \in made + 1 .. made + Cardinality(W)
         /\ \A x, y \in W : Copies(W)[x] = Copies(W)[y] => x = y
         /\ \A n \in made + 1 .. made + Cardinality(W) : \E x \in W : Copies(W)[x] = n
<1>. DEFINE c == Cardinality(W)
            upto(x) == {y \in W : y <= x}
            r == [x \in W |-> Cardinality(upto(x))]
<1>1. W \subseteq 1 .. made /\ W \subseteq Nat
  BY DEF Made
<1>2. IsFiniteSet(W)
  <2>1. IsFiniteSet(1 .. made)
    BY FS_Interval
  <2>. QED BY <1>1, <2>1, FS_Subset
<1>3. c \in Nat
  BY <1>2, FS_CardinalityType
<1>4. ASSUME NEW x \in W
      PROVE  /\ IsFiniteSet(upto(x)) /\ r[x] = Cardinality(upto(x)) /\ r[x] \in 1 .. c
  <2>1. IsFiniteSet(upto(x)) /\ Cardinality(upto(x)) <= c
    BY <1>2, FS_Subset
  <2>2. Cardinality(upto(x)) \in Nat
    BY <2>1, FS_CardinalityType
  <2>3. x \in upto(x)
    BY <1>1
  <2>4. Cardinality({x}) <= Cardinality(upto(x)) /\ Cardinality({x}) = 1
    <3>1. {x} \in SUBSET upto(x)
      BY <2>3
    <3>. HIDE DEF upto
    <3>. QED BY <3>1, <2>1, FS_Subset, FS_Singleton
  <2>. QED BY <1>3, <2>1, <2>2, <2>4
<1>5. ASSUME NEW x \in W, NEW y \in W, x < y PROVE r[x] # r[y]
  <2>1. upto(x) \in SUBSET upto(y) /\ y \in upto(y) /\ y \notin upto(x)
    <3>1. x \in Nat /\ y \in Nat /\ y <= y /\ ~(y <= x)
      BY <1>1, <1>5
    <3>2. \A z \in W : z \in Nat
      BY <1>1
    <3>3. \A z \in W : z <= x => z <= y
      BY <1>5, <3>1, <3>2
    <3>. QED BY <3>1, <3>3
  <2>2. IsFiniteSet(upto(y)) /\ r[x] = Cardinality(upto(x)) /\ r[y] = Cardinality(upto(y))
    BY <1>4
  <2>. HIDE DEF upto, r
  <2>. QED BY <2>1, <2>2, FS_Subset
<1>6. ASSUME NEW x \in W, NEW y \in W, r[x] = r[y] PROVE x = y
  BY <1>1, <1>5, <1>6
<1>7. r \in [W -> 1 .. c] /\ DOMAIN r = W
  BY <1>4
<1>8. r \in Injection(W, 1 .. c)
  BY <1>6, <1>7 DEF Injection, IsInjective
<1>9. IsFiniteSet(1 .. c) /\ Cardinality(1 .. c) = c
  BY <1>3, FS_Interval
<1>10. r \in Surjection(W, 1 .. c)
  <2>. HIDE DEF r
  <2>. QED BY <1>8, <1>9, FS_Injection
<1>11. \A k \in 1 .. c : \E x \in W : r[x] = k
  <2>. HIDE DEF r
  <2>. QED BY <1>10 DEF Surjection
<1>12. /\ DOMAIN Copies(W) = W
       /\ \A x \in W : Copies(W)[x] = made + r[x]
  BY DEF Copies
<1>. HIDE DEF r
<1>13. \A x \in W : Copies(W)[x] \in made + 1 .. made + c
  <2>1. \A x \in W : r[x] \in Nat /\ r[x] >= 1 /\ r[x] <= c
    BY <1>3, <1>7
  <2>. QED BY <1>3, <1>12, <2>1
<1>14. ASSUME NEW x \in W, NEW y \in W, Copies(W)[x] = Copies(W)[y] PROVE x = y
  <2>1. r[x] \in Nat /\ r[y] \in Nat /\ Copies(W)[x] = made + r[x] /\ Copies(W)[y] = made + r[y]
    BY <1>3, <1>7, <1>12
  <2>2. r[x] = r[y]
    BY <2>1, <1>14
  <2>. QED BY <2>2, <1>6
<1>15. ASSUME NEW n \in made + 1 .. made + c PROVE \E x \in W : Copies(W)[x] = n
  <2>1. n - made \in 1 .. c
    BY <1>3
  <2>2. PICK x \in W : r[x] = n - made
    BY <2>1, <1>11
  <2>. QED BY <2>2, <1>3, <1>12
<1>. QED BY <1>2, <1>3, <1>12, <1>13, <1>14, <1>15

\* The sampler that is cloned, and what belongs to it.
LEMMA WholeSampler ==
  ASSUME IInv, NEW s \in ValuesOf("sampler"), NEW o, o = Ptr(s)
  PROVE  /\ o \in Made /\ o \in Whole({o}) /\ Whole({o}) \subseteq Made
         /\ objs[o].live /\ objs[o].parent = 0 /\ objs[o].kind = "sampler"
         /\ \A x \in Whole({o}) :
              /\ objs[x].live /\ objs[x].kind \in {"sampler", "matcher", "chunk"}
              /\ x # o => objs[x].parent \in Whole({o})
<1>1. /\ o \in Made /\ objs[o].live /\ objs[o].kind = "sampler" /\ s \in Owners(o)
  BY HeldFacts
<1>2. objs[o].parent = 0
  BY <1>1, OwnerFacts
<1>3. o \in Whole({o}) /\ Whole({o}) \subseteq Made
  BY <1>1, ClosureContains DEF Whole
<1>4. ASSUME NEW x \in Whole({o}), x # o
      PROVE  /\ objs[x].live /\ objs[x].kind \in {"sampler", "matcher", "chunk"}
             /\ objs[x].parent \in Whole({o})
  <2>1. objs[x].parent \in Whole({o})
    BY <1>1, <1>4, WholeMinimal
  <2>2. 0 \notin Made
    BY Numbers DEF Made
  <2>. QED BY <1>3, <2>1, <2>2, ObjectFacts
<1>. QED BY <1>1, <1>2, <1>3, <1>4


\* The copies copy of the objects of W, which are o and what belongs to it.
Cloned(o, W, copy) ==
  /\ Made' = Made \cup {copy[x] : x \in W} /\ \A x \in W : copy[x] \notin Made
  /\ made' \in Nat /\ made <= made' /\ made' <= MaxObjects
  /\ objs' \in [Ids -> Object \cup {NoObject}]
  /\ \A y \in Made : objs'[y] = objs[y]
  /\ \A x \in W :
       /\ copy[x] \in Ids /\ objs'[copy[x]] \in Object
       /\ objs'[copy[x]].live /\ objs'[copy[x]].kind = objs[x].kind
       /\ objs'[copy[x]].uses = {Copied(copy, u) : u \in objs[x].uses}
       /\ objs'[copy[x]].parent = IF x = o THEN 0 ELSE copy[objs[x].parent]
  /\ \A x, y \in W : copy[x] = copy[y] => x = y
  /\ DOMAIN copy = W

LEMMA ClonedObjects ==
  ASSUME IInv, NEW s \in ValuesOf("sampler"), NEW o, o = Ptr(s), NEW W, W = Whole({o}),
         NEW copy, copy = Copies(W), made + Cardinality(W) <= MaxObjects,
         made' = made + Cardinality(W), objs' = CloneObjects(o, W, copy)
  PROVE  Cloned(o, W, copy)
<1>1. /\ made \in Nat /\ MaxObjects \in Nat /\ W \in SUBSET Made /\ o \in W /\ o \in Made
      /\ \A x \in W : objs[x].live /\ (x # o => objs[x].parent \in W)
  BY Numbers, WholeSampler
<1>. DEFINE c == Cardinality(W)
<1>2. /\ c \in Nat /\ DOMAIN copy = W
      /\ \A x \in W : copy[x] \in made + 1 .. made + c
      /\ \A x, y \in W : copy[x] = copy[y] => x = y
      /\ \A n \in made + 1 .. made + c : \E x \in W : copy[x] = n
  <2>1. /\ Cardinality(W) \in Nat /\ DOMAIN Copies(W) = W
        /\ \A x \in W : Copies(W)[x] \in made + 1 .. made + Cardinality(W)
        /\ \A x, y \in W : Copies(W)[x] = Copies(W)[y] => x = y
        /\ \A n \in made + 1 .. made + Cardinality(W) : \E x \in W : Copies(W)[x] = n
    BY <1>1, CopyNumbers
  <2>. QED BY ONLY <2>1, copy = Copies(W)
<1>3. made' \in Nat /\ made <= made' /\ made' <= MaxObjects
  BY <1>1, <1>2
<1>4. made + 1 .. made + c = {copy[x] : x \in W}
  BY <1>2
<1>5. Made' = Made \cup (made + 1 .. made + c)
  BY <1>1, <1>2 DEF Made
<1>6. \A n \in made + 1 .. made + c : n \notin Made /\ n \in Ids
  BY <1>1, <1>2 DEF Made, Ids
<1>7. \A x \in W : copy[x] \notin Made /\ copy[x] \in Ids
  BY <1>2, <1>6
<1>8. Made' = Made \cup {copy[x] : x \in W}
  BY <1>4, <1>5
<1>9. DOMAIN objs' = Ids
  BY DEF CloneObjects
<1>10. ASSUME NEW y \in Ids, \A x \in W : copy[x] # y PROVE objs'[y] = objs[y]
  BY <1>10 DEF CloneObjects
<1>11. ASSUME NEW x \in W
       PROVE  objs'[copy[x]] =
                [objs[x] EXCEPT
                   !.uses = {Copied(copy, u) : u \in objs[x].uses},
                   !.parent = IF x = o THEN 0 ELSE Copied(copy, objs[x].parent)]
  <2>1. (CHOOSE z \in W : copy[z] = copy[x]) = x
    BY <1>2
  <2>2. objs'[copy[x]] =
          (LET z == CHOOSE z \in W : copy[z] = copy[x]
           IN  [objs[z] EXCEPT
                  !.uses = {Copied(copy, u) : u \in objs[z].uses},
                  !.parent = IF z = o THEN 0 ELSE Copied(copy, objs[z].parent)])
    BY <1>7 DEF CloneObjects
  <2>. QED BY <2>1, <2>2
<1>12. ASSUME NEW x \in W
       PROVE  /\ copy[x] \in Ids /\ objs'[copy[x]] \in Object
              /\ objs'[copy[x]].live /\ objs'[copy[x]].kind = objs[x].kind
              /\ objs'[copy[x]].uses = {Copied(copy, u) : u \in objs[x].uses}
              /\ objs'[copy[x]].parent = IF x = o THEN 0 ELSE copy[objs[x].parent]
  <2>. PICK U : U = {Copied(copy, u) : u \in objs[x].uses}
    OBVIOUS
  <2>. PICK p : p = IF x = o THEN 0 ELSE Copied(copy, objs[x].parent)
    OBVIOUS
  <2>1. objs[x] \in Object /\ objs[x].live /\ objs[x].uses \subseteq Made
    BY <1>1, ObjectFacts
  <2>2. objs'[copy[x]] = [objs[x] EXCEPT !.uses = U, !.parent = p]
    BY <1>11
  <2>3. U \subseteq Ids
    <3>1. ASSUME NEW u \in objs[x].uses PROVE Copied(copy, u) \in Ids
      <4>1. CASE u \in W
        BY <4>1, <1>2, <1>7 DEF Copied
      <4>2. CASE u \notin W
        BY <4>2, <2>1, <1>2, MadeIds DEF Copied
      <4>. QED BY <4>1, <4>2
    <3>. QED BY <3>1
  <2>4. p = IF x = o THEN 0 ELSE copy[objs[x].parent]
    BY <1>1, <1>2 DEF Copied
  <2>5. p \in 0 .. MaxObjects
    <3>1. 0 \in 0 .. MaxObjects /\ Ids \subseteq 0 .. MaxObjects
      BY <1>1 DEF Ids
    <3>2. x # o => p \in Ids
      BY <1>1, <1>7, <2>4
    <3>. QED BY <2>4, <3>1, <3>2
  <2>6. [objs[x] EXCEPT !.uses = U, !.parent = p] \in Object
    BY <2>1, <2>3, <2>5 DEF Object
  <2>7. /\ objs'[copy[x]].live = objs[x].live /\ objs'[copy[x]].kind = objs[x].kind
        /\ objs'[copy[x]].uses = U /\ objs'[copy[x]].parent = p
    BY <2>1, <2>2 DEF Object
  <2>. QED BY <1>7, <2>1, <2>2, <2>4, <2>6, <2>7
<1>13. \A y \in Made : objs'[y] = objs[y]
  BY <1>7, <1>10, MadeIds
<1>14. objs' \in [Ids -> Object \cup {NoObject}]
  <2>1. ASSUME NEW y \in Ids PROVE objs'[y] \in Object \cup {NoObject}
    <3>1. CASE \E x \in W : copy[x] = y
      BY <3>1, <1>12
    <3>2. CASE \A x \in W : copy[x] # y
      BY <3>2, <1>10 DEF IInv, TypeOK
    <3>. QED BY <3>1, <3>2
  <2>2. objs' = [y \in Ids |-> objs'[y]]
    BY DEF CloneObjects
  <2>. QED BY <2>1, <2>2
<1>. QED BY <1>2, <1>3, <1>7, <1>8, <1>12, <1>13, <1>14 DEF Cloned


LEMMA ClonedGrown ==
  ASSUME IInv, NEW s \in ValuesOf("sampler"), NEW o, o = Ptr(s), NEW W, W = Whole({o}),
         NEW copy, Cloned(o, W, copy), NEW v, Got(v, copy[o], {}), NEW x \in W
  PROVE  Grown(copy[x])
<1>. PICK n : n = copy[x]
  OBVIOUS
<1>1. /\ W \subseteq Made /\ o \in W /\ objs[o].live /\ objs[o].parent = 0
      /\ objs[x].live /\ objs[x].kind \in {"sampler", "matcher", "chunk"}
      /\ x # o => objs[x].parent \in W
      /\ objs[o].kind = "sampler"
  BY WholeSampler
<1>2. /\ Made' = Made \cup {copy[y] : y \in W} /\ \A y \in W : copy[y] \notin Made
      /\ \A y \in Made : objs'[y] = objs[y]
      /\ \A y, z \in W : copy[y] = copy[z] => y = z
      /\ DOMAIN copy = W
  BY DEF Cloned
<1>3. ASSUME NEW y \in W
      PROVE  /\ copy[y] \in Ids /\ copy[y] \in Made' \ Made
             /\ objs'[copy[y]].live /\ objs'[copy[y]].kind = objs[y].kind
             /\ objs'[copy[y]].uses = {Copied(copy, u) : u \in objs[y].uses}
             /\ objs'[copy[y]].parent = IF y = o THEN 0 ELSE copy[objs[y].parent]
  BY <1>2 DEF Cloned
<1>4. objs'[n].live /\ objs'[n].kind = objs[x].kind /\ n \in Made' \ Made /\ n \in Ids
      /\ objs'[n].uses = {Copied(copy, u) : u \in objs[x].uses}
      /\ objs'[n].parent = IF x = o THEN 0 ELSE copy[objs[x].parent]
  BY <1>3
<1>5. ASSUME NEW u \in objs[x].uses
      PROVE  /\ Copied(copy, u) \in Made'
             /\ objs'[Copied(copy, u)].kind = objs[u].kind
             /\ objs[u].parent = x => objs'[Copied(copy, u)].parent = n
  <2>1. u \in Made /\ x \in Made /\ x # 0
    BY <1>1, ObjectFacts
  <2>2. CASE u \in W
    <3>1. Copied(copy, u) = copy[u]
      BY <2>2, <1>2 DEF Copied
    <3>2. ASSUME objs[u].parent = x PROVE objs'[copy[u]].parent = n
      <4>1. u # o
        BY <1>1, <2>1, <3>2
      <4>. QED BY <2>2, <1>3, <3>2, <4>1
    <3>. QED BY <2>2, <1>3, <3>1, <3>2
  <2>3. CASE u \notin W
    <3>1. Copied(copy, u) = u
      BY <2>3, <1>2 DEF Copied
    <3>2. objs[u].parent # x
      BY <2>1, <2>3, <1>1, WholeClosed
    <3>. QED BY <2>1, <1>2, <3>1, <3>2
  <2>. QED BY <2>2, <2>3
<1>6. ASSUME NEW u \in objs[x].uses
      PROVE  /\ <<objs[x].kind, objs[u].kind>> \in Pointers
             /\ objs[x].kind \in {"sampler", "chunks"} /\ objs[u].kind # "model" =>
                  objs[u].parent = x
  BY <1>1 DEF IInv, ObjectsInv
<1>7. ASSUME NEW w \in objs'[n].uses
      PROVE  /\ w \in Made' /\ <<objs'[n].kind, objs'[w].kind>> \in Pointers
             /\ objs'[n].kind \in {"sampler", "chunks"} /\ objs'[w].kind # "model" =>
                  objs'[w].parent = n
  <2>1. PICK u \in objs[x].uses : w = Copied(copy, u)
    BY <1>4, <1>7
  <2>. QED BY <2>1, <1>4, <1>5, <1>6
<1>8. copy[o] \in Made' \ Made /\ Owners(copy[o])' = {v}
  BY <1>1, <1>3 DEF Got
<1>9. x # o => Owners(n)' = {}
  <2>1. ASSUME x # o, NEW w \in ValueIds, values'[w] # NoValue PROVE values'[w].ptr # n
    <3>1. n # copy[o]
      BY <2>1, <1>1, <1>2
    <3>2. CASE w = v
      BY <3>1, <3>2 DEF Got
    <3>3. CASE w # v
      <4>1. values[w] # NoValue /\ values'[w] = values[w]
        BY <2>1, <3>3 DEF Got
      <4>2. values[w].ptr \in Made
        BY <4>1, ValueFacts
      <4>. QED BY <4>1, <4>2, <1>4
    <3>. QED BY <3>2, <3>3
  <2>. QED BY <2>1 DEF Owners
<1>10. \A y, z \in Owners(n)' : y = z
  <2>1. CASE x = o
    <3>1. n = copy[o]
      BY <2>1
    <3>. QED BY <1>8, <3>1
  <2>2. CASE x # o
    BY <2>2, <1>9
  <2>. QED BY <2>1, <2>2
<1>11. objs'[n].parent = 0 => Owners(n)' # {}
  <2>1. CASE x = o
    <3>1. n = copy[o]
      BY <2>1
    <3>. QED BY <1>8, <3>1
  <2>2. CASE x # o
    <3>1. copy[objs[x].parent] \in Ids
      BY <2>2, <1>1, <1>3
    <3>2. 0 \notin Ids
      BY DEF Ids
    <3>. QED BY <2>2, <1>4, <3>1, <3>2
  <2>. QED BY <2>1, <2>2
<1>12. objs'[n].parent \in {0} \cup (Made' \ Made)
  BY <1>1, <1>3, <1>4
<1>13. Grown(n)
  BY <1>1, <1>4, <1>7, <1>10, <1>11, <1>12 DEF Grown
<1>. QED BY <1>13

LEMMA TryCloneStep ==
  ASSUME IInv, NEW s \in ValuesOf("sampler"), TryClone(s)
  PROVE  IInv'
<1>. PICK o : o = Ptr(s)
  OBVIOUS
<1>. PICK W : W = Whole({o})
  OBVIOUS
<1>. PICK copy : copy = Copies(W)
  OBVIOUS
<1>1. CASE \E q \in W : ~objs[q].clones
  <2>1. /\ UNCHANGED <<objs, made, values, abandoned, exchanged, cloned>>
        /\ aborted' \in {"no"} \cup Aborts
    BY <1>1 DEF TryClone, Aborts
  <2>. QED BY <2>1, SameStep
<1>2. CASE \A q \in W : objs[q].clones
  <2>1. /\ made + Cardinality(W) <= MaxObjects /\ made' = made + Cardinality(W)
        /\ objs' = CloneObjects(o, W, copy)
        /\ UNCHANGED <<abandoned, exchanged, cloned, aborted>>
        /\ \E v \in ValueIds : 
             Vacant(v) /\ values' = [values EXCEPT ![v] = NewValue(copy[o], TRUE, 0)]
    BY <1>2 DEF TryClone
  <2>2. PICK v \in ValueIds :
          Vacant(v) /\ values' = [values EXCEPT ![v] = NewValue(copy[o], TRUE, 0)]
    BY <2>1
  <2>3. Cloned(o, W, copy)
    BY <2>1, ClonedObjects
  <2>4. o \in W /\ W \subseteq Made
    BY WholeSampler
  <2>5. /\ made' \in Nat /\ made <= made' /\ made' <= MaxObjects
        /\ Made' = Made \cup {copy[x] : x \in W}
        /\ copy[o] \in Made' \ Made
        /\ \A y \in Made' \ Made : \E x \in W : y = copy[x]
    BY <2>3, <2>4 DEF Cloned
  <2>. PICK n : n = copy[o]
    OBVIOUS
  <2>6. Gets(v, n, 0, {})
    BY <2>2 DEF IInv, TypeOK, Gets
  <2>7. Got(v, n, {})
    <3>1. 0 \in 0 .. MaxValues /\ {} \in SUBSET ValueIds
      BY OwnershipAssumption DEF OwnershipAssumption
    <3>. QED BY <2>5, <2>6, <3>1, OneValueType
  <2>8. TypeOK'
    <3>1. \A y \in Made' : objs'[y] \in Object
      <4>1. \A y \in Made : objs'[y] \in Object
        BY <2>3, ObjectFacts DEF Cloned
      <4>2. \A x \in W : objs'[copy[x]] \in Object
        BY <2>3 DEF Cloned
      <4>3. ASSUME NEW y \in Made' PROVE objs'[y] \in Object
        <5>1. CASE y \in Made
          BY <4>1, <5>1
        <5>2. CASE y \notin Made
          <6>1. PICK x \in W : y = copy[x]
            BY <2>5, <5>2
          <6>. QED BY <4>2, <6>1
        <5>. QED BY <5>1, <5>2
      <4>. QED BY <4>3
    <3>2. made' \in 0 .. MaxObjects
      BY <2>5, Numbers
    <3>3. abandoned' \subseteq Made'
      BY <2>1, <2>5 DEF IInv, TypeOK, Made
    <3>4. HistoryType'
      BY <2>1 DEF IInv, TypeOK, HistoryType
    <3>. QED BY <2>3, <2>7, <3>1, <3>2, <3>3, <3>4 DEF TypeOK, HistoryType, Cloned, Got, Made
  <2>9. n \notin abandoned' /\ n \in Made' \ Made /\ objs'[n].parent = 0
    <3>1. n \notin abandoned'
      BY <2>1, <2>5 DEF IInv, TypeOK, Made
    <3>. QED BY <3>1, <2>3, <2>4, <2>5 DEF Cloned
  <2>10. ASSUME NEW w \in ValueIds, values[w] # NoValue PROVE values'[w] = values[w]
    BY <2>2, <2>6, <2>10 DEF Vacant, Gets
  <2>11. ASSUME NEW w \in ValueIds, values'[w] # NoValue
         PROVE  \/ values[w] # NoValue /\ values'[w] = values[w]
                \/ /\ values'[w].owned /\ values'[w].ptr \in Made' \ Made
                   /\ objs'[values'[w].ptr].parent = 0 /\ values'[w].ptr \notin abandoned'
    <3>1. CASE w = v
      BY <3>1, <2>7, <2>9 DEF Got
    <3>2. CASE w # v
      BY <3>2, <2>7, <2>11 DEF Got
    <3>. QED BY <3>1, <3>2
  <2>12. Grows({}, 0)
    BY <2>1, <2>3, <2>5, <2>10, <2>11 DEF Grows, Cloned
  <2>13. \A x \in W : Grown(copy[x])
    <3>1. Got(v, copy[o], {})
      BY <2>7
    <3>. QED BY <2>3, <3>1, ClonedGrown
  <2>14. \A y \in Made' \ Made : Grown(y)
    BY <2>5, <2>13
  <2>. QED BY <2>8, <2>12, <2>14, GrowStep
<1>. QED BY <1>1, <1>2


-----------------------------------------------------------------------------
(* Drop                                                                    *)

\* The value v goes, the objects D go with it.
Drops(v, D) ==
  /\ D \subseteq Made
  /\ \A x \in D : objs'[x] = [native(objs[x].kind, {}) EXCEPT !.live = FALSE]
  /\ \A x \in Ids \ D : objs'[x] = objs[x]
  /\ DOMAIN objs' = Ids
  /\ \A x \in Made : objs[x].parent \in D => x \in D
  /\ \A x \in D : objs[x].parent = 0 => v \in Owners(x)
  /\ \A x \in D : objs[x].parent # 0 => objs[x].parent \in D
  /\ \A x \in Made : v \in Owners(x) => x \in D

LEMMA DropObjects ==
  ASSUME IInv, NEW v \in ValueIds, values[v] # NoValue,
         IF values[v].owned THEN objs' = Freed(Ptr(v)) ELSE UNCHANGED objs
  PROVE  \E D : Drops(v, D)
<1>. PICK o : o = Ptr(v)
  OBVIOUS
<1>1. o \in Made /\ o = values[v].ptr
  BY ValueFacts DEF Ptr
<1>2. ASSUME NEW x, v \in Owners(x) PROVE x = o /\ values[v].owned
  BY <1>1, <1>2 DEF Owners
<1>3. CASE ~values[v].owned
  <2>1. objs' = objs /\ DOMAIN objs = Ids
    BY <1>3 DEF IInv, TypeOK
  <2>2. Drops(v, {})
    BY <1>2, <1>3, <2>1 DEF Drops
  <2>. QED BY <2>2
<1>4. CASE values[v].owned
  <2>. PICK D : D = Whole({o})
    OBVIOUS
  <2>1. v \in Owners(o)
    BY <1>1, <1>4 DEF Owners
  <2>2. objs[o].parent = 0 /\ 0 \notin Made
    BY <1>1, <2>1, OwnerFacts, Numbers DEF Made
  <2>3. o \in D /\ D \subseteq Made /\ D \subseteq Ids
    BY <1>1, ClosureContains, MadeIds DEF Whole
  <2>4. objs' = [x \in Ids |-> IF x \in D
                               THEN [native(objs[x].kind, {}) EXCEPT !.live = FALSE]
                               ELSE objs[x]]
    BY <1>4 DEF Freed
  <2>5. /\ \A x \in D : objs'[x] = [native(objs[x].kind, {}) EXCEPT !.live = FALSE]
        /\ \A x \in Ids \ D : objs'[x] = objs[x]
        /\ DOMAIN objs' = Ids
    BY <2>3, <2>4
  <2>6. \A x \in Made : objs[x].parent \in D => x \in D
    BY <1>1, WholeClosed
  <2>7. ASSUME NEW x \in D, x # o PROVE objs[x].parent \in D
    BY <1>1, <2>7, WholeMinimal
  <2>8. \A x \in D : objs[x].parent = 0 => v \in Owners(x)
    BY <2>1, <2>2, <2>3, <2>7
  <2>9. \A x \in D : objs[x].parent # 0 => objs[x].parent \in D
    BY <2>2, <2>7
  <2>10. \A x \in Made : v \in Owners(x) => x \in D
    BY <1>2, <2>3
  <2>11. Drops(v, D)
    BY <2>3, <2>5, <2>6, <2>8, <2>9, <2>10 DEF Drops
  <2>. QED BY <2>11
<1>. QED BY <1>3, <1>4 DEF IInv, TypeOK

\* What the drop of v leaves of the values.
LEMMA DropValues ==
  ASSUME IInv, NEW v \in ValueIds, Drop(v), NEW w \in ValueIds
  PROVE  /\ values'[w] \in Value \cup {NoValue}
         /\ values'[w] # NoValue <=> w # v /\ values[w] # NoValue
         /\ w # v /\ values[w] # NoValue =>
              /\ values'[w].ptr = values[w].ptr /\ values'[w].owned = values[w].owned
              /\ values'[w].borrows = values[w].borrows
              /\ values[w].holder # v => values'[w].holder = values[w].holder
<1>1. values'[w] = IF w = v THEN NoValue
                   ELSE IF w \in Fields(v)
                   THEN [values[w] EXCEPT !.holder = 0, !.falling = TRUE]
                   ELSE values[w]
  BY DEF Drop
<1>2. CASE w = v
  BY <1>1, <1>2
<1>3. CASE w # v /\ w \notin Fields(v)
  BY <1>1, <1>3 DEF IInv, TypeOK
<1>4. CASE w # v /\ w \in Fields(v)
  <2>1. values[w] \in Value /\ values[w] # NoValue /\ values[w].holder = v
    BY <1>4, ValueFacts DEF Fields
  <2>2. values'[w] = [values[w] EXCEPT !.holder = 0, !.falling = TRUE]
    BY <1>1, <1>4
  <2>3. 0 \in 0 .. MaxValues
    BY OwnershipAssumption DEF OwnershipAssumption
  <2>4. values'[w] \in Value
    BY <2>1, <2>2, <2>3 DEF Value
  <2>5. /\ values'[w].ptr = values[w].ptr /\ values'[w].owned = values[w].owned
        /\ values'[w].borrows = values[w].borrows
    BY <2>1, <2>2 DEF Value
  <2>6. values'[w].ptr # 0 /\ NoValue.ptr = 0
    BY <2>1, <2>5, OwnershipAssumption DEF Value, Ids, NoValue, OwnershipAssumption
  <2>7. values'[w] # NoValue
    BY <2>6
  <2>. QED BY <1>4, <2>1, <2>4, <2>5, <2>7
<1>. QED BY <1>2, <1>3, <1>4

LEMMA DropStep ==
  ASSUME IInv, NEW v \in ValueIds, Drop(v)
  PROVE  IInv'
<1>1. /\ values[v] # NoValue /\ values[v].holder = 0
      /\ \A w \in ValueIds : values[w] # NoValue => values[w].borrows # v
  BY DEF Drop, Droppable
<1>2. UNCHANGED <<made, abandoned, exchanged, cloned, aborted>> /\ Made' = Made
  BY DEF Drop, Made, history
<1>3. IF values[v].owned THEN objs' = Freed(Ptr(v)) ELSE UNCHANGED objs
  BY DEF Drop
<1>4. PICK D : Drops(v, D)
  BY <1>1, <1>3, DropObjects
<1>5. ASSUME NEW w \in ValueIds
      PROVE  /\ values'[w] \in Value \cup {NoValue}
             /\ values'[w] # NoValue <=> w # v /\ values[w] # NoValue
             /\ w # v /\ values[w] # NoValue =>
                  /\ values'[w].ptr = values[w].ptr /\ values'[w].owned = values[w].owned
                  /\ values'[w].borrows = values[w].borrows
                  /\ values[w].holder # v => values'[w].holder = values[w].holder
  BY DropValues
<1>6. ASSUME NEW x \in D
      PROVE  /\ objs'[x] \in Object /\ ~objs'[x].live /\ objs'[x].uses = {}
             /\ objs'[x].parent = 0 /\ objs'[x].kind = objs[x].kind
  <2>1. x \in Made /\ objs'[x] = [native(objs[x].kind, {}) EXCEPT !.live = FALSE]
    BY <1>4 DEF Drops
  <2>2. objs[x].kind \in Kinds
    BY <2>1, ObjectFacts DEF Object
  <2>3. /\ native(objs[x].kind, {}) \in Object /\ native(objs[x].kind, {}).parent = 0
        /\ native(objs[x].kind, {}).uses = {} /\ native(objs[x].kind, {}).kind = objs[x].kind
    BY <2>2, NativeObject
  <2>. HIDE DEF native
  <2>. QED BY <2>1, <2>3 DEF Object
<1>7. ASSUME NEW x \in Made
      PROVE  /\ x \notin D => objs'[x] = objs[x]
             /\ objs'[x].kind = objs[x].kind /\ objs'[x] \in Object
  BY <1>4, <1>6, ObjectFacts DEF Drops
<1>8. ASSUME NEW x PROVE Owners(x)' = Owners(x) \ {v}
  BY <1>5 DEF Owners
<1>9. ASSUME NEW x \in Made, x \notin D PROVE Owners(x)' = Owners(x) /\ v \notin Owners(x)
  BY <1>4, <1>8, <1>9 DEF Drops
<1>10. TypeOK'
  <2>1. objs' \in [Ids -> Object \cup {NoObject}]
    <3>1. \A x \in Ids : objs'[x] \in Object \cup {NoObject}
      BY <1>4, <1>6 DEF Drops, IInv, TypeOK
    <3>2. objs' = [x \in Ids |-> objs'[x]]
      BY <1>3, <1>4 DEF Drops, Freed, IInv, TypeOK
    <3>. QED BY <3>1, <3>2
  <2>2. values' \in [ValueIds -> Value \cup {NoValue}]
    <3>1. values' = [w \in ValueIds |-> values'[w]]
      BY DEF Drop
    <3>. QED BY <3>1, <1>5
  <2>3. ASSUME NEW w \in ValueIds, values'[w] # NoValue PROVE values'[w].ptr <= made
    <3>1. values'[w].ptr \in Made
      BY <2>3, <1>5, ValueFacts
    <3>. QED BY <3>1, Numbers DEF Made
  <2>4. \A x \in 1 .. made : objs'[x] \in Object
    BY <1>7 DEF Made
  <2>. QED BY <1>2, <2>1, <2>2, <2>3, <2>4 DEF IInv, TypeOK
<1>11. ObjectsInv'
  <2>. SUFFICES ASSUME NEW x \in Made
                PROVE  /\ objs'[x].uses \subseteq Made /\ objs'[x].parent \in {0} \cup Made
                       /\ ~objs'[x].live => objs'[x].uses = {} /\ objs'[x].parent = 0
                       /\ objs'[x].parent # 0 =>
                            /\ objs'[objs'[x].parent].live
                            /\ objs'[x].kind \in {"sampler", "matcher", "chunk"}
                       /\ \A u \in objs'[x].uses :
                            /\ <<objs'[x].kind, objs'[u].kind>> \in Pointers
                            /\ objs'[x].kind \in {"sampler", "chunks"} /\ objs'[u].kind # "model"
                                 => objs'[u].parent = x
    BY <1>2 DEF ObjectsInv, Pointers
  <2>1. CASE x \in D
    BY <2>1, <1>6
  <2>2. CASE x \notin D
    <3>1. objs'[x] = objs[x] /\ x # 0 /\ objs[x].uses \subseteq Made
      BY <2>2, <1>7, ObjectFacts
    <3>2. objs[x].parent # 0 => objs'[objs[x].parent] = objs[objs[x].parent]
      BY <2>2, <1>4, <1>7, ObjectFacts DEF Drops
    <3>3. ASSUME NEW u \in objs[x].uses, objs[u].parent = x PROVE objs'[u] = objs[u]
      <4>1. u \notin D
        BY <2>2, <3>1, <3>3, <1>4 DEF Drops
      <4>. QED BY <3>1, <4>1, <1>7
    <3>4. \A u \in objs[x].uses : objs'[u].kind = objs[u].kind
      BY <3>1, <1>7
    <3>5. \A u \in objs[x].uses :
            /\ <<objs[x].kind, objs[u].kind>> \in Pointers
            /\ objs[x].kind \in {"sampler", "chunks"} /\ objs[u].kind # "model"
                 => objs[u].parent = x
      BY DEF IInv, ObjectsInv
    <3>. QED BY <3>1, <3>2, <3>3, <3>4, <3>5, ObjectFacts
  <2>. QED BY <2>1, <2>2
<1>12. ValuesInv'
  <2>. SUFFICES ASSUME NEW w \in ValueIds, w # v, values[w] # NoValue
                PROVE  LET o == values[w].ptr
                       IN  /\ values[w].owned =>
                                /\ objs'[o].parent = 0 /\ o \notin abandoned
                                /\ objs'[o].live \/ objs'[o].kind = "bitmap"
                           /\ ~values[w].owned => objs'[o].kind = "chunk"
    BY <1>2, <1>5 DEF ValuesInv, Ptr
  <2>. PICK o : o = values[w].ptr
    OBVIOUS
  <2>1. o \in Made /\ objs'[o].kind = objs[o].kind
    BY <1>7, ValueFacts
  <2>2. /\ values[w].owned =>
             /\ objs[o].parent = 0 /\ o \notin abandoned
             /\ objs[o].live \/ objs[o].kind = "bitmap"
        /\ ~values[w].owned => objs[o].kind = "chunk"
    BY DEF IInv, ValuesInv, Ptr
  <2>3. CASE o \notin D
    BY <2>1, <2>2, <2>3, <1>7
  <2>4. CASE o \in D /\ values[w].owned
    <3>1. v \in Owners(o) /\ w \in Owners(o)
      BY <2>2, <2>4, <1>4 DEF Drops, Owners
    <3>2. objs[o].kind = "bitmap"
      BY <2>1, <3>1, OwnerFacts
    <3>. QED BY <2>1, <2>2, <2>4, <3>2, <1>6
  <2>5. CASE ~values[w].owned
    BY <2>1, <2>2, <2>5
  <2>. QED BY <2>3, <2>4, <2>5
<1>13. OwnersInv'
  <2>. SUFFICES ASSUME NEW x \in Made
                PROVE  /\ objs'[x].live /\ objs'[x].parent = 0 /\ x \notin abandoned =>
                            Owners(x)' # {}
                       /\ objs'[x].kind # "bitmap" => \A y, w \in Owners(x)' : y = w
    BY <1>2 DEF OwnersInv
  <2>1. objs'[x].kind # "bitmap" => \A y, w \in Owners(x)' : y = w
    BY <1>7, <1>8 DEF IInv, OwnersInv
  <2>2. ASSUME objs'[x].live, objs'[x].parent = 0, x \notin abandoned PROVE Owners(x)' # {}
    <3>1. x \notin D
      BY <2>2, <1>6
    <3>2. objs'[x] = objs[x] /\ Owners(x)' = Owners(x)
      BY <3>1, <1>7, <1>9
    <3>. QED BY <2>2, <3>2 DEF IInv, OwnersInv
  <2>. QED BY <2>1, <2>2
<1>14. HeldInv'
  <2>. SUFFICES ASSUME NEW o \in Made, objs'[o].live, objs'[o].kind = "context",
                       NEW u \in objs'[o].uses
                PROVE  /\ objs'[u].kind = "model" =>
                            \E y \in Owners(o)', w \in Owners(u)' : values'[y].borrows = w
                       /\ objs'[u].kind = "sampler" =>
                            \E y \in Owners(o)', w \in Owners(u)' : values'[w].holder = y
    BY <1>2 DEF HeldInv
  <2>1. o \notin D
    BY <1>6
  <2>2. /\ objs'[o] = objs[o] /\ Owners(o)' = Owners(o) /\ v \notin Owners(o)
        /\ u \in Made /\ objs'[u].kind = objs[u].kind /\ Owners(u)' = Owners(u) \ {v}
    BY <2>1, <1>7, <1>8, <1>9, ObjectFacts
  <2>3. ASSUME objs[u].kind = "model"
        PROVE  \E y \in Owners(o)', w \in Owners(u)' : values'[y].borrows = w
    <3>1. PICK y \in Owners(o), w \in Owners(u) : values[y].borrows = w
      BY <2>2, <2>3 DEF IInv, HeldInv
    <3>2. y \in ValueIds /\ values[y] # NoValue /\ y # v
      BY <2>2, <3>1, OwnerFacts
    <3>3. w # v /\ values'[y].borrows = w
      BY <3>1, <3>2, <1>1, <1>5
    <3>. QED BY <2>2, <3>1, <3>3
  <2>4. ASSUME objs[u].kind = "sampler"
        PROVE  \E y \in Owners(o)', w \in Owners(u)' : values'[w].holder = y
    <3>1. PICK y \in Owners(o), w \in Owners(u) : values[w].holder = y
      BY <2>2, <2>4 DEF IInv, HeldInv
    <3>2. y \in ValueIds /\ values[y] # NoValue /\ y # v /\ y # 0
      BY <2>2, <3>1, OwnerFacts, ValueFacts
    <3>3. w \in ValueIds /\ values[w] # NoValue /\ w # v
      BY <2>2, <3>1, <3>2, <1>1, OwnerFacts
    <3>4. values'[w].holder = y
      BY <3>1, <3>2, <3>3, <1>5
    <3>. QED BY <2>2, <3>1, <3>3, <3>4
  <2>. QED BY <2>2, <2>3, <2>4
<1>15. DecoderInv'
  <2>. SUFFICES ASSUME NEW o \in Made, objs'[o].live, objs'[o].kind = "mtp",
                       NEW u \in objs'[o].uses, <<o, u>> \notin exchanged
                PROVE  \E y \in Owners(o)', w \in Owners(u)' : values'[w].holder = y
    BY <1>2 DEF DecoderInv
  <2>1. o \notin D
    BY <1>6
  <2>2. /\ objs'[o] = objs[o] /\ Owners(o)' = Owners(o) /\ v \notin Owners(o)
        /\ u \in Made /\ Owners(u)' = Owners(u) \ {v}
    BY <2>1, <1>7, <1>8, <1>9, ObjectFacts
  <2>3. PICK y \in Owners(o), w \in Owners(u) : values[w].holder = y
    BY <2>2 DEF IInv, DecoderInv
  <2>4. y \in ValueIds /\ values[y] # NoValue /\ y # v /\ y # 0
    BY <2>2, <2>3, OwnerFacts, ValueFacts
  <2>5. w \in ValueIds /\ values[w] # NoValue /\ w # v
    BY <2>2, <2>3, <2>4, <1>1, OwnerFacts
  <2>6. values'[w].holder = y
    BY <2>3, <2>4, <2>5, <1>5
  <2>. QED BY <2>2, <2>3, <2>5, <2>6
<1>16. BitmapInv'
  <2>. SUFFICES ASSUME NEW o \in Made, o \notin cloned, objs[o].kind = "bitmap",
                       NEW y \in Owners(o), NEW w \in Owners(o), y # v, w # v
                PROVE  objs'[o].live /\ y = w
    BY <1>2, <1>7, <1>8 DEF BitmapInv
  <2>1. objs[o].live /\ y = w /\ objs[o].parent = 0 /\ v \notin Owners(o)
    BY OwnerFacts
  <2>2. o \notin D
    BY <2>1, <1>4 DEF Drops
  <2>. QED BY <2>1, <2>2, <1>7
<1>. QED BY <1>10, <1>11, <1>12, <1>13, <1>14, <1>15, <1>16 DEF IInv


-----------------------------------------------------------------------------
(* The theorems                                                            *)

LEMMA InitIInv == Init => IInv /\ KnownMisuse
<1>. SUFFICES ASSUME Init PROVE IInv /\ KnownMisuse
  OBVIOUS
<1>1. made = 0 /\ Made = {} /\ abandoned = {} /\ misused = {}
  BY DEF Init, Made
<1>2. TypeOK
  BY <1>1, OwnershipAssumption DEF Init, TypeOK, OwnershipAssumption
<1>3. ObjectsInv /\ ValuesInv /\ OwnersInv /\ HeldInv /\ DecoderInv /\ BitmapInv
  BY <1>1 DEF Init, ObjectsInv, ValuesInv, OwnersInv, HeldInv, DecoderInv, BitmapInv
<1>. QED BY <1>1, <1>2, <1>3 DEF IInv, KnownMisuse

LEMMA CallsStep == IInv /\ Calls => IInv'
<1>. SUFFICES ASSUME IInv, Calls PROVE IInv'
  OBVIOUS
<1>1. CASE LoadFromFile \/ BitmapFromData \/ NewChunks
  BY <1>1, PlainStep
<1>2. CASE FromMatcher
  BY <1>2, MatcherStep
<1>3. CASE \E clones, selects \in BOOLEAN : InitFilter(clones) \/ InitSelector(clones, selects)
  BY <1>3, SamplerStep
<1>4. ASSUME NEW m \in ValuesOf("model"),
             \/ NewContext(m) \/ InitDry(m) \/ InitInfill(m) \/ InitFromFile(m)
             \/ \E text \in GrammarTexts : InitGrammar(m, text)
             \/ \E S \in SUBSET ValuesOf("sampler") : NewContextWithSamplers(m, S)
             \/ \E other \in ValuesOf("context") : NewContextWithCtxOther(m, other)
      PROVE  IInv'
  BY <1>4, SamplerStep, ContextStep, InitFromFileStep, BackendSamplersStep
<1>5. ASSUME NEW S \in SUBSET ValuesOf("sampler") \ {{}}, Chain(S) \/ ChainPanics(S)
      PROVE  IInv'
  BY <1>5, ChainStep, ChainPanicsStep
<1>6. ASSUME NEW s \in ValuesOf("sampler"),
             \/ TryClone(s) \/ UseSampler(s)
             \/ \E c \in ValuesOf("context") : Sample(s, c)
      PROVE  IInv'
  <2>1. UseSampler(s) => UNCHANGED <<objs, made, values, history>>
    BY DEF UseSampler
  <2>2. ASSUME NEW c \in ValuesOf("context"), Sample(s, c) PROVE IInv'
    BY <2>2, SameStep DEF Sample, Aborts
  <2>. QED BY <1>6, <2>1, <2>2, TryCloneStep, IdleStep
<1>7. ASSUME NEW t \in ValuesOf("context"), NEW d \in ValuesOf("context"), NewMtp(t, d)
      PROVE  IInv'
  BY <1>7, NewMtpStep
<1>8. ASSUME NEW p \in ValuesOf("mtp"),
             \/ UseMtp(p)
             \/ \E inner \in ValueIds, c \in ValuesOf("context") : ReplaceContext(p, inner, c)
      PROVE  IInv'
  <2>1. UseMtp(p) => UNCHANGED <<objs, made, values, history>>
    BY DEF UseMtp
  <2>. QED BY <1>8, <2>1, ReplaceContextStep, IdleStep
<1>9. ASSUME NEW b \in ValuesOf("bitmap"), CloneBitmap(b) \/ UseBitmap(b)
      PROVE  IInv'
  <2>1. UseBitmap(b) => UNCHANGED <<objs, made, values, history>>
    BY DEF UseBitmap
  <2>. QED BY <1>9, <2>1, CloneBitmapStep, IdleStep
<1>10. ASSUME NEW x \in ValuesOf("mtmd"),
              \/ BitmapFromFile(x)
              \/ \E B \in SUBSET ValuesOf("bitmap") : Tokenize(x, B)
              \/ \E k \in ValuesOf("chunk") : EncodeChunk(x, k)
              \/ \E c \in ValuesOf("chunks"), y \in ValuesOf("context") : EvalChunks(c, x, y)
       PROVE  IInv'
  <2>1. (\E k \in ValuesOf("chunk") : EncodeChunk(x, k))
          \/ (\E c \in ValuesOf("chunks"), y \in ValuesOf("context") : EvalChunks(c, x, y)) =>
          UNCHANGED <<objs, made, values, history>>
    BY DEF EncodeChunk, EvalChunks
  <2>. QED BY <1>10, <2>1, PlainStep, TokenizeStep, IdleStep
<1>11. ASSUME NEW c \in ValuesOf("chunks"), GetChunk(c) PROVE IInv'
  BY <1>11, GetChunkStep
<1>12. ASSUME NEW k \in ValuesOf("chunk"), CopyChunk(k) \/ UseChunk(k) PROVE IInv'
  <2>1. UseChunk(k) => UNCHANGED <<objs, made, values, history>>
    BY DEF UseChunk
  <2>. QED BY <1>12, <2>1, PlainStep, IdleStep
<1>. QED BY <1>1, <1>2, <1>3, <1>4, <1>5, <1>6, <1>7, <1>8, <1>9, <1>10, <1>11, <1>12
         DEF Calls

LEMMA CreateKinds ==
  ASSUME IInv, NEW new, NEW b, Create(new, b)
  PROVE  KindsKept
<1>1. \A o \in Made : o \in Ids /\ ~(o > made)
  BY MadeIds, Numbers DEF Made
<1>. QED BY <1>1 DEF KindsKept, Create

LEMMA OneMoreKinds ==
  ASSUME IInv, NEW x, objs' = [objs EXCEPT ![made + 1] = x]
  PROVE  KindsKept
<1>1. \A o \in Made : o # made + 1
  BY Numbers DEF Made
<1>. QED BY <1>1, MadeIds DEF KindsKept, IInv, TypeOK

LEMMA ChainKinds ==
  ASSUME IInv, NEW S, NEW last, objs' = ChainObjects(S, last)
  PROVE  KindsKept
<1>1. \A o \in Made : o \in Ids /\ o # made + 1 /\ objs[o] \in Object
  BY ObjectFacts, Numbers DEF Made
<1>. QED BY <1>1 DEF KindsKept, ChainObjects, Object

LEMMA CloneKinds ==
  ASSUME IInv, NEW s \in ValuesOf("sampler"), TryClone(s)
  PROVE  KindsKept
<1>. PICK o : o = Ptr(s)
  OBVIOUS
<1>. PICK W : W = Whole({o})
  OBVIOUS
<1>. PICK copy : copy = Copies(W)
  OBVIOUS
<1>1. CASE objs' = objs
  BY <1>1 DEF KindsKept
<1>2. CASE /\ made + Cardinality(W) <= MaxObjects /\ made' = made + Cardinality(W)
           /\ objs' = CloneObjects(o, W, copy)
  <2>1. Cloned(o, W, copy)
    BY <1>2, ClonedObjects
  <2>. QED BY <2>1 DEF Cloned, KindsKept
<1>. QED BY <1>1, <1>2 DEF TryClone

\* What llama.cpp is called with.
Quiet == misused' = {}
OnValues ==
  \E S : /\ Touch(S)
         /\ \A o \in S : \E v \in ValueIds : values[v] # NoValue /\ o = Ptr(v)

LEMMA CallsTouch == Calls => Quiet \/ OnValues
<1>. SUFFICES ASSUME Calls PROVE Quiet \/ OnValues
  OBVIOUS
<1>1. \A kind : \A v \in ValuesOf(kind) : v \in ValueIds /\ values[v] # NoValue
  BY DEF ValuesOf, Is, Held
<1>2. ASSUME NEW V, \A v \in V : v \in ValueIds /\ values[v] # NoValue,
             Touch({Ptr(v) : v \in V})
      PROVE  OnValues
  BY <1>2 DEF OnValues
<1>3. ASSUME NEW v \in ValueIds, values[v] # NoValue, Touch({Ptr(v)}) PROVE OnValues
  BY <1>3 DEF OnValues
<1>4. CASE LoadFromFile \/ FromMatcher \/ BitmapFromData \/ NewChunks
  BY <1>4 DEF LoadFromFile, FromMatcher, BitmapFromData, NewChunks, Quiet
<1>5. CASE \E clones, selects \in BOOLEAN : InitFilter(clones) \/ InitSelector(clones, selects)
  BY <1>5 DEF InitFilter, InitSelector, Quiet
<1>6. ASSUME NEW m \in ValuesOf("model"),
             \/ NewContext(m) \/ InitDry(m) \/ InitInfill(m) \/ InitFromFile(m)
             \/ \E text \in GrammarTexts : InitGrammar(m, text)
             \/ \E other \in ValuesOf("context") : NewContextWithCtxOther(m, other)
      PROVE  Quiet \/ OnValues
  <2>1. \/ Quiet \/ Touch({Ptr(m)})
        \/ \E other \in ValuesOf("context") : Touch({Ptr(other)})
    BY <1>6
       DEF NewContext, InitDry, InitInfill, InitFromFile, InitGrammar, NewContextWithCtxOther, Quiet
  <2>. QED BY <2>1, <1>1, <1>3
<1>7. ASSUME NEW m \in ValuesOf("model"), NEW S \in SUBSET ValuesOf("sampler"),
             NewContextWithSamplers(m, S)
      PROVE  Quiet \/ OnValues
  <2>1. Quiet \/ Touch({Ptr(m)} \cup {Ptr(s) : s \in S})
    BY <1>7 DEF NewContextWithSamplers, Quiet
  <2>2. ASSUME NEW o \in {Ptr(m)} \cup {Ptr(s) : s \in S}
        PROVE  \E v \in ValueIds : values[v] # NoValue /\ o = Ptr(v)
    BY <1>1
  <2>. QED BY <2>1, <2>2 DEF OnValues
<1>8. ASSUME NEW S \in SUBSET ValuesOf("sampler") \ {{}}, Chain(S) \/ ChainPanics(S)
      PROVE  Quiet \/ OnValues
  <2>1. Quiet \/ Touch({Ptr(s) : s \in S})
    BY <1>8 DEF Chain, ChainPanics, Quiet
  <2>. QED BY <2>1, <1>1, <1>2
<1>9. ASSUME NEW s \in ValuesOf("sampler"),
             \/ TryClone(s) \/ UseSampler(s)
             \/ \E c \in ValuesOf("context") : Sample(s, c)
      PROVE  Quiet \/ OnValues
  <2>1. TryClone(s) \/ UseSampler(s) => Touch({Ptr(s)}) \/ Quiet
    BY DEF TryClone, UseSampler, Quiet
  <2>2. ASSUME NEW c \in ValuesOf("context"), Sample(s, c) PROVE OnValues
    <3>1. Touch({Ptr(s), Ptr(c)})
      BY <2>2 DEF Sample
    <3>2. \A o \in {Ptr(s), Ptr(c)} : \E v \in ValueIds : values[v] # NoValue /\ o = Ptr(v)
      BY <1>1
    <3>. QED BY <3>1, <3>2 DEF OnValues
  <2>. QED BY <1>9, <2>1, <2>2, <1>1, <1>3
<1>10. ASSUME NEW t \in ValuesOf("context"), NEW d \in ValuesOf("context"), NewMtp(t, d)
       PROVE  Quiet \/ OnValues
  <2>1. Quiet \/ Touch({Ptr(t), Ptr(d)})
    BY <1>10 DEF NewMtp, Quiet
  <2>2. \A o \in {Ptr(t), Ptr(d)} : \E v \in ValueIds : values[v] # NoValue /\ o = Ptr(v)
    BY <1>1
  <2>. QED BY <2>1, <2>2 DEF OnValues
<1>11. ASSUME NEW p \in ValuesOf("mtp"),
              \/ UseMtp(p)
              \/ \E inner \in ValueIds, c \in ValuesOf("context") : ReplaceContext(p, inner, c)
       PROVE  Quiet \/ OnValues
  <2>1. Quiet \/ Touch({Ptr(p)})
    BY <1>11 DEF UseMtp, ReplaceContext, Quiet
  <2>. QED BY <2>1, <1>1, <1>3
<1>12. ASSUME NEW b \in ValuesOf("bitmap"), CloneBitmap(b) \/ UseBitmap(b)
       PROVE  Quiet \/ OnValues
  <2>1. Quiet \/ Touch({Ptr(b)})
    BY <1>12 DEF CloneBitmap, UseBitmap, Quiet
  <2>. QED BY <2>1, <1>1, <1>3
<1>13. ASSUME NEW x \in ValuesOf("mtmd"),
              \/ BitmapFromFile(x)
              \/ \E B \in SUBSET ValuesOf("bitmap") : Tokenize(x, B)
              \/ \E k \in ValuesOf("chunk") : EncodeChunk(x, k)
              \/ \E c \in ValuesOf("chunks"), y \in ValuesOf("context") : EvalChunks(c, x, y)
       PROVE  OnValues
  <2>1. CASE BitmapFromFile(x)
    BY <2>1, <1>1, <1>3 DEF BitmapFromFile
  <2>2. ASSUME NEW B \in SUBSET ValuesOf("bitmap"), Tokenize(x, B) PROVE OnValues
    <3>1. Touch({Ptr(x)} \cup {Ptr(b) : b \in B})
      BY <2>2 DEF Tokenize
    <3>2. ASSUME NEW o \in {Ptr(x)} \cup {Ptr(b) : b \in B}
          PROVE  \E v \in ValueIds : values[v] # NoValue /\ o = Ptr(v)
      BY <1>1
    <3>. QED BY <3>1, <3>2 DEF OnValues
  <2>3. ASSUME NEW k \in ValuesOf("chunk"), EncodeChunk(x, k) PROVE OnValues
    <3>1. Touch({Ptr(x), Ptr(k)})
      BY <2>3 DEF EncodeChunk
    <3>2. \A o \in {Ptr(x), Ptr(k)} : \E v \in ValueIds : values[v] # NoValue /\ o = Ptr(v)
      BY <1>1
    <3>. QED BY <3>1, <3>2 DEF OnValues
  <2>4. ASSUME NEW c \in ValuesOf("chunks"), NEW y \in ValuesOf("context"), EvalChunks(c, x, y)
        PROVE  OnValues
    <3>1. Touch({Ptr(c), Ptr(x), Ptr(y)})
      BY <2>4 DEF EvalChunks
    <3>2. \A o \in {Ptr(c), Ptr(x), Ptr(y)} :
            \E v \in ValueIds : values[v] # NoValue /\ o = Ptr(v)
      BY <1>1
    <3>. QED BY <3>1, <3>2 DEF OnValues
  <2>. QED BY <1>13, <2>1, <2>2, <2>3, <2>4
<1>14. ASSUME NEW c \in ValuesOf("chunks"), GetChunk(c) PROVE OnValues
  BY <1>1, <1>3, <1>14 DEF GetChunk
<1>15. ASSUME NEW k \in ValuesOf("chunk"), CopyChunk(k) \/ UseChunk(k) PROVE OnValues
  BY <1>1, <1>3, <1>15 DEF CopyChunk, UseChunk
<1>. QED BY <1>4, <1>5, <1>6, <1>7, <1>8, <1>9, <1>10, <1>11, <1>12, <1>13, <1>14, <1>15
         DEF Calls

\* Objects stay what they are, and a call that reaches llama.cpp's objects neither
\* exchanges a context nor copies a bitmap's pointer.
Keeps == KindsKept /\ (Quiet \/ UNCHANGED <<exchanged, cloned>>)

LEMMA CallsKeep == IInv /\ Calls => Keeps
<1>. SUFFICES ASSUME IInv, Calls PROVE Keeps
  OBVIOUS
<1>1. ASSUME NEW new, NEW b, Create(new, b), UNCHANGED history PROVE Keeps
  BY <1>1, CreateKinds DEF Keeps, history
<1>2. ASSUME UNCHANGED <<objs, exchanged, cloned>> PROVE Keeps
  BY <1>2 DEF Keeps, KindsKept
<1>3. ASSUME UNCHANGED objs, Quiet PROVE Keeps
  BY <1>3 DEF Keeps, KindsKept
<1>4. ASSUME NEW x, objs' = [objs EXCEPT ![made + 1] = x], UNCHANGED history PROVE Keeps
  BY <1>4, OneMoreKinds DEF Keeps, history
<1>5. CASE LoadFromFile \/ FromMatcher \/ BitmapFromData \/ NewChunks
  BY <1>1, <1>5 DEF LoadFromFile, FromMatcher, BitmapFromData, NewChunks
<1>6. CASE \E clones, selects \in BOOLEAN : InitFilter(clones) \/ InitSelector(clones, selects)
  BY <1>1, <1>6 DEF InitFilter, InitSelector
<1>7. ASSUME NEW m \in ValuesOf("model"),
             \/ NewContext(m) \/ InitDry(m) \/ InitInfill(m) \/ InitFromFile(m)
             \/ \E text \in GrammarTexts : InitGrammar(m, text)
             \/ \E S \in SUBSET ValuesOf("sampler") : NewContextWithSamplers(m, S)
             \/ \E other \in ValuesOf("context") : NewContextWithCtxOther(m, other)
      PROVE  Keeps
  <2>1. ASSUME NEW S \in SUBSET ValuesOf("sampler"), NewContextWithSamplers(m, S) PROVE Keeps
    BY <1>3, <1>4, <2>1 DEF NewContextWithSamplers, Quiet
  <2>. QED BY <1>1, <1>7, <2>1
           DEF NewContext, InitDry, InitInfill, InitFromFile, InitGrammar, NewContextWithCtxOther
<1>8. ASSUME NEW S \in SUBSET ValuesOf("sampler") \ {{}}, Chain(S) \/ ChainPanics(S)
      PROVE  Keeps
  BY <1>8, ChainKinds DEF Chain, ChainPanics, Keeps, history
<1>9. ASSUME NEW s \in ValuesOf("sampler"),
             \/ TryClone(s) \/ UseSampler(s)
             \/ \E c \in ValuesOf("context") : Sample(s, c)
      PROVE  Keeps
  <2>1. ASSUME TryClone(s) PROVE Keeps
    <3>1. UNCHANGED <<exchanged, cloned>>
      BY <2>1 DEF TryClone
    <3>. QED BY <2>1, <3>1, CloneKinds DEF Keeps
  <2>. QED BY <1>2, <1>9, <2>1 DEF UseSampler, Sample, history
<1>10. ASSUME NEW t \in ValuesOf("context"), NEW d \in ValuesOf("context"), NewMtp(t, d)
       PROVE  Keeps
  BY <1>3, <1>4, <1>10 DEF NewMtp, Quiet
<1>11. ASSUME NEW p \in ValuesOf("mtp"),
              \/ UseMtp(p)
              \/ \E inner \in ValueIds, c \in ValuesOf("context") : ReplaceContext(p, inner, c)
       PROVE  Keeps
  BY <1>2, <1>3, <1>11 DEF UseMtp, ReplaceContext, Quiet, history
<1>12. ASSUME NEW b \in ValuesOf("bitmap"), CloneBitmap(b) \/ UseBitmap(b) PROVE Keeps
  BY <1>2, <1>3, <1>12 DEF CloneBitmap, UseBitmap, Quiet, history
<1>13. ASSUME NEW x \in ValuesOf("mtmd"),
              \/ BitmapFromFile(x)
              \/ \E B \in SUBSET ValuesOf("bitmap") : Tokenize(x, B)
              \/ \E k \in ValuesOf("chunk") : EncodeChunk(x, k)
              \/ \E c \in ValuesOf("chunks"), y \in ValuesOf("context") : EvalChunks(c, x, y)
       PROVE  Keeps
  BY <1>1, <1>2, <1>13 DEF BitmapFromFile, Tokenize, EncodeChunk, EvalChunks, history
<1>14. ASSUME NEW c \in ValuesOf("chunks"), GetChunk(c) PROVE Keeps
  BY <1>2, <1>14 DEF GetChunk, history
<1>15. ASSUME NEW k \in ValuesOf("chunk"), CopyChunk(k) \/ UseChunk(k) PROVE Keeps
  BY <1>1, <1>2, <1>15 DEF CopyChunk, UseChunk, history
<1>. QED BY <1>5, <1>6, <1>7, <1>8, <1>9, <1>10, <1>11, <1>12, <1>13, <1>14, <1>15 DEF Calls

LEMMA KnownStep ==
  IInv /\ KnownMisuse /\ [Next]_vars => KnownMisuse'
<1>. SUFFICES ASSUME IInv, KnownMisuse, [Next]_vars PROVE KnownMisuse'
  OBVIOUS
<1>1. CASE Calls
  <2>1. Quiet => KnownMisuse'
    BY DEF Quiet, KnownMisuse
  <2>. QED BY <1>1, <2>1, CallsTouch, CallsKeep, TouchKnown DEF OnValues, Keeps
<1>2. ASSUME NEW v \in ValueIds, Drop(v) PROVE KnownMisuse'
  <2>1. IF values[v].owned THEN misused' = FreeFault(Ptr(v)) ELSE misused' = {}
    BY <1>2 DEF Drop
  <2>2. CASE misused' = {}
    BY <2>2 DEF KnownMisuse
  <2>3. CASE values[v].owned /\ misused' = FreeFault(Ptr(v))
    <3>1. v \in Owners(Ptr(v)) /\ Ptr(v) \in Made
      BY <1>2, <2>3, PointsToLive DEF Drop, Droppable, Owners, Ptr
    <3>2. objs[Ptr(v)].live \/ Ptr(v) \in cloned'
      BY <1>2, <3>1, OwnerFacts DEF Drop, history
    <3>. QED BY <2>3, <3>2 DEF FreeFault, KnownMisuse
  <2>. QED BY <2>1, <2>2, <2>3, Zenon
<1>3. CASE UNCHANGED vars
  BY <1>3 DEF vars, history, KnownMisuse, Untied
<1>. QED BY <1>1, <1>2, <1>3 DEF Next

LEMMA NextIInv == IInv /\ [Next]_vars => IInv'
<1>. SUFFICES ASSUME IInv, [Next]_vars PROVE IInv'
  OBVIOUS
<1>1. CASE Calls
  BY <1>1, CallsStep
<1>2. ASSUME NEW v \in ValueIds, Drop(v) PROVE IInv'
  BY <1>2, DropStep
<1>3. CASE UNCHANGED vars
  BY <1>3, IdleStep DEF vars
<1>. QED BY <1>1, <1>2, <1>3 DEF Next

\* The inductive invariant: what owns, borrows, holds and points to what.
THEOREM Invariance == Spec => []IInv
<1>1. Init => IInv
  BY InitIInv
<1>. QED BY <1>1, NextIInv, PTL DEF Spec

\* The numbers in values and objects are those of values and objects.
THEOREM TypeCorrect == Spec => []TypeOK
<1>1. IInv => TypeOK
  BY DEF IInv
<1>. QED BY <1>1, Invariance, PTL

\* However many values and objects there are, every native object that exists has
\* exactly one owner or belongs to a live object, but for a bitmap after its clone and what
\* a panicking iterator left behind: `Drop` frees it once and leaks none.
THEOREM OwnedByOne == Spec => []OneOwner
BY Invariance, OwnedOnce, PTL

\* No object goes before one that points to it, but through the pointers that have
\* no lifetime in the Rust types; a context goes before its decoder only if it was
\* taken out of it.
THEOREM UsedAlive == Spec => []UsesAlive
BY Invariance, AliveLongEnough, PTL

\* A call reaches a freed object only by a pointer without a lifetime, a chunk whose
\* collection is gone or a cloned bitmap, and a drop frees only such a bitmap again.
THEOREM MisuseKnown == Spec => []KnownMisuse
<1>1. Init => KnownMisuse
  BY InitIInv
<1>. QED BY <1>1, KnownStep, Invariance, PTL DEF Spec
=============================================================================
