--------------------------- MODULE ContextProofs ---------------------------
(***************************************************************************)
(* What is kept with a native context.  For any models, adapters and       *)
(* contexts: the adapters a context points to exist, and adapters and      *)
(* control vector act as they were set.  For any sequences, positions,     *)
(* files, snapshots and number of calls: the memory is what the            *)
(* documentation of the calls on it promises, and a loaded token list is   *)
(* the saved one.                                                          *)
(***************************************************************************)
EXTENDS ContextAdapters, ContextMemory, TLAPS

-----------------------------------------------------------------------------
(* Adapters and control vectors                                            *)

\* A context is a record, and its control vector and stack are what was asked for.
RecordInv(ctx) == ctx = [model |-> ctx.model, loras |-> ctx.loras, cvec |-> ctx.cvec]
StackInv(ctx, ask) ==
  /\ DOMAIN ctx.loras = {ask.loras[k].adapter : k \in DOMAIN ask.loras}
  /\ \A k \in DOMAIN ask.loras :
       /\ ctx.loras[ask.loras[k].adapter] = ask.loras[k].scale
       /\ ask.loras[k].scale \in FiniteScales
SteeringInv(ctx, ask) ==
  ctx.model # NoModel =>
    \A il \in Nat :
      Steering(ctx, il) = IF il \in ask.cvec.start..ask.cvec.end THEN ask.cvec.vec ELSE NoVector
ModelInv(ctx) ==
  ctx.model # NoModel =>
    /\ ctx.model \in models
    /\ ctx.cvec \in [rows: [Rows(ctx.model) -> Vectors \cup {NoVector}], start: Int, end: Int]
\* The adapters of a context belong to its model: the inductive form of
\* NoDanglingAdapter, as only the context's own model is sure to live on.
OwnerInv(ctx) ==
  /\ \A a \in DOMAIN ctx.loras : a \in Adapters /\ adapters[a] = ctx.model
  /\ ctx.model = NoModel => ctx = NoContext /\ DOMAIN ctx.loras = {}
AskedType == [loras: Seq(Entry), cvec: [vec: Vectors \cup {NoVector}, start: Int, end: Int]]

ContextInv(ctx, ask) ==
  RecordInv(ctx) /\ StackInv(ctx, ask) /\ SteeringInv(ctx, ask) /\ ModelInv(ctx)
    /\ OwnerInv(ctx) /\ ask \in AskedType
OwnersInv ==
  /\ models \subseteq Models
  /\ adapters \in [Adapters -> Models \cup {NoModel}]
  /\ handles \subseteq Adapters
  /\ \A a \in handles : adapters[a] \in models
  /\ DOMAIN contexts = Contexts
  /\ asked = [c \in Contexts |-> asked[c]]

AdaptersInv == OwnersInv /\ \A c \in Contexts : ContextInv(contexts[c], asked[c])

----------------------------------------------------------------------------
(* What the native calls do to a context *)

LEMMA NoContextGood == ContextInv(NoContext, NothingAsked)
<1>1. DOMAIN <<>> = {}
  OBVIOUS
<1>2. <<>> \in Seq(Entry)
  OBVIOUS
<1> QED
  BY <1>1, <1>2 DEF ContextInv, RecordInv, StackInv, SteeringInv, ModelInv, OwnerInv,
       NoContext, NothingAsked, NoSteering, AskedType

LEMMA FreshContextGood ==
  ASSUME ModelAssumption, NEW m \in Models, m \in models
  PROVE  ContextInv(FreshContext(m), NothingAsked)
<1> DEFINE ctx == FreshContext(m)
<1>1. DOMAIN <<>> = {}
  OBVIOUS
<1>2. <<>> \in Seq(Entry)
  OBVIOUS
<1>3. ctx = [model |-> m, loras |-> <<>>,
             cvec |-> [rows |-> [il \in Rows(m) |-> NoVector], start |-> -1, end |-> -1]]
  BY DEF FreshContext
<1> HIDE DEF ctx
<1>4. RecordInv(ctx)
  BY <1>3 DEF RecordInv
<1>5. StackInv(ctx, NothingAsked)
  BY <1>1, <1>3 DEF StackInv, NothingAsked
<1>6. SteeringInv(ctx, NothingAsked)
  BY <1>3 DEF SteeringInv, Steering, NothingAsked, NoSteering
<1>7. ModelInv(ctx) /\ OwnerInv(ctx)
  BY <1>1, <1>3 DEF ModelInv, OwnerInv, ModelAssumption
<1>8. NothingAsked \in AskedType
  BY <1>2 DEF NothingAsked, NoSteering, AskedType
<1> QED  BY <1>4, <1>5, <1>6, <1>7, <1>8 DEF ContextInv, ctx

\* The stack that is set is the list, if no adapter is in it twice.
LEMMA SetLorasGood ==
  ASSUME NEW ctx, NEW ask, NEW list \in Stacks, ContextInv(ctx, ask), OwnersInv,
         ctx.model # NoModel, validate_lora_adapters(ctx.model, list, "Ok")
  PROVE  ContextInv(llama_set_adapters_lora(ctx, list), [ask EXCEPT !.loras = list])
<1> DEFINE new == llama_set_adapters_lora(ctx, list)
           told == [ask EXCEPT !.loras = list]
           fit(a, k) == /\ list[k].adapter = a
                        /\ \A j \in DOMAIN list : list[j].adapter = a => j <= k
<1>1. PICK n \in 0..MaxStack : list \in [1..n -> [adapter: handles, scale: Scales]]
  BY DEF Stacks
<1>2. n \in Int /\ DOMAIN list = 1..n
  BY <1>1, ValueAssumption
<1>3. \A k \in 1..n : lora_fault(ctx.model, list, k) = "Ok"
  BY <1>2 DEF validate_lora_adapters
<1>4. \A k \in 1..n : /\ list[k].scale \in FiniteScales
                      /\ adapters[list[k].adapter] = ctx.model
                      /\ \A j \in 1..(k - 1) : list[j].adapter # list[k].adapter
  <2> TAKE k \in 1..n
  <2>1. lora_fault(ctx.model, list, k) = "Ok"
    BY <1>3
  <2>2. list[k].scale \in FiniteScales
    BY <2>1 DEF lora_fault
  <2>3. adapters[list[k].adapter] = ctx.model
    BY <2>1, <2>2 DEF lora_fault
  <2> QED  BY <2>1, <2>2, <2>3 DEF lora_fault
<1>5. \A j, k \in 1..n : list[j].adapter = list[k].adapter => j = k
  BY <1>2, <1>4
<1>6. \A k \in 1..n : (CHOOSE i \in DOMAIN list : fit(list[k].adapter, i)) = k
  <2> TAKE k \in 1..n
  <2>1. fit(list[k].adapter, k)
    BY <1>2, <1>5
  <2>2. \A i \in 1..n : fit(list[k].adapter, i) => i = k
    BY <1>5
  <2> HIDE DEF fit
  <2> QED  BY <1>2, <2>1, <2>2
<1>7. ctx = [model |-> ctx.model, loras |-> ctx.loras, cvec |-> ctx.cvec]
  BY DEF ContextInv, RecordInv
<1>8. /\ new.model = ctx.model /\ new.cvec = ctx.cvec
      /\ new.loras = [a \in {list[k].adapter : k \in DOMAIN list} |->
                        list[CHOOSE i \in DOMAIN list : fit(a, i)].scale]
      /\ new = [model |-> new.model, loras |-> new.loras, cvec |-> new.cvec]
  BY <1>7 DEF llama_set_adapters_lora
<1>9. ask \in AskedType
  BY DEF ContextInv
<1>10. list \in Seq(Entry)
  <2>1. [adapter: handles, scale: Scales] \subseteq Entry
    BY DEF OwnersInv, Entry
  <2>2. n \in Nat
    BY <1>2, ValueAssumption
  <2> QED  BY <1>1, <2>1, <2>2
<1>11. /\ told \in AskedType /\ told.loras = list
       /\ told.cvec = ask.cvec
  BY <1>9, <1>10 DEF AskedType
<1> HIDE DEF new, told
<1>12. StackInv(new, told)
  <2>1. DOMAIN new.loras = {list[k].adapter : k \in DOMAIN list}
    BY <1>8
  <2>2. \A k \in 1..n : new.loras[list[k].adapter] = list[k].scale
    <3> TAKE k \in 1..n
    <3>1. list[k].adapter \in {list[j].adapter : j \in DOMAIN list}
      BY <1>2
    <3>2. new.loras[list[k].adapter]
            = list[CHOOSE i \in DOMAIN list : fit(list[k].adapter, i)].scale
      BY <1>8, <3>1
    <3> QED  BY <1>6, <3>2
  <2> QED  BY <1>2, <1>4, <1>11, <2>1, <2>2 DEF StackInv
<1>13. RecordInv(new)
  BY <1>8 DEF RecordInv, ContextInv
<1>14. SteeringInv(new, told)
  BY <1>8, <1>11 DEF SteeringInv, Steering, ContextInv
<1>15. ModelInv(new)
  BY <1>8 DEF ModelInv, ContextInv
<1>16. OwnerInv(new)
  <2>1. \A a \in DOMAIN new.loras : \E k \in 1..n : a = list[k].adapter
    BY <1>2, <1>8
  <2>2. \A k \in 1..n : list[k].adapter \in Adapters
    BY <1>1 DEF OwnersInv
  <2>3. new.model # NoModel /\ new.model = ctx.model
    BY <1>8
  <2> QED  BY <1>4, <2>1, <2>2, <2>3 DEF OwnerInv
<1> QED  BY <1>11, <1>12, <1>13, <1>14, <1>15, <1>16 DEF ContextInv, new, told

\* Taking the stack away.
LEMMA RemoveLorasGood ==
  ASSUME NEW ctx, NEW ask, ContextInv(ctx, ask), ctx.model # NoModel
  PROVE  ContextInv(llama_set_adapters_lora(ctx, <<>>), [ask EXCEPT !.loras = <<>>])
<1> DEFINE new == llama_set_adapters_lora(ctx, <<>>)
           told == [ask EXCEPT !.loras = <<>>]
<1>1. DOMAIN <<>> = {} /\ <<>> \in Seq(Entry)
  OBVIOUS
<1>2. ctx = [model |-> ctx.model, loras |-> ctx.loras, cvec |-> ctx.cvec]
  BY DEF ContextInv, RecordInv
<1>3. /\ new.model = ctx.model /\ new.cvec = ctx.cvec
      /\ DOMAIN new.loras = {}
      /\ new = [model |-> new.model, loras |-> new.loras, cvec |-> new.cvec]
  BY <1>1, <1>2 DEF llama_set_adapters_lora
<1>4. ask \in AskedType
  BY DEF ContextInv
<1>5. /\ told \in AskedType /\ told.loras = <<>>
      /\ told.cvec = ask.cvec
  BY <1>1, <1>4 DEF AskedType
<1> HIDE DEF new, told
<1>6. StackInv(new, told)
  BY <1>1, <1>3, <1>5 DEF StackInv
<1>7. RecordInv(new) /\ ModelInv(new)
  BY <1>3 DEF RecordInv, ModelInv, ContextInv
<1>8. SteeringInv(new, told)
  BY <1>3, <1>5 DEF SteeringInv, Steering, ContextInv
<1>9. OwnerInv(new)
  BY <1>3 DEF OwnerInv
<1> QED  BY <1>5, <1>6, <1>7, <1>8, <1>9 DEF ContextInv, new, told

\* A row of the matrix lies within it.
LEMMA RowsFit ==
  ASSUME NEW n \in Nat, NEW k \in Nat, NEW il \in Nat, il <= k
  PROVE  n * il <= n * k
<1>1. k - il \in Nat /\ n * (k - il) \in Nat
  OBVIOUS
<1>2. n * k = n * il + n * (k - il)
  OBVIOUS
<1> QED  BY <1>1, <1>2

\* Data of the length that validation demands writes every row.
LEMMA SetVectorGood ==
  ASSUME ModelAssumption, NEW ctx, NEW ask, NEW data \in Data,
         NEW s \in Nat, NEW e \in Nat, ContextInv(ctx, ask), OwnersInv, ctx.model # NoModel,
         validate_control_vector(ctx.model, data, s, e) = "Ok"
  PROVE  ContextInv(llama_set_adapter_cvec(ctx, data, NEmbd[ctx.model], s, e),
                    [ask EXCEPT !.cvec = [vec |-> data.vec, start |-> s, end |-> e]])
<1> DEFINE m == ctx.model
           new == llama_set_adapter_cvec(ctx, data, NEmbd[m], s, e)
           told == [ask EXCEPT !.cvec = [vec |-> data.vec, start |-> s, end |-> e]]
<1>1. /\ NEmbd[m] > 0 /\ NLayer[m] >= 2
      /\ s # 0 /\ s <= e /\ e < NLayer[m]
      /\ data.len = NEmbd[m] * (NLayer[m] - 1)
  <2>1. m \in Models
    BY DEF ContextInv, ModelInv, OwnersInv
  <2>2. NEmbd[m] \in Int /\ NLayer[m] \in Nat
    BY <2>1 DEF ModelAssumption
  <2> HIDE DEF m
  <2>3. validate_control_vector(m, data, s, e) = "Ok"
    BY DEF m
  <2> QED  BY <2>2, <2>3 DEF validate_control_vector
<1>2. m \in Models /\ ctx.cvec.rows \in [Rows(m) -> Vectors \cup {NoVector}]
  BY DEF ContextInv, ModelInv, OwnersInv
<1>3. NEmbd[m] \in Nat /\ NLayer[m] \in Nat
  BY <1>1, <1>2 DEF ModelAssumption
<1>4. ctx = [model |-> ctx.model, loras |-> ctx.loras, cvec |-> ctx.cvec]
  BY DEF ContextInv, RecordInv
<1>5. /\ new.model = ctx.model /\ new.loras = ctx.loras
      /\ new.cvec = [rows |-> [il \in DOMAIN ctx.cvec.rows |->
                        IF NEmbd[m] * il <= data.len THEN data.vec ELSE ctx.cvec.rows[il]],
                      start |-> s, end |-> e]
      /\ new = [model |-> new.model, loras |-> new.loras, cvec |-> new.cvec]
  BY <1>4 DEF llama_set_adapter_cvec
<1>6. ask \in AskedType /\ data.vec \in Vectors
  BY DEF ContextInv, Data
<1>7. /\ told \in AskedType /\ told.loras = ask.loras
      /\ told.cvec = [vec |-> data.vec, start |-> s, end |-> e]
  BY <1>6 DEF AskedType
<1> HIDE DEF new, told, m
<1>8. \A il \in Rows(m) : il \in DOMAIN new.cvec.rows /\ new.cvec.rows[il] = data.vec
  <2> TAKE il \in Rows(m)
  <2>1. il \in Nat /\ NLayer[m] - 1 \in Nat /\ il <= NLayer[m] - 1
    BY <1>1, <1>3 DEF Rows
  <2>2. NEmbd[m] * il <= data.len
    BY <1>1, <1>3, <2>1, RowsFit
  <2> QED  BY <1>2, <1>5, <2>2
<1>9. StackInv(new, told)
  BY <1>5, <1>7 DEF StackInv, ContextInv
<1>10. RecordInv(new)
  BY <1>5 DEF RecordInv
<1>11. ModelInv(new)
  <2>1. new.cvec.rows \in [Rows(m) -> Vectors \cup {NoVector}]
    BY <1>2, <1>5, <1>6
  <2> QED  BY <1>5, <2>1 DEF ModelInv, ContextInv, m
<1>12. SteeringInv(new, told)
  <2> SUFFICES ASSUME NEW il \in Nat
               PROVE  Steering(new, il) = IF il \in s..e THEN data.vec ELSE NoVector
    BY <1>7 DEF SteeringInv
  <2>1. CASE il \in s..e
    <3>1. il \in Rows(m)
      BY <1>1, <1>3, <2>1 DEF Rows
    <3>2. new.cvec.start = s /\ new.cvec.end = e
      BY <1>5
    <3> QED  BY <1>8, <2>1, <3>1, <3>2 DEF Steering
  <2>2. CASE il \notin s..e
    BY <1>5, <2>2 DEF Steering
  <2> QED  BY <2>1, <2>2
<1>13. OwnerInv(new)
  BY <1>5 DEF OwnerInv, ContextInv
<1> QED  BY <1>7, <1>9, <1>10, <1>11, <1>12, <1>13 DEF ContextInv, new, told, m

\* Clearing the vector keeps the rows and empties the range.
LEMMA ClearVectorGood ==
  ASSUME NEW ctx, NEW ask, ContextInv(ctx, ask), ctx.model # NoModel
  PROVE  ContextInv(llama_clear_adapter_cvec(ctx),
                    [ask EXCEPT !.cvec = NoSteering])
<1> DEFINE new == llama_clear_adapter_cvec(ctx)
           told == [ask EXCEPT !.cvec = NoSteering]
<1>1. ctx = [model |-> ctx.model, loras |-> ctx.loras, cvec |-> ctx.cvec]
  BY DEF ContextInv, RecordInv
<1>2. /\ new.model = ctx.model /\ new.loras = ctx.loras
      /\ new.cvec = [rows |-> ctx.cvec.rows, start |-> -1, end |-> -1]
      /\ new = [model |-> new.model, loras |-> new.loras, cvec |-> new.cvec]
  BY <1>1 DEF llama_clear_adapter_cvec
<1>3. ask \in AskedType
  BY DEF ContextInv
<1>4. /\ told \in AskedType /\ told.loras = ask.loras
      /\ told.cvec = NoSteering
  BY <1>3 DEF AskedType, NoSteering
<1> HIDE DEF new, told
<1>5. StackInv(new, told)
  BY <1>2, <1>4 DEF StackInv, ContextInv
<1>6. RecordInv(new) /\ ModelInv(new)
  BY <1>2 DEF RecordInv, ModelInv, ContextInv
<1>7. SteeringInv(new, told)
  BY <1>2, <1>4 DEF SteeringInv, Steering, NoSteering
<1>8. OwnerInv(new)
  BY <1>2 DEF OwnerInv, ContextInv
<1> QED  BY <1>4, <1>5, <1>6, <1>7, <1>8 DEF ContextInv, new, told

----------------------------------------------------------------------------
(* The invariant *)

LEMMA InitInv == AdaptersInit => AdaptersInv
<1> SUFFICES ASSUME AdaptersInit PROVE AdaptersInv
  OBVIOUS
<1>1. OwnersInv
  BY DEF AdaptersInit, OwnersInv
<1>2. \A c \in Contexts : contexts[c] = NoContext /\ asked[c] = NothingAsked
  BY DEF AdaptersInit
<1> QED  BY <1>1, <1>2, NoContextGood DEF AdaptersInv

\* Steps that change only who owns what: the adapters of a context's model stay, and
\* so does the model.
LEMMA OwnersStep ==
  ASSUME AdaptersInv, OwnersInv', UNCHANGED <<contexts, asked>>,
         \A c \in Contexts : contexts[c].model \in models => contexts[c].model \in models',
         \A a \in Adapters, m \in models : adapters[a] = m /\ m \in models' => adapters'[a] = m
  PROVE  AdaptersInv'
<1> SUFFICES ASSUME NEW c \in Contexts PROVE ContextInv(contexts[c], asked[c])'
  BY DEF AdaptersInv
<1>1. ContextInv(contexts[c], asked[c]) /\ contexts'[c] = contexts[c] /\ asked'[c] = asked[c]
  BY DEF AdaptersInv
<1>2. (RecordInv(contexts[c]) /\ StackInv(contexts[c], asked[c]) /\ SteeringInv(contexts[c], asked[c]))'
  BY <1>1 DEF ContextInv, RecordInv, StackInv, SteeringInv, Steering
<1>3. ModelInv(contexts[c])'
  BY <1>1 DEF ContextInv, ModelInv
<1>4. OwnerInv(contexts[c])'
  BY <1>1 DEF ContextInv, OwnerInv, ModelInv
<1> QED  BY <1>1, <1>2, <1>3, <1>4 DEF ContextInv, AskedType

\* Steps that change one context.
LEMMA ContextStep ==
  ASSUME AdaptersInv, NEW c \in Contexts, NEW ctx, NEW ask,
         contexts' = [contexts EXCEPT ![c] = ctx], asked' = [asked EXCEPT ![c] = ask],
         UNCHANGED <<models, adapters, handles>>, ContextInv(ctx, ask)
  PROVE  AdaptersInv'
<1>1. OwnersInv'
  BY DEF AdaptersInv, OwnersInv
<1> SUFFICES ASSUME NEW d \in Contexts PROVE ContextInv(contexts[d], asked[d])'
  BY <1>1 DEF AdaptersInv
<1>2. ContextInv(contexts'[d], asked'[d])
  BY DEF AdaptersInv, OwnersInv
<1> QED
  BY <1>2 DEF ContextInv, RecordInv, StackInv, SteeringInv, Steering, ModelInv, OwnerInv, AskedType

LEMMA NextInv == AdaptersInv /\ [AdaptersNext]_adapterVars => AdaptersInv'
<1> SUFFICES ASSUME AdaptersInv, [AdaptersNext]_adapterVars PROVE AdaptersInv'
  OBVIOUS
<1>1. CASE UNCHANGED adapterVars
  <2>1. OwnersInv'
    BY <1>1 DEF AdaptersInv, OwnersInv, adapterVars
  <2> QED  BY <1>1, <2>1, OwnersStep DEF adapterVars
<1>2. CASE \E m \in Models : LoadFromFile(m)
  <2>1. PICK m \in Models : LoadFromFile(m)
    BY <1>2
  <2>2. OwnersInv'
    BY <2>1 DEF LoadFromFile, AdaptersInv, OwnersInv
  <2> QED  BY <2>1, <2>2, OwnersStep DEF LoadFromFile
<1>3. CASE \E m \in Models : DropModel(m)
  <2>1. PICK m \in Models : DropModel(m)
    BY <1>3
  <2>2. OwnersInv'
    BY <2>1 DEF DropModel, AdaptersInv, OwnersInv
  <2>3. \A a \in Adapters, k \in models : adapters[a] = k /\ k \in models' => adapters'[a] = k
    BY <2>1 DEF DropModel
  <2> QED  BY <2>1, <2>2, <2>3, OwnersStep DEF DropModel
<1>4. CASE \E m \in Models, a \in Adapters : LoraAdapterInit(m, a)
  <2>1. PICK m \in Models, a \in Adapters : LoraAdapterInit(m, a)
    BY <1>4
  <2>2. OwnersInv'
    BY <2>1 DEF LoraAdapterInit, AdaptersInv, OwnersInv
  <2>3. NoModel \notin models
    BY ModelAssumption DEF AdaptersInv, OwnersInv
  <2>4. \A b \in Adapters, k \in models : adapters[b] = k /\ k \in models' => adapters'[b] = k
    BY <2>1, <2>3 DEF LoraAdapterInit, AdaptersInv, OwnersInv
  <2> QED  BY <2>1, <2>2, <2>4, OwnersStep DEF LoraAdapterInit
<1>5. CASE \E a \in Adapters : DropHandle(a)
  <2>1. PICK a \in Adapters : DropHandle(a)
    BY <1>5
  <2>2. OwnersInv'
    BY <2>1 DEF DropHandle, AdaptersInv, OwnersInv
  <2> QED  BY <2>1, <2>2, OwnersStep DEF DropHandle
<1>6. CASE NullResult
  <2>1. OwnersInv'
    BY <1>6 DEF NullResult, AdaptersInv, OwnersInv
  <2> QED  BY <1>6, <2>1, OwnersStep DEF NullResult
<1>7. CASE \E c \in Contexts, m \in Models : NewContext(c, m)
  <2>1. PICK c \in Contexts, m \in Models : NewContext(c, m)
    BY <1>7
  <2>2. ContextInv(FreshContext(m), NothingAsked)
    BY <2>1, ModelAssumption, FreshContextGood DEF NewContext
  <2> QED  BY <2>1, <2>2, ContextStep DEF NewContext
<1>8. CASE \E c \in Contexts : DropContext(c)
  <2>1. PICK c \in Contexts : DropContext(c)
    BY <1>8
  <2> QED  BY <2>1, NoContextGood, ContextStep DEF DropContext
<1>9. ASSUME NEW c \in Contexts, ContextCall(c) PROVE AdaptersInv'
  <2>1. /\ UNCHANGED <<models, adapters, handles>>
        /\ ContextInv(contexts[c], asked[c]) /\ OwnersInv
        /\ contexts[c] # NoContext
    BY <1>9 DEF ContextCall, AdaptersInv
  <2>2. contexts[c].model # NoModel
    BY <2>1 DEF ContextInv, OwnerInv
  <2>3. ASSUME NEW list \in Stacks, LoraAdaptersSet(c, list) PROVE AdaptersInv'
    <3>1. /\ validate_lora_adapters(contexts[c].model, list, "Ok")
          /\ contexts' = [contexts EXCEPT ![c] = llama_set_adapters_lora(contexts[c], list)]
          /\ asked' = [asked EXCEPT ![c] = [asked[c] EXCEPT !.loras = list]]
      BY <2>3 DEF LoraAdaptersSet
    <3>2. ContextInv(llama_set_adapters_lora(contexts[c], list), [asked[c] EXCEPT !.loras = list])
      BY <2>1, <2>2, <3>1, SetLorasGood
    <3> QED  BY <2>1, <3>1, <3>2, ContextStep
  <2>4. CASE LoraAdapterRemove(c)
    <3>1. /\ contexts' = [contexts EXCEPT ![c] = llama_set_adapters_lora(contexts[c], <<>>)]
          /\ asked' = [asked EXCEPT ![c] = [asked[c] EXCEPT !.loras = <<>>]]
      BY <2>4 DEF LoraAdapterRemove
    <3>2. ContextInv(llama_set_adapters_lora(contexts[c], <<>>), [asked[c] EXCEPT !.loras = <<>>])
      BY <2>1, <2>2, RemoveLorasGood
    <3> QED  BY <2>1, <3>1, <3>2, ContextStep
  <2>5. ASSUME NEW data \in Data, NEW s \in LayerArguments, NEW e \in LayerArguments,
               ControlVectorSet(c, data, s, e)
        PROVE  AdaptersInv'
    <3> DEFINE ctx == llama_set_adapter_cvec(contexts[c], data, NEmbd[contexts[c].model], s, e)
               ask == [asked[c] EXCEPT !.cvec = [vec |-> data.vec, start |-> s, end |-> e]]
    <3>1. /\ validate_control_vector(contexts[c].model, data, s, e) = "Ok"
          /\ contexts' = [contexts EXCEPT ![c] = ctx]
          /\ asked' = [asked EXCEPT ![c] = ask]
      BY <2>5 DEF ControlVectorSet
    <3>2. s \in Nat /\ e \in Nat
      BY ValueAssumption DEF LayerArguments
    <3>3. ContextInv(ctx, ask)
      BY <2>1, <2>2, <3>1, <3>2, ModelAssumption, SetVectorGood
    <3> HIDE DEF ctx, ask
    <3> QED  BY <2>1, <3>1, <3>3, ContextStep
  <2>6. CASE ControlVectorClear(c)
    <3>1. /\ contexts' = [contexts EXCEPT ![c] = llama_clear_adapter_cvec(contexts[c])]
          /\ asked' = [asked EXCEPT ![c] = [asked[c] EXCEPT !.cvec = NoSteering]]
      BY <2>6 DEF ControlVectorClear
    <3>2. ContextInv(llama_clear_adapter_cvec(contexts[c]), [asked[c] EXCEPT !.cvec = NoSteering])
      BY <2>1, <2>2, ClearVectorGood
    <3> QED  BY <2>1, <3>1, <3>2, ContextStep
  <2>7. CASE Rejected(c)
    <3>1. UNCHANGED <<contexts, asked>>
      BY <2>7 DEF Rejected
    <3>2. OwnersInv'
      BY <2>1, <3>1 DEF OwnersInv
    <3> QED  BY <2>1, <3>1, <3>2, OwnersStep
  <2> QED  BY <1>9, <2>3, <2>4, <2>5, <2>6, <2>7 DEF ContextCall
<1> QED  BY <1>1, <1>2, <1>3, <1>4, <1>5, <1>6, <1>7, <1>8, <1>9 DEF AdaptersNext

\* The invariant holds in every reachable state.
THEOREM AdaptersInvariance == AdaptersSpec => []AdaptersInv
  BY InitInv, NextInv, PTL DEF AdaptersSpec

----------------------------------------------------------------------------
(* What it implies *)

\* An adapter that a context points to is not freed before the context.
THEOREM ActiveAdaptersLive == AdaptersSpec => []NoDanglingAdapter
<1>1. AdaptersInv => NoDanglingAdapter
  BY DEF AdaptersInv, ContextInv, OwnerInv, ModelInv, NoDanglingAdapter
<1> QED  BY <1>1, AdaptersInvariance, PTL

\* The active adapters are those of the last accepted call.
THEOREM StackIsAsSet == AdaptersSpec => []StackAsSet
<1>1. AdaptersInv => StackAsSet
  BY DEF AdaptersInv, ContextInv, StackInv, StackAsSet
<1> QED  BY <1>1, AdaptersInvariance, PTL

\* No layer is steered by a vector that was replaced or cleared.
THEOREM SteeringIsAsSet == AdaptersSpec => []SteeringAsSet
<1>1. AdaptersInv => SteeringAsSet
  <2> SUFFICES ASSUME AdaptersInv, NEW c \in Contexts, contexts[c] # NoContext
               PROVE  \A il \in Nat : Steering(contexts[c], il)
                        = IF il \in asked[c].cvec.start..asked[c].cvec.end
                          THEN asked[c].cvec.vec ELSE NoVector
    BY DEF SteeringAsSet
  <2> QED  BY DEF AdaptersInv, ContextInv, OwnerInv, SteeringInv
<1> QED  BY <1>1, AdaptersInvariance, PTL

\* Owners, contexts and the history have their types.
THEOREM TypeCorrect == AdaptersSpec => []AdaptersTypeOK
<1>1. AdaptersInv => AdaptersTypeOK
  <2> SUFFICES ASSUME AdaptersInv PROVE AdaptersTypeOK
    OBVIOUS
  <2>1. asked \in [Contexts -> AskedType]
    BY DEF AdaptersInv, ContextInv, OwnersInv
  <2>2. \A c \in Contexts : contexts[c] # NoContext => ModelInv(contexts[c]) /\ contexts[c].model # NoModel
    BY DEF AdaptersInv, ContextInv, OwnerInv
  <2> QED  BY <2>1, <2>2 DEF AdaptersInv, OwnersInv, ModelInv, AskedType, AdaptersTypeOK
<1> QED  BY <1>1, AdaptersInvariance, PTL

-----------------------------------------------------------------------------
(* The operators of llama.cpp keep the type of a memory.                   *)

LEMMA ContentParts ==
  ASSUME NEW m \in Memories, NEW s \in Seqs
  PROVE  /\ m[s].kv \subseteq Positions /\ m[s].run \in 0 .. MaxRun
         /\ m[s] = [kv |-> m[s].kv, run |-> m[s].run]
BY DEF Memories, Content

LEMMA EmptyMemory == [s \in Seqs |-> Empty] \in Memories /\ Empty \in Content
BY MemoryAssumption DEF Memories, Content, Empty, MemoryAssumption

LEMMA WithContent ==
  ASSUME NEW m \in Memories, NEW s, NEW kv \in SUBSET Positions, NEW run \in 0 .. MaxRun
  PROVE  [m EXCEPT ![s] = [kv |-> kv, run |-> run]] \in Memories
BY DEF Memories, Content

LEMMA RemovedType ==
  ASSUME NEW m \in Memories, NEW ss, NEW range
  PROVE  seq_rm(m, ss, range) \in Memories
<1>1. ASSUME NEW s \in Seqs
      PROVE  (IF s \notin ss THEN m[s]
              ELSE [kv |-> m[s].kv \ range,
                    run |-> IF range = Positions THEN 0 ELSE m[s].run]) \in Content
  <2>1. m[s].kv \ range \in SUBSET Positions
    BY ContentParts
  <2>2. (IF range = Positions THEN 0 ELSE m[s].run) \in 0 .. MaxRun
    <3>1. m[s].run \in 0 .. MaxRun
      BY ContentParts
    <3>2. 0 \in 0 .. MaxRun
      BY MemoryAssumption DEF MemoryAssumption
    <3>. QED BY <3>1, <3>2
  <2>3. m[s] \in Content
    BY DEF Memories
  <2>. QED BY <2>1, <2>2, <2>3 DEF Content
<1>. QED BY <1>1 DEF seq_rm, Memories

LEMMA CopiedType ==
  ASSUME NEW m \in Memories, NEW src \in Seqs, NEW dst \in Seqs, NEW range
  PROVE  seq_cp(m, src, dst, range) \in Memories
<1>1. m[dst].kv \cup (m[src].kv \cap range) \in SUBSET Positions
  BY ContentParts
<1>. QED BY <1>1, ContentParts, WithContent DEF seq_cp

-----------------------------------------------------------------------------
(* The optional bounds                                                     *)

\* Bounds that are converted give llama.cpp the range that was asked for: None
\* becomes -1, which is open, and no number becomes negative.
LEMMA ConvertedRange ==
  ASSUME NEW o0 \in OptionU32, NEW o1 \in OptionU32,
         try_i32(o0) # <<>>, try_i32(o1) # <<>>
  PROVE  native_range(try_i32(o0)[1], try_i32(o1)[1]) = Asked(o0, o1)
<1>1. ASSUME NEW o \in OptionU32, try_i32(o) # <<>>, NEW p \in Positions
      PROVE  /\ (try_i32(o)[1] < 0 \/ try_i32(o)[1] <= p) <=> (o # <<>> => o[1] <= p)
             /\ (try_i32(o)[1] < 0 \/ p < try_i32(o)[1]) <=> (o # <<>> => p < o[1])
  <2>1. CASE o = <<>>
    BY <2>1 DEF try_i32
  <2>2. CASE o # <<>>
    <3>1. try_i32(o) = o /\ o[1] \in U32
      BY <1>1, <2>2 DEF try_i32, OptionU32
    <3>2. ~(o[1] < 0)
      BY <3>1, MemoryAssumption DEF U32, MemoryAssumption
    <3>. QED BY <2>2, <3>1, <3>2
  <2>. QED BY <2>1, <2>2
<1>. QED BY <1>1 DEF native_range, Asked

\* copy_cache: from 0 to size.
LEMMA CopyCacheRange ==
  ASSUME NEW size \in Int, size >= 0
  PROVE  native_range(0, size) = {p \in Positions : p < size}
BY MemoryAssumption DEF native_range, Positions, MemoryAssumption

-----------------------------------------------------------------------------
(* Parts of a step                                                         *)

LEMMA CallCounts ==
  ASSUME calls \in Nat, Call
  PROVE  calls' \in Nat
BY DEF Call

LEMMA ReturnsGood ==
  ASSUME NEW r \in Results, Returns(r)
  PROVE  /\ last' \in [result : Results, length : 0 .. MaxSaved,
                       written : 0 .. MaxSaved, saved : 0 .. MaxSaved]
         /\ LoadedTokensAreSaved'
BY MemoryAssumption DEF Returns, LoadedTokensAreSaved, MemoryAssumption

LastGood ==
  /\ last' \in [result : Results, length : 0 .. MaxSaved,
                written : 0 .. MaxSaved, saved : 0 .. MaxSaved]
  /\ LoadedTokensAreSaved'

\* A call that leaves snapshots and the device alone.
LEMMA FrameSnapshots ==
  ASSUME IInv, Call, LastGood, memory' \in Memories, promised' = memory',
         files' \in [Files -> Saved], UNCHANGED <<snaps, device, captures>>
  PROVE  IInv'
<1>1. MemoryTypeOK'
  BY CallCounts DEF IInv, MemoryTypeOK, LastGood
<1>2. SnapshotsGood'
  BY DEF IInv, SnapshotsGood, SnapshotGood
<1>. QED BY <1>1, <1>2 DEF IInv, MemoryAsPromised, LastGood

\* A call that leaves the memory alone as well.
LEMMA FrameMemory ==
  ASSUME IInv, Call, LastGood, files' \in [Files -> Saved],
         UNCHANGED <<memory, promised, snaps, device, captures>>
  PROVE  IInv'
BY FrameSnapshots DEF IInv, MemoryTypeOK, MemoryAsPromised

LEMMA Facts ==
  ASSUME IInv
  PROVE  /\ memory \in Memories /\ promised = memory
         /\ device \in [Seqs -> Content] /\ captures \in [Seqs -> Nat]
         /\ files \in [Files -> Saved] /\ calls \in Nat
         /\ snaps \in [Slots -> Captured \cup {Nothing}]
BY DEF IInv, MemoryTypeOK, MemoryAsPromised

-----------------------------------------------------------------------------
(* Tokens and ranges                                                       *)

LEMMA DecodeStep ==
  ASSUME IInv, NEW s \in Seqs, DecodeToken(s)
  PROVE  IInv'
<1>1. PICK p \in Positions :
        memory' = [memory EXCEPT ![s] = [kv |-> memory[s].kv \cup {p},
                                         run |-> memory[s].run + 1]]
  BY DEF DecodeToken
<1>2. memory[s].kv \subseteq Positions /\ memory[s].run \in 0 .. MaxRun
  BY Facts, ContentParts
<1>3. memory[s].run + 1 \in 0 .. MaxRun
  BY <1>2, MemoryAssumption DEF DecodeToken, MemoryAssumption
<1>4. memory[s].kv \cup {p} \in SUBSET Positions
  BY <1>2
<1>5. memory' \in Memories
  BY <1>1, <1>3, <1>4, Facts, WithContent
<1>6. LastGood
  BY ReturnsGood DEF DecodeToken, Results, LastGood
<1>. QED BY <1>5, <1>6, Facts, FrameSnapshots DEF DecodeToken

LEMMA CopyCacheStep ==
  ASSUME IInv, NEW src \in Seqs, NEW dest \in Seqs, NEW size \in Int,
         CopyCache(src, dest, size)
  PROVE  IInv'
<1>1. memory' \in Memories
  BY Facts, CopiedType DEF CopyCache
<1>2. promised' = memory'
  <2>1. CASE size < 0
    BY <2>1 DEF CopyCache
  <2>2. CASE ~(size < 0)
    <3>1. size >= 0
      BY <2>2
    <3>2. native_range(0, size) = {p \in Positions : p < size}
      BY <3>1, CopyCacheRange
    <3>. QED BY <2>2, <3>2, Facts DEF CopyCache
  <2>. QED BY <2>1, <2>2
<1>3. LastGood
  BY ReturnsGood DEF CopyCache, Results, LastGood
<1>. QED BY <1>1, <1>2, <1>3, Facts, FrameSnapshots DEF CopyCache

\* A conversion error: nothing but the result has changed.
LEMMA ErrorStep ==
  ASSUME IInv, Call, NEW r \in Results, Returns(r),
         UNCHANGED <<memory, promised, snaps, device, captures, files>>
  PROVE  IInv'
BY ReturnsGood, Facts, FrameMemory DEF LastGood

LEMMA MemoryCallStep ==
  ASSUME IInv, Call, NEW r \in Results, Returns(r),
         memory' \in Memories, promised' = memory',
         UNCHANGED <<snaps, device, captures, files>>
  PROVE  IInv'
BY ReturnsGood, Facts, FrameSnapshots DEF LastGood

LEMMA CopyRangeStep ==
  ASSUME IInv, NEW src \in Seqs, NEW dest \in Seqs,
         NEW o0 \in OptionU32, NEW o1 \in OptionU32,
         CopyKvCacheSeq(src, dest, o0, o1) \/ KvCacheSeqCp(src, dest, o0, o1)
  PROVE  IInv'
<1>1. CASE try_i32(o0) = <<>> \/ try_i32(o1) = <<>>
  BY <1>1, ErrorStep DEF CopyKvCacheSeq, KvCacheSeqCp, RangeCall, Results
<1>2. CASE try_i32(o0) # <<>> /\ try_i32(o1) # <<>>
  <2>1. /\ memory' = seq_cp(memory, src, dest, Asked(o0, o1))
        /\ promised' = seq_cp(promised, src, dest, Asked(o0, o1))
        /\ Returns("Ok") /\ Call /\ UNCHANGED <<snaps, device, captures, files>>
    BY <1>2, ConvertedRange DEF CopyKvCacheSeq, KvCacheSeqCp, RangeCall
  <2>2. memory' \in Memories /\ promised' = memory'
    BY <2>1, Facts, CopiedType
  <2>. QED BY <2>1, <2>2, MemoryCallStep DEF Results
<1>. QED BY <1>1, <1>2

LEMMA AddStep ==
  ASSUME IInv, NEW s \in Seqs, NEW o0 \in OptionU32, NEW o1 \in OptionU32,
         NEW delta, KvCacheSeqAdd(s, o0, o1, delta)
  PROVE  IInv'
<1>1. CASE try_i32(o0) = <<>> \/ try_i32(o1) = <<>>
  BY <1>1, ErrorStep DEF KvCacheSeqAdd, RangeCall, Results
<1>2. CASE try_i32(o0) # <<>> /\ try_i32(o1) # <<>>
  <2>. DEFINE kv == (memory[s].kv \ Asked(o0, o1)) \cup
                    ({p + delta : p \in memory[s].kv \cap Asked(o0, o1)} \cap Positions)
  <2>1. /\ memory' = [memory EXCEPT ![s] = [kv |-> kv, run |-> memory[s].run]]
        /\ promised' = memory'
        /\ Returns("Ok") /\ Call /\ UNCHANGED <<snaps, device, captures, files>>
    BY <1>2, ConvertedRange, Facts DEF KvCacheSeqAdd, RangeCall, seq_map
  <2>2. kv \in SUBSET Positions /\ memory[s].run \in 0 .. MaxRun
    BY Facts, ContentParts
  <2>3. memory' \in Memories
    BY <2>1, <2>2, Facts, WithContent
  <2>. QED BY <2>1, <2>3, MemoryCallStep DEF Results
<1>. QED BY <1>1, <1>2

LEMMA DivStep ==
  ASSUME IInv, NEW s \in Seqs, NEW o0 \in OptionU32, NEW o1 \in OptionU32,
         NEW d, KvCacheSeqDiv(s, o0, o1, d)
  PROVE  IInv'
<1>1. CASE try_i32(o0) = <<>> \/ try_i32(o1) = <<>>
  BY <1>1, ErrorStep DEF KvCacheSeqDiv, RangeCall, Results
<1>2. CASE try_i32(o0) # <<>> /\ try_i32(o1) # <<>>
  <2>. DEFINE kv == (memory[s].kv \ Asked(o0, o1)) \cup
                    ({p \div d : p \in memory[s].kv \cap Asked(o0, o1)} \cap Positions)
  <2>1. /\ memory' = [memory EXCEPT ![s] = [kv |-> kv, run |-> memory[s].run]]
        /\ promised' = memory'
        /\ Returns("Ok") /\ Call /\ UNCHANGED <<snaps, device, captures, files>>
    BY <1>2, ConvertedRange, Facts DEF KvCacheSeqDiv, RangeCall, seq_map
  <2>2. kv \in SUBSET Positions /\ memory[s].run \in 0 .. MaxRun
    BY Facts, ContentParts
  <2>3. memory' \in Memories
    BY <2>1, <2>2, Facts, WithContent
  <2>. QED BY <2>1, <2>3, MemoryCallStep DEF Results
<1>. QED BY <1>1, <1>2

LEMMA RemovalStep ==
  ASSUME IInv, Call, NEW ss, NEW range, NEW r \in Results,
         Removal(ss, range, ss, range, r), UNCHANGED <<snaps, device, captures, files>>
  PROVE  IInv'
<1>1. CASE Returns(r) /\ UNCHANGED <<memory, promised>>
  BY <1>1, ErrorStep
<1>2. CASE /\ Returns("Ok") /\ memory' = seq_rm(memory, ss, range)
           /\ promised' = seq_rm(promised, ss, range)
  <2>1. memory' \in Memories /\ promised' = memory'
    BY <1>2, Facts, RemovedType
  <2>. QED BY <1>2, <2>1, MemoryCallStep DEF Results
<1>. QED BY <1>1, <1>2 DEF Removal

LEMMA RmStep ==
  ASSUME IInv, NEW s \in Seqs, NEW o0 \in OptionU32, NEW o1 \in OptionU32,
         KvCacheSeqRm(s, o0, o1)
  PROVE  IInv'
<1>1. CASE try_i32(o0) = <<>> \/ try_i32(o1) = <<>>
  BY <1>1, ErrorStep DEF KvCacheSeqRm, Results
<1>2. CASE try_i32(o0) # <<>> /\ try_i32(o1) # <<>>
  <2>1. Removal({s}, Asked(o0, o1), {s}, Asked(o0, o1), "PartialSequenceRemovalFailed")
    BY <1>2, ConvertedRange DEF KvCacheSeqRm
  <2>. QED BY <2>1, RemovalStep DEF KvCacheSeqRm, Results
<1>. QED BY <1>1, <1>2

\* None, converted to -1, stands for all sequences; an id above i32::MAX is an
\* error, so no id of the caller becomes negative.
LEMMA ClearSeqStep ==
  ASSUME IInv, NEW src \in {<<>>, <<I32_MAX + 1>>} \cup {<<s>> : s \in Seqs},
         NEW o0 \in OptionU32, NEW o1 \in OptionU32, ClearKvCacheSeq(src, o0, o1)
  PROVE  IInv'
<1>1. CASE try_i32(src) = <<>> \/ try_i32(o0) = <<>> \/ try_i32(o1) = <<>>
  BY <1>1, ErrorStep DEF ClearKvCacheSeq, Results
<1>2. CASE try_i32(src) # <<>> /\ try_i32(o0) # <<>> /\ try_i32(o1) # <<>>
  <2>. DEFINE Cleared == IF src = <<>> THEN Seqs ELSE {src[1]}
  <2>1. (IF try_i32(src)[1] < 0 THEN Seqs ELSE {try_i32(src)[1]}) = Cleared
    <3>1. CASE src = <<>>
      BY <3>1 DEF try_i32
    <3>2. CASE src # <<>>
      <4>1. src[1] \in Nat /\ try_i32(src) = src
        BY <1>2, <3>2, MemoryAssumption DEF try_i32, MemoryAssumption
      <4>. QED BY <3>2, <4>1
    <3>. QED BY <3>1, <3>2
  <2>2. Removal(Cleared, Asked(o0, o1), Cleared, Asked(o0, o1), "False")
    BY <1>2, <2>1, ConvertedRange DEF ClearKvCacheSeq
  <2>. QED BY <2>2, RemovalStep DEF ClearKvCacheSeq, Results
<1>. QED BY <1>1, <1>2

LEMMA ClearStep ==
  ASSUME IInv, ClearKvCache
  PROVE  IInv'
BY MemoryCallStep, EmptyMemory DEF ClearKvCache, Results

LEMMA KeepStep ==
  ASSUME IInv, NEW s \in Seqs, KvCacheSeqKeep(s)
  PROVE  IInv'
<1>1. memory' \in Memories
  BY Facts, RemovedType DEF KvCacheSeqKeep
<1>2. ASSUME NEW q \in Seqs
      PROVE  (IF q \notin Seqs \ {s} THEN memory[q]
              ELSE [kv |-> memory[q].kv \ Positions,
                    run |-> IF Positions = Positions THEN 0 ELSE memory[q].run])
             = (IF q = s THEN memory[q] ELSE Empty)
  <2>1. memory[q].kv \ Positions = {}
    BY Facts, ContentParts
  <2>. QED BY <2>1 DEF Empty
<1>3. seq_rm(memory, Seqs \ {s}, Positions)
        = [q \in Seqs |-> IF q = s THEN memory[q] ELSE Empty]
  BY <1>2 DEF seq_rm
<1>4. promised' = memory'
  BY <1>3, Facts DEF KvCacheSeqKeep
<1>. QED BY <1>1, <1>4, MemoryCallStep DEF KvCacheSeqKeep, Results

LEMMA BadPathStep ==
  ASSUME IInv, BadPath
  PROVE  IInv'
BY ErrorStep DEF BadPath, Results

-----------------------------------------------------------------------------
(* Files and buffers                                                       *)

\* What a file can be read as.
LEMMA SavedKinds ==
  ASSUME NEW x \in Saved
  PROVE  /\ x.kind \in {"session", "image"} => x.memory \in Memories
         /\ x.kind = "sequence" => x.content \in Content
         /\ x.kind \in {"session", "sequence"} => x.n \in 0 .. MaxSaved
BY DEF Saved

LEMMA SaveStep ==
  ASSUME IInv, NEW f, NEW state \in Saved, save(f, state)
  PROVE  IInv'
<1>1. [kind |-> "torn"] \in Saved
  BY DEF Saved
<1>2. files' \in [Files -> Saved]
  BY <1>1, Facts DEF save
<1>3. LastGood
  BY ReturnsGood DEF save, Results, LastGood
<1>. QED BY <1>2, <1>3, FrameMemory DEF save

LEMMA SaveAllStep ==
  ASSUME IInv, NEW f \in Files, NEW n \in 0 .. MaxSaved,
         SaveSessionFile(f, n) \/ StateSaveFile(f, n)
  PROVE  IInv'
<1>1. [kind |-> "session", memory |-> memory, n |-> n] \in Saved
  BY Facts DEF Saved
<1>. QED BY <1>1, SaveStep DEF SaveSessionFile, StateSaveFile

LEMMA SaveSequenceStep ==
  ASSUME IInv, NEW f \in Files, NEW s \in Seqs, NEW n \in 0 .. MaxSaved,
         StateSeqSaveFile(f, s, n)
  PROVE  IInv'
<1>1. memory[s] \in Content
  BY Facts DEF Memories
<1>2. [kind |-> "sequence", content |-> memory[s], n |-> n] \in Saved
  BY <1>1 DEF Saved
<1>. QED BY <1>2, SaveStep DEF StateSeqSaveFile

LEMMA CopyDataStep ==
  ASSUME IInv, NEW f \in Files, CopyStateData(f)
  PROVE  IInv'
<1>1. [kind |-> "image", memory |-> memory, n |-> 0] \in Saved
  BY Facts, MemoryAssumption DEF Saved, MemoryAssumption
<1>2. files' \in [Files -> Saved]
  BY <1>1, Facts DEF CopyStateData
<1>3. LastGood
  BY ReturnsGood DEF CopyStateData, Results, LastGood
<1>. QED BY <1>2, <1>3, FrameMemory DEF CopyStateData

LEMMA SetDataStep ==
  ASSUME IInv, NEW f \in Files, SetStateData(f)
  PROVE  IInv'
<1>1. memory' \in Memories /\ promised' = memory'
  BY Facts, SavedKinds DEF SetStateData
<1>. QED BY <1>1, MemoryCallStep DEF SetStateData, Results

\* The list that a load returns has the length that llama.cpp reported only when
\* that is not more than it was allowed to write.
LEMMA LoadedGood ==
  ASSUME NEW n_out \in 0 .. MaxSaved, NEW max_tokens \in 0 .. MaxSaved,
         last' = loaded(n_out, max_tokens)
  PROVE  LastGood
<1>1. CASE n_out > max_tokens
  BY <1>1, MemoryAssumption
     DEF loaded, LastGood, LoadedTokensAreSaved, Results, MemoryAssumption
<1>2. CASE ~(n_out > max_tokens)
  BY <1>2 DEF loaded, LastGood, LoadedTokensAreSaved, Results
<1>. QED BY <1>1, <1>2

LEMMA LoadAllStep ==
  ASSUME IInv, NEW f \in Files, NEW n \in 0 .. MaxSaved,
         LoadSessionFile(f, n) \/ StateLoadFile(f, n)
  PROVE  IInv'
<1>1. Call /\ UNCHANGED <<snaps, device, captures, files>>
  BY DEF LoadSessionFile, StateLoadFile, load
<1>2. CASE /\ files[f].kind = "session" /\ memory' = files[f].memory
           /\ last' = loaded(files[f].n, n)
           /\ promised' = IF last'.result = "Ok" THEN files[f].memory ELSE memory'
  <2>1. memory' \in Memories /\ promised' = memory'
    BY <1>2, Facts, SavedKinds
  <2>2. LastGood
    BY <1>2, Facts, SavedKinds, LoadedGood
  <2>. QED BY <1>1, <2>1, <2>2, Facts, FrameSnapshots
<1>3. CASE /\ memory' \in {memory, [s \in Seqs |-> Empty]} /\ promised' = memory'
           /\ Returns("FailedToLoad")
  <2>1. memory' \in Memories
    BY <1>3, Facts, EmptyMemory
  <2>. QED BY <1>1, <1>3, <2>1, MemoryCallStep DEF Results
<1>. QED BY <1>2, <1>3 DEF LoadSessionFile, StateLoadFile, load

LEMMA LoadSequenceStep ==
  ASSUME IInv, NEW f \in Files, NEW s \in Seqs, NEW n \in 0 .. MaxSaved,
         StateSeqLoadFile(f, s, n)
  PROVE  IInv'
<1>1. Call /\ UNCHANGED <<snaps, device, captures, files>>
  BY DEF StateSeqLoadFile, load
<1>2. CASE /\ files[f].kind = "sequence"
           /\ memory' = [memory EXCEPT ![s] = files[f].content]
           /\ last' = loaded(files[f].n, n)
           /\ promised' = IF last'.result = "Ok"
                          THEN [promised EXCEPT ![s] = files[f].content] ELSE memory'
  <2>1. files[f].content \in Content /\ files[f].n \in 0 .. MaxSaved
    BY <1>2, Facts, SavedKinds
  <2>2. memory' \in Memories /\ promised' = memory'
    BY <1>2, <2>1, Facts DEF Memories
  <2>3. LastGood
    BY <1>2, <2>1, LoadedGood
  <2>. QED BY <1>1, <2>2, <2>3, Facts, FrameSnapshots
<1>3. CASE /\ memory' \in {memory, [memory EXCEPT ![s] = Empty]} /\ promised' = memory'
           /\ Returns("FailedToLoad")
  <2>1. memory' \in Memories
    BY <1>3, Facts, EmptyMemory DEF Memories
  <2>. QED BY <1>1, <1>3, <2>1, MemoryCallStep DEF Results
<1>. QED BY <1>2, <1>3 DEF StateSeqLoadFile, load

-----------------------------------------------------------------------------
(* Sequence snapshots                                                      *)

\* A capture does not make a snapshot bad: on the device it changes only data
\* that the older snapshots of the sequence no longer refer to.
LEMMA CaptureKeepsOthers ==
  ASSUME IInv, NEW s \in Seqs, NEW flags \in SeqFlags,
         NEW fits \in BOOLEAN, NEW wrote \in BOOLEAN,
         state_seq_get_data_ext(s, flags, fits, wrote),
         NEW k \in Slots, snaps[k] # Nothing, snaps'[k] = snaps[k]
  PROVE  SnapshotGood(snaps[k])'
<1>. DEFINE snap == snaps[k]
<1>1. snap \in Captured /\ SnapshotGood(snap)
  BY Facts DEF IInv, SnapshotsGood
<1>2. snap.of \in Seqs /\ snap.generation \in Nat
  BY <1>1 DEF Captured
<1>3. captures[snap.of] \in Nat /\ captures[s] \in Nat
  BY <1>2, Facts
<1>4. CASE snap.of = s /\ "ON_DEVICE" \in flags
  <2>1. captures'[snap.of] = captures[snap.of] + 1
    BY <1>2, <1>4, Facts DEF state_seq_get_data_ext
  <2>2. snap.generation <= captures[snap.of]
    BY <1>1 DEF SnapshotGood
  <2>3. snap.generation <= captures'[snap.of] /\ captures'[snap.of] # snap.generation
    BY <2>1, <2>2, <1>2, <1>3
  <2>. QED BY <2>3, <1>1 DEF SnapshotGood
<1>5. CASE ~(snap.of = s /\ "ON_DEVICE" \in flags)
  <2>1. captures'[snap.of] = captures[snap.of] /\ device'[snap.of] = device[snap.of]
    BY <1>2, <1>5, Facts DEF state_seq_get_data_ext
  <2>. QED BY <2>1, <1>1 DEF SnapshotGood
<1>. QED BY <1>4, <1>5

LEMMA CaptureType ==
  ASSUME IInv, NEW s \in Seqs, NEW flags \in SeqFlags,
         NEW fits \in BOOLEAN, NEW wrote \in BOOLEAN,
         state_seq_get_data_ext(s, flags, fits, wrote)
  PROVE  device' \in [Seqs -> Content] /\ captures' \in [Seqs -> Nat]
<1>1. memory[s] \in Content /\ device[s] \in Content /\ captures[s] \in Nat
  BY Facts DEF Memories
<1>2. (IF fits THEN memory[s] ELSE device[s]) \in Content /\ captures[s] + 1 \in Nat
  BY <1>1
<1>. QED BY <1>2, Facts DEF state_seq_get_data_ext

LEMMA GetDataStep ==
  ASSUME IInv, NEW s \in Seqs, NEW flags \in SeqFlags, StateSeqGetDataExt(s, flags)
  PROVE  IInv'
<1>1. PICK fits \in BOOLEAN, wrote \in BOOLEAN :
        /\ state_seq_get_data_ext(s, flags, fits, wrote)
        /\ Returns(IF wrote THEN "Ok" ELSE "False")
  BY DEF StateSeqGetDataExt
<1>2. Call /\ UNCHANGED <<memory, promised, snaps, files>>
  BY DEF StateSeqGetDataExt
<1>3. LastGood
  BY <1>1, ReturnsGood DEF Results, LastGood
<1>4. MemoryTypeOK'
  BY <1>1, <1>2, <1>3, CaptureType, CallCounts, Facts DEF MemoryTypeOK, LastGood
<1>5. SnapshotsGood'
  BY <1>1, <1>2, CaptureKeepsOthers DEF SnapshotsGood
<1>. QED BY <1>2, <1>3, <1>4, <1>5, Facts DEF IInv, MemoryAsPromised, LastGood

LEMMA GetStep ==
  ASSUME IInv, NEW k \in Slots, NEW s \in Seqs, NEW flags \in SeqFlags,
         StateSeqGet(k, s, flags)
  PROVE  IInv'
<1>1. PICK wrote \in BOOLEAN :
        /\ state_seq_get_data_ext(s, flags, TRUE, wrote)
        /\ IF wrote
           THEN /\ snaps' = [snaps EXCEPT ![k] = SeqState(s, flags, captures'[s])]
                /\ Returns("Ok")
           ELSE UNCHANGED snaps /\ Returns("SizeMismatch")
  BY DEF StateSeqGet
<1>2. Call /\ UNCHANGED <<memory, promised, files>>
  BY DEF StateSeqGet
<1>3. LastGood
  BY <1>1, ReturnsGood DEF Results, LastGood
<1>. DEFINE new == SeqState(s, flags, captures'[s])
<1>4. device' \in [Seqs -> Content] /\ captures' \in [Seqs -> Nat]
  BY <1>1, CaptureType
<1>5. new \in Captured
  <2>1. memory[s].kv \subseteq Positions /\ memory[s].run \in 0 .. MaxRun
    BY Facts, ContentParts
  <2>. QED BY <2>1, <1>4 DEF SeqState, Captured
<1>6. snaps' \in [Slots -> Captured \cup {Nothing}]
  BY <1>1, <1>5, Facts
<1>7. MemoryTypeOK'
  BY <1>2, <1>3, <1>4, <1>6, CallCounts, Facts DEF MemoryTypeOK, LastGood
<1>8. SnapshotsGood'
  <2>. SUFFICES ASSUME NEW j \in Slots, snaps'[j] # Nothing
                PROVE  SnapshotGood(snaps[j])'
    BY DEF SnapshotsGood
  <2>1. CASE snaps'[j] = snaps[j]
    BY <2>1, <1>1, CaptureKeepsOthers
  <2>2. CASE snaps'[j] # snaps[j]
    <3>1. snaps'[j] = new
      BY <2>2, <1>1, Facts
    <3>2. /\ new.flags = flags /\ new.layout = flags /\ new.of = s
          /\ new.generation = captures'[s]
          /\ new.kv = memory[s].kv /\ new.run = memory[s].run
      BY DEF SeqState
    <3>3. "ON_DEVICE" \in flags => device'[s] = memory[s]
      BY <1>1, Facts DEF state_seq_get_data_ext
    <3>4. captures'[s] <= captures'[s]
      BY <1>4
    <3>. QED BY <3>1, <3>2, <3>3, <3>4 DEF SnapshotGood
  <2>. QED BY <2>1, <2>2
<1>. QED BY <1>2, <1>3, <1>7, <1>8, Facts DEF IInv, MemoryAsPromised, LastGood

\* A snapshot that was not superseded is restored as it was captured, whether
\* from its bytes or from the device.
LEMMA RestoredAsCaptured ==
  ASSUME IInv, NEW k \in Slots, snaps[k] # Nothing, ~Superseded(snaps[k]), NEW c
  PROVE  restored(c, snaps[k], snaps[k].layout)
           = [kv |-> IF "PARTIAL_ONLY" \in snaps[k].layout THEN c.kv ELSE snaps[k].kv,
              run |-> snaps[k].run]
BY DEF restored, Superseded, IInv, SnapshotsGood, SnapshotGood

LEMMA RestoredType ==
  ASSUME IInv, NEW k \in Slots, snaps[k] # Nothing, NEW s \in Seqs
  PROVE  restored(memory[s], snaps[k], snaps[k].layout) \in Content
<1>1. /\ snaps[k].of \in Seqs /\ snaps[k].kv \in SUBSET Positions
      /\ snaps[k].run \in 0 .. MaxRun
  BY Facts DEF Captured
<1>2. /\ device[snaps[k].of].kv \in SUBSET Positions
      /\ device[snaps[k].of].run \in 0 .. MaxRun
  BY <1>1, Facts DEF Content
<1>3. memory[s].kv \in SUBSET Positions
  BY Facts, ContentParts
<1>. QED BY <1>1, <1>2, <1>3 DEF restored, Content

LEMMA RestoreStep ==
  ASSUME IInv, NEW k \in Slots, NEW s \in Seqs,
         StateSeqSet(k, s) \/ StateSeqSetDataExt(k, s)
  PROVE  IInv'
<1>1. /\ snaps[k] # Nothing
      /\ \E failed \in Results : set_data(snaps[k], snaps[k].layout, s, failed)
  BY DEF StateSeqSet, StateSeqSetDataExt, Results, IInv, SnapshotsGood, SnapshotGood
<1>2. PICK failed \in Results : set_data(snaps[k], snaps[k].layout, s, failed)
  BY <1>1
<1>3. Call /\ UNCHANGED <<snaps, device, captures, files>>
  BY <1>2 DEF set_data
<1>. DEFINE r == restored(memory[s], snaps[k], snaps[k].layout)
<1>4. CASE /\ memory' = [memory EXCEPT ![s] = r]
           /\ promised' =
                IF Superseded(snaps[k]) THEN memory'
                ELSE [promised EXCEPT ![s] =
                        [kv |-> IF "PARTIAL_ONLY" \in snaps[k].layout
                                THEN promised[s].kv ELSE snaps[k].kv,
                         run |-> snaps[k].run]]
           /\ Returns("Ok")
  <2>1. memory' \in Memories
    BY <1>1, <1>4, RestoredType, Facts DEF Memories
  <2>2. promised' = memory'
    BY <1>1, <1>4, RestoredAsCaptured, Facts
  <2>. QED BY <1>3, <1>4, <2>1, <2>2, MemoryCallStep DEF Results
<1>5. CASE /\ memory' \in {memory, [memory EXCEPT ![s] = Empty]}
           /\ promised' = memory' /\ Returns(failed)
  <2>1. memory' \in Memories
    BY <1>5, Facts, EmptyMemory DEF Memories
  <2>. QED BY <1>3, <1>5, <2>1, MemoryCallStep
<1>. QED BY <1>2, <1>4, <1>5 DEF set_data

-----------------------------------------------------------------------------
(* The theorems                                                            *)

LEMMA InitGood == MemoryInit => IInv
<1>. SUFFICES ASSUME MemoryInit PROVE IInv
  OBVIOUS
<1>1. MemoryTypeOK
  BY EmptyMemory, MemoryAssumption
     DEF MemoryInit, MemoryTypeOK, Memories, Saved, Results, Nothing, MemoryAssumption
<1>. QED BY <1>1
         DEF MemoryInit, IInv, SnapshotsGood, MemoryAsPromised, LoadedTokensAreSaved

LEMMA NextGood == IInv /\ [MemoryNext]_memoryVars => IInv'
<1>. SUFFICES ASSUME IInv, [MemoryNext]_memoryVars PROVE IInv'
  OBVIOUS
<1>1. ASSUME NEW s \in Seqs, DecodeToken(s) \/ KvCacheSeqKeep(s) PROVE IInv'
  BY <1>1, DecodeStep, KeepStep
<1>2. ASSUME NEW s \in Seqs, NEW d \in Seqs, NEW size \in -1 .. MaxPos + 1,
             CopyCache(s, d, size)
      PROVE  IInv'
  <2>1. size \in Int
    BY MemoryAssumption DEF MemoryAssumption
  <2>. QED BY <1>2, <2>1, CopyCacheStep
<1>3. ASSUME NEW s \in Seqs, NEW d \in Seqs, NEW o0 \in OptionU32, NEW o1 \in OptionU32,
             CopyKvCacheSeq(s, d, o0, o1) \/ KvCacheSeqCp(s, d, o0, o1)
      PROVE  IInv'
  BY <1>3, CopyRangeStep
<1>4. ASSUME NEW s \in Seqs, NEW o0 \in OptionU32, NEW o1 \in OptionU32,
             \/ KvCacheSeqRm(s, o0, o1)
             \/ \E delta \in {-1, 1} : KvCacheSeqAdd(s, o0, o1, delta)
             \/ KvCacheSeqDiv(s, o0, o1, 2)
      PROVE  IInv'
  BY <1>4, RmStep, AddStep, DivStep
<1>5. ASSUME NEW src \in {<<>>, <<I32_MAX + 1>>} \cup {<<s>> : s \in Seqs},
             NEW o0 \in OptionU32, NEW o1 \in OptionU32, ClearKvCacheSeq(src, o0, o1)
      PROVE  IInv'
  BY <1>5, ClearSeqStep
<1>6. CASE ClearKvCache \/ BadPath
  BY <1>6, ClearStep, BadPathStep
<1>7. ASSUME NEW f \in Files, NEW n \in 0 .. MaxSaved,
             \/ SaveSessionFile(f, n) \/ StateSaveFile(f, n)
             \/ LoadSessionFile(f, n) \/ StateLoadFile(f, n)
             \/ \E s \in Seqs : StateSeqSaveFile(f, s, n) \/ StateSeqLoadFile(f, s, n)
      PROVE  IInv'
  BY <1>7, SaveAllStep, SaveSequenceStep, LoadAllStep, LoadSequenceStep
<1>8. ASSUME NEW f \in Files, CopyStateData(f) \/ SetStateData(f) PROVE IInv'
  BY <1>8, CopyDataStep, SetDataStep
<1>9. ASSUME NEW s \in Seqs, NEW flags \in SeqFlags,
             \/ StateSeqGetDataExt(s, flags)
             \/ \E k \in Slots : StateSeqGet(k, s, flags)
      PROVE  IInv'
  BY <1>9, GetDataStep, GetStep
<1>10. ASSUME NEW k \in Slots, NEW s \in Seqs,
              StateSeqSet(k, s) \/ StateSeqSetDataExt(k, s)
       PROVE  IInv'
  BY <1>10, RestoreStep
<1>11. CASE UNCHANGED memoryVars
  BY <1>11 DEF memoryVars, IInv, MemoryTypeOK, SnapshotsGood, SnapshotGood,
               MemoryAsPromised, LoadedTokensAreSaved
<1>. QED BY <1>1, <1>2, <1>3, <1>4, <1>5, <1>6, <1>7, <1>8, <1>9, <1>10, <1>11
         DEF MemoryNext

\* IInv is inductive.
THEOREM MemoryInvariant == MemorySpec => []IInv
BY InitGood, NextGood, PTL DEF MemorySpec

\* Type correctness of the memory, the snapshots and the files.
THEOREM MemoryTypes == MemorySpec => []MemoryTypeOK
<1>1. IInv => MemoryTypeOK
  BY DEF IInv
<1>. QED BY <1>1, MemoryInvariant, PTL

\* After any calls the memory is the one their documentation promises: no bound
\* changes its meaning in a conversion, and a snapshot that was not superseded
\* restores what was captured (kv_cache.rs, session.rs).
THEOREM MemoryIsAsPromised == MemorySpec => []MemoryAsPromised
<1>1. IInv => MemoryAsPromised
  BY DEF IInv
<1>. QED BY <1>1, MemoryInvariant, PTL

\* A load never returns tokens that llama.cpp has not written, or fewer than were
\* saved (session.rs, load_session_file, state_load_file, state_seq_load_file).
THEOREM LoadedTokens == MemorySpec => []LoadedTokensAreSaved
<1>1. IInv => LoadedTokensAreSaved
  BY DEF IInv
<1>. QED BY <1>1, MemoryInvariant, PTL
=============================================================================
