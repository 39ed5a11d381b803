-------------------------- MODULE ContextAdapters --------------------------
(***************************************************************************)
(* LoRA adapters and control vectors of contexts                           *)
(* (llama-cpp-2/src/context.rs), with the models and adapters they belong  *)
(* to (llama-cpp-2/src/model.rs).  A native adapter is owned by its model  *)
(* and freed with it; a context only points to it.  The storage of a       *)
(* control vector stays allocated when the vector is cleared or replaced.  *)
(*                                                                         *)
(* A handle is a LlamaLoraAdapter value.  Handles and contexts borrow      *)
(* their model, so that the compiler rejects a program that drops a model  *)
(* before them.  asked is history: what the calls that returned Ok set.    *)
(***************************************************************************)
EXTENDS Integers, Sequences

CONSTANTS
  Models, Adapters, Contexts,
  NEmbd,        \* LlamaModel::n_embd of each model
  NLayer,       \* LlamaModel::n_layer of each model
  Scales,       \* scales of an adapter
  FiniteScales, \* the finite ones among them
  Vectors,      \* contents of a control vector
  NoVector,     \* no control vector, or a row that was never written
  NoModel,      \* a context, or an adapter, that does not exist
  MaxStack,     \* bound: adapters in one call
  MaxLen        \* bound: values in the data of a control vector

ASSUME ModelAssumption ==
  /\ NEmbd \in [Models -> Int]
  /\ NLayer \in [Models -> Nat]
  /\ NoModel \notin Models
ASSUME ValueAssumption ==
  /\ FiniteScales \subseteq Scales
  /\ NoVector \notin Vectors
  /\ MaxStack \in Nat
  /\ MaxLen \in Nat

VARIABLES
  models,    \* the models that are loaded
  adapters,  \* the model that owns each native adapter
  handles,   \* the adapters with a LlamaLoraAdapter value
  contexts,  \* the native contexts
  asked,     \* history: what each context was told last
  answer     \* what the last fallible call returned

adapterVars == <<models, adapters, handles, contexts, asked, answer>>

----------------------------------------------------------------------------
(* Native contexts: external *)

\* Rows of the control vector's storage, one for each layer but layer 0.
Rows(m) == 1..(NLayer[m] - 1)

NoContext == [model |-> NoModel, loras |-> <<>>, cvec |-> [rows |-> <<>>, start |-> -1, end |-> -1]]
FreshContext(m) ==
  [model |-> m, loras |-> <<>>,
   cvec |-> [rows |-> [il \in Rows(m) |-> NoVector], start |-> -1, end |-> -1]]

\* llama_set_adapters_lora: a map from adapter to scale takes the place of the old
\* one; of two entries for one adapter the later one counts.
llama_set_adapters_lora(ctx, list) ==
  [ctx EXCEPT !.loras =
     [a \in {list[k].adapter : k \in DOMAIN list} |->
        list[CHOOSE k \in DOMAIN list :
               /\ list[k].adapter = a
               /\ \A j \in DOMAIN list : list[j].adapter = a => j <= k].scale]]

\* llama_set_adapter_cvec: rows that the data is too short for keep what they hold.
llama_set_adapter_cvec(ctx, data, n_embd, il_start, il_end) ==
  [ctx EXCEPT !.cvec =
     [rows |-> [il \in DOMAIN @.rows |->
                  IF n_embd * il <= data.len THEN data.vec ELSE @.rows[il]],
      start |-> il_start, end |-> il_end]]

\* ... and without data: the storage is kept.
llama_clear_adapter_cvec(ctx) == 
  [ctx EXCEPT !.cvec = [rows |-> @.rows, start |-> -1, end |-> -1]]

\* The row that is added to layer il.
Steering(ctx, il) == 
  IF il \in ctx.cvec.start..ctx.cvec.end THEN ctx.cvec.rows[il] ELSE NoVector

----------------------------------------------------------------------------
(* Models, handles and contexts *)

NoSteering == [vec |-> NoVector, start |-> -1, end |-> -1]
NothingAsked == [loras |-> <<>>, cvec |-> NoSteering]

AdaptersInit ==
  /\ models = {}
  /\ adapters = [a \in Adapters |-> NoModel]
  /\ handles = {}
  /\ contexts = [c \in Contexts |-> NoContext]
  /\ asked = [c \in Contexts |-> NothingAsked]
  /\ answer = "Ok"

LoadFromFile(m) ==
  /\ m \notin models
  /\ models' = models \cup {m}
  /\ UNCHANGED <<adapters, handles, contexts, asked, answer>>

\* llama_free_model frees the model's adapters as well.
DropModel(m) ==
  /\ m \in models
  /\ \A c \in Contexts : contexts[c].model # m
  /\ \A a \in handles : adapters[a] # m
  /\ models' = models \ {m}
  /\ adapters' = [a \in Adapters |-> IF adapters[a] = m THEN NoModel ELSE adapters[a]]
  /\ UNCHANGED <<handles, contexts, asked, answer>>

LoraAdapterInit(m, a) ==
  /\ m \in models
  /\ adapters[a] = NoModel
  /\ adapters' = [adapters EXCEPT ![a] = m]
  /\ handles' = handles \cup {a}
  /\ answer' = "Ok"
  /\ UNCHANGED <<models, contexts, asked>>

\* load_from_file, lora_adapter_init or new_context got a null pointer.
NullResult ==
  /\ answer' = "NullResult"
  /\ UNCHANGED <<models, adapters, handles, contexts, asked>>

\* There is no Drop: the native adapter stays with its model.
DropHandle(a) ==
  /\ a \in handles
  /\ handles' = handles \ {a}
  /\ UNCHANGED <<models, adapters, contexts, asked, answer>>

NewContext(c, m) ==
  /\ m \in models
  /\ contexts[c] = NoContext
  /\ contexts' = [contexts EXCEPT ![c] = FreshContext(m)]
  /\ asked' = [asked EXCEPT ![c] = NothingAsked]
  /\ answer' = "Ok"
  /\ UNCHANGED <<models, adapters, handles>>

DropContext(c) ==
  /\ contexts[c] # NoContext
  /\ contexts' = [contexts EXCEPT ![c] = NoContext]
  /\ asked' = [asked EXCEPT ![c] = NothingAsked]
  /\ UNCHANGED <<models, adapters, handles, answer>>

----------------------------------------------------------------------------
(* LoRA adapters *)

Stacks == UNION {[1..n -> [adapter: handles, scale: Scales]] : n \in 0..MaxStack}

\* What the loop of validate_lora_adapters says of entry k, test by test.
lora_fault(m, list, k) ==
  CASE list[k].scale \notin FiniteScales -> "NonFiniteScale"
    [] /\ list[k].scale \in FiniteScales
       /\ adapters[list[k].adapter] # m -> "ModelMismatch"
    [] /\ list[k].scale \in FiniteScales
       /\ adapters[list[k].adapter] = m
       /\ \E j \in 1..(k - 1) : list[j].adapter = list[k].adapter -> "DuplicateAdapter"
    [] OTHER -> "Ok"

\* Faulty variant: adapters of any model are accepted.
validate_any_model(m, list, outcome) ==
  /\ outcome = "Ok"
  /\ \A k \in DOMAIN list :
       /\ list[k].scale \in FiniteScales
       /\ \A j \in 1..(k - 1) : list[j].adapter # list[k].adapter

\* Faulty variant: no check for duplicates.
validate_duplicates(m, list, outcome) ==
  /\ outcome = "Ok"
  /\ \A k \in DOMAIN list : lora_fault(m, list, k) \in {"Ok", "DuplicateAdapter"}

\* The first entry that has a fault decides the outcome.
validate_lora_adapters(m, list, outcome) ==
  \/ /\ outcome = "Ok"
     /\ \A k \in DOMAIN list : lora_fault(m, list, k) = "Ok"
  \/ \E k \in DOMAIN list :
       /\ outcome = lora_fault(m, list, k)
       /\ outcome # "Ok"
       /\ \A j \in 1..(k - 1) : lora_fault(m, list, j) = "Ok"

\* lora_adapters_set; lora_adapter_set is the call with one entry.
LoraAdaptersSet(c, list) ==
  /\ validate_lora_adapters(contexts[c].model, list, "Ok")
  /\ contexts' = [contexts EXCEPT ![c] = llama_set_adapters_lora(@, list)]
  /\ asked' = [asked EXCEPT ![c].loras = list]
  /\ answer' = "Ok"

\* lora_adapter_remove: the whole stack, whichever adapter is named.
LoraAdapterRemove(c) ==
  /\ contexts' = [contexts EXCEPT ![c] = llama_set_adapters_lora(@, <<>>)]
  /\ asked' = [asked EXCEPT ![c].loras = <<>>]
  /\ answer' = "Ok"

----------------------------------------------------------------------------
(* Control vectors *)

\* The data of a call: whose content it is, how many values, and are all finite.
Data == [vec: Vectors, len: 0..MaxLen, finite: BOOLEAN]

\* Faulty variant: data that ends early is accepted.
validate_short(m, data, layer_start, layer_end) ==
  CASE NEmbd[m] <= 0 \/ NLayer[m] < 2 -> "InsufficientLayers"
    [] layer_start = 0 \/ layer_start > layer_end \/ layer_end >= NLayer[m] -> "InvalidLayerRange"
    [] data.len > NEmbd[m] * (NLayer[m] - 1) -> "LengthMismatch"
    [] OTHER -> IF data.finite THEN "Ok" ELSE "NonFiniteValue"

\* The product of two i32 does not overflow a usize, and a layer below n_layer is an
\* i32: LengthOverflow and LayerIndexOutOfRange do not occur.
validate_control_vector(m, data, layer_start, layer_end) ==
  IF NEmbd[m] <= 0 THEN "InvalidEmbeddingWidth"
  ELSE IF NLayer[m] < 2 THEN "InsufficientLayers"
  ELSE IF layer_start = 0 \/ layer_start > layer_end \/ layer_end >= NLayer[m]
       THEN "InvalidLayerRange"
  ELSE IF data.len # NEmbd[m] * (NLayer[m] - 1) THEN "LengthMismatch"
  ELSE IF ~data.finite THEN "NonFiniteValue" ELSE "Ok"

ControlVectorSet(c, data, layer_start, layer_end) ==
  LET m == contexts[c].model
  IN /\ validate_control_vector(m, data, layer_start, layer_end) = "Ok"
     /\ contexts' = [contexts EXCEPT ![c] =
                       llama_set_adapter_cvec(@, data, NEmbd[m], layer_start, layer_end)]
     /\ asked' = [asked EXCEPT ![c].cvec =
                    [vec |-> data.vec, start |-> layer_start, end |-> layer_end]]
     /\ answer' = "Ok"

ControlVectorClear(c) ==
  /\ contexts' = [contexts EXCEPT ![c] = llama_clear_adapter_cvec(@)]
  /\ asked' = [asked EXCEPT ![c].cvec = NoSteering]
  /\ answer' = "Ok"

----------------------------------------------------------------------------
LayerArguments == 0..MaxLen

\* Arguments that validation rejects, and calls that llama.cpp rejects.
Rejected(c) ==
  /\ \/ answer' \in {error \in {"NonFiniteScale", "ModelMismatch", "DuplicateAdapter"} :
                       \E list \in Stacks :
                         validate_lora_adapters(contexts[c].model, list, error)}
     \/ answer' \in {validate_control_vector(contexts[c].model, data, s, e) :
                        data \in Data, s \in LayerArguments, e \in LayerArguments} \ {"Ok"}
     \/ answer' = "ErrorResult"
  /\ UNCHANGED <<contexts, asked>>

\* Calls on an existing context.
ContextCall(c) ==
  /\ contexts[c] # NoContext
  /\ \/ \E list \in Stacks : LoraAdaptersSet(c, list)
     \/ handles # {} /\ LoraAdapterRemove(c)
     \/ \E data \in Data, s, e \in LayerArguments : ControlVectorSet(c, data, s, e)
     \/ ControlVectorClear(c)
     \/ Rejected(c)
  /\ UNCHANGED <<models, adapters, handles>>

AdaptersNext ==
  \/ \E m \in Models :
       \/ LoadFromFile(m)
       \/ DropModel(m)
       \/ \E a \in Adapters : LoraAdapterInit(m, a)
       \/ \E c \in Contexts : NewContext(c, m)
  \/ NullResult
  \/ \E a \in Adapters : DropHandle(a)
  \/ \E c \in Contexts : DropContext(c) \/ ContextCall(c)

AdaptersSpec == AdaptersInit /\ [][AdaptersNext]_adapterVars

----------------------------------------------------------------------------
(* Properties *)

Entry == [adapter: Adapters, scale: Scales]

\* Types: who owns what, and what the contexts hold.
AdaptersTypeOK ==
  /\ models \subseteq Models
  /\ adapters \in [Adapters -> Models \cup {NoModel}]
  /\ handles \subseteq Adapters
  /\ \A a \in handles : adapters[a] \in models
  /\ DOMAIN contexts = Contexts
  /\ \A c \in Contexts : contexts[c] # NoContext =>
       /\ contexts[c].model \in models
       /\ contexts[c].cvec \in [rows: [Rows(contexts[c].model) -> Vectors \cup {NoVector}],
                                start: Int, end: Int]
  /\ asked \in [Contexts -> [loras: Seq(Entry),
                             cvec: [vec: Vectors \cup {NoVector}, start: Int, end: Int]]]

\* "llama.cpp stores non-owning adapter pointers in the context, while the borrowed
\* LlamaModel owns their allocations; dropping an LlamaLoraAdapter handle after this
\* call is therefore safe": whatever was dropped since, each adapter that a context
\* points to exists.
NoDanglingAdapter ==
  \A c \in Contexts : \A a \in DOMAIN contexts[c].loras : adapters[a] \in models

\* "Atomically replaces every LoRA adapter active on this context": the active
\* adapters and their scales are those of the last call that returned Ok, each entry
\* of it counts, and calls with invalid arguments in between leave nothing behind.
StackAsSet ==
  \A c \in Contexts :
    LET list == asked[c].loras
    IN /\ DOMAIN contexts[c].loras = {list[k].adapter : k \in DOMAIN list}
       /\ \A k \in DOMAIN list :
            /\ contexts[c].loras[list[k].adapter] = list[k].scale
            /\ list[k].scale \in FiniteScales

\* control_vector_set "prevents a shorter replacement from retaining stale rows": on
\* each layer acts the vector of the last call that returned Ok if the layer is in
\* its range, and nothing otherwise, although the storage is kept when it is cleared.
SteeringAsSet ==
  \A c \in Contexts :
    contexts[c] # NoContext =>
      \A il \in 0..NLayer[contexts[c].model] :
        Steering(contexts[c], il)
          = IF il \in asked[c].cvec.start..asked[c].cvec.end
            THEN asked[c].cvec.vec ELSE NoVector
=============================================================================
