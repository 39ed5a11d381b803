---------------------------- MODULE BatchLogits ----------------------------
(***************************************************************************)
(* Batches and the logits of a context: LlamaBatch                         *)
(* (llama-cpp-2/src/llama_batch.rs) keeps the indices of the rows that     *)
(* will have logits, decode and encode (context.rs) copy that list into    *)
(* the context, and get_logits_ith checks an index against the copy before *)
(* it asks native code for the row; get_logits asks without a check.       *)
(*                                                                         *)
(* The native context is external.  outputs are the batch indices it has   *)
(* logits rows for, in the order of the rows.  A failed evaluation leaves  *)
(* them or discards them.  The token ids, positions and sequence ids of a  *)
(* batch play no part here.                                                *)
(***************************************************************************)
EXTENDS Integers, Sequences, FiniteSets, Retain

CONSTANTS
  Batches,    \* the program's LlamaBatch variables
  MaxTokens,  \* bound: capacity and length of a batch
  NoBatch     \* a variable that holds no batch

ASSUME SizeAssumption == MaxTokens \in Nat \ {0}

Flags   == [0..(MaxTokens - 1) -> BOOLEAN]
NoFlags == [k \in 0..(MaxTokens - 1) |-> FALSE]

\* flags is the native logits array (unused entries included); it is null for a
\* batch of get_one (owned is FALSE), of which only the last token has logits.
LlamaBatch ==
  [owned: BOOLEAN, allocated: 0..MaxTokens, n_tokens: 0..MaxTokens,
   flags: Flags, initialized_logits: Seq(Nat)]

VARIABLES
  batch,               \* the batch each variable holds
  initialized_logits,  \* LlamaContext.initialized_logits
  outputs,             \* native: batch indices with logits, in row order
  evaluated,           \* the last native evaluation: "none", "decode", "encode",
                       \* "chunks", or "failed"
  returned             \* what the last batch method returned

batchVars == <<batch, initialized_logits, outputs, evaluated, returned>>
context_vars == <<initialized_logits, outputs, evaluated>>

BatchInit ==
  /\ batch = [b \in Batches |-> NoBatch]
  /\ initialized_logits = <<>>
  /\ outputs = <<>>
  /\ evaluated = "none"
  /\ returned = "Ok"

----------------------------------------------------------------------------
(* LlamaBatch's methods *)

\* add, for a batch with room
add(s, logits) ==
  LET offset == s.n_tokens
  IN [s EXCEPT !.flags[offset] = logits,
               !.initialized_logits =
                  IF logits THEN Append(@, offset)
                  ELSE retained(@, Nat \ {offset}),
               !.n_tokens = offset + 1]

\* the loop of add_sequence: n tokens, the last one always with logits
add_all(s, n, logits_all) ==
  LET after[k \in 0..n] == IF k = 0 THEN s ELSE add(after[k-1], logits_all \/ k = n)
  IN after[n]

Holds(b) == batch[b] # NoBatch
Set(b, s, result) ==
  /\ batch' = [batch EXCEPT ![b] = s]
  /\ returned' = result
  /\ UNCHANGED context_vars

\* new: llama_batch_init leaves the array uninitialized.
NewBatch(b, n) ==
  /\ ~Holds(b)
  /\ \E flags \in Flags :
       Set(b, [owned |-> TRUE, allocated |-> n, n_tokens |-> 0, flags |-> flags,
               initialized_logits |-> <<>>], "Ok")

GetOne(b, n) ==
  /\ ~Holds(b)
  /\ IF n = 0 THEN Set(b, NoBatch, "EmptyBuffer")
     ELSE Set(b, [owned |-> FALSE, allocated |-> 0, n_tokens |-> n, flags |-> NoFlags,
                  initialized_logits |-> <<n - 1>>], "Ok")

\* Faulty variant of clear: the list survives.
ClearTokens(b) ==
  /\ Holds(b)
  /\ Set(b, [batch[b] EXCEPT !.n_tokens = 0], "Ok")

Clear(b) ==
  /\ Holds(b)
  /\ Set(b, [batch[b] EXCEPT !.n_tokens = 0, !.initialized_logits = <<>>], "Ok")

Add(b, logits) ==
  /\ Holds(b)
  /\ IF batch[b].allocated < batch[b].n_tokens + 1
     THEN Set(b, batch[b], "InsufficientSpace")
     ELSE Set(b, add(batch[b], logits), "Ok")

AddSequence(b, n, logits_all) ==
  /\ Holds(b)
  /\ IF batch[b].allocated < batch[b].n_tokens + n
     THEN Set(b, batch[b], "InsufficientSpace")
     ELSE Set(b, add_all(batch[b], n, logits_all), "Ok")

DropBatch(b) ==
  /\ Holds(b)
  /\ Set(b, NoBatch, "Ok")

----------------------------------------------------------------------------
(* The context *)

\* The rows llama_decode computes logits for, in batch order.
OutputRows(s) ==
  IF s.owned THEN retained([k \in 1..s.n_tokens |-> k - 1], {i \in DOMAIN s.flags : s.flags[i]})
  ELSE IF s.n_tokens = 0 THEN <<>> ELSE <<s.n_tokens - 1>>

\* Faulty variant: the batch's list is added to the context's.
EvaluateExtends(b, call, rows) ==
  /\ Holds(b)
  /\ batch[b].n_tokens > 0
  /\ Len(initialized_logits) < 2 * MaxTokens
  /\ outputs' = rows
  /\ initialized_logits' = initialized_logits \o batch[b].initialized_logits
  /\ evaluated' = call
  /\ UNCHANGED <<batch, returned>>

\* decode or encode returns Ok; llama_encode has a row for every token.
Evaluate(b, call, rows) ==
  /\ Holds(b)
  /\ batch[b].n_tokens > 0
  /\ outputs' = rows
  /\ initialized_logits' = batch[b].initialized_logits
  /\ evaluated' = call
  /\ UNCHANGED <<batch, returned>>

Decode(b) == Evaluate(b, "decode", OutputRows(batch[b]))
Encode(b) == Evaluate(b, "encode", [k \in 1..batch[b].n_tokens |-> k - 1])

\* decode or encode returns an error: initialized_logits is not assigned.
EvaluateFails(b) ==
  /\ Holds(b)
  /\ outputs' \in {outputs, <<>>}
  /\ evaluated' = "failed"
  /\ UNCHANGED <<batch, initialized_logits, returned>>

\* eval_chunks: llama_decode of n tokens on the native context, with logits for the
\* last one if the caller wants them.
EvalChunks(n, logits_last) ==
  /\ n > 0
  /\ outputs' = IF logits_last THEN <<n - 1>> ELSE <<>>
  /\ evaluated' = "chunks"
  /\ UNCHANGED <<batch, initialized_logits, returned>>

\* The assertion of get_logits_ith.
get_logits_ith_allows(i) == \E k \in 1..Len(initialized_logits) : initialized_logits[k] = i

BatchNext ==
  \/ \E b \in Batches :
       \/ \E n \in 0..MaxTokens : NewBatch(b, n)
       \/ \E n \in 0..MaxTokens : GetOne(b, n)
       \/ Clear(b)
       \/ \E logits \in BOOLEAN : Add(b, logits)
       \/ \E n \in 0..MaxTokens, logits_all \in BOOLEAN : AddSequence(b, n, logits_all)
       \/ DropBatch(b)
       \/ Decode(b)
       \/ Encode(b)
       \/ EvaluateFails(b)
  \/ \E n \in 1..MaxTokens, logits_last \in BOOLEAN : EvalChunks(n, logits_last)

BatchSpec == BatchInit /\ [][BatchNext]_batchVars

----------------------------------------------------------------------------
(* Properties *)

RangeOf(s) == {s[k] : k \in 1..Len(s)}

\* Through any sequence of add, add_sequence and clear, with entries of the native
\* array left over from before a clear: the list of initialized logits is exactly
\* the rows native code will compute logits for, in its order and without repeats,
\* and the batch never holds more tokens than it has room for.
ListIsOutputs ==
  \A b \in Batches : Holds(b) =>
    /\ batch[b].initialized_logits = OutputRows(batch[b])
    /\ batch[b].owned => batch[b].n_tokens <= batch[b].allocated

\* "Used by LlamaContext to ensure that only initialized logits are accessed":
\* after a decode that returned Ok, get_logits_ith lets an index through if and
\* only if native code has its row, whatever became of the batch since then; after
\* an encode, for which every token has a row, it lets through only rows that exist.
GuardMatchesOutputs ==
  \A i \in 0..MaxTokens :
    /\ evaluated = "decode" => (get_logits_ith_allows(i) <=> i \in RangeOf(outputs))
    /\ evaluated = "encode" => (get_logits_ith_allows(i) => i \in RangeOf(outputs))

----------------------------------------------------------------------------
(* What docs say and the code does not do *)

\* "Used by [LlamaContext] to ensure that only initialized logits are accessed",
\* whatever happened last.
OnlyInitializedLogits ==
  \A i \in 0..MaxTokens : get_logits_ith_allows(i) => i \in RangeOf(outputs)
=============================================================================
