--------------------------- MODULE DecodingProofs ---------------------------
(***************************************************************************)
(* For any number and length of batches: the list of initialized logits    *)
(* names the rows that are computed, and the guard of get_logits_ith lets  *)
(* through the rows that exist.  For all parameters and any number and     *)
(* length of drafts: the caller and the wrapper agree on what is pending,  *)
(* llama.cpp is only told of the draft it made last, and every draft is    *)
(* settled once.  For any number of candidates and samplers: the caller's  *)
(* array is the one the last sampler left.  For all texts, pieces and      *)
(* sizes of buffers: what a call for a text returns is what llama.cpp had, *)
(* and a stream of whole characters is decoded as it is.  For every        *)
(* grammar and vocabulary: the samplers of llguidance keep to the grammar. *)
(***************************************************************************)
EXTENDS BatchLogits, MtpSpeculative, TokenDataArray, LlgSampler, RetainProofs, SequenceTheorems

-----------------------------------------------------------------------------
(* The rows of a batch                                                     *)

\* The indices of the first n tokens.
Indices(n) == [k \in 1..n |-> k - 1]
\* The tokens that were marked.
Marked(flags) == {i \in DOMAIN flags : flags[i]}

LEMMA IndicesAppend ==
  ASSUME NEW n \in Nat
  PROVE  /\ Indices(n) \in Seq(Nat) /\ Len(Indices(n)) = n
         /\ Indices(n + 1) = Append(Indices(n), n)
  BY DEF Indices

\* The list has no index that is not yet used, so that retain drops nothing.
LEMMA NothingDropped ==
  ASSUME NEW list \in Seq(Nat), NEW n \in Nat, \A k \in 1..Len(list) : list[k] < n
  PROVE  retained(list, Nat \ {n}) = list
<1>1. Len(list) \in 0..Len(list)
  OBVIOUS
<1>2. \A k \in 1..Len(list) : list[k] \in Nat \ {n} <=> k <= Len(list)
  OBVIOUS
<1>3. retained(list, Nat \ {n}) = SubSeq(list, 1, Len(list))
  BY <1>1, <1>2, RetainedPrefix
<1>4. SubSeq(list, 1, Len(list)) = list
  OBVIOUS
<1>. QED BY <1>3, <1>4

\* A new token adds a row if it is marked, and leaves the rows before it.
LEMMA RowsOfOneMore ==
  ASSUME NEW n \in Nat, NEW flags, NEW marked,
         n \in DOMAIN flags, \A i \in DOMAIN flags : i # n => marked[i] = flags[i],
         DOMAIN marked = DOMAIN flags
  PROVE  retained(Indices(n + 1), Marked(marked)) =
           IF marked[n] THEN Append(retained(Indices(n), Marked(flags)), n)
           ELSE retained(Indices(n), Marked(flags))
<1>1. PICK list \in Seq(Nat) : list = Indices(n)
  BY IndicesAppend
<1>2. Len(list) = n /\ \A k \in 1..n : list[k] = k - 1
  BY <1>1 DEF Indices
<1>3. retained(list, Marked(marked)) = retained(list, Marked(flags))
  <2>1. ASSUME NEW k \in 1..Len(list)
        PROVE  list[k] \in Marked(marked) <=> list[k] \in Marked(flags)
    <3>1. list[k] # n
      BY <1>2
    <3>. QED BY <3>1, Zenon DEF Marked
  <2>. QED BY <2>1, RetainedSame
<1>4. n \in Marked(marked) <=> marked[n]
  BY DEF Marked
<1>5. retained(Append(list, n), Marked(marked)) =
        IF n \in Marked(marked) THEN Append(retained(list, Marked(marked)), n)
        ELSE retained(list, Marked(marked))
  BY RetainedAppend
<1>. QED BY <1>1, <1>3, <1>4, <1>5, IndicesAppend

-----------------------------------------------------------------------------
(* A batch                                                                 *)

\* The list names the rows and only tokens of the batch.
GoodBatch(s) ==
  /\ s \in LlamaBatch
  /\ s.owned => s.n_tokens <= s.allocated
  /\ ~s.owned => s.allocated = 0
  /\ s.initialized_logits = OutputRows(s)
  /\ \A k \in 1..Len(s.initialized_logits) : s.initialized_logits[k] < s.n_tokens

\* add to a batch with room.
LEMMA AddGood ==
  ASSUME NEW s, GoodBatch(s), s.owned, s.n_tokens < s.allocated, NEW logits \in BOOLEAN
  PROVE  /\ GoodBatch(add(s, logits))
         /\ add(s, logits).n_tokens = s.n_tokens + 1
         /\ add(s, logits).allocated = s.allocated /\ add(s, logits).owned
<1>1. PICK n \in Nat : n = s.n_tokens
  BY DEF GoodBatch, LlamaBatch
<1>2. PICK list \in Seq(Nat) : list = s.initialized_logits
  BY DEF GoodBatch, LlamaBatch
<1>3. PICK flags \in Flags : flags = s.flags
  BY DEF GoodBatch, LlamaBatch
<1>4. /\ n + 1 \in 0..MaxTokens /\ n \in 0..(MaxTokens - 1)
      /\ s.allocated \in 0..MaxTokens /\ n < s.allocated
  BY <1>1, SizeAssumption DEF GoodBatch, LlamaBatch
<1>5. PICK marked : marked = [flags EXCEPT ![n] = logits]
  OBVIOUS
<1>6. marked \in Flags /\ marked[n] = logits
  BY <1>4, <1>5 DEF Flags
<1>7. PICK longer : longer = IF logits THEN Append(list, n) ELSE list
  OBVIOUS
<1>8. longer \in Seq(Nat) /\ \A k \in 1..Len(longer) : longer[k] < n + 1
  <2>1. \A k \in 1..Len(list) : list[k] < n
    BY <1>1, <1>2 DEF GoodBatch
  <2>. QED BY <1>7, <2>1
<1>9. add(s, logits) = [owned |-> TRUE, allocated |-> s.allocated, n_tokens |-> n + 1,
                        flags |-> marked, initialized_logits |-> longer]
  <2>1. retained(list, Nat \ {n}) = list
    BY <1>1, <1>2, NothingDropped DEF GoodBatch
  <2>2. add(s, logits) = [s EXCEPT !.flags = marked, !.initialized_logits = longer,
                                   !.n_tokens = n + 1]
    BY <1>1, <1>2, <1>3, <1>5, <1>7, <2>1 DEF add
  <2>3. s = [owned |-> TRUE, allocated |-> s.allocated, n_tokens |-> n,
             flags |-> flags, initialized_logits |-> list]
    BY <1>1, <1>2, <1>3 DEF GoodBatch, LlamaBatch
  <2>. QED BY <2>2, <2>3
<1>10. PICK new : new = add(s, logits)
  OBVIOUS
<1>11. /\ new.owned /\ new.n_tokens = n + 1 /\ new.flags = marked
       /\ new.allocated = s.allocated /\ new.initialized_logits = longer
  BY <1>9, <1>10
<1>12. longer = OutputRows(new)
  <2>1. list = retained(Indices(n), Marked(flags))
    BY <1>1, <1>2, <1>3 DEF GoodBatch, OutputRows, Indices, Marked
  <2>2. OutputRows(new) = retained(Indices(n + 1), Marked(marked))
    BY <1>11 DEF OutputRows, Indices, Marked
  <2>3. retained(Indices(n + 1), Marked(marked)) =
           IF marked[n] THEN Append(retained(Indices(n), Marked(flags)), n)
           ELSE retained(Indices(n), Marked(flags))
    <3>1. /\ n \in DOMAIN flags /\ DOMAIN marked = DOMAIN flags
          /\ \A i \in DOMAIN flags : i # n => marked[i] = flags[i]
      BY <1>4, <1>5 DEF Flags
    <3>. QED BY <3>1, RowsOfOneMore
  <2>. QED BY <1>6, <1>7, <2>1, <2>2, <2>3
<1>13. new \in LlamaBatch
  BY <1>4, <1>6, <1>8, <1>9, <1>10 DEF LlamaBatch
<1>14. GoodBatch(new)
  BY <1>4, <1>8, <1>11, <1>12, <1>13 DEF GoodBatch
<1>. QED BY <1>1, <1>10, <1>11, <1>14

-----------------------------------------------------------------------------
(* The loop of add_sequence                                                *)

\* f gives the batch after the first rounds of the loop, up to j of them.
AddsUpTo(f, j, s, n, logits_all) ==
  f = [k \in 0..j |-> IF k = 0 THEN s ELSE add(f[k - 1], logits_all \/ k = n)]

LEMMA AddsOneMore ==
  ASSUME NEW j \in Nat, NEW f, NEW s, NEW n, NEW logits_all, AddsUpTo(f, j, s, n, logits_all)
  PROVE  \E g : AddsUpTo(g, j + 1, s, n, logits_all)
<1>1. PICK last : last = add(f[j], logits_all \/ j + 1 = n)
  OBVIOUS
<1>2. PICK g : g = [k \in 0..(j + 1) |-> IF k = j + 1 THEN last ELSE f[k]]
  OBVIOUS
<1>3. ASSUME NEW k \in 0..(j + 1)
      PROVE  g[k] = IF k = 0 THEN s ELSE add(g[k - 1], logits_all \/ k = n)
  <2>1. CASE k = j + 1
    <3>1. k # 0 /\ k - 1 = j /\ g[j] = f[j] /\ g[k] = last
      BY <1>2, <2>1
    <3>. QED BY <1>1, <2>1, <3>1
  <2>2. CASE k # j + 1
    <3>1. k \in 0..j /\ g[k] = f[k] /\ (k # 0 => g[k - 1] = f[k - 1])
      BY <1>2, <2>2
    <3>2. f[k] = IF k = 0 THEN s ELSE add(f[k - 1], logits_all \/ k = n)
      BY <3>1 DEF AddsUpTo
    <3>. QED BY <3>1, <3>2
  <2>. QED BY <2>1, <2>2
<1>4. g = [k \in 0..(j + 1) |-> IF k = 0 THEN s ELSE add(g[k - 1], logits_all \/ k = n)]
  BY <1>2, <1>3
<1>. QED BY <1>4 DEF AddsUpTo

LEMMA AddsExist ==
  ASSUME NEW s, NEW n, NEW logits_all, NEW j \in Nat
  PROVE  \E f : AddsUpTo(f, j, s, n, logits_all)
<1>1. PICK T \in SUBSET Nat : \A k \in Nat : k \in T <=> \E f : AddsUpTo(f, k, s, n, logits_all)
  <2>1. {k \in Nat : \E f : AddsUpTo(f, k, s, n, logits_all)} \in SUBSET Nat
    OBVIOUS
  <2>. QED BY <2>1
<1>2. 0 \in T
  <2>1. PICK f : f = [k \in 0..0 |-> s]
    OBVIOUS
  <2>2. AddsUpTo(f, 0, s, n, logits_all)
    BY <2>1 DEF AddsUpTo
  <2>. QED BY <1>1, <2>2
<1>3. ASSUME NEW k \in T PROVE k + 1 \in T
  <2>1. PICK f : AddsUpTo(f, k, s, n, logits_all)
    BY <1>1
  <2>2. \E g : AddsUpTo(g, k + 1, s, n, logits_all)
    BY <2>1, AddsOneMore
  <2>. QED BY <1>1, <2>2
<1>4. T = Nat
  BY <1>2, <1>3, Induction
<1>. QED BY <1>1, <1>4

\* add_sequence of a sequence for which there is room.
LEMMA AddAllGood ==
  ASSUME NEW s, GoodBatch(s), NEW n \in Nat, s.n_tokens + n <= s.allocated,
         NEW logits_all \in BOOLEAN
  PROVE  GoodBatch(add_all(s, n, logits_all))
<1>1. PICK f : AddsUpTo(f, n, s, n, logits_all) /\ add_all(s, n, logits_all) = f[n]
  <2>1. PICK g : g = CHOOSE h : AddsUpTo(h, n, s, n, logits_all)
    OBVIOUS
  <2>2. AddsUpTo(g, n, s, n, logits_all)
    BY <2>1, AddsExist
  <2>3. add_all(s, n, logits_all) = g[n]
    BY <2>1 DEF add_all, AddsUpTo
  <2>. QED BY <2>2, <2>3
<1>2. f[0] = s
  BY <1>1 DEF AddsUpTo
<1>3. CASE n = 0
  BY <1>1, <1>2, <1>3
<1>4. CASE n # 0
  <2>1. PICK start \in Nat, room \in Nat : /\ start = s.n_tokens /\ room = s.allocated
                                           /\ start + n <= room
    BY DEF GoodBatch, LlamaBatch
  <2>2. s.owned
    BY <1>4, <2>1 DEF GoodBatch, LlamaBatch
  <2>3. PICK T \in SUBSET Nat : \A k \in Nat : k \in T <=>
          (k <= n => /\ GoodBatch(f[k]) /\ f[k].owned
                     /\ f[k].allocated = room /\ f[k].n_tokens = start + k)
    <3>1. {k \in Nat : k <= n => /\ GoodBatch(f[k]) /\ f[k].owned /\ f[k].allocated = room
                                 /\ f[k].n_tokens = start + k} \in SUBSET Nat
      OBVIOUS
    <3>. QED BY <3>1
  <2>4. 0 \in T
    BY <1>2, <2>1, <2>2, <2>3
  <2>5. ASSUME NEW k \in T PROVE k + 1 \in T
    <3>. k \in Nat /\ k + 1 \in Nat
      OBVIOUS
    <3>. SUFFICES ASSUME k + 1 <= n
                  PROVE  /\ GoodBatch(f[k + 1]) /\ f[k + 1].owned
                         /\ f[k + 1].allocated = room /\ f[k + 1].n_tokens = start + (k + 1)
      BY <2>3, Zenon
    <3>1. /\ GoodBatch(f[k]) /\ f[k].owned
          /\ f[k].allocated = room /\ f[k].n_tokens = start + k
      BY <2>3
    <3>2. PICK logits \in BOOLEAN : logits = (logits_all \/ k + 1 = n)
      OBVIOUS
    <3>3. f[k + 1] = add(f[k], logits)
      <4>1. k + 1 \in 0..n /\ k + 1 # 0 /\ (k + 1) - 1 = k
        OBVIOUS
      <4>. QED BY <1>1, <3>2, <4>1 DEF AddsUpTo
    <3>4. f[k].n_tokens < f[k].allocated /\ (start + k) + 1 = start + (k + 1)
      <4>1. start + k < room /\ (start + k) + 1 = start + (k + 1)
        BY <2>1
      <4>. QED BY <3>1, <4>1
    <3>. QED BY <3>1, <3>3, <3>4, AddGood
  <2>6. n \in T
    BY <2>4, <2>5, Induction
  <2>. QED BY <1>1, <2>3, <2>6
<1>. QED BY <1>3, <1>4

-----------------------------------------------------------------------------
(* The steps                                                               *)

\* What decode and encode have left in the context.
EvaluatedInv ==
  /\ evaluated = "decode" => initialized_logits = outputs
  /\ evaluated = "encode" =>
       \A k \in 1..Len(initialized_logits) : initialized_logits[k] \in RangeOf(outputs)

BatchInv ==
  /\ DOMAIN batch = Batches
  /\ \A b \in Batches : Holds(b) => GoodBatch(batch[b])
  /\ EvaluatedInv

\* What clear leaves of a batch.
LEMMA ClearedIs ==
  ASSUME NEW s \in LlamaBatch
  PROVE  [s EXCEPT !.n_tokens = 0, !.initialized_logits = <<>>] =
           [owned |-> s.owned, allocated |-> s.allocated, n_tokens |-> 0,
            flags |-> s.flags, initialized_logits |-> <<>>]
<1>1. PICK t : t = [s EXCEPT !.n_tokens = 0, !.initialized_logits = <<>>]
  OBVIOUS
<1>2. DOMAIN s = {"owned", "allocated", "n_tokens", "flags", "initialized_logits"}
  BY DEF LlamaBatch
<1>3. t = [x \in DOMAIN s |-> t[x]] /\ DOMAIN t = DOMAIN s
  BY <1>1
<1>4. /\ t.owned = s.owned /\ t.allocated = s.allocated /\ t.n_tokens = 0
      /\ t.flags = s.flags /\ t.initialized_logits = <<>>
  BY <1>1, <1>2
<1>5. t = [owned |-> t.owned, allocated |-> t.allocated, n_tokens |-> t.n_tokens,
           flags |-> t.flags, initialized_logits |-> t.initialized_logits]
  BY <1>2, <1>3
<1>. QED BY <1>1, <1>4, <1>5

\* A batch without tokens, new or cleared.
LEMMA EmptyGood ==
  ASSUME NEW owned \in BOOLEAN, NEW allocated \in 0..MaxTokens, NEW flags \in Flags,
         ~owned => allocated = 0
  PROVE  GoodBatch([owned |-> owned, allocated |-> allocated, n_tokens |-> 0,
                    flags |-> flags, initialized_logits |-> <<>>])
<1>1. PICK s : s = [owned |-> owned, allocated |-> allocated, n_tokens |-> 0,
                    flags |-> flags, initialized_logits |-> <<>>]
  OBVIOUS
<1>2. /\ s.owned = owned /\ s.allocated = allocated /\ s.n_tokens = 0 /\ s.flags = flags
      /\ s.initialized_logits = <<>>
  BY <1>1
<1>3. s \in LlamaBatch
  BY <1>1, SizeAssumption DEF LlamaBatch
<1>4. OutputRows(s) = <<>>
  <2>1. [k \in 1..s.n_tokens |-> k - 1] = <<>>
    BY <1>2
  <2>. QED BY <1>2, <2>1, RetainedEmpty DEF OutputRows
<1>5. s.n_tokens <= s.allocated
  BY <1>2
<1>6. GoodBatch(s)
  BY <1>2, <1>3, <1>4, <1>5 DEF GoodBatch
<1>. QED BY <1>1, <1>6

\* The batch of get_one.
LEMMA OneGood ==
  ASSUME NEW n \in 1..MaxTokens
  PROVE  GoodBatch([owned |-> FALSE, allocated |-> 0, n_tokens |-> n,
                    flags |-> NoFlags, initialized_logits |-> <<n - 1>>])
<1>1. PICK s : s = [owned |-> FALSE, allocated |-> 0, n_tokens |-> n,
                    flags |-> NoFlags, initialized_logits |-> <<n - 1>>]
  OBVIOUS
<1>2. n \in 0..MaxTokens /\ n # 0 /\ n \in Nat /\ n - 1 \in Nat /\ n - 1 < n /\ 0 \in 0..MaxTokens
  BY SizeAssumption
<1>3. s \in LlamaBatch
  BY <1>1, <1>2 DEF LlamaBatch, Flags, NoFlags
<1>4. OutputRows(s) = <<n - 1>>
  BY <1>1, <1>2 DEF OutputRows
<1>5. GoodBatch(s)
  BY <1>1, <1>2, <1>3, <1>4 DEF GoodBatch
<1>. QED BY <1>1, <1>5

\* A batch method leaves the context alone.
LEMMA SetKeeps ==
  ASSUME BatchInv, NEW b \in Batches, NEW s, NEW answer, Set(b, s, answer),
         s # NoBatch => GoodBatch(s)
  PROVE  BatchInv'
<1>1. EvaluatedInv'
  BY DEF BatchInv, EvaluatedInv, Set, context_vars
<1>2. DOMAIN batch' = Batches /\ batch'[b] = s /\ \A c \in Batches \ {b} : batch'[c] = batch[c]
  BY DEF BatchInv, Set
<1>. QED BY <1>1, <1>2 DEF BatchInv, Holds

\* new, get_one, clear, add and add_sequence.
LEMMA MethodKeeps ==
  ASSUME BatchInv, NEW b \in Batches,
         \/ \E n \in 0..MaxTokens : NewBatch(b, n) \/ GetOne(b, n)
         \/ Clear(b) \/ DropBatch(b)
         \/ \E logits \in BOOLEAN : Add(b, logits)
         \/ \E n \in 0..MaxTokens, logits_all \in BOOLEAN : AddSequence(b, n, logits_all)
  PROVE  BatchInv'
<1>1. ASSUME NEW n \in 0..MaxTokens, NewBatch(b, n) PROVE BatchInv'
  <2>1. PICK flags \in Flags :
          Set(b, [owned |-> TRUE, allocated |-> n, n_tokens |-> 0, flags |-> flags,
                  initialized_logits |-> <<>>], "Ok")
    BY <1>1 DEF NewBatch
  <2>2. GoodBatch([owned |-> TRUE, allocated |-> n, n_tokens |-> 0, flags |-> flags,
                   initialized_logits |-> <<>>])
    BY EmptyGood
  <2>. QED BY <2>1, <2>2, SetKeeps
<1>2. ASSUME NEW n \in 0..MaxTokens, GetOne(b, n) PROVE BatchInv'
  <2>1. CASE n = 0
    BY <1>2, <2>1, SetKeeps DEF GetOne
  <2>2. CASE n # 0
    <3>1. n \in 1..MaxTokens
      BY <2>2, SizeAssumption
    <3>. QED BY <1>2, <2>2, <3>1, OneGood, SetKeeps DEF GetOne
  <2>. QED BY <2>1, <2>2
<1>3. ASSUME Clear(b) PROVE BatchInv'
  <2>1. PICK s : s = batch[b]
    OBVIOUS
  <2>2. GoodBatch(s)
    BY <1>3, <2>1 DEF BatchInv, Clear
  <2>3. Set(b, [s EXCEPT !.n_tokens = 0, !.initialized_logits = <<>>], "Ok")
    BY <1>3, <2>1 DEF Clear
  <2>4. [s EXCEPT !.n_tokens = 0, !.initialized_logits = <<>>] =
          [owned |-> s.owned, allocated |-> s.allocated, n_tokens |-> 0,
           flags |-> s.flags, initialized_logits |-> <<>>]
    BY <2>2, ClearedIs DEF GoodBatch
  <2>5. /\ s.owned \in BOOLEAN /\ s.allocated \in 0..MaxTokens /\ s.flags \in Flags
        /\ ~s.owned => s.allocated = 0
    BY <2>2 DEF GoodBatch, LlamaBatch
  <2>6. GoodBatch([owned |-> s.owned, allocated |-> s.allocated, n_tokens |-> 0,
                   flags |-> s.flags, initialized_logits |-> <<>>])
    BY <2>5, EmptyGood
  <2>. QED BY <2>3, <2>4, <2>6, SetKeeps
<1>4. ASSUME DropBatch(b) PROVE BatchInv'
  BY <1>4, SetKeeps DEF DropBatch
<1>5. ASSUME NEW logits \in BOOLEAN, Add(b, logits) PROVE BatchInv'
  <2>1. PICK s : s = batch[b] /\ GoodBatch(s)
    BY <1>5 DEF BatchInv, Add
  <2>2. CASE s.allocated < s.n_tokens + 1
    BY <1>5, <2>1, <2>2, SetKeeps DEF Add
  <2>3. CASE ~(s.allocated < s.n_tokens + 1)
    <3>1. s.n_tokens < s.allocated /\ s.owned
      BY <2>1, <2>3 DEF GoodBatch, LlamaBatch
    <3>2. GoodBatch(add(s, logits))
      BY <2>1, <3>1, AddGood
    <3>. QED BY <1>5, <2>1, <2>3, <3>2, SetKeeps DEF Add
  <2>. QED BY <2>2, <2>3
<1>6. ASSUME NEW n \in 0..MaxTokens, NEW logits_all \in BOOLEAN, AddSequence(b, n, logits_all)
      PROVE  BatchInv'
  <2>1. PICK s : s = batch[b] /\ GoodBatch(s)
    BY <1>6 DEF BatchInv, AddSequence
  <2>2. CASE s.allocated < s.n_tokens + n
    BY <1>6, <2>1, <2>2, SetKeeps DEF AddSequence
  <2>3. CASE ~(s.allocated < s.n_tokens + n)
    <3>1. s.n_tokens + n <= s.allocated /\ n \in Nat
      BY <2>1, <2>3 DEF GoodBatch, LlamaBatch
    <3>2. GoodBatch(add_all(s, n, logits_all))
      BY <2>1, <3>1, AddAllGood
    <3>. QED BY <1>6, <2>1, <2>3, <3>2, SetKeeps DEF AddSequence
  <2>. QED BY <2>2, <2>3
<1>. QED BY <1>1, <1>2, <1>3, <1>4, <1>5, <1>6

\* decode and encode, their failures, and eval_chunks.
LEMMA EvaluationKeeps ==
  ASSUME BatchInv,
         \/ \E b \in Batches : Decode(b) \/ Encode(b) \/ EvaluateFails(b)
         \/ \E n \in 1..MaxTokens, logits_last \in BOOLEAN : EvalChunks(n, logits_last)
  PROVE  BatchInv'
<1>1. batch' = batch
  BY DEF Decode, Encode, Evaluate, EvaluateFails, EvalChunks
<1>2. ASSUME NEW b \in Batches, Decode(b) PROVE EvaluatedInv'
  <2>1. /\ GoodBatch(batch[b]) /\ evaluated' = "decode"
        /\ outputs' = OutputRows(batch[b]) /\ initialized_logits' = batch[b].initialized_logits
    BY <1>2 DEF BatchInv, Decode, Evaluate
  <2>. QED BY <2>1 DEF EvaluatedInv, GoodBatch
<1>3. ASSUME NEW b \in Batches, Encode(b) PROVE EvaluatedInv'
  <2>1. PICK s, list : /\ s = batch[b] /\ GoodBatch(s) /\ list = s.initialized_logits
                       /\ initialized_logits' = list /\ evaluated' = "encode"
                       /\ outputs' = [k \in 1..s.n_tokens |-> k - 1]
    BY <1>3 DEF BatchInv, Encode, Evaluate
  <2>2. PICK n \in Nat : n = s.n_tokens
    BY <2>1 DEF GoodBatch, LlamaBatch
  <2>3. \A k \in 1..Len(list) : list[k] \in Nat /\ list[k] < n
    BY <2>1, <2>2 DEF GoodBatch, LlamaBatch
  <2>4. \A i \in Nat : i < n => i \in RangeOf(outputs)'
    <3>1. Len(outputs') = n /\ \A k \in 1..n : outputs'[k] = k - 1
      BY <2>1, <2>2
    <3>2. ASSUME NEW i \in Nat, i < n PROVE i \in RangeOf(outputs)'
      <4>1. i + 1 \in 1..n /\ outputs'[i + 1] = i
        BY <3>1, <3>2
      <4>. QED BY <3>1, <4>1 DEF RangeOf
    <3>. QED BY <3>2
  <2>. QED BY <2>1, <2>3, <2>4 DEF EvaluatedInv
<1>4. ASSUME NEW b \in Batches, EvaluateFails(b) PROVE EvaluatedInv'
  BY <1>4 DEF EvaluateFails, EvaluatedInv
<1>5. ASSUME NEW n \in 1..MaxTokens, NEW logits_last \in BOOLEAN, EvalChunks(n, logits_last)
      PROVE  EvaluatedInv'
  BY <1>5 DEF EvalChunks, EvaluatedInv
<1>. QED BY <1>1, <1>2, <1>3, <1>4, <1>5 DEF BatchInv, Holds

LEMMA BatchInvHolds == BatchSpec => []BatchInv
<1>1. BatchInit => BatchInv
  BY DEF BatchInit, BatchInv, EvaluatedInv, Holds
<1>2. BatchInv /\ [BatchNext]_batchVars => BatchInv'
  <2>. SUFFICES ASSUME BatchInv, [BatchNext]_batchVars PROVE BatchInv'
    OBVIOUS
  <2>1. CASE UNCHANGED batchVars
    BY <2>1 DEF batchVars, BatchInv, EvaluatedInv, Holds
  <2>2. CASE BatchNext
    BY <2>2, MethodKeeps, EvaluationKeeps DEF BatchNext
  <2>. QED BY <2>1, <2>2
<1>. QED BY <1>1, <1>2, PTL DEF BatchSpec

\* llama_batch.rs: through any sequence of add, add_sequence and clear the list of
\* initialized logits is exactly the rows that native code computes logits for.
THEOREM ListNamesRows == BatchSpec => []ListIsOutputs
<1>1. BatchInv => ListIsOutputs
  BY DEF BatchInv, GoodBatch, ListIsOutputs
<1>. QED BY <1>1, BatchInvHolds, PTL

\* get_logits_ith after decode or encode: an index is let through only if its row
\* exists, and after decode whenever it does.
THEOREM GuardIsExact == BatchSpec => []GuardMatchesOutputs
<1>1. BatchInv => GuardMatchesOutputs
  BY DEF BatchInv, EvaluatedInv, GuardMatchesOutputs, get_logits_ith_allows, RangeOf
<1>. QED BY <1>1, BatchInvHolds, PTL

-----------------------------------------------------------------------------
(* Drafts                                                                 *)

\* A pending draft is the one in the drafter and in the caller's hand; drafts are
\* numbered upwards, and a pending one is newer than all that were accepted.
HandInv ==
  /\ raw = "none" => ~draft_pending
  /\ draft_pending => in_hand = drafted
  /\ \A i \in DOMAIN accepted : accepted[i] <= drafted.id
  /\ draft_pending => \A i \in DOMAIN accepted : accepted[i] < drafted.id

IInv == TypeOK /\ CallerInStep /\ ToldOfLastDraft /\ HandInv

\* What a step sets when it leaves no draft with the caller.
LEMMA NoDraftType == NoDraft \in DraftType /\ NoDraft.id = 0
  BY DEF NoDraft, DraftType

\* Before new nothing is drafted.
LEMMA InitIInv == Init => IInv
<1> SUFFICES ASSUME Init PROVE IInv
  OBVIOUS
<1>1. told \in [draft: DraftType, given: DraftType, n: Nat]
  BY NoDraftType DEF Init, NoTold
<1>2. TypeOK
  <2>1. last_draft_len \in 0..n_max /\ n_max \in Nat
    BY DEF Init
  <2>2. draft_pending \in BOOLEAN /\ doubt \in BOOLEAN
    BY DEF Init
  <2>3. accepted \in Seq(Nat)
    BY DEF Init
  <2>4. drafted \in DraftType /\ in_hand \in DraftType
    BY NoDraftType DEF Init
  <2>5. /\ raw \in {"none", "live", "freed"}
        /\ result \in {"none", "Ok", "InvalidParams", "InitFailed", "InvalidArgument",
                       "Exception", "DraftOverflow"}
    BY DEF Init
  <2> QED  BY <1>1, <2>1, <2>2, <2>3, <2>4, <2>5, Zenon DEF TypeOK
<1>3. CallerInStep
  BY DEF Init, CallerInStep
<1>4. ToldOfLastDraft /\ HandInv
  BY DEF Init, ToldOfLastDraft, HandInv
<1> QED  BY <1>2, <1>3, <1>4 DEF IInv

\* new does not touch drafts.
LEMMA NewInv == ASSUME IInv, NEW p \in Params, New(p) PROVE IInv'
<1>1. /\ draft_pending = FALSE /\ last_draft_len = 0
      /\ n_max' \in Nat
      /\ raw' \in {"none", "live"}
      /\ result' \in {"Ok", "InitFailed", "InvalidParams"}
      /\ UNCHANGED <<wrapper_vars, caller_vars>>
  BY ParamsAssumption
     DEF New, params_ok, IInv, TypeOK, HandInv, CallerInStep
<1> QED
  BY <1>1 DEF IInv, TypeOK, CallerInStep, ToldOfLastDraft, HandInv, wrapper_vars, caller_vars

\* begin gives up the draft, or throws before or after it has.
LEMMA BeginInv == ASSUME IInv, Begin \/ BeginThrows PROVE IInv'
<1>1. CASE Begin
  <2>0. /\ raw = "live" /\ result' = "Ok"
        /\ UNCHANGED <<raw, n_max, drafted, accepted, told>>
        /\ draft_pending' = FALSE /\ last_draft_len' = 0
        /\ in_hand' = NoDraft /\ doubt' = FALSE
    BY <1>1 DEF Begin, Live, forget
  <2>1. TypeOK'
    <3>1. draft_pending' \in BOOLEAN /\ doubt' \in BOOLEAN
      BY <2>0, Zenon
    <3>2. last_draft_len' \in 0..n_max' /\ n_max' \in Nat
      BY <2>0 DEF IInv, TypeOK
    <3> QED  BY <2>0, <3>1, <3>2, NoDraftType, Zenon DEF IInv, TypeOK
  <2>2. CallerInStep'
    BY <2>0 DEF CallerInStep
  <2>3. ToldOfLastDraft' /\ HandInv'
    BY <2>0 DEF IInv, ToldOfLastDraft, HandInv
  <2> QED  BY <2>1, <2>2, <2>3 DEF IInv
<1>2. CASE BeginThrows
  <2>0. /\ raw = "live" /\ result' = "Exception"
        /\ UNCHANGED <<raw, n_max, drafted, in_hand, accepted, told>>
        /\ doubt' = (doubt \/ in_hand # NoDraft)
    BY <1>2 DEF BeginThrows, Live
  <2>1. CASE UNCHANGED <<draft_pending, last_draft_len>>
    BY <2>0, <2>1 DEF IInv, TypeOK, CallerInStep, ToldOfLastDraft, HandInv
  <2>2. CASE forget
    <3>1. draft_pending' = FALSE /\ last_draft_len' = 0
      BY <2>2 DEF forget
    <3>2. TypeOK'
      <4>1. draft_pending' \in BOOLEAN /\ doubt' \in BOOLEAN
        BY <2>0, <3>1, Zenon
      <4>2. last_draft_len' \in 0..n_max' /\ n_max' \in Nat
        BY <2>0, <3>1 DEF IInv, TypeOK
      <4> QED  BY <2>0, <4>1, <4>2, Zenon DEF IInv, TypeOK
    <3>3. CallerInStep'
      BY <2>0, <3>1 DEF IInv, CallerInStep
    <3>4. ToldOfLastDraft' /\ HandInv'
      BY <2>0, <3>1 DEF IInv, ToldOfLastDraft, HandInv
    <3> QED  BY <3>2, <3>3, <3>4 DEF IInv
  <2> QED  BY <1>2, <2>1, <2>2 DEF BeginThrows
<1> QED  BY <1>1, <1>2

\* process and refused calls change nothing but the result.
LEMMA RefusedInv ==
  ASSUME IInv,
         \/ \E compatible \in BOOLEAN : Process(compatible)
         \/ \E n_past \in {-1, 0} : DraftRefused(n_past)
         \/ \E n \in Lengths : AcceptRefused(n)
         \/ Drop
  PROVE  IInv'
<1>1. /\ raw = "live" /\ raw' \in {"live", "freed"}
      /\ result' \in {"none", "Ok", "InvalidParams", "InvalidArgument", "Exception"}
      /\ UNCHANGED <<n_max, wrapper_vars, caller_vars>>
  BY DEF Process, DraftRefused, AcceptRefused, Drop, Live
<1> QED
  BY <1>1 DEF IInv, TypeOK, CallerInStep, ToldOfLastDraft, HandInv, wrapper_vars, caller_vars

\* draft numbers a new draft; it is given to the caller, or given up.
LEMMA DraftInv ==
  ASSUME IInv, NEW n_past \in {-1, 0}, NEW len \in Lengths, Draft(n_past, len)
  PROVE  IInv'
<1> DEFINE new == [id |-> drafted.id + 1, len |-> len]
<1>0. TypeOK /\ CallerInStep /\ ToldOfLastDraft /\ HandInv
  BY DEF IInv
<1>1. /\ raw = "live" /\ UNCHANGED <<raw, n_max, accepted, told>>
      /\ drafted' = new
      /\ last_draft_len' = delivered(len)
      /\ draft_pending' = (delivered(len) > 0)
      /\ result' \in {"DraftOverflow", "Ok"}
      /\ in_hand' = IF len \in 1..n_max THEN new ELSE NoDraft
      /\ doubt' = FALSE
  BY DEF Draft, CanDraft, Live
<1>2. len \in Nat /\ n_max \in Nat /\ new \in DraftType /\ new # NoDraft
      /\ new.id = drafted.id + 1 /\ new.len = len /\ drafted.id \in Nat
  BY <1>0 DEF Lengths, TypeOK, DraftType, NoDraft
<1>3. \A i \in DOMAIN accepted : accepted[i] < new.id
  BY <1>0, <1>2 DEF HandInv, TypeOK
<1> HIDE DEF new
<1>4. CASE len \in 1..n_max
  <2>1. last_draft_len' = len /\ draft_pending' = TRUE /\ in_hand' = new
    <3>1. delivered(len) = len /\ len > 0
      BY <1>2, <1>4 DEF delivered
    <3>2. draft_pending' = TRUE
      BY <1>1, <3>1
    <3> QED  BY <1>1, <1>4, <3>1, <3>2
  <2>2. TypeOK'
    <3>1. draft_pending' \in BOOLEAN /\ doubt' \in BOOLEAN
      BY <1>1, <2>1, Zenon
    <3>2. last_draft_len' \in 0..n_max' /\ n_max' \in Nat
      BY <1>1, <1>2, <1>4, <2>1
    <3> QED  BY <1>0, <1>1, <1>2, <2>1, <3>1, <3>2, Zenon DEF TypeOK
  <2>3. CallerInStep'
    BY <1>1, <1>2, <2>1 DEF CallerInStep
  <2>4. ToldOfLastDraft'
    BY <1>0, <1>1 DEF ToldOfLastDraft
  <2>5. HandInv'
    BY <1>0, <1>1, <1>2, <1>3, <2>1 DEF TypeOK, HandInv
  <2> QED  BY <2>2, <2>3, <2>4, <2>5 DEF IInv
<1>5. CASE len \notin 1..n_max
  <2>1. last_draft_len' = 0 /\ draft_pending' = FALSE /\ in_hand' = NoDraft
    <3>1. delivered(len) = 0
      BY <1>2, <1>5 DEF delivered
    <3>2. (delivered(len) > 0) = FALSE
      BY <3>1
    <3>3. draft_pending' = FALSE
      BY <1>1, <3>2, Zenon
    <3> QED  BY <1>1, <1>5, <3>1, <3>3
  <2>2. TypeOK'
    <3>1. draft_pending' \in BOOLEAN /\ doubt' \in BOOLEAN
      BY <1>1, <2>1, Zenon
    <3>2. last_draft_len' \in 0..n_max' /\ n_max' \in Nat
      BY <1>1, <1>2, <2>1
    <3> QED  BY <1>0, <1>1, <1>2, <2>1, <3>1, <3>2, NoDraftType, Zenon DEF TypeOK
  <2>3. CallerInStep'
    BY <1>1, <2>1 DEF CallerInStep
  <2>4. ToldOfLastDraft'
    BY <1>0, <1>1 DEF ToldOfLastDraft
  <2>5. HandInv'
    BY <1>0, <1>1, <1>2, <2>1 DEF TypeOK, HandInv
  <2> QED  BY <2>2, <2>3, <2>4, <2>5 DEF IInv
<1> QED  BY <1>4, <1>5

\* A draft that throws leaves nothing pending.
LEMMA DraftThrowsInv ==
  ASSUME IInv, NEW n_past \in {-1, 0}, NEW len \in Lengths, DraftThrows(n_past, len)
  PROVE  IInv'
<1>0. TypeOK /\ CallerInStep /\ ToldOfLastDraft /\ HandInv
  BY DEF IInv
<1>1. /\ raw = "live" /\ draft_pending = FALSE /\ last_draft_len = 0
      /\ UNCHANGED <<raw, n_max, draft_pending, in_hand, doubt, accepted, told>>
      /\ result' = "Exception"
      /\ last_draft_len' = 0
      /\ drafted' \in {drafted, [id |-> drafted.id + 1, len |-> len]}
  BY <1>0 DEF DraftThrows, CanDraft, Live, caller_vars, CallerInStep, TypeOK
<1>2. drafted' \in DraftType /\ drafted.id <= drafted'.id /\ drafted'.id \in Nat
  BY <1>0, <1>1 DEF Lengths, TypeOK, DraftType
<1>3. TypeOK' /\ CallerInStep' /\ ToldOfLastDraft'
  BY <1>0, <1>1, <1>2 DEF TypeOK, CallerInStep, ToldOfLastDraft
<1>4. HandInv'
  <2>1. drafted.id \in Nat
    BY <1>0 DEF TypeOK, DraftType
  <2>2. \A i \in DOMAIN accepted : accepted[i] \in Nat
    BY <1>0 DEF TypeOK
  <2> QED  BY <1>0, <1>1, <1>2, <2>1, <2>2 DEF HandInv
<1> QED  BY <1>3, <1>4 DEF IInv

\* accept speaks of the pending draft, which is the drafter's and the caller's.
LEMMA AcceptInv ==
  ASSUME IInv, NEW n \in Lengths, Accept(n) \/ AcceptThrows(n)
  PROVE  IInv'
<1>0. TypeOK /\ CallerInStep /\ ToldOfLastDraft /\ HandInv
  BY DEF IInv
<1>1. /\ raw = "live" /\ draft_pending /\ n <= last_draft_len
      /\ UNCHANGED <<raw, n_max, drafted>>
      /\ told' = [draft |-> drafted, given |-> in_hand, n |-> n]
      /\ result' \in {"Ok", "Exception"}
  BY DEF Accept, AcceptThrows, Live, accept_ok, tell, wrapper_vars
<1>2. n \in Nat /\ in_hand = drafted /\ in_hand # NoDraft /\ last_draft_len = in_hand.len
      /\ drafted.id \in Nat
  BY <1>0, <1>1 DEF Lengths, TypeOK, DraftType, CallerInStep, HandInv
<1>3. ToldOfLastDraft' /\ told' \in [draft: DraftType, given: DraftType, n: Nat]
  BY <1>0, <1>1, <1>2 DEF ToldOfLastDraft, TypeOK
<1>4. CASE Accept(n)
  <2>1. /\ draft_pending' = FALSE /\ last_draft_len' = 0
        /\ accepted' = Append(accepted, drafted.id)
        /\ in_hand' = NoDraft /\ doubt' = FALSE
    BY <1>4 DEF Accept, forget
  <2>2. /\ accepted' \in Seq(Nat) /\ DOMAIN accepted' = 1 .. Len(accepted) + 1
        /\ accepted'[Len(accepted) + 1] = drafted.id
        /\ \A i \in DOMAIN accepted : accepted'[i] = accepted[i]
        /\ DOMAIN accepted = 1 .. Len(accepted) /\ Len(accepted) \in Nat
    BY <1>0, <1>2, <2>1 DEF TypeOK
  <2>3. TypeOK'
    <3>1. draft_pending' \in BOOLEAN /\ doubt' \in BOOLEAN
      BY <2>1, Zenon
    <3>2. last_draft_len' \in 0..n_max' /\ n_max' \in Nat
      BY <1>0, <1>1, <2>1 DEF TypeOK
    <3> QED  BY <1>0, <1>1, <1>3, <2>1, <2>2, <3>1, <3>2, NoDraftType, Zenon DEF TypeOK
  <2>4. CallerInStep'
    BY <2>1 DEF CallerInStep
  <2>5. HandInv'
    <3>1. \A i \in DOMAIN accepted' : accepted'[i] <= drafted'.id
      BY <1>0, <1>1, <1>2, <2>2 DEF HandInv
    <3> QED  BY <1>1, <2>1, <3>1 DEF HandInv
  <2> QED  BY <1>3, <2>3, <2>4, <2>5 DEF IInv
<1>5. CASE AcceptThrows(n)
  <2>1. UNCHANGED <<draft_pending, last_draft_len, in_hand, doubt, accepted>>
    BY <1>5 DEF AcceptThrows, wrapper_vars
  <2> QED
    BY <1>0, <1>1, <1>3, <2>1 DEF IInv, TypeOK, CallerInStep, HandInv
<1> QED  BY <1>4, <1>5

\* Every step preserves the invariant.
LEMMA NextInv == IInv /\ [Next]_vars => IInv'
<1> SUFFICES ASSUME IInv, [Next]_vars PROVE IInv'
  OBVIOUS
<1>1. CASE UNCHANGED vars
  BY <1>1 DEF IInv, TypeOK, CallerInStep, ToldOfLastDraft, HandInv, vars
<1>2. ASSUME NEW p \in Params, New(p) PROVE IInv'
  BY <1>2, NewInv
<1>3. CASE Begin \/ BeginThrows
  BY <1>3, BeginInv
<1>4. ASSUME NEW n_past \in {-1, 0}, NEW len \in Lengths,
             Draft(n_past, len) \/ DraftThrows(n_past, len)
      PROVE  IInv'
  BY <1>4, DraftInv, DraftThrowsInv
<1>5. ASSUME NEW n \in Lengths, Accept(n) \/ AcceptThrows(n) PROVE IInv'
  BY <1>5, AcceptInv
<1>6. CASE \/ \E compatible \in BOOLEAN : Process(compatible)
           \/ \E n_past \in {-1, 0} : DraftRefused(n_past)
           \/ \E n \in Lengths : AcceptRefused(n)
           \/ Drop
  BY <1>6, RefusedInv
<1> QED  BY <1>1, <1>2, <1>3, <1>4, <1>5, <1>6 DEF Next

\* The inductive invariant of the draft/accept protocol.
THEOREM MtpInvariant == Spec => []IInv
  BY InitIInv, NextInv, PTL DEF Spec

\* draft, accept and begin: what the results tell the caller is what the wrapper
\* has, whatever threw.
THEOREM CallerStaysInStep == Spec => []CallerInStep
  BY MtpInvariant, PTL DEF IInv

\* accept: llama.cpp is only told of the draft it made last and the caller has seen.
THEOREM OnlyLastDraftIsTold == Spec => []ToldOfLastDraft
  BY MtpInvariant, PTL DEF IInv

\* accept and draft: an accept that returns Ok is about a draft newer than all that
\* were accepted before, so each is accepted at most once; and none is drafted over.
THEOREM DraftsSettledOnce == Spec => SettledOnce
<1>1. IInv /\ [Next]_vars =>
        [/\ accepted' # accepted =>
              \A i \in DOMAIN accepted : accepted[i] < accepted'[Len(accepted')]
         /\ drafted' # drafted => in_hand = NoDraft \/ doubt]_vars
  <2> SUFFICES ASSUME IInv, Next
               PROVE  /\ accepted' # accepted =>
                           \A i \in DOMAIN accepted : accepted[i] < accepted'[Len(accepted')]
                      /\ drafted' # drafted => in_hand = NoDraft \/ doubt
    OBVIOUS
  <2>1. accepted' # accepted => draft_pending /\ accepted' = Append(accepted, drafted.id)
    BY DEF Next, New, Begin, BeginThrows, Process, DraftRefused, Draft, DraftThrows,
           AcceptRefused, Accept, AcceptThrows, Drop, accept_ok, caller_vars
  <2>2. ASSUME accepted' = Append(accepted, drafted.id)
        PROVE  accepted'[Len(accepted')] = drafted.id
    BY <2>2 DEF IInv, TypeOK, DraftType
  <2>3. drafted' # drafted => ~draft_pending
    BY DEF Next, New, Begin, BeginThrows, Process, DraftRefused, Draft, DraftThrows,
           CanDraft, AcceptRefused, Accept, AcceptThrows, Drop, wrapper_vars
  <2> QED
    BY <2>1, <2>2, <2>3 DEF IInv, CallerInStep, HandInv, TypeOK
<1> QED  BY <1>1, MtpInvariant, PTL DEF Spec, SettledOnce

-----------------------------------------------------------------------------
(* The candidates                                                          *)

Token == Nat \ {NoToken}

\* The vector's memory holds what the last sampler left, in front.
ArrayInv ==
  /\ cells \in Seq(Token)
  /\ left.data \in Seq(Token) /\ Len(left.data) <= Len(cells)
  /\ \A i \in 1..Len(left.data) : cells[i] = left.data[i]
  /\ array = [len |-> Len(left.data), sorted |-> left.sorted, selected |-> selection(left)]
  /\ sampled = -1 => left.data = <<>>

\* What a sampler leaves of some candidates is not more than they were.
LEMMA LeftFacts ==
  ASSUME ArrayInv, NEW selects \in BOOLEAN, NEW r \in Left(selects)
  PROVE  /\ r.data \in Seq(Token) /\ Len(r.data) <= Len(cells)
         /\ selects => IF r.data = <<>> THEN r.selected = -1
                       ELSE r.selected \in 0..(Len(r.data) - 1)
<1>1. PICK data : data = Contents(cells, array.len)
  OBVIOUS
<1>2. PICK n \in Nat : n = Len(left.data) /\ n = array.len /\ n <= Len(cells)
  BY DEF ArrayInv
<1>3. data = [i \in 1..n |-> cells[i]] /\ \A i \in 1..n : cells[i] \in Token
  BY <1>1, <1>2 DEF Contents, ArrayInv
<1>4. data \in Seq(Token) /\ Len(data) = n
  BY <1>3
<1>5. r \in Sampled(data, array.sorted, array.selected, selects)
  BY <1>1 DEF Left
<1>6. CASE selects
  <2>1. PICK k \in IF data = <<>> THEN {-1} ELSE 0..(Len(data) - 1) :
          r = [data |-> data, sorted |-> array.sorted, selected |-> k]
    BY <1>5, <1>6 DEF Sampled
  <2>2. r.data = data /\ r.selected = k
    BY <2>1
  <2>. QED BY <1>2, <1>4, <2>1, <2>2
<1>7. CASE ~selects
  <2>1. PICK d \in Filtered(data), s \in BOOLEAN :
          r = [data |-> d, sorted |-> s, selected |-> array.selected]
    BY <1>5, <1>7 DEF Sampled
  <2>2. PICK m \in 0..Len(data) : d \in [1..m -> {data[i] : i \in DOMAIN data}]
    BY <2>1 DEF Filtered
  <2>3. {data[i] : i \in DOMAIN data} \subseteq Token
    BY <1>4
  <2>4. d \in [1..m -> Token] /\ m \in Nat /\ m <= n
    BY <1>2, <1>4, <2>2, <2>3
  <2>5. d \in Seq(Token) /\ Len(d) = m
    BY <2>4
  <2>. QED BY <1>2, <1>7, <2>1, <2>4, <2>5
<1>. QED BY <1>6, <1>7

\* Whether it is left in place or moved, the vector has it afterwards.
LEMMA ModifyFacts ==
  ASSUME ArrayInv, NEW r, NEW moved \in BOOLEAN, Modify(r, moved),
         r.data \in Seq(Token)
  PROVE  /\ cells' \in Seq(Token) /\ left' = r /\ Len(r.data) <= Len(cells')
         /\ \A i \in 1..Len(r.data) : cells'[i] = r.data[i]
         /\ array' = [len |-> Len(r.data), sorted |-> r.sorted, selected |-> selection(r)]
<1>1. PICK d : d = r.data /\ d \in Seq(Token)
  OBVIOUS
<1>2. /\ Len(d) \in Nat /\ Len(d) <= Len(cells) /\ Len(cells) \in Nat
      /\ cells' = [i \in DOMAIN cells |-> IF i <= Len(d) THEN d[i] ELSE cells[i]]
      /\ DOMAIN cells = 1..Len(cells)
  BY <1>1 DEF Modify, modified, ArrayInv
<1>3. \A i \in 1..Len(cells) : (IF i <= Len(d) THEN d[i] ELSE cells[i]) \in Token
  BY <1>1, <1>2 DEF ArrayInv
<1>4. cells' \in Seq(Token) /\ Len(cells') = Len(cells)
  BY <1>2, <1>3
<1>5. \A i \in 1..Len(d) : cells'[i] = d[i]
  BY <1>2
<1>. QED BY <1>1, <1>2, <1>4, <1>5 DEF Modify

LEMMA SelectedToken ==
  ASSUME ArrayInv
  PROVE  selected_token(cells, array) =
           IF left.selected \in 0..Len(left.data) - 1 THEN left.data[left.selected + 1] ELSE NoToken
<1>1. PICK n \in Nat : n = Len(left.data)
  BY DEF ArrayInv
<1>2. array.len = n /\ array.selected = selection(left)
  BY <1>1 DEF ArrayInv
<1>3. CASE left.selected \in 0..(n - 1)
  <2>1. array.selected = left.selected /\ left.selected + 1 \in 1..n
    BY <1>1, <1>2, <1>3 DEF selection
  <2>. QED BY <1>1, <1>2, <1>3, <2>1 DEF selected_token, ArrayInv
<1>4. CASE left.selected \notin 0..(n - 1)
  <2>1. array.selected = -1
    BY <1>1, <1>2, <1>4 DEF selection
  <2>. QED BY <1>1, <1>2, <1>4, <2>1 DEF selected_token
<1>. QED BY <1>1, <1>3, <1>4

LEMMA NextArrayInv == ArrayInv /\ [ArrayNext]_arrayVars => ArrayInv'
<1> SUFFICES ASSUME ArrayInv, [ArrayNext]_arrayVars PROVE ArrayInv'
  OBVIOUS
<1>1. ASSUME NEW selects \in BOOLEAN, NEW r \in Left(selects), NEW moved \in BOOLEAN,
             Modify(r, moved), sampled' = -1 => r.data = <<>>
      PROVE  ArrayInv'
  <2>1. r.data \in Seq(Token)
    BY LeftFacts
  <2>. QED BY <1>1, <2>1, ModifyFacts DEF ArrayInv, selection
<1>2. ASSUME NEW selects \in BOOLEAN, ApplySampler(selects) PROVE ArrayInv'
  <2>1. PICK r \in Left(selects), moved \in BOOLEAN : Modify(r, moved)
    BY <1>2 DEF ApplySampler
  <2>2. sampled' # -1
    BY <1>2 DEF ApplySampler, NoToken
  <2>. QED BY <1>1, <2>1, <2>2
<1>3. CASE SampleToken
  <2>1. PICK r \in Left(TRUE), moved \in BOOLEAN : Modify(r, moved)
    BY <1>3 DEF SampleToken
  <2>2. ASSUME sampled' = -1 PROVE r.data = <<>>
    <3>. SUFFICES ASSUME r.data # <<>> PROVE FALSE
      OBVIOUS
    <3>1. r.data \in Seq(Token) /\ r.selected \in 0..(Len(r.data) - 1)
      BY LeftFacts
    <3>2. /\ \A i \in 1..Len(r.data) : cells'[i] = r.data[i]
          /\ array'.len = Len(r.data) /\ array'.selected = selection(r)
      BY <2>1, <3>1, ModifyFacts
    <3>3. array'.selected = r.selected
      BY <3>1, <3>2 DEF selection
    <3>4. r.selected + 1 \in 1..Len(r.data) /\ r.data[r.selected + 1] \in Token
      BY <3>1
    <3>5. selected_token(cells', array') = r.data[r.selected + 1]
      BY <3>1, <3>2, <3>3, <3>4 DEF selected_token
    <3>6. sampled' = r.data[r.selected + 1]
      BY <1>3, <3>4, <3>5 DEF SampleToken, Token
    <3>. QED BY <2>2, <3>4, <3>6 DEF Token
  <2>. QED BY <1>1, <2>1, <2>2
<1>4. CASE UNCHANGED arrayVars
  BY <1>4 DEF ArrayInv, arrayVars, selection
<1>. QED BY <1>2, <1>3, <1>4 DEF ArrayNext

\* modify_as_c_llama_token_data_array, apply_sampler, sample_token: the caller's array is
\* the one the last sampler left, however it shortens, reorders or moves it, a selection
\* is the candidate the sampler chose, and sample_token panics only without candidates.
THEOREM ArrayIsAsLeft == ArraySpec => []ArrayAsLeft
<1>1. ArrayInit => ArrayInv
  <2>. SUFFICES ASSUME ArrayInit PROVE ArrayInv
    OBVIOUS
  <2>1. PICK n \in 0..MaxCandidates : /\ cells = [i \in 1..n |-> i]
                                      /\ array = [len |-> n, sorted |-> FALSE, selected |-> -1]
    BY DEF ArrayInit
  <2>2. n \in Nat
    BY CandidatesAssumption
  <2>3. /\ cells \in Seq(Token) /\ Len(cells) = n
        /\ \A i \in 1..n : cells[i] = i
    BY <2>1, <2>2 DEF Token, NoToken
  <2>4. left = [data |-> cells, sorted |-> FALSE, selected |-> -1]
    BY DEF ArrayInit
  <2>5. left.data = cells /\ left.selected = -1 /\ left.sorted = FALSE
    BY <2>4
  <2>6. selection(left) = -1
    BY <2>3, <2>5 DEF selection
  <2>7. sampled # -1
    BY DEF ArrayInit, NoToken
  <2>8. array = [len |-> Len(left.data), sorted |-> left.sorted, selected |-> selection(left)]
    <3>1. Len(left.data) = n
      BY <2>3, <2>5
    <3>. QED BY <2>1, <2>5, <2>6, <3>1
  <2>9. left.data \in Seq(Token) /\ Len(left.data) <= Len(cells)
    BY <2>2, <2>3, <2>5
  <2>10. \A i \in 1..Len(left.data) : cells[i] = left.data[i]
    BY <2>5
  <2>. QED BY <2>3, <2>7, <2>8, <2>9, <2>10 DEF ArrayInv
<1>2. ArrayInv => ArrayAsLeft
  <2>. SUFFICES ASSUME ArrayInv PROVE ArrayAsLeft
    OBVIOUS
  <2>1. PICK n \in Nat : n = Len(left.data) /\ array.len = n /\ array.sorted = left.sorted
                         /\ array.selected = selection(left)
    BY DEF ArrayInv
  <2>2. Contents(cells, array.len) = left.data
    <3>1. left.data \in Seq(Token)
      BY DEF ArrayInv
    <3>2. left.data = [i \in 1..n |-> left.data[i]]
      BY <2>1, <3>1
    <3>3. Contents(cells, array.len) = [i \in 1..n |-> cells[i]]
      BY <2>1 DEF Contents
    <3>. QED BY <2>1, <3>2, <3>3 DEF ArrayInv
  <2>3. array.selected # -1 => array.selected \in 0..(array.len - 1)
    BY <2>1 DEF selection
  <2>. QED BY <2>1, <2>2, <2>3, SelectedToken DEF ArrayAsLeft, ArrayInv
<1>. QED BY <1>1, <1>2, NextArrayInv, PTL DEF ArraySpec

-----------------------------------------------------------------------------
(* The sums of pieces and the decoder                                       *)

(***************************************************************************)
(* joined and decode_to_string are recursive functions, which TLA+ defines *)
(* by CHOOSE: here is that there is one for any sequence, so that it has   *)
(* the value that its equation says.                                       *)
(***************************************************************************)

\* f[k] joins the first k pieces.
JoinsUpTo(f, n, pieces) ==
  f = [k \in 0..n |-> IF k = 0 THEN <<>> ELSE f[k - 1] \o pieces[k]]

LEMMA JoinsOneMore ==
  ASSUME NEW n \in Nat, NEW f, NEW pieces, JoinsUpTo(f, n, pieces)
  PROVE  \E g : JoinsUpTo(g, n + 1, pieces)
<1>1. PICK last : last = f[n] \o pieces[n + 1]
  OBVIOUS
<1>2. PICK g : g = [k \in 0..(n + 1) |-> IF k = n + 1 THEN last ELSE f[k]]
  OBVIOUS
<1>3. ASSUME NEW k \in 0..(n + 1)
      PROVE  g[k] = IF k = 0 THEN <<>> ELSE g[k - 1] \o pieces[k]
  <2>1. CASE k = n + 1
    <3>1. k # 0 /\ k - 1 = n /\ n \in 0..(n + 1) /\ n # n + 1
      BY <2>1
    <3>2. g[k] = last /\ g[k - 1] = f[n]
      BY <1>2, <2>1, <3>1
    <3>. QED BY <1>1, <2>1, <3>1, <3>2, Zenon
  <2>2. CASE k # n + 1
    <3>1. k \in 0..n /\ g[k] = f[k] /\ (k # 0 => g[k - 1] = f[k - 1])
      BY <1>2, <2>2
    <3>2. f[k] = IF k = 0 THEN <<>> ELSE f[k - 1] \o pieces[k]
      BY <3>1, Zenon DEF JoinsUpTo
    <3>. QED BY <3>1, <3>2, Zenon
  <2>. QED BY <2>1, <2>2
<1>4. JoinsUpTo(g, n + 1, pieces)
  <2>1. g = [k \in 0..(n + 1) |-> g[k]]
    BY <1>2
  <2>. QED BY <1>3, <2>1, Zenon DEF JoinsUpTo
<1>. QED BY <1>4

LEMMA JoinsExists ==
  ASSUME NEW pieces, NEW n \in Nat
  PROVE  \E f : JoinsUpTo(f, n, pieces)
<1>1. PICK T \in SUBSET Nat : \A m \in Nat : m \in T <=> \E f : JoinsUpTo(f, m, pieces)
  <2>1. {m \in Nat : \E f : JoinsUpTo(f, m, pieces)} \in SUBSET Nat
    OBVIOUS
  <2>. QED BY <2>1
<1>2. 0 \in T
  <2>1. PICK f : f = [k \in 0..0 |-> <<>>]
    OBVIOUS
  <2>2. JoinsUpTo(f, 0, pieces)
    <3>1. \A k \in 0..0 : k = 0
      OBVIOUS
    <3>. QED BY <2>1, <3>1 DEF JoinsUpTo
  <2>. QED BY <1>1, <2>2
<1>3. ASSUME NEW m \in T PROVE m + 1 \in T
  <2>1. PICK f : JoinsUpTo(f, m, pieces)
    BY <1>1
  <2>2. \E g : JoinsUpTo(g, m + 1, pieces)
    BY <2>1, JoinsOneMore
  <2>. QED BY <1>1, <2>2
<1>4. T = Nat
  BY <1>2, <1>3, Induction
<1>. QED BY <1>1, <1>4

\* f[k] is the decoder after k bytes.
DecodesUpTo(f, n, held, bytes, room) ==
  f = [k \in 0..n |->
         IF k = 0 THEN [held |-> held, full |-> FALSE, room |-> room, out |-> <<>>]
         ELSE read(f[k - 1], bytes[k], needed(bytes, k))]

LEMMA DecodesOneMore ==
  ASSUME NEW n \in Nat, NEW f, NEW held, NEW bytes, NEW room, DecodesUpTo(f, n, held, bytes, room)
  PROVE  \E g : DecodesUpTo(g, n + 1, held, bytes, room)
<1>1. PICK last : last = read(f[n], bytes[n + 1], needed(bytes, n + 1))
  OBVIOUS
<1>2. PICK g : g = [k \in 0..(n + 1) |-> IF k = n + 1 THEN last ELSE f[k]]
  OBVIOUS
<1>3. ASSUME NEW k \in 0..(n + 1)
      PROVE  g[k] =
               IF k = 0 THEN [held |-> held, full |-> FALSE, room |-> room, out |-> <<>>]
               ELSE read(g[k - 1], bytes[k], needed(bytes, k))
  <2>1. CASE k = n + 1
    <3>1. k # 0 /\ k - 1 = n /\ n \in 0..(n + 1) /\ n # n + 1
      BY <2>1
    <3>2. g[k] = last /\ g[k - 1] = f[n]
      BY <1>2, <2>1, <3>1
    <3>. QED BY <1>1, <2>1, <3>1, <3>2, Zenon
  <2>2. CASE k # n + 1
    <3>1. k \in 0..n /\ g[k] = f[k] /\ (k # 0 => g[k - 1] = f[k - 1])
      BY <1>2, <2>2
    <3>2. f[k] =
            IF k = 0 THEN [held |-> held, full |-> FALSE, room |-> room, out |-> <<>>]
            ELSE read(f[k - 1], bytes[k], needed(bytes, k))
      BY <3>1, Zenon DEF DecodesUpTo
    <3>. QED BY <3>1, <3>2, Zenon
  <2>. QED BY <2>1, <2>2
<1>4. DecodesUpTo(g, n + 1, held, bytes, room)
  <2>1. g = [k \in 0..(n + 1) |-> g[k]]
    BY <1>2
  <2>. QED BY <1>3, <2>1, Zenon DEF DecodesUpTo
<1>. QED BY <1>4

LEMMA DecodesExists ==
  ASSUME NEW held, NEW bytes, NEW room, NEW n \in Nat
  PROVE  \E f : DecodesUpTo(f, n, held, bytes, room)
<1>1. PICK T \in SUBSET Nat : \A m \in Nat : m \in T <=> \E f : DecodesUpTo(f, m, held, bytes, room)
  <2>1. {m \in Nat : \E f : DecodesUpTo(f, m, held, bytes, room)} \in SUBSET Nat
    OBVIOUS
  <2>. QED BY <2>1
<1>2. 0 \in T
  <2>1. PICK f : f = [k \in 0..0 |-> [held |-> held, full |-> FALSE, room |-> room, out |-> <<>>]]
    OBVIOUS
  <2>2. DecodesUpTo(f, 0, held, bytes, room)
    <3>1. \A k \in 0..0 : k = 0
      OBVIOUS
    <3>. QED BY <2>1, <3>1 DEF DecodesUpTo
  <2>. QED BY <1>1, <2>2
<1>3. ASSUME NEW m \in T PROVE m + 1 \in T
  <2>1. PICK f : DecodesUpTo(f, m, held, bytes, room)
    BY <1>1
  <2>2. \E g : DecodesUpTo(g, m + 1, held, bytes, room)
    BY <2>1, DecodesOneMore
  <2>. QED BY <1>1, <2>2
<1>4. T = Nat
  BY <1>2, <1>3, Induction
<1>. QED BY <1>1, <1>4

LEMMA JoinedIs ==
  ASSUME NEW pieces, Len(pieces) \in Nat
  PROVE  \E f : JoinsUpTo(f, Len(pieces), pieces) /\ joined(pieces) = f[Len(pieces)]
<1>1. PICK f : JoinsUpTo(f, Len(pieces), pieces)
  BY JoinsExists
<1>2. PICK g : g = CHOOSE h : JoinsUpTo(h, Len(pieces), pieces)
  OBVIOUS
<1>3. JoinsUpTo(g, Len(pieces), pieces)
  BY <1>1, <1>2
<1>4. joined(pieces) = g[Len(pieces)]
  BY <1>2 DEF joined, JoinsUpTo
<1>. QED BY <1>3, <1>4

\* s has the first n entries of t from m on; and these are in S.
Has(s, m, t, n) == \A k \in 1..n : s[m + k] = t[k]
AllIn(t, n, S) == \A k \in 1..n : t[k] \in S

StepsUpTo(f, n, pieces) ==
  f[0] = <<>> /\ \A k \in 1..n : f[k] = f[k - 1] \o pieces[k]

LEMMA JoinsSteps ==
  ASSUME NEW n \in Nat, NEW f, NEW pieces, JoinsUpTo(f, n, pieces)
  PROVE  StepsUpTo(f, n, pieces)
<1>1. \A k \in 0..n : f[k] = IF k = 0 THEN <<>> ELSE f[k - 1] \o pieces[k]
  BY Zenon DEF JoinsUpTo
<1>2. 0 \in 0..n /\ \A k \in 1..n : k \in 0..n /\ k # 0
  OBVIOUS
<1>. QED BY <1>1, <1>2, Zenon DEF StepsUpTo

-----------------------------------------------------------------------------
(* A decoder that has room                                                  *)

\* The bytes without null, and the characters that they decode to.
Bytes == {"a", "l", "t"}
Characters == {"a", "l", "t", "n", "x", "r"}

\* The room that a byte takes up.
cost(d, b) ==
  IF b = "t" THEN IF d.held THEN 2 ELSE 3
  ELSE (IF d.held THEN 3 ELSE 0) + (IF b = "l" THEN 0 ELSE 1)

\* A decoder that was not stopped.
Decoder(d) == d \in [held : BOOLEAN, full : {FALSE}, room : Nat, out : Seq(Characters)]

\* Two decoders that go on alike, the first after a text.
Alike(d, e, o) == d.held = e.held /\ d.out = o \o e.out

\* There is the room without which the byte is not read, after the replacement of
\* one that was held back.
Needs == {1, 2, 4}
Fits(d, b, need) ==
  d.room >= cost(d, b) /\ d.room >= need + (IF d.held /\ b # "t" THEN 3 ELSE 0)

LEMMA NeededIs ==
  ASSUME NEW bytes, NEW n
  PROVE  needed(bytes, n) \in Needs
  BY Zenon DEF needed, Needs

LEMMA DecoderParts ==
  ASSUME NEW d, Decoder(d)
  PROVE  /\ d.held \in BOOLEAN /\ d.full = FALSE /\ d.room \in Nat /\ d.out \in Seq(Characters)
  BY DEF Decoder


\* A character for which there is room is added.
LEMMA EmitRoomy ==
  ASSUME NEW d, Decoder(d), NEW c \in Characters, d.room >= width(c),
         NEW need \in Needs, d.room >= need
  PROVE  /\ Decoder(emit(d, c, need))
         /\ emit(d, c, need).held = FALSE /\ emit(d, c, need).full = FALSE
         /\ emit(d, c, need).room = d.room - width(c)
         /\ emit(d, c, need).out = Append(d.out, c)
<1>. d.full = FALSE /\ d.room \in Nat /\ d.out \in Seq(Characters)
  BY DecoderParts
<1>1. width(c) \in Nat
  BY DEF width
<1>2. emit(d, c, need) = [held |-> FALSE, full |-> FALSE, room |-> d.room - width(c), out |-> Append(d.out, c)]
  BY <1>1 DEF emit, Needs
<1>3. Append(d.out, c) \in Seq(Characters)
  BY DEF Decoder
<1>. QED BY <1>1, <1>2, <1>3 DEF Decoder

\* A byte for which there is room is held back.
LEMMA HoldRoomy ==
  ASSUME NEW d, Decoder(d), NEW need \in Needs, d.room >= need
  PROVE  /\ Decoder(hold(d, need))
         /\ hold(d, need).held = TRUE
         /\ hold(d, need).room = d.room
         /\ hold(d, need).out = d.out
<1>. d.full = FALSE /\ d.room \in Nat
  BY DecoderParts
<1>1. d.full = FALSE /\ ~(d.room < need)
  BY DEF Needs
<1>2. hold(d, need) = [d EXCEPT !.held = TRUE]
  BY <1>1, Zenon DEF hold
<1>3. PICK e : e = [d EXCEPT !.held = TRUE]
  OBVIOUS
<1>4. Decoder(e) /\ e.held = TRUE /\ e.room = d.room /\ e.out = d.out
  BY <1>3 DEF Decoder
<1>. QED BY <1>2, <1>3, <1>4, Zenon

\* A decoder that has the room reads a byte and has only as much less.
LEMMA ReadRoomy ==
  ASSUME NEW d, Decoder(d), NEW b \in Bytes, NEW need \in Needs, Fits(d, b, need)
  PROVE  /\ Decoder(read(d, b, need))
         /\ read(d, b, need).held = (b = "l")
         /\ read(d, b, need).room = d.room - cost(d, b)
<1>. d.held \in BOOLEAN /\ d.full = FALSE /\ d.room \in Nat /\ d.out \in Seq(Characters)
  BY DecoderParts
<1>0. width("x") = 2 /\ width("r") = 3 /\ width("a") = 1 /\ need \in Nat /\ 4 \in Needs
  BY DEF width, Needs
<1>1. CASE b = "t" /\ d.held
  <2>1. cost(d, b) = 2 /\ read(d, b, need) = emit(d, "x", need)
    BY <1>1 DEF cost, read
  <2>2. "x" \in Characters /\ d.room >= width("x") /\ d.room >= need /\ (b = "l") = FALSE
    BY <1>0, <1>1, <2>1 DEF Fits, Characters
  <2>. QED BY <1>0, <2>1, <2>2, EmitRoomy, Zenon
<1>2. CASE b = "t" /\ ~d.held
  <2>1. cost(d, b) = 3 /\ read(d, b, need) = emit(d, "r", need)
    BY <1>2 DEF cost, read
  <2>2. "r" \in Characters /\ d.room >= width("r") /\ d.room >= need /\ (b = "l") = FALSE
    BY <1>0, <1>2, <2>1 DEF Fits, Characters
  <2>. QED BY <1>0, <2>1, <2>2, EmitRoomy, Zenon
<1>3. CASE b = "l" /\ d.held
  <2>1. cost(d, b) = 3 /\ d.room >= 4 /\ d.room - 3 >= need
    BY <1>3 DEF cost, Fits, Needs
  <2>2. PICK e : e = emit(d, "r", 4)
    OBVIOUS
  <2>3. Decoder(e) /\ e.room = d.room - 3
    <3>1. "r" \in Characters /\ d.room >= width("r") /\ d.room >= 4
      BY <1>0, <2>1 DEF Characters
    <3>. QED BY <1>0, <2>2, <3>1, EmitRoomy, Zenon
  <2>4. read(d, b, need) = hold(e, need)
    BY <1>3, <2>2 DEF read
  <2>5. e.room >= need
    BY <2>1, <2>3
  <2>6. Decoder(hold(e, need)) /\ hold(e, need).held = TRUE /\ hold(e, need).room = e.room
    BY <2>3, <2>5, HoldRoomy
  <2>. QED BY <1>3, <2>1, <2>3, <2>4, <2>6
<1>4. CASE b = "l" /\ ~d.held
  <2>1. cost(d, b) = 0 /\ d.room >= need
    BY <1>0, <1>4 DEF cost, Fits
  <2>2. read(d, b, need) = hold(d, need)
    BY <1>4 DEF read
  <2>3. Decoder(hold(d, need)) /\ hold(d, need).held = TRUE /\ hold(d, need).room = d.room
    BY <2>1, HoldRoomy
  <2>4. d.room = d.room - 0 /\ (b = "l") = TRUE
    BY <1>4
  <2>. QED BY <2>1, <2>2, <2>3, <2>4, Zenon
<1>5. CASE b = "a" /\ d.held
  <2>1. cost(d, b) = 4 /\ d.room >= 4 /\ d.room - 3 >= need
    BY <1>5 DEF cost, Fits, Needs
  <2>2. PICK e : e = emit(d, "r", 4)
    OBVIOUS
  <2>3. Decoder(e) /\ e.full = FALSE /\ e.room = d.room - 3
    <3>1. "r" \in Characters /\ d.room >= width("r") /\ d.room >= 4
      BY <1>0, <2>1 DEF Characters
    <3>. QED BY <1>0, <2>2, <3>1, EmitRoomy, Zenon
  <2>4. read(d, b, need) = emit(e, b, need)
    BY <1>5, <2>2, <2>3 DEF read
  <2>5. e.room >= width(b) /\ e.room >= need
    BY <1>0, <1>5, <2>1, <2>3
  <2>6. Decoder(read(d, b, need)) /\ read(d, b, need).held = FALSE /\ read(d, b, need).room = e.room - 1
    <3>1. b \in Characters /\ width(b) = 1
      BY <1>0, <1>5 DEF Characters
    <3>. QED BY <2>3, <2>4, <2>5, <3>1, EmitRoomy, Zenon
  <2>7. e.room - 1 = d.room - 4 /\ (b = "l") = FALSE
    BY <1>5, <2>3
  <2>. QED BY <2>1, <2>6, <2>7, Zenon
<1>6. CASE b = "a" /\ ~d.held
  <2>1. cost(d, b) = 1
    BY <1>6 DEF cost
  <2>2. read(d, b, need) = emit(d, b, need)
    BY <1>6 DEF read
  <2>3. b \in Characters /\ width(b) = 1 /\ d.room >= width(b) /\ d.room >= need
        /\ (b = "l") = FALSE
    BY <1>0, <1>6, <2>1 DEF Fits, Characters
  <2>. QED BY <2>1, <2>2, <2>3, EmitRoomy, Zenon
<1>. QED BY <1>1, <1>2, <1>3, <1>4, <1>5, <1>6 DEF Bytes

LEMMA EmitAlike ==
  ASSUME NEW d, NEW e, NEW o, Decoder(d), Decoder(e), o \in Seq(Characters), Alike(d, e, o),
         NEW c \in Characters, d.room >= width(c), e.room >= width(c),
         NEW need \in Needs, NEW want \in Needs, d.room >= need, e.room >= want
  PROVE  Alike(emit(d, c, need), emit(e, c, want), o)
<1>1. /\ emit(d, c, need).out = Append(d.out, c) /\ emit(e, c, want).out = Append(e.out, c)
      /\ emit(d, c, need).held = FALSE /\ emit(e, c, want).held = FALSE
  BY EmitRoomy
<1>2. Append(o \o e.out, c) = o \o Append(e.out, c)
  <2>1. PICK u \in Seq(Characters) : u = e.out
    BY DecoderParts
  <2>2. Append(o \o u, c) = o \o Append(u, c)
    <3>1. /\ o \o u \in Seq(Characters) /\ Len(o \o u) = Len(o) + Len(u)
          /\ Append(u, c) \in Seq(Characters)
      BY ConcatProperties
    <3>. QED BY <3>1
  <2>. QED BY <2>1, <2>2, Zenon
<1>3. d.out = o \o e.out
  BY DEF Alike
<1>4. emit(d, c, need).held \in BOOLEAN /\ emit(e, c, want).held \in BOOLEAN
  BY EmitRoomy DEF Decoder
<1>. QED BY <1>1, <1>2, <1>3, <1>4 DEF Alike

LEMMA HoldAlike ==
  ASSUME NEW d, NEW e, NEW o, Decoder(d), Decoder(e), Alike(d, e, o),
         NEW need \in Needs, NEW want \in Needs, d.room >= need, e.room >= want
  PROVE  Alike(hold(d, need), hold(e, want), o)
<1>1. /\ hold(d, need).held = TRUE /\ hold(d, need).out = d.out
      /\ hold(e, want).held = TRUE /\ hold(e, want).out = e.out
  BY HoldRoomy, Zenon
<1>. QED BY <1>1, Zenon DEF Alike

\* Two decoders that have the room go on alike.
LEMMA ReadAlike ==
  ASSUME NEW d, NEW e, NEW o, Decoder(d), Decoder(e), o \in Seq(Characters), Alike(d, e, o),
         NEW b \in Bytes, NEW need \in Needs, NEW want \in Needs,
         Fits(d, b, need), Fits(e, b, want)
  PROVE  Alike(read(d, b, need), read(e, b, want), o)
<1>. /\ d.held \in BOOLEAN /\ d.full = FALSE /\ d.room \in Nat
     /\ e.held \in BOOLEAN /\ e.full = FALSE /\ e.room \in Nat
  BY DecoderParts
<1>0. /\ width("x") = 2 /\ width("r") = 3 /\ width("a") = 1
      /\ need \in Nat /\ need >= 1 /\ want \in Nat /\ want >= 1 /\ 4 \in Needs
  BY DEF width, Needs
<1>1. d.held = e.held
  BY Zenon DEF Alike
<1>2. ASSUME d.held = TRUE, b # "t"
      PROVE  /\ Decoder(emit(d, "r", 4)) /\ Decoder(emit(e, "r", 4))
             /\ emit(d, "r", 4).full = FALSE /\ emit(e, "r", 4).full = FALSE
             /\ emit(d, "r", 4).room = d.room - 3 /\ emit(e, "r", 4).room = e.room - 3
             /\ Alike(emit(d, "r", 4), emit(e, "r", 4), o)
  <2>1. d.room >= 4 /\ e.room >= 4
    BY <1>0, <1>1, <1>2 DEF Fits
  <2>2. "r" \in Characters /\ d.room >= width("r") /\ e.room >= width("r")
        /\ d.room >= 4 /\ e.room >= 4
    BY <1>0, <2>1 DEF Characters
  <2>. QED BY <1>0, <2>2, EmitRoomy, EmitAlike, Zenon
<1>3. CASE b = "t"
  <2>1. PICK c \in {"x", "r"} : c = IF d.held THEN "x" ELSE "r"
    OBVIOUS
  <2>2. read(d, b, need) = emit(d, c, need) /\ read(e, b, want) = emit(e, c, want)
    BY <1>1, <1>3, <2>1 DEF read
  <2>3. /\ c \in Characters /\ d.room >= width(c) /\ e.room >= width(c)
        /\ d.room >= need /\ e.room >= want
    BY <1>0, <1>1, <1>3, <2>1 DEF Characters, Fits, cost
  <2>. QED BY <2>2, <2>3, EmitAlike, Zenon
<1>4. CASE b = "l" /\ d.held = TRUE
  <2>1. b # "t"
    BY <1>4
  <2>2. PICK x : x = emit(d, "r", 4)
    OBVIOUS
  <2>3. PICK y : y = emit(e, "r", 4)
    OBVIOUS
  <2>4. /\ Decoder(x) /\ Decoder(y) /\ Alike(x, y, o) /\ x.full = FALSE /\ y.full = FALSE
        /\ x.room = d.room - 3 /\ y.room = e.room - 3
    BY <1>2, <1>4, <2>1, <2>2, <2>3, Zenon
  <2>5. d.room - 3 >= need /\ e.room - 3 >= want
    BY <1>0, <1>1, <1>4 DEF Fits
  <2>6. x.room >= need /\ y.room >= want
    BY <2>4, <2>5
  <2>7. read(d, b, need) = hold(x, need) /\ read(e, b, want) = hold(y, want)
    BY <1>1, <1>4, <2>2, <2>3 DEF read
  <2>. QED BY <2>4, <2>6, <2>7, HoldAlike, Zenon
<1>5. CASE b = "l" /\ d.held = FALSE
  <2>1. d.room >= need /\ e.room >= want
    BY <1>0, <1>1, <1>5 DEF Fits
  <2>2. read(d, b, need) = hold(d, need) /\ read(e, b, want) = hold(e, want)
    BY <1>1, <1>5 DEF read
  <2>. QED BY <2>1, <2>2, HoldAlike, Zenon
<1>6. CASE b = "a" /\ d.held = TRUE
  <2>1. b # "t"
    BY <1>6
  <2>2. /\ read(d, b, need) = emit(emit(d, "r", 4), b, need)
        /\ read(e, b, want) = emit(emit(e, "r", 4), b, want)
    BY <1>1, <1>2, <1>6, <2>1 DEF read
  <2>3. d.room >= 4 /\ e.room >= 4 /\ d.room - 3 >= need /\ e.room - 3 >= want
    BY <1>0, <1>1, <1>6 DEF cost, Fits
  <2>4. /\ b \in Characters /\ emit(d, "r", 4).room >= width(b) /\ emit(e, "r", 4).room >= width(b)
        /\ emit(d, "r", 4).room >= need /\ emit(e, "r", 4).room >= want
    <3>1. emit(d, "r", 4).room = d.room - 3 /\ emit(e, "r", 4).room = e.room - 3
      BY <1>2, <1>6, <2>1
    <3>2. d.room - 3 >= 1 /\ e.room - 3 >= 1
      BY <2>3
    <3>3. b \in Characters /\ width(b) = 1
      BY <1>0, <1>6 DEF Characters
    <3>. QED BY <2>3, <3>1, <3>2, <3>3
  <2>. QED BY <1>2, <1>6, <2>1, <2>2, <2>4, EmitAlike, Zenon
<1>7. CASE b = "a" /\ d.held = FALSE
  <2>1. read(d, b, need) = emit(d, b, need) /\ read(e, b, want) = emit(e, b, want)
    BY <1>1, <1>7 DEF read
  <2>2. /\ b \in Characters /\ d.room >= width(b) /\ e.room >= width(b)
        /\ d.room >= need /\ e.room >= want
    BY <1>0, <1>1, <1>7 DEF Characters, Fits, cost
  <2>. QED BY <2>1, <2>2, EmitAlike, Zenon
<1>. QED BY <1>3, <1>4, <1>5, <1>6, <1>7 DEF Bytes


Start(held, room) == [held |-> held, full |-> FALSE, room |-> room, out |-> <<>>]

LEMMA StartIs ==
  ASSUME NEW held \in BOOLEAN, NEW room \in Nat
  PROVE  /\ Decoder(Start(held, room)) /\ Start(held, room).held = held
         /\ Start(held, room).room = room /\ Start(held, room).out = <<>>
  BY DEF Start, Decoder

ReadsUpTo(f, n, held, bytes, room) ==
  f[0] = Start(held, room) /\ \A k \in 1..n : f[k] = read(f[k - 1], bytes[k], needed(bytes, k))

LEMMA DecodesSteps ==
  ASSUME NEW n \in Nat, NEW f, NEW held, NEW bytes, NEW room,
         DecodesUpTo(f, n, held, bytes, room)
  PROVE  ReadsUpTo(f, n, held, bytes, room)
<1>1. \A k \in 0..n : f[k] = IF k = 0 THEN Start(held, room) ELSE read(f[k - 1], bytes[k], needed(bytes, k))
  BY Zenon DEF DecodesUpTo, Start
<1>2. 0 \in 0..n /\ \A k \in 1..n : k \in 0..n /\ k # 0
  OBVIOUS
<1>. QED BY <1>1, <1>2, Zenon DEF ReadsUpTo

LEMMA DecodeIs ==
  ASSUME NEW held, NEW bytes, NEW room, Len(bytes) \in Nat
  PROVE  \E f : /\ ReadsUpTo(f, Len(bytes), held, bytes, room)
                /\ decode_to_string(held, bytes, room) = f[Len(bytes)]
<1>1. PICK f : DecodesUpTo(f, Len(bytes), held, bytes, room)
  BY DecodesExists
<1>2. PICK g : g = CHOOSE h : DecodesUpTo(h, Len(bytes), held, bytes, room)
  OBVIOUS
<1>3. DecodesUpTo(g, Len(bytes), held, bytes, room)
  BY <1>1, <1>2
<1>4. decode_to_string(held, bytes, room) = g[Len(bytes)]
  BY <1>2, Zenon DEF decode_to_string, DecodesUpTo
<1>. QED BY <1>3, <1>4, DecodesSteps

\* A run that has room for every byte.
Roomy(f, n, bytes) ==
  /\ Decoder(f[0])
  /\ \A k \in 1..n : /\ Decoder(f[k - 1]) /\ Fits(f[k - 1], bytes[k], needed(bytes, k))
                     /\ f[k] = read(f[k - 1], bytes[k], needed(bytes, k)) /\ Decoder(f[k])
                     /\ f[k].held = (bytes[k] = "l")

Ample(d, ahead) == Decoder(d) /\ d.room >= 3 * ahead + 3 + (IF d.held THEN 3 ELSE 0)

\* Three bytes of room for each byte to come and three more are always enough ...
LEMMA AmpleStep ==
  ASSUME NEW d, NEW ahead \in Nat, NEW b \in Bytes, NEW need \in Needs,
         Ample(d, ahead + 1)
  PROVE  Fits(d, b, need) /\ Ample(read(d, b, need), ahead)
<1>. Decoder(d) /\ d.room \in Nat /\ d.held \in BOOLEAN
  BY DecoderParts, Zenon DEF Ample
<1>0. d.room >= 3 * ahead + 6 + (IF d.held THEN 3 ELSE 0)
  BY DEF Ample
<1>1. cost(d, b) \in Nat /\ cost(d, b) <= d.room
  BY <1>0 DEF cost
<1>2. Fits(d, b, need)
  BY <1>0, <1>1 DEF Fits, Needs
<1>3. /\ Decoder(read(d, b, need)) /\ read(d, b, need).held = (b = "l")
      /\ read(d, b, need).room = d.room - cost(d, b)
  BY <1>2, ReadRoomy, Zenon
<1>4. d.room - cost(d, b) >= 3 * ahead + 3 + (IF b = "l" THEN 3 ELSE 0)
  BY <1>0 DEF cost
<1>. QED BY <1>2, <1>3, <1>4 DEF Ample

\* ... so that a decoder of any bytes is not stopped.
LEMMA AmpleRun ==
  ASSUME NEW n \in Nat, NEW f, NEW bytes, NEW room \in Nat, room >= 3 * (n + 1),
         ReadsUpTo(f, n, FALSE, bytes, room), AllIn(bytes, n, Bytes)
  PROVE  Roomy(f, n, bytes)
<1>. DEFINE Good(k) == Ample(f[k], n - k)
<1>1. Good(0)
  <2>1. f[0] = Start(FALSE, room)
    BY Zenon DEF ReadsUpTo
  <2>2. Decoder(f[0]) /\ f[0].held = FALSE /\ f[0].room = room
    BY <2>1, StartIs
  <2>. QED BY <2>2 DEF Ample
<1>2. ASSUME NEW k \in Nat, k + 1 <= n, Good(k) PROVE Good(k + 1)
  <2>1. PICK ahead \in Nat : ahead = n - (k + 1)
    BY <1>2
  <2>2. k + 1 \in 1..n /\ (k + 1) - 1 = k /\ n - k = ahead + 1
    BY <1>2, <2>1
  <2>3. f[k + 1] = read(f[k], bytes[k + 1], needed(bytes, k + 1)) /\ bytes[k + 1] \in Bytes
    BY <2>2, Zenon DEF ReadsUpTo, AllIn
  <2>4. Ample(f[k], ahead + 1)
    BY <1>2, <2>2, Zenon
  <2>. QED BY <2>1, <2>3, <2>4, NeededIs, AmpleStep, Zenon
<1>. HIDE DEF Good
<1>3. \A k \in 0..n : Good(k)
  <2>1. PICK T \in SUBSET Nat : \A k \in Nat : k \in T <=> (k <= n => Good(k))
    <3>1. {k \in Nat : k <= n => Good(k)} \in SUBSET Nat
      OBVIOUS
    <3>. QED BY <3>1
  <2>2. 0 \in T /\ \A k \in T : k + 1 \in T
    BY <1>1, <1>2, <2>1
  <2>3. T = Nat
    BY <2>2, Induction
  <2>. QED BY <2>1, <2>3
<1>4. ASSUME NEW k \in 1..n
      PROVE  /\ Decoder(f[k - 1]) /\ Fits(f[k - 1], bytes[k], needed(bytes, k))
             /\ f[k] = read(f[k - 1], bytes[k], needed(bytes, k)) /\ Decoder(f[k])
             /\ f[k].held = (bytes[k] = "l")
  <2>1. k - 1 \in 0..n /\ n - (k - 1) = (n - k) + 1 /\ n - k \in Nat
    OBVIOUS
  <2>2. f[k] = read(f[k - 1], bytes[k], needed(bytes, k)) /\ bytes[k] \in Bytes
    BY Zenon DEF ReadsUpTo, AllIn
  <2>3. Ample(f[k - 1], (n - k) + 1)
    BY <1>3, <2>1, Zenon DEF Good
  <2>4. Fits(f[k - 1], bytes[k], needed(bytes, k)) /\ Decoder(f[k - 1])
    BY <2>1, <2>2, <2>3, NeededIs, AmpleStep, Zenon DEF Ample
  <2>5. Decoder(f[k]) /\ f[k].held = (bytes[k] = "l")
    <3>1. /\ Decoder(read(f[k - 1], bytes[k], needed(bytes, k)))
          /\ read(f[k - 1], bytes[k], needed(bytes, k)).held = (bytes[k] = "l")
      BY <2>2, <2>4, NeededIs, ReadRoomy
    <3>. QED BY <2>2, <3>1
  <2>. QED BY <2>2, <2>4, <2>5
<1>5. Decoder(f[0])
  BY <1>1, Zenon DEF Good, Ample
<1>. QED BY <1>4, <1>5, Zenon DEF Roomy


\* Room for exactly the bytes that are left and the one that is held back.
Tight(d, ahead, held) ==
  Decoder(d) /\ d.held = held /\ d.room = ahead + (IF held THEN 1 ELSE 0)

\* ... but whole characters also have enough in a string of their own size ...
LEMMA TightStep ==
  ASSUME NEW d, NEW ahead \in Nat, NEW held \in BOOLEAN, NEW b \in Bytes,
         Tight(d, ahead + 1, held), b = "t" <=> held,
         b = "l" => ahead >= 1, NEW need \in Needs, need = IF b = "a" THEN 1 ELSE 2
  PROVE  Fits(d, b, need) /\ Tight(read(d, b, need), ahead, b = "l")
<1>. Decoder(d) /\ d.room \in Nat /\ d.held = held
  BY DecoderParts, Zenon DEF Tight
<1>0. d.room = ahead + 1 + (IF held THEN 1 ELSE 0)
  BY DEF Tight
<1>1. cost(d, b) \in Nat /\ cost(d, b) <= d.room
  BY <1>0 DEF cost
<1>2. Fits(d, b, need)
  BY <1>0, <1>1 DEF Fits, Bytes
<1>3. /\ Decoder(read(d, b, need)) /\ read(d, b, need).held = (b = "l")
      /\ read(d, b, need).room = d.room - cost(d, b)
  BY <1>2, ReadRoomy
<1>4. d.room - cost(d, b) = ahead + (IF b = "l" THEN 1 ELSE 0)
  BY <1>0 DEF cost, Bytes
<1>. QED BY <1>2, <1>3, <1>4 DEF Tight

\* The byte before is the first one of a character.
After(bytes, k) == k > 0 /\ bytes[k] = "l"

\* ... so that a decoder of them is not stopped either.
LEMMA TightRun ==
  ASSUME NEW n \in Nat, NEW f, NEW bytes \in Seq(Bytes), Len(bytes) = n,
         Utf8(bytes), ReadsUpTo(f, n, FALSE, bytes, n)
  PROVE  Roomy(f, n, bytes)
<1>0. /\ \A k \in 1..n : bytes[k] \in Bytes
      /\ \A k \in 0..(n - 1) : /\ bytes[k + 1] = "t" <=> After(bytes, k)
                               /\ bytes[k + 1] = "l" => k + 1 < n
                               /\ needed(bytes, k + 1) = IF bytes[k + 1] = "a" THEN 1 ELSE 2
  <2>1. DOMAIN bytes = 1..n
    OBVIOUS
  <2>2. ASSUME NEW k \in 0..(n - 1)
        PROVE  /\ bytes[k + 1] = "t" <=> After(bytes, k)
               /\ bytes[k + 1] = "l" => k + 1 < n
               /\ needed(bytes, k + 1) = IF bytes[k + 1] = "a" THEN 1 ELSE 2
    <3>1. k + 1 \in DOMAIN bytes /\ (k + 1) - 1 = k /\ (k > 0 => k \in DOMAIN bytes)
      BY <2>1
    <3>2. bytes[k + 1] = "t" => k + 1 > 1 /\ bytes[k] = "l"
      BY <3>1 DEF Utf8
    <3>3. k > 0 /\ bytes[k] = "l" => bytes[k + 1] = "t"
      BY <3>1 DEF Utf8
    <3>4. bytes[k + 1] = "l" => k + 1 < n /\ bytes[(k + 1) + 1] = "t"
      BY <3>1 DEF Utf8
    <3>5. bytes[k + 1] \in Bytes
      BY <3>1
    <3>6. needed(bytes, k + 1) = IF bytes[k + 1] = "a" THEN 1 ELSE 2
      BY <3>1, <3>2, <3>4, <3>5 DEF needed, Bytes
    <3>. QED BY <3>2, <3>3, <3>4, <3>6 DEF After
  <2>. QED BY <2>2
<1>. DEFINE Good(k) == Tight(f[k], n - k, After(bytes, k))
<1>1. Good(0)
  <2>1. f[0] = Start(FALSE, n)
    BY Zenon DEF ReadsUpTo
  <2>2. Decoder(f[0]) /\ f[0].held = FALSE /\ f[0].room = n
    BY <2>1, StartIs
  <2>3. After(bytes, 0) = FALSE
    BY DEF After
  <2>4. Tight(f[0], n, FALSE) /\ n - 0 = n
    BY <2>2 DEF Tight
  <2>. QED BY <2>3, <2>4, Zenon
<1>2. ASSUME NEW k \in Nat, k + 1 <= n, Good(k)
      PROVE Good(k + 1) /\ Fits(f[k], bytes[k + 1], needed(bytes, k + 1)) /\ Decoder(f[k])
  <2>1. PICK ahead \in Nat : ahead = n - (k + 1)
    BY <1>2
  <2>2. k + 1 \in 1..n /\ (k + 1) - 1 = k /\ n - k = ahead + 1 /\ k \in 0..(n - 1)
    BY <1>2, <2>1
  <2>3. f[k + 1] = read(f[k], bytes[k + 1], needed(bytes, k + 1)) /\ bytes[k + 1] \in Bytes
    BY <1>0, <2>2, Zenon DEF ReadsUpTo
  <2>4. PICK held \in BOOLEAN : held = After(bytes, k)
    BY DEF After
  <2>5. /\ Tight(f[k], ahead + 1, held) /\ (bytes[k + 1] = "t" <=> held)
        /\ bytes[k + 1] = "l" => ahead >= 1
        /\ needed(bytes, k + 1) = IF bytes[k + 1] = "a" THEN 1 ELSE 2
    BY <1>0, <1>2, <2>1, <2>2, <2>4
  <2>6. Fits(f[k], bytes[k + 1], needed(bytes, k + 1)) /\ Tight(f[k + 1], ahead, bytes[k + 1] = "l")
    BY <2>3, <2>5, NeededIs, TightStep
  <2>7. After(bytes, k + 1) = (bytes[k + 1] = "l")
    BY DEF After
  <2>8. Decoder(f[k])
    BY <2>5, Zenon DEF Tight
  <2>. QED BY <2>1, <2>6, <2>7, <2>8
<1>. HIDE DEF Good
<1>3. \A k \in 0..n : Good(k)
  <2>1. PICK T \in SUBSET Nat : \A k \in Nat : k \in T <=> (k <= n => Good(k))
    <3>1. {k \in Nat : k <= n => Good(k)} \in SUBSET Nat
      OBVIOUS
    <3>. QED BY <3>1
  <2>2. 0 \in T /\ \A k \in T : k + 1 \in T
    BY <1>1, <1>2, <2>1
  <2>3. T = Nat
    BY <2>2, Induction
  <2>. QED BY <2>1, <2>3
<1>4. ASSUME NEW k \in 1..n
      PROVE  /\ Decoder(f[k - 1]) /\ Fits(f[k - 1], bytes[k], needed(bytes, k))
             /\ f[k] = read(f[k - 1], bytes[k], needed(bytes, k)) /\ Decoder(f[k])
             /\ f[k].held = (bytes[k] = "l")
  <2>1. k - 1 \in Nat /\ (k - 1) + 1 = k /\ k <= n /\ k - 1 \in 0..n
    OBVIOUS
  <2>2. f[k] = read(f[k - 1], bytes[k], needed(bytes, k)) /\ bytes[k] \in Bytes
    BY <1>0, Zenon DEF ReadsUpTo
  <2>3. Fits(f[k - 1], bytes[k], needed(bytes, k)) /\ Decoder(f[k - 1])
    BY <1>2, <1>3, <2>1
  <2>4. Decoder(f[k]) /\ f[k].held = (bytes[k] = "l")
    <3>1. /\ Decoder(read(f[k - 1], bytes[k], needed(bytes, k)))
          /\ read(f[k - 1], bytes[k], needed(bytes, k)).held = (bytes[k] = "l")
      BY <2>2, <2>3, NeededIs, ReadRoomy
    <3>. QED BY <2>2, <3>1
  <2>. QED BY <2>2, <2>3, <2>4
<1>5. Decoder(f[0])
  BY <1>1, Zenon DEF Good, Tight
<1>. QED BY <1>4, <1>5, Zenon DEF Roomy

\* Two runs over the same bytes, from m on in r, go on alike.
LEMMA AlikeRuns ==
  ASSUME NEW m \in Nat, NEW n \in Nat, NEW l \in Nat, m + n <= l,
         NEW h, NEW r, NEW g, NEW q, NEW o \in Seq(Characters),
         Roomy(h, l, r), Roomy(g, n, q), Has(r, m, q, n), AllIn(q, n, Bytes),
         Alike(h[m], g[0], o)
  PROVE  Alike(h[m + n], g[n], o)
<1>. DEFINE Good(k) == Alike(h[m + k], g[k], o)
<1>1. Good(0)
  <2>1. m + 0 = m
    OBVIOUS
  <2>. QED BY <2>1, Zenon
<1>2. ASSUME NEW k \in Nat, k + 1 <= n, Good(k) PROVE Good(k + 1)
  <2>1. /\ k + 1 \in 1..n /\ (k + 1) - 1 = k
        /\ m + (k + 1) \in 1..l /\ (m + (k + 1)) - 1 = m + k
    BY <1>2
  <2>2. q[k + 1] \in Bytes /\ r[m + (k + 1)] = q[k + 1]
    BY <2>1, Zenon DEF AllIn, Has
  <2>3. /\ Decoder(g[k]) /\ Fits(g[k], q[k + 1], needed(q, k + 1)) /\ g[k + 1] = read(g[k], q[k + 1], needed(q, k + 1))
    BY <2>1, Zenon DEF Roomy
  <2>4. /\ Decoder(h[m + k]) /\ Fits(h[m + k], q[k + 1], needed(r, m + (k + 1)))
        /\ h[m + (k + 1)] = read(h[m + k], q[k + 1], needed(r, m + (k + 1)))
    BY <2>1, <2>2, Zenon DEF Roomy
  <2>5. Alike(h[m + k], g[k], o)
    BY <1>2
  <2>6. Alike(read(h[m + k], q[k + 1], needed(r, m + (k + 1))), read(g[k], q[k + 1], needed(q, k + 1)), o)
    BY <2>2, <2>3, <2>4, <2>5, NeededIs, ReadAlike, Zenon
  <2>. QED BY <2>3, <2>4, <2>6, Zenon
<1>. HIDE DEF Good
<1>3. PICK T \in SUBSET Nat : \A k \in Nat : k \in T <=> (k <= n => Good(k))
  <2>1. {k \in Nat : k <= n => Good(k)} \in SUBSET Nat
    OBVIOUS
  <2>. QED BY <2>1
<1>4. 0 \in T /\ \A k \in T : k + 1 \in T
  BY <1>1, <1>2, <1>3
<1>5. n \in T
  BY <1>4, Induction
<1>6. Good(n)
  BY <1>3, <1>5
<1>. QED BY <1>6, Zenon DEF Good

\* Whole characters after whole characters.
LEMMA Utf8Concat ==
  ASSUME NEW p \in Seq(Bytes), NEW q \in Seq(Bytes), Utf8(p), Utf8(q)
  PROVE  Utf8(p \o q)
<1>. DEFINE r == p \o q
<1>1. /\ Len(r) = Len(p) + Len(q) /\ DOMAIN r = 1..Len(r)
      /\ DOMAIN p = 1..Len(p) /\ DOMAIN q = 1..Len(q) /\ Len(p) \in Nat /\ Len(q) \in Nat
      /\ \A i \in 1..Len(p) : r[i] = p[i]
      /\ \A i \in 1..Len(q) : r[Len(p) + i] = q[i]
  BY ConcatProperties, LenProperties
<1>2. /\ \A i \in 1..Len(p) : p[i] = "l" => i < Len(p) /\ p[i + 1] = "t"
      /\ \A i \in 1..Len(p) : p[i] = "t" => i > 1 /\ p[i - 1] = "l"
      /\ \A i \in 1..Len(q) : q[i] = "l" => i < Len(q) /\ q[i + 1] = "t"
      /\ \A i \in 1..Len(q) : q[i] = "t" => i > 1 /\ q[i - 1] = "l"
  BY <1>1 DEF Utf8
<1>. HIDE DEF r
<1>3. ASSUME NEW i \in 1..Len(r)
      PROVE  /\ r[i] = "l" => i < Len(r) /\ r[i + 1] = "t"
             /\ r[i] = "t" => i > 1 /\ r[i - 1] = "l"
  <2>1. CASE i <= Len(p)
    <3>1. i \in 1..Len(p) /\ r[i] = p[i]
      BY <1>1, <2>1
    <3>2. r[i] = "l" => i + 1 \in 1..Len(p) /\ p[i + 1] = "t" /\ i < Len(r)
      BY <1>1, <1>2, <3>1
    <3>3. r[i] = "t" => i > 1 /\ i - 1 \in 1..Len(p) /\ p[i - 1] = "l"
      BY <1>1, <1>2, <3>1
    <3>. QED BY <1>1, <3>2, <3>3
  <2>2. CASE i > Len(p)
    <3>1. PICK j \in 1..Len(q) : i = Len(p) + j
      <4>1. i - Len(p) \in 1..Len(q) /\ i = Len(p) + (i - Len(p))
        BY <1>1, <2>2
      <4>. QED BY <4>1, Zenon
    <3>2. r[i] = q[j]
      BY <1>1, <3>1
    <3>. /\ q[j] = "l" => j < Len(q) /\ q[j + 1] = "t"
         /\ q[j] = "t" => j > 1 /\ q[j - 1] = "l"
      BY <1>2, Zenon
    <3>. Len(q) \in Nat
      BY <1>1
    <3>3. r[i] = "l" => j + 1 \in 1..Len(q) /\ q[j + 1] = "t"
      BY <3>2
    <3>4. r[i] = "t" => j > 1 /\ j - 1 \in 1..Len(q) /\ q[j - 1] = "l"
      BY <3>2
    <3>5. i + 1 = Len(p) + (j + 1) /\ i - 1 = Len(p) + (j - 1)
      BY <1>1, <3>1
    <3>6. j + 1 \in 1..Len(q) => r[i + 1] = q[j + 1] /\ i < Len(r)
      BY <1>1, <3>1, <3>5
    <3>7. j - 1 \in 1..Len(q) => r[i - 1] = q[j - 1] /\ i > 1
      BY <1>1, <3>1, <3>5
    <3>. QED BY <3>3, <3>4, <3>6, <3>7
  <2>. QED BY <1>1, <2>1, <2>2
<1>4. Utf8(r)
  BY <1>1, <1>3 DEF Utf8
<1>. QED BY <1>4 DEF r

LEMMA BytesOf ==
  ASSUME NEW p \in Seq(Bytes)
  PROVE  Len(p) \in Nat /\ AllIn(p, Len(p), Bytes)
         /\ (Utf8(p) /\ Len(p) > 0 => p[Len(p)] # "l")
  BY DEF AllIn, Utf8

LEMMA HasParts ==
  ASSUME NEW p \in Seq(Bytes), NEW q \in Seq(Bytes), NEW r, r = p \o q
  PROVE  /\ r \in Seq(Bytes) /\ Len(r) = Len(p) + Len(q)
         /\ Has(r, 0, p, Len(p)) /\ Has(r, Len(p), q, Len(q))
<1>1. /\ Len(r) = Len(p) + Len(q) /\ r \in Seq(Bytes)
      /\ \A i \in 1..Len(p) : r[i] = p[i]
      /\ \A i \in 1..Len(q) : r[Len(p) + i] = q[i]
  BY ConcatProperties
<1>2. \A i \in 1..Len(p) : 0 + i = i
  OBVIOUS
<1>. QED BY <1>1, <1>2 DEF Has

LEMMA RoomyEnd ==
  ASSUME NEW n \in Nat, NEW f, NEW bytes, Roomy(f, n, bytes), f[0].held = FALSE,
         n > 0 => bytes[n] # "l"
  PROVE  Decoder(f[n]) /\ f[n].held = FALSE
<1>1. CASE n = 0
  BY <1>1, Zenon DEF Roomy
<1>2. CASE n # 0
  <2>1. n \in 1..n /\ bytes[n] # "l"
    BY <1>2
  <2>2. Decoder(f[n]) /\ f[n].held = (bytes[n] = "l")
    BY <2>1, Zenon DEF Roomy
  <2>. QED BY <2>1, <2>2
<1>. QED BY <1>1, <1>2

\* Texts of whole characters are decoded one after the other, the second one in
\* a string that has no room beyond its bytes.
LEMMA DecodedConcat ==
  ASSUME NEW p \in Seq(Bytes), NEW q \in Seq(Bytes), Utf8(p), Utf8(q), NEW r, r = p \o q
  PROVE  /\ Decoded(r).out = Decoded(p).out \o decode_to_string(FALSE, q, Len(q)).out
         /\ decode_to_string(FALSE, q, Len(q)).held = FALSE
<1>1. PICK m \in Nat : m = Len(p) /\ AllIn(p, m, Bytes) /\ (m > 0 => p[m] # "l")
  BY BytesOf, Zenon
<1>2. PICK n \in Nat : n = Len(q) /\ AllIn(q, n, Bytes) /\ (n > 0 => q[n] # "l")
  BY BytesOf, Zenon
<1>3. PICK l \in Nat : /\ l = m + n /\ l = Len(r) /\ AllIn(r, l, Bytes)
                       /\ Has(r, 0, p, m) /\ Has(r, m, q, n)
  <2>1. r \in Seq(Bytes) /\ Len(r) = m + n /\ Has(r, 0, p, m) /\ Has(r, m, q, n)
    BY <1>1, <1>2, HasParts, Zenon
  <2>2. Len(r) \in Nat /\ AllIn(r, Len(r), Bytes)
    BY <2>1, BytesOf, Zenon
  <2>. QED BY <2>1, <2>2, Zenon
<1>4. PICK f : ReadsUpTo(f, m, FALSE, p, 3 * (m + 1)) /\ Decoded(p) = f[m]
  BY <1>1, DecodeIs, Zenon DEF Decoded
<1>5. PICK g : /\ ReadsUpTo(g, n, FALSE, q, n)
               /\ decode_to_string(FALSE, q, Len(q)) = g[n]
  BY <1>2, DecodeIs, Zenon
<1>6. PICK h : ReadsUpTo(h, l, FALSE, r, 3 * (l + 1)) /\ Decoded(r) = h[l]
  BY <1>3, DecodeIs, Zenon DEF Decoded
<1>7. /\ 3 * (m + 1) \in Nat /\ 3 * (m + 1) >= 3 * (m + 1)
      /\ 3 * (l + 1) \in Nat /\ 3 * (l + 1) >= 3 * (l + 1)
  OBVIOUS
<1>8. Roomy(f, m, p) /\ Roomy(h, l, r) /\ Roomy(g, n, q)
  <2>1. Roomy(f, m, p)
    BY <1>1, <1>4, <1>7, AmpleRun, Zenon
  <2>2. Roomy(h, l, r)
    BY <1>3, <1>6, <1>7, AmpleRun, Zenon
  <2>3. Roomy(g, n, q)
    BY <1>2, <1>5, TightRun, Zenon
  <2>. QED BY <2>1, <2>2, <2>3
<1>9. /\ f[0].held = FALSE /\ f[0].out = <<>> /\ g[0].held = FALSE /\ g[0].out = <<>>
      /\ h[0].held = FALSE /\ h[0].out = <<>>
  <2>1. /\ f[0] = Start(FALSE, 3 * (m + 1)) /\ g[0] = Start(FALSE, n)
        /\ h[0] = Start(FALSE, 3 * (l + 1))
    BY <1>4, <1>5, <1>6, Zenon DEF ReadsUpTo
  <2>2. \A room \in Nat : Start(FALSE, room).held = FALSE /\ Start(FALSE, room).out = <<>>
    BY StartIs
  <2>. QED BY <1>7, <2>1, <2>2, Zenon
<1>10. /\ Decoder(f[m]) /\ f[m].held = FALSE /\ Decoder(g[n]) /\ g[n].held = FALSE
  BY <1>1, <1>2, <1>8, <1>9, RoomyEnd, Zenon
<1>11. f[m].out \in Seq(Characters) /\ g[n].out \in Seq(Characters)
  BY <1>10, DecoderParts, Zenon
<1>12. h[m].held = FALSE /\ h[m].out = f[m].out
  <2>1. <<>> \in Seq(Characters) /\ <<>> \o <<>> = <<>>
    OBVIOUS
  <2>2. Alike(h[0], f[0], <<>>)
    BY <1>9, <2>1, Zenon DEF Alike
  <2>3. 0 + m <= l /\ 0 + m = m /\ 0 \in Nat
    BY <1>3
  <2>4. Alike(h[0 + m], f[m], <<>>)
    BY <1>1, <1>3, <1>8, <2>1, <2>2, <2>3, AlikeRuns, Zenon
  <2>5. h[m].held = f[m].held /\ h[m].out = <<>> \o f[m].out
    BY <2>3, <2>4, Zenon DEF Alike
  <2>6. <<>> \o f[m].out = f[m].out
    BY <1>11, ConcatEmptySeq, Zenon
  <2>. QED BY <1>10, <2>5, <2>6, Zenon
<1>13. h[l].out = f[m].out \o g[n].out
  <2>1. f[m].out \o <<>> = f[m].out
    BY <1>11, ConcatEmptySeq, Zenon
  <2>2. Alike(h[m], g[0], f[m].out)
    BY <1>9, <1>12, <2>1, Zenon DEF Alike
  <2>3. m + n <= l /\ m + n = l
    BY <1>3
  <2>4. Alike(h[m + n], g[n], f[m].out)
    BY <1>2, <1>3, <1>8, <1>11, <2>2, <2>3, AlikeRuns, Zenon
  <2>. QED BY <2>3, <2>4, Zenon DEF Alike
<1>. QED BY <1>4, <1>5, <1>6, <1>10, <1>13, Zenon


-----------------------------------------------------------------------------
(* Buffers                                                                  *)

AnyBytes == {"a", "l", "t", "n"}

\* The bytes b are all of p, or the beginning of one with a null byte.
HasNull(p) == \E i \in DOMAIN p : p[i] = "n"
Cut(p, b) == b \in Seq(Bytes) /\ (b = p \/ (HasNull(p) /\ Len(b) < Len(p)))

\* Two texts, each of them whole or the beginning of one with a null byte, are
\* together that again ...
LEMMA CutConcat ==
  ASSUME NEW p \in Seq(AnyBytes), NEW q \in Seq(AnyBytes), NEW b, NEW c, Cut(p, b), Cut(q, c)
  PROVE  Cut(p \o q, b \o c)
<1>1. b \in Seq(Bytes) /\ c \in Seq(Bytes)
  BY Zenon DEF Cut
<1>2. b \o c \in Seq(Bytes) /\ Len(b \o c) = Len(b) + Len(c)
  BY <1>1, ConcatProperties
<1>3. /\ Len(p \o q) = Len(p) + Len(q) /\ DOMAIN (p \o q) = 1..(Len(p) + Len(q))
      /\ \A i \in 1..Len(p) : (p \o q)[i] = p[i]
      /\ \A i \in 1..Len(q) : (p \o q)[Len(p) + i] = q[i]
      /\ Len(p) \in Nat /\ Len(q) \in Nat /\ DOMAIN p = 1..Len(p) /\ DOMAIN q = 1..Len(q)
  BY ConcatProperties
<1>4. Len(b) \in Nat /\ Len(c) \in Nat /\ Len(b) <= Len(p) /\ Len(c) <= Len(q)
  <2>1. (b = p \/ Len(b) < Len(p)) /\ (c = q \/ Len(c) < Len(q))
    BY Zenon DEF Cut
  <2>2. Len(b) \in Nat /\ Len(c) \in Nat
    BY <1>1
  <2>. QED BY <1>3, <2>1, <2>2
<1>5. CASE b = p /\ c = q
  BY <1>2, <1>5, Zenon DEF Cut
<1>6. CASE b # p
  <2>1. HasNull(p) /\ Len(b) < Len(p)
    BY <1>6, Zenon DEF Cut
  <2>2. PICK i \in 1..Len(p) : p[i] = "n"
    BY <1>3, <2>1, Zenon DEF HasNull
  <2>3. i \in DOMAIN (p \o q) /\ (p \o q)[i] = "n"
    BY <1>3, <2>2
  <2>4. HasNull(p \o q)
    BY <2>3, Zenon DEF HasNull
  <2>5. Len(b \o c) < Len(p \o q)
    BY <1>2, <1>3, <1>4, <2>1
  <2>. QED BY <1>2, <2>4, <2>5, Zenon DEF Cut
<1>7. CASE c # q
  <2>1. HasNull(q) /\ Len(c) < Len(q)
    BY <1>7, Zenon DEF Cut
  <2>2. PICK i \in 1..Len(q) : q[i] = "n"
    BY <1>3, <2>1, Zenon DEF HasNull
  <2>3. Len(p) + i \in DOMAIN (p \o q) /\ (p \o q)[Len(p) + i] = "n"
    BY <1>3, <2>2
  <2>4. HasNull(p \o q)
    BY <2>3, Zenon DEF HasNull
  <2>5. Len(b \o c) < Len(p \o q)
    BY <1>2, <1>3, <1>4, <2>1
  <2>. QED BY <1>2, <2>4, <2>5, Zenon DEF Cut
<1>. QED BY <1>5, <1>6, <1>7

Cuts(p, b, n) == \A k \in 1..n : p[k] \in Seq(AnyBytes) /\ Cut(p[k], b[k])

\* ... and so are any number of them.
LEMMA JoinedCut ==
  ASSUME NEW n \in Nat, NEW p, NEW b, Len(p) = n, Len(b) = n, Cuts(p, b, n)
  PROVE  Cut(joined(p), joined(b))
<1>1. PICK f : JoinsUpTo(f, n, p) /\ joined(p) = f[n]
  BY JoinedIs
<1>2. PICK g : JoinsUpTo(g, n, b) /\ joined(b) = g[n]
  BY JoinedIs
<1>3. StepsUpTo(f, n, p) /\ StepsUpTo(g, n, b)
  BY <1>1, <1>2, JoinsSteps, Zenon
<1>. DEFINE Good(k) == f[k] \in Seq(AnyBytes) /\ Cut(f[k], g[k])
<1>4. Good(0)
  <2>1. f[0] = <<>> /\ g[0] = <<>>
    BY <1>3, Zenon DEF StepsUpTo
  <2>2. <<>> \in Seq(AnyBytes) /\ <<>> \in Seq(Bytes)
    OBVIOUS
  <2>. QED BY <2>1, <2>2, Zenon DEF Cut
<1>5. ASSUME NEW k \in Nat, k + 1 <= n, Good(k) PROVE Good(k + 1)
  <2>1. k + 1 \in 1..n /\ (k + 1) - 1 = k
    BY <1>5
  <2>2. f[k + 1] = f[k] \o p[k + 1] /\ g[k + 1] = g[k] \o b[k + 1]
    BY <1>3, <2>1, Zenon DEF StepsUpTo
  <2>3. p[k + 1] \in Seq(AnyBytes) /\ Cut(p[k + 1], b[k + 1])
    BY <2>1, Zenon DEF Cuts
  <2>4. f[k] \o p[k + 1] \in Seq(AnyBytes)
    BY <1>5, <2>3, ConcatProperties
  <2>5. Cut(f[k] \o p[k + 1], g[k] \o b[k + 1])
    BY <1>5, <2>3, CutConcat, Zenon
  <2>. QED BY <2>2, <2>4, <2>5, Zenon
<1>. HIDE DEF Good
<1>6. PICK T \in SUBSET Nat : \A k \in Nat : k \in T <=> (k <= n => Good(k))
  <2>1. {k \in Nat : k <= n => Good(k)} \in SUBSET Nat
    OBVIOUS
  <2>. QED BY <2>1
<1>7. 0 \in T /\ \A k \in T : k + 1 \in T
  BY <1>4, <1>5, <1>6
<1>8. n \in T
  BY <1>7, Induction
<1>9. Good(n)
  BY <1>6, <1>8
<1>. QED BY <1>1, <1>2, <1>9, Zenon DEF Good

\* The byte at which a CString ends.
EndsAt(bytes, n) ==
  /\ n \in 0..Len(bytes)
  /\ \A i \in 1..n : bytes[i] # "n"
  /\ n < Len(bytes) => bytes[n + 1] = "n"

\* A sequence has a first null byte or none.
LEMMA BeforeNullIs ==
  ASSUME NEW A, NEW bytes \in Seq(A)
  PROVE  \E n : EndsAt(bytes, n) /\ BeforeNull(bytes) = SubSeq(bytes, 1, n)
<1>. Len(bytes) \in Nat
  OBVIOUS
<1>1. \E n \in 0..Len(bytes) : EndsAt(bytes, n)
  <2>1. CASE \A i \in 1..Len(bytes) : bytes[i] # "n"
    <3>1. EndsAt(bytes, Len(bytes)) /\ Len(bytes) \in 0..Len(bytes)
      BY <2>1 DEF EndsAt
    <3>. QED BY <3>1
  <2>2. CASE \E i \in 1..Len(bytes) : bytes[i] = "n"
    <3>. DEFINE N == {i \in Nat : i >= 1 /\ i <= Len(bytes) /\ bytes[i] = "n"}
    <3>1. N # {} /\ N \subseteq Nat
      BY <2>2
    <3>2. PICK i \in N : \A j \in N : i <= j
      BY <3>1, LeastElement
    <3>3. i - 1 \in 0..Len(bytes) /\ (i - 1) + 1 = i
      OBVIOUS
    <3>4. \A j \in 1..(i - 1) : bytes[j] # "n"
      BY <3>2
    <3>5. EndsAt(bytes, i - 1)
      BY <3>3, <3>4 DEF EndsAt
    <3>. QED BY <3>3, <3>5
  <2>. QED BY <2>1, <2>2
<1>2. PICK n : n = CHOOSE k \in 0..Len(bytes) : EndsAt(bytes, k)
  OBVIOUS
<1>3. EndsAt(bytes, n)
  BY <1>1, <1>2, Zenon
<1>4. BeforeNull(bytes) = SubSeq(bytes, 1, n)
  <2>1. \A k \in 0..Len(bytes) :
          EndsAt(bytes, k) <=> /\ \A i \in 1..k : bytes[i] # "n"
                               /\ k < Len(bytes) => bytes[k + 1] = "n"
    BY Zenon DEF EndsAt
  <2>. QED BY <1>2, <2>1, Zenon DEF BeforeNull
<1>. QED BY <1>3, <1>4


LEMMA SubSeqIs ==
  ASSUME NEW A, NEW s \in Seq(A), NEW n \in 0..Len(s)
  PROVE  /\ SubSeq(s, 1, n) \in Seq(A) /\ Len(SubSeq(s, 1, n)) = n
         /\ SubSeq(s, 1, n) = [i \in 1..n |-> s[i]]
         /\ \A i \in 1..n : SubSeq(s, 1, n)[i] = s[i]
<1>1. SubSeq(s, 1, n) \in Seq(A) /\ Len(SubSeq(s, 1, n)) = n
  BY SubSeqProperties
<1>2. \A i \in 1..n : SubSeq(s, 1, n)[i] = s[i]
  BY SubSeqProperties
<1>3. SubSeq(s, 1, n) = [i \in 1..n |-> SubSeq(s, 1, n)[i]]
  BY <1>1
<1>. QED BY <1>1, <1>2, <1>3

\* The bytes of a sequence without a null byte.
LEMMA NoNull ==
  ASSUME NEW n \in Nat, NEW s, s = [i \in 1..n |-> s[i]],
         \A i \in 1..n : s[i] \in AnyBytes /\ s[i] # "n"
  PROVE  s \in Seq(Bytes) /\ Len(s) = n
  BY DEF AnyBytes, Bytes

\* A text that fits comes out of the buffer as it is.
LEMMA BufferWhole ==
  ASSUME NEW A, NEW s \in Seq(A), NEW room \in Nat, Len(s) <= room, NEW fill
  PROVE  Buffer(s, room, Len(s), fill) = s
<1>1. \A i \in 1..Len(s) : i <= Len(s) /\ i <= room
  OBVIOUS
<1>2. s = [i \in 1..Len(s) |-> s[i]]
  OBVIOUS
<1>3. Buffer(s, room, Len(s), fill) = [i \in 1..Len(s) |-> s[i]]
  BY <1>1 DEF Buffer
<1>. QED BY <1>2, <1>3, Zenon

\* A piece that fits comes out of the buffer as it is, up to a null byte.
LEMMA PieceCut ==
  ASSUME NEW p \in Seq(AnyBytes), NEW size \in Nat, Len(p) <= size
  PROVE  Cut(p, piece_bytes(p, size))
<1>. DEFINE l == Len(p)
            B == Buffer(p, size, size, "*")
<1>0. /\ l \in Nat /\ DOMAIN p = 1..l /\ l <= size
      /\ (\A i \in 1..l : p[i] \in AnyBytes) /\ p = [i \in 1..l |-> p[i]]
  OBVIOUS
<1>1. /\ B \in Seq(AnyBytes \cup {"*"}) /\ Len(B) = size
      /\ \A i \in 1..l : B[i] = p[i]
  <2>1. \A i \in 1..size : (IF i <= l /\ i <= size THEN p[i] ELSE "*") \in AnyBytes \cup {"*"}
    BY <1>0
  <2>2. B = [i \in 1..size |-> IF i <= l /\ i <= size THEN p[i] ELSE "*"]
    BY DEF Buffer
  <2>3. \A i \in 1..l : i \in 1..size /\ i <= l /\ i <= size
    BY <1>0
  <2>. HIDE DEF B, l
  <2>4. B \in Seq(AnyBytes \cup {"*"}) /\ Len(B) = size
    BY <2>1, <2>2
  <2>5. \A i \in 1..l : B[i] = p[i]
    BY <2>2, <2>3
  <2>. QED BY <2>4, <2>5
<1>. HIDE DEF B, l
<1>2. PICK n : EndsAt(B, n) /\ BeforeNull(B) = SubSeq(B, 1, n)
  BY <1>1, BeforeNullIs
<1>3. /\ n \in 0..size /\ \A i \in 1..n : B[i] # "n"
      /\ n < size => B[n + 1] = "n"
  BY <1>1, <1>2 DEF EndsAt
<1>. DEFINE S == SubSeq(B, 1, n)
<1>4. /\ S \in Seq(AnyBytes \cup {"*"}) /\ Len(S) = n
      /\ S = [i \in 1..n |-> S[i]] /\ \A i \in 1..n : S[i] = B[i]
  BY <1>1, <1>3, SubSeqIs
<1>. HIDE DEF S
<1>5. CASE n <= l
  <2>1. piece_bytes(p, size) = S
    BY <1>2, <1>4, <1>5 DEF piece_bytes, B, l, S
  <2>2. \A i \in 1..n : S[i] = p[i] /\ S[i] \in AnyBytes /\ S[i] # "n"
    BY <1>0, <1>1, <1>3, <1>4, <1>5
  <2>3. S \in Seq(Bytes) /\ Len(S) = n
    BY <1>3, <1>4, <2>2, NoNull
  <2>4. CASE n = l
    <3>1. S = p
      BY <1>0, <1>4, <2>2, <2>4
    <3>. QED BY <2>1, <2>3, <3>1, Zenon DEF Cut
  <2>5. CASE n < l
    <3>1. n + 1 \in DOMAIN p /\ p[n + 1] = "n"
      BY <1>0, <1>1, <1>3, <2>5
    <3>2. HasNull(p)
      BY <3>1, Zenon DEF HasNull
    <3>3. Len(S) < Len(p)
      BY <2>3, <2>5 DEF l
    <3>. QED BY <2>1, <2>3, <3>2, <3>3, Zenon DEF Cut
  <2>. QED BY <1>0, <1>3, <1>5, <2>4, <2>5
<1>6. CASE n > l
  <2>1. piece_bytes(p, size) = SubSeq(S, 1, l)
    BY <1>0, <1>2, <1>3, <1>4, <1>6 DEF piece_bytes, B, l, S
  <2>2. l \in 0..Len(S)
    BY <1>0, <1>3, <1>4, <1>6
  <2>3. /\ SubSeq(S, 1, l) = [i \in 1..l |-> S[i]]
    BY <1>4, <2>2, SubSeqIs
  <2>4. \A i \in 1..l : S[i] = p[i] /\ p[i] # "n"
    BY <1>0, <1>1, <1>3, <1>4, <1>6
  <2>5. SubSeq(S, 1, l) = p
    BY <1>0, <2>3, <2>4
  <2>6. p \in Seq(Bytes)
    BY <1>0, <2>4, NoNull
  <2>. QED BY <2>1, <2>5, <2>6, Zenon DEF Cut
<1>. QED BY <1>0, <1>3, <1>5, <1>6


-----------------------------------------------------------------------------
(* The calls of a model                                                     *)

OneTextOps == {"str_to_token", "extract_meta_string", "apply_chat_template"}

\* A call for pieces: those before the current one are in built.
Collecting(c) ==
  /\ c.op \in PieceOps
  /\ Len(c.texts) \in Nat
  /\ \A i \in 1..Len(c.texts) : c.texts[i] \in Seq(AnyBytes)
  /\ c.built \in Seq(Seq(Bytes)) /\ Len(c.built) < Len(c.texts)
  /\ Cuts(c.texts, c.built, Len(c.built))

\* A call for one text: a second try is large enough.
Asking(c) ==
  /\ c.op \in OneTextOps
  /\ c.texts # <<>> => c.texts[1] \in Seq(AnyBytes)
  /\ c.retried => /\ c.texts # <<>> /\ Len(c.texts[1]) <= c.cap
                  /\ c.op = "extract_meta_string" => Len(c.texts[1]) < c.cap

CallOk(c) ==
  \/ c = NoCall
  \/ /\ c = [op |-> c.op, texts |-> c.texts, built |-> c.built, cap |-> c.cap,
             retried |-> c.retried]
     /\ c.cap \in Nat /\ c.retried \in BOOLEAN
     /\ Collecting(c) \/ Asking(c)

ReturnOk(r) ==
  /\ r.kind = "Ok" /\ r.of \notin {"token_to_piece", "token_to_str"} =>
       r.bytes = r.had \/ (r.of \in PieceOps /\ Cut(r.had, r.bytes))
  /\ r.kind = "panic" => r.had = TooMany

StreamOk(s) ==
  /\ s.bytes \in Seq(Bytes)
  /\ s.whole => Utf8(s.bytes) /\ s.held = FALSE /\ s.text = Decoded(s.bytes).out

TextInv == CallOk(call) /\ ReturnOk(ret) /\ StreamOk(stream)

LEMMA DecodedEmpty == Decoded(<<>>).out = <<>>
<1>1. PICK f : ReadsUpTo(f, 0, FALSE, <<>>, 3 * (0 + 1)) /\ Decoded(<<>>) = f[0]
  <2>1. Len(<<>>) = 0
    OBVIOUS
  <2>. QED BY <2>1, DecodeIs, Zenon DEF Decoded
<1>2. f[0] = Start(FALSE, 3 * (0 + 1))
  BY <1>1, Zenon DEF ReadsUpTo
<1>3. Start(FALSE, 3 * (0 + 1)).out = <<>>
  <2>1. \A room \in Nat : Start(FALSE, room).out = <<>>
    BY StartIs
  <2>2. 3 * (0 + 1) \in Nat
    OBVIOUS
  <2>. QED BY <2>1, <2>2, Zenon
<1>. QED BY <1>1, <1>2, <1>3, Zenon

LEMMA TextInvInit == TextInit => TextInv
<1>. SUFFICES ASSUME TextInit PROVE TextInv
  OBVIOUS
<1>1. CallOk(call)
  BY DEF TextInit, CallOk
<1>2. ReturnOk(ret)
  BY DEF TextInit, ReturnOk, NoReturn
<1>3. StreamOk(stream)
  <2>1. stream.bytes = <<>> /\ stream.held = FALSE /\ stream.text = <<>>
    BY DEF TextInit, NewDecoder
  <2>2. <<>> \in Seq(Bytes) /\ Utf8(<<>>)
    BY DEF Utf8
  <2>. QED BY <2>1, <2>2, DecodedEmpty DEF StreamOk
<1>. QED BY <1>1, <1>2, <1>3 DEF TextInv

\* The invariant says what the runs check.
LEMMA TextInvImplies == TextInv => OkIsWhole /\ WholeCharactersDelivered
<1>. SUFFICES ASSUME TextInv PROVE OkIsWhole /\ WholeCharactersDelivered
  OBVIOUS
<1>1. OkIsWhole
  <2>1. ASSUME Cut(ret.had, ret.bytes)
        PROVE  \/ ret.bytes = ret.had
               \/ /\ \E i \in DOMAIN ret.had : ret.had[i] = "n"
                  /\ \A i \in DOMAIN ret.bytes : ret.bytes[i] \in {"a", "l", "t"}
                  /\ Len(ret.bytes) < Len(ret.had)
    <3>1. \A i \in DOMAIN ret.bytes : ret.bytes[i] \in {"a", "l", "t"}
      <4>1. ret.bytes \in Seq({"a", "l", "t"})
        BY <2>1 DEF Cut, Bytes
      <4>. QED BY <4>1
    <3>. QED BY <2>1, <3>1, Zenon DEF Cut, HasNull
  <2>. QED BY <2>1, Zenon DEF TextInv, ReturnOk, OkIsWhole
<1>2. WholeCharactersDelivered
  BY DEF TextInv, StreamOk, WholeCharactersDelivered
<1>. QED BY <1>1, <1>2

\* A call begins with no piece read ...
LEMMA OfferPieces ==
  ASSUME TextInv, NEW op \in PieceOps, NEW texts, Len(texts) \in Nat, 0 < Len(texts),
         \A i \in 1..Len(texts) : texts[i] \in Seq(AnyBytes), NEW cap \in Nat,
         Offer(op, texts, cap)
  PROVE  TextInv'
<1>1. PICK c : c = [op |-> op, texts |-> texts, built |-> <<>>, cap |-> cap, retried |-> FALSE]
  OBVIOUS
<1>2. call' = c /\ ret' = NoReturn /\ stream' = stream
  BY <1>1 DEF Offer
<1>3. c.op = op /\ c.texts = texts /\ c.built = <<>> /\ c.cap = cap /\ c.retried = FALSE
  BY <1>1
<1>4. Collecting(c)
  <2>1. <<>> \in Seq(Seq(Bytes)) /\ Len(<<>>) = 0
    OBVIOUS
  <2>2. Cuts(texts, <<>>, 0)
    BY DEF Cuts
  <2>. QED BY <1>3, <2>1, <2>2, Zenon DEF Collecting
<1>5. CallOk(c)
  BY <1>1, <1>3, <1>4, Zenon DEF CallOk
<1>6. ReturnOk(NoReturn)
  BY DEF ReturnOk, NoReturn
<1>. QED BY <1>2, <1>5, <1>6, Zenon DEF TextInv

\* ... or with the first try for its text.
LEMMA OfferOne ==
  ASSUME TextInv, NEW op \in OneTextOps, NEW texts,
         texts # <<>> => texts[1] \in Seq(AnyBytes), NEW cap \in Nat,
         Offer(op, texts, cap)
  PROVE  TextInv'
<1>1. PICK c : c = [op |-> op, texts |-> texts, built |-> <<>>, cap |-> cap, retried |-> FALSE]
  OBVIOUS
<1>2. call' = c /\ ret' = NoReturn /\ stream' = stream
  BY <1>1 DEF Offer
<1>3. c.op = op /\ c.texts = texts /\ c.built = <<>> /\ c.cap = cap /\ c.retried = FALSE
  BY <1>1
<1>4. Asking(c)
  BY <1>3, Zenon DEF Asking
<1>5. CallOk(c)
  BY <1>1, <1>3, <1>4, Zenon DEF CallOk
<1>6. ReturnOk(NoReturn)
  BY DEF ReturnOk, NoReturn
<1>. QED BY <1>2, <1>5, <1>6, Zenon DEF TextInv

\* What is returned in one step.
LEMMA Returns ==
  ASSUME TextInv, NEW r, ReturnOk(r), ret' = r, call' = NoCall, stream' = stream
  PROVE  TextInv'
BY Zenon DEF TextInv, CallOk

\* An error other than a panic says nothing of a text.
LEMMA FailsOk ==
  ASSUME NEW kind, kind \notin {"Ok", "panic"}, Fails(kind), stream' = stream,
         TextInv
  PROVE  TextInv'
<1>1. PICK r : r = [kind |-> kind, of |-> call.op, bytes |-> <<>>, had |-> <<>>]
  OBVIOUS
<1>2. ReturnOk(r)
  BY <1>1 DEF ReturnOk
<1>3. ret' = r /\ call' = NoCall
  BY <1>1 DEF Fails, Return
<1>. QED BY <1>2, <1>3, Returns, Zenon

LEMMA ReturnsAll ==
  ASSUME NEW bytes, Return("Ok", bytes, bytes), stream' = stream, TextInv
  PROVE  TextInv'
<1>1. PICK r : r = [kind |-> "Ok", of |-> call.op, bytes |-> bytes, had |-> bytes]
  OBVIOUS
<1>2. ReturnOk(r)
  BY <1>1 DEF ReturnOk
<1>3. ret' = r /\ call' = NoCall
  BY <1>1 DEF Return
<1>. QED BY <1>2, <1>3, Returns, Zenon

\* The second try for a text has room for it.
LEMMA AskAgain ==
  ASSUME TextInv, Asking(call), call # NoCall, NEW cap \in Nat, TryAgain(cap), stream' = stream,
         call.texts # <<>>, Len(call.texts[1]) <= cap,
         call.op = "extract_meta_string" => Len(call.texts[1]) < cap
  PROVE  TextInv'
<1>1. call = [op |-> call.op, texts |-> call.texts, built |-> call.built, cap |-> call.cap,
             retried |-> call.retried]
  BY Zenon DEF TextInv, CallOk
<1>2. PICK c : c = [op |-> call.op, texts |-> call.texts, built |-> call.built, cap |-> cap,
                    retried |-> TRUE]
  OBVIOUS
<1>3. call' = c /\ ret' = ret
  <2>1. call' = [call EXCEPT !.cap = cap, !.retried = TRUE] /\ ret' = ret
    BY DEF TryAgain
  <2>2. call' = c
    <3>1. call' = [op |-> call'.op, texts |-> call'.texts, built |-> call'.built,
                   cap |-> call'.cap, retried |-> call'.retried]
      BY <1>1, <2>1
    <3>2. /\ call'.op = call.op /\ call'.texts = call.texts /\ call'.built = call.built
          /\ call'.cap = cap /\ call'.retried = TRUE
      BY <1>1, <2>1
    <3>. QED BY <1>2, <3>1, <3>2, Zenon
  <2>. QED BY <2>1, <2>2, Zenon
<1>4. /\ c.op = call.op /\ c.texts = call.texts /\ c.built = call.built /\ c.cap = cap
      /\ c.retried = TRUE
  BY <1>2
<1>5. Asking(c)
  BY <1>4, Zenon DEF Asking
<1>6. CallOk(c)
  BY <1>2, <1>4, <1>5, Zenon DEF CallOk
<1>. QED BY <1>3, <1>6, Zenon DEF TextInv

LEMMA CollectAgain ==
  ASSUME TextInv, Collecting(call), call # NoCall, NEW cap \in Nat, TryAgain(cap),
         stream' = stream
  PROVE  TextInv'
<1>1. call = [op |-> call.op, texts |-> call.texts, built |-> call.built, cap |-> call.cap,
             retried |-> call.retried]
  BY Zenon DEF TextInv, CallOk
<1>2. PICK c : c = [op |-> call.op, texts |-> call.texts, built |-> call.built, cap |-> cap,
                    retried |-> TRUE]
  OBVIOUS
<1>3. call' = c /\ ret' = ret
  <2>1. call' = [call EXCEPT !.cap = cap, !.retried = TRUE] /\ ret' = ret
    BY DEF TryAgain
  <2>2. call' = c
    <3>1. call' = [op |-> call'.op, texts |-> call'.texts, built |-> call'.built,
                   cap |-> call'.cap, retried |-> call'.retried]
      BY <1>1, <2>1
    <3>2. /\ call'.op = call.op /\ call'.texts = call.texts /\ call'.built = call.built
          /\ call'.cap = cap /\ call'.retried = TRUE
      BY <1>1, <2>1
    <3>. QED BY <1>2, <3>1, <3>2, Zenon
  <2>. QED BY <2>1, <2>2, Zenon
<1>4. /\ c.op = call.op /\ c.texts = call.texts /\ c.built = call.built /\ c.cap = cap
      /\ c.retried = TRUE
  BY <1>2
<1>5. Collecting(c)
  BY <1>4, Zenon DEF Collecting
<1>6. CallOk(c)
  BY <1>2, <1>4, <1>5, Zenon DEF CallOk
<1>. QED BY <1>3, <1>6, Zenon DEF TextInv


\* The decoder of a stream goes on with the bytes of a piece.
LEMMA StreamGoesOn ==
  ASSUME NEW s, StreamOk(s), NEW bytes \in Seq(Bytes), NEW held,
         s.held = FALSE => held = FALSE,
         NEW d, d = decode_to_string(held, bytes, Len(bytes)),
         NEW t, t.held = d.held, t.text = s.text \o d.out, t.bytes = s.bytes \o bytes,
         t.whole => s.whole /\ Utf8(bytes)
  PROVE  StreamOk(t)
<1>1. s.bytes \in Seq(Bytes)
  BY Zenon DEF StreamOk
<1>2. t.bytes \in Seq(Bytes)
  BY <1>1, ConcatProperties
<1>3. ASSUME t.whole
      PROVE  Utf8(t.bytes) /\ t.held = FALSE /\ t.text = Decoded(t.bytes).out
  <2>1. Utf8(s.bytes) /\ s.held = FALSE /\ s.text = Decoded(s.bytes).out /\ Utf8(bytes)
    BY <1>3, Zenon DEF StreamOk
  <2>2. d = decode_to_string(FALSE, bytes, Len(bytes))
    BY <2>1, Zenon
  <2>3. /\ Decoded(t.bytes).out = Decoded(s.bytes).out \o d.out
        /\ d.held = FALSE
    <3>1. PICK p \in Seq(Bytes) : p = s.bytes /\ Utf8(p)
      BY <1>1, <2>1, Zenon
    <3>2. PICK r : r = p \o bytes
      OBVIOUS
    <3>3. t.bytes = r
      BY <3>1, <3>2, Zenon
    <3>4. /\ Decoded(r).out = Decoded(p).out \o decode_to_string(FALSE, bytes, Len(bytes)).out
          /\ decode_to_string(FALSE, bytes, Len(bytes)).held = FALSE
      BY <2>1, <3>1, <3>2, DecodedConcat, Zenon
    <3>. QED BY <2>2, <3>1, <3>3, <3>4, Zenon
  <2>4. Utf8(t.bytes)
    BY <1>1, <2>1, Utf8Concat, Zenon
  <2>. QED BY <2>1, <2>3, <2>4, Zenon
<1>. QED BY <1>2, <1>3, Zenon DEF StreamOk

\* A call for pieces ends.
LEMMA FinishOk ==
  ASSUME TextInv, call.op \in PieceOps, NEW bytes, NEW had, Cut(had, bytes),
         Finish(bytes, had)
  PROVE  TextInv'
<1>1. CASE call.op \in {"token_to_piece", "token_to_str"}
  <2>. DEFINE held == call.op = "token_to_piece" /\ stream.held
              d == decode_to_string(held, bytes, Len(bytes))
  <2>1. /\ Return("Ok", d.out, had)
        /\ stream' = IF call.op = "token_to_str" THEN stream
                     ELSE [held |-> d.held, text |-> stream.text \o d.out,
                           bytes |-> stream.bytes \o bytes,
                           whole |-> stream.whole /\ Utf8(bytes),
                           n |-> stream.n + 1]
    BY <1>1, Zenon DEF Finish, output_capacity
  <2>2. stream.held = FALSE => held = FALSE
    OBVIOUS
  <2>. HIDE DEF held, d
  <2>3. PICK r : r = [kind |-> "Ok", of |-> call.op, bytes |-> d.out, had |-> had]
    OBVIOUS
  <2>4. ReturnOk(r) /\ ret' = r /\ call' = NoCall
    BY <1>1, <2>1, <2>3 DEF ReturnOk, Return
  <2>5. StreamOk(stream')
    <3>1. CASE call.op = "token_to_str"
      BY <2>1, <3>1, Zenon DEF TextInv
    <3>2. CASE call.op # "token_to_str"
      <4>1. PICK t : t = [held |-> d.held, text |-> stream.text \o d.out,
                           bytes |-> stream.bytes \o bytes,
                           whole |-> stream.whole /\ Utf8(bytes),
                           n |-> stream.n + 1]
        OBVIOUS
      <4>2. /\ t.held = d.held /\ t.text = stream.text \o d.out
            /\ t.bytes = stream.bytes \o bytes /\ (t.whole => stream.whole /\ Utf8(bytes))
        BY <4>1
      <4>3. bytes \in Seq(Bytes) /\ StreamOk(stream)
        BY Zenon DEF Cut, TextInv
      <4>4. StreamOk(t)
        BY <2>2, <4>2, <4>3, StreamGoesOn, Zenon DEF d
      <4>. QED BY <2>1, <3>2, <4>1, <4>4, Zenon
    <3>. QED BY <3>1, <3>2
  <2>. QED BY <2>4, <2>5, Zenon DEF TextInv, CallOk
<1>2. CASE call.op \notin {"token_to_piece", "token_to_str"}
  <2>1. /\ stream' = stream
        /\ Fails("FromUtf8Error") \/ Return("Ok", bytes, had)
    BY <1>2, Zenon DEF Finish
  <2>2. CASE Fails("FromUtf8Error")
    <3>1. "FromUtf8Error" \notin {"Ok", "panic"}
      OBVIOUS
    <3>. QED BY <2>1, <2>2, <3>1, FailsOk, Zenon
  <2>3. CASE Return("Ok", bytes, had)
    <3>1. PICK r : r = [kind |-> "Ok", of |-> call.op, bytes |-> bytes, had |-> had]
      OBVIOUS
    <3>2. ret' = r /\ call' = NoCall
      BY <2>3, <3>1 DEF Return
    <3>3. r.kind = "Ok" /\ r.of = call.op /\ r.bytes = bytes /\ r.had = had
      BY <3>1
    <3>4. ReturnOk(r)
      BY <3>3 DEF ReturnOk
    <3>. QED BY <2>1, <3>2, <3>4, Returns, Zenon
  <2>. QED BY <2>1, <2>2, <2>3
<1>. QED BY <1>1, <1>2

\* One native call for a piece: none, too small, one of several, or the last.
LEMMA PieceOk ==
  ASSUME TextInv, Piece
  PROVE  TextInv'
<1>. DEFINE piece == call.texts[Len(call.built) + 1]
            built == Append(call.built, piece_bytes(piece, call.cap))
            n == Len(call.built) + 1
<1>0. /\ call.op \in PieceOps
      /\ \/ piece = <<>> /\ Fails("UnknownTokenType") /\ stream' = stream
         \/ /\ Len(piece) > call.cap
            /\ IF call.op \in {"token_to_piece", "token_to_str", "token_to_bytes"} /\ ~call.retried
               THEN TryAgain(Len(piece))
               ELSE Fails("InsufficientBufferSpace")
            /\ stream' = stream
         \/ /\ piece # <<>> /\ Len(piece) <= call.cap
            /\ IF Len(built) < Len(call.texts)
               THEN call' = [call EXCEPT !.built = built] /\ ret' = ret /\ stream' = stream
               ELSE Finish(joined(built), joined(call.texts))
  BY Zenon DEF Piece
<1>1. call # NoCall /\ call.op \notin OneTextOps
  BY <1>0 DEF NoCall, PieceOps, OneTextOps
<1>2. /\ Collecting(call) /\ call.cap \in Nat /\ call.retried \in BOOLEAN
      /\ call = [op |-> call.op, texts |-> call.texts, built |-> call.built, cap |-> call.cap,
             retried |-> call.retried]
  BY <1>1, Zenon DEF TextInv, CallOk, Asking
<1>3. /\ Len(call.texts) \in Nat /\ Len(call.built) \in Nat /\ n \in 1..Len(call.texts)
      /\ piece \in Seq(AnyBytes) /\ Len(piece) \in Nat
  <2>1. PICK S : S = Seq(Bytes)
    OBVIOUS
  <2>2. call.built \in Seq(S) /\ Len(call.built) < Len(call.texts) /\ Len(call.texts) \in Nat
    BY <1>2, <2>1, Zenon DEF Collecting
  <2>3. Len(call.built) \in Nat /\ n \in 1..Len(call.texts)
    BY <2>2
  <2>4. piece \in Seq(AnyBytes)
    BY <1>2, <2>3, Zenon DEF Collecting
  <2>. QED BY <2>2, <2>3, <2>4
<1>4. CASE piece = <<>> /\ Fails("UnknownTokenType") /\ stream' = stream
  <2>1. "UnknownTokenType" \notin {"Ok", "panic"}
    OBVIOUS
  <2>. QED BY <1>4, <2>1, FailsOk, Zenon
<1>5. CASE TryAgain(Len(piece)) /\ stream' = stream
  BY <1>1, <1>2, <1>3, <1>5, CollectAgain, Zenon
<1>6. CASE Fails("InsufficientBufferSpace") /\ stream' = stream
  <2>1. "InsufficientBufferSpace" \notin {"Ok", "panic"}
    OBVIOUS
  <2>. QED BY <1>6, <2>1, FailsOk, Zenon
<1>7. ASSUME piece # <<>>, Len(piece) <= call.cap
      PROVE  /\ built \in Seq(Seq(Bytes)) /\ Len(built) = n
             /\ Cuts(call.texts, built, n)
  <2>1. Cut(piece, piece_bytes(piece, call.cap))
    BY <1>2, <1>3, <1>7, PieceCut, Zenon
  <2>2. PICK b : b = piece_bytes(piece, call.cap)
    OBVIOUS
  <2>3. PICK S : S = Seq(Bytes)
    OBVIOUS
  <2>4. call.built \in Seq(S) /\ b \in S
    BY <1>2, <2>1, <2>2, <2>3, Zenon DEF Collecting, Cut
  <2>5. built = Append(call.built, b)
    BY <2>2, Zenon
  <2>. HIDE DEF built
  <2>6. /\ built \in Seq(S) /\ Len(built) = n
        /\ \A i \in 1..Len(call.built) : built[i] = call.built[i]
        /\ built[n] = b
    BY <2>4, <2>5, AppendProperties
  <2>7. \A i \in 1..n : i = n \/ i \in 1..Len(call.built)
    BY <1>3
  <2>8. \A i \in 1..Len(call.built) : call.texts[i] \in Seq(AnyBytes) /\ Cut(call.texts[i], call.built[i])
    BY <1>2, Zenon DEF Collecting, Cuts
  <2>9. ASSUME NEW i \in 1..n
        PROVE  call.texts[i] \in Seq(AnyBytes) /\ Cut(call.texts[i], built[i])
    <3>1. CASE i = n
      BY <1>3, <2>1, <2>2, <2>6, <3>1, Zenon
    <3>2. CASE i \in 1..Len(call.built)
      BY <2>6, <2>8, <3>2, Zenon
    <3>. QED BY <2>7, <3>1, <3>2, Zenon
  <2>10. Cuts(call.texts, built, n)
    BY <2>9, Zenon DEF Cuts
  <2>. QED BY <2>3, <2>6, <2>10, Zenon
<1>. HIDE DEF built
<1>8. CASE /\ piece # <<>> /\ Len(piece) <= call.cap /\ Len(built) < Len(call.texts)
           /\ call' = [call EXCEPT !.built = built] /\ ret' = ret /\ stream' = stream
  <2>1. call' = [op |-> call'.op, texts |-> call'.texts, built |-> call'.built,
                   cap |-> call'.cap, retried |-> call'.retried]
    BY <1>2, <1>8
  <2>2. /\ call'.op = call.op /\ call'.texts = call.texts /\ call'.built = built
        /\ call'.cap = call.cap /\ call'.retried = call.retried
    BY <1>2, <1>8
  <2>3. built \in Seq(Seq(Bytes)) /\ Len(built) = n /\ Cuts(call.texts, built, n)
    BY <1>7, <1>8, Zenon
  <2>4. Collecting(call')
    BY <1>2, <1>8, <2>2, <2>3, Zenon DEF Collecting
  <2>5. CallOk(call')
    BY <1>2, <2>1, <2>2, <2>4, Zenon DEF CallOk
  <2>. QED BY <1>8, <2>5, Zenon DEF TextInv
<1>9. CASE /\ piece # <<>> /\ Len(piece) <= call.cap /\ ~(Len(built) < Len(call.texts))
           /\ Finish(joined(built), joined(call.texts))
  <2>1. Len(built) = n /\ Cuts(call.texts, built, n)
    BY <1>7, <1>9, Zenon
  <2>2. n = Len(call.texts) /\ n \in Nat
    BY <1>3, <1>9, <2>1
  <2>3. Cut(joined(call.texts), joined(built))
    BY <2>1, <2>2, JoinedCut, Zenon
  <2>. QED BY <1>0, <1>9, <2>3, FinishOk, Zenon
<1>. QED BY <1>0, <1>4, <1>5, <1>6, <1>8, <1>9, Zenon


\* A call for a text is one that is being asked for.
LEMMA AskingCall ==
  ASSUME TextInv, call.op \in OneTextOps
  PROVE  /\ call # NoCall /\ Asking(call) /\ call.cap \in Nat
         /\ call.texts # <<>> => call.texts[1] \in Seq(AnyBytes) /\ Len(call.texts[1]) \in Nat
<1>1. call # NoCall /\ call.op \notin PieceOps
  BY DEF NoCall, PieceOps, OneTextOps
<1>2. Asking(call) /\ call.cap \in Nat
  BY <1>1, Zenon DEF TextInv, CallOk, Collecting
<1>3. call.texts # <<>> => call.texts[1] \in Seq(AnyBytes)
  BY <1>2, Zenon DEF Asking
<1>. QED BY <1>1, <1>2, <1>3

\* The steps of the calls for one text.
LEMMA TokenizeOk ==
  ASSUME TextInv, Tokenize
  PROVE  TextInv'
<1>. DEFINE tokens == call.texts[1]
<1>0. /\ call.op = "str_to_token" /\ stream' = stream
      /\ \/ call.texts = <<>> /\ Return("panic", <<>>, TooMany)
         \/ /\ call.texts # <<>> /\ Len(tokens) > call.cap
            /\ IF call.retried THEN Fails("panic") ELSE TryAgain(Len(tokens))
         \/ /\ call.texts # <<>> /\ Len(tokens) <= call.cap
            /\ Return("Ok", Buffer(tokens, call.cap, Len(tokens), "?"), tokens)
  BY Zenon DEF Tokenize, tokenize_retry
<1>1. /\ call # NoCall /\ Asking(call) /\ call.cap \in Nat
      /\ call.texts # <<>> => tokens \in Seq(AnyBytes) /\ Len(tokens) \in Nat
  <2>1. call.op \in OneTextOps
    BY <1>0 DEF OneTextOps
  <2>. QED BY <2>1, AskingCall, Zenon
<1>2. CASE Return("panic", <<>>, TooMany)
  <2>1. PICK r : r = [kind |-> "panic", of |-> call.op, bytes |-> <<>>, had |-> TooMany]
    OBVIOUS
  <2>2. ReturnOk(r)
    BY <2>1 DEF ReturnOk
  <2>3. ret' = r /\ call' = NoCall
    BY <1>2, <2>1 DEF Return
  <2>. QED BY <1>0, <2>2, <2>3, Returns, Zenon
<1>3. CASE call.texts # <<>> /\ Len(tokens) > call.cap
  <2>1. ~call.retried
    <3>1. call.op # "extract_meta_string" /\ ~(Len(tokens) <= call.cap)
      BY <1>0, <1>1, <1>3
    <3>. QED BY <1>1, <1>3, <3>1, Zenon DEF Asking
  <2>2. TryAgain(Len(tokens))
    <3>1. ~(Len(tokens) <= call.cap)
      BY <1>1, <1>3
    <3>2. call.texts # <<>>
      BY <1>3
    <3>. QED BY <1>0, <2>1, <3>1, <3>2, Zenon
  <2>3. call.op # "extract_meta_string" /\ Len(tokens) <= Len(tokens)
    BY <1>0, <1>1, <1>3
  <2>. QED BY <1>0, <1>1, <1>3, <2>2, <2>3, AskAgain, Zenon
<1>4. CASE /\ call.texts # <<>> /\ Len(tokens) <= call.cap
           /\ Return("Ok", Buffer(tokens, call.cap, Len(tokens), "?"), tokens)
  <2>1. Buffer(tokens, call.cap, Len(tokens), "?") = tokens
    BY <1>1, <1>4, BufferWhole, Zenon
  <2>2. Return("Ok", tokens, tokens)
    BY <1>4, <2>1, Zenon
  <2>. QED BY <1>0, <2>2, ReturnsAll, Zenon
<1>. QED BY <1>0, <1>2, <1>3, <1>4, Zenon

LEMMA MetaOk ==
  ASSUME TextInv, Meta
  PROVE  TextInv'
<1>. DEFINE text == call.texts[1]
<1>0. /\ call.op = "extract_meta_string" /\ stream' = stream
      /\ \/ Fails("NegativeReturn")
         \/ /\ call.texts # <<>> /\ Len(text) >= call.cap
            /\ TryAgain(Len(text) + 1)
         \/ /\ call.texts # <<>> /\ Len(text) < call.cap
            /\ IF Utf8(text)
               THEN Return("Ok", Buffer(text, call.cap - 1, Len(text), "n"), text)
               ELSE Fails("FromUtf8Error")
  BY Zenon DEF Meta, meta_retry
<1>1. /\ call # NoCall /\ Asking(call) /\ call.cap \in Nat
      /\ call.texts # <<>> => text \in Seq(AnyBytes) /\ Len(text) \in Nat
  <2>1. call.op \in OneTextOps
    BY <1>0 DEF OneTextOps
  <2>. QED BY <2>1, AskingCall, Zenon
<1>2. CASE Fails("NegativeReturn") \/ Fails("FromUtf8Error")
  <2>1. "NegativeReturn" \notin {"Ok", "panic"} /\ "FromUtf8Error" \notin {"Ok", "panic"}
    OBVIOUS
  <2>. QED BY <1>0, <1>2, <2>1, FailsOk, Zenon
<1>3. CASE call.texts # <<>> /\ TryAgain(Len(text) + 1)
  <2>1. Len(text) + 1 \in Nat /\ Len(text) <= Len(text) + 1 /\ Len(text) < Len(text) + 1
    BY <1>1, <1>3
  <2>. QED BY <1>0, <1>1, <1>3, <2>1, AskAgain, Zenon
<1>4. CASE /\ call.texts # <<>> /\ Len(text) < call.cap
           /\ Return("Ok", Buffer(text, call.cap - 1, Len(text), "n"), text)
  <2>1. PICK room \in Nat : room = call.cap - 1 /\ Len(text) <= room
    BY <1>1, <1>4
  <2>2. Buffer(text, room, Len(text), "n") = text
    BY <1>1, <1>4, <2>1, BufferWhole, Zenon
  <2>3. Return("Ok", text, text)
    BY <1>4, <2>1, <2>2, Zenon
  <2>. QED BY <1>0, <2>3, ReturnsAll, Zenon
<1>. QED BY <1>0, <1>2, <1>3, <1>4, Zenon

LEMMA ApplyTemplateOk ==
  ASSUME TextInv, ApplyTemplate
  PROVE  TextInv'
<1>. DEFINE text == call.texts[1]
<1>0. /\ call.op = "apply_chat_template" /\ stream' = stream
      /\ \/ Fails("FfiError")
         \/ /\ call.texts # <<>> /\ Len(text) > call.cap
            /\ IF call.retried THEN Fails("panic") ELSE TryAgain(Len(text))
         \/ /\ call.texts # <<>> /\ Len(text) <= call.cap
            /\ IF Utf8(text)
               THEN Return("Ok", Buffer(text, call.cap, Len(text), "n"), text)
               ELSE Fails("FromUtf8Error")
  BY Zenon DEF ApplyTemplate
<1>1. /\ call # NoCall /\ Asking(call) /\ call.cap \in Nat
      /\ call.texts # <<>> => text \in Seq(AnyBytes) /\ Len(text) \in Nat
  <2>1. call.op \in OneTextOps
    BY <1>0 DEF OneTextOps
  <2>. QED BY <2>1, AskingCall, Zenon
<1>2. CASE Fails("FfiError") \/ Fails("FromUtf8Error")
  <2>1. "FfiError" \notin {"Ok", "panic"} /\ "FromUtf8Error" \notin {"Ok", "panic"}
    OBVIOUS
  <2>. QED BY <1>0, <1>2, <2>1, FailsOk, Zenon
<1>3. CASE /\ call.texts # <<>> /\ Len(text) > call.cap
           /\ IF call.retried THEN Fails("panic") ELSE TryAgain(Len(text))
  <2>1. ~call.retried
    <3>1. call.op # "extract_meta_string" /\ ~(Len(text) <= call.cap)
      BY <1>0, <1>1, <1>3
    <3>. QED BY <1>1, <1>3, <3>1, Zenon DEF Asking
  <2>2. TryAgain(Len(text))
    BY <1>3, <2>1, Zenon
  <2>3. call.op # "extract_meta_string" /\ Len(text) <= Len(text)
    BY <1>0, <1>1, <1>3
  <2>. QED BY <1>0, <1>1, <1>3, <2>2, <2>3, AskAgain, Zenon
<1>4. CASE /\ call.texts # <<>> /\ Len(text) <= call.cap
           /\ Return("Ok", Buffer(text, call.cap, Len(text), "n"), text)
  <2>1. Buffer(text, call.cap, Len(text), "n") = text
    BY <1>1, <1>4, BufferWhole, Zenon
  <2>2. Return("Ok", text, text)
    BY <1>4, <2>1, Zenon
  <2>. QED BY <1>0, <2>2, ReturnsAll, Zenon
<1>. QED BY <1>0, <1>2, <1>3, <1>4, Zenon

\* The calls that begin.
LEMMA OfferPiece ==
  ASSUME TextInv, NEW op \in PieceOps, NEW p \in Pieces, NEW cap \in Nat, Offer(op, <<p>>, cap)
  PROVE  TextInv'
<1>1. p \in Seq(AnyBytes)
  BY TextAssumption, Zenon DEF TextAssumption, AnyBytes
<1>2. Len(<<p>>) = 1 /\ \A i \in 1..1 : <<p>>[i] = p
  OBVIOUS
<1>3. 1 \in Nat /\ 0 < 1
  OBVIOUS
<1>. QED BY <1>1, <1>2, <1>3, OfferPieces, Zenon

LEMMA OfferTwo ==
  ASSUME TextInv, NEW p \in Pieces, NEW q \in Pieces, TokensToStr(<<p, q>>)
  PROVE  TextInv'
<1>1. p \in Seq(AnyBytes) /\ q \in Seq(AnyBytes)
  BY TextAssumption, Zenon DEF TextAssumption, AnyBytes
<1>2. PICK t : t = <<p, q>>
  OBVIOUS
<1>3. Len(t) = 2 /\ \A i \in 1..2 : t[i] = p \/ t[i] = q
  BY <1>2
<1>4. 2 \in Nat /\ 0 < 2 /\ PieceBuffer \in Nat /\ "tokens_to_str" \in PieceOps
  BY TextAssumption DEF TextAssumption, PieceOps
<1>5. Offer("tokens_to_str", t, PieceBuffer)
  BY <1>2, Zenon DEF TokensToStr
<1>6. \A i \in 1..2 : t[i] \in Seq(AnyBytes)
  BY <1>1, <1>3, Zenon
<1>. QED BY <1>3, <1>4, <1>5, <1>6, OfferPieces, Zenon

LEMMA StrToTokenOk ==
  ASSUME TextInv, NEW s \in Nat, NEW add_bos, NEW n \in Nat, StrToToken(s, add_bos, n)
  PROVE  TextInv'
<1>. DEFINE estimate == (s \div 2) + (IF add_bos THEN 1 ELSE 0)
            cap == IF estimate > PieceBuffer THEN estimate ELSE PieceBuffer
            texts == <<[i \in 1..n |-> "a"]>>
<1>1. cap \in Nat
  BY TextAssumption DEF TextAssumption
<1>2. texts[1] \in Seq(AnyBytes)
  BY DEF AnyBytes
<1>3. Offer("str_to_token", texts, cap) /\ "str_to_token" \in OneTextOps
  BY Zenon DEF StrToToken, OneTextOps
<1>. HIDE DEF cap, texts
<1>. QED BY <1>1, <1>2, <1>3, OfferOne, Zenon

\* One text of metadata, or a prompt, or none.
LEMMA OfferText ==
  ASSUME TextInv, NEW op \in OneTextOps, NEW texts \in {<<>>} \cup {<<text>> : text \in Texts},
         NEW cap \in Nat, Offer(op, texts, cap)
  PROVE  TextInv'
<1>1. texts # <<>> => texts[1] \in Texts
  <2>1. CASE texts = <<>>
    BY <2>1
  <2>2. CASE texts # <<>>
    <3>1. PICK text \in Texts : texts = <<text>>
      BY <2>2
    <3>. QED BY <3>1
  <2>. QED BY <2>1, <2>2
<1>2. texts # <<>> => texts[1] \in Seq(AnyBytes)
  BY <1>1, TextAssumption, Zenon DEF TextAssumption, AnyBytes
<1>. QED BY <1>2, OfferOne, Zenon

\* A call that llama.cpp has no part in.
LEMMA KnownOk ==
  ASSUME TextInv, NEW kind, NEW op, NEW bytes, kind # "panic", call' = call, stream' = stream,
         ret' = [kind |-> kind, of |-> op, bytes |-> bytes, had |-> bytes]
  PROVE  TextInv'
<1>1. PICK r : r = [kind |-> kind, of |-> op, bytes |-> bytes, had |-> bytes]
  OBVIOUS
<1>2. ReturnOk(r)
  BY <1>1 DEF ReturnOk
<1>. QED BY <1>1, <1>2, Zenon DEF TextInv

\* Every step keeps the invariant.
LEMMA TextInvNext == TextInv /\ [TextNext]_textVars => TextInv'
<1>. SUFFICES ASSUME TextInv, [TextNext]_textVars PROVE TextInv'
  OBVIOUS
<1>0. PieceBuffer \in Nat /\ MetaBuffer \in Nat /\ MaxString \in Nat
  BY TextAssumption DEF TextAssumption
<1>1. CASE Native
  BY <1>1, TokenizeOk, PieceOk, MetaOk, ApplyTemplateOk, Zenon DEF Native
<1>2. ASSUME NEW s \in 0..MaxString, NEW add_bos \in BOOLEAN, NEW n \in 0..s + 2,
             StrToToken(s, add_bos, n)
      PROVE  TextInv'
  <2>1. s \in Nat /\ n \in Nat
    BY <1>0
  <2>. QED BY <1>2, <2>1, StrToTokenOk, Zenon
<1>3. CASE StrToTokenRefused
  <2>1. ASSUME NEW kind \in {"NulError", "CIntConversionError"}, call' = call, stream' = stream,
               ret' = [kind |-> kind, of |-> "str_to_token", bytes |-> <<>>, had |-> <<>>]
        PROVE  TextInv'
    <3>1. kind # "panic"
      OBVIOUS
    <3>. QED BY <2>1, <3>1, KnownOk, Zenon
  <2>2. ASSUME call' = call, stream' = stream,
               ret' = [kind |-> "panic", of |-> "str_to_token", bytes |-> <<>>, had |-> TooMany]
        PROVE  TextInv'
    <3>1. PICK r : r = [kind |-> "panic", of |-> "str_to_token", bytes |-> <<>>, had |-> TooMany]
      OBVIOUS
    <3>2. ReturnOk(r)
      BY <3>1 DEF ReturnOk
    <3>. QED BY <2>2, <3>1, <3>2, Zenon DEF TextInv
  <2>. QED BY <1>3, <2>1, <2>2, Zenon DEF StrToTokenRefused
<1>4. CASE StrToTokenOverflows
  <2>1. "str_to_token" \in OneTextOps /\ ~(<<>> # <<>>)
    BY DEF OneTextOps
  <2>. QED BY <1>0, <1>4, <2>1, OfferOne, Zenon DEF StrToTokenOverflows
<1>5. ASSUME NEW p \in Pieces,
             TokenToPiece(p) \/ TokenToStr(p) \/ TokenToBytes(p)
      PROVE  TextInv'
  <2>1. {"token_to_piece", "token_to_str", "token_to_bytes"} \subseteq PieceOps
    BY DEF PieceOps
  <2>. QED BY <1>0, <1>5, <2>1, OfferPiece DEF TokenToPiece, TokenToStr, TokenToBytes
<1>6. ASSUME NEW p \in Pieces, NEW size \in 0..PieceBuffer + 1,
             \/ TokenToPieceBytes(p, size) \/ TokenToStrWithSize(p, size)
             \/ TokenToBytesWithSize(p, size)
      PROVE  TextInv'
  <2>1. {"token_to_piece_bytes", "token_to_str_with_size", "token_to_bytes_with_size"} \subseteq PieceOps
    BY DEF PieceOps
  <2>2. size \in Nat
    BY <1>0
  <2>3. ASSUME NEW op \in PieceOps, Offer(op, <<p>>, size) PROVE TextInv'
    BY <2>2, <2>3, OfferPiece, Zenon
  <2>4. CASE TokenToPieceBytes(p, size)
    BY <2>1, <2>3, <2>4 DEF TokenToPieceBytes
  <2>5. CASE TokenToStrWithSize(p, size)
    BY <2>1, <2>3, <2>5 DEF TokenToStrWithSize
  <2>6. CASE Offer("token_to_bytes_with_size", <<p>>, size)
    BY <2>1, <2>3, <2>6
  <2>7. ASSUME NEW known \in {<<"a">>, <<>>}, call' = call, stream' = stream,
               ret' = [kind |-> "Ok", of |-> "token_to_bytes_with_size",
                       bytes |-> known, had |-> known]
        PROVE  TextInv'
    <3>1. "Ok" # "panic"
      OBVIOUS
    <3>. QED BY <2>7, <3>1, KnownOk, Zenon
  <2>. QED BY <1>6, <2>4, <2>5, <2>6, <2>7, Zenon DEF TokenToBytesWithSize
<1>7. ASSUME NEW p \in Pieces, NEW q \in Pieces, TokensToStr(<<p, q>>)
      PROVE  TextInv'
  BY <1>7, OfferTwo, Zenon
<1>8. ASSUME NEW texts \in {<<>>} \cup {<<text>> : text \in Texts}, MetaString(texts)
      PROVE  TextInv'
  <2>1. "extract_meta_string" \in OneTextOps
    BY DEF OneTextOps
  <2>. QED BY <1>0, <1>8, <2>1, OfferText, Zenon DEF MetaString
<1>9. ASSUME NEW texts \in {<<>>} \cup {<<text>> : text \in Texts}, NEW m \in 0..PieceBuffer,
             ApplyChatTemplate(texts, m)
      PROVE  TextInv'
  <2>1. "apply_chat_template" \in OneTextOps /\ 2 * m \in Nat
    BY <1>0 DEF OneTextOps
  <2>. QED BY <1>9, <2>1, OfferText, Zenon DEF ApplyChatTemplate
<1>10. ASSUME NEW name, ChatTemplate(name)
       PROVE  TextInv'
  <2>1. PICK kind \in {"MissingTemplate", "Ok"} :
             /\ call' = call /\ stream' = stream
             /\ ret' = [kind |-> kind, of |-> "chat_template", bytes |-> <<>>, had |-> <<>>]
    BY <1>10 DEF ChatTemplate
  <2>2. kind # "panic"
    OBVIOUS
  <2>. QED BY <2>1, <2>2, KnownOk, Zenon
<1>11. CASE UNCHANGED textVars
  BY <1>11, Zenon DEF textVars, TextInv
<1>. QED BY <1>1, <1>2, <1>3, <1>4, <1>5, <1>6, <1>7, <1>8, <1>9, <1>10, <1>11, Zenon DEF TextNext

\* A call that succeeds returns all that llama.cpp had, or a piece with a null byte
\* up to there, whatever the size of the buffer and at whichever try; and only more
\* tokens or bytes than a c_int counts panic: the conventions by which str_to_token,
\* token_to_piece, extract_meta_string and apply_chat_template try again are right.
THEOREM CallsReturnTheWhole == TextSpec => []OkIsWhole
<1>1. TextSpec => []TextInv
  BY TextInvInit, TextInvNext, PTL DEF TextSpec
<1>. QED BY <1>1, TextInvImplies, PTL

\* token_to_piece returns a stream of pieces, each of them whole characters, as it
\* is: the string of the piece's own size never makes the decoder stop.
THEOREM StreamsDeliverWholeCharacters == TextSpec => []WholeCharactersDelivered
<1>1. TextSpec => []TextInv
  BY TextInvInit, TextInvNext, PTL DEF TextSpec
<1>. QED BY <1>1, TextInvImplies, PTL

\* What a step of a call that is under way may do: end it, read one more of its
\* pieces, or begin the second try, which is the last one.
EndsOrGoesOn ==
  \/ call' = NoCall
  \/ /\ call'.texts = call.texts /\ call'.retried = call.retried
     /\ Len(call'.built) = Len(call.built) + 1 /\ Len(call'.built) < Len(call'.texts)
  \/ /\ call'.texts = call.texts /\ call'.built = call.built
     /\ ~call.retried /\ call'.retried

LEMMA TryAgainIs ==
  ASSUME TextInv, call # NoCall, ~call.retried, NEW cap, TryAgain(cap)
  PROVE  EndsOrGoesOn
<1>1. call = [op |-> call.op, texts |-> call.texts, built |-> call.built, cap |-> call.cap,
             retried |-> call.retried]
  BY Zenon DEF TextInv, CallOk
<1>2. call' = [call EXCEPT !.cap = cap, !.retried = TRUE]
  BY DEF TryAgain
<1>3. call'.texts = call.texts /\ call'.built = call.built /\ call'.retried = TRUE
  BY <1>1, <1>2
<1>. QED BY <1>3, Zenon DEF EndsOrGoesOn

LEMMA AskingGoesOn ==
  ASSUME TextInv, Tokenize \/ Meta \/ ApplyTemplate
  PROVE  EndsOrGoesOn
<1>. DEFINE text == call.texts[1]
<1>1. call.op \in OneTextOps
  BY DEF Tokenize, Meta, ApplyTemplate, OneTextOps
<1>2. /\ call # NoCall /\ Asking(call) /\ call.cap \in Nat
      /\ call.texts # <<>> => Len(text) \in Nat
  BY <1>1, AskingCall, Zenon
<1>3. \/ call' = NoCall
      \/ call.texts # <<>> /\ ~call.retried /\ \E cap \in {Len(text)} : TryAgain(cap)
      \/ call.op = "extract_meta_string" /\ call.texts # <<>> /\ Len(text) >= call.cap
         /\ TryAgain(Len(text) + 1)
  BY DEF Tokenize, Meta, ApplyTemplate, tokenize_retry, meta_retry, Fails, Return
<1>4. CASE call.op = "extract_meta_string" /\ call.texts # <<>> /\ Len(text) >= call.cap
           /\ TryAgain(Len(text) + 1)
  <2>1. ~(Len(text) < call.cap)
    BY <1>2, <1>4
  <2>2. ~call.retried
    BY <1>2, <1>4, <2>1, Zenon DEF Asking
  <2>. QED BY <1>2, <1>4, <2>2, TryAgainIs, Zenon
<1>. QED BY <1>2, <1>3, <1>4, TryAgainIs, Zenon DEF EndsOrGoesOn

LEMMA PieceGoesOn ==
  ASSUME TextInv, Piece
  PROVE  EndsOrGoesOn
<1>. DEFINE piece == call.texts[Len(call.built) + 1]
            built == Append(call.built, piece_bytes(piece, call.cap))
<1>1. call.op \in PieceOps
  BY DEF Piece
<1>2. call # NoCall /\ call.op \notin OneTextOps
  BY <1>1 DEF NoCall, PieceOps, OneTextOps
<1>3. /\ Collecting(call)
      /\ call = [op |-> call.op, texts |-> call.texts, built |-> call.built, cap |-> call.cap,
             retried |-> call.retried]
  BY <1>2, Zenon DEF TextInv, CallOk, Asking
<1>4. \/ call' = NoCall
      \/ ~call.retried /\ TryAgain(Len(piece))
      \/ Len(built) < Len(call.texts) /\ call' = [call EXCEPT !.built = built]
  BY Zenon DEF Piece, Fails, Return, Finish
<1>5. CASE Len(built) < Len(call.texts) /\ call' = [call EXCEPT !.built = built]
  <2>. HIDE DEF built
  <2>1. call'.texts = call.texts /\ call'.retried = call.retried /\ call'.built = built
    BY <1>3, <1>5
  <2>2. Len(built) = Len(call.built) + 1
    <3>1. PICK S : call.built \in Seq(S)
      BY <1>3, Zenon DEF Collecting
    <3>2. Len(call.built) \in Nat
      BY <3>1
    <3>3. \A e : Len(Append(call.built, e)) = Len(call.built) + 1
      BY <3>1
    <3>. QED BY <3>3, Zenon DEF built
  <2>. QED BY <1>5, <2>1, <2>2, Zenon DEF EndsOrGoesOn
<1>. QED BY <1>2, <1>4, <1>5, TryAgainIs, Zenon DEF EndsOrGoesOn

\* No call goes on forever, whatever the sizes: each of its native calls ends it,
\* reads the next of its pieces, or begins its only second try.
THEOREM CallsComeToAnEnd == TextSpec => [][call # NoCall => EndsOrGoesOn]_textVars
<1>1. TextSpec => []TextInv
  BY TextInvInit, TextInvNext, PTL DEF TextSpec
<1>2. TextInv /\ [TextNext]_textVars => [call # NoCall => EndsOrGoesOn]_textVars
  <2>. SUFFICES ASSUME TextInv, TextNext, call # NoCall PROVE EndsOrGoesOn
    OBVIOUS
  <2>1. Native
    BY Zenon DEF TextNext, StrToToken, StrToTokenOverflows, StrToTokenRefused, TokenToPiece,
       TokenToStr, TokenToBytes, TokenToPieceBytes, TokenToStrWithSize, TokenToBytesWithSize,
       TokensToStr, MetaString, ApplyChatTemplate, ChatTemplate, Offer
  <2>. QED BY <2>1, AskingGoesOn, PieceGoesOn, Zenon DEF Native
<1>. QED BY <1>1, <1>2, PTL DEF TextSpec

-----------------------------------------------------------------------------
(* The llguidance sampler                                                   *)

Letters == AnyBytes \cup {Marker}

\* The text of a token in a generation.
spoken(t) == IF Vocab[t].text # <<>> THEN Vocab[t].text ELSE <<Marker>> \o Vocab[t].special

LEMMA WiderSeq ==
  ASSUME NEW A, NEW B, A \subseteq B, NEW s \in Seq(A)
  PROVE  s \in Seq(B)
  OBVIOUS

LEMMA NullInConcat ==
  ASSUME NEW p \in Seq(Letters), NEW q \in Seq(Letters), HasNull(p) \/ HasNull(q)
  PROVE  HasNull(p \o q)
<1>1. /\ DOMAIN (p \o q) = 1..(Len(p) + Len(q))
      /\ \A i \in 1..Len(p) : (p \o q)[i] = p[i]
      /\ \A i \in 1..Len(q) : (p \o q)[Len(p) + i] = q[i]
      /\ Len(p) \in Nat /\ Len(q) \in Nat /\ DOMAIN p = 1..Len(p) /\ DOMAIN q = 1..Len(q)
  BY ConcatProperties
<1>2. CASE HasNull(p)
  <2>1. PICK i \in 1..Len(p) : p[i] = "n"
    BY <1>1, <1>2, Zenon DEF HasNull
  <2>2. i \in DOMAIN (p \o q) /\ (p \o q)[i] = "n"
    BY <1>1, <2>1
  <2>. QED BY <2>2, Zenon DEF HasNull
<1>3. CASE HasNull(q)
  <2>1. PICK i \in 1..Len(q) : q[i] = "n"
    BY <1>1, <1>3, Zenon DEF HasNull
  <2>2. Len(p) + i \in DOMAIN (p \o q) /\ (p \o q)[Len(p) + i] = "n"
    BY <1>1, <2>1
  <2>. QED BY <2>2, Zenon DEF HasNull
<1>. QED BY <1>2, <1>3

LEMMA VocabIs ==
  ASSUME NEW t \in Tokens
  PROVE  /\ Vocab[t].special \in Seq(AnyBytes) /\ Vocab[t].text \in Seq(AnyBytes)
         /\ Vocab[t].text = <<>> \/ Vocab[t].text = Vocab[t].special
         /\ spoken(t) \in Seq(Letters)
<1>1. /\ Vocab[t].special \in Seq(AnyBytes)
      /\ Vocab[t].text = <<>> \/ Vocab[t].text = Vocab[t].special
  BY VocabAssumption DEF VocabAssumption, AnyBytes
<1>2. Vocab[t].text \in Seq(AnyBytes)
  <2>1. <<>> \in Seq(AnyBytes)
    OBVIOUS
  <2>. QED BY <1>1, <2>1, Zenon
<1>3. Vocab[t].text \in Seq(Letters) /\ Vocab[t].special \in Seq(Letters)
  <2>1. AnyBytes \subseteq Letters
    BY DEF Letters
  <2>. QED BY <1>1, <1>2, <2>1, WiderSeq, Zenon
<1>4. <<Marker>> \o Vocab[t].special \in Seq(Letters)
  <2>1. <<Marker>> \in Seq(Letters)
    BY DEF Letters
  <2>. QED BY <1>3, <2>1, ConcatProperties
<1>. QED BY <1>1, <1>2, <1>3, <1>4, Zenon DEF spoken

\* A piece that is kept fits the buffer.
LEMMA BytesOrNone ==
  ASSUME NEW p \in Seq(AnyBytes), bytes_or_none(p) # <<>>
  PROVE  Cut(p, bytes_or_none(p)) /\ p # <<>> /\ Len(p) <= PieceBuffer
<1>1. PieceBuffer \in Nat
  BY TextAssumption DEF TextAssumption
<1>2. Len(p) \in 1..PieceBuffer /\ bytes_or_none(p) = piece_bytes(p, PieceBuffer)
  BY Zenon DEF bytes_or_none
<1>3. Len(p) <= PieceBuffer /\ p # <<>>
  BY <1>1, <1>2
<1>. QED BY <1>1, <1>2, <1>3, PieceCut, Zenon

\* A piece that fits has bytes, unless its first one is a null byte.
LEMMA BytesOrNull ==
  ASSUME NEW p \in Seq(AnyBytes), p # <<>>, Len(p) <= PieceBuffer, bytes_or_none(p) = <<>>
  PROVE  HasNull(p)
<1>1. PieceBuffer \in Nat
  BY TextAssumption DEF TextAssumption
<1>2. Len(p) \in 1..PieceBuffer
  BY <1>1
<1>3. bytes_or_none(p) = piece_bytes(p, PieceBuffer)
  BY <1>2, Zenon DEF bytes_or_none
<1>4. Cut(p, <<>>)
  BY <1>1, <1>3, PieceCut, Zenon
<1>. QED BY <1>4, Zenon DEF Cut

\* The matcher knows a token by its text, unless that has a null byte.
LEMMA WordIsSpoken ==
  ASSUME NEW t \in Tokens, word(t) # <<>>
  PROVE  word(t) = spoken(t) \/ HasNull(spoken(t))
<1>. DEFINE text == Vocab[t].text
            special == Vocab[t].special
<1>1. /\ special \in Seq(AnyBytes) /\ text \in Seq(AnyBytes)
      /\ text = <<>> \/ text = special
  BY VocabIs, Zenon
<1>2. CASE bytes_or_none(text) # <<>>
  <2>1. word(t) = bytes_or_none(text)
    BY <1>2, Zenon DEF word
  <2>2. Cut(text, bytes_or_none(text)) /\ text # <<>>
    BY <1>1, <1>2, BytesOrNone, Zenon
  <2>3. spoken(t) = text
    BY <2>2, Zenon DEF spoken
  <2>. QED BY <2>1, <2>2, <2>3, Zenon DEF Cut
<1>3. CASE bytes_or_none(text) = <<>>
  <2>1. bytes_or_none(special) # <<>> /\ word(t) = <<Marker>> \o bytes_or_none(special)
    BY <1>3, Zenon DEF word
  <2>2. Cut(special, bytes_or_none(special)) /\ special # <<>> /\ Len(special) <= PieceBuffer
    BY <1>1, <2>1, BytesOrNone, Zenon
  <2>3. CASE text = <<>>
    <3>1. spoken(t) = <<Marker>> \o special
      BY <2>3, Zenon DEF spoken
    <3>2. CASE bytes_or_none(special) = special
      BY <2>1, <3>1, <3>2, Zenon
    <3>3. CASE HasNull(special)
      <4>1. <<Marker>> \in Seq(Letters) /\ AnyBytes \subseteq Letters
        BY DEF Letters
      <4>2. special \in Seq(Letters)
        BY <1>1, <4>1, WiderSeq, Zenon
      <4>3. HasNull(<<Marker>> \o special)
        BY <3>3, <4>1, <4>2, NullInConcat, Zenon
      <4>. QED BY <3>1, <4>3, Zenon
    <3>. QED BY <2>2, <3>2, <3>3, Zenon DEF Cut
  <2>4. CASE text = special
    <3>1. HasNull(text)
      BY <1>1, <1>3, <2>2, <2>4, BytesOrNull, Zenon
    <3>2. spoken(t) = text
      BY <2>2, <2>4, Zenon DEF spoken
    <3>. QED BY <3>1, <3>2, Zenon
  <2>. QED BY <1>1, <2>3, <2>4
<1>. QED BY <1>2, <1>3

\* A sampler that was only given tokens of its masks keeps to the grammar.
Faithful(m) ==
  /\ m.state # "poisoned"
  /\ Expected(m.read)
  /\ m.text \in Seq(Letters) /\ (m.text = m.read \/ HasNull(m.text))
  /\ m.state = "stopped" => Complete(m.read)

SamplerOk(m) ==
  /\ m = [state |-> m.state, read |-> m.read, text |-> m.text, fed |-> m.fed]
  /\ m.state \in {"none", "running", "stopped", "poisoned"} /\ m.fed \in BOOLEAN
  /\ m.fed = FALSE => Faithful(m)

LlgInv ==
  /\ llg = [k \in Samplers |-> llg[k]]
  /\ \A k \in Samplers : SamplerOk(llg[k])

\* A matcher begins at the beginning of a text.
LEMMA ExpectedNothing == Expected(<<>>)
<1>1. PICK x \in Language : x \in Seq(AnyBytes \cup {Marker})
  BY LanguageAssumption DEF LanguageAssumption, AnyBytes
<1>2. 0 \in 0..Len(x) /\ <<>> = SubSeq(x, 1, 0)
  BY <1>1
<1>. QED BY <1>2, Zenon DEF Expected

LEMMA FreshOk == SamplerOk(Fresh) /\ SamplerOk(NoSampler)
<1>1. <<>> \in Seq(Letters)
  OBVIOUS
<1>2. /\ Fresh.state = "running" /\ Fresh.read = <<>> /\ Fresh.text = <<>> /\ Fresh.fed = FALSE
      /\ NoSampler.state = "none" /\ NoSampler.read = <<>> /\ NoSampler.text = <<>>
      /\ NoSampler.fed = FALSE
  BY DEF Fresh, NoSampler
<1>3. Faithful(Fresh) /\ Faithful(NoSampler)
  BY <1>1, <1>2, ExpectedNothing DEF Faithful
<1>4. /\ Fresh = [state |-> Fresh.state, read |-> Fresh.read, text |-> Fresh.text, fed |-> Fresh.fed]
      /\ NoSampler = [state |-> NoSampler.state, read |-> NoSampler.read,
                      text |-> NoSampler.text, fed |-> NoSampler.fed]
  BY DEF Fresh, NoSampler
<1>. QED BY <1>2, <1>3, <1>4 DEF SamplerOk

LEMMA ResetOk ==
  ASSUME NEW m, SamplerOk(m)
  PROVE  SamplerOk(llg_reset(m))
BY FreshOk, Zenon DEF llg_reset

\* What accept does: the fields that it leaves alone and the states it may reach.
LEMMA AcceptIs ==
  ASSUME NEW m, SamplerOk(m), NEW t \in Tokens
  PROVE  /\ llg_accept(m, t) = [state |-> llg_accept(m, t).state, read |-> llg_accept(m, t).read,
                                text |-> m.text, fed |-> m.fed]
         /\ llg_accept(m, t).state \in {"none", "running", "stopped", "poisoned"}
<1>. /\ m = [state |-> m.state, read |-> m.read, text |-> m.text, fed |-> m.fed]
     /\ m.state \in {"none", "running", "stopped", "poisoned"}
  BY Zenon DEF SamplerOk
<1>. PICK a : a = llg_accept(m, t)
  OBVIOUS
<1>. DEFINE n == [m EXCEPT !.read = m.read \o word(t)]
<1>1. \/ a = m
      \/ a = [m EXCEPT !.state = "poisoned"] \/ a = [m EXCEPT !.state = "stopped"]
      \/ a = n \/ a = [n EXCEPT !.state = "stopped"]
  BY Zenon DEF llg_accept, consume_token
<1>2. n = [state |-> m.state, read |-> m.read \o word(t), text |-> m.text, fed |-> m.fed]
  <2>1. PICK d : d = [m EXCEPT !.read = m.read \o word(t)]
    OBVIOUS
  <2>2. d = [state |-> d.state, read |-> d.read, text |-> d.text, fed |-> d.fed]
    BY <2>1
  <2>3. d.state = m.state /\ d.read = m.read \o word(t) /\ d.text = m.text /\ d.fed = m.fed
    BY <2>1
  <2>. QED BY <2>1, <2>2, <2>3, Zenon
<1>. HIDE DEF n
<1>3. /\ a = [state |-> a.state, read |-> a.read, text |-> a.text, fed |-> a.fed]
      /\ a.text = m.text /\ a.fed = m.fed
      /\ a.state \in {"none", "running", "stopped", "poisoned"}
  <2>1. CASE a = m
    BY <2>1
  <2>2. CASE a = [m EXCEPT !.state = "poisoned"]
    BY <2>2
  <2>3. CASE a = [m EXCEPT !.state = "stopped"]
    BY <2>3
  <2>4. CASE a = n
    BY <1>2, <2>4
  <2>5. CASE a = [n EXCEPT !.state = "stopped"]
    BY <1>2, <2>5
  <2>. QED BY <1>1, <2>1, <2>2, <2>3, <2>4, <2>5
<1>. QED BY <1>3, Zenon

\* A token of the mask, given to a sampler that keeps to the grammar.
LEMMA AllowedIs ==
  ASSUME NEW m, SamplerOk(m), m.fed = FALSE, m.state # "none", NEW t \in llg_apply(m), NEW a,
         a = llg_accept(m, t)
  PROVE  /\ a.state # "poisoned" /\ Expected(a.read)
         /\ a.state = "stopped" => Complete(a.read)
         /\ \/ Vocab[t].eog /\ a.read = m.read
            \/ ~Vocab[t].eog /\ a.read = m.read \o word(t) /\ word(t) # <<>>
<1>0. /\ m = [state |-> m.state, read |-> m.read, text |-> m.text, fed |-> m.fed]
      /\ m.state \in {"running", "stopped"} /\ Faithful(m)
  BY DEF SamplerOk, Faithful
<1>1. t \in mask(m)
  BY <1>0, Zenon DEF llg_apply, Faithful
<1>2. t \in Tokens /\ (t \in eog_tokens <=> Vocab[t].eog)
  <2>1. t \in Tokens
    BY <1>1, Zenon DEF mask, Follows, eog_tokens
  <2>. QED BY <2>1, Zenon DEF eog_tokens
<1>3. CASE m.state = "stopped"
  <2>1. a = m
    BY <1>3 DEF llg_accept
  <2>2. t \in eog_tokens
    BY <1>1, <1>3, Zenon DEF mask
  <2>. QED BY <1>0, <1>2, <1>3, <2>1, <2>2, Zenon DEF Faithful
<1>4. CASE m.state = "running" /\ t \in eog_tokens
  <2>1. a = [m EXCEPT !.state = "stopped"]
    BY <1>1, <1>4 DEF llg_accept, consume_token
  <2>2. a.state = "stopped" /\ a.read = m.read
    BY <1>0, <2>1
  <2>3. Complete(m.read)
    <3>1. m.state # "stopped"
      BY <1>4
    <3>. QED BY <1>1, <1>4, <3>1, Zenon DEF mask, Follows
  <2>4. "stopped" # "poisoned"
    OBVIOUS
  <2>. QED BY <1>0, <1>2, <1>4, <2>2, <2>3, <2>4, Zenon DEF Faithful
<1>5. CASE m.state = "running" /\ t \notin eog_tokens
  <2>1. PICK n : n = [m EXCEPT !.read = m.read \o word(t)]
    OBVIOUS
  <2>2. n.state = "running" /\ n.read = m.read \o word(t)
    BY <1>0, <1>5, <2>1
  <2>3. word(t) # <<>> /\ Expected(m.read \o word(t))
    <3>1. m.state # "stopped"
      BY <1>5
    <3>. QED BY <1>1, <1>5, <3>1, Zenon DEF mask, Follows
  <2>4. a = IF Follows(n) = {} /\ Complete(n.read) THEN [n EXCEPT !.state = "stopped"] ELSE n
    BY <1>1, <1>5, <2>1 DEF llg_accept, consume_token
  <2>5. CASE a = n
    <3>1. "running" # "poisoned" /\ "running" # "stopped"
      OBVIOUS
    <3>. QED BY <1>2, <1>5, <2>2, <2>3, <2>5, <3>1, Zenon
  <2>6. CASE Complete(n.read) /\ a = [n EXCEPT !.state = "stopped"]
    <3>1. n = [state |-> n.state, read |-> n.read, text |-> n.text, fed |-> n.fed]
      BY <1>0, <2>1
    <3>2. a.state = "stopped" /\ a.read = n.read /\ "stopped" # "poisoned"
      BY <2>6, <3>1
    <3>. QED BY <1>2, <1>5, <2>2, <2>3, <2>6, <3>2, Zenon
  <2>. QED BY <2>4, <2>5, <2>6, Zenon
<1>. QED BY <1>0, <1>3, <1>4, <1>5

\* A sampler is given a token that its mask left ...
LEMMA SampledOk ==
  ASSUME NEW m, SamplerOk(m), m.state # "none", NEW t \in llg_apply(m), NEW n,
         n = [llg_accept(m, t) EXCEPT
               !.text = IF m.fed \/ Vocab[t].eog THEN m.text
                        ELSE m.text \o (IF Vocab[t].text # <<>> THEN Vocab[t].text
                                        ELSE <<Marker>> \o Vocab[t].special)]
  PROVE  SamplerOk(n)
<1>0. t \in Tokens
  BY Zenon DEF llg_apply, mask, Follows, eog_tokens
<1>. PICK a : a = llg_accept(m, t)
  OBVIOUS
<1>. PICK text : text = IF m.fed \/ Vocab[t].eog THEN m.text ELSE m.text \o spoken(t)
  OBVIOUS
<1>1. n = [a EXCEPT !.text = text]
  BY Zenon DEF spoken
<1>2. /\ a = [state |-> a.state, read |-> a.read, text |-> m.text, fed |-> m.fed]
      /\ a.state \in {"none", "running", "stopped", "poisoned"}
  BY <1>0, AcceptIs, Zenon
<1>3. /\ n = [state |-> n.state, read |-> n.read, text |-> n.text, fed |-> n.fed]
      /\ n.state = a.state /\ n.read = a.read /\ n.text = text /\ n.fed = m.fed
  <2>1. /\ n = [state |-> n.state, read |-> n.read, text |-> n.text, fed |-> n.fed]
        /\ n.state = a.state /\ n.read = a.read /\ n.text = text /\ n.fed = a.fed
    BY <1>1, <1>2
  <2>2. a.fed = m.fed
    BY <1>2
  <2>. QED BY <2>1, <2>2, Zenon
<1>4. m.fed \in BOOLEAN
  BY Zenon DEF SamplerOk
<1>5. ASSUME m.fed = FALSE PROVE Faithful(n)
  <2>1. /\ a.state # "poisoned" /\ Expected(a.read)
        /\ a.state = "stopped" => Complete(a.read)
        /\ \/ Vocab[t].eog /\ a.read = m.read
           \/ ~Vocab[t].eog /\ a.read = m.read \o word(t) /\ word(t) # <<>>
    BY <1>5, AllowedIs, Zenon
  <2>2. m.text \in Seq(Letters) /\ (m.text = m.read \/ HasNull(m.text))
    BY <1>5, Zenon DEF SamplerOk, Faithful
  <2>3. text \in Seq(Letters) /\ (text = a.read \/ HasNull(text))
    <3>1. CASE Vocab[t].eog /\ a.read = m.read
      BY <2>2, <3>1, Zenon
    <3>2. CASE ~Vocab[t].eog /\ a.read = m.read \o word(t) /\ word(t) # <<>>
      <4>1. text = m.text \o spoken(t)
        BY <1>5, <3>2, Zenon
      <4>2. spoken(t) \in Seq(Letters) /\ (word(t) = spoken(t) \/ HasNull(spoken(t)))
        BY <1>0, <3>2, VocabIs, WordIsSpoken, Zenon
      <4>3. text \in Seq(Letters)
        BY <2>2, <4>1, <4>2, ConcatProperties
      <4>4. CASE m.text = m.read /\ word(t) = spoken(t)
        BY <3>2, <4>1, <4>3, <4>4, Zenon
      <4>5. CASE HasNull(m.text) \/ HasNull(spoken(t))
        BY <2>2, <4>1, <4>2, <4>3, <4>5, NullInConcat, Zenon
      <4>. QED BY <2>2, <4>2, <4>4, <4>5
    <3>. QED BY <2>1, <3>1, <3>2, Zenon
  <2>. QED BY <1>3, <2>1, <2>3, Zenon DEF Faithful
<1>. QED BY <1>2, <1>3, <1>4, <1>5, Zenon DEF SamplerOk

\* ... or any token.
LEMMA FedOk ==
  ASSUME NEW m, SamplerOk(m), NEW t \in Tokens, NEW n,
         n = [llg_accept(m, t) EXCEPT !.fed = TRUE]
  PROVE  SamplerOk(n)
<1>. PICK a : a = llg_accept(m, t)
  OBVIOUS
<1>1. /\ a = [state |-> a.state, read |-> a.read, text |-> m.text, fed |-> m.fed]
      /\ a.state \in {"none", "running", "stopped", "poisoned"}
  BY AcceptIs, Zenon
<1>2. n = [a EXCEPT !.fed = TRUE]
  BY Zenon
<1>3. /\ n = [state |-> n.state, read |-> n.read, text |-> n.text, fed |-> n.fed]
      /\ n.state = a.state /\ n.fed = TRUE
  BY <1>1, <1>2
<1>. QED BY <1>1, <1>3 DEF SamplerOk

LEMMA LlgInvOne ==
  ASSUME LlgInv, NEW k \in Samplers, NEW n, SamplerOk(n), llg' = [llg EXCEPT ![k] = n]
  PROVE  LlgInv'
<1>1. llg = [j \in Samplers |-> llg[j]]
  BY Zenon DEF LlgInv
<1>2. llg' = [j \in Samplers |-> llg'[j]]
  BY <1>1
<1>3. \A j \in Samplers : llg'[j] = IF j = k THEN n ELSE llg[j]
  BY <1>1
<1>4. \A j \in Samplers : SamplerOk(llg'[j])
  BY <1>3, Zenon DEF LlgInv
<1>. QED BY <1>2, <1>4, Zenon DEF LlgInv

LEMMA LlgInvInit == LlgInit => LlgInv
<1>. SUFFICES ASSUME LlgInit PROVE LlgInv
  OBVIOUS
<1>1. llg = [k \in Samplers |-> NoSampler]
  BY DEF LlgInit
<1>2. \A k \in Samplers : llg[k] = NoSampler
  BY <1>1
<1>3. llg = [k \in Samplers |-> llg[k]]
  BY <1>1
<1>. QED BY <1>2, <1>3, FreshOk, Zenon DEF LlgInv

LEMMA LlgInvNext == LlgInv /\ [LlgNext]_llg => LlgInv'
<1>. SUFFICES ASSUME LlgInv, [LlgNext]_llg PROVE LlgInv'
  OBVIOUS
<1>0. \A k \in Samplers : SamplerOk(llg[k])
  BY Zenon DEF LlgInv
<1>1. ASSUME NEW k \in Samplers, FromMatcher(k) \/ FreeSampler(k)
      PROVE  LlgInv'
  BY <1>1, FreshOk, LlgInvOne, Zenon DEF FromMatcher, FreeSampler
<1>2. ASSUME NEW k \in Samplers, Reset(k)
      PROVE  LlgInv'
  BY <1>0, <1>2, ResetOk, LlgInvOne, Zenon DEF Reset
<1>3. ASSUME NEW k \in Samplers, NEW t \in Tokens, SampleAllowed(k, t)
      PROVE  LlgInv'
  <2>1. PICK n : n = [llg_accept(llg[k], t) EXCEPT
          !.text = IF llg[k].fed \/ Vocab[t].eog THEN llg[k].text
                   ELSE llg[k].text \o (IF Vocab[t].text # <<>> THEN Vocab[t].text
                                        ELSE <<Marker>> \o Vocab[t].special)]
    OBVIOUS
  <2>2. llg' = [llg EXCEPT ![k] = n] /\ llg[k].state # "none" /\ t \in llg_apply(llg[k])
    BY <1>3, <2>1, Zenon DEF SampleAllowed, IsSampler
  <2>3. SamplerOk(n)
    BY <1>0, <2>1, <2>2, SampledOk, Zenon
  <2>. QED BY <2>2, <2>3, LlgInvOne, Zenon
<1>4. ASSUME NEW k \in Samplers, NEW t \in Tokens, AcceptAny(k, t)
      PROVE  LlgInv'
  <2>1. PICK n : n = [llg_accept(llg[k], t) EXCEPT !.fed = TRUE]
    OBVIOUS
  <2>2. llg' = [llg EXCEPT ![k] = n]
    BY <1>4, <2>1, Zenon DEF AcceptAny
  <2>3. SamplerOk(n)
    BY <1>0, <2>1, FedOk, Zenon
  <2>. QED BY <2>2, <2>3, LlgInvOne, Zenon
<1>5. ASSUME NEW k \in Samplers, NEW j \in Samplers, CloneSampler(k, j)
      PROVE  LlgInv'
  BY <1>0, <1>5, LlgInvOne, Zenon DEF CloneSampler
<1>6. CASE UNCHANGED llg
  BY <1>6, Zenon DEF LlgInv
<1>. QED BY <1>1, <1>2, <1>3, <1>4, <1>5, <1>6, Zenon DEF LlgNext

LEMMA LlgInvImplies == LlgInv => GrammarKept
<1>. SUFFICES ASSUME LlgInv, NEW k \in Samplers, IsSampler(k), ~llg[k].fed
              PROVE  /\ llg[k].state # "poisoned"
                     /\ Expected(llg[k].read)
                     /\ llg[k].text = llg[k].read \/ \E i \in DOMAIN llg[k].text : llg[k].text[i] = "n"
                     /\ llg[k].state = "stopped" => Complete(llg[k].read)
                     /\ Complete(llg[k].read) =>
                          \A t \in Tokens : Vocab[t].eog => t \in llg_apply(llg[k])
  BY Zenon DEF GrammarKept
<1>1. SamplerOk(llg[k])
  BY Zenon DEF LlgInv
<1>2. Faithful(llg[k])
  BY <1>1 DEF SamplerOk
<1>3. ASSUME Complete(llg[k].read), NEW t \in Tokens, Vocab[t].eog
      PROVE  t \in llg_apply(llg[k])
  <2>1. t \in eog_tokens
    BY <1>3, Zenon DEF eog_tokens
  <2>2. t \in mask(llg[k])
    BY <1>3, <2>1, Zenon DEF mask
  <2>. QED BY <1>2, <2>2, Zenon DEF llg_apply, Faithful
<1>. QED BY <1>2, <1>3, Zenon DEF Faithful, HasNull

\* For every grammar and vocabulary, a llguidance sampler that only takes tokens of
\* its masks reads what is generated, is never poisoned, stops at the end of a text
\* only, and lets every end token end one, across resets and clones.
THEOREM SamplersKeepToTheGrammar == LlgSpec => []GrammarKept
BY LlgInvInit, LlgInvNext, LlgInvImplies, PTL DEF LlgSpec
=============================================================================
