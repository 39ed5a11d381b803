--------------------------- MODULE TokenDataArray ---------------------------
(***************************************************************************)
(* LlamaTokenDataArray (token/data_array.rs): the candidates for the next  *)
(* token in a vector that a native sampler works on through a              *)
(* llama_token_data_array.  A sampler (external) drops and reorders        *)
(* candidates, may select one, and leaves the array where it was or in a   *)
(* buffer of its own.  Logits are left out: a candidate is its token.      *)
(***************************************************************************)
EXTENDS Integers, Sequences

CONSTANTS
  MaxCandidates,  \* bound: candidates
  MaxApplied      \* bound: samplers applied

ASSUME CandidatesAssumption == MaxCandidates \in Nat /\ MaxApplied \in Nat

NoToken == 0

(***************************************************************************)
(* cells     the memory of the vector, up to its capacity                  *)
(* array     its length, sorted and selected (-1: None)                    *)
(* left      history: the array as the last sampler left it                *)
(* sampled   what the last sample_token returned: a token, -1 for a panic, *)
(*           or NoToken                                                    *)
(***************************************************************************)
VARIABLES cells, array, left, sampled, applied

arrayVars == <<cells, array, left, sampled, applied>>

Contents(mem, n) == [i \in 1 .. n |-> mem[i]]

\* new: what the caller says of the order and nothing selected.
ArrayInit ==
  /\ \E n \in 0 .. MaxCandidates :
       /\ cells = [i \in 1 .. n |-> i]
       /\ array = [len |-> n, sorted |-> FALSE, selected |-> -1]
  /\ left = [data |-> cells, sorted |-> FALSE, selected |-> -1]
  /\ sampled = NoToken
  /\ applied = 0

\* What a sampler may leave of the candidates data: some of them, in some order.
\* One that selects sets selected, to -1 if there is no candidate; any other
\* leaves it as it was, whatever became of the candidate.
Filtered(data) ==
  UNION {{s \in [1 .. n -> {data[i] : i \in DOMAIN data}] :
            \A i, j \in 1 .. n : i # j => s[i] # s[j]} : n \in 0 .. Len(data)}

Sampled(data, sorted, selected, selects) ==
  IF selects
  THEN {[data |-> data, sorted |-> sorted, selected |-> k] :
          k \in IF data = <<>> THEN {-1} ELSE 0 .. Len(data) - 1}
  ELSE {[data |-> d, sorted |-> s, selected |-> selected] :
          d \in Filtered(data), s \in BOOLEAN}

\* .try_into().ok().filter(|&s| s < self.data.len()); -1 stands for None.
selection(r) == IF r.selected \in 0 .. Len(r.data) - 1 THEN r.selected ELSE -1

\* Faulty variant: an array that was moved is not copied back.
modified_in_place(mem, r, moved) ==
  IF moved THEN mem
  ELSE [i \in DOMAIN mem |-> IF i <= Len(r.data) THEN r.data[i] ELSE mem[i]]

\* The vector's memory after the call: written to in place, or copied to.
modified(mem, r, moved) ==
  [i \in DOMAIN mem |-> IF i <= Len(r.data) THEN r.data[i] ELSE mem[i]]

\* modify_as_c_llama_token_data_array: r is what the sampler leaves.
Modify(r, moved) ==
  /\ applied < MaxApplied /\ applied' = applied + 1
  /\ Len(r.data) <= Len(cells)
  /\ cells' = modified(cells, r, moved)
  /\ array' = [len |-> Len(r.data), sorted |-> r.sorted, selected |-> selection(r)]
  /\ left' = r

Left(selects) ==
  Sampled(Contents(cells, array.len), array.sorted, array.selected, selects)

\* apply_sampler, with_sampler
ApplySampler(selects) ==
  /\ \E r \in Left(selects), moved \in BOOLEAN : Modify(r, moved)
  /\ sampled' = NoToken

selected_token(mem, a) == IF a.selected \in 0 .. a.len - 1 THEN mem[a.selected + 1] ELSE NoToken

\* sample_token, sample_token_greedy: expect panics if nothing is selected.
SampleToken ==
  /\ \E r \in Left(TRUE), moved \in BOOLEAN : Modify(r, moved)
  /\ sampled' = LET token == selected_token(cells', array')
                IN  IF token = NoToken THEN -1 ELSE token

ArrayNext == (\E selects \in BOOLEAN : ApplySampler(selects)) \/ SampleToken

ArraySpec == ArrayInit /\ [][ArrayNext]_arrayVars

-----------------------------------------------------------------------------
(* Properties *)

\* Through any chain of samplers, each of which shortens the array, reorders it,
\* leaves it in a buffer of its own or selects a candidate that a later one
\* drops: the caller's array is the one the last sampler left, without entries
\* that are left over, a selection is a candidate of it, the one the sampler
\* chose, and sample_token panics only if there was no candidate.
ArrayAsLeft ==
  /\ Contents(cells, array.len) = left.data /\ array.sorted = left.sorted
  /\ array.selected # -1 => array.selected \in 0 .. array.len - 1
  /\ selected_token(cells, array) =
       IF left.selected \in 0 .. Len(left.data) - 1 THEN left.data[left.selected + 1] ELSE NoToken
  /\ sampled = -1 => left.data = <<>>
=============================================================================
