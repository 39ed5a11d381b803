------------------------- MODULE HiddenStateCapture -------------------------
(***************************************************************************)
(* The bounded hidden-state capture of a LlamaContext                      *)
(* (llama-cpp-2/src/context/hidden_states.rs) together with the methods of *)
(* the context that drive it: decode, encode,                              *)
(* set_hidden_state_capture_enabled and take_hidden_states (context.rs),   *)
(* the constructor that installs it (model.rs) and the one entry point     *)
(* that evaluates the same native context behind its back,                 *)
(* MtmdInputChunks::eval_chunks (mtmd.rs).                                 *)
(*                                                                         *)
(* The native side is external: an evaluation is numbered, the graph       *)
(* scheduler offers tensors to the callback in any order and any number    *)
(* of times (ask), reads only a tensor the callback asked for, and the     *)
(* evaluation ends with success or failure at any point.  The value of a   *)
(* residual vector is abstracted to where it came from: the evaluation,    *)
(* the token whose row was copied, and whether all numbers were finite.    *)
(***************************************************************************)
EXTENDS Integers, Sequences, FiniteSets

CONSTANTS
  Configs,    \* layer lists a caller may pass: sequences of naturals
  Widths,     \* what model.n_embd() may return
  n_layer,    \* what model.n_layer() returns
  n_ubatch,   \* what LlamaContext::n_ubatch() returns
  Batches,    \* the batches a caller may decode
  TensorLayers, \* layers that appear in "l_out-{layer}" node names
  NoLayer,    \* the layer of a node whose name is not "l_out-{layer}"
  MaxEvals    \* bound: number of native evaluations

ASSUME ConfigsAssumption == \A c \in Configs : c \in Seq(Nat)
ASSUME SizesAssumption ==
  /\ Widths \subseteq Int
  /\ n_layer \in Nat
  /\ n_ubatch \in Nat
  /\ MaxEvals \in Nat
  /\ NoLayer \notin Nat
  /\ TensorLayers \subseteq Nat

MAX_CAPTURE_LAYERS == 64
MAX_CAPTURE_WIDTH == 32768
MAX_CAPTURE_BYTES == 4 * 1024 * 1024

(***************************************************************************)
(* A batch as LlamaBatch lays it out.  owned: built by new/add, every row  *)
(* has its sequence ids, position and output flag.  Otherwise built by     *)
(* get_one: the arrays are null and llama.cpp's defaults hold (one         *)
(* sequence, consecutive positions, output for the last token only).       *)
(***************************************************************************)
Row == [seq_ids: Seq(Int), pos: Int, logits: BOOLEAN]
Batch == [owned: BOOLEAN, rows: Seq(Row)]

ASSUME BatchesAssumption == Batches \subseteq Batch

Rows(b) == Len(b.rows)

\* The tokens (1-based rows) an evaluation of b computes outputs for.
OutputRows(b) ==
  IF b.owned THEN {i \in 1..Rows(b) : b.rows[i].logits} ELSE {Rows(b)}

\* fn batch_shape: the only batches whose last row is known to be the last token.
batch_shape_ok(b) ==
  /\ Rows(b) > 0
  /\ Rows(b) <= n_ubatch
  /\ b.owned =>
       /\ \A i \in 1..Rows(b) :
            /\ Len(b.rows[i].seq_ids) = 1
            /\ b.rows[i].seq_ids[1] = b.rows[1].seq_ids[1]
            /\ b.rows[i].pos >= 0
       /\ \A i \in 2..Rows(b) : b.rows[i-1].pos < b.rows[i].pos
       /\ b.rows[Rows(b)].logits

batch_shape(b) == [rows |-> Rows(b), outputs |-> Cardinality(OutputRows(b))]

(***************************************************************************)
(* Native tensors.  A "full" residual has one row per token, a "pruned"    *)
(* one a row per output token in batch order, a "malformed" one any other  *)
(* type, width, stride or row count, or no data or buffer.                 *)
(***************************************************************************)
NullTensor == [layer |-> NoLayer, kind |-> "null", finite |-> FALSE]
NoTensor   == [layer |-> NoLayer, kind |-> "none", finite |-> FALSE]
Tensor ==
  [layer: TensorLayers \cup {NoLayer}, kind: {"full", "pruned", "malformed"},
   finite: BOOLEAN] \cup {NullTensor}

TensorRows(t, b) ==
  CASE t.kind = "full"   -> Rows(b)
    [] t.kind = "pruned" -> Cardinality(OutputRows(b))
    [] OTHER             -> 0

\* The token that row r of a well-formed residual tensor belongs to.
TokenOfRow(t, b, r) ==
  IF t.kind = "full" THEN r
  ELSE CHOOSE i \in OutputRows(b) : Cardinality({j \in OutputRows(b) : j <= i}) = r

(***************************************************************************)
(* Capture state.  error is NoError or the variant name of the latched     *)
(* HiddenStateCaptureError (the layer a variant carries is left out).      *)
(***************************************************************************)
NoError == "None"
Value == [eval: Nat, token: Nat, finite: BOOLEAN]
Zeros == [eval |-> 0, token |-> 0, finite |-> TRUE]
Slot  == [layer: Nat, values: Value, seen: BOOLEAN]
CaptureErrors ==
  {"UnsupportedBatch", "EvaluationFailed", "MissingLayer", "DuplicateLayer",
   "UnsupportedTensor", "NonFinite", "CallbackFailed"}
CallErrors ==
  CaptureErrors \cup {"NotEnabled", "NoCapture", "InvalidLayers", "CapacityExceeded",
                      "AllocationFailed", "UnsupportedContext", "ContextCreationFailed"}
State ==
  [slots: Seq(Slot), rows: Nat, outputs: Nat, active: BOOLEAN, enabled: BOOLEAN,
   ready: BOOLEAN, error: CaptureErrors \cup {NoError}]

VARIABLES
  ctx,       \* "none", or a context: "plain", or "capture" (hidden_state_capture is Some)
  pc,        \* "idle", or the native evaluation in progress: "decode", "encode", "chunks"
  state,     \* Capture.state
  poisoned,  \* the mutex around it is poisoned
  pending,   \* the tensor the scheduler will read because ask returned true, or NoTensor
  aborted,   \* a read callback returned false: the scheduler left nodes uncomputed
  eval,      \* number of the last native evaluation
  decoded,   \* number of the last evaluation that decode() ran
  batch,     \* its batch
  clean,     \* layers whose well-formed, finite tensor was read in that decode
  faulty,    \* something went wrong in that decode, or an encode() came after it
  out        \* result of the last public call: <<operation, error, snapshot>>

capture_vars == <<state, poisoned>>
native_vars  == <<pending, aborted, eval>>
history_vars == <<decoded, batch, clean, faulty>>
vars == <<ctx, pc, state, poisoned, pending, aborted, eval, decoded, batch, clean,
          faulty, out>>

Result(op, error, snapshot) == [op |-> op, error |-> error, snapshot |-> snapshot]

----------------------------------------------------------------------------
(* Capture::new and new_context_with_hidden_state_capture *)

layers_valid(config) ==
  /\ Len(config) \in 1..MAX_CAPTURE_LAYERS
  /\ \A i \in 1..Len(config) :
       config[i] < n_layer /\ \A j \in 1..(i-1) : config[j] # config[i]

capacity_ok(config, width) ==
  /\ width > 0
  /\ width <= MAX_CAPTURE_WIDTH
  /\ width * Len(config) * 4 <= MAX_CAPTURE_BYTES

fresh(config) ==
  [slots   |-> [i \in 1..Len(config) |->
                  [layer |-> config[i], values |-> Zeros, seen |-> FALSE]],
   rows |-> 0, outputs |-> 0, active |-> FALSE, enabled |-> TRUE, ready |-> FALSE,
   error |-> NoError]

NoContext ==
  /\ ctx = "none"
  /\ pc = "idle"
  /\ UNCHANGED <<pc, poisoned, native_vars, history_vars>>

\* The reasons construction fails, in the order the code meets them.
NewContextWithCaptureFails(config, width) ==
  /\ NoContext
  /\ \E error \in {"UnsupportedContext"} \cup
          (IF ~layers_valid(config) THEN {"InvalidLayers"}
           ELSE IF ~capacity_ok(config, width) THEN {"CapacityExceeded"}
           ELSE {"AllocationFailed", "ContextCreationFailed"}) :
       out' = Result("new", error, <<>>)
  /\ UNCHANGED <<ctx, state>>

NewContextWithCapture(config, width) ==
  /\ NoContext
  /\ layers_valid(config)
  /\ capacity_ok(config, width)
  /\ ctx' = "capture"
  /\ state' = fresh(config)
  /\ out' = Result("new", NoError, <<>>)

\* LlamaContext::new without a capture: hidden_state_capture is None.
NewContext ==
  /\ NoContext
  /\ ctx' = "plain"
  /\ out' = Result("new", NoError, <<>>)
  /\ UNCHANGED state

----------------------------------------------------------------------------
(* Capture's methods as functions of the state under the lock *)

unseen(slots) == [i \in DOMAIN slots |-> [slots[i] EXCEPT !.seen = FALSE]]

\* Faulty variant of begin: the seen flags of the last decode survive.
begin_keeps_seen(s, b) ==
  IF ~s.enabled \/ ~batch_shape_ok(b) THEN [s EXCEPT !.ready = FALSE, !.active = FALSE]
  ELSE [s EXCEPT !.ready = FALSE, !.error = NoError, !.active = TRUE,
                 !.rows = batch_shape(b).rows, !.outputs = batch_shape(b).outputs]

\* Faulty variant of begin: a disabled capture becomes active.
begin_when_disabled(s, b) ==
  [s EXCEPT !.ready = FALSE, !.error = NoError, !.slots = unseen(s.slots),
            !.active = batch_shape_ok(b), !.rows = batch_shape(b).rows,
            !.outputs = batch_shape(b).outputs]

begin(s, b) ==
  LET cleared == [s EXCEPT !.ready = FALSE, !.error = NoError, !.active = FALSE,
                           !.slots = unseen(s.slots)]
  IN IF ~s.enabled THEN cleared
     ELSE IF batch_shape_ok(b)
          THEN [cleared EXCEPT !.rows = batch_shape(b).rows,
                               !.outputs = batch_shape(b).outputs, !.active = TRUE]
          ELSE [cleared EXCEPT !.error = "UnsupportedBatch"]

\* Faulty variant of finish: layers that were never read are not noticed.
finish_incomplete(s, success) ==
  [s EXCEPT !.active = FALSE, !.ready = s.enabled,
            !.error = IF s.enabled /\ ~success THEN "EvaluationFailed" ELSE @]

finish(s, success) ==
  LET stopped == [s EXCEPT !.active = FALSE]
      error == IF ~success THEN "EvaluationFailed"
               ELSE IF s.error = NoError /\ \E i \in DOMAIN s.slots : ~s.slots[i].seen
                    THEN "MissingLayer"
                    ELSE s.error
  IN IF ~s.enabled THEN stopped
     ELSE [stopped EXCEPT !.ready = TRUE, !.error = error]

unsupported(s) ==
  [s EXCEPT !.active = FALSE, !.ready = s.enabled, !.error = "UnsupportedBatch"]

set_enabled(s, enabled) ==
  [s EXCEPT !.enabled = enabled, !.active = FALSE, !.ready = FALSE, !.error = NoError,
            !.slots = unseen(s.slots)]

\* The owned copy take returns, in configured order.
snapshot_of(s) ==
  [i \in DOMAIN s.slots |-> [layer |-> s.slots[i].layer, values |-> s.slots[i].values]]

----------------------------------------------------------------------------
(* The evaluation callback *)

\* slots.iter_mut().find(...)
has_slot(s, layer) == \E i \in DOMAIN s.slots : s.slots[i].layer = layer
slot_of(s, layer)  == CHOOSE i \in DOMAIN s.slots : s.slots[i].layer = layer

\* The callback looks at the tensor at all (it runs under the lock).
attentive == ctx = "capture" /\ ~poisoned /\ state.active /\ state.error = NoError

\* row_offset is Some: the tensor's rows are the tokens or the outputs.
row_offset_ok(t, s) ==
  /\ t.kind # "malformed"
  /\ TensorRows(t, batch) > 0
  /\ TensorRows(t, batch) \in {s.rows, s.outputs}

\* row_offset's result, as a 1-based row: the last one of the tensor.
row_offset(t) == TensorRows(t, batch)

\* What ggml_backend_tensor_get copies from row r of t.
copied(t, r) ==
  [eval |-> eval, token |-> TokenOfRow(t, batch, r), finite |-> t.finite]

read_state(s, t) ==
  LET i == slot_of(s, t.layer)
  IN IF s.slots[i].seen THEN [s EXCEPT !.error = "DuplicateLayer"]
     ELSE IF ~row_offset_ok(t, s) THEN [s EXCEPT !.error = "UnsupportedTensor"]
     ELSE IF t.finite
          THEN [s EXCEPT !.slots[i].values = copied(t, row_offset(t)),
                         !.slots[i].seen = TRUE]
          ELSE [s EXCEPT !.slots[i].values = copied(t, row_offset(t)),
                         !.error = "NonFinite"]

\* Faulty variant of the callback: a read that finds a fault stops the scheduler.
callback_result_stops(t, ask) ==
  IF attentive /\ t # NullTensor /\ has_slot(state, t.layer) THEN ask \/ t.finite ELSE ~ask

\* What the callback returns for a tensor and the ask flag: only a configured
\* layer of an active, faultless capture is of interest; everything else is !ask.
callback_result(t, ask) ==
  IF attentive /\ t # NullTensor /\ has_slot(state, t.layer) THEN TRUE ELSE ~ask

\* callback(t, ask = true, _)
CallbackAsk(t) ==
  /\ pc # "idle"
  /\ pending = NoTensor
  /\ state' = IF attentive /\ t = NullTensor
              THEN [state EXCEPT !.error = "CallbackFailed"] ELSE state
  /\ pending' = IF callback_result(t, TRUE) THEN t ELSE NoTensor
  /\ faulty' = (faulty \/ (attentive /\ t = NullTensor))
  /\ UNCHANGED <<ctx, pc, poisoned, aborted, eval, decoded, batch, clean, out>>

\* callback(t, ask = false, _) for the tensor that was asked for; the scheduler
\* abandons the rest of the split when it returns false.
CallbackRead ==
  /\ pc # "idle"
  /\ pending # NoTensor
  /\ pending' = NoTensor
  /\ state' = IF attentive THEN read_state(state, pending) ELSE state
  /\ LET good == /\ pending.layer \notin clean
                 /\ pending.finite
                 /\ pending.kind \in {"full", "pruned"}
     IN /\ clean'  = IF good THEN clean \cup {pending.layer} ELSE clean
        /\ faulty' = (faulty \/ ~good)
  /\ aborted' = (aborted \/ ~callback_result(pending, FALSE))
  /\ UNCHANGED <<ctx, pc, poisoned, eval, decoded, batch, out>>

\* The values of a slot whose copy was interrupted.
torn == [eval |-> eval, token |-> 0, finite |-> FALSE]

\* A panic inside the callback while it holds the lock: caught, and the guard's
\* drop poisons the mutex; the second lock fails, so no error is latched.  The
\* slot being read is left as it was, torn, or as after the read.
CallbackPanic ==
  /\ pc # "idle"
  /\ ctx = "capture"
  /\ ~poisoned
  /\ poisoned' = TRUE
  /\ pending' = NoTensor
  /\ faulty' = TRUE
  /\ state' \in IF pending = NoTensor THEN {state} ELSE
       {state, read_state(state, pending),
        [state EXCEPT !.slots[slot_of(state, pending.layer)].values = torn]}
  /\ UNCHANGED <<ctx, pc, aborted, eval, decoded, batch, clean, out>>

----------------------------------------------------------------------------
(* The context's methods; each holds &mut self until it returns *)

\* Faulty variant of locked: the poison flag of the mutex is ignored.
locked_despite_poison(s) == IF ctx = "capture" THEN s ELSE state

locked(s) == IF ctx = "capture" /\ ~poisoned THEN s ELSE state

StartEval(kind) ==
  /\ ctx # "none"
  /\ pc = "idle"
  /\ eval < MaxEvals
  /\ eval' = eval + 1
  /\ pc' = kind
  /\ aborted' = FALSE
  /\ out' = Result(kind, NoError, <<>>)
  /\ UNCHANGED <<ctx, poisoned, pending>>

\* decode up to the call of llama_decode
DecodeBegin(b) ==
  /\ StartEval("decode")
  /\ state' = locked(begin(state, b))
  /\ decoded' = eval + 1
  /\ batch' = b
  /\ clean' = {}
  /\ faulty' = FALSE

\* llama_decode returns; the rest of decode
DecodeEnd(success) ==
  /\ pc = "decode"
  /\ pending = NoTensor
  /\ pc' = "idle"
  /\ state' = locked(finish(state, success))
  /\ faulty' = (faulty \/ ~success)
  /\ out' = Result("decode", IF success THEN NoError ELSE "EvaluationFailed", <<>>)
  /\ UNCHANGED <<ctx, poisoned, native_vars, decoded, batch, clean>>

EncodeBegin ==
  /\ StartEval("encode")
  /\ state' = locked(unsupported(state))
  /\ faulty' = TRUE
  /\ UNCHANGED <<decoded, batch, clean>>

\* eval_chunks: llama_decode on the same native context, no begin and no finish
EvalChunksBegin ==
  /\ StartEval("chunks")
  /\ UNCHANGED <<state, history_vars>>

\* llama_encode or mtmd_helper_eval_chunks returns
OtherEvalEnd ==
  /\ pc \in {"encode", "chunks"}
  /\ pending = NoTensor
  /\ pc' = "idle"
  /\ \E error \in {NoError, "EvaluationFailed"} : out' = Result(pc, error, <<>>)
  /\ UNCHANGED <<ctx, capture_vars, native_vars, history_vars>>

Idle == ctx # "none" /\ pc = "idle" /\ UNCHANGED <<ctx, pc, poisoned, native_vars, history_vars>>

set_enabled_error ==
  IF ctx = "plain" THEN "NotEnabled" ELSE IF poisoned THEN "CallbackFailed" ELSE NoError

SetEnabled(enabled) ==
  /\ Idle
  /\ state' = locked(set_enabled(state, enabled))
  /\ out' = Result("set_enabled", set_enabled_error, <<>>)

take_error ==
  IF ctx = "plain" THEN "NotEnabled"
  ELSE IF poisoned THEN "CallbackFailed"
  ELSE IF ~state.ready THEN "NoCapture"
  ELSE state.error

\* take_hidden_states fails; running out of memory for the copy is one more way
TakeFails ==
  /\ Idle
  /\ \E error \in {take_error, "AllocationFailed"} :
       /\ error # NoError
       /\ error = "AllocationFailed" => take_error = NoError
       /\ out' = Result("take", error, <<>>)
  /\ UNCHANGED state

\* Faulty variant of Take: the readout stays and can be taken again.
TakeAgain ==
  /\ Idle
  /\ take_error = NoError
  /\ out' = Result("take", NoError, snapshot_of(state))
  /\ UNCHANGED state

Take ==
  /\ Idle
  /\ take_error = NoError
  /\ state' = [state EXCEPT !.ready = FALSE]
  /\ out' = Result("take", NoError, snapshot_of(state))

----------------------------------------------------------------------------
Init ==
  /\ ctx = "none"
  /\ pc = "idle"
  /\ state = fresh(<<>>)
  /\ poisoned = FALSE
  /\ pending = NoTensor
  /\ aborted = FALSE
  /\ eval = 0
  /\ decoded = 0
  /\ batch = [owned |-> FALSE, rows |-> <<>>]
  /\ clean = {}
  /\ faulty = FALSE
  /\ out = Result("none", NoError, <<>>)

Next ==
  \/ NewContext
  \/ \E config \in Configs, width \in Widths :
       NewContextWithCapture(config, width) \/ NewContextWithCaptureFails(config, width)
  \/ \E b \in Batches : DecodeBegin(b)
  \/ \E success \in BOOLEAN : DecodeEnd(success)
  \/ EncodeBegin
  \/ EvalChunksBegin
  \/ OtherEvalEnd
  \/ \E t \in Tensor : CallbackAsk(t)
  \/ CallbackRead
  \/ CallbackPanic
  \/ \E enabled \in BOOLEAN : SetEnabled(enabled)
  \/ TakeFails
  \/ Take

Spec == Init /\ [][Next]_vars

----------------------------------------------------------------------------
(* Properties *)

\* The capture state, the native evaluation and the results have their types.
TypeOK ==
  /\ ctx \in {"none", "plain", "capture"}
  /\ pc \in {"idle", "decode", "encode", "chunks"}
  /\ state \in State
  /\ poisoned \in BOOLEAN
  /\ pending \in Tensor \cup {NoTensor}
  /\ aborted \in BOOLEAN
  /\ eval \in Nat
  /\ decoded \in Nat
  /\ batch \in Batch
  /\ clean \subseteq Nat
  /\ faulty \in BOOLEAN
  /\ out.error \in CallErrors \cup {NoError}

\* docs/hidden-state-capture.md: "A failed capture never returns partial or stale
\* vectors."  What a successful take_hidden_states returned is complete, in the
\* configured order, and every vector is the finite residual of the LAST token of
\* the LAST decode(), whatever was pruned, offered twice or failed on the way.
SnapshotIsLastDecode ==
  out.op = "take" /\ out.error = NoError =>
    /\ DOMAIN out.snapshot = DOMAIN state.slots
    /\ \A i \in DOMAIN state.slots :
         /\ out.snapshot[i].layer = state.slots[i].layer
         /\ out.snapshot[i].values =
              [eval |-> decoded, token |-> Rows(batch), finite |-> TRUE]

\* A pending readout is a success exactly when the batch was a supported one and
\* each configured layer was read once, well formed and finite, in a decode that
\* succeeded: no fault is forgotten by a later callback, and none is invented.
ReadoutExact ==
  pc = "idle" /\ ctx = "capture" /\ ~poisoned /\ state.ready =>
    (state.error = NoError <=>
       /\ ~faulty
       /\ batch_shape_ok(batch)
       /\ clean = {state.slots[i].layer : i \in DOMAIN state.slots})

\* "Disabled decodes request no tensor reads": while capture is disabled no step
\* makes the scheduler stop for a tensor or touches a captured vector.
DisabledReadsNothing ==
  [][ctx = "capture" /\ ~state.enabled =>
       /\ pending' = NoTensor
       /\ \A i \in DOMAIN state.slots : state'.slots[i].values = state.slots[i].values]_vars

\* "Poisoned callback state cannot be reset": from the panic on, every take and
\* every enable or disable call fails, and nothing of the state moves again.
PoisonIsFinal ==
  [][poisoned => /\ poisoned'
                 /\ state' = state
                 /\ out'.op \in {"take", "set_enabled"} => out'.error = "CallbackFailed"]_vars

\* "Capture errors do not abort native decode": no callback makes the scheduler
\* leave nodes uncomputed under an evaluation that may still report success.
NeverAborts == ~aborted

----------------------------------------------------------------------------
(***************************************************************************)
(* The inductive invariant behind the safety properties: what holds while  *)
(* a decode runs and after it, as long as the mutex is not poisoned.       *)
(***************************************************************************)
AllLayers  == {state.slots[i].layer : i \in DOMAIN state.slots}
SeenLayers == {state.slots[i].layer : i \in {j \in DOMAIN state.slots : state.slots[j].seen}}
LastToken  == [eval |-> decoded, token |-> Rows(batch), finite |-> TRUE]

\* Capture::new admits no empty list and no layer twice.
SlotsInv ==
  ctx = "capture" =>
    /\ 1 \in DOMAIN state.slots
    /\ \A i, j \in DOMAIN state.slots : state.slots[i].layer = state.slots[j].layer => i = j

\* The scheduler only waits to read what an active capture asked for.
PendingInv ==
  pending # NoTensor => /\ attentive
                        /\ pending # NullTensor
                        /\ has_slot(state, pending.layer)

\* Capture is active only inside a decode() of a supported batch.
ActiveInv ==
  state.active =>
    /\ ctx = "capture"
    /\ pc = "decode"
    /\ decoded = eval
    /\ state.enabled
    /\ batch_shape_ok(batch)
    /\ state.rows = Rows(batch)
    /\ state.outputs = Cardinality(OutputRows(batch))
    /\ state.error # NoError => faulty

\* Inside a decode() there is no readout; without an error capture is active.
DecodeInv ==
  pc = "decode" /\ ctx = "capture" =>
    /\ ~state.ready
    /\ state.enabled /\ ~state.active => state.error # NoError /\ ~batch_shape_ok(batch)

\* What has been seen so far is the last token's residual of this decode.
SeenInv ==
  (state.active \/ state.ready) /\ state.error = NoError =>
    /\ ~faulty
    /\ clean = SeenLayers
    /\ \A i \in DOMAIN state.slots : state.slots[i].seen => state.slots[i].values = LastToken

\* A readout is complete, or something is wrong with it.
ReadyInv ==
  state.ready =>
    /\ ctx = "capture"
    /\ state.error = NoError =>
         batch_shape_ok(batch) /\ \A i \in DOMAIN state.slots : state.slots[i].seen
    /\ state.error # NoError => faulty \/ ~batch_shape_ok(batch) \/ clean # AllLayers

\* Only an idle context has just answered a take or an enable or disable call.
OutInv ==
  /\ out.op \in {"take", "set_enabled"} => ctx # "none" /\ pc = "idle"
  /\ SnapshotIsLastDecode

IInv ==
  /\ TypeOK
  /\ SlotsInv
  /\ PendingInv
  /\ ~poisoned => ActiveInv /\ DecodeInv /\ SeenInv /\ ReadyInv
  /\ OutInv
  /\ NeverAborts

\* What the refinement needs besides: a context without capture is as constructed,
\* evaluations are numbered upwards, and a disabled capture has no readout.
OrderInv ==
  /\ ctx # "capture" => state.enabled /\ ~poisoned
  /\ decoded <= eval
  /\ ~poisoned /\ state.ready => state.enabled

----------------------------------------------------------------------------
(* What the capture promises its caller *)

readout_status ==
  IF ctx # "capture" \/ poisoned \/ ~state.ready THEN "none"
  ELSE IF state.error # NoError THEN "failed"
  ELSE "snapshot"

readout_origin ==
  IF readout_status # "snapshot" THEN 0
  ELSE IF \A i \in DOMAIN state.slots : state.slots[i].values.eval = decoded THEN decoded
  ELSE eval + 1

delivered ==
  IF out.op = "take" /\ out.error = NoError THEN out.snapshot[1].values.eval ELSE 0

Readout == INSTANCE CaptureReadout WITH
  status <- readout_status, origin <- readout_origin, last <- decoded,
  enabled <- state.enabled, broken <- poisoned,
  answer <- delivered

\* The capture implements the one-place readout that CaptureReadout specifies.
ImplementsReadout == Readout!Spec
=============================================================================
