---------------------- MODULE HiddenStateCaptureProofs ----------------------
(***************************************************************************)
(* Proofs about HiddenStateCapture for every configuration, batch set and  *)
(* number of evaluations.                                                  *)
(***************************************************************************)
EXTENDS HiddenStateCapture, FiniteSetTheorems, SequenceTheorems, TLAPS

(***************************************************************************)
(* The row that is copied.                                                 *)
(***************************************************************************)

\* The output rows of a batch are finitely many of its rows (OutputRows, as
\* llama.cpp prunes a final-layer residual to them).
LEMMA OutputRowsFinite ==
  ASSUME NEW b \in Batch
  PROVE  /\ Rows(b) \in Nat
         /\ IsFiniteSet(OutputRows(b))
         /\ Cardinality(OutputRows(b)) \in Nat
<1>1. Rows(b) \in Nat
  BY LenProperties DEF Batch, Rows
<1>2. CASE b.owned
  <2>1. IsFiniteSet(1..Rows(b))
    BY <1>1, FS_Interval
  <2>2. OutputRows(b) \in SUBSET (1..Rows(b))
    BY <1>2 DEF OutputRows
  <2> QED
    BY <1>1, <2>1, <2>2, FS_Subset, FS_CardinalityType
<1>3. CASE ~b.owned
  <2>1. OutputRows(b) = {Rows(b)}
    BY <1>3 DEF OutputRows
  <2> QED
    BY <1>1, <2>1, FS_Singleton
<1> QED
  BY <1>2, <1>3

\* For a batch that batch_shape accepts, the last row of a residual is the row
\* of the last token, whether or not the rows without outputs were pruned.
LEMMA LastRowIsLastToken ==
  ASSUME NEW b \in Batch, batch_shape_ok(b), NEW t, t.kind \in {"full", "pruned"}
  PROVE  TokenOfRow(t, b, TensorRows(t, b)) = Rows(b)
<1> DEFINE O == OutputRows(b)
           Upto(i) == {j \in O : j <= i}
<1>1. CASE t.kind = "full"
  BY <1>1 DEF TokenOfRow, TensorRows
<1>2. CASE t.kind = "pruned"
  <2>1. /\ Rows(b) \in Nat \ {0}
        /\ IsFiniteSet(O)
        /\ Rows(b) \in O
        /\ O \subseteq 1..Rows(b)
    <3>1. Rows(b) \in Nat \ {0}
      BY OutputRowsFinite DEF batch_shape_ok
    <3>2. CASE b.owned
      <4>1. O = {i \in 1..Rows(b) : b.rows[i].logits}
        BY <3>2 DEF OutputRows
      <4>2. b.rows[Rows(b)].logits
        BY <3>2 DEF batch_shape_ok
      <4>3. Rows(b) \in 1..Rows(b)
        BY <3>1
      <4>4. Rows(b) \in O /\ O \subseteq 1..Rows(b)
        BY <4>1, <4>2, <4>3, Zenon
      <4> QED
        BY <3>1, <4>4, OutputRowsFinite
    <3>3. CASE ~b.owned
      <4>1. O = {Rows(b)}
        BY <3>3 DEF OutputRows
      <4> QED
        BY <3>1, <4>1, OutputRowsFinite
    <3> QED
      BY <3>2, <3>3
  <2>2. Upto(Rows(b)) = O
    BY <2>1
  <2>3. ASSUME NEW i \in O, Cardinality(Upto(i)) = Cardinality(O)
        PROVE  i = Rows(b)
    <3>1. Upto(i) \in SUBSET O
      OBVIOUS
    <3>2. Upto(i) = O
      BY <2>1, <2>3, <3>1, FS_Subset
    <3> QED
      BY <2>1, <3>2
  <2>4. (CHOOSE i \in O : Cardinality(Upto(i)) = Cardinality(O)) = Rows(b)
    BY <2>1, <2>2, <2>3
  <2> QED
    BY <1>2, <2>4 DEF TokenOfRow, TensorRows
<1> QED
  BY <1>1, <1>2

\* A well-formed residual of an accepted batch has at least one row.
LEMMA TensorRowsPositive ==
  ASSUME NEW b \in Batch, batch_shape_ok(b), NEW t, t.kind \in {"full", "pruned"}
  PROVE  TensorRows(t, b) > 0
<1>1. Rows(b) \in Nat /\ Rows(b) > 0
  BY OutputRowsFinite DEF batch_shape_ok
<1>2. Cardinality(OutputRows(b)) \in Nat /\ IsFiniteSet(OutputRows(b))
  BY OutputRowsFinite
<1>3. OutputRows(b) # {}
  <2>1. CASE b.owned
    <3>1. Rows(b) \in 1..Rows(b)
      BY <1>1
    <3>2. b.rows[Rows(b)].logits
      BY <2>1 DEF batch_shape_ok
    <3> QED
      BY <2>1, <3>1, <3>2, Zenon DEF OutputRows
  <2>2. CASE ~b.owned
    BY <2>2 DEF OutputRows
  <2> QED
    BY <2>1, <2>2
<1>4. Cardinality(OutputRows(b)) # 0
  BY <1>2, <1>3, FS_EmptySet
<1> QED
  BY <1>1, <1>2, <1>4 DEF TensorRows

(***************************************************************************)
(* The methods of Capture keep the shape of its state.                     *)
(***************************************************************************)

\* Slots have the same layers in the same places.
SameLayers(s, r) ==
  /\ DOMAIN r.slots = DOMAIN s.slots
  /\ \A i \in DOMAIN s.slots : r.slots[i].layer = s.slots[i].layer

\* Clearing the seen flags changes nothing else of the slots.
LEMMA UnseenSlots ==
  ASSUME NEW slots \in Seq(Slot)
  PROVE  /\ unseen(slots) \in Seq(Slot)
         /\ DOMAIN unseen(slots) = DOMAIN slots
         /\ \A i \in DOMAIN slots : /\ unseen(slots)[i].layer = slots[i].layer
                                    /\ unseen(slots)[i].values = slots[i].values
                                    /\ unseen(slots)[i].seen = FALSE
<1>1. /\ Len(slots) \in Nat
      /\ DOMAIN slots = 1..Len(slots)
      /\ \A i \in 1..Len(slots) : slots[i] \in Slot
  BY LenProperties
<1>2. \A i \in 1..Len(slots) : [slots[i] EXCEPT !.seen = FALSE] \in Slot
  BY <1>1 DEF Slot
<1>3. unseen(slots) \in Seq(Slot)
  BY <1>1, <1>2, IsASeq DEF unseen
<1> QED
  BY <1>1, <1>3 DEF unseen, Slot

\* begin, finish, unsupported and set_enabled map states to states.
LEMMA MethodsType ==
  ASSUME NEW s \in State, NEW b \in Batch, NEW x \in BOOLEAN
  PROVE  /\ begin(s, b) \in State /\ SameLayers(s, begin(s, b))
         /\ finish(s, x) \in State /\ SameLayers(s, finish(s, x))
         /\ unsupported(s) \in State /\ SameLayers(s, unsupported(s))
         /\ set_enabled(s, x) \in State /\ SameLayers(s, set_enabled(s, x))
         /\ \A i \in DOMAIN s.slots : /\ begin(s, b).slots[i].values = s.slots[i].values
                                      /\ begin(s, b).slots[i].seen = FALSE
                                      /\ set_enabled(s, x).slots[i].values = s.slots[i].values
<1> DEFINE u == unseen(s.slots)
<1>0. s.slots \in Seq(Slot)
  BY DEF State
<1>1. /\ u \in Seq(Slot)
      /\ DOMAIN u = DOMAIN s.slots
      /\ \A i \in DOMAIN s.slots : /\ u[i].layer = s.slots[i].layer
                                   /\ u[i].values = s.slots[i].values
                                   /\ u[i].seen = FALSE
  BY <1>0, UnseenSlots
<1>2. Rows(b) \in Nat /\ Cardinality(OutputRows(b)) \in Nat
  BY OutputRowsFinite
<1> HIDE DEF u
<1>3. begin(s, b) \in State /\ begin(s, b).slots = u
  BY <1>1, <1>2 DEF begin, State, CaptureErrors, NoError, batch_shape, u
<1>4. finish(s, x) \in State /\ finish(s, x).slots = s.slots
  BY DEF finish, State, CaptureErrors, NoError
<1>5. unsupported(s) \in State /\ unsupported(s).slots = s.slots
  BY DEF unsupported, State, CaptureErrors
<1>6. set_enabled(s, x) \in State /\ set_enabled(s, x).slots = u
  BY <1>1 DEF set_enabled, State, CaptureErrors, NoError, u
<1> QED
  BY <1>1, <1>3, <1>4, <1>5, <1>6 DEF SameLayers

\* Reading t turns s into r: at most slot k, that of t's layer, changes, and
\* without an error it now holds the last token's residual of this evaluation.
ReadFacts(s, t, r, k) ==
  /\ r \in State
  /\ SameLayers(s, r)
  /\ k \in DOMAIN s.slots /\ s.slots[k].layer = t.layer
  /\ r = [s EXCEPT !.slots = r.slots, !.error = r.error]
  /\ \A j \in DOMAIN s.slots : j # k => r.slots[j] = s.slots[j]
  /\ r.error = NoError =>
       /\ ~s.slots[k].seen
       /\ r.slots[k].seen
       /\ r.slots[k].values = [eval |-> eval, token |-> Rows(batch), finite |-> TRUE]
       /\ t.finite
       /\ t.kind \in {"full", "pruned"}

\* What the read half of the callback does to the state for a tensor it asked for.
LEMMA ReadState ==
  ASSUME NEW s \in State, NEW t \in Tensor, t # NullTensor, has_slot(s, t.layer),
         s.error = NoError, eval \in Nat, batch \in Batch, batch_shape_ok(batch)
  PROVE  ReadFacts(s, t, read_state(s, t), slot_of(s, t.layer))
<1> DEFINE r == read_state(s, t)
           k == slot_of(s, t.layer)
<1> HIDE DEF r, k
<1> SUFFICES ReadFacts(s, t, r, k)
  BY DEF r, k
<1> USE DEF ReadFacts
<1>0. /\ s.slots \in Seq(Slot)
      /\ DOMAIN s.slots = 1..Len(s.slots)
      /\ \A i \in DOMAIN s.slots : s.slots[i] \in Slot
  BY LenProperties DEF State
<1>1. k \in DOMAIN s.slots /\ s.slots[k].layer = t.layer
  BY DEF has_slot, slot_of, k
<1>2. t.kind \in {"full", "pruned", "malformed"} /\ t.finite \in BOOLEAN
  BY DEF Tensor, NullTensor
<1>3. CASE s.slots[k].seen
  <2>1. r = [s EXCEPT !.error = "DuplicateLayer"]
    BY <1>3 DEF read_state, r, k
  <2> QED
    BY <1>1, <2>1 DEF State, CaptureErrors, SameLayers, NoError
<1>4. CASE ~s.slots[k].seen /\ ~row_offset_ok(t, s)
  <2>1. r = [s EXCEPT !.error = "UnsupportedTensor"]
    BY <1>4 DEF read_state, r, k
  <2> QED
    BY <1>1, <2>1 DEF State, CaptureErrors, SameLayers, NoError
<1>5. CASE ~s.slots[k].seen /\ row_offset_ok(t, s)
  <2> DEFINE v == copied(t, row_offset(t))
  <2>1. t.kind \in {"full", "pruned"}
    BY <1>2, <1>5 DEF row_offset_ok
  <2>2. v = [eval |-> eval, token |-> Rows(batch), finite |-> t.finite]
    BY <2>1, LastRowIsLastToken DEF copied, row_offset
  <2>3. v \in Value
    BY <1>2, <2>2, OutputRowsFinite DEF Value
  <2>4. CASE t.finite
    <3> DEFINE slot == [s.slots[k] EXCEPT !.values = v, !.seen = TRUE]
    <3>1. r = [s EXCEPT !.slots = [s.slots EXCEPT ![k] = slot]]
      BY <1>0, <1>1, <1>5, <2>4 DEF read_state, State, Slot, r, k
    <3>2. slot \in Slot /\ slot.layer = s.slots[k].layer /\ slot.values = v /\ slot.seen
      BY <1>0, <1>1, <2>3 DEF Slot
    <3> HIDE DEF v, slot
    <3>3. /\ [s.slots EXCEPT ![k] = slot] \in Seq(Slot)
          /\ DOMAIN [s.slots EXCEPT ![k] = slot] = DOMAIN s.slots
      BY <1>0, <1>1, <3>2, ExceptSeq
    <3>4. v = [eval |-> eval, token |-> Rows(batch), finite |-> TRUE]
      BY <1>2, <2>2, <2>4
    <3>5. r \in State /\ SameLayers(s, r) /\ r = [s EXCEPT !.slots = r.slots, !.error = r.error]
      BY <1>0, <1>1, <3>1, <3>2, <3>3 DEF State, SameLayers
    <3>6. /\ \A j \in DOMAIN s.slots : j # k => r.slots[j] = s.slots[j]
          /\ r.slots[k] = slot
      BY <1>0, <1>1, <3>1 DEF State
    <3> QED
      BY <1>1, <1>5, <2>1, <2>4, <3>2, <3>4, <3>5, <3>6
  <2>5. CASE ~t.finite
    <3> DEFINE slot == [s.slots[k] EXCEPT !.values = v]
    <3>1. r = [s EXCEPT !.slots = [s.slots EXCEPT ![k] = slot], !.error = "NonFinite"]
      BY <1>0, <1>1, <1>5, <2>5 DEF read_state, State, Slot, r, k
    <3>2. slot \in Slot /\ slot.layer = s.slots[k].layer
      BY <1>0, <1>1, <2>3 DEF Slot
    <3> HIDE DEF v, slot
    <3>3. /\ [s.slots EXCEPT ![k] = slot] \in Seq(Slot)
          /\ DOMAIN [s.slots EXCEPT ![k] = slot] = DOMAIN s.slots
      BY <1>0, <1>1, <3>2, ExceptSeq
    <3> QED
      BY <1>0, <1>1, <3>1, <3>2, <3>3 DEF State, SameLayers, NoError, CaptureErrors
  <2> QED
    BY <1>2, <2>4, <2>5
<1> QED
  BY <1>3, <1>4, <1>5

\* The state of a new capture, and of a context without one.
LEMMA FreshState ==
  ASSUME NEW config \in Seq(Nat)
  PROVE  /\ fresh(config) \in State
         /\ DOMAIN fresh(config).slots = 1..Len(config)
         /\ \A i \in 1..Len(config) : fresh(config).slots[i].layer = config[i]
         /\ ~fresh(config).active /\ ~fresh(config).ready
<1>1. /\ Len(config) \in Nat
      /\ \A i \in 1..Len(config) : config[i] \in Nat
  BY LenProperties
<1> DEFINE sl == [i \in 1..Len(config) |->
                    [layer |-> config[i], values |-> Zeros, seen |-> FALSE]]
<1>2. \A i \in 1..Len(config) :
         [layer |-> config[i], values |-> Zeros, seen |-> FALSE] \in Slot
  BY <1>1 DEF Slot, Value, Zeros
<1>3. sl \in Seq(Slot)
  BY <1>1, <1>2, IsASeq
<1>4. fresh(config).slots = sl
  BY DEF fresh
<1>5. fresh(config) \in State
  BY <1>3 DEF fresh, State, NoError
<1> QED
  BY <1>4, <1>5 DEF fresh

(***************************************************************************)
(* The invariant is inductive: one lemma per action.                       *)
(***************************************************************************)

\* Before a context exists nothing is captured and nothing was returned.
LEMMA InitInv == Init => IInv
<1> SUFFICES ASSUME Init PROVE IInv
  OBVIOUS
<1>1. state \in State /\ DOMAIN state.slots = 1..0 /\ ~state.active /\ ~state.ready
  <2>1. <<>> \in Seq(Nat) /\ Len(<<>>) = 0
    BY EmptySeq
  <2> QED
    BY <2>1, FreshState DEF Init
<1>2. batch \in Batch
  BY EmptySeq DEF Init, Batch
<1>3. TypeOK
  BY <1>1, <1>2 DEF Init, TypeOK, Result, CallErrors, NoError
<1> QED
  BY <1>1, <1>3 DEF Init, IInv, SlotsInv, PendingInv, ActiveInv, DecodeInv, SeenInv,
     ReadyInv, OutInv, SnapshotIsLastDecode, NeverAborts, Result

\* A step that only answers the caller keeps everything but OutInv and TypeOK.
LEMMA SameCaptureInv ==
  ASSUME IInv,
         UNCHANGED <<ctx, pc, state, poisoned, pending, aborted, eval, decoded, batch,
                     clean, faulty>>
  PROVE  /\ SlotsInv' /\ PendingInv' /\ NeverAborts'
         /\ ~poisoned' => ActiveInv' /\ DecodeInv' /\ SeenInv' /\ ReadyInv'
<1>1. SlotsInv' /\ PendingInv' /\ NeverAborts'
  BY DEF IInv, SlotsInv, PendingInv, attentive, has_slot, NeverAborts
<1>2. ~poisoned' => ActiveInv'
  BY DEF IInv, ActiveInv
<1>3. ~poisoned' => DecodeInv'
  BY DEF IInv, DecodeInv
<1>4. ~poisoned' => SeenInv'
  BY DEF IInv, SeenInv, SeenLayers, LastToken
<1>5. ~poisoned' => ReadyInv'
  BY DEF IInv, ReadyInv, AllLayers
<1> QED
  BY <1>1, <1>2, <1>3, <1>4, <1>5

\* LlamaContext::new leaves the capture state as it was.
LEMMA NewContextInv == IInv /\ NewContext => IInv'
<1> SUFFICES ASSUME IInv, NewContext PROVE IInv'
  OBVIOUS
<1> USE DEF NewContext, NoContext, native_vars, history_vars
<1>1. TypeOK'
  BY DEF IInv, TypeOK, Result, CallErrors, NoError
<1>2. ~state.active /\ ~state.ready /\ ~poisoned => ActiveInv' /\ DecodeInv' /\ SeenInv' /\ ReadyInv'
  BY DEF ActiveInv, DecodeInv, SeenInv, ReadyInv
<1>3. ~poisoned => ~state.active /\ ~state.ready
  BY DEF IInv, ActiveInv, ReadyInv
<1> QED
  BY <1>1, <1>2, <1>3 DEF IInv, SlotsInv, PendingInv, attentive, OutInv,
     SnapshotIsLastDecode, NeverAborts, Result

\* A constructor that fails leaves no context behind.
LEMMA NewContextWithCaptureFailsInv ==
  ASSUME NEW config \in Configs, NEW width \in Widths
  PROVE  IInv /\ NewContextWithCaptureFails(config, width) => IInv'
<1> SUFFICES ASSUME IInv, NewContextWithCaptureFails(config, width) PROVE IInv'
  OBVIOUS
<1>1. /\ UNCHANGED <<ctx, pc, state, poisoned, pending, aborted, eval, decoded, batch,
                     clean, faulty>>
      /\ out'.op = "new"
      /\ out'.error \in CallErrors
  BY DEF NewContextWithCaptureFails, NoContext, native_vars, history_vars, Result, CallErrors
<1>2. TypeOK'
  BY <1>1 DEF IInv, TypeOK
<1>3. OutInv'
  BY <1>1 DEF OutInv, SnapshotIsLastDecode
<1> QED
  BY <1>1, <1>2, <1>3, SameCaptureInv DEF IInv

\* Capture::new: the checked layer list gives distinct, unseen slots.
LEMMA NewContextWithCaptureInv ==
  ASSUME NEW config \in Configs, NEW width \in Widths
  PROVE  IInv /\ NewContextWithCapture(config, width) => IInv'
<1> SUFFICES ASSUME IInv, NewContextWithCapture(config, width) PROVE IInv'
  OBVIOUS
<1>0. /\ ctx = "none" /\ pc = "idle" /\ ctx' = "capture" /\ state' = fresh(config) /\ layers_valid(config)
      /\ out'.op = "new" /\ out'.error = NoError
      /\ UNCHANGED <<pc, poisoned, pending, aborted, eval, decoded, batch, clean, faulty>>
  BY DEF NewContextWithCapture, NoContext, native_vars, history_vars, Result
<1>1. config \in Seq(Nat)
  BY ConfigsAssumption
<1>2. /\ state' \in State
      /\ DOMAIN state'.slots = 1..Len(config)
      /\ \A i \in 1..Len(config) : state'.slots[i].layer = config[i]
      /\ ~state'.active /\ ~state'.ready
  BY <1>0, <1>1, FreshState
<1>3. TypeOK'
  BY <1>0, <1>2 DEF IInv, TypeOK, CallErrors
<1>4. SlotsInv'
  <2>1. Len(config) \in Nat /\ 1 \in 1..Len(config)
    <3>1. Len(config) \in 1..64
      BY <1>0 DEF layers_valid, MAX_CAPTURE_LAYERS
    <3>2. \A n \in 1..64 : n \in Nat /\ 1 \in 1..n
      OBVIOUS
    <3> QED
      BY <3>1, <3>2, Zenon
  <2>2. ASSUME NEW i \in 1..Len(config), NEW j \in 1..Len(config), config[i] = config[j]
        PROVE  i = j
    BY <1>0, <2>1, <2>2 DEF layers_valid
  <2> QED
    BY <1>0, <1>2, <2>1, <2>2 DEF SlotsInv
<1>5. PendingInv'
  BY <1>0 DEF IInv, PendingInv, attentive
<1> QED
  <2>1. ActiveInv' /\ DecodeInv' /\ SeenInv' /\ ReadyInv'
    BY <1>0, <1>2 DEF NoContext, ActiveInv, DecodeInv, SeenInv, ReadyInv
  <2>2. OutInv' /\ NeverAborts'
    BY <1>0 DEF IInv, OutInv, SnapshotIsLastDecode, NeverAborts
  <2> QED
    BY <1>3, <1>4, <1>5, <2>1, <2>2 DEF IInv

\* decode, first half: begin forgets the last readout and starts a new one.
LEMMA DecodeBeginInv ==
  ASSUME NEW b \in Batches
  PROVE  IInv /\ DecodeBegin(b) => IInv'
<1> SUFFICES ASSUME IInv, DecodeBegin(b) PROVE IInv'
  OBVIOUS
<1>0. /\ ctx' = ctx /\ pc = "idle" /\ pc' = "decode" /\ poisoned' = poisoned
      /\ pending' = pending /\ aborted' = FALSE /\ eval' = eval + 1 /\ decoded' = eval + 1
      /\ batch' = b /\ clean' = {} /\ faulty' = FALSE
      /\ state' = locked(begin(state, b))
      /\ out'.op = "decode" /\ out'.error = NoError
  BY DEF DecodeBegin, StartEval, Result
<1>1. b \in Batch
  BY BatchesAssumption
<1>2. state \in State /\ state' \in State /\ SameLayers(state, state')
  BY <1>0, <1>1, MethodsType DEF IInv, TypeOK, locked, SameLayers
<1>3. pending = NoTensor
  BY <1>0 DEF IInv, PendingInv, attentive, ActiveInv
<1>4. TypeOK'
  <2>1. TypeOK
    BY DEF IInv
  <2>2. eval' \in Nat /\ decoded' \in Nat
    BY <1>0, <2>1 DEF TypeOK
  <2>3. out'.error \in CallErrors \cup {NoError}
    BY <1>0
  <2> QED
    BY <1>0, <1>1, <1>2, <2>1, <2>2, <2>3 DEF TypeOK
<1>5. SlotsInv'
  BY <1>0, <1>2 DEF IInv, SlotsInv, SameLayers
<1>6. PendingInv'
  BY <1>0, <1>3 DEF PendingInv
<1>7. ASSUME ~poisoned'
      PROVE  ActiveInv' /\ DecodeInv' /\ SeenInv' /\ ReadyInv'
  <2>1. CASE ctx = "capture"
    <3>1. state' = begin(state, b)
      BY <1>0, <1>7, <2>1 DEF locked
    <3>2. ~state'.ready /\ state'.enabled = state.enabled
      BY <1>2, <3>1 DEF begin, State
    <3>3. state'.active =>
            /\ state'.enabled
            /\ batch_shape_ok(b)
            /\ state'.rows = Rows(b)
            /\ state'.outputs = Cardinality(OutputRows(b))
            /\ state'.error = NoError
      BY <1>2, <3>1 DEF begin, State, batch_shape
    <3>4. state'.enabled /\ ~state'.active => state'.error # NoError /\ ~batch_shape_ok(b)
      BY <1>2, <3>1 DEF begin, State, NoError
    <3>5. \A i \in DOMAIN state'.slots : ~state'.slots[i].seen
      BY <1>1, <1>2, <3>1, MethodsType DEF SameLayers
    <3>6. SeenLayers' = {}
      BY <3>5 DEF SeenLayers
    <3>7. ActiveInv'
      BY <1>0, <2>1, <3>3 DEF ActiveInv
    <3>8. DecodeInv'
      BY <1>0, <3>2, <3>4 DEF DecodeInv
    <3>9. SeenInv'
      BY <1>0, <3>2, <3>5, <3>6 DEF SeenInv
    <3> QED
      BY <3>2, <3>7, <3>8, <3>9 DEF ReadyInv
  <2>2. CASE ctx # "capture"
    <3>1. state' = state /\ ~state.active /\ ~state.ready
      BY <1>0, <1>7, <2>2 DEF locked, IInv, ActiveInv, ReadyInv
    <3> QED
      BY <1>0, <2>2, <3>1 DEF ActiveInv, DecodeInv, SeenInv, ReadyInv
  <2> QED
    BY <2>1, <2>2
<1>8. OutInv' /\ NeverAborts'
  BY <1>0 DEF OutInv, SnapshotIsLastDecode, NeverAborts
<1> QED
  BY <1>4, <1>5, <1>6, <1>7, <1>8 DEF IInv

\* decode, second half: finish makes a readout that is complete or faulty.
LEMMA DecodeEndInv ==
  ASSUME NEW success \in BOOLEAN
  PROVE  IInv /\ DecodeEnd(success) => IInv'
<1> SUFFICES ASSUME IInv, DecodeEnd(success) PROVE IInv'
  OBVIOUS
<1> USE DEF DecodeEnd, native_vars
<1>2. state \in State /\ state' \in State /\ state'.slots = state.slots
  <2>1. finish(state, success) \in State /\ finish(state, success).slots = state.slots
    <3>1. state \in State /\ batch \in Batch
      BY DEF IInv, TypeOK
    <3>2. finish(state, success) \in State
      BY <3>1, MethodsType
    <3> QED
      BY <3>1, <3>2 DEF finish, State
  <2> QED
    BY <2>1 DEF IInv, TypeOK, locked
<1>4. TypeOK'
  BY <1>2 DEF IInv, TypeOK, Result, CallErrors, CaptureErrors, NoError
<1>5. SlotsInv' /\ PendingInv'
  BY <1>2 DEF IInv, SlotsInv, PendingInv
<1>7. ASSUME ~poisoned'
      PROVE  ActiveInv' /\ DecodeInv' /\ SeenInv' /\ ReadyInv'
  <2>1. CASE ctx = "capture"
    <3>1. state' = finish(state, success)
      BY <1>7, <2>1 DEF locked
    <3>2. /\ ~state'.active
          /\ ~state.ready
          /\ state'.ready => state.enabled
      BY <1>2, <1>7, <2>1, <3>1 DEF finish, State, IInv, DecodeInv
    <3>3. ASSUME state'.ready, state'.error = NoError
          PROVE  /\ success /\ state.error = NoError /\ state.active
                 /\ \A i \in DOMAIN state.slots : state.slots[i].seen
      <4>1. success /\ state.error = NoError
        BY <1>2, <3>1, <3>2, <3>3 DEF finish, State, NoError
      <4>2. \A i \in DOMAIN state.slots : state.slots[i].seen
        BY <1>2, <3>1, <3>2, <3>3, <4>1 DEF finish, State, NoError
      <4>3. state.active
        BY <1>7, <2>1, <3>2, <3>3, <4>1 DEF IInv, DecodeInv
      <4> QED
        BY <4>1, <4>2, <4>3
    <3>4. SeenInv'
      <4>1. SeenLayers' = SeenLayers /\ LastToken' = LastToken
        BY <1>2 DEF SeenLayers, LastToken
      <4>2. SeenInv /\ clean' = clean /\ faulty' = (faulty \/ ~success)
        BY <1>7 DEF IInv
      <4> QED
        BY <1>2, <3>2, <3>3, <4>1, <4>2 DEF SeenInv
    <3>5. ASSUME state'.ready, state'.error # NoError
          PROVE  faulty' \/ ~batch_shape_ok(batch)' \/ clean' # AllLayers'
      <4>1. CASE ~success
        BY <4>1
      <4>2. CASE state.error # NoError
        BY <1>7, <2>1, <3>2, <3>5, <4>2 DEF IInv, ActiveInv, DecodeInv
      <4>3. CASE success /\ state.error = NoError
        <5>1. PICK i \in DOMAIN state.slots : ~state.slots[i].seen
          BY <1>2, <3>1, <3>2, <3>5, <4>3 DEF finish, State
        <5>2. state.active
          BY <1>7, <2>1, <3>2, <3>5, <4>3 DEF IInv, DecodeInv
        <5>3. clean = SeenLayers
          BY <1>7, <4>3, <5>2 DEF IInv, SeenInv
        <5>4. state.slots[i].layer \notin SeenLayers
          BY <2>1, <5>1 DEF IInv, SlotsInv, SeenLayers
        <5> QED
          BY <1>2, <5>3, <5>4 DEF AllLayers
      <4> QED
        BY <4>1, <4>2, <4>3
    <3>6. ReadyInv'
      BY <1>2, <1>7, <2>1, <3>3, <3>5 DEF ReadyInv, IInv, ActiveInv
    <3> QED
      BY <3>2, <3>4, <3>6 DEF ActiveInv, DecodeInv
  <2>2. CASE ctx # "capture"
    <3>1. state' = state /\ ~state.active /\ ~state.ready
      BY <1>7, <2>2 DEF locked, IInv, ActiveInv, ReadyInv
    <3> QED
      BY <2>2, <3>1 DEF ActiveInv, DecodeInv, SeenInv, ReadyInv
  <2> QED
    BY <2>1, <2>2
<1>8. OutInv' /\ NeverAborts'
  BY DEF OutInv, SnapshotIsLastDecode, NeverAborts, Result, IInv
<1> QED
  BY <1>4, <1>5, <1>7, <1>8 DEF IInv

\* encode: unsupported turns a readout into an error.
LEMMA EncodeBeginInv == IInv /\ EncodeBegin => IInv'
<1> SUFFICES ASSUME IInv, EncodeBegin PROVE IInv'
  OBVIOUS
<1>0. /\ pc = "idle" /\ pc' = "encode" /\ aborted' = FALSE /\ eval' = eval + 1
      /\ faulty' = TRUE /\ state' = locked(unsupported(state))
      /\ out'.op = "encode" /\ out'.error = NoError
      /\ UNCHANGED <<ctx, poisoned, pending, decoded, batch, clean>>
  BY DEF EncodeBegin, StartEval, Result
<1>1. TypeOK /\ state \in State
  BY DEF IInv, TypeOK
<1>2. state' \in State /\ state'.slots = state.slots
  <2>1. unsupported(state) \in State /\ unsupported(state).slots = state.slots
    BY <1>1 DEF unsupported, State, CaptureErrors
  <2> QED
    BY <1>0, <1>1, <2>1 DEF locked
<1>3. TypeOK'
  <2>1. eval' \in Nat /\ out'.error \in CallErrors \cup {NoError}
    BY <1>0, <1>1 DEF TypeOK
  <2> QED
    BY <1>0, <1>1, <1>2, <2>1 DEF TypeOK
<1>4. pending = NoTensor
  BY <1>0 DEF IInv, PendingInv, attentive, ActiveInv
<1>5. SlotsInv' /\ PendingInv'
  BY <1>0, <1>2, <1>4 DEF IInv, SlotsInv, PendingInv
<1>6. ASSUME ~poisoned'
      PROVE  ActiveInv' /\ DecodeInv' /\ SeenInv' /\ ReadyInv'
  <2>1. ~state'.active /\ (state'.ready => ctx' = "capture" /\ state'.error # NoError)
    <3>1. CASE ctx = "capture"
      BY <1>0, <1>1, <1>6, <3>1 DEF locked, unsupported, State, NoError
    <3>2. CASE ctx # "capture"
      BY <1>0, <1>6, <3>2 DEF locked, IInv, ActiveInv, ReadyInv
    <3> QED
      BY <3>1, <3>2
  <2> QED
    BY <1>0, <2>1 DEF ActiveInv, DecodeInv, SeenInv, ReadyInv
<1>7. OutInv' /\ NeverAborts'
  BY <1>0 DEF OutInv, SnapshotIsLastDecode, NeverAborts
<1> QED
  BY <1>3, <1>5, <1>6, <1>7 DEF IInv

\* eval_chunks starts behind the capture's back, and finds it inactive.
LEMMA EvalChunksBeginInv == IInv /\ EvalChunksBegin => IInv'
<1> SUFFICES ASSUME IInv, EvalChunksBegin PROVE IInv'
  OBVIOUS
<1>0. /\ pc = "idle" /\ pc' = "chunks" /\ aborted' = FALSE /\ eval' = eval + 1
      /\ out'.op = "chunks" /\ out'.error = NoError
      /\ UNCHANGED <<ctx, state, poisoned, pending, decoded, batch, clean, faulty>>
  BY DEF EvalChunksBegin, StartEval, Result, history_vars
<1>1. TypeOK'
  <2>1. eval' \in Nat /\ out'.error \in CallErrors \cup {NoError}
    BY <1>0 DEF IInv, TypeOK
  <2> QED
    BY <1>0, <2>1 DEF IInv, TypeOK
<1>2. pending = NoTensor
  BY <1>0 DEF IInv, PendingInv, attentive, ActiveInv
<1>3. SlotsInv' /\ PendingInv'
  BY <1>0, <1>2 DEF IInv, SlotsInv, PendingInv
<1>4. ~poisoned' => ActiveInv' /\ DecodeInv'
  BY <1>0 DEF IInv, ActiveInv, DecodeInv
<1>5. ~poisoned' => SeenInv'
  BY <1>0 DEF IInv, SeenInv, SeenLayers, LastToken
<1>6. ~poisoned' => ReadyInv'
  BY <1>0 DEF IInv, ReadyInv, AllLayers
<1>7. OutInv' /\ NeverAborts'
  BY <1>0 DEF OutInv, SnapshotIsLastDecode, NeverAborts
<1> QED
  BY <1>1, <1>3, <1>4, <1>5, <1>6, <1>7 DEF IInv

\* The end of an encode or of eval_chunks touches no capture state.
LEMMA OtherEvalEndInv == IInv /\ OtherEvalEnd => IInv'
<1> SUFFICES ASSUME IInv, OtherEvalEnd PROVE IInv'
  OBVIOUS
<1>0. /\ pc \in {"encode", "chunks"} /\ pc' = "idle" /\ pending = NoTensor
      /\ out'.op \in {"encode", "chunks"} /\ out'.error \in CallErrors \cup {NoError}
      /\ UNCHANGED <<ctx, state, poisoned, pending, aborted, eval, decoded, batch, clean, faulty>>
  BY DEF OtherEvalEnd, Result, capture_vars, native_vars, history_vars, CallErrors,
     CaptureErrors
<1>1. TypeOK'
  BY <1>0 DEF IInv, TypeOK
<1>3. SlotsInv' /\ PendingInv'
  BY <1>0 DEF IInv, SlotsInv, PendingInv
<1>4. ~poisoned' => ActiveInv' /\ DecodeInv'
  BY <1>0 DEF IInv, ActiveInv, DecodeInv
<1>5. ~poisoned' => SeenInv'
  BY <1>0 DEF IInv, SeenInv, SeenLayers, LastToken
<1>6. ~poisoned' => ReadyInv'
  BY <1>0 DEF IInv, ReadyInv, AllLayers
<1>7. OutInv' /\ NeverAborts'
  BY <1>0 DEF IInv, OutInv, SnapshotIsLastDecode, NeverAborts
<1> QED
  BY <1>1, <1>3, <1>4, <1>5, <1>6, <1>7 DEF IInv

\* callback, ask: only an active capture makes the scheduler wait.
LEMMA CallbackAskInv ==
  ASSUME NEW t \in Tensor
  PROVE  IInv /\ CallbackAsk(t) => IInv'
<1> SUFFICES ASSUME IInv, CallbackAsk(t) PROVE IInv'
  OBVIOUS
<1>0. /\ pc # "idle"
      /\ state' = IF attentive /\ t = NullTensor
                  THEN [state EXCEPT !.error = "CallbackFailed"] ELSE state
      /\ pending' = IF callback_result(t, TRUE) THEN t ELSE NoTensor
      /\ faulty' = (faulty \/ (attentive /\ t = NullTensor))
      /\ UNCHANGED <<ctx, pc, poisoned, aborted, eval, decoded, batch, clean, out>>
  BY DEF CallbackAsk
<1>1. TypeOK /\ state \in State
  BY DEF IInv, TypeOK
<1>2. /\ state' \in State /\ state'.slots = state.slots
      /\ state'.active = state.active /\ state'.ready = state.ready
      /\ state'.enabled = state.enabled /\ state'.rows = state.rows
      /\ state'.outputs = state.outputs
  BY <1>0, <1>1 DEF State, CaptureErrors
<1>3. TypeOK'
  BY <1>0, <1>1, <1>2 DEF TypeOK
<1>4. SlotsInv'
  BY <1>0, <1>2 DEF IInv, SlotsInv
<1>5. PendingInv'
  <2>1. CASE callback_result(t, TRUE)
    <3>1. attentive /\ t # NullTensor /\ has_slot(state, t.layer)
      BY <2>1 DEF callback_result
    <3>2. state' = state /\ pending' = t
      BY <1>0, <2>1, <3>1
    <3> QED
      BY <1>0, <3>1, <3>2 DEF PendingInv, attentive, has_slot
  <2>2. CASE ~callback_result(t, TRUE)
    BY <1>0, <2>2 DEF PendingInv
  <2> QED
    BY <2>1, <2>2
<1>6. CASE attentive /\ t = NullTensor
  <2>1. state'.error = "CallbackFailed" /\ faulty'
    BY <1>0, <1>1, <1>6 DEF State
  <2>2. ~poisoned' => ActiveInv' /\ DecodeInv' /\ SeenInv' /\ ReadyInv'
    BY <1>0, <1>2, <1>6, <2>1 DEF IInv, attentive, ActiveInv, DecodeInv, SeenInv, ReadyInv,
       NoError
  <2>3. OutInv' /\ NeverAborts'
    BY <1>0 DEF IInv, OutInv, SnapshotIsLastDecode, NeverAborts
  <2> QED
    BY <1>3, <1>4, <1>5, <2>2, <2>3 DEF IInv
<1>7. CASE ~(attentive /\ t = NullTensor)
  <2>1. UNCHANGED <<state, faulty>>
    BY <1>0, <1>1, <1>7 DEF TypeOK
  <2>2. ~poisoned' => ActiveInv' /\ DecodeInv'
    BY <1>0, <2>1 DEF IInv, ActiveInv, DecodeInv
  <2>3. ~poisoned' => SeenInv'
    <3>1. LastToken' = LastToken /\ SeenLayers' = SeenLayers
      BY <1>0, <2>1 DEF SeenLayers, LastToken
    <3> QED
      BY <1>0, <2>1, <3>1 DEF IInv, SeenInv
  <2>4. ~poisoned' => ReadyInv'
    BY <1>0, <2>1 DEF IInv, ReadyInv, AllLayers
  <2>5. OutInv' /\ NeverAborts'
    BY <1>0 DEF IInv, OutInv, SnapshotIsLastDecode, NeverAborts
  <2> QED
    BY <1>3, <1>4, <1>5, <2>2, <2>3, <2>4, <2>5 DEF IInv
<1> QED
  BY <1>6, <1>7

\* callback, read: a slot gets the last token's residual, or an error is latched.
LEMMA CallbackReadInv == IInv /\ CallbackRead => IInv'
<1> SUFFICES ASSUME IInv, CallbackRead PROVE IInv'
  OBVIOUS
<1> DEFINE k == slot_of(state, pending.layer)
           good == /\ pending.layer \notin clean
                   /\ pending.finite
                   /\ pending.kind \in {"full", "pruned"}
<1>0. /\ pc # "idle"
      /\ pending # NoTensor
      /\ pending' = NoTensor
      /\ clean' = IF good THEN clean \cup {pending.layer} ELSE clean
      /\ faulty' = (faulty \/ ~good)
      /\ aborted' = (aborted \/ ~callback_result(pending, FALSE))
      /\ UNCHANGED <<ctx, pc, poisoned, eval, decoded, batch, out>>
  BY DEF CallbackRead
<1>1. /\ attentive /\ pending # NullTensor /\ has_slot(state, pending.layer)
      /\ pending \in Tensor
      /\ state \in State /\ eval \in Nat /\ batch \in Batch /\ clean \subseteq Nat
  BY <1>0 DEF IInv, TypeOK, PendingInv
<1>2. /\ ctx = "capture" /\ ~poisoned /\ state.active /\ state.error = NoError
      /\ pc = "decode" /\ decoded = eval /\ batch_shape_ok(batch) /\ ~state.ready
      /\ state.enabled /\ state.rows = Rows(batch)
      /\ state.outputs = Cardinality(OutputRows(batch))
      /\ ~faulty /\ clean = SeenLayers
      /\ \A i \in DOMAIN state.slots : state.slots[i].seen => state.slots[i].values = LastToken
  BY <1>1 DEF IInv, attentive, ActiveInv, DecodeInv, SeenInv
<1>3. state' = read_state(state, pending)
  BY <1>1 DEF CallbackRead
<1>4. /\ state' \in State
      /\ SameLayers(state, state')
      /\ k \in DOMAIN state.slots /\ state.slots[k].layer = pending.layer
      /\ state' = [state EXCEPT !.slots = state'.slots, !.error = state'.error]
      /\ \A j \in DOMAIN state.slots : j # k => state'.slots[j] = state.slots[j]
      /\ state'.error = NoError =>
           /\ ~state.slots[k].seen
           /\ state'.slots[k].seen
           /\ state'.slots[k].values = LastToken
           /\ pending.finite
           /\ pending.kind \in {"full", "pruned"}
  <2>1. LastToken = [eval |-> eval, token |-> Rows(batch), finite |-> TRUE]
    BY <1>2 DEF LastToken
  <2>2. ReadFacts(state, pending, state', k)
    BY <1>1, <1>2, <1>3, ReadState
  <2> QED
    BY <2>1, <2>2 DEF ReadFacts
<1> HIDE DEF k
<1>5. \A i, j \in DOMAIN state.slots : state.slots[i].layer = state.slots[j].layer => i = j
  BY <1>2 DEF IInv, SlotsInv
<1>6. /\ state'.active /\ ~state'.ready /\ state'.enabled
      /\ state'.rows = state.rows /\ state'.outputs = state.outputs
  BY <1>1, <1>2, <1>4 DEF State
<1>7. pending.layer \in Nat
  <2>1. state.slots[k] \in Slot
    BY <1>1, <1>4, LenProperties DEF State
  <2> QED
    BY <1>4, <2>1 DEF Slot
<1>8. TypeOK'
  <2>1. clean' \subseteq Nat /\ faulty' \in BOOLEAN /\ aborted' \in BOOLEAN
    BY <1>0, <1>1, <1>7
  <2> QED
    BY <1>0, <1>4, <2>1 DEF IInv, TypeOK
<1>9. SlotsInv' /\ PendingInv'
  BY <1>0, <1>4 DEF IInv, SlotsInv, PendingInv, SameLayers
<1>10. NeverAborts'
  BY <1>0, <1>1 DEF IInv, NeverAborts, callback_result
<1>11. OutInv'
  BY <1>0 DEF IInv, OutInv, SnapshotIsLastDecode
<1>12. DecodeInv' /\ ReadyInv'
  BY <1>6 DEF DecodeInv, ReadyInv
<1>13. CASE state'.error = NoError
  <2>1. good
    <3>1. pending.layer \notin SeenLayers
      BY <1>4, <1>5, <1>13 DEF SeenLayers
    <3> QED
      BY <1>2, <1>4, <1>13, <3>1
  <2>2. clean' = clean \cup {pending.layer} /\ ~faulty'
    BY <1>0, <1>2, <2>1
  <2>3. SeenLayers' = SeenLayers \cup {pending.layer}
    <3>1. \A j \in DOMAIN state.slots : state'.slots[j].seen <=> (state.slots[j].seen \/ j = k)
      BY <1>4, <1>13
    <3>2. \A x : x \in SeenLayers' <=>
                   \E j \in DOMAIN state.slots : state'.slots[j].seen /\ x = state.slots[j].layer
      BY <1>4 DEF SeenLayers, SameLayers
    <3>3. \A x : x \in SeenLayers <=>
                   \E j \in DOMAIN state.slots : state.slots[j].seen /\ x = state.slots[j].layer
      BY DEF SeenLayers
    <3> QED
      BY <1>4, <3>1, <3>2, <3>3
  <2>4. \A i \in DOMAIN state'.slots : state'.slots[i].seen => state'.slots[i].values = LastToken'
    <3>1. LastToken' = LastToken
      BY <1>0 DEF LastToken
    <3> QED
      BY <1>2, <1>4, <1>13, <3>1 DEF SameLayers
  <2>5. SeenInv'
    BY <1>2, <2>2, <2>3, <2>4 DEF SeenInv
  <2>6. ActiveInv'
    BY <1>0, <1>2, <1>6, <1>13 DEF ActiveInv
  <2> QED
    BY <1>8, <1>9, <1>10, <1>11, <1>12, <2>5, <2>6 DEF IInv
<1>14. CASE state'.error # NoError
  <2>1. faulty'
    <3>1. ASSUME good PROVE FALSE
      <4>1. ~state.slots[k].seen
        <5>1. pending.layer \notin SeenLayers
          BY <1>2, <3>1
        <5> QED
          BY <1>4, <5>1 DEF SeenLayers
      <4>2. row_offset_ok(pending, state)
        <5>1. TensorRows(pending, batch) \in {state.rows, state.outputs}
          BY <1>2, <3>1 DEF TensorRows
        <5>2. TensorRows(pending, batch) > 0
          BY <1>1, <1>2, <3>1, TensorRowsPositive
        <5> QED
          BY <3>1, <5>1, <5>2 DEF row_offset_ok
      <4>3. state'.error = state.error
        BY <1>1, <1>3, <3>1, <4>1, <4>2 DEF read_state, k, State
      <4> QED
        BY <1>2, <1>14, <4>3
    <3> QED
      BY <1>0, <3>1
  <2>2. ActiveInv'
    BY <1>0, <1>2, <1>6, <2>1 DEF ActiveInv
  <2>3. SeenInv'
    BY <1>14 DEF SeenInv
  <2> QED
    BY <1>8, <1>9, <1>10, <1>11, <1>12, <2>2, <2>3 DEF IInv
<1> QED
  BY <1>13, <1>14

\* A panic in the callback poisons the mutex, which ends all obligations on the state.
LEMMA CallbackPanicInv == IInv /\ CallbackPanic => IInv'
<1> SUFFICES ASSUME IInv, CallbackPanic PROVE IInv'
  OBVIOUS
<1>0. /\ pc # "idle" /\ ctx = "capture" /\ poisoned' = TRUE /\ pending' = NoTensor
      /\ faulty' = TRUE
      /\ UNCHANGED <<ctx, pc, aborted, eval, decoded, batch, clean, out>>
  BY DEF CallbackPanic
<1>1. state \in State /\ eval \in Nat /\ batch \in Batch
  BY DEF IInv, TypeOK
<1>2. state' \in State /\ SameLayers(state, state')
  <2>1. CASE state' = state
    BY <1>1, <2>1 DEF SameLayers
  <2>2. CASE state' # state
    <3> DEFINE k == slot_of(state, pending.layer)
    <3>1. /\ pending # NoTensor
          /\ \/ state' = read_state(state, pending)
             \/ state' = [state EXCEPT !.slots[k].values = torn]
      BY <2>2 DEF CallbackPanic
    <3>2. /\ pending \in Tensor /\ pending # NullTensor /\ has_slot(state, pending.layer)
          /\ state.error = NoError /\ batch_shape_ok(batch)
      BY <3>1 DEF IInv, TypeOK, PendingInv, attentive, ActiveInv
    <3>3. ReadFacts(state, pending, read_state(state, pending), k)
      BY <1>1, <3>2, ReadState
    <3>4. CASE state' = read_state(state, pending)
      BY <3>3, <3>4 DEF ReadFacts
    <3>5. CASE state' = [state EXCEPT !.slots[k].values = torn]
      <4> DEFINE slot == [state.slots[k] EXCEPT !.values = torn]
      <4>1. k \in DOMAIN state.slots
        BY <3>3 DEF ReadFacts
      <4> HIDE DEF k
      <4>2. /\ state.slots \in Seq(Slot)
            /\ DOMAIN state.slots = 1..Len(state.slots)
            /\ state.slots[k] \in Slot
        BY <1>1, <4>1, LenProperties DEF State
      <4>3. slot \in Slot /\ slot.layer = state.slots[k].layer
        BY <1>1, <4>2 DEF Slot, Value, torn
      <4>4. state' = [state EXCEPT !.slots = [state.slots EXCEPT ![k] = slot]]
        BY <1>1, <3>5, <4>1, <4>2 DEF State, Slot
      <4> HIDE DEF slot
      <4>5. /\ [state.slots EXCEPT ![k] = slot] \in Seq(Slot)
            /\ DOMAIN [state.slots EXCEPT ![k] = slot] = DOMAIN state.slots
        BY <4>1, <4>2, <4>3, ExceptSeq
      <4> QED
        BY <1>1, <4>1, <4>2, <4>3, <4>4, <4>5 DEF State, SameLayers
    <3> QED
      BY <3>1, <3>4, <3>5
  <2> QED
    BY <2>1, <2>2
<1>3. TypeOK'
  BY <1>0, <1>2 DEF IInv, TypeOK
<1>4. SlotsInv' /\ PendingInv'
  BY <1>0, <1>2 DEF IInv, SlotsInv, PendingInv, SameLayers
<1>5. OutInv' /\ NeverAborts'
  BY <1>0 DEF IInv, OutInv, SnapshotIsLastDecode, NeverAborts
<1> QED
  BY <1>0, <1>3, <1>4, <1>5 DEF IInv

\* set_enabled clears the readout and the seen flags.
LEMMA SetEnabledInv ==
  ASSUME NEW e \in BOOLEAN
  PROVE  IInv /\ SetEnabled(e) => IInv'
<1> SUFFICES ASSUME IInv, SetEnabled(e) PROVE IInv'
  OBVIOUS
<1>0. /\ ctx # "none" /\ pc = "idle" /\ state' = locked(set_enabled(state, e))
      /\ out'.op = "set_enabled" /\ out'.error \in CallErrors \cup {NoError}
      /\ UNCHANGED <<ctx, pc, poisoned, pending, aborted, eval, decoded, batch, clean, faulty>>
  BY DEF SetEnabled, Idle, Result, native_vars, history_vars, set_enabled_error, CallErrors,
     CaptureErrors
<1>1. state \in State /\ batch \in Batch
  BY DEF IInv, TypeOK
<1>2. state' \in State /\ SameLayers(state, state')
  BY <1>0, <1>1, MethodsType DEF locked, SameLayers
<1>3. TypeOK'
  BY <1>0, <1>2 DEF IInv, TypeOK
<1>4. pending = NoTensor
  BY <1>0 DEF IInv, PendingInv, attentive, ActiveInv
<1>5. SlotsInv' /\ PendingInv'
  BY <1>0, <1>2, <1>4 DEF IInv, SlotsInv, PendingInv, SameLayers
<1>6. ASSUME ~poisoned'
      PROVE  ActiveInv' /\ DecodeInv' /\ SeenInv' /\ ReadyInv'
  <2>1. ~state'.active /\ ~state'.ready
    <3>1. CASE ctx = "capture"
      BY <1>0, <1>1, <1>6, <3>1 DEF locked, set_enabled, State
    <3>2. CASE ctx # "capture"
      BY <1>0, <1>6, <3>2 DEF locked, IInv, ActiveInv, ReadyInv
    <3> QED
      BY <3>1, <3>2
  <2> QED
    BY <1>0, <2>1 DEF ActiveInv, DecodeInv, SeenInv, ReadyInv
<1>7. OutInv' /\ NeverAborts'
  BY <1>0 DEF IInv, OutInv, SnapshotIsLastDecode, NeverAborts
<1> QED
  BY <1>3, <1>5, <1>6, <1>7 DEF IInv

\* A take that fails returns nothing and changes nothing.
LEMMA TakeFailsInv == IInv /\ TakeFails => IInv'
<1> SUFFICES ASSUME IInv, TakeFails PROVE IInv'
  OBVIOUS
<1>0. /\ ctx # "none" /\ pc = "idle"
      /\ UNCHANGED <<ctx, pc, state, poisoned, pending, aborted, eval, decoded, batch,
                     clean, faulty>>
      /\ out'.op = "take"
      /\ out'.error \in {take_error, "AllocationFailed"} /\ out'.error # NoError
  BY DEF TakeFails, Idle, native_vars, history_vars, Result
<1>1. state.error \in CaptureErrors \cup {NoError}
  BY DEF IInv, TypeOK, State
<1>2. TypeOK'
  <2>1. out'.error \in CallErrors
    BY <1>0, <1>1 DEF take_error, CallErrors, CaptureErrors
  <2> QED
    BY <1>0, <2>1 DEF IInv, TypeOK
<1>3. OutInv'
  BY <1>0 DEF OutInv, SnapshotIsLastDecode
<1> QED
  BY <1>0, <1>2, <1>3, SameCaptureInv DEF IInv

\* take returns what the invariant says of a complete readout.
LEMMA TakeInv == IInv /\ Take => IInv'
<1> SUFFICES ASSUME IInv, Take PROVE IInv'
  OBVIOUS
<1>0. /\ ctx # "none" /\ pc = "idle" /\ take_error = NoError
      /\ state' = [state EXCEPT !.ready = FALSE]
      /\ out'.op = "take" /\ out'.error = NoError /\ out'.snapshot = snapshot_of(state)
      /\ UNCHANGED <<ctx, pc, poisoned, pending, aborted, eval, decoded, batch, clean, faulty>>
  BY DEF Take, Idle, native_vars, history_vars, Result
<1>1. state \in State
  BY DEF IInv, TypeOK
<1>2. /\ state' \in State /\ state'.slots = state.slots /\ ~state'.ready
      /\ state'.active = state.active
  BY <1>0, <1>1 DEF State
<1>3. ctx = "capture" /\ ~poisoned /\ state.ready /\ state.error = NoError
  BY <1>0 DEF take_error, NoError, IInv, TypeOK
<1>4. TypeOK'
  BY <1>0, <1>2 DEF IInv, TypeOK
<1>5. ~state.active /\ pending = NoTensor
  BY <1>0, <1>3 DEF IInv, PendingInv, attentive, ActiveInv
<1>6. SlotsInv' /\ PendingInv' /\ NeverAborts'
  BY <1>0, <1>2, <1>5 DEF IInv, SlotsInv, PendingInv, NeverAborts
<1>7. ActiveInv' /\ DecodeInv' /\ SeenInv' /\ ReadyInv'
  BY <1>0, <1>2, <1>5 DEF ActiveInv, DecodeInv, SeenInv, ReadyInv
<1>8. \A i \in DOMAIN state.slots : state.slots[i].values = LastToken
  BY <1>3 DEF IInv, ReadyInv, SeenInv
<1>9. SnapshotIsLastDecode'
  <2>1. LastToken' = LastToken
    BY <1>0 DEF LastToken
  <2>2. /\ DOMAIN out'.snapshot = DOMAIN state'.slots
        /\ \A i \in DOMAIN state'.slots :
             /\ out'.snapshot[i].layer = state'.slots[i].layer
             /\ out'.snapshot[i].values = LastToken'
    BY <1>0, <1>2, <1>8, <2>1 DEF snapshot_of
  <2> QED
    BY <2>2 DEF SnapshotIsLastDecode, LastToken
<1> QED
  BY <1>0, <1>4, <1>6, <1>7, <1>9 DEF IInv, OutInv

\* Every step of a context keeps the invariant.
LEMMA NextInv == IInv /\ [Next]_vars => IInv'
<1> SUFFICES ASSUME IInv, [Next]_vars PROVE IInv'
  OBVIOUS
<1>1. CASE UNCHANGED vars
  <2>1. TypeOK' /\ OutInv'
    BY <1>1 DEF vars, IInv, TypeOK, OutInv, SnapshotIsLastDecode
  <2> QED
    BY <1>1, <2>1, SameCaptureInv DEF vars, IInv
<1>2. CASE Next
  BY <1>2, NewContextInv, NewContextWithCaptureInv, NewContextWithCaptureFailsInv,
     DecodeBeginInv, DecodeEndInv, EncodeBeginInv, EvalChunksBeginInv, OtherEvalEndInv,
     CallbackAskInv, CallbackReadInv, CallbackPanicInv, SetEnabledInv, TakeFailsInv, TakeInv
     DEF Next
<1> QED
  BY <1>1, <1>2

(***************************************************************************)
(* The theorems.                                                           *)
(***************************************************************************)

\* Every reachable state of a context with capture satisfies the invariant.
THEOREM InvariantHolds == Spec => []IInv
<1>1. Init => IInv
  BY InitInv
<1>2. IInv /\ [Next]_vars => IInv'
  BY NextInv
<1> QED
  BY <1>1, <1>2, PTL DEF Spec

\* The variables, Capture's state under the mutex among them, keep their types.
THEOREM TypeCorrect == Spec => []TypeOK
<1>1. IInv => TypeOK
  BY DEF IInv
<1> QED
  BY <1>1, InvariantHolds, PTL

\* take_hidden_states never returns a partial or stale snapshot, for any layers,
\* batches, scheduling of the native graph and failures.
THEOREM SnapshotFresh == Spec => []SnapshotIsLastDecode
<1>1. IInv => SnapshotIsLastDecode
  BY DEF IInv, OutInv
<1> QED
  BY <1>1, InvariantHolds, PTL

\* A readout succeeds exactly when the batch, the layers and the decode were good:
\* the errors the callback and finish latch are neither lost nor spurious.
THEOREM ReadoutIsExact == Spec => []ReadoutExact
<1>1. IInv => ReadoutExact
  <2> SUFFICES ASSUME IInv, pc = "idle", ctx = "capture", ~poisoned, state.ready
               PROVE  state.error = NoError <=>
                        /\ ~faulty
                        /\ batch_shape_ok(batch)
                        /\ clean = AllLayers
    BY DEF ReadoutExact, AllLayers
  <2>1. CASE state.error = NoError
    <3>1. /\ ~faulty /\ clean = SeenLayers /\ batch_shape_ok(batch)
          /\ \A i \in DOMAIN state.slots : state.slots[i].seen
      BY <2>1 DEF IInv, SeenInv, ReadyInv
    <3>2. SeenLayers = AllLayers
      BY <3>1 DEF SeenLayers, AllLayers
    <3> QED
      BY <2>1, <3>1, <3>2
  <2>2. CASE state.error # NoError
    BY <2>2 DEF IInv, ReadyInv
  <2> QED
    BY <2>1, <2>2
<1> QED
  BY <1>1, InvariantHolds, PTL

\* The callback never makes the scheduler abandon a computation.
THEOREM CaptureNeverAborts == Spec => []NeverAborts
<1>1. IInv => NeverAborts
  BY DEF IInv
<1> QED
  BY <1>1, InvariantHolds, PTL

\* While capture is disabled no step of a context reads a tensor or asks for one.
THEOREM DisabledIsSilent == Spec => DisabledReadsNothing
<1> DEFINE Silent == ctx = "capture" /\ ~state.enabled =>
                       /\ pending' = NoTensor
                       /\ \A i \in DOMAIN state.slots :
                            state'.slots[i].values = state.slots[i].values
<1>1. IInv /\ [Next]_vars => [Silent]_vars
  <2> SUFFICES ASSUME IInv, Next, ctx = "capture", ~state.enabled
               PROVE  /\ pending' = NoTensor
                      /\ \A i \in DOMAIN state.slots :
                           state'.slots[i].values = state.slots[i].values
    BY DEF vars
  <2>1. state \in State /\ batch \in Batch /\ pending = NoTensor /\ ~attentive
    BY DEF IInv, TypeOK, PendingInv, attentive, ActiveInv
  <2>2. CASE NewContext \/ \E config \in Configs, width \in Widths :
           NewContextWithCapture(config, width) \/ NewContextWithCaptureFails(config, width)
    BY <2>2 DEF NewContext, NewContextWithCapture, NewContextWithCaptureFails, NoContext
  <2>3. ASSUME NEW b \in Batches, DecodeBegin(b)
        PROVE  /\ pending' = NoTensor
               /\ \A i \in DOMAIN state.slots :
                    state'.slots[i].values = state.slots[i].values
    BY <2>1, <2>3, BatchesAssumption, MethodsType DEF DecodeBegin, StartEval, locked
  <2>4. ASSUME NEW success \in BOOLEAN, DecodeEnd(success)
        PROVE  pending' = NoTensor /\ state'.slots = state.slots
    BY <2>1, <2>4 DEF DecodeEnd, native_vars, locked, finish, State
  <2>5. CASE EncodeBegin
    BY <2>1, <2>5 DEF EncodeBegin, StartEval, locked, unsupported, State
  <2>6. CASE EvalChunksBegin \/ OtherEvalEnd
    BY <2>1, <2>6 DEF EvalChunksBegin, OtherEvalEnd, StartEval, native_vars, capture_vars
  <2>7. ASSUME NEW t \in Tensor, CallbackAsk(t)
        PROVE  pending' = NoTensor /\ state' = state
    BY <2>1, <2>7 DEF CallbackAsk, callback_result
  <2>8. CASE CallbackRead \/ CallbackPanic
    BY <2>1, <2>8 DEF CallbackRead, CallbackPanic
  <2>9. ASSUME NEW e \in BOOLEAN, SetEnabled(e)
        PROVE  /\ pending' = NoTensor
               /\ \A i \in DOMAIN state.slots :
                    state'.slots[i].values = state.slots[i].values
    BY <2>1, <2>9, MethodsType DEF SetEnabled, Idle, native_vars, locked
  <2>10. CASE TakeFails \/ Take
    BY <2>1, <2>10 DEF TakeFails, Take, Idle, native_vars, State
  <2> QED
    BY <2>2, <2>3, <2>4, <2>5, <2>6, <2>7, <2>8, <2>9, <2>10 DEF Next
<1> QED
  BY <1>1, InvariantHolds, PTL DEF Spec, DisabledReadsNothing

\* The order of evaluations and the state of a context without capture.
LEMMA OrderHolds == Spec => []OrderInv
<1>1. Init => OrderInv
  BY DEF Init, OrderInv, fresh
<1>2. IInv /\ OrderInv /\ [Next]_vars => OrderInv'
  <2> SUFFICES ASSUME IInv, OrderInv, [Next]_vars PROVE OrderInv'
    OBVIOUS
  <2>0. state \in State /\ batch \in Batch /\ eval \in Nat /\ decoded \in Nat
    BY DEF IInv, TypeOK
  <2>1. CASE UNCHANGED vars \/ NewContext \/ EvalChunksBegin \/ OtherEvalEnd
    BY <2>0, <2>1 DEF OrderInv, vars, NewContext, NoContext, EvalChunksBegin, StartEval,
       OtherEvalEnd, native_vars, history_vars, capture_vars
  <2>2. ASSUME NEW config \in Configs, NEW width \in Widths,
               NewContextWithCapture(config, width) \/ NewContextWithCaptureFails(config, width)
        PROVE  OrderInv'
    BY <2>2 DEF OrderInv, NewContextWithCapture, NewContextWithCaptureFails, NoContext,
       native_vars, history_vars, fresh
  <2>3. ASSUME NEW b \in Batches, DecodeBegin(b)
        PROVE  OrderInv'
    <3>1. /\ UNCHANGED <<ctx, poisoned>> /\ decoded' = eval + 1 /\ eval' = eval + 1
          /\ state' = IF ctx = "capture" /\ ~poisoned THEN begin(state, b) ELSE state
      BY <2>3 DEF DecodeBegin, StartEval, locked
    <3>2. begin(state, b).enabled = state.enabled /\ ~begin(state, b).ready
      BY <2>0 DEF begin, State
    <3> QED
      BY <2>0, <3>1, <3>2 DEF OrderInv
  <2>4. ASSUME NEW success \in BOOLEAN, DecodeEnd(success)
        PROVE  OrderInv'
    <3>1. /\ UNCHANGED <<ctx, poisoned, decoded, eval>>
          /\ state' = IF ctx = "capture" /\ ~poisoned THEN finish(state, success) ELSE state
      BY <2>4 DEF DecodeEnd, native_vars, locked
    <3>2. ctx = "capture" /\ ~poisoned => ~state.ready
      BY <2>4 DEF DecodeEnd, IInv, DecodeInv
    <3>3. /\ finish(state, success).enabled = state.enabled
          /\ finish(state, success).ready => state.ready \/ state.enabled
      BY <2>0 DEF finish, State
    <3> QED
      BY <3>1, <3>2, <3>3 DEF OrderInv
  <2>5. CASE EncodeBegin
    <3>1. /\ UNCHANGED <<ctx, poisoned, decoded>> /\ eval' = eval + 1
          /\ state' = IF ctx = "capture" /\ ~poisoned THEN unsupported(state) ELSE state
      BY <2>5 DEF EncodeBegin, StartEval, locked
    <3>2. unsupported(state).enabled = state.enabled /\ unsupported(state).ready = state.enabled
      BY <2>0 DEF unsupported, State
    <3> QED
      BY <2>0, <3>1, <3>2 DEF OrderInv
  <2>6. ASSUME NEW t \in Tensor, CallbackAsk(t)
        PROVE  OrderInv'
    BY <2>0, <2>6 DEF CallbackAsk, OrderInv, State
  <2>7. CASE CallbackRead
    <3>1. /\ attentive /\ pending \in Tensor /\ pending # NullTensor
          /\ has_slot(state, pending.layer) /\ batch_shape_ok(batch)
      BY <2>7 DEF CallbackRead, IInv, TypeOK, PendingInv, ActiveInv, attentive
    <3>2. state' = read_state(state, pending) /\ UNCHANGED <<ctx, poisoned, decoded, eval>>
      BY <2>7, <3>1 DEF CallbackRead
    <3>3. ReadFacts(state, pending, read_state(state, pending), slot_of(state, pending.layer))
      BY <2>0, <3>1, ReadState DEF attentive
    <3>4. state' = [state EXCEPT !.slots = state'.slots, !.error = state'.error]
      BY <3>2, <3>3 DEF ReadFacts
    <3>5. state'.enabled = state.enabled /\ state'.ready = state.ready
      BY <2>0, <3>4 DEF State
    <3> QED
      BY <3>2, <3>5 DEF OrderInv
  <2>8. CASE CallbackPanic
    BY <2>8 DEF CallbackPanic, OrderInv
  <2>9. ASSUME NEW e \in BOOLEAN, SetEnabled(e)
        PROVE  OrderInv'
    <3>1. /\ UNCHANGED <<ctx, poisoned, decoded, eval>>
          /\ state' = IF ctx = "capture" /\ ~poisoned THEN set_enabled(state, e) ELSE state
      BY <2>9 DEF SetEnabled, Idle, native_vars, history_vars, locked
    <3>2. ~set_enabled(state, e).ready
      BY <2>0 DEF set_enabled, State
    <3> QED
      BY <3>1, <3>2 DEF OrderInv
  <2>10. CASE TakeFails \/ Take
    BY <2>0, <2>10 DEF TakeFails, Take, Idle, native_vars, history_vars, OrderInv, State
  <2> QED
    BY <2>1, <2>2, <2>3, <2>4, <2>5, <2>6, <2>7, <2>8, <2>9, <2>10 DEF Next
<1> QED
  BY <1>1, <1>2, InvariantHolds, PTL DEF Spec

\* After a panic in the callback the capture never answers and never changes again.
THEOREM PoisonHolds == Spec => PoisonIsFinal
<1> DEFINE Final == poisoned => /\ poisoned'
                                /\ state' = state
                                /\ out'.op \in {"take", "set_enabled"} =>
                                     out'.error = "CallbackFailed"
<1>1. IInv /\ OrderInv /\ [Next]_vars => [Final]_vars
  <2> SUFFICES ASSUME IInv, OrderInv, Next, poisoned PROVE Final
    BY DEF vars
  <2>1. ctx = "capture" /\ pending = NoTensor /\ ~attentive /\ state \in State
    BY DEF OrderInv, IInv, TypeOK, PendingInv, attentive
  <2>2. pc # "idle" => out.op \notin {"take", "set_enabled"}
    BY DEF IInv, OutInv
  <2>3. CASE NewContext \/ \E config \in Configs, width \in Widths :
           NewContextWithCapture(config, width) \/ NewContextWithCaptureFails(config, width)
    BY <2>1, <2>3 DEF NewContext, NewContextWithCapture, NewContextWithCaptureFails, NoContext
  <2>4. CASE EncodeBegin \/ EvalChunksBegin \/ \E b \in Batches : DecodeBegin(b)
    <3>1. poisoned' = poisoned /\ out'.op \in {"encode", "chunks", "decode"}
      <4>1. EncodeBegin => poisoned' = poisoned /\ out'.op = "encode"
        BY DEF EncodeBegin, StartEval, Result
      <4>2. EvalChunksBegin => poisoned' = poisoned /\ out'.op = "chunks"
        BY DEF EvalChunksBegin, StartEval, Result
      <4>3. ASSUME NEW b \in Batches, DecodeBegin(b)
            PROVE  poisoned' = poisoned /\ out'.op = "decode"
        BY <4>3 DEF DecodeBegin, StartEval, Result
      <4> QED
        BY <2>4, <4>1, <4>2, <4>3
    <3>2. state' = state
      BY <2>4 DEF EncodeBegin, EvalChunksBegin, DecodeBegin, locked
    <3> QED
      BY <3>1, <3>2
  <2>5. CASE OtherEvalEnd \/ \E success \in BOOLEAN : DecodeEnd(success)
    <3>1. poisoned' = poisoned /\ out'.op \in {"encode", "chunks", "decode"}
      <4>1. OtherEvalEnd => poisoned' = poisoned /\ out'.op \in {"encode", "chunks"}
        BY DEF OtherEvalEnd, capture_vars, Result
      <4>2. ASSUME NEW success \in BOOLEAN, DecodeEnd(success)
            PROVE  poisoned' = poisoned /\ out'.op = "decode"
        BY <4>2 DEF DecodeEnd, Result
      <4> QED
        BY <2>5, <4>1, <4>2
    <3>2. state' = state
      BY <2>5 DEF OtherEvalEnd, DecodeEnd, locked, capture_vars
    <3> QED
      BY <3>1, <3>2
  <2>6. CASE CallbackRead \/ CallbackPanic \/ \E t \in Tensor : CallbackAsk(t)
    BY <2>1, <2>2, <2>6 DEF CallbackRead, CallbackPanic, CallbackAsk
  <2>7. ASSUME NEW e \in BOOLEAN, SetEnabled(e)
        PROVE  Final
    BY <2>1, <2>7 DEF SetEnabled, Idle, locked, set_enabled_error, Result
  <2>8. CASE TakeFails \/ Take
    BY <2>1, <2>8 DEF TakeFails, Take, Idle, take_error, NoError, Result
  <2> QED
    BY <2>3, <2>4, <2>5, <2>6, <2>7, <2>8 DEF Next
<1> QED
  BY <1>1, InvariantHolds, OrderHolds, PTL DEF Spec, PoisonIsFinal

(***************************************************************************)
(* Refinement: the capture implements CaptureReadout.                      *)
(***************************************************************************)

\* The mapped variables in terms of the capture's own.
Mapped ==
  /\ readout_status \in {"none", "failed", "snapshot"}
  /\ readout_status # "none" <=> ctx = "capture" /\ ~poisoned /\ state.ready
  /\ readout_status = "snapshot" <=>
       ctx = "capture" /\ ~poisoned /\ state.ready /\ state.error = NoError
  /\ readout_origin = IF readout_status = "snapshot" THEN decoded ELSE 0
  /\ out.op # "take" \/ out.error # NoError => delivered = 0

\* What the mapping amounts to while the invariant holds: a pending readout
\* without an error is a snapshot whose vectors are all of the last decode.
LEMMA MappedReadout == IInv => Mapped
<1> SUFFICES ASSUME IInv PROVE Mapped
  OBVIOUS
<1>1. /\ readout_status \in {"none", "failed", "snapshot"}
      /\ readout_status # "none" <=> ctx = "capture" /\ ~poisoned /\ state.ready
      /\ readout_status = "snapshot" <=>
           ctx = "capture" /\ ~poisoned /\ state.ready /\ state.error = NoError
  BY DEF readout_status
<1>2. ASSUME readout_status = "snapshot"
      PROVE  \A i \in DOMAIN state.slots : state.slots[i].values.eval = decoded
  <2>1. ~poisoned /\ state.ready /\ state.error = NoError
    BY <1>1, <1>2
  <2>2. \A i \in DOMAIN state.slots : state.slots[i].values = LastToken
    BY <2>1 DEF IInv, ReadyInv, SeenInv
  <2> QED
    BY <2>2 DEF LastToken
<1>3. readout_origin = IF readout_status = "snapshot" THEN decoded ELSE 0
  BY <1>2 DEF readout_origin
<1> QED
  BY <1>1, <1>3 DEF delivered, Mapped

\* The same after a step.
LEMMA MappedReadoutNext == IInv' => Mapped'
  BY MappedReadout, PTL

\* Every step of a context is a step of the readout, or leaves it alone.
LEMMA StepRefines ==
  IInv /\ OrderInv /\ IInv' /\ [Next]_vars => [Readout!Next]_(Readout!vars)
<1> SUFFICES ASSUME IInv, OrderInv, IInv', [Next]_vars
             PROVE  [Readout!Next]_(Readout!vars)
  OBVIOUS
<1> DEFINE Refuses == /\ delivered' = 0
                      /\ readout_status' = readout_status /\ readout_origin' = readout_origin
                      /\ decoded' = decoded /\ state'.enabled = state.enabled
                      /\ poisoned' = poisoned
<1>0. /\ state \in State /\ batch \in Batch /\ eval \in Nat /\ decoded \in Nat
      /\ poisoned \in BOOLEAN /\ state.enabled \in BOOLEAN
  BY DEF IInv, TypeOK, State
<1>1. Mapped /\ Mapped'
  BY MappedReadout, MappedReadoutNext
<1>2. Refuses => Readout!Next
  BY DEF Readout!Next, Readout!Refuse
<1>3. ASSUME UNCHANGED <<ctx, state, poisoned, decoded>>
      PROVE  readout_status' = readout_status /\ readout_origin' = readout_origin
  <2>1. readout_status' = readout_status
    BY <1>3 DEF readout_status
  <2> QED
    BY <1>1, <1>3, <2>1 DEF Mapped
<1>4. CASE UNCHANGED vars
  <2>1. delivered' = delivered
    BY <1>4 DEF vars, delivered
  <2> QED
    BY <1>3, <1>4, <2>1 DEF vars, Readout!vars
<1>5. ASSUME NewContext \/ \E config \in Configs, width \in Widths :
           NewContextWithCapture(config, width) \/ NewContextWithCaptureFails(config, width)
      PROVE  Refuses
  <2>1. /\ ctx = "none" /\ UNCHANGED <<poisoned, decoded>> /\ out'.op = "new"
    BY <1>5 DEF NewContext, NewContextWithCapture, NewContextWithCaptureFails, NoContext,
       history_vars, Result
  <2>2. state'.enabled = state.enabled /\ (ctx' = "capture" => ~state'.ready)
    <3>1. CASE UNCHANGED state /\ ctx' # "capture"
      BY <3>1
    <3>2. ASSUME NEW config \in Configs, state' = fresh(config)
          PROVE  state'.enabled = state.enabled /\ ~state'.ready
      <4>1. state'.enabled = TRUE /\ state'.ready = FALSE
        BY <3>2 DEF fresh
      <4>2. state.enabled = TRUE
        BY <1>0, <2>1 DEF OrderInv
      <4> QED
        BY <4>1, <4>2
    <3> QED
      BY <1>5, <2>1, <3>1, <3>2
         DEF NewContext, NewContextWithCapture, NewContextWithCaptureFails
  <2> QED
    BY <1>1, <2>1, <2>2 DEF Mapped
<1>6. ASSUME NEW b \in Batches, DecodeBegin(b)
      PROVE  Readout!Next
  <2>1. /\ decoded' = eval + 1 /\ UNCHANGED <<ctx, poisoned>> /\ out'.op = "decode"
        /\ state' = locked(begin(state, b))
    BY <1>6 DEF DecodeBegin, StartEval, Result
  <2>2. begin(state, b).enabled = state.enabled /\ ~begin(state, b).ready
    BY <1>0 DEF begin, State
  <2>3. state'.enabled = state.enabled /\ readout_status' = "none"
    BY <1>1, <2>1, <2>2 DEF Mapped, locked
  <2>4. decoded' > decoded
    BY <1>0, <2>1 DEF OrderInv
  <2>5. readout_origin' = 0 /\ delivered' = 0
    BY <1>1, <2>1, <2>3 DEF Mapped
  <2> QED
    BY <2>1, <2>3, <2>4, <2>5 DEF Readout!Next, Readout!StartDecode, Readout!Empty
<1>7. ASSUME NEW success \in BOOLEAN, DecodeEnd(success)
      PROVE  Readout!Next
  <2>1. /\ UNCHANGED <<ctx, poisoned, decoded>> /\ out'.op = "decode" /\ pc = "decode"
        /\ state' = locked(finish(state, success))
    BY <1>7 DEF DecodeEnd, Result
  <2>2. /\ finish(state, success).enabled = state.enabled
        /\ ~state.enabled => finish(state, success).ready = state.ready
    BY <1>0 DEF finish, State
  <2>3. state'.enabled = state.enabled /\ delivered' = 0
    BY <1>1, <2>1, <2>2 DEF locked, Mapped
  <2>4. readout_status = "none" /\ readout_origin = 0
    BY <1>1, <2>1 DEF IInv, DecodeInv, Mapped
  <2>5. CASE ctx = "capture" /\ ~poisoned /\ state'.ready
    <3>1. state.enabled
      BY <2>1, <2>2, <2>5 DEF locked, IInv, DecodeInv
    <3>2. \/ readout_status' = "snapshot" /\ readout_origin' = decoded
          \/ readout_status' = "failed" /\ readout_origin' = 0
      BY <1>1, <2>1, <2>5 DEF Mapped
    <3> QED
      BY <2>1, <2>3, <2>4, <2>5, <3>1, <3>2 DEF Readout!Next, Readout!Observe
  <2>6. CASE ~(ctx = "capture" /\ ~poisoned /\ state'.ready)
    <3>1. readout_status' = "none" /\ readout_origin' = 0
      BY <1>1, <2>1, <2>6 DEF Mapped
    <3> QED
      BY <1>2, <2>1, <2>3, <2>4, <3>1
  <2> QED
    BY <2>5, <2>6
<1>8. ASSUME EncodeBegin
      PROVE  Readout!Next
  <2>1. /\ UNCHANGED <<ctx, poisoned, decoded>> /\ out'.op = "encode"
        /\ state' = locked(unsupported(state))
    BY <1>8 DEF EncodeBegin, StartEval, Result
  <2>2. /\ unsupported(state).enabled = state.enabled
        /\ unsupported(state).ready = state.enabled
        /\ unsupported(state).error # NoError
    BY <1>0 DEF unsupported, State, NoError
  <2>3. state'.enabled = state.enabled /\ delivered' = 0
    BY <1>1, <2>1, <2>2 DEF locked, Mapped
  <2>4. CASE ctx = "capture" /\ ~poisoned /\ state.enabled
    <3>1. state'.ready /\ state'.error # NoError
      BY <2>1, <2>2, <2>4 DEF locked
    <3>2. readout_status' = "failed" /\ readout_origin' = 0
      BY <1>1, <2>1, <2>4, <3>1 DEF Mapped
    <3> QED
      BY <2>1, <2>3, <2>4, <3>2 DEF Readout!Next, Readout!Encode
  <2>5. CASE ~(ctx = "capture" /\ ~poisoned /\ state.enabled)
    <3>1. readout_status = "none" /\ readout_origin = 0
      BY <1>1, <2>5 DEF Mapped, OrderInv
    <3>2. ~(ctx' = "capture" /\ ~poisoned' /\ state'.ready)
      BY <2>1, <2>2, <2>5 DEF locked
    <3>3. readout_status' = "none" /\ readout_origin' = 0
      BY <1>1, <3>2 DEF Mapped
    <3> QED
      BY <1>2, <2>1, <2>3, <3>1, <3>3
  <2> QED
    BY <2>4, <2>5
<1>9. ASSUME EvalChunksBegin \/ OtherEvalEnd
      PROVE  Refuses
  <2>1. UNCHANGED <<ctx, state, poisoned, decoded>> /\ out'.op # "take"
    BY <1>9 DEF EvalChunksBegin, OtherEvalEnd, StartEval, Result, history_vars, capture_vars
  <2> QED
    BY <1>1, <1>3, <2>1 DEF Mapped
<1>10. ASSUME CallbackRead \/ \E t \in Tensor : CallbackAsk(t)
       PROVE  UNCHANGED Readout!vars
  <2>1. UNCHANGED <<ctx, poisoned, decoded, out>> /\ pc # "idle"
    BY <1>10 DEF CallbackRead, CallbackAsk
  <2>2. delivered' = delivered
    BY <2>1 DEF delivered
  <2>3. CASE state' = state
    BY <1>3, <2>1, <2>2, <2>3 DEF Readout!vars
  <2>4. CASE state' # state
    <3>1. attentive
      BY <1>10, <2>4 DEF CallbackRead, CallbackAsk
    <3>2. ~state.ready
      BY <3>1 DEF IInv, attentive, ActiveInv, DecodeInv
    <3>3. state'.enabled = state.enabled /\ state'.ready = state.ready
      <4>1. ASSUME NEW t \in Tensor, CallbackAsk(t)
            PROVE  state'.enabled = state.enabled /\ state'.ready = state.ready
        BY <1>0, <4>1 DEF CallbackAsk, State
      <4>2. CASE CallbackRead
        <5>1. /\ pending \in Tensor /\ pending # NullTensor
              /\ has_slot(state, pending.layer) /\ batch_shape_ok(batch)
              /\ state.error = NoError
          BY <3>1, <4>2 DEF CallbackRead, IInv, TypeOK, PendingInv, ActiveInv, attentive
        <5>2. ReadFacts(state, pending, state', slot_of(state, pending.layer))
          BY <1>0, <3>1, <4>2, <5>1, ReadState DEF CallbackRead
        <5>3. state' = [state EXCEPT !.slots = state'.slots, !.error = state'.error]
          BY <5>2 DEF ReadFacts
        <5> QED
          BY <1>0, <5>3 DEF State
      <4> QED
        BY <1>10, <4>1, <4>2
    <3>4. readout_status = "none" /\ readout_status' = "none"
      BY <1>1, <3>2, <3>3 DEF Mapped
    <3>5. readout_origin = 0 /\ readout_origin' = 0
      BY <1>1, <3>4 DEF Mapped
    <3> QED
      BY <2>1, <2>2, <3>3, <3>4, <3>5 DEF Readout!vars
  <2> QED
    BY <2>3, <2>4
<1>11. ASSUME CallbackPanic
       PROVE  Readout!Next
  <2>1. /\ UNCHANGED <<ctx, decoded, out>> /\ pc # "idle" /\ ~poisoned /\ poisoned' = TRUE
    BY <1>11 DEF CallbackPanic
  <2>2. state'.enabled = state.enabled
    <3>1. CASE state' = state
      BY <3>1
    <3>2. CASE state' # state
      <4> DEFINE k == slot_of(state, pending.layer)
      <4>1. /\ pending # NoTensor
            /\ \/ state' = read_state(state, pending)
               \/ state' = [state EXCEPT !.slots[k].values = torn]
        BY <1>11, <3>2 DEF CallbackPanic
      <4>2. CASE state' = [state EXCEPT !.slots[k].values = torn]
        BY <1>0, <4>2 DEF State
      <4>3. CASE state' = read_state(state, pending)
        <5>1. /\ pending \in Tensor /\ pending # NullTensor
              /\ has_slot(state, pending.layer) /\ batch_shape_ok(batch)
              /\ state.error = NoError
          BY <4>1 DEF IInv, TypeOK, PendingInv, ActiveInv, attentive
        <5>2. ReadFacts(state, pending, state', k)
          BY <1>0, <4>3, <5>1, ReadState
        <5>3. state' = [state EXCEPT !.slots = state'.slots, !.error = state'.error]
          BY <5>2 DEF ReadFacts
        <5> QED
          BY <1>0, <5>3 DEF State
      <4> QED
        BY <4>1, <4>2, <4>3
    <3> QED
      BY <3>1, <3>2
  <2>3. readout_status' = "none" /\ readout_origin' = 0
    BY <1>1, <2>1 DEF Mapped
  <2>4. delivered' = 0
    BY <1>1, <2>1 DEF Mapped, IInv, OutInv
  <2> QED
    BY <2>1, <2>2, <2>3, <2>4 DEF Readout!Next, Readout!Break, Readout!Empty
<1>12. ASSUME NEW e \in BOOLEAN, SetEnabled(e)
       PROVE  Readout!Next
  <2>1. /\ UNCHANGED <<ctx, poisoned, decoded>> /\ out'.op = "set_enabled"
        /\ state' = locked(set_enabled(state, e))
    BY <1>12 DEF SetEnabled, Idle, history_vars, Result
  <2>2. delivered' = 0
    BY <1>1, <2>1 DEF Mapped
  <2>3. CASE ctx = "capture" /\ ~poisoned
    <3>1. state'.enabled = e /\ ~state'.ready
      BY <1>0, <2>1, <2>3 DEF locked, set_enabled, State
    <3>2. readout_status' = "none" /\ readout_origin' = 0
      BY <1>1, <3>1 DEF Mapped
    <3> QED
      BY <2>1, <2>2, <2>3, <3>1, <3>2 DEF Readout!Next, Readout!SetEnabled, Readout!Empty
  <2>4. CASE ~(ctx = "capture" /\ ~poisoned)
    <3>1. state' = state
      BY <2>1, <2>4 DEF locked
    <3> QED
      BY <1>2, <1>3, <2>1, <2>2, <3>1
  <2> QED
    BY <2>3, <2>4
<1>13. ASSUME TakeFails
       PROVE  Refuses
  <2>1. UNCHANGED <<ctx, state, poisoned, decoded>> /\ out'.error # NoError
    BY <1>13 DEF TakeFails, Idle, history_vars, Result
  <2> QED
    BY <1>1, <1>3, <2>1 DEF Mapped
<1>14. ASSUME Take
       PROVE  Readout!Next
  <2>1. /\ UNCHANGED <<ctx, poisoned, decoded>> /\ take_error = NoError /\ ctx # "none"
        /\ state' = [state EXCEPT !.ready = FALSE]
        /\ out'.op = "take" /\ out'.error = NoError
    BY <1>14 DEF Take, Idle, history_vars, Result
  <2>2. ctx = "capture" /\ ~poisoned /\ state.ready /\ state.error = NoError
    BY <2>1 DEF take_error, NoError, IInv, TypeOK
  <2>3. state'.enabled = state.enabled /\ ~state'.ready
    BY <1>0, <2>1 DEF State
  <2>4. readout_status = "snapshot" /\ readout_origin = decoded
    BY <1>1, <2>2 DEF Mapped
  <2>5. readout_status' = "none" /\ readout_origin' = 0
    BY <1>1, <2>3 DEF Mapped
  <2>6. delivered' = decoded
    <3>1. 1 \in DOMAIN state'.slots
      BY <2>1, <2>2 DEF IInv, SlotsInv
    <3>2. out'.snapshot[1].values = LastToken'
      BY <2>1, <3>1 DEF IInv, OutInv, SnapshotIsLastDecode, LastToken
    <3>3. out'.snapshot[1].values.eval = decoded
      BY <2>1, <3>2 DEF LastToken
    <3> QED
      BY <2>1, <3>3 DEF delivered
  <2> QED
    BY <2>1, <2>3, <2>4, <2>5, <2>6 DEF Readout!Next, Readout!Deliver, Readout!Empty
<1> QED
  BY <1>2, <1>4, <1>5, <1>6, <1>7, <1>8, <1>9, <1>10, <1>11, <1>12, <1>13, <1>14 DEF Next

\* The capture, with everything the native scheduler may do to it, implements the
\* one-place readout of the contract: what is taken was observed once, by the last
\* decode, and is handed out once.
THEOREM CaptureImplementsReadout == Spec => ImplementsReadout
<1>1. Init => Readout!Init
  <2> SUFFICES ASSUME Init PROVE Readout!Init
    OBVIOUS
  <2>1. Mapped /\ ctx = "none" /\ decoded = 0 /\ poisoned = FALSE /\ out.op = "none"
    BY InitInv, MappedReadout DEF Init, Result
  <2>2. state.enabled = TRUE
    BY DEF Init, fresh
  <2> QED
    BY <2>1, <2>2 DEF Mapped, Readout!Init
<1>2. IInv /\ OrderInv /\ IInv' /\ [Next]_vars => [Readout!Next]_(Readout!vars)
  BY StepRefines
<1> QED
  BY <1>1, <1>2, InvariantHolds, OrderHolds, PTL DEF Spec, ImplementsReadout, Readout!Spec
=============================================================================
