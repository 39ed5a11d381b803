---------------------------- MODULE ContextMemory ----------------------------
(***************************************************************************)
(* The memory of one LlamaContext: the operations on ranges of a sequence  *)
(* (context/kv_cache.rs) and saving and restoring it, through files,       *)
(* buffers and sequence snapshots (context/session.rs).                    *)
(*                                                                         *)
(* A memory holds for each sequence the positions in the KV cache and the  *)
(* running state of recurrent layers, abstracted to the number of tokens   *)
(* that it has taken in.  What llama.cpp does is external.                 *)
(***************************************************************************)
EXTENDS Integers, FiniteSets

CONSTANTS
  Seqs,        \* sequence ids
  MaxPos,      \* bound: largest position
  MaxRun,      \* bound: tokens in one running state
  I32_MAX,     \* i32::MAX; u32 has twice as many values as i32 has from 0
  Slots,       \* places where the caller keeps a SeqState
  Files,       \* files and buffers
  MaxSaved,    \* bound: length of a token list
  MaxCalls     \* bound: calls

ASSUME MemoryAssumption ==
  /\ Seqs \subseteq Nat
  /\ I32_MAX \in Nat /\ MaxPos \in 0 .. I32_MAX
  /\ MaxRun \in Nat /\ MaxSaved \in Nat /\ MaxCalls \in Nat

Positions == 0 .. MaxPos
U32 == 0 .. 2 * I32_MAX + 1

\* Option<u32>: <<>> is None.
OptionU32 == {<<>>} \cup {<<n>> : n \in U32}

SeqFlags == SUBSET {"PARTIAL_ONLY", "ON_DEVICE"}

Content == [kv : SUBSET Positions, run : 0 .. MaxRun]
Empty == [kv |-> {}, run |-> 0]

Nothing == [kind |-> "none"]

(***************************************************************************)
(* memory    the native memory, per sequence                               *)
(* promised  history: the memory that the documentation of the calls that  *)
(*           were made promises                                            *)
(* snaps     the SeqState values the caller holds: kv and run are what was *)
(*           captured, layout the flags its bytes were written with, flags *)
(*           those it carries, generation the number of its capture        *)
(* device    what the last capture with ON_DEVICE left on the device       *)
(* captures  history: the number of captures with ON_DEVICE                *)
(* files     state files and buffers                                       *)
(* last      the result of the last call, with the token list it returned: *)
(*           its length, how many tokens llama.cpp has written to it, and  *)
(*           how many were saved                                           *)
(***************************************************************************)
VARIABLES memory, promised, snaps, device, captures, files, last, calls

memoryVars == <<memory, promised, snaps, device, captures, files, last, calls>>

Memories == [Seqs -> Content]
Captured == [kind : {"seq"}, kv : SUBSET Positions, run : 0 .. MaxRun,
             layout : SeqFlags, flags : SeqFlags, of : Seqs, generation : Nat]
Saved == [kind : {"session", "image"}, memory : Memories, n : 0 .. MaxSaved]
         \cup [kind : {"sequence"}, content : Content, n : 0 .. MaxSaved]
         \cup [kind : {"none", "torn"}]
Results == {"Ok", "False", "SeqIdTooLarge", "P0TooLarge", "P1TooLarge",
            "PartialSequenceRemovalFailed", "PathError", "FailedToSave",
            "FailedToLoad", "InsufficientMaxLength", "SizeMismatch"}

MemoryTypeOK ==
  /\ memory \in Memories /\ promised \in Memories
  /\ snaps \in [Slots -> Captured \cup {Nothing}]
  /\ device \in [Seqs -> Content]
  /\ captures \in [Seqs -> Nat]
  /\ files \in [Files -> Saved]
  /\ last \in [result : Results, length : 0 .. MaxSaved,
               written : 0 .. MaxSaved, saved : 0 .. MaxSaved]
  /\ calls \in Nat

MemoryInit ==
  /\ memory = [s \in Seqs |-> Empty]
  /\ promised = memory
  /\ snaps = [k \in Slots |-> Nothing]
  /\ device = [s \in Seqs |-> Empty]
  /\ captures = [s \in Seqs |-> 0]
  /\ files = [f \in Files |-> Nothing]
  /\ last = [result |-> "Ok", length |-> 0, written |-> 0, saved |-> 0]
  /\ calls = 0

Returns(r) ==
  last' = [result |-> r, length |-> 0, written |-> 0, saved |-> 0]

Call == calls < MaxCalls /\ calls' = calls + 1

-----------------------------------------------------------------------------
(* The memory operations of llama.cpp on a set of positions.               *)

\* The positions in [p0, p1); a negative bound is open.
native_range(p0, p1) ==
  {p \in Positions : (p0 < 0 \/ p0 <= p) /\ (p1 < 0 \/ p < p1)}

seq_rm(m, ss, range) ==
  [s \in Seqs |->
     IF s \notin ss THEN m[s]
     ELSE [kv |-> m[s].kv \ range,
           run |-> IF range = Positions THEN 0 ELSE m[s].run]]

seq_cp(m, src, dst, range) ==
  [m EXCEPT ![dst] = [kv |-> m[dst].kv \cup (m[src].kv \cap range),
                      run |-> m[src].run]]

seq_map(m, s, range, Move(_)) ==
  [m EXCEPT ![s] =
     [kv |-> (m[s].kv \ range) \cup
             ({Move(p) : p \in m[s].kv \cap range} \cap Positions),
      run |-> m[s].run]]

\* p is the largest position of a sequence, -1 if it has none.
kv_cache_seq_pos_max(s, p) ==
  p \in memory[s].kv \cup {-1} /\ \A q \in memory[s].kv : q <= p

\* llama_decode of one token, at the position that follows.
DecodeToken(s) ==
  /\ Call
  /\ memory[s].run < MaxRun
  /\ \E p \in Positions :
       /\ kv_cache_seq_pos_max(s, p - 1)
       /\ memory' = [memory EXCEPT ![s] = [kv |-> memory[s].kv \cup {p},
                                          run |-> memory[s].run + 1]]
  /\ promised' = memory'
  /\ Returns("Ok")
  /\ UNCHANGED <<snaps, device, captures, files>>

-----------------------------------------------------------------------------
(* kv_cache.rs *)

\* Faulty variant: `as i32`.
try_i32_wraps(o) ==
  IF o = <<>> THEN <<-1>>
  ELSE <<IF o[1] <= I32_MAX THEN o[1] ELSE o[1] - 2 * (I32_MAX + 1)>>

\* .map_or(Ok(-1), i32::try_from): the converted value, or an error.
try_i32(o) ==
  IF o = <<>> THEN <<-1>> ELSE IF o[1] <= I32_MAX THEN o ELSE <<>>

\* What the documentation says of the bounds: "within the specified range
\* [p0, p1)", "If `None`, the entire cache is cleared up to `p1`" and so on.
Asked(o0, o1) ==
  {p \in Positions : (o0 # <<>> => o0[1] <= p) /\ (o1 # <<>> => p < o1[1])}

\* A call with a range: the bounds are converted before llama.cpp is called;
\* Effect(m, r) is the operation on the positions r of the memory m.
RangeCall(o0, o1, Effect(_, _)) ==
  /\ Call
  /\ LET p0 == try_i32(o0)  p1 == try_i32(o1) IN
     \/ /\ p0 = <<>> /\ Returns("P0TooLarge")
        /\ UNCHANGED <<memory, promised>>
     \/ /\ p0 # <<>> /\ p1 = <<>> /\ Returns("P1TooLarge")
        /\ UNCHANGED <<memory, promised>>
     \/ /\ p0 # <<>> /\ p1 # <<>> /\ Returns("Ok")
        /\ memory' = Effect(memory, native_range(p0[1], p1[1]))
        /\ promised' = Effect(promised, Asked(o0, o1))
  /\ UNCHANGED <<snaps, device, captures, files>>

\* copy_cache passes the size as the end of the range.
CopyCache(src, dest, size) ==
  /\ Call
  /\ memory' = seq_cp(memory, src, dest, native_range(0, size))
  /\ promised' = IF size < 0 THEN memory'
                 ELSE seq_cp(promised, src, dest, {p \in Positions : p < size})
  /\ Returns("Ok")
  /\ UNCHANGED <<snaps, device, captures, files>>

CopyKvCacheSeq(src, dest, o0, o1) ==
  RangeCall(o0, o1, LAMBDA m, r : seq_cp(m, src, dest, r))

KvCacheSeqCp(seq_id_src, seq_id_dst, o0, o1) ==
  RangeCall(o0, o1, LAMBDA m, r : seq_cp(m, seq_id_src, seq_id_dst, r))

KvCacheSeqAdd(seq_id, o0, o1, delta) ==
  RangeCall(o0, o1, LAMBDA m, r : seq_map(m, seq_id, r, LAMBDA p : p + delta))

KvCacheSeqDiv(seq_id, o0, o1, d) ==
  RangeCall(o0, o1, LAMBDA m, r : seq_map(m, seq_id, r, LAMBDA p : p \div d))

\* llama_memory_seq_rm: only the removal of a part may fail.
Removal(ss, range, asked_of, asked, failed) ==
  \/ /\ Returns("Ok")
     /\ memory' = seq_rm(memory, ss, range)
     /\ promised' = seq_rm(promised, asked_of, asked)
  \/ /\ range # Positions
     /\ Returns(failed)
     /\ UNCHANGED <<memory, promised>>

\* src = None stands for all sequences.
ClearKvCacheSeq(src, o0, o1) ==
  /\ Call
  /\ LET s == try_i32(src)  p0 == try_i32(o0)  p1 == try_i32(o1) IN
     \/ /\ s = <<>> /\ Returns("SeqIdTooLarge")
        /\ UNCHANGED <<memory, promised>>
     \/ /\ s # <<>> /\ p0 = <<>> /\ Returns("P0TooLarge")
        /\ UNCHANGED <<memory, promised>>
     \/ /\ s # <<>> /\ p0 # <<>> /\ p1 = <<>> /\ Returns("P1TooLarge")
        /\ UNCHANGED <<memory, promised>>
     \/ /\ s # <<>> /\ p0 # <<>> /\ p1 # <<>>
        /\ Removal(IF s[1] < 0 THEN Seqs ELSE {s[1]},
                   native_range(p0[1], p1[1]),
                   IF src = <<>> THEN Seqs ELSE {src[1]}, Asked(o0, o1), "False")
  /\ UNCHANGED <<snaps, device, captures, files>>

KvCacheSeqRm(seq_id, o0, o1) ==
  /\ Call
  /\ LET p0 == try_i32(o0)  p1 == try_i32(o1) IN
     \/ /\ p0 = <<>> /\ Returns("P0TooLarge")
        /\ UNCHANGED <<memory, promised>>
     \/ /\ p0 # <<>> /\ p1 = <<>> /\ Returns("P1TooLarge")
        /\ UNCHANGED <<memory, promised>>
     \/ /\ p0 # <<>> /\ p1 # <<>>
        /\ Removal({seq_id}, native_range(p0[1], p1[1]),
                   {seq_id}, Asked(o0, o1), "PartialSequenceRemovalFailed")
  /\ UNCHANGED <<snaps, device, captures, files>>

ClearKvCache ==
  /\ Call
  /\ memory' = [s \in Seqs |-> Empty]
  /\ promised' = [s \in Seqs |-> Empty]
  /\ Returns("Ok")
  /\ UNCHANGED <<snaps, device, captures, files>>

KvCacheSeqKeep(seq_id) ==
  /\ Call
  /\ memory' = seq_rm(memory, Seqs \ {seq_id}, Positions)
  /\ promised' = [s \in Seqs |-> IF s = seq_id THEN promised[s] ELSE Empty]
  /\ Returns("Ok")
  /\ UNCHANGED <<snaps, device, captures, files>>

-----------------------------------------------------------------------------
(* session.rs: files and buffers with the whole state *)

\* The path is not UTF-8 or has a null byte, so llama.cpp is not called.
BadPath == Call /\ Returns("PathError")
           /\ UNCHANGED <<memory, promised, snaps, device, captures, files>>

\* A file that llama.cpp fails to write is left as it was, or torn.
save(f, state) ==
  /\ Call
  /\ \/ files' = [files EXCEPT ![f] = state] /\ Returns("Ok")
     \/ /\ files' \in {files, [files EXCEPT ![f] = [kind |-> "torn"]]}
        /\ Returns("FailedToSave")
  /\ UNCHANGED <<memory, promised, snaps, device, captures>>

SaveSessionFile(f, n) ==
  save(f, [kind |-> "session", memory |-> memory, n |-> n])

StateSaveFile(f, n) ==
  save(f, [kind |-> "session", memory |-> memory, n |-> n])

StateSeqSaveFile(f, seq_id, n) ==
  save(f, [kind |-> "sequence", content |-> memory[seq_id], n |-> n])

\* Faulty variant: n_out is not tested.
loaded_unchecked(n_out, max_tokens) ==
  [result |-> "Ok", length |-> n_out,
   written |-> IF n_out <= max_tokens THEN n_out ELSE max_tokens, saved |-> n_out]

\* What a load returns once llama.cpp has succeeded and reported n_out tokens:
\* it has written no more of them than the vector has room for.
loaded(n_out, max_tokens) ==
  IF n_out > max_tokens
  THEN [result |-> "InsufficientMaxLength", length |-> 0, written |-> 0, saved |-> 0]
  ELSE [result |-> "Ok", length |-> n_out, written |-> n_out, saved |-> n_out]

\* llama.cpp puts restored(m) in place of the memory m, or fails, having read
\* nothing, or having cleared what it was to replace.
load(f, kind, max_tokens, Restored(_), Cleared(_)) ==
  /\ Call
  /\ \/ /\ files[f].kind = kind
        /\ memory' = Restored(memory)
        /\ last' = loaded(files[f].n, max_tokens)
        /\ promised' = IF last'.result = "Ok" THEN Restored(promised) ELSE memory'
     \/ /\ memory' \in {memory, Cleared(memory)}
        /\ promised' = memory'
        /\ Returns("FailedToLoad")
  /\ UNCHANGED <<snaps, device, captures, files>>

LoadSessionFile(f, max_tokens) ==
  load(f, "session", max_tokens, LAMBDA m : files[f].memory,
       LAMBDA m : [s \in Seqs |-> Empty])

StateLoadFile(f, max_tokens) ==
  load(f, "session", max_tokens, LAMBDA m : files[f].memory,
       LAMBDA m : [s \in Seqs |-> Empty])

StateSeqLoadFile(f, dest_seq_id, max_tokens) ==
  load(f, "sequence", max_tokens,
       LAMBDA m : [m EXCEPT ![dest_seq_id] = files[f].content],
       LAMBDA m : [m EXCEPT ![dest_seq_id] = Empty])

\* Into a buffer of the size that get_state_size returns.
CopyStateData(f) ==
  /\ Call
  /\ files' = [files EXCEPT ![f] = [kind |-> "image", memory |-> memory, n |-> 0]]
  /\ Returns("Ok")
  /\ UNCHANGED <<memory, promised, snaps, device, captures>>

\* From a buffer that copy_state_data has filled.
SetStateData(f) ==
  /\ Call
  /\ files[f].kind = "image"
  /\ memory' = files[f].memory
  /\ promised' = files[f].memory
  /\ Returns("Ok")
  /\ UNCHANGED <<snaps, device, captures, files>>

-----------------------------------------------------------------------------
(* session.rs: the state of one sequence *)

\* llama_state_seq_get_data_ext into a buffer that is large enough, or not; it
\* writes all (wrote) or returns 0.  With ON_DEVICE the data stays on the device,
\* where it replaces that of the last capture of the sequence.
state_seq_get_data_ext(seq_id, flags, fits, wrote) ==
  /\ wrote => fits
  /\ IF "ON_DEVICE" \in flags
     THEN /\ device' = [device EXCEPT ![seq_id] =
                          IF fits THEN memory[seq_id] ELSE device[seq_id]]
          /\ captures' = [captures EXCEPT ![seq_id] = captures[seq_id] + 1]
     ELSE UNCHANGED <<device, captures>>

StateSeqGetDataExt(seq_id, flags) ==
  /\ Call
  /\ \E fits, wrote \in BOOLEAN :
       /\ state_seq_get_data_ext(seq_id, flags, fits, wrote)
       /\ Returns(IF wrote THEN "Ok" ELSE "False")
  /\ UNCHANGED <<memory, promised, snaps, files>>

\* Faulty variant: the flags of the capture are not kept.
SeqStateWithoutFlags(seq_id, flags, generation) ==
  [kind |-> "seq", kv |-> memory[seq_id].kv, run |-> memory[seq_id].run,
   layout |-> flags, flags |-> {}, of |-> seq_id, generation |-> generation]

\* The SeqState that state_seq_get returns carries the flags of the call.
SeqState(seq_id, flags, generation) ==
  [kind |-> "seq", kv |-> memory[seq_id].kv, run |-> memory[seq_id].run,
   layout |-> flags, flags |-> flags, of |-> seq_id, generation |-> generation]

StateSeqGet(k, seq_id, flags) ==
  /\ Call
  /\ \E wrote \in BOOLEAN :
       /\ state_seq_get_data_ext(seq_id, flags, TRUE, wrote)
       /\ IF wrote
          THEN /\ snaps' = [snaps EXCEPT ![k] =
                             SeqState(seq_id, flags, captures'[seq_id])]
               /\ Returns("Ok")
          ELSE UNCHANGED snaps /\ Returns("SizeMismatch")
  /\ UNCHANGED <<memory, promised, files>>

\* What a restore that succeeds makes of the content c of the destination:
\* PARTIAL_ONLY covers the running state alone.  Bytes that were written with
\* other flags do not have the layout that is read.
restored(c, snap, flags) ==
  LET from == IF "ON_DEVICE" \in flags THEN device[snap.of]
              ELSE [kv |-> snap.kv, run |-> snap.run]
  IN  IF flags # snap.layout THEN Empty
      ELSE [kv |-> IF "PARTIAL_ONLY" \in flags THEN c.kv ELSE from.kv,
            run |-> from.run]

\* "Getting the state for a `seq_id` with this flag invalidates all prior
\* states obtained for that `seq_id` with this flag set."
Superseded(snap) ==
  "ON_DEVICE" \in snap.layout /\ captures[snap.of] # snap.generation

set_data(snap, flags, seq_id, failed) ==
  /\ Call
  /\ \/ /\ memory' = [memory EXCEPT ![seq_id] = restored(memory[seq_id], snap, flags)]
        /\ promised' =
             IF Superseded(snap) THEN memory'
             ELSE [promised EXCEPT ![seq_id] =
                     [kv |-> IF "PARTIAL_ONLY" \in snap.layout
                             THEN promised[seq_id].kv ELSE snap.kv,
                      run |-> snap.run]]
        /\ Returns("Ok")
     \/ /\ memory' \in {memory, [memory EXCEPT ![seq_id] = Empty]}
        /\ promised' = memory'
        /\ Returns(failed)
  /\ UNCHANGED <<snaps, device, captures, files>>

StateSeqSet(k, seq_id) ==
  /\ snaps[k] # Nothing
  /\ set_data(snaps[k], snaps[k].flags, seq_id, "SizeMismatch")

\* The unsafe call: the caller passes the bytes and the flags they belong to.
StateSeqSetDataExt(k, dest_seq_id) ==
  /\ snaps[k] # Nothing
  /\ set_data(snaps[k], snaps[k].layout, dest_seq_id, "False")

-----------------------------------------------------------------------------
MemoryNext ==
  \/ \E s \in Seqs : DecodeToken(s) \/ KvCacheSeqKeep(s)
  \/ \E s, d \in Seqs, size \in -1 .. MaxPos + 1 : CopyCache(s, d, size)
  \/ \E s, d \in Seqs, o0, o1 \in OptionU32 :
       CopyKvCacheSeq(s, d, o0, o1) \/ KvCacheSeqCp(s, d, o0, o1)
  \/ \E s \in Seqs, o0, o1 \in OptionU32 :
       \/ KvCacheSeqRm(s, o0, o1)
       \/ \E delta \in {-1, 1} : KvCacheSeqAdd(s, o0, o1, delta)
       \/ KvCacheSeqDiv(s, o0, o1, 2)
  \/ \E src \in {<<>>, <<I32_MAX + 1>>} \cup {<<s>> : s \in Seqs},
        o0, o1 \in OptionU32 : ClearKvCacheSeq(src, o0, o1)
  \/ ClearKvCache
  \/ BadPath
  \/ \E f \in Files, n \in 0 .. MaxSaved :
       \/ SaveSessionFile(f, n) \/ StateSaveFile(f, n)
       \/ LoadSessionFile(f, n) \/ StateLoadFile(f, n)
       \/ \E s \in Seqs : StateSeqSaveFile(f, s, n) \/ StateSeqLoadFile(f, s, n)
  \/ \E f \in Files : CopyStateData(f) \/ SetStateData(f)
  \/ \E s \in Seqs, flags \in SeqFlags :
       \/ StateSeqGetDataExt(s, flags)
       \/ \E k \in Slots : StateSeqGet(k, s, flags)
  \/ \E k \in Slots, s \in Seqs : StateSeqSet(k, s) \/ StateSeqSetDataExt(k, s)

MemorySpec == MemoryInit /\ [][MemoryNext]_memoryVars

-----------------------------------------------------------------------------
(* Properties *)

\* After any sequence of calls the memory is what their documentation promises:
\* the range operations act on the positions [p0, p1) of the sequences asked for
\* (None is an open bound or all sequences), do nothing when they return a
\* conversion error, and a snapshot that was not superseded on the device, a
\* file or a buffer brings back what the sequence had when it was captured
\* (kv_cache.rs; session.rs, state_seq_get and state_seq_set).
MemoryAsPromised == memory = promised

\* What makes MemoryAsPromised inductive: a snapshot carries the flags that its
\* bytes were written with, and what it left on the device is there until the
\* next capture of the sequence.
SnapshotGood(snap) ==
  /\ snap.flags = snap.layout
  /\ snap.generation <= captures[snap.of]
  /\ "ON_DEVICE" \in snap.layout /\ captures[snap.of] = snap.generation =>
       device[snap.of].kv = snap.kv /\ device[snap.of].run = snap.run

SnapshotsGood == \A k \in Slots : snaps[k] # Nothing => SnapshotGood(snaps[k])

\* A load that succeeds returns the token list that was saved, all of it, and
\* only tokens that llama.cpp has written: `set_len` after the test of `n_out`
\* never exposes uninitialized memory (session.rs, load_session_file,
\* state_load_file, state_seq_load_file).
LoadedTokensAreSaved == last.length <= last.written /\ last.length = last.saved

IInv == MemoryTypeOK /\ SnapshotsGood /\ MemoryAsPromised /\ LoadedTokensAreSaved
=============================================================================
