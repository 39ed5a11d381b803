---------------------------- MODULE ModelParams ----------------------------
(***************************************************************************)
(* LlamaModelParams (llama-cpp-2/src/model/params.rs): a C struct, raw,    *)
(* whose lists are pointers into vectors and boxes that the same Rust      *)
(* value owns, self.  load_from_file (model.rs) hands the struct to        *)
(* llama.cpp, which reads each list up to its empty entry.                 *)
(*                                                                         *)
(* A vector is the address of its buffer and its entries; growing it may   *)
(* move the buffer.  wanted is history: what the calls that returned have  *)
(* asked for.  A call that panics leaves the value as it is at that point, *)
(* and the program may catch the panic and go on.  The setters of          *)
(* main_gpu, vocab_only and split_mode are left out.  Patterns are static  *)
(* strings, as add_cpu_buft_override's callers have to see to.             *)
(***************************************************************************)
EXTENDS Integers, Sequences, Retain

CONSTANTS
  Keys,       \* override keys that can be stored
  Payloads,   \* contents of an override value
  Patterns,   \* tensor name patterns
  Addresses,  \* where the allocator may put a buffer
  Null,       \* the null pointer
  LLAMA_CPP_MAX_DEVICES,
  LlamaMaxDevices,  \* llama_max_devices()
  DeviceCount,      \* ggml_backend_dev_count()
  MaxBuft,          \* llama_max_tensor_buft_overrides()
  I32_MAX,
  MaxCalls          \* bound: calls on one value

ASSUME NullAssumption ==
  /\ Null \notin Addresses
  /\ Null \notin Patterns
  /\ Null \notin 0..(DeviceCount - 1)
  /\ Addresses # {}
ASSUME KeyAssumption == "empty" \notin Keys /\ "partial" \notin Keys
ASSUME NumberAssumption ==
  /\ LLAMA_CPP_MAX_DEVICES \in Nat \ {0}
  /\ LlamaMaxDevices \in Nat
  /\ DeviceCount \in Nat
  /\ MaxBuft \in Nat
  /\ I32_MAX \in Nat
  /\ MaxCalls \in Nat

VARIABLES
  self,    \* what the LlamaModelParams value owns
  raw,     \* its C struct, LlamaModelParams.params
  wanted,  \* history: the settings asked for; torn, unfit: a panic or a failed fit
           \* has left the key or the buffer type overrides in an open state
  result,  \* how the last call ended
  calls    \* number of calls on this value

vars == <<self, raw, wanted, result, calls>>

----------------------------------------------------------------------------
(* Values *)

ParamOverrideValue == [kind: {"Bool", "Float", "Int", "Str"}, payload: Payloads]

\* tag, and the inverse in From<&llama_model_kv_override>
tag(value) ==
  CASE value.kind = "Int" -> 0 [] value.kind = "Float" -> 1
    [] value.kind = "Bool" -> 2 [] value.kind = "Str" -> 3
kind_of(t) == CASE t = 0 -> "Int" [] t = 1 -> "Float" [] t = 2 -> "Bool" [] t = 3 -> "Str"

\* llama_model_kv_override; val is the union.  A key that could not be copied
\* to its end is "partial", and "empty" is the key of length 0 that ends a list.
EmptyKv == [key |-> "empty", tag |-> 0, val |-> Null]
KvOverride == [key: Keys \cup {"empty", "partial"}, tag: 0..3, val: Payloads \cup {Null}]

LoadModes == {"NONE", "MMAP", "MLOCK", "MMAP_MLOCK"}
\* Faulty variant: locking implies no mapping.
load_mode_exclusive(use_mmap, use_mlock) ==
  IF use_mlock THEN "MLOCK" ELSE IF use_mmap THEN "MMAP" ELSE "NONE"
load_mode_from_flags(use_mmap, use_mlock) ==
  IF use_mmap THEN IF use_mlock THEN "MMAP_MLOCK" ELSE "MMAP"
  ELSE IF use_mlock THEN "MLOCK" ELSE "NONE"
use_mmap_of(mode)  == mode \in {"MMAP", "MMAP_MLOCK"}
use_mlock_of(mode) == mode \in {"MLOCK", "MMAP_MLOCK"}

\* The entries of a list before the first of its ends, or all of them.
Until(list, ends) ==
  SubSeq(list, 1, CHOOSE n \in 0..Len(list) :
                    /\ \A k \in 1..n : k \notin ends
                    /\ n < Len(list) => n + 1 \in ends)
\* The indices of the null entries of a list.
Nulls(list) == {k \in 1..Len(list) : list[k] = Null}
\* A buffer of n entries with a list in front.
padded(list, n) == [k \in 1..n |-> IF k <= Len(list) THEN list[k] ELSE Null]
\* The sequences over S of length up to n.
Lists(S, n) == UNION {[1..k -> S] : k \in 0..n}

----------------------------------------------------------------------------
(* What is read back *)

\* KvOverrides::into_iter and next: through the raw pointer, up to an empty key
kv_overrides_of(s, r) ==
  LET list == s.kv_overrides.entries
      used == Until(list, {k \in 1..Len(list) : list[k].key = "empty"})
  IN IF r.kv_overrides = Null THEN <<>>
     ELSE [k \in 1..Len(used) |->
             <<used[k].key, [kind |-> kind_of(used[k].tag), payload |-> used[k].val]>>]

\* Faulty variant: the last entry is taken for the terminator.
patterns_but_last(s) ==
  SubSeq(s.buft_overrides.entries, 1, Len(s.buft_overrides.entries) - 1)
\* tensor_buft_override_patterns: every entry of the vector with a pattern
tensor_buft_override_patterns(s) ==
  retained(s.buft_overrides.entries, Patterns)

\* devices: the box's entries up to the first null
devices_of(s) == Until(s.devices.entries, Nulls(s.devices.entries))

\* What llama.cpp reads of the struct that load_from_file passes to it.
NativeView(s, r) ==
  [kv      |-> kv_overrides_of(s, r),
   buft    |-> IF r.tensor_buft_overrides = Null THEN <<>>
               ELSE Until(s.buft_overrides.entries, Nulls(s.buft_overrides.entries)),
   devices |-> IF r.devices = Null THEN <<>> ELSE devices_of(s),
   mmap    |-> use_mmap_of(r.load_mode),
   mlock   |-> use_mlock_of(r.load_mode)]

----------------------------------------------------------------------------
(* default *)

DefaultSelf(a) ==
  [kv_overrides |-> [addr |-> a, entries |-> <<EmptyKv>>],
   buft_overrides |-> [addr |-> a, entries |-> <<Null>>],
   devices |-> [addr |-> a, entries |-> [k \in 1..LLAMA_CPP_MAX_DEVICES |-> Null]],
   tensor_split |-> [addr |-> a, len |-> 0],
   progress_callback |-> Null]
DefaultRaw ==
  [kv_overrides |-> Null, tensor_buft_overrides |-> Null, devices |-> Null,
   tensor_split |-> Null, load_mode |-> "MMAP", no_alloc |-> FALSE,
   n_gpu_layers |-> -1, progress_callback_user_data |-> Null]
DefaultWanted ==
  [kv |-> <<>>, buft |-> <<>>, devices |-> <<>>, mmap |-> TRUE, mlock |-> FALSE,
   torn |-> FALSE, unfit |-> FALSE]

Init ==
  /\ \E a \in Addresses : self = DefaultSelf(a)
  /\ raw = DefaultRaw
  /\ wanted = DefaultWanted
  /\ result = "Ok"
  /\ calls = 0

\* The program starts again with a new value.
Default ==
  /\ \E a \in Addresses : self' = DefaultSelf(a)
  /\ raw' = DefaultRaw
  /\ wanted' = DefaultWanted
  /\ result' = "Ok"
  /\ calls' = 0

----------------------------------------------------------------------------
(* append_kv_override *)

\* Faulty variant: no new terminator.
append_no_push(key, value, a) ==
  /\ self' = [self EXCEPT !.kv_overrides.entries[1] =
                            [key |-> key, tag |-> tag(value), val |-> value.payload]]
  /\ raw' = [raw EXCEPT !.kv_overrides = self.kv_overrides.addr]

\* Faulty variant: the pointer from before the push is kept.
append_old_pointer(key, value, a) ==
  /\ self' = [self EXCEPT !.kv_overrides =
       [addr |-> a,
        entries |-> Append([@.entries EXCEPT ![1] =
                       [key |-> key, tag |-> tag(value), val |-> value.payload]], EmptyKv)]]
  /\ raw' = [raw EXCEPT !.kv_overrides = self.kv_overrides.addr]

\* The key and value are written, the next terminator is pushed, which moves the
\* vector to a, and the pointer is set.
append_kv(key, value, a) ==
  /\ self' = [self EXCEPT !.kv_overrides =
       [addr |-> a,
        entries |-> Append([@.entries EXCEPT ![1] =
                       [key |-> key, tag |-> tag(value), val |-> value.payload]], EmptyKv)]]
  /\ raw' = [raw EXCEPT !.kv_overrides = a]

\* An empty key ends the list, so that nothing is asked for.
AppendKvOverride(key, value) ==
  /\ self.kv_overrides.entries[1].key = "empty"
  /\ \E a \in Addresses : append_kv(key, value, a)
  /\ wanted' = IF key = "empty" THEN wanted
               ELSE [wanted EXCEPT !.kv = Append(@, <<key, value>>)]
  /\ result' = "Ok"

\* get_mut(0) finds the entry of an earlier call
AppendKvOverridePanics ==
  /\ self.kv_overrides.entries[1].key # "empty"
  /\ result' = "panic: last kv_override was not empty"
  /\ UNCHANGED <<self, raw, wanted>>

\* A byte that is no c_char, or a byte too many: the ones before it are written.
AppendBadKeyPanics ==
  /\ self.kv_overrides.entries[1].key = "empty"
  /\ \E key \in {"empty", "partial"} :
       /\ self' = [self EXCEPT !.kv_overrides.entries[1].key = key]
       /\ wanted' = [wanted EXCEPT !.torn = @ \/ key # "empty"]
  /\ result' = "panic: invalid key"
  /\ UNCHANGED raw

----------------------------------------------------------------------------
(* add_cpu_buft_override, add_cpu_moe_override, fit_params *)

AddCpuBuftOverride(pattern) ==
  /\ self.buft_overrides.entries[1] = Null
  /\ \E a \in Addresses :
       /\ self' = [self EXCEPT !.buft_overrides =
            [addr |-> a, entries |-> Append([@.entries EXCEPT ![1] = pattern], Null)]]
       /\ raw' = [raw EXCEPT !.tensor_buft_overrides = a]
  /\ wanted' = [wanted EXCEPT !.buft = Append(@, pattern), !.unfit = FALSE]
  /\ result' = "Ok"

AddCpuBuftOverridePanics ==
  /\ self.buft_overrides.entries[1] # Null
  /\ result' = "panic: last buft_override was not empty"
  /\ UNCHANGED <<self, raw, wanted>>

\* A pattern with a byte that is no c_char panics before anything is written.
AddBadPatternPanics ==
  /\ self.buft_overrides.entries[1] = Null
  /\ result' = "panic: invalid pattern"
  /\ UNCHANGED <<self, raw, wanted>>

\* Both buffers are cleared and resized, and llama.cpp writes the patterns ps.
fit_buffers(a, b, ps) ==
  self' = [self EXCEPT
             !.tensor_split = [addr |-> a, len |-> LlamaMaxDevices],
             !.buft_overrides = [addr |-> b, entries |-> padded(ps, MaxBuft + 1)]]

FitParams ==
  /\ raw.n_gpu_layers = -1
  /\ \E a, b \in Addresses, ps \in Lists(Patterns, MaxBuft), n \in -1..I32_MAX :
       /\ fit_buffers(a, b, ps)
       /\ raw' = [raw EXCEPT !.tensor_split = a, !.tensor_buft_overrides = b,
                             !.n_gpu_layers = n]
       /\ wanted' = [wanted EXCEPT !.buft = ps, !.unfit = FALSE]
  /\ result' = "Ok"

\* The pointers have been cleared; llama.cpp, which has the struct by reference,
\* may have set them to the buffers before it failed.
FitParamsFails ==
  /\ \E a, b \in Addresses, ps \in Lists(Patterns, MaxBuft) :
       /\ fit_buffers(a, b, ps)
       /\ \E p \in {Null, a}, q \in {Null, b} :
            raw' = [raw EXCEPT !.tensor_split = p, !.tensor_buft_overrides = q]
  /\ wanted' = [wanted EXCEPT !.buft = <<>>, !.unfit = TRUE]
  /\ result' \in {"Failure", "Error"}

----------------------------------------------------------------------------
(* The builder's methods *)

max_devices ==
  IF LlamaMaxDevices < LLAMA_CPP_MAX_DEVICES THEN LlamaMaxDevices ELSE LLAMA_CPP_MAX_DEVICES

devices_valid(ds) ==
  /\ Len(ds) <= max_devices
  /\ \A k \in DOMAIN ds : ds[k] < DeviceCount

\* The arguments: indices up to one that does not exist, lists up to one too long.
DeviceLists == Lists(0..DeviceCount, LLAMA_CPP_MAX_DEVICES + 1)

WithDevices(ds) ==
  /\ devices_valid(ds)
  /\ self' = [self EXCEPT !.devices.entries = padded(ds, LLAMA_CPP_MAX_DEVICES)]
  /\ raw' = [raw EXCEPT !.devices = self.devices.addr]
  /\ wanted' = [wanted EXCEPT !.devices = ds]
  /\ result' = "Ok"

\* On an error the value is dropped: the program can only start again.
WithDevicesFails ==
  /\ {ds \in DeviceLists : ~devices_valid(ds)} # {}
  /\ Default

WithUseMmap(b) ==
  /\ raw' = [raw EXCEPT !.load_mode = load_mode_from_flags(b, use_mlock_of(@))]
  /\ wanted' = [wanted EXCEPT !.mmap = b]
  /\ result' = "Ok"
  /\ UNCHANGED self

WithUseMlock(b) ==
  /\ raw' = [raw EXCEPT !.load_mode = load_mode_from_flags(use_mmap_of(@), b)]
  /\ wanted' = [wanted EXCEPT !.mlock = b]
  /\ result' = "Ok"
  /\ UNCHANGED self

WithNoAlloc(b) ==
  /\ raw' = [raw EXCEPT !.no_alloc = b,
                        !.load_mode = IF b THEN load_mode_from_flags(FALSE, use_mlock_of(@))
                                      ELSE @]
  /\ wanted' = [wanted EXCEPT !.mmap = @ /\ ~b]
  /\ result' = "Ok"
  /\ UNCHANGED self

\* u32 to i32, saturating
WithNGpuLayers(n) ==
  /\ raw' = [raw EXCEPT !.n_gpu_layers = IF n > I32_MAX THEN I32_MAX ELSE n]
  /\ result' = "Ok"
  /\ UNCHANGED <<self, wanted>>

\* The old callback, if any, is dropped when the new one is stored.
WithProgressCallback(a) ==
  /\ a # self.progress_callback
  /\ raw' = [raw EXCEPT !.progress_callback_user_data = a]
  /\ self' = [self EXCEPT !.progress_callback = a]
  /\ result' = "Ok"
  /\ UNCHANGED wanted

Call ==
  \/ \E key \in Keys \cup {"empty"}, value \in ParamOverrideValue : AppendKvOverride(key, value)
  \/ AppendKvOverridePanics
  \/ AppendBadKeyPanics
  \/ \E pattern \in Patterns : AddCpuBuftOverride(pattern)
  \/ AddCpuBuftOverridePanics
  \/ AddBadPatternPanics
  \/ FitParams
  \/ FitParamsFails
  \/ \E ds \in DeviceLists : WithDevices(ds)
  \/ \E b \in BOOLEAN : WithUseMmap(b) \/ WithUseMlock(b) \/ WithNoAlloc(b)
  \/ \E n \in 0..(I32_MAX + 1) : WithNGpuLayers(n)
  \/ \E a \in Addresses : WithProgressCallback(a)

Next ==
  \/ Default
  \/ WithDevicesFails
  \/ calls < MaxCalls /\ calls' = calls + 1 /\ Call

Spec == Init /\ [][Next]_vars

----------------------------------------------------------------------------
(* Properties *)

Buffer(S) == [addr: Addresses, entries: Seq(S)]
Pointer == Addresses \cup {Null}

\* Types of the owned parts, the C struct and the history.
TypeOK ==
  /\ self \in [kv_overrides: Buffer(KvOverride), buft_overrides: Buffer(Patterns \cup {Null}),
               devices: [addr: Addresses,
                         entries: [1..LLAMA_CPP_MAX_DEVICES -> 0..(DeviceCount - 1) \cup {Null}]],
               tensor_split: [addr: Addresses, len: {0, LlamaMaxDevices}],
               progress_callback: Pointer]
  /\ raw \in [kv_overrides: Pointer, tensor_buft_overrides: Pointer, devices: Pointer,
              tensor_split: Pointer, load_mode: LoadModes, no_alloc: BOOLEAN,
              n_gpu_layers: -1..I32_MAX, progress_callback_user_data: Pointer]
  /\ wanted \in [kv: Seq(Keys \X ParamOverrideValue), buft: Seq(Patterns),
                 devices: Seq(0..(DeviceCount - 1)), mmap: BOOLEAN, mlock: BOOLEAN,
                 torn: BOOLEAN, unfit: BOOLEAN]
  /\ calls \in 0..MaxCalls

\* llama.cpp, and the iterator over the overrides, go from entry to entry until one
\* is empty: whenever they are given a list, it has such an entry, whichever calls
\* failed or panicked before ("ensure we maintain the iterator invariant").
OverridesEnd ==
  /\ raw.kv_overrides # Null =>
       \E k \in 1..Len(self.kv_overrides.entries) : self.kv_overrides.entries[k].key = "empty"
  /\ raw.tensor_buft_overrides # Null =>
       \E k \in 1..Len(self.buft_overrides.entries) : self.buft_overrides.entries[k] = Null

\* The list of devices ends with a null within its box, as its readers (devices and
\* llama.cpp) expect, also when a shorter list replaces a longer one; only a list of
\* all LLAMA_CPP_MAX_DEVICES devices has nothing after it.
DevicesEnd ==
  raw.devices # Null /\ Len(wanted.devices) < LLAMA_CPP_MAX_DEVICES =>
    \E k \in 1..LLAMA_CPP_MAX_DEVICES : self.devices.entries[k] = Null

\* Every list that llama.cpp is given ends within its buffer, whichever calls failed
\* or panicked before: the two above.
ListsTerminated == OverridesEnd /\ DevicesEnd

\* No pointer of the struct dangles: each is null or points to the buffer that the
\* value owns now, although vectors move when they grow and callbacks are replaced.
\* A split that is pointed to has an entry per device.
PointersValid ==
  /\ raw.kv_overrides \in {Null, self.kv_overrides.addr}
  /\ raw.tensor_buft_overrides \in {Null, self.buft_overrides.addr}
  /\ raw.devices \in {Null, self.devices.addr}
  /\ raw.tensor_split # Null =>
       raw.tensor_split = self.tensor_split.addr /\ self.tensor_split.len = LlamaMaxDevices
  /\ raw.progress_callback_user_data = self.progress_callback

\* What load_from_file hands to llama.cpp is what the calls that returned asked for,
\* in their order.  Left open is what an append that panicked halfway, or a fit that
\* failed, has left of its own list.
NativeSeesSettings ==
  LET view == NativeView(self, raw)
  IN /\ ~wanted.torn => view.kv = wanted.kv
     /\ ~wanted.unfit => view.buft = wanted.buft
     /\ view.devices = wanted.devices
     /\ view.mmap = wanted.mmap
     /\ view.mlock = wanted.mlock

\* tensor_buft_override_patterns, which reads the vector, reports the overrides that
\* are in effect through the pointer, unless a fit has failed in between.
PatternsInEffect ==
  ~wanted.unfit => tensor_buft_override_patterns(self) = NativeView(self, raw).buft

\* append_kv_override panics "just to enforce internal invariants, not user errors":
\* a program that appends storable keys never sees it find its own list in a state
\* it does not expect.
AppendNeverPanics == result # "panic: last kv_override was not empty"

============================================================================
