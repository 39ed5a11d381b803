------------------------- MODULE ModelParamsProofs -------------------------
(***************************************************************************)
(* For any keys, patterns, sizes and number of calls: the lists that       *)
(* llama.cpp is given end within their buffers, no pointer dangles, and    *)
(* what is read through the pointers, or reported from the vector of       *)
(* patterns, is what was asked for.  And the getters of both kinds of      *)
(* parameters return what was set (ContextParams).                         *)
(***************************************************************************)
EXTENDS ModelParams, ContextParams, RetainProofs, SequenceTheorems

SelfType ==
  [kv_overrides: Buffer(KvOverride), buft_overrides: Buffer(Patterns \cup {Null}),
   devices: [addr: Addresses,
             entries: [1..LLAMA_CPP_MAX_DEVICES -> 0..(DeviceCount - 1) \cup {Null}]],
   tensor_split: [addr: Addresses, len: {0, LlamaMaxDevices}],
   progress_callback: Pointer]
RawType ==
  [kv_overrides: Pointer, tensor_buft_overrides: Pointer, devices: Pointer,
   tensor_split: Pointer, load_mode: LoadModes, no_alloc: BOOLEAN,
   n_gpu_layers: -1..I32_MAX, progress_callback_user_data: Pointer]
WantedType ==
  [kv: Seq(Keys \X ParamOverrideValue), buft: Seq(Patterns),
   devices: Seq(0..(DeviceCount - 1)), mmap: BOOLEAN, mlock: BOOLEAN,
   torn: BOOLEAN, unfit: BOOLEAN]

\* The vectors are never empty, as get_mut(0) expects.  Only the first key override
\* is ever written, so that every one behind it is empty, and there is one behind it
\* once the list is pointed to.
KvInv ==
  LET list == self.kv_overrides.entries
  IN /\ Len(list) >= 1
     /\ \A k \in 2..Len(list) : list[k].key = "empty"
     /\ raw.kv_overrides # Null => Len(list) >= 2

\* The patterns come first, and the last entry is null.
BuftInv ==
  LET list == self.buft_overrides.entries
  IN /\ Len(list) >= 1
     /\ list[Len(list)] = Null
     /\ list[1] = Null => \A k \in 1..Len(list) : list[k] = Null

\* What the vectors, the box and the flags hold of the settings.
KvSet ==
  LET list == self.kv_overrides.entries
  IN \/ wanted.torn
     \/ wanted.kv = <<>> /\ list[1].key = "empty"
     \/ \E key \in Keys, value \in ParamOverrideValue :
          /\ wanted.kv = <<<<key, value>>>>
          /\ list[1] = [key |-> key, tag |-> tag(value), val |-> value.payload]
          /\ raw.kv_overrides # Null
BuftSet ==
  \/ wanted.unfit /\ wanted.buft = <<>>
  \/ /\ Len(wanted.buft) < Len(self.buft_overrides.entries)
     /\ self.buft_overrides.entries
          = padded(wanted.buft, Len(self.buft_overrides.entries))
     /\ raw.tensor_buft_overrides = Null => wanted.buft = <<>>
DevicesSet ==
  /\ Len(wanted.devices) <= max_devices
  /\ self.devices.entries = padded(wanted.devices, LLAMA_CPP_MAX_DEVICES)
  /\ raw.devices = Null => wanted.devices = <<>>
FlagsSet ==
  /\ use_mmap_of(raw.load_mode) = wanted.mmap
  /\ use_mlock_of(raw.load_mode) = wanted.mlock

IInv ==
  /\ TypeOK /\ PointersValid
  /\ KvInv /\ BuftInv
  /\ KvSet /\ BuftSet /\ DevicesSet /\ FlagsSet

----------------------------------------------------------------------------
(* Lists *)

\* The scan of a list stops at its first end.
LEMMA UntilIs ==
  ASSUME NEW S, NEW list \in Seq(S), NEW ends, NEW n \in 0..Len(list),
         \A k \in 1..n : k \notin ends,
         n < Len(list) => n + 1 \in ends
  PROVE  Until(list, ends) = SubSeq(list, 1, n)
<1> DEFINE Stop(m) == /\ \A k \in 1..m : k \notin ends
                      /\ m < Len(list) => m + 1 \in ends
<1>0. Len(list) \in Nat
  BY LenProperties
<1>1. Stop(n)
  OBVIOUS
<1>2. ASSUME NEW m \in 0..Len(list), Stop(m) PROVE m = n
  <2>1. CASE m < n
    <3>1. m + 1 \in 1..n /\ m < Len(list)
      BY <1>0, <2>1
    <3> QED  BY <1>2, <3>1
  <2>2. CASE n < m
    <3>1. n + 1 \in 1..m /\ n < Len(list)
      BY <1>0, <2>2
    <3> QED  BY <1>2, <3>1
  <2> QED  BY <1>0, <2>1, <2>2
<1>3. (CHOOSE m \in 0..Len(list) : Stop(m)) = n
  BY <1>1, <1>2
<1> QED  BY <1>3 DEF Until

\* What is read of a list in a longer buffer, or in one it fills, is the list.
LEMMA UntilPadded ==
  ASSUME NEW S, Null \notin S, NEW list \in Seq(S), NEW n \in Nat, Len(list) <= n
  PROVE  Until(padded(list, n), Nulls(padded(list, n))) = list
<1> DEFINE buffer == padded(list, n)
<1>0. /\ Len(list) \in Nat
      /\ \A k \in 1..Len(list) : list[k] \in S
      /\ DOMAIN list = 1..Len(list)
  BY LenProperties, ElementOfSeq
<1>1. /\ buffer \in [1..n -> S \cup {Null}]
      /\ \A k \in 1..Len(list) : buffer[k] = list[k]
      /\ \A k \in Len(list)+1..n : buffer[k] = Null
  BY <1>0 DEF padded
<1>2. buffer \in Seq(S \cup {Null}) /\ Len(buffer) = n
  BY <1>1
<1> HIDE DEF buffer
<1>3. \A k \in 1..Len(list) : k \notin Nulls(buffer)
  BY <1>0, <1>1 DEF Nulls
<1>4. Len(list) < Len(buffer) => Len(list) + 1 \in Nulls(buffer)
  BY <1>0, <1>1, <1>2 DEF Nulls
<1>5. Until(buffer, Nulls(buffer)) = SubSeq(buffer, 1, Len(list))
  BY <1>0, <1>2, <1>3, <1>4, UntilIs
<1>6. \A k \in 1..Len(list) : buffer[k] \in S
  BY <1>0, <1>1
<1>7. /\ SubSeq(buffer, 1, Len(list)) \in Seq(S)
      /\ Len(SubSeq(buffer, 1, Len(list))) = Len(list)
      /\ \A k \in 1..Len(list) : SubSeq(buffer, 1, Len(list))[k] = list[k]
  BY <1>0, <1>1, <1>6, SubSeqProperties
<1>8. SubSeq(buffer, 1, Len(list)) = list
  BY <1>7, SeqEqual
<1> QED  BY <1>5, <1>8 DEF buffer

\* The entries that are not null are the list in front.
LEMMA RetainedPadded ==
  ASSUME NEW S, Null \notin S, NEW list \in Seq(S), NEW n \in Nat, Len(list) <= n
  PROVE  retained(padded(list, n), S) = list
<1>0. /\ Len(list) \in Nat
      /\ \A k \in 1..Len(list) : list[k] \in S
      /\ DOMAIN list = 1..Len(list)
  BY LenProperties, ElementOfSeq
<1>1. PICK buffer : buffer = padded(list, n)
  OBVIOUS
<1>2. /\ buffer \in [1..n -> S \cup {Null}]
      /\ \A k \in 1..Len(list) : buffer[k] = list[k]
      /\ \A k \in Len(list)+1..n : buffer[k] = Null
  BY <1>0, <1>1 DEF padded
<1>3. buffer \in Seq(S \cup {Null}) /\ Len(buffer) = n
  BY <1>2
<1>4. \A k \in 1..Len(buffer) : buffer[k] \in S <=> k <= Len(list)
  BY <1>0, <1>2, <1>3
<1>5. retained(buffer, S) = SubSeq(buffer, 1, Len(list))
  BY <1>0, <1>3, <1>4, RetainedPrefix
<1>6. \A k \in 1..Len(list) : buffer[k] \in S
  BY <1>0, <1>2
<1>7. /\ SubSeq(buffer, 1, Len(list)) \in Seq(S)
      /\ Len(SubSeq(buffer, 1, Len(list))) = Len(list)
      /\ \A k \in 1..Len(list) : SubSeq(buffer, 1, Len(list))[k] = list[k]
  BY <1>0, <1>2, <1>3, <1>6, SubSeqProperties
<1>8. SubSeq(buffer, 1, Len(list)) = list
  BY <1>7, SeqEqual
<1> QED  BY <1>1, <1>5, <1>8

\* The iterator reads back the value that was appended.
LEMMA ValueRoundTrip ==
  ASSUME NEW value \in ParamOverrideValue
  PROVE  [kind |-> kind_of(tag(value)), payload |-> value.payload] = value
<1>1. value.kind \in {"Bool", "Float", "Int", "Str"}
  BY DEF ParamOverrideValue
<1>2. kind_of(tag(value)) = value.kind
  BY <1>1 DEF kind_of, tag
<1> QED  BY <1>2 DEF ParamOverrideValue

\* Both append methods: the first entry is written and a new last one pushed.
LEMMA FillFirst ==
  ASSUME NEW S, NEW list \in Seq(S), Len(list) >= 1, NEW e \in S, NEW z \in S
  PROVE  LET new == Append([list EXCEPT ![1] = e], z)
         IN /\ new \in Seq(S)
            /\ Len(new) = Len(list) + 1
            /\ new[1] = e
            /\ \A k \in 2..Len(list) : new[k] = list[k]
            /\ new[Len(list) + 1] = z
<1>0. Len(list) \in Nat /\ 1 \in 1..Len(list)
  BY LenProperties
<1> DEFINE written == [list EXCEPT ![1] = e]
<1>1. /\ written \in Seq(S) /\ Len(written) = Len(list)
      /\ \A k \in 1..Len(list) : written[k] = IF k = 1 THEN e ELSE list[k]
  BY <1>0, ExceptSeq
<1> HIDE DEF written
<1>2. /\ Append(written, z) \in Seq(S)
      /\ Len(Append(written, z)) = Len(list) + 1
      /\ \A k \in 1..Len(list) : Append(written, z)[k] = written[k]
      /\ Append(written, z)[Len(list) + 1] = z
  BY <1>1, AppendProperties
<1>3. Append(written, z)[1] = e /\ \A k \in 2..Len(list) : Append(written, z)[k] = list[k]
  BY <1>0, <1>1, <1>2
<1> QED  BY <1>2, <1>3 DEF written
----------------------------------------------------------------------------
(* Steps *)

\* The C struct after default has no list, and the vectors hold their terminators.
Fresh ==
  /\ \E a \in Addresses : self = DefaultSelf(a)
  /\ raw = DefaultRaw /\ wanted = DefaultWanted /\ calls = 0

LEMMA DefaultIInv == Fresh => IInv
<1> SUFFICES ASSUME NEW a \in Addresses, self = DefaultSelf(a), raw = DefaultRaw,
                    wanted = DefaultWanted, calls = 0
             PROVE  IInv
  BY DEF Fresh
<1>1. EmptyKv \in KvOverride
  BY DEF EmptyKv, KvOverride
<1>2. <<EmptyKv>> \in Seq(KvOverride) /\ <<Null>> \in Seq(Patterns \cup {Null})
  BY <1>1
<1>3. self \in SelfType
  BY <1>2 DEF DefaultSelf, Buffer, Pointer, SelfType
<1>4. TypeOK
  BY <1>3, NumberAssumption DEF DefaultRaw, DefaultWanted, TypeOK, Pointer, LoadModes, SelfType
<1>5. /\ self.kv_overrides.entries = <<EmptyKv>> /\ Len(<<EmptyKv>>) = 1
      /\ <<EmptyKv>>[1] = EmptyKv /\ EmptyKv.key = "empty"
      /\ self.buft_overrides.entries = <<Null>> /\ Len(<<Null>>) = 1 /\ <<Null>>[1] = Null
      /\ self.devices.entries = [k \in 1..LLAMA_CPP_MAX_DEVICES |-> Null]
      /\ self.progress_callback = Null
  BY DEF DefaultSelf, EmptyKv
<1>6. /\ raw.kv_overrides = Null /\ raw.tensor_buft_overrides = Null /\ raw.devices = Null
      /\ raw.tensor_split = Null /\ raw.progress_callback_user_data = Null
      /\ raw.load_mode = "MMAP"
      /\ wanted.kv = <<>> /\ wanted.buft = <<>> /\ wanted.devices = <<>>
      /\ wanted.mmap = TRUE /\ wanted.mlock = FALSE
  BY DEF DefaultRaw, DefaultWanted
<1>7. KvInv
  BY <1>5, <1>6 DEF KvInv
<1>8. BuftInv
  BY <1>5, <1>6 DEF BuftInv
<1>9. PointersValid
  BY <1>5, <1>6 DEF PointersValid
<1>10. KvSet
  BY <1>5, <1>6 DEF KvSet
<1>11. FlagsSet
  <2>1. use_mmap_of("MMAP") = TRUE /\ use_mlock_of("MMAP") = FALSE
    BY DEF use_mmap_of, use_mlock_of
  <2> QED  BY <1>6, <2>1, Zenon DEF FlagsSet
<1>12. BuftSet
  <2>1. <<Null>> = padded(<<>>, 1)
    BY DEF padded
  <2> QED  BY <1>5, <1>6, <2>1 DEF BuftSet
<1>13. DevicesSet
  <2>1. padded(<<>>, LLAMA_CPP_MAX_DEVICES) = [k \in 1..LLAMA_CPP_MAX_DEVICES |-> Null]
    BY NumberAssumption DEF padded
  <2> QED  BY <1>5, <1>6, <2>1, NumberAssumption DEF DevicesSet, max_devices
<1> QED  BY <1>4, <1>7, <1>8, <1>9, <1>10, <1>11, <1>12, <1>13 DEF IInv

\* As long as the first entry is free, nothing has been asked for.
LEMMA EmptyMeansUnset ==
  ASSUME KvSet, ~wanted.torn, self.kv_overrides.entries[1].key = "empty"
  PROVE  wanted.kv = <<>>
<1> DEFINE first == self.kv_overrides.entries[1]
<1>1. ASSUME NEW key \in Keys, NEW value \in ParamOverrideValue,
             first = [key |-> key, tag |-> tag(value), val |-> value.payload]
      PROVE  FALSE
  <2>1. first.key = key
    BY <1>1
  <2> QED  BY <2>1, KeyAssumption
<1> QED  BY <1>1 DEF KvSet

\* append_kv_override: the new terminator is pushed behind the first entry.
LEMMA AppendStep ==
  ASSUME IInv, calls' \in 0..MaxCalls,
         NEW key \in Keys \cup {"empty"}, NEW value \in ParamOverrideValue,
         AppendKvOverride(key, value)
  PROVE  IInv'
<1>0. TypeOK /\ KvInv /\ BuftInv /\ PointersValid /\ KvSet /\ BuftSet /\ DevicesSet /\ FlagsSet
  BY DEF IInv
<1> DEFINE list == self.kv_overrides.entries
           entry == [key |-> key, tag |-> tag(value), val |-> value.payload]
           new == Append([list EXCEPT ![1] = entry], EmptyKv)
<1>1. PICK a \in Addresses : append_kv(key, value, a)
  BY DEF AppendKvOverride
<1>2. /\ self' = [self EXCEPT !.kv_overrides = [addr |-> a, entries |-> new]]
      /\ raw' = [raw EXCEPT !.kv_overrides = a]
      /\ list[1].key = "empty"
      /\ wanted' = IF key = "empty" THEN wanted
                   ELSE [wanted EXCEPT !.kv = Append(wanted.kv, <<key, value>>)]
  BY <1>1 DEF append_kv, AppendKvOverride
<1>3. entry \in KvOverride /\ EmptyKv \in KvOverride
  <2>1. value.kind \in {"Bool", "Float", "Int", "Str"} /\ value.payload \in Payloads
    BY DEF ParamOverrideValue
  <2>2. tag(value) \in 0..3
    BY <2>1 DEF tag
  <2>3. entry \in KvOverride
    BY <2>1, <2>2 DEF KvOverride
  <2>4. EmptyKv \in KvOverride
    BY DEF KvOverride, EmptyKv
  <2> QED  BY <2>3, <2>4
<1>4. list \in Seq(KvOverride) /\ Len(list) >= 1 /\ Len(list) \in Nat
  BY <1>0, LenProperties DEF TypeOK, Buffer, KvInv
<1> HIDE DEF list, entry
<1>5. /\ new \in Seq(KvOverride)
      /\ Len(new) = Len(list) + 1
      /\ new[1] = entry
      /\ \A k \in 2..Len(list) : new[k] = list[k]
      /\ new[Len(list) + 1] = EmptyKv
  BY <1>3, <1>4, FillFirst
<1> HIDE DEF new
<1>6. wanted' \in WantedType
  <2>1. CASE key = "empty"
    BY <1>0, <1>2, <2>1 DEF TypeOK, WantedType
  <2>2. CASE key # "empty"
    <3>1. <<key, value>> \in Keys \X ParamOverrideValue
      BY <2>2
    <3>2. wanted.kv \in Seq(Keys \X ParamOverrideValue)
      BY <1>0 DEF TypeOK
    <3>3. Append(wanted.kv, <<key, value>>) \in Seq(Keys \X ParamOverrideValue)
      BY <3>1, <3>2, AppendProperties
    <3> QED  BY <1>0, <1>2, <2>2, <3>3 DEF TypeOK, WantedType
  <2> QED  BY <2>1, <2>2
<1>7. TypeOK'
  BY <1>0, <1>2, <1>5, <1>6 DEF TypeOK, Buffer, Pointer, WantedType
<1>8. /\ self'.kv_overrides = [addr |-> a, entries |-> new]
      /\ raw'.kv_overrides = a /\ a # Null
      /\ \A f \in {"buft_overrides", "devices", "tensor_split", "progress_callback"} :
           self'[f] = self[f]
      /\ \A f \in {"tensor_buft_overrides", "devices", "tensor_split", "load_mode",
                    "progress_callback_user_data"} : raw'[f] = raw[f]
      /\ \A f \in {"buft", "devices", "mmap", "mlock", "torn", "unfit"} :
           wanted'[f] = wanted[f]
  BY <1>0, <1>2, NullAssumption DEF TypeOK
<1>9. (BuftInv /\ PointersValid /\ BuftSet /\ DevicesSet /\ FlagsSet)'
  BY <1>0, <1>8 DEF BuftInv, PointersValid, BuftSet, DevicesSet, FlagsSet
<1>10. KvInv'
  <2>1. \A k \in 2..Len(list) : list[k].key = "empty"
    BY <1>0 DEF KvInv, list
  <2>2. EmptyKv.key = "empty"
    BY DEF EmptyKv
  <2>3. \A k \in 2..Len(list) + 1 : k = Len(list) + 1 \/ k \in 2..Len(list)
    BY <1>4
  <2>4. \A k \in 2..Len(new) : new[k].key = "empty"
    BY <1>5, <2>1, <2>2, <2>3
  <2> QED  BY <1>4, <1>5, <1>8, <2>4 DEF KvInv
<1>11. KvSet'
  <2>1. CASE wanted.torn
    BY <1>8, <2>1 DEF KvSet
  <2>2. CASE ~wanted.torn
    <3>1. wanted.kv = <<>>
      BY <1>0, <1>2, <2>2, EmptyMeansUnset DEF list
    <3>2. CASE key = "empty"
      BY <1>2, <1>5, <1>8, <3>1, <3>2 DEF KvSet, entry
    <3>3. CASE key # "empty"
      <4>1. wanted'.kv = <<<<key, value>>>>
        BY <1>0, <1>2, <3>1, <3>3 DEF TypeOK
      <4>2. key \in Keys
        BY <3>3
      <4>3. self'.kv_overrides.entries[1] = entry /\ raw'.kv_overrides # Null
        BY <1>5, <1>8
      <4> QED  BY <4>1, <4>2, <4>3 DEF KvSet, entry
    <3> QED  BY <3>2, <3>3
  <2> QED  BY <2>1, <2>2
<1> QED  BY <1>7, <1>9, <1>10, <1>11 DEF IInv

\* A key that panics while it is copied leaves the terminators behind it alone.
LEMMA BadKeyStep ==
  ASSUME IInv, calls' \in 0..MaxCalls, AppendBadKeyPanics
  PROVE  IInv'
<1>0. TypeOK /\ KvInv /\ BuftInv /\ PointersValid /\ KvSet /\ BuftSet /\ DevicesSet /\ FlagsSet
  BY DEF IInv
<1> DEFINE list == self.kv_overrides.entries
<1>1. PICK key \in {"empty", "partial"} :
        /\ self' = [self EXCEPT !.kv_overrides.entries[1].key = key]
        /\ wanted' = [wanted EXCEPT !.torn = @ \/ key # "empty"]
  BY DEF AppendBadKeyPanics
<1>2. UNCHANGED raw /\ list[1].key = "empty"
  BY DEF AppendBadKeyPanics
<1>3. list \in Seq(KvOverride) /\ Len(list) >= 1 /\ Len(list) \in Nat /\ 1 \in 1..Len(list)
  BY <1>0, LenProperties DEF TypeOK, Buffer, KvInv
<1> DEFINE e == [list[1] EXCEPT !.key = key]
           new == [list EXCEPT ![1] = e]
<1>4. e \in KvOverride /\ e.key = key
  <2>1. list[1] \in KvOverride
    BY <1>3, ElementOfSeq
  <2> QED  BY <2>1 DEF KvOverride
<1>5. self' = [self EXCEPT !.kv_overrides = [self.kv_overrides EXCEPT !.entries = new]]
  BY <1>1
<1> HIDE DEF list, e
<1>6. /\ new \in Seq(KvOverride) /\ Len(new) = Len(list)
      /\ \A k \in 1..Len(list) : new[k] = IF k = 1 THEN e ELSE list[k]
  BY <1>3, <1>4, ExceptSeq
<1> HIDE DEF new
<1>7. wanted' \in WantedType
  BY <1>0, <1>1 DEF TypeOK, WantedType
<1>8. TypeOK'
  BY <1>0, <1>2, <1>5, <1>6, <1>7 DEF TypeOK, Buffer, WantedType
<1>9. /\ self'.kv_overrides.entries = new
      /\ self'.kv_overrides.addr = self.kv_overrides.addr
      /\ \A f \in {"buft_overrides", "devices", "tensor_split", "progress_callback"} :
           self'[f] = self[f]
      /\ \A f \in {"kv", "buft", "devices", "mmap", "mlock", "unfit"} : wanted'[f] = wanted[f]
      /\ wanted'.torn = (wanted.torn \/ key # "empty")
  <2>1. /\ self'.kv_overrides.entries = new
        /\ self'.kv_overrides.addr = self.kv_overrides.addr
        /\ \A f \in {"buft_overrides", "devices", "tensor_split", "progress_callback"} :
             self'[f] = self[f]
    BY <1>0, <1>5 DEF TypeOK, Buffer
  <2>2. \A f \in {"kv", "buft", "devices", "mmap", "mlock", "unfit"} : wanted'[f] = wanted[f]
    BY <1>0, <1>1 DEF TypeOK
  <2>3. wanted'.torn = (wanted.torn \/ key # "empty")
    BY <1>0, <1>1 DEF TypeOK
  <2> QED  BY <2>1, <2>2, <2>3
<1>10. (BuftInv /\ PointersValid /\ BuftSet /\ DevicesSet /\ FlagsSet)'
  BY <1>0, <1>2, <1>9 DEF BuftInv, PointersValid, BuftSet, DevicesSet, FlagsSet
<1>11. KvInv'
  BY <1>0, <1>2, <1>3, <1>6, <1>9 DEF KvInv, list
<1>12. KvSet'
  <2>1. CASE wanted.torn \/ key # "empty"
    BY <1>9, <2>1 DEF KvSet
  <2>2. CASE ~wanted.torn /\ key = "empty"
    <3>1. wanted.kv = <<>>
      BY <1>0, <1>2, <2>2, EmptyMeansUnset DEF list
    <3> QED  BY <1>3, <1>4, <1>6, <1>9, <2>2, <3>1 DEF KvSet
  <2> QED  BY <2>1, <2>2
<1> QED  BY <1>8, <1>10, <1>11, <1>12 DEF IInv

\* add_cpu_buft_override: the first entry is written and a null pushed.
LEMMA AddBuftStep ==
  ASSUME IInv, calls' \in 0..MaxCalls, NEW pattern \in Patterns, AddCpuBuftOverride(pattern)
  PROVE  IInv'
<1>0. TypeOK /\ KvInv /\ BuftInv /\ PointersValid /\ KvSet /\ BuftSet /\ DevicesSet /\ FlagsSet
  BY DEF IInv
<1> DEFINE list == self.buft_overrides.entries
           new == Append([list EXCEPT ![1] = pattern], Null)
<1>1. PICK a \in Addresses :
        /\ self' = [self EXCEPT !.buft_overrides = [addr |-> a, entries |-> new]]
        /\ raw' = [raw EXCEPT !.tensor_buft_overrides = a]
  BY DEF AddCpuBuftOverride
<1>2. /\ list[1] = Null
      /\ wanted' = [wanted EXCEPT !.buft = Append(wanted.buft, pattern), !.unfit = FALSE]
  BY DEF AddCpuBuftOverride
<1>3. list \in Seq(Patterns \cup {Null}) /\ Len(list) >= 1 /\ Len(list) \in Nat
  BY <1>0, LenProperties DEF TypeOK, Buffer, BuftInv
<1>4. \A k \in 1..Len(list) : list[k] = Null
  BY <1>0, <1>2 DEF BuftInv
<1> HIDE DEF list
<1>5. /\ new \in Seq(Patterns \cup {Null})
      /\ Len(new) = Len(list) + 1
      /\ new[1] = pattern
      /\ \A k \in 2..Len(list) : new[k] = list[k]
      /\ new[Len(list) + 1] = Null
  BY <1>3, FillFirst
<1> HIDE DEF new
<1>6. wanted.buft \in Seq(Patterns) /\ Append(wanted.buft, pattern) \in Seq(Patterns)
  BY <1>0, AppendProperties DEF TypeOK
<1>7. wanted' \in WantedType
  BY <1>0, <1>2, <1>6 DEF TypeOK, WantedType
<1>8. TypeOK'
  BY <1>0, <1>1, <1>5, <1>7 DEF TypeOK, Buffer, Pointer, WantedType
<1>9. /\ self'.buft_overrides = [addr |-> a, entries |-> new]
      /\ raw'.tensor_buft_overrides = a /\ a # Null
      /\ \A f \in {"kv_overrides", "devices", "tensor_split", "progress_callback"} :
           self'[f] = self[f]
      /\ \A f \in {"kv_overrides", "devices", "tensor_split", "load_mode",
                    "progress_callback_user_data"} : raw'[f] = raw[f]
      /\ \A f \in {"kv", "devices", "mmap", "mlock", "torn"} : wanted'[f] = wanted[f]
      /\ wanted'.buft = Append(wanted.buft, pattern)
  BY <1>0, <1>1, <1>2, NullAssumption DEF TypeOK
<1>10. (KvInv /\ PointersValid /\ KvSet /\ DevicesSet /\ FlagsSet)'
  <2>1. KvInv' /\ DevicesSet' /\ FlagsSet'
    BY <1>0, <1>9 DEF KvInv, DevicesSet, FlagsSet
  <2>2. PointersValid'
    BY <1>0, <1>9 DEF PointersValid
  <2>3. KvSet'
    BY <1>0, <1>9 DEF KvSet
  <2> QED  BY <2>1, <2>2, <2>3
<1>11. BuftInv'
  BY <1>3, <1>5, <1>9, NullAssumption DEF BuftInv
<1>12. wanted.buft = <<>>
  <2>1. CASE wanted.buft = <<>>
    BY <2>1
  <2>2. CASE /\ Len(wanted.buft) < Len(list)
             /\ list = padded(wanted.buft, Len(list))
    <3>1. Len(wanted.buft) \in Nat
          /\ \A k \in 1..Len(wanted.buft) : wanted.buft[k] \in Patterns
      BY <1>6, LenProperties, ElementOfSeq
    <3>2. ASSUME Len(wanted.buft) >= 1 PROVE FALSE
      <4>1. 1 \in 1..Len(list) /\ 1 \in 1..Len(wanted.buft)
        BY <1>3, <3>1, <3>2
      <4>2. padded(wanted.buft, Len(list))[1] = wanted.buft[1]
        BY <3>2, <4>1 DEF padded
      <4> QED  BY <1>2, <2>2, <3>1, <4>1, <4>2, NullAssumption DEF list
    <3>3. Len(wanted.buft) = 0
      BY <3>1, <3>2
    <3> QED  BY <1>6, <3>3, EmptySeq
  <2>3. \/ wanted.buft = <<>>
        \/ Len(wanted.buft) < Len(list) /\ list = padded(wanted.buft, Len(list))
    BY <1>0 DEF BuftSet, list
  <2> QED  BY <2>1, <2>2, <2>3
<1>13. BuftSet'
  <2>2. wanted'.buft = <<pattern>>
    BY <1>9, <1>12
  <2>3. \A k \in 1..Len(new) : new[k] = IF k <= 1 THEN pattern ELSE Null
    <3>1. \A k \in 1..Len(list) + 1 : k = 1 \/ k \in 2..Len(list) \/ k = Len(list) + 1
      BY <1>3
    <3>2. \A k \in 2..Len(list) : new[k] = Null
      BY <1>3, <1>4, <1>5
    <3> QED  BY <1>3, <1>5, <3>1, <3>2
  <2>4. DOMAIN new = 1..Len(new)
    BY <1>5, LenProperties
  <2>5. new = padded(<<pattern>>, Len(new))
    <3>1. Len(<<pattern>>) = 1 /\ <<pattern>>[1] = pattern
      OBVIOUS
    <3>2. padded(<<pattern>>, Len(new))
            = [k \in 1..Len(new) |-> IF k <= 1 THEN pattern ELSE Null]
      BY <3>1 DEF padded
    <3>3. new = [k \in 1..Len(new) |-> new[k]]
      BY <1>5, <2>4
    <3> QED  BY <2>3, <3>2, <3>3
  <2> QED  BY <1>3, <1>5, <1>9, <2>2, <2>5 DEF BuftSet
<1> QED  BY <1>8, <1>10, <1>11, <1>13 DEF IInv

\* What fit_params does to the buffers and pointers, whether llama.cpp succeeds or not.
LEMMA FitStep ==
  ASSUME IInv, calls' \in 0..MaxCalls, FitParams \/ FitParamsFails
  PROVE  IInv'
<1>0. TypeOK /\ KvInv /\ BuftInv /\ PointersValid /\ KvSet /\ BuftSet /\ DevicesSet /\ FlagsSet
  BY DEF IInv
<1>1. PICK a \in Addresses, b \in Addresses, ps \in Lists(Patterns, MaxBuft),
           n \in -1..I32_MAX, p \in Pointer, q \in Pointer, fit \in BOOLEAN :
        /\ p \in {Null, a} /\ q \in {Null, b}
        /\ fit_buffers(a, b, ps)
        /\ raw' = [raw EXCEPT !.tensor_split = p, !.tensor_buft_overrides = q,
                              !.n_gpu_layers = n]
        /\ wanted' = [wanted EXCEPT !.buft = IF fit THEN ps ELSE <<>>, !.unfit = ~fit]
        /\ fit => q = b
  <2>1. CASE FitParams
    BY <2>1 DEF FitParams, Pointer
  <2>2. CASE FitParamsFails
    <3>0. PICK a \in Addresses, b \in Addresses, ps \in Lists(Patterns, MaxBuft) :
            /\ fit_buffers(a, b, ps)
            /\ \E p \in {Null, a}, q \in {Null, b} :
                 raw' = [raw EXCEPT !.tensor_split = p, !.tensor_buft_overrides = q]
      BY <2>2 DEF FitParamsFails
    <3>1. PICK p \in {Null, a}, q \in {Null, b} :
            raw' = [raw EXCEPT !.tensor_split = p, !.tensor_buft_overrides = q]
      BY <3>0
    <3>2. raw.n_gpu_layers \in -1..I32_MAX
      BY <1>0 DEF TypeOK
    <3>3. raw' = [raw EXCEPT !.tensor_split = p, !.tensor_buft_overrides = q,
                             !.n_gpu_layers = raw.n_gpu_layers]
      BY <1>0, <3>1 DEF TypeOK
    <3>4. wanted' = [wanted EXCEPT !.buft = IF FALSE THEN ps ELSE <<>>, !.unfit = ~FALSE]
      BY <2>2 DEF FitParamsFails
    <3>5. p \in Pointer /\ q \in Pointer
      BY DEF Pointer
    <3> QED  BY <3>0, <3>1, <3>2, <3>3, <3>4, <3>5
  <2> QED  BY <2>1, <2>2
<1> DEFINE new == padded(ps, MaxBuft + 1)
<1>2. ps \in Seq(Patterns) /\ Len(ps) \in 0..MaxBuft
  BY NumberAssumption DEF Lists
<1>3. /\ new \in Seq(Patterns \cup {Null}) /\ Len(new) = MaxBuft + 1
      /\ new[MaxBuft + 1] = Null
      /\ new[1] = Null => \A k \in 1..MaxBuft + 1 : new[k] = Null
  <2>1. \A k \in 1..Len(ps) : ps[k] \in Patterns
    BY <1>2, ElementOfSeq
  <2>2. /\ new \in [1..MaxBuft + 1 -> Patterns \cup {Null}]
        /\ \A k \in 1..MaxBuft + 1 : new[k] = IF k <= Len(ps) THEN ps[k] ELSE Null
    BY <1>2, <2>1, NumberAssumption DEF padded
  <2> HIDE DEF new
  <2>3. new \in Seq(Patterns \cup {Null}) /\ Len(new) = MaxBuft + 1
    BY <2>2, NumberAssumption
  <2>4. new[MaxBuft + 1] = Null
    BY <1>2, <2>2, NumberAssumption
  <2>5. ASSUME new[1] = Null PROVE \A k \in 1..MaxBuft + 1 : new[k] = Null
    <3>1. Len(ps) = 0
      BY <1>2, <2>1, <2>2, <2>5, NumberAssumption, NullAssumption
    <3> QED  BY <2>2, <3>1
  <2> QED  BY <2>3, <2>4, <2>5
<1>4. self' = [self EXCEPT !.tensor_split = [addr |-> a, len |-> LlamaMaxDevices],
                           !.buft_overrides = [addr |-> b, entries |-> new]]
  BY <1>1 DEF fit_buffers
<1> HIDE DEF new
<1>5. (IF fit THEN ps ELSE <<>>) \in Seq(Patterns)
  BY <1>2
<1>6. wanted' \in WantedType
  BY <1>0, <1>1, <1>5 DEF TypeOK, WantedType
<1>7. TypeOK'
  BY <1>0, <1>1, <1>3, <1>4, <1>6 DEF TypeOK, Buffer, Pointer, WantedType
<1>8. /\ self'.buft_overrides = [addr |-> b, entries |-> new]
      /\ self'.tensor_split = [addr |-> a, len |-> LlamaMaxDevices]
      /\ raw'.tensor_buft_overrides = q /\ raw'.tensor_split = p
      /\ \A f \in {"kv_overrides", "devices", "progress_callback"} : self'[f] = self[f]
      /\ \A f \in {"kv_overrides", "devices", "load_mode", "progress_callback_user_data"} :
           raw'[f] = raw[f]
      /\ \A f \in {"kv", "devices", "mmap", "mlock", "torn"} : wanted'[f] = wanted[f]
      /\ fit => wanted'.buft = ps
      /\ wanted'.unfit = ~fit
      /\ ~fit => wanted'.buft = <<>>
  BY <1>0, <1>1, <1>4 DEF TypeOK
<1>9. (KvInv /\ KvSet /\ DevicesSet /\ FlagsSet)'
  BY <1>0, <1>8 DEF KvInv, KvSet, DevicesSet, FlagsSet
<1>10. PointersValid'
  BY <1>0, <1>1, <1>8 DEF PointersValid
<1>11. BuftInv'
  BY <1>3, <1>8, NumberAssumption DEF BuftInv
<1>12. BuftSet'
  <2>1. CASE ~fit
    BY <1>8, <2>1, Zenon DEF BuftSet
  <2>2. CASE fit
    <3>1. wanted'.buft = ps /\ q # Null
      BY <1>1, <1>8, <2>2, NullAssumption
    <3>2. Len(ps) < Len(new) /\ new = padded(ps, Len(new))
      BY <1>2, <1>3, NumberAssumption DEF new
    <3> QED  BY <1>8, <3>1, <3>2 DEF BuftSet
  <2> QED  BY <2>1, <2>2
<1> QED  BY <1>7, <1>9, <1>10, <1>11, <1>12 DEF IInv

\* with_devices: the box is the list followed by nulls.
LEMMA DevicesStep ==
  ASSUME IInv, calls' \in 0..MaxCalls, NEW ds \in DeviceLists, WithDevices(ds)
  PROVE  IInv'
<1>0. TypeOK /\ KvInv /\ BuftInv /\ PointersValid /\ KvSet /\ BuftSet /\ DevicesSet /\ FlagsSet
  BY DEF IInv
<1> DEFINE new == padded(ds, LLAMA_CPP_MAX_DEVICES)
<1>1. /\ self' = [self EXCEPT !.devices = [self.devices EXCEPT !.entries = new]]
      /\ raw' = [raw EXCEPT !.devices = self.devices.addr]
      /\ wanted' = [wanted EXCEPT !.devices = ds]
      /\ Len(ds) <= max_devices
      /\ \A k \in DOMAIN ds : ds[k] < DeviceCount
  BY DEF WithDevices, devices_valid
<1>2. PICK n \in 0..LLAMA_CPP_MAX_DEVICES + 1 : ds \in [1..n -> 0..DeviceCount]
  BY DEF DeviceLists, Lists
<1>3. ds \in [1..n -> 0..(DeviceCount - 1)] /\ Len(ds) = n /\ ds \in Seq(0..(DeviceCount - 1))
  <2>1. DOMAIN ds = 1..n /\ n \in Nat
    BY <1>2, NumberAssumption
  <2>2. \A k \in 1..n : ds[k] \in 0..(DeviceCount - 1)
    <3>1. SUFFICES ASSUME NEW k \in 1..n PROVE ds[k] \in 0..(DeviceCount - 1)
      OBVIOUS
    <3>2. ds[k] \in 0..DeviceCount /\ ds[k] < DeviceCount
      BY <1>1, <1>2, <2>1
    <3> QED  BY <3>2, NumberAssumption
  <2>3. ds \in [1..n -> 0..(DeviceCount - 1)]
    BY <1>2, <2>2
  <2>4. ds \in Seq(0..(DeviceCount - 1))
    <3>1. n \in Nat /\ ds \in [1..n -> 0..(DeviceCount - 1)]
      BY <2>1, <2>3
    <3> DEFINE S == 0..(DeviceCount - 1)
    <3> HIDE DEF S
    <3>2. ASSUME ds \in [1..n -> S] PROVE ds \in Seq(S)
      BY <3>1, <3>2
    <3> QED  BY <3>1, <3>2 DEF S
  <2>5. Len(ds) = n
    BY <2>1, <2>4, LenProperties
  <2> QED  BY <2>3, <2>4, <2>5
<1>4. new \in [1..LLAMA_CPP_MAX_DEVICES -> 0..(DeviceCount - 1) \cup {Null}]
  BY <1>3, NumberAssumption DEF padded
<1> HIDE DEF new
<1>5. wanted' \in WantedType
  BY <1>0, <1>1, <1>3 DEF TypeOK, WantedType
<1>6. TypeOK'
  BY <1>0, <1>1, <1>4, <1>5 DEF TypeOK, Pointer, WantedType
<1>7. /\ self'.devices.entries = new /\ self'.devices.addr = self.devices.addr
      /\ raw'.devices = self.devices.addr /\ self.devices.addr # Null
      /\ wanted'.devices = ds
      /\ \A f \in {"kv_overrides", "buft_overrides", "tensor_split", "progress_callback"} :
           self'[f] = self[f]
      /\ \A f \in {"kv_overrides", "tensor_buft_overrides", "tensor_split", "load_mode",
                    "progress_callback_user_data"} : raw'[f] = raw[f]
      /\ \A f \in {"kv", "buft", "mmap", "mlock", "torn", "unfit"} : wanted'[f] = wanted[f]
  BY <1>0, <1>1, NullAssumption DEF TypeOK
<1>8. KvInv' /\ BuftInv' /\ FlagsSet'
  BY <1>0, <1>7 DEF KvInv, BuftInv, FlagsSet
<1>9. PointersValid'
  BY <1>0, <1>7 DEF PointersValid
<1>10. KvSet'
  BY <1>0, <1>7 DEF KvSet
<1>11. BuftSet'
  BY <1>0, <1>7 DEF BuftSet
<1>12. DevicesSet'
  BY <1>1, <1>7 DEF DevicesSet, new
<1> QED  BY <1>6, <1>8, <1>9, <1>10, <1>11, <1>12 DEF IInv

\* The flags keep apart in the packed load mode.
LEMMA LoadModePacks ==
  ASSUME NEW m \in BOOLEAN, NEW l \in BOOLEAN
  PROVE  /\ load_mode_from_flags(m, l) \in LoadModes
         /\ use_mmap_of(load_mode_from_flags(m, l)) = m
         /\ use_mlock_of(load_mode_from_flags(m, l)) = l
<1>1. /\ use_mmap_of("NONE") = FALSE /\ use_mlock_of("NONE") = FALSE
      /\ use_mmap_of("MMAP") = TRUE /\ use_mlock_of("MMAP") = FALSE
      /\ use_mmap_of("MLOCK") = FALSE /\ use_mlock_of("MLOCK") = TRUE
      /\ use_mmap_of("MMAP_MLOCK") = TRUE /\ use_mlock_of("MMAP_MLOCK") = TRUE
  BY DEF use_mmap_of, use_mlock_of
<1>2. /\ load_mode_from_flags(TRUE, TRUE) = "MMAP_MLOCK"
      /\ load_mode_from_flags(TRUE, FALSE) = "MMAP"
      /\ load_mode_from_flags(FALSE, TRUE) = "MLOCK"
      /\ load_mode_from_flags(FALSE, FALSE) = "NONE"
  BY DEF load_mode_from_flags
<1>3. (m = TRUE \/ m = FALSE) /\ (l = TRUE \/ l = FALSE)
  OBVIOUS
<1> QED  BY <1>1, <1>2, <1>3, Zenon DEF LoadModes

\* with_use_mmap, with_use_mlock and with_no_alloc.
LEMMA FlagsStep ==
  ASSUME IInv, calls' \in 0..MaxCalls, NEW b \in BOOLEAN,
         WithUseMmap(b) \/ WithUseMlock(b) \/ WithNoAlloc(b)
  PROVE  IInv'
<1>0. TypeOK /\ KvInv /\ BuftInv /\ PointersValid /\ KvSet /\ BuftSet /\ DevicesSet /\ FlagsSet
  BY DEF IInv
<1>1. /\ wanted.mmap \in BOOLEAN /\ wanted.mlock \in BOOLEAN
      /\ raw.no_alloc \in BOOLEAN /\ raw.load_mode \in LoadModes
      /\ use_mmap_of(raw.load_mode) = wanted.mmap
      /\ use_mlock_of(raw.load_mode) = wanted.mlock
  BY <1>0 DEF TypeOK, FlagsSet
<1>2. PICK mode \in LoadModes, na \in BOOLEAN, m \in BOOLEAN, l \in BOOLEAN :
        /\ raw' = [raw EXCEPT !.load_mode = mode, !.no_alloc = na]
        /\ wanted' = [wanted EXCEPT !.mmap = m, !.mlock = l]
        /\ use_mmap_of(mode) = m /\ use_mlock_of(mode) = l
  <2>1. CASE WithUseMmap(b)
    <3>1. /\ raw' = [raw EXCEPT !.load_mode = load_mode_from_flags(b, wanted.mlock),
                                !.no_alloc = raw.no_alloc]
          /\ wanted' = [wanted EXCEPT !.mmap = b, !.mlock = wanted.mlock]
      BY <1>0, <1>1, <2>1 DEF WithUseMmap, TypeOK
    <3> QED  BY <1>1, <3>1, LoadModePacks
  <2>2. CASE WithUseMlock(b)
    <3>1. /\ raw' = [raw EXCEPT !.load_mode = load_mode_from_flags(wanted.mmap, b),
                                !.no_alloc = raw.no_alloc]
          /\ wanted' = [wanted EXCEPT !.mmap = wanted.mmap, !.mlock = b]
      BY <1>0, <1>1, <2>2 DEF WithUseMlock, TypeOK
    <3> QED  BY <1>1, <3>1, LoadModePacks
  <2>3. CASE WithNoAlloc(b) /\ b
    <3>1. /\ raw' = [raw EXCEPT !.load_mode = load_mode_from_flags(FALSE, wanted.mlock),
                                !.no_alloc = b]
          /\ wanted' = [wanted EXCEPT !.mmap = FALSE, !.mlock = wanted.mlock]
      BY <1>0, <1>1, <2>3 DEF WithNoAlloc, TypeOK
    <3> QED  BY <1>1, <3>1, LoadModePacks
  <2>4. CASE WithNoAlloc(b) /\ ~b
    <3>1. /\ raw' = [raw EXCEPT !.load_mode = raw.load_mode, !.no_alloc = b]
          /\ wanted' = [wanted EXCEPT !.mmap = wanted.mmap, !.mlock = wanted.mlock]
      BY <1>0, <1>1, <2>4 DEF WithNoAlloc, TypeOK
    <3> QED  BY <1>1, <3>1
  <2> QED  BY <2>1, <2>2, <2>3, <2>4
<1>3. UNCHANGED self
  BY DEF WithUseMmap, WithUseMlock, WithNoAlloc
<1>4. wanted' \in WantedType
  BY <1>0, <1>2 DEF TypeOK, WantedType
<1>5. TypeOK'
  BY <1>0, <1>2, <1>3, <1>4 DEF TypeOK, WantedType
<1>6. /\ raw'.load_mode = mode /\ wanted'.mmap = m /\ wanted'.mlock = l
      /\ \A f \in {"kv_overrides", "tensor_buft_overrides", "tensor_split", "devices",
                    "progress_callback_user_data"} : raw'[f] = raw[f]
      /\ \A f \in {"kv", "buft", "devices", "torn", "unfit"} : wanted'[f] = wanted[f]
  BY <1>0, <1>2 DEF TypeOK
<1>7. KvInv' /\ BuftInv'
  BY <1>0, <1>3, <1>6 DEF KvInv, BuftInv
<1>8. PointersValid'
  BY <1>0, <1>3, <1>6 DEF PointersValid
<1>9. KvSet' /\ BuftSet' /\ DevicesSet'
  BY <1>0, <1>3, <1>6 DEF KvSet, BuftSet, DevicesSet
<1>10. FlagsSet'
  BY <1>2, <1>6, Zenon DEF FlagsSet
<1> QED  BY <1>5, <1>7, <1>8, <1>9, <1>10 DEF IInv

\* with_n_gpu_layers and with_progress_callback.
LEMMA OtherSteps ==
  ASSUME IInv, calls' \in 0..MaxCalls,
         \/ \E n \in 0..(I32_MAX + 1) : WithNGpuLayers(n)
         \/ \E a \in Addresses : WithProgressCallback(a)
  PROVE  IInv'
<1>0. TypeOK /\ KvInv /\ BuftInv /\ PointersValid /\ KvSet /\ BuftSet /\ DevicesSet /\ FlagsSet
  BY DEF IInv
<1> DEFINE Sets(n, a) ==
      /\ raw' = [raw EXCEPT !.n_gpu_layers = n, !.progress_callback_user_data = a]
      /\ self' = [self EXCEPT !.progress_callback = a]
      /\ wanted' = wanted
<1>1. PICK n \in -1..I32_MAX, a \in Pointer : Sets(n, a)
  <2>0. /\ raw.n_gpu_layers \in -1..I32_MAX /\ self.progress_callback \in Pointer
        /\ raw.progress_callback_user_data = self.progress_callback
    BY <1>0 DEF TypeOK, PointersValid
  <2>1. ASSUME NEW n \in 0..(I32_MAX + 1), WithNGpuLayers(n)
        PROVE  \E m \in -1..I32_MAX, c \in Pointer : Sets(m, c)
    <3>1. (IF n > I32_MAX THEN I32_MAX ELSE n) \in -1..I32_MAX
      BY NumberAssumption
    <3>2. /\ raw' = [raw EXCEPT !.n_gpu_layers = IF n > I32_MAX THEN I32_MAX ELSE n,
                                !.progress_callback_user_data = self.progress_callback]
          /\ self' = [self EXCEPT !.progress_callback = self.progress_callback]
          /\ wanted' = wanted
      BY <1>0, <2>0, <2>1 DEF WithNGpuLayers, TypeOK
    <3> QED  BY <2>0, <3>1, <3>2
  <2>2. ASSUME NEW a \in Addresses, WithProgressCallback(a)
        PROVE  \E m \in -1..I32_MAX, c \in Pointer : Sets(m, c)
    <3>1. /\ raw' = [raw EXCEPT !.n_gpu_layers = raw.n_gpu_layers,
                                !.progress_callback_user_data = a]
          /\ self' = [self EXCEPT !.progress_callback = a]
          /\ wanted' = wanted
      BY <1>0, <2>2 DEF WithProgressCallback, TypeOK
    <3> QED  BY <2>0, <3>1 DEF Pointer
  <2> QED  BY <2>1, <2>2
<1>2. TypeOK'
  BY <1>0, <1>1 DEF TypeOK
<1>3. /\ self'.progress_callback = a /\ raw'.progress_callback_user_data = a
      /\ \A f \in {"kv_overrides", "buft_overrides", "devices", "tensor_split"} :
           self'[f] = self[f]
      /\ \A f \in {"kv_overrides", "tensor_buft_overrides", "tensor_split", "devices",
                    "load_mode"} : raw'[f] = raw[f]
  BY <1>0, <1>1 DEF TypeOK
<1>4. KvInv' /\ BuftInv' /\ FlagsSet'
  BY <1>0, <1>1, <1>3 DEF KvInv, BuftInv, FlagsSet
<1>5. PointersValid'
  BY <1>0, <1>3 DEF PointersValid
<1>6. KvSet' /\ BuftSet' /\ DevicesSet'
  BY <1>0, <1>1, <1>3 DEF KvSet, BuftSet, DevicesSet
<1> QED  BY <1>2, <1>4, <1>5, <1>6 DEF IInv

LEMMA InitIInv == Init => IInv
  BY DefaultIInv DEF Init, Fresh

LEMMA NextIInv == IInv /\ [Next]_vars => IInv'
<1> SUFFICES ASSUME IInv, [Next]_vars PROVE IInv'
  OBVIOUS
<1>1. ASSUME Default PROVE IInv'
  <2>1. Fresh'
    BY <1>1 DEF Default, Fresh, DefaultSelf, DefaultRaw, DefaultWanted, EmptyKv
  <2> QED  BY <2>1, DefaultIInv, PTL
<1>2. ASSUME UNCHANGED <<self, raw, wanted>>, calls' \in 0..MaxCalls PROVE IInv'
  <2>1. self' = self /\ raw' = raw /\ wanted' = wanted
    BY <1>2
  <2>2. TypeOK'
    BY <1>2, <2>1 DEF IInv, TypeOK
  <2>3. PointersValid' /\ KvInv' /\ BuftInv'
    BY <2>1 DEF IInv, PointersValid, KvInv, BuftInv
  <2>4. KvSet' /\ BuftSet' /\ DevicesSet' /\ FlagsSet'
    BY <2>1 DEF IInv, KvSet, BuftSet, DevicesSet, FlagsSet
  <2> QED  BY <2>2, <2>3, <2>4 DEF IInv
<1>3. calls \in 0..MaxCalls /\ MaxCalls \in Nat
  BY NumberAssumption DEF IInv, TypeOK
<1>4. CASE UNCHANGED vars
  BY <1>2, <1>3, <1>4 DEF vars
<1>5. CASE WithDevicesFails
  BY <1>1, <1>5 DEF WithDevicesFails
<1>6. ASSUME calls < MaxCalls, calls' = calls + 1, Call PROVE IInv'
  <2>1. calls' \in 0..MaxCalls
    BY <1>3, <1>6
  <2>2. CASE AppendKvOverridePanics \/ AddCpuBuftOverridePanics \/ AddBadPatternPanics
    BY <1>2, <2>1, <2>2 DEF AppendKvOverridePanics, AddCpuBuftOverridePanics, AddBadPatternPanics
  <2> QED
    BY <1>6, <2>1, <2>2, AppendStep, BadKeyStep, AddBuftStep, FitStep, DevicesStep, FlagsStep,
       OtherSteps DEF Call
<1> QED  BY <1>1, <1>4, <1>5, <1>6 DEF Next

THEOREM Invariance == Spec => []IInv
  BY InitIInv, NextIInv, PTL DEF Spec

----------------------------------------------------------------------------
(* What follows *)

\* Whichever calls failed or panicked, the override lists that llama.cpp is given end
\* within their vectors.
THEOREM OverridesTerminated == Spec => []OverridesEnd
<1>1. IInv => OverridesEnd
  <2> SUFFICES ASSUME IInv PROVE OverridesEnd
    OBVIOUS
  <2>0. TypeOK /\ KvInv /\ BuftInv
    BY DEF IInv
  <2>1. Len(self.kv_overrides.entries) \in Nat /\ Len(self.buft_overrides.entries) \in Nat
    BY <2>0, LenProperties DEF TypeOK, Buffer
  <2> QED  BY <2>0, <2>1 DEF KvInv, BuftInv, OverridesEnd
<1> QED  BY <1>1, Invariance, PTL

\* Vectors that move and callbacks that are replaced leave no dangling pointer.
THEOREM NoDanglingPointer == Spec => []PointersValid
<1>1. IInv => PointersValid
  BY DEF IInv
<1> QED  BY <1>1, Invariance, PTL

\* Unless it fills the box, the list of devices ends with a null.
THEOREM DevicesAreTerminated == Spec => []DevicesEnd
<1>1. IInv => DevicesEnd
  <2> SUFFICES ASSUME IInv, Len(wanted.devices) < LLAMA_CPP_MAX_DEVICES
               PROVE  self.devices.entries[LLAMA_CPP_MAX_DEVICES] = Null
    BY NumberAssumption DEF DevicesEnd
  <2>1. self.devices.entries = padded(wanted.devices, LLAMA_CPP_MAX_DEVICES)
    BY DEF IInv, DevicesSet
  <2>2. Len(wanted.devices) \in Nat
    BY LenProperties DEF IInv, TypeOK
  <2> QED  BY <2>1, <2>2, NumberAssumption DEF padded
<1> QED  BY <1>1, Invariance, PTL

\* Every list that llama.cpp is given ends within its buffer.
THEOREM ListsAreTerminated == Spec => []ListsTerminated
  BY OverridesTerminated, DevicesAreTerminated, PTL DEF ListsTerminated

\* Unless a fit has failed, llama.cpp reads the patterns that were asked for, and so
\* does tensor_buft_override_patterns.
LEMMA PatternsRead ==
  ASSUME IInv, ~wanted.unfit
  PROVE  /\ NativeView(self, raw).buft = wanted.buft
         /\ tensor_buft_override_patterns(self) = wanted.buft
<1> DEFINE list == self.buft_overrides.entries
<1>1. /\ Len(wanted.buft) < Len(list) /\ list = padded(wanted.buft, Len(list))
      /\ raw.tensor_buft_overrides = Null => wanted.buft = <<>>
  BY DEF IInv, BuftSet
<1>2. wanted.buft \in Seq(Patterns) /\ Len(list) \in Nat /\ Len(wanted.buft) \in Nat
  BY LenProperties DEF IInv, TypeOK, Buffer
<1>3. Until(list, Nulls(list)) = wanted.buft
  BY <1>1, <1>2, NullAssumption, UntilPadded
<1>4. retained(list, Patterns) = wanted.buft
  BY <1>1, <1>2, NullAssumption, RetainedPadded
<1> QED  BY <1>1, <1>3, <1>4 DEF NativeView, tensor_buft_override_patterns

\* The patterns that tensor_buft_override_patterns reports are those in effect.
THEOREM PatternsAreInEffect == Spec => []PatternsInEffect
<1>1. IInv => PatternsInEffect
  BY PatternsRead DEF PatternsInEffect
<1> QED  BY <1>1, Invariance, PTL

\* Through any sequence of calls, load_from_file shows llama.cpp the settings that the
\* calls that returned asked for.
THEOREM SettingsReachNative == Spec => []NativeSeesSettings
<1>1. IInv => NativeSeesSettings
  <2> SUFFICES ASSUME IInv PROVE NativeSeesSettings
    OBVIOUS
  <2>0. TypeOK /\ KvInv /\ BuftInv /\ KvSet /\ BuftSet /\ DevicesSet /\ FlagsSet
    BY DEF IInv
  <2>1. ASSUME ~wanted.torn PROVE kv_overrides_of(self, raw) = wanted.kv
    <3> DEFINE list == self.kv_overrides.entries
               ends == {k \in 1..Len(list) : list[k].key = "empty"}
               used == Until(list, ends)
               Read(e) == <<e.key, [kind |-> kind_of(e.tag), payload |-> e.val]>>
    <3>0. /\ list \in Seq(KvOverride) /\ Len(list) \in Nat /\ Len(list) >= 1
          /\ raw.kv_overrides # Null => Len(list) >= 2 /\ list[2].key = "empty"
      BY <2>0, LenProperties DEF TypeOK, Buffer, KvInv
    <3>1. kv_overrides_of(self, raw) =
            IF raw.kv_overrides = Null THEN <<>> ELSE [k \in 1..Len(used) |-> Read(used[k])]
      BY DEF kv_overrides_of
    <3>2. CASE wanted.kv = <<>> /\ list[1].key = "empty"
      <4>1. used = SubSeq(list, 1, 0)
        BY <3>0, <3>2, UntilIs
      <4>2. used = <<>>
        BY <4>1, SubSeqEmpty
      <4> HIDE DEF list, used
      <4>3. [k \in 1..Len(used) |-> Read(used[k])] = <<>>
        BY <4>2
      <4> QED  BY <3>1, <3>2, <4>3
    <3>3. ASSUME NEW key \in Keys, NEW value \in ParamOverrideValue,
                 wanted.kv = <<<<key, value>>>>,
                 list[1] = [key |-> key, tag |-> tag(value), val |-> value.payload],
                 raw.kv_overrides # Null
          PROVE  kv_overrides_of(self, raw) = wanted.kv
      <4>1. list[1].key # "empty"
        BY <3>3, KeyAssumption
      <4>2. used = SubSeq(list, 1, 1)
        <5>1. 1 \in 0..Len(list) /\ \A k \in 1..1 : k \notin ends
          BY <3>0, <4>1
        <5>2. 1 + 1 \in ends
          BY <3>0, <3>3
        <5> HIDE DEF list, ends
        <5> QED  BY <3>0, <5>1, <5>2, UntilIs
      <4>3. Len(used) = 1 /\ used[1] = list[1]
        <5>1. \A i \in 1..1 : list[i] \in KvOverride
          BY <3>0, ElementOfSeq
        <5> QED  BY <4>2, <5>1, SubSeqProperties
      <4>4. Read(list[1]) = <<key, value>>
        BY <3>3, ValueRoundTrip
      <4> HIDE DEF list, used, Read
      <4>5. [k \in 1..Len(used) |-> Read(used[k])] = <<Read(list[1])>>
        BY <4>3
      <4> QED  BY <3>1, <3>3, <4>4, <4>5
    <3> QED  BY <2>0, <2>1, <3>2, <3>3 DEF KvSet
  <2>2. ASSUME ~wanted.unfit PROVE NativeView(self, raw).buft = wanted.buft
    BY <2>2, PatternsRead
  <2>3. NativeView(self, raw).devices = wanted.devices
    <3>1. wanted.devices \in Seq(0..(DeviceCount - 1)) /\ Len(wanted.devices) \in Nat
      BY <2>0, LenProperties DEF TypeOK
    <3>2. Len(wanted.devices) <= LLAMA_CPP_MAX_DEVICES
      BY <2>0, <3>1, NumberAssumption DEF DevicesSet, max_devices
    <3>3. devices_of(self) = wanted.devices
      BY <2>0, <3>1, <3>2, NumberAssumption, NullAssumption, UntilPadded
         DEF DevicesSet, devices_of
    <3> QED  BY <2>0, <3>3 DEF DevicesSet, NativeView
  <2>4. /\ NativeView(self, raw).mmap = wanted.mmap
        /\ NativeView(self, raw).mlock = wanted.mlock
        /\ NativeView(self, raw).kv = kv_overrides_of(self, raw)
    BY <2>0, Zenon DEF FlagsSet, NativeView
  <2> QED  BY <2>1, <2>2, <2>3, <2>4 DEF NativeSeesSettings
<1> QED  BY <1>1, Invariance, PTL

----------------------------------------------------------------------------
(* Fields                                                                  *)

\* What a field promises: a value that was set is read again, unless it was the
\* Unknown of a code that has a variant, and what is read stands for the same code.
ReadsBack(F) ==
  /\ F.values # {}
  /\ \A v \in F.values :
       LET got == F.from[F.into[v]]
       IN  /\ got \in F.values
           /\ F.into[got] = F.into[v]
           /\ \/ got = v
              \/ v.name = "Unknown" /\ F.into[v] = v.raw /\ got.name # "Unknown"

\* The codes of an enum are different.
CodesApart(codes) ==
  /\ DOMAIN codes # {} /\ "Unknown" \notin DOMAIN codes
  /\ \A a, b \in DOMAIN codes : codes[a] = codes[b] => a = b

LEMMA PlainReadsBack ==
  ASSUME NEW values, values # {}
  PROVE  ReadsBack(Plain(values))
BY DEF ReadsBack, Plain, Field

\* The code of a variant is converted back to it.
LEMMA NamedIs ==
  ASSUME NEW codes, CodesApart(codes), NEW name \in DOMAIN codes
  PROVE  HasCode(codes, codes[name]) /\ Named(codes, codes[name]) = Variant(name)
<1>1. \A n \in DOMAIN codes : codes[n] = codes[name] => n = name
  BY DEF CodesApart
<1>2. (CHOOSE n \in DOMAIN codes : codes[n] = codes[name]) = name
  BY <1>1
<1>. QED BY <1>2 DEF HasCode, Named

\* The variants of an enum in C and back.
LEMMA VariantReadsBack ==
  ASSUME NEW codes, CodesApart(codes), NEW name \in DOMAIN codes
  PROVE  /\ into_code(codes, Variant(name)) = codes[name]
         /\ or_unspecified(codes, codes[name]) = Variant(name)
         /\ or_unknown(codes, codes[name]) = Variant(name)
         /\ or_error(codes, codes[name]) = Variant(name)
<1>1. name # "Unknown"
  BY DEF CodesApart
<1>. QED BY <1>1, NamedIs DEF into_code, or_unspecified, or_unknown, or_error, Variant

LEMMA CodedReadsBack ==
  ASSUME NEW codes, CodesApart(codes)
  PROVE  ReadsBack(Coded(codes))
<1>. DEFINE values == {Variant(name) : name \in DOMAIN codes}
<1>1. \A v \in values : or_unspecified(codes, into_code(codes, v)) = v
  BY VariantReadsBack
<1>2. values # {}
  BY DEF CodesApart
<1>. QED BY <1>1, <1>2 DEF ReadsBack, Coded, Field

LEMMA OpenReadsBack ==
  ASSUME NEW codes, CodesApart(codes)
  PROVE  ReadsBack(Open(codes))
<1>. DEFINE named == {Variant(name) : name \in DOMAIN codes}
            unnamed == {Unknown(code) : code \in {codes[name] : name \in DOMAIN codes} \cup {NewCode}}
<1>1. \A v \in named : or_unknown(codes, into_code(codes, v)) = v
  BY VariantReadsBack
<1>2. ASSUME NEW v \in unnamed
      PROVE  LET got == or_unknown(codes, into_code(codes, v))
             IN  /\ v.name = "Unknown" /\ into_code(codes, v) = v.raw
                 /\ got = v \/ got \in named
                 /\ into_code(codes, got) = v.raw
                 /\ got # v => got.name # "Unknown"
  <2>1. PICK code : v = Unknown(code)
    OBVIOUS
  <2>2. v.name = "Unknown" /\ v.raw = code /\ into_code(codes, v) = code
    BY <2>1 DEF Unknown, into_code
  <2>3. CASE HasCode(codes, code)
    <3>1. PICK name \in DOMAIN codes : codes[name] = code
      BY <2>3 DEF HasCode
    <3>2. or_unknown(codes, code) = Variant(name) /\ into_code(codes, Variant(name)) = code
      BY <3>1, VariantReadsBack
    <3>3. Variant(name).name # "Unknown"
      BY DEF Variant, CodesApart
    <3>. QED BY <2>2, <3>2, <3>3
  <2>4. CASE ~HasCode(codes, code)
    BY <2>1, <2>2, <2>4 DEF or_unknown
  <2>. QED BY <2>3, <2>4
<1>3. named # {}
  BY DEF CodesApart
<1>4. PICK F : F = Open(codes)
  OBVIOUS
<1>5. /\ F.values = named \cup unnamed
      /\ \A v \in F.values : F.into[v] = into_code(codes, v)
      /\ \A v \in F.values : F.from[into_code(codes, v)] = or_unknown(codes, into_code(codes, v))
  BY <1>4 DEF Open, Field
<1>. HIDE DEF named, unnamed
<1>6. ReadsBack(F)
  BY <1>1, <1>2, <1>3, <1>5 DEF ReadsBack
<1>. QED BY <1>4, <1>6

\* The codes of llama.h and ggml.h are different.
LEMMA EnumsApart ==
  /\ CodesApart(ROPE_SCALING) /\ CodesApart(POOLING) /\ CodesApart(ATTENTION)
  /\ CodesApart(CONTEXT_TYPE) /\ CodesApart(SPLIT_MODE)
BY DEF CodesApart, ROPE_SCALING, POOLING, ATTENTION, CONTEXT_TYPE, SPLIT_MODE

LEMMA GgmlApart == CodesApart(GGML_TYPE)
BY DEF CodesApart, GGML_TYPE

LEMMA SizeReadsBack ==
  ReadsBack(Optional(1 .. MaxNumber))
<1>. DEFINE values == {<<>>} \cup {<<n>> : n \in 1 .. MaxNumber}
<1>1. ASSUME NEW v \in values PROVE number_option(option_number(v)) = v
  <2>1. CASE v = <<>>
    BY <2>1 DEF option_number, number_option
  <2>2. CASE v \in {<<n>> : n \in 1 .. MaxNumber}
    <3>1. PICK n \in 1 .. MaxNumber : v = <<n>>
      BY <2>2
    <3>2. v # <<>> /\ v[1] = n /\ n # 0
      BY <3>1, ParamsAssumption
    <3>. QED BY <3>1, <3>2 DEF option_number, number_option
  <2>. QED BY <2>1, <2>2
<1>. QED BY <1>1 DEF ReadsBack, Optional, Field

LEMMA StrictReadsBack ==
  ASSUME NEW codes, CodesApart(codes)
  PROVE  ReadsBack(Strict(codes))
<1>. DEFINE values == {Variant(name) : name \in DOMAIN codes}
<1>1. values # {} /\ \A v \in values : or_error(codes, into_code(codes, v)) = v
  BY VariantReadsBack DEF CodesApart
<1>. QED BY <1>1 DEF ReadsBack, Strict, Field

LEMMA FieldsReadBack ==
  ASSUME NEW f \in DOMAIN Fields
  PROVE  ReadsBack(Fields[f])
<1>1. Numbers # {} /\ BOOLEAN # {} /\ -1 .. 1 # {}
  <2>1. 0 \in Numbers /\ TRUE \in BOOLEAN /\ 0 \in -1 .. 1
    BY ParamsAssumption DEF Numbers
  <2>. QED BY <2>1
<1>2. CASE f \in NumberFields
  <2>1. f \notin SwitchFields \cup EnumFields
                \cup {"vocab_only", "n_ctx", "flash_attn_type", "split_mode"}
    BY <1>2 DEF EnumFields, SwitchFields, NumberFields, SizeFields, ThreadFields, RopeFields,
                CacheFields
  <2>2. Fields[f] = Plain(Numbers)
    BY <1>2, <2>1 DEF Fields, EnumFields
  <2>. QED BY <1>1, <2>2, PlainReadsBack
<1>3. CASE f \in SwitchFields \cup {"vocab_only"}
  <2>1. f \notin NumberFields \cup EnumFields \cup {"n_ctx", "flash_attn_type", "split_mode"}
    BY <1>3 DEF EnumFields, SwitchFields, NumberFields, SizeFields, ThreadFields, RopeFields,
                CacheFields
  <2>2. Fields[f] = Plain(BOOLEAN)
    BY <1>3, <2>1 DEF Fields, EnumFields
  <2>. QED BY <1>1, <2>2, PlainReadsBack
<1>4. CASE f \in EnumFields \cup {"n_ctx", "flash_attn_type", "split_mode"}
  <2>1. f \notin NumberFields /\ f \notin SwitchFields \cup {"vocab_only"}
    BY <1>4 DEF EnumFields, SwitchFields, NumberFields, SizeFields, ThreadFields, RopeFields,
                CacheFields
  <2>2. CASE f = "n_ctx"
    BY <2>1, <2>2, SizeReadsBack DEF Fields
  <2>3. CASE f = "flash_attn_type"
    BY <1>1, <2>1, <2>3, PlainReadsBack DEF Fields
  <2>4. CASE f = "ctx_type"
    BY <2>1, <2>4, EnumsApart, OpenReadsBack DEF Fields
  <2>5. CASE f \in {"type_k", "type_v"}
    BY <2>1, <2>5, GgmlApart, OpenReadsBack DEF Fields
  <2>6. CASE f \in {"rope_scaling_type", "pooling_type", "attention_type"}
    BY <2>1, <2>6, EnumsApart, CodedReadsBack DEF Fields
  <2>7. CASE f = "split_mode"
    BY <2>1, <2>7, EnumsApart, StrictReadsBack DEF Fields
  <2>. QED BY <1>4, <2>2, <2>3, <2>4, <2>5, <2>6, <2>7 DEF EnumFields
<1>. QED BY <1>2, <1>3, <1>4 DEF Fields, ModelFields, NumberFields

\* The struct holds the code of what each field was last set to.
SetInv ==
  /\ context_params = [f \in DOMAIN Fields |-> Fields[f].into[asked[f]]]
  /\ asked = [f \in DOMAIN Fields |-> asked[f]]
  /\ \A f \in DOMAIN Fields : asked[f] \in Fields[f].values

LEMMA ParamsInitSet == ParamsInit => SetInv
<1>. SUFFICES ASSUME ParamsInit PROVE SetInv
  OBVIOUS
<1>1. ASSUME NEW f \in DOMAIN Fields
      PROVE  /\ asked[f] \in Fields[f].values
             /\ Fields[f].into[asked[f]] = context_params[f]
  <2>1. PICK v : v = CHOOSE w \in Fields[f].values : TRUE
    OBVIOUS
  <2>2. v \in Fields[f].values
    BY <2>1, FieldsReadBack DEF ReadsBack
  <2>3. context_params[f] = Fields[f].into[v]
    BY <2>1 DEF ParamsInit
  <2>4. asked[f] = Fields[f].from[Fields[f].into[v]]
    BY <2>3 DEF ParamsInit
  <2>. QED BY <2>2, <2>3, <2>4, FieldsReadBack DEF ReadsBack
<1>. QED BY <1>1 DEF ParamsInit, SetInv

LEMMA WithSet ==
  ASSUME SetInv, NEW f \in DOMAIN Fields, NEW v \in Fields[f].values, With(f, v)
  PROVE  SetInv'
<1>1. /\ context_params' = [context_params EXCEPT ![f] = Fields[f].into[v]]
      /\ asked' = [asked EXCEPT ![f] = v]
  BY DEF With, with
<1>. QED BY <1>1 DEF SetInv

LEMMA FitSet ==
  ASSUME SetInv, NEW n \in 1 .. MaxNumber, Fit(n)
  PROVE  SetInv'
<1>1. "n_ctx" \in DOMAIN Fields
  BY DEF Fields
<1>2. Fields["n_ctx"] = Optional(1 .. MaxNumber)
  BY DEF Fields, SwitchFields, NumberFields, SizeFields, ThreadFields, RopeFields, CacheFields
<1>3. <<n>> \in Fields["n_ctx"].values /\ Fields["n_ctx"].into[<<n>>] = n
  <2>1. <<n>> # <<>> /\ <<n>>[1] = n
    OBVIOUS
  <2>. QED BY <1>2, <2>1 DEF Optional, Field, option_number
<1>4. /\ context_params' = [context_params EXCEPT !["n_ctx"] = n]
      /\ asked' = [asked EXCEPT !["n_ctx"] = <<n>>]
  BY DEF Fit
<1>. QED BY <1>1, <1>3, <1>4 DEF SetInv

LEMMA SetInvariance == ParamsSpec => []SetInv
<1>1. SetInv /\ [ParamsNext]_paramsVars => SetInv'
  BY WithSet, FitSet DEF ParamsNext, paramsVars, SetInv
<1>. QED BY ParamsInitSet, <1>1, PTL DEF ParamsSpec

\* For any numbers and any calls of the setters: each getter returns what its field
\* was last set to, and what it returns stands for the code llama.cpp is given.
THEOREM GettersReadBack == ParamsSpec => []GettersReport
<1>1. SetInv => GettersReport
  <2>. SUFFICES ASSUME SetInv, NEW f \in DOMAIN Fields
                PROVE  /\ \/ get(f) = asked[f]
                          \/ /\ asked[f].name = "Unknown" /\ context_params[f] = asked[f].raw
                             /\ get(f).name # "Unknown"
                       /\ Fields[f].into[get(f)] = context_params[f]
    BY DEF GettersReport
  <2>1. /\ asked[f] \in Fields[f].values
        /\ context_params[f] = Fields[f].into[asked[f]]
    BY DEF SetInv
  <2>2. ReadsBack(Fields[f])
    BY FieldsReadBack
  <2>3. PICK got : got = get(f)
    OBVIOUS
  <2>4. got = Fields[f].from[Fields[f].into[asked[f]]]
    BY <2>1, <2>3 DEF get
  <2>5. /\ Fields[f].into[got] = Fields[f].into[asked[f]]
        /\ \/ got = asked[f]
           \/ /\ asked[f].name = "Unknown" /\ Fields[f].into[asked[f]] = asked[f].raw
              /\ got.name # "Unknown"
    BY <2>1, <2>2, <2>4 DEF ReadsBack
  <2>. QED BY <2>1, <2>3, <2>5, Zenon
<1>. QED BY <1>1, SetInvariance, PTL
============================================================================
