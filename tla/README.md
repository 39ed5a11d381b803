# Verification of llama-cpp-rs

TLA+ modules, TLC configurations and TLAPS proofs about `llama-cpp-2`, the safe
Rust wrapper around llama.cpp, and the parts of `llama-cpp-sys-2` that hold logic
of their own. llama.cpp itself is external: it is modelled by what the Rust code
can observe of it, and such definitions are marked `external` in `PROJECT.json`.

## 1. The system

| component | state | operations | interacts with |
|---|---|---|---|
| hidden-state capture (`context/hidden_states.rs`) | slots with captured vectors and seen flags, row counts, active/enabled/ready flags, latched error, all under a mutex that a callback panic poisons | `begin`, `finish`, `unsupported`, `set_enabled`, `take`, native `callback` | called by `LlamaContext::{decode, encode, take_hidden_states}`; called back by the native graph scheduler |
| log bridge (`log.rs`, `logs_to_trace`) | buffered text under a mutex, `previous_level` and `is_buffering` atomics, one `State` each for llama.cpp and ggml | `logs_to_trace` | called by any native thread; emits tracing events |
| backend lifecycle (`llama_backend.rs`, `send_logs_to_tracing`) | the flag `LLAMA_BACKEND_INITIALIZED`, the native backend, the two native log callbacks, two `OnceLock`s | `init`, `init_numa`, `drop`, `void_logs`, `send_logs_to_tracing` | any thread; every constructor of a model or context takes `&LlamaBackend` |
| batches and logits (`llama_batch.rs`, `context.rs`) | tokens and output flags in native arrays, the list of initialized logits in the batch and a copy of it in the context | `add`, `add_sequence`, `clear`, `new`, `get_one`, `decode`, `encode`, `get_logits(_ith)` | the list guards access to native memory |
| MTP speculative decoding (`speculative.rs`, `wrapper_common.cpp`) | pending draft and its length, prompt | `begin`, `process`, `draft`, `accept` | owns two contexts |
| session and sequence state, KV cache (`context/session.rs`, `context/kv_cache.rs`) | the memory of a context (native), files, buffers, `SeqState` snapshots with their flags, what the last snapshot left on the device | saving and loading, `state_seq_get`/`set`, range operations with optional bounds | `decode` fills the memory |
| model parameters (`model/params.rs`) | null-terminated override lists with pointers into them | `append_kv_override`, `add_cpu_buft_override`, `fit_params`, `with_devices` | read by `load_from_file` |
| tokenizer, metadata and templates (`model.rs`) | the buffer of a call, a decoder shared by the pieces of a stream | conversions that guess a buffer and try again | llama.cpp; the llguidance sampler reads the vocabulary through them |
| adapters and control vectors (`context.rs`) | what is attached to a context | set, remove, clear, with validation | the native context |
| ownership (`sampling.rs`, `llguidance_sampler.rs`, `mtmd.rs`, `speculative.rs`, `model.rs`) | native objects, the values that free them, what is moved or borrowed | constructors, `chain`, `try_clone`, `get`, `copy`, drops | contexts point to models, backend samplers and other contexts, samplers to the vocabulary, decoders to contexts |
| llguidance sampler (`llguidance_sampler.rs`) | a matcher and its token environment behind a native sampler | `accept`, `apply`, `reset`, `clone`, `free` as callbacks | called by llama.cpp's sampler functions |
| token data arrays (`token/data_array.rs`) | candidates, `sorted`, `selected` | `apply_sampler`, `sample_token` | handed to native samplers as a C struct |
| context parameters (`context/params.rs`, `get_set.rs`) | the C struct | setters, getters, enum conversions | read by `new_context`; `fit_params` may write `n_ctx` |
| build evidence (`build_evidence.rs`, `build.rs`) | features, artifacts, file hashes | gathering, `collect`, `hash_stable_file` | the file system and whoever writes to it |

Hard behaviours: callbacks from native code that interleave with the methods of
the context and may panic; native threads that log concurrently through a mutex
and two atomics; state copied at one call and trusted at a later one; native
evaluation that bypasses the wrapper (`eval_chunks`); partial failure of one
layer, one call or one native step; native pointers that the borrow checker does not see;
snapshots that another call invalidates; sizes that are guessed, reported and tried
again. `PROJECT.json` lists them as hazards.

What makes each part correct, in short: the capture never returns partial or
stale vectors and never disturbs the evaluation; the log bridge neither loses nor
mixes messages; a `LlamaBackend` is unique and proves initialization; the list of
initialized logits is what native code has; the lists in the model parameters end
within their buffers and say what was asked for; the memory is what the calls on it
promise; every native object is freed once and outlives what points to it; texts come
back whole or not at all; a grammar is kept for as long as tokens are sampled by it.

## 2. Modules

### HiddenStateCapture, CaptureReadout

`HiddenStateCapture` models one context. `state` and `poisoned` are the mutex and
what it protects, field by field; `ctx` says whether the context exists and has a
capture. `begin`, `finish`, `unsupported`, `set_enabled`, `read_state` are the
methods as functions of the state under the lock. Actions:

* `NewContext`, `NewContextWithCapture`, `NewContextWithCaptureFails`: construction
  with the checks of `Capture::new` in its order;
* `DecodeBegin`/`DecodeEnd`: `decode` before and after `llama_decode`;
  `EncodeBegin`, `EvalChunksBegin`, `OtherEvalEnd`: the other evaluations;
* `CallbackAsk`, `CallbackRead`, `CallbackPanic`: what native code may do during an
  evaluation: offer any tensor any number of times, read the one asked for, and
  the caught panic;
* `SetEnabled`, `Take`, `TakeFails`.

A vector is abstracted to its origin: evaluation, token and finiteness. A tensor
is full (a row per token), pruned (a row per output) or malformed. `clean`,
`faulty`, `decoded` and `batch` are history: what really happened in the last
decode, independent of the flags the code keeps.

`CaptureReadout` is the promise to the caller: a place that holds nothing, a
failure, or a snapshot of one decode; decode replaces it, encode spoils it, take
consumes a snapshot, toggling empties it, a panic breaks it for good.
`ImplementsReadout` states that the capture refines it under
`readout_status`, `readout_origin` and `delivered`.

The capture speaks of `decode`. `eval_chunks` runs `llama_decode` on the same native
context without telling the capture, so that a readout made before it stays takeable
after it; if such an evaluation counts as a decode ("Each decode replaces the previous
observation"), the promise is broken. `logits_guard` shows the same bypass for logits.

### LogBridge

One `State` and any number of threads in `logs_to_trace`. A step is one atomic
access or one critical section; `edition = "2021"`, so the guard of an `if let`
lives through its body, and the event for a replaced or taken text is made under
the lock. Within `cont_buffered_log` the store to `is_buffering` is inside the
critical section and commutes with everything that other threads can do during
it, so the method is one step. A text is the sequence of calls it consists of,
so that losing, repeating, joining and reordering can be seen. A panic in the
callback aborts the process, as it is `extern "C"`.

### LlamaBackend

The flag and the native backend as separate variables, each thread's place in
`init`, `init_numa` and `drop`, and the two log sinks. `llama_log_set` (external)
sets the sink of ggml as well, as the comment in `send_logs_to_tracing` says.

### BatchLogits

`LlamaBatch` with the native array of output flags (uninitialized after `new`,
stale after `clear`) and the list kept beside it; the context with its copy of
the list and, externally, the rows native code has. `decode` and `encode` assign
the copy only on success; `eval_chunks` never does.

### MtpSpeculative

`draft_pending` and `last_draft_len` are the wrapper's (`wrapper_common.cpp`),
`drafted` is the draft in llama.cpp's drafter, which is external and may draft any
number of tokens or throw. `in_hand` is the draft the caller was given and has not
answered, as far as the results of its calls tell; `doubt` says that a `begin` has
failed since, which may have come before or after the wrapper gave the draft up.
`told` is what `common_speculative_accept` was called with last. One action per
method and outcome: `New`, `Begin`, `Process`, `Draft`, `Accept`, `Drop`, the
refusals (`DraftRefused`, `AcceptRefused`) and the exceptions (`BeginThrows`,
`DraftThrows`, `AcceptThrows`). Every method takes `&mut self`, so that a call is
one step. An `accept` that throws leaves the draft pending and can be repeated:
llama.cpp is then told twice of the same draft, never of another.

### FileFingerprint, BuildEvidence

`FileFingerprint` is `hash_stable_file` of `build_evidence.rs`, one system call per
step, against processes that write, touch, rename and remove files meanwhile. A
content is a sequence of blocks and a hash is the content it was computed from.
Time stamps come from a clock that may or may not advance between two writes.
`seen`, `blind` and `overwrites` in the handle are history.

`BuildEvidence` extends it by the build script: `effective_features`, gathering the
artifacts (`insert_artifact`, `system_ggml_artifacts`), and `collect`, artifact by
artifact. Which libraries cmake has built is an input.

### ModelParams

One `LlamaModelParams`. `self` is what the Rust value owns (the override vectors, the
box of devices, the tensor split, the callback) and `raw` the C struct with its
pointers into it; a buffer is its address and its entries, and growing a vector puts
it at any address. `wanted` is history: the settings that the calls which returned
have asked for. There is one action for each method that changes the value, for each
panic (`AppendKvOverridePanics`, `AppendBadKeyPanics`, `AddCpuBuftOverridePanics`,
`AddBadPatternPanics`) and for each error (`FitParamsFails`, `WithDevicesFails`). A
panic leaves the value as it is at that point and the program may go on; an error of
`with_devices` consumes the value. What `llama_params_fit` writes is external: any
patterns that fit, also before it fails. `NativeView` is what `load_from_file` shows
llama.cpp: each list through its pointer, up to its first empty entry. `main_gpu`,
`vocab_only` and `split_mode` are fields of `ContextParams`; patterns are static strings.

Two observations on this part. `append_kv_override` works on the entry at index 0 and
pushes the next terminator behind it, so that a value takes one override and the
second call panics (`params_append`). And `with_devices` accepts as many devices as
the box has entries, 16 if llama.cpp allows that many; no null follows them then, and
`ListsTerminated` excepts that list.

### ContextAdapters

LoRA adapters and control vectors. `models`, `adapters` and `handles` are the loaded
models, the native adapters with the model that owns them, and the `LlamaLoraAdapter`
values; `contexts` holds what llama.cpp keeps for each context (external): a map from
adapters to scales, and the rows and range of a control vector, whose storage outlives
a clear. Dropping a model is guarded by the borrows of its handles and contexts, which
the compiler enforces; dropping a handle frees nothing. `validate_lora_adapters` and
`validate_control_vector` are the tests in the order of the code. Calls that they, or
llama.cpp, reject are `Rejected`; constructors that get a null pointer `NullResult`.

### ContextMemory

The memory of one context: for each sequence the positions in the KV cache and the
running state of recurrent layers, abstracted to the number of tokens it has taken in.
`CopyCache` to `KvCacheSeqDiv` are the operations of `kv_cache.rs`, whose `Option<u32>`
bounds are converted one after the other before llama.cpp is called; `I32_MAX` is small,
so that bounds beyond it occur. `SaveSessionFile` to `SetStateData` are the files and
buffers of `session.rs`; a file may be torn by a failed write and a failed load may
have cleared what it was to replace. `StateSeqGet` and `StateSeqSet` are the snapshots:
a `SeqState` remembers the flags it was captured with, its bytes have the layout of
those flags, and with `ON_DEVICE` the content stays on the device, where the next
capture of the sequence replaces it, also one that fails. `promised` is history: the
memory computed from the documentation of the calls. A snapshot that was superseded on
the device promises nothing, as the documentation of `ON_DEVICE` says; that of
`SeqState`, "Opaque, immutable snapshot
of a single sequence's state", does not.

### NativeOwnership

Native objects with what they point to and what they are freed with, and Rust values
with the object they free, the value that holds them, and the value they borrow. A
borrow or a move is a guard, since the compiler enforces it; everything else may happen
in any order. `Drop` frees the native object and then lets the fields fall, as Rust
does, so that a context is freed before its backend samplers. There is an action for
each constructor, for each call that moves or copies a value, and one for each kind of
call that uses an object (`UseSampler`, `Sample`, `UseMtp`, `UseBitmap`, `UseChunk`,
`EncodeChunk`, `EvalChunks`), which records in `misused` what llama.cpp reached that was
freed, as the object and the one whose pointer led to it. `ChainPanics` is an iterator that
panics while a chain is being built. Histories tell the pairs of decoder and context that
the caller has taken apart (`exchanged`), the bitmaps that were cloned (`cloned`) and what
a panic left (`abandoned`), so that the properties except these objects and no others.

Two native calls end the process (`aborted`): `llama_sampler_sample` with samplers of which
none selects a token, which `sample` does not look at, and `llama_sampler_clone` of a
sampler that has state and no clone callback. `try_clone` checks for the second, but asks
only the sampler it clones: `clone_preflight` shows a chain over such a sampler.

What the model shows of the code beyond its properties, which name these cases as
exceptions: a grammar or infill sampler and a multimodal context keep a pointer into a
model that nothing keeps alive; the same holds for the context given as `ctx_other`; a
context exchanged through `target_context_mut` is freed while the decoder points to it;
a chunk from `get` can outlive its collection; and a cloned `MtmdBitmap` is freed twice.

### ModelText

Every conversion of `model.rs` that guesses a buffer, one native call per step: a call
offers a buffer (`Offer`), llama.cpp answers with its convention (`Tokenize`, `Piece`,
`Meta`, `ApplyTemplate`), and the call returns or tries again. Bytes are of four kinds,
so that characters can be split, held back by the decoder, or contain a null. A string
that is refused before llama.cpp is asked (a null byte, more bytes than a `c_int` counts)
is `StrToTokenRefused`. The decoder of `encoding_rs` is external. It copies characters
whose bytes are all in the piece as long as they fit; any other byte it reads only with
room for the longest character, of four bytes (`needed`).

Observations: a character whose bytes come in two pieces is lost: the string for a piece
has no room beyond its bytes, so that the decoder stops before the first bytes of a
character, and what `decode_to_string` did not read is dropped, although the comment in `token_to_piece`
says that "further decoding will happen on the next interation anyway"
(`SplitCharacters.cfg` shows the behaviour); a piece that contains a null byte is cut
there, and on an error `token_to_piece_bytes` does not take back the string that it gave
away by `into_raw`; a piece without bytes is reported as `UnknownTokenType`;
`tokens_to_str` never tries again; a string with more than `i32::MAX` tokens, or more than
twice as many bytes, panics in `str_to_token`; `chat_template` passes the pointer of a name that was freed at the end
of the match arm, so that llama.cpp may find any template, and a name with a null byte
asks for the default one.

### LlgSampler

The callbacks of the llguidance sampler over a matcher, which is external: a language,
the bytes read, and whether it runs, has stopped or is poisoned. `word` is the bytes by
which the token environment knows a token, through the 32-byte buffer of
`llguidance_build_tok_env`. `SampleAllowed` is `LlamaSampler::sample`: the mask, a token
it leaves, the accept of it. `AcceptAny` feeds a token that the mask does not leave, after
which the property says nothing of that sampler.

### ContextParams, TokenDataArray

`ContextParams` has a table of the fields, each with the conversion of its setter and of
its getter; `With` and `get` are all setters and getters. `TokenDataArray` is the round
trip of a candidate array through `llama_token_data_array`: a native sampler (external)
shortens, reorders or selects, in the vector's memory or in a buffer of its own.
A sampler that reorders and does not select leaves the index of an earlier selection,
which then names another candidate: the wrapper passes that on.

### Retain

`retained` is the filter behind `Vec::retain` and `Iterator::filter`, used by `BatchLogits`
and `ModelParams`; it is defined as a recursive function so that it can be reasoned about,
as `joined` and `decode_to_string` of `ModelText` are.

### The MC modules, and the faulty variants

`MC_HiddenStateCapture` defines the layer lists, widths and batches, `MC_BuildEvidence`
the disk and the builds and `MC_NativeOwnership` the families of objects. `MC_Logging`, `MC_Context` and
`MC_Boundary` run components side by side that store nothing for each other: a behaviour
moves one of them, and their properties are checked together. The operators commented as
faulty variants are not used by any specification: they are bugs of the kind the
neighbouring code could have, kept to show that each property notices one.

## 3. Runs

| run | checks | outcome |
|---|---|---|
| `capture` | `SnapshotIsLastDecode`, `ReadoutExact`, `NeverAborts`, `DisabledReadsNothing`, `PoisonIsFinal`, `ImplementsReadout` | hold |
| `logging` | `OneBackend`, `DropFindsFlag`, `SeparateLogStates` of `LlamaBackend`; types, `NothingLostOrRepeated`, `EventIsOneMessage`, `OneThreadAsLogged`, `EventuallyFlushed` of `LogBridge` | hold |
| `log_levels` | `LegalLevels` | violated: level NONE, or an early CONT, panics |
| `backend_race` | `ProofOfInitialization` | violated: drop and init of two threads |
| `context` | `ListIsOutputs`, `GuardMatchesOutputs` of `BatchLogits`; `MemoryAsPromised`, `LoadedTokensAreSaved` of `ContextMemory`; `CallerInStep`, `ToldOfLastDraft`, `SettledOnce` of `MtpSpeculative`; `NoDanglingAdapter`, `StackAsSet`, `SteeringAsSet` of `ContextAdapters` | hold |
| `logits_guard` | `OnlyInitializedLogits` | violated: the list is stale after a failure or `eval_chunks` |
| `build_evidence` | `StableFingerprint`, `HashOfOneMoment`, `EvidenceComplete` | hold |
| `model_params` | `ListsTerminated`, `PointersValid`, `NativeSeesSettings`, `PatternsInEffect` | hold |
| `params_append` | `AppendNeverPanics` | violated: the second `append_kv_override` panics |
| `ownership` | `OneOwner`, `UsesAlive`, `KnownMisuse` | hold, with the exceptions they name |
| `clone_preflight` | `PreflightExcludesAbort` | violated: a chain over a sampler that cannot be cloned |
| `boundary` | `OkIsWhole`, `WholeCharactersDelivered`, `EveryCallReturns` of `ModelText`; `GettersReport` of `ContextParams`; `GrammarKept` of `LlgSampler`; `ArrayAsLeft` of `TokenDataArray` | hold |

Bounds. `capture`: three evaluations (one to fill the state, one to find it
stale, one to recover), two configured layers out of order and one that is not
configured, batches of up to three rows with and without pruning and one for
each reason of rejection, and layer lists and widths on both sides of each limit.
`logging`: four calls are enough for a text to be buffered, overtaken, continued and
flushed, and two threads for every pair of steps to race; three threads for the backend.
`context`: batches of three tokens; four calls on a memory of two sequences with two
positions each, with one snapshot and one file, so that a snapshot can be taken,
superseded, spoiled and restored; `I32_MAX` is 1; two drafts, from empty to one token too
long, so that one can be given up or accepted before the other is made; parameters on
both sides of each check. Of the adapters, two models, one of
which has no layer to steer, and two adapters, so that a stack can hold an adapter of
each model, an adapter twice, or a scale that is not finite; data from empty to one
value too long. One context is enough, since contexts share nothing but the models.
`build_evidence`: two artifacts of two blocks and three steps of
other processes. With two blocks it takes three writes to defeat the two passes of
`hash_stable_file` when all of them fall into one tick of the clock (replace the file
within the first pass, put it back between the passes, and replace it again within
the second). In a file of three blocks two writes are enough, since a block that was
read before a write need not fit one that is read after it; `HashOfOneMoment` says
that one write cannot, and is proved for files of any length.
`model_params`: four calls on one value, so that each list can be set, replaced, left
half done by a panic or a failed fit, and set again; two addresses, so that a buffer
may move or stay; a box of two entries that can be full, a limit on patterns
of one.
`I32_MAX` is 0: one value on each side of the saturation.
`ownership`: five native objects and five values, of one of four families that meet only in
models and contexts: samplers and chains with a model, a context and a matcher; four
samplers and two matchers, so that a chain of one, and a sampler with a matcher, can be
cloned; decoders with three contexts; and multimodal objects. `clone_preflight` has the
same bounds. `boundary`: first buffers of two bytes and texts of up to four,
so that each is too small, exact and too large; streams of three pieces; two setters on
one value; seven tokens, two samplers and four short texts of a language; three
candidates and three samplers applied to them.

`EventuallyFlushed` excepts a CONT text that found nothing to continue:
`cont_buffered_log` buffers it without setting `is_buffering`, so that it is held back,
even if it ends in a newline, until a text without newline or another CONT text comes.
`OneThreadAsLogged` speaks of behaviours in which one thread logs, because order and
levels fail for more: a line overtakes a text that another thread has claimed and not yet
logged, and an orphan CONT text may be judged by one level and stored at another.

`backend_race` uses `init` only. With `init_numa` among the constructors
`ProofOfInitialization` fails with a single thread: `init_numa` never calls
`llama_backend_init`.

Deadlock is not checked where the program really may stop: in `logging`, `context` and
`boundary`, where nothing need be called, in `ownership` once its objects are used up, and
in `build_evidence`, which ends with the script.

Fairness. `LogBridge` has weak fairness of the steps of each thread: a call waits for
nothing but the mutex, and each critical section is finite and waits for nothing.
`ModelText` has weak fairness of the native call that is under way, which is sequential
code. No fairness is assumed of the callers.

## 4. Proofs

For every value of the constants (layers, batches, tensors, number of
evaluations; threads):

`HiddenStateCaptureProofs`: `TypeCorrect`, `SnapshotFresh`, `ReadoutIsExact`,
`CaptureNeverAborts`, `DisabledIsSilent`, `PoisonHolds`, and
`CaptureImplementsReadout`, the refinement. None of the safety properties is
inductive: what a take returns depends on what was seen while the decode ran. The
invariant `IInv` therefore says that slots have distinct layers (`SlotsInv`), that
the scheduler waits only for an active capture (`PendingInv`), that the capture is
active only in a decode of a supported batch whose row counts it holds
(`ActiveInv`, `DecodeInv`), that each seen slot holds the last token's residual of
this decode and that the clean layers are the seen ones as long as no error is
latched (`SeenInv`), and that a readout without error is complete (`ReadyInv`);
all but the first two end with a poisoned mutex. There is one lemma per action.
The heart is `LastRowIsLastToken`: in a supported batch the last row of a full or
pruned tensor is the last token. The refinement also needs `OrderInv`.
Assumptions: layer lists are sequences of naturals, widths are integers, batches
are well formed, and the number of layers, micro-batch size and bound are naturals.

`LoggingProofs`: `OneBackendHolds`, `DropNeverPanics`, `LogStatesApart`, from
the invariant that the flag is set exactly while a thread owns a backend, and that
a thread between the two log calls has set the states. Of the bridge, for any threads and
number of calls: `BridgeTyped`, `TextsKept`, `EventsAreMessages` and, if one thread logs,
`OneThreadInOrder`. The properties say nothing of a text that is under way, so `LogInv`
adds that a thread in the callback serves a running call of its own (`CallsInv`), that the
parts of a text are distinct calls of which only the first starts a message (`TextsInv`),
and that every accepted call is in one place: in a thread's hand, in the buffer, in an
event, or dropped (`Places`). `MovesTexts` shows once, for any step that hands texts on,
that `TextsInv` and `Places` survive; `StepSafe` adds the rest, so that each action only
says what it moves. For one thread `OneLoggerInv` says that the call in hand is the newest
and that a buffered message came after those in tracing, with the flag set or about to be.

`RetainProofs`: induction. The library's induction theorems take a predicate, which
the provers cannot instantiate, but `WFMin` takes a set: `LeastElement` and `Induction`
follow for sets of natural numbers, and with them that a recursive function exists
(`RetainsExists`), that it is determined by its entries, and what the filter `retained`
computes for sequences of any length (`RetainedAppend`, `RetainedSame`, `RetainedPrefix`).

`DecodingProofs`: for batches, `ListNamesRows` and `GuardIsExact`. `GoodBatch` adds to
`ListIsOutputs` that the list names only tokens that the batch has: then the retain of
`add` drops nothing, whatever an earlier use left in the flags, and `AddGood` goes
through. `AddAllGood` is an induction over the rounds of `add_sequence`. For drafts:
`CallerStaysInStep`, `OnlyLastDraftIsTold`,
`DraftsSettledOnce`, for all parameters and any number of drafts. The invariant
adds `HandInv` to the properties: a pending draft is the one in the drafter and in
the caller's hand, and the drafts accepted so far are older than it. For
candidates: `ArrayIsAsLeft`; `ArrayInv` relates the cells of the vector to what the last
sampler left, entry by entry, and `LeftFacts` shows that a sampler leaves no more than it
was given, so that the vector's memory is enough. Assumed:
the parameters are integers and the bounds are natural numbers.

For texts: `CallsReturnTheWhole` and `StreamsDeliverWholeCharacters`, for any pieces,
texts, sizes of buffers and lengths of streams. Neither property speaks of a call under
way, so `CallOk` adds what has been gathered of the pieces (`Collecting`: each piece read
so far is a `Cut` of its text, all of it or its beginning before a null byte) and that a
second try has room (`Asking`). `PieceCut` shows it for the buffer of stars that is
measured again, `JoinedCut` for any number of pieces, `BufferWhole` for the other
conventions. Streams need the decoder's arithmetic: `AmpleRun` and `TightRun` are the two
ways not to be stopped, three bytes of room for every byte and three more, or
whole characters in their
own number of bytes; `AlikeRuns` that runs with room go on alike over the same bytes; so
that `DecodedConcat` holds, one text after the other. All of them are inductions over the
bytes. `CallsComeToAnEnd`: each native call ends the call, reads the next of its pieces or
begins its only second try, so the tries and pieces left are the measure by which
`EveryCallReturns` holds once native calls return. For the sampler: `SamplersKeepToTheGrammar`, for any grammar, vocabulary and
samplers; `Faithful` is the property of one sampler with the types of what it read,
`WordIsSpoken` relates the token environment to the text of a generation. Assumed: bytes
are of the four kinds, the first sizes are at least 1, the metadata have no null byte;
llama.cpp leaves out the text of a special token or has the one text; a grammar has a text.

`BuildEvidenceProofs`: `FingerprintsStable`. The invariant `TraceInv` says that, as
long as every change left its trace in the time stamps, the open file has the
content it was opened with and what was read is a prefix of it, or its time stamp
is newer than the first one. The build script's steps on files
are those of `FileFingerprint` (`ScriptUsesFiles`), and so `EvidenceIsStable`.
`EvidenceOfOneMoment`: time stamps apart, a single change cannot make two passes agree on
a mixture. `MomentInv` says that the passes read prefixes of the content until the file
changes, and that with one change one of them reads a single content: the first, if it was
over by then, or the second. This proof corrected the property, which allowed two changes:
with three blocks that fails.
`EvidenceAccounts`: the evidence that is written accounts for the artifacts and features
of the build. Between gathering and emitting, the entries made and the inputs left over
are together what was gathered, in the order of the names (`CollectInv`), and the open
file is that of the next input (`OpenInputInv`). Assumed:
contents are sequences of numbers, and the artifacts have paths of the disk.

`ModelParamsProofs`: `ListsAreTerminated` (from `OverridesTerminated` and
`DevicesAreTerminated`), `NoDanglingPointer`, `SettingsReachNative`,
`PatternsAreInEffect` (with `RetainedPadded`), for any keys, patterns, sizes and number of calls. The properties
alone are not inductive: a list that has some terminator may lose it to the next
write. `KvInv` and `BuftInv` therefore say where entries can be written: only the
first key entry ever is, all later ones are empty and there is one as soon as the list
is pointed to; pattern buffers end in a null. `KvSet`, `BuftSet`, `DevicesSet` and
`FlagsSet` relate the buffers to the history, for a list left open by a panic or a
failed fit only as far as it is known. Assumed: null is no address, pattern or device,
the two special keys are no keys, and the sizes are natural numbers.

Of `ContextParams`, `GettersReadBack`, for numbers of any size. `SetInv` says that the
struct holds the conversion of what was last asked, which is a value of the field;
`ReadsBack` holds for each entry of the table, for enums because the codes of their
variants are distinct (`CodesApart`), with the exception of an `Unknown` that carries a
variant's code.

`ContextProofs`: of the adapters `TypeCorrect`, `ActiveAdaptersLive`, `StackIsAsSet`,
`SteeringIsAsSet`, for any models, widths, layers, adapters and contexts. `OwnerInv` is
what makes `NoDanglingAdapter` inductive: the adapters of a context belong to its own
model, the only one the borrow keeps alive. `SetLorasGood` shows that a list without
duplicates is the map llama.cpp makes of it, `SetVectorGood` that data of the demanded
length writes every row. Assumed: widths are integers, layer counts natural numbers.

Of the memory, `MemoryIsAsPromised` and `LoadedTokens`, for any sequences,
positions, files, snapshots, token lists and number of calls. `MemoryAsPromised` is not
inductive, since a restore depends on what a capture left behind: `SnapshotsGood` says
that a snapshot carries the flags its bytes were written with, that no capture has a
later number than the last one, and that the device still has what the last capture put
there. `CaptureKeepsOthers` shows that a capture, also one that fails, makes no other
snapshot bad; `ConvertedRange` that bounds without a conversion error give llama.cpp the
range that was asked for. Assumed: sequence ids, the bounds and `i32::MAX` are natural
numbers, and `i32::MAX` is at least the largest position.

`NativeOwnershipProofs`: `OwnedByOne`, `UsedAlive` and `MisuseKnown`, with `TypeCorrect`,
for any number of objects and values. None of them is inductive, because dropping a value
frees all that belongs to its object. `IInv` therefore says which kinds of objects point to
which, that a freed object points nowhere and that what a chain points to belongs to it
(`ObjectsInv`), that the object of an owning value belongs to no other and is there unless
it is a bitmap (`ValuesInv`), that what belongs to no other object has one owner unless it
was abandoned (`OwnersInv`), that the value of a context borrows its model's and holds its
samplers' (`HeldInv`), that the value of a decoder holds those of its contexts but for the
ones taken out of it (`DecoderInv`), and that a bitmap that was not cloned has no second
value and lives as long as its own (`BitmapInv`). There is a lemma for each way to change
the heap: `AddStep` for one new object, `PairStep` and `GrowStep` for several,
`RevaluesStep` for values that change hands, `FallingStep` for an object that dies with
its parts.

Every invariant and action property of the passing runs is proved. Only model-checked are
liveness (`EventuallyFlushed`, `EveryCallReturns`), which is out of the provers' reach, and
that the MC modules which run components side by side compose them: the theorems are about
the specification of each component.

## 5. Not modelled, and the plan

What could come next: from the measure of `CallsComeToAnEnd` to `EveryCallReturns` itself,
should the provers learn to reason about fairness; and the accessors below, should they
get state of their own.

Left out:

* of `model.rs`, the accessors of numbers and special tokens, which read native fields;
* of `mtmd.rs`, the parameters and accessors, and how text and media are divided into
  chunks, which is llama.cpp's;
* `get_logits`, whose documentation says two things of a batch with several outputs;
* the rest of the build script, which drives cmake and bindgen by files and processes
  without a protocol of its own;
* the gguf reader and timing (read-only accessors) and the examples;
* the wording of log messages and the splitting of a module prefix.
