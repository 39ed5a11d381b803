--------------------------- MODULE ContextParams ---------------------------
(***************************************************************************)
(* LlamaContextParams (context/params.rs, context/params/get_set.rs): a C  *)
(* struct behind setters and getters that convert between its numbers and  *)
(* Rust's enums and options; with it the fields of LlamaModelParams        *)
(* (model/params.rs) that are of that kind.                                *)
(***************************************************************************)
EXTENDS Integers

CONSTANTS
  MaxNumber,    \* bound: the numbers that fields are set to
  MaxSettings   \* bound: setters called on one value

ASSUME ParamsAssumption == MaxNumber \in Nat \ {0} /\ MaxSettings \in Nat

Numbers == 0 .. MaxNumber

\* A variant of an enum; Unknown carries the code.
Variant(name) == [name |-> name, raw |-> 0]
Unknown(code) == [name |-> "Unknown", raw |-> code]

\* The codes of llama.h and ggml.h.
ROPE_SCALING == [Unspecified |-> -1, None |-> 0, Linear |-> 1, Yarn |-> 2]
POOLING == [Unspecified |-> -1, None |-> 0, Mean |-> 1, Cls |-> 2, Last |-> 3, Rank |-> 4]
ATTENTION == [Unspecified |-> -1, Causal |-> 0, NonCausal |-> 1]
CONTEXT_TYPE == [Default |-> 0, Mtp |-> 1]
SPLIT_MODE == [None |-> 0, Layer |-> 1, Row |-> 2, Tensor |-> 3]
GGML_TYPE ==
  [F32 |-> 0, F16 |-> 1, Q4_0 |-> 2, Q4_1 |-> 3, Q5_0 |-> 6, Q5_1 |-> 7, Q8_0 |-> 8,
   Q8_1 |-> 9, Q2_K |-> 10, Q3_K |-> 11, Q4_K |-> 12, Q5_K |-> 13, Q6_K |-> 14,
   Q8_K |-> 15, IQ2_XXS |-> 16, IQ2_XS |-> 17, IQ3_XXS |-> 18, IQ1_S |-> 19,
   IQ4_NL |-> 20, IQ3_S |-> 21, IQ2_S |-> 22, IQ4_XS |-> 23, I8 |-> 24, I16 |-> 25,
   I32 |-> 26, I64 |-> 27, F64 |-> 28, IQ1_M |-> 29, BF16 |-> 30, TQ1_0 |-> 34,
   TQ2_0 |-> 35, MXFP4 |-> 39]

\* A code that no variant stands for.
NewCode == 100

-----------------------------------------------------------------------------
(* Conversions *)

HasCode(codes, code) == \E name \in DOMAIN codes : codes[name] = code
Named(codes, code) == Variant(CHOOSE name \in DOMAIN codes : codes[name] = code)

\* From<i32> for RopeScalingType, LlamaPoolingType and LlamaAttentionType.
or_unspecified(codes, code) ==
  IF HasCode(codes, code) THEN Named(codes, code) ELSE Variant("Unspecified")

\* From<llama_context_type> for LlamaContextType, From<ggml_type> for KvCacheType.
or_unknown(codes, code) ==
  IF HasCode(codes, code) THEN Named(codes, code) ELSE Unknown(code)

\* TryFrom<i32> and TryFrom<u32> for LlamaSplitMode: i32::MAX stands for more.
or_error(codes, code) ==
  IF HasCode(codes, code) THEN Named(codes, code) ELSE [name |-> "Err", raw |-> code]

\* Faulty variant: a code without a variant is lost.
into_known_code(codes, v) ==
  IF v.name = "Unknown" THEN 0 ELSE codes[v.name]

\* The way back; Unknown is passed on as it is.
into_code(codes, v) ==
  IF v.name = "Unknown" THEN v.raw ELSE codes[v.name]

\* NonZeroU32::get and new: 0 is none.
option_number(o) == IF o = <<>> THEN 0 ELSE o[1]
number_option(n) == IF n = 0 THEN <<>> ELSE <<n>>

(***************************************************************************)
(* The fields: how a setter stores its argument in the C struct and how    *)
(* the getter reads it back.                                               *)
(***************************************************************************)
Field(values, into(_), from(_)) ==
  [values |-> values, into |-> [v \in values |-> into(v)],
   from |-> [c \in {into(v) : v \in values} |-> from(c)]]

\* A number or a flag that is passed as it is.
Plain(values) == Field(values, LAMBDA v : v, LAMBDA c : c)

\* An enum, by what becomes of a code that it does not have.
Coded(codes) ==
  Field({Variant(name) : name \in DOMAIN codes},
        LAMBDA v : into_code(codes, v), LAMBDA c : or_unspecified(codes, c))

Open(codes) ==
  Field({Variant(name) : name \in DOMAIN codes}
          \cup {Unknown(code) : code \in {codes[name] : name \in DOMAIN codes} \cup {NewCode}},
        LAMBDA v : into_code(codes, v), LAMBDA c : or_unknown(codes, c))

Strict(codes) ==
  Field({Variant(name) : name \in DOMAIN codes},
        LAMBDA v : into_code(codes, v), LAMBDA c : or_error(codes, c))

\* Option<NonZeroU32>
Optional(numbers) ==
  Field({<<>>} \cup {<<n>> : n \in numbers}, option_number, number_option)

SizeFields == {"n_batch", "n_ubatch", "n_seq_max", "n_rs_seq"}
ThreadFields == {"n_threads", "n_threads_batch"}
RopeFields == {"rope_freq_base", "rope_freq_scale", "yarn_ext_factor", "yarn_attn_factor"}
CacheFields == {"yarn_beta_fast", "yarn_beta_slow", "yarn_orig_ctx", "defrag_thold"}
SwitchFields ==
  {"embeddings", "offload_kqv", "no_perf", "op_offload", "swa_full", "kv_unified"}
EnumFields ==
  {"ctx_type", "rope_scaling_type", "pooling_type", "attention_type", "type_k", "type_v"}
ModelFields == {"main_gpu", "vocab_only", "split_mode"}

NumberFields == SizeFields \cup ThreadFields \cup RopeFields \cup CacheFields \cup {"main_gpu"}

Fields ==
  [f \in NumberFields \cup SwitchFields \cup EnumFields \cup ModelFields
         \cup {"n_ctx", "flash_attn_type"} |->
     CASE f \in NumberFields -> Plain(Numbers)
       [] f \in SwitchFields \cup {"vocab_only"} -> Plain(BOOLEAN)
       [] f = "n_ctx" -> Optional(1 .. MaxNumber)
       [] f = "flash_attn_type" -> Plain(-1 .. 1)
       [] f = "ctx_type" -> Open(CONTEXT_TYPE)
       [] f \in {"type_k", "type_v"} -> Open(GGML_TYPE)
       [] f = "rope_scaling_type" -> Coded(ROPE_SCALING)
       [] f = "pooling_type" -> Coded(POOLING)
       [] f = "attention_type" -> Coded(ATTENTION)
       [] f = "split_mode" -> Strict(SPLIT_MODE)]

-----------------------------------------------------------------------------
(***************************************************************************)
(* context_params  the C structs                                           *)
(* asked           history: what each field was last set to                *)
(***************************************************************************)
VARIABLES context_params, asked, settings

paramsVars == <<context_params, asked, settings>>

\* default: llama_context_default_params.
ParamsInit ==
  /\ context_params = [f \in DOMAIN Fields |->
                        Fields[f].into[CHOOSE v \in Fields[f].values : TRUE]]
  /\ asked = [f \in DOMAIN Fields |-> Fields[f].from[context_params[f]]]
  /\ settings = 0

with(f, v) == [context_params EXCEPT ![f] = Fields[f].into[v]]

With(f, v) ==
  /\ settings < MaxSettings
  /\ context_params' = with(f, v)
  /\ asked' = [asked EXCEPT ![f] = v]
  /\ settings' = settings + 1

\* fit_params: llama.cpp chooses n_ctx if it is 0.
Fit(n) ==
  /\ settings < MaxSettings /\ context_params.n_ctx = 0
  /\ context_params' = [context_params EXCEPT !.n_ctx = n]
  /\ asked' = [asked EXCEPT !.n_ctx = <<n>>]
  /\ settings' = settings + 1

get(f) == Fields[f].from[context_params[f]]

ParamsNext ==
  \/ \E f \in DOMAIN Fields : \E v \in Fields[f].values : With(f, v)
  \/ \E n \in 1 .. MaxNumber : Fit(n)

ParamsSpec == ParamsInit /\ [][ParamsNext]_paramsVars

-----------------------------------------------------------------------------
(* Properties *)

\* After any calls of the setters, and the choice of fit_params, each getter
\* returns what its field was last set to, and what it returns stands for the
\* code that llama.cpp is given.  Only an Unknown that carries the code of a
\* variant comes back as that variant; a code of a newer llama.cpp survives
\* ("This variant preserves API compatibility", context/params.rs).
GettersReport ==
  \A f \in DOMAIN Fields :
    /\ \/ get(f) = asked[f]
       \/ /\ asked[f].name = "Unknown" /\ context_params[f] = asked[f].raw
          /\ get(f).name # "Unknown"
    /\ Fields[f].into[get(f)] = context_params[f]
=============================================================================
