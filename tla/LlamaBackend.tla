---------------------------- MODULE LlamaBackend ----------------------------
(***************************************************************************)
(* The process-wide state behind LlamaBackend                              *)
(* (llama-cpp-2/src/llama_backend.rs): the flag                            *)
(* LLAMA_BACKEND_INITIALIZED, the native backend it stands for, and the    *)
(* native log callbacks that void_logs and send_logs_to_tracing (lib.rs)   *)
(* install.  Threads call init, init_numa, void_logs and                   *)
(* send_logs_to_tracing and drop their backend concurrently; a step is one *)
(* atomic access or one native call.                                       *)
(***************************************************************************)
EXTENDS Integers, FiniteSets

CONSTANTS
  Threads,  \* threads of the program
  Inits     \* constructors it uses: a subset of {"init", "init_numa"}

ASSUME InitsAssumption == Inits \subseteq {"init", "init_numa"}

VARIABLES
  initialized,  \* LLAMA_BACKEND_INITIALIZED
  native,       \* the native backend: "none", "ready" or "freed"
  pc,           \* where each thread is; "held": it owns a LlamaBackend
  logging,      \* a thread is in send_logs_to_tracing, between its two native calls
  states,       \* LLAMA_STATE and GGML_STATE: "unset", or the options that set them
  llama_log,    \* where llama.cpp logs
  ggml_log,     \* where ggml logs
  unreachable,  \* drop met the cleared flag: unreachable!()
  refused       \* the last constructor call returned BackendAlreadyInitialized

vars == <<initialized, native, pc, logging, states, llama_log, ggml_log, unreachable,
          refused>>
backend_vars == <<initialized, native, pc, unreachable, refused>>
log_vars     == <<logging, states, llama_log, ggml_log>>

Init ==
  /\ initialized = FALSE
  /\ native = "none"
  /\ pc = [t \in Threads |-> "out"]
  /\ logging = [t \in Threads |-> FALSE]
  /\ states = "unset"
  /\ llama_log = "stderr"
  /\ ggml_log = "stderr"
  /\ unreachable = FALSE
  /\ refused = FALSE

Goto(t, label) == pc' = [pc EXCEPT ![t] = label]

----------------------------------------------------------------------------
\* Faulty variant of mark_init: a store instead of the exchange.
MarkInitStores(t, init) ==
  /\ pc[t] = "out"
  /\ ~logging[t]
  /\ refused' = FALSE
  /\ initialized' = TRUE
  /\ Goto(t, init)
  /\ UNCHANGED <<native, unreachable, log_vars>>

\* mark_init: compare_exchange(false, true)
MarkInit(t, init) ==
  /\ pc[t] = "out"
  /\ ~logging[t]
  /\ refused' = initialized
  /\ initialized' = TRUE
  /\ IF initialized THEN UNCHANGED pc ELSE Goto(t, init)
  /\ UNCHANGED <<native, unreachable, log_vars>>

\* The rest of init: llama_backend_init
BackendInit(t) ==
  /\ pc[t] = "init"
  /\ native' = "ready"
  /\ Goto(t, "held")
  /\ UNCHANGED <<initialized, unreachable, refused, log_vars>>

\* The rest of init_numa: llama_numa_init, and nothing else
NumaInit(t) ==
  /\ pc[t] = "init_numa"
  /\ Goto(t, "held")
  /\ UNCHANGED <<initialized, native, unreachable, refused, log_vars>>

\* drop: compare_exchange(true, false)
DropMark(t) ==
  /\ pc[t] = "held"
  /\ ~logging[t]
  /\ unreachable' = ~initialized
  /\ initialized' = FALSE
  /\ Goto(t, IF initialized THEN "free" ELSE "out")
  /\ UNCHANGED <<native, refused, log_vars>>

\* Faulty variant of drop: the flag is cleared once more after the free.
BackendFreeClears(t) ==
  /\ pc[t] = "free"
  /\ native' = "freed"
  /\ initialized' = FALSE
  /\ Goto(t, "out")
  /\ UNCHANGED <<unreachable, refused, log_vars>>

\* The rest of drop: llama_backend_free
BackendFree(t) ==
  /\ pc[t] = "free"
  /\ native' = "freed"
  /\ Goto(t, "out")
  /\ UNCHANGED <<initialized, unreachable, refused, log_vars>>

\* llama_log_set (external) installs the callback for ggml as well.
LlamaLogSet(sink) == llama_log' = sink /\ ggml_log' = sink

\* void_logs needs the backend: &mut self
VoidLogs(t) ==
  /\ pc[t] = "held"
  /\ ~logging[t]
  /\ LlamaLogSet("void")
  /\ UNCHANGED <<backend_vars, logging, states>>

\* send_logs_to_tracing up to llama_log_set: only the first options are kept
SendLogsLlama(t, options) ==
  /\ pc[t] \in {"out", "held"}
  /\ ~logging[t]
  /\ states' = IF states = "unset" THEN options ELSE states
  /\ LlamaLogSet("LLAMA_STATE")
  /\ logging' = [logging EXCEPT ![t] = TRUE]
  /\ UNCHANGED backend_vars

\* Faulty variant: ggml keeps what llama_log_set gave it.
SendLogsGgmlNot(t) ==
  /\ logging[t]
  /\ logging' = [logging EXCEPT ![t] = FALSE]
  /\ UNCHANGED <<backend_vars, states, llama_log, ggml_log>>

\* its last call, ggml_log_set
SendLogsGgml(t) ==
  /\ logging[t]
  /\ ggml_log' = "GGML_STATE"
  /\ logging' = [logging EXCEPT ![t] = FALSE]
  /\ UNCHANGED <<backend_vars, states, llama_log>>

Next ==
  \E t \in Threads :
    \/ \E init \in Inits : MarkInit(t, init)
    \/ BackendInit(t)
    \/ NumaInit(t)
    \/ DropMark(t)
    \/ BackendFree(t)
    \/ VoidLogs(t)
    \/ \E options \in {"enabled", "disabled"} : SendLogsLlama(t, options)
    \/ SendLogsGgml(t)

Spec == Init /\ [][Next]_vars

----------------------------------------------------------------------------
(* Properties *)

Sinks == {"stderr", "void", "LLAMA_STATE", "GGML_STATE"}

\* The flag, the native backend and the log sinks have their types.
TypeOK ==
  /\ initialized \in BOOLEAN
  /\ native \in {"none", "ready", "freed"}
  /\ pc \in [Threads -> {"out", "init", "init_numa", "held", "free"}]
  /\ logging \in [Threads -> BOOLEAN]
  /\ states \in {"unset", "enabled", "disabled"}
  /\ llama_log \in Sinks
  /\ ggml_log \in Sinks
  /\ unreachable \in BOOLEAN
  /\ refused \in BOOLEAN

\* A LlamaBackend exists or is being made by the thread.
Owns(t) == pc[t] \in {"init", "init_numa", "held"}
Quiet == \A t \in Threads : pc[t] \in {"out", "held"} /\ ~logging[t]

\* "the llama backend can only be initialized once": whatever the threads do, two
\* LlamaBackend values never exist at the same time, and none is refused while
\* none exists ("can be initialized again after being dropped").
OneBackend ==
  /\ \A t, u \in Threads : Owns(t) /\ Owns(u) => t = u
  /\ initialized <=> \E t \in Threads : Owns(t)

\* "This should not be reachable": drop always finds the flag set.
DropFindsFlag == ~unreachable

\* "can't possibly interfere with each other": once every call of
\* send_logs_to_tracing has returned, ggml never logs into the state of llama.cpp,
\* and llama.cpp never into the one of ggml, however the calls interleave.
SeparateLogStates ==
  /\ llama_log # "GGML_STATE"
  /\ (\A t \in Threads : ~logging[t]) => ggml_log # "LLAMA_STATE"
  /\ {llama_log, ggml_log} \cap {"LLAMA_STATE", "GGML_STATE"} # {} => states # "unset"

\* "This type is proof of initialization": who owns a LlamaBackend may call llama
\* functions, because the native backend is initialized.
ProofOfInitialization == (\E t \in Threads : pc[t] = "held") => native = "ready"
=============================================================================
