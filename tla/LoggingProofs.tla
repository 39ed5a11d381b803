--------------------------- MODULE LoggingProofs ---------------------------
(***************************************************************************)
(* The backend, for any set of threads: at most one LlamaBackend exists,   *)
(* drop never meets the cleared flag, and the two log states stay apart.   *)
(*                                                                         *)
(* The bridge, for any set of threads, any levels and any number of calls: *)
(* no accepted text is lost or repeated, an event is one message, and what *)
(* one thread logs arrives in its order.                                   *)
(***************************************************************************)
EXTENDS LlamaBackend, LogBridge, FiniteSetTheorems, TLAPS

-----------------------------------------------------------------------------
(* The backend                                                             *)

\* A thread between its two native calls has set the states.
StatesInv == SeparateLogStates /\ \A t \in Threads : logging[t] => states # "unset"

\* With it the three properties are inductive: drop finds the flag set because the
\* flag is set exactly while a thread owns a backend.
IInv == TypeOK /\ OneBackend /\ DropFindsFlag /\ StatesInv

\* Before any call nothing is initialized and everything logs to stderr.
LEMMA InitIInv == Init => IInv
  BY DEF Init, IInv, TypeOK, OneBackend, Owns, DropFindsFlag, StatesInv, SeparateLogStates, Sinks

\* Steps that make or drop a backend do not touch the log callbacks.
LEMMA BackendSteps ==
  ASSUME IInv, NEW t \in Threads,
         \/ \E init \in Inits : MarkInit(t, init)
         \/ BackendInit(t)
         \/ NumaInit(t)
         \/ DropMark(t)
         \/ BackendFree(t)
  PROVE  IInv'
<1>0. TypeOK /\ OneBackend /\ DropFindsFlag /\ StatesInv
  BY DEF IInv
<1>1. ASSUME NEW init \in Inits, MarkInit(t, init) PROVE IInv'
  <2>1. TypeOK'
    BY <1>0, <1>1, InitsAssumption DEF TypeOK, MarkInit, Goto, log_vars
  <2>2. OneBackend'
    <3>1. CASE initialized
      BY <1>0, <1>1, <3>1 DEF TypeOK, OneBackend, Owns, MarkInit
    <3>2. CASE ~initialized
      <4>1. \A u \in Threads : ~Owns(u)
        BY <1>0, <3>2 DEF OneBackend
      <4>2. init \in {"init", "init_numa"}
        BY InitsAssumption
      <4>3. pc' = [pc EXCEPT ![t] = init] /\ initialized'
        BY <1>1, <3>2 DEF MarkInit, Goto
      <4> QED
        BY <1>0, <4>1, <4>2, <4>3 DEF TypeOK, OneBackend, Owns
    <3> QED  BY <3>1, <3>2
  <2>3. (DropFindsFlag /\ StatesInv)'
    BY <1>0, <1>1 DEF DropFindsFlag, StatesInv, SeparateLogStates, MarkInit, log_vars
  <2> QED  BY <2>1, <2>2, <2>3 DEF IInv
<1>2. ASSUME BackendInit(t) \/ NumaInit(t) PROVE IInv'
  <2>1. /\ pc[t] \in {"init", "init_numa"}
        /\ pc' = [pc EXCEPT ![t] = "held"]
        /\ native' \in {native, "ready"}
        /\ UNCHANGED <<initialized, unreachable, refused, log_vars>>
    BY <1>2 DEF BackendInit, NumaInit, Goto
  <2>2. (TypeOK /\ DropFindsFlag /\ StatesInv)'
    BY <1>0, <2>1 DEF TypeOK, DropFindsFlag, StatesInv, SeparateLogStates, log_vars
  <2>3. \A u \in Threads : Owns(u)' <=> Owns(u)
    BY <1>0, <2>1 DEF TypeOK, Owns
  <2>4. OneBackend'
    BY <1>0, <2>1, <2>3 DEF OneBackend
  <2> QED  BY <2>2, <2>4 DEF IInv
<1>3. ASSUME DropMark(t) PROVE IInv'
  <2>1. Owns(t) /\ initialized
    BY <1>0, <1>3 DEF DropMark, Owns, OneBackend
  <2>2. /\ pc' = [pc EXCEPT ![t] = "free"]
        /\ initialized' = FALSE
        /\ unreachable' = FALSE
        /\ UNCHANGED <<native, refused, log_vars>>
    BY <1>3, <2>1 DEF DropMark, Goto
  <2>3. (TypeOK /\ DropFindsFlag /\ StatesInv)'
    BY <1>0, <2>2 DEF TypeOK, DropFindsFlag, StatesInv, SeparateLogStates, log_vars
  <2>4. \A u \in Threads : ~Owns(u)'
    BY <1>0, <2>1, <2>2 DEF TypeOK, OneBackend, Owns
  <2>5. OneBackend'
    BY <2>2, <2>4 DEF OneBackend
  <2> QED  BY <2>3, <2>5 DEF IInv
<1>4. ASSUME BackendFree(t) PROVE IInv'
  <2>1. /\ pc[t] = "free"
        /\ pc' = [pc EXCEPT ![t] = "out"]
        /\ native' = "freed"
        /\ UNCHANGED <<initialized, unreachable, refused, log_vars>>
    BY <1>4 DEF BackendFree, Goto
  <2>2. (TypeOK /\ DropFindsFlag /\ StatesInv)'
    BY <1>0, <2>1 DEF TypeOK, DropFindsFlag, StatesInv, SeparateLogStates, log_vars
  <2>3. \A u \in Threads : Owns(u)' <=> Owns(u)
    BY <1>0, <2>1 DEF TypeOK, Owns
  <2>4. OneBackend'
    BY <1>0, <2>1, <2>3 DEF OneBackend
  <2> QED  BY <2>2, <2>4 DEF IInv
<1> QED  BY <1>1, <1>2, <1>3, <1>4

\* Steps that install log callbacks do not touch the backend.
LEMMA LogSteps ==
  ASSUME IInv, NEW t \in Threads,
         \/ VoidLogs(t)
         \/ \E options \in {"enabled", "disabled"} : SendLogsLlama(t, options)
         \/ SendLogsGgml(t)
  PROVE  IInv'
<1>0. TypeOK /\ OneBackend /\ DropFindsFlag /\ StatesInv
  BY DEF IInv
<1>1. UNCHANGED backend_vars
  BY DEF VoidLogs, SendLogsLlama, SendLogsGgml
<1>2. (OneBackend /\ DropFindsFlag)'
  BY <1>0, <1>1 DEF OneBackend, DropFindsFlag, Owns, backend_vars
<1>3. ASSUME VoidLogs(t) PROVE (TypeOK /\ StatesInv)'
  BY <1>0, <1>3 DEF VoidLogs, LlamaLogSet, TypeOK, StatesInv, SeparateLogStates, Sinks, backend_vars
<1>4. ASSUME NEW options \in {"enabled", "disabled"}, SendLogsLlama(t, options)
      PROVE  (TypeOK /\ StatesInv)'
  <2>1. logging'[t]
    BY <1>0, <1>4 DEF SendLogsLlama, TypeOK
  <2> QED
    BY <1>0, <1>4, <2>1
       DEF SendLogsLlama, LlamaLogSet, TypeOK, StatesInv, SeparateLogStates, Sinks, backend_vars
<1>5. ASSUME SendLogsGgml(t) PROVE (TypeOK /\ StatesInv)'
  <2>1. states # "unset"
    BY <1>0, <1>5 DEF SendLogsGgml, StatesInv, SeparateLogStates, TypeOK, Sinks
  <2> QED
    BY <1>0, <1>5, <2>1 DEF SendLogsGgml, TypeOK, StatesInv, SeparateLogStates, Sinks, backend_vars
<1> QED  BY <1>2, <1>3, <1>4, <1>5 DEF IInv

\* The inductive invariant of the backend and its log callbacks.
THEOREM BackendInvariant == Spec => []IInv
<1>1. IInv /\ [Next]_vars => IInv'
  <2> SUFFICES ASSUME IInv, [Next]_vars PROVE IInv'
    OBVIOUS
  <2>1. CASE Next
    BY <2>1, BackendSteps, LogSteps DEF Next
  <2>2. CASE UNCHANGED vars
    BY <2>2 DEF IInv, TypeOK, OneBackend, Owns, DropFindsFlag, StatesInv, SeparateLogStates, vars
  <2> QED  BY <2>1, <2>2
<1> QED  BY InitIInv, <1>1, PTL DEF Spec

\* mark_init and drop: at any time at most one LlamaBackend exists, and the flag is
\* set exactly while one does.
THEOREM OneBackendHolds == Spec => []OneBackend
  BY BackendInvariant, PTL DEF IInv

\* drop's unreachable!() is not reached.
THEOREM DropNeverPanics == Spec => []DropFindsFlag
  BY BackendInvariant, PTL DEF IInv

\* send_logs_to_tracing keeps the log states of llama.cpp and ggml apart.
THEOREM LogStatesApart == Spec => []SeparateLogStates
  BY BackendInvariant, PTL DEF IInv, StatesInv


-----------------------------------------------------------------------------
(* The bridge: calls and texts                                             *)

\* What a step leaves of the calls there are.
KeptCalls ==
  /\ Len(calls) \in Nat /\ Len(calls') \in Nat /\ Len(calls) <= Len(calls')
  /\ \A i \in 1..Len(calls) :
       /\ calls'[i].level = calls[i].level /\ calls'[i].newline = calls[i].newline
       /\ calls'[i].state = "dropped" <=> calls[i].state = "dropped"

LEMMA TextFacts ==
  ASSUME NEW text \in Text
  PROVE  /\ text.parts \in Seq(Nat) /\ Len(text.parts) \in Nat /\ text.level \in MetaLevels \cup {"NONE"}
         /\ \A m \in 1..Len(text.parts) : text.parts[m] \in Nat /\ text.parts[m] \in PartsOf(text)
         /\ \A c \in PartsOf(text) : \E m \in 1..Len(text.parts) : c = text.parts[m]
         /\ text.parts # <<>> =>
              /\ 1 \in 1..Len(text.parts) /\ Len(text.parts) \in 1..Len(text.parts)
              /\ text.parts[1] \in PartsOf(text) /\ LastPart(text) \in PartsOf(text)
BY DEF Text, PartsOf, LastPart

LEMMA NoTextFacts == NoText \in Text /\ PartsOf(NoText) = {} /\ NoText.parts = <<>>
BY DEF NoText, Text, PartsOf

\* A text of one part, and a text with a part more.
LEMMA FirstPart ==
  ASSUME NEW text, NEW c \in Nat, NEW l \in MetaLevels \cup {"NONE"},
         text = [level |-> l, parts |-> <<c>>]
  PROVE  /\ text \in Text /\ text # NoText /\ PartsOf(text) = {c} /\ Len(text.parts) = 1
         /\ text.parts[1] = c /\ text.level = l /\ text.parts # <<>> /\ LastPart(text) = c
<1>1. text.parts = <<c>> /\ text.level = l /\ NoText.parts = <<>>
  BY DEF NoText
<1>2. text # NoText
  BY <1>1
<1>3. PartsOf(text) = {c}
  BY <1>1 DEF PartsOf
<1>. QED BY <1>1, <1>2, <1>3 DEF Text, LastPart

Pushes(text, old, c) == text = [old EXCEPT !.parts = Append(@, c)]

LEMMA NextPart ==
  ASSUME NEW old \in Text, NEW c \in Nat, NEW text, Pushes(text, old, c)
  PROVE  /\ text \in Text /\ text # NoText /\ PartsOf(text) = PartsOf(old) \cup {c}
         /\ Len(text.parts) = Len(old.parts) + 1 /\ text.parts # <<>>
         /\ \A m \in 1..Len(old.parts) : text.parts[m] = old.parts[m]
         /\ text.parts[Len(old.parts) + 1] = c /\ text.level = old.level /\ LastPart(text) = c
<1>1. /\ text.parts = Append(old.parts, c) /\ text.level = old.level /\ text \in Text
      /\ old.parts \in Seq(Nat) /\ NoText.parts = <<>>
  <2>1. old.parts \in Seq(Nat) /\ NoText.parts = <<>>
    BY DEF Text, NoText
  <2>. PICK q : q = Append(old.parts, c)
    OBVIOUS
  <2>2. q \in Seq(Nat)
    BY <2>1
  <2>3. text = [old EXCEPT !.parts = q]
    BY DEF Pushes
  <2>. QED BY <2>1, <2>2, <2>3 DEF Text
<1>2. /\ Len(text.parts) = Len(old.parts) + 1
      /\ \A m \in 1..Len(old.parts) : text.parts[m] = old.parts[m]
      /\ text.parts[Len(old.parts) + 1] = c /\ text.parts # <<>>
  <2>. PICK p : p = text.parts
    OBVIOUS
  <2>. PICK r : r = old.parts
    OBVIOUS
  <2>1. p = Append(r, c) /\ r \in Seq(Nat)
    BY <1>1
  <2>2. /\ Len(p) = Len(r) + 1 /\ p[Len(r) + 1] = c
        /\ \A m \in 1..Len(r) : p[m] = r[m]
    BY <2>1
  <2>3. p # <<>>
    BY <2>1
  <2>. QED BY <2>2, <2>3
<1>3. text # NoText
  BY <1>1, <1>2
<1>4. PartsOf(text) = PartsOf(old) \cup {c}
  BY <1>1, <1>2 DEF PartsOf
<1>. QED BY <1>1, <1>2, <1>3, <1>4 DEF LastPart

\* A text stays well made when calls go on.
LEMMA WellMadeKept ==
  ASSUME KeptCalls, NEW text \in Text, text.parts # <<>>, PartsOf(text) \subseteq 1..Len(calls)
  PROVE  /\ WellMade(text) => WellMade(text)'
         /\ StartsMessage(text)' <=> StartsMessage(text)
<1>1. /\ Len(text.parts) \in Nat /\ 1 \in 1..Len(text.parts)
      /\ \A m \in 1..Len(text.parts) : text.parts[m] \in 1..Len(calls)
  BY TextFacts
<1>2. \A m \in 1..Len(text.parts) :
        /\ calls'[text.parts[m]].level = calls[text.parts[m]].level
        /\ calls'[text.parts[m]].newline = calls[text.parts[m]].newline
  BY <1>1 DEF KeptCalls
<1>3. StartsMessage(text)' <=> StartsMessage(text)
  BY <1>1, <1>2 DEF StartsMessage
<1>4. ASSUME WellMade(text) PROVE WellMade(text)'
  <2>1. PartsOf(text) \subseteq 1..Len(calls')
    BY DEF KeptCalls
  <2>2. \A m \in 2..Len(text.parts) : calls'[text.parts[m]].level = "CONT"
    BY <1>1, <1>2, <1>4 DEF WellMade
  <2>3. calls'[text.parts[1]].level \in {"CONT", text.level}
    BY <1>1, <1>2, <1>4 DEF WellMade
  <2>4. StartsMessage(text)' =>
          \A m \in 1..(Len(text.parts) - 1) : ~calls'[text.parts[m]].newline
    BY <1>1, <1>2, <1>3, <1>4 DEF WellMade
  <2>. QED BY <1>4, <2>1, <2>2, <2>3, <2>4 DEF WellMade
<1>. QED BY <1>3, <1>4

\* generate_log of a text.
LEMMA EmitFacts ==
  ASSUME events \in Seq(Text), NEW text \in Text, events' = emit(text)
  PROVE  /\ events' \in Seq(Text) /\ Emitted' = Emitted \cup PartsOf(text)
         /\ Len(events') \in Nat /\ Len(events) <= Len(events')
         /\ \A k \in 1..Len(events) : events'[k] = events[k] /\ PartsOf(events[k]) \subseteq Emitted
         /\ \A k \in 1..Len(events') : k \notin 1..Len(events) => 
              text # NoText /\ k = Len(events) + 1 /\ events'[k] = text
<1>1. CASE text = NoText
  BY <1>1, NoTextFacts DEF emit, Emitted
<1>2. CASE text # NoText
  <2>1. events' = Append(events, text)
    BY <1>2 DEF emit
  <2>2. /\ events' \in Seq(Text) /\ Len(events') = Len(events) + 1 /\ Len(events) \in Nat
        /\ \A k \in 1..Len(events) : events'[k] = events[k]
        /\ events'[Len(events) + 1] = text
    BY <2>1
  <2>3. Emitted' = Emitted \cup PartsOf(text)
    <3>1. 1..Len(events') = (1..Len(events)) \cup {Len(events) + 1}
      BY <2>2
    <3>2. Emitted' = UNION {PartsOf(events'[k]) : k \in 1..Len(events')}
      BY DEF Emitted
    <3>. QED BY <3>1, <3>2, <2>2 DEF Emitted
  <2>. QED BY <1>2, <2>2, <2>3 DEF Emitted
<1>. QED BY <1>1, <1>2


-----------------------------------------------------------------------------
(* The bridge: threads                                                     *)

LEMMA Serving ==
  ASSUME LogTypeOK, CallsInv, NEW t \in Callers, at[t] # "out"
  PROVE  /\ call[t] \in 1..Len(calls) /\ call[t] \in Nat /\ Len(calls) \in Nat
         /\ calls[call[t]] \in Call /\ calls[call[t]].state = "running"
         /\ at[t] = "cont_buffered_log" => level(t) = "CONT"
         /\ at[t] # "cont_buffered_log" => level(t) \in Enabled /\ level(t) \in MetaLevels
         /\ at[t] = "buffer_non_cont" => ~newline(t)
<1>1. call[t] \in 0..Len(calls) /\ call[t] # 0 /\ Len(calls) \in Nat
  BY DEF LogTypeOK, CallsInv
<1>2. call[t] \in 1..Len(calls)
  BY <1>1
<1>3. calls[call[t]] \in Call
  BY <1>2 DEF LogTypeOK
<1>. QED BY <1>1, <1>2, <1>3, LevelsAssumption DEF CallsInv, LevelsAssumption

\* A step of the thread t that serves a call, as far as the calls see it: the call
\* ends with the step, or goes on.
Ends(t) == /\ GoOn(t, "out")
           /\ calls' = [calls EXCEPT ![call[t]].state = "accepted"]
GoesOn(t, l) ==
  /\ GoOn(t, l) /\ calls' = calls
  /\ l \in PCs \ {"out", "cont_buffered_log", "buffer_non_cont"}
  /\ at[t] # "cont_buffered_log"

LEMMA StepCalls ==
  ASSUME LogTypeOK, CallsInv, NEW t \in Callers, at[t] # "out", call' = call,
         Ends(t) \/ \E l \in PCs : GoesOn(t, l)
  PROVE  /\ CallsInv' /\ KeptCalls /\ Dropped' = Dropped /\ Len(calls') = Len(calls)
         /\ at' \in [Callers -> PCs] /\ calls' \in Seq(Call) /\ call' \in [Callers -> 0..Len(calls')]
         /\ \A u \in Callers \ {t} : at'[u] = at[u]
<1>1. /\ at \in [Callers -> PCs] /\ call \in [Callers -> 0..Len(calls)] /\ calls \in Seq(Call)
      /\ call[t] \in 1..Len(calls) /\ Len(calls) \in Nat /\ calls[call[t]] \in Call
      /\ calls[call[t]].state = "running"
  BY Serving DEF LogTypeOK
<1>2. CASE Ends(t)
  <2>. PICK c : c = call[t]
    OBVIOUS
  <2>. PICK r : r = [calls[c] EXCEPT !.state = "accepted"]
    OBVIOUS
  <2>1. /\ r \in Call /\ r.level = calls[c].level /\ r.newline = calls[c].newline
        /\ r.state = "accepted"
    BY <1>1 DEF Call
  <2>2. calls' = [calls EXCEPT ![c] = r] /\ c \in 1..Len(calls)
    BY <1>1, <1>2 DEF Ends
  <2>3. /\ Len(calls') = Len(calls) /\ calls' \in Seq(Call) /\ calls'[c] = r
        /\ \A i \in 1..Len(calls) : i # c => calls'[i] = calls[i]
    <3>1. calls \in Seq(Call) /\ r \in Call
      BY <1>1, <2>1
    <3>. HIDE <1>2, <2>1
    <3>2. Len(calls') = Len(calls) /\ calls'[c] = r
      BY <2>2, <3>1
    <3>3. calls' \in Seq(Call)
      BY <2>2, <3>1
    <3>4. ASSUME NEW i \in 1..Len(calls), i # c PROVE calls'[i] = calls[i]
      BY <2>2, <3>1, <3>4
    <3>. QED BY <3>2, <3>3, <3>4
  <2>4. at' = [at EXCEPT ![t] = "out"]
    BY <1>2 DEF Ends, GoOn
  <2>5. KeptCalls
    BY <1>1, <2>1, <2>2, <2>3 DEF KeptCalls
  <2>6. Dropped' = Dropped
    BY <2>3, <2>5 DEF Dropped, KeptCalls
  <2>7. CallsInv'
    <3>. SUFFICES ASSUME NEW u \in Callers
                  PROVE  /\ at'[u] # "out" =>
                              /\ call[u] # 0 /\ calls'[call[u]].state = "running"
                              /\ IF at'[u] = "cont_buffered_log"
                                 THEN calls'[call[u]].level = "CONT"
                                 ELSE calls'[call[u]].level \in Enabled
                              /\ at'[u] = "buffer_non_cont" => ~calls'[call[u]].newline
                         /\ \A w \in Callers : call[u] # 0 /\ call[u] = call[w] => u = w
      BY DEF CallsInv, level, newline
    <3>1. \A w \in Callers : call[u] # 0 /\ call[u] = call[w] => u = w
      BY DEF CallsInv
    <3>2. ASSUME at'[u] # "out"
          PROVE  /\ call[u] # 0 /\ calls'[call[u]].state = "running"
                 /\ IF at'[u] = "cont_buffered_log"
                    THEN calls'[call[u]].level = "CONT"
                    ELSE calls'[call[u]].level \in Enabled
                 /\ at'[u] = "buffer_non_cont" => ~calls'[call[u]].newline
      <4>1. u # t /\ at'[u] = at[u]
        BY <1>1, <2>4, <3>2
      <4>2. call[u] \in 1..Len(calls) /\ call[u] # c
        BY <1>1, <3>2, <4>1, <3>1, Serving
      <4>3. calls'[call[u]] = calls[call[u]]
        BY <2>3, <4>2
      <4>. QED BY <3>2, <4>1, <4>3 DEF CallsInv, level, newline
    <3>. QED BY <3>1, <3>2
  <2>. QED BY <1>1, <2>3, <2>4, <2>5, <2>6, <2>7 DEF PCs
<1>3. ASSUME NEW l \in PCs, GoesOn(t, l)
      PROVE  /\ CallsInv' /\ KeptCalls /\ Dropped' = Dropped /\ Len(calls') = Len(calls)
             /\ at' \in [Callers -> PCs] /\ calls' \in Seq(Call)
             /\ call' \in [Callers -> 0..Len(calls')]
             /\ \A u \in Callers \ {t} : at'[u] = at[u]
  <2>1. calls' = calls /\ at' = [at EXCEPT ![t] = l]
    BY <1>3 DEF GoesOn, GoOn
  <2>2. KeptCalls /\ Dropped' = Dropped
    BY <1>1, <2>1 DEF KeptCalls, Dropped
  <2>3. CallsInv'
    <3>. SUFFICES ASSUME NEW u \in Callers
                  PROVE  /\ at'[u] # "out" =>
                              /\ call[u] # 0 /\ calls[call[u]].state = "running"
                              /\ IF at'[u] = "cont_buffered_log"
                                 THEN calls[call[u]].level = "CONT"
                                 ELSE calls[call[u]].level \in Enabled
                              /\ at'[u] = "buffer_non_cont" => ~calls[call[u]].newline
                         /\ \A w \in Callers : call[u] # 0 /\ call[u] = call[w] => u = w
      BY <2>1 DEF CallsInv, level, newline
    <3>1. CASE u = t
      BY <1>1, <1>3, <2>1, <3>1 DEF CallsInv, level, newline, GoesOn
    <3>2. CASE u # t
      BY <1>1, <2>1, <3>2 DEF CallsInv, level, newline
    <3>. QED BY <3>1, <3>2
  <2>. QED BY <1>1, <2>1, <2>2, <2>3
<1>. QED BY <1>2, <1>3

\* The texts that threads have in their hands.
LEMMA HandKeeps ==
  ASSUME at \in [Callers -> PCs], NEW t \in Callers, NEW l, GoOn(t, l), call' = call,
         at[t] \in HandPCs <=> l \in HandPCs
  PROVE  InHand' = InHand
<1>1. \A u \in Callers : at'[u] \in HandPCs <=> at[u] \in HandPCs
  BY DEF GoOn
<1>. QED BY <1>1 DEF InHand

LEMMA HandGives ==
  ASSUME LogTypeOK, CallsInv, NEW t \in Callers, NEW l, GoOn(t, l), call' = call,
         at[t] \in HandPCs, l \notin HandPCs
  PROVE  InHand' = InHand \ {call[t]} /\ call[t] \in InHand
<1>1. \A u \in Callers : at'[u] = IF u = t THEN l ELSE at[u]
  BY DEF GoOn, LogTypeOK
<1>2. ASSUME NEW u \in Callers, at[u] \in HandPCs, call[u] = call[t] PROVE u = t
  <2>1. at[u] # "out"
    BY <1>2 DEF HandPCs
  <2>. QED BY <1>2, <2>1 DEF CallsInv
<1>. QED BY <1>1, <1>2 DEF InHand

\* While one thread logs only that one is in the callback.
LEMMA Alone ==
  ASSUME LogTypeOK, CallsInv, OneLogger, NEW t \in Callers, call[t] # 0, NEW u \in Callers, u # t
  PROVE  at[u] = "out" /\ call[u] = 0
BY DEF OneLogger, CallsInv



-----------------------------------------------------------------------------
(* The bridge: texts that move                                             *)

\* A step of t that moves texts: out is logged, and the calls given leave the hands
\* of t for out or for the buffer.
Moves(t, out, given) ==
  /\ out \in Text /\ buffered' \in Text /\ events' = emit(out)
  /\ KeptCalls /\ Dropped' = Dropped /\ Len(calls') = Len(calls)
  /\ given \subseteq InHand /\ given \cap Dropped = {} /\ InHand' = InHand \ given
  /\ PartsOf(out) \cup PartsOf(buffered') = PartsOf(buffered) \cup given
  /\ PartsOf(out) \cap PartsOf(buffered') = {}

\* What is buffered when the step is over.
GoodBuffer ==
  buffered # NoText =>
    /\ WellMade(buffered)
    /\ StartsMessage(buffered) =>
         \A m \in 1..Len(buffered.parts) : ~calls[buffered.parts[m]].newline

LEMMA MovesTexts ==
  ASSUME LogTypeOK, TextsInv, Places, NEW t \in Callers, NEW out, NEW given, Moves(t, out, given),
         out # NoText => WellMade(out)', GoodBuffer'
  PROVE  events' \in Seq(Text) /\ TextsInv' /\ Places'
<1>1. /\ events \in Seq(Text) /\ out \in Text /\ events' = emit(out) /\ KeptCalls
      /\ Dropped' = Dropped /\ Len(calls') = Len(calls)
      /\ given \subseteq InHand /\ given \cap Dropped = {} /\ InHand' = InHand \ given
      /\ PartsOf(out) \cup PartsOf(buffered') = PartsOf(buffered) \cup given
      /\ PartsOf(out) \cap PartsOf(buffered') = {}
  BY DEF Moves, LogTypeOK
<1>2. /\ events' \in Seq(Text) /\ Emitted' = Emitted \cup PartsOf(out)
      /\ \A k \in 1..Len(events) : events'[k] = events[k] /\ PartsOf(events[k]) \subseteq Emitted
      /\ \A k \in 1..Len(events') : k \notin 1..Len(events) =>
           out # NoText /\ k = Len(events) + 1 /\ events'[k] = out
  BY <1>1, EmitFacts
<1>3. TextsInv'
  <2>1. ASSUME NEW k \in 1..Len(events') PROVE WellMade(events[k])'
    <3>1. CASE k \in 1..Len(events)
      <4>1. WellMade(events[k]) /\ events[k] \in Text /\ events'[k] = events[k]
        BY <1>1, <1>2, <3>1 DEF TextsInv
      <4>2. PICK e : e = events[k] /\ e \in Text /\ WellMade(e)
        BY <4>1
      <4>3. WellMade(e)'
        BY <1>1, <4>2, WellMadeKept DEF WellMade
      <4>. QED BY <4>1, <4>2, <4>3 DEF WellMade, PartsOf, StartsMessage
    <3>2. CASE k \notin 1..Len(events)
      BY <1>2, <3>2 DEF WellMade, PartsOf, StartsMessage
    <3>. QED BY <3>1, <3>2
  <2>. QED BY <2>1 DEF TextsInv, GoodBuffer
<1>4. Places'
  <2>1. /\ 1..Len(calls) = InHand \cup PartsOf(buffered) \cup Emitted \cup Dropped
        /\ (InHand \cup Dropped) \cap (PartsOf(buffered) \cup Emitted) = {}
        /\ PartsOf(buffered) \cap Emitted = {}
    BY DEF Places
  <2>2. PartsOf(out) \cap Emitted = {} /\ PartsOf(buffered') \cap Emitted = {}
    BY <1>1, <2>1
  <2>3. /\ 1..Len(calls') = InHand' \cup PartsOf(buffered') \cup Emitted' \cup Dropped'
        /\ (InHand' \cup Dropped') \cap (PartsOf(buffered') \cup Emitted') = {}
        /\ PartsOf(buffered') \cap Emitted' = {}
    <3>. HIDE <1>2
    <3>1. Emitted' = Emitted \cup PartsOf(out)
      BY <1>2
    <3>. QED BY <1>1, <2>1, <2>2, <3>1, Zenon
  <2>4. ASSUME NEW k \in 1..Len(events'), NEW l \in 1..Len(events'), k # l
        PROVE  PartsOf(events'[k]) \cap PartsOf(events'[l]) = {}
    <3>1. CASE k \in 1..Len(events) /\ l \in 1..Len(events)
      BY <1>2, <2>4, <3>1 DEF Places
    <3>2. CASE k \notin 1..Len(events)
      <4>1. l \in 1..Len(events) /\ events'[k] = out
        BY <1>2, <2>4, <3>2
      <4>2. PartsOf(events'[l]) \subseteq Emitted
        BY <1>2, <4>1
      <4>. QED BY <2>2, <4>1, <4>2
    <3>3. CASE l \notin 1..Len(events)
      <4>1. k \in 1..Len(events) /\ events'[l] = out
        BY <1>2, <2>4, <3>3
      <4>2. PartsOf(events'[k]) \subseteq Emitted
        BY <1>2, <4>1
      <4>. QED BY <2>2, <4>1, <4>2
    <3>. QED BY <3>1, <3>2, <3>3
  <2>5. PartsOf(buffered)' = PartsOf(buffered')
    BY DEF PartsOf
  <2>6. ASSUME NEW k \in 1..Len(events') PROVE PartsOf(events[k])' = PartsOf(events'[k])
    BY DEF PartsOf
  <2>. QED BY <2>3, <2>4, <2>5, <2>6 DEF Places
<1>. QED BY <1>2, <1>3, <1>4



-----------------------------------------------------------------------------
(* The bridge: every step keeps texts whole and in one place               *)

\* The invariant without what holds of one logger.
SafeInv == LogTypeOK /\ CallsInv /\ TextsInv /\ Places

\* The shared variables a step of t does not touch, or sets to a value of their type.
Typed(t) ==
  /\ disabled' = disabled /\ call' = call /\ panicked' = panicked
  /\ previous_level' = previous_level \/ previous_level' = level(t)
  /\ is_buffering' \in BOOLEAN

LEMMA StepSafe ==
  ASSUME SafeInv, NEW t \in Callers, at[t] # "out", Typed(t),
         Ends(t) \/ \E l \in PCs : GoesOn(t, l), NEW out, NEW given,
         KeptCalls => Moves(t, out, given),
         out # NoText => WellMade(out)', GoodBuffer',
         at[t] = "cont_buffered_log" => previous_level' = previous_level
  PROVE  SafeInv'
<1>1. LogTypeOK /\ CallsInv /\ TextsInv /\ Places
  BY DEF SafeInv
<1>2. call' = call
  BY DEF Typed
<1>3. /\ CallsInv' /\ KeptCalls /\ at' \in [Callers -> PCs] /\ calls' \in Seq(Call)
      /\ call' \in [Callers -> 0..Len(calls')]
  BY <1>1, <1>2, StepCalls
<1>4. Moves(t, out, given)
  BY <1>3
<1>5. events' \in Seq(Text) /\ TextsInv' /\ Places'
  BY <1>1, <1>4, MovesTexts
<1>6. buffered' \in Text
  BY <1>4 DEF Moves
<1>7. previous_level' \in MetaLevels \cup {"NONE"}
  BY <1>1, Serving DEF Typed, LogTypeOK
<1>8. LogTypeOK'
  BY <1>1, <1>3, <1>5, <1>6, <1>7 DEF Typed, LogTypeOK
<1>. QED BY <1>3, <1>5, <1>8 DEF SafeInv

\* A text that was well made, moved as it is.
Ended(text) ==
  text # NoText /\ StartsMessage(text) =>
    \A m \in 1..Len(text.parts) : ~calls[text.parts[m]].newline

LEMMA TextKept ==
  ASSUME KeptCalls, NEW text \in Text, WellMade(text)
  PROVE  /\ WellMade(text)' /\ (StartsMessage(text)' <=> StartsMessage(text))
         /\ Ended(text) => Ended(text)'
<1>1. WellMade(text)' /\ (StartsMessage(text)' <=> StartsMessage(text))
  BY WellMadeKept DEF WellMade
<1>2. \A m \in 1..Len(text.parts) : text.parts[m] \in 1..Len(calls)
  BY TextFacts DEF WellMade
<1>3. Ended(text) => Ended(text)'
  BY <1>1, <1>2 DEF Ended, KeptCalls
<1>. QED BY <1>1, <1>3

\* A text of the call of t alone.
LEMMA FirstMade ==
  ASSUME KeptCalls, NEW text, NEW c \in 1..Len(calls), NEW l \in MetaLevels \cup {"NONE"},
         text = [level |-> l, parts |-> <<c>>], calls[c].level \in {"CONT", l}
  PROVE  /\ text \in Text /\ PartsOf(text) = {c} /\ WellMade(text)'
         /\ StartsMessage(text)' <=> calls[c].level # "CONT"
         /\ calls[c].level = "CONT" \/ ~calls[c].newline => Ended(text)'
<1>1. /\ text \in Text /\ text # NoText /\ PartsOf(text) = {c} /\ Len(text.parts) = 1
      /\ text.parts[1] = c /\ text.level = l /\ text.parts # <<>> /\ c \in Nat
      /\ Len(calls) \in Nat /\ Len(calls') \in Nat /\ Len(calls) <= Len(calls')
  BY FirstPart DEF KeptCalls
<1>2. Cardinality(PartsOf(text)) = 1
  BY <1>1, FS_Singleton
<1>3. calls'[c].level = calls[c].level /\ calls'[c].newline = calls[c].newline
  BY DEF KeptCalls
<1>4. StartsMessage(text)' <=> calls[c].level # "CONT"
  BY <1>1, <1>3 DEF StartsMessage
<1>5. PartsOf(text) \subseteq 1..Len(calls')
  BY <1>1
<1>6. WellMade(text)'
  BY <1>1, <1>2, <1>3, <1>5 DEF WellMade
<1>7. calls[c].level = "CONT" \/ ~calls[c].newline => Ended(text)'
  BY <1>1, <1>3, <1>4 DEF Ended
<1>. QED BY <1>1, <1>4, <1>6, <1>7

\* A text with the CONT text of a call pushed onto it.
LEMMA NextMade ==
  ASSUME KeptCalls, NEW old \in Text, WellMade(old), Ended(old), old # NoText,
         NEW c \in 1..Len(calls), c \notin PartsOf(old), calls[c].level = "CONT",
         NEW text, Pushes(text, old, c)
  PROVE  /\ text \in Text /\ text # NoText /\ PartsOf(text) = PartsOf(old) \cup {c} /\ WellMade(text)'
         /\ StartsMessage(text)' <=> StartsMessage(old)
         /\ text.parts[1] = old.parts[1] /\ text.level = old.level /\ LastPart(text) = c
         /\ ~calls[c].newline => Ended(text)'
<1>0. Len(calls) \in Nat /\ Len(calls') \in Nat /\ Len(calls) <= Len(calls')
  BY DEF KeptCalls
<1>1. /\ text \in Text /\ text # NoText /\ PartsOf(text) = PartsOf(old) \cup {c}
      /\ Len(text.parts) = Len(old.parts) + 1 /\ text.parts # <<>>
      /\ \A m \in 1..Len(old.parts) : text.parts[m] = old.parts[m]
      /\ text.parts[Len(old.parts) + 1] = c /\ text.level = old.level /\ LastPart(text) = c
  <2>1. c \in Nat
    BY <1>0
  <2>. QED BY <2>1, NextPart
<1>2. /\ Len(old.parts) \in Nat /\ 1 \in 1..Len(old.parts)
      /\ \A m \in 1..Len(old.parts) : old.parts[m] \in 1..Len(calls)
      /\ PartsOf(old) \subseteq 1..Len(calls) /\ Cardinality(PartsOf(old)) = Len(old.parts)
      /\ \A m \in 2..Len(old.parts) : calls[old.parts[m]].level = "CONT"
      /\ calls[old.parts[1]].level \in {"CONT", old.level}
      /\ StartsMessage(old) => \A m \in 1..Len(old.parts) : ~calls[old.parts[m]].newline
  BY TextFacts DEF WellMade, Ended
<1>3. \A i \in 1..Len(calls) : calls'[i].level = calls[i].level /\ calls'[i].newline = calls[i].newline
  BY DEF KeptCalls
<1>4. IsFiniteSet(PartsOf(old)) /\ Cardinality(PartsOf(text)) = Len(text.parts)
  <2>1. IsFiniteSet(1..Len(calls))
    <3>1. 1 \in Int /\ Len(calls) \in Int
      BY <1>0
    <3>. QED BY <3>1, FS_Interval
  <2>2. IsFiniteSet(PartsOf(old))
    BY <1>2, <2>1, FS_Subset
  <2>. QED BY <1>1, <1>2, <2>2, FS_AddElement
<1>5. text.parts[1] = old.parts[1]
  BY <1>1, <1>2
<1>6. StartsMessage(text)' <=> StartsMessage(old)
  BY <1>2, <1>3, <1>5 DEF StartsMessage
<1>7. \A m \in 2..Len(text.parts) : calls'[text.parts[m]].level = "CONT"
  <2>. SUFFICES ASSUME NEW m \in 2..Len(text.parts) PROVE calls'[text.parts[m]].level = "CONT"
    OBVIOUS
  <2>1. CASE m = Len(old.parts) + 1
    BY <1>1, <1>3, <2>1
  <2>2. CASE m # Len(old.parts) + 1
    <3>1. m \in 2..Len(old.parts) /\ m \in 1..Len(old.parts)
      BY <1>1, <1>2, <2>2
    <3>. QED BY <1>1, <1>2, <1>3, <3>1
  <2>. QED BY <2>1, <2>2
<1>8. StartsMessage(text)' => \A m \in 1..(Len(text.parts) - 1) : ~calls'[text.parts[m]].newline
  <2>1. Len(text.parts) - 1 = Len(old.parts)
    BY <1>1, <1>2
  <2>. QED BY <1>1, <1>2, <1>3, <1>6, <2>1
<1>9. WellMade(text)'
  <2>1. PartsOf(text) \subseteq 1..Len(calls')
    BY <1>0, <1>1, <1>2
  <2>2. calls'[text.parts[1]].level \in {"CONT", text.level}
    BY <1>1, <1>2, <1>3, <1>5
  <2>. QED BY <1>1, <1>4, <1>7, <1>8, <2>1, <2>2 DEF WellMade
<1>10. ASSUME ~calls[c].newline PROVE Ended(text)'
  <2>. SUFFICES ASSUME StartsMessage(text)', NEW m \in 1..Len(text.parts)
                PROVE  ~calls'[text.parts[m]].newline
    BY DEF Ended
  <2>1. CASE m = Len(old.parts) + 1
    BY <1>1, <1>3, <1>10, <2>1
  <2>2. CASE m # Len(old.parts) + 1
    <3>1. m \in 1..(Len(text.parts) - 1)
      BY <1>1, <1>2, <2>2
    <3>. QED BY <1>8, <3>1
  <2>. QED BY <2>1, <2>2
<1>. QED BY <1>1, <1>5, <1>6, <1>9, <1>10


\* What an operation of the invariant's parts needs to know of the thread and the buffer.
LEMMA Before ==
  ASSUME SafeInv, NEW t \in Callers, at[t] # "out"
  PROVE  /\ LogTypeOK /\ CallsInv /\ buffered \in Text /\ events \in Seq(Text)
         /\ at \in [Callers -> PCs]
         /\ call[t] \in 1..Len(calls) /\ call[t] \in Nat /\ Len(calls) \in Nat
         /\ call[t] \notin Dropped /\ is_buffering \in BOOLEAN
         /\ previous_level \in MetaLevels \cup {"NONE"}
         /\ at[t] = "cont_buffered_log" => calls[call[t]].level = "CONT"
         /\ at[t] # "cont_buffered_log" => level(t) \in Enabled /\ level(t) \in MetaLevels
         /\ at[t] = "buffer_non_cont" => ~calls[call[t]].newline
         /\ buffered # NoText => WellMade(buffered) /\ Ended(buffered)
         /\ at[t] \in HandPCs => /\ call[t] \in InHand /\ call[t] \notin PartsOf(buffered)
                                 /\ call[t] \notin Emitted
         /\ PartsOf(buffered) \subseteq 1..Len(calls)
         /\ emit(NoText) = events
<1>1. LogTypeOK /\ CallsInv /\ TextsInv /\ Places
  BY DEF SafeInv
<1>2. calls[call[t]].state # "dropped"
  BY <1>1, Serving
<1>3. call[t] \notin Dropped
  BY <1>2 DEF Dropped
<1>4. buffered # NoText => WellMade(buffered) /\ Ended(buffered)
  BY <1>1 DEF TextsInv, Ended
<1>5. at[t] \in HandPCs => call[t] \in InHand
  BY DEF InHand
<1>6. PartsOf(buffered) \subseteq 1..Len(calls)
  BY <1>1 DEF Places
<1>7. at[t] \in HandPCs => call[t] \notin PartsOf(buffered) /\ call[t] \notin Emitted
  BY <1>1, <1>5 DEF Places
<1>8. emit(NoText) = events
  BY DEF emit
<1>. QED BY <1>1, <1>3, <1>4, <1>5, <1>6, <1>7, <1>8, Serving DEF LogTypeOK, level, newline

\* Steps that move no text.
LEMMA QuietSafe ==
  ASSUME SafeInv, NEW t \in Callers,
         SetIsBuffering(t) \/ SetPreviousLevel(t) \/ EmitNonContLine(t) \/ LineLevel(t)
  PROVE  SafeInv'
<1>1. /\ at[t] # "out" /\ Typed(t) /\ buffered' = buffered /\ events' = events
      /\ at[t] # "cont_buffered_log"
  <2>1. is_buffering \in BOOLEAN
    BY DEF SafeInv, LogTypeOK
  <2>. QED BY <2>1 DEF SetIsBuffering, SetPreviousLevel, EmitNonContLine, LineLevel, Typed
<1>2. PICK l : /\ GoOn(t, l)
               /\ at[t] \in HandPCs <=> l \in HandPCs
               /\ Ends(t) \/ \E m \in PCs : GoesOn(t, m)
  <2>1. CASE SetPreviousLevel(t)
    <3>1. Ends(t) /\ GoOn(t, "out") /\ at[t] \notin HandPCs /\ "out" \notin HandPCs
      BY <2>1 DEF SetPreviousLevel, Return, Ends, HandPCs
    <3>. QED BY <3>1
  <2>2. CASE SetIsBuffering(t)
    <3>1. GoesOn(t, "set_previous_level") /\ at[t] \notin HandPCs /\ "set_previous_level" \notin HandPCs
      BY <2>2 DEF SetIsBuffering, GoesOn, PCs, HandPCs
    <3>. QED BY <3>1 DEF GoesOn, PCs
  <2>3. CASE EmitNonContLine(t)
    <3>1. PICK l : l = IF is_buffering THEN "take_buffered" ELSE "line_level"
      OBVIOUS
    <3>2. GoesOn(t, l) /\ at[t] \in HandPCs /\ l \in HandPCs /\ l \in PCs
      BY <2>3, <3>1 DEF EmitNonContLine, GoesOn, PCs, HandPCs
    <3>. QED BY <3>2 DEF GoesOn
  <2>4. CASE LineLevel(t)
    <3>1. GoesOn(t, "line") /\ at[t] \in HandPCs /\ "line" \in HandPCs
      BY <2>4 DEF LineLevel, GoesOn, PCs, HandPCs
    <3>. QED BY <3>1 DEF GoesOn, PCs
  <2>. QED BY <2>1, <2>2, <2>3, <2>4
<1>3. call' = call
  BY <1>1 DEF Typed
<1>4. InHand' = InHand
  BY <1>1, <1>2, <1>3, Before, HandKeeps
<1>5. KeptCalls /\ Dropped' = Dropped /\ Len(calls') = Len(calls)
  BY <1>1, <1>2, <1>3, Before, StepCalls
<1>6. Moves(t, NoText, {})
  BY <1>1, <1>4, <1>5, Before, NoTextFacts DEF Moves
<1>7. GoodBuffer'
  <2>1. buffered # NoText => (WellMade(buffered) /\ Ended(buffered))
    BY <1>1, Before
  <2>2. PICK b : b = buffered /\ b \in Text
    BY <1>1, Before
  <2>3. b # NoText => (WellMade(b) /\ Ended(b))'
    BY <1>5, <2>1, <2>2, TextKept
  <2>. QED BY <1>1, <2>2, <2>3 DEF GoodBuffer, WellMade, Ended, StartsMessage, PartsOf
<1>. QED BY <1>1, <1>2, <1>6, <1>7, StepSafe


\* Steps that log what is buffered.
LEMMA TakesSafe ==
  ASSUME SafeInv, NEW t \in Callers, BufferNonCont(t) \/ TakeBuffered(t)
  PROVE  SafeInv'
<1>1. /\ at[t] # "out" /\ at[t] # "cont_buffered_log" /\ at[t] \in HandPCs
      /\ Typed(t) /\ events' = emit(buffered)
  <2>1. is_buffering \in BOOLEAN
    BY DEF SafeInv, LogTypeOK
  <2>. QED BY <2>1 DEF BufferNonCont, TakeBuffered, Typed, HandPCs
<1>2. PICK c : c = call[t]
  OBVIOUS
<1>3. /\ LogTypeOK /\ CallsInv /\ buffered \in Text /\ c \in 1..Len(calls)
      /\ c \notin Dropped /\ c \in InHand /\ c \notin PartsOf(buffered)
      /\ buffered # NoText => WellMade(buffered) /\ Ended(buffered)
      /\ level(t) \in MetaLevels /\ level(t) = calls[c].level
      /\ at[t] = "buffer_non_cont" => ~calls[c].newline
      /\ at \in [Callers -> PCs]
  BY <1>1, <1>2, Before DEF level
<1>4. PICK b : b = buffered /\ b \in Text
  BY <1>3
<1>5. call' = call
  BY <1>1 DEF Typed
<1>6. PICK l : GoesOn(t, l) /\ l \in PCs /\ GoOn(t, l)
  BY <1>1 DEF BufferNonCont, TakeBuffered, GoesOn, PCs
<1>7. KeptCalls /\ Dropped' = Dropped /\ Len(calls') = Len(calls)
  BY <1>1, <1>3, <1>5, <1>6, StepCalls
<1>8. b # NoText => WellMade(b)'
  BY <1>3, <1>4, <1>7, TextKept
<1>9. CASE BufferNonCont(t)
  <2>1. /\ GoOn(t, "set_is_buffering") /\ "set_is_buffering" \notin HandPCs
        /\ at[t] = "buffer_non_cont"
    BY <1>9 DEF BufferNonCont, HandPCs
  <2>2. InHand' = InHand \ {c}
    BY <1>1, <1>2, <1>3, <1>5, <2>1, HandGives
  <2>3. PICK n : n = [level |-> level(t), parts |-> <<c>>]
    OBVIOUS
  <2>4. buffered' = n
    BY <1>2, <1>9, <2>3 DEF BufferNonCont
  <2>5. n \in Text /\ PartsOf(n) = {c} /\ WellMade(n)' /\ Ended(n)'
    BY <1>3, <1>7, <2>1, <2>3, FirstMade
  <2>6. Moves(t, b, {c})
    BY <1>1, <1>3, <1>4, <1>7, <2>2, <2>4, <2>5 DEF Moves
  <2>7. GoodBuffer'
    BY <2>4, <2>5 DEF GoodBuffer, Ended, WellMade, StartsMessage, PartsOf
  <2>. QED BY <1>1, <1>6, <1>8, <2>6, <2>7, StepSafe
<1>10. CASE TakeBuffered(t)
  <2>1. buffered' = NoText /\ GoOn(t, "line_level") /\ "line_level" \in HandPCs
    BY <1>10 DEF TakeBuffered, HandPCs
  <2>2. InHand' = InHand
    BY <1>1, <1>3, <1>5, <2>1, HandKeeps
  <2>3. Moves(t, b, {})
    BY <1>1, <1>4, <1>7, <2>1, <2>2, NoTextFacts DEF Moves
  <2>4. GoodBuffer'
    BY <2>1 DEF GoodBuffer
  <2>. QED BY <1>1, <1>6, <1>8, <2>3, <2>4, StepSafe
<1>. QED BY <1>9, <1>10

LEMMA LineSafe ==
  ASSUME SafeInv, NEW t \in Callers, Line(t)
  PROVE  SafeInv'
<1>1. /\ at[t] # "out" /\ at[t] # "cont_buffered_log" /\ at[t] \in HandPCs /\ Typed(t)
      /\ buffered' = buffered /\ Ends(t) /\ GoOn(t, "out") /\ "out" \notin HandPCs
  <2>1. is_buffering \in BOOLEAN
    BY DEF SafeInv, LogTypeOK
  <2>. QED BY <2>1 DEF Line, Typed, HandPCs, Return, Ends
<1>2. PICK c : c = call[t]
  OBVIOUS
<1>3. /\ LogTypeOK /\ CallsInv /\ buffered \in Text /\ c \in 1..Len(calls)
      /\ c \notin Dropped /\ c \in InHand /\ c \notin PartsOf(buffered)
      /\ buffered # NoText => WellMade(buffered) /\ Ended(buffered)
      /\ level(t) \in MetaLevels /\ level(t) = calls[c].level
  BY <1>1, <1>2, Before DEF level
<1>4. PICK b : b = buffered /\ b \in Text
  BY <1>3
<1>5. call' = call
  BY <1>1 DEF Typed
<1>6. KeptCalls /\ Dropped' = Dropped /\ Len(calls') = Len(calls)
  BY <1>1, <1>3, <1>5, StepCalls
<1>7. InHand' = InHand \ {c}
  BY <1>1, <1>2, <1>3, <1>5, HandGives
<1>8. PICK n : n = [level |-> level(t), parts |-> <<c>>]
  OBVIOUS
<1>9. n \in Text /\ PartsOf(n) = {c} /\ WellMade(n)'
  BY <1>3, <1>6, <1>8, FirstMade
<1>10. events' = emit(n)
  BY <1>2, <1>8 DEF Line
<1>11. Moves(t, n, {c})
  BY <1>1, <1>3, <1>6, <1>7, <1>9, <1>10 DEF Moves
<1>12. GoodBuffer'
  <2>1. b # NoText => (WellMade(b) /\ Ended(b))'
    BY <1>3, <1>4, <1>6, TextKept
  <2>. QED BY <1>1, <1>4, <2>1 DEF GoodBuffer, Ended, WellMade, StartsMessage, PartsOf
<1>. QED BY <1>1, <1>9, <1>11, <1>12, StepSafe


\* cont_buffered_log: a text with nothing to continue, one that goes on, and one that
\* ends the line.
LEMMA ContSafe ==
  ASSUME SafeInv, NEW t \in Callers, ContBufferedLog(t)
  PROVE  SafeInv'
<1>1. /\ at[t] = "cont_buffered_log" /\ at[t] # "out" /\ at[t] \in HandPCs /\ Typed(t)
      /\ previous_level' = previous_level
      /\ Ends(t) /\ GoOn(t, "out") /\ "out" \notin HandPCs
  <2>1. is_buffering \in BOOLEAN
    BY DEF SafeInv, LogTypeOK
  <2>. QED BY <2>1 DEF ContBufferedLog, Typed, HandPCs, Return, Ends
<1>2. PICK c : c = call[t]
  OBVIOUS
<1>3. /\ LogTypeOK /\ CallsInv /\ buffered \in Text /\ c \in 1..Len(calls) /\ c \in Nat
      /\ c \notin Dropped /\ c \in InHand /\ c \notin PartsOf(buffered)
      /\ buffered # NoText => WellMade(buffered) /\ Ended(buffered)
      /\ calls[c].level = "CONT" /\ previous_level \in MetaLevels \cup {"NONE"}
      /\ emit(NoText) = events
  BY <1>1, <1>2, Before
<1>4. PICK b : b = buffered /\ b \in Text
  BY <1>3
<1>5. call' = call
  BY <1>1 DEF Typed
<1>6. KeptCalls /\ Dropped' = Dropped /\ Len(calls') = Len(calls)
  BY <1>1, <1>3, <1>5, StepCalls
<1>7. InHand' = InHand \ {c}
  BY <1>1, <1>2, <1>3, <1>5, HandGives
<1>8. CASE buffered = NoText
  <2>1. PICK n : n = [level |-> previous_level, parts |-> <<c>>]
    OBVIOUS
  <2>2. buffered' = n /\ events' = events
    BY <1>2, <1>8, <2>1 DEF ContBufferedLog, orphan
  <2>3. n \in Text /\ PartsOf(n) = {c} /\ WellMade(n)' /\ Ended(n)'
    BY <1>3, <1>6, <2>1, FirstMade
  <2>4. Moves(t, NoText, {c})
    BY <1>1, <1>3, <1>6, <1>7, <1>8, <2>2, <2>3, NoTextFacts DEF Moves
  <2>5. GoodBuffer'
    BY <2>2, <2>3 DEF GoodBuffer, Ended, WellMade, StartsMessage, PartsOf
  <2>. QED BY <1>1, <2>4, <2>5, StepSafe
<1>9. CASE buffered # NoText
  <2>1. PICK n : n = continued(t)
    OBVIOUS
  <2>2. Pushes(n, b, c)
    BY <1>2, <1>4, <2>1 DEF continued, Pushes
  <2>3. /\ n \in Text /\ PartsOf(n) = PartsOf(b) \cup {c} /\ WellMade(n)'
        /\ ~calls[c].newline => Ended(n)'
    BY <1>3, <1>4, <1>6, <1>9, <2>2, NextMade
  <2>4. CASE newline(t)
    <3>1. buffered' = NoText /\ events' = emit(n)
      BY <1>9, <2>1, <2>4 DEF ContBufferedLog
    <3>2. Moves(t, n, {c})
      BY <1>1, <1>3, <1>4, <1>6, <1>7, <2>3, <3>1, NoTextFacts DEF Moves
    <3>3. GoodBuffer'
      BY <3>1 DEF GoodBuffer
    <3>. QED BY <1>1, <2>3, <3>2, <3>3, StepSafe
  <2>5. CASE ~newline(t)
    <3>1. buffered' = n /\ events' = events /\ ~calls[c].newline
      BY <1>2, <1>9, <2>1, <2>5 DEF ContBufferedLog, newline
    <3>2. Moves(t, NoText, {c})
      BY <1>1, <1>3, <1>4, <1>6, <1>7, <2>3, <3>1, NoTextFacts DEF Moves
    <3>3. GoodBuffer'
      BY <2>3, <3>1 DEF GoodBuffer, Ended, WellMade, StartsMessage, PartsOf
    <3>. QED BY <1>1, <3>2, <3>3, StepSafe
  <2>. QED BY <2>4, <2>5
<1>. QED BY <1>8, <1>9

\* A new call, which is dropped or goes on with its text in hand.
LEMMA NewCallSafe ==
  ASSUME SafeInv, NEW t \in Callers, NEW lvl \in Levels, NEW nl \in BOOLEAN,
         LogsToTrace(t, lvl, nl)
  PROVE  /\ SafeInv' /\ KeptCalls /\ Len(calls') = Len(calls) + 1
         /\ call' = [call EXCEPT ![t] = Len(calls')]
<1>1. /\ LogTypeOK /\ CallsInv /\ TextsInv /\ Places
      /\ at \in [Callers -> PCs] /\ call \in [Callers -> 0..Len(calls)] /\ calls \in Seq(Call)
      /\ Len(calls) \in Nat /\ buffered \in Text /\ events \in Seq(Text)
  BY DEF SafeInv, LogTypeOK
<1>2. PICK off \in BOOLEAN : off = (disabled \/ effective(lvl) \notin Enabled)
  OBVIOUS
<1>3. PICK r : r = [level |-> lvl, newline |-> nl, after |-> Returned,
                    state |-> IF off THEN "dropped" ELSE "running"]
  OBVIOUS
<1>4. /\ at[t] = "out" /\ call' = [call EXCEPT ![t] = Len(calls) + 1]
      /\ calls' = Append(calls, r)
      /\ off => at' = at
      /\ ~off => at' = [at EXCEPT ![t] = branch(lvl, nl)]
      /\ disabled' = disabled /\ buffered' = buffered /\ is_buffering' = is_buffering
      /\ events' = events /\ panicked' \in BOOLEAN
  BY <1>2, <1>3 DEF LogsToTrace, GoOn
<1>5. previous_level' \in MetaLevels \cup {"NONE"}
  <2>1. previous_level \in MetaLevels \cup {"NONE"}
    BY <1>1 DEF LogTypeOK
  <2>. QED BY <2>1 DEF LogsToTrace, effective
<1>6. /\ r \in Call /\ r.level = lvl /\ r.newline = nl
      /\ r.state = IF off THEN "dropped" ELSE "running"
  <2>1. Returned \in SUBSET Nat
    BY <1>1 DEF Returned
  <2>2. lvl \in MetaLevels \cup {"NONE", "CONT"}
    BY LevelsAssumption DEF LevelsAssumption
  <2>. QED BY <1>3, <2>1, <2>2 DEF Call
<1>7. /\ calls' \in Seq(Call) /\ Len(calls') = Len(calls) + 1 /\ calls'[Len(calls) + 1] = r
      /\ \A i \in 1..Len(calls) : calls'[i] = calls[i]
  BY <1>1, <1>4, <1>6
<1>8. KeptCalls
  BY <1>1, <1>7 DEF KeptCalls
<1>9. call' \in [Callers -> 0..Len(calls')] /\ at' \in [Callers -> PCs]
  <2>1. branch(lvl, nl) \in PCs
    BY DEF branch, PCs
  <2>2. at' \in [Callers -> PCs]
    BY <1>1, <1>4, <2>1
  <2>3. call' \in [Callers -> 0..(Len(calls) + 1)]
    BY <1>1, <1>4
  <2>. QED BY <1>7, <2>2, <2>3
<1>10. LogTypeOK'
  BY <1>1, <1>4, <1>5, <1>7, <1>9 DEF LogTypeOK
<1>11. CallsInv'
  <2>. SUFFICES ASSUME NEW u \in Callers
                PROVE  /\ at'[u] # "out" =>
                            /\ call'[u] # 0 /\ calls'[call'[u]].state = "running"
                            /\ IF at'[u] = "cont_buffered_log"
                               THEN calls'[call'[u]].level = "CONT"
                               ELSE calls'[call'[u]].level \in Enabled
                            /\ at'[u] = "buffer_non_cont" => ~calls'[call'[u]].newline
                       /\ \A w \in Callers : call'[u] # 0 /\ call'[u] = call'[w] => u = w
    BY DEF CallsInv, level, newline
  <2>1. \A w \in Callers : call'[w] = IF w = t THEN Len(calls) + 1 ELSE call[w]
    BY <1>1, <1>4
  <2>2. \A w \in Callers : call[w] \in 0..Len(calls)
    BY <1>1
  <2>3. \A w \in Callers : call'[u] # 0 /\ call'[u] = call'[w] => u = w
    BY <1>1, <2>1, <2>2 DEF CallsInv
  <2>4. CASE u = t
    <3>1. call'[u] = Len(calls) + 1 /\ calls'[call'[u]] = r /\ call'[u] # 0
      BY <1>1, <1>7, <2>1, <2>4
    <3>2. CASE off
      BY <1>4, <2>3, <2>4, <3>2
    <3>3. CASE ~off
      <4>1. at'[u] = branch(lvl, nl) /\ effective(lvl) \in Enabled
        BY <1>1, <1>2, <1>4, <2>4, <3>3
      <4>2. at'[u] = "cont_buffered_log" <=> lvl = "CONT"
        BY <4>1 DEF branch
      <4>3. at'[u] = "buffer_non_cont" => ~nl
        BY <4>1 DEF branch
      <4>4. lvl # "CONT" => lvl \in Enabled
        BY <4>1 DEF effective
      <4>. QED BY <1>6, <2>3, <3>1, <3>3, <4>2, <4>3, <4>4
    <3>. QED BY <3>2, <3>3
  <2>5. CASE u # t
    <3>1. at'[u] = at[u] /\ call'[u] = call[u]
      BY <1>1, <1>4, <2>1, <2>5
    <3>2. at[u] # "out" => call[u] \in 1..Len(calls) /\ calls'[call[u]] = calls[call[u]]
      BY <1>1, <1>7, Serving
    <3>. QED BY <1>1, <2>3, <3>1, <3>2 DEF CallsInv, level, newline
  <2>. QED BY <2>4, <2>5
<1>12. TextsInv'
  <2>1. \A e \in Text : WellMade(e) => WellMade(e)' /\ (Ended(e) => Ended(e)')
    <3>. SUFFICES ASSUME NEW e \in Text, WellMade(e) PROVE WellMade(e)' /\ (Ended(e) => Ended(e)')
      OBVIOUS
    <3>. QED BY <1>8, TextKept
  <2>2. ASSUME NEW k \in 1..Len(events) PROVE WellMade(events[k])'
    <3>1. PICK e : e = events[k] /\ e \in Text
      BY <1>1
    <3>2. WellMade(e)' /\ e = events'[k]
      BY <1>1, <1>4, <2>1, <3>1 DEF TextsInv
    <3>. QED BY <3>2 DEF WellMade, PartsOf, StartsMessage
  <2>3. buffered # NoText => (WellMade(buffered) /\ Ended(buffered))'
    <3>1. PICK b : b = buffered /\ b \in Text
      BY <1>1
    <3>2. b # NoText => (WellMade(b) /\ Ended(b))'
      BY <1>1, <2>1, <3>1 DEF TextsInv, Ended
    <3>. QED BY <1>4, <3>1, <3>2 DEF WellMade, Ended, PartsOf, StartsMessage
  <2>. QED BY <1>4, <2>2, <2>3 DEF TextsInv, Ended
<1>13. Places'
  <2>1. PICK i : i = Len(calls) + 1
    OBVIOUS
  <2>2. 1..Len(calls') = 1..Len(calls) \cup {i} /\ i \notin 1..Len(calls)
    BY <1>1, <1>7, <2>1
  <2>3. calls'[i].state = IF off THEN "dropped" ELSE "running"
    BY <1>6, <1>7, <2>1
  <2>4. Dropped' = IF off THEN Dropped \cup {i} ELSE Dropped
    <3>1. Dropped' = {k \in 1..Len(calls') : calls'[k].state = "dropped"}
      BY DEF Dropped
    <3>. QED BY <1>7, <2>2, <2>3, <3>1 DEF Dropped
  <2>5. InHand' = IF off THEN InHand ELSE InHand \cup {i}
    <3>1. \A u \in Callers : call'[u] = IF u = t THEN i ELSE call[u]
      BY <1>1, <1>4, <2>1
    <3>2. CASE off
      <4>1. \A u \in Callers : at[u] \in HandPCs => u # t
        BY <1>4 DEF HandPCs
      <4>. QED BY <1>4, <3>1, <3>2, <4>1 DEF InHand
    <3>3. CASE ~off
      <4>1. branch(lvl, nl) \in HandPCs
        BY DEF branch, HandPCs
      <4>2. \A u \in Callers : at'[u] = IF u = t THEN branch(lvl, nl) ELSE at[u]
        BY <1>1, <1>4, <3>3
      <4>3. at[t] \notin HandPCs
        BY <1>4 DEF HandPCs
      <4>4. InHand' = {call'[u] : u \in {w \in Callers : at'[w] \in HandPCs}}
        BY DEF InHand
      <4>. QED BY <3>1, <3>3, <4>1, <4>2, <4>3, <4>4 DEF InHand
    <3>. QED BY <3>2, <3>3
  <2>6. Emitted' = Emitted /\ PartsOf(buffered)' = PartsOf(buffered)
    BY <1>4 DEF Emitted, PartsOf
  <2>7. \A k, l \in 1..Len(events') : k # l => PartsOf(events'[k]) \cap PartsOf(events'[l]) = {}
    BY <1>1, <1>4 DEF Places
  <2>8. \A k \in 1..Len(events') : PartsOf(events[k])' = PartsOf(events'[k])
    BY DEF PartsOf
  <2>9. /\ 1..Len(calls) = InHand \cup PartsOf(buffered) \cup Emitted \cup Dropped
        /\ (InHand \cup Dropped) \cap (PartsOf(buffered) \cup Emitted) = {}
        /\ PartsOf(buffered) \cap Emitted = {}
    BY <1>1 DEF Places
  <2>10. /\ 1..Len(calls') = InHand' \cup PartsOf(buffered) \cup Emitted \cup Dropped'
         /\ (InHand' \cup Dropped') \cap (PartsOf(buffered) \cup Emitted) = {}
    BY <2>2, <2>4, <2>5, <2>9
  <2>. QED BY <2>6, <2>7, <2>8, <2>9, <2>10 DEF Places
<1>. QED BY <1>4, <1>7, <1>8, <1>10, <1>11, <1>12, <1>13 DEF SafeInv



-----------------------------------------------------------------------------
(* The bridge: one logger                                                  *)

\* What is known of the one thread that logs, while it serves a call.
LEMMA OneBefore ==
  ASSUME SafeInv, OneLogger, OneLoggerInv, NEW t \in Callers, at[t] # "out"
  PROVE  /\ \A u \in Callers \ {t} : at[u] = "out"
         /\ call[t] = Len(calls) /\ call[t] \in Nat
         /\ at[t] = "cont_buffered_log" => previous_level \in Enabled
         /\ at[t] \in {"line_level", "line"} => ~MessageBuffered
         /\ MessageBuffered =>
              is_buffering \/ at[t] \in {"set_is_buffering", "take_buffered"}
<1>1. call[t] # 0 /\ LogTypeOK /\ CallsInv /\ call[t] \in Nat
  BY Before DEF SafeInv, CallsInv
<1>2. \A u \in Callers \ {t} : at[u] = "out"
  BY <1>1, Alone
<1>3. MessageBuffered => is_buffering \/ at[t] \in {"set_is_buffering", "take_buffered"}
  BY <1>2 DEF OneLoggerInv
<1>. QED BY <1>1, <1>2, <1>3 DEF OneLoggerInv

\* A text that has left the hands is older than one still there, when one thread logs.
LEMMA Older ==
  ASSUME SafeInv, OneLogger, OneLoggerInv, NEW t \in Callers, at[t] \in HandPCs
  PROVE  /\ \A p \in PartsOf(buffered) \cup Emitted : p \in Nat /\ p < call[t]
         /\ \A k \in 1..Len(events) : LastPart(events[k]) < call[t] /\ LastPart(events[k]) \in Nat
<1>1. /\ at[t] # "out" /\ call[t] \in InHand /\ call[t] = Len(calls) /\ call[t] \in Nat
      /\ events \in Seq(Text)
  BY OneBefore, Before DEF HandPCs
<1>2. \A p \in PartsOf(buffered) \cup Emitted : p \in 1..Len(calls) /\ p # call[t]
  BY <1>1 DEF SafeInv, Places
<1>3. \A p \in PartsOf(buffered) \cup Emitted : p \in Nat /\ p < call[t]
  BY <1>1, <1>2
<1>4. ASSUME NEW k \in 1..Len(events) PROVE LastPart(events[k]) \in Emitted
  <2>1. events[k] \in Text /\ events[k].parts # <<>>
    BY <1>1 DEF SafeInv, TextsInv, WellMade
  <2>2. LastPart(events[k]) \in PartsOf(events[k])
    BY <2>1, TextFacts
  <2>. QED BY <2>2 DEF Emitted
<1>. QED BY <1>3, <1>4

\* What logging a text does to the order of the events.
LEMMA OrderKept ==
  ASSUME SafeInv, InOrder, KeptCalls, NEW out \in Text, events' = emit(out),
         out # NoText => /\ WellMade(out)' /\ out.level \in Enabled
                         /\ StartsMessage(out)' => ComesLater(out)
  PROVE  /\ InOrder'
         /\ \A k \in 1..Len(events') :
              \/ /\ k \in 1..Len(events) /\ events'[k] = events[k]
                 /\ StartsMessage(events[k])' <=> StartsMessage(events[k])
              \/ out # NoText /\ events'[k] = out /\ k = Len(events) + 1
<1>1. /\ events \in Seq(Text) /\ Len(events) \in Nat /\ Len(events') \in Nat
      /\ \A k \in 1..Len(events) : events'[k] = events[k]
      /\ \A k \in 1..Len(events') : k \notin 1..Len(events) =>
           out # NoText /\ k = Len(events) + 1 /\ events'[k] = out
  <2>1. events \in Seq(Text)
    BY DEF SafeInv, LogTypeOK
  <2>. QED BY <2>1, EmitFacts
<1>2. ASSUME NEW k \in 1..Len(events) PROVE StartsMessage(events[k])' <=> StartsMessage(events[k])
  <2>1. PICK e : e = events[k] /\ e \in Text /\ WellMade(e) /\ e = events'[k]
    BY <1>1 DEF SafeInv, TextsInv
  <2>2. StartsMessage(e)' <=> StartsMessage(e)
    BY <2>1, TextKept
  <2>. QED BY <2>1, <2>2 DEF StartsMessage
<1>3. \A k \in 1..Len(events') :
        \/ /\ k \in 1..Len(events) /\ events'[k] = events[k]
           /\ StartsMessage(events[k])' <=> StartsMessage(events[k])
        \/ out # NoText /\ events'[k] = out /\ k = Len(events) + 1
  BY <1>1, <1>2
<1>4. ASSUME NEW k \in 1..Len(events') PROVE events'[k].level \in Enabled
  BY <1>3 DEF InOrder
<1>5. ASSUME NEW k \in 1..Len(events'), NEW l \in 1..Len(events'), k < l,
             StartsMessage(events[k])', StartsMessage(events[l])'
      PROVE  LastPart(events'[k]) < events'[l].parts[1]
  <2>1. k \in 1..Len(events) /\ events'[k] = events[k] /\ StartsMessage(events[k])
    <3>1. k # Len(events) + 1
      BY <1>1, <1>3, <1>5
    <3>. QED BY <1>3, <1>5, <3>1
  <2>2. CASE l \in 1..Len(events)
    <3>1. events'[l] = events[l] /\ StartsMessage(events[l])
      BY <1>1, <1>2, <1>5, <2>2
    <3>. QED BY <1>5, <2>1, <2>2, <3>1 DEF InOrder
  <2>3. CASE l \notin 1..Len(events)
    <3>1. out # NoText /\ events'[l] = out
      BY <1>3, <2>3
    <3>2. StartsMessage(out)'
      BY <1>5, <3>1 DEF StartsMessage
    <3>. QED BY <2>1, <3>1, <3>2 DEF ComesLater
  <2>. QED BY <2>2, <2>3
<1>6. InOrder'
  BY <1>4, <1>5 DEF InOrder, LastPart
<1>. QED BY <1>3, <1>6


\* Every message in tracing ends before call n.
AllBefore(n) ==
  \A k \in 1..Len(events) : StartsMessage(events[k]) => LastPart(events[k]) < n

LEMMA BeforeKept ==
  ASSUME SafeInv, KeptCalls, NEW out \in Text, events' = emit(out), NEW n, AllBefore(n),
         out # NoText => LastPart(out) < n
  PROVE  AllBefore(n)'
<1>1. events \in Seq(Text)
  BY DEF SafeInv, LogTypeOK
<1>2. /\ \A k \in 1..Len(events) : events'[k] = events[k]
      /\ \A k \in 1..Len(events') : k \notin 1..Len(events) => out # NoText /\ events'[k] = out
  BY <1>1, EmitFacts
<1>. SUFFICES ASSUME NEW k \in 1..Len(events'), StartsMessage(events[k])'
              PROVE  LastPart(events'[k]) < n
  BY DEF AllBefore, LastPart
<1>3. CASE k \in 1..Len(events)
  <2>1. PICK e : e = events[k] /\ e \in Text /\ WellMade(e) /\ e = events'[k]
    BY <1>1, <1>2, <1>3 DEF SafeInv, TextsInv
  <2>2. StartsMessage(e)' <=> StartsMessage(e)
    BY <2>1, TextKept
  <2>3. StartsMessage(events[k])
    BY <2>1, <2>2 DEF StartsMessage
  <2>. QED BY <1>3, <2>1, <2>3 DEF AllBefore
<1>4. CASE k \notin 1..Len(events)
  BY <1>2, <1>4
<1>. QED BY <1>3, <1>4

\* The threads after a step of the one that logs.
LEMMA StepOne ==
  ASSUME SafeInv, OneLogger, OneLoggerInv, NEW t \in Callers, at[t] # "out", Typed(t),
         Ends(t) \/ \E l \in PCs : GoesOn(t, l), InOrder',
         (buffered # NoText => buffered.level \in Enabled)',
         (MessageBuffered => ComesLater(buffered))',
         (MessageBuffered => is_buffering \/ at[t] \in {"set_is_buffering", "take_buffered"})',
         (at[t] \in {"line_level", "line"} => ~MessageBuffered)'
  PROVE  OneLoggerInv'
<1>1. /\ at \in [Callers -> PCs] /\ call' = call /\ Len(calls') = Len(calls)
      /\ \A u \in Callers \ {t} : at'[u] = at[u] /\ at[u] = "out"
      /\ call[t] = Len(calls)
  BY OneBefore, StepCalls DEF SafeInv, Typed, LogTypeOK
<1>2. at'[t] # "cont_buffered_log"
  BY <1>1 DEF Ends, GoesOn, GoOn
<1>3. ASSUME NEW u \in Callers
      PROVE  /\ at'[u] # "out" => call'[u] = Len(calls')
             /\ at'[u] = "cont_buffered_log" => previous_level' \in Enabled
             /\ at'[u] \in {"line_level", "line"} => ~MessageBuffered'
  BY <1>1, <1>2
<1>. QED BY <1>3 DEF OneLoggerInv

\* Steps that move no text.
LEMMA QuietOne ==
  ASSUME SafeInv, OneLogger, OneLoggerInv, NEW t \in Callers,
         SetIsBuffering(t) \/ SetPreviousLevel(t) \/ EmitNonContLine(t) \/ LineLevel(t)
  PROVE  OneLoggerInv'
<1>1. /\ at[t] # "out" /\ Typed(t) /\ buffered' = buffered /\ events' = events
      /\ Ends(t) \/ \E l \in PCs : GoesOn(t, l)
      /\ at \in [Callers -> PCs]
  <2>1. is_buffering \in BOOLEAN /\ at \in [Callers -> PCs]
    BY DEF SafeInv, LogTypeOK
  <2>2. /\ at[t] # "out" /\ Typed(t) /\ buffered' = buffered /\ events' = events
    BY <2>1 DEF SetIsBuffering, SetPreviousLevel, EmitNonContLine, LineLevel, Typed
  <2>3. CASE SetPreviousLevel(t)
    BY <2>1, <2>2, <2>3 DEF SetPreviousLevel, Return, Ends
  <2>4. CASE SetIsBuffering(t) \/ EmitNonContLine(t) \/ LineLevel(t)
    <3>1. PICK l : l = IF SetIsBuffering(t) THEN "set_previous_level" ELSE
                       IF LineLevel(t) THEN "line" ELSE
                       IF is_buffering THEN "take_buffered" ELSE "line_level"
      OBVIOUS
    <3>2. l \in PCs /\ GoesOn(t, l)
      BY <2>4, <3>1 DEF SetIsBuffering, EmitNonContLine, LineLevel, GoesOn, PCs
    <3>. QED BY <2>1, <2>2, <3>2
  <2>. QED BY <2>1, <2>3, <2>4
<1>2. KeptCalls /\ call' = call
  BY <1>1, StepCalls DEF SafeInv, Typed
<1>3. MessageBuffered' <=> MessageBuffered
  <2>1. PICK b : b = buffered /\ b \in Text /\ (b # NoText => WellMade(b))
    BY <1>1, Before
  <2>2. b # NoText => (StartsMessage(b)' <=> StartsMessage(b))
    BY <1>2, <2>1, TextKept
  <2>. QED BY <1>1, <2>1, <2>2 DEF MessageBuffered, StartsMessage
<1>4. NoText \in Text /\ events' = emit(NoText)
  BY <1>1, NoTextFacts DEF emit
<1>5. InOrder'
  BY <1>2, <1>4, OrderKept DEF OneLoggerInv
<1>6. (MessageBuffered => ComesLater(buffered))'
  <2>. SUFFICES ASSUME MessageBuffered' PROVE ComesLater(buffered)'
    OBVIOUS
  <2>1. PICK n : n = buffered.parts[1]
    OBVIOUS
  <2>2. AllBefore(n)
    BY <1>3, <2>1 DEF OneLoggerInv, ComesLater, AllBefore
  <2>3. AllBefore(n)'
    BY <1>2, <1>4, <2>2, BeforeKept
  <2>. QED BY <1>1, <2>1, <2>3 DEF ComesLater, AllBefore
<1>7. MessageBuffered => is_buffering \/ at[t] \in {"set_is_buffering", "take_buffered"}
  BY <1>1, OneBefore
<1>8. at'[t] \in PCs /\ \A l : GoOn(t, l) => at'[t] = l
  BY <1>1 DEF GoOn, Ends, GoesOn, PCs
<1>9. (MessageBuffered => is_buffering \/ at[t] \in {"set_is_buffering", "take_buffered"})'
  <2>1. CASE SetIsBuffering(t)
    BY <2>1 DEF SetIsBuffering
  <2>2. CASE SetPreviousLevel(t)
    BY <1>3, <1>7, <2>2 DEF SetPreviousLevel
  <2>3. CASE EmitNonContLine(t)
    BY <1>3, <1>7, <1>8, <2>3 DEF EmitNonContLine
  <2>4. CASE LineLevel(t)
    BY <1>1, <1>3, <2>4, OneBefore DEF LineLevel
  <2>. QED BY <2>1, <2>2, <2>3, <2>4
<1>10. (at[t] \in {"line_level", "line"} => ~MessageBuffered)'
  <2>1. CASE SetIsBuffering(t)
    BY <1>8, <2>1 DEF SetIsBuffering
  <2>2. CASE SetPreviousLevel(t)
    BY <1>8, <2>2 DEF SetPreviousLevel, Return
  <2>3. CASE EmitNonContLine(t)
    BY <1>3, <1>7, <1>8, <2>3 DEF EmitNonContLine
  <2>4. CASE LineLevel(t)
    BY <1>1, <1>3, <2>4, OneBefore DEF LineLevel
  <2>. QED BY <2>1, <2>2, <2>3, <2>4
<1>. QED BY <1>1, <1>5, <1>6, <1>9, <1>10, StepOne DEF OneLoggerInv


\* Steps that log what is buffered.
LEMMA TakesOne ==
  ASSUME SafeInv, OneLogger, OneLoggerInv, NEW t \in Callers,
         BufferNonCont(t) \/ TakeBuffered(t)
  PROVE  OneLoggerInv'
<1>1. /\ at[t] # "out" /\ at[t] # "cont_buffered_log" /\ at[t] \in HandPCs /\ Typed(t)
      /\ events' = emit(buffered) /\ at \in [Callers -> PCs]
      /\ \E l \in PCs : GoesOn(t, l)
      /\ at'[t] \notin {"line_level", "line"} \/ TakeBuffered(t)
  <2>1. is_buffering \in BOOLEAN /\ at \in [Callers -> PCs]
    BY DEF SafeInv, LogTypeOK
  <2>2. /\ at[t] # "out" /\ at[t] # "cont_buffered_log" /\ at[t] \in HandPCs /\ Typed(t)
        /\ events' = emit(buffered)
    BY <2>1 DEF BufferNonCont, TakeBuffered, Typed, HandPCs
  <2>3. PICK l : l = IF BufferNonCont(t) THEN "set_is_buffering" ELSE "line_level"
    OBVIOUS
  <2>4. GoesOn(t, l) /\ l \in PCs
    BY <2>3 DEF BufferNonCont, TakeBuffered, GoesOn, PCs
  <2>5. at'[t] \notin {"line_level", "line"} \/ TakeBuffered(t)
    BY <2>1 DEF BufferNonCont, GoOn
  <2>. QED BY <2>1, <2>2, <2>4, <2>5
<1>2. PICK c : c = call[t]
  OBVIOUS
<1>3. /\ buffered \in Text /\ c \in 1..Len(calls) /\ c \in Nat
      /\ buffered # NoText => WellMade(buffered) /\ Ended(buffered)
      /\ level(t) \in Enabled /\ level(t) \in MetaLevels /\ level(t) = calls[c].level
  BY <1>1, <1>2, Before DEF level
<1>4. PICK b : b = buffered /\ b \in Text
  BY <1>3
<1>5. KeptCalls
  BY <1>1, StepCalls DEF SafeInv, Typed
<1>6. /\ \A k \in 1..Len(events) : LastPart(events[k]) < c
      /\ \A p \in PartsOf(b) : p < c
  BY <1>1, <1>2, <1>4, Older
<1>7. b # NoText => /\ WellMade(b)' /\ b.level \in Enabled /\ LastPart(b) < c
                    /\ StartsMessage(b)' => ComesLater(b)
  <2>. SUFFICES ASSUME b # NoText
                PROVE  /\ WellMade(b)' /\ b.level \in Enabled /\ LastPart(b) < c
                       /\ StartsMessage(b)' => ComesLater(b)
    OBVIOUS
  <2>1. WellMade(b)' /\ (StartsMessage(b)' <=> StartsMessage(b))
    BY <1>3, <1>4, <1>5, TextKept
  <2>2. LastPart(b) \in PartsOf(b)
    BY <1>3, <1>4, TextFacts DEF WellMade
  <2>. QED BY <1>4, <1>6, <2>1, <2>2 DEF OneLoggerInv, MessageBuffered
<1>8. InOrder'
  BY <1>1, <1>4, <1>5, <1>7, OrderKept DEF OneLoggerInv
<1>9. AllBefore(c)'
  <2>1. AllBefore(c)
    BY <1>6 DEF AllBefore
  <2>. QED BY <1>1, <1>4, <1>5, <1>7, <2>1, BeforeKept
<1>10. CASE BufferNonCont(t)
  <2>1. buffered' = [level |-> level(t), parts |-> <<c>>] /\ at'[t] = "set_is_buffering"
    BY <1>1, <1>2, <1>10 DEF BufferNonCont, GoOn
  <2>2. buffered'.level = level(t) /\ buffered'.parts[1] = c
    BY <2>1
  <2>3. ComesLater(buffered)'
    BY <1>9, <2>2 DEF ComesLater, AllBefore
  <2>. QED BY <1>1, <1>3, <1>8, <2>1, <2>2, <2>3, StepOne
<1>11. CASE TakeBuffered(t)
  <2>1. buffered' = NoText
    BY <1>11 DEF TakeBuffered
  <2>2. ~MessageBuffered'
    BY <2>1 DEF MessageBuffered
  <2>3. (buffered # NoText => buffered.level \in Enabled)'
    BY <2>1
  <2>. QED BY <1>1, <1>8, <2>2, <2>3, StepOne
<1>. QED BY <1>10, <1>11

LEMMA LineOne ==
  ASSUME SafeInv, OneLogger, OneLoggerInv, NEW t \in Callers, Line(t)
  PROVE  OneLoggerInv'
<1>1. /\ at[t] = "line" /\ at[t] # "out" /\ at[t] # "cont_buffered_log" /\ at[t] \in HandPCs
      /\ Typed(t) /\ buffered' = buffered /\ Ends(t) /\ GoOn(t, "out") /\ at \in [Callers -> PCs]
  <2>1. is_buffering \in BOOLEAN /\ at \in [Callers -> PCs]
    BY DEF SafeInv, LogTypeOK
  <2>. QED BY <2>1 DEF Line, Typed, HandPCs, Return, Ends
<1>2. PICK c : c = call[t]
  OBVIOUS
<1>3. /\ buffered \in Text /\ c \in 1..Len(calls) /\ c \in Nat
      /\ buffered # NoText => WellMade(buffered)
      /\ level(t) \in Enabled /\ level(t) \in MetaLevels /\ level(t) = calls[c].level
      /\ ~MessageBuffered
  BY <1>1, <1>2, Before, OneBefore DEF level
<1>4. PICK b : b = buffered /\ b \in Text
  BY <1>3
<1>5. KeptCalls
  BY <1>1, StepCalls DEF SafeInv, Typed
<1>6. ~MessageBuffered'
  <2>1. b # NoText => (StartsMessage(b)' <=> StartsMessage(b))
    BY <1>3, <1>4, <1>5, TextKept
  <2>. QED BY <1>1, <1>3, <1>4, <2>1 DEF MessageBuffered, StartsMessage
<1>7. PICK n : n = [level |-> level(t), parts |-> <<c>>]
  OBVIOUS
<1>8. n \in Text /\ WellMade(n)'
  BY <1>3, <1>5, <1>7, FirstMade
<1>9. n.level = level(t) /\ n.parts[1] = c
  BY <1>7
<1>10. events' = emit(n)
  BY <1>2, <1>7 DEF Line
<1>11. ComesLater(n)
  <2>1. \A k \in 1..Len(events) : LastPart(events[k]) < c
    BY <1>1, <1>2, Older
  <2>. QED BY <1>9, <2>1 DEF ComesLater
<1>12. InOrder'
  BY <1>3, <1>5, <1>8, <1>9, <1>10, <1>11, OrderKept DEF OneLoggerInv
<1>13. (buffered # NoText => buffered.level \in Enabled)'
  BY <1>1 DEF OneLoggerInv
<1>. QED BY <1>1, <1>6, <1>12, <1>13, StepOne

LEMMA ContOne ==
  ASSUME SafeInv, OneLogger, OneLoggerInv, NEW t \in Callers, ContBufferedLog(t)
  PROVE  OneLoggerInv'
<1>1. /\ at[t] = "cont_buffered_log" /\ at[t] # "out" /\ at[t] \in HandPCs /\ Typed(t)
      /\ Ends(t) /\ GoOn(t, "out") /\ at \in [Callers -> PCs]
      /\ call[t] = Len(calls) /\ previous_level \in Enabled
  <2>1. is_buffering \in BOOLEAN /\ at \in [Callers -> PCs]
    BY DEF SafeInv, LogTypeOK
  <2>2. at[t] = "cont_buffered_log" /\ at[t] # "out"
    BY DEF ContBufferedLog
  <2>. QED BY <2>1, <2>2, OneBefore DEF ContBufferedLog, Typed, HandPCs, Return, Ends
<1>2. PICK c : c = call[t]
  OBVIOUS
<1>3. /\ buffered \in Text /\ c \in 1..Len(calls) /\ c \in Nat /\ c \notin PartsOf(buffered)
      /\ buffered # NoText => WellMade(buffered) /\ Ended(buffered)
      /\ calls[c].level = "CONT" /\ previous_level \in MetaLevels \cup {"NONE"}
      /\ emit(NoText) = events
  BY <1>1, <1>2, Before
<1>4. PICK b : b = buffered /\ b \in Text
  BY <1>3
<1>5. KeptCalls
  BY <1>1, StepCalls DEF SafeInv, Typed
<1>6. at'[t] = "out"
  BY <1>1 DEF GoOn
<1>7. MessageBuffered => is_buffering
  BY <1>1, OneBefore
<1>8. CASE buffered = NoText
  <2>1. PICK n : n = [level |-> previous_level, parts |-> <<c>>]
    OBVIOUS
  <2>2. buffered' = n /\ events' = emit(NoText)
    BY <1>2, <1>3, <1>8, <2>1 DEF ContBufferedLog, orphan
  <2>3. ~StartsMessage(n)'
    BY <1>3, <1>5, <2>1, FirstMade
  <2>4. ~MessageBuffered'
    BY <2>2, <2>3 DEF MessageBuffered, StartsMessage
  <2>5. (buffered # NoText => buffered.level \in Enabled)'
    BY <1>1, <2>1, <2>2
  <2>6. InOrder'
    BY <1>5, <2>2, NoTextFacts, OrderKept DEF OneLoggerInv
  <2>. QED BY <1>1, <2>4, <2>5, <2>6, StepOne
<1>9. CASE buffered # NoText
  <2>1. PICK n : n = continued(t)
    OBVIOUS
  <2>2. Pushes(n, b, c)
    BY <1>2, <1>4, <2>1 DEF continued, Pushes
  <2>3. /\ n \in Text /\ n # NoText /\ WellMade(n)' /\ (StartsMessage(n)' <=> StartsMessage(b))
        /\ n.parts[1] = b.parts[1] /\ n.level = b.level
    BY <1>3, <1>4, <1>5, <1>9, <2>2, NextMade
  <2>4. b.level \in Enabled
    BY <1>4, <1>9 DEF OneLoggerInv
  <2>5. StartsMessage(n)' => ComesLater(b)
    BY <1>4, <1>9, <2>3 DEF OneLoggerInv, MessageBuffered
  <2>6. CASE newline(t)
    <3>1. buffered' = NoText /\ events' = emit(n)
      BY <1>9, <2>1, <2>6 DEF ContBufferedLog
    <3>2. StartsMessage(n)' => ComesLater(n)
      BY <2>3, <2>5 DEF ComesLater
    <3>3. InOrder'
      BY <1>5, <2>3, <2>4, <3>1, <3>2, OrderKept DEF OneLoggerInv
    <3>4. ~MessageBuffered'
      BY <3>1 DEF MessageBuffered
    <3>5. (buffered # NoText => buffered.level \in Enabled)'
      BY <3>1
    <3>. QED BY <1>1, <3>3, <3>4, <3>5, StepOne
  <2>7. CASE ~newline(t)
    <3>1. buffered' = n /\ events' = emit(NoText) /\ is_buffering' = is_buffering
      BY <1>3, <1>9, <2>1, <2>7 DEF ContBufferedLog
    <3>2. InOrder'
      BY <1>5, <3>1, NoTextFacts, OrderKept DEF OneLoggerInv
    <3>3. MessageBuffered' => StartsMessage(n)' /\ MessageBuffered
      BY <1>4, <1>9, <2>3, <3>1 DEF MessageBuffered, StartsMessage
    <3>4. (MessageBuffered => ComesLater(buffered))'
      <4>. SUFFICES ASSUME MessageBuffered' PROVE ComesLater(buffered)'
        OBVIOUS
      <4>1. PICK m : m = b.parts[1]
        OBVIOUS
      <4>2. AllBefore(m)
        BY <2>5, <3>3, <4>1 DEF ComesLater, AllBefore
      <4>3. AllBefore(m)'
        BY <1>5, <3>1, <4>2, NoTextFacts, BeforeKept
      <4>. QED BY <2>3, <3>1, <4>1, <4>3 DEF ComesLater, AllBefore
    <3>5. (buffered # NoText => buffered.level \in Enabled)'
      BY <2>3, <2>4, <3>1
    <3>6. (MessageBuffered => is_buffering)'
      BY <1>7, <3>1, <3>3
    <3>. QED BY <1>1, <1>6, <3>2, <3>4, <3>5, <3>6, StepOne
  <2>. QED BY <2>6, <2>7
<1>. QED BY <1>8, <1>9


LEMMA NewCallOne ==
  ASSUME SafeInv, NEW t \in Callers, NEW lvl \in Levels, NEW nl \in BOOLEAN,
         LogsToTrace(t, lvl, nl), OneLogger', OneLogger => OneLoggerInv
  PROVE  OneLoggerInv'
<1>1. /\ at \in [Callers -> PCs] /\ call \in [Callers -> 0..Len(calls)] /\ Len(calls) \in Nat
      /\ LogTypeOK /\ CallsInv /\ buffered \in Text /\ events \in Seq(Text)
      /\ buffered # NoText => WellMade(buffered)
  BY DEF SafeInv, LogTypeOK, TextsInv
<1>2. /\ KeptCalls /\ Len(calls') = Len(calls) + 1
      /\ call' = [call EXCEPT ![t] = Len(calls')]
  BY NewCallSafe
<1>3. \A u \in Callers : call'[u] = IF u = t THEN Len(calls) + 1 ELSE call[u]
  BY <1>1, <1>2
<1>4. \A u \in Callers \ {t} : call[u] = 0
  <2>1. \A u, w \in Callers : call'[u] # 0 /\ call'[w] # 0 => u = w
    BY DEF OneLogger
  <2>2. call'[t] # 0
    BY <1>1, <1>3
  <2>. QED BY <1>3, <2>1, <2>2
<1>5. \A u \in Callers : at[u] = "out"
  <2>1. at[t] = "out"
    BY DEF LogsToTrace
  <2>2. \A u \in Callers \ {t} : at[u] = "out"
    BY <1>1, <1>4 DEF CallsInv
  <2>. QED BY <2>1, <2>2
<1>6. OneLoggerInv
  BY <1>4 DEF OneLogger
<1>7. /\ buffered' = buffered /\ events' = events /\ is_buffering' = is_buffering
  BY DEF LogsToTrace
<1>8. events' = emit(NoText) /\ NoText \in Text
  BY <1>7, NoTextFacts DEF emit
<1>9. InOrder'
  BY <1>2, <1>6, <1>8, OrderKept DEF OneLoggerInv
<1>10. MessageBuffered' <=> MessageBuffered
  <2>1. PICK b : b = buffered /\ b \in Text /\ (b # NoText => WellMade(b))
    BY <1>1
  <2>2. b # NoText => (StartsMessage(b)' <=> StartsMessage(b))
    BY <1>2, <2>1, TextKept
  <2>. QED BY <1>7, <2>1, <2>2 DEF MessageBuffered, StartsMessage
<1>11. (MessageBuffered => ComesLater(buffered))'
  <2>. SUFFICES ASSUME MessageBuffered' PROVE ComesLater(buffered)'
    OBVIOUS
  <2>1. PICK n : n = buffered.parts[1]
    OBVIOUS
  <2>2. AllBefore(n)
    BY <1>6, <1>10, <2>1 DEF OneLoggerInv, ComesLater, AllBefore
  <2>3. AllBefore(n)'
    BY <1>2, <1>8, <2>2, BeforeKept
  <2>. QED BY <1>7, <2>1, <2>3 DEF ComesLater, AllBefore
<1>12. MessageBuffered => is_buffering
  BY <1>5, <1>6 DEF OneLoggerInv
<1>13. ASSUME NEW u \in Callers
       PROVE  /\ at'[u] # "out" => call'[u] = Len(calls')
              /\ at'[u] = "cont_buffered_log" => previous_level' \in Enabled
              /\ at'[u] \notin {"line_level", "line"}
  <2>1. CASE u = t
    <3>1. call'[u] = Len(calls')
      BY <1>2, <1>3, <2>1
    <3>2. CASE disabled \/ effective(lvl) \notin Enabled
      <4>1. at' = at
        BY <3>2 DEF LogsToTrace
      <4>. QED BY <1>5, <4>1
    <3>3. CASE ~(disabled \/ effective(lvl) \notin Enabled)
      <4>1. at'[u] = branch(lvl, nl)
        BY <1>1, <2>1, <3>3 DEF LogsToTrace, GoOn
      <4>2. previous_level' = previous_level
        BY <3>3 DEF LogsToTrace
      <4>3. at'[u] = "cont_buffered_log" => lvl = "CONT"
        BY <4>1 DEF branch
      <4>4. lvl = "CONT" => previous_level \in Enabled
        BY <3>3 DEF effective
      <4>5. at'[u] \notin {"line_level", "line"}
        BY <4>1 DEF branch
      <4>. QED BY <3>1, <4>2, <4>3, <4>4, <4>5
    <3>. QED BY <3>2, <3>3
  <2>2. CASE u # t
    <3>1. at'[u] = at[u]
      BY <1>1, <2>2 DEF LogsToTrace, GoOn
    <3>. QED BY <1>5, <3>1
  <2>. QED BY <2>1, <2>2
<1>14. (buffered # NoText => buffered.level \in Enabled)'
  BY <1>6, <1>7 DEF OneLoggerInv
<1>15. (MessageBuffered =>
          is_buffering \/ \E u \in Callers : at[u] \in {"set_is_buffering", "take_buffered"})'
  BY <1>7, <1>10, <1>12
<1>. QED BY <1>9, <1>11, <1>13, <1>14, <1>15 DEF OneLoggerInv


-----------------------------------------------------------------------------
(* The bridge: the invariant and what it gives                             *)

LEMMA InitLogInv == LogInit => LogInv
<1>. SUFFICES ASSUME LogInit PROVE LogInv
  OBVIOUS
<1>1. /\ calls = <<>> /\ events = <<>> /\ buffered = NoText /\ Len(calls) = 0 /\ Len(events) = 0
      /\ \A t \in Callers : at[t] = "out" /\ call[t] = 0
  BY DEF LogInit
<1>2. LogTypeOK
  <2>1. calls \in Seq(Call) /\ events \in Seq(Text) /\ buffered \in Text
    BY <1>1, NoTextFacts
  <2>2. at \in [Callers -> PCs] /\ call \in [Callers -> 0..Len(calls)]
    BY <1>1 DEF LogInit, PCs
  <2>. QED BY <2>1, <2>2 DEF LogInit, LogTypeOK
<1>3. CallsInv /\ TextsInv
  BY <1>1 DEF CallsInv, TextsInv
<1>4. Places
  <2>1. InHand = {} /\ Dropped = {} /\ Emitted = {} /\ PartsOf(buffered) = {}
    BY <1>1, NoTextFacts DEF InHand, HandPCs, Dropped, Emitted
  <2>. QED BY <1>1, <2>1 DEF Places
<1>5. OneLoggerInv
  BY <1>1 DEF OneLoggerInv, InOrder, MessageBuffered
<1>. QED BY <1>2, <1>3, <1>4, <1>5 DEF LogInv

LEMMA StepLogInv ==
  ASSUME LogInv, NEW t \in Callers, Step(t)
  PROVE  LogInv'
<1>1. SafeInv /\ (OneLogger => OneLoggerInv)
  BY DEF LogInv, SafeInv
<1>2. OneLogger' <=> OneLogger
  <2>1. call' = call
    BY DEF Step, ContBufferedLog, BufferNonCont, SetIsBuffering, SetPreviousLevel,
           EmitNonContLine, TakeBuffered, LineLevel, Line
  <2>. QED BY <2>1 DEF OneLogger
<1>3. CASE ContBufferedLog(t)
  BY <1>1, <1>2, <1>3, ContSafe, ContOne DEF LogInv, SafeInv
<1>4. CASE BufferNonCont(t) \/ TakeBuffered(t)
  BY <1>1, <1>2, <1>4, TakesSafe, TakesOne DEF LogInv, SafeInv
<1>5. CASE SetIsBuffering(t) \/ SetPreviousLevel(t) \/ EmitNonContLine(t) \/ LineLevel(t)
  BY <1>1, <1>2, <1>5, QuietSafe, QuietOne DEF LogInv, SafeInv
<1>6. CASE Line(t)
  BY <1>1, <1>2, <1>6, LineSafe, LineOne DEF LogInv, SafeInv
<1>. QED BY <1>3, <1>4, <1>5, <1>6 DEF Step

LEMMA NextLogInv == LogInv /\ [LogNext]_logVars => LogInv'
<1>. SUFFICES ASSUME LogInv, [LogNext]_logVars PROVE LogInv'
  OBVIOUS
<1>1. ASSUME NEW t \in Callers, Step(t) PROVE LogInv'
  BY <1>1, StepLogInv
<1>2. ASSUME NEW t \in Callers, NEW lvl \in Levels, NEW nl \in BOOLEAN, LogsToTrace(t, lvl, nl)
      PROVE  LogInv'
  BY <1>2, NewCallSafe, NewCallOne DEF LogInv, SafeInv
<1>3. CASE UNCHANGED logVars
  <2>1. SafeInv'
    <3>1. LogTypeOK'
      BY <1>3 DEF logVars, LogInv, LogTypeOK
    <3>2. CallsInv'
      BY <1>3 DEF logVars, LogInv, CallsInv, level, newline
    <3>3. TextsInv'
      BY <1>3 DEF logVars, LogInv, TextsInv, WellMade, PartsOf, StartsMessage
    <3>4. Places'
      <4>1. /\ calls' = calls /\ events' = events /\ InHand' = InHand /\ Dropped' = Dropped
            /\ Emitted' = Emitted /\ PartsOf(buffered)' = PartsOf(buffered)
        BY <1>3 DEF logVars, InHand, Dropped, Emitted, PartsOf
      <4>2. \A k : PartsOf(events[k])' = PartsOf(events[k])
        BY <4>1 DEF PartsOf
      <4>. QED BY <4>1, <4>2 DEF LogInv, Places
    <3>. QED BY <3>1, <3>2, <3>3, <3>4 DEF SafeInv
  <2>2. OneLogger' => OneLoggerInv'
    BY <1>3 DEF logVars, LogInv, OneLogger, OneLoggerInv, InOrder, MessageBuffered, ComesLater,
                LastPart, StartsMessage
  <2>. QED BY <2>1, <2>2 DEF LogInv, SafeInv
<1>. QED BY <1>1, <1>2, <1>3 DEF LogNext

\* The inductive invariant of the bridge.
THEOREM BridgeInvariant == LogSpec => []LogInv
BY InitLogInv, NextLogInv, PTL DEF LogSpec

\* logs_to_trace and log::State: the shared state and every thread's place in the
\* callback have their types.
THEOREM BridgeTyped == LogSpec => []LogTypeOK
BY BridgeInvariant, PTL DEF LogInv

\* buffer_non_cont, cont_buffered_log and emit_non_cont_line: however many threads log
\* at once, an accepted text is in exactly one place and in one event only once.
THEOREM TextsKept == LogSpec => []NothingLostOrRepeated
<1>1. LogInv => NothingLostOrRepeated
  BY DEF LogInv, Places, TextsInv, WellMade, NothingLostOrRepeated
<1>. QED BY <1>1, BridgeInvariant, PTL

\* cont_buffered_log: CONT texts never pull two messages together, and an event has the
\* level its text came with.
THEOREM EventsAreMessages == LogSpec => []EventIsOneMessage
<1>1. LogInv => EventIsOneMessage
  BY DEF LogInv, TextsInv, WellMade, StartsMessage, EventIsOneMessage
<1>. QED BY <1>1, BridgeInvariant, PTL

\* As long as one thread logs, its messages reach tracing in the order they were logged
\* and at levels the subscriber wants.
THEOREM OneThreadInOrder == LogSpec => []OneThreadAsLogged
<1>1. LogInv => OneThreadAsLogged
  BY DEF LogInv, OneLoggerInv, InOrder, StartsMessage, LastPart, OneThreadAsLogged
<1>. QED BY <1>1, BridgeInvariant, PTL
=============================================================================
