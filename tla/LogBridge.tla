----------------------------- MODULE LogBridge -----------------------------
(***************************************************************************)
(* The bridge from the log callback of llama.cpp and ggml to tracing:      *)
(* logs_to_trace (llama-cpp-2/src/lib.rs) and the log::State it works on   *)
(* (llama-cpp-2/src/log.rs).  Native threads call it concurrently; there   *)
(* is one State for llama.cpp and one for ggml, and they share nothing, so *)
(* the module models one of them.                                          *)
(*                                                                         *)
(* A step is one access to an atomic, or one critical section of the mutex *)
(* around buffered together with what is done while the guard lives.  A    *)
(* text is abstracted to the call that brought it and to whether it ends   *)
(* in a newline; a buffered text is the sequence of calls it is made of.   *)
(* is_enabled_for_level of a level that is not CONT reads nothing shared,  *)
(* so it is one step with the access that follows it.                      *)
(***************************************************************************)
EXTENDS Integers, Sequences, FiniteSets

CONSTANTS
  Callers,   \* native threads that log
  Levels,    \* levels they log at
  Enabled,   \* levels the tracing subscriber is interested in
  MaxCalls   \* bound: number of calls of the callback

\* The levels meta_for_level knows; for any other one it is unreachable!().
MetaLevels == {"DEBUG", "INFO", "WARN", "ERROR"}

ASSUME LevelsAssumption ==
  /\ Levels \subseteq MetaLevels \cup {"NONE", "CONT"}
  /\ Enabled \subseteq MetaLevels
  /\ MaxCalls \in Nat

VARIABLES
  disabled,        \* State.options.disabled
  buffered,        \* State.buffered: NoText, or a level and the text's parts
  previous_level,  \* State.previous_level
  is_buffering,    \* State.is_buffering
  at,              \* where each thread is in logs_to_trace; "out": not in it
  call,            \* the call each thread made last
  calls,           \* every call so far
  events,          \* the events that reached tracing, oldest first
  panicked         \* a callback panicked: extern "C" aborts the process

logVars == <<disabled, buffered, previous_level, is_buffering, at, call, calls, events,
          panicked>>

Text == [level: MetaLevels \cup {"NONE"}, parts: Seq(Nat)]
NoText == [level |-> "NONE", parts |-> <<>>]

\* after: the calls that had returned when this one was made.
Call == [level: MetaLevels \cup {"NONE", "CONT"}, newline: BOOLEAN, after: SUBSET Nat,
         state: {"running", "accepted", "dropped"}]

LogInit ==
  /\ disabled \in BOOLEAN
  /\ buffered = NoText
  /\ previous_level = "NONE"
  /\ is_buffering = FALSE
  /\ at = [t \in Callers |-> "out"]
  /\ call = [t \in Callers |-> 0]
  /\ calls = <<>>
  /\ events = <<>>
  /\ panicked = FALSE

----------------------------------------------------------------------------
\* The text thread t passed, and its level.
level(t)   == calls[call[t]].level
newline(t) == calls[call[t]].newline

\* generate_log of a text, if there is one to log.
emit(text) == IF text = NoText THEN events ELSE Append(events, text)

GoOn(t, label) == at' = [at EXCEPT ![t] = label]

\* The callback returns to native code.
Return(t) ==
  /\ GoOn(t, "out")
  /\ calls' = [calls EXCEPT ![call[t]].state = "accepted"]

\* Faulty variant: a CONT text is not checked at all.
effective_of_cont(lvl) == IF lvl = "CONT" THEN CHOOSE l \in Enabled : TRUE ELSE lvl

\* The level that is_enabled_for_level asks about.
effective(lvl) == IF lvl = "CONT" THEN previous_level ELSE lvl

\* The branch of logs_to_trace for an enabled text.
branch(lvl, nl) ==
  IF lvl = "CONT" THEN "cont_buffered_log"
  ELSE IF nl THEN "emit_non_cont_line" ELSE "buffer_non_cont"

Returned == {i \in 1..Len(calls) : calls[i].state # "running"}

\* Entry of logs_to_trace: the call is dropped, panics, or goes on.
LogsToTrace(t, lvl, nl) ==
  LET new(s) == [level |-> lvl, newline |-> nl, after |-> Returned, state |-> s]
      off    == disabled \/ effective(lvl) \notin Enabled
      panics == ~disabled /\ effective(lvl) \notin MetaLevels
  IN /\ at[t] = "out"
     /\ Len(calls) < MaxCalls
     /\ call' = [call EXCEPT ![t] = Len(calls) + 1]
     /\ panicked' = panics
     /\ calls' = Append(calls, new(IF off THEN "dropped" ELSE "running"))
     /\ IF off THEN UNCHANGED at ELSE GoOn(t, branch(lvl, nl))
     \* update_previous_level_for_disabled_log
     /\ previous_level' = IF off /\ ~disabled /\ ~panics /\ lvl # "CONT"
                          THEN lvl ELSE previous_level
     /\ UNCHANGED <<disabled, buffered, is_buffering, events>>

\* Faulty variant: the orphan keeps its own level, CONT.
orphan_as_cont(t) == [level |-> level(t), parts |-> <<call[t]>>]

\* A CONT text with nothing to continue, at the level inferred for it.
orphan(t) == [level |-> previous_level, parts |-> <<call[t]>>]

\* Faulty variant: the buffered text takes the level logged last.
continued_relevelled(t) ==
  [level |-> previous_level, parts |-> Append(buffered.parts, call[t])]

\* The buffered text with the CONT text pushed onto it; it keeps its level.
continued(t) == [buffered EXCEPT !.parts = Append(@, call[t])]

\* cont_buffered_log: all of it under the lock.
ContBufferedLog(t) ==
  /\ at[t] = "cont_buffered_log"
  /\ IF buffered = NoText
     THEN /\ buffered' = orphan(t)
          /\ UNCHANGED <<is_buffering, events>>
     ELSE IF newline(t)
     THEN /\ is_buffering' = FALSE
          /\ buffered' = NoText
          /\ events' = emit(continued(t))
     ELSE /\ buffered' = continued(t)
          /\ UNCHANGED <<is_buffering, events>>
  /\ Return(t)
  /\ UNCHANGED <<disabled, previous_level, call, panicked>>

\* Faulty variant: the replaced text is forgotten.
BufferNonContForgets(t) ==
  /\ at[t] = "buffer_non_cont"
  /\ buffered' = [level |-> level(t), parts |-> <<call[t]>>]
  /\ GoOn(t, "set_is_buffering")
  /\ UNCHANGED <<disabled, previous_level, is_buffering, call, calls, events, panicked>>

\* buffer_non_cont: the replaced text is logged before the guard is dropped ...
BufferNonCont(t) ==
  /\ at[t] = "buffer_non_cont"
  /\ buffered' = [level |-> level(t), parts |-> <<call[t]>>]
  /\ events' = emit(buffered)
  /\ GoOn(t, "set_is_buffering")
  /\ UNCHANGED <<disabled, previous_level, is_buffering, call, calls, panicked>>

\* ... and the flag and the level are stored after it.
SetIsBuffering(t) ==
  /\ at[t] = "set_is_buffering"
  /\ is_buffering' = TRUE
  /\ GoOn(t, "set_previous_level")
  /\ UNCHANGED <<disabled, buffered, previous_level, call, calls, events, panicked>>

SetPreviousLevel(t) ==
  /\ at[t] = "set_previous_level"
  /\ previous_level' = level(t)
  /\ Return(t)
  /\ UNCHANGED <<disabled, buffered, is_buffering, call, events, panicked>>

\* Faulty variant: a line never looks at what is buffered.
EmitNonContLineOnly(t) ==
  /\ at[t] = "emit_non_cont_line"
  /\ is_buffering' = FALSE
  /\ GoOn(t, "line_level")
  /\ UNCHANGED <<disabled, buffered, previous_level, call, calls, events, panicked>>

\* emit_non_cont_line: the lock is taken only if something seems to be buffered.
EmitNonContLine(t) ==
  /\ at[t] = "emit_non_cont_line"
  /\ is_buffering' = FALSE
  /\ GoOn(t, IF is_buffering THEN "take_buffered" ELSE "line_level")
  /\ UNCHANGED <<disabled, buffered, previous_level, call, calls, events, panicked>>

TakeBuffered(t) ==
  /\ at[t] = "take_buffered"
  /\ buffered' = NoText
  /\ events' = emit(buffered)
  /\ GoOn(t, "line_level")
  /\ UNCHANGED <<disabled, previous_level, is_buffering, call, calls, panicked>>

LineLevel(t) ==
  /\ at[t] = "line_level"
  /\ previous_level' = level(t)
  /\ GoOn(t, "line")
  /\ UNCHANGED <<disabled, buffered, is_buffering, call, calls, events, panicked>>

Line(t) ==
  /\ at[t] = "line"
  /\ events' = emit([level |-> level(t), parts |-> <<call[t]>>])
  /\ Return(t)
  /\ UNCHANGED <<disabled, buffered, previous_level, is_buffering, call, panicked>>

Step(t) ==
  \/ ContBufferedLog(t)
  \/ BufferNonCont(t)
  \/ SetIsBuffering(t)
  \/ SetPreviousLevel(t)
  \/ EmitNonContLine(t)
  \/ TakeBuffered(t)
  \/ LineLevel(t)
  \/ Line(t)

LogNext ==
  /\ ~panicked
  /\ \E t \in Callers :
       \/ \E lvl \in Levels, nl \in BOOLEAN : LogsToTrace(t, lvl, nl)
       \/ Step(t)

\* A call that is being served is served to the end: nothing in it waits for
\* another thread but the mutex, and every critical section is a single step.
LogFairness == \A t \in Callers : WF_logVars(~panicked /\ Step(t))

LogSpec == LogInit /\ [][LogNext]_logVars /\ LogFairness

----------------------------------------------------------------------------
(* Properties *)

PCs == {"out", "cont_buffered_log", "buffer_non_cont", "set_is_buffering",
        "set_previous_level", "emit_non_cont_line", "take_buffered", "line_level", "line"}

\* The shared state and every thread's place in the callback have their types.
LogTypeOK ==
  /\ disabled \in BOOLEAN
  /\ buffered \in Text
  /\ previous_level \in MetaLevels \cup {"NONE"}
  /\ is_buffering \in BOOLEAN
  /\ at \in [Callers -> PCs]
  /\ call \in [Callers -> 0..Len(calls)]
  /\ calls \in Seq(Call)
  /\ events \in Seq(Text)
  /\ panicked \in BOOLEAN

PartsOf(text) == {text.parts[k] : k \in 1..Len(text.parts)}
Emitted  == UNION {PartsOf(events[k]) : k \in 1..Len(events)}
\* The calls whose text is still with the thread that brought it.
HandPCs == {"cont_buffered_log", "buffer_non_cont", "emit_non_cont_line", "take_buffered",
            "line_level", "line"}
InHand == {call[t] : t \in {u \in Callers : at[u] \in HandPCs}}
Dropped == {i \in 1..Len(calls) : calls[i].state = "dropped"}

\* Whatever the threads do between the mutex, the flag and the level, an accepted
\* text is in exactly one place: in the thread's hands, buffered, or in one event,
\* and there once.  Replacing or taking the buffered text loses and repeats nothing.
NothingLostOrRepeated ==
  ~panicked =>
    /\ 1..Len(calls) = InHand \cup PartsOf(buffered) \cup Emitted \cup Dropped
    /\ (InHand \cup Dropped) \cap (PartsOf(buffered) \cup Emitted) = {}
    /\ PartsOf(buffered) \cap Emitted = {}
    /\ \A k, l \in 1..Len(events) : k # l => PartsOf(events[k]) \cap PartsOf(events[l]) = {}
    /\ \A k \in 1..Len(events) : Cardinality(PartsOf(events[k])) = Len(events[k].parts)

\* An event is one message: a text that is not CONT, logged at the level it came
\* with, followed by CONT texts only, and only the last one ends the line; CONT
\* texts never pull two messages together or change the level of one.
EventIsOneMessage ==
  \A k \in 1..Len(events) :
    LET e == events[k]
    IN /\ \A m \in 2..Len(e.parts) : calls[e.parts[m]].level = "CONT"
       /\ calls[e.parts[1]].level \in {"CONT", e.level}
       /\ calls[e.parts[1]].level # "CONT" =>
            \A m \in 1..(Len(e.parts) - 1) : ~calls[e.parts[m]].newline

\* The start of a message that is behind a line: the line was accepted after it.
Behind(i) ==
  /\ i <= Len(calls) /\ calls[i].state = "accepted" /\ calls[i].level # "CONT"
  /\ \E j \in 1..Len(calls) :
       /\ calls[j].state # "dropped" /\ calls[j].newline /\ calls[j].level # "CONT"
       /\ i \in calls[j].after

\* "buffer until the next message comes in": a text that starts a message gets to
\* tracing once a line follows it, however the two race (short of a panic).
EventuallyFlushed == \A i \in 1..MaxCalls : Behind(i) ~> (i \in Emitted \/ panicked)

----------------------------------------------------------------------------
(* What holds as long as one thread logs *)

OneLogger == \A t, u \in Callers : call[t] # 0 /\ call[u] # 0 => t = u

\* test cont_disabled_log, and the buffering as a whole, as long as one thread logs:
\* its messages reach tracing in the order they were logged (a CONT text that had no
\* message to continue, an orphan, excepted), and none makes an event at a level the
\* subscriber has disabled, CONT texts included, which are judged by the level of the
\* text before them.
OneThreadAsLogged ==
  OneLogger =>
    /\ \A k, l \in 1..Len(events) :
         k < l /\ calls[events[k].parts[1]].level # "CONT"
               /\ calls[events[l].parts[1]].level # "CONT" =>
           events[k].parts[Len(events[k].parts)] < events[l].parts[1]
    /\ \A k \in 1..Len(events) : events[k].level \in Enabled

----------------------------------------------------------------------------
(* What comments and assertions say and the code does not do *)

\* unreachable!("Illegal log level to be called here"): no call gets there.
LegalLevels == ~panicked

----------------------------------------------------------------------------
(* The inductive invariant *)

\* A thread in the callback serves a call of its own, at an enabled level or CONT.
CallsInv ==
  \A t \in Callers :
    /\ at[t] # "out" =>
         /\ call[t] # 0 /\ calls[call[t]].state = "running"
         /\ IF at[t] = "cont_buffered_log" THEN level(t) = "CONT" ELSE level(t) \in Enabled
         /\ at[t] = "buffer_non_cont" => ~newline(t)
    /\ \A u \in Callers : call[t] # 0 /\ call[t] = call[u] => t = u

\* The parts of a text are calls, each once; only the first starts a message.
StartsMessage(text) == calls[text.parts[1]].level # "CONT"
WellMade(text) ==
  /\ text.parts # <<>> /\ PartsOf(text) \subseteq 1..Len(calls)
  /\ Cardinality(PartsOf(text)) = Len(text.parts)
  /\ \A m \in 2..Len(text.parts) : calls[text.parts[m]].level = "CONT"
  /\ calls[text.parts[1]].level \in {"CONT", text.level}
  /\ StartsMessage(text) => \A m \in 1..(Len(text.parts) - 1) : ~calls[text.parts[m]].newline

TextsInv ==
  /\ \A k \in 1..Len(events) : WellMade(events[k])
  /\ buffered # NoText =>
       /\ WellMade(buffered)
       /\ StartsMessage(buffered) =>
            \A m \in 1..Len(buffered.parts) : ~calls[buffered.parts[m]].newline

\* Every accepted text is in one place.
Places ==
  /\ 1..Len(calls) = InHand \cup PartsOf(buffered) \cup Emitted \cup Dropped
  /\ (InHand \cup Dropped) \cap (PartsOf(buffered) \cup Emitted) = {}
  /\ PartsOf(buffered) \cap Emitted = {}
  /\ \A k, l \in 1..Len(events) : k # l => PartsOf(events[k]) \cap PartsOf(events[l]) = {}

\* As long as one thread logs: a message in the buffer came after those in tracing,
\* the flag tells that it is there, and no line overtakes it.
MessageBuffered == buffered # NoText /\ StartsMessage(buffered)
LastPart(text) == text.parts[Len(text.parts)]

\* The text came after every message in tracing.
ComesLater(text) ==
  \A k \in 1..Len(events) : StartsMessage(events[k]) => LastPart(events[k]) < text.parts[1]

InOrder ==
  /\ \A k \in 1..Len(events) : events[k].level \in Enabled
  /\ \A k, l \in 1..Len(events) :
       k < l /\ StartsMessage(events[k]) /\ StartsMessage(events[l]) =>
         LastPart(events[k]) < events[l].parts[1]

OneLoggerInv ==
  /\ InOrder
  /\ buffered # NoText => buffered.level \in Enabled
  /\ MessageBuffered => ComesLater(buffered)
  /\ MessageBuffered =>
       is_buffering \/ \E t \in Callers : at[t] \in {"set_is_buffering", "take_buffered"}
  /\ \A t \in Callers :
       /\ at[t] # "out" => call[t] = Len(calls)
       /\ at[t] = "cont_buffered_log" => previous_level \in Enabled
       /\ at[t] \in {"line_level", "line"} => ~MessageBuffered

LogInv == LogTypeOK /\ CallsInv /\ TextsInv /\ Places /\ (OneLogger => OneLoggerInv)
=============================================================================
