--------------------------- MODULE NativeOwnership ---------------------------
(***************************************************************************)
(* Who frees the native objects behind models, contexts, samplers,         *)
(* speculative decoders and multimodal inputs, and when: sampling.rs,      *)
(* llguidance_sampler.rs, mtmd.rs, speculative.rs and the constructors of  *)
(* contexts in model.rs.                                                   *)
(*                                                                         *)
(* A Rust value points to a native object and frees it on drop.  A native  *)
(* object may point to others.  What the compiler enforces is a guard: a   *)
(* value that is borrowed, or held by another, is not dropped, and a value *)
(* that was moved is not used.  Native objects get a number once.          *)
(***************************************************************************)
EXTENDS Integers, FiniteSets

CONSTANTS
  MaxObjects,   \* bound: native objects in a behaviour
  Mixes,        \* bound: how many of each kind; they fit one of these
  MaxValues     \* bound: Rust values at a time

Ids == 1 .. MaxObjects
ValueIds == 1 .. MaxValues

Kinds == {"model", "context", "sampler", "matcher", "mtp", "mtmd", "bitmap",
          "chunks", "chunk"}

ASSUME OwnershipAssumption == 
  MaxObjects \in Nat /\ MaxValues \in Nat /\ Mixes \subseteq [Kinds -> Nat]

(***************************************************************************)
(* A native object: the objects it points to, the object it is freed with  *)
(* (0: none), for a sampler whether it can be cloned and whether it        *)
(* selects a token.                                                        *)
(***************************************************************************)
Object == [kind : Kinds, live : BOOLEAN, uses : SUBSET Ids, parent : 0 .. MaxObjects,
           clones : BOOLEAN, selects : BOOLEAN]
NoObject == [kind |-> "none"]

(***************************************************************************)
(* A Rust value: its native pointer, whether it frees it, the value that   *)
(* holds it (0: the caller), the value it borrows (0: none), and whether   *)
(* the drop of its holder has reached it.                                  *)
(***************************************************************************)
Value == [ptr : Ids, owned : BOOLEAN, holder : 0 .. MaxValues,
          borrows : 0 .. MaxValues, falling : BOOLEAN]
NoValue == [ptr |-> 0]

\* The native calls that may end the process.
Aborts == {"llama_sampler_clone", "llama_sampler_sample"}

(***************************************************************************)
(* misused    history: <<o, u>> if the last call went by way of the object *)
(*            o to u, which was freed; <<u, u>> if u was the object of a   *)
(*            value; <<0, u>> if a drop freed u again                      *)
(* abandoned  history: objects that a panic left without an owner          *)
(* exchanged  history: <<o, u>> if the caller took the context u, to which *)
(*            the decoder o points, out of the decoder's value             *)
(* cloned     history: bitmaps of which derive(Clone) copied the pointer   *)
(* aborted    the native call that ended the process ("no": it runs)       *)
(***************************************************************************)
VARIABLES objs, made, values, misused, abandoned, exchanged, cloned, aborted

history == <<abandoned, exchanged, cloned, aborted>>
vars == <<objs, made, values, misused, history>>

\* What the numbers of objects and values stand for.
TypeOK ==
  /\ made \in 0 .. MaxObjects
  /\ objs \in [Ids -> Object \cup {NoObject}]
  /\ \A o \in 1 .. made : objs[o] \in Object
  /\ values \in [ValueIds -> Value \cup {NoValue}]
  /\ \A v \in ValueIds : values[v] # NoValue => values[v].ptr <= made
  /\ abandoned \subseteq 1 .. made
  /\ exchanged \subseteq Ids \X Ids
  /\ cloned \subseteq Ids
  /\ aborted \in {"no"} \cup Aborts

Init ==
  /\ objs = [o \in Ids |-> NoObject]
  /\ made = 0
  /\ values = [v \in ValueIds |-> NoValue]
  /\ misused = {}
  /\ abandoned = {}
  /\ exchanged = {}
  /\ cloned = {}
  /\ aborted = "no"

-----------------------------------------------------------------------------
(* Native objects *)

Made == 1 .. made

native(kind, uses) ==
  [kind |-> kind, live |-> TRUE, uses |-> uses, parent |-> 0,
   clones |-> TRUE, selects |-> FALSE]

\* The sets with S that step does not lead out of, and what is in all of them.
Closed(S, step) ==
  {T \in SUBSET Made : S \subseteq T /\ \A x \in T : step[x] \subseteq T}
Closure(S, step) ==
  LET closed == Closed(S, step)
  IN  {o \in Made : \A T \in closed : o \in T}

Parts == [o \in Made |-> {x \in Made : objs[x].parent = o}]
Uses == [o \in Made |-> objs[o].uses]

\* The objects S with all that is freed with them.
Whole(S) == Closure(S, Parts)

\* The objects that a native call on those of S may reach.
Reached(S) == Closure(S, Uses)

\* A native call on the objects S.
Touch(S) ==
  misused' =
    {<<o, o>> : o \in {o \in S : ~objs[o].live}} \cup
    UNION {{<<o, u>> : u \in {u \in objs[o].uses : ~objs[u].live}} : o \in Reached(S)}

\* The free of the object o; what it pointed to no longer matters.
Freed(o) ==
  LET whole == Whole({o})
  IN  [x \in Ids |-> IF x \in whole
                     THEN [native(objs[x].kind, {}) EXCEPT !.live = FALSE] ELSE objs[x]]

FreeFault(o) == IF objs[o].live THEN {} ELSE {<<0, o>>}

-----------------------------------------------------------------------------
(* Rust values *)

Held(v) == values[v] # NoValue /\ values[v].holder = 0 /\ ~values[v].falling
Is(v, kind) == Held(v) /\ objs[values[v].ptr].kind = kind
Ptr(v) == values[v].ptr
ValuesOf(kind) == {v \in ValueIds : Is(v, kind)}

Vacant(v) == values[v] = NoValue /\ \A w \in ValueIds : w < v => values[w] # NoValue

NewValue(ptr, owned, borrows) ==
  [ptr |-> ptr, owned |-> owned, holder |-> 0, borrows |-> borrows, falling |-> FALSE]

\* Makes the objects new, numbered from made + 1, and a value for the first.
Create(new, borrows) ==
  /\ made + Cardinality(DOMAIN new) <= MaxObjects
  /\ made' = made + Cardinality(DOMAIN new)
  /\ objs' = [o \in Ids |-> IF o > made /\ o <= made' THEN new[o - made] ELSE objs[o]]
  /\ \E v \in ValueIds :
       /\ Vacant(v)
       /\ values' = [values EXCEPT ![v] = NewValue(made + 1, TRUE, borrows)]

\* The values of S are dropped next, in any order.
Falling(S) ==
  [v \in ValueIds |-> IF v \in S THEN [values[v] EXCEPT !.falling = TRUE] ELSE values[v]]

-----------------------------------------------------------------------------
(* Drop: LlamaModel, LlamaContext, LlamaSampler, MtpSpeculative, MtmdContext, *)
(* MtmdBitmap, MtmdInputChunks, MtmdInputChunk.                               *)

\* A value that the caller has, and that nothing borrows.
Droppable(v) ==
  /\ values[v] # NoValue /\ values[v].holder = 0
  /\ \A w \in ValueIds : values[w] # NoValue => values[w].borrows # v

Fields(v) == {w \in ValueIds : values[w] # NoValue /\ values[w].holder = v}

\* Faulty variant: the fields are dropped before the native object is freed.
DropFieldsFirst(v) ==
  /\ Droppable(v)
  /\ \E w \in (IF Fields(v) = {} THEN {v} ELSE Fields(v)) :
       /\ objs' = IF values[w].owned THEN Freed(Ptr(w)) ELSE objs
       /\ values' = [values EXCEPT ![w] = NoValue]
  /\ misused' = {} /\ UNCHANGED <<made, history>>

\* Faulty variant: owned is not looked at.
DropAlwaysFrees(v) ==
  /\ Droppable(v) /\ Fields(v) = {}
  /\ objs' = Freed(Ptr(v))
  /\ misused' = FreeFault(Ptr(v))
  /\ values' = [values EXCEPT ![v] = NoValue]
  /\ UNCHANGED <<made, history>>

\* Drop::drop frees the native object, then the fields are dropped.
Drop(v) ==
  /\ Droppable(v)
  /\ IF values[v].owned
     THEN /\ objs' = Freed(Ptr(v))
          /\ misused' = FreeFault(Ptr(v))
     ELSE UNCHANGED objs /\ misused' = {}
  /\ values' =
       [w \in ValueIds |->
          IF w = v THEN NoValue
          ELSE IF w \in Fields(v)
          THEN [values[w] EXCEPT !.holder = 0, !.falling = TRUE]
          ELSE values[w]]
  /\ UNCHANGED <<made, history>>

-----------------------------------------------------------------------------
(* model.rs: models and contexts *)

LoadFromFile ==
  /\ Create(<<native("model", {})>>, 0)
  /\ misused' = {} /\ UNCHANGED history

\* new_context_with_samplers moves the samplers S into the context, which keeps
\* them; on failure they are dropped.
NewContextWithSamplers(m, S) ==
  \/ /\ made < MaxObjects /\ made' = made + 1
     /\ objs' = [objs EXCEPT ![made + 1] =
                   native("context", {Ptr(m)} \cup {Ptr(s) : s \in S})]
     /\ \E v \in ValueIds :
          /\ Vacant(v)
          /\ values' = [w \in ValueIds |->
                          IF w = v THEN NewValue(made + 1, TRUE, m)
                          ELSE IF w \in S THEN [values[w] EXCEPT !.holder = v]
                          ELSE values[w]]
     /\ Touch({Ptr(m)} \cup {Ptr(s) : s \in S})
     /\ UNCHANGED history
  \/ /\ S # {}
     /\ values' = Falling(S)
     /\ misused' = {} /\ UNCHANGED <<objs, made, history>>

NewContext(m) ==
  /\ Create(<<native("context", {Ptr(m)})>>, m)
  /\ misused' = {} /\ UNCHANGED history

\* The native context keeps the pointer to the other one; nothing borrows it.
NewContextWithCtxOther(m, other) ==
  /\ Create(<<native("context", {Ptr(m), Ptr(other)})>>, m)
  /\ Touch({Ptr(other)})
  /\ UNCHANGED history

-----------------------------------------------------------------------------
(* sampling.rs, llguidance_sampler.rs *)

sampler(uses, clones, selects) ==
  [native("sampler", uses) EXCEPT !.clones = clones, !.selects = selects]

\* temp, top_k, min_p and so on, from plain numbers.
InitFilter(clones) ==
  /\ Create(<<sampler({}, clones, FALSE)>>, 0)
  /\ misused' = {} /\ UNCHANGED history

\* penalties, mirostat, dist, greedy, logit_bias.
InitSelector(clones, selects) ==
  /\ Create(<<sampler({}, clones, selects)>>, 0)
  /\ misused' = {} /\ UNCHANGED history

\* sanitize_grammar_strings, sanitize_trigger_words, sanitize_trigger_patterns:
\* the tests before llama.cpp is called.
Sanitized(text) == text.has_root /\ ~text.null_byte /\ ~text.trigger_null_byte

GrammarTexts == [has_root : BOOLEAN, null_byte : BOOLEAN, trigger_null_byte : BOOLEAN,
                 parses : BOOLEAN]

\* grammar, grammar_lazy, grammar_lazy_patterns: the sampler points to the
\* vocabulary of the model; a null pointer is NullGrammar.
InitGrammar(m, text) ==
  /\ Sanitized(text) /\ text.parses
  /\ Create(<<sampler({Ptr(m)}, TRUE, FALSE)>>, 0)
  /\ Touch({Ptr(m)})
  /\ UNCHANGED history

\* dry reads the vocabulary, infill keeps it.
InitDry(m) ==
  /\ Create(<<sampler({}, TRUE, FALSE)>>, 0)
  /\ Touch({Ptr(m)})
  /\ UNCHANGED history

InitInfill(m) ==
  /\ Create(<<sampler({Ptr(m)}, TRUE, FALSE)>>, 0)
  /\ Touch({Ptr(m)})
  /\ UNCHANGED history

\* From<Matcher>: the box of the matcher belongs to the native sampler, whose
\* free callback llg_free drops it.
FromMatcher ==
  /\ Create(<<sampler({made + 2}, TRUE, FALSE),
              [native("matcher", {}) EXCEPT !.parent = made + 1]>>, 0)
  /\ misused' = {} /\ UNCHANGED history

\* The chain takes over the samplers of the values S, which are forgotten; it
\* selects if its last one does.
ChainObjects(S, last) ==
  [o \in Ids |->
     IF o = made + 1
     THEN sampler({Ptr(s) : s \in S}, TRUE, objs[Ptr(last)].selects)
     ELSE IF o \in {Ptr(s) : s \in S} THEN [objs[o] EXCEPT !.parent = made + 1]
     ELSE objs[o]]

\* Faulty variant: the samplers are not forgotten.
ChainWithoutForget(S) ==
  /\ made < MaxObjects /\ made' = made + 1
  /\ \E last \in S, v \in ValueIds :
       /\ Vacant(v)
       /\ objs' = ChainObjects(S, last)
       /\ values' = [values EXCEPT ![v] = NewValue(made + 1, TRUE, 0)]
  /\ misused' = {} /\ UNCHANGED history

Chain(S) ==
  /\ made < MaxObjects /\ made' = made + 1
  /\ \E last \in S, v \in S :
       /\ \A w \in S : v <= w
       /\ objs' = ChainObjects(S, last)
       /\ values' = [w \in ValueIds |-> IF w = v THEN NewValue(made + 1, TRUE, 0)
                                        ELSE IF w \in S THEN NoValue ELSE values[w]]
  /\ Touch({Ptr(s) : s \in S})
  /\ UNCHANGED history

\* The iterator panics after it has yielded S: no value for the chain yet.
ChainPanics(S) ==
  /\ made < MaxObjects /\ made' = made + 1
  /\ \E last \in S : objs' = ChainObjects(S, last)
  /\ values' = [w \in ValueIds |-> IF w \in S THEN NoValue ELSE values[w]]
  /\ abandoned' = abandoned \cup {made + 1} \cup Whole({Ptr(s) : s \in S})
  /\ misused' = {} /\ UNCHANGED <<exchanged, cloned, aborted>>

\* The numbers of the copies of the objects of whole, and what a pointer to x
\* becomes in the copies.
Copies(whole) == [x \in whole |-> made + Cardinality({y \in whole : y <= x})]
Copied(copy, x) == IF x \in DOMAIN copy THEN copy[x] ELSE x

\* llama_sampler_clone makes a copy of the object o with all that belongs to it.
CloneObjects(o, whole, copy) ==
  [y \in Ids |->
     IF \A x \in whole : copy[x] # y THEN objs[y]
     ELSE LET x == CHOOSE x \in whole : copy[x] = y
          IN  [objs[x] EXCEPT !.uses = {Copied(copy, u) : u \in objs[x].uses},
                              !.parent = IF x = o THEN 0 ELSE Copied(copy, objs[x].parent)]]

\* try_clone asks only the sampler itself whether it can be cloned: llama.cpp
\* clones the samplers of a chain one by one and aborts at one that cannot.
TryClone(s) ==
  /\ objs[Ptr(s)].clones
  /\ LET whole == Whole({Ptr(s)})
         copy == Copies(whole)
     IN
     IF \A o \in whole : objs[o].clones
     THEN /\ made + Cardinality(whole) <= MaxObjects
          /\ made' = made + Cardinality(whole)
          /\ objs' = CloneObjects(Ptr(s), whole, copy)
          /\ \E v \in ValueIds :
               /\ Vacant(v)
               /\ values' = [values EXCEPT ![v] = NewValue(copy[Ptr(s)], TRUE, 0)]
          /\ Touch({Ptr(s)})
          /\ UNCHANGED aborted
     ELSE /\ aborted' = "llama_sampler_clone"
          /\ misused' = {} /\ UNCHANGED <<objs, made, values>>
  /\ UNCHANGED <<abandoned, exchanged, cloned>>

\* apply, accept, accept_many, try_accept, reset, get_seed, apply_sampler: a
\* native call on the sampler.
UseSampler(s) ==
  /\ Touch({Ptr(s)})
  /\ UNCHANGED <<objs, made, values, history>>

\* sample: llama.cpp aborts if no token is selected, by this sampler, by one before
\* it in the chain, or by the backend samplers of the context.
Sample(s, c) ==
  /\ Touch({Ptr(s), Ptr(c)})
  /\ aborted' \in IF objs[Ptr(s)].selects THEN {"no"} ELSE {"no", "llama_sampler_sample"}
  /\ UNCHANGED <<objs, made, values, abandoned, exchanged, cloned>>

-----------------------------------------------------------------------------
(* speculative.rs *)

\* The two contexts are moved in; when new fails they are dropped.
NewMtp(target, draft) ==
  \/ /\ made < MaxObjects /\ made' = made + 1
     /\ objs' = [objs EXCEPT ![made + 1] = native("mtp", {Ptr(target), Ptr(draft)})]
     /\ \E v \in ValueIds :
          /\ Vacant(v)
          /\ values' = [w \in ValueIds |->
               IF w = v THEN NewValue(made + 1, TRUE, 0)
               ELSE IF w \in {target, draft} THEN [values[w] EXCEPT !.holder = v]
               ELSE values[w]]
     /\ Touch({Ptr(target), Ptr(draft)})
     /\ UNCHANGED history
  \/ /\ values' = Falling({target, draft})
     /\ misused' = {} /\ UNCHANGED <<objs, made, history>>

\* Through target_context_mut or draft_context_mut the caller can exchange the
\* context in the decoder for c; one that is put back is not counted as taken out.
ReplaceContext(p, inner, c) ==
  /\ values[inner] # NoValue /\ values[inner].holder = p
  /\ objs[values[inner].ptr].kind = "context"
  /\ values' = [values EXCEPT ![inner].holder = 0, ![c].holder = p]
  /\ exchanged' = (exchanged \cup {<<Ptr(p), Ptr(inner)>>}) \ {<<Ptr(p), Ptr(c)>>}
  /\ misused' = {} /\ UNCHANGED <<objs, made, abandoned, cloned, aborted>>

\* begin, process, draft, accept.
UseMtp(p) ==
  /\ Touch({Ptr(p)})
  /\ UNCHANGED <<objs, made, values, history>>

-----------------------------------------------------------------------------
(* mtmd.rs *)

\* The native context points to the text model; nothing borrows it.
InitFromFile(m) ==
  /\ Create(<<native("mtmd", {Ptr(m)})>>, 0)
  /\ misused' = {} /\ UNCHANGED history

\* from_image_data, from_audio_data.
BitmapFromData ==
  /\ Create(<<native("bitmap", {})>>, 0)
  /\ misused' = {} /\ UNCHANGED history

\* from_file, from_buffer.
BitmapFromFile(x) ==
  /\ Create(<<native("bitmap", {})>>, 0)
  /\ Touch({Ptr(x)})
  /\ UNCHANGED history

\* derive(Clone) copies the pointer.
CloneBitmap(b) ==
  /\ \E v \in ValueIds :
       /\ Vacant(v)
       /\ values' = [values EXCEPT ![v] = NewValue(Ptr(b), TRUE, 0)]
  /\ cloned' = cloned \cup {Ptr(b)}
  /\ misused' = {} /\ UNCHANGED <<objs, made, abandoned, exchanged, aborted>>

\* nx, ny, data, is_audio, id, set_id.
UseBitmap(b) ==
  /\ Touch({Ptr(b)})
  /\ UNCHANGED <<objs, made, values, history>>

\* MtmdInputChunks::new.
NewChunks ==
  /\ Create(<<native("chunks", {})>>, 0)
  /\ misused' = {} /\ UNCHANGED history

\* tokenize makes a collection and fills it (one chunk here); if that fails the
\* collection is dropped again.
Tokenize(x, B) ==
  /\ Create(<<native("chunks", {made + 2}),
              [native("chunk", {}) EXCEPT !.parent = made + 1]>>, 0)
  /\ Touch({Ptr(x)} \cup {Ptr(b) : b \in B})
  /\ UNCHANGED history

\* get: a value for a chunk that the collection owns; nothing borrows that.
GetChunk(c) ==
  /\ \E o \in objs[Ptr(c)].uses, v \in ValueIds :
       /\ Vacant(v)
       /\ values' = [values EXCEPT ![v] = NewValue(o, FALSE, 0)]
  /\ Touch({Ptr(c)})
  /\ UNCHANGED <<objs, made, history>>

\* copy: an object of its own.
CopyChunk(k) ==
  /\ Create(<<native("chunk", {})>>, 0)
  /\ Touch({Ptr(k)})
  /\ UNCHANGED history

\* chunk_type, text_tokens, n_tokens, n_positions, id; encode_chunk.
UseChunk(k) ==
  /\ Touch({Ptr(k)})
  /\ UNCHANGED <<objs, made, values, history>>

EncodeChunk(x, k) ==
  /\ Touch({Ptr(x), Ptr(k)})
  /\ UNCHANGED <<objs, made, values, history>>

EvalChunks(c, x, ctx) ==
  /\ Touch({Ptr(c), Ptr(x), Ptr(ctx)})
  /\ UNCHANGED <<objs, made, values, history>>

-----------------------------------------------------------------------------
Calls ==
  \/ LoadFromFile \/ FromMatcher \/ BitmapFromData \/ NewChunks
  \/ \E clones, selects \in BOOLEAN : InitFilter(clones) \/ InitSelector(clones, selects)
  \/ \E m \in ValuesOf("model") :
       \/ NewContext(m) \/ InitDry(m) \/ InitInfill(m) \/ InitFromFile(m)
       \/ \E text \in GrammarTexts : InitGrammar(m, text)
       \/ \E S \in SUBSET ValuesOf("sampler") : NewContextWithSamplers(m, S)
       \/ \E other \in ValuesOf("context") : NewContextWithCtxOther(m, other)
  \/ \E S \in SUBSET ValuesOf("sampler") \ {{}} : Chain(S) \/ ChainPanics(S)
  \/ \E s \in ValuesOf("sampler") :
       \/ TryClone(s) \/ UseSampler(s)
       \/ \E c \in ValuesOf("context") : Sample(s, c)
  \/ \E t, d \in ValuesOf("context") : t # d /\ NewMtp(t, d)
  \/ \E p \in ValuesOf("mtp") :
       \/ UseMtp(p)
       \/ \E inner \in ValueIds, c \in ValuesOf("context") : ReplaceContext(p, inner, c)
  \/ \E b \in ValuesOf("bitmap") : CloneBitmap(b) \/ UseBitmap(b)
  \/ \E x \in ValuesOf("mtmd") :
       \/ BitmapFromFile(x)
       \/ \E B \in SUBSET ValuesOf("bitmap") : Tokenize(x, B)
       \/ \E k \in ValuesOf("chunk") : EncodeChunk(x, k)
       \/ \E c \in ValuesOf("chunks"), y \in ValuesOf("context") : EvalChunks(c, x, y)
  \/ \E c \in ValuesOf("chunks") : GetChunk(c)
  \/ \E k \in ValuesOf("chunk") : CopyChunk(k) \/ UseChunk(k)

Bounded ==
  \E mix \in Mixes : \A k \in Kinds :
    Cardinality({o \in 1 .. made' : objs'[o].kind = k}) <= mix[k]

\* A drop runs to its end before the next call; what a call of another thread
\* could do meanwhile does not depend on the values that are being dropped.
Next ==
  LET falling == {v \in ValueIds : values[v] # NoValue /\ values[v].falling} IN
  /\ aborted = "no"
  /\ \/ falling = {} /\ Calls /\ Bounded
     \/ \E v \in (IF falling = {} THEN ValueIds ELSE falling) : Drop(v)

Spec == Init /\ [][Next]_vars

-----------------------------------------------------------------------------
(* Properties *)

\* Who frees o: the values that own it.
Owners(o) == {v \in ValueIds : values[v] # NoValue /\ values[v].ptr = o /\ values[v].owned}

\* Every native object that exists is freed by exactly one value, or with the
\* object it belongs to, or was abandoned by a panic in the iterator given to
\* `chain`: none is leaked, and none has two owners but a bitmap after the copy that
\* `derive(Clone)` makes of its pointer (mtmd.rs:364).
OneOwner ==
  \A o \in Made : objs[o].live =>
    \/ o \in abandoned
    \/ objs[o].parent # 0 /\ objs[objs[o].parent].live /\ Owners(o) = {}
    \/ objs[o].parent = 0 /\ Cardinality(Owners(o)) = 1
    \/ o \in cloned /\ Owners(o) # {}

\* The pointer from o to u has no lifetime in the wrapper: it is to the model of a
\* sampler or a multimodal context, to ctx_other, or to a context that the caller
\* has taken out of its decoder.
Untied(o, u) ==
  \/ <<objs[o].kind, objs[u].kind>> \in
       {<<"sampler", "model">>, <<"mtmd", "model">>, <<"context", "context">>}
  \/ <<o, u>> \in exchanged

\* As long as a native object exists, so do the ones it points to: a context's
\* model and backend samplers outlive it, also while its fields are dropped, a
\* chain's samplers live as long as the chain, and a decoder's contexts as long
\* as the decoder.  Excepted are the pointers without a lifetime; a decoder's
\* pointer to a context is one of them only from the moment the caller has moved that
\* context out through `target_context_mut` or `draft_context_mut`.
UsesAlive ==
  \A o \in Made : objs[o].live =>
    \A u \in objs[o].uses : objs[u].live \/ Untied(o, u)

\* A call reaches a freed object only through a pointer without a lifetime, through a
\* chunk from `get` whose collection is gone, or through a bitmap that was cloned, and
\* a drop frees an object again only if it is a bitmap that was cloned.
KnownMisuse ==
  \A p \in misused : LET o == p[1]
                         u == p[2]
                     IN  \/ o \notin {0, u} /\ Untied(o, u)
                         \/ o = u /\ objs[u].kind = "chunk"
                         \/ o \in {0, u} /\ u \in cloned

\* What try_clone says of itself (sampling.rs:31-36 and 58-60): "the preflight above
\* excludes llama.cpp's documented abort case".  It asks the sampler it clones and
\* not the samplers in it.
PreflightExcludesAbort == aborted # "llama_sampler_clone"

-----------------------------------------------------------------------------
(* The inductive invariant                                                 *)

\* Which kinds of objects point to which.
Pointers ==
  {<<"context", "model">>, <<"context", "sampler">>, <<"context", "context">>,
   <<"sampler", "model">>, <<"sampler", "sampler">>, <<"sampler", "matcher">>,
   <<"mtp", "context">>, <<"mtmd", "model">>, <<"chunks", "chunk">>}

\* A freed object points nowhere and belongs to none, an object does not outlive the
\* one it belongs to, and what a chain, a sampler with a matcher and a collection of
\* chunks point to belongs to them.
ObjectsInv ==
  \A o \in Made :
    /\ objs[o].uses \subseteq Made /\ objs[o].parent \in {0} \cup Made
    /\ ~objs[o].live => objs[o].uses = {} /\ objs[o].parent = 0
    /\ objs[o].parent # 0 =>
         objs[objs[o].parent].live /\ objs[o].kind \in {"sampler", "matcher", "chunk"}
    /\ \A u \in objs[o].uses :
         /\ <<objs[o].kind, objs[u].kind>> \in Pointers
         /\ objs[o].kind \in {"sampler", "chunks"} /\ objs[u].kind # "model" =>
              objs[u].parent = o

\* The object of a value that frees it is there and belongs to no other, but for
\* bitmaps; a value that does not is a chunk.
ValuesInv ==
  \A v \in ValueIds : values[v] # NoValue =>
    /\ values[v].owned =>
         /\ objs[Ptr(v)].parent = 0 /\ Ptr(v) \notin abandoned
         /\ objs[Ptr(v)].live \/ objs[Ptr(v)].kind = "bitmap"
    /\ ~values[v].owned => objs[Ptr(v)].kind = "chunk"

\* What belongs to no other object has an owner, and but for bitmaps only one.
OwnersInv ==
  \A o \in Made :
    /\ objs[o].live /\ objs[o].parent = 0 /\ o \notin abandoned => Owners(o) # {}
    /\ objs[o].kind # "bitmap" => \A v, w \in Owners(o) : v = w

\* The value of a context borrows that of its model, and holds those of its samplers.
HeldInv ==
  \A o \in Made : objs[o].live /\ objs[o].kind = "context" =>
    \A u \in objs[o].uses :
      /\ objs[u].kind = "model" =>
           \E v \in Owners(o), w \in Owners(u) : values[v].borrows = w
      /\ objs[u].kind = "sampler" =>
           \E v \in Owners(o), w \in Owners(u) : values[w].holder = v

\* The value of a decoder holds those of its contexts, but for the exchanged ones.
DecoderInv ==
  \A o \in Made : objs[o].live /\ objs[o].kind = "mtp" =>
    \A u \in objs[o].uses :
      \/ <<o, u>> \in exchanged
      \/ \E v \in Owners(o), w \in Owners(u) : values[w].holder = v

\* A bitmap that was not cloned has at most one value and lives as long as that.
BitmapInv ==
  \A o \in Made \ cloned : objs[o].kind = "bitmap" =>
    \A v, w \in Owners(o) : objs[o].live /\ v = w

IInv ==
  TypeOK /\ ObjectsInv /\ ValuesInv /\ OwnersInv /\ HeldInv /\ DecoderInv /\ BitmapInv
=============================================================================
