----------------------------- MODULE LlgSampler -----------------------------
(***************************************************************************)
(* The llguidance sampler (llguidance_sampler.rs): the token environment   *)
(* that is built from the pieces of a model's vocabulary (ModelText), and  *)
(* the callbacks by which llama.cpp drives a Matcher.                      *)
(*                                                                         *)
(* llguidance is external: a matcher has a grammar, here the set of its    *)
(* texts, and has read a part of one.  It stops at the end, and is         *)
(* poisoned for good by a token that it did not expect.                    *)
(***************************************************************************)
EXTENDS ModelText

CONSTANTS
  Vocab,       \* per token: its text, its text as a special token, and whether it
               \* ends a generation
  Language,    \* the texts of the grammar
  Samplers     \* the caller's places for a sampler

Tokens == DOMAIN Vocab
Marker == "0xFF"

\* llama.cpp leaves out the text of a special token unless it is asked for.
ASSUME VocabAssumption ==
  /\ \A t \in Tokens : /\ Vocab[t].special \in Seq({"a", "l", "t", "n"})
                       /\ Vocab[t].text \in {<<>>, Vocab[t].special}
  /\ \E t \in Tokens : Vocab[t].eog

\* No grammar without a text.
ASSUME LanguageAssumption ==
  Language # {} /\ Language \subseteq Seq({"a", "l", "t", "n", Marker})

(***************************************************************************)
(* llg    the samplers: the matcher's state and what it has read, and as   *)
(*        history the text that was generated since the last reset, and    *)
(*        whether it was fed a token that its mask had not allowed         *)
(***************************************************************************)
VARIABLE llg

NoSampler == [state |-> "none", read |-> <<>>, text |-> <<>>, fed |-> FALSE]
Fresh == [state |-> "running", read |-> <<>>, text |-> <<>>, fed |-> FALSE]

LlgInit == llg = [k \in Samplers |-> NoSampler]

-----------------------------------------------------------------------------
(* llguidance_build_tok_env *)

\* token_to_piece_bytes(token, 32, ..).unwrap_or_default()
bytes_or_none(piece) ==
  IF Len(piece) \in 1 .. PieceBuffer THEN piece_bytes(piece, PieceBuffer) ELSE <<>>

\* The bytes by which the matcher knows a token; <<>> if it cannot be matched.
word(t) ==
  LET plain == bytes_or_none(Vocab[t].text)
      special == bytes_or_none(Vocab[t].special)
  IN  IF plain # <<>> THEN plain ELSE IF special = <<>> THEN <<>> ELSE <<Marker>> \o special

\* The registered end tokens: the primary one first, then the others of the walk.
eog_tokens == {t \in Tokens : Vocab[t].eog}

-----------------------------------------------------------------------------
(* The matcher *)

Expected(bytes) == \E x \in Language : \E n \in 0 .. Len(x) : bytes = SubSeq(x, 1, n)
Complete(bytes) == bytes \in Language

Follows(m) == {t \in Tokens \ eog_tokens : word(t) # <<>> /\ Expected(m.read \o word(t))}

\* compute_mask_or_eos
mask(m) ==
  IF m.state = "stopped" THEN eog_tokens
  ELSE Follows(m) \cup (IF Complete(m.read) THEN eog_tokens ELSE {})

consume_token(m, t) ==
  IF m.state # "running" \/ t \notin mask(m) THEN [m EXCEPT !.state = "poisoned"]
  ELSE IF t \in eog_tokens THEN [m EXCEPT !.state = "stopped"]
  ELSE LET n == [m EXCEPT !.read = m.read \o word(t)]
       IN  IF Follows(n) = {} /\ Complete(n.read) THEN [n EXCEPT !.state = "stopped"] ELSE n

-----------------------------------------------------------------------------
(* The callbacks *)

\* Faulty variant: a token after the end is consumed.
llg_accept_always(m, t) == consume_token(m, t)

\* is_stopped: also after an error.
llg_accept(m, t) == IF m.state # "running" THEN m ELSE consume_token(m, t)

\* llg_apply: the tokens that are left a logit; all of them after an error.
llg_apply(m) == IF m.state = "poisoned" THEN Tokens ELSE mask(m)

\* An error of reset is ignored.
llg_reset(m) == IF m.state = "poisoned" THEN m ELSE Fresh

IsSampler(k) == llg[k].state # "none"

FromMatcher(k) == ~IsSampler(k) /\ llg' = [llg EXCEPT ![k] = Fresh]

\* sample: the mask, a token that it leaves, and the accept of that token.
SampleAllowed(k, t) ==
  /\ IsSampler(k) /\ t \in llg_apply(llg[k])
  /\ llg' = [llg EXCEPT ![k] =
       [llg_accept(llg[k], t) EXCEPT
          !.text = IF llg[k].fed \/ Vocab[t].eog THEN llg[k].text
                   ELSE llg[k].text \o (IF Vocab[t].text # <<>> THEN Vocab[t].text
                                        ELSE <<Marker>> \o Vocab[t].special)]]

\* accept, accept_many, with_tokens, try_accept: of any token.
AcceptAny(k, t) ==
  /\ IsSampler(k) /\ t \notin llg_apply(llg[k])
  /\ llg' = [llg EXCEPT ![k] = [llg_accept(llg[k], t) EXCEPT !.fed = TRUE]]

Reset(k) == IsSampler(k) /\ llg' = [llg EXCEPT ![k] = llg_reset(llg[k])]

\* llg_clone: deep_clone
CloneSampler(k, j) ==
  /\ IsSampler(k) /\ ~IsSampler(j)
  /\ llg' = [llg EXCEPT ![j] = llg[k]]

FreeSampler(k) == IsSampler(k) /\ llg' = [llg EXCEPT ![k] = NoSampler]

LlgNext ==
  \E k \in Samplers :
    \/ FromMatcher(k) \/ Reset(k) \/ FreeSampler(k)
    \/ \E t \in Tokens : SampleAllowed(k, t) \/ AcceptAny(k, t)
    \/ \E j \in Samplers : CloneSampler(k, j)

LlgSpec == LlgInit /\ [][LlgNext]_llg

-----------------------------------------------------------------------------
(* Properties *)

\* A generation that only takes tokens from the mask, across resets and in clones
\* that go on by themselves, keeps to the grammar: the matcher has read what was
\* generated, a token too long for the buffer is never allowed, the end tokens
\* that come again and again after the end do not poison it ("Consuming a token
\* into an already-stopped parser errors and permanently poisons the matcher"),
\* and at the end of a text every token by which the model may end is allowed ("a
\* model that ends via a secondary EOG token would otherwise be unable to stop").
\* Excepted are pieces with a null byte, of which the matcher knows the beginning.
GrammarKept ==
  \A k \in Samplers : IsSampler(k) /\ ~llg[k].fed =>
    /\ llg[k].state # "poisoned"
    /\ Expected(llg[k].read)
    /\ llg[k].text = llg[k].read \/ \E i \in DOMAIN llg[k].text : llg[k].text[i] = "n"
    /\ llg[k].state = "stopped" => Complete(llg[k].read)
    /\ Complete(llg[k].read) => \A t \in Tokens : Vocab[t].eog => t \in llg_apply(llg[k])
=============================================================================
