----------------------------- MODULE ModelText -----------------------------
(***************************************************************************)
(* Texts that LlamaModel gets from llama.cpp (model.rs): tokens of a       *)
(* string, pieces of tokens, metadata and chat prompts.  Each call offers  *)
(* a buffer whose size is a guess, learns from the result how large the    *)
(* text is, and may try again; the functions of llama.cpp have three       *)
(* different conventions for that.                                         *)
(*                                                                         *)
(* A step is one native call.  Bytes are "a" (a character of its own), "l" *)
(* and "t" (the first and second byte of a character) and "n" (null).      *)
(***************************************************************************)
EXTENDS Integers, Sequences

CONSTANTS
  Pieces,       \* the pieces of the tokens
  Texts,        \* metadata and prompts, without null bytes
  MaxString,    \* bound: bytes of a string to tokenize
  PieceBuffer,  \* the 8 bytes, or tokens, of the first try
  MetaBuffer,   \* the 256 bytes of the first try
  MaxStream     \* bound: pieces that one decoder is given

ASSUME TextAssumption ==
  /\ {PieceBuffer, MetaBuffer} \subseteq Nat \ {0}
  /\ MaxString \in Nat /\ MaxStream \in Nat
  /\ \A x \in Texts \cup Pieces : x \in Seq({"a", "l", "t", "n"})
  /\ \A x \in Texts : \A i \in DOMAIN x : x[i] # "n"

(***************************************************************************)
(* call    the call that is being executed: the pieces or the text that    *)
(*         llama.cpp has for it (none: it answers with an error), the      *)
(*         result so far, the buffer's size, and whether it was too small  *)
(* ret     what the last call returned, and what llama.cpp had for it,     *)
(*         until the next call                                             *)
(* stream  a decoder that token_to_piece is given again and again: the     *)
(*         byte it holds back, the text returned so far, and as history    *)
(*         the bytes of all the pieces and whether each was whole          *)
(*         characters                                                      *)
(***************************************************************************)
VARIABLES call, ret, stream

textVars == <<call, ret, stream>>

NoCall == [op |-> "none"]
NoReturn == [kind |-> "none", of |-> "none", bytes |-> <<>>, had |-> <<>>]
NewDecoder == [held |-> FALSE, text |-> <<>>, bytes |-> <<>>, whole |-> TRUE, n |-> 0]

PieceOps == {"token_to_piece", "token_to_str", "token_to_bytes", "tokens_to_str",
             "token_to_piece_bytes", "token_to_str_with_size", "token_to_bytes_with_size"}
Ops == PieceOps \cup {"str_to_token", "extract_meta_string", "apply_chat_template"}
Errors == {"NulError", "UnknownTokenType", "InsufficientBufferSpace", "FromUtf8Error",
           "NegativeReturn", "FfiError", "MissingTemplate", "CIntConversionError"}

TextInit ==
  /\ call = NoCall
  /\ ret = NoReturn
  /\ stream = NewDecoder

Return(kind, bytes, had) ==
  /\ ret' = [kind |-> kind, of |-> call.op, bytes |-> bytes, had |-> had]
  /\ call' = NoCall

Fails(kind) == Return(kind, <<>>, <<>>)

\* What llama.cpp has for a string with more tokens, or bytes, than a c_int counts.
TooMany == <<"n">>

Offer(op, texts, cap) ==
  /\ call = NoCall
  /\ call' = [op |-> op, texts |-> texts, built |-> <<>>, cap |-> cap, retried |-> FALSE]
  /\ ret' = NoReturn
  /\ UNCHANGED stream

TryAgain(cap) == call' = [call EXCEPT !.cap = cap, !.retried = TRUE] /\ UNCHANGED ret

-----------------------------------------------------------------------------
(* Bytes and characters *)

BeforeNull(bytes) ==
  SubSeq(bytes, 1, CHOOSE n \in 0 .. Len(bytes) :
                     /\ \A i \in 1 .. n : bytes[i] # "n"
                     /\ n < Len(bytes) => bytes[n + 1] = "n")

\* String::from_utf8
Utf8(bytes) ==
  \A i \in DOMAIN bytes :
    /\ bytes[i] = "l" => i < Len(bytes) /\ bytes[i + 1] = "t"
    /\ bytes[i] = "t" => i > 1 /\ bytes[i - 1] = "l"

\* The first bytes of a buffer of size n that held the fill byte when llama.cpp
\* wrote the text to it, which ends at the room it was given.
Buffer(text, room, n, fill) ==
  [i \in 1 .. n |-> IF i <= Len(text) /\ i <= room THEN text[i] ELSE fill]

(***************************************************************************)
(* encoding_rs: decode_to_string reads bytes into a string that it does    *)
(* not enlarge.  Characters whose bytes are all in the source are copied   *)
(* when they fit; every other byte, and whatever follows a byte that is    *)
(* held back, is only read when there is room for the longest character,   *)
(* of four bytes.  Without room the decoder stops.  "x" is the character   *)
(* of "l" and "t", "r" the replacement character.                          *)
(***************************************************************************)
width(c) == CASE c = "x" -> 2 [] c = "r" -> 3 [] OTHER -> 1

\* The room without which the n-th byte is not read.
needed(bytes, n) ==
  CASE bytes[n] = "l" /\ n < Len(bytes) /\ bytes[n + 1] = "t" -> 2
    [] bytes[n] = "t" /\ n > 1 /\ bytes[n - 1] = "l" -> 2
    [] bytes[n] \notin {"l", "t"} -> 1
    [] OTHER -> 4

emit(d, c, need) ==
  IF d.full \/ d.room < need THEN [d EXCEPT !.full = TRUE]
  ELSE [held |-> FALSE, full |-> FALSE, room |-> d.room - width(c), out |-> Append(d.out, c)]

hold(d, need) ==
  IF d.full \/ d.room < need THEN [d EXCEPT !.full = TRUE] ELSE [d EXCEPT !.held = TRUE]

read(d, b, need) ==
  IF b = "t" THEN emit(d, IF d.held THEN "x" ELSE "r", need)
  ELSE LET e == IF d.held THEN emit(d, "r", 4) ELSE d
       IN  IF b = "l" THEN hold(e, need) ELSE emit(e, b, need)

decode_to_string(held, bytes, room) ==
  LET after[n \in 0 .. Len(bytes)] ==
        IF n = 0 THEN [held |-> held, full |-> FALSE, room |-> room, out |-> <<>>]
        ELSE read(after[n - 1], bytes[n], needed(bytes, n))
  IN  after[Len(bytes)]

\* What the bytes say.
Decoded(bytes) == decode_to_string(FALSE, bytes, 3 * (Len(bytes) + 1))

-----------------------------------------------------------------------------
(* str_to_token *)

\* n tokens come of a string of s bytes ...
StrToToken(s, add_bos, n) ==
  Offer("str_to_token", <<[i \in 1 .. n |-> "a"]>>,
        LET estimate == (s \div 2) + (IF add_bos THEN 1 ELSE 0)
        IN  IF estimate > PieceBuffer THEN estimate ELSE PieceBuffer)

StrToTokenOverflows == Offer("str_to_token", <<>>, PieceBuffer)

\* ... but for one that has a null byte, or more bytes than a c_int counts, of
\* which half are the size of the buffer.
StrToTokenRefused ==
  /\ call = NoCall
  /\ \/ \E kind \in {"NulError", "CIntConversionError"} :
          ret' = [kind |-> kind, of |-> "str_to_token", bytes |-> <<>>, had |-> <<>>]
     \/ ret' = [kind |-> "panic", of |-> "str_to_token", bytes |-> <<>>, had |-> TooMany]
  /\ UNCHANGED <<call, stream>>

\* llama_tokenize returns the negated number of tokens if they do not fit, and
\* INT32_MIN if there are too many to say, which cannot be negated.
tokenize_retry(n) == n

Tokenize ==
  LET tokens == call.texts[1] IN
  /\ call.op = "str_to_token"
  /\ \/ call.texts = <<>> /\ Return("panic", <<>>, TooMany)
     \/ /\ call.texts # <<>> /\ Len(tokens) > call.cap
        /\ IF call.retried THEN Fails("panic") ELSE TryAgain(tokenize_retry(Len(tokens)))
     \/ /\ call.texts # <<>> /\ Len(tokens) <= call.cap
        /\ Return("Ok", Buffer(tokens, call.cap, Len(tokens), "?"), tokens)
  /\ UNCHANGED stream

-----------------------------------------------------------------------------
(* token_to_piece and its relatives *)

TokenToPiece(p) == stream.n < MaxStream /\ Offer("token_to_piece", <<p>>, PieceBuffer)
TokenToStr(p) == Offer("token_to_str", <<p>>, PieceBuffer)
TokenToBytes(p) == Offer("token_to_bytes", <<p>>, PieceBuffer)
TokensToStr(ps) == Offer("tokens_to_str", ps, PieceBuffer)
TokenToPieceBytes(p, buffer_size) == Offer("token_to_piece_bytes", <<p>>, buffer_size)
TokenToStrWithSize(p, buffer_size) == Offer("token_to_str_with_size", <<p>>, buffer_size)

\* The newline token, and the ones whose attributes say that they have no text,
\* are answered without llama.cpp.
TokenToBytesWithSize(p, buffer_size) ==
  \/ Offer("token_to_bytes_with_size", <<p>>, buffer_size)
  \/ /\ call = NoCall
     /\ \E known \in {<<"a">>, <<>>} :
          ret' = [kind |-> "Ok", of |-> "token_to_bytes_with_size",
                  bytes |-> known, had |-> known]
     /\ UNCHANGED <<call, stream>>

\* Faulty variant: the bytes of the buffer are not cut to the piece.
untruncated(piece, buffer_size) ==
  BeforeNull(Buffer(piece, buffer_size, buffer_size, "*"))

\* The buffer of token_to_piece_bytes is a CString of stars, so that its length is
\* measured again, up to the first null byte, and then cut to the piece.
piece_bytes(piece, buffer_size) ==
  LET bytes == BeforeNull(Buffer(piece, buffer_size, buffer_size, "*"))
  IN  IF Len(bytes) <= Len(piece) THEN bytes ELSE SubSeq(bytes, 1, Len(piece))

\* Faulty variant: the room is counted in characters.
capacity_in_characters(bytes) == Len(SelectSeq(bytes, LAMBDA b : b # "t"))

\* The room in the string that a piece is decoded into.
output_capacity(bytes) == Len(bytes)

\* extend_from_slice: the pieces one after the other.
joined(pieces) ==
  LET first[n \in 0 .. Len(pieces)] == IF n = 0 THEN <<>> ELSE first[n - 1] \o pieces[n]
  IN  first[Len(pieces)]

\* How the call ends once it has all its bytes.
Finish(bytes, had) ==
  IF call.op \in {"token_to_piece", "token_to_str"}
  THEN LET held == call.op = "token_to_piece" /\ stream.held
           d == decode_to_string(held, bytes, output_capacity(bytes))
       IN  /\ Return("Ok", d.out, had)
           /\ stream' = IF call.op = "token_to_str" THEN stream
                        ELSE [held |-> d.held, text |-> stream.text \o d.out,
                              bytes |-> stream.bytes \o bytes,
                              whole |-> stream.whole /\ Utf8(bytes),
                              n |-> stream.n + 1]
  ELSE /\ IF call.op \in {"tokens_to_str", "token_to_str_with_size"} /\ ~Utf8(bytes)
          THEN Fails("FromUtf8Error")
          ELSE Return("Ok", bytes, had)
       /\ UNCHANGED stream

\* llama_token_to_piece returns 0 for a piece without bytes and the negated size
\* of one that does not fit; only the callers that guess the size try again.
Piece ==
  LET piece == call.texts[Len(call.built) + 1]
      built == Append(call.built, piece_bytes(piece, call.cap))
  IN
  /\ call.op \in PieceOps
  /\ \/ /\ piece = <<>> /\ Fails("UnknownTokenType") /\ UNCHANGED stream
     \/ /\ Len(piece) > call.cap
        /\ IF call.op \in {"token_to_piece", "token_to_str", "token_to_bytes"} /\ ~call.retried
           THEN TryAgain(Len(piece))
           ELSE Fails("InsufficientBufferSpace")
        /\ UNCHANGED stream
     \/ /\ piece # <<>> /\ Len(piece) <= call.cap
        /\ IF Len(built) < Len(call.texts)
           THEN call' = [call EXCEPT !.built = built] /\ UNCHANGED <<ret, stream>>
           ELSE Finish(joined(built), joined(call.texts))

-----------------------------------------------------------------------------
(* extract_meta_string, for meta_val_str, meta_key_by_index and                *)
(* meta_val_str_by_index                                                       *)

MetaString(texts) == Offer("extract_meta_string", texts, MetaBuffer)

\* Faulty variant: no room for the null byte.
meta_retry_same(returned_len) == returned_len

meta_retry(returned_len) == returned_len + 1

\* The native functions are snprintf: they return the length of the whole text and
\* write as much as fits with a null byte; or they find no such entry.
Meta ==
  LET text == call.texts[1] IN
  /\ call.op = "extract_meta_string"
  /\ \/ call.texts = <<>> /\ Fails("NegativeReturn")
     \/ /\ call.texts # <<>> /\ Len(text) >= call.cap
        /\ TryAgain(meta_retry(Len(text)))
     \/ /\ call.texts # <<>> /\ Len(text) < call.cap
        /\ IF Utf8(text)
           THEN Return("Ok", Buffer(text, call.cap - 1, Len(text), "n"), text)
           ELSE Fails("FromUtf8Error")
  /\ UNCHANGED stream

-----------------------------------------------------------------------------
(* Chat templates *)

\* The first buffer has twice the size of all messages.
ApplyChatTemplate(texts, message_length) ==
  Offer("apply_chat_template", texts, 2 * message_length)

\* llama_chat_apply_template returns the length of the whole prompt and writes as
\* much as fits.
ApplyTemplate ==
  LET text == call.texts[1] IN
  /\ call.op = "apply_chat_template"
  /\ \/ call.texts = <<>> /\ Fails("FfiError")
     \/ /\ call.texts # <<>> /\ Len(text) > call.cap
        /\ IF call.retried THEN Fails("panic") ELSE TryAgain(Len(text))
     \/ /\ call.texts # <<>> /\ Len(text) <= call.cap
        /\ IF Utf8(text)
           THEN Return("Ok", Buffer(text, call.cap, Len(text), "n"), text)
           ELSE Fails("FromUtf8Error")
  /\ UNCHANGED stream

\* chat_template(name): the CString of the name is moved into the match arm and
\* freed there, so that llama.cpp reads the name from freed memory and finds any
\* template or none; a name with a null byte becomes no name.
ChatTemplate(name) ==
  /\ call = NoCall
  /\ \E found \in (IF name = "valid" THEN {"default", "named", "none"}
                   ELSE {"default", "none"}) :
       ret' = [kind |-> IF found = "none" THEN "MissingTemplate" ELSE "Ok",
               of |-> "chat_template", bytes |-> <<>>, had |-> <<>>]
  /\ UNCHANGED <<call, stream>>

-----------------------------------------------------------------------------
Native == Tokenize \/ Piece \/ Meta \/ ApplyTemplate

TextNext ==
  \/ Native
  \/ \E s \in 0 .. MaxString, add_bos \in BOOLEAN :
       \E n \in 0 .. s + 2 : StrToToken(s, add_bos, n)
  \/ StrToTokenRefused \/ StrToTokenOverflows
  \/ \E p \in Pieces :
       \/ TokenToPiece(p) \/ TokenToStr(p) \/ TokenToBytes(p)
       \/ \E size \in 0 .. PieceBuffer + 1 :
            \/ TokenToPieceBytes(p, size) \/ TokenToStrWithSize(p, size)
            \/ TokenToBytesWithSize(p, size)
       \/ \E q \in Pieces : TokensToStr(<<p, q>>)
  \/ \E texts \in {<<>>} \cup {<<text>> : text \in Texts} :
       \/ MetaString(texts)
       \/ \E m \in 0 .. PieceBuffer : ApplyChatTemplate(texts, m)
  \/ \E name \in {"none", "valid", "null byte"} : ChatTemplate(name)

TextSpec == TextInit /\ [][TextNext]_textVars /\ WF_textVars(Native)

-----------------------------------------------------------------------------
(* Properties *)

\* Each of the three conventions for a buffer that is too small is followed: a
\* call that succeeds returns all that llama.cpp had and nothing that it did not
\* write, at whichever try, but for a piece with a null byte, which ends there.
\* And the second try is large enough: only a string with more tokens than a c_int
\* counts panics, or with so many bytes that the first buffer has more.
OkIsWhole ==
  /\ ret.kind = "Ok" /\ ret.of \notin {"token_to_piece", "token_to_str"} =>
       \/ ret.bytes = ret.had
       \/ /\ ret.of \in PieceOps
          /\ \E i \in DOMAIN ret.had : ret.had[i] = "n"
          /\ \A i \in DOMAIN ret.bytes : ret.bytes[i] \in {"a", "l", "t"}
          /\ Len(ret.bytes) < Len(ret.had)
  /\ ret.kind = "panic" => ret.had = TooMany

\* A stream of pieces, each of them whole characters, comes out of token_to_piece
\* as it is, although the string for a piece has no room beyond its bytes.
WholeCharactersDelivered ==
  stream.whole => ~stream.held /\ stream.text = Decoded(stream.bytes).out

\* Every call ends: no buffer is found too small forever.
EveryCallReturns == call # NoCall ~> call = NoCall

\* "tokens from language models may not always map to full characters [...] so
\* stateful decoding is required, otherwise partial strings may be lost!", and if
\* "the output was full [...] further decoding will happen on the next interation
\* anyway" (model.rs, token_to_piece): a character whose bytes come in several
\* pieces is returned with the last of them.
SplitCharactersDelivered ==
  Utf8(stream.bytes) => stream.text = Decoded(stream.bytes).out
=============================================================================
