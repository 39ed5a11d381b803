--------------------------- MODULE MtpSpeculative ---------------------------
(***************************************************************************)
(* MTP speculative decoding: MtpSpeculative (llama-cpp-2/src/speculative.rs)*)
(* over the wrapper llama_rs_mtp_speculative                               *)
(* (llama-cpp-sys-2/wrapper_common.cpp).  The wrapper remembers whether a  *)
(* draft waits to be accepted, and how long it is; the caller knows only   *)
(* what the calls returned.  llama.cpp's drafter is external: it drafts    *)
(* any number of tokens (an overlong draft included), accepts, or throws,  *)
(* before or after it has done its work; so may the copy of the prompt.    *)
(*                                                                         *)
(* Drafts are numbered; tokens, prompts and probabilities are left out.    *)
(* Each method has &mut self: a call is one step.                          *)
(***************************************************************************)
EXTENDS Integers, Sequences

CONSTANTS
  Params,     \* the <<n_max, n_min>> a caller may pass
  MaxDrafts   \* bound: number of drafts the native drafter makes

ASSUME ParamsAssumption ==
  /\ Params \subseteq Int \X Int
  /\ MaxDrafts \in Nat

VARIABLES
  raw,             \* the wrapper: "none", "live" or "freed"
  n_max,           \* MtpSpeculative.n_max
  draft_pending,   \* llama_rs_mtp_speculative.draft_pending
  last_draft_len,  \* llama_rs_mtp_speculative.last_draft_len
  drafted,         \* native: number of the draft in spec->draft and its length
  in_hand,         \* caller: the draft it was given last and must still answer, or NoDraft
  doubt,           \* caller: a begin failed, and whether it took effect is unknown
  accepted,        \* history: the drafts for which accept returned Ok, one for each time
  told,            \* what common_speculative_accept was last called with, or NoTold
  result           \* of the last call

vars == <<raw, n_max, draft_pending, last_draft_len, drafted, in_hand, doubt, accepted,
          told, result>>
wrapper_vars == <<draft_pending, last_draft_len, drafted>>
caller_vars  == <<in_hand, doubt, accepted, told>>

NoDraft == [id |-> 0, len |-> 0]
NoTold  == [draft |-> NoDraft, given |-> NoDraft, n |-> 0]

Init ==
  /\ raw = "none"
  /\ n_max = 0
  /\ draft_pending = FALSE
  /\ last_draft_len = 0
  /\ drafted = NoDraft
  /\ in_hand = NoDraft
  /\ doubt = FALSE
  /\ accepted = <<>>
  /\ told = NoTold
  /\ result = "none"

----------------------------------------------------------------------------
\* new, and llama_rs_mtp_speculative_init, which checks the same again
params_ok(p) == p[1] > 0 /\ p[2] >= 0 /\ p[2] <= p[1]

New(p) ==
  /\ raw = "none"
  /\ IF params_ok(p)
     THEN \/ raw' = "live" /\ n_max' = p[1] /\ result' = "Ok"
          \/ result' = "InitFailed" /\ UNCHANGED <<raw, n_max>>
     ELSE result' = "InvalidParams" /\ UNCHANGED <<raw, n_max>>
  /\ UNCHANGED <<wrapper_vars, caller_vars>>

Live == raw = "live" /\ UNCHANGED <<raw, n_max>>

\* The wrapper gives up the draft it waits for.
forget == draft_pending' = FALSE /\ last_draft_len' = 0

Begin ==
  /\ Live
  /\ forget
  /\ result' = "Ok"
  /\ in_hand' = NoDraft
  /\ doubt' = FALSE
  /\ UNCHANGED <<drafted, accepted, told>>

\* An exception from the copy of the prompt leaves the draft pending, one from
\* common_speculative_begin comes after it was given up.
BeginThrows ==
  /\ Live
  /\ forget \/ UNCHANGED <<draft_pending, last_draft_len>>
  /\ result' = "Exception"
  /\ doubt' = (doubt \/ in_hand # NoDraft)
  /\ UNCHANGED <<drafted, in_hand, accepted, told>>

\* process: a batch that is not for sequence 0 only is refused; nothing of the
\* wrapper changes in any case.
Process(compatible) ==
  /\ Live
  /\ result' \in IF compatible THEN {"Ok", "Exception"} ELSE {"InvalidArgument"}
  /\ UNCHANGED <<wrapper_vars, caller_vars>>

\* draft is refused: n_past is negative (InvalidParams, by draft itself) or a draft
\* is pending.
DraftRefused(n_past) ==
  /\ Live
  /\ n_past < 0 \/ draft_pending
  /\ result' = IF n_past < 0 THEN "InvalidParams" ELSE "InvalidArgument"
  /\ UNCHANGED <<wrapper_vars, caller_vars>>

\* Faulty variant: a pending draft does not stop the next one.
CanDraftAnyway(n_past) == Live /\ n_past >= 0 /\ drafted.id < MaxDrafts

\* draft reaches the drafter.
CanDraft(n_past) == Live /\ n_past >= 0 /\ ~draft_pending /\ drafted.id < MaxDrafts

\* How much of a draft of this length gets to the caller: it fits into raw_out, or
\* it is given up.
delivered(len) == IF len > n_max THEN 0 ELSE len

Draft(n_past, len) ==
  LET draft == [id |-> drafted.id + 1, len |-> len]
  IN /\ CanDraft(n_past)
     /\ drafted' = draft
     /\ last_draft_len' = delivered(len)
     /\ draft_pending' = (delivered(len) > 0)
     /\ result' = IF len > n_max THEN "DraftOverflow" ELSE "Ok"
     /\ in_hand' = IF len \in 1..n_max THEN draft ELSE NoDraft
     /\ doubt' = FALSE
     /\ UNCHANGED <<accepted, told>>

\* An exception from the copy of the prompt, or from the drafter, which may have
\* put tokens into the draft.
DraftThrows(n_past, len) ==
  /\ CanDraft(n_past)
  /\ \/ UNCHANGED <<drafted, last_draft_len>>
     \/ drafted' = [id |-> drafted.id + 1, len |-> len] /\ last_draft_len' = 0
  /\ result' = "Exception"
  /\ UNCHANGED <<draft_pending, caller_vars>>

\* Faulty variant: the length is not compared.
accept_ok_any(n) == draft_pending

\* The guard of llama_rs_mtp_speculative_accept.
accept_ok(n) == draft_pending /\ n <= last_draft_len

AcceptRefused(n) ==
  /\ Live
  /\ ~accept_ok(n)
  /\ result' = "InvalidArgument"
  /\ UNCHANGED <<wrapper_vars, caller_vars>>

tell(n) == told' = [draft |-> drafted, given |-> in_hand, n |-> n]

\* Faulty variant: the draft stays pending.
AcceptKeepsDraft(n) ==
  /\ Live
  /\ accept_ok(n)
  /\ tell(n)
  /\ result' = "Ok"
  /\ accepted' = Append(accepted, drafted.id)
  /\ in_hand' = NoDraft
  /\ doubt' = FALSE
  /\ UNCHANGED wrapper_vars

Accept(n) ==
  /\ Live
  /\ accept_ok(n)
  /\ tell(n)
  /\ forget
  /\ result' = "Ok"
  /\ accepted' = Append(accepted, drafted.id)
  /\ in_hand' = NoDraft
  /\ doubt' = FALSE
  /\ UNCHANGED drafted

AcceptThrows(n) ==
  /\ Live
  /\ accept_ok(n)
  /\ tell(n)
  /\ result' = "Exception"
  /\ UNCHANGED <<wrapper_vars, in_hand, doubt, accepted>>

Drop ==
  /\ raw = "live"
  /\ raw' = "freed"
  /\ result' = "none"
  /\ UNCHANGED <<n_max, wrapper_vars, caller_vars>>

----------------------------------------------------------------------------
Lengths == 0..(n_max + 1)

Next ==
  \/ \E p \in Params : New(p)
  \/ Begin
  \/ BeginThrows
  \/ \E compatible \in BOOLEAN : Process(compatible)
  \/ \E n_past \in {-1, 0} :
       \/ DraftRefused(n_past)
       \/ \E len \in Lengths : Draft(n_past, len) \/ DraftThrows(n_past, len)
  \/ \E n \in Lengths : AcceptRefused(n) \/ Accept(n) \/ AcceptThrows(n)
  \/ Drop

Spec == Init /\ [][Next]_vars

----------------------------------------------------------------------------
(* Properties *)

DraftType == [id: Nat, len: Nat]

\* The wrapper, the drafter and the caller's view have their types.
TypeOK ==
  /\ raw \in {"none", "live", "freed"}
  /\ n_max \in Nat
  /\ draft_pending \in BOOLEAN
  /\ last_draft_len \in 0..n_max
  /\ drafted \in DraftType
  /\ in_hand \in DraftType
  /\ doubt \in BOOLEAN
  /\ accepted \in Seq(Nat)
  /\ told \in [draft: DraftType, given: DraftType, n: Nat]
  /\ result \in {"none", "Ok", "InvalidParams", "InitFailed", "InvalidArgument",
                 "Exception", "DraftOverflow"}

\* What the caller can conclude from the results is what the wrapper has: a draft
\* is pending exactly if the caller was given a nonempty one that it has not had
\* accepted, through overlong and empty drafts and exceptions at any point; only
\* a begin that failed leaves open whether the draft was given up.
CallerInStep ==
  /\ draft_pending => in_hand # NoDraft /\ last_draft_len = in_hand.len
  /\ ~draft_pending => last_draft_len = 0
  /\ ~doubt => (draft_pending <=> in_hand # NoDraft)

\* llama.cpp is never told to accept tokens that it did not draft last or that the
\* caller has not seen: accept speaks of the draft in the drafter, it is the one
\* the caller was given, and no more of it than it has.
ToldOfLastDraft ==
  told # NoTold => told.draft = told.given /\ told.n <= told.draft.len

\* A draft is settled once: each accept that returns Ok speaks of a draft made after
\* all those that were accepted before, so none is accepted a second time, whatever
\* threw in between; and a draft is not made over one that waits for its answer,
\* unless a failed begin gave it up.
SettledOnce ==
  [][/\ accepted' # accepted =>
          \A i \in DOMAIN accepted : accepted[i] < accepted'[Len(accepted')]
     /\ drafted' # drafted => in_hand = NoDraft \/ doubt]_vars
=============================================================================
