--------------------------- MODULE CaptureReadout ---------------------------
(***************************************************************************)
(* What hidden-state capture promises to the caller of a LlamaContext      *)
(* (docs/hidden-state-capture.md, "Contract"): a readout with one place.   *)
(* It holds nothing, a failure, or the snapshot of one decode; a decode    *)
(* empties it and may fill it once, an encode or a failure fills it with a *)
(* failure, enabling and disabling empty it, and taking a snapshot hands   *)
(* it out once.                                                            *)
(***************************************************************************)
EXTENDS Naturals

VARIABLES
  status,   \* "none", "failed" or "snapshot"
  origin,   \* the decode the snapshot is of, 0 when there is none
  last,     \* the last decode
  enabled,
  broken,   \* the callback failed for good
  answer    \* the decode whose snapshot the last call handed out, 0 for none

vars == <<status, origin, last, enabled, broken, answer>>

Init ==
  /\ status = "none"
  /\ origin = 0
  /\ last = 0
  /\ enabled = TRUE
  /\ broken = FALSE
  /\ answer = 0

Empty == status' = "none" /\ origin' = 0

\* A decode starts: whatever was observed before is gone.
StartDecode ==
  /\ last' > last
  /\ Empty
  /\ answer' = 0
  /\ UNCHANGED <<enabled, broken>>

\* The decode completes: its snapshot, or a failure, is there to be taken.
Observe ==
  /\ enabled
  /\ ~broken
  /\ status = "none"
  /\ \/ status' = "snapshot" /\ origin' = last
     \/ status' = "failed" /\ origin' = 0
  /\ answer' = 0
  /\ UNCHANGED <<last, enabled, broken>>

\* An encode is never observed.
Encode ==
  /\ enabled
  /\ ~broken
  /\ status' = "failed"
  /\ origin' = 0
  /\ answer' = 0
  /\ UNCHANGED <<last, enabled, broken>>

SetEnabled ==
  /\ ~broken
  /\ Empty
  /\ enabled' \in BOOLEAN
  /\ answer' = 0
  /\ UNCHANGED <<last, broken>>

\* The one way a snapshot reaches the caller, and it empties the place.
Deliver ==
  /\ status = "snapshot"
  /\ answer' = origin
  /\ Empty
  /\ UNCHANGED <<last, enabled, broken>>

\* Any other call, and a refused take, leaves the readout as it is.
Refuse ==
  /\ answer' = 0
  /\ UNCHANGED <<status, origin, last, enabled, broken>>

\* The callback panicked: what was observed is gone and nothing will ever be
\* observed again.
Break ==
  /\ ~broken
  /\ broken' = TRUE
  /\ Empty
  /\ answer' = 0
  /\ UNCHANGED <<last, enabled>>

Next == StartDecode \/ Observe \/ Encode \/ SetEnabled \/ Deliver \/ Refuse \/ Break

Spec == Init /\ [][Next]_vars
=============================================================================
