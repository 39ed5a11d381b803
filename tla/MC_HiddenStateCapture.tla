----------------------- MODULE MC_HiddenStateCapture -----------------------
(* A small instance of HiddenStateCapture for TLC. *)
EXTENDS HiddenStateCapture

MCRow(ids, p, l) == [seq_ids |-> ids, pos |-> p, logits |-> l]
Owned(rows) == [owned |-> TRUE, rows |-> rows]
GetOne(n)   == [owned |-> FALSE, rows |-> [i \in 1..n |-> MCRow(<<0>>, i - 1, i = n)]]

Supported ==
  {GetOne(2),
   Owned(<<MCRow(<<0>>, 0, FALSE), MCRow(<<0>>, 1, TRUE)>>),
   Owned(<<MCRow(<<1>>, 4, TRUE), MCRow(<<1>>, 5, FALSE), MCRow(<<1>>, 7, TRUE)>>)}

Unsupported ==
  {GetOne(4),                                                          \* > n_ubatch
   Owned(<<>>),
   Owned(<<MCRow(<<0>>, 0, TRUE), MCRow(<<0>>, 1, FALSE)>>),           \* last row no output
   Owned(<<MCRow(<<0>>, 0, TRUE), MCRow(<<1>>, 1, TRUE)>>),            \* two sequences
   Owned(<<MCRow(<<0, 1>>, 0, TRUE)>>),                                \* shared row
   Owned(<<MCRow(<<0>>, 1, FALSE), MCRow(<<0>>, 1, TRUE)>>)}           \* position repeats

MCBatches == Supported \cup Unsupported

MCConfigs ==
  {<<2, 0>>, <<>>, <<1, 1>>, <<40>>,
   [i \in 1..33 |-> i - 1],          \* too many bytes at the largest width
   [i \in 1..65 |-> i - 1]}          \* too many layers
MCWidths == {-1, 0, 32768, 32769}
=============================================================================
