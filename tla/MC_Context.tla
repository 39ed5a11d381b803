----------------------------- MODULE MC_Context -----------------------------
(* What is kept beside or inside a native context: the logits of a batch      *)
(* (BatchLogits), the memory (ContextMemory), a pending draft                 *)
(* (MtpSpeculative), and adapters (ContextAdapters).  Nothing is stored by    *)
(* one and read by another, so a behaviour exercises one of them.             *)
EXTENDS BatchLogits, ContextMemory, MtpSpeculative, ContextAdapters

\* Parameters on both sides of the checks in new: <<n_max, n_min>>.
MCParams == {<<1, 0>>, <<2, 2>>, <<3, 1>>, <<0, 0>>, <<2, -1>>, <<1, 2>>}

\* A model with two layers that can be steered, and one without any.
MCNEmbd == [m \in Models |-> 2]
MCNLayer == [m \in Models |-> IF m = "steerable" THEN 3 ELSE 1]

MCInit == BatchInit /\ MemoryInit /\ Init /\ AdaptersInit

MCNext ==
  \/ /\ MemoryInit /\ Init /\ AdaptersInit
     /\ BatchNext /\ UNCHANGED <<memoryVars, vars, adapterVars>>
  \/ /\ BatchInit /\ Init /\ AdaptersInit
     /\ MemoryNext /\ UNCHANGED <<batchVars, vars, adapterVars>>
  \/ /\ BatchInit /\ MemoryInit /\ AdaptersInit
     /\ Next /\ UNCHANGED <<batchVars, memoryVars, adapterVars>>
  \/ /\ BatchInit /\ MemoryInit /\ Init
     /\ AdaptersNext /\ UNCHANGED <<batchVars, memoryVars, vars>>

MCSpec == MCInit /\ [][MCNext]_<<batchVars, memoryVars, vars, adapterVars>>
=============================================================================
