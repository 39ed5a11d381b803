----------------------------- MODULE MC_Logging -----------------------------
(* The backend with the native log callbacks (LlamaBackend), and the bridge a *)
(* callback leads to (LogBridge).  Nothing is stored by one and read by the   *)
(* other, so a behaviour exercises one of them.                               *)
EXTENDS LlamaBackend, LogBridge

MCInit == Init /\ LogInit

MCNext ==
  \/ Next /\ calls = <<>> /\ UNCHANGED logVars
  \/ LogNext /\ Init /\ UNCHANGED vars

MCSpec == MCInit /\ [][MCNext]_<<vars, logVars>> /\ LogFairness
=============================================================================
