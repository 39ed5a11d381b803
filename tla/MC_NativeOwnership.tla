------------------------- MODULE MC_NativeOwnership -------------------------
(* NativeOwnership for TLC.  Samplers, decoders and multimodal objects share    *)
(* only models and contexts, so that a behaviour has one of these families.    *)
EXTENDS NativeOwnership, TLC

Mix(family) ==
  [k \in {"model", "context", "sampler", "matcher", "mtp", "mtmd", "bitmap",
          "chunks", "chunk"} |-> IF k \in DOMAIN family THEN family[k] ELSE 0]

Families ==
  { Mix("model" :> 1 @@ "context" :> 1 @@ "sampler" :> 3 @@ "matcher" :> 1),
    Mix("sampler" :> 4 @@ "matcher" :> 2),
    Mix("model" :> 1 @@ "context" :> 3 @@ "mtp" :> 1),
    Mix("model" :> 1 @@ "context" :> 1 @@ "mtmd" :> 1 @@ "bitmap" :> 1
        @@ "chunks" :> 1 @@ "chunk" :> 2) }
=============================================================================
