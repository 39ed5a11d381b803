----------------------------- MODULE MC_Boundary -----------------------------
(* What crosses the boundary to llama.cpp by value: texts (ModelText) and the *)
(* grammar sampler that is built from them (LlgSampler), parameters           *)
(* (ContextParams) and the candidates for a token (TokenDataArray).  They     *)
(* have no state in common, so a behaviour exercises one of them, and once it *)
(* has a decoder only that.                                                   *)
EXTENDS ModelText, LlgSampler, ContextParams, TokenDataArray

MCPieces == {<<>>, <<"a">>, <<"l">>, <<"t">>, <<"n">>, <<"l", "t">>, <<"a", "l">>,
             <<"t", "a">>, <<"a", "n", "a">>, <<"a", "l", "t">>}
MCTexts == {<<>>, <<"a">>, <<"l", "t">>, <<"a", "l">>, <<"a", "l", "t">>,
            <<"l", "t", "a", "a">>}

\* A token too long for the buffer, one with a null byte, a control token that the
\* grammar can ask for, and two that end a generation.
MCVocab ==
  [a |-> [text |-> <<"a">>, special |-> <<"a">>, eog |-> FALSE],
   lt |-> [text |-> <<"l", "t">>, special |-> <<"l", "t">>, eog |-> FALSE],
   long |-> [text |-> <<"a", "l", "t">>, special |-> <<"a", "l", "t">>, eog |-> FALSE],
   null |-> [text |-> <<"a", "n">>, special |-> <<"a", "n">>, eog |-> FALSE],
   control |-> [text |-> <<>>, special |-> <<"t">>, eog |-> FALSE],
   eos |-> [text |-> <<>>, special |-> <<"l">>, eog |-> TRUE],
   eot |-> [text |-> <<>>, special |-> <<"a">>, eog |-> TRUE]]

MCLanguage == {<<"a">>, <<"a", "l", "t">>, <<"0xFF", "t", "a">>, <<"l", "t">>}

vars == <<textVars, paramsVars, arrayVars, llg>>

Init == TextInit /\ ParamsInit /\ ArrayInit /\ LlgInit

\* The first candidates are none, so that the others are not run for each number.
Next ==
  \/ /\ settings = 0 /\ applied = 0 /\ cells = <<>> /\ LlgInit
     /\ TextNext /\ UNCHANGED <<paramsVars, arrayVars, llg>>
     /\ stream.n > 0 => "token_to_piece" \in {call.op, call'.op}
  \/ /\ TextInit /\ applied = 0 /\ cells = <<>> /\ LlgInit
     /\ ParamsNext /\ UNCHANGED <<textVars, arrayVars, llg>>
  \/ /\ TextInit /\ settings = 0 /\ LlgInit
     /\ ArrayNext /\ UNCHANGED <<textVars, paramsVars, llg>>
  \/ /\ TextInit /\ settings = 0 /\ applied = 0 /\ cells = <<>>
     /\ LlgNext /\ UNCHANGED <<textVars, paramsVars, arrayVars>>

Spec == Init /\ [][Next]_vars /\ WF_textVars(Native)
=============================================================================
