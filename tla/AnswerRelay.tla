---------------------------- MODULE AnswerRelay ----------------------------
(***************************************************************************)
(* What a converted stream promises, whatever the two protocols: the       *)
(* client hears the upstream's answer piece by piece, nothing twice,       *)
(* nothing in another order or from another tool call, and hears that the  *)
(* answer is whole only after all of it, from an upstream that said so.    *)
(* An answer that is cut short for the client stays cut.                   *)
(***************************************************************************)
EXTENDS Naturals, Sequences, SequencesExt

VARIABLES heard,   \* pieces the upstream sent
          told,    \* pieces the client received
          source,  \* the upstream: "open", "whole" or "cut"
          answer   \* what the client knows: "open", "whole" or "cut"

AnswerInit == heard = <<>> /\ told = <<>> /\ source = "open" /\ answer = "open"

\* Pieces arrive and are passed on, or some are lost with the client.
Relay ==
    /\ answer = "open"
    /\ IsPrefix(heard, heard')
    /\ \/ answer' = "open" /\ told' = heard'
       \/ answer' = "cut" /\ IsPrefix(told, told') /\ IsPrefix(told', heard')
    /\ source' \in {source, "whole", "cut"}

End ==
    /\ answer = "open"
    /\ answer' \in {"whole", "cut"} /\ source' \in {source, "whole", "cut"}
    /\ answer' = "whole" => source' = "whole" /\ told = heard
    /\ UNCHANGED <<heard, told>>

AnswerSpec == AnswerInit /\ [][Relay \/ End]_<<heard, told, source, answer>>
=============================================================================
