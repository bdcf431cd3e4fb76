------------------------------ MODULE MCCommand ------------------------------
(* Command texts for the parser and the executor. *)
EXTENDS Command

CONSTANT MaxLength  \* every text up to this length is tried

AllTexts == UNION {[1..n -> Characters] : n \in 0..MaxLength}

\* Longer ones, for three stages, the limits and repeated redirections.
LongTexts ==
    {<<"a", "|", "a", "|", "a">>,
     <<"a", "|", "a", "|", "a", "|", "a">>,
     <<"a", "|", "a", "<", "a", "|", "a">>,
     <<"a", "|", "a", ">", "a", "|", "a">>,
     <<"a", " ", "a", " ", "2", " ", "a">>,
     <<"a", "2", ">", "2", "2", ">", "a">>,
     <<"a", ">", "2", ">", "2", " ", "2">>,
     <<"a", " ", "a", " ", "a", ">", "a", "a">>}

SomeTexts == AllTexts \cup LongTexts
==============================================================================
