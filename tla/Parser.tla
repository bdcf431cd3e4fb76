------------------------------- MODULE Parser -------------------------------
(***************************************************************************)
(* The command parser of runner -e (parser.c): parser_parse cuts the text  *)
(* at every "|" with strtok_r and parse_stage turns each piece into argv   *)
(* and redirections; parser_destroy frees what was allocated.              *)
(*                                                                         *)
(* A text is a sequence of characters of which the code tells six kinds    *)
(* apart: blank, the operators, the digit 2 and all others ("a").  A token *)
(* is a copy of a range of the text and is named by that range, so two     *)
(* tokens are never confused.  One step is one turn of a loop.             *)
(***************************************************************************)
EXTENDS CommandSyntax

CONSTANTS
    Inputs,         \* the command texts a runner may be given
    InputBuffer     \* PARSER_INPUT_BUFFER, 1024

\* MaxStages and MaxArgs are PARSER_MAX_STAGES, 16, and PARSER_MAX_ARGS, 32.
ASSUME ParserAssumption ==
    /\ MaxStages \in Nat \ {0} /\ MaxArgs \in Nat \ {0} /\ InputBuffer \in Nat \ {0}
    /\ Inputs \subseteq Seq(Characters)

VARIABLES
    buffer,       \* parsed->buffer: the text that is parsed
    save_pipe,    \* where strtok_r goes on
    cursor,       \* parse_stage: the next character of the stage
    stage_end,    \* parse_stage: where stage_str ends
    stage,        \* the stage being filled
    stages,       \* the stages parsed so far; stage_count is their number
    tokens,       \* the tokens allocated and not freed
    ppc           \* where the runner stands, and why parser_parse returned NULL

parserVars == <<buffer, save_pipe, cursor, stage_end, stage, stages, tokens, ppc>>

NoFile == <<>>

EmptyStage ==
    [argv |-> <<>>, input_file |-> NoFile, output_file |-> NoFile, error_file |-> NoFile]

\* The first position from k on, before end, whose character is in stops, or end.
Find(k, end, stops) == Min({n \in k..end : n = end \/ buffer[n] \in stops})

skip_spaces(k) == Find(k, stage_end, Characters \ {" "})

\* Mutant: a token ends at white space only.
TokenEndBlank(k) == Find(k, stage_end, {" "})

TokenEnd(k) == Find(k, stage_end, {" ", "<", ">"})

\* parse_token finds a token when it is called at k.
TokenAt(k) == skip_spaces(k) < stage_end /\ buffer[skip_spaces(k)] \notin {"<", ">"}

Token(k) == <<skip_spaces(k), TokenEnd(skip_spaces(k)) - 1>>

\* Mutant: the earlier target of the same operator is not freed.
KeepOldTarget(file) == {}

\* free(*redirect_target).
FreedTarget(file) == {file} \ {NoFile}

\* What stands at the cursor: the field that a redirection sets and the length
\* of its operator.
Redirection(k) ==
    CASE buffer[k] = "2" /\ k + 1 < stage_end /\ buffer[k + 1] = ">" ->
            [field |-> "error_file", length |-> 2]
      [] buffer[k] = "<" -> [field |-> "input_file", length |-> 1]
      [] buffer[k] = ">" -> [field |-> "output_file", length |-> 1]
      [] OTHER -> [field |-> "argv", length |-> 0]

\* parser_parse: the structure is allocated and the text copied into it.
parser_parse(input) ==
    /\ \/ /\ buffer' = SubSeq(input, 1, Min({Len(input), InputBuffer - 1}))
          /\ save_pipe' = 1
          /\ ppc' = "split"
       \/ /\ ppc' = "no_memory"
          /\ UNCHANGED <<buffer, save_pipe>>
    /\ UNCHANGED <<cursor, stage_end, stage, stages, tokens>>

\* strtok_r skips delimiters, so that empty pieces do not become stages; the
\* loop also ends when all stages are used.
NextStage ==
    LET first == Find(save_pipe, Len(buffer) + 1, Characters \ {"|"})
        last  == Find(first, Len(buffer) + 1, {"|"})
        found == first <= Len(buffer)
    IN
    /\ ppc = "split"
    /\ \/ /\ found /\ Len(stages) < MaxStages
          /\ cursor' = first
          /\ stage_end' = last
          /\ stage' = EmptyStage
          /\ ppc' = "stage"
       \/ /\ ~found \/ Len(stages) = MaxStages
          /\ ppc' = "parsed"
          /\ UNCHANGED <<cursor, stage_end, stage>>
    /\ save_pipe' = Min({last + 1, Len(buffer) + 1})
    /\ UNCHANGED <<buffer, stages, tokens>>

\* One turn of the loop of parse_stage, with a redirection or an argument.
ParseItem ==
    LET at   == skip_spaces(cursor)
        r    == Redirection(at)
        from == at + r.length
        full == Len(stage.argv) >= MaxArgs - 1
    IN
    /\ ppc = "stage"
    /\ at < stage_end
    /\ TokenAt(from)
    /\ cursor' = TokenEnd(skip_spaces(from))
    /\ \/ /\ r.field # "argv"
          /\ stage' = [stage EXCEPT ![r.field] = Token(from)]
          /\ tokens' = (tokens \ FreedTarget(stage[r.field])) \cup {Token(from)}
       \/ /\ r.field = "argv" /\ ~full
          /\ stage' = [stage EXCEPT !.argv = Append(@, Token(from))]
          /\ tokens' = tokens \cup {Token(from)}
       \/ /\ r.field = "argv" /\ full
          /\ UNCHANGED <<stage, tokens>>
    /\ UNCHANGED <<buffer, save_pipe, stage_end, stages, ppc>>

StageDone ==
    /\ ppc = "stage"
    /\ skip_spaces(cursor) = stage_end
    /\ stages' = Append(stages, stage)
    /\ ppc' = "split"
    /\ UNCHANGED <<buffer, save_pipe, cursor, stage_end, stage, tokens>>

TokensOf(s) ==
    ToSet(s.argv) \cup ({s.input_file, s.output_file, s.error_file} \ {NoFile})

StoredTokens == UNION {TokensOf(stages[n]) : n \in DOMAIN stages}

\* parser_destroy frees the tokens of the stages that are counted.
parser_destroy(next) ==
    /\ tokens' = tokens \ StoredTokens
    /\ ppc' = next
    /\ UNCHANGED <<buffer, save_pipe, cursor, stage_end, stage, stages>>

\* parse_stage returns -1: an operator has no target, or no memory is left for
\* the token.
StageFails ==
    LET at == skip_spaces(cursor) IN
    /\ ppc = "stage"
    /\ at < stage_end
    /\ IF TokenAt(at + Redirection(at).length)
       THEN parser_destroy("no_memory") ELSE parser_destroy("refused")

ParserInit ==
    /\ buffer = <<>> /\ save_pipe = 1 /\ cursor = 1 /\ stage_end = 1
    /\ stage = EmptyStage /\ stages = <<>> /\ tokens = {}
    /\ ppc = "start"

ParserStep ==
    \/ ppc = "start" /\ \E input \in Inputs : parser_parse(input)
    \/ NextStage \/ ParseItem \/ StageDone \/ StageFails

------------------------------------------------------------------------------
(* Properties *)

\* The stages the parser delivers are the ones the declarative reading of the
\* text in CommandSyntax gives: words split at blanks and operators, "2" before
\* ">" as an operator only where a word may start, the last target of an
\* operator, empty pieces between "|" skipped, and exactly the first MaxStages
\* stages and MaxArgs - 1 arguments kept.  It refuses a text only when one of
\* these stages has an operator without a target.
ParsesAsWritten ==
    /\ ppc = "parsed" => stages = StagesOf(buffer) /\ WellFormed(buffer)
    /\ ppc = "refused" => ~WellFormed(buffer)

\* While the command exists every allocated token is in exactly one field of
\* one stage: nothing is freed twice and nothing leaks, although a repeated
\* redirection and an argument beyond the limit free a token on the way; when
\* the command was destroyed nothing is left.
FieldsOf(s) ==
    LET File(f) == IF f = NoFile THEN <<>> ELSE <<f>>
    IN  s.argv \o File(s.input_file) \o File(s.output_file) \o File(s.error_file)
TokensOwned ==
    LET now  == IF ppc = "stage" THEN Append(stages, stage) ELSE stages
        held == FlattenSeq([n \in DOMAIN now |-> FieldsOf(now[n])])
    IN  /\ ppc \in {"split", "stage", "parsed", "executing"} =>
              tokens = ToSet(held) /\ Cardinality(tokens) = Len(held)
        /\ ppc = "destroyed" => tokens = {}

\* parser_destroy frees "every token allocated while parsing it" (parser.c): when
\* parser_parse has refused a text and returned NULL, no token is left.
AllTokensFreed == ppc = "refused" => tokens = {}
==============================================================================
