--------------------------- MODULE CommandSyntax ---------------------------
(***************************************************************************)
(* What a command text means, by looking at the whole text at once: the    *)
(* reference for Parser.tla.  Supported are arguments, pipes "|", input    *)
(* "<", output ">" and error output "2>" (parser.h).                       *)
(***************************************************************************)
EXTENDS Integers, Sequences, FiniteSets, SequencesExt

CONSTANTS MaxStages, MaxArgs

\* The characters the parser tells apart; "a" stands for all others.
Characters == {"a", "2", " ", "<", ">", "|"}

\* The maximal ranges <<first, last>> of positions of t from lo to hi whose
\* characters are not in seps.
Ranges(t, lo, hi, seps) ==
    {w \in (lo..hi) \X (lo..hi) :
        /\ w[1] <= w[2]
        /\ \A k \in w[1]..w[2] : t[k] \notin seps
        /\ w[1] = lo \/ t[w[1] - 1] \in seps
        /\ w[2] = hi \/ t[w[2] + 1] \in seps}

\* The ranges of S with exactly k ranges of S before them, and the first n
\* ranges of S in the order in which they appear.
Ranked(S, k) == {w \in S : Cardinality({v \in S : v[1] < w[1]}) = k}
InOrder(S, n) ==
    [k \in 1..Min({n, Cardinality(S)}) |-> CHOOSE w \in Ranked(S, k - 1) : TRUE]

\* The last range of S, or none.
LastIn(S) == IF S = {} THEN <<>> ELSE CHOOSE w \in S : \A v \in S : v[1] <= w[1]

Pieces(t) == Ranges(t, 1, Len(t), {"|"})

Words(t, piece) == Ranges(t, piece[1], piece[2], {" ", "<", ">"})

Operators(t, piece) == {k \in piece[1]..piece[2] : t[k] \in {"<", ">"}}

\* Word w follows operator o directly or after blanks.
Follows(t, w, o) == o < w[1] /\ \A k \in (o + 1)..(w[1] - 1) : t[k] = " "

IsTarget(t, piece, w) == \E o \in Operators(t, piece) : Follows(t, w, o)

\* The word is the "2" of an operator "2>".
IsErrorSign(t, piece, w) ==
    /\ w[1] = w[2] /\ t[w[1]] = "2"
    /\ w[2] + 1 <= piece[2] /\ t[w[2] + 1] = ">"
    /\ ~IsTarget(t, piece, w)

KindOf(t, piece, o) ==
    IF t[o] = "<" THEN "input_file"
    ELSE IF \E w \in Words(t, piece) :
               IsErrorSign(t, piece, w) /\ w[2] + 1 = o THEN "error_file"
    ELSE "output_file"

Targets(t, piece, kind) ==
    {w \in Words(t, piece) :
        \E o \in Operators(t, piece) : Follows(t, w, o) /\ KindOf(t, piece, o) = kind}

Arguments(t, piece) ==
    {w \in Words(t, piece) : ~IsTarget(t, piece, w) /\ ~IsErrorSign(t, piece, w)}

\* What a piece of the text says: the arguments that are kept and the last
\* target of each kind of operator.
StageOf(t, piece) ==
    [argv        |-> InOrder(Arguments(t, piece), MaxArgs - 1),
     input_file  |-> LastIn(Targets(t, piece, "input_file")),
     output_file |-> LastIn(Targets(t, piece, "output_file")),
     error_file  |-> LastIn(Targets(t, piece, "error_file"))]

StagesOf(t) ==
    LET pieces == InOrder(Pieces(t), MaxStages)
    IN  [n \in DOMAIN pieces |-> StageOf(t, pieces[n])]

\* Every operator of the stages that count has a target.
WellFormed(t) ==
    \A piece \in ToSet(InOrder(Pieces(t), MaxStages)) : \A o \in Operators(t, piece) :
        \E w \in Words(t, piece) : Follows(t, w, o)
=============================================================================
