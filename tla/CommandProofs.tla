---------------------------- MODULE CommandProofs ----------------------------
(***************************************************************************)
(* Theorems about what runner -e does with its command (Command.tla), for  *)
(* texts of any length and any limits: who owns the tokens of the parser,  *)
(* that it reads the text as CommandSyntax.tla says, and that the pipeline *)
(* of the parsed text has the properties of ExecutorProofs.tla.            *)
(***************************************************************************)
EXTENDS Command, ExecutorProofs, NaturalsInduction, SequenceTheorems

------------------------------------------------------------------------------
(* Numbers and sequences *)

\* A non-empty set of natural numbers has a least element.
LEMMA LeastNumber ==
    ASSUME NEW T \in SUBSET Nat, T # {}
    PROVE  Min(T) \in T /\ \A y \in T : Min(T) <= y
<1> DEFINE R == OpToRel(<, Nat)
<1>1. PICK x \in T : \A y \in T : ~(<<y, x>> \in R)
  BY NatLessThanWellFounded, WFMin, Zenon
<1>2. ASSUME NEW y \in T PROVE x <= y
  <2>1. ~(<<y, x>> \in R)
    BY <1>1
  <2> QED
    BY <2>1 DEF OpToRel
<1> QED
  BY <1>2 DEF Min

\* No element occurs twice, and the elements that occur.
Distinct(s) == \A j, k \in 1..Len(s) : s[j] = s[k] => j = k
Elements(s) == {s[k] : k \in 1..Len(s)}

LEMMA ElementsAreCounted ==
    ASSUME NEW T, NEW s \in Seq(T), Distinct(s)
    PROVE  /\ ToSet(s) = Elements(s)
           /\ Cardinality(ToSet(s)) = Len(s)
<1>1. Len(s) \in Nat /\ DOMAIN s = 1..Len(s)
  OBVIOUS
<1>2. ToSet(s) = Elements(s)
  BY <1>1 DEF ToSet, Elements
<1>3. s \in Bijection(1..Len(s), Elements(s))
  <2>1. s \in [1..Len(s) -> Elements(s)]
    BY <1>1 DEF Elements
  <2> QED
    BY <1>1, <2>1 DEF Bijection, Injection, Surjection, IsInjective, Distinct, Elements
<1>4. IsFiniteSet(1..Len(s)) /\ Cardinality(1..Len(s)) = Len(s)
  <2> DEFINE a == 1
             b == Len(s)
  <2>1. a \in Int /\ b \in Int /\ (IF a > b THEN 0 ELSE b - a + 1) = b
    BY <1>1
  <2> HIDE DEF a, b
  <2>2. IsFiniteSet(a..b) /\ Cardinality(a..b) = IF a > b THEN 0 ELSE b - a + 1
    BY <2>1, FS_Interval
  <2> QED
    BY <2>1, <2>2 DEF a, b
<1>5. ExistsBijection(1..Len(s), Elements(s))
  BY <1>3, Zenon DEF ExistsBijection
<1> QED
  BY <1>2, <1>4, <1>5, FS_Bijection

LEMMA JoinDistinct ==
    ASSUME NEW T, NEW a \in Seq(T), NEW b \in Seq(T)
    PROVE  /\ a \o b \in Seq(T)
           /\ Elements(a \o b) = Elements(a) \cup Elements(b)
           /\ Distinct(a) /\ Distinct(b) /\ Elements(a) \cap Elements(b) = {}
                 => Distinct(a \o b)
<1> DEFINE c == a \o b
<1>1. Len(a) \in Nat /\ Len(b) \in Nat
  OBVIOUS
<1>2. /\ c \in Seq(T) /\ Len(c) = Len(a) + Len(b)
      /\ \A k \in 1..(Len(a) + Len(b)) : c[k] = IF k <= Len(a) THEN a[k] ELSE b[k - Len(a)]
  BY ConcatProperties, Zenon
<1> HIDE DEF c
<1>3. \A k \in 1..Len(c) :
         \/ k \in 1..Len(a) /\ c[k] = a[k]
         \/ k - Len(a) \in 1..Len(b) /\ ~(k \in 1..Len(a)) /\ c[k] = b[k - Len(a)]
  <2> SUFFICES ASSUME NEW k \in 1..Len(c)
               PROVE  \/ k \in 1..Len(a) /\ c[k] = a[k]
                      \/ k - Len(a) \in 1..Len(b) /\ ~(k \in 1..Len(a)) /\ c[k] = b[k - Len(a)]
    OBVIOUS
  <2>1. k \in 1..(Len(a) + Len(b))
    BY <1>2
  <2>2. \/ k \in 1..Len(a) /\ k <= Len(a)
        \/ k - Len(a) \in 1..Len(b) /\ ~(k <= Len(a))
    BY <1>1, <2>1
  <2> QED
    BY <1>2, <2>1, <2>2
<1>4. \A k \in 1..Len(a) : k \in 1..Len(c) /\ c[k] = a[k]
  <2> TAKE k \in 1..Len(a)
  <2>1. k \in 1..(Len(a) + Len(b)) /\ k <= Len(a)
    BY <1>1
  <2> QED
    BY <1>2, <2>1
<1>5. \A k \in 1..Len(b) : Len(a) + k \in 1..Len(c) /\ c[Len(a) + k] = b[k]
  <2> TAKE k \in 1..Len(b)
  <2>1. /\ Len(a) + k \in 1..(Len(a) + Len(b)) /\ ~(Len(a) + k <= Len(a))
        /\ (Len(a) + k) - Len(a) = k
    BY <1>1
  <2> QED
    BY <1>2, <2>1
<1>6. Elements(c) = Elements(a) \cup Elements(b)
  <2>1. ASSUME NEW x \in Elements(c) PROVE x \in Elements(a) \cup Elements(b)
    BY <1>3 DEF Elements
  <2>2. ASSUME NEW x \in Elements(a) \cup Elements(b) PROVE x \in Elements(c)
    BY <1>4, <1>5 DEF Elements
  <2> QED
    BY <2>1, <2>2
<1>7. ASSUME Distinct(a), Distinct(b), Elements(a) \cap Elements(b) = {},
             NEW j \in 1..Len(c), NEW k \in 1..Len(c), c[j] = c[k]
      PROVE  j = k
  <2>1. CASE j \in 1..Len(a) /\ k \in 1..Len(a)
    <3>1. c[j] = a[j] /\ c[k] = a[k]
      BY <1>4, <2>1
    <3> QED
      BY <1>7, <2>1, <3>1 DEF Distinct
  <2>2. CASE j \notin 1..Len(a) /\ k \notin 1..Len(a)
    <3>1. /\ j - Len(a) \in 1..Len(b) /\ c[j] = b[j - Len(a)]
          /\ k - Len(a) \in 1..Len(b) /\ c[k] = b[k - Len(a)]
      BY <1>3, <2>2
    <3>2. j - Len(a) = k - Len(a)
      BY <1>7, <3>1 DEF Distinct
    <3> QED
      BY <1>1, <1>2, <3>2
  <2>3. CASE j \in 1..Len(a) /\ k \notin 1..Len(a)
    <3>1. c[j] \in Elements(a) /\ c[k] \in Elements(b)
      BY <1>3, <1>4, <2>3 DEF Elements
    <3> QED
      BY <1>7, <3>1
  <2>4. CASE j \notin 1..Len(a) /\ k \in 1..Len(a)
    <3>1. c[k] \in Elements(a) /\ c[j] \in Elements(b)
      BY <1>3, <1>4, <2>4 DEF Elements
    <3> QED
      BY <1>7, <3>1
  <2> QED
    BY <2>1, <2>2, <2>3, <2>4
<1> QED
  BY <1>2, <1>6, <1>7 DEF c, Distinct

(***************************************************************************)
(* FlattenSeq, whose partial results are a recursive function.             *)
(***************************************************************************)
IsFlat(f, n, ss) == f = [k \in 1..n |-> IF k = 1 THEN ss[k] ELSE f[k - 1] \o ss[k]]
Flat(n, ss) == CHOOSE f : IsFlat(f, n, ss)

LEMMA FlattenIsFlat ==
    ASSUME NEW ss
    PROVE  FlattenSeq(ss) = IF Len(ss) = 0 THEN ss ELSE Flat(Len(ss), ss)[Len(ss)]
  BY DEF FlattenSeq, Flat, IsFlat

LEMMA FlatExists ==
    ASSUME NEW ss
    PROVE  \A n \in Nat : \E f : IsFlat(f, n, ss)
<1> DEFINE Bad == {n \in Nat : ~ \E f : IsFlat(f, n, ss)}
<1> SUFFICES ASSUME Bad # {} PROVE FALSE
  OBVIOUS
<1>1. Min(Bad) \in Bad /\ \A y \in Bad : Min(Bad) <= y
  <2>1. Bad \in SUBSET Nat
    OBVIOUS
  <2> HIDE DEF Bad
  <2> QED
    BY <2>1, LeastNumber
<1>2. PICK n \in Nat : n = Min(Bad)
  BY <1>1
<1>3. CASE n = 0
  <2>1. IsFlat([k \in 1..0 |-> <<>>], 0, ss)
    <3>1. 1..0 = {}
      OBVIOUS
    <3> QED
      BY <3>1 DEF IsFlat
  <2> QED
    BY <1>1, <1>2, <1>3, <2>1
<1>4. CASE n # 0
  <2>1. n - 1 \in Nat /\ ~(n <= n - 1)
    BY <1>4
  <2>2. PICK g : IsFlat(g, n - 1, ss)
    <3>1. n - 1 \notin Bad
      BY <1>1, <1>2, <2>1
    <3> QED
      BY <2>1, <3>1
  <2> DEFINE Step(h, k) == IF k = 1 THEN ss[k] ELSE h[k - 1] \o ss[k]
             f == [k \in 1..n |-> IF k = n THEN Step(g, n) ELSE g[k]]
  <2>3. \A k \in 1..(n - 1) : g[k] = Step(g, k)
    BY <2>2 DEF IsFlat
  <2>4. ASSUME NEW k \in 1..n PROVE f[k] = Step(f, k)
    <3>1. k # 1 => f[k - 1] = g[k - 1]
      <4> SUFFICES ASSUME k # 1 PROVE f[k - 1] = g[k - 1]
        OBVIOUS
      <4>1. k - 1 \in 1..n /\ k - 1 # n
        BY <1>4
      <4> QED
        BY <4>1
    <3>2. k # n => f[k] = g[k] /\ k \in 1..(n - 1)
      BY <1>4
    <3> QED
      BY <2>3, <3>1, <3>2
  <2>5. IsFlat(f, n, ss)
    <3>1. f = [k \in 1..n |-> f[k]]
      OBVIOUS
    <3> HIDE DEF f
    <3>2. [k \in 1..n |-> f[k]] = [k \in 1..n |-> Step(f, k)]
      BY <2>4
    <3> QED
      BY <3>1, <3>2 DEF IsFlat
  <2> QED
    BY <1>1, <1>2, <2>5
<1> QED
  BY <1>3, <1>4

\* Sequences without repetition that have nothing in common stay without
\* repetition when they are joined.
LEMMA FlattenDistinct ==
    ASSUME NEW T, NEW ss \in Seq(Seq(T)),
           \A n \in 1..Len(ss) : Distinct(ss[n]),
           \A m, n \in 1..Len(ss) : m # n => Elements(ss[m]) \cap Elements(ss[n]) = {}
    PROVE  /\ FlattenSeq(ss) \in Seq(T)
           /\ Distinct(FlattenSeq(ss))
           /\ Elements(FlattenSeq(ss)) = UNION {Elements(ss[n]) : n \in 1..Len(ss)}
<1>0. Len(ss) \in Nat /\ \A n \in 1..Len(ss) : ss[n] \in Seq(T)
  OBVIOUS
<1> DEFINE N == Len(ss)
           f == Flat(N, ss)
           Good(n) == /\ f[n] \in Seq(T) /\ Distinct(f[n])
                      /\ Elements(f[n]) = UNION {Elements(ss[m]) : m \in 1..n}
           Bad == {n \in 1..N : ~Good(n)}
<1>1. IsFlat(f, N, ss)
  BY <1>0, FlatExists DEF Flat
<1>2. \A n \in 1..N : f[n] = IF n = 1 THEN ss[n] ELSE f[n - 1] \o ss[n]
  <2> HIDE DEF f
  <2> QED
    BY <1>1 DEF IsFlat
<1>3. FlattenSeq(ss) = IF N = 0 THEN ss ELSE f[N]
  BY FlattenIsFlat
<1> HIDE DEF f, N
<1>4. Bad = {}
  <2> SUFFICES ASSUME Bad # {} PROVE FALSE
    OBVIOUS
  <2>1. Min(Bad) \in Bad /\ \A y \in Bad : Min(Bad) <= y
    <3>1. Bad \in SUBSET Nat
      BY <1>0 DEF N
    <3> HIDE DEF Bad
    <3> QED
      BY <3>1, LeastNumber
  <2>2. PICK n \in 1..N : n = Min(Bad) /\ ~Good(n)
    BY <2>1
  <2>3. CASE n = 1
    <3>0. 1..1 = {1} /\ 1 \in 1..N
      BY <2>2, <2>3
    <3>1. f[1] = ss[1] /\ 1..1 = {1} /\ 1 \in 1..Len(ss)
      BY <1>2, <3>0 DEF N
    <3>2. UNION {Elements(ss[m]) : m \in {1}} = Elements(ss[1])
      OBVIOUS
    <3> QED
      BY <1>0, <2>2, <2>3, <3>1, <3>2
  <2>4. CASE n # 1
    <3>1. n - 1 \in 1..N /\ ~(n <= n - 1) /\ n \in 1..Len(ss) /\ 1..n = 1..(n - 1) \cup {n}
      BY <1>0, <2>4 DEF N
    <3>2. n - 1 \notin Bad
      BY <2>1, <2>2, <3>1
    <3>3. /\ f[n - 1] \in Seq(T) /\ Distinct(f[n - 1])
          /\ Elements(f[n - 1]) = UNION {Elements(ss[m]) : m \in 1..(n - 1)}
      BY <3>1, <3>2
    <3>4. f[n] = f[n - 1] \o ss[n]
      BY <1>2, <2>2, <2>4
    <3>5. ss[n] \in Seq(T) /\ Distinct(ss[n])
      BY <1>0, <3>1
    <3>6. Elements(f[n - 1]) \cap Elements(ss[n]) = {}
      <4>1. \A m \in 1..(n - 1) : m \in 1..Len(ss) /\ m # n
        BY <1>0, <3>1
      <4> SUFFICES ASSUME NEW x \in Elements(f[n - 1]), x \in Elements(ss[n])
                   PROVE  FALSE
        OBVIOUS
      <4>2. PICK m \in 1..(n - 1) : x \in Elements(ss[m])
        BY <3>3
      <4>3. Elements(ss[m]) \cap Elements(ss[n]) = {}
        BY <3>1, <4>1, <4>2
      <4> QED
        BY <4>2, <4>3
    <3>7. /\ f[n] \in Seq(T) /\ Distinct(f[n])
          /\ Elements(f[n]) = Elements(f[n - 1]) \cup Elements(ss[n])
      <4> DEFINE a == f[n - 1]
                 b == ss[n]
      <4>1. a \in Seq(T) /\ b \in Seq(T) /\ Distinct(a) /\ Distinct(b)
        BY <3>3, <3>5
      <4>2. Elements(a) \cap Elements(b) = {} /\ f[n] = a \o b
        BY <3>4, <3>6
      <4> HIDE DEF a, b
      <4>3. /\ a \o b \in Seq(T) /\ Distinct(a \o b)
            /\ Elements(a \o b) = Elements(a) \cup Elements(b)
        BY <4>1, <4>2, JoinDistinct
      <4> QED
        BY <4>2, <4>3 DEF a, b
    <3>8. Elements(f[n]) = UNION {Elements(ss[m]) : m \in 1..n}
      <4>1. 1..n = 1..(n - 1) \cup {n}
        BY <3>1
      <4>2. Elements(f[n]) = (UNION {Elements(ss[m]) : m \in 1..(n - 1)}) \cup Elements(ss[n])
        BY <3>3, <3>7
      <4> QED
        BY <4>1, <4>2
    <3> QED
      BY <2>2, <3>7, <3>8
  <2> QED
    BY <2>3, <2>4
<1>5. CASE N = 0
  <2>1. ss = <<>> /\ 1..Len(ss) = {}
    BY <1>0, <1>5 DEF N
  <2> QED
    BY <1>3, <1>5, <2>1 DEF Distinct, Elements
<1>6. CASE N # 0
  <2>1. N \in 1..N
    BY <1>0, <1>6 DEF N
  <2>2. Good(N)
    BY <1>4, <2>1
  <2> QED
    BY <1>3, <1>6, <2>2 DEF N
<1> QED
  BY <1>5, <1>6

------------------------------------------------------------------------------
(* What a turn of parse_stage sees *)

LEMMA FindStops ==
    ASSUME NEW a \in Nat, NEW b \in Nat, a <= b, NEW stops
    PROVE  /\ Find(a, b, stops) \in Nat /\ a <= Find(a, b, stops) /\ Find(a, b, stops) <= b
           /\ Find(a, b, stops) = b \/ buffer[Find(a, b, stops)] \in stops
           /\ \A k \in a..(Find(a, b, stops) - 1) : buffer[k] \notin stops
<1> DEFINE S == {n \in a..b : n = b \/ buffer[n] \in stops}
           m == Find(a, b, stops)
<1>1. S \in SUBSET Nat /\ b \in S
  OBVIOUS
<1>2. m = Min(S)
  BY DEF Find
<1>3. m \in S /\ \A y \in S : m <= y
  <2> HIDE DEF S, m
  <2> QED
    BY <1>1, <1>2, LeastNumber
<1>4. m \in a..b /\ (m = b \/ buffer[m] \in stops)
  <2> HIDE DEF m
  <2> QED
    BY <1>3
<1> HIDE DEF m
<1>5. ASSUME NEW k \in a..(m - 1) PROVE buffer[k] \notin stops
  <2>1. k \in a..b /\ ~(m <= k)
    BY <1>4
  <2> QED
    BY <1>3, <2>1
<1>6. m \in Nat /\ a <= m /\ m <= b
  BY <1>4
<1> QED
  BY <1>4, <1>5, <1>6 DEF m

\* A token is a range of positions.
TokenSet == Nat \X Nat
FileSet  == TokenSet \cup {NoFile}
StageSet == [argv : Seq(TokenSet), input_file : FileSet, output_file : FileSet,
             error_file : FileSet]

ParserTypes ==
    /\ buffer \in Seq(Characters)
    /\ save_pipe \in 1..(Len(buffer) + 1)
    /\ stage_end \in 1..(Len(buffer) + 1)
    /\ cursor \in 1..stage_end
    /\ stage \in StageSet
    /\ stages \in Seq(StageSet) /\ Len(stages) <= MaxStages
    /\ ppc = "stage" => Len(stages) < MaxStages /\ stage_end <= save_pipe
    /\ ppc = "start" =>
          /\ cursor = 1 /\ stage_end = 1 /\ save_pipe = 1
          /\ stage = EmptyStage /\ stages = <<>> /\ tokens = {}

Delimiters == {" ", "<", ">"}

\* Where the next item of the stage stands, what it is, where its token is
\* looked for, where it starts and where it stops.
At    == skip_spaces(cursor)
Item  == Redirection(At)
From  == At + Item.length
First == skip_spaces(From)
Stop  == TokenEnd(First)

IsErrorItem == buffer[At] = "2" /\ At + 1 < stage_end /\ buffer[At + 1] = ">"

LEMMA Positions ==
    ASSUME ParserTypes
    PROVE  /\ Len(buffer) \in Nat /\ stage_end \in Nat /\ cursor \in Nat /\ cursor >= 1
           /\ cursor <= stage_end /\ stage_end <= Len(buffer) + 1
           /\ \A k \in 1..(stage_end - 1) : k \in 1..Len(buffer) /\ buffer[k] \in Characters
<1>1. /\ Len(buffer) \in Nat /\ \A k \in 1..Len(buffer) : buffer[k] \in Characters
      /\ stage_end \in 1..(Len(buffer) + 1) /\ cursor \in 1..stage_end
  BY DEF ParserTypes
<1>2. ASSUME NEW k \in 1..(stage_end - 1) PROVE k \in 1..Len(buffer)
  BY <1>1
<1> QED
  BY <1>1, <1>2

LEMMA SkipsBlanks ==
    ASSUME ParserTypes, NEW a \in Nat, a >= 1, a <= stage_end
    PROVE  /\ skip_spaces(a) \in Nat /\ a <= skip_spaces(a) /\ skip_spaces(a) <= stage_end
           /\ skip_spaces(a) < stage_end => buffer[skip_spaces(a)] \in Characters \ {" "}
           /\ \A k \in a..(skip_spaces(a) - 1) : buffer[k] = " "
<1> DEFINE m == skip_spaces(a)
<1>0. stage_end \in Nat
  BY Positions
<1>1. /\ m \in Nat /\ a <= m /\ m <= stage_end
      /\ m = stage_end \/ buffer[m] \in Characters \ {" "}
      /\ \A k \in a..(m - 1) : buffer[k] \notin Characters \ {" "}
  BY <1>0, FindStops DEF skip_spaces
<1> HIDE DEF m
<1>4. m \in Nat /\ a <= m /\ m <= stage_end
  BY <1>1
<1>2. ASSUME NEW k \in a..(m - 1) PROVE buffer[k] = " "
  <2>1. k \in 1..(stage_end - 1)
    BY <1>0, <1>4
  <2>2. buffer[k] \in Characters
    BY <2>1, Positions
  <2> QED
    BY <1>1, <2>2
<1>3. m < stage_end => m # stage_end
  BY <1>0, <1>4
<1> QED
  BY <1>1, <1>2, <1>3 DEF m

LEMMA ItemSeen ==
    ASSUME ParserTypes
    PROVE  /\ At \in Nat /\ cursor <= At /\ At <= stage_end
           /\ \A k \in cursor..(At - 1) : buffer[k] = " "
           /\ At < stage_end =>
                 /\ buffer[At] \in Characters \ {" "}
                 /\ \/ IsErrorItem /\ Item = [field |-> "error_file", length |-> 2]
                    \/ buffer[At] = "<" /\ Item = [field |-> "input_file", length |-> 1]
                    \/ buffer[At] = ">" /\ Item = [field |-> "output_file", length |-> 1]
                    \/ /\ buffer[At] \notin Delimiters /\ ~IsErrorItem
                       /\ Item = [field |-> "argv", length |-> 0]
                 /\ From \in Nat /\ At <= From /\ From <= stage_end
<1>1. /\ At \in Nat /\ cursor <= At /\ At <= stage_end
      /\ At < stage_end => buffer[At] \in Characters \ {" "}
      /\ \A k \in cursor..(At - 1) : buffer[k] = " "
  BY Positions, SkipsBlanks DEF At
<1>2. \/ IsErrorItem /\ Item = [field |-> "error_file", length |-> 2]
      \/ buffer[At] = "<" /\ Item = [field |-> "input_file", length |-> 1]
      \/ buffer[At] = ">" /\ Item = [field |-> "output_file", length |-> 1]
      \/ /\ buffer[At] \notin {"<", ">"} /\ ~IsErrorItem
         /\ Item = [field |-> "argv", length |-> 0]
  <2>1. CASE IsErrorItem
    BY <2>1 DEF Item, Redirection, IsErrorItem
  <2>2. CASE buffer[At] = "<"
    BY <2>2 DEF Item, Redirection
  <2>3. CASE buffer[At] = ">"
    BY <2>3 DEF Item, Redirection
  <2>4. CASE buffer[At] \notin {"<", ">"} /\ ~IsErrorItem
    BY <2>4 DEF Item, Redirection, IsErrorItem
  <2> QED
    BY <2>1, <2>2, <2>3, <2>4
<1>3. At < stage_end => From \in Nat /\ At <= From /\ From <= stage_end
  <2> SUFFICES ASSUME At < stage_end PROVE From \in Nat /\ At <= From /\ From <= stage_end
    OBVIOUS
  <2>1. At \in Nat /\ stage_end \in Nat
    BY <1>1, Positions
  <2>2. Item.length = 0 \/ Item.length = 1 \/ (Item.length = 2 /\ At + 1 < stage_end)
    BY <1>2 DEF IsErrorItem
  <2> QED
    BY <2>1, <2>2 DEF From
<1> QED
  BY <1>1, <1>2, <1>3 DEF Delimiters

LEMMA TokenSeen ==
    ASSUME ParserTypes, At < stage_end
    PROVE  /\ First \in Nat /\ From <= First /\ First <= stage_end
           /\ \A k \in From..(First - 1) : buffer[k] = " "
           /\ First < stage_end => buffer[First] \in Characters \ {" "}
           /\ ~TokenAt(From) => First = stage_end \/ buffer[First] \in {"<", ">"}
           /\ TokenAt(From) =>
                 /\ First < stage_end
                 /\ Stop \in Nat /\ First < Stop /\ Stop <= stage_end
                 /\ \A k \in First..(Stop - 1) : buffer[k] \notin Delimiters
                 /\ Stop = stage_end \/ buffer[Stop] \in Delimiters
                 /\ Token(From) = <<First, Stop - 1>>
                 /\ Token(From) \in TokenSet
<1>0. From \in Nat /\ From >= 1 /\ From <= stage_end /\ stage_end \in Nat
  <2>1. At \in Nat /\ cursor <= At /\ From \in Nat /\ At <= From /\ From <= stage_end
    BY ItemSeen
  <2>2. cursor \in Nat /\ cursor >= 1 /\ stage_end \in Nat
    BY Positions
  <2> QED
    BY <2>1, <2>2
<1>1. /\ First \in Nat /\ From <= First /\ First <= stage_end
      /\ First < stage_end => buffer[First] \in Characters \ {" "}
      /\ \A k \in From..(First - 1) : buffer[k] = " "
  BY <1>0, SkipsBlanks DEF First
<1>4. First \in Nat /\ From <= First /\ First <= stage_end
  BY <1>1
<1>5. First < stage_end \/ First = stage_end
  BY <1>0, <1>4
<1>2. ~TokenAt(From) => First = stage_end \/ buffer[First] \in {"<", ">"}
  <2>1. TokenAt(From) <=> First < stage_end /\ buffer[First] \notin {"<", ">"}
    BY DEF TokenAt, First
  <2> QED
    BY <1>5, <2>1
<1>3. ASSUME TokenAt(From)
      PROVE  /\ First < stage_end
             /\ Stop \in Nat /\ First < Stop /\ Stop <= stage_end
             /\ \A k \in First..(Stop - 1) : buffer[k] \notin Delimiters
             /\ Stop = stage_end \/ buffer[Stop] \in Delimiters
             /\ Token(From) = <<First, Stop - 1>>
             /\ Token(From) \in TokenSet
  <2>1. First < stage_end /\ buffer[First] \notin {"<", ">"}
    BY <1>3 DEF TokenAt, First
  <2>2. /\ Stop \in Nat /\ First <= Stop /\ Stop <= stage_end
        /\ Stop = stage_end \/ buffer[Stop] \in {" ", "<", ">"}
        /\ \A k \in First..(Stop - 1) : buffer[k] \notin {" ", "<", ">"}
    BY <1>0, <1>4, FindStops DEF Stop, TokenEnd
  <2>3. Stop # First
    <3>1. buffer[First] \notin {" ", "<", ">"}
      BY <1>1, <2>1
    <3>2. First # stage_end
      BY <1>0, <1>4, <2>1
    <3> QED
      BY <2>2, <3>1, <3>2
  <2>6. Stop \in Nat /\ First <= Stop /\ Stop <= stage_end
    BY <2>2
  <2>4. First < Stop /\ Stop - 1 \in Nat
    BY <1>4, <2>3, <2>6
  <2>5. Token(From) = <<First, Stop - 1>>
    BY DEF Token, First, Stop
  <2>7. Token(From) \in TokenSet
    BY <1>4, <2>4, <2>5 DEF TokenSet
  <2> QED
    BY <2>1, <2>2, <2>4, <2>5, <2>7 DEF Delimiters
<1> QED
  BY <1>1, <1>2, <1>3

------------------------------------------------------------------------------
(* The parser's types *)

LEMMA NoFileIsNoToken == NoFile \notin TokenSet
  BY DEF NoFile, TokenSet

LEMMA StageFields ==
    ASSUME NEW s \in StageSet
    PROVE  /\ s.argv \in Seq(TokenSet) /\ s.input_file \in FileSet
           /\ s.output_file \in FileSet /\ s.error_file \in FileSet
  BY DEF StageSet

LEMMA EmptyStageType == EmptyStage \in StageSet
  BY DEF EmptyStage, StageSet, FileSet

\* What ParseItem does: the token found is stored in one field of the stage, or
\* dropped when argv is full.
Stored(f) ==
    /\ stage' = [stage EXCEPT ![f] = Token(From)]
    /\ tokens' = (tokens \ FreedTarget(stage[f])) \cup {Token(From)}
Appended ==
    /\ stage' = [stage EXCEPT !.argv = Append(@, Token(From))]
    /\ tokens' = tokens \cup {Token(From)}

LEMMA ItemParsed ==
    ASSUME ParserTypes, ParseItem
    PROVE  /\ ppc = "stage" /\ At < stage_end /\ TokenAt(From) /\ cursor' = Stop
           /\ UNCHANGED <<buffer, save_pipe, stage_end, stages, ppc>>
           /\ \/ Item.field = "input_file" /\ buffer[At] = "<" /\ From = At + 1
                    /\ Stored("input_file")
              \/ Item.field = "output_file" /\ buffer[At] = ">" /\ From = At + 1
                    /\ Stored("output_file")
              \/ Item.field = "error_file" /\ IsErrorItem /\ From = At + 2
                    /\ Stored("error_file")
              \/ /\ Item.field = "argv" /\ buffer[At] \notin Delimiters /\ ~IsErrorItem
                 /\ From = At
                 /\ \/ Len(stage.argv) < MaxArgs - 1 /\ Appended
                    \/ Len(stage.argv) >= MaxArgs - 1 /\ UNCHANGED <<stage, tokens>>
<1>1. /\ ppc = "stage" /\ At < stage_end /\ TokenAt(From) /\ cursor' = Stop
      /\ UNCHANGED <<buffer, save_pipe, stage_end, stages, ppc>>
      /\ \/ Item.field # "argv" /\ Stored(Item.field)
         \/ /\ Item.field = "argv" /\ ~(Len(stage.argv) >= MaxArgs - 1)
            /\ Appended
         \/ /\ Item.field = "argv" /\ Len(stage.argv) >= MaxArgs - 1
            /\ UNCHANGED <<stage, tokens>>
  BY DEF ParseItem, At, Item, From, First, Stop, Stored, Appended
<1>2. At \in Nat
  BY ItemSeen
<1>3. \/ IsErrorItem /\ Item = [field |-> "error_file", length |-> 2]
      \/ buffer[At] = "<" /\ Item = [field |-> "input_file", length |-> 1]
      \/ buffer[At] = ">" /\ Item = [field |-> "output_file", length |-> 1]
      \/ /\ buffer[At] \notin Delimiters /\ ~IsErrorItem
         /\ Item = [field |-> "argv", length |-> 0]
  BY <1>1, ItemSeen
<1>4. \/ IsErrorItem /\ Item.field = "error_file" /\ Item.length = 2
      \/ buffer[At] = "<" /\ Item.field = "input_file" /\ Item.length = 1
      \/ buffer[At] = ">" /\ Item.field = "output_file" /\ Item.length = 1
      \/ /\ buffer[At] \notin Delimiters /\ ~IsErrorItem
         /\ Item.field = "argv" /\ Item.length = 0
  BY <1>3
<1>5. From = At + Item.length /\ At + 0 = At
  BY <1>2 DEF From
<1>6. Len(stage.argv) < MaxArgs - 1 <=> ~(Len(stage.argv) >= MaxArgs - 1)
  <2>1. stage.argv \in Seq(TokenSet) /\ MaxArgs \in Nat
    BY ParserAssumption, StageFields DEF ParserTypes
  <2>2. Len(stage.argv) \in Nat
    BY <2>1
  <2> QED
    BY <2>1, <2>2
<1> QED
  BY <1>1, <1>4, <1>5, <1>6

\* The stage after a turn has its type.
LEMMA StoredType ==
    ASSUME NEW s \in StageSet, NEW w \in TokenSet
    PROVE  /\ [s EXCEPT !["input_file"] = w] \in StageSet
           /\ [s EXCEPT !["output_file"] = w] \in StageSet
           /\ [s EXCEPT !["error_file"] = w] \in StageSet
           /\ [s EXCEPT !.argv = Append(@, w)] \in StageSet
<1>1. w \in FileSet
  BY DEF FileSet
<1>2. Append(s.argv, w) \in Seq(TokenSet)
  BY StageFields
<1> QED
  BY <1>1, <1>2 DEF StageSet

\* NextStage by cases, with the piece it finds.
PieceFirst == Find(save_pipe, Len(buffer) + 1, Characters \ {"|"})
PieceStop  == Find(PieceFirst, Len(buffer) + 1, {"|"})

LEMMA PieceSeen ==
    ASSUME ParserTypes
    PROVE  /\ Len(buffer) \in Nat /\ save_pipe \in Nat /\ save_pipe >= 1
           /\ PieceFirst \in Nat /\ save_pipe <= PieceFirst /\ PieceFirst <= Len(buffer) + 1
           /\ \A k \in save_pipe..(PieceFirst - 1) : buffer[k] = "|"
           /\ PieceStop \in Nat /\ PieceFirst <= PieceStop /\ PieceStop <= Len(buffer) + 1
           /\ \A k \in PieceFirst..(PieceStop - 1) : buffer[k] # "|"
           /\ PieceStop = Len(buffer) + 1 \/ buffer[PieceStop] = "|"
           /\ PieceFirst <= Len(buffer) => PieceFirst < PieceStop
<1>1. /\ Len(buffer) \in Nat /\ save_pipe \in 1..(Len(buffer) + 1)
      /\ \A k \in 1..Len(buffer) : buffer[k] \in Characters
  BY DEF ParserTypes
<1>2. /\ Len(buffer) \in Nat /\ Len(buffer) + 1 \in Nat /\ save_pipe \in Nat
      /\ save_pipe >= 1 /\ save_pipe <= Len(buffer) + 1
  BY <1>1
<1>3. /\ PieceFirst \in Nat /\ save_pipe <= PieceFirst /\ PieceFirst <= Len(buffer) + 1
      /\ PieceFirst = Len(buffer) + 1 \/ buffer[PieceFirst] \in Characters \ {"|"}
      /\ \A k \in save_pipe..(PieceFirst - 1) : buffer[k] \notin Characters \ {"|"}
  BY <1>2, FindStops DEF PieceFirst
<1>4. PieceFirst \in Nat /\ save_pipe <= PieceFirst /\ PieceFirst <= Len(buffer) + 1
  BY <1>3
<1>5. /\ PieceStop \in Nat /\ PieceFirst <= PieceStop /\ PieceStop <= Len(buffer) + 1
      /\ PieceStop = Len(buffer) + 1 \/ buffer[PieceStop] \in {"|"}
      /\ \A k \in PieceFirst..(PieceStop - 1) : buffer[k] \notin {"|"}
  BY <1>2, <1>4, FindStops DEF PieceStop
<1>6. PieceStop \in Nat /\ PieceFirst <= PieceStop
  BY <1>5
<1>7. ASSUME NEW k \in save_pipe..(PieceFirst - 1) PROVE buffer[k] = "|"
  <2>1. k \in 1..Len(buffer)
    BY <1>2, <1>4
  <2>2. buffer[k] \in Characters
    BY <1>1, <2>1
  <2> QED
    BY <1>3, <2>2
<1>8. ASSUME PieceFirst <= Len(buffer) PROVE PieceFirst < PieceStop
  <2>1. PieceFirst # Len(buffer) + 1
    BY <1>2, <1>4, <1>8
  <2>2. buffer[PieceFirst] # "|"
    BY <1>3, <2>1
  <2>3. PieceFirst # PieceStop
    BY <1>5, <2>1, <2>2
  <2> QED
    BY <1>4, <1>6, <2>3
<1> QED
  BY <1>2, <1>3, <1>5, <1>7, <1>8

LEMMA StageFound ==
    ASSUME ParserTypes, NextStage
    PROVE  /\ ppc = "split"
           /\ \/ /\ PieceFirst <= Len(buffer) /\ Len(stages) < MaxStages
                 /\ cursor' = PieceFirst /\ stage_end' = PieceStop
                 /\ stage' = EmptyStage /\ ppc' = "stage"
              \/ /\ PieceFirst > Len(buffer) \/ Len(stages) = MaxStages
                 /\ ppc' = "parsed"
                 /\ UNCHANGED <<cursor, stage_end, stage>>
           /\ save_pipe' \in 1..(Len(buffer) + 1)
           /\ PieceStop <= save_pipe'
           /\ \/ save_pipe' = Len(buffer) + 1 /\ PieceStop = Len(buffer) + 1
              \/ save_pipe' = PieceStop + 1 /\ buffer[PieceStop] = "|"
           /\ UNCHANGED <<buffer, stages, tokens>>
<1>1. /\ ppc = "split"
      /\ \/ /\ PieceFirst <= Len(buffer) /\ Len(stages) < MaxStages
            /\ cursor' = PieceFirst /\ stage_end' = PieceStop
            /\ stage' = EmptyStage /\ ppc' = "stage"
         \/ /\ ~(PieceFirst <= Len(buffer)) \/ Len(stages) = MaxStages
            /\ ppc' = "parsed"
            /\ UNCHANGED <<cursor, stage_end, stage>>
      /\ save_pipe' = Min({PieceStop + 1, Len(buffer) + 1})
      /\ UNCHANGED <<buffer, stages, tokens>>
  BY DEF NextStage, PieceFirst, PieceStop
<1>2. /\ Len(buffer) \in Nat /\ PieceFirst \in Nat
      /\ PieceStop \in Nat /\ PieceStop <= Len(buffer) + 1
      /\ PieceStop = Len(buffer) + 1 \/ buffer[PieceStop] = "|"
  BY PieceSeen
<1>3. /\ save_pipe' = PieceStop + 1 \/ save_pipe' = Len(buffer) + 1
      /\ save_pipe' <= PieceStop + 1 /\ save_pipe' <= Len(buffer) + 1
  <2> DEFINE T == {PieceStop + 1, Len(buffer) + 1}
  <2>1. T \in SUBSET Nat /\ T # {} /\ PieceStop + 1 \in T /\ Len(buffer) + 1 \in T
    BY <1>2
  <2>2. Min(T) \in T /\ \A y \in T : Min(T) <= y
    <3> HIDE DEF T
    <3> QED
      BY <2>1, LeastNumber
  <2> QED
    BY <1>1, <2>1, <2>2
<1>4. \/ save_pipe' = Len(buffer) + 1 /\ PieceStop = Len(buffer) + 1
      \/ save_pipe' = PieceStop + 1 /\ PieceStop # Len(buffer) + 1
  <2>1. Len(buffer) \in Nat /\ PieceStop \in Nat /\ PieceStop <= Len(buffer) + 1
    BY <1>2
  <2> QED
    BY <1>3, <2>1
<1>5. PieceStop <= save_pipe' /\ save_pipe' \in 1..(Len(buffer) + 1)
  BY <1>2, <1>3
<1>6. ~(PieceFirst <= Len(buffer)) => PieceFirst > Len(buffer)
  BY <1>2
<1> QED
  BY <1>1, <1>2, <1>4, <1>5, <1>6

LEMMA TypesInit == ParserInit => ParserTypes
<1> SUFFICES ASSUME ParserInit PROVE ParserTypes
  OBVIOUS
<1>1. /\ Len(buffer) = 0 /\ buffer \in Seq(Characters)
      /\ stages \in Seq(StageSet) /\ Len(stages) = 0
  BY DEF ParserInit
<1> QED
  BY <1>1, EmptyStageType, ParserAssumption DEF ParserInit, ParserTypes

LEMMA TypesKept == ParserTypes /\ ParserStep => ParserTypes'
<1> SUFFICES ASSUME ParserTypes, ParserStep PROVE ParserTypes'
  OBVIOUS
<1>1. CASE ppc = "start" /\ \E input \in Inputs : parser_parse(input)
  <2>1. PICK input \in Inputs : parser_parse(input)
    BY <1>1
  <2>2. /\ cursor = 1 /\ stage_end = 1 /\ save_pipe = 1
        /\ stage = EmptyStage /\ stages = <<>> /\ tokens = {} /\ buffer \in Seq(Characters)
    BY <1>1 DEF ParserTypes
  <2>3. UNCHANGED <<cursor, stage_end, stage, stages, tokens>>
    BY <2>1 DEF parser_parse
  <2>4. CASE ppc' = "no_memory" /\ UNCHANGED <<buffer, save_pipe>>
    BY <2>3, <2>4 DEF ParserTypes
  <2>5. CASE /\ buffer' = SubSeq(input, 1, Min({Len(input), InputBuffer - 1}))
             /\ save_pipe' = 1 /\ ppc' = "split"
    <3>1. input \in Seq(Characters) /\ Len(input) \in Nat /\ InputBuffer - 1 \in Nat
      BY ParserAssumption
    <3>2. /\ Min({Len(input), InputBuffer - 1}) \in Nat
          /\ Min({Len(input), InputBuffer - 1}) <= Len(input)
      <4> DEFINE T == {Len(input), InputBuffer - 1}
      <4>1. T \in SUBSET Nat /\ T # {} /\ Len(input) \in T
        BY <3>1
      <4>2. Min(T) \in T /\ \A y \in T : Min(T) <= y
        <5> HIDE DEF T
        <5> QED
          BY <4>1, LeastNumber
      <4> QED
        BY <3>1, <4>1, <4>2
    <3>3. buffer' \in Seq(Characters)
      <4> DEFINE m == Min({Len(input), InputBuffer - 1})
      <4>1. m \in Nat /\ m <= Len(input)
        BY <3>2
      <4> HIDE DEF m
      <4>2. SubSeq(input, 1, m) \in Seq(Characters)
        BY <3>1, <4>1
      <4> QED
        BY <2>5, <4>2 DEF m
    <3>4. Len(buffer') \in Nat
      BY <3>3
    <3>5. 1 \in 1..(Len(buffer') + 1) /\ 1 \in 1..1
      BY <3>4
    <3>6. /\ stage' \in StageSet /\ stages' \in Seq(StageSet) /\ Len(stages') <= MaxStages
      BY <2>3 DEF ParserTypes
    <3> QED
      BY <2>2, <2>3, <2>5, <3>3, <3>5, <3>6 DEF ParserTypes
  <2> QED
    BY <2>1, <2>4, <2>5 DEF parser_parse
<1>2. CASE NextStage
  <2>1. /\ ppc = "split"
        /\ \/ /\ PieceFirst <= Len(buffer) /\ Len(stages) < MaxStages
              /\ cursor' = PieceFirst /\ stage_end' = PieceStop
              /\ stage' = EmptyStage /\ ppc' = "stage"
           \/ /\ ppc' = "parsed"
              /\ UNCHANGED <<cursor, stage_end, stage>>
        /\ save_pipe' \in 1..(Len(buffer) + 1)
        /\ PieceStop <= save_pipe'
        /\ UNCHANGED <<buffer, stages, tokens>>
    BY <1>2, StageFound
  <2>2. CASE ppc' = "parsed" /\ UNCHANGED <<cursor, stage_end, stage>>
    BY <2>1, <2>2 DEF ParserTypes
  <2>3. CASE /\ Len(stages) < MaxStages
             /\ cursor' = PieceFirst /\ stage_end' = PieceStop
             /\ stage' = EmptyStage /\ ppc' = "stage"
    <3>1. /\ Len(buffer) \in Nat /\ save_pipe \in Nat /\ save_pipe >= 1
          /\ PieceFirst \in Nat /\ save_pipe <= PieceFirst
          /\ PieceStop \in Nat /\ PieceFirst <= PieceStop /\ PieceStop <= Len(buffer) + 1
      BY PieceSeen
    <3>2. PieceFirst \in 1..PieceStop /\ PieceStop \in 1..(Len(buffer) + 1)
      BY <3>1
    <3> QED
      BY <2>1, <2>3, <3>2, EmptyStageType DEF ParserTypes
  <2> QED
    BY <2>1, <2>2, <2>3
<1>3. CASE ParseItem
  <2>1. /\ ppc = "stage" /\ At < stage_end /\ TokenAt(From) /\ cursor' = Stop
        /\ UNCHANGED <<buffer, save_pipe, stage_end, stages, ppc>>
        /\ \/ Stored("input_file") \/ Stored("output_file") \/ Stored("error_file")
           \/ Appended \/ UNCHANGED stage
    BY <1>3, ItemParsed
  <2>2. /\ Stop \in Nat /\ First < Stop /\ Stop <= stage_end
        /\ First \in Nat /\ Token(From) \in TokenSet
    BY <2>1, TokenSeen
  <2>3. cursor' \in 1..stage_end
    <3>1. stage_end \in Nat
      BY Positions
    <3> QED
      BY <2>1, <2>2, <3>1
  <2>4. stage' \in StageSet
    <3>1. stage \in StageSet
      BY DEF ParserTypes
    <3> QED
      BY <2>1, <2>2, <3>1, StoredType DEF Stored, Appended
  <2> QED
    BY <2>1, <2>3, <2>4 DEF ParserTypes
<1>4. CASE StageDone
  <2>1. /\ ppc = "stage" /\ stages' = Append(stages, stage) /\ ppc' = "split"
        /\ UNCHANGED <<buffer, save_pipe, cursor, stage_end, stage, tokens>>
    BY <1>4 DEF StageDone
  <2>2. stages \in Seq(StageSet) /\ stage \in StageSet /\ Len(stages) < MaxStages
    BY <2>1 DEF ParserTypes
  <2>3. stages' \in Seq(StageSet) /\ Len(stages') = Len(stages) + 1
    BY <2>1, <2>2
  <2>4. Len(stages') <= MaxStages
    <3>1. MaxStages \in Nat /\ Len(stages) \in Nat
      BY <2>2, ParserAssumption
    <3> QED
      BY <2>2, <2>3, <3>1
  <2> QED
    BY <2>1, <2>3, <2>4 DEF ParserTypes
<1>5. CASE StageFails
  <2>1. /\ ppc' \in {"no_memory", "refused"}
        /\ UNCHANGED <<buffer, save_pipe, cursor, stage_end, stage, stages>>
    BY <1>5 DEF StageFails, parser_destroy
  <2> QED
    BY <2>1 DEF ParserTypes
<1> QED
  BY <1>1, <1>2, <1>3, <1>4, <1>5 DEF ParserStep

LEMMA TypesAreInvariant == CmdSpec => []ParserTypes
<1>1. CmdInit => ParserTypes
  BY TypesInit DEF CmdInit
<1>2. ParserTypes /\ [CmdNext]_cmdVars => ParserTypes'
  <2> SUFFICES ASSUME ParserTypes, [CmdNext]_cmdVars PROVE ParserTypes'
    OBVIOUS
  <2>1. CASE ParserStep
    BY <2>1, TypesKept
  <2>2. CASE Execute \/ Destroy
    <3>1. /\ ppc' \in {"executing", "destroyed"}
          /\ UNCHANGED <<buffer, save_pipe, cursor, stage_end, stage, stages>>
      BY <2>2 DEF Execute, Destroy, parser_destroy
    <3> QED
      BY <3>1 DEF ParserTypes
  <2>3. CASE UNCHANGED parserVars
    BY <2>3 DEF ParserTypes, parserVars
  <2> QED
    BY <2>1, <2>2, <2>3 DEF CmdNext, cmdVars, Parse, RunnerExec, ChildRuns
<1> QED
  BY <1>1, <1>2, PTL DEF CmdSpec

------------------------------------------------------------------------------
(* Who owns the tokens *)

\* No token is in two fields of the stage.
OwnedOnce(s) ==
    /\ Distinct(s.argv)
    /\ s.input_file \notin Elements(s.argv) /\ s.output_file \notin Elements(s.argv)
    /\ s.error_file \notin Elements(s.argv)
    /\ s.input_file = s.output_file => s.input_file = NoFile
    /\ s.input_file = s.error_file => s.input_file = NoFile
    /\ s.output_file = s.error_file => s.output_file = NoFile

LEMMA TokensOfStage ==
    ASSUME NEW s \in StageSet
    PROVE  TokensOf(s) = Elements(s.argv) \cup
                            ({s.input_file, s.output_file, s.error_file} \ {NoFile})
<1>1. s.argv \in Seq(TokenSet)
  BY StageFields
<1>2. ToSet(s.argv) = Elements(s.argv)
  BY <1>1 DEF ToSet, Elements
<1> QED
  BY <1>2 DEF TokensOf

LEMMA TokensAreRanges ==
    ASSUME NEW s \in StageSet
    PROVE  TokensOf(s) \subseteq TokenSet
<1>1. Elements(s.argv) \subseteq TokenSet
  BY StageFields DEF Elements
<1> QED
  BY <1>1, StageFields, TokensOfStage DEF FileSet

\* The fields of such a stage, one after the other.
LEMMA FieldsOfStage ==
    ASSUME NEW s \in StageSet, OwnedOnce(s)
    PROVE  /\ FieldsOf(s) \in Seq(TokenSet)
           /\ Elements(FieldsOf(s)) = TokensOf(s)
           /\ Distinct(FieldsOf(s))
<1> DEFINE File(f) == IF f = NoFile THEN <<>> ELSE <<f>>
           Held(f) == {f} \ {NoFile}
<1>1. ASSUME NEW f \in FileSet
      PROVE  File(f) \in Seq(TokenSet) /\ Elements(File(f)) = Held(f) /\ Distinct(File(f))
  <2>1. CASE f = NoFile
    <3>1. File(f) = <<>> /\ 1..Len(<<>>) = {} /\ Held(f) = {}
      BY <2>1
    <3> QED
      BY <3>1 DEF Elements, Distinct
  <2>2. CASE f # NoFile
    <3>1. File(f) = <<f>> /\ f \in TokenSet /\ Held(f) = {f}
      BY <2>2 DEF FileSet
    <3>2. 1..Len(<<f>>) = {1} /\ <<f>>[1] = f
      OBVIOUS
    <3>3. Elements(<<f>>) = {f} /\ Distinct(<<f>>)
      BY <3>2 DEF Elements, Distinct
    <3> QED
      BY <3>1, <3>3
  <2> QED
    BY <2>1, <2>2
<1> DEFINE a1 == s.argv
           b1 == File(s.input_file)
           b2 == File(s.output_file)
           b3 == File(s.error_file)
           a2 == a1 \o b1
           a3 == a2 \o b2
           a4 == a3 \o b3
<1>2. a1 \in Seq(TokenSet) /\ Distinct(a1)
  BY StageFields DEF OwnedOnce
<1>3. /\ b1 \in Seq(TokenSet) /\ Elements(b1) = Held(s.input_file) /\ Distinct(b1)
      /\ b2 \in Seq(TokenSet) /\ Elements(b2) = Held(s.output_file) /\ Distinct(b2)
      /\ b3 \in Seq(TokenSet) /\ Elements(b3) = Held(s.error_file) /\ Distinct(b3)
  BY <1>1, StageFields
<1>4. a4 = FieldsOf(s)
  BY DEF FieldsOf
<1> HIDE DEF b1, b2, b3, File
<1>5. a2 \in Seq(TokenSet) /\ Distinct(a2) /\ Elements(a2) = Elements(a1) \cup Held(s.input_file)
  <2>1. Elements(a1) \cap Elements(b1) = {}
    BY <1>3 DEF OwnedOnce
  <2> HIDE DEF a1
  <2> QED
    BY <1>2, <1>3, <2>1, JoinDistinct
<1>6. a3 \in Seq(TokenSet) /\ Distinct(a3) /\ Elements(a3) = Elements(a2) \cup Held(s.output_file)
  <2>1. Elements(a2) \cap Elements(b2) = {}
    BY <1>3, <1>5 DEF OwnedOnce
  <2> HIDE DEF a2
  <2> QED
    BY <1>3, <1>5, <2>1, JoinDistinct
<1>7. a4 \in Seq(TokenSet) /\ Distinct(a4) /\ Elements(a4) = Elements(a3) \cup Held(s.error_file)
  <2>1. Elements(a3) \cap Elements(b3) = {}
    BY <1>3, <1>5, <1>6 DEF OwnedOnce
  <2> HIDE DEF a3
  <2> QED
    BY <1>3, <1>6, <2>1, JoinDistinct
<1>8. Elements(a4) = TokensOf(s)
  BY <1>5, <1>6, <1>7, TokensOfStage
<1> QED
  BY <1>4, <1>7, <1>8

LEMMA AppendElements ==
    ASSUME NEW T, NEW s \in Seq(T), NEW w \in T
    PROVE  /\ Elements(Append(s, w)) = Elements(s) \cup {w}
           /\ Distinct(s) /\ w \notin Elements(s) => Distinct(Append(s, w))
<1> DEFINE n == Len(s)
           c == Append(s, w)
<1>1. n \in Nat /\ Len(c) = n + 1 /\ c[n + 1] = w /\ \A k \in 1..n : c[k] = s[k]
  OBVIOUS
<1>2. 1..(n + 1) = 1..n \cup {n + 1} /\ n + 1 \notin 1..n
  BY <1>1
<1> HIDE DEF n, c
<1>3. Elements(c) = Elements(s) \cup {w}
  BY <1>1, <1>2 DEF Elements, n
<1>4. ASSUME Distinct(s), w \notin Elements(s) PROVE Distinct(c)
  BY <1>1, <1>2, <1>4 DEF Elements, Distinct, n
<1> QED
  BY <1>3, <1>4 DEF c

LEMMA EmptyStageOwned == OwnedOnce(EmptyStage) /\ TokensOf(EmptyStage) = {}
<1>1. EmptyStage.argv = <<>> /\ 1..Len(<<>>) = {}
  BY DEF EmptyStage
<1>2. Elements(EmptyStage.argv) = {} /\ Distinct(EmptyStage.argv)
  BY <1>1 DEF Elements, Distinct
<1>3. /\ EmptyStage.input_file = NoFile /\ EmptyStage.output_file = NoFile
      /\ EmptyStage.error_file = NoFile
  BY DEF EmptyStage
<1> QED
  BY <1>2, <1>3, EmptyStageType, TokensOfStage DEF OwnedOnce

\* A new token in one of the fields: what the stage has then.
LEMMA OwnsOneMore ==
    ASSUME NEW s \in StageSet, OwnedOnce(s), NEW w \in TokenSet, w \notin TokensOf(s)
    PROVE  /\ LET t == [s EXCEPT !.argv = Append(@, w)]
              IN  OwnedOnce(t) /\ TokensOf(t) = TokensOf(s) \cup {w}
           /\ LET t == [s EXCEPT !["input_file"] = w]
              IN  OwnedOnce(t) /\ TokensOf(t) = (TokensOf(s) \ {s.input_file}) \cup {w}
           /\ LET t == [s EXCEPT !["output_file"] = w]
              IN  OwnedOnce(t) /\ TokensOf(t) = (TokensOf(s) \ {s.output_file}) \cup {w}
           /\ LET t == [s EXCEPT !["error_file"] = w]
              IN  OwnedOnce(t) /\ TokensOf(t) = (TokensOf(s) \ {s.error_file}) \cup {w}
<1>1. TokensOf(s) = Elements(s.argv) \cup
                       ({s.input_file, s.output_file, s.error_file} \ {NoFile})
  BY TokensOfStage
<1>2. w # NoFile /\ w \notin Elements(s.argv)
  BY <1>1, NoFileIsNoToken
<1>3. LET t == [s EXCEPT !.argv = Append(@, w)]
      IN  OwnedOnce(t) /\ TokensOf(t) = TokensOf(s) \cup {w}
  <2> DEFINE t == [s EXCEPT !.argv = Append(@, w)]
  <2>1. t \in StageSet
    BY StoredType
  <2>2. /\ t.argv = Append(s.argv, w) /\ t.input_file = s.input_file
        /\ t.output_file = s.output_file /\ t.error_file = s.error_file
    BY DEF StageSet
  <2> HIDE DEF t
  <2>3. Elements(t.argv) = Elements(s.argv) \cup {w} /\ Distinct(t.argv)
    BY <1>2, <2>2, AppendElements, StageFields DEF OwnedOnce
  <2>4. TokensOf(t) = Elements(t.argv) \cup
                         ({t.input_file, t.output_file, t.error_file} \ {NoFile})
    BY <2>1, TokensOfStage
  <2>5. OwnedOnce(t)
    BY <1>1, <1>2, <2>2, <2>3 DEF OwnedOnce
  <2>6. TokensOf(t) = TokensOf(s) \cup {w}
    BY <1>1, <2>2, <2>3, <2>4
  <2> QED
    BY <2>5, <2>6 DEF t
<1>4. LET t == [s EXCEPT !["input_file"] = w]
      IN  OwnedOnce(t) /\ TokensOf(t) = (TokensOf(s) \ {s.input_file}) \cup {w}
  <2> DEFINE t == [s EXCEPT !["input_file"] = w]
  <2>1. t \in StageSet
    BY StoredType
  <2>2. /\ t.argv = s.argv /\ t.input_file = w
        /\ t.output_file = s.output_file /\ t.error_file = s.error_file
    BY DEF StageSet
  <2> HIDE DEF t
  <2>4. TokensOf(t) = Elements(t.argv) \cup
                         ({t.input_file, t.output_file, t.error_file} \ {NoFile})
    BY <2>1, TokensOfStage
  <2>5. OwnedOnce(t)
    BY <1>1, <1>2, <2>2 DEF OwnedOnce
  <2>6. TokensOf(t) = (TokensOf(s) \ {s.input_file}) \cup {w}
    BY <1>1, <1>2, <2>2, <2>4 DEF OwnedOnce
  <2> QED
    BY <2>5, <2>6 DEF t
<1>5. LET t == [s EXCEPT !["output_file"] = w]
      IN  OwnedOnce(t) /\ TokensOf(t) = (TokensOf(s) \ {s.output_file}) \cup {w}
  <2> DEFINE t == [s EXCEPT !["output_file"] = w]
  <2>1. t \in StageSet
    BY StoredType
  <2>2. /\ t.argv = s.argv /\ t.input_file = s.input_file
        /\ t.output_file = w /\ t.error_file = s.error_file
    BY DEF StageSet
  <2> HIDE DEF t
  <2>4. TokensOf(t) = Elements(t.argv) \cup
                         ({t.input_file, t.output_file, t.error_file} \ {NoFile})
    BY <2>1, TokensOfStage
  <2>5. OwnedOnce(t)
    BY <1>1, <1>2, <2>2 DEF OwnedOnce
  <2>6. TokensOf(t) = (TokensOf(s) \ {s.output_file}) \cup {w}
    BY <1>1, <1>2, <2>2, <2>4 DEF OwnedOnce
  <2> QED
    BY <2>5, <2>6 DEF t
<1>6. LET t == [s EXCEPT !["error_file"] = w]
      IN  OwnedOnce(t) /\ TokensOf(t) = (TokensOf(s) \ {s.error_file}) \cup {w}
  <2> DEFINE t == [s EXCEPT !["error_file"] = w]
  <2>1. t \in StageSet
    BY StoredType
  <2>2. /\ t.argv = s.argv /\ t.input_file = s.input_file
        /\ t.output_file = s.output_file /\ t.error_file = w
    BY DEF StageSet
  <2> HIDE DEF t
  <2>4. TokensOf(t) = Elements(t.argv) \cup
                         ({t.input_file, t.output_file, t.error_file} \ {NoFile})
    BY <2>1, TokensOfStage
  <2>5. OwnedOnce(t)
    BY <1>1, <1>2, <2>2 DEF OwnedOnce
  <2>6. TokensOf(t) = (TokensOf(s) \ {s.error_file}) \cup {w}
    BY <1>1, <1>2, <2>2, <2>4 DEF OwnedOnce
  <2> QED
    BY <2>5, <2>6 DEF t
<1> QED
  BY <1>3, <1>4, <1>5, <1>6

\* The inductive invariant: what the fields hold is exactly what is allocated,
\* and everything allocated so far starts before the place the parser has
\* reached, so that the next token is a new one.
OwnInv ==
    /\ ParserTypes
    /\ \A n \in 1..Len(stages) : OwnedOnce(stages[n])
    /\ \A m, n \in 1..Len(stages) : m # n => TokensOf(stages[m]) \cap TokensOf(stages[n]) = {}
    /\ ppc \in {"split", "parsed", "executing"} => tokens = StoredTokens
    /\ ppc = "split" => \A w \in tokens : w[1] < save_pipe
    /\ ppc = "stage" =>
          /\ OwnedOnce(stage)
          /\ tokens = StoredTokens \cup TokensOf(stage)
          /\ StoredTokens \cap TokensOf(stage) = {}
          /\ \A w \in tokens : w[1] < cursor
    /\ ppc = "destroyed" => tokens = {}
    /\ ppc \in {"refused", "no_memory"} => OwnedOnce(stage) /\ tokens = TokensOf(stage)

LEMMA StoredIsAll ==
    ASSUME ParserTypes
    PROVE  StoredTokens = UNION {TokensOf(stages[n]) : n \in 1..Len(stages)}
  BY DEF ParserTypes, StoredTokens

\* Every token allocated is a range of the text.
LEMMA AllocatedAreRanges ==
    ASSUME OwnInv, ppc \in {"split", "stage"}
    PROVE  \A w \in tokens : w \in TokenSet /\ w[1] \in Nat
<1>1. /\ stages \in Seq(StageSet) /\ stage \in StageSet
  BY DEF OwnInv, ParserTypes
<1>2. StoredTokens \subseteq TokenSet
  <2>1. \A n \in 1..Len(stages) : stages[n] \in StageSet
    BY <1>1
  <2>2. \A n \in 1..Len(stages) : TokensOf(stages[n]) \subseteq TokenSet
    BY <2>1, TokensAreRanges
  <2> QED
    BY <2>2, StoredIsAll DEF OwnInv
<1>3. TokensOf(stage) \subseteq TokenSet
  BY <1>1, TokensAreRanges
<1>4. tokens \subseteq TokenSet
  BY <1>2, <1>3 DEF OwnInv
<1>5. \A w \in TokenSet : w[1] \in Nat
  BY DEF TokenSet
<1> QED
  BY <1>4, <1>5

LEMMA OwnInit == CmdInit => OwnInv
<1> SUFFICES ASSUME CmdInit PROVE OwnInv
  OBVIOUS
<1>1. ParserTypes
  BY TypesInit DEF CmdInit
<1>2. stages = <<>> /\ ppc = "start"
  BY DEF CmdInit, ParserInit
<1>3. 1..Len(stages) = {}
  BY <1>2
<1> QED
  BY <1>1, <1>2, <1>3 DEF OwnInv

LEMMA OwnItem == OwnInv /\ ParseItem => OwnInv'
<1> SUFFICES ASSUME OwnInv, ParseItem PROVE OwnInv'
  OBVIOUS
<1>1. ParserTypes /\ ParserTypes'
  BY TypesKept DEF OwnInv, ParserStep
<1>2. /\ ppc = "stage" /\ At < stage_end /\ TokenAt(From) /\ cursor' = Stop
      /\ UNCHANGED <<buffer, save_pipe, stage_end, stages, ppc>>
      /\ \/ Stored("input_file") \/ Stored("output_file") \/ Stored("error_file")
         \/ Appended \/ UNCHANGED <<stage, tokens>>
  BY <1>1, ItemParsed
<1> DEFINE w == Token(From)
<1>3. /\ w \in TokenSet /\ w = <<First, Stop - 1>> /\ First < Stop /\ First \in Nat
      /\ Stop \in Nat /\ From <= First
  BY <1>1, <1>2, TokenSeen
<1>4. w[1] = First /\ cursor \in Nat /\ cursor <= First
  <2>1. At \in Nat /\ cursor <= At /\ From \in Nat /\ At <= From
    BY <1>1, <1>2, ItemSeen
  <2>2. cursor \in Nat
    BY <1>1, Positions
  <2> QED
    BY <1>3, <2>1, <2>2
<1> HIDE DEF w
<1>5. \A v \in tokens : v[1] \in Nat /\ v[1] < cursor
  BY <1>2, AllocatedAreRanges DEF OwnInv
<1>6. w \notin tokens
  BY <1>4, <1>5
<1>7. \A v \in tokens : v[1] < cursor'
  <2> TAKE v \in tokens
  <2>1. v[1] \in Nat /\ v[1] < cursor
    BY <1>5
  <2> QED
    BY <1>2, <1>3, <1>4, <2>1
<1>8. w[1] < cursor'
  BY <1>2, <1>3, <1>4
<1>9. /\ stage \in StageSet /\ OwnedOnce(stage) /\ tokens = StoredTokens \cup TokensOf(stage)
      /\ StoredTokens \cap TokensOf(stage) = {} /\ w \notin TokensOf(stage)
  BY <1>1, <1>2, <1>6 DEF OwnInv, ParserTypes
<1>10. StoredTokens' = StoredTokens
  BY <1>2 DEF StoredTokens
<1>11. NoFile \notin tokens
  BY <1>2, AllocatedAreRanges, NoFileIsNoToken
<1>12. /\ OwnedOnce(stage')
       /\ tokens' = StoredTokens \cup TokensOf(stage')
       /\ StoredTokens \cap TokensOf(stage') = {}
       /\ tokens' \subseteq tokens \cup {w}
  <2>1. CASE Appended
    <3>1. /\ OwnedOnce(stage') /\ TokensOf(stage') = TokensOf(stage) \cup {w}
          /\ tokens' = tokens \cup {w}
      BY <1>3, <1>9, <2>1, OwnsOneMore DEF Appended, w
    <3> QED
      BY <1>6, <1>9, <3>1
  <2>2. CASE Stored("input_file")
    <3>1. /\ OwnedOnce(stage')
          /\ TokensOf(stage') = (TokensOf(stage) \ {stage.input_file}) \cup {w}
          /\ tokens' = (tokens \ ({stage.input_file} \ {NoFile})) \cup {w}
      BY <1>3, <1>9, <2>2, OwnsOneMore DEF Stored, FreedTarget, w
    <3>2. stage.input_file \notin StoredTokens
      BY <1>9, <1>11, TokensOfStage
    <3> QED
      BY <1>6, <1>9, <1>11, <3>1, <3>2
  <2>3. CASE Stored("output_file")
    <3>1. /\ OwnedOnce(stage')
          /\ TokensOf(stage') = (TokensOf(stage) \ {stage.output_file}) \cup {w}
          /\ tokens' = (tokens \ ({stage.output_file} \ {NoFile})) \cup {w}
      BY <1>3, <1>9, <2>3, OwnsOneMore DEF Stored, FreedTarget, w
    <3>2. stage.output_file \notin StoredTokens
      BY <1>9, <1>11, TokensOfStage
    <3> QED
      BY <1>6, <1>9, <1>11, <3>1, <3>2
  <2>4. CASE Stored("error_file")
    <3>1. /\ OwnedOnce(stage')
          /\ TokensOf(stage') = (TokensOf(stage) \ {stage.error_file}) \cup {w}
          /\ tokens' = (tokens \ ({stage.error_file} \ {NoFile})) \cup {w}
      BY <1>3, <1>9, <2>4, OwnsOneMore DEF Stored, FreedTarget, w
    <3>2. stage.error_file \notin StoredTokens
      BY <1>9, <1>11, TokensOfStage
    <3> QED
      BY <1>6, <1>9, <1>11, <3>1, <3>2
  <2>5. CASE UNCHANGED <<stage, tokens>>
    BY <1>9, <2>5
  <2> QED
    BY <1>2, <2>1, <2>2, <2>3, <2>4, <2>5
<1>13. \A v \in tokens' : v[1] < cursor'
  BY <1>7, <1>8, <1>12
<1>14. /\ \A n \in 1..Len(stages') : OwnedOnce(stages'[n])
       /\ \A m, n \in 1..Len(stages') :
             m # n => TokensOf(stages'[m]) \cap TokensOf(stages'[n]) = {}
  BY <1>2 DEF OwnInv
<1>15. ppc' = "stage"
  BY <1>2
<1> QED
  BY <1>1, <1>10, <1>12, <1>13, <1>14, <1>15 DEF OwnInv

LEMMA OwnDone == OwnInv /\ StageDone => OwnInv'
<1> SUFFICES ASSUME OwnInv, StageDone PROVE OwnInv'
  OBVIOUS
<1>1. ParserTypes /\ ParserTypes'
  BY TypesKept DEF OwnInv, ParserStep
<1>2. /\ ppc = "stage" /\ stages' = Append(stages, stage) /\ ppc' = "split"
      /\ UNCHANGED <<buffer, save_pipe, cursor, stage_end, stage, tokens>>
  BY DEF StageDone
<1>3. /\ OwnedOnce(stage) /\ tokens = StoredTokens \cup TokensOf(stage)
      /\ StoredTokens \cap TokensOf(stage) = {} /\ \A w \in tokens : w[1] < cursor
  BY <1>2 DEF OwnInv
<1> DEFINE N == Len(stages)
<1>4. /\ N \in Nat /\ Len(stages') = N + 1 /\ stages'[N + 1] = stage
      /\ \A n \in 1..N : stages'[n] = stages[n]
  BY <1>1, <1>2 DEF ParserTypes
<1>5. 1..(N + 1) = 1..N \cup {N + 1} /\ N + 1 \notin 1..N
  BY <1>4
<1>6. StoredTokens = UNION {TokensOf(stages[n]) : n \in 1..N}
  BY <1>1, StoredIsAll
<1>7. StoredTokens' = UNION {TokensOf(stages'[n]) : n \in 1..(N + 1)}
  <2>1. stages' \in Seq(StageSet)
    BY <1>1 DEF ParserTypes
  <2>2. DOMAIN stages' = 1..(N + 1)
    BY <1>4, <2>1
  <2> QED
    BY <2>2 DEF StoredTokens
<1>8. /\ \A n \in 1..N : OwnedOnce(stages[n])
      /\ \A m, n \in 1..N : m # n => TokensOf(stages[m]) \cap TokensOf(stages[n]) = {}
  BY DEF OwnInv
<1> HIDE DEF N
<1>9. tokens' = StoredTokens'
  BY <1>2, <1>3, <1>4, <1>5, <1>6, <1>7
<1>10. \A n \in 1..(N + 1) : OwnedOnce(stages'[n])
  BY <1>3, <1>4, <1>5, <1>8
<1>11. \A n \in 1..N : TokensOf(stages[n]) \cap TokensOf(stage) = {}
  BY <1>3, <1>6
<1>12. ASSUME NEW m \in 1..(N + 1), NEW n \in 1..(N + 1), m # n
       PROVE  TokensOf(stages'[m]) \cap TokensOf(stages'[n]) = {}
  BY <1>4, <1>5, <1>8, <1>11, <1>12
<1>13. \A w \in tokens' : w[1] < save_pipe'
  <2>1. cursor \in Nat /\ stage_end \in Nat /\ cursor <= stage_end
    BY <1>1, Positions
  <2>2. stage_end <= save_pipe /\ save_pipe \in Nat
    <3>1. save_pipe \in 1..(Len(buffer) + 1) /\ Len(buffer) \in Nat /\ stage_end <= save_pipe
      BY <1>1, <1>2 DEF ParserTypes
    <3> QED
      BY <3>1
  <2>3. \A w \in tokens : w[1] \in Nat
    BY <1>2, AllocatedAreRanges
  <2> SUFFICES ASSUME NEW w \in tokens PROVE w[1] < save_pipe
    BY <1>2
  <2>4. w[1] \in Nat /\ w[1] < cursor
    BY <1>3, <2>3
  <2> QED
    BY <2>1, <2>2, <2>4
<1> QED
  BY <1>1, <1>2, <1>4, <1>9, <1>10, <1>12, <1>13 DEF OwnInv

LEMMA OwnKept == OwnInv /\ [CmdNext]_cmdVars => OwnInv'
<1> SUFFICES ASSUME OwnInv, [CmdNext]_cmdVars PROVE OwnInv'
  OBVIOUS
<1>0. ParserTypes
  BY DEF OwnInv
<1>1. CASE ppc = "start" /\ \E input \in Inputs : parser_parse(input)
  <2>1. /\ ParserTypes' /\ ppc' \in {"split", "no_memory"}
        /\ UNCHANGED <<stage, stages, tokens>>
    BY <1>0, <1>1, TypesKept DEF ParserStep, parser_parse
  <2>2. stage = EmptyStage /\ stages = <<>> /\ tokens = {}
    BY <1>0, <1>1 DEF ParserTypes
  <2>3. Len(<<>>) = 0 /\ 1..0 = {} /\ DOMAIN <<>> = {}
    OBVIOUS
  <2>4. StoredTokens' = {}
    BY <2>1, <2>2, <2>3 DEF StoredTokens
  <2> QED
    BY <2>1, <2>2, <2>3, <2>4, EmptyStageOwned DEF OwnInv
<1>2. CASE NextStage
  <2>0. ParserTypes'
    BY <1>0, <1>2, TypesKept DEF ParserStep
  <2>1. /\ ppc = "split"
        /\ \/ cursor' = PieceFirst /\ stage' = EmptyStage /\ ppc' = "stage"
           \/ ppc' = "parsed"
        /\ UNCHANGED <<buffer, stages, tokens>>
    BY <1>0, <1>2, StageFound
  <2>2. StoredTokens' = StoredTokens /\ tokens = StoredTokens
    BY <2>1 DEF StoredTokens, OwnInv
  <2>3. \A w \in tokens : w[1] < PieceFirst
    <3>1. save_pipe \in Nat /\ PieceFirst \in Nat /\ save_pipe <= PieceFirst
      BY <1>0, PieceSeen
    <3> TAKE w \in tokens
    <3>2. w[1] \in Nat /\ w[1] < save_pipe
      BY <2>1, AllocatedAreRanges DEF OwnInv
    <3> QED
      BY <3>1, <3>2
  <2> QED
    BY <2>0, <2>1, <2>2, <2>3, EmptyStageOwned DEF OwnInv
<1>3. CASE ParseItem
  BY <1>3, OwnItem
<1>4. CASE StageDone
  BY <1>4, OwnDone
<1>5. CASE StageFails
  <2>0. ParserTypes'
    BY <1>0, <1>5, TypesKept DEF ParserStep
  <2>1. /\ ppc = "stage" /\ ppc' \in {"no_memory", "refused"}
        /\ tokens' = tokens \ StoredTokens
        /\ UNCHANGED <<buffer, save_pipe, cursor, stage_end, stage, stages>>
    BY <1>5 DEF StageFails, parser_destroy
  <2> QED
    BY <2>0, <2>1 DEF OwnInv
<1>6. CASE Execute
  <2>1. /\ ppc = "parsed" /\ ppc' = "executing"
        /\ UNCHANGED <<buffer, save_pipe, cursor, stage_end, stage, stages, tokens>>
    BY <1>6 DEF Execute
  <2>2. StoredTokens' = StoredTokens
    BY <2>1 DEF StoredTokens
  <2> QED
    BY <2>1, <2>2 DEF OwnInv, ParserTypes
<1>7. CASE Destroy
  <2>1. /\ ppc = "executing" /\ ppc' = "destroyed" /\ tokens' = tokens \ StoredTokens
        /\ UNCHANGED <<buffer, save_pipe, cursor, stage_end, stage, stages>>
    BY <1>7 DEF Destroy, parser_destroy
  <2> QED
    BY <2>1 DEF OwnInv, ParserTypes
<1>8. CASE UNCHANGED parserVars
  <2>1. /\ ppc' = ppc
        /\ UNCHANGED <<buffer, save_pipe, cursor, stage_end, stage, stages, tokens>>
    BY <1>8 DEF parserVars
  <2>2. ParserTypes'
    BY <1>0, <2>1 DEF ParserTypes
  <2>3. StoredTokens' = StoredTokens
    BY <2>1 DEF StoredTokens
  <2> QED
    BY <2>1, <2>2, <2>3 DEF OwnInv
<1> QED
  BY <1>1, <1>2, <1>3, <1>4, <1>5, <1>6, <1>7, <1>8
     DEF CmdNext, cmdVars, Parse, ParserStep, RunnerExec, ChildRuns

LEMMA OwnGivesTokensOwned == OwnInv => TokensOwned
<1> SUFFICES ASSUME OwnInv PROVE TokensOwned
  OBVIOUS
<1>1. /\ stages \in Seq(StageSet) /\ stage \in StageSet /\ Len(stages) \in Nat
      /\ DOMAIN stages = 1..Len(stages) /\ \A n \in 1..Len(stages) : stages[n] \in StageSet
  BY DEF OwnInv, ParserTypes
<1>2. StoredTokens = UNION {TokensOf(stages[n]) : n \in 1..Len(stages)}
  BY StoredIsAll DEF OwnInv
<1>3. ASSUME NEW now \in Seq(StageSet),
             \A n \in 1..Len(now) : OwnedOnce(now[n]),
             \A m, n \in 1..Len(now) : m # n => TokensOf(now[m]) \cap TokensOf(now[n]) = {},
             tokens = UNION {TokensOf(now[n]) : n \in 1..Len(now)}
      PROVE  LET held == FlattenSeq([n \in DOMAIN now |-> FieldsOf(now[n])])
             IN  tokens = ToSet(held) /\ Cardinality(tokens) = Len(held)
  <2> DEFINE ss == [n \in DOMAIN now |-> FieldsOf(now[n])]
  <2>1. /\ Len(now) \in Nat /\ DOMAIN now = 1..Len(now)
        /\ \A n \in 1..Len(now) : now[n] \in StageSet
    OBVIOUS
  <2>2. \A n \in 1..Len(now) : /\ FieldsOf(now[n]) \in Seq(TokenSet)
                               /\ Elements(FieldsOf(now[n])) = TokensOf(now[n])
                               /\ Distinct(FieldsOf(now[n]))
    BY <1>3, <2>1, FieldsOfStage
  <2>3. /\ ss \in Seq(Seq(TokenSet)) /\ Len(ss) = Len(now)
        /\ \A n \in 1..Len(now) : ss[n] = FieldsOf(now[n])
    BY <2>1, <2>2
  <2> HIDE DEF ss
  <2>4. /\ FlattenSeq(ss) \in Seq(TokenSet) /\ Distinct(FlattenSeq(ss))
        /\ Elements(FlattenSeq(ss)) = UNION {Elements(ss[n]) : n \in 1..Len(ss)}
    <3>1. \A n \in 1..Len(ss) : Distinct(ss[n])
      BY <2>2, <2>3
    <3>2. ASSUME NEW m \in 1..Len(ss), NEW n \in 1..Len(ss), m # n
          PROVE  Elements(ss[m]) \cap Elements(ss[n]) = {}
      <4>1. m \in 1..Len(now) /\ n \in 1..Len(now)
        BY <2>3
      <4>2. Elements(ss[m]) = TokensOf(now[m]) /\ Elements(ss[n]) = TokensOf(now[n])
        BY <2>2, <2>3, <4>1
      <4>3. TokensOf(now[m]) \cap TokensOf(now[n]) = {}
        BY <1>3, <3>2, <4>1
      <4> QED
        BY <4>2, <4>3
    <3> QED
      BY <2>3, <3>1, <3>2, FlattenDistinct
  <2>5. Elements(FlattenSeq(ss)) = tokens
    BY <1>3, <2>2, <2>3, <2>4
  <2>6. /\ ToSet(FlattenSeq(ss)) = Elements(FlattenSeq(ss))
        /\ Cardinality(ToSet(FlattenSeq(ss))) = Len(FlattenSeq(ss))
    <3> DEFINE h == FlattenSeq(ss)
    <3>1. h \in Seq(TokenSet) /\ Distinct(h)
      BY <2>4
    <3> HIDE DEF h
    <3>2. ToSet(h) = Elements(h) /\ Cardinality(ToSet(h)) = Len(h)
      BY <3>1, ElementsAreCounted
    <3> QED
      BY <3>2 DEF h
  <2> QED
    BY <2>5, <2>6 DEF ss
<1>4. CASE ppc \in {"split", "parsed", "executing"}
  <2>1. LET held == FlattenSeq([n \in DOMAIN stages |-> FieldsOf(stages[n])])
        IN  tokens = ToSet(held) /\ Cardinality(tokens) = Len(held)
    BY <1>1, <1>2, <1>3, <1>4 DEF OwnInv
  <2> QED
    BY <1>4, <2>1 DEF TokensOwned
<1>5. CASE ppc = "stage"
  <2> DEFINE N == Len(stages)
             now == Append(stages, stage)
  <2>1. /\ now \in Seq(StageSet) /\ N \in Nat /\ Len(now) = N + 1 /\ now[N + 1] = stage
        /\ \A n \in 1..N : now[n] = stages[n]
    BY <1>1
  <2>2. 1..(N + 1) = 1..N \cup {N + 1} /\ N + 1 \notin 1..N
    BY <2>1
  <2>3. /\ OwnedOnce(stage) /\ tokens = StoredTokens \cup TokensOf(stage)
        /\ StoredTokens \cap TokensOf(stage) = {}
        /\ \A n \in 1..N : OwnedOnce(stages[n])
        /\ \A m, n \in 1..N : m # n => TokensOf(stages[m]) \cap TokensOf(stages[n]) = {}
        /\ StoredTokens = UNION {TokensOf(stages[n]) : n \in 1..N}
    BY <1>2, <1>5 DEF OwnInv
  <2> HIDE DEF N, now
  <2>4. \A n \in 1..(N + 1) : OwnedOnce(now[n])
    BY <2>1, <2>2, <2>3
  <2>5. \A n \in 1..N : TokensOf(stages[n]) \cap TokensOf(stage) = {}
    BY <2>3
  <2>6. ASSUME NEW m \in 1..(N + 1), NEW n \in 1..(N + 1), m # n
        PROVE  TokensOf(now[m]) \cap TokensOf(now[n]) = {}
    BY <2>1, <2>2, <2>3, <2>5, <2>6
  <2>7. tokens = UNION {TokensOf(now[n]) : n \in 1..(N + 1)}
    BY <2>1, <2>2, <2>3
  <2>8. LET held == FlattenSeq([n \in DOMAIN now |-> FieldsOf(now[n])])
        IN  tokens = ToSet(held) /\ Cardinality(tokens) = Len(held)
    BY <1>3, <2>1, <2>4, <2>6, <2>7
  <2> QED
    BY <1>5, <2>8 DEF TokensOwned, now
<1>6. CASE ppc \in {"refused", "no_memory"}
  <2>1. OwnedOnce(stage) /\ tokens = TokensOf(stage)
    BY <1>6 DEF OwnInv
  <2>2. /\ FieldsOf(stage) \in Seq(TokenSet) /\ Distinct(FieldsOf(stage))
        /\ Elements(FieldsOf(stage)) = tokens
    BY <1>1, <2>1, FieldsOfStage
  <2>3. /\ ToSet(FieldsOf(stage)) = tokens
        /\ Cardinality(tokens) = Len(FieldsOf(stage))
    <3> DEFINE h == FieldsOf(stage)
    <3>1. h \in Seq(TokenSet) /\ Distinct(h) /\ Elements(h) = tokens
      BY <2>2
    <3> HIDE DEF h
    <3>2. ToSet(h) = Elements(h) /\ Cardinality(ToSet(h)) = Len(h)
      BY <3>1, ElementsAreCounted
    <3> QED
      BY <3>1, <3>2 DEF h
  <2> QED
    BY <1>6, <2>3 DEF TokensOwned
<1>7. CASE ppc \notin {"split", "parsed", "executing", "stage", "refused", "no_memory"}
  BY <1>7 DEF TokensOwned, OwnInv
<1> QED
  BY <1>4, <1>5, <1>6, <1>7

\* While a command exists every token the parser allocated is in exactly one
\* field of one stage, and parser_destroy frees all of them; a stage that fails
\* half way leaves exactly its own tokens behind (parse_stage, parse_token and
\* parser_destroy, parser.c).
THEOREM TokensOwnedTheorem == CmdSpec => []TokensOwned
  BY OwnInit, OwnKept, OwnGivesTokensOwned, PTL DEF CmdSpec

------------------------------------------------------------------------------
(* The pipeline of the parsed command *)

\* parser_parse never delivers more stages than execute_pipeline has room for.
LEMMA PipelineFits ==
    ASSUME ParserTypes
    PROVE  Len(stages) \in 0..StageLimit /\ Pipeline \in [1..Len(stages) -> Stages]
<1>1. Len(stages) \in Nat /\ DOMAIN stages = 1..Len(stages) /\ Len(stages) <= MaxStages
  BY DEF ParserTypes
<1>2. MaxStages \in Nat
  BY ParserAssumption
<1>3. Len(stages) \in 0..StageLimit
  BY <1>1, <1>2, StageLimitAssumption
<1> QED
  BY <1>1, <1>3 DEF Pipeline, Stages

\* What runner -e does is an execution of Executor.tla: the parser hands over a
\* pipeline that execute_pipeline accepts, once, and nothing it does before or
\* after disturbs the processes and the pipes.  All theorems of
\* ExecutorProofs.tla hold of the whole command.
THEOREM CommandRunsPipeline == CmdSpec => ExecSpec
<1>1. CmdInit => ExecInit
  BY DEF CmdInit
<1>2. ParserTypes /\ [CmdNext]_cmdVars => [ExecNext]_execVars
  <2> SUFFICES ASSUME ParserTypes, [CmdNext]_cmdVars PROVE [ExecNext]_execVars
    OBVIOUS
  <2>1. CASE Execute
    <3>1. execute_pipeline(Pipeline)
      BY <2>1 DEF Execute
    <3>2. \E n \in 0..StageLimit : \E s \in [1..n -> Stages] : execute_pipeline(s)
      BY <3>1, PipelineFits
    <3> QED
      BY <3>2 DEF ExecNext
  <2>2. CASE RunnerExec
    BY <2>2 DEF RunnerExec, ExecNext, ExecStep
  <2>3. CASE \E p \in Children : ChildRuns(p)
    BY <2>3 DEF ChildRuns, ExecNext, ExecStep
  <2>4. CASE Parse \/ Destroy \/ UNCHANGED cmdVars
    <3>1. UNCHANGED execVars
      BY <2>4 DEF Parse, Destroy, cmdVars
    <3> QED
      BY <3>1
  <2> QED
    BY <2>1, <2>2, <2>3, <2>4 DEF CmdNext
<1>3. ExecSpec <=> ExecInit /\ [][ExecNext]_execVars
  BY DEF ExecSpec, ExecNext
<1> QED
  BY <1>1, <1>2, <1>3, TypesAreInvariant, PTL DEF CmdSpec

------------------------------------------------------------------------------
(* The parser reads the text as it is written: the invariant *)

Before(S, c) == {w \in S : w[1] < c}

HasTarget(t, piece, o) == \E w \in Words(t, piece) : Follows(t, w, o)

\* Every operator of the piece before c has a target.
ServedBefore(t, piece, c) == \A o \in Operators(t, piece) : o < c => HasTarget(t, piece, o)

\* The loop of parse_stage is at the start of the piece, or behind a word that
\* was an argument or a target.
Boundary(t, piece, c) ==
    \/ c = piece[1]
    \/ /\ piece[1] < c /\ t[c - 1] \notin Delimiters
       /\ c = piece[2] + 1 \/ t[c] \in Delimiters
       /\ \A w \in Words(t, piece) : w[2] = c - 1 => ~IsErrorSign(t, piece, w)

\* What the stage holds is what the piece says up to c.
ReadUpTo(t, piece, c, s) ==
    /\ s.argv = InOrder(Before(Arguments(t, piece), c), MaxArgs - 1)
    /\ s.input_file = LastIn(Before(Targets(t, piece, "input_file"), c))
    /\ s.output_file = LastIn(Before(Targets(t, piece, "output_file"), c))
    /\ s.error_file = LastIn(Before(Targets(t, piece, "error_file"), c))
    /\ ServedBefore(t, piece, c)
    /\ Boundary(t, piece, c)

\* The stages are the ones the pieces of D say, and all of D count.
Collected(t, D, ss) ==
    LET ps == InOrder(D, MaxStages) IN
    /\ Cardinality(D) = Len(ss)
    /\ Elements(ps) = D
    /\ \A n \in 1..Len(ss) : ss[n] = StageOf(t, ps[n])
    /\ \A q \in D : \A o \in Operators(t, q) : HasTarget(t, q, o)

\* Between two stages: everything before save_pipe is collected.
SplitScan ==
    /\ save_pipe = 1 \/ save_pipe = Len(buffer) + 1 \/ buffer[save_pipe - 1] = "|"
    /\ Collected(buffer, Before(Pieces(buffer), save_pipe), stages)

\* Within a stage whose piece starts at f: the pieces before it are collected,
\* it is the only one between them and save_pipe, and it is read up to cursor.
StageScan(f) ==
    LET piece == <<f, stage_end - 1>> IN
    /\ f <= cursor
    /\ piece \in Pieces(buffer)
    /\ save_pipe = Len(buffer) + 1 \/ buffer[save_pipe - 1] = "|"
    /\ Before(Pieces(buffer), save_pipe) = Before(Pieces(buffer), f) \cup {piece}
    /\ Collected(buffer, Before(Pieces(buffer), f), stages)
    /\ ReadUpTo(buffer, piece, cursor, stage)

\* The inductive invariant: at every turn of the two loops what is stored is
\* what the text says up to that place.
ScanInv ==
    /\ ParserTypes
    /\ ppc = "split" => SplitScan
    /\ ppc = "stage" => \E f \in 1..Len(buffer) : StageScan(f)
    /\ ppc = "parsed" => stages = StagesOf(buffer) /\ WellFormed(buffer)
    /\ ppc = "refused" => ~WellFormed(buffer)

------------------------------------------------------------------------------
(* Ranges in order *)

IsRangeSet(S) == S \subseteq TokenSet /\ IsFiniteSet(S)
Earlier(S, w) == {v \in S : v[1] < w[1]}

LEMMA StartsAreNumbers ==
    ASSUME NEW w \in TokenSet
    PROVE  w[1] \in Nat /\ w[2] \in Nat /\ w = <<w[1], w[2]>>
  BY DEF TokenSet

LEMMA RangeSubset ==
    ASSUME NEW T, IsRangeSet(T), NEW S \in SUBSET T
    PROVE  IsRangeSet(S) /\ Cardinality(S) \in Nat /\ Cardinality(T) \in Nat
           /\ Cardinality(S) <= Cardinality(T)
  BY FS_Subset, FS_CardinalityType DEF IsRangeSet

\* How long InOrder(S, n) is.
LEMMA InOrderLength ==
    ASSUME NEW S, IsRangeSet(S), NEW n \in Nat
    PROVE  /\ Cardinality(S) \in Nat
           /\ Min({n, Cardinality(S)}) = IF Cardinality(S) < n THEN Cardinality(S) ELSE n
           /\ DOMAIN InOrder(S, n) = 1..Min({n, Cardinality(S)})
           /\ InOrder(S, n) \in Seq({InOrder(S, n)[k] : k \in DOMAIN InOrder(S, n)})
           /\ Len(InOrder(S, n)) = Min({n, Cardinality(S)})
<1> DEFINE c == Cardinality(S)
           m == Min({n, c})
<1>1. c \in Nat
  BY FS_CardinalityType DEF IsRangeSet
<1> HIDE DEF c
<1>2. m \in {n, c} /\ \A y \in {n, c} : m <= y
  <2> DEFINE T == {n, c}
  <2>1. T \in SUBSET Nat /\ T # {}
    BY <1>1
  <2> HIDE DEF T
  <2>2. Min(T) \in T /\ \A y \in T : Min(T) <= y
    BY <2>1, LeastNumber
  <2> QED
    BY <2>2 DEF T
<1> HIDE DEF m
<1>3. m \in Nat /\ m = IF c < n THEN c ELSE n
  BY <1>1, <1>2
<1> DEFINE R == InOrder(S, n)
<1>4. R = [k \in 1..m |-> CHOOSE w \in Ranked(S, k - 1) : TRUE]
  BY DEF InOrder, m, c
<1>5. DOMAIN R = 1..m /\ R = [k \in 1..m |-> R[k]]
  BY <1>4
<1> HIDE DEF R
<1>6. R \in Seq({R[k] : k \in DOMAIN R}) /\ Len(R) = m
  BY <1>3, <1>5
<1> QED
  BY <1>1, <1>3, <1>5, <1>6 DEF R, m, c

\* When the ranges of T outside S come after those of S, the ranges of S have
\* the same place in both.
LEMMA RankedPrefix ==
    ASSUME NEW T, IsRangeSet(T), NEW S \in SUBSET T,
           \A v \in S : \A w \in T \ S : v[1] < w[1],
           NEW k \in Nat, k < Cardinality(S)
    PROVE  Ranked(T, k) = Ranked(S, k)
<1>0. /\ IsRangeSet(S) /\ Cardinality(S) \in Nat
  BY RangeSubset
<1>1. \A w \in T : w[1] \in Nat
  BY StartsAreNumbers DEF IsRangeSet
<1>2. ASSUME NEW w \in S PROVE Earlier(T, w) = Earlier(S, w)
  <2>1. ASSUME NEW v \in T, v[1] < w[1] PROVE v \in S
    <3> SUFFICES ASSUME v \notin S PROVE FALSE
      OBVIOUS
    <3>1. w[1] < v[1] /\ v[1] \in Nat /\ w[1] \in Nat
      BY <1>1
    <3> QED
      BY <2>1, <3>1
  <2> QED
    BY <2>1 DEF Earlier
<1>3. ASSUME NEW w \in T \ S PROVE Cardinality(Earlier(T, w)) # k
  <2>1. S \in SUBSET Earlier(T, w) /\ Earlier(T, w) \in SUBSET T
    BY DEF Earlier
  <2>2. IsRangeSet(Earlier(T, w))
    BY <2>1, RangeSubset
  <2>3. Cardinality(Earlier(T, w)) \in Nat /\ Cardinality(S) <= Cardinality(Earlier(T, w))
    BY <2>1, <2>2, RangeSubset
  <2> QED
    BY <1>0, <2>3
<1> QED
  BY <1>2, <1>3 DEF Ranked, Earlier

LEMMA InOrderPrefix ==
    ASSUME NEW T, IsRangeSet(T), NEW S \in SUBSET T,
           \A v \in S : \A w \in T \ S : v[1] < w[1], NEW n \in Nat
    PROVE  /\ Len(InOrder(S, n)) <= Len(InOrder(T, n))
           /\ \A k \in 1..Len(InOrder(S, n)) : InOrder(T, n)[k] = InOrder(S, n)[k]
           /\ Cardinality(S) >= n => InOrder(T, n) = InOrder(S, n)
<1> DEFINE cs == Cardinality(S)
           ct == Cardinality(T)
           ls == Min({n, cs})
           lt == Min({n, ct})
<1>1. IsRangeSet(S) /\ cs \in Nat /\ ct \in Nat /\ cs <= ct
  BY RangeSubset
<1>2. /\ ls = IF cs < n THEN cs ELSE n
      /\ lt = IF ct < n THEN ct ELSE n
      /\ Len(InOrder(S, n)) = ls /\ Len(InOrder(T, n)) = lt
  BY <1>1, InOrderLength
<1>3. /\ InOrder(S, n) = [k \in 1..ls |-> CHOOSE w \in Ranked(S, k - 1) : TRUE]
      /\ InOrder(T, n) = [k \in 1..lt |-> CHOOSE w \in Ranked(T, k - 1) : TRUE]
  BY DEF InOrder
<1>4. \A k \in Nat : k < cs => Ranked(T, k) = Ranked(S, k)
  BY RankedPrefix
<1> HIDE DEF cs, ct, ls, lt
<1>5. ls \in Nat /\ lt \in Nat /\ ls <= lt /\ ls <= cs /\ (cs >= n => ls = lt)
  BY <1>1, <1>2
<1>6. ASSUME NEW k \in 1..ls PROVE k \in 1..lt /\ Ranked(T, k - 1) = Ranked(S, k - 1)
  <2>1. k - 1 \in Nat /\ k - 1 < cs /\ k \in 1..lt
    BY <1>1, <1>5
  <2> QED
    BY <1>4, <2>1
<1>7. \A k \in 1..ls : InOrder(T, n)[k] = InOrder(S, n)[k]
  BY <1>3, <1>6
<1>8. cs >= n => InOrder(T, n) = InOrder(S, n)
  BY <1>3, <1>5, <1>6
<1> QED
  BY <1>2, <1>5, <1>7, <1>8 DEF cs

\* One more range at the end.
LEMMA InOrderAdd ==
    ASSUME NEW S, IsRangeSet(S), NEW w \in TokenSet, \A v \in S : v[1] < w[1], NEW n \in Nat
    PROVE  /\ IsRangeSet(S \cup {w})
           /\ Cardinality(S \cup {w}) = Cardinality(S) + 1
           /\ Cardinality(S) < n => InOrder(S \cup {w}, n) = Append(InOrder(S, n), w)
           /\ Cardinality(S) >= n => InOrder(S \cup {w}, n) = InOrder(S, n)
<1> DEFINE T == S \cup {w}
           c == Cardinality(S)
<1>1. w[1] \in Nat /\ w \notin S
  BY StartsAreNumbers
<1>2. IsRangeSet(T) /\ c \in Nat /\ Cardinality(T) = c + 1
  BY <1>1, FS_AddElement, FS_CardinalityType DEF IsRangeSet
<1>3. S \in SUBSET T /\ \A v \in S : \A u \in T \ S : v[1] < u[1]
  OBVIOUS
<1>4. Ranked(T, c) = {w}
  <2>1. Earlier(T, w) = S
    BY <1>1 DEF Earlier
  <2>2. ASSUME NEW v \in S PROVE Cardinality(Earlier(T, v)) # c
    <3>1. v[1] \in Nat /\ v[1] < w[1]
      BY StartsAreNumbers DEF IsRangeSet
    <3>2. Earlier(T, v) \in SUBSET S /\ v \notin Earlier(T, v)
      BY <1>1, <3>1 DEF Earlier
    <3>3. IsFiniteSet(S)
      BY DEF IsRangeSet
    <3>4. c = Cardinality(Earlier(T, v)) => S = Earlier(T, v)
      BY <3>2, <3>3, FS_Subset
    <3> QED
      BY <3>2, <3>4
  <2> QED
    BY <2>1, <2>2 DEF Ranked, Earlier
<1> HIDE DEF T
<1>5. c >= n => InOrder(T, n) = InOrder(S, n)
  BY <1>2, <1>3, InOrderPrefix DEF c
<1>6. ASSUME c < n PROVE InOrder(T, n) = Append(InOrder(S, n), w)
  <2> DEFINE a == InOrder(S, n)
             b == InOrder(T, n)
  <2>1. /\ Len(a) = c /\ DOMAIN a = 1..c
        /\ a \in Seq({a[k] : k \in DOMAIN a})
    BY <1>2, <1>6, InOrderLength
  <2>2. Len(b) = c + 1 /\ DOMAIN b = 1..(c + 1) /\ b \in Seq({b[k] : k \in DOMAIN b})
    <3>1. Cardinality(T) < n \/ n = c + 1
      BY <1>2, <1>6 DEF c
    <3>2. Min({n, Cardinality(T)}) = c + 1
      BY <1>2, <3>1, InOrderLength
    <3> QED
      BY <1>2, <3>2, InOrderLength
  <2>3. \A k \in 1..c : b[k] = a[k]
    BY <1>2, <1>3, <2>1, InOrderPrefix
  <2>4. b[c + 1] = w
    <3>1. b = [k \in 1..Min({n, Cardinality(T)}) |-> CHOOSE v \in Ranked(T, k - 1) : TRUE]
      BY DEF InOrder
    <3>2. b[c + 1] = CHOOSE v \in Ranked(T, (c + 1) - 1) : TRUE
      <4>1. c + 1 \in 1..Min({n, Cardinality(T)})
        <5>1. DOMAIN b = 1..Min({n, Cardinality(T)})
          BY <3>1
        <5> HIDE DEF b
        <5>2. c + 1 \in DOMAIN b
          BY <1>2, <2>2
        <5> QED
          BY <5>1, <5>2
      <4> HIDE DEF b
      <4> QED
        BY <3>1, <4>1
    <3>3. (c + 1) - 1 = c
      BY <1>2
    <3> QED
      BY <1>4, <3>2, <3>3
  <2> HIDE DEF a, b
  <2> DEFINE X == {a[k] : k \in DOMAIN a} \cup {w}
             d == Append(a, w)
  <2>5. a \in Seq(X) /\ w \in X
    BY <2>1
  <2> HIDE DEF X
  <2>6. /\ d \in Seq(X) /\ Len(d) = c + 1 /\ d[c + 1] = w
        /\ \A k \in 1..c : d[k] = a[k]
    BY <1>2, <2>1, <2>5
  <2> HIDE DEF d
  <2>7. ASSUME NEW k \in 1..(c + 1) PROVE b[k] = d[k]
    <3>1. k = c + 1 \/ k \in 1..c
      BY <1>2
    <3> QED
      BY <2>3, <2>4, <2>6, <3>1
  <2>8. b = Append(a, w)
    <3>1. DOMAIN d = 1..(c + 1) /\ d = [k \in DOMAIN d |-> d[k]]
      BY <2>6
    <3>2. b = [k \in DOMAIN b |-> b[k]]
      BY DEF b, InOrder
    <3> QED
      BY <2>2, <2>7, <3>1, <3>2 DEF d
  <2> QED
    BY <2>8 DEF a, b
<1> QED
  BY <1>2, <1>5, <1>6 DEF T, c

LEMMA InOrderEmpty ==
    ASSUME NEW n \in Nat
    PROVE  IsRangeSet({}) /\ Cardinality({}) = 0 /\ InOrder({}, n) = <<>>
<1>1. IsRangeSet({}) /\ Cardinality({}) = 0
  BY FS_EmptySet DEF IsRangeSet
<1>2. DOMAIN InOrder({}, n) = 1..0
  <2> DEFINE S == {}
  <2>1. IsRangeSet(S) /\ Cardinality(S) = 0
    BY <1>1
  <2> HIDE DEF S
  <2>2. /\ DOMAIN InOrder(S, n) = 1..Min({n, Cardinality(S)})
        /\ Min({n, Cardinality(S)}) = IF Cardinality(S) < n THEN Cardinality(S) ELSE n
    BY <2>1, InOrderLength
  <2>3. (IF 0 < n THEN 0 ELSE n) = 0
    OBVIOUS
  <2> QED
    BY <2>1, <2>2, <2>3 DEF S
<1>3. InOrder({}, n) = [k \in {} |-> InOrder({}, n)[k]]
  <2> DEFINE a == InOrder({}, n)
  <2>1. DOMAIN a = {} /\ a = [k \in DOMAIN a |-> a[k]]
    BY <1>2 DEF InOrder
  <2> QED
    BY <2>1
<1>4. <<>> = [k \in {} |-> InOrder({}, n)[k]]
  OBVIOUS
<1> QED
  BY <1>1, <1>3, <1>4

\* The last range of a set with one more at the end is that one.
LEMMA LastInAdd ==
    ASSUME NEW S, IsRangeSet(S), NEW w \in TokenSet, \A v \in S : v[1] < w[1]
    PROVE  LastIn(S \cup {w}) = w
<1> DEFINE T == S \cup {w}
<1>1. w[1] \in Nat /\ \A v \in S : v[1] \in Nat
  BY StartsAreNumbers DEF IsRangeSet
<1>2. \A v \in T : v[1] <= w[1]
  BY <1>1
<1>3. \A u \in T : (\A v \in T : v[1] <= u[1]) => u = w
  BY <1>1
<1>4. LastIn(T) = CHOOSE u \in T : \A v \in T : v[1] <= u[1]
  BY DEF LastIn
<1> QED
  BY <1>2, <1>3, <1>4

------------------------------------------------------------------------------
(* Words and operators of a piece *)

Blank(t, a, b) == \A k \in a..b : t[k] = " "
Signs == {"<", ">"}

\* A "2>" stands at a.
SignStarts(t, a, e) == t[a] = "2" /\ a + 1 <= e /\ t[a + 1] = ">"

LEMMA RangeFacts ==
    ASSUME NEW t, NEW f \in Nat, NEW e \in Nat, NEW seps, NEW w \in Ranges(t, f, e, seps)
    PROVE  /\ w \in TokenSet /\ w[1] \in Nat /\ w[2] \in Nat /\ w = <<w[1], w[2]>>
           /\ f <= w[1] /\ w[1] <= w[2] /\ w[2] <= e
           /\ \A k \in w[1]..w[2] : t[k] \notin seps
           /\ w[1] = f \/ t[w[1] - 1] \in seps
           /\ w[2] = e \/ t[w[2] + 1] \in seps
           /\ t[w[1]] \notin seps /\ t[w[2]] \notin seps
<1>2. /\ w \in (f..e) \X (f..e) /\ w[1] <= w[2]
      /\ \A k \in w[1]..w[2] : t[k] \notin seps
      /\ w[1] = f \/ t[w[1] - 1] \in seps
      /\ w[2] = e \/ t[w[2] + 1] \in seps
  BY DEF Ranges
<1>3. w[1] \in f..e /\ w[2] \in f..e /\ w = <<w[1], w[2]>>
  BY <1>2
<1>4. w[1] \in Nat /\ w[2] \in Nat /\ f <= w[1] /\ w[2] <= e
  BY <1>3
<1>5. w \in TokenSet
  BY <1>3, <1>4 DEF TokenSet
<1>6. w[1] \in w[1]..w[2] /\ w[2] \in w[1]..w[2]
  <2>1. w[1] <= w[2]
    BY <1>2
  <2> QED
    BY <1>4, <2>1
<1> QED
  BY <1>2, <1>3, <1>4, <1>5, <1>6

LEMMA RangeMade ==
    ASSUME NEW t, NEW f \in Nat, NEW e \in Nat, NEW seps, NEW a \in Nat, NEW b \in Nat,
           f <= a, a <= b, b <= e,
           \A k \in a..b : t[k] \notin seps,
           a = f \/ t[a - 1] \in seps,
           b = e \/ t[b + 1] \in seps
    PROVE  <<a, b>> \in Ranges(t, f, e, seps)
<1>1. <<a, b>>[1] = a /\ <<a, b>>[2] = b
  OBVIOUS
<1>2. a \in f..e /\ b \in f..e
  OBVIOUS
<1>3. <<a, b>> \in (f..e) \X (f..e)
  BY <1>2
<1> DEFINE w == <<a, b>>
<1>4. /\ w \in (f..e) \X (f..e) /\ w[1] <= w[2]
      /\ \A k \in w[1]..w[2] : t[k] \notin seps
      /\ w[1] = f \/ t[w[1] - 1] \in seps
      /\ w[2] = e \/ t[w[2] + 1] \in seps
  BY <1>1, <1>3
<1> HIDE DEF w
<1>5. w \in Ranges(t, f, e, seps)
  BY <1>4 DEF Ranges
<1> QED
  BY <1>5 DEF w

\* Between the separators from c on and the next separator there is one range.
LEMMA OnlyRange ==
    ASSUME NEW t, NEW f \in Nat, NEW e \in Nat, NEW seps,
           NEW c \in Nat, NEW a \in Nat, NEW z \in Nat,
           f <= c, c <= a, a < z, z <= e + 1,
           \A k \in c..(a - 1) : t[k] \in seps,
           \A k \in a..(z - 1) : t[k] \notin seps,
           z = e + 1 \/ t[z] \in seps,
           NEW v \in Ranges(t, f, e, seps), c <= v[1], v[1] < z
    PROVE  v = <<a, z - 1>>
<1>1. /\ v[1] \in Nat /\ v[2] \in Nat /\ v = <<v[1], v[2]>>
      /\ f <= v[1] /\ v[1] <= v[2] /\ v[2] <= e
  BY RangeFacts
<1>2. /\ \A k \in v[1]..v[2] : t[k] \notin seps
      /\ v[1] = f \/ t[v[1] - 1] \in seps
      /\ v[2] = e \/ t[v[2] + 1] \in seps
      /\ t[v[1]] \notin seps
  BY RangeFacts
<1>3. v[1] = a
  <2>1. CASE v[1] < a
    <3>1. v[1] \in c..(a - 1)
      BY <1>1, <2>1
    <3> QED
      BY <1>2, <3>1
  <2>2. CASE a < v[1]
    <3>1. v[1] # f /\ v[1] - 1 \in a..(z - 1)
      BY <1>1, <2>2
    <3> QED
      BY <1>2, <3>1
  <2>3. v[1] < a \/ a < v[1] \/ v[1] = a
    BY <1>1
  <2> QED
    BY <2>1, <2>2, <2>3
<1>4. v[2] = z - 1
  <2>1. CASE v[2] < z - 1
    <3>1. v[2] # e /\ v[2] + 1 \in a..(z - 1)
      BY <1>1, <1>3, <2>1
    <3> QED
      BY <1>2, <3>1
  <2>2. CASE z - 1 < v[2]
    <3>1. z # e + 1 /\ z \in v[1]..v[2]
      BY <1>1, <2>2
    <3> QED
      BY <1>2, <3>1
  <2>3. v[2] < z - 1 \/ z - 1 < v[2] \/ v[2] = z - 1
    BY <1>1
  <2> QED
    BY <2>1, <2>2, <2>3
<1> QED
  BY <1>1, <1>3, <1>4

LEMMA WordsAreRanges ==
    ASSUME NEW t, NEW f, NEW e
    PROVE  Words(t, <<f, e>>) = Ranges(t, f, e, Delimiters)
<1>1. <<f, e>>[1] = f /\ <<f, e>>[2] = e
  OBVIOUS
<1> QED
  BY <1>1 DEF Words, Delimiters

LEMMA WordFacts ==
    ASSUME NEW t, NEW f \in Nat, NEW e \in Nat, NEW w \in Words(t, <<f, e>>)
    PROVE  /\ w \in TokenSet /\ w[1] \in Nat /\ w[2] \in Nat /\ w = <<w[1], w[2]>>
           /\ f <= w[1] /\ w[1] <= w[2] /\ w[2] <= e
           /\ \A k \in w[1]..w[2] : t[k] \notin Delimiters
           /\ w[1] = f \/ t[w[1] - 1] \in Delimiters
           /\ w[2] = e \/ t[w[2] + 1] \in Delimiters
           /\ t[w[1]] \notin Delimiters /\ t[w[2]] \notin Delimiters
  BY WordsAreRanges, RangeFacts

LEMMA WordMade ==
    ASSUME NEW t, NEW f \in Nat, NEW e \in Nat, NEW a \in Nat, NEW b \in Nat,
           f <= a, a <= b, b <= e,
           \A k \in a..b : t[k] \notin Delimiters,
           a = f \/ t[a - 1] \in Delimiters,
           b = e \/ t[b + 1] \in Delimiters
    PROVE  <<a, b>> \in Words(t, <<f, e>>)
  BY WordsAreRanges, RangeMade

LEMMA OperatorFacts ==
    ASSUME NEW t, NEW f \in Nat, NEW e \in Nat
    PROVE  \A o : o \in Operators(t, <<f, e>>) <=>
                     o \in Nat /\ f <= o /\ o <= e /\ t[o] \in Signs
<1>1. <<f, e>>[1] = f /\ <<f, e>>[2] = e
  OBVIOUS
<1>2. \A o : o \in f..e <=> o \in Nat /\ f <= o /\ o <= e
  OBVIOUS
<1> QED
  BY <1>1, <1>2 DEF Operators, Signs

\* Between the delimiters from c on and the next delimiter there is one word.
LEMMA OnlyWord ==
    ASSUME NEW t, NEW f \in Nat, NEW e \in Nat, NEW c \in Nat, NEW a \in Nat, NEW z \in Nat,
           f <= c, c <= a, a < z, z <= e + 1,
           \A k \in c..(a - 1) : t[k] \in Delimiters,
           \A k \in a..(z - 1) : t[k] \notin Delimiters,
           z = e + 1 \/ t[z] \in Delimiters,
           NEW v \in Words(t, <<f, e>>), c <= v[1], v[1] < z
    PROVE  v = <<a, z - 1>>
<1>1. v \in Ranges(t, f, e, Delimiters)
  BY WordsAreRanges
<1> QED
  BY <1>1, OnlyRange

LEMMA SameEnd ==
    ASSUME NEW t, NEW f \in Nat, NEW e \in Nat,
           NEW v \in Words(t, <<f, e>>), NEW w \in Words(t, <<f, e>>), v[2] = w[2]
    PROVE  v = w
<1>1. ASSUME NEW x \in Words(t, <<f, e>>), NEW y \in Words(t, <<f, e>>), x[2] = y[2],
             x[1] < y[1]
      PROVE  FALSE
  <2>1. x[1] \in Nat /\ y[1] \in Nat /\ y[2] \in Nat /\ f <= x[1] /\ y[1] <= y[2]
    BY WordFacts
  <2>2. y[1] # f /\ y[1] - 1 \in x[1]..x[2]
    BY <1>1, <2>1
  <2>3. \A k \in x[1]..x[2] : t[k] \notin Delimiters
    BY WordFacts
  <2>4. y[1] = f \/ t[y[1] - 1] \in Delimiters
    BY WordFacts
  <2> QED
    BY <2>2, <2>3, <2>4
<1>2. v[1] \in Nat /\ w[1] \in Nat /\ v = <<v[1], v[2]>> /\ w = <<w[1], w[2]>>
  BY WordFacts
<1>3. v[1] = w[1]
  <2>1. ~(v[1] < w[1]) /\ ~(w[1] < v[1])
    BY <1>1
  <2> QED
    BY <1>2, <2>1
<1> QED
  BY <1>2, <1>3

\* At a boundary no operator is waiting for its target.
LEMMA NothingPending ==
    ASSUME NEW t, NEW f \in Nat, NEW e \in Nat, NEW c \in Nat, NEW a \in Nat, f <= c, c <= a,
           Boundary(t, <<f, e>>, c), Blank(t, c, a - 1), NEW w, w[1] = a
    PROVE  ~IsTarget(t, <<f, e>>, w)
<1> SUFFICES ASSUME NEW o \in Operators(t, <<f, e>>), Follows(t, w, o) PROVE FALSE
  BY DEF IsTarget
<1>1. o \in Nat /\ f <= o
  BY OperatorFacts
<1>2. t[o] \in Signs
  BY OperatorFacts
<1>3. o < a
  BY DEF Follows
<1>4. Blank(t, o + 1, a - 1)
  BY DEF Follows, Blank
<1>5. CASE c <= o
  <2>1. o \in c..(a - 1)
    BY <1>1, <1>3, <1>5
  <2>2. t[o] = " "
    BY <2>1 DEF Blank
  <2> QED
    BY <1>2, <2>2 DEF Signs
<1>6. CASE o < c
  <2>1. c # f
    BY <1>1, <1>6
  <2>2. t[c - 1] \notin Delimiters
    BY <2>1 DEF Boundary
  <2>3. c - 1 # o
    BY <1>2, <2>2 DEF Delimiters, Signs
  <2>4. c - 1 \in (o + 1)..(a - 1)
    BY <1>1, <1>6, <2>3
  <2>5. t[c - 1] = " "
    BY <1>4, <2>4 DEF Blank
  <2> QED
    BY <2>2, <2>5 DEF Delimiters
<1> QED
  BY <1>1, <1>5, <1>6

\* A word may start where the blanks after a boundary end.
LEMMA WordMayStart ==
    ASSUME NEW t, NEW f \in Nat, NEW e \in Nat, NEW c \in Nat, NEW a \in Nat,
           f <= c, c <= a, a <= e,
           Boundary(t, <<f, e>>, c), Blank(t, c, a - 1),
           t[a] \notin Delimiters
    PROVE  a = f \/ t[a - 1] \in Delimiters
<1>1. CASE c < a
  <2>1. a - 1 \in c..(a - 1)
    BY <1>1
  <2> QED
    BY <2>1 DEF Delimiters, Blank
<1>2. CASE c = a
  <2>1. c # e + 1
    BY <1>2
  <2>2. c = f
    BY <1>2, <2>1 DEF Boundary
  <2> QED
    BY <1>2, <2>2
<1> QED
  BY <1>1, <1>2

\* A word after blanks belongs to the operator before them and to no other.
LEMMA OneOperator ==
    ASSUME NEW t, NEW f \in Nat, NEW e \in Nat, NEW a \in Nat,
           NEW o \in Operators(t, <<f, e>>), o < a, Blank(t, o + 1, a - 1),
           NEW w, w[1] = a
    PROVE  /\ Follows(t, w, o)
           /\ \A x \in Operators(t, <<f, e>>) : Follows(t, w, x) => x = o
<1>1. Follows(t, w, o)
  BY DEF Follows, Blank
<1>2. o \in Nat
  BY OperatorFacts
<1>3. t[o] \in Signs
  BY OperatorFacts
<1>4. ASSUME NEW x \in Operators(t, <<f, e>>), Follows(t, w, x), x # o PROVE FALSE
  <2>1. x \in Nat
    BY OperatorFacts
  <2>2. t[x] \in Signs
    BY OperatorFacts
  <2>3. x < a
    BY <1>4 DEF Follows
  <2>4. Blank(t, x + 1, a - 1)
    BY <1>4 DEF Follows, Blank
  <2>5. x \in (o + 1)..(a - 1) \/ o \in (x + 1)..(a - 1)
    BY <1>2, <1>4, <2>1, <2>3
  <2>6. t[x] = " " \/ t[o] = " "
    BY <2>4, <2>5 DEF Blank
  <2> QED
    BY <1>3, <2>2, <2>6 DEF Signs
<1> QED
  BY <1>1, <1>4

\* An operator behind which there is nothing or another operator has no target.
LEMMA Orphan ==
    ASSUME NEW t, NEW f \in Nat, NEW e \in Nat, NEW o \in Nat, NEW a \in Nat, o < a,
           Blank(t, o + 1, a - 1),
           a = e + 1 \/ t[a] \in Signs
    PROVE  ~HasTarget(t, <<f, e>>, o)
<1> SUFFICES ASSUME NEW v \in Words(t, <<f, e>>), Follows(t, v, o) PROVE FALSE
  BY DEF HasTarget
<1>1. v[1] \in Nat /\ v[2] \in Nat /\ v[1] <= v[2] /\ v[2] <= e
  BY WordFacts
<1>2. t[v[1]] \notin Delimiters
  BY WordFacts
<1>3. o < v[1]
  BY DEF Follows
<1>4. Blank(t, o + 1, v[1] - 1)
  BY DEF Follows, Blank
<1>5. CASE v[1] < a
  <2>1. v[1] \in (o + 1)..(a - 1)
    BY <1>1, <1>3, <1>5
  <2>2. t[v[1]] = " "
    BY <2>1 DEF Blank
  <2> QED
    BY <1>2, <2>2 DEF Delimiters
<1>6. CASE v[1] = a
  <2>1. a # e + 1
    BY <1>1, <1>6
  <2> QED
    BY <1>2, <1>6, <2>1 DEF Delimiters, Signs
<1>7. CASE a < v[1]
  <2>1. a # e + 1 /\ a \in (o + 1)..(v[1] - 1)
    BY <1>1, <1>3, <1>7
  <2>2. t[a] = " "
    BY <1>4, <2>1 DEF Blank
  <2> QED
    BY <2>1, <2>2 DEF Signs
<1> QED
  BY <1>1, <1>5, <1>6, <1>7

LEMMA KindOutput ==
    ASSUME NEW t, NEW f \in Nat, NEW e \in Nat, NEW c \in Nat, NEW a \in Nat, f <= c, c <= a,
           Boundary(t, <<f, e>>, c), Blank(t, c, a - 1), t[a] = ">"
    PROVE  KindOf(t, <<f, e>>, a) = "output_file"
<1>1. ASSUME NEW w \in Words(t, <<f, e>>), IsErrorSign(t, <<f, e>>, w), w[2] + 1 = a
      PROVE  FALSE
  <2>1. w[1] \in Nat /\ w[2] \in Nat /\ f <= w[1] /\ w[1] <= w[2]
    BY WordFacts
  <2>2. t[w[2]] \notin Delimiters
    BY WordFacts
  <2>3. CASE c < a
    <3>1. w[2] \in c..(a - 1)
      BY <1>1, <2>1, <2>3
    <3> QED
      BY <2>2, <3>1 DEF Blank, Delimiters
  <2>4. CASE c = a
    <3>1. c # f /\ w[2] = c - 1
      BY <1>1, <2>1, <2>4
    <3> QED
      BY <1>1, <3>1 DEF Boundary
  <2>5. c < a \/ c = a
    OBVIOUS
  <2> QED
    BY <2>3, <2>4, <2>5
<1> QED
  BY <1>1 DEF KindOf

LEMMA ErrorSignSeen ==
    ASSUME NEW t, NEW f \in Nat, NEW e \in Nat, NEW c \in Nat, NEW a \in Nat,
           f <= c, c <= a, a + 1 <= e,
           Boundary(t, <<f, e>>, c), Blank(t, c, a - 1), t[a] = "2", t[a + 1] = ">"
    PROVE  /\ <<a, a>> \in Words(t, <<f, e>>)
           /\ IsErrorSign(t, <<f, e>>, <<a, a>>)
           /\ KindOf(t, <<f, e>>, a + 1) = "error_file"
<1>1. t[a] \notin Delimiters /\ t[a + 1] \in Delimiters
  BY DEF Delimiters
<1>2. a <= e
  OBVIOUS
<1>3. a = f \/ t[a - 1] \in Delimiters
  BY <1>1, <1>2, WordMayStart
<1>4. \A k \in a..a : t[k] \notin Delimiters
  BY <1>1
<1>5. <<a, a>> \in Words(t, <<f, e>>)
  BY <1>1, <1>2, <1>3, <1>4, WordMade
<1>6. ~IsTarget(t, <<f, e>>, <<a, a>>)
  <2>1. <<a, a>>[1] = a
    OBVIOUS
  <2> QED
    BY <2>1, NothingPending
<1>7. IsErrorSign(t, <<f, e>>, <<a, a>>)
  BY <1>6 DEF IsErrorSign
<1>8. KindOf(t, <<f, e>>, a + 1) = "error_file"
  <2>1. <<a, a>>[2] + 1 = a + 1 /\ t[a + 1] # "<"
    OBVIOUS
  <2>2. \E w \in Words(t, <<f, e>>) : IsErrorSign(t, <<f, e>>, w) /\ w[2] + 1 = a + 1
    BY <1>5, <1>7, <2>1
  <2> QED
    BY <2>1, <2>2 DEF KindOf
<1> QED
  BY <1>5, <1>7, <1>8

\* Reading on from c to z adds the words that start in between.
LEMMA BeforeGrows ==
    ASSUME NEW t, NEW f \in Nat, NEW e \in Nat, NEW X \in SUBSET Words(t, <<f, e>>),
           NEW c \in Nat, NEW z \in Nat, c <= z
    PROVE  /\ Before(X, z) = Before(X, c) \cup {v \in X : c <= v[1] /\ v[1] < z}
           /\ Before(X, c) \in SUBSET X
<1>1. \A v \in X : v[1] \in Nat
  BY WordFacts
<1>2. \A v \in X : v[1] < z <=> v[1] < c \/ (c <= v[1] /\ v[1] < z)
  BY <1>1
<1> QED
  BY <1>2 DEF Before

\* A word that ends at z and is no error sign makes z a boundary.
LEMMA BoundaryAfterWord ==
    ASSUME NEW t, NEW f \in Nat, NEW e \in Nat, NEW a \in Nat, NEW z \in Nat,
           a < z, z = e + 1 \/ t[z] \in Delimiters,
           <<a, z - 1>> \in Words(t, <<f, e>>), ~IsErrorSign(t, <<f, e>>, <<a, z - 1>>)
    PROVE  Boundary(t, <<f, e>>, z)
<1> DEFINE w == <<a, z - 1>>
<1>1. w[1] = a /\ w[2] = z - 1
  OBVIOUS
<1>2. w \in Words(t, <<f, e>>) /\ ~IsErrorSign(t, <<f, e>>, w)
  OBVIOUS
<1> HIDE DEF w
<1>3. t[z - 1] \notin Delimiters
  BY <1>1, <1>2, WordFacts
<1>4. f <= a
  BY <1>1, <1>2, WordFacts
<1>5. f < z
  BY <1>4
<1>6. \A v \in Words(t, <<f, e>>) : v[2] = z - 1 => v = w
  BY <1>1, <1>2, SameEnd
<1>7. <<f, e>>[1] = f /\ <<f, e>>[2] = e
  OBVIOUS
<1> QED
  BY <1>2, <1>3, <1>5, <1>6, <1>7 DEF Boundary

\* What is read up to z when an operator o and its target were met.
LEMMA TargetTurn ==
    ASSUME NEW t, NEW f \in Nat, NEW e \in Nat, NEW c \in Nat, NEW a \in Nat, NEW z \in Nat,
           NEW o \in Operators(t, <<f, e>>), f <= c, c <= o, o < a, a < z, z <= e + 1,
           Blank(t, o + 1, a - 1),
           \A k \in a..(z - 1) : t[k] \notin Delimiters,
           z = e + 1 \/ t[z] \in Delimiters,
           \A v \in Words(t, <<f, e>>) : c <= v[1] /\ v[1] <= o => IsErrorSign(t, <<f, e>>, v),
           \A x \in Operators(t, <<f, e>>) : c <= x => o <= x,
           ServedBefore(t, <<f, e>>, c)
    PROVE  /\ <<a, z - 1>> \in Words(t, <<f, e>>)
           /\ Before(Arguments(t, <<f, e>>), z) = Before(Arguments(t, <<f, e>>), c)
           /\ \A kind : Before(Targets(t, <<f, e>>, kind), z) =
                 Before(Targets(t, <<f, e>>, kind), c) \cup
                    (IF kind = KindOf(t, <<f, e>>, o) THEN {<<a, z - 1>>} ELSE {})
           /\ ServedBefore(t, <<f, e>>, z)
           /\ Boundary(t, <<f, e>>, z)
<1> DEFINE p == <<f, e>>
           w == <<a, z - 1>>
<1>1. o \in Nat /\ f <= o /\ z - 1 \in Nat /\ w[1] = a
  BY OperatorFacts
<1>2. t[o] \in Signs
  BY OperatorFacts
<1>3. w \in Words(t, p)
  <2>1. t[a - 1] \in Delimiters
    <3>1. a - 1 = o \/ a - 1 \in (o + 1)..(a - 1)
      BY <1>1
    <3> QED
      BY <1>2, <3>1 DEF Blank, Delimiters, Signs
  <2>2. (z - 1) + 1 = z /\ (z - 1 = e \/ z # e + 1) /\ f <= a /\ a <= z - 1 /\ z - 1 <= e
    BY <1>1
  <2>3. z - 1 = e \/ t[(z - 1) + 1] \in Delimiters
    BY <2>2
  <2> QED
    BY <1>1, <2>1, <2>2, <2>3, WordMade
<1>4. /\ Follows(t, w, o)
      /\ \A x \in Operators(t, p) : Follows(t, w, x) => x = o
  BY <1>1, OneOperator
<1>5. IsTarget(t, p, w) /\ ~IsErrorSign(t, p, w)
  BY <1>4 DEF IsTarget, IsErrorSign
<1> HIDE DEF w, p
<1>6. ASSUME NEW v \in Words(t, p), c <= v[1], v[1] < z PROVE v = w \/ IsErrorSign(t, p, v)
  <2>1. CASE v[1] <= o
    BY <1>6, <2>1 DEF p
  <2>2. CASE o + 1 <= v[1]
    <3>1. \A k \in (o + 1)..(a - 1) : t[k] \in Delimiters
      BY DEF Blank, Delimiters
    <3>2. f <= o + 1 /\ o + 1 \in Nat /\ o + 1 <= a
      BY <1>1
    <3>3. v = <<a, z - 1>>
      BY <1>6, <2>2, <3>1, <3>2, OnlyWord DEF p
    <3> QED
      BY <3>3 DEF w
  <2>3. v[1] \in Nat
    BY <1>6, WordFacts DEF p
  <2> QED
    BY <1>1, <2>1, <2>2, <2>3
<1>7. ASSUME NEW v, IsErrorSign(t, p, v)
      PROVE  v \notin Arguments(t, p) /\ \A kind : v \notin Targets(t, p, kind)
  <2>1. ~IsTarget(t, p, v)
    BY <1>7 DEF IsErrorSign
  <2> QED
    BY <1>7, <2>1 DEF Arguments, Targets, IsTarget
<1>8. w \notin Arguments(t, p)
  BY <1>5 DEF Arguments
<1>9. \A kind : w \in Targets(t, p, kind) <=> kind = KindOf(t, p, o)
  <2> TAKE kind
  <2>1. o \in Operators(t, p)
    BY DEF p
  <2>2. w \in Targets(t, p, kind) <=>
           \E x \in Operators(t, p) : Follows(t, w, x) /\ KindOf(t, p, x) = kind
    BY <1>3 DEF Targets
  <2> QED
    BY <1>4, <2>1, <2>2, Zenon
<1>10. c <= z
  BY <1>1
<1>11. Before(Arguments(t, p), z) = Before(Arguments(t, p), c)
  <2>1. Arguments(t, p) \in SUBSET Words(t, p)
    BY DEF Arguments
  <2>2. Before(Arguments(t, p), z) =
           Before(Arguments(t, p), c) \cup {v \in Arguments(t, p) : c <= v[1] /\ v[1] < z}
    BY <1>10, <2>1, BeforeGrows DEF p
  <2>3. {v \in Arguments(t, p) : c <= v[1] /\ v[1] < z} = {}
    BY <1>6, <1>7, <1>8, <2>1
  <2> QED
    BY <2>2, <2>3
<1>12. c <= w[1] /\ w[1] < z
  BY <1>1
<1>13. ASSUME NEW kind
       PROVE  Before(Targets(t, p, kind), z) =
                 Before(Targets(t, p, kind), c) \cup (IF kind = KindOf(t, p, o) THEN {w} ELSE {})
  <2>1. Targets(t, p, kind) \in SUBSET Words(t, p)
    BY DEF Targets
  <2>2. Before(Targets(t, p, kind), z) =
           Before(Targets(t, p, kind), c) \cup
              {v \in Targets(t, p, kind) : c <= v[1] /\ v[1] < z}
    BY <1>10, <2>1, BeforeGrows DEF p
  <2>3. {v \in Targets(t, p, kind) : c <= v[1] /\ v[1] < z} =
           IF kind = KindOf(t, p, o) THEN {w} ELSE {}
    BY <1>6, <1>7, <1>9, <1>12, <2>1
  <2> QED
    BY <2>2, <2>3
<1>14. ServedBefore(t, p, z)
  <2> SUFFICES ASSUME NEW x \in Operators(t, p), x < z PROVE HasTarget(t, p, x)
    BY DEF ServedBefore
  <2>1. x \in Nat
    BY OperatorFacts DEF p
  <2>2. t[x] \in Signs
    BY OperatorFacts DEF p
  <2>3. CASE x < c
    BY <2>3 DEF ServedBefore, p
  <2>4. CASE x = o
    BY <1>3, <1>4, <2>4 DEF HasTarget
  <2>5. CASE x \in (o + 1)..(a - 1)
    BY <2>2, <2>5 DEF Blank, Signs
  <2>6. CASE x \in a..(z - 1)
    BY <2>2, <2>6 DEF Delimiters, Signs
  <2>7. x < c \/ o <= x
    <3>1. c <= x => o <= x
      BY DEF p
    <3> QED
      BY <2>1, <3>1
  <2>8. x < c \/ x = o \/ x \in (o + 1)..(a - 1) \/ x \in a..(z - 1)
    BY <1>1, <2>1, <2>7
  <2> QED
    BY <2>3, <2>4, <2>5, <2>6, <2>8
<1>15. Boundary(t, p, z)
  BY <1>3, <1>5, BoundaryAfterWord DEF p, w
<1> QED
  BY <1>3, <1>11, <1>13, <1>14, <1>15 DEF p, w

\* Between c and z there is the argument w and nothing else.
OneArgument(t, piece, c, z, w) ==
    /\ w \in Words(t, piece)
    /\ Before(Arguments(t, piece), z) = Before(Arguments(t, piece), c) \cup {w}
    /\ \A kind : Before(Targets(t, piece, kind), z) = Before(Targets(t, piece, kind), c)
    /\ ServedBefore(t, piece, z)
    /\ Boundary(t, piece, z)

\* What is read up to z when an argument was met.
LEMMA ArgumentTurn ==
    ASSUME NEW t, NEW f \in Nat, NEW e \in Nat, NEW c \in Nat, NEW a \in Nat, NEW z \in Nat,
           f <= c, c <= a, a < z, z <= e + 1,
           Boundary(t, <<f, e>>, c), Blank(t, c, a - 1),
           \A k \in a..(z - 1) : t[k] \notin Delimiters,
           z = e + 1 \/ t[z] \in Delimiters,
           ~SignStarts(t, a, e),
           ServedBefore(t, <<f, e>>, c)
    PROVE  OneArgument(t, <<f, e>>, c, z, <<a, z - 1>>)
<1> DEFINE p == <<f, e>>
           w == <<a, z - 1>>
<1>1. z - 1 \in Nat /\ w[1] = a /\ w[2] = z - 1
  OBVIOUS
<1>2. /\ a \in a..(z - 1) /\ a <= e /\ f <= a /\ a <= z - 1 /\ z - 1 <= e
      /\ (z - 1) + 1 = z /\ (z - 1 = e \/ z # e + 1)
  OBVIOUS
<1>3. t[a] \notin Delimiters
  BY <1>2
<1>4. w \in Words(t, p)
  <2>1. a = f \/ t[a - 1] \in Delimiters
    BY <1>2, <1>3, WordMayStart
  <2>2. z - 1 = e \/ t[(z - 1) + 1] \in Delimiters
    BY <1>2
  <2> QED
    BY <1>1, <1>2, <2>1, <2>2, WordMade
<1>5. ~IsTarget(t, p, w)
  BY <1>1, NothingPending
<1>6. ~IsErrorSign(t, p, w)
  <2> SUFFICES ASSUME IsErrorSign(t, p, w) PROVE FALSE
    OBVIOUS
  <2>1. /\ a = z - 1 /\ t[a] = "2" /\ (z - 1) + 1 <= e /\ t[(z - 1) + 1] = ">"
    BY DEF IsErrorSign
  <2>2. a + 1 <= e /\ t[a + 1] = ">"
    BY <2>1
  <2> QED
    BY <2>1, <2>2 DEF SignStarts
<1> HIDE DEF w, p
<1>7. \A k \in c..(a - 1) : t[k] \in Delimiters
  BY DEF Blank, Delimiters
<1>8. \A v \in Words(t, p) : c <= v[1] /\ v[1] < z => v = w
  BY <1>7, OnlyWord DEF p, w
<1>9. w \in Arguments(t, p) /\ \A kind : w \notin Targets(t, p, kind)
  BY <1>4, <1>5, <1>6 DEF Arguments, Targets, IsTarget
<1>10. c <= z
  BY <1>1
<1>15. c <= w[1] /\ w[1] < z
  BY <1>1
<1>11. Before(Arguments(t, p), z) = Before(Arguments(t, p), c) \cup {w}
  <2>1. Arguments(t, p) \in SUBSET Words(t, p)
    BY DEF Arguments
  <2>2. Before(Arguments(t, p), z) =
           Before(Arguments(t, p), c) \cup {v \in Arguments(t, p) : c <= v[1] /\ v[1] < z}
    BY <1>10, <2>1, BeforeGrows DEF p
  <2>3. {v \in Arguments(t, p) : c <= v[1] /\ v[1] < z} = {w}
    BY <1>8, <1>9, <1>15, <2>1
  <2> QED
    BY <2>2, <2>3
<1>12. ASSUME NEW kind
       PROVE  Before(Targets(t, p, kind), z) = Before(Targets(t, p, kind), c)
  <2>1. Targets(t, p, kind) \in SUBSET Words(t, p)
    BY DEF Targets
  <2>2. Before(Targets(t, p, kind), z) =
           Before(Targets(t, p, kind), c) \cup
              {v \in Targets(t, p, kind) : c <= v[1] /\ v[1] < z}
    BY <1>10, <2>1, BeforeGrows DEF p
  <2>3. {v \in Targets(t, p, kind) : c <= v[1] /\ v[1] < z} = {}
    BY <1>8, <1>9, <2>1
  <2> QED
    BY <2>2, <2>3
<1>13. ServedBefore(t, p, z)
  <2> SUFFICES ASSUME NEW x \in Operators(t, p), x < z PROVE HasTarget(t, p, x)
    BY DEF ServedBefore
  <2>1. x \in Nat
    BY OperatorFacts DEF p
  <2>2. t[x] \in Signs
    BY OperatorFacts DEF p
  <2>3. CASE x < c
    BY <2>3 DEF ServedBefore, p
  <2>4. CASE x \in c..(a - 1)
    BY <2>2, <2>4 DEF Blank, Signs
  <2>5. CASE x \in a..(z - 1)
    BY <2>2, <2>5 DEF Delimiters, Signs
  <2>6. x < c \/ x \in c..(a - 1) \/ x \in a..(z - 1)
    BY <1>1, <2>1
  <2> QED
    BY <2>3, <2>4, <2>5, <2>6
<1>14. Boundary(t, p, z)
  BY <1>4, <1>6, BoundaryAfterWord DEF p, w
<1> QED
  BY <1>4, <1>11, <1>12, <1>13, <1>14 DEF p, w, OneArgument

LEMMA RangesAreFinite ==
    ASSUME NEW t, NEW f \in Nat, NEW e \in Nat, NEW seps
    PROVE  IsRangeSet(Ranges(t, f, e, seps))
<1> DEFINE I == f..e
           R == Ranges(t, f, e, seps)
<1>1. IsFiniteSet(I)
  BY FS_Interval
<1>2. R \in SUBSET (I \X I)
  BY DEF Ranges
<1>3. I \subseteq Nat
  OBVIOUS
<1> HIDE DEF I, R
<1>4. IsFiniteSet(I \X I)
  BY <1>1, FS_Product
<1>5. IsFiniteSet(R)
  BY <1>2, <1>4, FS_Subset
<1>6. R \subseteq TokenSet
  BY <1>2, <1>3 DEF TokenSet
<1> QED
  BY <1>5, <1>6 DEF IsRangeSet, R

LEMMA WordsAreFinite ==
    ASSUME NEW t, NEW f \in Nat, NEW e \in Nat
    PROVE  IsRangeSet(Words(t, <<f, e>>))
<1>1. <<f, e>>[1] = f /\ <<f, e>>[2] = e
  OBVIOUS
<1>2. IsRangeSet(Ranges(t, f, e, {" ", "<", ">"}))
  BY RangesAreFinite
<1> QED
  BY <1>1, <1>2 DEF Words

LEMMA ReadIsFinite ==
    ASSUME NEW t, NEW f \in Nat, NEW e \in Nat, NEW c
    PROVE  /\ IsRangeSet(Before(Arguments(t, <<f, e>>), c))
           /\ \A kind : IsRangeSet(Before(Targets(t, <<f, e>>, kind), c))
<1>1. IsRangeSet(Words(t, <<f, e>>))
  BY WordsAreFinite
<1>2. Before(Arguments(t, <<f, e>>), c) \in SUBSET Words(t, <<f, e>>)
  BY DEF Before, Arguments
<1>3. \A kind : Before(Targets(t, <<f, e>>, kind), c) \in SUBSET Words(t, <<f, e>>)
  BY DEF Before, Targets
<1> QED
  BY <1>1, <1>2, <1>3, RangeSubset

\* One more argument, kept or dropped.
LEMMA ReadArgument ==
    ASSUME NEW t, NEW f \in Nat, NEW e \in Nat, NEW c \in Nat, NEW z, NEW s \in StageSet,
           NEW w \in TokenSet, c <= w[1],
           ReadUpTo(t, <<f, e>>, c, s), OneArgument(t, <<f, e>>, c, z, w)
    PROVE  /\ Len(s.argv) < MaxArgs - 1 =>
                 ReadUpTo(t, <<f, e>>, z, [s EXCEPT !.argv = Append(@, w)])
           /\ Len(s.argv) >= MaxArgs - 1 => ReadUpTo(t, <<f, e>>, z, s)
<1> DEFINE S == Before(Arguments(t, <<f, e>>), c)
           n == MaxArgs - 1
<1>1. n \in Nat
  BY ParserAssumption
<1>2. IsRangeSet(S)
  BY ReadIsFinite
<1>3. \A v \in S : v[1] < w[1]
  <2> TAKE v \in S
  <2>1. v \in TokenSet /\ v[1] < c
    BY <1>2 DEF IsRangeSet, Before
  <2>2. v[1] \in Nat /\ w[1] \in Nat
    BY <2>1, StartsAreNumbers
  <2> QED
    BY <2>1, <2>2
<1>4. s.argv = InOrder(S, n)
  BY DEF ReadUpTo
<1> HIDE DEF S, n
<1>5. /\ Cardinality(S) < n => InOrder(S \cup {w}, n) = Append(InOrder(S, n), w)
      /\ Cardinality(S) >= n => InOrder(S \cup {w}, n) = InOrder(S, n)
  BY <1>1, <1>2, <1>3, InOrderAdd
<1>6. /\ Cardinality(S) \in Nat
      /\ Len(s.argv) = IF Cardinality(S) < n THEN Cardinality(S) ELSE n
  BY <1>1, <1>2, <1>4, InOrderLength
<1>7. ASSUME Len(s.argv) < n PROVE ReadUpTo(t, <<f, e>>, z, [s EXCEPT !.argv = Append(@, w)])
  <2> DEFINE u == [s EXCEPT !.argv = Append(@, w)]
  <2>1. Cardinality(S) < n
    BY <1>1, <1>6, <1>7
  <2>2. /\ u.argv = Append(s.argv, w) /\ u.input_file = s.input_file
        /\ u.output_file = s.output_file /\ u.error_file = s.error_file
    BY DEF StageSet
  <2> HIDE DEF u
  <2>3. u.argv = InOrder(Before(Arguments(t, <<f, e>>), z), MaxArgs - 1)
    BY <1>4, <1>5, <2>1, <2>2 DEF S, n, OneArgument
  <2>4. ReadUpTo(t, <<f, e>>, z, u)
    BY <2>2, <2>3 DEF ReadUpTo, OneArgument
  <2> QED
    BY <2>4 DEF u
<1>8. ASSUME Len(s.argv) >= n PROVE ReadUpTo(t, <<f, e>>, z, s)
  <2>1. Cardinality(S) >= n
    BY <1>1, <1>6, <1>8
  <2>2. s.argv = InOrder(Before(Arguments(t, <<f, e>>), z), MaxArgs - 1)
    BY <1>4, <1>5, <2>1 DEF S, n, OneArgument
  <2> QED
    BY <2>2 DEF ReadUpTo, OneArgument
<1> QED
  BY <1>7, <1>8 DEF n

\* One more target, which replaces the earlier one of its kind.
LEMMA ReadTarget ==
    ASSUME NEW t, NEW f \in Nat, NEW e \in Nat, NEW c \in Nat, NEW z, NEW s \in StageSet,
           NEW w \in TokenSet, c <= w[1], NEW field,
           ReadUpTo(t, <<f, e>>, c, s),
           Before(Arguments(t, <<f, e>>), z) = Before(Arguments(t, <<f, e>>), c),
           \A kind : Before(Targets(t, <<f, e>>, kind), z) =
                        Before(Targets(t, <<f, e>>, kind), c) \cup
                           (IF kind = field THEN {w} ELSE {}),
           ServedBefore(t, <<f, e>>, z), Boundary(t, <<f, e>>, z)
    PROVE  /\ field = "input_file" => ReadUpTo(t, <<f, e>>, z, [s EXCEPT !["input_file"] = w])
           /\ field = "output_file" => ReadUpTo(t, <<f, e>>, z, [s EXCEPT !["output_file"] = w])
           /\ field = "error_file" => ReadUpTo(t, <<f, e>>, z, [s EXCEPT !["error_file"] = w])
<1>1. ASSUME NEW kind
      PROVE  LastIn(Before(Targets(t, <<f, e>>, kind), z)) =
                IF kind = field THEN w ELSE LastIn(Before(Targets(t, <<f, e>>, kind), c))
  <2> DEFINE S == Before(Targets(t, <<f, e>>, kind), c)
  <2>1. IsRangeSet(S)
    BY ReadIsFinite
  <2>2. \A v \in S : v[1] < w[1]
    <3> TAKE v \in S
    <3>1. v \in TokenSet /\ v[1] < c
      BY <2>1 DEF IsRangeSet, Before
    <3>2. v[1] \in Nat /\ w[1] \in Nat
      BY <3>1, StartsAreNumbers
    <3> QED
      BY <3>1, <3>2
  <2> HIDE DEF S
  <2>3. LastIn(S \cup {w}) = w
    BY <2>1, <2>2, LastInAdd
  <2> QED
    BY <2>3 DEF S
<1>2. /\ s.argv = InOrder(Before(Arguments(t, <<f, e>>), z), MaxArgs - 1)
      /\ s.input_file = LastIn(Before(Targets(t, <<f, e>>, "input_file"), c))
      /\ s.output_file = LastIn(Before(Targets(t, <<f, e>>, "output_file"), c))
      /\ s.error_file = LastIn(Before(Targets(t, <<f, e>>, "error_file"), c))
  BY DEF ReadUpTo
<1>3. ASSUME NEW u \in StageSet, u.argv = s.argv,
             u.input_file = IF field = "input_file" THEN w ELSE s.input_file,
             u.output_file = IF field = "output_file" THEN w ELSE s.output_file,
             u.error_file = IF field = "error_file" THEN w ELSE s.error_file
      PROVE  ReadUpTo(t, <<f, e>>, z, u)
  <2>1. u.input_file = LastIn(Before(Targets(t, <<f, e>>, "input_file"), z))
    BY <1>1, <1>2, <1>3
  <2>2. u.output_file = LastIn(Before(Targets(t, <<f, e>>, "output_file"), z))
    BY <1>1, <1>2, <1>3
  <2>3. u.error_file = LastIn(Before(Targets(t, <<f, e>>, "error_file"), z))
    BY <1>1, <1>2, <1>3
  <2> QED
    BY <1>2, <1>3, <2>1, <2>2, <2>3 DEF ReadUpTo
<1>4. ASSUME field = "input_file"
      PROVE  ReadUpTo(t, <<f, e>>, z, [s EXCEPT !["input_file"] = w])
  <2> DEFINE u == [s EXCEPT !["input_file"] = w]
  <2>1. u \in StageSet
    BY StoredType
  <2>2. /\ u.argv = s.argv /\ u.input_file = w
        /\ u.output_file = s.output_file /\ u.error_file = s.error_file
    BY DEF StageSet
  <2> HIDE DEF u
  <2>3. ReadUpTo(t, <<f, e>>, z, u)
    BY <1>3, <1>4, <2>1, <2>2
  <2> QED
    BY <2>3 DEF u
<1>5. ASSUME field = "output_file"
      PROVE  ReadUpTo(t, <<f, e>>, z, [s EXCEPT !["output_file"] = w])
  <2> DEFINE u == [s EXCEPT !["output_file"] = w]
  <2>1. u \in StageSet
    BY StoredType
  <2>2. /\ u.argv = s.argv /\ u.input_file = s.input_file
        /\ u.output_file = w /\ u.error_file = s.error_file
    BY DEF StageSet
  <2> HIDE DEF u
  <2>3. ReadUpTo(t, <<f, e>>, z, u)
    BY <1>3, <1>5, <2>1, <2>2
  <2> QED
    BY <2>3 DEF u
<1>6. ASSUME field = "error_file"
      PROVE  ReadUpTo(t, <<f, e>>, z, [s EXCEPT !["error_file"] = w])
  <2> DEFINE u == [s EXCEPT !["error_file"] = w]
  <2>1. u \in StageSet
    BY StoredType
  <2>2. /\ u.argv = s.argv /\ u.input_file = s.input_file
        /\ u.output_file = s.output_file /\ u.error_file = w
    BY DEF StageSet
  <2> HIDE DEF u
  <2>3. ReadUpTo(t, <<f, e>>, z, u)
    BY <1>3, <1>6, <2>1, <2>2
  <2> QED
    BY <2>3 DEF u
<1> QED
  BY <1>4, <1>5, <1>6

\* Up to an operator behind blanks there is no word and no other operator; up
\* to a "2>" there is only its sign.
LEMMA NothingBeforeSign ==
    ASSUME NEW t, NEW f \in Nat, NEW e \in Nat, NEW c \in Nat, NEW a \in Nat,
           f <= c, c <= a, Blank(t, c, a - 1), t[a] \in Signs
    PROVE  /\ \A v \in Words(t, <<f, e>>) :
                 c <= v[1] /\ v[1] <= a => IsErrorSign(t, <<f, e>>, v)
           /\ \A x \in Operators(t, <<f, e>>) : c <= x => a <= x
<1>1. ASSUME NEW v \in Words(t, <<f, e>>), c <= v[1], v[1] <= a PROVE FALSE
  <2>1. v[1] \in Nat
    BY WordFacts
  <2>2. t[v[1]] \notin Delimiters
    BY WordFacts
  <2>3. v[1] \in c..(a - 1) \/ v[1] = a
    BY <1>1, <2>1
  <2> QED
    BY <2>2, <2>3 DEF Blank, Delimiters, Signs
<1>2. ASSUME NEW x \in Operators(t, <<f, e>>), c <= x PROVE a <= x
  <2>1. x \in Nat
    BY OperatorFacts
  <2>2. t[x] \in Signs
    BY OperatorFacts
  <2>3. x \notin c..(a - 1)
    BY <2>2 DEF Blank, Signs
  <2> QED
    BY <1>2, <2>1, <2>3
<1> QED
  BY <1>1, <1>2

LEMMA OnlySignBefore ==
    ASSUME NEW t, NEW f \in Nat, NEW e \in Nat, NEW c \in Nat, NEW a \in Nat,
           f <= c, c <= a, a + 1 <= e, Blank(t, c, a - 1), t[a] = "2", t[a + 1] = ">",
           IsErrorSign(t, <<f, e>>, <<a, a>>)
    PROVE  /\ \A v \in Words(t, <<f, e>>) :
                 c <= v[1] /\ v[1] <= a + 1 => IsErrorSign(t, <<f, e>>, v)
           /\ \A x \in Operators(t, <<f, e>>) : c <= x => a + 1 <= x
<1>0. t[a] \notin Delimiters /\ t[a + 1] \in Delimiters /\ t[a] \notin Signs
  BY DEF Delimiters, Signs
<1>1. ASSUME NEW v \in Words(t, <<f, e>>), c <= v[1], v[1] <= a + 1
      PROVE  IsErrorSign(t, <<f, e>>, v)
  <2>1. v[1] \in Nat
    BY WordFacts
  <2>2. t[v[1]] \notin Delimiters
    BY WordFacts
  <2>3. v[1] # a + 1
    BY <1>0, <2>2
  <2>4. v[1] < a + 1
    BY <1>1, <2>1, <2>3
  <2>5. \A k \in c..(a - 1) : t[k] \in Delimiters
    BY DEF Blank, Delimiters
  <2>6. a..((a + 1) - 1) = {a} /\ a + 1 \in Nat /\ a < a + 1 /\ a + 1 <= e + 1 /\ (a + 1) - 1 = a
    OBVIOUS
  <2>7. \A k \in a..((a + 1) - 1) : t[k] \notin Delimiters
    BY <1>0, <2>6
  <2>8. v = <<a, (a + 1) - 1>>
    <3> DEFINE z == a + 1
    <3>1. z \in Nat /\ a < z /\ z <= e + 1 /\ v[1] < z
      BY <2>4, <2>6
    <3>2. \A k \in a..(z - 1) : t[k] \notin Delimiters
      BY <2>7
    <3>3. t[z] \in Delimiters
      BY <1>0
    <3> HIDE DEF z
    <3>4. v = <<a, z - 1>>
      BY <1>1, <2>5, <3>1, <3>2, <3>3, OnlyWord
    <3> QED
      BY <3>4 DEF z
  <2> QED
    BY <2>6, <2>8
<1>2. ASSUME NEW x \in Operators(t, <<f, e>>), c <= x PROVE a + 1 <= x
  <2>1. x \in Nat
    BY OperatorFacts
  <2>2. t[x] \in Signs
    BY OperatorFacts
  <2>3. x \notin c..(a - 1)
    BY <2>2 DEF Blank, Signs
  <2>4. x # a
    BY <1>0, <2>2
  <2> QED
    BY <1>2, <2>1, <2>3, <2>4
<1> QED
  BY <1>1, <1>2

\* A turn of parse_stage with an operator: what it reads from c on, where o is
\* the operator.
LEMMA TargetRead ==
    ASSUME NEW t, NEW f \in Nat, NEW e \in Nat, NEW c \in Nat, NEW a \in Nat, NEW z \in Nat,
           NEW o \in Operators(t, <<f, e>>), f <= c, c <= o, o < a, a < z, z <= e + 1,
           Blank(t, o + 1, a - 1),
           \A k \in a..(z - 1) : t[k] \notin Delimiters,
           z = e + 1 \/ t[z] \in Delimiters,
           \A v \in Words(t, <<f, e>>) : c <= v[1] /\ v[1] <= o => IsErrorSign(t, <<f, e>>, v),
           \A x \in Operators(t, <<f, e>>) : c <= x => o <= x,
           NEW s \in StageSet, ReadUpTo(t, <<f, e>>, c, s),
           NEW w, w = <<a, z - 1>>
    PROVE  /\ KindOf(t, <<f, e>>, o) = "input_file" =>
                 ReadUpTo(t, <<f, e>>, z, [s EXCEPT !["input_file"] = w])
           /\ KindOf(t, <<f, e>>, o) = "output_file" =>
                 ReadUpTo(t, <<f, e>>, z, [s EXCEPT !["output_file"] = w])
           /\ KindOf(t, <<f, e>>, o) = "error_file" =>
                 ReadUpTo(t, <<f, e>>, z, [s EXCEPT !["error_file"] = w])
<1>1. ServedBefore(t, <<f, e>>, c)
  BY DEF ReadUpTo
<1>2. /\ w \in Words(t, <<f, e>>)
      /\ Before(Arguments(t, <<f, e>>), z) = Before(Arguments(t, <<f, e>>), c)
      /\ \A kind : Before(Targets(t, <<f, e>>, kind), z) =
            Before(Targets(t, <<f, e>>, kind), c) \cup
               (IF kind = KindOf(t, <<f, e>>, o) THEN {w} ELSE {})
      /\ ServedBefore(t, <<f, e>>, z)
      /\ Boundary(t, <<f, e>>, z)
  <2>1. /\ <<a, z - 1>> \in Words(t, <<f, e>>)
        /\ Before(Arguments(t, <<f, e>>), z) = Before(Arguments(t, <<f, e>>), c)
        /\ \A kind : Before(Targets(t, <<f, e>>, kind), z) =
              Before(Targets(t, <<f, e>>, kind), c) \cup
                 (IF kind = KindOf(t, <<f, e>>, o) THEN {<<a, z - 1>>} ELSE {})
        /\ ServedBefore(t, <<f, e>>, z)
        /\ Boundary(t, <<f, e>>, z)
    BY <1>1, TargetTurn, Zenon
  <2>2. w = <<a, z - 1>>
    OBVIOUS
  <2> QED
    BY <2>1, <2>2, Zenon
<1>3. w \in TokenSet
  BY <1>2, WordFacts
<1>4. o \in Nat
  BY OperatorFacts
<1>5. w[1] = a
  OBVIOUS
<1>6. c <= w[1]
  BY <1>4, <1>5
<1> QED
  BY <1>2, <1>3, <1>6, ReadTarget

\* A turn of parse_stage reads on as the text says.
LEMMA ReadItem ==
    ASSUME ParserTypes, ParseItem, NEW f \in Nat, f <= cursor,
           ReadUpTo(buffer, <<f, stage_end - 1>>, cursor, stage)
    PROVE  ReadUpTo(buffer, <<f, stage_end - 1>>, cursor', stage')
<1> DEFINE e == stage_end - 1
           w == Token(From)
<1>1. /\ ppc = "stage" /\ At < stage_end /\ TokenAt(From) /\ cursor' = Stop
      /\ \/ buffer[At] = "<" /\ From = At + 1 /\ Stored("input_file")
         \/ buffer[At] = ">" /\ From = At + 1 /\ Stored("output_file")
         \/ IsErrorItem /\ From = At + 2 /\ Stored("error_file")
         \/ /\ buffer[At] \notin Delimiters /\ ~IsErrorItem /\ From = At
            /\ \/ Len(stage.argv) < MaxArgs - 1 /\ Appended
               \/ Len(stage.argv) >= MaxArgs - 1 /\ UNCHANGED <<stage, tokens>>
  BY ItemParsed
<1>2. /\ At \in Nat /\ cursor <= At /\ cursor \in Nat /\ stage_end \in Nat /\ cursor >= 1
  BY ItemSeen, Positions
<1>3. Blank(buffer, cursor, At - 1)
  BY ItemSeen DEF Blank
<1>4. /\ First \in Nat /\ From <= First /\ First < stage_end
      /\ Stop \in Nat /\ First < Stop /\ Stop <= stage_end
  BY <1>1, TokenSeen
<1>5. Blank(buffer, From, First - 1)
  BY <1>1, TokenSeen DEF Blank
<1>6. \A k \in First..(Stop - 1) : buffer[k] \notin Delimiters
  BY <1>1, TokenSeen
<1>7. Stop = stage_end \/ buffer[Stop] \in Delimiters
  BY <1>1, TokenSeen
<1>8. w = <<First, Stop - 1>> /\ w \in TokenSet
  BY <1>1, TokenSeen
<1>9. stage \in StageSet
  BY DEF ParserTypes
<1>10. e \in Nat /\ stage_end = e + 1 /\ At <= e /\ Stop <= e + 1 /\ f <= At
  BY <1>1, <1>2, <1>4
<1>11. ReadUpTo(buffer, <<f, e>>, cursor, stage)
  OBVIOUS
<1>12. Boundary(buffer, <<f, e>>, cursor) /\ ServedBefore(buffer, <<f, e>>, cursor)
  BY <1>11 DEF ReadUpTo
<1> HIDE DEF e, w
<1>13. Stop = e + 1 \/ buffer[Stop] \in Delimiters
  BY <1>7, <1>10
<1>14. ASSUME From = At + 1, buffer[At] \in Signs
       PROVE  /\ KindOf(buffer, <<f, e>>, At) = "input_file" =>
                    ReadUpTo(buffer, <<f, e>>, Stop, [stage EXCEPT !["input_file"] = w])
              /\ KindOf(buffer, <<f, e>>, At) = "output_file" =>
                    ReadUpTo(buffer, <<f, e>>, Stop, [stage EXCEPT !["output_file"] = w])
  <2>1. At \in Operators(buffer, <<f, e>>)
    BY <1>2, <1>10, <1>14, OperatorFacts
  <2>2. At < First
    BY <1>2, <1>4, <1>14
  <2>3. Blank(buffer, At + 1, First - 1)
    BY <1>5, <1>14
  <2>4. /\ \A v \in Words(buffer, <<f, e>>) :
              cursor <= v[1] /\ v[1] <= At => IsErrorSign(buffer, <<f, e>>, v)
        /\ \A x \in Operators(buffer, <<f, e>>) : cursor <= x => At <= x
    BY <1>2, <1>3, <1>10, <1>14, NothingBeforeSign
  <2> QED
    BY <1>2, <1>4, <1>6, <1>8, <1>9, <1>10, <1>11, <1>13, <2>1, <2>2, <2>3, <2>4, TargetRead
<1>15. CASE buffer[At] = "<" /\ From = At + 1 /\ Stored("input_file")
  <2>1. KindOf(buffer, <<f, e>>, At) = "input_file"
    BY <1>15 DEF KindOf
  <2> QED
    BY <1>1, <1>14, <1>15, <2>1 DEF Signs, Stored, e, w
<1>16. CASE buffer[At] = ">" /\ From = At + 1 /\ Stored("output_file")
  <2>1. KindOf(buffer, <<f, e>>, At) = "output_file"
    BY <1>2, <1>3, <1>10, <1>12, <1>16, KindOutput
  <2> QED
    BY <1>1, <1>14, <1>16, <2>1 DEF Signs, Stored, e, w
<1>17. CASE IsErrorItem /\ From = At + 2 /\ Stored("error_file")
  <2> DEFINE o == At + 1
  <2>1. buffer[At] = "2" /\ buffer[At + 1] = ">"
    BY <1>17 DEF IsErrorItem
  <2>2. At + 1 <= e
    <3>1. At + 1 < stage_end
      BY <1>17 DEF IsErrorItem
    <3> QED
      BY <1>2, <1>10, <3>1
  <2>3. /\ IsErrorSign(buffer, <<f, e>>, <<At, At>>)
        /\ KindOf(buffer, <<f, e>>, At + 1) = "error_file"
    BY <1>2, <1>3, <1>10, <1>12, <2>1, <2>2, ErrorSignSeen
  <2>4. /\ \A v \in Words(buffer, <<f, e>>) :
              cursor <= v[1] /\ v[1] <= o => IsErrorSign(buffer, <<f, e>>, v)
        /\ \A x \in Operators(buffer, <<f, e>>) : cursor <= x => o <= x
    BY <1>2, <1>3, <1>10, <2>1, <2>2, <2>3, OnlySignBefore
  <2>5. o \in Nat /\ f <= o /\ o <= e /\ cursor <= o /\ o < First /\ o + 1 = From
    BY <1>2, <1>4, <1>10, <1>17, <2>2
  <2>6. o \in Operators(buffer, <<f, e>>)
    <3>1. buffer[o] \in Signs
      BY <2>1 DEF Signs
    <3> HIDE DEF o
    <3> QED
      BY <1>10, <2>5, <3>1, OperatorFacts
  <2>7. Blank(buffer, o + 1, First - 1) /\ KindOf(buffer, <<f, e>>, o) = "error_file"
    BY <1>5, <2>3, <2>5
  <2> HIDE DEF o
  <2>8. ReadUpTo(buffer, <<f, e>>, Stop, [stage EXCEPT !["error_file"] = w])
    BY <1>2, <1>4, <1>6, <1>8, <1>9, <1>10, <1>11, <1>13, <2>4, <2>5, <2>6, <2>7, TargetRead
  <2> QED
    BY <1>1, <1>17, <2>8 DEF Stored, e, w
<1>18. CASE /\ buffer[At] \notin Delimiters /\ ~IsErrorItem /\ From = At
            /\ \/ Len(stage.argv) < MaxArgs - 1 /\ Appended
               \/ Len(stage.argv) >= MaxArgs - 1 /\ UNCHANGED <<stage, tokens>>
  <2>1. First = At
    <3>1. ~(At < First)
      <4> SUFFICES ASSUME At < First PROVE FALSE
        OBVIOUS
      <4>1. At \in From..(First - 1)
        BY <1>2, <1>4, <1>18
      <4> QED
        BY <1>5, <1>18, <4>1 DEF Blank, Delimiters
    <3> QED
      BY <1>2, <1>4, <1>18, <3>1
  <2>2. ~SignStarts(buffer, First, e)
    <3>1. First + 1 <= e => At + 1 < stage_end
      BY <1>2, <1>10, <2>1
    <3> QED
      BY <1>18, <2>1, <3>1 DEF IsErrorItem, SignStarts
  <2>3. Blank(buffer, cursor, First - 1) /\ cursor <= First
    BY <1>2, <1>3, <2>1
  <2>4. OneArgument(buffer, <<f, e>>, cursor, Stop, <<First, Stop - 1>>)
    BY <1>2, <1>4, <1>6, <1>10, <1>12, <1>13, <2>2, <2>3, ArgumentTurn
  <2>5. cursor <= w[1]
    <3>1. w[1] = First
      BY <1>8
    <3> QED
      BY <2>3, <3>1
  <2>6. /\ Len(stage.argv) < MaxArgs - 1 =>
              ReadUpTo(buffer, <<f, e>>, Stop, [stage EXCEPT !.argv = Append(@, w)])
        /\ Len(stage.argv) >= MaxArgs - 1 => ReadUpTo(buffer, <<f, e>>, Stop, stage)
    BY <1>2, <1>8, <1>9, <1>10, <1>11, <2>4, <2>5, ReadArgument
  <2> QED
    BY <1>1, <1>18, <2>6 DEF Appended, e, w
<1> QED
  BY <1>1, <1>15, <1>16, <1>17, <1>18

\* A stage that is read to its end is what the piece says.
LEMMA ReadAll ==
    ASSUME ParserTypes, At = stage_end, NEW f \in Nat, f >= 1, f <= cursor, f < stage_end,
           ReadUpTo(buffer, <<f, stage_end - 1>>, cursor, stage)
    PROVE  /\ stage = StageOf(buffer, <<f, stage_end - 1>>)
           /\ \A o \in Operators(buffer, <<f, stage_end - 1>>) :
                 HasTarget(buffer, <<f, stage_end - 1>>, o)
<1> DEFINE e == stage_end - 1
           p == <<f, e>>
<1>1. cursor \in Nat /\ stage_end \in Nat
  BY Positions
<1>2. Blank(buffer, cursor, At - 1)
  BY ItemSeen DEF Blank
<1>3. e \in Nat /\ At - 1 = e
  BY <1>1
<1>4. ReadUpTo(buffer, p, cursor, stage)
  OBVIOUS
<1> HIDE DEF e
<1>5. ASSUME NEW v \in Words(buffer, p) PROVE v[1] < cursor
  <2>1. v[1] \in Nat /\ v[2] \in Nat /\ v[1] <= v[2] /\ v[2] <= e
    BY <1>3, WordFacts
  <2>2. buffer[v[1]] \notin Delimiters
    BY <1>3, WordFacts
  <2>3. v[1] \notin cursor..e
    BY <1>2, <1>3, <2>2 DEF Blank, Delimiters
  <2> QED
    BY <1>1, <1>3, <2>1, <2>3
<1>6. ASSUME NEW o \in Operators(buffer, p) PROVE o < cursor
  <2>1. o \in Nat /\ o <= e
    BY <1>3, OperatorFacts
  <2>2. buffer[o] \in Signs
    BY <1>3, OperatorFacts
  <2>3. o \notin cursor..e
    BY <1>2, <1>3, <2>2 DEF Blank, Signs
  <2> QED
    BY <1>1, <1>3, <2>1, <2>3
<1> HIDE DEF p
<1>7. Before(Arguments(buffer, p), cursor) = Arguments(buffer, p)
  BY <1>5 DEF Before, Arguments
<1>8. \A kind : Before(Targets(buffer, p, kind), cursor) = Targets(buffer, p, kind)
  BY <1>5 DEF Before, Targets
<1>9. stage \in StageSet
  BY DEF ParserTypes
<1>10. stage = [argv |-> stage.argv, input_file |-> stage.input_file,
                output_file |-> stage.output_file, error_file |-> stage.error_file]
  BY <1>9 DEF StageSet
<1>11. /\ stage.argv = InOrder(Arguments(buffer, p), MaxArgs - 1)
       /\ stage.input_file = LastIn(Targets(buffer, p, "input_file"))
       /\ stage.output_file = LastIn(Targets(buffer, p, "output_file"))
       /\ stage.error_file = LastIn(Targets(buffer, p, "error_file"))
  BY <1>4, <1>7, <1>8 DEF ReadUpTo
<1>12. stage = StageOf(buffer, p)
  BY <1>10, <1>11 DEF StageOf
<1>13. \A o \in Operators(buffer, p) : HasTarget(buffer, p, o)
  BY <1>4, <1>6 DEF ReadUpTo, ServedBefore
<1> QED
  BY <1>12, <1>13 DEF p, e

\* When parse_stage finds no target the text has none.
LEMMA NoTarget ==
    ASSUME ParserTypes, At < stage_end, ~TokenAt(From), NEW f \in Nat, f <= cursor
    PROVE  \E o \in Operators(buffer, <<f, stage_end - 1>>) :
              ~HasTarget(buffer, <<f, stage_end - 1>>, o)
<1> DEFINE e == stage_end - 1
<1>1. /\ At \in Nat /\ cursor <= At /\ cursor \in Nat /\ stage_end \in Nat
  BY ItemSeen, Positions
<1>2. e \in Nat /\ stage_end = e + 1 /\ At <= e /\ f <= At
  BY <1>1
<1>3. First \in Nat /\ From <= First /\ First <= stage_end
  BY TokenSeen
<1>4. Blank(buffer, From, First - 1)
  BY TokenSeen DEF Blank
<1>5. First = stage_end \/ buffer[First] \in Signs
  BY TokenSeen DEF Signs
<1>6. \/ IsErrorItem /\ Item = [field |-> "error_file", length |-> 2]
      \/ buffer[At] = "<" /\ Item = [field |-> "input_file", length |-> 1]
      \/ buffer[At] = ">" /\ Item = [field |-> "output_file", length |-> 1]
      \/ /\ buffer[At] \notin Delimiters /\ ~IsErrorItem
         /\ Item = [field |-> "argv", length |-> 0]
  BY ItemSeen
<1>7. \/ IsErrorItem /\ From = At + 2
      \/ buffer[At] \in Signs /\ From = At + 1
      \/ buffer[At] \notin Delimiters /\ From = At
  BY <1>1, <1>6 DEF From, Signs
<1>8. First = e + 1 \/ buffer[First] \in Signs
  BY <1>2, <1>5
<1> HIDE DEF e
<1>9. ASSUME NEW o \in Nat, From = o + 1, buffer[o] \in Signs, f <= o, o <= e
      PROVE  o \in Operators(buffer, <<f, e>>) /\ ~HasTarget(buffer, <<f, e>>, o)
  <2>1. o < First
    BY <1>3, <1>9
  <2>2. Blank(buffer, o + 1, First - 1)
    BY <1>4, <1>9
  <2>3. o \in Operators(buffer, <<f, e>>)
    BY <1>2, <1>9, OperatorFacts
  <2>4. ~HasTarget(buffer, <<f, e>>, o)
    BY <1>2, <1>3, <1>8, <2>1, <2>2, Orphan
  <2> QED
    BY <2>3, <2>4
<1>10. CASE IsErrorItem /\ From = At + 2
  <2>1. buffer[At + 1] \in Signs
    BY <1>10 DEF IsErrorItem, Signs
  <2>2. At + 1 < stage_end
    BY <1>10 DEF IsErrorItem
  <2>3. At + 1 \in Nat /\ f <= At + 1 /\ At + 1 <= e /\ From = (At + 1) + 1
    BY <1>1, <1>2, <1>10, <2>2
  <2> QED
    BY <1>9, <2>1, <2>3 DEF e
<1>11. CASE buffer[At] \in Signs /\ From = At + 1
  BY <1>1, <1>2, <1>9, <1>11 DEF e
<1>12. CASE buffer[At] \notin Delimiters /\ From = At
  <2>1. ~(At < First)
    <3> SUFFICES ASSUME At < First PROVE FALSE
      OBVIOUS
    <3>1. At \in From..(First - 1)
      BY <1>1, <1>3, <1>12
    <3> QED
      BY <1>4, <1>12, <3>1 DEF Blank, Delimiters
  <2>2. First = At
    BY <1>1, <1>3, <1>12, <2>1
  <2>3. First # stage_end
    BY <1>1, <2>2
  <2> QED
    BY <1>5, <1>12, <2>2, <2>3 DEF Signs, Delimiters
<1> QED
  BY <1>7, <1>10, <1>11, <1>12

------------------------------------------------------------------------------
(* The pieces of the text *)

Bar == {"|"}

LEMMA PiecesAreRanges ==
    ASSUME NEW t
    PROVE  Pieces(t) = Ranges(t, 1, Len(t), Bar)
  BY DEF Pieces, Bar

LEMMA PiecesAreFinite ==
    ASSUME NEW t, Len(t) \in Nat
    PROVE  IsRangeSet(Pieces(t)) /\ \A y : IsRangeSet(Before(Pieces(t), y))
<1>1. IsRangeSet(Pieces(t))
  BY PiecesAreRanges, RangesAreFinite
<1>2. \A y : Before(Pieces(t), y) \in SUBSET Pieces(t)
  BY DEF Before
<1> QED
  BY <1>1, <1>2, RangeSubset

LEMMA PieceFacts ==
    ASSUME NEW t, Len(t) \in Nat, NEW q \in Pieces(t)
    PROVE  /\ q \in TokenSet /\ q[1] \in Nat /\ q[2] \in Nat /\ q = <<q[1], q[2]>>
           /\ 1 <= q[1] /\ q[1] <= q[2] /\ q[2] <= Len(t) /\ q[1] <= Len(t)
           /\ t[q[1]] \notin Bar
<1> DEFINE f == 1
           n == Len(t)
<1>1. f \in Nat /\ n \in Nat
  OBVIOUS
<1>2. q \in Ranges(t, f, n, Bar)
  BY PiecesAreRanges
<1> HIDE DEF f, n
<1>3. /\ q \in TokenSet /\ q[1] \in Nat /\ q[2] \in Nat /\ q = <<q[1], q[2]>>
      /\ f <= q[1] /\ q[1] <= q[2] /\ q[2] <= n
      /\ t[q[1]] \notin Bar
  BY <1>1, <1>2, RangeFacts
<1>4. q[1] <= n
  BY <1>1, <1>3
<1> QED
  BY <1>3, <1>4 DEF f, n

\* The next piece: behind a cut at x and any number of bars, from a to b - 1.
NextPiece(t, x, a, b) ==
    /\ x \in Nat /\ a \in Nat /\ b \in Nat
    /\ 1 <= x /\ x <= a /\ a <= Len(t) /\ a < b /\ b <= Len(t) + 1
    /\ x = 1 \/ t[x - 1] \in Bar
    /\ \A k \in x..(a - 1) : t[k] \in Bar
    /\ \A k \in a..(b - 1) : t[k] \notin Bar
    /\ b = Len(t) + 1 \/ t[b] \in Bar

\* No other piece starts between a and b.
LEMMA OnlyPiece ==
    ASSUME NEW t, Len(t) \in Nat, NEW x, NEW a, NEW b, NextPiece(t, x, a, b),
           NEW q \in Pieces(t), a <= q[1], q[1] < b
    PROVE  q = <<a, b - 1>>
<1> DEFINE f == 1
           n == Len(t)
<1>1. /\ f \in Nat /\ n \in Nat /\ a \in Nat /\ b \in Nat /\ f <= a /\ a < b /\ b <= n + 1
      /\ a <= a /\ a..(a - 1) = {}
  BY DEF NextPiece
<1>2. \A k \in a..(a - 1) : t[k] \in Bar
  BY <1>1
<1>3. \A k \in a..(b - 1) : t[k] \notin Bar
  BY DEF NextPiece
<1>4. b = n + 1 \/ t[b] \in Bar
  BY DEF NextPiece
<1>5. q \in Ranges(t, f, n, Bar)
  BY PiecesAreRanges
<1> HIDE DEF f, n
<1> QED
  BY <1>1, <1>2, <1>3, <1>4, <1>5, OnlyRange

LEMMA PieceRead ==
    ASSUME NEW t, Len(t) \in Nat, NEW x, NEW a, NEW b, NextPiece(t, x, a, b)
    PROVE  /\ <<a, b - 1>> \in Pieces(t)
           /\ Before(Pieces(t), a) = Before(Pieces(t), x)
           /\ Before(Pieces(t), b) = Before(Pieces(t), a) \cup {<<a, b - 1>>}
           /\ t[b] \in Bar => Before(Pieces(t), b + 1) = Before(Pieces(t), b)
<1> DEFINE n == Len(t)
           p == <<a, b - 1>>
<1>0. /\ x \in Nat /\ a \in Nat /\ b \in Nat
      /\ 1 <= x /\ x <= a /\ a <= Len(t) /\ a < b /\ b <= Len(t) + 1
      /\ x = 1 \/ t[x - 1] \in Bar
      /\ \A k \in x..(a - 1) : t[k] \in Bar
      /\ \A k \in a..(b - 1) : t[k] \notin Bar
      /\ b = Len(t) + 1 \/ t[b] \in Bar
  BY DEF NextPiece
<1> USE <1>0
<1>1. n \in Nat
  OBVIOUS
<1>2. Pieces(t) = Ranges(t, 1, n, Bar)
  BY PiecesAreRanges
<1>3. /\ b - 1 \in Nat /\ a <= b - 1 /\ b - 1 <= n /\ 1 <= a /\ (b - 1) + 1 = b
      /\ (b - 1 = n \/ b # n + 1) /\ p[1] = a
  OBVIOUS
<1>4. a = 1 \/ t[a - 1] \in Bar
  <2>1. a = x \/ a - 1 \in x..(a - 1)
    OBVIOUS
  <2> QED
    BY <2>1
<1>5. b - 1 = n \/ t[(b - 1) + 1] \in Bar
  BY <1>3
<1> HIDE DEF n
<1>6. p \in Pieces(t)
  BY <1>1, <1>2, <1>3, <1>4, <1>5, RangeMade
<1> HIDE DEF p
<1>7. ASSUME NEW q \in Pieces(t) PROVE q[1] \in Nat /\ 1 <= q[1] /\ q[1] <= n
  BY PieceFacts DEF n
<1>8. ASSUME NEW q \in Pieces(t) PROVE t[q[1]] \notin Bar
  BY PieceFacts
<1>9. ASSUME NEW q \in Pieces(t), q[1] < a PROVE q[1] < x
  <2>1. q[1] \notin x..(a - 1)
    BY <1>8
  <2> QED
    BY <1>7, <1>9, <2>1
<1>10. ASSUME NEW q \in Pieces(t), q[1] < x PROVE q[1] < a
  BY <1>7, <1>10
<1>11. ASSUME NEW q \in Pieces(t), q[1] < b PROVE q[1] < a \/ q = p
  <2>1. CASE a <= q[1]
    <3>1. q = <<a, b - 1>>
      BY <1>11, <2>1, OnlyPiece
    <3> QED
      BY <3>1 DEF p
  <2> QED
    BY <1>7, <2>1
<1>12. ASSUME NEW q \in Pieces(t), q[1] < a PROVE q[1] < b
  BY <1>7, <1>12
<1>13. p[1] < b
  BY <1>3 DEF p
<1>14. ASSUME t[b] \in Bar, NEW q \in Pieces(t), q[1] < b + 1 PROVE q[1] < b
  <2>1. q[1] # b
    BY <1>8, <1>14
  <2> QED
    BY <1>7, <1>14, <2>1
<1>15. ASSUME NEW q \in Pieces(t), q[1] < b PROVE q[1] < b + 1
  BY <1>7, <1>15
<1>16. Before(Pieces(t), a) = Before(Pieces(t), x)
  BY <1>9, <1>10 DEF Before
<1>17. Before(Pieces(t), b) = Before(Pieces(t), a) \cup {p}
  BY <1>6, <1>11, <1>12, <1>13 DEF Before
<1>18. t[b] \in Bar => Before(Pieces(t), b + 1) = Before(Pieces(t), b)
  BY <1>14, <1>15 DEF Before
<1> QED
  BY <1>6, <1>16, <1>17, <1>18 DEF p

\* The pieces before a place come before the others.
LEMMA PiecesSplit ==
    ASSUME NEW t, Len(t) \in Nat, NEW y \in Nat
    PROVE  /\ Before(Pieces(t), y) \in SUBSET Pieces(t)
           /\ \A v \in Before(Pieces(t), y) : \A w \in Pieces(t) \ Before(Pieces(t), y) :
                 v[1] < w[1]
<1>1. \A v \in Pieces(t) : v[1] \in Nat
  BY PiecesAreFinite, StartsAreNumbers DEF IsRangeSet
<1>2. ASSUME NEW v \in Before(Pieces(t), y), NEW w \in Pieces(t) \ Before(Pieces(t), y)
      PROVE  v[1] < w[1]
  <2>1. v[1] < y /\ ~(w[1] < y) /\ v[1] \in Nat /\ w[1] \in Nat
    BY <1>1 DEF Before
  <2> QED
    BY <2>1
<1> QED
  BY <1>2 DEF Before

\* Nothing is collected at the start.
LEMMA CollectedNothing ==
    ASSUME NEW t
    PROVE  Collected(t, {}, <<>>)
<1>1. MaxStages \in Nat
  BY ParserAssumption
<1>2. Cardinality({}) = 0 /\ InOrder({}, MaxStages) = <<>>
  BY <1>1, InOrderEmpty
<1>3. Len(<<>>) = 0 /\ 1..0 = {}
  OBVIOUS
<1>4. Elements(<<>>) = {}
  BY <1>3 DEF Elements
<1> QED
  BY <1>2, <1>3, <1>4 DEF Collected

LEMMA AllInOrder ==
    ASSUME NEW D, IsRangeSet(D), Cardinality(D) <= MaxStages
    PROVE  /\ InOrder(D, MaxStages) \in
                 Seq({InOrder(D, MaxStages)[k] : k \in DOMAIN InOrder(D, MaxStages)})
           /\ Len(InOrder(D, MaxStages)) = Cardinality(D)
           /\ DOMAIN InOrder(D, MaxStages) = 1..Cardinality(D)
<1>1. MaxStages \in Nat
  BY ParserAssumption
<1>2. /\ Cardinality(D) \in Nat
      /\ Min({MaxStages, Cardinality(D)}) =
            IF Cardinality(D) < MaxStages THEN Cardinality(D) ELSE MaxStages
  BY <1>1, InOrderLength
<1>3. (IF Cardinality(D) < MaxStages THEN Cardinality(D) ELSE MaxStages) = Cardinality(D)
  BY <1>1, <1>2
<1>4. Min({MaxStages, Cardinality(D)}) = Cardinality(D)
  BY <1>2, <1>3, Zenon
<1> DEFINE R == InOrder(D, MaxStages)
           c == Cardinality(D)
<1>5. DOMAIN R = 1..c
  BY <1>1, <1>4, InOrderLength
<1>6. R = [k \in 1..c |-> R[k]]
  BY <1>4 DEF InOrder
<1> HIDE DEF R
<1>7. R \in Seq({R[k] : k \in DOMAIN R}) /\ Len(R) = c
  BY <1>2, <1>5, <1>6
<1> QED
  BY <1>5, <1>7 DEF R

LEMMA CollectedMore ==
    ASSUME NEW t, NEW D, IsRangeSet(D), NEW ss \in Seq(StageSet), Collected(t, D, ss),
           Len(ss) < MaxStages, NEW p \in TokenSet, \A q \in D : q[1] < p[1],
           NEW s \in StageSet, s = StageOf(t, p),
           \A o \in Operators(t, p) : HasTarget(t, p, o)
    PROVE  Collected(t, D \cup {p}, Append(ss, s))
<1> DEFINE N == Len(ss)
           ps == InOrder(D, MaxStages)
           E == D \cup {p}
<1>1. MaxStages \in Nat /\ N \in Nat /\ N < MaxStages
  BY ParserAssumption
<1>2. /\ Cardinality(D) = N /\ Elements(ps) = D
      /\ \A n \in 1..N : ss[n] = StageOf(t, ps[n])
      /\ \A q \in D : \A o \in Operators(t, q) : HasTarget(t, q, o)
  BY DEF Collected
<1>3. Cardinality(E) = N + 1 /\ InOrder(E, MaxStages) = Append(ps, p)
  BY <1>1, <1>2, InOrderAdd
<1>4. /\ ps \in Seq({ps[k] : k \in DOMAIN ps}) /\ Len(ps) = N
      /\ DOMAIN ps = 1..N
  <2>1. Cardinality(D) <= MaxStages
    BY <1>1, <1>2
  <2>2. /\ ps \in Seq({ps[k] : k \in DOMAIN ps}) /\ Len(ps) = Cardinality(D)
        /\ DOMAIN ps = 1..Cardinality(D)
    BY <2>1, AllInOrder
  <2> QED
    BY <1>2, <2>2
<1> DEFINE X == {ps[k] : k \in DOMAIN ps} \cup {p}
<1>5. ps \in Seq(X) /\ p \in X
  BY <1>4
<1> HIDE DEF ps, X, E, N
<1>6. Elements(Append(ps, p)) = E
  BY <1>2, <1>5, AppendElements DEF E
<1>7. Append(ps, p)[N + 1] = p /\ \A n \in 1..N : Append(ps, p)[n] = ps[n]
  BY <1>1, <1>4, <1>5
<1>8. /\ Len(Append(ss, s)) = N + 1 /\ Append(ss, s)[N + 1] = s
      /\ \A n \in 1..N : Append(ss, s)[n] = ss[n]
  BY DEF N
<1>9. 1..(N + 1) = 1..N \cup {N + 1}
  BY <1>1
<1>10. \A n \in 1..(N + 1) : Append(ss, s)[n] = StageOf(t, Append(ps, p)[n])
  BY <1>2, <1>7, <1>8, <1>9
<1>11. \A q \in E : \A o \in Operators(t, q) : HasTarget(t, q, o)
  BY <1>2 DEF E
<1> QED
  BY <1>3, <1>6, <1>8, <1>10, <1>11 DEF Collected, E

\* When no piece is left, or all stages are used, the stages are those of the
\* text.
LEMMA CollectedAll ==
    ASSUME NEW t, Len(t) \in Nat, NEW y \in Nat, NEW ss \in Seq(StageSet),
           Collected(t, Before(Pieces(t), y), ss), Len(ss) <= MaxStages,
           Before(Pieces(t), y) = Pieces(t) \/ Len(ss) = MaxStages
    PROVE  ss = StagesOf(t) /\ WellFormed(t)
<1> DEFINE D == Before(Pieces(t), y)
           N == Len(ss)
           ps == InOrder(D, MaxStages)
<1>1. MaxStages \in Nat /\ N \in Nat /\ N <= MaxStages
  BY ParserAssumption
<1>2. /\ Cardinality(D) = N /\ Elements(ps) = D
      /\ \A n \in 1..N : ss[n] = StageOf(t, ps[n])
      /\ \A q \in D : \A o \in Operators(t, q) : HasTarget(t, q, o)
  BY DEF Collected
<1>3. IsRangeSet(D) /\ IsRangeSet(Pieces(t))
  BY PiecesAreFinite
<1>4. InOrder(Pieces(t), MaxStages) = ps
  <2>1. CASE D = Pieces(t)
    BY <2>1
  <2>2. CASE N = MaxStages
    <3>1. Cardinality(D) >= MaxStages
      BY <1>1, <1>2, <2>2
    <3>2. /\ D \in SUBSET Pieces(t)
          /\ \A v \in D : \A w \in Pieces(t) \ D : v[1] < w[1]
      BY PiecesSplit
    <3> HIDE DEF D
    <3> QED
      BY <1>1, <1>3, <3>1, <3>2, InOrderPrefix
  <2> QED
    BY <2>1, <2>2
<1>5. DOMAIN ps = 1..N
  <2>1. Cardinality(D) <= MaxStages
    BY <1>1, <1>2
  <2>2. DOMAIN ps = 1..Cardinality(D)
    BY <1>3, <2>1, AllInOrder
  <2> QED
    BY <1>2, <2>2
<1>6. StagesOf(t) = [n \in DOMAIN ps |-> StageOf(t, ps[n])]
  BY <1>4 DEF StagesOf
<1>7. DOMAIN ss = 1..N /\ ss = [n \in 1..N |-> ss[n]]
  OBVIOUS
<1> HIDE DEF ps, N, D
<1>8. ss = StagesOf(t)
  BY <1>2, <1>5, <1>6, <1>7
<1>9. ToSet(ps) = D
  <2>1. Len(ps) = N
    BY <1>1, <1>5
  <2> QED
    BY <1>2, <1>5, <2>1 DEF ToSet, Elements
<1>10. WellFormed(t)
  BY <1>2, <1>4, <1>9 DEF WellFormed, HasTarget
<1> QED
  BY <1>8, <1>10

\* A piece among those that count without a target makes the text ill-formed.
LEMMA IllFormed ==
    ASSUME NEW t, Len(t) \in Nat, NEW y \in Nat, NEW D, IsRangeSet(D), NEW p \in TokenSet,
           \A q \in D : q[1] < p[1],
           Before(Pieces(t), y) = D \cup {p}, Cardinality(D) < MaxStages,
           NEW o \in Operators(t, p), ~HasTarget(t, p, o)
    PROVE  ~WellFormed(t)
<1> DEFINE T == D \cup {p}
           P == Pieces(t)
           c == Cardinality(D)
           a == InOrder(T, MaxStages)
           b == InOrder(P, MaxStages)
<1>1. MaxStages \in Nat /\ c \in Nat
  BY ParserAssumption, FS_CardinalityType DEF IsRangeSet
<1>2. a = Append(InOrder(D, MaxStages), p)
  BY <1>1, InOrderAdd
<1>3. IsRangeSet(P) /\ T \in SUBSET P /\ \A v \in T : \A w \in P \ T : v[1] < w[1]
  BY PiecesAreFinite, PiecesSplit
<1>4. /\ InOrder(D, MaxStages) \in
            Seq({InOrder(D, MaxStages)[k] : k \in DOMAIN InOrder(D, MaxStages)})
      /\ Len(InOrder(D, MaxStages)) = c
  <2>1. Cardinality(D) <= MaxStages
    BY <1>1
  <2> QED
    BY <2>1, AllInOrder
<1>5. Len(a) = c + 1 /\ a[c + 1] = p
  <2> DEFINE d == InOrder(D, MaxStages)
             X == {d[k] : k \in DOMAIN d} \cup {p}
  <2>1. d \in Seq(X) /\ p \in X /\ Len(d) = c
    BY <1>4
  <2> HIDE DEF d, X
  <2>2. Len(Append(d, p)) = c + 1 /\ Append(d, p)[c + 1] = p
    BY <1>1, <2>1
  <2> QED
    BY <1>2, <2>2 DEF d
<1>6. Len(a) <= Len(b) /\ \A k \in 1..Len(a) : b[k] = a[k]
  <2> HIDE DEF T, P
  <2> QED
    BY <1>1, <1>3, InOrderPrefix
<1>7. Len(b) \in Nat /\ DOMAIN b = 1..Len(b)
  <2>1. /\ DOMAIN b = 1..Min({MaxStages, Cardinality(P)})
        /\ Len(b) = Min({MaxStages, Cardinality(P)}) /\ Cardinality(P) \in Nat
        /\ Min({MaxStages, Cardinality(P)}) =
              IF Cardinality(P) < MaxStages THEN Cardinality(P) ELSE MaxStages
    BY <1>1, <1>3, InOrderLength
  <2> QED
    BY <1>1, <2>1
<1> HIDE DEF a, b, c
<1>8. c + 1 \in 1..Len(a) /\ c + 1 \in 1..Len(b)
  BY <1>1, <1>5, <1>6, <1>7
<1>9. p \in ToSet(b)
  BY <1>5, <1>6, <1>7, <1>8 DEF ToSet
<1> QED
  BY <1>9 DEF WellFormed, HasTarget, b

------------------------------------------------------------------------------
(* The parser reads the text as it is written *)

\* Before its first turn parse_stage has read nothing of the piece.
LEMMA ReadNothing ==
    ASSUME NEW t, NEW f \in Nat, NEW e \in Nat
    PROVE  ReadUpTo(t, <<f, e>>, f, EmptyStage)
<1> DEFINE p == <<f, e>>
<1>1. p[1] = f /\ p[2] = e
  OBVIOUS
<1>2. \A w \in Words(t, p) : w[1] \in Nat /\ f <= w[1]
  BY WordFacts
<1> HIDE DEF p
<1>3. \A w \in Words(t, p) : ~(w[1] < f)
  BY <1>2
<1>4. /\ Before(Arguments(t, p), f) = {}
      /\ \A kind : Before(Targets(t, p, kind), f) = {}
  BY <1>3 DEF Before, Arguments, Targets
<1>5. \A o \in Operators(t, p) : o \in f..e
  BY <1>1 DEF Operators
<1>6. \A o \in Operators(t, p) : ~(o < f)
  BY <1>5
<1>7. ServedBefore(t, p, f)
  BY <1>6 DEF ServedBefore
<1>8. Boundary(t, p, f)
  BY <1>1 DEF Boundary
<1>9. MaxArgs - 1 \in Nat
  BY ParserAssumption
<1>10. InOrder({}, MaxArgs - 1) = <<>> /\ LastIn({}) = <<>>
  BY <1>9, InOrderEmpty DEF LastIn
<1>11. /\ EmptyStage.argv = <<>> /\ EmptyStage.input_file = <<>>
       /\ EmptyStage.output_file = <<>> /\ EmptyStage.error_file = <<>>
  BY DEF EmptyStage, NoFile
<1>12. ReadUpTo(t, p, f, EmptyStage)
  BY <1>4, <1>7, <1>8, <1>10, <1>11 DEF ReadUpTo
<1> QED
  BY <1>12 DEF p

LEMMA NothingBeforeFirst ==
    ASSUME NEW t, Len(t) \in Nat
    PROVE  Before(Pieces(t), 1) = {}
<1>1. ASSUME NEW q \in Pieces(t) PROVE ~(q[1] < 1)
  <2>1. q[1] \in Nat /\ 1 <= q[1]
    BY PieceFacts
  <2> QED
    BY <2>1
<1> QED
  BY <1>1 DEF Before

\* When only bars are left there is no piece left.
LEMMA NoPieceLeft ==
    ASSUME NEW t, Len(t) \in Nat, NEW x \in Nat, \A k \in x..Len(t) : t[k] \in Bar
    PROVE  Before(Pieces(t), x) = Pieces(t)
<1>1. ASSUME NEW q \in Pieces(t) PROVE q[1] < x
  <2>1. q[1] \in Nat /\ q[1] <= Len(t)
    BY PieceFacts
  <2>2. t[q[1]] \notin Bar
    BY PieceFacts
  <2>3. q[1] \notin x..Len(t)
    BY <2>2
  <2> QED
    BY <2>1, <2>3
<1> QED
  BY <1>1 DEF Before

LEMMA ScanStarts ==
    ASSUME ParserTypes', ppc' = "split", save_pipe' = 1, stages' = <<>>
    PROVE  SplitScan'
<1>1. Len(buffer') \in Nat
  BY DEF ParserTypes
<1> DEFINE t == buffer'
<1>2. Len(t) \in Nat
  BY <1>1
<1> HIDE DEF t
<1>3. Before(Pieces(t), 1) = {} /\ Collected(t, {}, <<>>)
  BY <1>2, NothingBeforeFirst, CollectedNothing
<1> QED
  BY <1>3 DEF t, SplitScan

\* strtok_r finds the next piece.
LEMMA ScanPiece ==
    ASSUME ParserTypes, NextStage, SplitScan, PieceFirst <= Len(buffer)
    PROVE  /\ <<PieceFirst, PieceStop - 1>> \in Pieces(buffer)
           /\ Before(Pieces(buffer), PieceFirst) = Before(Pieces(buffer), save_pipe)
           /\ Before(Pieces(buffer), save_pipe') =
                 Before(Pieces(buffer), PieceFirst) \cup {<<PieceFirst, PieceStop - 1>>}
<1> DEFINE t == buffer
           x == save_pipe
           a == PieceFirst
           b == PieceStop
           y == save_pipe'
<1>1. /\ Len(t) \in Nat /\ x \in Nat /\ 1 <= x /\ a \in Nat /\ x <= a /\ a <= Len(t)
      /\ b \in Nat /\ a < b /\ b <= Len(t) + 1
  BY PieceSeen
<1>2. \A k \in x..(a - 1) : t[k] \in Bar
  BY PieceSeen DEF Bar
<1>3. \A k \in a..(b - 1) : t[k] \notin Bar
  BY PieceSeen DEF Bar
<1>4. b = Len(t) + 1 \/ t[b] \in Bar
  BY PieceSeen DEF Bar
<1>5. x # Len(t) + 1
  BY <1>1
<1>6. x = 1 \/ t[x - 1] \in Bar
  BY <1>5 DEF SplitScan, Bar
<1>7. y = b \/ (y = b + 1 /\ t[b] \in Bar)
  <2>1. \/ save_pipe' = Len(buffer) + 1 /\ PieceStop = Len(buffer) + 1
        \/ save_pipe' = PieceStop + 1 /\ buffer[PieceStop] = "|"
    BY StageFound
  <2> QED
    BY <2>1 DEF Bar
<1> HIDE DEF t, x, a, b, y
<1>8. /\ <<a, b - 1>> \in Pieces(t)
      /\ Before(Pieces(t), a) = Before(Pieces(t), x)
      /\ Before(Pieces(t), b) = Before(Pieces(t), a) \cup {<<a, b - 1>>}
      /\ t[b] \in Bar => Before(Pieces(t), b + 1) = Before(Pieces(t), b)
  <2>1. NextPiece(t, x, a, b)
    BY <1>1, <1>2, <1>3, <1>4, <1>6 DEF NextPiece
  <2> QED
    BY <1>1, <2>1, PieceRead
<1>9. Before(Pieces(t), y) = Before(Pieces(t), a) \cup {<<a, b - 1>>}
  BY <1>7, <1>8
<1> QED
  BY <1>8, <1>9 DEF t, x, a, b, y

LEMMA ScanNextStage ==
    ASSUME ParserTypes, ParserTypes', NextStage, SplitScan
    PROVE  /\ ppc' = "stage" => \E f \in 1..Len(buffer') : StageScan(f)'
           /\ ppc' = "parsed" => stages' = StagesOf(buffer') /\ WellFormed(buffer')
           /\ ppc' \in {"stage", "parsed"}
<1>1. /\ Len(buffer) \in Nat /\ save_pipe \in Nat /\ PieceFirst \in Nat /\ save_pipe >= 1
      /\ save_pipe <= PieceFirst /\ PieceFirst <= Len(buffer) + 1
      /\ PieceStop \in Nat /\ PieceFirst <= PieceStop
  BY PieceSeen
<1>2. /\ buffer' = buffer /\ stages' = stages
      /\ \/ save_pipe' = Len(buffer) + 1
         \/ save_pipe' = PieceStop + 1 /\ buffer[PieceStop] = "|"
  <2>1. \/ save_pipe' = Len(buffer) + 1 /\ PieceStop = Len(buffer) + 1
        \/ save_pipe' = PieceStop + 1 /\ buffer[PieceStop] = "|"
    BY StageFound
  <2>2. buffer' = buffer /\ stages' = stages
    BY DEF NextStage
  <2> QED
    BY <2>1, <2>2
<1>3. CASE /\ PieceFirst <= Len(buffer) /\ Len(stages) < MaxStages
           /\ cursor' = PieceFirst /\ stage_end' = PieceStop
           /\ stage' = EmptyStage /\ ppc' = "stage"
  <2>0. PICK f \in 1..Len(buffer) : f = PieceFirst
    BY <1>1, <1>3
  <2> DEFINE e == PieceStop - 1
  <2>1. f \in Nat /\ f <= f
    BY <1>1, <1>3
  <2>2. e \in Nat
    <3>1. PieceFirst < PieceStop
      BY <1>3, PieceSeen
    <3> QED
      BY <1>1, <3>1
  <2>3. /\ <<f, e>> \in Pieces(buffer)
        /\ Before(Pieces(buffer), f) = Before(Pieces(buffer), save_pipe)
        /\ Before(Pieces(buffer), save_pipe') = Before(Pieces(buffer), f) \cup {<<f, e>>}
    BY <1>3, <2>0, ScanPiece
  <2>4. save_pipe' = Len(buffer) + 1 \/ buffer[save_pipe' - 1] = "|"
    BY <1>1, <1>2
  <2>5. Collected(buffer, Before(Pieces(buffer), f), stages)
    BY <2>3 DEF SplitScan
  <2> HIDE DEF e
  <2>6. ReadUpTo(buffer, <<f, e>>, f, EmptyStage)
    BY <2>1, <2>2, ReadNothing
  <2>7. cursor' = f /\ stage_end' - 1 = e
    BY <1>3, <2>0 DEF e
  <2>8. StageScan(f)'
    BY <1>2, <1>3, <2>1, <2>3, <2>4, <2>5, <2>6, <2>7 DEF StageScan
  <2> QED
    BY <1>2, <1>3, <2>8
<1>4. CASE (PieceFirst > Len(buffer) \/ Len(stages) = MaxStages) /\ ppc' = "parsed"
  <2>1. Collected(buffer, Before(Pieces(buffer), save_pipe), stages)
    BY DEF SplitScan
  <2>2. stages \in Seq(StageSet) /\ Len(stages) <= MaxStages
    BY DEF ParserTypes
  <2>3. Before(Pieces(buffer), save_pipe) = Pieces(buffer) \/ Len(stages) = MaxStages
    <3>1. CASE PieceFirst > Len(buffer)
      <4>1. PieceFirst - 1 = Len(buffer)
        BY <1>1, <3>1
      <4>2. \A k \in save_pipe..(PieceFirst - 1) : buffer[k] \in Bar
        BY PieceSeen DEF Bar
      <4> QED
        BY <1>1, <4>1, <4>2, NoPieceLeft
    <3> QED
      BY <1>4, <3>1
  <2>4. stages = StagesOf(buffer) /\ WellFormed(buffer)
    BY <1>1, <2>1, <2>2, <2>3, CollectedAll
  <2> QED
    BY <1>2, <1>4, <2>4
<1> QED
  BY <1>3, <1>4, StageFound

LEMMA ScanItem ==
    ASSUME ParserTypes, ParserTypes', ParseItem, NEW f \in 1..Len(buffer), StageScan(f)
    PROVE  StageScan(f)' /\ buffer' = buffer /\ ppc' = "stage"
<1>1. /\ ppc = "stage" /\ At < stage_end /\ TokenAt(From) /\ cursor' = Stop
      /\ UNCHANGED <<buffer, save_pipe, stage_end, stages, ppc>>
  BY ItemParsed
<1>2. f \in Nat /\ f <= cursor /\ Len(buffer) \in Nat
  BY Positions DEF StageScan
<1>3. ReadUpTo(buffer, <<f, stage_end - 1>>, cursor', stage')
  BY <1>2, ReadItem DEF StageScan
<1>4. f <= cursor'
  <2>1. cursor \in Nat /\ At \in Nat /\ cursor <= At
    BY Positions, ItemSeen
  <2>2. From \in Nat /\ At <= From
    BY <1>1, ItemSeen
  <2>3. First \in Nat /\ From <= First /\ Stop \in Nat /\ First < Stop
    BY <1>1, TokenSeen
  <2> QED
    BY <1>1, <1>2, <2>1, <2>2, <2>3
<1> QED
  BY <1>1, <1>3, <1>4 DEF StageScan

\* The pieces before f start before f.
LEMMA EarlierPieces ==
    ASSUME NEW t, Len(t) \in Nat, NEW f
    PROVE  /\ IsRangeSet(Before(Pieces(t), f))
           /\ \A q \in Before(Pieces(t), f) : q[1] < f
  BY PiecesAreFinite DEF Before

LEMMA ScanDone ==
    ASSUME ParserTypes, ParserTypes', StageDone, NEW f \in 1..Len(buffer), StageScan(f)
    PROVE  SplitScan' /\ ppc' = "split"
<1> DEFINE p == <<f, stage_end - 1>>
           D == Before(Pieces(buffer), f)
<1>1. /\ ppc = "stage" /\ At = stage_end /\ stages' = Append(stages, stage) /\ ppc' = "split"
      /\ UNCHANGED <<buffer, save_pipe>>
  BY DEF StageDone, At
<1>2. /\ f <= cursor /\ p \in Pieces(buffer)
      /\ save_pipe = Len(buffer) + 1 \/ buffer[save_pipe - 1] = "|"
      /\ Before(Pieces(buffer), save_pipe) = D \cup {p}
      /\ Collected(buffer, D, stages)
      /\ ReadUpTo(buffer, p, cursor, stage)
  BY DEF StageScan
<1>3. Len(buffer) \in Nat /\ f \in Nat /\ f >= 1 /\ stage_end \in Nat
  BY Positions
<1>4. p \in TokenSet /\ p[1] = f /\ f < stage_end
  <2>1. p \in TokenSet /\ p[1] <= p[2]
    BY <1>2, <1>3, PieceFacts
  <2>2. p[1] = f /\ p[2] = stage_end - 1
    OBVIOUS
  <2> QED
    BY <1>3, <2>1, <2>2
<1>5. /\ stage = StageOf(buffer, p)
      /\ \A o \in Operators(buffer, p) : HasTarget(buffer, p, o)
  BY <1>1, <1>2, <1>3, <1>4, ReadAll
<1>6. IsRangeSet(D) /\ \A q \in D : q[1] < p[1]
  BY <1>3, <1>4, EarlierPieces
<1>7. stages \in Seq(StageSet) /\ stage \in StageSet /\ Len(stages) < MaxStages
  BY <1>1 DEF ParserTypes
<1> HIDE DEF p, D
<1>8. Collected(buffer, D \cup {p}, Append(stages, stage))
  BY <1>2, <1>4, <1>5, <1>6, <1>7, CollectedMore
<1> QED
  BY <1>1, <1>2, <1>8 DEF SplitScan

LEMMA ScanFails ==
    ASSUME ParserTypes, StageFails, NEW f \in 1..Len(buffer), StageScan(f)
    PROVE  /\ buffer' = buffer /\ ppc' \in {"no_memory", "refused"}
           /\ ppc' = "refused" => ~WellFormed(buffer)
<1> DEFINE p == <<f, stage_end - 1>>
           D == Before(Pieces(buffer), f)
<1>1. /\ ppc = "stage" /\ At < stage_end /\ buffer' = buffer
      /\ ppc' \in {"no_memory", "refused"} /\ (ppc' = "refused" => ~TokenAt(From))
  BY DEF StageFails, parser_destroy, At, From, Item
<1>2. /\ f <= cursor /\ p \in Pieces(buffer)
      /\ Before(Pieces(buffer), save_pipe) = D \cup {p}
      /\ Collected(buffer, D, stages)
  BY DEF StageScan
<1>3. Len(buffer) \in Nat /\ f \in Nat /\ save_pipe \in Nat
  BY PieceSeen
<1>4. p \in TokenSet /\ p[1] = f
  BY <1>2, <1>3, PieceFacts
<1>5. IsRangeSet(D) /\ \A q \in D : q[1] < p[1]
  BY <1>3, <1>4, EarlierPieces
<1>6. Cardinality(D) < MaxStages
  BY <1>1, <1>2 DEF ParserTypes, Collected
<1>7. ASSUME ~TokenAt(From) PROVE ~WellFormed(buffer)
  <2>1. PICK o \in Operators(buffer, p) : ~HasTarget(buffer, p, o)
    BY <1>1, <1>2, <1>3, <1>7, NoTarget
  <2> HIDE DEF p, D
  <2> QED
    BY <1>2, <1>3, <1>4, <1>5, <1>6, <2>1, IllFormed
<1> QED
  BY <1>1, <1>7

LEMMA ScanInit == ParserInit => ScanInv
<1> SUFFICES ASSUME ParserInit PROVE ScanInv
  OBVIOUS
<1>1. ppc = "start"
  BY DEF ParserInit
<1> QED
  BY <1>1, TypesInit DEF ScanInv

LEMMA ScanKept == ScanInv /\ ParserTypes' /\ ParserStep => ScanInv'
<1> SUFFICES ASSUME ScanInv, ParserTypes', ParserStep PROVE ScanInv'
  OBVIOUS
<1>1. /\ ParserTypes
      /\ ppc = "split" => SplitScan
      /\ ppc = "stage" => \E f \in 1..Len(buffer) : StageScan(f)
  BY DEF ScanInv
<1>2. CASE ppc = "start" /\ \E input \in Inputs : parser_parse(input)
  <2>1. stages' = <<>> /\ (ppc' = "no_memory" \/ (ppc' = "split" /\ save_pipe' = 1))
    BY <1>1, <1>2 DEF parser_parse, ParserTypes
  <2>2. ppc' = "split" => SplitScan'
    BY <2>1, ScanStarts
  <2> QED
    BY <2>1, <2>2 DEF ScanInv
<1>3. CASE NextStage
  <2>1. SplitScan
    BY <1>1, <1>3 DEF NextStage
  <2> QED
    BY <1>1, <1>3, <2>1, ScanNextStage DEF ScanInv
<1>4. CASE ParseItem
  <2>1. PICK f \in 1..Len(buffer) : StageScan(f)
    BY <1>1, <1>4 DEF ParseItem
  <2>2. StageScan(f)' /\ buffer' = buffer /\ ppc' = "stage"
    BY <1>1, <1>4, <2>1, ScanItem
  <2> QED
    BY <2>2 DEF ScanInv
<1>5. CASE StageDone
  <2>1. PICK f \in 1..Len(buffer) : StageScan(f)
    BY <1>1, <1>5 DEF StageDone
  <2>2. SplitScan' /\ ppc' = "split"
    BY <1>1, <1>5, <2>1, ScanDone
  <2> QED
    BY <2>2 DEF ScanInv
<1>6. CASE StageFails
  <2>1. PICK f \in 1..Len(buffer) : StageScan(f)
    BY <1>1, <1>6 DEF StageFails
  <2>2. /\ buffer' = buffer /\ ppc' \in {"no_memory", "refused"}
        /\ ppc' = "refused" => ~WellFormed(buffer)
    BY <1>1, <1>6, <2>1, ScanFails
  <2> QED
    BY <2>2 DEF ScanInv
<1> QED
  BY <1>2, <1>3, <1>4, <1>5, <1>6 DEF ParserStep

LEMMA ScanIsInvariant == ScanInv /\ ParserTypes' /\ [CmdNext]_cmdVars => ScanInv'
<1> SUFFICES ASSUME ScanInv, ParserTypes', [CmdNext]_cmdVars PROVE ScanInv'
  OBVIOUS
<1>1. CASE ParserStep
  BY <1>1, ScanKept
<1>2. CASE Execute \/ Destroy
  <2>1. ppc' \in {"executing", "destroyed"}
    BY <1>2 DEF Execute, Destroy, parser_destroy
  <2> QED
    BY <2>1 DEF ScanInv
<1>3. CASE UNCHANGED parserVars
  <2>1. ScanInv' <=> ScanInv
    BY <1>3 DEF ScanInv, SplitScan, StageScan, parserVars, ParserTypes
  <2> QED
    BY <2>1
<1> QED
  BY <1>1, <1>2, <1>3 DEF CmdNext, cmdVars, Parse, RunnerExec, ChildRuns

\* What parser_parse delivers is the declarative reading of the text, and it
\* refuses a text only when one of the stages that count has an operator
\* without a target: for every text, and whatever the limits on the stages,
\* the arguments and the buffer are.
THEOREM ParsesAsWrittenTheorem == CmdSpec => []ParsesAsWritten
<1>1. CmdInit => ScanInv
  BY ScanInit DEF CmdInit
<1>2. ScanInv => ParsesAsWritten
  BY DEF ScanInv, ParsesAsWritten
<1> QED
  BY <1>1, <1>2, ScanIsInvariant, TypesAreInvariant, PTL DEF CmdSpec
==============================================================================
