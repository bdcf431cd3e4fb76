----------------------------- MODULE QueueProofs -----------------------------
(***************************************************************************)
(* Theorems about the linked list of scheduler.c: it stays well formed,    *)
(* and every call has the effect and the result of the same call on a      *)
(* sequence, for any amount of memory and any sequence of calls.           *)
(***************************************************************************)
EXTENDS JobQueue, FiniteSetTheorems, WellFoundedInduction, SequenceTheorems, TLAPS

\* A non-empty set of natural numbers has a least element.
LEMMA LeastNumber ==
    ASSUME NEW T \in SUBSET Nat, T # {}
    PROVE  Min(T) \in T /\ \A y \in T : Min(T) <= y
<1> DEFINE R == OpToRel(<, Nat)
<1>1. PICK x \in T : \A y \in T : ~(<<y, x>> \in R)
  BY NatLessThanWellFounded, WFMin, Zenon
<1>2. ASSUME NEW y \in T PROVE x <= y
  <2>1. ~(<<y, x>> \in R)
    BY <1>1
  <2> QED
    BY <2>1 DEF OpToRel
<1> QED
  BY <1>2 DEF Min

------------------------------------------------------------------------------
(* Walking the list *)

(***************************************************************************)
(* Linked(c, h, hp): the walk from h through the memory hp meets exactly   *)
(* the addresses of c, in this order, and they are all the memory there    *)
(* is.  The proofs keep such a c as a witness, because a step changes c in *)
(* one place and the walk everywhere.                                      *)
(***************************************************************************)
Linked(c, h, hp) ==
    /\ c \in Seq(Addr)
    /\ \A i, j \in 1..Len(c) : c[i] = c[j] => i = j
    /\ DOMAIN hp = {c[i] : i \in 1..Len(c)}
    /\ hp \in [DOMAIN hp -> [job : JobSet, next : Addr \cup {NULL}]]
    /\ h = IF Len(c) = 0 THEN NULL ELSE c[1]
    /\ \A i \in 1..Len(c) : hp[c[i]].next = IF i = Len(c) THEN NULL ELSE c[i + 1]

\* One step of the walk of Chain, and the walk, as functions of head and heap.
Onward(at, n, h, hp) ==
    IF n = 1 THEN h
    ELSE IF at[n - 1] \in DOMAIN hp THEN hp[at[n - 1]].next ELSE NULL

IsWalk(at, h, hp) == at = [n \in 1..Cardinality(Addr) |-> Onward(at, n, h, hp)]

Walk(h, hp) == CHOOSE at : IsWalk(at, h, hp)

Steps(h, hp) == Cardinality({n \in DOMAIN Walk(h, hp) : Walk(h, hp)[n] \in DOMAIN hp})

LEMMA ChainIsWalk == Chain = [i \in 1..Steps(head, heap) |-> Walk(head, heap)[i]]
  BY DEF Chain, Walk, IsWalk, Onward, Steps

LEMMA ChainIsWalkPrimed ==
    Chain' = [i \in 1..Steps(head', heap') |-> Walk(head', heap')[i]]
  BY DEF Chain, Walk, IsWalk, Onward, Steps

\* The walk ends before memory does, and meets the addresses of c.
LEMMA WalkMeets ==
    ASSUME NEW c, NEW h, NEW hp, Linked(c, h, hp)
    PROVE  c = [i \in 1..Steps(h, hp) |-> Walk(h, hp)[i]]
<1> DEFINE N == Cardinality(Addr)
           f == [n \in 1..N |-> IF n <= Len(c) THEN c[n] ELSE NULL]
<1>1. N \in Nat /\ NULL \notin Addr /\ IsFiniteSet(Addr)
  BY AddrAssumption, FS_CardinalityType
<1>2. c \in Seq(Addr) /\ Len(c) \in Nat /\ c = [i \in 1..Len(c) |-> c[i]]
      /\ \A i \in 1..Len(c) : c[i] \in Addr
  BY DEF Linked
<1>3. Len(c) <= N /\ Cardinality(1..Len(c)) = Len(c)
  <2>1. c \in Injection(1..Len(c), Addr)
    BY <1>2 DEF Linked, Injection, IsInjective
  <2>2. Cardinality(1..Len(c)) <= N
    BY <1>1, <2>1, FS_Injection
  <2>3. 1 \in Int /\ Len(c) \in Int
    BY <1>2
  <2>4. Cardinality(1..Len(c)) = IF 1 > Len(c) THEN 0 ELSE Len(c) - 1 + 1
    BY <2>3, FS_Interval, Zenon
  <2> QED
    BY <1>2, <2>2, <2>4
<1> HIDE DEF N
<1>4. \A n \in 1..N : f[n] \in DOMAIN hp <=> n \in 1..Len(c)
  BY <1>1, <1>2 DEF Linked
<1>5. \A n \in 1..N : f[n] = Onward(f, n, h, hp)
  <2> SUFFICES ASSUME NEW n \in 1..N PROVE f[n] = Onward(f, n, h, hp)
    OBVIOUS
  <2>1. CASE n = 1
    BY <1>2, <2>1 DEF Onward, Linked
  <2>2. CASE n # 1 /\ n - 1 <= Len(c)
    <3>1. n - 1 \in 1..N /\ n - 1 \in 1..Len(c) /\ f[n - 1] = c[n - 1] /\ (n - 1) + 1 = n
      BY <1>1, <2>2
    <3>2. hp[c[n - 1]].next = IF n - 1 = Len(c) THEN NULL ELSE c[n]
      BY <3>1 DEF Linked
    <3>3. Onward(f, n, h, hp) = hp[c[n - 1]].next
      BY <1>4, <2>2, <3>1 DEF Onward
    <3> QED
      BY <1>2, <2>2, <3>2, <3>3
  <2>3. CASE n # 1 /\ n - 1 > Len(c)
    <3>1. n - 1 \in 1..N /\ n - 1 \notin 1..Len(c) /\ f[n] = NULL
      BY <1>1, <1>2, <2>3
    <3> QED
      BY <1>4, <2>3, <3>1 DEF Onward
  <2> QED
    BY <1>1, <1>2, <2>1, <2>2, <2>3
<1>6. IsWalk(f, h, hp)
  BY <1>5 DEF IsWalk, N
<1>7. ASSUME NEW g, IsWalk(g, h, hp) PROVE g = f
  <2> DEFINE Bad == {n \in 1..N : g[n] # f[n]}
  <2>0. g = [n \in 1..N |-> Onward(g, n, h, hp)]
    BY <1>7 DEF IsWalk, N
  <2> SUFFICES ASSUME Bad # {} PROVE FALSE
    BY <2>0
  <2>1. Bad \in SUBSET Nat
    OBVIOUS
  <2>2. Min(Bad) \in Bad /\ \A y \in Bad : Min(Bad) <= y
    <3> HIDE DEF Bad
    <3> QED
      BY <2>1, LeastNumber
  <2>3. PICK n \in 1..N : n = Min(Bad) /\ g[n] # f[n]
    BY <2>2
  <2>4. n # 1 => n - 1 \in 1..N /\ g[n - 1] = f[n - 1]
    <3> SUFFICES ASSUME n # 1 PROVE n - 1 \in 1..N /\ g[n - 1] = f[n - 1]
      OBVIOUS
    <3>1. n - 1 \in 1..N /\ ~(n <= n - 1)
      BY <1>1
    <3>2. n - 1 \notin Bad
      BY <2>2, <2>3, <3>1
    <3> QED
      BY <3>1, <3>2
  <2>5. g[n] = Onward(g, n, h, hp) /\ f[n] = Onward(f, n, h, hp)
    BY <1>5, <2>0
  <2> HIDE DEF f, Bad
  <2> QED
    BY <2>3, <2>4, <2>5 DEF Onward
<1>8. Walk(h, hp) = f
  BY <1>6, <1>7 DEF Walk
<1>9. Steps(h, hp) = Len(c)
  <2>1. {n \in DOMAIN f : f[n] \in DOMAIN hp} = 1..Len(c)
    BY <1>1, <1>2, <1>3, <1>4
  <2> QED
    BY <1>3, <1>8, <2>1 DEF Steps
<1>10. \A i \in 1..Len(c) : f[i] = c[i]
  BY <1>1, <1>2, <1>3
<1> HIDE DEF f
<1> QED
  BY <1>2, <1>8, <1>9, <1>10

------------------------------------------------------------------------------
(* Linking and unlinking a node *)

LastOf(c) == IF Len(c) = 0 THEN NULL ELSE c[Len(c)]

Without(c, i) == [j \in 1..(Len(c) - 1) |-> c[IF j < i THEN j ELSE j + 1]]

\* The memory with a new node behind the last one.
Extended(c, a, job, hp) ==
    [b \in DOMAIN hp \cup {a} |->
        IF b = a THEN [job |-> job, next |-> NULL]
        ELSE IF b = LastOf(c) THEN [hp[b] EXCEPT !.next = a]
        ELSE hp[b]]

\* The last node, or head, points to the new one.
LEMMA LinkNode ==
    ASSUME NEW c, NEW h, NEW hp, NEW a \in Addr, NEW job \in JobSet, NEW h2, NEW hp2,
           Linked(c, h, hp), a \notin DOMAIN hp,
           hp2 = Extended(c, a, job, hp),
           h2 = IF LastOf(c) = NULL THEN a ELSE h
    PROVE  /\ Linked(Append(c, a), h2, hp2)
           /\ hp2[a].job = job
           /\ \A b \in DOMAIN hp : hp2[b].job = hp[b].job
<1> DEFINE d == Append(c, a)
<1>0. /\ NULL \notin Addr
      /\ hp2 = [b \in DOMAIN hp \cup {a} |->
                  IF b = a THEN [job |-> job, next |-> NULL]
                  ELSE IF b = LastOf(c) THEN [hp[b] EXCEPT !.next = a]
                  ELSE hp[b]]
  BY AddrAssumption DEF Extended
<1>1. /\ c \in Seq(Addr) /\ Len(c) \in Nat /\ DOMAIN c = 1..Len(c)
      /\ d \in Seq(Addr) /\ Len(d) = Len(c) + 1 /\ d[Len(c) + 1] = a
      /\ \A i \in 1..Len(c) : d[i] = c[i] /\ c[i] \in Addr
      /\ \A i \in 1..Len(d) : i \in 1..Len(c) \/ i = Len(c) + 1
  BY DEF Linked
<1>2. DOMAIN hp = {c[i] : i \in 1..Len(c)} /\ \A i \in 1..Len(c) : c[i] \in DOMAIN hp /\ c[i] # a
  BY DEF Linked
<1>3. \A b \in DOMAIN hp : hp[b] \in [job : JobSet, next : Addr \cup {NULL}]
  BY DEF Linked
<1> HIDE DEF d
<1>4. \A i, j \in 1..Len(d) : d[i] = d[j] => i = j
  BY <1>1, <1>2 DEF Linked
<1>5. DOMAIN hp2 = {d[i] : i \in 1..Len(d)}
  <2>1. Len(c) + 1 \in 1..Len(d) /\ \A i \in 1..Len(c) : i \in 1..Len(d)
    BY <1>1
  <2>2. \A b \in DOMAIN hp2 : \E i \in 1..Len(d) : b = d[i]
    BY <1>0, <1>1, <1>2, <2>1
  <2>3. \A i \in 1..Len(d) : d[i] \in DOMAIN hp2
    BY <1>0, <1>1, <1>2
  <2> QED
    BY <2>2, <2>3
<1>6. h2 = IF Len(d) = 0 THEN NULL ELSE d[1]
  <2>1. CASE Len(c) = 0
    BY <1>1, <2>1 DEF LastOf
  <2>2. CASE Len(c) # 0
    <3>1. 1 \in 1..Len(c) /\ Len(c) \in 1..Len(c)
      BY <1>1, <2>2
    <3>2. LastOf(c) # NULL /\ h = c[1]
      BY <1>0, <1>1, <2>2, <3>1 DEF LastOf, Linked
    <3> QED
      BY <1>1, <3>1, <3>2
  <2> QED
    BY <2>1, <2>2
<1>7. \A b \in DOMAIN hp :
         hp2[b] = IF b = LastOf(c) THEN [hp[b] EXCEPT !.next = a] ELSE hp[b]
  BY <1>0, <1>2
<1>8. hp2[a] = [job |-> job, next |-> NULL]
  BY <1>0
<1>9. \A b \in DOMAIN hp :
         /\ hp2[b] \in [job : JobSet, next : Addr \cup {NULL}]
         /\ hp2[b].job = hp[b].job
         /\ hp2[b].next = IF b = LastOf(c) THEN a ELSE hp[b].next
  BY <1>3, <1>7
<1>10. hp2 \in [DOMAIN hp2 -> [job : JobSet, next : Addr \cup {NULL}]]
  <2>1. \A b \in DOMAIN hp2 : hp2[b] \in [job : JobSet, next : Addr \cup {NULL}]
    BY <1>0, <1>8, <1>9
  <2> QED
    BY <1>0, <2>1
<1>11. ASSUME NEW i \in 1..Len(d)
       PROVE  hp2[d[i]].next = IF i = Len(d) THEN NULL ELSE d[i + 1]
  <2>0. Len(c) \in Nat /\ Len(d) = Len(c) + 1
    BY <1>1
  <2>1. CASE i = Len(c) + 1
    BY <1>1, <1>8, <2>1
  <2>2. CASE i = Len(c)
    <3>1. i \in 1..Len(c) /\ i # Len(d) /\ i + 1 = Len(c) + 1
      BY <2>0, <2>2
    <3>2. c[i] = LastOf(c)
      BY <2>2, <3>1 DEF LastOf
    <3>3. hp2[c[i]].next = a
      BY <1>2, <1>9, <3>1, <3>2
    <3>4. d[i] = c[i] /\ d[i + 1] = a
      BY <1>1, <3>1
    <3> QED
      BY <3>1, <3>3, <3>4
  <2>3. CASE i \in 1..Len(c) /\ i # Len(c)
    <3>1. Len(c) \in 1..Len(c) /\ i + 1 \in 1..Len(c) /\ i # Len(d)
      BY <2>0, <2>3
    <3>2. c[i] # LastOf(c)
      BY <2>3, <3>1 DEF LastOf, Linked
    <3>3. hp2[c[i]].next = hp[c[i]].next /\ hp[c[i]].next = c[i + 1]
      BY <1>2, <1>9, <2>3, <3>2 DEF Linked
    <3>4. d[i] = c[i] /\ d[i + 1] = c[i + 1]
      BY <1>1, <2>3, <3>1
    <3> QED
      BY <3>1, <3>3, <3>4
  <2>4. i = Len(c) + 1 \/ i = Len(c) \/ (i \in 1..Len(c) /\ i # Len(c))
    BY <2>0
  <2> QED
    BY <2>1, <2>2, <2>3, <2>4, Zenon
<1>12. Linked(d, h2, hp2)
  BY <1>1, <1>4, <1>5, <1>6, <1>10, <1>11 DEF Linked
<1> QED
  BY <1>8, <1>9, <1>12 DEF d

\* The memory without the node c[i], which its predecessor skips.
Spliced(c, i, hp) ==
    [b \in DOMAIN hp \ {c[i]} |->
        IF b = (IF i = 1 THEN NULL ELSE c[i - 1])
        THEN [hp[b] EXCEPT !.next = hp[c[i]].next] ELSE hp[b]]

\* The predecessor of a node, or head, takes over its next pointer.
LEMMA UnlinkNode ==
    ASSUME NEW c, NEW h, NEW hp, NEW i \in 1..Len(c), NEW h2, NEW hp2,
           Linked(c, h, hp),
           hp2 = Spliced(c, i, hp),
           h2 = IF i = 1 THEN hp[c[i]].next ELSE h
    PROVE  /\ Linked(Without(c, i), h2, hp2)
           /\ \A b \in DOMAIN hp2 : hp2[b].job = hp[b].job
<1> DEFINE d == Without(c, i)
           prev == IF i = 1 THEN NULL ELSE c[i - 1]
           old(j) == IF j < i THEN j ELSE j + 1
<1>0. /\ NULL \notin Addr
      /\ hp2 = [b \in DOMAIN hp \ {c[i]} |->
                  IF b = prev THEN [hp[b] EXCEPT !.next = hp[c[i]].next] ELSE hp[b]]
  BY AddrAssumption DEF Spliced
<1>1. /\ c \in Seq(Addr) /\ Len(c) \in Nat \ {0} /\ DOMAIN c = 1..Len(c)
      /\ \A j \in 1..Len(c) : c[j] \in Addr
  BY DEF Linked
<1>2. /\ \A j \in 1..(Len(c) - 1) : old(j) \in 1..Len(c) \ {i} /\ d[j] = c[old(j)]
      /\ d \in Seq(Addr) /\ Len(d) = Len(c) - 1
  <2>1. \A j \in 1..(Len(c) - 1) : old(j) \in 1..Len(c) \ {i}
    BY <1>1
  <2>2. d \in [1..(Len(c) - 1) -> Addr] /\ \A j \in 1..(Len(c) - 1) : d[j] = c[old(j)]
    BY <1>1, <2>1 DEF Without
  <2>3. Len(c) - 1 \in Nat
    BY <1>1
  <2> HIDE DEF d, old
  <2>4. d \in Seq(Addr)
    BY <2>2, <2>3
  <2>5. Len(d) = Len(c) - 1
    BY <2>2, <2>3, <2>4
  <2> QED
    BY <2>1, <2>2, <2>4, <2>5
<1>3. \A j \in 1..Len(c) \ {i} : \E k \in 1..(Len(c) - 1) : j = old(k)
  <2> SUFFICES ASSUME NEW j \in 1..Len(c) \ {i}
               PROVE  \E k \in 1..(Len(c) - 1) : j = old(k)
    OBVIOUS
  <2>1. CASE j < i
    <3>1. j \in 1..(Len(c) - 1) /\ j = old(j)
      BY <1>1, <2>1
    <3> QED
      BY <3>1
  <2>2. CASE j > i
    <3>1. j - 1 \in 1..(Len(c) - 1) /\ j = old(j - 1)
      BY <1>1, <2>2
    <3> QED
      BY <3>1
  <2> QED
    BY <1>1, <2>1, <2>2
<1>4. DOMAIN hp = {c[j] : j \in 1..Len(c)} /\ \A j \in 1..Len(c) : c[j] \in DOMAIN hp
  BY DEF Linked
<1>5. \A j, k \in 1..Len(c) : c[j] = c[k] => j = k
  BY DEF Linked
<1> HIDE DEF d
<1>6. \A j, k \in 1..Len(d) : d[j] = d[k] => j = k
  BY <1>1, <1>2, <1>5
<1>7. DOMAIN hp2 = {d[j] : j \in 1..Len(d)}
  <2>1. \A b \in DOMAIN hp2 : \E j \in 1..Len(d) : b = d[j]
    <3> SUFFICES ASSUME NEW b \in DOMAIN hp2 PROVE \E j \in 1..Len(d) : b = d[j]
      OBVIOUS
    <3>1. PICK j \in 1..Len(c) : b = c[j] /\ j # i
      BY <1>0, <1>4
    <3>2. PICK k \in 1..(Len(c) - 1) : j = old(k)
      BY <1>3, <3>1
    <3> QED
      BY <1>2, <3>1, <3>2
  <2>2. \A j \in 1..Len(d) : d[j] \in DOMAIN hp2
    <3> SUFFICES ASSUME NEW j \in 1..(Len(c) - 1) PROVE d[j] \in DOMAIN hp2
      BY <1>2
    <3>1. old(j) \in 1..Len(c) /\ old(j) # i /\ d[j] = c[old(j)]
      BY <1>2
    <3> HIDE DEF old
    <3>2. c[old(j)] # c[i] /\ c[old(j)] \in DOMAIN hp
      BY <1>4, <1>5, <3>1
    <3> QED
      BY <1>0, <3>1, <3>2
  <2> QED
    BY <2>1, <2>2
<1>8. \A b \in DOMAIN hp : hp[b] \in [job : JobSet, next : Addr \cup {NULL}]
  BY DEF Linked
<1>9. \A b \in DOMAIN hp2 :
         /\ b \in DOMAIN hp
         /\ hp2[b] \in [job : JobSet, next : Addr \cup {NULL}]
         /\ hp2[b].job = hp[b].job
         /\ hp2[b].next = IF b = prev THEN hp[c[i]].next ELSE hp[b].next
  <2>1. \A b \in DOMAIN hp2 :
           /\ b \in DOMAIN hp
           /\ hp2[b] = IF b = prev THEN [hp[b] EXCEPT !.next = hp[c[i]].next] ELSE hp[b]
    BY <1>0
  <2>2. hp[c[i]].next \in Addr \cup {NULL}
    BY <1>4, <1>8
  <2> QED
    BY <1>8, <2>1, <2>2
<1>10. hp2 \in [DOMAIN hp2 -> [job : JobSet, next : Addr \cup {NULL}]]
  <2>1. hp2 = [b \in DOMAIN hp2 |-> hp2[b]]
    BY <1>0
  <2> QED
    BY <1>9, <2>1
<1>11. hp[c[i]].next = IF i = Len(c) THEN NULL ELSE c[i + 1]
  BY DEF Linked
<1>12. h2 = IF Len(d) = 0 THEN NULL ELSE d[1]
  <2>1. h = c[1]
    BY <1>1 DEF Linked
  <2>2. CASE Len(c) = 1
    BY <1>2, <1>11, <2>2
  <2>3. CASE Len(c) # 1
    <3>1. 1 \in 1..(Len(c) - 1) /\ d[1] = c[old(1)] /\ Len(d) # 0
      BY <1>1, <1>2, <2>3
    <3>2. CASE i = 1
      BY <1>1, <1>11, <2>3, <3>1, <3>2
    <3>3. CASE i # 1
      <4>1. old(1) = 1
        BY <3>3
      <4> QED
        BY <2>1, <3>1, <3>3, <4>1
    <3> QED
      BY <3>2, <3>3
  <2> QED
    BY <2>2, <2>3
<1>13. ASSUME NEW j \in 1..Len(d)
       PROVE  hp2[d[j]].next = IF j = Len(d) THEN NULL ELSE d[j + 1]
  <2>0. /\ d[j] \in DOMAIN hp2 /\ d[j] = c[old(j)] /\ old(j) \in 1..Len(c)
        /\ j \in 1..(Len(c) - 1)
    BY <1>2, <1>7
  <2>1. hp[c[old(j)]].next = IF old(j) = Len(c) THEN NULL ELSE c[old(j) + 1]
    BY <2>0 DEF Linked
  <2>2. CASE i # 1 /\ j = i - 1
    <3>1. d[j] = prev
      BY <2>0, <2>2
    <3>2. hp2[d[j]].next = IF i = Len(c) THEN NULL ELSE c[i + 1]
      BY <1>9, <1>11, <2>0, <3>1
    <3>3. j # Len(d) => d[j + 1] = c[i + 1] /\ i # Len(c)
      <4> SUFFICES ASSUME j # Len(d) PROVE d[j + 1] = c[i + 1] /\ i # Len(c)
        OBVIOUS
      <4>1. Len(c) \in Nat /\ Len(d) = Len(c) - 1
        BY <1>1, <1>2
      <4>2. i \in 1..(Len(c) - 1) /\ j + 1 = i /\ old(i) = i + 1 /\ i # Len(c)
        BY <2>2, <4>1
      <4> QED
        BY <1>2, <4>2
    <3>4. j = Len(d) => i = Len(c)
      <4>1. Len(c) \in Nat /\ Len(d) = Len(c) - 1
        BY <1>1, <1>2
      <4>2. i \in 1..Len(c) /\ j = i - 1
        BY <2>2
      <4> QED
        BY <4>1, <4>2
    <3> QED
      BY <3>2, <3>3, <3>4
  <2>3. CASE i = 1 \/ j # i - 1
    <3>1. d[j] # prev
      <4>1. CASE i = 1
        BY <1>0, <1>1, <2>0, <4>1
      <4>2. CASE i # 1 /\ j # i - 1
        <5>1. i - 1 \in 1..Len(c) /\ old(j) # i - 1
          BY <1>1, <4>2
        <5> QED
          BY <1>5, <2>0, <4>2, <5>1
      <4> QED
        BY <2>3, <4>1, <4>2
    <3>2. hp2[d[j]].next = IF old(j) = Len(c) THEN NULL ELSE c[old(j) + 1]
      BY <1>9, <2>0, <2>1, <3>1
    <3>3. j # Len(d) => d[j + 1] = c[old(j) + 1] /\ old(j) # Len(c)
      <4> SUFFICES ASSUME j # Len(d) PROVE d[j + 1] = c[old(j) + 1] /\ old(j) # Len(c)
        OBVIOUS
      <4>1. Len(c) \in Nat /\ Len(d) = Len(c) - 1
        BY <1>1, <1>2
      <4>2. j + 1 \in 1..(Len(c) - 1)
        BY <4>1
      <4>3. d[j + 1] = c[old(j + 1)]
        BY <1>2, <4>2
      <4>4. old(j + 1) = old(j) + 1 /\ old(j) # Len(c)
        BY <2>3, <4>1, <4>2
      <4> QED
        BY <4>3, <4>4
    <3>4. j = Len(d) => old(j) = Len(c)
      <4> SUFFICES ASSUME j = Len(d) PROVE old(j) = Len(c)
        OBVIOUS
      <4>1. j = Len(c) - 1 /\ ~(j < i)
        BY <1>1, <1>2, <2>0, <2>3
      <4> QED
        BY <1>1, <4>1
    <3> QED
      BY <3>2, <3>3, <3>4
  <2> QED
    BY <2>2, <2>3
<1>14. Linked(d, h2, hp2)
  BY <1>2, <1>6, <1>7, <1>10, <1>12, <1>13 DEF Linked
<1> QED
  BY <1>9, <1>14 DEF d

------------------------------------------------------------------------------
(* The invariant *)

\* The queue is the list of the nodes c, and tail and size agree with it; a
\* queue that does not exist holds no memory.
Lists(c, al, h, t, s, hp) ==
    /\ Linked(c, h, hp)
    /\ t = LastOf(c)
    /\ s = Len(c)
    /\ ~al => Len(c) = 0

QueueInv == \E c : Lists(c, allocated, head, tail, size, heap)

JobsOf(c, hp) == [i \in 1..Len(c) |-> hp[c[i]].job]

\* What the operators that walk the list see.
LEMMA Seen ==
    ASSUME NEW c, Lists(c, allocated, head, tail, size, heap)
    PROVE  /\ Chain = c /\ DOMAIN Chain = 1..Len(c) /\ Len(c) \in Nat
           /\ Contents = JobsOf(c, heap)
           /\ Contents \in Seq(JobSet) /\ Len(Contents) = Len(c)
           /\ DOMAIN Contents = 1..Len(c)
           /\ Contents = <<>> <=> head = NULL
           /\ head = NULL <=> Len(c) = 0
           /\ \A i \in 1..Len(c) :
                 /\ Contents[i] = heap[c[i]].job
                 /\ EndsAt(i) <=> i = Len(c)
                 /\ IsTail(i) <=> i = Len(c)
<1>0. NULL \notin Addr
  BY AddrAssumption
<1>1. Linked(c, head, heap) /\ tail = LastOf(c)
  BY DEF Lists
<1>2. /\ c \in Seq(Addr) /\ Len(c) \in Nat /\ DOMAIN c = 1..Len(c)
      /\ \A i \in 1..Len(c) : c[i] \in Addr /\ c[i] \in DOMAIN heap
      /\ \A i, j \in 1..Len(c) : c[i] = c[j] => i = j
      /\ \A b \in DOMAIN heap : heap[b] \in [job : JobSet, next : Addr \cup {NULL}]
  BY <1>1 DEF Linked
<1>3. Chain = c
  BY <1>1, ChainIsWalk, WalkMeets
<1>4. Contents = JobsOf(c, heap)
  BY <1>2, <1>3 DEF Contents, JobsOf
<1>5. /\ Contents \in Seq(JobSet) /\ Len(Contents) = Len(c)
      /\ \A i \in 1..Len(c) : Contents[i] = heap[c[i]].job
  <2>1. /\ JobsOf(c, heap) \in [1..Len(c) -> JobSet]
        /\ \A i \in 1..Len(c) : JobsOf(c, heap)[i] = heap[c[i]].job
    BY <1>2 DEF JobsOf
  <2>2. JobsOf(c, heap) \in Seq(JobSet)
    BY <1>2, <2>1
  <2>3. Len(JobsOf(c, heap)) = Len(c)
    BY <1>2, <2>1, <2>2
  <2> QED
    BY <1>4, <2>1, <2>2, <2>3
<1>6. head = NULL <=> Len(c) = 0
  <2>1. head = IF Len(c) = 0 THEN NULL ELSE c[1]
    BY <1>1 DEF Linked
  <2>2. Len(c) # 0 => 1 \in 1..Len(c)
    <3>1. Len(c) \in Nat
      BY <1>2
    <3> QED
      BY <3>1
  <2> QED
    BY <1>0, <1>2, <2>1, <2>2
<1>7. ASSUME NEW i \in 1..Len(c)
      PROVE  (EndsAt(i) <=> i = Len(c)) /\ (IsTail(i) <=> i = Len(c))
  <2>1. heap[c[i]].next = IF i = Len(c) THEN NULL ELSE c[i + 1]
    BY <1>1 DEF Linked
  <2>2. i # Len(c) => i + 1 \in 1..Len(c)
    <3>1. Len(c) \in Nat
      BY <1>2
    <3> QED
      BY <3>1
  <2>3. EndsAt(i) <=> i = Len(c)
    BY <1>0, <1>2, <1>3, <2>1, <2>2 DEF EndsAt
  <2>4. Len(c) \in 1..Len(c) /\ tail = c[Len(c)]
    BY <1>1, <1>2 DEF LastOf
  <2>5. IsTail(i) <=> i = Len(c)
    BY <1>2, <1>3, <2>4 DEF IsTail
  <2> QED
    BY <2>3, <2>5
<1>8. DOMAIN Contents = 1..Len(c) /\ (Contents = <<>> <=> Len(c) = 0)
  BY <1>5
<1> QED
  BY <1>2, <1>3, <1>4, <1>5, <1>6, <1>7, <1>8

LEMMA SeenAfter ==
    ASSUME NEW c, Lists(c, allocated', head', tail', size', heap')
    PROVE  Contents' = JobsOf(c, heap') /\ QueueInv'
<1>1. Linked(c, head', heap')
  BY DEF Lists
<1>2. DOMAIN c = 1..Len(c)
  BY <1>1 DEF Linked
<1>3. Chain' = c
  BY <1>1, ChainIsWalkPrimed, WalkMeets
<1> QED
  BY <1>2, <1>3 DEF Contents, JobsOf, QueueInv

\* RemoveAt is the sequence without one place.
LEMMA RemoveAtIsWithout ==
    ASSUME NEW S, NEW q \in Seq(S), NEW i \in 1..Len(q)
    PROVE  RemoveAt(q, i) = Without(q, i) /\ RemoveAt(q, i) \in Seq(S)
<1> DEFINE a == SubSeq(q, 1, i - 1)
           b == SubSeq(q, i + 1, Len(q))
           r == a \o b
<1>0. Len(q) \in Nat /\ i \in Nat /\ i >= 1 /\ i <= Len(q)
  OBVIOUS
<1>1. a \in Seq(S) /\ Len(a) = i - 1 /\ \A j \in 1..(i - 1) : a[j] = q[j]
  OBVIOUS
<1>2. b \in Seq(S) /\ Len(b) = Len(q) - i /\ \A j \in 1..(Len(q) - i) : b[j] = q[i + j]
  OBVIOUS
<1>3. RemoveAt(q, i) = r
  BY DEF RemoveAt
<1> HIDE DEF a, b
<1>4. r \in Seq(S) /\ Len(r) = Len(q) - 1
  <2>1. r \in Seq(S) /\ Len(r) = Len(a) + Len(b)
    BY <1>1, <1>2, ConcatProperties, Zenon
  <2> QED
    BY <1>0, <1>1, <1>2, <2>1
<1>5. \A j \in 1..(Len(a) + Len(b)) : r[j] = IF j <= Len(a) THEN a[j] ELSE b[j - Len(a)]
  BY <1>1, <1>2, ConcatProperties, Zenon
<1> HIDE DEF r
<1>6. ASSUME NEW j \in 1..(Len(q) - 1)
      PROVE  r[j] = q[IF j < i THEN j ELSE j + 1]
  <2>0. r[j] = IF j <= Len(a) THEN a[j] ELSE b[j - Len(a)]
    <3>1. j \in 1..(Len(a) + Len(b))
      BY <1>0, <1>1, <1>2
    <3> QED
      BY <1>5, <3>1
  <2>1. CASE j < i
    <3>1. j <= Len(a) /\ j \in 1..(i - 1)
      BY <1>0, <1>1, <2>1
    <3> QED
      BY <1>1, <2>0, <2>1, <3>1
  <2>2. CASE j >= i
    <3> DEFINE k == j - Len(a)
    <3>1. ~(j <= Len(a)) /\ ~(j < i) /\ k \in 1..(Len(q) - i) /\ i + k = j + 1
      BY <1>0, <1>1, <2>2
    <3>2. r[j] = b[k]
      BY <2>0, <3>1
    <3> HIDE DEF k
    <3>3. b[k] = q[i + k]
      BY <1>2, <3>1
    <3> QED
      BY <3>1, <3>2, <3>3
  <2>3. j < i \/ j >= i
    BY <1>0
  <2> QED
    BY <2>1, <2>2, <2>3, Zenon
<1>7. r = [j \in 1..(Len(q) - 1) |-> r[j]]
  BY <1>4
<1> QED
  BY <1>3, <1>4, <1>6, <1>7 DEF Without

\* What the four ways to take out a node have in common.
LEMMA UnlinkStep ==
    ASSUME NEW c, Lists(c, allocated, head, tail, size, heap), allocated,
           NEW i \in 1..Len(c), NEW call, NEW was_last, was_last <=> i = Len(c),
           Unlink(call, i, was_last)
    PROVE  /\ QueueInv'
           /\ Contents' = RemoveAt(Contents, i)
           /\ Returns(call, 1, <<Contents[i]>>)
<1> DEFINE d == Without(c, i)
<1>1. /\ Chain = c /\ Len(c) \in Nat /\ Contents \in Seq(JobSet) /\ Len(Contents) = Len(c)
      /\ \A j \in 1..Len(c) : Contents[j] = heap[c[j]].job
  BY Seen
<1>2. Linked(c, head, heap) /\ tail = LastOf(c) /\ size = Len(c)
  BY DEF Lists
<1>3. Prev(i) = IF i = 1 THEN NULL ELSE c[i - 1]
  BY <1>1 DEF Prev
<1>4. /\ head' = IF i = 1 THEN heap[c[i]].next ELSE head
      /\ heap' = Spliced(c, i, heap)
      /\ tail' = IF i = Len(c) THEN Prev(i) ELSE tail
      /\ size' = size - 1 /\ allocated'
      /\ Returns(call, 1, <<heap[c[i]].job>>)
  BY <1>1, <1>3 DEF Unlink, TailAfter, Spliced
<1>5. Linked(d, head', heap') /\ \A b \in DOMAIN heap' : heap'[b].job = heap[b].job
  <2>1. /\ Linked(Without(c, i), head', heap')
        /\ \A b \in DOMAIN heap' : heap'[b].job = heap[b].job
    BY <1>2, <1>4, UnlinkNode
  <2> QED
    BY <2>1
<1>6. d \in Seq(Addr) /\ Len(d) = Len(c) - 1
      /\ \A j \in 1..Len(d) : d[j] = c[IF j < i THEN j ELSE j + 1] /\ d[j] \in DOMAIN heap'
  <2>1. d \in Seq(Addr) /\ DOMAIN d = 1..(Len(c) - 1) /\ Len(c) - 1 \in Nat
        /\ \A j \in 1..(Len(c) - 1) : d[j] = c[IF j < i THEN j ELSE j + 1]
    BY <1>1, <1>5 DEF Linked, Without
  <2>2. \A j \in 1..Len(d) : d[j] \in DOMAIN heap'
    BY <1>5 DEF Linked
  <2> HIDE DEF d
  <2>3. Len(d) = Len(c) - 1
    BY <2>1
  <2> QED
    BY <2>1, <2>2, <2>3
<1>7. tail' = LastOf(d)
  <2> HIDE DEF d
  <2>1. CASE Len(c) = 1
    BY <1>3, <1>4, <1>6, <2>1 DEF LastOf
  <2>2. CASE Len(c) # 1 /\ i = Len(c)
    <3>1. Len(d) \in 1..Len(d) /\ Len(d) = i - 1 /\ Len(d) < i /\ Len(d) # 0
      BY <1>1, <1>6, <2>2
    <3>2. d[Len(d)] = c[i - 1]
      BY <1>6, <3>1
    <3> QED
      BY <1>3, <1>4, <2>2, <3>1, <3>2 DEF LastOf
  <2>3. CASE Len(c) # 1 /\ i # Len(c)
    <3>1. Len(d) \in 1..Len(d) /\ ~(Len(d) < i) /\ Len(d) + 1 = Len(c) /\ Len(d) # 0
      BY <1>1, <1>6, <2>3
    <3>2. d[Len(d)] = c[Len(c)]
      BY <1>6, <3>1
    <3> QED
      BY <1>2, <1>4, <2>3, <3>1, <3>2 DEF LastOf
  <2> QED
    BY <2>1, <2>2, <2>3
<1>8. Lists(d, allocated', head', tail', size', heap')
  <2> HIDE DEF d
  <2> QED
    BY <1>2, <1>4, <1>5, <1>6, <1>7 DEF Lists
<1>9. Contents' = JobsOf(d, heap') /\ QueueInv'
  <2> HIDE DEF d
  <2> QED
    BY <1>8, SeenAfter
<1>10. JobsOf(d, heap') = Without(Contents, i)
  <2> HIDE DEF d
  <2>1. \A j \in 1..(Len(c) - 1) :
           /\ IF j < i THEN j \in 1..Len(c) ELSE j + 1 \in 1..Len(c)
           /\ heap'[d[j]].job = Contents[IF j < i THEN j ELSE j + 1]
    BY <1>1, <1>5, <1>6
  <2> QED
    BY <1>1, <1>6, <2>1 DEF JobsOf, Without
<1> QED
  BY <1>1, <1>4, <1>9, <1>10, RemoveAtIsWithout

\* queue_enqueue puts the job behind the others.
LEMMA EnqueueStep ==
    ASSUME NEW c, Lists(c, allocated, head, tail, size, heap), allocated,
           NEW job \in JobSet, NEW new_node \in Addr \ DOMAIN heap,
           heap' = [a \in DOMAIN heap \cup {new_node} |->
                      IF a = new_node THEN [job |-> job, next |-> NULL]
                      ELSE IF a = tail THEN [heap[a] EXCEPT !.next = new_node]
                      ELSE heap[a]],
           head' = IF tail = NULL THEN new_node ELSE head,
           tail' = new_node, size' = size + 1, UNCHANGED allocated
    PROVE  QueueInv' /\ Contents' = Append(Contents, job)
<1> DEFINE d == Append(c, new_node)
<1>1. /\ Len(c) \in Nat /\ Contents \in Seq(JobSet) /\ Len(Contents) = Len(c)
      /\ Contents = JobsOf(c, heap)
      /\ \A j \in 1..Len(c) : Contents[j] = heap[c[j]].job
  BY Seen
<1>2. Linked(c, head, heap) /\ tail = LastOf(c) /\ size = Len(c)
  BY DEF Lists
<1>3. heap' = Extended(c, new_node, job, heap)
  BY <1>2 DEF Extended
<1>4. /\ Linked(d, head', heap') /\ heap'[new_node].job = job
      /\ \A b \in DOMAIN heap : heap'[b].job = heap[b].job
  <2>1. head' = IF LastOf(c) = NULL THEN new_node ELSE head
    BY <1>2
  <2> QED
    BY <1>2, <1>3, <2>1, LinkNode
<1>5. /\ Len(d) = Len(c) + 1 /\ d[Len(c) + 1] = new_node
      /\ \A j \in 1..Len(c) : d[j] = c[j] /\ c[j] \in DOMAIN heap
  BY <1>2 DEF Linked
<1> HIDE DEF d
<1>6. Lists(d, allocated', head', tail', size', heap')
  BY <1>1, <1>2, <1>4, <1>5 DEF Lists, LastOf
<1>7. Contents' = JobsOf(d, heap') /\ QueueInv'
  BY <1>6, SeenAfter
<1>8. \A j \in 1..(Len(c) + 1) :
         heap'[d[j]].job = IF j = Len(c) + 1 THEN job ELSE Contents[j]
  BY <1>1, <1>4, <1>5
<1>9. Append(Contents, job)
         = [j \in 1..(Len(c) + 1) |-> IF j = Len(c) + 1 THEN job ELSE Contents[j]]
  <2> DEFINE r == Append(Contents, job)
  <2>1. /\ r \in Seq(JobSet) /\ Len(r) = Len(c) + 1
        /\ \A j \in 1..Len(c) : r[j] = Contents[j]
        /\ r[Len(c) + 1] = job
    BY <1>1
  <2> HIDE DEF r
  <2>2. r = [j \in 1..(Len(c) + 1) |-> r[j]]
    BY <2>1
  <2>3. \A j \in 1..(Len(c) + 1) : r[j] = IF j = Len(c) + 1 THEN job ELSE Contents[j]
    BY <1>1, <2>1
  <2> QED
    BY <2>2, <2>3 DEF r
<1> QED
  BY <1>5, <1>7, <1>8, <1>9 DEF JobsOf

\* A call that leaves the list alone leaves its contents alone.
LEMMA FrameStep ==
    ASSUME QueueInv, UNCHANGED listVars
    PROVE  QueueInv' /\ Contents' = Contents
  BY DEF QueueInv, listVars, Contents, Chain

LEMMA ClearStep ==
    ASSUME QueueInv, queue_create \/ queue_destroy
    PROVE  QueueInv' /\ Contents' = <<>>
<1>1. PICK c : Lists(c, allocated, head, tail, size, heap)
  BY DEF QueueInv
<1>2. /\ Chain = c /\ DOMAIN Chain = 1..Len(c) /\ Len(c) \in Nat
      /\ DOMAIN heap = {c[i] : i \in 1..Len(c)}
  BY <1>1, Seen DEF Lists, Linked
<1>3. head' = NULL /\ tail' = NULL /\ size' = 0
  BY DEF queue_create, queue_destroy
<1>4. heap' \in [DOMAIN heap' -> [job : JobSet, next : Addr \cup {NULL}]] /\ DOMAIN heap' = {}
  <2>1. CASE queue_create
    <3>1. Len(c) = 0 /\ heap' = heap
      BY <1>1, <2>1 DEF queue_create, Lists
    <3>2. DOMAIN heap = {}
      BY <1>2, <3>1
    <3> QED
      BY <1>1, <3>1, <3>2 DEF Lists, Linked
  <2>2. CASE queue_destroy
    <3>1. heap' = [a \in DOMAIN heap \ ToSet(Chain) |-> heap[a]]
      BY <2>2 DEF queue_destroy
    <3>2. DOMAIN heap \ ToSet(Chain) = {}
      BY <1>2 DEF ToSet
    <3> QED
      BY <3>1, <3>2
  <2> QED
    BY <2>1, <2>2
<1>5. Lists(<<>>, allocated', head', tail', size', heap')
  BY <1>3, <1>4 DEF Lists, Linked, LastOf
<1>6. Contents' = JobsOf(<<>>, heap') /\ QueueInv'
  BY <1>5, SeenAfter
<1> QED
  BY <1>6 DEF JobsOf

------------------------------------------------------------------------------
(* The array of active users *)

Gather(users, u) == IF u \in ToSet(users) THEN users ELSE Append(users, u)

UsersOf(q) == FoldLeft(LAMBDA users, job : IF job.user_id \in ToSet(users) THEN users
                                           ELSE Append(users, job.user_id),
                       <<>>, q)

\* The fold as a function of the nodes it has seen.
IsFold(g, D, q) ==
    g = [s \in SUBSET D |->
            IF s = {} THEN <<>> ELSE Gather(g[s \ {Max(s)}], q[Max(s)].user_id)]

Folded(D, q) == CHOOSE g : IsFold(g, D, q)

LEMMA UsersAreFolded ==
    ASSUME NEW q
    PROVE  UsersOf(q) = Folded(DOMAIN q, q)[DOMAIN q]
  BY DEF UsersOf, FoldLeft, MapThenFoldSet, Folded, IsFold, Gather

LEMMA GreatestNumber ==
    ASSUME NEW m \in Nat, NEW s \in SUBSET (1..m), s # {}
    PROVE  Max(s) \in s /\ \A y \in s : Max(s) >= y
<1> DEFINE T == {m - x : x \in s}
<1>1. T \in SUBSET Nat /\ T # {}
  <2>1. \A x \in s : x \in 1..m /\ m - x \in Nat
    OBVIOUS
  <2>2. PICK x : x \in s
    OBVIOUS
  <2>3. m - x \in T
    BY <2>2
  <2> QED
    BY <2>1, <2>3
<1>2. Min(T) \in T /\ \A y \in T : Min(T) <= y
  <2> HIDE DEF T
  <2> QED
    BY <1>1, LeastNumber
<1>3. PICK x \in s : Min(T) = m - x
  BY <1>2
<1>4. ASSUME NEW y \in s PROVE x >= y
  <2>1. m - y \in T
    OBVIOUS
  <2>2. m - x <= m - y
    BY <1>2, <1>3, <2>1
  <2>3. x \in Nat /\ y \in Nat
    OBVIOUS
  <2> HIDE DEF T
  <2> QED
    BY <2>2, <2>3
<1> QED
  BY <1>4 DEF Max

LEMMA FoldExists ==
    ASSUME NEW q
    PROVE  \A m \in Nat : \E g : IsFold(g, 1..m, q)
<1> DEFINE Bad == {m \in Nat : ~ \E g : IsFold(g, 1..m, q)}
<1> SUFFICES ASSUME Bad # {} PROVE FALSE
  OBVIOUS
<1>1. Min(Bad) \in Bad /\ \A y \in Bad : Min(Bad) <= y
  <2>1. Bad \in SUBSET Nat
    OBVIOUS
  <2> HIDE DEF Bad
  <2> QED
    BY <2>1, LeastNumber
<1>2. PICK m \in Nat : m = Min(Bad)
  BY <1>1
<1>3. CASE m = 0
  <2> DEFINE g == [s \in SUBSET (1..0) |-> <<>>]
  <2>1. \A s \in SUBSET (1..0) : s = {}
    OBVIOUS
  <2>2. IsFold(g, 1..0, q)
    BY <2>1 DEF IsFold
  <2> QED
    BY <1>1, <1>2, <1>3, <2>2
<1>4. CASE m # 0
  <2>1. m - 1 \in Nat /\ ~(m <= m - 1)
    BY <1>4
  <2>2. m - 1 \notin Bad
    BY <1>1, <1>2, <2>1
  <2>3. PICK g : IsFold(g, 1..(m - 1), q)
    BY <2>1, <2>2
  <2> DEFINE f == [s \in SUBSET (1..m) |->
                     IF m \in s THEN Gather(g[s \ {m}], q[m].user_id) ELSE g[s]]
             Next(h, s) == IF s = {} THEN <<>>
                           ELSE Gather(h[s \ {Max(s)}], q[Max(s)].user_id)
  <2>4. \A s \in SUBSET (1..(m - 1)) : g[s] = Next(g, s)
    BY <2>3 DEF IsFold
  <2>5. ASSUME NEW s \in SUBSET (1..m) PROVE f[s] = Next(f, s)
    <3>1. CASE m \in s
      <4>1. Max(s) \in s /\ \A y \in s : Max(s) >= y
        BY <3>1, GreatestNumber
      <4>2. Max(s) = m
        <5>1. PICK x \in 1..m : x = Max(s)
          BY <4>1
        <5> QED
          BY <3>1, <4>1, <5>1
      <4>3. s \ {m} \in SUBSET (1..m) /\ m \notin s \ {m}
        OBVIOUS
      <4>4. f[s \ {m}] = g[s \ {m}]
        BY <4>3
      <4> QED
        BY <3>1, <4>2, <4>4
    <3>2. CASE m \notin s
      <4>1. s \in SUBSET (1..(m - 1))
        BY <2>1, <3>2
      <4>2. f[s] = Next(g, s)
        BY <2>4, <3>2, <4>1
      <4>3. s \ {Max(s)} \in SUBSET (1..m) /\ m \notin s \ {Max(s)}
        BY <3>2
      <4>4. f[s \ {Max(s)}] = g[s \ {Max(s)}]
        BY <4>3
      <4> QED
        BY <4>2, <4>4
    <3> QED
      BY <3>1, <3>2
  <2>6. IsFold(f, 1..m, q)
    <3>1. f = [s \in SUBSET (1..m) |-> f[s]]
      OBVIOUS
    <3> HIDE DEF f
    <3>2. [s \in SUBSET (1..m) |-> f[s]] = [s \in SUBSET (1..m) |-> Next(f, s)]
      BY <2>5
    <3> QED
      BY <3>1, <3>2 DEF IsFold
  <2> QED
    BY <1>1, <1>2, <2>6
<1> QED
  BY <1>3, <1>4

\* What build_active_users holds after each node of the list.
LEMMA FoldSteps ==
    ASSUME NEW S, NEW q \in Seq(S)
    PROVE  \E acc : /\ acc[0] = <<>>
                    /\ \A k \in 1..Len(q) : acc[k] = Gather(acc[k - 1], q[k].user_id)
                    /\ UsersOf(q) = acc[Len(q)]
<1> DEFINE g == Folded(1..Len(q), q)
           acc == [k \in 0..Len(q) |-> g[1..k]]
<1>0. Len(q) \in Nat /\ DOMAIN q = 1..Len(q)
  OBVIOUS
<1>1. IsFold(g, 1..Len(q), q)
  BY <1>0, FoldExists DEF Folded
<1>2. UsersOf(q) = g[1..Len(q)]
  BY <1>0, UsersAreFolded
<1> HIDE DEF g
<1>3. \A s \in SUBSET (1..Len(q)) :
         g[s] = IF s = {} THEN <<>> ELSE Gather(g[s \ {Max(s)}], q[Max(s)].user_id)
  BY <1>1 DEF IsFold
<1>4. acc[0] = <<>>
  <2>1. 1..0 = {} /\ 0 \in 0..Len(q) /\ {} \in SUBSET (1..Len(q))
    BY <1>0
  <2> QED
    BY <1>3, <2>1
<1>5. ASSUME NEW k \in 1..Len(q) PROVE acc[k] = Gather(acc[k - 1], q[k].user_id)
  <2>1. k \in Nat /\ k \in 1..k /\ 1..k \in SUBSET (1..Len(q)) /\ (1..k) \ {k} = 1..(k - 1)
    BY <1>0
  <2>2. Max(1..k) = k
    <3>1. Max(1..k) \in 1..k /\ \A y \in 1..k : Max(1..k) >= y
      BY <2>1, GreatestNumber
    <3>2. PICK x \in 1..k : x = Max(1..k)
      BY <3>1
    <3> QED
      BY <2>1, <3>1, <3>2
  <2>3. g[1..k] = Gather(g[1..(k - 1)], q[k].user_id)
    BY <1>3, <2>1, <2>2
  <2>4. k \in 0..Len(q) /\ k - 1 \in 0..Len(q)
    BY <1>0
  <2> QED
    BY <2>3, <2>4
<1>6. UsersOf(q) = acc[Len(q)]
  BY <1>0, <1>2
<1> HIDE DEF acc
<1> QED
  BY <1>4, <1>5, <1>6

(***************************************************************************)
(* Compact(a, p, q, k): the array a lists the users of the first k nodes   *)
(* of q in the order of their first appearance, and p[j] is the node at    *)
(* which a[j] appears first.                                               *)
(***************************************************************************)
Compact(a, p, q, k) ==
    /\ Len(a) = Len(p) /\ DOMAIN a = 1..Len(p) /\ p \in Seq(Nat)
    /\ a \in Seq({q[i].user_id : i \in 1..Len(q)})
    /\ \A j \in 1..Len(p) :
          /\ p[j] \in 1..k
          /\ a[j] = q[p[j]].user_id
          /\ \A i \in 1..(p[j] - 1) : q[i].user_id # a[j]
    /\ \A i, j \in 1..Len(p) : i < j => p[i] < p[j]
    /\ \A i \in 1..k : \E j \in 1..Len(p) : a[j] = q[i].user_id

\* One more node.
LEMMA CompactStep ==
    ASSUME NEW S, NEW q \in Seq(S), NEW k \in 1..Len(q), NEW a, NEW p, Compact(a, p, q, k - 1)
    PROVE  \E r : Compact(Gather(a, q[k].user_id), r, q, k)
<1> DEFINE u == q[k].user_id
           U == {q[i].user_id : i \in 1..Len(q)}
<1>0. /\ Len(p) \in Nat /\ Len(a) = Len(p) /\ DOMAIN a = 1..Len(p) /\ a \in Seq(U)
      /\ p \in Seq(Nat) /\ k \in Nat \ {0}
      /\ \A j \in 1..Len(p) : p[j] \in Nat
  BY DEF Compact
<1>1. /\ \A j \in 1..Len(p) :
            /\ p[j] \in 1..(k - 1)
            /\ a[j] = q[p[j]].user_id
            /\ \A i \in 1..(p[j] - 1) : q[i].user_id # a[j]
      /\ \A i, j \in 1..Len(p) : i < j => p[i] < p[j]
      /\ \A i \in 1..(k - 1) : \E j \in 1..Len(p) : a[j] = q[i].user_id
  BY DEF Compact
<1>2. u \in U
  OBVIOUS
<1>3. \A j \in 1..Len(p) : p[j] \in 1..k
  <2>1. 1..(k - 1) \subseteq 1..k
    BY <1>0
  <2> QED
    BY <1>1, <2>1
<1>4. \A i \in 1..k : i \in 1..(k - 1) \/ i = k
  BY <1>0
<1> HIDE DEF u, U
<1>5. CASE u \in ToSet(a)
  <2>1. Gather(a, u) = a
    BY <1>5 DEF Gather
  <2>2. \A i \in 1..k : \E j \in 1..Len(p) : a[j] = q[i].user_id
    <3>1. \E j \in 1..Len(p) : a[j] = u
      BY <1>0, <1>5 DEF ToSet
    <3> QED
      BY <1>1, <1>4, <3>1 DEF u
  <2>3. Compact(a, p, q, k)
    BY <1>0, <1>1, <1>3, <2>2 DEF Compact, U
  <2> QED
    BY <2>1, <2>3 DEF u
<1>6. CASE u \notin ToSet(a)
  <2> DEFINE b == Append(a, u)
             r == Append(p, k)
  <2>1. Gather(a, u) = b
    BY <1>6 DEF Gather
  <2>2. /\ b \in Seq(U) /\ Len(b) = Len(p) + 1 /\ DOMAIN b = 1..(Len(p) + 1)
        /\ \A j \in 1..Len(p) : b[j] = a[j]
        /\ b[Len(p) + 1] = u
    BY <1>0, <1>2
  <2>3. /\ r \in Seq(Nat) /\ Len(r) = Len(p) + 1
        /\ \A j \in 1..Len(p) : r[j] = p[j]
        /\ r[Len(p) + 1] = k
    BY <1>0
  <2>4. \A j \in 1..(Len(p) + 1) : j \in 1..Len(p) \/ j = Len(p) + 1
    BY <1>0
  <2>5. Len(p) + 1 \in 1..(Len(p) + 1) /\ 1..Len(p) \subseteq 1..(Len(p) + 1)
    BY <1>0
  <2> HIDE DEF b, r
  <2>6. ASSUME NEW j \in 1..(Len(p) + 1)
        PROVE  /\ r[j] \in 1..k
               /\ b[j] = q[r[j]].user_id
               /\ \A i \in 1..(r[j] - 1) : q[i].user_id # b[j]
    <3>1. CASE j \in 1..Len(p)
      <4>1. r[j] = p[j] /\ b[j] = a[j]
        BY <2>2, <2>3, <3>1
      <4> QED
        BY <1>1, <1>3, <3>1, <4>1
    <3>2. CASE j = Len(p) + 1
      <4>1. r[j] = k /\ b[j] = u /\ k \in 1..k
        BY <1>0, <2>2, <2>3, <3>2
      <4>2. ASSUME NEW i \in 1..(k - 1) PROVE q[i].user_id # u
        <5>1. PICK n \in 1..Len(p) : a[n] = q[i].user_id
          BY <1>1
        <5>2. a[n] # u
          BY <1>0, <1>6 DEF ToSet
        <5> QED
          BY <5>1, <5>2
      <4> QED
        BY <4>1, <4>2 DEF u
    <3> QED
      BY <2>4, <3>1, <3>2
  <2>7. ASSUME NEW i \in 1..(Len(p) + 1), NEW j \in 1..(Len(p) + 1), i < j
        PROVE  r[i] < r[j]
    <3>1. i \in 1..Len(p)
      BY <1>0, <2>7
    <3>2. CASE j \in 1..Len(p)
      BY <1>1, <2>3, <2>7, <3>1, <3>2
    <3>3. CASE j = Len(p) + 1
      <4>1. r[i] = p[i] /\ r[j] = k /\ p[i] \in 1..(k - 1)
        BY <1>1, <2>3, <3>1, <3>3
      <4> QED
        BY <1>0, <4>1
    <3> QED
      BY <2>4, <3>2, <3>3
  <2>8. \A i \in 1..k : \E j \in 1..(Len(p) + 1) : b[j] = q[i].user_id
    BY <1>1, <1>4, <2>2, <2>5 DEF u
  <2>9. Compact(b, r, q, k)
    BY <2>2, <2>3, <2>6, <2>7, <2>8 DEF Compact, U
  <2> QED
    BY <2>1, <2>9 DEF u
<1> QED
  BY <1>5, <1>6

LEMMA UsersAreCompact ==
    ASSUME NEW S, NEW q \in Seq(S)
    PROVE  \E p : Compact(UsersOf(q), p, q, Len(q))
<1>0. Len(q) \in Nat
  OBVIOUS
<1>1. PICK acc : /\ acc[0] = <<>>
                 /\ \A k \in 1..Len(q) : acc[k] = Gather(acc[k - 1], q[k].user_id)
                 /\ UsersOf(q) = acc[Len(q)]
  BY FoldSteps
<1> DEFINE Bad == {k \in 0..Len(q) : ~ \E p : Compact(acc[k], p, q, k)}
<1>2. Bad = {}
  <2> SUFFICES ASSUME Bad # {} PROVE FALSE
    OBVIOUS
  <2>1. Min(Bad) \in Bad /\ \A y \in Bad : Min(Bad) <= y
    <3>1. Bad \in SUBSET Nat
      OBVIOUS
    <3> HIDE DEF Bad
    <3> QED
      BY <3>1, LeastNumber
  <2>2. PICK k \in 0..Len(q) : k = Min(Bad) /\ ~ \E p : Compact(acc[k], p, q, k)
    BY <2>1
  <2>3. CASE k = 0
    <3>1. Compact(<<>>, <<>>, q, 0)
      BY DEF Compact
    <3> QED
      BY <1>1, <2>2, <2>3, <3>1
  <2>4. CASE k # 0
    <3>1. k \in 1..Len(q) /\ k - 1 \in 0..Len(q) /\ ~(k <= k - 1)
      BY <1>0, <2>4
    <3>2. k - 1 \notin Bad
      BY <2>1, <2>2, <3>1
    <3>3. PICK p : Compact(acc[k - 1], p, q, k - 1)
      BY <3>1, <3>2
    <3>4. \E r : Compact(Gather(acc[k - 1], q[k].user_id), r, q, k)
      BY <3>1, <3>3, CompactStep
    <3> QED
      BY <1>1, <2>2, <3>1, <3>4
  <2> QED
    BY <2>3, <2>4
<1>3. Len(q) \in 0..Len(q)
  BY <1>0
<1> QED
  BY <1>1, <1>2, <1>3

\* The first user of the array is the one of the first node, the array holds
\* the users that have a job, once each, and its order is that of FirstNodes.
LEMMA CompactFacts ==
    ASSUME NEW S, NEW q \in Seq(S), q # <<>>, NEW a, NEW p, Compact(a, p, q, Len(q))
    PROVE  /\ Len(p) \in Nat \ {0} /\ p[1] = 1 /\ a[1] = q[1].user_id
           /\ \A u : u \in ToSet(a) <=> Sequence!user_exists(q, u)
           /\ \A i, j \in 1..Len(p) : a[i] = a[j] => i = j
           /\ Sequence!FirstNodes(q) = {p[j] : j \in 1..Len(p)}
<1>0. /\ Len(q) \in Nat \ {0} /\ DOMAIN q = 1..Len(q) /\ 1 \in 1..Len(q)
      /\ Len(p) \in Nat /\ DOMAIN a = 1..Len(p)
      /\ \A j \in 1..Len(p) : p[j] \in 1..Len(q) /\ p[j] \in Nat
  BY DEF Compact
<1>1. \A j \in 1..Len(p) :
         a[j] = q[p[j]].user_id /\ \A i \in 1..(p[j] - 1) : q[i].user_id # a[j]
  BY DEF Compact
<1>2. \A i, j \in 1..Len(p) : i < j => p[i] < p[j]
  BY DEF Compact
<1>3. \A i \in 1..Len(q) : \E j \in 1..Len(p) : a[j] = q[i].user_id
  BY DEF Compact
<1>4. ASSUME NEW i \in 1..Len(q), NEW j \in 1..Len(p), a[j] = q[i].user_id
      PROVE  p[j] <= i
  <2>1. i \notin 1..(p[j] - 1)
    BY <1>1, <1>4
  <2>2. i \in Nat /\ i >= 1 /\ p[j] \in Nat
    BY <1>0
  <2> QED
    BY <2>1, <2>2
<1>5. ASSUME NEW i \in 1..Len(p), NEW j \in 1..Len(p), p[i] = p[j]
      PROVE  i = j
  <2>1. ~(i < j) /\ ~(j < i)
    BY <1>0, <1>2, <1>5
  <2> QED
    BY <2>1
<1>6. ASSUME NEW i \in 1..Len(p), NEW j \in 1..Len(p), a[i] = a[j]
      PROVE  i = j
  <2>1. p[i] <= p[j] /\ p[j] <= p[i]
    BY <1>0, <1>1, <1>4, <1>6
  <2> QED
    BY <1>0, <1>5, <2>1
<1>7. Len(p) # 0 /\ p[1] = 1 /\ a[1] = q[1].user_id
  <2>1. PICK j \in 1..Len(p) : a[j] = q[1].user_id
    BY <1>0, <1>3
  <2>2. p[j] = 1
    BY <1>0, <1>4, <2>1
  <2>3. Len(p) # 0 /\ 1 \in 1..Len(p)
    BY <1>0
  <2>4. j = 1
    <3>1. ~(1 < j)
      BY <1>0, <1>2, <2>2, <2>3
    <3> QED
      BY <3>1
  <2> QED
    BY <2>1, <2>2, <2>3, <2>4
<1>8. ASSUME NEW u PROVE u \in ToSet(a) <=> Sequence!user_exists(q, u)
  <2>1. ASSUME u \in ToSet(a) PROVE Sequence!user_exists(q, u)
    <3>1. PICK j \in 1..Len(p) : a[j] = u
      BY <1>0, <2>1 DEF ToSet
    <3> QED
      BY <1>0, <1>1, <3>1 DEF Sequence!user_exists
  <2>2. ASSUME Sequence!user_exists(q, u) PROVE u \in ToSet(a)
    <3>1. PICK i \in 1..Len(q) : q[i].user_id = u
      BY <1>0, <2>2 DEF Sequence!user_exists
    <3> QED
      BY <1>0, <1>3, <3>1 DEF ToSet
  <2> QED
    BY <2>1, <2>2
<1>9. Sequence!FirstNodes(q) = {p[j] : j \in 1..Len(p)}
  <2>1. ASSUME NEW i \in Sequence!FirstNodes(q) PROVE \E j \in 1..Len(p) : i = p[j]
    <3>1. i \in 1..Len(q) /\ \A n \in 1..(i - 1) : q[n].user_id # q[i].user_id
      BY <1>0, <2>1 DEF Sequence!FirstNodes
    <3>2. PICK j \in 1..Len(p) : a[j] = q[i].user_id
      BY <1>3, <3>1
    <3>3. p[j] <= i /\ p[j] \notin 1..(i - 1)
      BY <1>1, <1>4, <3>1, <3>2
    <3>4. p[j] \in Nat /\ p[j] >= 1 /\ i \in Nat
      BY <1>0, <3>1
    <3>5. p[j] = i
      BY <3>3, <3>4
    <3> QED
      BY <3>5
  <2>2. ASSUME NEW j \in 1..Len(p) PROVE p[j] \in Sequence!FirstNodes(q)
    BY <1>0, <1>1 DEF Sequence!FirstNodes
  <2> QED
    BY <2>1, <2>2
<1> QED
  BY <1>0, <1>6, <1>7, <1>8, <1>9

LEMMA SameMin ==
    ASSUME NEW T
    PROVE  Sequence!Min(T) = Min(T)
  BY DEF Sequence!Min, Min

\* The walk along the array of active users finds the same user as the search
\* among the first nodes of the queue.
LEMMA SameNextUser ==
    ASSUME NEW S, NEW q \in Seq(S), q # <<>>, NEW a, NEW p, Compact(a, p, q, Len(q)), NEW last
    PROVE  choose_next_user(a, last) = Sequence!choose_next_user(q, last)
<1> DEFINE F == Sequence!FirstNodes(q)
           after == {j \in F : \E i \in F : q[i].user_id = last /\ i < j}
           hits == {i \in DOMAIN a : a[i] = last}
<1>0. /\ Len(p) \in Nat \ {0} /\ p[1] = 1 /\ a[1] = q[1].user_id
      /\ \A i, j \in 1..Len(p) : a[i] = a[j] => i = j
      /\ F = {p[j] : j \in 1..Len(p)}
  BY CompactFacts
<1>1. /\ DOMAIN a = 1..Len(p) /\ Len(a) = Len(p)
      /\ \A j \in 1..Len(p) : p[j] \in Nat /\ a[j] = q[p[j]].user_id
      /\ \A i, j \in 1..Len(p) : i < j => p[i] < p[j]
  BY DEF Compact
<1>2. Sequence!choose_next_user(q, last) = q[IF after = {} THEN 1 ELSE Min(after)].user_id
  BY SameMin DEF Sequence!choose_next_user
<1>3. choose_next_user(a, last) =
        LET idx == IF hits = {} THEN -1 ELSE Min(hits) - 1
        IN  IF idx = -1 \/ idx = Len(a) - 1 THEN a[1] ELSE a[idx + 2]
  BY DEF choose_next_user, IndexOfUser
<1>4. CASE hits = {}
  <2>1. after = {}
    BY <1>0, <1>1, <1>4
  <2> QED
    BY <1>0, <1>2, <1>3, <1>4, <2>1
<1>5. CASE hits # {}
  <2>1. PICK m \in 1..Len(p) : a[m] = last
    BY <1>1, <1>5
  <2>2. hits = {m}
    BY <1>0, <1>1, <2>1
  <2>3. Min(hits) = m
    <3>1. {m} \in SUBSET Nat /\ {m} # {}
      BY <1>0
    <3>2. Min({m}) \in {m}
      BY <3>1, LeastNumber
    <3> QED
      BY <2>2, <3>2
  <2>4. after = {p[j] : j \in {n \in 1..Len(p) : m < n}}
    <3>1. ASSUME NEW x \in after PROVE \E n \in 1..Len(p) : m < n /\ x = p[n]
      <4>1. PICK n \in 1..Len(p), i \in 1..Len(p) :
               x = p[n] /\ q[p[i]].user_id = last /\ p[i] < p[n]
        BY <1>0, <3>1
      <4>2. i = m
        BY <1>0, <1>1, <2>1, <4>1
      <4>3. n # m /\ ~(n < m)
        BY <1>1, <4>1, <4>2
      <4> QED
        BY <4>1, <4>3
    <3>2. ASSUME NEW n \in 1..Len(p), m < n PROVE p[n] \in after
      <4>1. p[n] \in F /\ p[m] \in F /\ p[m] < p[n] /\ q[p[m]].user_id = last
        BY <1>0, <1>1, <2>1, <3>2
      <4> HIDE DEF F
      <4> QED
        BY <4>1
    <3> HIDE DEF after
    <3> QED
      BY <3>1, <3>2
  <2>5. CASE m = Len(p)
    <3>1. after = {}
      BY <2>4, <2>5
    <3> HIDE DEF after, hits
    <3> QED
      BY <1>0, <1>1, <1>2, <1>3, <1>5, <2>3, <2>5, <3>1
  <2>6. CASE m # Len(p)
    <3>1. m + 1 \in 1..Len(p) /\ m < m + 1
      BY <1>0, <2>6
    <3>2. p[m + 1] \in after
      BY <2>4, <3>1
    <3>3. \A y \in after : p[m + 1] <= y /\ y \in Nat
      <4> SUFFICES ASSUME NEW n \in 1..Len(p), m < n PROVE p[m + 1] <= p[n] /\ p[n] \in Nat
        BY <2>4
      <4>1. CASE n = m + 1
        BY <1>1, <4>1
      <4>2. CASE n # m + 1
        <5>1. m + 1 < n
          BY <1>0, <4>2
        <5> QED
          BY <1>1, <3>1, <5>1
      <4> QED
        BY <4>1, <4>2
    <3> HIDE DEF after, hits
    <3>4. Min(after) = p[m + 1]
      <4>1. after \in SUBSET Nat /\ after # {}
        BY <3>2, <3>3
      <4>2. Min(after) \in after /\ Min(after) <= p[m + 1]
        BY <3>2, <4>1, LeastNumber
      <4>3. p[m + 1] <= Min(after) /\ Min(after) \in Nat /\ p[m + 1] \in Nat
        BY <3>2, <3>3, <4>2
      <4> QED
        BY <4>2, <4>3
    <3>5. choose_next_user(a, last) = a[m + 1]
      <4>1. m - 1 # -1 /\ m - 1 # Len(a) - 1 /\ (m - 1) + 2 = m + 1
        <5>1. Len(p) \in Nat /\ Len(a) = Len(p) /\ m \in 1..Len(p)
          BY <1>0, <1>1
        <5> QED
          BY <2>6, <5>1
      <4> QED
        BY <1>3, <1>5, <2>3, <4>1
    <3>6. Sequence!choose_next_user(q, last) = q[p[m + 1]].user_id
      BY <1>2, <3>2, <3>4
    <3> QED
      BY <1>1, <3>1, <3>5, <3>6
  <2> QED
    BY <2>5, <2>6
<1> QED
  BY <1>4, <1>5

\* The search of choose_next_fair_user among the known users, on the array of
\* active users and on the queue, and the user it returns has a job.
LEMMA SameFairUser ==
    ASSUME NEW S, NEW q \in Seq(S), q # <<>>, NEW fu \in Seq(Int), NEW last
    PROVE  LET u == choose_next_fair_user(UsersOf(q), fu, last) IN
           /\ u = Sequence!choose_next_fair_user(q, fu, last)
           /\ \E i \in 1..Len(q) : q[i].user_id = u
<1> DEFINE a == UsersOf(q)
           n == Len(fu)
           At(o) == fu[((IndexOfUser(fu, last) + o + n) % n) + 1]
           hits == {o \in 1..n : Sequence!user_exists(q, At(o))}
           u == choose_next_fair_user(a, fu, last)
<1>1. PICK p : Compact(a, p, q, Len(q))
  BY UsersAreCompact
<1> HIDE DEF a
<1>2. /\ Len(p) \in Nat \ {0} /\ p[1] = 1 /\ a[1] = q[1].user_id
      /\ \A v : v \in ToSet(a) <=> Sequence!user_exists(q, v)
  BY <1>1, CompactFacts
<1>3. n \in Nat /\ (n = 0 <=> fu = <<>>) /\ Len(q) \in Nat /\ DOMAIN q = 1..Len(q)
      /\ 1 \in 1..Len(q) /\ Head(q) = q[1]
  OBVIOUS
<1>4. \A o : Sequence!UserAt(fu, last, o) = At(o)
  BY SameMin DEF Sequence!UserAt, Sequence!LastIdx, IndexOfUser
<1>5. u = IF n = 0 THEN choose_next_user(a, last)
          ELSE IF hits = {} THEN a[1] ELSE At(Min(hits))
  <2>1. {o \in 1..n : At(o) \in ToSet(a)} = hits
    BY <1>2
  <2> QED
    BY <2>1 DEF choose_next_fair_user
<1>6. Sequence!choose_next_fair_user(q, fu, last) =
        IF fu = <<>> THEN Sequence!choose_next_user(q, last)
        ELSE IF hits = {} THEN Head(q).user_id ELSE At(Min(hits))
  <2>1. {o \in 1..n : Sequence!user_exists(q, Sequence!UserAt(fu, last, o))} = hits
    BY <1>4
  <2> QED
    BY <1>4, <2>1, SameMin DEF Sequence!choose_next_fair_user
<1>7. choose_next_user(a, last) = Sequence!choose_next_user(q, last)
  BY <1>1, SameNextUser
<1>8. u = Sequence!choose_next_fair_user(q, fu, last)
  <2> HIDE DEF u, hits, n, At
  <2> QED
    BY <1>2, <1>3, <1>5, <1>6, <1>7
<1>9. \E i \in 1..Len(q) : q[i].user_id = u
  <2>1. CASE n = 0
    <3> DEFINE F == Sequence!FirstNodes(q)
               after == {j \in F : \E i \in F : q[i].user_id = last /\ i < j}
    <3>1. Sequence!choose_next_user(q, last) = q[IF after = {} THEN 1 ELSE Min(after)].user_id
      BY SameMin DEF Sequence!choose_next_user
    <3>2. after \subseteq 1..Len(q) /\ after \in SUBSET Nat
      BY <1>3 DEF Sequence!FirstNodes
    <3> HIDE DEF after, u
    <3>3. after # {} => Min(after) \in after
      BY <3>2, LeastNumber
    <3> QED
      BY <1>3, <1>5, <1>7, <2>1, <3>1, <3>2, <3>3
  <2>2. CASE n # 0 /\ hits = {}
    BY <1>2, <1>3, <1>5, <2>2
  <2>3. CASE n # 0 /\ hits # {}
    <3>1. hits \in SUBSET Nat
      OBVIOUS
    <3>2. Min(hits) \in hits
      <4> HIDE DEF hits
      <4> QED
        BY <2>3, <3>1, LeastNumber
    <3>3. Sequence!user_exists(q, At(Min(hits)))
      BY <3>2
    <3> HIDE DEF hits, At, u, n
    <3> QED
      BY <1>3, <1>5, <2>3, <3>3 DEF Sequence!user_exists
  <2> QED
    BY <2>1, <2>2, <2>3
<1> QED
  BY <1>8, <1>9 DEF a

------------------------------------------------------------------------------
(* The calls *)

\* Every unlinking hands out a job of the sequence.
LEMMA HandStep ==
    ASSUME NEW c, Lists(c, allocated, head, tail, size, heap), allocated,
           NEW i \in 1..Len(c), NEW call, NEW was_last, was_last <=> i = Len(c),
           Unlink(call, i, was_last)
    PROVE  QueueInv' /\ Sequence!Hand(call, i)
<1>1. /\ QueueInv' /\ Contents' = RemoveAt(Contents, i)
      /\ Returns(call, 1, <<Contents[i]>>)
  BY UnlinkStep
<1>2. Sequence!RemoveAt(Contents, i) = RemoveAt(Contents, i)
  BY DEF Sequence!RemoveAt, RemoveAt
<1> QED
  BY <1>1, <1>2 DEF Sequence!Hand, Sequence!Returns, Returns

LEMMA RefuseStep ==
    ASSUME QueueInv, NEW call, Refuse(call)
    PROVE  QueueInv' /\ Sequence!Refuse(call)
<1>1. QueueInv' /\ Contents' = Contents
  BY FrameStep DEF Refuse
<1> QED
  BY <1>1 DEF Refuse, Sequence!Refuse, Returns, Sequence!Returns

LEMMA EnqueueCall ==
    ASSUME QueueInv, allocated, NEW job \in JobSet, queue_enqueue(job)
    PROVE  QueueInv' /\ Sequence!Enqueue(job)
<1>1. CASE Refuse(<<"enqueue">>)
  BY <1>1, RefuseStep DEF Sequence!Enqueue
<1>2. CASE ~Refuse(<<"enqueue">>)
  <2>1. PICK c : Lists(c, allocated, head, tail, size, heap)
    BY DEF QueueInv
  <2>2. PICK new_node \in Addr \ DOMAIN heap :
          /\ heap' = [a \in DOMAIN heap \cup {new_node} |->
                        IF a = new_node THEN [job |-> job, next |-> NULL]
                        ELSE IF a = tail THEN [heap[a] EXCEPT !.next = new_node]
                        ELSE heap[a]]
          /\ head' = IF tail = NULL THEN new_node ELSE head
          /\ tail' = new_node
          /\ size' = size + 1
          /\ Returns(<<"enqueue">>, 1, <<>>)
          /\ UNCHANGED <<allocated, last_user_id>>
    BY <1>2 DEF queue_enqueue
  <2>3. QueueInv' /\ Contents' = Append(Contents, job)
    BY <2>1, <2>2, EnqueueStep
  <2>4. Sequence!queue_enqueue(Contents, job) = Append(Contents, job)
    BY DEF Sequence!queue_enqueue
  <2> QED
    BY <2>2, <2>3, <2>4 DEF Sequence!Enqueue, Returns, Sequence!Returns
<1> QED
  BY <1>1, <1>2

LEMMA HeadCall ==
    ASSUME QueueInv, allocated, queue_dequeue
    PROVE  QueueInv' /\ Sequence!Dequeue("fcfs", <<>>)
<1>1. PICK c : Lists(c, allocated, head, tail, size, heap)
  BY DEF QueueInv
<1>2. /\ Len(c) \in Nat /\ Contents \in Seq(JobSet) /\ Len(Contents) = Len(c)
      /\ Contents = <<>> <=> head = NULL
      /\ head = NULL <=> Len(c) = 0
      /\ \A i \in 1..Len(c) : EndsAt(i) <=> i = Len(c)
  BY <1>1, Seen
<1>3. CASE head = NULL /\ Refuse(<<"fcfs">>)
  <2>1. Contents = <<>>
    BY <1>2, <1>3
  <2> QED
    BY <1>3, <2>1, RefuseStep DEF Sequence!Dequeue
<1>4. CASE head # NULL /\ DequeueHead(<<"fcfs">>) /\ UNCHANGED last_user_id
  <2>1. 1 \in 1..Len(c) /\ Contents # <<>>
    <3>1. Len(c) \in Nat /\ Len(c) # 0 /\ Contents # <<>>
      BY <1>2, <1>4
    <3> QED
      BY <3>1
  <2>2. Unlink(<<"fcfs">>, 1, EndsAt(1))
    BY <1>4 DEF DequeueHead
  <2>3. QueueInv' /\ Sequence!Hand(<<"fcfs">>, 1)
    BY <1>1, <1>2, <2>1, <2>2, HandStep
  <2>4. 1 \in Sequence!DequeueNodes("fcfs", Contents, <<>>, last_user_id, TRUE)
    BY DEF Sequence!DequeueNodes
  <2> QED
    BY <1>4, <2>1, <2>3, <2>4 DEF Sequence!Dequeue
<1> QED
  BY <1>3, <1>4 DEF queue_dequeue

LEMMA RandomCall ==
    ASSUME QueueInv, allocated, queue_dequeue_random
    PROVE  QueueInv' /\ Sequence!Dequeue("random", <<>>)
<1>1. PICK c : Lists(c, allocated, head, tail, size, heap)
  BY DEF QueueInv
<1>2. /\ Len(c) \in Nat /\ Contents \in Seq(JobSet) /\ Len(Contents) = Len(c)
      /\ Contents = <<>> <=> head = NULL
      /\ head = NULL <=> Len(c) = 0
      /\ \A i \in 1..Len(c) : EndsAt(i) <=> i = Len(c)
      /\ Chain = c /\ size = Len(c) /\ DOMAIN Contents = 1..Len(c)
  BY <1>1, Seen DEF Lists
<1>3. CASE head = NULL /\ Refuse(<<"random">>)
  <2>1. Contents = <<>>
    BY <1>2, <1>3
  <2> QED
    BY <1>3, <2>1, RefuseStep DEF Sequence!Dequeue
<1>4. CASE /\ head # NULL
           /\ \E target_idx \in 0..(size - 1) :
                 IF target_idx < Len(Chain)
                 THEN /\ Unlink(<<"random">>, target_idx + 1, EndsAt(target_idx + 1))
                      /\ UNCHANGED last_user_id
                 ELSE Refuse(<<"random">>)
  <2>1. PICK t \in 0..(Len(c) - 1) :
           IF t < Len(c)
           THEN Unlink(<<"random">>, t + 1, EndsAt(t + 1)) /\ UNCHANGED last_user_id
           ELSE Refuse(<<"random">>)
    BY <1>2, <1>4
  <2>2. t < Len(c) /\ t + 1 \in 1..Len(c) /\ Contents # <<>>
    <3>1. Len(c) \in Nat /\ Contents # <<>>
      BY <1>2, <1>4
    <3> QED
      BY <3>1
  <2>3. QueueInv' /\ Sequence!Hand(<<"random">>, t + 1)
    <3>1. PICK i \in 1..Len(c) : i = t + 1
      BY <2>2
    <3>2. Unlink(<<"random">>, i, EndsAt(i))
      BY <2>1, <2>2, <3>1
    <3> QED
      BY <1>1, <1>2, <3>1, <3>2, HandStep
  <2>4. t + 1 \in Sequence!DequeueNodes("random", Contents, <<>>, last_user_id, TRUE)
    BY <1>2, <2>2 DEF Sequence!DequeueNodes
  <2>5. UNCHANGED last_user_id
    BY <2>1, <2>2
  <2> QED
    BY <2>2, <2>3, <2>4, <2>5 DEF Sequence!Dequeue
<1> QED
  BY <1>3, <1>4 DEF queue_dequeue_random

LEMMA FairCall ==
    ASSUME QueueInv, allocated, NEW fair_users \in FairOrders, queue_dequeue_fair(fair_users)
    PROVE  QueueInv' /\ Sequence!Dequeue("fair", fair_users)
<1> DEFINE call == <<"fair", fair_users>>
           target_user == choose_next_fair_user(ActiveUsers, fair_users, last_user_id)
           hits == {i \in DOMAIN Contents : Contents[i].user_id = target_user}
           x == IF hits = {} THEN 0 ELSE Min(hits)
<1>1. PICK c : Lists(c, allocated, head, tail, size, heap)
  BY DEF QueueInv
<1>2. /\ Len(c) \in Nat /\ Contents \in Seq(JobSet) /\ Len(Contents) = Len(c)
      /\ Contents = <<>> <=> head = NULL
      /\ head = NULL <=> Len(c) = 0
      /\ \A i \in 1..Len(c) :
            /\ Contents[i] = heap[c[i]].job
            /\ EndsAt(i) <=> i = Len(c)
            /\ IsTail(i) <=> i = Len(c)
      /\ Chain = c /\ DOMAIN Contents = 1..Len(c)
  BY <1>1, Seen
<1>3. ActiveUsers = UsersOf(Contents)
  BY DEF ActiveUsers, UsersOf
<1>4. FirstSuch(LAMBDA job : job.user_id = target_user) = x
  BY DEF FirstSuch
<1>5. CASE head = NULL /\ Refuse(call)
  <2>1. Contents = <<>>
    BY <1>2, <1>5
  <2> QED
    BY <1>5, <2>1, RefuseStep DEF Sequence!Dequeue
<1>6. CASE head # NULL /\ DequeueHead(call) /\ last_user_id' = heap[head].job.user_id
  <2>1. 1 \in 1..Len(c) /\ Contents # <<>>
    <3>1. Len(c) \in Nat /\ Len(c) # 0 /\ Contents # <<>>
      BY <1>2, <1>6
    <3> QED
      BY <3>1
  <2>2. Unlink(call, 1, EndsAt(1))
    BY <1>6 DEF DequeueHead
  <2> HIDE DEF call
  <2>3. QueueInv' /\ Sequence!Hand(call, 1)
    BY <1>1, <1>2, <2>1, <2>2, HandStep
  <2>4. 1 \in Sequence!DequeueNodes("fair", Contents, fair_users, last_user_id, TRUE)
    BY DEF Sequence!DequeueNodes
  <2>5. last_user_id' = Contents[1].user_id
    <3>1. head = c[1]
      BY <1>1, <2>1 DEF Lists, Linked
    <3> QED
      BY <1>2, <1>6, <2>1, <3>1
  <2> QED
    BY <2>1, <2>3, <2>4, <2>5 DEF Sequence!Dequeue, call
<1>7. CASE /\ head # NULL
           /\ IF x # 0 THEN Unlink(call, x, IsTail(x)) /\ last_user_id' = target_user
                       ELSE Refuse(call)
  <2>1. Contents # <<>>
    BY <1>2, <1>7
  <2>2. /\ target_user = Sequence!choose_next_fair_user(Contents, fair_users, last_user_id)
        /\ \E i \in 1..Len(Contents) : Contents[i].user_id = target_user
    BY <1>2, <1>3, <2>1, OrderAssumption, SameFairUser
  <2>3. x = Sequence!FairNode(Contents, fair_users, last_user_id)
    BY <1>2, <2>2, SameMin DEF Sequence!FairNode, Sequence!FirstOf
  <2>4. x \in 1..Len(c) /\ Contents[x].user_id = target_user
    <3> HIDE DEF target_user
    <3>1. hits # {} /\ hits \in SUBSET Nat
      <4>1. PICK i \in 1..Len(c) : Contents[i].user_id = target_user
        BY <1>2, <2>2
      <4>2. i \in hits
        BY <1>2, <4>1
      <4>3. hits \subseteq 1..Len(c)
        BY <1>2
      <4>4. Len(c) \in Nat
        BY <1>2
      <4>5. 1..Len(c) \subseteq Nat
        BY <4>4
      <4> HIDE DEF hits
      <4> QED
        BY <4>2, <4>3, <4>5
    <3>2. Min(hits) \in hits
      <4> HIDE DEF hits
      <4> QED
        BY <3>1, LeastNumber
    <3> QED
      BY <1>2, <3>1, <3>2
  <2> HIDE DEF x, call, target_user
  <2>5. Unlink(call, x, IsTail(x)) /\ last_user_id' = target_user
    <3>1. x # 0
      BY <2>4
    <3> QED
      BY <1>7, <3>1
  <2>6. QueueInv' /\ Sequence!Hand(call, x)
    BY <1>1, <1>2, <2>4, <2>5, HandStep
  <2>7. x \in Sequence!DequeueNodes("fair", Contents, fair_users, last_user_id, TRUE)
    BY <2>3 DEF Sequence!DequeueNodes
  <2> QED
    BY <2>1, <2>4, <2>5, <2>6, <2>7 DEF Sequence!Dequeue, call
<1> QED
  BY <1>4, <1>5, <1>6, <1>7 DEF queue_dequeue_fair

LEMMA RemoveCall ==
    ASSUME QueueInv, allocated, NEW command_id, queue_remove_by_command_id(command_id)
    PROVE  QueueInv' /\ Sequence!RemoveCommand(command_id)
<1> DEFINE call == <<"remove", command_id>>
           hits == {i \in DOMAIN Contents : Contents[i].command_id = command_id}
           x == IF hits = {} THEN 0 ELSE Min(hits)
<1>1. PICK c : Lists(c, allocated, head, tail, size, heap)
  BY DEF QueueInv
<1>2. /\ Len(c) \in Nat /\ DOMAIN Contents = 1..Len(c)
      /\ \A i \in 1..Len(c) : IsTail(i) <=> i = Len(c)
  BY <1>1, Seen
<1>3. FirstSuch(LAMBDA job : job.command_id = command_id) = x
  BY DEF FirstSuch
<1>4. Sequence!NodesOfCommand(Contents, command_id) = hits
  BY DEF Sequence!NodesOfCommand
<1>5. CASE hits = {}
  <2>1. Refuse(call)
    BY <1>3, <1>5 DEF queue_remove_by_command_id
  <2> QED
    BY <1>4, <1>5, <2>1, RefuseStep DEF Sequence!RemoveCommand
<1>6. CASE hits # {}
  <2>1. Min(hits) \in 1..Len(c)
    <3>1. hits \subseteq 1..Len(c) /\ hits \in SUBSET Nat
      BY <1>2
    <3> HIDE DEF hits
    <3> QED
      BY <1>6, <3>1, LeastNumber
  <2>2. x = Min(hits) /\ x # 0
    <3> HIDE DEF hits
    <3> QED
      BY <1>2, <1>6, <2>1
  <2>3. Unlink(call, x, IsTail(x)) /\ UNCHANGED last_user_id
    BY <1>3, <2>2 DEF queue_remove_by_command_id
  <2> HIDE DEF x, call, hits
  <2>4. QueueInv' /\ Sequence!Hand(call, x)
    BY <1>1, <1>2, <2>1, <2>2, <2>3, HandStep
  <2>5. Contents' = Sequence!queue_remove_by_command_id(Contents, command_id)
    BY <1>4, <2>2, <2>4, SameMin DEF Sequence!queue_remove_by_command_id, Sequence!Hand
  <2> QED
    BY <1>4, <1>6, <2>2, <2>3, <2>4, <2>5, SameMin DEF Sequence!RemoveCommand, call
<1> QED
  BY <1>5, <1>6

LEMMA QueryCall ==
    ASSUME QueueInv, queue_size \/ queue_is_empty \/ queue_copy_to_array
    PROVE  QueueInv' /\ Sequence!Ask
<1>1. PICK c : Lists(c, allocated, head, tail, size, heap)
  BY DEF QueueInv
<1>2. /\ Len(c) \in Nat /\ Contents \in Seq(JobSet) /\ Len(Contents) = Len(c) /\ size = Len(c)
  BY <1>1, Seen DEF Lists
<1>3. UNCHANGED <<listVars, last_user_id>>
  BY DEF queue_size, queue_is_empty, queue_copy_to_array
<1>4. QueueInv' /\ Contents' = Contents
  BY <1>3, FrameStep
<1>5. CASE queue_size
  BY <1>2, <1>3, <1>4, <1>5 DEF queue_size, Sequence!Ask, Returns, Sequence!Returns
<1>6. CASE queue_is_empty
  <2>1. size = 0 <=> Contents = <<>>
    BY <1>2
  <2> QED
    BY <1>3, <1>4, <1>6, <2>1 DEF queue_is_empty, Sequence!Ask, Returns, Sequence!Returns
<1>7. CASE queue_copy_to_array
  <2>1. Min({size, Len(Contents)}) = Len(Contents)
    <3>1. /\ {Len(Contents)} \in SUBSET Nat /\ {Len(Contents)} # {}
          /\ {size, Len(Contents)} = {Len(Contents)}
      BY <1>2
    <3>2. Min({Len(Contents)}) \in {Len(Contents)}
      BY <3>1, LeastNumber
    <3> QED
      BY <3>1, <3>2
  <2>2. SubSeq(Contents, 1, Len(Contents)) = Contents
    BY <1>2
  <2> QED
    BY <1>3, <1>4, <1>7, <2>1, <2>2
    DEF queue_copy_to_array, Sequence!queue_copy_to_array, Sequence!Ask, Returns, Sequence!Returns
<1> QED
  BY <1>5, <1>6, <1>7

LEMMA StepKeepsQueue ==
    ASSUME QueueInv, [QueueNext]_queueVars
    PROVE  QueueInv' /\ [Sequence!SeqNext]_<<Contents, last_user_id, out>>
<1>1. CASE UNCHANGED queueVars
  <2>1. QueueInv' /\ Contents' = Contents
    BY <1>1, FrameStep DEF queueVars
  <2> QED
    BY <1>1, <2>1 DEF queueVars
<1>2. CASE queue_create \/ queue_destroy
  <2>1. QueueInv' /\ Contents' = <<>>
    BY <1>2, ClearStep
  <2>2. UNCHANGED <<last_user_id, out>>
    BY <1>2 DEF queue_create, queue_destroy
  <2> QED
    BY <2>1, <2>2 DEF Sequence!SeqNext, Sequence!Clear
<1>3. CASE allocated /\ queue_dequeue
  BY <1>3, HeadCall DEF Sequence!SeqNext
<1>4. CASE allocated /\ queue_dequeue_random
  BY <1>4, RandomCall DEF Sequence!SeqNext
<1>5. CASE queue_size \/ queue_is_empty \/ queue_copy_to_array
  BY <1>5, QueryCall DEF Sequence!SeqNext
<1>6. ASSUME allocated, NEW fair_users \in FairOrders, queue_dequeue_fair(fair_users)
      PROVE  QueueInv' /\ Sequence!SeqNext
  BY <1>6, FairCall DEF Sequence!SeqNext
<1>7. ASSUME allocated, NEW job \in JobSet,
             queue_enqueue(job) \/ queue_remove_by_command_id(job.command_id)
      PROVE  QueueInv' /\ Sequence!SeqNext
  BY <1>7, EnqueueCall, RemoveCall DEF Sequence!SeqNext
<1> QED
  BY <1>1, <1>2, <1>3, <1>4, <1>5, <1>6, <1>7 DEF QueueNext

LEMMA InitialQueue ==
    ASSUME QueueInit
    PROVE  QueueInv /\ Sequence!SeqInit
<1>1. Lists(<<>>, allocated, head, tail, size, heap)
  <2>1. heap = <<>> /\ DOMAIN heap = {}
    BY DEF QueueInit
  <2>2. heap \in [DOMAIN heap -> [job : JobSet, next : Addr \cup {NULL}]]
    BY <2>1
  <2> QED
    BY <2>1, <2>2 DEF QueueInit, Lists, Linked, LastOf
<1>2. Contents = <<>>
  <2>1. Contents = JobsOf(<<>>, heap)
    BY <1>1, Seen
  <2> QED
    BY <2>1 DEF JobsOf
<1> QED
  BY <1>1, <1>2 DEF QueueInv, QueueInit, Sequence!SeqInit, Sequence!NoUser

------------------------------------------------------------------------------
(* The theorems *)

\* Whatever mix of queue_enqueue and of the four ways to unlink a node is
\* called, with or without memory, the nodes the walk from head meets are
\* exactly the memory that is allocated, tail is the last of them and size
\* their number: no node leaks, none is used after free, and there is no cycle.
THEOREM ListStaysWellFormed == QueueSpec => []ListWellFormed
<1>1. ASSUME QueueInv PROVE ListWellFormed
  <2>1. PICK c : Lists(c, allocated, head, tail, size, heap)
    BY <1>1 DEF QueueInv
  <2>2. Chain = c /\ Len(c) \in Nat /\ DOMAIN Chain = 1..Len(c)
    BY <2>1, Seen
  <2>3. Linked(c, head, heap) /\ tail = LastOf(c) /\ size = Len(c)
    BY <2>1 DEF Lists
  <2>4. c = <<>> <=> Len(c) = 0
    BY <2>3 DEF Linked
  <2>5. ToSet(c) = DOMAIN heap
    BY <2>2, <2>3 DEF Linked, ToSet
  <2>6. c # <<>> => Head(c) = c[1] /\ Last(c) = c[Len(c)] /\ heap[c[Len(c)]].next = NULL
    BY <2>2, <2>3, <2>4 DEF Linked, Last
  <2> QED
    BY <2>2, <2>3, <2>4, <2>5, <2>6 DEF ListWellFormed, LastOf, Linked
<1> QED
  BY <1>1, InitialQueue, StepKeepsQueue, PTL DEF QueueSpec

\* Every call on the linked list, the fair choice on the compact array of users
\* included, has the effect and the result of the operator of Scheduler that
\* the controller's model uses for it, for any memory and any orders of users.
THEOREM ListImplementsSequence == QueueSpec => ImplementsSequence
<1> QED
  BY InitialQueue, StepKeepsQueue, PTL DEF QueueSpec, ImplementsSequence, Sequence!SequenceSpec
==============================================================================
