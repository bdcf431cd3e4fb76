--------------------------- MODULE SchedulerProofs ---------------------------
(***************************************************************************)
(* Facts about the operators of Scheduler.tla that the proofs about the    *)
(* controller rest on: what removing a node leaves, and that whatever node *)
(* a policy selects is a node of the queue, the first one of its user      *)
(* under fair.                                                             *)
(***************************************************************************)
EXTENDS Scheduler, WellFoundedInduction, SequenceTheorems, TLAPS

\* A non-empty set of natural numbers has a least element, and Min is it.
LEMMA MinIsLeast ==
    ASSUME NEW T \in SUBSET Nat, T # {}
    PROVE  Min(T) \in T /\ \A y \in T : Min(T) <= y
<1> DEFINE R == OpToRel(<, Nat)
<1>1. PICK x \in T : \A y \in T : ~(<<y, x>> \in R)
  BY NatLessThanWellFounded, WFMin, Zenon
<1>2. \A y \in T : x <= y
  <2> SUFFICES ASSUME NEW y \in T PROVE x <= y
    OBVIOUS
  <2>1. ~(<<y, x>> \in R)
    BY <1>1
  <2>2. ~(y < x)
    BY <2>1 DEF OpToRel
  <2> QED
    BY <2>2
<1> QED
  BY <1>2 DEF Min

\* RemoveAt, the unlinking of one node, keeps the other nodes in order.
LEMMA RemoveAtProperties ==
    ASSUME NEW S, NEW q \in Seq(S), NEW i \in 1..Len(q)
    PROVE  /\ RemoveAt(q, i) \in Seq(S)
           /\ Len(RemoveAt(q, i)) = Len(q) - 1
           /\ \A j \in 1..(Len(q) - 1) :
                 RemoveAt(q, i)[j] = IF j < i THEN q[j] ELSE q[j + 1]
<1> DEFINE a == SubSeq(q, 1, i - 1)
           b == SubSeq(q, i + 1, Len(q))
<1>0. Len(q) \in Nat /\ i \in Nat /\ i >= 1 /\ i <= Len(q)
  OBVIOUS
<1>1. a \in Seq(S) /\ Len(a) = i - 1 /\ \A j \in 1..(i - 1) : a[j] = q[j]
  OBVIOUS
<1>2. /\ b \in Seq(S) /\ Len(b) = Len(q) - i
      /\ \A j \in 1..(Len(q) - i) : b[j] = q[i + j]
  OBVIOUS
<1>3. RemoveAt(q, i) = a \o b
  BY DEF RemoveAt
<1> HIDE DEF a, b
<1>4. a \o b \in Seq(S) /\ Len(a \o b) = Len(q) - 1
  <2>1. a \o b \in Seq(S) /\ Len(a \o b) = Len(a) + Len(b)
    BY <1>1, <1>2, ConcatProperties, Zenon
  <2> QED
    BY <1>0, <1>1, <1>2, <2>1
<1>5. ASSUME NEW j \in 1..(Len(q) - 1)
      PROVE  (a \o b)[j] = IF j < i THEN q[j] ELSE q[j + 1]
  <2>1. CASE j < i
    BY <1>0, <1>1, <1>2, <2>1
  <2>2. CASE j >= i
    <3>1. (a \o b)[j] = b[j - Len(a)]
      BY <1>0, <1>1, <1>2, <2>2
    <3>2. b[j - Len(a)] = q[i + (j - Len(a))]
      BY <1>0, <1>1, <1>2, <2>2
    <3> QED
      BY <1>0, <1>1, <2>2, <3>1, <3>2
  <2>3. j < i \/ j >= i
    BY <1>0
  <2> QED
    BY <2>1, <2>2, <2>3, Zenon
<1> QED
  BY <1>3, <1>4, <1>5

\* queue_remove_by_command_id finds a node of the queue whenever there is one.
LEMMA FoundNode ==
    ASSUME NEW S, NEW q \in Seq(S), NEW c, NodesOfCommand(q, c) # {}
    PROVE  Min(NodesOfCommand(q, c)) \in 1..Len(q)
<1>1. NodesOfCommand(q, c) \in SUBSET (1..Len(q))
  BY DEF NodesOfCommand
<1>2. NodesOfCommand(q, c) \in SUBSET Nat
  BY <1>1
<1>3. Min(NodesOfCommand(q, c)) \in NodesOfCommand(q, c)
  BY <1>2, MinIsLeast, Zenon
<1> QED
  BY <1>1, <1>3

\* The user choose_next_fair_user returns for a non-empty queue has a job in
\* it, whatever the remembered users and the last scheduled one are.
LEMMA ChosenUserIsActive ==
    ASSUME NEW S, NEW q \in Seq(S), q # <<>>, NEW fu \in Seq(Int), NEW last
    PROVE  user_exists(q, choose_next_fair_user(q, fu, last))
<1>1. DOMAIN q = 1..Len(q) /\ Len(q) \in Nat /\ Len(q) >= 1
  OBVIOUS
<1>2. user_exists(q, q[1].user_id)
  BY <1>1 DEF user_exists
<1>3. user_exists(q, choose_next_user(q, last))
  <2> DEFINE after == {j \in FirstNodes(q) :
                         \E i \in FirstNodes(q) : q[i].user_id = last /\ i < j}
  <2>1. CASE after = {}
    <3>1. choose_next_user(q, last) = q[1].user_id
      BY <2>1 DEF choose_next_user
    <3> QED
      BY <1>2, <3>1
  <2>2. CASE after # {}
    <3>1. after \in SUBSET (1..Len(q))
      BY <1>1 DEF FirstNodes
    <3>2. after \in SUBSET Nat
      BY <3>1
    <3> HIDE DEF after
    <3>3. Min(after) \in after
      BY <2>2, <3>2, MinIsLeast, Zenon
    <3>4. choose_next_user(q, last) = q[Min(after)].user_id
      BY <2>2 DEF choose_next_user, after
    <3> QED
      BY <1>1, <3>1, <3>3, <3>4 DEF user_exists
  <2> QED
    BY <2>1, <2>2
<1> DEFINE hits == {o \in 1..Len(fu) : user_exists(q, UserAt(fu, last, o))}
<1>4. CASE fu = <<>>
  <2>1. choose_next_fair_user(q, fu, last) = choose_next_user(q, last)
    BY <1>4 DEF choose_next_fair_user
  <2> QED
    BY <1>3, <2>1
<1>5. CASE fu # <<>> /\ hits = {}
  <2>1. choose_next_fair_user(q, fu, last) = Head(q).user_id
    BY <1>5 DEF choose_next_fair_user
  <2>2. Head(q) = q[1]
    BY <1>1
  <2> QED
    BY <1>2, <2>1, <2>2
<1>6. CASE fu # <<>> /\ hits # {}
  <2>1. hits \in SUBSET Nat
    OBVIOUS
  <2>2. Min(hits) \in hits
    BY <1>6, <2>1, MinIsLeast, Zenon
  <2>3. choose_next_fair_user(q, fu, last) = UserAt(fu, last, Min(hits))
    BY <1>6 DEF choose_next_fair_user
  <2>4. user_exists(q, UserAt(fu, last, Min(hits)))
    BY <2>2
  <2> QED
    BY <2>3, <2>4
<1> QED
  BY <1>4, <1>5, <1>6

\* The node queue_dequeue_fair unlinks is in the queue and is the oldest one
\* of its user.
LEMMA FairNodeIsFirstOfUser ==
    ASSUME NEW S, NEW q \in Seq(S), q # <<>>, NEW fu \in Seq(Int), NEW last
    PROVE  LET i == FairNode(q, fu, last) IN
           /\ i \in 1..Len(q)
           /\ \A j \in 1..(i - 1) : q[j].user_id # q[i].user_id
<1> DEFINE u == choose_next_fair_user(q, fu, last)
           nodes == {i \in DOMAIN q : q[i].user_id = u}
<1>1. user_exists(q, u)
  BY ChosenUserIsActive
<1> HIDE DEF u
<1>2. nodes \in SUBSET (1..Len(q)) /\ nodes # {}
  BY <1>1 DEF user_exists
<1>3. nodes \in SUBSET Nat
  BY <1>2
<1>4. Min(nodes) \in nodes /\ \A y \in nodes : Min(nodes) <= y
  BY <1>2, <1>3, MinIsLeast, Zenon
<1>5. FairNode(q, fu, last) = Min(nodes)
  BY DEF FairNode, FirstOf, u
<1>6. Min(nodes) \in 1..Len(q) /\ q[Min(nodes)].user_id = u
  BY <1>2, <1>4
<1>7. ASSUME NEW j \in 1..(Min(nodes) - 1) PROVE q[j].user_id # u
  <2>1. j \in 1..Len(q) /\ ~(Min(nodes) <= j)
    BY <1>6
  <2>2. j \notin nodes
    BY <1>4, <2>1
  <2> QED
    BY <2>1, <2>2
<1> QED
  BY <1>5, <1>6, <1>7

\* Whatever the policy, and whether or not the fair dequeue ran out of memory,
\* the unlinked node is in the queue; it is the head under fcfs and the oldest
\* node of its user under fair.
LEMMA DequeuedNode ==
    ASSUME NEW S, NEW q \in Seq(S), q # <<>>, NEW fu \in Seq(Int), NEW last,
           NEW policy, NEW nomem \in BOOLEAN,
           NEW i \in DequeueNodes(policy, q, fu, last, nomem)
    PROVE  /\ i \in 1..Len(q)
           /\ policy \notin {"random", "fair"} => i = 1
           /\ policy = "fair" => \A j \in 1..(i - 1) : q[j].user_id # q[i].user_id
<1>1. 1 \in 1..Len(q) /\ 1..(1 - 1) = {} /\ DOMAIN q = 1..Len(q)
  OBVIOUS
<1>2. CASE policy = "random"
  BY <1>1, <1>2 DEF DequeueNodes
<1>3. CASE policy = "fair"
  <2>1. i = FairNode(q, fu, last) \/ i = 1
    BY <1>3 DEF DequeueNodes
  <2> QED
    BY <1>1, <1>3, <2>1, FairNodeIsFirstOfUser
<1>4. CASE policy \notin {"random", "fair"}
  BY <1>1, <1>4 DEF DequeueNodes
<1> QED
  BY <1>2, <1>3, <1>4

\* Appending a job adds it, and nothing else, to the jobs of a queue.
LEMMA AppendedJobs ==
    ASSUME NEW S, NEW q \in Seq(S), NEW x \in S
    PROVE  ToSet(Append(q, x)) = ToSet(q) \cup {x}
<1>1. /\ Append(q, x) \in Seq(S) /\ Len(Append(q, x)) = Len(q) + 1 /\ Len(q) \in Nat
      /\ \A j \in 1..Len(q) : Append(q, x)[j] = q[j]
      /\ Append(q, x)[Len(q) + 1] = x
  OBVIOUS
<1>2. DOMAIN Append(q, x) = DOMAIN q \cup {Len(q) + 1} /\ DOMAIN q = 1..Len(q)
  BY <1>1
<1>3. ASSUME NEW y \in ToSet(Append(q, x)) PROVE y \in ToSet(q) \cup {x}
  BY <1>1, <1>2 DEF ToSet
<1>4. ASSUME NEW y \in ToSet(q) \cup {x} PROVE y \in ToSet(Append(q, x))
  BY <1>1, <1>2 DEF ToSet
<1> QED
  BY <1>3, <1>4

\* A node left by RemoveAt is another node of the queue.
LEMMA RemainingNodes ==
    ASSUME NEW S, NEW q \in Seq(S), NEW i \in 1..Len(q)
    PROVE  \A y \in ToSet(RemoveAt(q, i)) : \E j \in 1..Len(q) : j # i /\ y = q[j]
<1>1. SUFFICES ASSUME NEW y \in ToSet(RemoveAt(q, i))
               PROVE  \E j \in 1..Len(q) : j # i /\ y = q[j]
  OBVIOUS
<1>2. /\ RemoveAt(q, i) \in Seq(S) /\ Len(RemoveAt(q, i)) = Len(q) - 1
      /\ \A j \in 1..(Len(q) - 1) :
            RemoveAt(q, i)[j] = IF j < i THEN q[j] ELSE q[j + 1]
  BY RemoveAtProperties
<1>3. PICK k \in 1..(Len(q) - 1) : y = RemoveAt(q, i)[k]
  BY <1>2 DEF ToSet
<1>4. CASE k < i
  BY <1>2, <1>3, <1>4
<1>5. CASE ~(k < i)
  <2>1. k + 1 \in 1..Len(q) /\ k + 1 # i /\ y = q[k + 1]
    BY <1>2, <1>3, <1>5
  <2> QED
    BY <2>1
<1> QED
  BY <1>4, <1>5
==============================================================================
