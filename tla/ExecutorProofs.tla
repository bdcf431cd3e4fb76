--------------------------- MODULE ExecutorProofs ---------------------------
(***************************************************************************)
(* Theorems about execute_pipeline (Executor.tla), for pipelines of any    *)
(* length, pipes of any size, any mix of programs and any failure of       *)
(* pipe(), fork() or the set-up of a child.                                *)
(***************************************************************************)
EXTENDS Executor, FiniteSetTheorems, TLAPS

USE ExecutorAssumption

\* Only a child that lives holds pipe ends.
LivingHold ==
    \A p \in Children : child[p] \in {"none", "ok", "bad"} => ends[p] = {}

\* The runner holds ends of pipes between two stages of the command only.
WithinCommand ==
    \A k \in Children :
        <<k, "r">> \in ends[0] \/ <<k, "w">> \in ends[0] => k < num_stages

\* The children are forked in the order of the stages.
ForkedInOrder ==
    /\ xpc = "idle" => i = 1 /\ \A p \in Children : child[p] = "none"
    /\ xpc \in {"pipe", "fork", "drain"} =>
          i <= num_stages /\ \A p \in Children : child[p] # "none" <=> p < i
    /\ xpc = "close" =>
          i <= num_stages /\ \A p \in Children : child[p] # "none" <=> p <= i
    /\ xpc = "wait" =>
          cmd # <<>> /\ \A p \in Children : child[p] # "none" <=> p <= num_stages

\* Only children that have ended are reaped, none before the waits, and the
\* flag says whether one of them failed.
ReapedSoFar ==
    /\ \A p \in reaped : child[p] \in {"ok", "bad"}
    /\ xpc \in {"idle", "pipe", "fork", "close"} => reaped = {} /\ ~any_child_failed
    /\ xpc = "wait" => (any_child_failed <=> \E p \in reaped : child[p] = "bad")

\* The inductive invariant.
ExecInv ==
    /\ ExecTypeOK
    /\ PipeEndsConfined
    /\ LivingHold
    /\ WithinCommand
    /\ ForkedInOrder
    /\ ReapedSoFar
    /\ NothingLeftBehind
    /\ ResultCoversAll

ExecNext ==
    \/ ExecStep
    \/ \E n \in 0..StageLimit : \E stages \in [1..n -> Stages] : execute_pipeline(stages)

\* Before execute_pipeline is called the invariant holds.
LEMMA InitInv == ExecInit => ExecInv
<1> SUFFICES ASSUME ExecInit PROVE ExecInv
  OBVIOUS
<1>1. cmd \in Seq(Stages) /\ Len(cmd) = 0
  BY DEF ExecInit
<1>2. ExecTypeOK
  BY <1>1 DEF ExecInit, ExecTypeOK, Children, Processes
<1>3. PipeEndsConfined /\ LivingHold /\ WithinCommand
  BY DEF ExecInit, PipeEndsConfined, LivingHold, WithinCommand, Children, Processes
<1>4. ForkedInOrder /\ ReapedSoFar /\ NothingLeftBehind /\ ResultCoversAll
  BY DEF ExecInit, ForkedInOrder, ReapedSoFar, NothingLeftBehind, ResultCoversAll
<1> QED
  BY <1>2, <1>3, <1>4 DEF ExecInv

\* PipeEndsConfined, said of the runner.
LEMMA RunnerWindow ==
    ASSUME PipeEndsConfined, NEW k \in Children
    PROVE  /\ <<k, "w">> \in ends[0] => i = k /\ xpc \in {"fork", "close"}
           /\ <<k, "r">> \in ends[0] =>
                 \/ i = k /\ xpc \in {"fork", "close"}
                 \/ i = k + 1 /\ xpc \in {"pipe", "fork", "close"}
<1>1. 0 \in Processes /\ k # 0 /\ k + 1 # 0
  BY DEF Processes, Children
<1> QED
  BY <1>1 DEF PipeEndsConfined

\* Once the loop is left the runner holds no pipe end.
LEMMA RunnerHoldsNothing ==
    ASSUME ExecTypeOK, PipeEndsConfined, xpc \in {"idle", "wait", "drain", "returned"}
    PROVE  ends[0] = {}
<1>1. ends[0] \subseteq Children \X {"r", "w"} /\ 0 \in Processes
  BY DEF ExecTypeOK, Processes
<1>2. \A k \in Children : <<k, "r">> \notin ends[0] /\ <<k, "w">> \notin ends[0]
  BY RunnerWindow
<1>3. \A e \in Children \X {"r", "w"} : e \notin ends[0]
  <2> TAKE e \in Children \X {"r", "w"}
  <2>1. e = <<e[1], e[2]>> /\ e[1] \in Children /\ (e[2] = "r" \/ e[2] = "w")
    OBVIOUS
  <2> QED
    BY <1>2, <2>1
<1> QED
  BY <1>1, <1>3

\* All children that exist have been reaped when as many were reaped as exist.
LEMMA AllReaped ==
    ASSUME ExecTypeOK, ReapedSoFar, Cardinality(reaped) = children_created
    PROVE  reaped = {p \in Children : child[p] # "none"}
<1> DEFINE Created == {p \in Children : child[p] # "none"}
<1>1. IsFiniteSet(Children)
  BY FS_Interval DEF Children
<1>2. Created \in SUBSET Children
  OBVIOUS
<1>3. IsFiniteSet(Created)
  BY <1>1, <1>2, FS_Subset
<1>4. reaped \in SUBSET Created
  BY DEF ExecTypeOK, ReapedSoFar
<1>5. Cardinality(Created) = Cardinality(reaped)
  BY DEF children_created
<1> HIDE DEF Created
<1>6. reaped = Created
  BY <1>3, <1>4, <1>5, FS_Subset
<1> QED
  BY <1>6 DEF Created

------------------------------------------------------------------------------
(* The runner's steps *)

\* execute_pipeline is called: nothing is held yet, and a command without
\* stages is refused at once.
LEMMA StartKeeps ==
    ASSUME ExecInv, NEW n \in 0..StageLimit, NEW stages \in [1..n -> Stages],
           execute_pipeline(stages)
    PROVE  ExecInv'
<1> USE DEF ExecInv, execute_pipeline, childVars
<1>1. stages \in Seq(Stages) /\ Len(stages) = n /\ (stages = <<>> <=> n = 0)
  OBVIOUS
<1>2. ends[0] = {}
  BY RunnerHoldsNothing
<1>3. ExecTypeOK'
  BY <1>1 DEF ExecTypeOK
<1>4. PipeEndsConfined' /\ LivingHold' /\ WithinCommand'
  BY <1>2 DEF PipeEndsConfined, LivingHold, WithinCommand, Processes, Children
<1>5. ForkedInOrder'
  BY <1>1 DEF ForkedInOrder, Children, num_stages
<1>6. ReapedSoFar'
  BY DEF ReapedSoFar
<1>7. NothingLeftBehind'
  BY <1>2 DEF NothingLeftBehind, ForkedInOrder, LivingHold, Children, Processes
<1>8. ResultCoversAll'
  BY DEF ResultCoversAll
<1> QED
  BY <1>3, <1>4, <1>5, <1>6, <1>7, <1>8

\* pipe() gives the runner the two ends of the pipe behind stage i.
LEMMA CreatePipeKeeps ==
    ASSUME ExecInv, CreatePipe
    PROVE  ExecInv'
<1> USE DEF ExecInv, CreatePipe, childVars
<1>0. i \in Children /\ 0 \in Processes /\ num_stages \in Nat /\ num_stages' = num_stages
  BY DEF ExecTypeOK, ForkedInOrder, Children, Processes, num_stages
<1>1. /\ ends' \in [Processes -> SUBSET (Children \X {"r", "w"})]
      /\ \A p \in Children : ends'[p] = ends[p]
      /\ ends'[0] = ends[0] \cup (IF i < num_stages THEN {<<i, "r">>, <<i, "w">>} ELSE {})
  BY <1>0 DEF ExecTypeOK, Children, Processes
<1>2. ExecTypeOK'
  BY <1>1 DEF ExecTypeOK
<1>3. PipeEndsConfined'
  BY <1>0, <1>1 DEF PipeEndsConfined, Children, Processes
<1>4. LivingHold' /\ WithinCommand'
  BY <1>0, <1>1 DEF LivingHold, WithinCommand, Children
<1>5. ForkedInOrder' /\ ReapedSoFar' /\ NothingLeftBehind' /\ ResultCoversAll'
  BY <1>0 DEF ForkedInOrder, ReapedSoFar, NothingLeftBehind, ResultCoversAll
<1> QED
  BY <1>2, <1>3, <1>4, <1>5

\* The child of stage i inherits what the runner holds: the read end before it
\* and both ends behind it.
LEMMA ForkKeeps ==
    ASSUME ExecInv, Fork
    PROVE  ExecInv'
<1> USE DEF ExecInv, Fork
<1>0. /\ i \in Children /\ i \in Processes /\ i # 0 /\ 0 \in Processes
      /\ num_stages \in Nat /\ num_stages' = num_stages
  BY DEF ExecTypeOK, ForkedInOrder, Children, Processes, num_stages
<1>1. /\ ends' \in [Processes -> SUBSET (Children \X {"r", "w"})]
      /\ \A p \in Processes : ends'[p] = IF p = i THEN ends[0] ELSE ends[p]
      /\ child' \in [Children -> {"none", "forked", "running", "ok", "bad"}]
      /\ \A p \in Children : child'[p] = IF p = i THEN "forked" ELSE child[p]
  BY <1>0 DEF ExecTypeOK
<1>2. ExecTypeOK'
  BY <1>1 DEF ExecTypeOK
<1>3. PipeEndsConfined'
  <2> SUFFICES ASSUME NEW p \in Processes, NEW k \in Children
               PROVE  /\ <<k, "w">> \in ends'[p] => p = k \/ (p = 0 /\ i = k)
                      /\ <<k, "r">> \in ends'[p] =>
                            \/ p = k + 1
                            \/ p = k /\ child'[p] = "forked"
                            \/ p = 0 /\ (i = k \/ i = k + 1)
    BY DEF PipeEndsConfined
  <2>1. CASE p = i
    BY <1>0, <1>1, <2>1, RunnerWindow
  <2>2. CASE p # i
    <3>1. ends'[p] = ends[p] /\ (p = k => child'[p] = child[p])
      BY <1>1, <2>2
    <3> QED
      BY <3>1 DEF PipeEndsConfined
  <2> QED
    BY <2>1, <2>2
<1>4. LivingHold' /\ WithinCommand'
  BY <1>0, <1>1 DEF LivingHold, WithinCommand, Children, Processes
<1>5. ForkedInOrder'
  BY <1>0, <1>1 DEF ForkedInOrder, Children
<1>6. ReapedSoFar' /\ NothingLeftBehind' /\ ResultCoversAll'
  BY DEF ReapedSoFar, NothingLeftBehind, ResultCoversAll
<1> QED
  BY <1>2, <1>3, <1>4, <1>5, <1>6

\* After the closes the runner is left with the read end for the next stage,
\* or with nothing after the last.
LEMMA CloseEndsKeeps ==
    ASSUME ExecInv, CloseEnds
    PROVE  ExecInv'
<1> USE DEF ExecInv, CloseEnds, childVars
<1>0. /\ i \in Children /\ 0 \in Processes /\ i <= num_stages
      /\ num_stages \in Nat /\ num_stages <= StageLimit /\ num_stages' = num_stages
      /\ cmd # <<>>
  BY DEF ExecTypeOK, ForkedInOrder, Children, Processes, num_stages
<1>1. /\ ends' \in [Processes -> SUBSET (Children \X {"r", "w"})]
      /\ \A p \in Children : ends'[p] = ends[p]
      /\ ends'[0] = ends[0] \ {<<i - 1, "r">>, <<i, "w">>}
  BY <1>0 DEF ExecTypeOK, ClosedAfterFork, Children, Processes
<1>2. ExecTypeOK'
  BY <1>0, <1>1 DEF ExecTypeOK, Children
<1>3. PipeEndsConfined'
  <2>1. \A k \in Children : <<k, "w">> \notin ends'[0]
    BY <1>1, RunnerWindow
  <2>2. \A k \in Children : <<k, "r">> \in ends'[0] => k = i /\ i < num_stages
    <3> TAKE k \in Children
    <3> HAVE <<k, "r">> \in ends'[0]
    <3>1. <<k, "r">> \in ends[0] /\ k # i - 1
      BY <1>1
    <3>2. k < num_stages
      BY <3>1 DEF WithinCommand
    <3>3. i = k \/ i = k + 1
      BY <3>1, RunnerWindow
    <3> QED
      BY <1>0, <3>1, <3>2, <3>3 DEF Children
  <2> QED
    BY <1>0, <1>1, <2>1, <2>2 DEF PipeEndsConfined, Children, Processes
<1>4. LivingHold' /\ WithinCommand'
  BY <1>0, <1>1 DEF LivingHold, WithinCommand, Children
<1>5. ForkedInOrder'
  BY <1>0 DEF ForkedInOrder, Children
<1>6. ReapedSoFar' /\ NothingLeftBehind' /\ ResultCoversAll'
  BY DEF ReapedSoFar, NothingLeftBehind, ResultCoversAll
<1> QED
  BY <1>2, <1>3, <1>4, <1>5, <1>6

\* When pipe() or fork() fails the runner closes all it holds.
LEMMA CallFailsKeeps ==
    ASSUME ExecInv, CallFails
    PROVE  ExecInv'
<1> USE DEF ExecInv, CallFails, childVars
<1>0. /\ i \in Children /\ 0 \in Processes
      /\ num_stages \in Nat /\ num_stages' = num_stages
  BY DEF ExecTypeOK, ForkedInOrder, Children, Processes, num_stages
<1>1. /\ ends' \in [Processes -> SUBSET (Children \X {"r", "w"})]
      /\ \A p \in Children : ends'[p] = ends[p]
      /\ ends'[0] = ends[0] \ {<<i - 1, "r">>, <<i, "r">>, <<i, "w">>}
  BY <1>0 DEF ExecTypeOK, ClosedOnFailure, Children, Processes
<1>2. ExecTypeOK'
  BY <1>1 DEF ExecTypeOK
<1>3. PipeEndsConfined'
  <2>1. \A k \in Children : <<k, "w">> \notin ends'[0] /\ <<k, "r">> \notin ends'[0]
    <3> TAKE k \in Children
    <3>1. /\ <<k, "w">> \in ends'[0] => <<k, "w">> \in ends[0] /\ k # i
          /\ <<k, "r">> \in ends'[0] => <<k, "r">> \in ends[0] /\ k # i /\ k # i - 1
      BY <1>1
    <3> QED
      BY <1>0, <3>1, RunnerWindow DEF Children
  <2>2. ASSUME NEW p \in Children, NEW k \in Children
        PROVE  /\ <<k, "w">> \in ends'[p] => p = k
               /\ <<k, "r">> \in ends'[p] => p = k + 1 \/ (p = k /\ child'[p] = "forked")
    <3>1. p \in Processes /\ p # 0 /\ UNCHANGED child
      BY DEF Children, Processes
    <3> QED
      BY <1>1, <3>1 DEF PipeEndsConfined
  <2>3. Processes = {0} \cup Children
    BY <1>0 DEF Children, Processes
  <2> QED
    BY <2>1, <2>2, <2>3 DEF PipeEndsConfined
<1>4. LivingHold' /\ WithinCommand'
  BY <1>0, <1>1 DEF LivingHold, WithinCommand, Children
<1>5. ForkedInOrder' /\ ReapedSoFar' /\ NothingLeftBehind' /\ ResultCoversAll'
  BY <1>0 DEF ForkedInOrder, ReapedSoFar, NothingLeftBehind, ResultCoversAll
<1> QED
  BY <1>2, <1>3, <1>4, <1>5

\* wait() reaps a child that has ended.
LEMMA WaitKeeps ==
    ASSUME ExecInv, Wait
    PROVE  ExecInv'
<1> USE DEF ExecInv, Wait, childVars
<1>1. PICK p \in Ended :
         /\ reaped' = reaped \cup {p}
         /\ any_child_failed' = IF xpc = "wait" THEN FailedSoFar(p) ELSE any_child_failed
  OBVIOUS
<1>2. p \in Children /\ child[p] \in {"ok", "bad"}
  BY DEF Ended
<1>3. ExecTypeOK'
  BY <1>1, <1>2 DEF ExecTypeOK, FailedSoFar
<1>4. PipeEndsConfined' /\ LivingHold' /\ WithinCommand' /\ ForkedInOrder'
  BY DEF PipeEndsConfined, LivingHold, WithinCommand, ForkedInOrder, num_stages
<1>5. ReapedSoFar'
  BY <1>1, <1>2 DEF ReapedSoFar, FailedSoFar
<1>6. NothingLeftBehind' /\ ResultCoversAll'
  BY DEF NothingLeftBehind, ResultCoversAll
<1> QED
  BY <1>3, <1>4, <1>5, <1>6

\* All children are reaped, so the flag covers every stage; on the failure path
\* stage i has no child.
LEMMA ReturnKeeps ==
    ASSUME ExecInv, Return
    PROVE  ExecInv'
<1> USE DEF ExecInv, Return, childVars
<1>1. ends[0] = {}
  BY RunnerHoldsNothing
<1>2. reaped = {p \in Children : child[p] # "none"}
  BY AllReaped
<1>3. ExecTypeOK'
  BY DEF ExecTypeOK
<1>4. PipeEndsConfined' /\ LivingHold' /\ WithinCommand'
  BY <1>1 DEF PipeEndsConfined, LivingHold, WithinCommand, Processes, Children
<1>5. ForkedInOrder' /\ ReapedSoFar'
  BY DEF ForkedInOrder, ReapedSoFar
<1>6. NothingLeftBehind'
  BY <1>1, <1>2 DEF NothingLeftBehind, ReapedSoFar, LivingHold, Children, Processes
<1>7. ResultCoversAll'
  <2>0. num_stages \in Nat /\ num_stages <= StageLimit /\ num_stages' = num_stages
    BY DEF ExecTypeOK, num_stages
  <2>1. CASE xpc = "drain"
    <3>1. i \in 1..num_stages /\ child[i] = "none"
      BY <2>0, <2>1 DEF ForkedInOrder, ExecTypeOK, Children
    <3> QED
      BY <2>0, <2>1, <3>1 DEF ResultCoversAll
  <2>2. CASE xpc = "wait"
    <3>1. cmd # <<>> /\ \A p \in Children : p \in reaped <=> p <= num_stages
      BY <1>2, <2>2 DEF ForkedInOrder
    <3>2. 1..num_stages = reaped
      <4>1. /\ reaped \subseteq 1..StageLimit
            /\ \A p \in 1..StageLimit : p \in reaped <=> p <= num_stages
        BY <3>1 DEF ExecTypeOK, Children
      <4>2. \A p \in reaped : p \in 1..num_stages
        BY <2>0, <4>1
      <4>3. \A p \in 1..num_stages : p \in reaped
        BY <2>0, <4>1
      <4> QED
        BY <4>2, <4>3
    <3>3. any_child_failed <=> \E p \in 1..num_stages : child[p] # "ok"
      BY <2>2, <3>2 DEF ReapedSoFar
    <3> QED
      BY <2>0, <2>2, <3>1, <3>3 DEF ResultCoversAll
  <2> QED
    BY <2>1, <2>2
<1> QED
  BY <1>3, <1>4, <1>5, <1>6, <1>7

------------------------------------------------------------------------------
(* The children's steps *)

\* What a child holds and becomes, of the kinds of steps it can take, is all
\* that the invariant asks about: it ends and gives everything up, it starts a
\* program with the ends of its streams, or it keeps what it holds.
LEMMA ChildKeeps ==
    ASSUME ExecInv, NEW p \in Children, child[p] \in {"forked", "running"},
           UNCHANGED parentVars,
           NEW status \in {"running", "ok", "bad"},
           NEW held \in SUBSET {<<p - 1, "r">>, <<p, "w">>},
           held \subseteq Children \X {"r", "w"},
           status \in {"ok", "bad"} => held = {},
           child' = [child EXCEPT ![p] = status],
           ends' = [ends EXCEPT ![p] = held],
           program' \in [Children -> Programs \cup {"none"}],
           todo' \in [Children -> {0, 1}],
           pipe' \in [Children -> 0..PipeSize]
    PROVE  ExecInv'
<1> USE DEF ExecInv, parentVars
<1>0. /\ p \in Processes /\ p # 0 /\ 0 \in Processes /\ p \notin reaped
      /\ num_stages' = num_stages /\ i' = i /\ xpc' = xpc
  <2>1. p \in Processes /\ p # 0 /\ 0 \in Processes
    BY DEF Children, Processes
  <2>2. p \notin reaped
    BY DEF ReapedSoFar
  <2>3. num_stages' = num_stages /\ i' = i /\ xpc' = xpc
    BY DEF num_stages
  <2> QED
    BY <2>1, <2>2, <2>3
<1>1. /\ ends' \in [Processes -> SUBSET (Children \X {"r", "w"})]
      /\ \A q \in Processes : ends'[q] = IF q = p THEN held ELSE ends[q]
      /\ child' \in [Children -> {"none", "forked", "running", "ok", "bad"}]
      /\ \A q \in Children : child'[q] = IF q = p THEN status ELSE child[q]
  BY <1>0 DEF ExecTypeOK
<1>2. ExecTypeOK'
  BY <1>1 DEF ExecTypeOK
<1>3. PipeEndsConfined'
  <2> SUFFICES ASSUME NEW q \in Processes, NEW k \in Children
               PROVE  /\ <<k, "w">> \in ends'[q] =>
                            q = k \/ (q = 0 /\ i = k /\ xpc \in {"fork", "close"})
                      /\ <<k, "r">> \in ends'[q] =>
                            \/ q = k + 1
                            \/ q = k /\ child'[q] = "forked"
                            \/ q = 0 /\ i = k /\ xpc \in {"fork", "close"}
                            \/ q = 0 /\ i = k + 1 /\ xpc \in {"pipe", "fork", "close"}
    BY <1>0 DEF PipeEndsConfined
  <2>1. CASE q = p
    <3>1. <<k, "w">> \in held => k = p
      OBVIOUS
    <3>2. <<k, "r">> \in held => k = p - 1
      OBVIOUS
    <3> QED
      BY <1>1, <2>1, <3>1, <3>2 DEF Children
  <2>2. CASE q # p
    <3>1. ends'[q] = ends[q] /\ (q = k => child'[q] = child[q])
      BY <1>1, <2>2
    <3> QED
      BY <3>1 DEF PipeEndsConfined
  <2> QED
    BY <2>1, <2>2
<1>4. LivingHold' /\ WithinCommand'
  BY <1>0, <1>1 DEF LivingHold, WithinCommand, Children, Processes
<1>5. ForkedInOrder'
  BY <1>0, <1>1 DEF ForkedInOrder
<1>6. ReapedSoFar'
  BY <1>0, <1>1 DEF ReapedSoFar, ExecTypeOK
<1>7. xpc # "returned"
  BY <1>0 DEF NothingLeftBehind
<1>8. NothingLeftBehind' /\ ResultCoversAll'
  BY <1>7 DEF NothingLeftBehind, ResultCoversAll
<1> QED
  BY <1>2, <1>3, <1>4, <1>5, <1>6, <1>8

\* A child that ends gives up everything.
LEMMA EndingKeeps ==
    ASSUME ExecInv, NEW p \in Children, child[p] \in {"forked", "running"},
           NEW status \in {"ok", "bad"}, EndsWith(p, status),
           UNCHANGED <<parentVars, program, todo, pipe>>
    PROVE  ExecInv'
<1>1. /\ program' \in [Children -> Programs \cup {"none"}]
      /\ todo' \in [Children -> {0, 1}] /\ pipe' \in [Children -> 0..PipeSize]
  BY DEF ExecInv, ExecTypeOK
<1>2. /\ child' = [child EXCEPT ![p] = status]
      /\ ends' = [ends EXCEPT ![p] = {}]
  BY DEF EndsWith
<1> QED
  BY <1>1, <1>2, ChildKeeps

\* A child that starts its program is left with its streams.
LEMMA ChildExecKeeps ==
    ASSUME ExecInv, NEW p \in Children, ChildExec(p)
    PROVE  ExecInv'
<1>1. PICK what \in Programs :
         /\ program' = [program EXCEPT ![p] = what]
         /\ todo' = [todo EXCEPT ![p] = IF what \in {"write", "endless"} THEN 1 ELSE 0]
  BY DEF ChildExec
<1>2. /\ program' \in [Children -> Programs \cup {"none"}]
      /\ todo' \in [Children -> {0, 1}] /\ pipe' \in [Children -> 0..PipeSize]
  BY <1>1 DEF ChildExec, ExecInv, ExecTypeOK
<1>3. /\ Streams(p) \in SUBSET {<<p - 1, "r">>, <<p, "w">>}
      /\ Streams(p) \subseteq Children \X {"r", "w"}
  BY DEF Streams, Children
<1>4. /\ child[p] = "forked" /\ UNCHANGED parentVars
      /\ child' = [child EXCEPT ![p] = "running"]
      /\ ends' = [ends EXCEPT ![p] = Streams(p)]
  BY DEF ChildExec
<1> HIDE DEF Streams
<1> QED
  BY <1>2, <1>3, <1>4, ChildKeeps

\* A step of a running program that moves units and nothing else.
LEMMA TransferKeeps ==
    ASSUME ExecInv, UNCHANGED <<parentVars, ends, child, program>>,
           todo' \in [Children -> {0, 1}], pipe' \in [Children -> 0..PipeSize]
    PROVE  ExecInv'
<1> USE DEF ExecInv, parentVars
<1>1. ExecTypeOK'
  BY DEF ExecTypeOK
<1>2. PipeEndsConfined' /\ LivingHold' /\ WithinCommand' /\ ForkedInOrder'
  BY DEF PipeEndsConfined, LivingHold, WithinCommand, ForkedInOrder, num_stages
<1>3. ReapedSoFar' /\ NothingLeftBehind' /\ ResultCoversAll'
  BY DEF ReapedSoFar, NothingLeftBehind, ResultCoversAll, num_stages
<1> QED
  BY <1>1, <1>2, <1>3

\* No step of a child, whatever its program does, breaks the invariant.
LEMMA ChildStepKeeps ==
    ASSUME ExecInv, NEW p \in Children, ChildStep(p)
    PROVE  ExecInv'
<1>0. /\ ends \in [Processes -> SUBSET (Children \X {"r", "w"})]
      /\ todo \in [Children -> {0, 1}] /\ pipe \in [Children -> 0..PipeSize]
  BY DEF ExecInv, ExecTypeOK
<1>1. CASE ChildExec(p)
  BY <1>1, ChildExecKeeps
<1>2. CASE ChildSetupFails(p)
  BY <1>2, EndingKeeps DEF ChildSetupFails
<1>3. CASE ReadUnit(p)
  <2>1. p - 1 \in Children
    BY <1>0, <1>3 DEF ReadUnit, ReadsPipe, Children, Processes
  <2>2. todo' \in [Children -> {0, 1}] /\ pipe' \in [Children -> 0..PipeSize]
    BY <1>0, <1>3, <2>1 DEF ReadUnit
  <2> QED
    BY <1>3, <2>2, TransferKeeps DEF ReadUnit
<1>4. CASE WriteUnit(p)
  <2>1. todo' \in [Children -> {0, 1}] /\ pipe' \in [Children -> 0..PipeSize]
    BY <1>0, <1>4 DEF WriteUnit
  <2> QED
    BY <1>4, <2>1, TransferKeeps DEF WriteUnit
<1>5. CASE WriteFatal(p)
  BY <1>5, EndingKeeps DEF WriteFatal
<1>6. CASE Finish(p)
  BY <1>6, EndingKeeps DEF Finish
<1> QED
  BY <1>1, <1>2, <1>3, <1>4, <1>5, <1>6 DEF ChildStep

------------------------------------------------------------------------------
(* The theorems *)

\* The invariant is inductive.
LEMMA StepKeeps == ExecInv /\ [ExecNext]_execVars => ExecInv'
<1> SUFFICES ASSUME ExecInv, [ExecNext]_execVars PROVE ExecInv'
  OBVIOUS
<1>1. CASE ParentStep
  BY <1>1, CreatePipeKeeps, ForkKeeps, CloseEndsKeeps, CallFailsKeeps, WaitKeeps,
     ReturnKeeps DEF ParentStep
<1>2. CASE \E p \in Children : ChildStep(p)
  BY <1>2, ChildStepKeeps
<1>3. CASE \E n \in 0..StageLimit : \E stages \in [1..n -> Stages] :
              execute_pipeline(stages)
  BY <1>3, StartKeeps
<1>4. CASE UNCHANGED execVars
  BY <1>4, TransferKeeps DEF execVars, childVars, ExecInv, ExecTypeOK
<1> QED
  BY <1>1, <1>2, <1>3, <1>4 DEF ExecNext, ExecStep

\* The invariant holds throughout.
LEMMA Invariance == ExecSpec => []ExecInv
  BY InitInv, StepKeeps, PTL DEF ExecSpec, ExecNext

\* The state of execute_pipeline and of its children keeps its types.
THEOREM ExecTypeCorrect == ExecSpec => []ExecTypeOK
<1>1. ExecInv => ExecTypeOK
  BY DEF ExecInv
<1> QED
  BY <1>1, Invariance, PTL

\* No process ever holds a pipe end beyond the window the code needs it for,
\* so that no stage of a pipeline of any length waits for an end of file or a
\* SIGPIPE that a stray descriptor holds back.
THEOREM PipeEndsStayConfined == ExecSpec => []PipeEndsConfined
<1>1. ExecInv => PipeEndsConfined
  BY DEF ExecInv
<1> QED
  BY <1>1, Invariance, PTL

\* execute_pipeline returns, from its failure paths too, with every child
\* reaped and every pipe end closed.
THEOREM ReturnsClean == ExecSpec => []NothingLeftBehind
<1>1. ExecInv => NothingLeftBehind
  BY DEF ExecInv
<1> QED
  BY <1>1, Invariance, PTL

\* execute_pipeline returns 0 exactly when every stage was started and ended
\* with status 0.
THEOREM ResultRight == ExecSpec => []ResultCoversAll
<1>1. ExecInv => ResultCoversAll
  BY DEF ExecInv
<1> QED
  BY <1>1, Invariance, PTL
=============================================================================
