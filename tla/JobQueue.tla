------------------------------ MODULE JobQueue ------------------------------
(***************************************************************************)
(* The linked list of scheduler.c: head, tail and size of a job_queue_t,   *)
(* nodes that malloc() places at any free address and free() releases, and *)
(* the operations that walk the list with curr and prev and relink it.     *)
(*                                                                         *)
(* A pointer is an address of Addr or NULL.  heap is the memory that is    *)
(* allocated to nodes; reading through a pointer outside of it would be a  *)
(* use after free.  An operation runs to its end in one step: the          *)
(* controller is single-threaded and no operation calls the system.        *)
(***************************************************************************)
EXTENDS Integers, Sequences, FiniteSets, SequencesExt

CONSTANTS
    Addr,       \* where malloc() can place a node
    JobSet,     \* the jobs that may be enqueued: command_id and user_id
    FairOrders  \* the orders of known users that may be passed in

NULL == 0

ASSUME AddrAssumption == Addr \subseteq Nat \ {NULL} /\ IsFiniteSet(Addr)
ASSUME OrderAssumption == FairOrders \subseteq Seq(Int)

VARIABLES
    allocated,     \* queue_create has returned a queue and queue_destroy not freed it
    head, tail, size,
    heap,          \* the allocated nodes: address -> job and next
    last_user_id,
    out            \* the last call, what it returned and the jobs it handed out

listVars == <<allocated, head, tail, size, heap>>
queueVars == <<listVars, last_user_id, out>>

------------------------------------------------------------------------------
(* Walking the list *)

\* The addresses met from head along next, up to NULL or a freed node.
Chain ==
    LET at[n \in 1..Cardinality(Addr)] ==
            IF n = 1 THEN head
            ELSE LET prev == at[n - 1]
                 IN  IF prev \in DOMAIN heap THEN heap[prev].next ELSE NULL
        length == Cardinality({n \in DOMAIN at : at[n] \in DOMAIN heap})
    IN  [i \in 1..length |-> at[i]]

Contents == LET nodes == Chain IN [i \in DOMAIN nodes |-> heap[nodes[i]].job]

\* prev of the i-th node of the list.
Prev(i) == IF i = 1 THEN NULL ELSE Chain[i - 1]

\* The first node of the list whose job passes Test: the while loops of
\* queue_dequeue_fair and queue_remove_by_command_id, 0 when they run out.
FirstSuch(Test(_)) ==
    LET jobs == Contents
        hits == {i \in DOMAIN jobs : Test(jobs[i])}
    IN  IF hits = {} THEN 0 ELSE Min(hits)

------------------------------------------------------------------------------
(* Operations *)

Returns(call, ret, jobs) == out' = [call |-> call, ret |-> ret, jobs |-> jobs]

\* The call returns 0 and changes nothing.
Refuse(call) == Returns(call, 0, <<>>) /\ UNCHANGED <<listVars, last_user_id>>

queue_create ==
    /\ ~allocated
    /\ allocated' = TRUE
    /\ head' = NULL /\ tail' = NULL /\ size' = 0
    /\ UNCHANGED <<heap, last_user_id, out>>

\* Every node the walk meets is freed, then the queue itself.
queue_destroy ==
    /\ allocated
    /\ allocated' = FALSE
    /\ head' = NULL /\ tail' = NULL /\ size' = 0
    /\ heap' = [a \in DOMAIN heap \ ToSet(Chain) |-> heap[a]]
    /\ UNCHANGED <<last_user_id, out>>

queue_enqueue(job) ==
    \/ \E new_node \in Addr \ DOMAIN heap :
          /\ heap' = [a \in DOMAIN heap \cup {new_node} |->
                        IF a = new_node THEN [job |-> job, next |-> NULL]
                        ELSE IF a = tail THEN [heap[a] EXCEPT !.next = new_node]
                        ELSE heap[a]]
          /\ head' = IF tail = NULL THEN new_node ELSE head
          /\ tail' = new_node
          /\ size' = size + 1
          /\ Returns(<<"enqueue">>, 1, <<>>)
          /\ UNCHANGED <<allocated, last_user_id>>
    \/ Refuse(<<"enqueue">>)

\* Mutant: tail keeps pointing to the node that was freed.
TailForgotten(was_last, prev) == tail

TailAfter(was_last, prev) == IF was_last THEN prev ELSE tail

\* The i-th node is unlinked from its predecessor, or from head, and freed;
\* was_last is how the call recognises the last node.
Unlink(call, i, was_last) ==
    LET curr == Chain[i] IN
    /\ head' = IF i = 1 THEN heap[curr].next ELSE head
    /\ heap' = [a \in DOMAIN heap \ {curr} |->
                  IF a = Prev(i) THEN [heap[a] EXCEPT !.next = heap[curr].next]
                  ELSE heap[a]]
    /\ tail' = TailAfter(was_last, Prev(i))
    /\ size' = size - 1
    /\ Returns(call, 1, <<heap[curr].job>>)
    /\ UNCHANGED allocated

EndsAt(i) == heap[Chain[i]].next = NULL

IsTail(i) == tail = Chain[i]

\* queue_dequeue as it is called by the controller and by the other dequeues.
DequeueHead(call) == Unlink(call, 1, EndsAt(1))

queue_dequeue ==
    \/ head = NULL /\ Refuse(<<"fcfs">>)
    \/ head # NULL /\ DequeueHead(<<"fcfs">>) /\ UNCHANGED last_user_id

\* rand() % size picks the node; the walk gives up at the end of the list.
queue_dequeue_random ==
    \/ head = NULL /\ Refuse(<<"random">>)
    \/ /\ head # NULL
       /\ \E target_idx \in 0..(size - 1) :
             IF target_idx < Len(Chain)
             THEN /\ Unlink(<<"random">>, target_idx + 1, EndsAt(target_idx + 1))
                  /\ UNCHANGED last_user_id
             ELSE Refuse(<<"random">>)

\* The compact array of the users in the list, in order of first appearance.
ActiveUsers ==
    FoldLeft(LAMBDA users, job : IF job.user_id \in ToSet(users) THEN users
                                 ELSE Append(users, job.user_id),
             <<>>, Contents)

\* Zero-based index of the first entry of users that is user_id, or -1.
IndexOfUser(users, user_id) ==
    LET hits == {i \in DOMAIN users : users[i] = user_id}
    IN  IF hits = {} THEN -1 ELSE Min(hits) - 1

choose_next_user(users, last) ==
    LET last_idx == IndexOfUser(users, last)
    IN  IF last_idx = -1 \/ last_idx = Len(users) - 1 THEN users[1]
        ELSE users[last_idx + 2]

\* Mutant: the order of the known users is ignored.
ChooseAmongActive(users, fair_users, last) == choose_next_user(users, last)

choose_next_fair_user(users, fair_users, last) ==
    LET n == Len(fair_users)
        UserAt(offset) == fair_users[((IndexOfUser(fair_users, last) + offset + n) % n) + 1]
        offsets == {o \in 1..n : UserAt(o) \in ToSet(users)}
    IN  IF n = 0 THEN choose_next_user(users, last)
        ELSE IF offsets = {} THEN users[1]
        ELSE UserAt(Min(offsets))

\* Without memory for the array of users the head is taken.
queue_dequeue_fair(fair_users) ==
    LET call == <<"fair", fair_users>>
        target_user == choose_next_fair_user(ActiveUsers, fair_users, last_user_id)
        i == FirstSuch(LAMBDA job : job.user_id = target_user)
    IN
    \/ head = NULL /\ Refuse(call)
    \/ head # NULL /\ DequeueHead(call) /\ last_user_id' = heap[head].job.user_id
    \/ /\ head # NULL
       /\ IF i # 0 THEN Unlink(call, i, IsTail(i)) /\ last_user_id' = target_user
                   ELSE Refuse(call)

queue_remove_by_command_id(command_id) ==
    LET call == <<"remove", command_id>>
        i == FirstSuch(LAMBDA job : job.command_id = command_id)
    IN  \/ i # 0 /\ Unlink(call, i, IsTail(i)) /\ UNCHANGED last_user_id
        \/ i = 0 /\ Refuse(call)

\* queue_size and queue_get_size.
queue_size == Returns(<<"size">>, size, <<>>) /\ UNCHANGED <<listVars, last_user_id>>

queue_is_empty ==
    /\ Returns(<<"empty">>, IF size = 0 THEN 1 ELSE 0, <<>>)
    /\ UNCHANGED <<listVars, last_user_id>>

\* Its callers pass an array of queue_size entries.
queue_copy_to_array ==
    LET copied == SubSeq(Contents, 1, Min({size, Len(Contents)}))
    IN  Returns(<<"copy">>, Len(copied), copied) /\ UNCHANGED <<listVars, last_user_id>>

QueueInit ==
    /\ allocated = FALSE
    /\ head = NULL /\ tail = NULL /\ size = 0
    /\ heap = <<>>
    /\ last_user_id = -1
    /\ out = [call |-> <<>>, ret |-> 0, jobs |-> <<>>]

QueueNext ==
    \/ queue_create \/ queue_destroy
    \/ /\ allocated
       /\ \/ queue_dequeue \/ queue_dequeue_random
          \/ queue_size \/ queue_is_empty \/ queue_copy_to_array
          \/ \E fair_users \in FairOrders : queue_dequeue_fair(fair_users)
          \/ \E job \in JobSet :
                queue_enqueue(job) \/ queue_remove_by_command_id(job.command_id)

QueueSpec == QueueInit /\ [][QueueNext]_queueVars

------------------------------------------------------------------------------
(* Properties *)

\* The list is well formed between calls: its nodes are exactly the allocated
\* memory (none leaked, none used after free, no cycle), tail is the last of
\* them and size their number, whatever mix of enqueues and of the four ways
\* to unlink a node came before.
ListWellFormed ==
    /\ ToSet(Chain) = DOMAIN heap
    /\ head = IF Chain = <<>> THEN NULL ELSE Head(Chain)
    /\ tail = IF Chain = <<>> THEN NULL ELSE Last(Chain)
    /\ size = Len(Chain)
    /\ Chain # <<>> => heap[tail].next = NULL

Sequence == INSTANCE JobSequence WITH queue <- Contents

\* The linked list implements the sequence the controller's model works on:
\* every call has the effect and the result of the operator of Scheduler.tla
\* that stands for it, the fair choice on the compact array included.
ImplementsSequence == Sequence!SequenceSpec
==============================================================================
