---------------------------- MODULE JobSequence ----------------------------
(***************************************************************************)
(* What the callers of scheduler.c rely on: a job_queue_t is a sequence of *)
(* jobs, and every operation is the operator of Scheduler.tla that the     *)
(* controller's model uses for it.  JobQueue.tla implements it.            *)
(***************************************************************************)
EXTENDS Scheduler

CONSTANTS
    JobSet,      \* the jobs that may be enqueued
    FairOrders   \* the orders of known users that may be passed in

VARIABLES
    queue,         \* the jobs, from head to tail
    last_user_id,  \* the last scheduled user, which queue_dequeue_fair updates
    out            \* the last call, what it returned and the jobs it handed out

Returns(call, ret, jobs) == out' = [call |-> call, ret |-> ret, jobs |-> jobs]

SeqInit ==
    /\ queue = <<>>
    /\ last_user_id = NoUser
    /\ out = [call |-> <<>>, ret |-> 0, jobs |-> <<>>]

Refuse(call) == Returns(call, 0, <<>>) /\ UNCHANGED <<queue, last_user_id>>

\* The i-th job leaves the queue.
Hand(call, i) == queue' = RemoveAt(queue, i) /\ Returns(call, 1, <<queue[i]>>)

\* Only enqueue may fail for want of memory.
Enqueue(job) ==
    \/ /\ queue' = queue_enqueue(queue, job)
       /\ Returns(<<"enqueue">>, 1, <<>>)
       /\ UNCHANGED last_user_id
    \/ Refuse(<<"enqueue">>)

Dequeue(policy, fair_users) ==
    LET call == IF policy = "fair" THEN <<policy, fair_users>> ELSE <<policy>> IN
    \/ queue = <<>> /\ Refuse(call)
    \/ /\ queue # <<>>
       /\ \E i \in DequeueNodes(policy, queue, fair_users, last_user_id, TRUE) :
             /\ Hand(call, i)
             /\ last_user_id' = IF policy = "fair" THEN queue[i].user_id ELSE last_user_id

RemoveCommand(command_id) ==
    LET call  == <<"remove", command_id>>
        nodes == NodesOfCommand(queue, command_id)
    IN  \/ nodes = {} /\ Refuse(call)
        \/ /\ nodes # {}
           /\ Hand(call, Min(nodes))
           /\ queue' = queue_remove_by_command_id(queue, command_id)
           /\ UNCHANGED last_user_id

Ask ==
    /\ \/ Returns(<<"size">>, Len(queue), <<>>)
       \/ Returns(<<"empty">>, IF queue = <<>> THEN 1 ELSE 0, <<>>)
       \/ Returns(<<"copy">>, Len(queue), queue_copy_to_array(queue))
    /\ UNCHANGED <<queue, last_user_id>>

\* queue_destroy, and queue_create for a new one.
Clear == queue' = <<>> /\ UNCHANGED <<last_user_id, out>>

SeqNext ==
    \/ \E job \in JobSet : Enqueue(job) \/ RemoveCommand(job.command_id)
    \/ \E policy \in {"fcfs", "random"} : Dequeue(policy, <<>>)
    \/ \E fair_users \in FairOrders : Dequeue("fair", fair_users)
    \/ Ask \/ Clear

SequenceSpec == SeqInit /\ [][SeqNext]_<<queue, last_user_id, out>>
=============================================================================
