------------------------------ MODULE Scheduler ------------------------------
(***************************************************************************)
(* The job queues and the three scheduling policies of the controller      *)
(* (src/src/controller/scheduler.c), as operators on sequences of jobs.    *)
(*                                                                         *)
(* A job_queue_t is the sequence of its nodes from head to tail.  A job    *)
(* carries command_id, user_id, runner_pid and start_time; its JobState    *)
(* field is left out, because nothing reads it and the queue a job is in   *)
(* says the same.  User identifiers are the integers atoi() returns, so    *)
(* the value -1 that the code also uses for "no user" stays one of them.   *)
(***************************************************************************)
EXTENDS Integers, Sequences, SequencesExt

\* What last_scheduled_user holds at start, and what choose_next_user and
\* choose_next_fair_user return when there is no active user.
NoUser == -1

queue_enqueue(q, job) == Append(q, job)

\* user_exists, on the array of the users that have a job in q.
user_exists(q, u) == \E i \in DOMAIN q : q[i].user_id = u

\* The first node of q that belongs to user u.
FirstOf(q, u) == Min({i \in DOMAIN q : q[i].user_id = u})

\* The nodes of q at which a user appears for the first time: the compact
\* array of active users, in order, is the users of these nodes.
FirstNodes(q) ==
    {i \in DOMAIN q : \A j \in 1..(i - 1) : q[j].user_id # q[i].user_id}

\* The active user after last_user_id in the order of FirstNodes; the first
\* one when last_user_id is absent or is the last of them.
choose_next_user(q, last) ==
    LET after == {j \in FirstNodes(q) :
                     \E i \in FirstNodes(q) : q[i].user_id = last /\ i < j}
    IN  q[IF after = {} THEN 1 ELSE Min(after)].user_id

\* Zero-based position of user u in the order of known users, -1 when absent.
LastIdx(fair_users, u) ==
    LET seen == {i \in DOMAIN fair_users : fair_users[i] = u}
    IN  IF seen = {} THEN -1 ELSE Min(seen) - 1

\* The user met offset places after the last scheduled one, cyclically.
UserAt(fair_users, last, offset) ==
    LET n == Len(fair_users)
    IN  fair_users[((LastIdx(fair_users, last) + offset + n) % n) + 1]

\* Mutant: the search starts at the last scheduled user instead of after it.
StayWithUser(q, fair_users, last) ==
    IF user_exists(q, last) THEN last ELSE Head(q).user_id

choose_next_fair_user(q, fair_users, last) ==
    LET hits == {o \in 1..Len(fair_users) :
                    user_exists(q, UserAt(fair_users, last, o))}
    IN  IF q = <<>> THEN NoUser
        ELSE IF fair_users = <<>> THEN choose_next_user(q, last)
        ELSE IF hits = {} THEN Head(q).user_id
        ELSE UserAt(fair_users, last, Min(hits))

\* The node queue_dequeue_fair unlinks.
FairNode(q, fair_users, last) ==
    FirstOf(q, choose_next_fair_user(q, fair_users, last))

\* Mutant: every policy takes the newest job.
DequeueTail(policy, q, fair_users, last, alloc_may_fail) == {Len(q)}

(***************************************************************************)
(* The nodes a dequeue may unlink from a non-empty queue: the head for     *)
(* queue_dequeue, any node for queue_dequeue_random (rand() % size), the   *)
(* fair node for queue_dequeue_fair, which falls back on the head when it  *)
(* cannot allocate its array of users.  Any other policy name is fcfs.     *)
(***************************************************************************)
DequeueNodes(policy, q, fair_users, last, alloc_may_fail) ==
    CASE policy = "random" -> DOMAIN q
      [] policy = "fair" -> {FairNode(q, fair_users, last)}
                            \cup (IF alloc_may_fail THEN {1} ELSE {})
      [] OTHER -> {1}

\* The first node that holds command_id, if any (queue_remove_by_command_id).
NodesOfCommand(q, command_id) == {i \in DOMAIN q : q[i].command_id = command_id}

\* Mutant: the head is unlinked instead of the node that was found.
RemoveHead(q, command_id) == Tail(q)

queue_remove_by_command_id(q, command_id) ==
    RemoveAt(q, Min(NodesOfCommand(q, command_id)))

queue_copy_to_array(q) == q

\* Mutant: the simulation forgets to skip the jobs of other users.
CopyInQueueOrder(q, fair_users, last) == q

(***************************************************************************)
(* The order in which the fair policy would take the jobs of q, simulated  *)
(* on a copy: rest holds the jobs not yet used, in queue order.  The loop  *)
(* stops early when the chosen user equals NoUser.                         *)
(***************************************************************************)
queue_copy_fair_to_array(q, fair_users, last) ==
    LET sim[n \in 0..Len(q)] ==
            IF n = 0 THEN [rest |-> q, last |-> last, array |-> <<>>]
            ELSE LET s == sim[n - 1]
                     target == choose_next_fair_user(s.rest, fair_users, s.last)
                     i == FirstOf(s.rest, target)
                 IN  IF target = NoUser THEN s
                     ELSE [rest  |-> RemoveAt(s.rest, i),
                           last  |-> target,
                           array |-> Append(s.array, s.rest[i])]
    IN  sim[Len(q)].array
==============================================================================
