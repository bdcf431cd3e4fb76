------------------------------ MODULE Controller ------------------------------
(***************************************************************************)
(* The controller process: controller.c and controller_handlers.c.         *)
(*                                                                         *)
(* The controller is single-threaded.  It reads one message at a time from *)
(* the public FIFO and handles it to the end before it reads the next, but *)
(* a handler blocks inside open() and write() whenever it replies to a     *)
(* runner, so a handler is cut into steps exactly at those system calls:   *)
(* pc says where the process stands and reply holds the message (or the    *)
(* run of status lines) it is about to send.  The process may be killed    *)
(* between two system calls, so that what it changes outside its memory is *)
(* a step of its own too: reading a DONE and writing log.txt are two       *)
(* steps.  Everything else between two system calls is one step.           *)
(*                                                                         *)
(* The module says nothing of FIFOs and runners: any message a runner can  *)
(* send may arrive whenever the controller reads, any open of a runner's   *)
(* FIFO may succeed or fail and any write may be fatal.  Orchestrator.tla  *)
(* conjoins these steps with the FIFOs and the runners.                    *)
(***************************************************************************)
EXTENDS Scheduler

CONSTANTS
    Pids,           \* process identifiers of runners
    Users,          \* user identifiers, as atoi() reads them
    LimitArgs,      \* what atoi() makes of the parallelism argument
    PolicyArgs,     \* the policy names given on the command line
    FirstCapacity,  \* first capacity of fair_users (8 in the code)
    AllocMayFail,   \* whether malloc() and realloc() may return NULL
    OpenMayFail     \* whether open() and mkfifo() may fail for want of resources

ASSUME UsersAssumption == Users \subseteq Int
ASSUME LimitAssumption == LimitArgs \subseteq Int
ASSUME CapacityAssumption == FirstCapacity \in Nat \ {0}
ASSUME FailureAssumption == AllocMayFail \in BOOLEAN /\ OpenMayFail \in BOOLEAN

VARIABLES
    parallel_limit, policy,
    running_count, waiting_queue, running_queue,
    last_scheduled_user, fair_users, fair_user_capacity,
    keep_running, is_shutting_down, shutdown_requester_pid,
    clock,          \* gettimeofday(), ticking once per accepted submission
    log,            \* the jobs written to log.txt, in order
    taken,          \* the DONE that was read and is not carried out yet, if any
    pc,             \* where the controller process stands
    reply           \* what it is sending: target, messages, what comes after

config    == <<parallel_limit, policy>>
jobVars   == <<running_count, waiting_queue, running_queue>>
fairVars  == <<last_scheduled_user, fair_users, fair_user_capacity>>
stopVars  == <<keep_running, is_shutting_down, shutdown_requester_pid>>
logVars   == <<clock, log, taken>>
ctlVars   == <<config, jobVars, fairVars, stopVars, logVars, pc, reply>>

------------------------------------------------------------------------------
(* Messages *)

\* Runners identify a command by their own pid (runner_run_execute).
Messages ==
    {[type |-> t, sender_pid |-> p, user_id |-> u, command_id |-> p] :
        t \in {"SUBMIT", "DONE"}, p \in Pids, u \in Users}
    \cup
    {[type |-> t, sender_pid |-> p, user_id |-> 0, command_id |-> 0] :
        t \in {"STATUS_REQ", "SHUTDOWN_REQ"}, p \in Pids}

Ack(job) ==
    [type |-> "ACK", user_id |-> job.user_id, command_id |-> job.command_id]

ShutdownAck == [type |-> "SHUTDOWN_ACK"]

StatusEnd == [type |-> "STATUS_END"]

\* "---\nExecuting\n" and "---\nScheduled\n".
HeaderLine(section) == [type |-> "STATUS_RESP", header |-> section]

JobLine(job) ==
    [type |-> "STATUS_RESP", user_id |-> job.user_id, command_id |-> job.command_id]

JobLines(jobs) == [i \in DOMAIN jobs |-> JobLine(jobs[i])]

NoReply == [to |-> -1, kind |-> "none", msgs |-> <<>>, next |-> "read"]

\* The handler goes on to open the FIFO of runner p, write msgs and close it,
\* and continues at next.
Send(p, kind, msgs, next) ==
    /\ pc' = "send_open"
    /\ reply' = [to |-> p, kind |-> kind, msgs |-> msgs, next |-> next]

send_ack_to_runner(job, next) == Send(job.runner_pid, "ack", <<Ack(job)>>, next)

send_shutdown_ack_to_runner(m) ==
    Send(m.sender_pid, "shutdown", <<ShutdownAck>>, "read")

------------------------------------------------------------------------------
(* Start-up: controller_configure, controller_init_queues, ipc_create_fifo *)

DefaultLimit == 4

LimitOf(arg) == IF arg > 0 THEN arg ELSE DefaultLimit

controller_configure ==
    /\ parallel_limit \in {LimitOf(a) : a \in LimitArgs}
    /\ policy \in PolicyArgs
    /\ running_count = 0
    /\ keep_running = TRUE
    /\ is_shutting_down = FALSE
    /\ shutdown_requester_pid = -1
    /\ last_scheduled_user = NoUser
    /\ fair_users = <<>>
    /\ fair_user_capacity = 0

CtlInit ==
    /\ controller_configure
    /\ waiting_queue = <<>>
    /\ running_queue = <<>>
    /\ clock = 0
    /\ log = <<>>
    /\ taken = {}
    /\ pc = "create"
    /\ reply = NoReply

\* Another controller process is started, with its own arguments; log.txt is
\* all it shares with the one before it.
Restart ==
    /\ parallel_limit' \in {LimitOf(a) : a \in LimitArgs}
    /\ policy' \in PolicyArgs
    /\ running_count' = 0 /\ waiting_queue' = <<>> /\ running_queue' = <<>>
    /\ keep_running' = TRUE /\ is_shutting_down' = FALSE
    /\ shutdown_requester_pid' = -1
    /\ last_scheduled_user' = NoUser
    /\ fair_users' = <<>> /\ fair_user_capacity' = 0
    /\ pc' = "create" /\ reply' = NoReply /\ taken' = {}
    /\ UNCHANGED <<clock, log>>

\* A step of main() that changes nothing but the place in the program.
Goto(from, to) ==
    /\ pc = from
    /\ pc' = to
    /\ UNCHANGED <<config, jobVars, fairVars, stopVars, logVars, reply>>

CreateFifo == Goto("create", "open")

\* queue_create or mkfifo() fails: main() returns 1 before it serves anyone.
StartFails == (AllocMayFail \/ OpenMayFail) /\ Goto("create", "failed")

------------------------------------------------------------------------------
(* Scheduling *)

\* Both queue_enqueue calls that may fail leave the job nowhere.
EnqueueFails == AllocMayFail

\* Mutant: doubling a capacity of zero.
DoubledCapacity == 2 * fair_user_capacity

GrownCapacity ==
    IF fair_user_capacity = 0 THEN FirstCapacity ELSE 2 * fair_user_capacity

remember_fair_user(u) ==
    LET known == \E i \in DOMAIN fair_users : fair_users[i] = u
        full  == Len(fair_users) = fair_user_capacity
    IN  \/ /\ known \/ (full /\ AllocMayFail)
           /\ UNCHANGED <<fair_users, fair_user_capacity>>
        \/ /\ ~known
           /\ fair_users' = Append(fair_users, u)
           /\ fair_user_capacity' =
                IF full THEN GrownCapacity ELSE fair_user_capacity

\* Mutant: the limit may be exceeded by one.
SlotFreeOffByOne == running_count <= parallel_limit

SlotFree == running_count < parallel_limit

\* Mutant: a finished command frees its slot and nobody takes it.
NoRefill == Goto("start_waiting", "finish")

\* One turn of the loop of start_waiting_jobs: promote one job and send its
\* ACK, lose it when the running queue cannot grow, or leave the loop.
start_waiting_jobs ==
    /\ pc = "start_waiting"
    /\ \/ /\ SlotFree
          /\ waiting_queue # <<>>
          /\ \E i \in DequeueNodes(policy, waiting_queue, fair_users,
                                   last_scheduled_user, AllocMayFail) :
                LET next_job == waiting_queue[i] IN
                /\ waiting_queue' = RemoveAt(waiting_queue, i)
                /\ \/ /\ running_queue' = queue_enqueue(running_queue, next_job)
                      /\ running_count' = running_count + 1
                      /\ last_scheduled_user' = next_job.user_id
                      /\ send_ack_to_runner(next_job, "start_waiting")
                   \/ /\ EnqueueFails
                      /\ last_scheduled_user' =
                            IF policy = "fair" THEN next_job.user_id
                                               ELSE last_scheduled_user
                      /\ UNCHANGED <<running_queue, running_count, pc, reply>>
       \/ /\ ~SlotFree \/ waiting_queue = <<>>
          /\ pc' = "finish"
          /\ UNCHANGED <<jobVars, last_scheduled_user, reply>>
    /\ UNCHANGED <<config, fair_users, fair_user_capacity, stopVars, logVars>>

------------------------------------------------------------------------------
(* The message handlers, entered from the read in main() *)

\* SUBMIT after a shutdown request: answered with SHUTDOWN_ACK, and
\* controller_handle_message returns without trying to finish the shutdown.
reject_submit(m) ==
    /\ pc = "read"
    /\ m.type = "SUBMIT"
    /\ is_shutting_down
    /\ send_shutdown_ack_to_runner(m)
    /\ UNCHANGED <<config, jobVars, fairVars, stopVars, logVars>>

handle_submit(m) ==
    LET job == [command_id |-> m.command_id, user_id |-> m.user_id,
                runner_pid |-> m.sender_pid, start_time |-> clock]
    IN
    /\ pc = "read"
    /\ m.type = "SUBMIT"
    /\ ~is_shutting_down
    /\ clock' = clock + 1
    /\ remember_fair_user(job.user_id)
    /\ \/ /\ SlotFree
          /\ running_queue' = queue_enqueue(running_queue, job)
          /\ running_count' = running_count + 1
          /\ last_scheduled_user' = job.user_id
          /\ send_ack_to_runner(job, "finish")
          /\ UNCHANGED waiting_queue
       \/ /\ ~SlotFree
          /\ waiting_queue' = queue_enqueue(waiting_queue, job)
          /\ pc' = "finish"
          /\ UNCHANGED <<running_queue, running_count, last_scheduled_user, reply>>
       \/ /\ EnqueueFails
          /\ pc' = "finish"
          /\ UNCHANGED <<jobVars, last_scheduled_user, reply>>
    /\ UNCHANGED <<config, stopVars, log, taken>>

\* read() returns a DONE: from here on it exists in this process only.
take_done(m) ==
    /\ pc = "read"
    /\ m.type = "DONE"
    /\ taken' = {m}
    /\ pc' = "done"
    /\ UNCHANGED <<config, jobVars, fairVars, stopVars, clock, log, reply>>

\* Mutant: the line is never written.
ForgetFinishedJob(job) == UNCHANGED log

\* log_finished_job appends the line of the job to log.txt, or skips it
\* silently when the file cannot be opened.
log_finished_job(job) ==
    \/ log' = Append(log, job)
    \/ OpenMayFail /\ UNCHANGED log

\* Up to the refill loop.  The queue and the counter change in memory around
\* the write to log.txt: a process that dies there loses both, so that only the
\* write can be told apart from the read before it.
handle_done(m) ==
    LET nodes == NodesOfCommand(running_queue, m.command_id)
    IN
    /\ pc = "done"
    /\ m \in taken
    /\ taken' = {}
    /\ \/ /\ nodes # {}
          /\ running_queue' = queue_remove_by_command_id(running_queue, m.command_id)
          /\ log_finished_job(running_queue[Min(nodes)])
          /\ running_count' = IF running_count > 0 THEN running_count - 1
                                                   ELSE running_count
       \/ /\ nodes = {}
          /\ UNCHANGED <<running_queue, log, running_count>>
    /\ pc' = "start_waiting"
    /\ UNCHANGED <<config, waiting_queue, fairVars, stopVars, clock, reply>>

\* The waiting jobs as runner -c shows them.  Under fair the simulation may
\* run out of memory: it then shows the queue order, or stops where it is.
ScheduledViews ==
    IF policy # "fair" THEN {queue_copy_to_array(waiting_queue)}
    ELSE LET order == queue_copy_fair_to_array(waiting_queue, fair_users,
                                               last_scheduled_user)
         IN  {order} \cup
             (IF AllocMayFail
              THEN {queue_copy_to_array(waiting_queue)} \cup Prefixes(order)
              ELSE {})

\* Mutant: the loop over the running jobs starts at the second one.
StatusReplyFromSecond(run_arr, wait_arr) ==
    <<HeaderLine("Executing")>> \o JobLines(SubSeq(run_arr, 2, Len(run_arr)))
    \o <<HeaderLine("Scheduled")>> \o JobLines(wait_arr) \o <<StatusEnd>>

StatusReply(run_arr, wait_arr) ==
    <<HeaderLine("Executing")>> \o JobLines(run_arr)
    \o <<HeaderLine("Scheduled")>> \o JobLines(wait_arr) \o <<StatusEnd>>

handle_status_req(m) ==
    /\ pc = "read"
    /\ m.type = "STATUS_REQ"
    /\ \/ \E wait_arr \in ScheduledViews :
             Send(m.sender_pid, "status",
                  StatusReply(queue_copy_to_array(running_queue), wait_arr), "finish")
       \/ /\ AllocMayFail
          /\ running_queue # <<>> \/ waiting_queue # <<>>
          /\ pc' = "finish"
          /\ UNCHANGED reply
    /\ UNCHANGED <<config, jobVars, fairVars, stopVars, logVars>>

handle_shutdown_req(m) ==
    /\ pc = "read"
    /\ m.type = "SHUTDOWN_REQ"
    /\ is_shutting_down' = TRUE
    /\ shutdown_requester_pid' = m.sender_pid
    /\ pc' = "finish"
    /\ UNCHANGED <<config, jobVars, fairVars, keep_running, logVars, reply>>

\* Mutant: the commands that are still running are not looked at.
NothingWaiting == waiting_queue = <<>>

Drained == running_count = 0 /\ waiting_queue = <<>>

\* The end of controller_handle_message.
try_finish_shutdown ==
    /\ pc = "finish"
    /\ \/ /\ is_shutting_down
          /\ Drained
          /\ Send(shutdown_requester_pid, "shutdown", <<ShutdownAck>>, "stop")
       \/ /\ ~is_shutting_down \/ ~Drained
          /\ pc' = "read"
          /\ UNCHANGED reply
    /\ UNCHANGED <<config, jobVars, fairVars, stopVars, logVars>>

controller_handle_message(m) ==
    \/ reject_submit(m)
    \/ handle_submit(m)
    \/ take_done(m)
    \/ handle_status_req(m)
    \/ handle_shutdown_req(m)

------------------------------------------------------------------------------
(* Sending a reply: ipc_send_atomic, or the open, the writes and the close *)
(* of handle_status_req                                                    *)

\* The handler goes on; after the final SHUTDOWN_ACK it clears keep_running.
AfterReply ==
    /\ pc' = IF reply.next = "stop" THEN "close" ELSE reply.next
    /\ keep_running' = (keep_running /\ reply.next # "stop")
    /\ reply' = NoReply
    /\ UNCHANGED <<config, jobVars, fairVars, is_shutting_down,
                   shutdown_requester_pid, logVars>>

OpenReply == Goto("send_open", "send_write")

\* open() returns -1: the runner's FIFO is gone, or resources are short.
OpenReplyFails == pc = "send_open" /\ AfterReply

WriteReply ==
    /\ pc = "send_write"
    /\ pc' = IF Len(reply.msgs) = 1 THEN "send_close" ELSE "send_write"
    /\ reply' = [reply EXCEPT !.msgs = Tail(@)]
    /\ UNCHANGED <<config, jobVars, fairVars, stopVars, logVars>>

CloseReply == pc = "send_close" /\ AfterReply

------------------------------------------------------------------------------
(* The main loop *)

\* open() of the public FIFO returns at once when a runner has it open for
\* writing, and blocks until one has otherwise.
OpenServer == Goto("open", "read")

OpenServerBlocks == Goto("open", "opening")

OpenServerReturns == Goto("opening", "read")

\* Both ways out of main() free the queues, whatever they hold.
controller_destroy_queues ==
    /\ waiting_queue' = <<>>
    /\ running_queue' = <<>>
    /\ fair_users' = <<>>
    /\ fair_user_capacity' = 0
    /\ UNCHANGED <<config, running_count, last_scheduled_user, stopVars, logVars, reply>>

\* The public FIFO cannot be opened, because its name is gone or resources are
\* short: main() returns 1 and leaves it as it is.
OpenServerFails ==
    /\ pc = "open"
    /\ pc' = "failed"
    /\ controller_destroy_queues

\* read() returns 0: no writer has the public FIFO open any more.
ReadEof == Goto("read", "close")

CloseServer ==
    \/ keep_running /\ Goto("close", "open")
    \/ ~keep_running /\ Goto("close", "unlink")

\* controller_destroy_queues and ipc_destroy_fifo.
Exit ==
    /\ pc = "unlink"
    /\ pc' = "exited"
    /\ controller_destroy_queues

\* No signal is handled: SIGPIPE, from a write to a FIFO that lost its reader,
\* or any other one ends the process where it stands.
Killed == pc \notin {"exited", "failed", "killed"} /\ Goto(pc, "killed")

CtlNext ==
    \/ CreateFifo \/ StartFails
    \/ OpenServer \/ OpenServerBlocks \/ OpenServerReturns \/ OpenServerFails
    \/ ReadEof \/ CloseServer \/ Exit \/ Killed
    \/ \E m \in Messages : controller_handle_message(m)
    \/ \E m \in taken : handle_done(m)
    \/ start_waiting_jobs \/ try_finish_shutdown
    \/ OpenReply \/ OpenReplyFails \/ WriteReply \/ CloseReply

ControllerSpec == CtlInit /\ [][CtlNext]_ctlVars

------------------------------------------------------------------------------
(* Properties *)

Jobs == [command_id : Pids, user_id : Users, runner_pid : Pids, start_time : Nat]

ProgramPoints ==
    {"create", "open", "opening", "read", "done", "start_waiting", "finish",
     "send_open", "send_write", "send_close", "close", "unlink", "exited",
     "failed", "killed"}

\* The fields of controller_state_t keep their types.  The lines of a status
\* reply are not constrained here: StatusSnapshot is about them.
CtlTypeOK ==
    /\ parallel_limit \in Nat \ {0}
    /\ policy \in PolicyArgs
    /\ running_count \in Nat
    /\ waiting_queue \in Seq(Jobs)
    /\ running_queue \in Seq(Jobs)
    /\ last_scheduled_user \in Users \cup {NoUser}
    /\ fair_users \in Seq(Users)
    /\ fair_user_capacity \in Nat
    /\ Len(fair_users) <= fair_user_capacity
    /\ keep_running \in BOOLEAN
    /\ is_shutting_down \in BOOLEAN
    /\ shutdown_requester_pid \in Pids \cup {-1}
    /\ clock \in Nat
    /\ log \in Seq(Jobs)
    /\ taken \subseteq {m \in Messages : m.type = "DONE"}
    /\ pc \in ProgramPoints
    /\ reply = [to |-> reply.to, kind |-> reply.kind, msgs |-> reply.msgs,
                next |-> reply.next]
    /\ reply.to \in Pids \cup {-1}
    /\ reply.kind \in {"none", "ack", "shutdown", "status"}
    /\ reply.next \in {"read", "finish", "start_waiting", "stop"}

\* running_count is kept by hand beside running_queue (handle_submit,
\* start_waiting_jobs, handle_done): whatever messages arrive, unknown or
\* repeated DONEs included, it counts the authorized commands, and there are
\* never more of them than parallel_limit.
SlotAccounting ==
    /\ pc \notin {"exited", "failed"} => running_count = Len(running_queue)
    /\ running_count <= parallel_limit

\* No command waits beside a free slot: outside the refill loop of
\* handle_done, a non-empty waiting queue means that every slot is taken.
\* handle_submit relies on it when it starts a command without looking at
\* the waiting queue.
WorkConserving ==
    pc \notin {"start_waiting", "killed"} /\ waiting_queue # <<>>
        => running_count = parallel_limit

\* Commands are authorized in the order the policy promises: in arrival order
\* under fcfs, in arrival order among the commands of one user under fair.
ArrivalOrder ==
    \A s \in ToSet(running_queue) \cup ToSet(log), w \in ToSet(waiting_queue) :
        \/ policy \notin {"random", "fair"}
        \/ policy = "fair" /\ s.user_id = w.user_id
        => s.start_time < w.start_time

\* "The controller only exits after all running and waiting commands have
\* completed": once the main loop is told to stop, both queues are empty.
DrainedBeforeStop ==
    ~keep_running => running_queue = <<>> /\ waiting_queue = <<>>

\* Every accepted submission is in exactly one place, waiting, running or
\* logged: none is lost or duplicated on its way through the queues, as long
\* as memory can be allocated and log.txt opened, and main() has not given up.
Tracked == waiting_queue \o running_queue \o log
AcceptedOnce ==
    ~AllocMayFail /\ ~OpenMayFail /\ pc # "failed" =>
        \A t \in 0..(clock - 1) :
            \E i \in DOMAIN Tracked :
                \A j \in DOMAIN Tracked : Tracked[j].start_time = t <=> j = i

\* What runner -c shows as Scheduled under fair is what happens: the job the
\* refill loop promotes is the first one of the simulated order, and the rest
\* of the simulated order stays as it was shown.  (The quantifier names the
\* primed values, so that TLC evaluates each of them once.)
FairView == queue_copy_fair_to_array(waiting_queue, fair_users, last_scheduled_user)
PreviewIsDispatched ==
    [][policy = "fair" /\ Len(running_queue') > Len(running_queue)
          /\ waiting_queue' # waiting_queue
       => \E q \in {waiting_queue'}, users \in {fair_users'}, last \in {last_scheduled_user'} :
             FairView = <<Last(running_queue')>> \o queue_copy_fair_to_array(q, users, last)
      ]_ctlVars
==============================================================================
