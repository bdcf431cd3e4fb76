-------------------------- MODULE ControllerProofs --------------------------
(***************************************************************************)
(* Theorems about the controller of Controller.tla, for every set of       *)
(* processes, users, limits and policies, any order of messages and any    *)
(* failure of an allocation or of a reply.                                 *)
(***************************************************************************)
EXTENDS Controller, SchedulerProofs

USE UsersAssumption, LimitAssumption, CapacityAssumption, FailureAssumption

\* What a message carries: the sender is a runner, and a submission or a
\* completion names a user and a command.
LEMMA MessageFields ==
    ASSUME NEW m \in Messages
    PROVE  /\ m.sender_pid \in Pids
           /\ m.type \in {"SUBMIT", "DONE"} => m.user_id \in Users /\ m.command_id \in Pids
  BY DEF Messages

\* A step that only moves pc keeps the types.
LEMMA GotoKeepsTypes ==
    ASSUME CtlTypeOK, NEW from, NEW to \in ProgramPoints, Goto(from, to)
    PROVE  CtlTypeOK'
  BY DEF CtlTypeOK, Goto, config, jobVars, fairVars, stopVars, logVars

\* Sending a reply keeps the types of pc and reply.
LEMMA SendKeepsTypes ==
    ASSUME NEW p \in Pids \cup {-1}, NEW kind \in {"ack", "shutdown", "status"},
           NEW msgs, NEW next \in {"read", "finish", "start_waiting", "stop"},
           Send(p, kind, msgs, next)
    PROVE  /\ pc' \in ProgramPoints
           /\ reply' = [to |-> reply'.to, kind |-> reply'.kind,
                        msgs |-> reply'.msgs, next |-> reply'.next]
           /\ reply'.to \in Pids \cup {-1}
           /\ reply'.kind \in {"none", "ack", "shutdown", "status"}
           /\ reply'.next \in {"read", "finish", "start_waiting", "stop"}
  BY DEF Send, ProgramPoints

\* remember_fair_user never writes past the end of the array it grows.
LEMMA RememberKeepsTypes ==
    ASSUME CtlTypeOK, NEW u \in Users, remember_fair_user(u)
    PROVE  /\ fair_users' \in Seq(Users)
           /\ fair_user_capacity' \in Nat
           /\ Len(fair_users') <= fair_user_capacity'
<1>0. /\ fair_users \in Seq(Users) /\ fair_user_capacity \in Nat
      /\ Len(fair_users) \in Nat /\ Len(fair_users) <= fair_user_capacity
  BY DEF CtlTypeOK
<1>1. CASE UNCHANGED <<fair_users, fair_user_capacity>>
  BY <1>0, <1>1
<1>2. CASE /\ fair_users' = Append(fair_users, u)
           /\ fair_user_capacity' = IF Len(fair_users) = fair_user_capacity
                                    THEN GrownCapacity ELSE fair_user_capacity
  <2>1. fair_users' \in Seq(Users) /\ Len(fair_users') = Len(fair_users) + 1
    BY <1>0, <1>2
  <2>2. GrownCapacity \in Nat /\ GrownCapacity > fair_user_capacity
    BY <1>0 DEF GrownCapacity
  <2> QED
    BY <1>0, <1>2, <2>1, <2>2
<1> QED
  BY <1>1, <1>2 DEF remember_fair_user

\* Logging a job adds nothing but that job to the log.
LEMMA LoggedJobs ==
    ASSUME log \in Seq(Jobs), NEW job \in Jobs, log_finished_job(job)
    PROVE  log' \in Seq(Jobs) /\ ToSet(log') \subseteq ToSet(log) \cup {job}
<1>1. CASE log' = Append(log, job)
  <2>1. Append(log, job) \in Seq(Jobs)
    OBVIOUS
  <2>2. ToSet(Append(log, job)) = ToSet(log) \cup {job}
    BY AppendedJobs
  <2> QED
    BY <1>1, <2>1, <2>2
<1>2. CASE UNCHANGED log
  BY <1>2
<1> QED
  BY <1>1, <1>2 DEF log_finished_job

LEMMA AfterReplyKeepsTypes ==
    ASSUME CtlTypeOK, AfterReply
    PROVE  CtlTypeOK'
  BY DEF CtlTypeOK, AfterReply, NoReply, ProgramPoints,
         config, jobVars, fairVars, logVars

\* Every handler, every turn of the refill loop and every step of the main loop
\* keeps the types.
LEMMA HandlersKeepTypes ==
    ASSUME CtlTypeOK, NEW m \in Messages, controller_handle_message(m)
    PROVE  CtlTypeOK'
<1> USE DEF config, jobVars, fairVars, stopVars, logVars
<1>1. CASE reject_submit(m)
  <2>1. Send(m.sender_pid, "shutdown", <<ShutdownAck>>, "read")
    BY <1>1 DEF reject_submit, send_shutdown_ack_to_runner
  <2> QED
    BY <1>1, <2>1, MessageFields, SendKeepsTypes DEF reject_submit, CtlTypeOK
<1>2. CASE handle_submit(m)
  <2> DEFINE job == [command_id |-> m.command_id, user_id |-> m.user_id,
                     runner_pid |-> m.sender_pid, start_time |-> clock]
  <2>1. job \in Jobs
    BY <1>2, MessageFields DEF handle_submit, CtlTypeOK, Jobs
  <2>2. /\ fair_users' \in Seq(Users) /\ fair_user_capacity' \in Nat
        /\ Len(fair_users') <= fair_user_capacity'
    BY <1>2, MessageFields, RememberKeepsTypes DEF handle_submit
  <2>3. clock' \in Nat
    BY <1>2 DEF handle_submit, CtlTypeOK
  <2>4. CASE /\ running_queue' = queue_enqueue(running_queue, job)
             /\ running_count' = running_count + 1
             /\ last_scheduled_user' = job.user_id
             /\ send_ack_to_runner(job, "finish")
             /\ UNCHANGED waiting_queue
    <3>1. Send(job.runner_pid, "ack", <<Ack(job)>>, "finish")
      BY <2>4 DEF send_ack_to_runner
    <3>2. job.runner_pid \in Pids /\ job.user_id \in Users
      BY <2>1 DEF Jobs
    <3> HIDE DEF job
    <3>3. running_queue' \in Seq(Jobs) /\ running_count' \in Nat
      BY <2>1, <2>4 DEF CtlTypeOK, queue_enqueue
    <3>4. /\ pc' \in ProgramPoints
          /\ reply' = [to |-> reply'.to, kind |-> reply'.kind,
                       msgs |-> reply'.msgs, next |-> reply'.next]
          /\ reply'.to \in Pids \cup {-1}
          /\ reply'.kind \in {"none", "ack", "shutdown", "status"}
          /\ reply'.next \in {"read", "finish", "start_waiting", "stop"}
      BY <3>1, <3>2, SendKeepsTypes
    <3> QED
      BY <1>2, <2>2, <2>3, <2>4, <3>2, <3>3, <3>4 DEF handle_submit, CtlTypeOK
  <2>5. CASE /\ waiting_queue' = queue_enqueue(waiting_queue, job)
             /\ pc' = "finish"
             /\ UNCHANGED <<running_queue, running_count, last_scheduled_user, reply>>
    <3> HIDE DEF job
    <3> QED
      BY <1>2, <2>1, <2>2, <2>3, <2>5
      DEF handle_submit, CtlTypeOK, queue_enqueue, ProgramPoints
  <2>6. CASE pc' = "finish" /\ UNCHANGED <<jobVars, last_scheduled_user, reply>>
    BY <1>2, <2>2, <2>3, <2>6 DEF handle_submit, CtlTypeOK, ProgramPoints
  <2> QED
    BY <1>2, <2>4, <2>5, <2>6 DEF handle_submit
<1>3. CASE take_done(m)
  BY <1>3 DEF take_done, CtlTypeOK, ProgramPoints
<1>4. CASE handle_status_req(m)
  <2>1. CASE \E wait_arr \in ScheduledViews :
                Send(m.sender_pid, "status",
                     StatusReply(queue_copy_to_array(running_queue), wait_arr), "finish")
    BY <1>4, <2>1, MessageFields, SendKeepsTypes DEF handle_status_req, CtlTypeOK
  <2>2. CASE pc' = "finish" /\ UNCHANGED reply
    BY <1>4, <2>2 DEF handle_status_req, CtlTypeOK, ProgramPoints
  <2> QED
    BY <1>4, <2>1, <2>2 DEF handle_status_req
<1>5. CASE handle_shutdown_req(m)
  BY <1>5, MessageFields DEF handle_shutdown_req, CtlTypeOK, ProgramPoints
<1> QED
  BY <1>1, <1>2, <1>3, <1>4, <1>5 DEF controller_handle_message

LEMMA TakenIsDone ==
    ASSUME CtlTypeOK, NEW m \in taken
    PROVE  m \in Messages /\ m.type = "DONE"
  BY DEF CtlTypeOK

LEMMA DoneKeepsTypes ==
    ASSUME CtlTypeOK, NEW m \in Messages, handle_done(m)
    PROVE  CtlTypeOK'
<1> USE DEF config, jobVars, fairVars, stopVars, logVars
<1> DEFINE nodes == NodesOfCommand(running_queue, m.command_id)
<1>1. CASE nodes # {} /\ log_finished_job(running_queue[Min(nodes)])
  <2>1. Min(nodes) \in 1..Len(running_queue)
    BY <1>1, FoundNode DEF CtlTypeOK
  <2>2. running_queue[Min(nodes)] \in Jobs
    BY <2>1 DEF CtlTypeOK
  <2> HIDE DEF nodes
  <2>3. log' \in Seq(Jobs)
    BY <1>1, <2>2, LoggedJobs DEF CtlTypeOK
  <2>4. running_queue' = RemoveAt(running_queue, Min(nodes))
    BY <1>1 DEF handle_done, nodes, queue_remove_by_command_id
  <2>5. running_queue' \in Seq(Jobs)
    BY <2>1, <2>4, RemoveAtProperties DEF CtlTypeOK
  <2>6. running_count' \in Nat
    BY <1>1 DEF handle_done, nodes, CtlTypeOK
  <2> QED
    BY <2>3, <2>5, <2>6 DEF handle_done, CtlTypeOK, ProgramPoints
<1>2. CASE UNCHANGED <<running_queue, log, running_count>>
  BY <1>2 DEF handle_done, CtlTypeOK, ProgramPoints
<1> QED
  BY <1>1, <1>2 DEF handle_done

LEMMA RefillKeepsTypes ==
    ASSUME CtlTypeOK, start_waiting_jobs
    PROVE  CtlTypeOK'
<1> USE DEF config, jobVars, fairVars, stopVars, logVars
<1>1. CASE ~SlotFree \/ waiting_queue = <<>>
  BY <1>1 DEF start_waiting_jobs, CtlTypeOK, ProgramPoints
<1>2. CASE SlotFree /\ waiting_queue # <<>>
  <2>1. PICK i \in DequeueNodes(policy, waiting_queue, fair_users,
                                last_scheduled_user, AllocMayFail) :
          LET next_job == waiting_queue[i] IN
          /\ waiting_queue' = RemoveAt(waiting_queue, i)
          /\ \/ /\ running_queue' = queue_enqueue(running_queue, next_job)
                /\ running_count' = running_count + 1
                /\ last_scheduled_user' = next_job.user_id
                /\ send_ack_to_runner(next_job, "start_waiting")
             \/ /\ EnqueueFails
                /\ last_scheduled_user' = IF policy = "fair" THEN next_job.user_id
                                                             ELSE last_scheduled_user
                /\ UNCHANGED <<running_queue, running_count, pc, reply>>
    BY <1>2 DEF start_waiting_jobs
  <2> DEFINE next_job == waiting_queue[i]
  <2>2. fair_users \in Seq(Int)
    BY DEF CtlTypeOK
  <2>3. i \in 1..Len(waiting_queue)
    BY <1>2, <2>2, DequeuedNode DEF CtlTypeOK
  <2>4. next_job \in Jobs
    BY <2>3 DEF CtlTypeOK
  <2>5. next_job.runner_pid \in Pids /\ next_job.user_id \in Users
    BY <2>4 DEF Jobs
  <2>6. waiting_queue' \in Seq(Jobs)
    BY <2>1, <2>3, RemoveAtProperties DEF CtlTypeOK
  <2>7. CASE /\ running_queue' = queue_enqueue(running_queue, next_job)
             /\ running_count' = running_count + 1
             /\ last_scheduled_user' = next_job.user_id
             /\ send_ack_to_runner(next_job, "start_waiting")
    <3>1. Send(next_job.runner_pid, "ack", <<Ack(next_job)>>, "start_waiting")
      BY <2>7 DEF send_ack_to_runner
    <3> HIDE DEF next_job
    <3>2. running_queue' \in Seq(Jobs) /\ running_count' \in Nat
      BY <2>4, <2>7 DEF CtlTypeOK, queue_enqueue
    <3>3. /\ pc' \in ProgramPoints
          /\ reply' = [to |-> reply'.to, kind |-> reply'.kind,
                       msgs |-> reply'.msgs, next |-> reply'.next]
          /\ reply'.to \in Pids \cup {-1}
          /\ reply'.kind \in {"none", "ack", "shutdown", "status"}
          /\ reply'.next \in {"read", "finish", "start_waiting", "stop"}
      BY <2>5, <3>1, SendKeepsTypes
    <3> QED
      BY <2>5, <2>6, <2>7, <3>2, <3>3 DEF start_waiting_jobs, CtlTypeOK
  <2>8. CASE /\ last_scheduled_user' = IF policy = "fair" THEN next_job.user_id
                                                          ELSE last_scheduled_user
             /\ UNCHANGED <<running_queue, running_count, pc, reply>>
    <3> HIDE DEF next_job
    <3> QED
      BY <2>5, <2>6, <2>8 DEF start_waiting_jobs, CtlTypeOK
  <2> QED
    BY <2>1, <2>7, <2>8
<1> QED
  BY <1>1, <1>2

\* Every step of the controller keeps the types.
LEMMA StepKeepsTypes == CtlTypeOK /\ [CtlNext]_ctlVars => CtlTypeOK'
<1> SUFFICES ASSUME CtlTypeOK, [CtlNext]_ctlVars PROVE CtlTypeOK'
  OBVIOUS
<1> USE DEF config, jobVars, fairVars, stopVars, logVars
<1>1. CASE CreateFifo
  BY <1>1, GotoKeepsTypes DEF CreateFifo, ProgramPoints
<1>2. CASE StartFails
  BY <1>2, GotoKeepsTypes DEF StartFails, ProgramPoints
<1>3. CASE OpenServer \/ OpenServerBlocks \/ OpenServerReturns \/ ReadEof
  BY <1>3, GotoKeepsTypes
  DEF OpenServer, OpenServerBlocks, OpenServerReturns, ReadEof, ProgramPoints
<1>4. CASE CloseServer
  BY <1>4, GotoKeepsTypes DEF CloseServer, ProgramPoints
<1>5. CASE Exit \/ OpenServerFails
  <2>1. controller_destroy_queues /\ pc' \in ProgramPoints
    BY <1>5 DEF Exit, OpenServerFails, ProgramPoints
  <2> QED
    BY <2>1 DEF controller_destroy_queues, CtlTypeOK
<1>6. CASE Killed
  BY <1>6, GotoKeepsTypes DEF Killed, ProgramPoints
<1>7. CASE \E m \in Messages : controller_handle_message(m)
  BY <1>7, HandlersKeepTypes
<1>8. CASE start_waiting_jobs
  BY <1>8, RefillKeepsTypes
<1>9. CASE try_finish_shutdown
  <2>1. CASE Send(shutdown_requester_pid, "shutdown", <<ShutdownAck>>, "stop")
    BY <1>9, <2>1, SendKeepsTypes DEF try_finish_shutdown, CtlTypeOK
  <2>2. CASE pc' = "read" /\ UNCHANGED reply
    BY <1>9, <2>2 DEF try_finish_shutdown, CtlTypeOK, ProgramPoints
  <2> QED
    BY <1>9, <2>1, <2>2 DEF try_finish_shutdown
<1>10. CASE OpenReply
  BY <1>10, GotoKeepsTypes DEF OpenReply, ProgramPoints
<1>11. CASE OpenReplyFails \/ CloseReply
  BY <1>11, AfterReplyKeepsTypes DEF OpenReplyFails, CloseReply
<1>12. CASE WriteReply
  BY <1>12 DEF WriteReply, CtlTypeOK, ProgramPoints
<1>13. CASE \E m \in taken : handle_done(m)
  BY <1>13, TakenIsDone, DoneKeepsTypes
<1>14. CASE UNCHANGED ctlVars
  BY <1>14 DEF ctlVars, CtlTypeOK
<1> QED
  BY <1>1, <1>2, <1>3, <1>4, <1>5, <1>6, <1>7, <1>8, <1>9, <1>10, <1>11, <1>12,
     <1>13, <1>14 DEF CtlNext

LEMMA InitialTypes ==
    ASSUME CtlInit
    PROVE  CtlTypeOK
<1>1. parallel_limit \in Nat \ {0}
  BY DEF CtlInit, controller_configure, LimitOf, DefaultLimit
<1>2. /\ reply = [to |-> reply.to, kind |-> reply.kind, msgs |-> reply.msgs,
                  next |-> reply.next]
      /\ reply.to = -1 /\ reply.kind = "none" /\ reply.next = "read"
  BY DEF CtlInit, NoReply
<1>3. /\ waiting_queue \in Seq(Jobs) /\ running_queue \in Seq(Jobs)
      /\ log \in Seq(Jobs) /\ fair_users \in Seq(Users) /\ taken = {}
      /\ Len(fair_users) <= fair_user_capacity
  BY DEF CtlInit, controller_configure
<1> QED
  BY <1>1, <1>2, <1>3 DEF CtlInit, controller_configure, CtlTypeOK, ProgramPoints

\* The fields of controller_state_t keep their types in every behaviour of the
\* controller, and fair_users never outgrows its capacity.
THEOREM TypeCorrect == ControllerSpec => []CtlTypeOK
<1>1. CtlInit => CtlTypeOK
  BY InitialTypes
<1>2. CtlTypeOK /\ [CtlNext]_ctlVars => CtlTypeOK'
  BY StepKeepsTypes
<1> QED
  BY <1>1, <1>2, PTL DEF ControllerSpec

------------------------------------------------------------------------------
(* Slots *)

(***************************************************************************)
(* WorkConserving is not inductive: the turn of the refill loop that fills *)
(* the last slot leaves the loop's test behind it when it sends the ACK.   *)
(* What makes it so is that a DONE frees one slot at a time, so while      *)
(* commands wait at most one slot is ever free, in the loop too.           *)
(***************************************************************************)
SlotInv ==
    /\ SlotAccounting
    /\ WorkConserving
    /\ waiting_queue # <<>> => running_count + 1 >= parallel_limit

\* A step that leaves the queues and the counter alone keeps SlotInv, unless it
\* leaves the refill loop.
LEMMA SlotFrame ==
    ASSUME SlotInv, UNCHANGED <<parallel_limit, jobVars>>, pc \notin {"exited", "failed"},
           pc \notin {"start_waiting", "killed"} \/ pc' = "killed"
    PROVE  SlotInv'
  BY DEF SlotInv, SlotAccounting, WorkConserving, jobVars

LEMMA SubmitKeepsSlots ==
    ASSUME CtlTypeOK, SlotInv, NEW m \in Messages, handle_submit(m)
    PROVE  SlotInv'
<1> USE DEF config, jobVars, fairVars, stopVars, logVars
<1> DEFINE job == [command_id |-> m.command_id, user_id |-> m.user_id,
                   runner_pid |-> m.sender_pid, start_time |-> clock]
<1>0. /\ running_count \in Nat /\ parallel_limit \in Nat
      /\ running_queue \in Seq(Jobs) /\ waiting_queue \in Seq(Jobs)
      /\ pc = "read" /\ parallel_limit' = parallel_limit
  BY DEF CtlTypeOK, handle_submit
<1>1. CASE /\ SlotFree
           /\ running_queue' = queue_enqueue(running_queue, job)
           /\ running_count' = running_count + 1
           /\ send_ack_to_runner(job, "finish")
           /\ UNCHANGED waiting_queue
  <2> HIDE DEF job
  <2>1. Len(running_queue') = Len(running_queue) + 1
    BY <1>0, <1>1 DEF queue_enqueue
  <2>2. waiting_queue = <<>>
    BY <1>0, <1>1 DEF SlotInv, WorkConserving, SlotFree
  <2> QED
    BY <1>0, <1>1, <2>1, <2>2 DEF SlotInv, SlotAccounting, WorkConserving, SlotFree
<1>2. CASE /\ ~SlotFree
           /\ UNCHANGED <<running_queue, running_count>>
           /\ pc' = "finish"
  BY <1>0, <1>2 DEF SlotInv, SlotAccounting, WorkConserving, SlotFree
<1>3. CASE UNCHANGED jobVars
  BY <1>0, <1>3, SlotFrame
<1> QED
  BY <1>1, <1>2, <1>3 DEF handle_submit

LEMMA DoneKeepsSlots ==
    ASSUME CtlTypeOK, SlotInv, NEW m \in Messages, handle_done(m)
    PROVE  SlotInv'
<1> USE DEF config, jobVars, fairVars, stopVars, logVars
<1> DEFINE nodes == NodesOfCommand(running_queue, m.command_id)
<1>0. /\ running_count \in Nat /\ parallel_limit \in Nat
      /\ running_queue \in Seq(Jobs)
      /\ pc = "done" /\ pc' = "start_waiting"
      /\ UNCHANGED <<parallel_limit, waiting_queue>>
  BY DEF CtlTypeOK, handle_done
<1>1. CASE nodes # {} /\ log_finished_job(running_queue[Min(nodes)])
  <2>1. Min(nodes) \in 1..Len(running_queue)
    BY <1>0, <1>1, FoundNode
  <2> HIDE DEF nodes
  <2>2. running_queue' = RemoveAt(running_queue, Min(nodes))
    BY <1>1 DEF handle_done, nodes, queue_remove_by_command_id
  <2>3. Len(running_queue') = Len(running_queue) - 1
    BY <1>0, <2>1, <2>2, RemoveAtProperties
  <2>4. running_count = Len(running_queue) /\ running_count > 0
    BY <1>0, <2>1 DEF SlotInv, SlotAccounting
  <2>5. running_count' = running_count - 1
    BY <1>1, <2>4 DEF handle_done, nodes
  <2> QED
    BY <1>0, <2>3, <2>4, <2>5 DEF SlotInv, SlotAccounting, WorkConserving
<1>2. CASE UNCHANGED <<running_queue, running_count>>
  BY <1>0, <1>2 DEF SlotInv, SlotAccounting, WorkConserving
<1> QED
  BY <1>1, <1>2 DEF handle_done

LEMMA RefillKeepsSlots ==
    ASSUME CtlTypeOK, SlotInv, start_waiting_jobs
    PROVE  SlotInv'
<1> USE DEF config, jobVars, fairVars, stopVars, logVars
<1>0. /\ running_count \in Nat /\ parallel_limit \in Nat
      /\ running_queue \in Seq(Jobs) /\ waiting_queue \in Seq(Jobs)
      /\ fair_users \in Seq(Int)
      /\ pc = "start_waiting" /\ parallel_limit' = parallel_limit
  BY DEF CtlTypeOK, start_waiting_jobs
<1>1. CASE ~SlotFree \/ waiting_queue = <<>>
  <2>1. pc' = "finish" /\ UNCHANGED jobVars
    BY <1>1 DEF start_waiting_jobs
  <2> QED
    BY <1>0, <1>1, <2>1 DEF SlotInv, SlotAccounting, WorkConserving, SlotFree
<1>2. CASE SlotFree /\ waiting_queue # <<>>
  <2>1. PICK i \in DequeueNodes(policy, waiting_queue, fair_users,
                                last_scheduled_user, AllocMayFail) :
          /\ waiting_queue' = RemoveAt(waiting_queue, i)
          /\ \/ /\ running_queue' = queue_enqueue(running_queue, waiting_queue[i])
                /\ running_count' = running_count + 1
             \/ UNCHANGED <<running_queue, running_count, pc>>
    BY <1>2 DEF start_waiting_jobs
  <2>2. CASE /\ running_queue' = queue_enqueue(running_queue, waiting_queue[i])
             /\ running_count' = running_count + 1
    <3>1. Len(running_queue') = Len(running_queue) + 1
      BY <1>0, <2>2 DEF queue_enqueue
    <3>2. running_count' = parallel_limit
      BY <1>0, <1>2, <2>2 DEF SlotInv, SlotAccounting, SlotFree
    <3> QED
      BY <1>0, <2>2, <3>1, <3>2 DEF SlotInv, SlotAccounting, WorkConserving
  <2>3. CASE UNCHANGED <<running_queue, running_count, pc>>
    BY <1>0, <1>2, <2>3 DEF SlotInv, SlotAccounting, WorkConserving
  <2> QED
    BY <2>1, <2>2, <2>3
<1> QED
  BY <1>1, <1>2

\* So does every step keep SlotInv.
LEMMA StepKeepsSlots == CtlTypeOK /\ SlotInv /\ [CtlNext]_ctlVars => SlotInv'
<1> SUFFICES ASSUME CtlTypeOK, SlotInv, [CtlNext]_ctlVars PROVE SlotInv'
  OBVIOUS
<1> USE DEF config, jobVars, fairVars, stopVars, logVars
<1>1. CASE CreateFifo \/ StartFails
  BY <1>1, SlotFrame DEF CreateFifo, StartFails, Goto
<1>2. CASE OpenServer \/ OpenServerBlocks \/ OpenServerReturns \/ ReadEof \/ CloseServer
  BY <1>2, SlotFrame
  DEF OpenServer, OpenServerBlocks, OpenServerReturns, ReadEof, CloseServer, Goto
<1>3. CASE Exit \/ OpenServerFails
  BY <1>3 DEF Exit, OpenServerFails, controller_destroy_queues, SlotInv, SlotAccounting,
              WorkConserving
<1>4. CASE Killed
  BY <1>4, SlotFrame DEF Killed, Goto
<1>5. CASE \E m \in Messages : controller_handle_message(m)
  <2>1. PICK m \in Messages : controller_handle_message(m)
    BY <1>5
  <2>2. CASE \/ reject_submit(m) \/ take_done(m)
             \/ handle_status_req(m) \/ handle_shutdown_req(m)
    BY <2>2, SlotFrame DEF reject_submit, take_done, handle_status_req, handle_shutdown_req
  <2> QED
    BY <2>1, <2>2, SubmitKeepsSlots DEF controller_handle_message
<1>6. CASE start_waiting_jobs
  BY <1>6, RefillKeepsSlots
<1>7. CASE try_finish_shutdown
  BY <1>7, SlotFrame DEF try_finish_shutdown
<1>8. CASE OpenReply \/ OpenReplyFails \/ WriteReply \/ CloseReply
  BY <1>8, SlotFrame DEF OpenReply, OpenReplyFails, WriteReply, CloseReply, Goto, AfterReply
<1>9. CASE \E m \in taken : handle_done(m)
  BY <1>9, TakenIsDone, DoneKeepsSlots
<1>10. CASE UNCHANGED ctlVars
  BY <1>10 DEF ctlVars, SlotInv, SlotAccounting, WorkConserving
<1> QED
  BY <1>1, <1>2, <1>3, <1>4, <1>5, <1>6, <1>7, <1>8, <1>9, <1>10 DEF CtlNext

LEMMA SlotInvariance == ControllerSpec => []SlotInv
<1>1. CtlInit => SlotInv
  <2> SUFFICES ASSUME CtlInit PROVE SlotInv
    OBVIOUS
  <2>1. parallel_limit \in Nat \ {0}
    BY DEF CtlInit, controller_configure, LimitOf, DefaultLimit
  <2> QED
    BY <2>1 DEF CtlInit, controller_configure, SlotInv, SlotAccounting, WorkConserving
<1>2. CtlTypeOK /\ SlotInv /\ [CtlNext]_ctlVars => SlotInv'
  BY StepKeepsSlots
<1> QED
  BY <1>1, <1>2, TypeCorrect, PTL DEF ControllerSpec

\* The hand-kept counter of handle_submit, start_waiting_jobs and handle_done
\* is the length of the running queue and never exceeds the limit, for every
\* limit and every sequence of messages.
THEOREM SlotsCounted == ControllerSpec => []SlotAccounting
<1>1. SlotInv => SlotAccounting
  BY DEF SlotInv
<1> QED
  BY <1>1, SlotInvariance, PTL

\* Outside the refill loop no command waits beside a free slot.
THEOREM NoIdleSlot == ControllerSpec => []WorkConserving
<1>1. SlotInv => WorkConserving
  BY DEF SlotInv
<1> QED
  BY <1>1, SlotInvariance, PTL

------------------------------------------------------------------------------
(* Shutdown *)

(***************************************************************************)
(* The decision to stop is taken in try_finish_shutdown, but keep_running  *)
(* is cleared several system calls later, once the final SHUTDOWN_ACK is   *)
(* sent.  The invariant follows the decision (reply.next) and the flag:    *)
(* from the decision on, nothing leads back to a step that fills a queue.  *)
(***************************************************************************)
StopInv ==
    /\ reply.next = "stop" \/ ~keep_running
          => running_queue = <<>> /\ waiting_queue = <<>>
    /\ reply.next = "stop"
          => pc \in {"send_open", "send_write", "send_close", "killed"}
    /\ ~keep_running => pc \in {"close", "unlink", "exited", "killed"}
    /\ pc \in {"unlink", "exited"} => ~keep_running

LEMMA StepKeepsStop == CtlTypeOK /\ SlotInv /\ StopInv /\ [CtlNext]_ctlVars => StopInv'
<1> SUFFICES ASSUME CtlTypeOK, SlotInv, StopInv, [CtlNext]_ctlVars PROVE StopInv'
  OBVIOUS
<1> USE DEF config, jobVars, fairVars, stopVars, logVars
<1>1. CASE CreateFifo \/ StartFails
  BY <1>1 DEF CreateFifo, StartFails, Goto, StopInv
<1>2. CASE OpenServer \/ OpenServerBlocks \/ OpenServerReturns \/ ReadEof \/ CloseServer
  BY <1>2
  DEF OpenServer, OpenServerBlocks, OpenServerReturns, ReadEof, CloseServer, Goto, StopInv
<1>3. CASE Exit \/ OpenServerFails
  BY <1>3 DEF Exit, OpenServerFails, controller_destroy_queues, StopInv
<1>4. CASE Killed
  BY <1>4 DEF Killed, Goto, StopInv
<1>5. CASE \E m \in Messages : controller_handle_message(m)
  <2>1. PICK m \in Messages : controller_handle_message(m)
    BY <1>5
  <2>2. pc = "read"
    BY <2>1 DEF controller_handle_message, reject_submit, handle_submit, take_done,
                handle_status_req, handle_shutdown_req
  <2>3. keep_running /\ reply.next # "stop"
    BY <2>2 DEF StopInv, CtlTypeOK
  <2>4. keep_running' = keep_running
    BY <2>1 DEF controller_handle_message, reject_submit, handle_submit, take_done,
                handle_status_req, handle_shutdown_req
  <2>5. reply'.next # "stop"
    <3>1. CASE reject_submit(m)
      BY <3>1 DEF reject_submit, Send, send_shutdown_ack_to_runner
    <3>2. CASE handle_submit(m)
      BY <2>3, <3>2 DEF handle_submit, Send, send_ack_to_runner
    <3>3. CASE handle_status_req(m)
      BY <2>3, <3>3 DEF handle_status_req, Send
    <3>4. CASE take_done(m) \/ handle_shutdown_req(m)
      BY <2>3, <3>4 DEF take_done, handle_shutdown_req
    <3> QED
      BY <2>1, <3>1, <3>2, <3>3, <3>4 DEF controller_handle_message
  <2>6. pc' \notin {"unlink", "exited"}
    BY <2>1 DEF controller_handle_message, reject_submit, handle_submit, take_done,
                handle_status_req, handle_shutdown_req, Send, send_ack_to_runner,
                send_shutdown_ack_to_runner
  <2> QED
    BY <2>3, <2>4, <2>5, <2>6 DEF StopInv
<1>6. CASE start_waiting_jobs
  <2>1. pc = "start_waiting" /\ keep_running' = keep_running
    BY <1>6 DEF start_waiting_jobs
  <2>2. keep_running /\ reply.next # "stop"
    BY <2>1 DEF StopInv, CtlTypeOK
  <2>3. reply'.next # "stop"
    BY <1>6, <2>2 DEF start_waiting_jobs, Send, send_ack_to_runner
  <2>4. pc' \notin {"unlink", "exited"}
    BY <1>6, <2>1 DEF start_waiting_jobs, Send, send_ack_to_runner
  <2> QED
    BY <2>1, <2>2, <2>3, <2>4 DEF StopInv
<1>7. CASE try_finish_shutdown
  <2>1. CASE Drained /\ Send(shutdown_requester_pid, "shutdown", <<ShutdownAck>>, "stop")
    <3>1. pc = "finish" /\ keep_running
      BY <1>7 DEF try_finish_shutdown, StopInv, CtlTypeOK
    <3>2. running_queue = <<>> /\ waiting_queue = <<>>
      BY <2>1, <3>1 DEF Drained, SlotInv, SlotAccounting, CtlTypeOK
    <3> QED
      BY <1>7, <2>1, <3>1, <3>2 DEF try_finish_shutdown, Send, StopInv
  <2>2. CASE pc' = "read" /\ UNCHANGED reply
    BY <1>7, <2>2 DEF try_finish_shutdown, StopInv
  <2> QED
    BY <1>7, <2>1, <2>2 DEF try_finish_shutdown
<1>8. CASE OpenReply
  BY <1>8 DEF OpenReply, Goto, StopInv
<1>9. CASE OpenReplyFails \/ CloseReply
  BY <1>9 DEF OpenReplyFails, CloseReply, AfterReply, NoReply, StopInv, CtlTypeOK
<1>10. CASE WriteReply
  BY <1>10 DEF WriteReply, StopInv, CtlTypeOK
<1>11. CASE \E m \in taken : handle_done(m)
  <2>1. PICK m \in taken : handle_done(m)
    BY <1>11
  <2>2. pc = "done" /\ pc' = "start_waiting" /\ UNCHANGED <<keep_running, reply>>
    BY <2>1 DEF handle_done
  <2>3. keep_running /\ reply.next # "stop"
    BY <2>2 DEF StopInv, CtlTypeOK
  <2> QED
    BY <2>2, <2>3 DEF StopInv
<1>12. CASE UNCHANGED ctlVars
  BY <1>12 DEF ctlVars, StopInv
<1> QED
  BY <1>1, <1>2, <1>3, <1>4, <1>5, <1>6, <1>7, <1>8, <1>9, <1>10, <1>11, <1>12
  DEF CtlNext

LEMMA StopInvariance == ControllerSpec => []StopInv
<1>1. CtlInit => StopInv
  BY DEF CtlInit, controller_configure, StopInv, NoReply
<1>2. CtlTypeOK /\ SlotInv /\ StopInv /\ [CtlNext]_ctlVars => StopInv'
  BY StepKeepsStop
<1> QED
  BY <1>1, <1>2, TypeCorrect, SlotInvariance, PTL DEF ControllerSpec

\* When the main loop is told to stop no command is running or waiting, whatever
\* was accepted before the request and however the replies went.
THEOREM StopsDrained == ControllerSpec => []DrainedBeforeStop
<1>1. StopInv => DrainedBeforeStop
  BY DEF StopInv, DrainedBeforeStop
<1> QED
  BY <1>1, StopInvariance, PTL

------------------------------------------------------------------------------
(* Order *)

(***************************************************************************)
(* ArrivalOrder alone is not inductive: the job a dequeue takes precedes   *)
(* the ones it leaves because the waiting queue is in arrival order, and a *)
(* new job follows all others because start_time comes from a clock that   *)
(* is ahead of them.  handle_submit starts a command without looking at    *)
(* the waiting queue; WorkConserving says that the queue is then empty.    *)
(***************************************************************************)
AllJobs == ToSet(running_queue) \cup ToSet(log) \cup ToSet(waiting_queue)

InArrivalOrder(q) ==
    \A i, j \in 1..Len(q) : i < j => q[i].start_time < q[j].start_time

OrderInv ==
    /\ \A s \in AllJobs : s.start_time < clock
    /\ InArrivalOrder(waiting_queue)
    /\ ArrivalOrder

LEMMA OrderFrame ==
    ASSUME OrderInv, UNCHANGED <<policy, running_queue, log, waiting_queue, clock>>
    PROVE  OrderInv'
  BY DEF OrderInv, AllJobs, InArrivalOrder, ArrivalOrder

LEMMA SubmitKeepsOrder ==
    ASSUME CtlTypeOK, SlotInv, OrderInv, NEW m \in Messages, handle_submit(m)
    PROVE  OrderInv'
<1> USE DEF config, jobVars, fairVars, stopVars, logVars
<1> DEFINE job == [command_id |-> m.command_id, user_id |-> m.user_id,
                   runner_pid |-> m.sender_pid, start_time |-> clock]
<1>0. /\ running_queue \in Seq(Jobs) /\ waiting_queue \in Seq(Jobs)
      /\ log \in Seq(Jobs) /\ clock \in Nat /\ clock' = clock + 1
      /\ running_count \in Nat /\ parallel_limit \in Nat
      /\ pc = "read" /\ UNCHANGED <<policy, log>>
  BY DEF CtlTypeOK, handle_submit
<1>1. job \in Jobs /\ job.start_time = clock
  BY <1>0, MessageFields DEF handle_submit, Jobs
<1>2. \A s \in AllJobs : s.start_time \in Nat /\ s.start_time < clock
  <2>1. AllJobs \subseteq Jobs
    BY <1>0 DEF AllJobs, ToSet
  <2> QED
    BY <2>1 DEF OrderInv, Jobs
<1>3. CASE /\ SlotFree
           /\ running_queue' = queue_enqueue(running_queue, job)
           /\ UNCHANGED waiting_queue
  <2> HIDE DEF job
  <2>1. waiting_queue = <<>>
    BY <1>0, <1>3 DEF SlotInv, WorkConserving, SlotFree
  <2>2. ToSet(waiting_queue') = {} /\ ToSet(waiting_queue) = {}
    BY <1>3, <2>1 DEF ToSet
  <2>3. ToSet(running_queue') = ToSet(running_queue) \cup {job}
    BY <1>0, <1>1, <1>3, AppendedJobs DEF queue_enqueue
  <2>4. AllJobs' = AllJobs \cup {job}
    BY <1>0, <2>2, <2>3 DEF AllJobs
  <2>5. \A s \in AllJobs' : s.start_time < clock'
    BY <1>0, <1>1, <1>2, <2>4
  <2>6. InArrivalOrder(waiting_queue)'
    BY <1>3 DEF OrderInv, InArrivalOrder
  <2>7. ArrivalOrder'
    BY <2>2 DEF ArrivalOrder
  <2> QED
    BY <2>5, <2>6, <2>7 DEF OrderInv
<1>4. CASE /\ waiting_queue' = queue_enqueue(waiting_queue, job)
           /\ UNCHANGED running_queue
  <2> HIDE DEF job
  <2>1. ToSet(waiting_queue') = ToSet(waiting_queue) \cup {job}
    BY <1>0, <1>1, <1>4, AppendedJobs DEF queue_enqueue
  <2>2. AllJobs' = AllJobs \cup {job}
    BY <1>0, <1>4, <2>1 DEF AllJobs
  <2>3. \A s \in AllJobs' : s.start_time < clock'
    BY <1>0, <1>1, <1>2, <2>2
  <2>4. InArrivalOrder(waiting_queue)'
    <3>1. /\ Len(waiting_queue') = Len(waiting_queue) + 1 /\ Len(waiting_queue) \in Nat
          /\ \A i \in 1..Len(waiting_queue) : waiting_queue'[i] = waiting_queue[i]
          /\ waiting_queue'[Len(waiting_queue) + 1] = job
      BY <1>0, <1>1, <1>4 DEF queue_enqueue
    <3>2. \A i \in 1..Len(waiting_queue) : waiting_queue[i].start_time < clock
      BY <1>0, <1>2 DEF AllJobs, ToSet
    <3> QED
      BY <1>1, <3>1, <3>2 DEF OrderInv, InArrivalOrder
  <2>5. ArrivalOrder'
    BY <1>0, <1>1, <1>2, <1>4, <2>1 DEF OrderInv, ArrivalOrder, AllJobs
  <2> QED
    BY <2>3, <2>4, <2>5 DEF OrderInv
<1>5. CASE UNCHANGED jobVars
  <2>1. AllJobs' = AllJobs
    BY <1>0, <1>5 DEF AllJobs
  <2>2. \A s \in AllJobs' : s.start_time < clock'
    BY <1>0, <1>2, <2>1
  <2> QED
    BY <1>0, <1>5, <2>2 DEF OrderInv, InArrivalOrder, ArrivalOrder
<1> QED
  BY <1>3, <1>4, <1>5 DEF handle_submit

LEMMA DoneKeepsOrder ==
    ASSUME CtlTypeOK, OrderInv, NEW m \in Messages, handle_done(m)
    PROVE  OrderInv'
<1> USE DEF config, jobVars, fairVars, stopVars, logVars
<1> DEFINE nodes == NodesOfCommand(running_queue, m.command_id)
           Started == ToSet(running_queue) \cup ToSet(log)
<1>0. /\ running_queue \in Seq(Jobs) /\ log \in Seq(Jobs)
      /\ UNCHANGED <<policy, clock, waiting_queue>>
  BY DEF CtlTypeOK, handle_done
<1>1. CASE nodes # {} /\ log_finished_job(running_queue[Min(nodes)])
  <2>1. Min(nodes) \in 1..Len(running_queue)
    BY <1>0, <1>1, FoundNode
  <2>2. running_queue' = RemoveAt(running_queue, Min(nodes))
    BY <1>1 DEF handle_done, queue_remove_by_command_id
  <2> HIDE DEF nodes
  <2>3. running_queue[Min(nodes)] \in ToSet(running_queue) /\ running_queue[Min(nodes)] \in Jobs
    BY <1>0, <2>1 DEF ToSet
  <2>4. ToSet(log') \subseteq ToSet(log) \cup {running_queue[Min(nodes)]}
    BY <1>0, <1>1, <2>3, LoggedJobs
  <2>5. \A y \in ToSet(running_queue') : y \in ToSet(running_queue)
    <3>1. \A y \in ToSet(running_queue') :
             \E j \in 1..Len(running_queue) : y = running_queue[j]
      BY <1>0, <2>1, <2>2, RemainingNodes
    <3> QED
      BY <1>0, <3>1 DEF ToSet
  <2>6. Started' \subseteq Started
    BY <2>3, <2>4, <2>5
  <2> QED
    BY <1>0, <2>6 DEF OrderInv, AllJobs, InArrivalOrder, ArrivalOrder
<1>2. CASE UNCHANGED <<running_queue, log, running_count>>
  BY <1>0, <1>2, OrderFrame
<1> QED
  BY <1>1, <1>2 DEF handle_done

LEMMA RefillKeepsOrder ==
    ASSUME CtlTypeOK, OrderInv, start_waiting_jobs
    PROVE  OrderInv'
<1> USE DEF config, jobVars, fairVars, stopVars, logVars
<1>0. /\ running_queue \in Seq(Jobs) /\ waiting_queue \in Seq(Jobs)
      /\ fair_users \in Seq(Int)
      /\ UNCHANGED <<policy, clock, log>>
  BY DEF CtlTypeOK, start_waiting_jobs
<1>1. CASE ~SlotFree \/ waiting_queue = <<>>
  <2>1. UNCHANGED jobVars
    BY <1>1 DEF start_waiting_jobs
  <2> QED
    BY <1>0, <2>1, OrderFrame
<1>2. CASE SlotFree /\ waiting_queue # <<>>
  <2>1. PICK i \in DequeueNodes(policy, waiting_queue, fair_users,
                                last_scheduled_user, AllocMayFail) :
          /\ waiting_queue' = RemoveAt(waiting_queue, i)
          /\ \/ running_queue' = queue_enqueue(running_queue, waiting_queue[i])
             \/ UNCHANGED running_queue
    BY <1>2 DEF start_waiting_jobs
  <2> DEFINE next_job == waiting_queue[i]
  <2>2. /\ i \in 1..Len(waiting_queue)
        /\ policy \notin {"random", "fair"} => i = 1
        /\ policy = "fair" =>
              \A j \in 1..(i - 1) : waiting_queue[j].user_id # next_job.user_id
    BY <1>0, <1>2, DequeuedNode
  <2>3. next_job \in Jobs /\ next_job \in ToSet(waiting_queue)
    BY <1>0, <2>2 DEF ToSet
  <2>4. \A y \in ToSet(waiting_queue') :
           \E j \in 1..Len(waiting_queue) : j # i /\ y = waiting_queue[j]
    BY <1>0, <2>1, <2>2, RemainingNodes
  <2>5. ToSet(waiting_queue') \subseteq ToSet(waiting_queue)
    BY <1>0, <2>4 DEF ToSet
  <2>6. ToSet(running_queue') \subseteq ToSet(running_queue) \cup {next_job}
    <3>1. CASE running_queue' = queue_enqueue(running_queue, next_job)
      <4> HIDE DEF next_job
      <4> QED
        BY <1>0, <2>3, <3>1, AppendedJobs DEF queue_enqueue
    <3> QED
      BY <2>1, <3>1
  <2>7. \A s \in AllJobs' : s.start_time < clock'
    BY <1>0, <2>3, <2>5, <2>6 DEF OrderInv, AllJobs
  <2>8. InArrivalOrder(waiting_queue)'
    <3>1. /\ Len(waiting_queue') = Len(waiting_queue) - 1 /\ Len(waiting_queue) \in Nat
          /\ \A j \in 1..(Len(waiting_queue) - 1) :
                waiting_queue'[j] = IF j < i THEN waiting_queue[j] ELSE waiting_queue[j + 1]
      <4> DEFINE r == RemoveAt(waiting_queue, i)
      <4>1. /\ Len(r) = Len(waiting_queue) - 1
            /\ \A j \in 1..(Len(waiting_queue) - 1) :
                  r[j] = IF j < i THEN waiting_queue[j] ELSE waiting_queue[j + 1]
        BY <1>0, <2>2, RemoveAtProperties
      <4>2. waiting_queue' = r
        BY <2>1
      <4> HIDE DEF r
      <4> QED
        BY <1>0, <4>1, <4>2
    <3>2. SUFFICES ASSUME NEW j \in 1..Len(waiting_queue'), NEW k \in 1..Len(waiting_queue'),
                          j < k
                   PROVE  waiting_queue'[j].start_time < waiting_queue'[k].start_time
      BY DEF InArrivalOrder
    <3> DEFINE old(n) == IF n < i THEN n ELSE n + 1
    <3>3. /\ old(j) \in 1..Len(waiting_queue) /\ old(k) \in 1..Len(waiting_queue)
          /\ old(j) < old(k)
      BY <2>2, <3>1, <3>2
    <3>4. waiting_queue'[j] = waiting_queue[old(j)] /\ waiting_queue'[k] = waiting_queue[old(k)]
      BY <2>2, <3>1
    <3> HIDE DEF old
    <3> QED
      BY <3>3, <3>4 DEF OrderInv, InArrivalOrder
  <2>9. ArrivalOrder'
    <3>1. ASSUME NEW w \in ToSet(waiting_queue'),
                 \/ policy \notin {"random", "fair"}
                 \/ policy = "fair" /\ next_job.user_id = w.user_id
          PROVE  next_job.start_time < w.start_time
      <4>1. PICK j \in 1..Len(waiting_queue) : j # i /\ w = waiting_queue[j]
        BY <2>4
      <4>2. i < j
        BY <2>2, <3>1, <4>1
      <4> QED
        BY <2>2, <4>1, <4>2 DEF OrderInv, InArrivalOrder
    <3> HIDE DEF next_job
    <3> QED
      BY <1>0, <2>5, <2>6, <3>1 DEF OrderInv, ArrivalOrder
  <2> QED
    BY <2>7, <2>8, <2>9 DEF OrderInv
<1> QED
  BY <1>1, <1>2

LEMMA StepKeepsOrder == CtlTypeOK /\ SlotInv /\ OrderInv /\ [CtlNext]_ctlVars => OrderInv'
<1> SUFFICES ASSUME CtlTypeOK, SlotInv, OrderInv, [CtlNext]_ctlVars PROVE OrderInv'
  OBVIOUS
<1> USE DEF config, jobVars, fairVars, stopVars, logVars
<1>1. CASE CreateFifo \/ StartFails
  BY <1>1, OrderFrame DEF CreateFifo, StartFails, Goto
<1>2. CASE OpenServer \/ OpenServerBlocks \/ OpenServerReturns \/ ReadEof \/ CloseServer
  BY <1>2, OrderFrame
  DEF OpenServer, OpenServerBlocks, OpenServerReturns, ReadEof, CloseServer, Goto
<1>3. CASE Exit \/ OpenServerFails
  <2>1. /\ ToSet(waiting_queue') = {} /\ ToSet(running_queue') = {}
        /\ Len(waiting_queue') = 0 /\ UNCHANGED <<log, clock>>
    BY <1>3 DEF Exit, OpenServerFails, controller_destroy_queues, ToSet
  <2> QED
    BY <2>1 DEF OrderInv, AllJobs, InArrivalOrder, ArrivalOrder
<1>4. CASE Killed
  BY <1>4, OrderFrame DEF Killed, Goto
<1>5. CASE \E m \in Messages : controller_handle_message(m)
  <2>1. PICK m \in Messages : controller_handle_message(m)
    BY <1>5
  <2>2. CASE \/ reject_submit(m) \/ take_done(m)
             \/ handle_status_req(m) \/ handle_shutdown_req(m)
    BY <2>2, OrderFrame DEF reject_submit, take_done, handle_status_req, handle_shutdown_req
  <2> QED
    BY <2>1, <2>2, SubmitKeepsOrder DEF controller_handle_message
<1>6. CASE start_waiting_jobs
  BY <1>6, RefillKeepsOrder
<1>7. CASE try_finish_shutdown
  BY <1>7, OrderFrame DEF try_finish_shutdown
<1>8. CASE OpenReply \/ OpenReplyFails \/ WriteReply \/ CloseReply
  BY <1>8, OrderFrame
  DEF OpenReply, OpenReplyFails, WriteReply, CloseReply, Goto, AfterReply
<1>9. CASE \E m \in taken : handle_done(m)
  BY <1>9, TakenIsDone, DoneKeepsOrder
<1>10. CASE UNCHANGED ctlVars
  BY <1>10, OrderFrame DEF ctlVars
<1> QED
  BY <1>1, <1>2, <1>3, <1>4, <1>5, <1>6, <1>7, <1>8, <1>9, <1>10 DEF CtlNext

\* Under fcfs no command is authorized before one that arrived earlier, and
\* under fair none before an earlier one of the same user, for every number of
\* users and every mix of completions, also when fair falls back on fcfs for
\* want of memory.
THEOREM PoliciesKeepOrder == ControllerSpec => []ArrivalOrder
<1>1. CtlInit => OrderInv
  BY DEF CtlInit, OrderInv, AllJobs, InArrivalOrder, ArrivalOrder, ToSet
<1>2. CtlTypeOK /\ SlotInv /\ OrderInv /\ [CtlNext]_ctlVars => OrderInv'
  BY StepKeepsOrder
<1>3. OrderInv => ArrivalOrder
  BY DEF OrderInv
<1> QED
  BY <1>1, <1>2, <1>3, TypeCorrect, SlotInvariance, PTL DEF ControllerSpec

------------------------------------------------------------------------------
(* Nothing lost, nothing twice *)

(***************************************************************************)
(* AcceptedOnce speaks of positions in the concatenation of the two queues *)
(* and the log.  The invariant says the same of the sets of start times,   *)
(* which every step changes in a simple way: a job enters with the time of *)
(* the clock, moves from one place to another, and never leaves, because   *)
(* the queues are empty when Exit frees them (StopInv).                    *)
(***************************************************************************)
Times(q) == {q[i].start_time : i \in 1..Len(q)}
DistinctTimes(q) == \A i, j \in 1..Len(q) : q[i].start_time = q[j].start_time => i = j

AcceptInv ==
    ~AllocMayFail /\ ~OpenMayFail /\ pc # "failed" =>
        /\ DistinctTimes(waiting_queue) /\ DistinctTimes(running_queue) /\ DistinctTimes(log)
        /\ Times(waiting_queue) \cap Times(running_queue) = {}
        /\ Times(waiting_queue) \cap Times(log) = {}
        /\ Times(running_queue) \cap Times(log) = {}
        /\ Times(waiting_queue) \cup Times(running_queue) \cup Times(log) = 0..(clock - 1)

LEMMA EnqueuedTimes ==
    ASSUME NEW q \in Seq(Jobs), NEW job \in Jobs, DistinctTimes(q),
           job.start_time \notin Times(q)
    PROVE  /\ Times(Append(q, job)) = Times(q) \cup {job.start_time}
           /\ DistinctTimes(Append(q, job))
<1> DEFINE r == Append(q, job)
<1>1. /\ Len(q) \in Nat /\ Len(r) = Len(q) + 1
      /\ \A i \in 1..Len(q) : r[i] = q[i]
      /\ r[Len(q) + 1] = job
  OBVIOUS
<1> HIDE DEF r
<1>2. Times(r) = Times(q) \cup {job.start_time}
  <2>1. ASSUME NEW x \in Times(r) PROVE x \in Times(q) \cup {job.start_time}
    BY <1>1 DEF Times
  <2>2. ASSUME NEW x \in Times(q) PROVE x \in Times(r)
    BY <1>1 DEF Times
  <2>3. job.start_time \in Times(r)
    BY <1>1 DEF Times
  <2> QED
    BY <2>1, <2>2, <2>3
<1>3. DistinctTimes(r)
  BY <1>1 DEF DistinctTimes, Times
<1> QED
  BY <1>2, <1>3 DEF r

LEMMA RemovedTimes ==
    ASSUME NEW q \in Seq(Jobs), NEW i \in 1..Len(q), DistinctTimes(q)
    PROVE  /\ Times(RemoveAt(q, i)) = Times(q) \ {q[i].start_time}
           /\ DistinctTimes(RemoveAt(q, i))
           /\ q[i].start_time \in Times(q)
<1> DEFINE r == RemoveAt(q, i)
           old(n) == IF n < i THEN n ELSE n + 1
<1>1. /\ Len(q) \in Nat /\ Len(r) = Len(q) - 1
      /\ \A j \in 1..(Len(q) - 1) : r[j] = IF j < i THEN q[j] ELSE q[j + 1]
  BY RemoveAtProperties
<1> HIDE DEF r
<1>2. \A j \in 1..Len(r) : old(j) \in 1..Len(q) /\ old(j) # i /\ r[j] = q[old(j)]
  BY <1>1
<1>3. \A k \in 1..Len(q) : k # i => \E j \in 1..Len(r) : r[j] = q[k]
  <2> SUFFICES ASSUME NEW k \in 1..Len(q), k # i
               PROVE  \E j \in 1..Len(r) : r[j] = q[k]
    OBVIOUS
  <2>1. CASE k < i
    BY <1>1, <2>1
  <2>2. CASE k > i
    <3>1. k - 1 \in 1..Len(r) /\ r[k - 1] = q[k]
      BY <1>1, <2>2
    <3> QED
      BY <3>1
  <2> QED
    BY <2>1, <2>2
<1>4. \A j, k \in 1..Len(r) : old(j) = old(k) => j = k
  BY <1>1
<1> HIDE DEF old
<1>5. Times(r) = Times(q) \ {q[i].start_time}
  <2>1. ASSUME NEW x \in Times(r) PROVE x \in Times(q) \ {q[i].start_time}
    BY <1>2 DEF Times, DistinctTimes
  <2>2. ASSUME NEW x \in Times(q), x # q[i].start_time PROVE x \in Times(r)
    BY <1>3, <2>2 DEF Times
  <2> QED
    BY <2>1, <2>2
<1>6. DistinctTimes(r)
  BY <1>2, <1>4 DEF DistinctTimes
<1> QED
  BY <1>5, <1>6 DEF r, Times

LEMMA SubmitKeepsAccepted ==
    ASSUME CtlTypeOK, AcceptInv, NEW m \in Messages, handle_submit(m)
    PROVE  AcceptInv'
<1> USE DEF config, jobVars, fairVars, stopVars, logVars
<1> DEFINE job == [command_id |-> m.command_id, user_id |-> m.user_id,
                   runner_pid |-> m.sender_pid, start_time |-> clock]
<1>0. /\ running_queue \in Seq(Jobs) /\ waiting_queue \in Seq(Jobs)
      /\ clock \in Nat /\ clock' = clock + 1 /\ pc = "read" /\ UNCHANGED log
  BY DEF CtlTypeOK, handle_submit
<1>1. job \in Jobs /\ job.start_time = clock
  BY <1>0, MessageFields DEF handle_submit, Jobs
<1>2. \/ AllocMayFail
      \/ running_queue' = queue_enqueue(running_queue, job) /\ UNCHANGED waiting_queue
      \/ waiting_queue' = queue_enqueue(waiting_queue, job) /\ UNCHANGED running_queue
  BY DEF handle_submit, EnqueueFails
<1> HIDE DEF job
<1> SUFFICES ASSUME ~AllocMayFail, ~OpenMayFail PROVE AcceptInv'
  BY DEF AcceptInv
<1>3. /\ DistinctTimes(waiting_queue) /\ DistinctTimes(running_queue) /\ DistinctTimes(log)
      /\ Times(waiting_queue) \cap Times(running_queue) = {}
      /\ Times(waiting_queue) \cap Times(log) = {}
      /\ Times(running_queue) \cap Times(log) = {}
      /\ Times(waiting_queue) \cup Times(running_queue) \cup Times(log) = 0..(clock - 1)
  BY <1>0 DEF AcceptInv
<1>4. clock \notin 0..(clock - 1) /\ 0..(clock' - 1) = 0..(clock - 1) \cup {clock}
  BY <1>0
<1>5. CASE running_queue' = queue_enqueue(running_queue, job) /\ UNCHANGED waiting_queue
  <2>1. Times(running_queue') = Times(running_queue) \cup {clock} /\ DistinctTimes(running_queue')
    BY <1>0, <1>1, <1>3, <1>4, <1>5, EnqueuedTimes DEF queue_enqueue
  <2>2. /\ Times(waiting_queue') = Times(waiting_queue) /\ DistinctTimes(waiting_queue')
        /\ Times(log') = Times(log) /\ DistinctTimes(log')
    BY <1>0, <1>3, <1>5, Zenon
  <2>3. /\ Times(waiting_queue') \cap Times(running_queue') = {}
        /\ Times(waiting_queue') \cap Times(log') = {}
        /\ Times(running_queue') \cap Times(log') = {}
        /\ Times(waiting_queue') \cup Times(running_queue') \cup Times(log')
              = 0..(clock - 1) \cup {clock}
    <3>1. \A t \in Times(waiting_queue) \cup Times(running_queue) \cup Times(log) : t # clock
      BY <1>3, <1>4, Zenon
    <3> QED
      BY <1>3, <2>1, <2>2, <3>1
  <2> QED
    BY <1>4, <2>1, <2>2, <2>3, Zenon DEF AcceptInv
<1>6. CASE waiting_queue' = queue_enqueue(waiting_queue, job) /\ UNCHANGED running_queue
  <2>1. Times(waiting_queue') = Times(waiting_queue) \cup {clock} /\ DistinctTimes(waiting_queue')
    BY <1>0, <1>1, <1>3, <1>4, <1>6, EnqueuedTimes DEF queue_enqueue
  <2>2. /\ Times(running_queue') = Times(running_queue) /\ DistinctTimes(running_queue')
        /\ Times(log') = Times(log) /\ DistinctTimes(log')
    BY <1>0, <1>3, <1>6, Zenon
  <2>3. /\ Times(waiting_queue') \cap Times(running_queue') = {}
        /\ Times(waiting_queue') \cap Times(log') = {}
        /\ Times(running_queue') \cap Times(log') = {}
        /\ Times(waiting_queue') \cup Times(running_queue') \cup Times(log')
              = 0..(clock - 1) \cup {clock}
    <3>1. \A t \in Times(waiting_queue) \cup Times(running_queue) \cup Times(log) : t # clock
      BY <1>3, <1>4, Zenon
    <3> QED
      BY <1>3, <2>1, <2>2, <3>1
  <2> QED
    BY <1>4, <2>1, <2>2, <2>3, Zenon DEF AcceptInv
<1> QED
  BY <1>2, <1>5, <1>6

LEMMA DoneKeepsAccepted ==
    ASSUME CtlTypeOK, AcceptInv, NEW m \in Messages, handle_done(m)
    PROVE  AcceptInv'
<1> USE DEF config, jobVars, fairVars, stopVars, logVars
<1> DEFINE nodes == NodesOfCommand(running_queue, m.command_id)
<1>0. /\ running_queue \in Seq(Jobs) /\ log \in Seq(Jobs)
      /\ UNCHANGED <<clock, waiting_queue>> /\ pc = "done"
  BY DEF CtlTypeOK, handle_done
<1> SUFFICES ASSUME ~AllocMayFail, ~OpenMayFail PROVE AcceptInv'
  BY DEF AcceptInv
<1>1. /\ DistinctTimes(waiting_queue) /\ DistinctTimes(running_queue) /\ DistinctTimes(log)
      /\ Times(waiting_queue) \cap Times(running_queue) = {}
      /\ Times(waiting_queue) \cap Times(log) = {}
      /\ Times(running_queue) \cap Times(log) = {}
      /\ Times(waiting_queue) \cup Times(running_queue) \cup Times(log) = 0..(clock - 1)
  BY <1>0 DEF AcceptInv
<1>2. CASE nodes # {}
  <2>1. PICK i \in 1..Len(running_queue) : i = Min(nodes)
    BY <1>0, <1>2, FoundNode
  <2>2. running_queue' = RemoveAt(running_queue, i) /\ log' = Append(log, running_queue[i])
    BY <1>2, <2>1 DEF handle_done, queue_remove_by_command_id, log_finished_job
  <2> HIDE DEF nodes
  <2> DEFINE t == running_queue[i].start_time
  <2>3. /\ Times(running_queue') = Times(running_queue) \ {t} /\ DistinctTimes(running_queue')
        /\ t \in Times(running_queue)
    BY <1>0, <1>1, <2>2, RemovedTimes
  <2>4. running_queue[i] \in Jobs
    BY <1>0
  <2>5. Times(log') = Times(log) \cup {t} /\ DistinctTimes(log')
    BY <1>0, <1>1, <2>2, <2>3, <2>4, EnqueuedTimes
  <2> HIDE DEF t
  <2> QED
    BY <1>0, <1>1, <2>3, <2>5, Zenon DEF AcceptInv
<1>3. CASE nodes = {}
  BY <1>0, <1>1, <1>3 DEF handle_done, AcceptInv
<1> QED
  BY <1>2, <1>3

LEMMA RefillKeepsAccepted ==
    ASSUME CtlTypeOK, AcceptInv, start_waiting_jobs
    PROVE  AcceptInv'
<1> USE DEF config, jobVars, fairVars, stopVars, logVars
<1>0. /\ running_queue \in Seq(Jobs) /\ waiting_queue \in Seq(Jobs)
      /\ fair_users \in Seq(Int)
      /\ UNCHANGED <<clock, log>> /\ pc = "start_waiting"
  BY DEF CtlTypeOK, start_waiting_jobs
<1> SUFFICES ASSUME ~AllocMayFail, ~OpenMayFail PROVE AcceptInv'
  BY DEF AcceptInv
<1>1. /\ DistinctTimes(waiting_queue) /\ DistinctTimes(running_queue) /\ DistinctTimes(log)
      /\ Times(waiting_queue) \cap Times(running_queue) = {}
      /\ Times(waiting_queue) \cap Times(log) = {}
      /\ Times(running_queue) \cap Times(log) = {}
      /\ Times(waiting_queue) \cup Times(running_queue) \cup Times(log) = 0..(clock - 1)
  BY <1>0 DEF AcceptInv
<1>2. CASE ~SlotFree \/ waiting_queue = <<>>
  <2>1. UNCHANGED jobVars
    BY <1>2 DEF start_waiting_jobs
  <2> QED
    BY <1>0, <1>1, <2>1 DEF AcceptInv
<1>3. CASE SlotFree /\ waiting_queue # <<>>
  <2>1. PICK i \in DequeueNodes(policy, waiting_queue, fair_users,
                                last_scheduled_user, AllocMayFail) :
          /\ waiting_queue' = RemoveAt(waiting_queue, i)
          /\ running_queue' = queue_enqueue(running_queue, waiting_queue[i])
    BY <1>3 DEF start_waiting_jobs, EnqueueFails
  <2>2. i \in 1..Len(waiting_queue)
    BY <1>0, <1>3, DequeuedNode
  <2> DEFINE t == waiting_queue[i].start_time
  <2>3. /\ Times(waiting_queue') = Times(waiting_queue) \ {t} /\ DistinctTimes(waiting_queue')
        /\ t \in Times(waiting_queue)
    BY <1>0, <1>1, <2>1, <2>2, RemovedTimes
  <2>4. waiting_queue[i] \in Jobs
    BY <1>0, <2>2
  <2>5. Times(running_queue') = Times(running_queue) \cup {t} /\ DistinctTimes(running_queue')
    BY <1>0, <1>1, <2>1, <2>3, <2>4, EnqueuedTimes DEF queue_enqueue
  <2> HIDE DEF t
  <2> QED
    BY <1>0, <1>1, <2>3, <2>5, Zenon DEF AcceptInv
<1> QED
  BY <1>2, <1>3

LEMMA AcceptedFrame ==
    ASSUME AcceptInv, UNCHANGED <<waiting_queue, running_queue, clock, log>>, pc # "failed"
    PROVE  AcceptInv'
  BY DEF AcceptInv

LEMMA StepKeepsAccepted ==
    ASSUME CtlTypeOK, StopInv, AcceptInv, [CtlNext]_ctlVars
    PROVE  AcceptInv'
<1> USE DEF config, jobVars, fairVars, stopVars, logVars
<1>1. CASE CreateFifo \/ StartFails \/ OpenServer \/ OpenServerBlocks \/ OpenServerReturns
           \/ ReadEof \/ CloseServer
  BY <1>1, AcceptedFrame
  DEF CreateFifo, StartFails, OpenServer, OpenServerBlocks, OpenServerReturns, ReadEof,
      CloseServer, Goto
<1>2. CASE OpenServerFails
  BY <1>2 DEF OpenServerFails, AcceptInv
<1>3. CASE Exit
  <2>1. waiting_queue = <<>> /\ running_queue = <<>> /\ pc # "failed"
    BY <1>3 DEF Exit, StopInv
  <2> QED
    BY <1>3, <2>1, AcceptedFrame DEF Exit, controller_destroy_queues
<1>4. CASE Killed
  BY <1>4, AcceptedFrame DEF Killed, Goto
<1>5. CASE \E m \in Messages : controller_handle_message(m)
  <2>1. PICK m \in Messages : controller_handle_message(m)
    BY <1>5
  <2>2. CASE \/ reject_submit(m) \/ take_done(m)
             \/ handle_status_req(m) \/ handle_shutdown_req(m)
    BY <2>2, AcceptedFrame DEF reject_submit, take_done, handle_status_req, handle_shutdown_req
  <2> QED
    BY <2>1, <2>2, SubmitKeepsAccepted DEF controller_handle_message
<1>6. CASE start_waiting_jobs
  BY <1>6, RefillKeepsAccepted
<1>7. CASE try_finish_shutdown
  BY <1>7, AcceptedFrame DEF try_finish_shutdown
<1>8. CASE OpenReply \/ OpenReplyFails \/ WriteReply \/ CloseReply
  BY <1>8, AcceptedFrame
  DEF OpenReply, OpenReplyFails, WriteReply, CloseReply, Goto, AfterReply
<1>9. CASE \E m \in taken : handle_done(m)
  BY <1>9, TakenIsDone, DoneKeepsAccepted
<1>10. CASE UNCHANGED ctlVars
  BY <1>10 DEF ctlVars, AcceptInv
<1> QED
  BY <1>1, <1>2, <1>3, <1>4, <1>5, <1>6, <1>7, <1>8, <1>9, <1>10 DEF CtlNext

\* Where the jobs of two queues and the log stand in their concatenation.
LEMMA TrackedPlaces ==
    ASSUME NEW S, NEW a \in Seq(S), NEW b \in Seq(S), NEW c \in Seq(S)
    PROVE  /\ Len(a) \in Nat /\ Len(b) \in Nat /\ Len(c) \in Nat
           /\ DOMAIN (a \o b \o c) = 1..(Len(a) + Len(b) + Len(c))
           /\ \A i \in 1..Len(a) : (a \o b \o c)[i] = a[i]
           /\ \A i \in 1..Len(b) : (a \o b \o c)[Len(a) + i] = b[i]
           /\ \A i \in 1..Len(c) : (a \o b \o c)[Len(a) + Len(b) + i] = c[i]
<1>0. Len(a) \in Nat /\ Len(b) \in Nat /\ Len(c) \in Nat
  OBVIOUS
<1>1. /\ a \o b \in Seq(S) /\ Len(a \o b) = Len(a) + Len(b)
      /\ \A i \in 1..Len(a) : (a \o b)[i] = a[i]
      /\ \A i \in 1..Len(b) : (a \o b)[Len(a) + i] = b[i]
  OBVIOUS
<1> DEFINE d == a \o b
<1> HIDE DEF d
<1>2. /\ d \o c \in Seq(S) /\ Len(d \o c) = Len(d) + Len(c)
      /\ \A i \in 1..Len(d) : (d \o c)[i] = d[i]
      /\ \A i \in 1..Len(c) : (d \o c)[Len(d) + i] = c[i]
  BY <1>1 DEF d
<1>3. DOMAIN (d \o c) = 1..Len(d \o c)
  BY <1>2
<1>4. /\ Len(d) = Len(a) + Len(b)
      /\ \A i \in 1..Len(a) : d[i] = a[i]
      /\ \A i \in 1..Len(b) : d[Len(a) + i] = b[i]
  BY <1>1 DEF d
<1>5. ASSUME NEW i \in 1..Len(a) PROVE (d \o c)[i] = a[i]
  <2>1. i \in 1..Len(d)
    BY <1>0, <1>4
  <2> QED
    BY <1>2, <1>4, <2>1
<1>6. ASSUME NEW i \in 1..Len(b) PROVE (d \o c)[Len(a) + i] = b[i]
  <2>1. Len(a) + i \in 1..Len(d)
    BY <1>0, <1>4
  <2> QED
    BY <1>2, <1>4, <2>1
<1>7. \A i \in 1..Len(c) : (d \o c)[Len(a) + Len(b) + i] = c[i]
  BY <1>2, <1>4
<1>8. DOMAIN (d \o c) = 1..(Len(a) + Len(b) + Len(c))
  BY <1>2, <1>3, <1>4
<1> QED
  BY <1>0, <1>5, <1>6, <1>7, <1>8 DEF d

\* Every accepted submission is waiting, running or logged, in exactly one
\* place, for every number of submissions and every order of completions, also
\* when a process identifier comes back, as long as memory can be allocated and
\* log.txt opened.
THEOREM AcceptedJobsAreKept == ControllerSpec => []AcceptedOnce
<1>1. CtlInit => AcceptInv
  <2> SUFFICES ASSUME CtlInit PROVE AcceptInv
    OBVIOUS
  <2>1. /\ Times(waiting_queue) = {} /\ Times(running_queue) = {} /\ Times(log) = {}
        /\ Len(waiting_queue) = 0 /\ Len(running_queue) = 0 /\ Len(log) = 0
        /\ 0..(clock - 1) = {}
    BY DEF CtlInit, Times
  <2> QED
    BY <2>1 DEF AcceptInv, DistinctTimes
<1>2. CtlTypeOK /\ StopInv /\ AcceptInv /\ [CtlNext]_ctlVars => AcceptInv'
  BY StepKeepsAccepted
<1>3. CtlTypeOK /\ AcceptInv => AcceptedOnce
  <2> SUFFICES ASSUME CtlTypeOK, AcceptInv, ~AllocMayFail, ~OpenMayFail, pc # "failed",
                      NEW t \in 0..(clock - 1)
               PROVE  \E i \in DOMAIN Tracked :
                         \A j \in DOMAIN Tracked : Tracked[j].start_time = t <=> j = i
    BY DEF AcceptedOnce
  <2> DEFINE a == waiting_queue
             b == running_queue
             c == log
  <2>1. /\ DistinctTimes(a) /\ DistinctTimes(b) /\ DistinctTimes(c)
        /\ Times(a) \cap Times(b) = {} /\ Times(a) \cap Times(c) = {}
        /\ Times(b) \cap Times(c) = {} /\ t \in Times(a) \cup Times(b) \cup Times(c)
    BY DEF AcceptInv
  <2>2. a \in Seq(Jobs) /\ b \in Seq(Jobs) /\ c \in Seq(Jobs)
    BY DEF CtlTypeOK
  <2>3. /\ Len(a) \in Nat /\ Len(b) \in Nat /\ Len(c) \in Nat
        /\ DOMAIN Tracked = 1..(Len(a) + Len(b) + Len(c))
        /\ \A i \in 1..Len(a) : Tracked[i] = a[i]
        /\ \A i \in 1..Len(b) : Tracked[Len(a) + i] = b[i]
        /\ \A i \in 1..Len(c) : Tracked[Len(a) + Len(b) + i] = c[i]
    BY <2>2, TrackedPlaces DEF Tracked
  <2> HIDE DEF a, b, c
  <2>4. \A j \in DOMAIN Tracked :
           \/ j \in 1..Len(a) /\ Tracked[j] = a[j]
           \/ j - Len(a) \in 1..Len(b) /\ Tracked[j] = b[j - Len(a)]
           \/ j - Len(a) - Len(b) \in 1..Len(c) /\ Tracked[j] = c[j - Len(a) - Len(b)]
    <3> SUFFICES ASSUME NEW j \in DOMAIN Tracked
                 PROVE  \/ j \in 1..Len(a) /\ Tracked[j] = a[j]
                        \/ j - Len(a) \in 1..Len(b) /\ Tracked[j] = b[j - Len(a)]
                        \/ /\ j - Len(a) - Len(b) \in 1..Len(c)
                           /\ Tracked[j] = c[j - Len(a) - Len(b)]
      OBVIOUS
    <3> DEFINE k == j - Len(a)
               n == j - Len(a) - Len(b)
    <3>1. /\ j = Len(a) + k /\ j = Len(a) + Len(b) + n
          /\ j \in 1..Len(a) \/ k \in 1..Len(b) \/ n \in 1..Len(c)
      <4>1. /\ Len(a) \in Nat /\ Len(b) \in Nat /\ Len(c) \in Nat
            /\ j \in 1..(Len(a) + Len(b) + Len(c))
        BY <2>3
      <4> QED
        BY <4>1
    <3> HIDE DEF k, n
    <3>2. /\ j \in 1..Len(a) => Tracked[j] = a[j]
          /\ k \in 1..Len(b) => Tracked[j] = b[k]
          /\ n \in 1..Len(c) => Tracked[j] = c[n]
      BY <2>3, <3>1
    <3> QED
      BY <3>1, <3>2 DEF k, n
  <2>5. /\ \A i \in 1..Len(a) : a[i].start_time \in Times(a)
        /\ \A i \in 1..Len(b) : b[i].start_time \in Times(b)
        /\ \A i \in 1..Len(c) : c[i].start_time \in Times(c)
    BY DEF Times
  <2>6. CASE t \in Times(a)
    <3>1. PICK i \in 1..Len(a) : a[i].start_time = t
      BY <2>6 DEF Times
    <3>2. i \in DOMAIN Tracked /\ Tracked[i] = a[i]
      BY <2>3
    <3>3. \A j \in DOMAIN Tracked : Tracked[j].start_time = t => j = i
      <4> SUFFICES ASSUME NEW j \in DOMAIN Tracked, Tracked[j].start_time = t
                   PROVE  j = i
        OBVIOUS
      <4>1. j \in 1..Len(a) /\ Tracked[j] = a[j]
        BY <2>1, <2>6, <2>4, <2>5
      <4>2. j = i
        BY <2>1, <3>1, <4>1 DEF DistinctTimes
      <4> QED
        BY <2>3, <4>1, <4>2
    <3> QED
      BY <3>1, <3>2, <3>3
  <2>7. CASE t \in Times(b)
    <3>1. PICK i \in 1..Len(b) : b[i].start_time = t
      BY <2>7 DEF Times
    <3>2. Len(a) + i \in DOMAIN Tracked /\ Tracked[Len(a) + i] = b[i]
      <4>1. Len(a) \in Nat /\ Len(b) \in Nat /\ Len(c) \in Nat
        BY <2>3, Zenon
      <4>2. Len(a) + i \in 1..(Len(a) + Len(b) + Len(c))
        BY <4>1
      <4> QED
        BY <2>3, <4>2, Zenon
    <3>3. \A j \in DOMAIN Tracked : Tracked[j].start_time = t => j = Len(a) + i
      <4> SUFFICES ASSUME NEW j \in DOMAIN Tracked, Tracked[j].start_time = t
                   PROVE  j = Len(a) + i
        OBVIOUS
      <4>1. j - Len(a) \in 1..Len(b) /\ Tracked[j] = b[j - Len(a)]
        BY <2>1, <2>7, <2>4, <2>5
      <4>2. j - Len(a) = i
        BY <2>1, <3>1, <4>1 DEF DistinctTimes
      <4>3. j \in Int /\ Len(a) \in Int
        BY <2>3
      <4> QED
        BY <4>2, <4>3
    <3> QED
      BY <3>1, <3>2, <3>3
  <2>8. CASE t \in Times(c)
    <3>1. PICK i \in 1..Len(c) : c[i].start_time = t
      BY <2>8 DEF Times
    <3>2. /\ Len(a) + Len(b) + i \in DOMAIN Tracked
          /\ Tracked[Len(a) + Len(b) + i] = c[i]
      <4>1. Len(a) \in Nat /\ Len(b) \in Nat /\ Len(c) \in Nat
        BY <2>3, Zenon
      <4>2. Len(a) + Len(b) + i \in 1..(Len(a) + Len(b) + Len(c))
        BY <4>1
      <4> QED
        BY <2>3, <4>2, Zenon
    <3>3. \A j \in DOMAIN Tracked : Tracked[j].start_time = t => j = Len(a) + Len(b) + i
      <4> SUFFICES ASSUME NEW j \in DOMAIN Tracked, Tracked[j].start_time = t
                   PROVE  j = Len(a) + Len(b) + i
        OBVIOUS
      <4>1. j - Len(a) - Len(b) \in 1..Len(c) /\ Tracked[j] = c[j - Len(a) - Len(b)]
        BY <2>1, <2>8, <2>4, <2>5
      <4>2. j - Len(a) - Len(b) = i
        BY <2>1, <3>1, <4>1 DEF DistinctTimes
      <4>3. j \in Int /\ Len(a) \in Int /\ Len(b) \in Int
        BY <2>3
      <4> QED
        BY <4>2, <4>3
    <3> QED
      BY <3>1, <3>2, <3>3
  <2> QED
    BY <2>1, <2>6, <2>7, <2>8
<1> QED
  BY <1>1, <1>2, <1>3, TypeCorrect, StopInvariance, PTL DEF ControllerSpec

------------------------------------------------------------------------------
(* The simulation of queue_copy_fair_to_array *)

\* One turn of its loop, and a run of n turns as a function of the ones before.
SimTurn(s, fu) ==
    LET target == choose_next_fair_user(s.rest, fu, s.last)
        i == FirstOf(s.rest, target)
    IN  IF target = NoUser THEN s
        ELSE [rest  |-> RemoveAt(s.rest, i),
              last  |-> target,
              array |-> Append(s.array, s.rest[i])]

SimStart(q, last) == [rest |-> q, last |-> last, array |-> <<>>]

IsSim(f, m, q, fu, last) ==
    f = [n \in 0..m |-> IF n = 0 THEN SimStart(q, last) ELSE SimTurn(f[n - 1], fu)]

Sim(q, fu, last) == CHOOSE f : IsSim(f, Len(q), q, fu, last)

LEMMA ViewIsSim ==
    ASSUME NEW q, NEW fu, NEW last
    PROVE  queue_copy_fair_to_array(q, fu, last) = Sim(q, fu, last)[Len(q)].array
  BY DEF queue_copy_fair_to_array, Sim, IsSim, SimTurn, SimStart

\* The recursion is well founded: there is a run of every length.
LEMMA SimExists ==
    ASSUME NEW q, NEW fu, NEW last
    PROVE  \A m \in Nat : \E f : IsSim(f, m, q, fu, last)
<1> DEFINE Bad == {m \in Nat : ~ \E f : IsSim(f, m, q, fu, last)}
<1> SUFFICES ASSUME Bad # {} PROVE FALSE
  OBVIOUS
<1>1. Min(Bad) \in Bad /\ \A y \in Bad : Min(Bad) <= y
  <2>1. Bad \in SUBSET Nat
    OBVIOUS
  <2> HIDE DEF Bad
  <2> QED
    BY <2>1, MinIsLeast
<1>2. PICK m \in Nat : m = Min(Bad)
  BY <1>1
<1>3. CASE m = 0
  <2> DEFINE f == [n \in 0..0 |-> SimStart(q, last)]
  <2>1. IsSim(f, 0, q, fu, last)
    BY DEF IsSim
  <2> QED
    BY <1>1, <1>2, <1>3, <2>1
<1>4. CASE m # 0
  <2>0. m - 1 \in Nat /\ ~(m <= m - 1)
    BY <1>4
  <2>1. m - 1 \in Nat /\ m - 1 \notin Bad
    <3> HIDE DEF Bad
    <3> QED
      BY <1>1, <1>2, <2>0
  <2>2. PICK f : IsSim(f, m - 1, q, fu, last)
    BY <2>1
  <2> DEFINE g == [n \in 0..m |-> IF n = m THEN SimTurn(f[m - 1], fu) ELSE f[n]]
  <2>3. \A n \in 0..(m - 1) : g[n] = f[n]
    BY <2>1
  <2>4. \A n \in 0..(m - 1) :
          f[n] = IF n = 0 THEN SimStart(q, last) ELSE SimTurn(f[n - 1], fu)
    BY <2>2 DEF IsSim
  <2>5. \A n \in 0..m :
          g[n] = IF n = 0 THEN SimStart(q, last) ELSE SimTurn(g[n - 1], fu)
    <3> SUFFICES ASSUME NEW n \in 0..m
                 PROVE  g[n] = IF n = 0 THEN SimStart(q, last) ELSE SimTurn(g[n - 1], fu)
      OBVIOUS
    <3>1. CASE n = m
      <4>1. g[n] = SimTurn(f[m - 1], fu) /\ g[m - 1] = f[m - 1]
        BY <2>1, <2>3, <3>1
      <4> QED
        BY <1>4, <3>1, <4>1
    <3>2. CASE n # m
      <4>1. n \in 0..(m - 1) /\ (n # 0 => n - 1 \in 0..(m - 1))
        BY <3>2
      <4> HIDE DEF g
      <4> QED
        BY <2>3, <2>4, <4>1
    <3> QED
      BY <3>1, <3>2
  <2>6. g = [n \in 0..m |-> g[n]]
    OBVIOUS
  <2> HIDE DEF g
  <2>7. IsSim(g, m, q, fu, last)
    BY <2>5, <2>6 DEF IsSim
  <2> QED
    BY <1>1, <1>2, <2>7
<1> QED
  BY <1>3, <1>4

LEMMA SimTurns ==
    ASSUME NEW q \in Seq(Jobs), NEW fu, NEW last
    PROVE  /\ Sim(q, fu, last)[0] = SimStart(q, last)
           /\ \A n \in 1..Len(q) :
                 Sim(q, fu, last)[n] = SimTurn(Sim(q, fu, last)[n - 1], fu)
<1> DEFINE f == Sim(q, fu, last)
<1>1. Len(q) \in Nat
  OBVIOUS
<1>2. \E g : IsSim(g, Len(q), q, fu, last)
  BY <1>1, SimExists
<1>3. IsSim(f, Len(q), q, fu, last)
  BY <1>2 DEF Sim
<1> HIDE DEF f
<1>4. \A n \in 0..Len(q) :
        f[n] = IF n = 0 THEN SimStart(q, last) ELSE SimTurn(f[n - 1], fu)
  BY <1>3 DEF IsSim
<1> QED
  BY <1>1, <1>4 DEF f

\* Every turn moves one job from rest to array.
LEMMA TurnTypes ==
    ASSUME NEW s, s.rest \in Seq(Jobs), s.array \in Seq(Jobs), NEW fu \in Seq(Int)
    PROVE  SimTurn(s, fu).rest \in Seq(Jobs) /\ SimTurn(s, fu).array \in Seq(Jobs)
<1> DEFINE target == choose_next_fair_user(s.rest, fu, s.last)
           i == FirstOf(s.rest, target)
<1>1. CASE target = NoUser
  BY <1>1 DEF SimTurn
<1>2. CASE target # NoUser
  <2>1. s.rest # <<>>
    BY <1>2 DEF choose_next_fair_user
  <2>2. i = FairNode(s.rest, fu, s.last)
    BY DEF FairNode
  <2>3. i \in 1..Len(s.rest)
    BY <2>1, <2>2, FairNodeIsFirstOfUser
  <2>4. SimTurn(s, fu) = [rest |-> RemoveAt(s.rest, i), last |-> target,
                          array |-> Append(s.array, s.rest[i])]
    BY <1>2 DEF SimTurn
  <2> HIDE DEF target, i
  <2>5. RemoveAt(s.rest, i) \in Seq(Jobs) /\ s.rest[i] \in Jobs
    BY <2>3, RemoveAtProperties
  <2> QED
    BY <2>4, <2>5
<1> QED
  BY <1>1, <1>2

LEMMA SimTypes ==
    ASSUME NEW q \in Seq(Jobs), NEW fu \in Seq(Int), NEW last
    PROVE  \A n \in 0..Len(q) : /\ Sim(q, fu, last)[n].rest \in Seq(Jobs)
                                /\ Sim(q, fu, last)[n].array \in Seq(Jobs)
<1> DEFINE f == Sim(q, fu, last)
           Good(n) == f[n].rest \in Seq(Jobs) /\ f[n].array \in Seq(Jobs)
           Bad == {n \in 0..Len(q) : ~Good(n)}
<1>0. f[0] = SimStart(q, last) /\ \A n \in 1..Len(q) : f[n] = SimTurn(f[n - 1], fu)
  BY SimTurns
<1> HIDE DEF f
<1> SUFFICES ASSUME Bad # {} PROVE FALSE
  BY DEF f
<1>1. Min(Bad) \in Bad /\ \A y \in Bad : Min(Bad) <= y
  <2>1. Bad \in SUBSET Nat
    OBVIOUS
  <2> HIDE DEF Bad
  <2> QED
    BY <2>1, MinIsLeast
<1>2. PICK m \in 0..Len(q) : m = Min(Bad)
  BY <1>1
<1>3. Good(0)
  BY <1>0 DEF SimStart
<1>4. m # 0 /\ m \in 1..Len(q) /\ m - 1 \in 0..Len(q)
  BY <1>1, <1>2, <1>3
<1>5. Good(m - 1)
  BY <1>1, <1>2, <1>4
<1>6. Good(m)
  BY <1>0, <1>4, <1>5, TurnTypes
<1> QED
  BY <1>1, <1>2, <1>6
==============================================================================
