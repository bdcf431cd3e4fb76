---------------------------- MODULE ServiceProofs ----------------------------
(***************************************************************************)
(* What the users of the composed system of Orchestrator.tla see, for      *)
(* every value of the constants.  The system implements JobService.tla:    *)
(* under the mapping of OrchestratorProperties.tla every initial state is  *)
(* an initial state of the service, and every step is a step of the        *)
(* service or changes nothing it sees.  And what runner -c prints is one   *)
(* consistent picture of the system.                                       *)
(***************************************************************************)
EXTENDS OrchestratorProofs

USE RolesAssumption

------------------------------------------------------------------------------
(* What the service sees *)

phases == [p \in Executors |-> Phase(p)]
server == IF pc \in {"unlink", "exited"} THEN "stopped"
          ELSE IF pc \in {"failed", "killed"} THEN "dead" ELSE "up"

SeesNothing == UNCHANGED <<parallel_limit, phases, server>>
ServiceStep == [Service!ServiceNext]_(Service!serviceVars)

LEMMA SameCardinality ==
    ASSUME NEW S
    PROVE  Service!Cardinality(S) = Cardinality(S)
  BY Zenon DEF Service!Cardinality, Cardinality

LEMMA UnseenSteps ==
    ASSUME SeesNothing
    PROVE  ServiceStep
  BY DEF SeesNothing, ServiceStep, Service!serviceVars, phases, server

LEMMA EndSteps ==
    ASSUME NEW p \in Executors, UNCHANGED <<parallel_limit, server>>,
           Phase(p)' = "ended", \A q \in Executors : q # p => Phase(q)' = Phase(q)
    PROVE  ServiceStep
<1>1. CASE Phase(p) = "ended"
  BY <1>1, UnseenSteps DEF SeesNothing, phases
<1>2. CASE Phase(p) # "ended"
  <2>1. phases[p] # "ended" /\ phases' = [phases EXCEPT ![p] = "ended"]
    BY <1>2 DEF phases
  <2>2. Service!End(p)
    BY <2>1 DEF Service!End, phases, server
  <2> QED
    BY <2>2 DEF ServiceStep, Service!ServiceNext
<1> QED
  BY <1>1, <1>2

\* The executors that count against the limit hold slots.
LEMMA AuthorizedRun ==
    ASSUME SystemInv, pc # "failed"
    PROVE  \A p \in Executors : Phase(p) = "authorized" => p \in Running
<1> SUFFICES ASSUME NEW p \in Executors, Phase(p) = "authorized" PROVE p \in Running
  OBVIOUS
<1>1. p \notin adrift /\ Cleared(p)
  BY DEF Phase
<1>2. OutgoingInv /\ ClaimInv
  BY DEF SystemInv, ProtocolInv
<1>3. Claims(p)
  BY <1>1, <1>2, DoneRunners DEF Cleared, Claims
<1> QED
  BY <1>1, <1>2, <1>3 DEF ClaimInv

LEMMA FewRunning ==
    ASSUME SystemInv, pc \notin {"exited", "failed"}
    PROVE  IsFiniteSet(Running) /\ Cardinality(Running) <= parallel_limit
<1>1. /\ Len(running_queue) \in Nat /\ Len(running_queue) <= parallel_limit
      /\ parallel_limit \in Nat
  BY DEF SystemInv, TypeOK, CtlTypeOK, SlotInv, SlotAccounting
<1> DEFINE n == Len(running_queue)
           f == [i \in 1..n |-> running_queue[i].command_id]
<1>2. f \in Surjection(1..n, Running)
  <2>1. f \in [1..n -> Running]
    BY DEF Running, CommandIds
  <2>2. \A c \in Running : \E i \in 1..n : f[i] = c
    BY DEF Running, CommandIds
  <2> QED
    BY <2>1, <2>2 DEF Surjection
<1> HIDE DEF f
<1>3. IsFiniteSet(1..n) /\ Cardinality(1..n) = n
  <2>1. /\ IsFiniteSet(1..n)
        /\ Cardinality(1..n) = IF 1 > n THEN 0 ELSE n - 1 + 1
    <3>1. 1 \in Int /\ n \in Int
      BY <1>1
    <3> HIDE DEF n
    <3> QED
      BY <3>1, FS_Interval, Zenon
  <2> QED
    BY <1>1, <2>1
<1>4. IsFiniteSet(Running) /\ Cardinality(Running) <= n
  BY <1>2, <1>3, FS_Surjection
<1>5. Cardinality(Running) \in Nat
  BY <1>4, FS_CardinalityType
<1> QED
  BY <1>1, <1>4, <1>5

\* What the phase of an executor depends on.
LEMMA PhaseFrame ==
    ASSUME NEW p \in Pids, rpc'[p] = rpc[p], outgoing'[p] = outgoing[p],
           inbox'[p] = inbox[p], UNCHANGED adrift
    PROVE  Phase(p)' = Phase(p)
  BY DEF Phase, Over, Cleared, HasAck

\* A step of a runner leaves its phase as it is or ends it.
LEMMA RunnersRefine ==
    ASSUME SystemInv, NEW p \in Pids, Start(p) \/ RunnerStep(p) \/ Kill(p)
    PROVE  ServiceStep
<1> USE DEF ctlVars, config, fifoVars, startVars
<1>1. UNCHANGED <<parallel_limit, adrift, server>>
  <2>1. UNCHANGED adrift
    BY DEF Start, RunnerStep, Kill
  <2>2. UNCHANGED ctlVars \/ OpenServerReturns
    BY DEF Start, RunnerStep, Kill, ipc_send_atomic, SendFails, SendOpen, SendOpenBlocks,
           SendWrite, SendWriteFatal, SendClose, OpenPrivate, ReceiveEof, ReceiveAck,
           ReceiveStatus, ReceiveShutdownAck, Execute, Receive, Move
  <2>3. CASE UNCHANGED ctlVars
    BY <2>1, <2>3 DEF server
  <2>4. CASE OpenServerReturns
    BY <2>1, <2>4 DEF OpenServerReturns, Goto, server
  <2> QED
    BY <2>2, <2>3, <2>4
<1>2. /\ DOMAIN rpc = Pids /\ DOMAIN outgoing = Pids /\ DOMAIN inbox = Pids
      /\ OutgoingInv /\ InboxInv
  BY DEF SystemInv, TypeOK, ProtocolInv
<1>3. \A q \in Pids : q # p => Phase(q)' = Phase(q)
  <2>1. \A q \in Pids : q # p =>
           rpc'[q] = rpc[q] /\ outgoing'[q] = outgoing[q] /\ inbox'[q] = inbox[q]
    BY <1>2 DEF Start, RunnerStep, Kill, ipc_send_atomic, SendFails, SendOpen, SendOpenBlocks,
           SendWrite, SendWriteFatal, SendClose, OpenPrivate, ReceiveEof, ReceiveAck,
           ReceiveStatus, ReceiveShutdownAck, Execute, Receive, Move, GoTo
  <2> QED
    BY <1>1, <2>1, PhaseFrame
<1>4. p \in Executors => Phase(p)' = Phase(p) \/ Phase(p)' = "ended"
  <2> SUFFICES ASSUME p \in Executors
               PROVE  Phase(p)' = Phase(p) \/ Phase(p)' = "ended"
    OBVIOUS
  <2>1. CASE ReceiveAck(p)
    <3>1. PICK m \in ToSet(inbox[p]) :
            /\ Receive(p, m)
            /\ rpc' = [rpc EXCEPT ![p] = IF m.type = "ACK" THEN "exec" ELSE "exit1"]
      BY <2>1 DEF ReceiveAck
    <3>2. rpc[p] = "reply_read" /\ inbox[p] # <<>> /\ m = Head(inbox[p])
      BY <3>1 DEF Receive
    <3>3. ~IsDone(p)
      BY <1>2, <3>2, DoneRunners
    <3>4. CASE m.type = "ACK"
      <4>1. rpc'[p] = "exec"
        BY <1>2, <3>1, <3>4
      <4>2. HasAck(p)
        <5>1. inbox[p] \in Seq(ToSet(inbox[p]))
          BY <1>2 DEF InboxInv
        <5>2. 1 \in DOMAIN inbox[p] /\ Head(inbox[p]) = inbox[p][1]
          BY <3>2, <5>1
        <5> QED
          BY <3>2, <3>4, <5>2 DEF HasAck
      <4> QED
        BY <1>1, <3>2, <3>3, <4>1, <4>2 DEF Phase, Over, Cleared, IsDone
    <3>5. CASE m.type # "ACK"
      BY <1>2, <3>1, <3>5 DEF Phase, Over
    <3> QED
      BY <3>4, <3>5
  <2>2. CASE Kill(p) \/ SendWriteFatal(p) \/ ReceiveEof(p)
    BY <1>2, <2>2 DEF Kill, SendWriteFatal, ReceiveEof, Move, GoTo, Phase, Over
  <2>3. CASE Execute(p)
    <3>1. IsDone(p)
      BY <1>2, <2>3, DoneRunners DEF Execute, Move, GoTo
    <3> QED
      BY <1>2, <2>3, <3>1 DEF Execute, Move, GoTo, Phase, Over, IsDone
  <2>4. CASE \/ Start(p) \/ SendFails(p) \/ SendOpen(p) \/ SendOpenBlocks(p) \/ SendWrite(p)
             \/ SendClose(p) \/ OpenPrivate(p)
    <3>1. /\ rpc[p] \notin {"exec", "exit0", "exit1", "killed"} /\ rpc'[p] # "exec"
          /\ outgoing'[p] = outgoing[p] /\ inbox'[p] = inbox[p]
      BY <1>2, <2>4 DEF Start, SendFails, SendOpen, SendOpenBlocks, SendWrite, SendClose,
                        OpenPrivate, Move, GoTo
    <3> QED
      BY <1>1, <3>1 DEF Phase, Over, Cleared, HasAck
  <2> QED
    BY <2>1, <2>2, <2>3, <2>4
    DEF RunnerStep, ipc_send_atomic, ReceiveStatus, ReceiveShutdownAck
<1>5. CASE \A q \in Executors : Phase(q)' = Phase(q)
  BY <1>1, <1>5, UnseenSteps DEF SeesNothing, phases
<1>6. CASE p \in Executors /\ Phase(p)' = "ended"
  BY <1>1, <1>3, <1>6, EndSteps
<1> QED
  BY <1>3, <1>4, <1>5, <1>6

\* The step that lets a command run: the ACK is in the FIFO of its runner.
LEMMA WriteReplyRefines ==
    ASSUME SystemInv, CtlWriteReply, UNCHANGED startVars
    PROVE  ServiceStep
<1> USE DEF config, fifoVars, runnerVars, startVars
<1>1. /\ FifoInv /\ OutgoingInv /\ ReplyInv /\ InboxInv /\ AdriftInv
      /\ DOMAIN inbox = Pids
  BY DEF SystemInv, ProtocolInv, TypeOK
<1>2. PICK p \in Pids : p = reply.to
  BY <1>1 DEF CtlWriteReply, WriteReply, ReplyInv
<1>3. /\ pc = "send_write" /\ pc' \in {"send_write", "send_close"}
      /\ UNCHANGED <<parallel_limit, rpc, outgoing, adrift>>
      /\ HasPrivateReader(p)
      /\ inbox' = [inbox EXCEPT ![p] = Append(inbox[p], Head(reply.msgs))]
  BY <1>2 DEF CtlWriteReply, WriteReply
<1>4. UNCHANGED <<parallel_limit, server>> /\ server = "up"
  BY <1>3 DEF server
<1>5. \A q \in Pids : q # p => Phase(q)' = Phase(q)
  <2>1. \A q \in Pids : q # p => inbox'[q] = inbox[q]
    BY <1>1, <1>3
  <2> QED
    BY <1>3, <2>1, PhaseFrame
<1>6. CASE p \notin Executors
  BY <1>4, <1>5, <1>6, UnseenSteps DEF SeesNothing, phases
<1>7. CASE p \in Executors
  <2>1. ~IsDone(p) /\ rpc[p] = "reply_read" /\ inbox[p] = <<>>
    BY <1>1, <1>2, <1>3, <1>7 DEF ReplyInv, HasPrivateReader, IsDone
  <2>2. ~HasAck(p)
    BY <2>1 DEF HasAck
  <2>3. Phase(p) = "idle" /\ p \notin adrift
    BY <1>1, <2>1, <2>2 DEF Phase, Over, Cleared, IsDone, AdriftInv
  <2>4. /\ DOMAIN inbox'[p] = {1} /\ inbox'[p][1] = Head(reply.msgs)
    <3>1. inbox'[p] = <<Head(reply.msgs)>>
      BY <1>1, <1>3, <2>1
    <3> QED
      BY <3>1
  <2>5. CASE reply.kind = "ack"
    <3>1. p \in Running /\ Head(reply.msgs).type = "ACK"
      BY <1>1, <1>2, <1>3, <2>5 DEF ReplyInv, AckTo
    <3>2. Phase(p)' = "authorized"
      BY <1>3, <2>1, <2>3, <2>4, <3>1 DEF Phase, Over, Cleared, IsDone, HasAck
    <3>3. Cardinality(Service!Authorized) < parallel_limit
      <4> DEFINE A == {c \in Executors : phases[c] = "authorized"}
      <4>1. A \cup {p} \subseteq Running /\ p \notin A
        BY <1>3, <2>3, <3>1, AuthorizedRun DEF phases
      <4>2. IsFiniteSet(Running) /\ Cardinality(Running) <= parallel_limit
        BY <1>3, FewRunning
      <4> HIDE DEF A
      <4>3. IsFiniteSet(A) /\ IsFiniteSet(A \cup {p})
            /\ Cardinality(A \cup {p}) <= Cardinality(Running)
        BY <4>1, <4>2, FS_Subset
      <4>4. Cardinality(A \cup {p}) = Cardinality(A) + 1
        BY <4>1, <4>3, FS_AddElement
      <4>5. Cardinality(A) \in Nat /\ Cardinality(Running) \in Nat /\ parallel_limit \in Nat
        BY <4>2, <4>3, FS_CardinalityType DEF SystemInv, TypeOK, CtlTypeOK
      <4>6. Cardinality(A) < parallel_limit
        BY <4>2, <4>3, <4>4, <4>5
      <4> QED
        BY <4>6 DEF A, Service!Authorized, phases
    <3>4. phases[p] = "idle" /\ phases' = [phases EXCEPT ![p] = "authorized"]
      BY <1>5, <1>7, <2>3, <3>2 DEF phases
    <3>5. Service!Authorize(p)
      <4>1. phases' = [phases EXCEPT ![p] = "authorized"] /\ phases[p] = "idle"
            /\ server = "up" /\ server' = server /\ parallel_limit' = parallel_limit
        BY <1>4, <3>4
      <4> QED
        BY <3>3, <4>1, SameCardinality
        DEF Service!Authorize, Service!Authorized, phases, server
    <3> QED
      BY <1>7, <3>5 DEF ServiceStep, Service!ServiceNext
  <2>6. CASE reply.kind # "ack"
    <3>1. Head(reply.msgs).type = "SHUTDOWN_ACK"
      BY <1>1, <1>2, <1>3, <1>7, <2>6 DEF ReplyInv, ShutdownAck
    <3>2. Phase(p)' = Phase(p)
      BY <1>3, <2>1, <2>2, <2>4, <3>1 DEF Phase, Over, Cleared, IsDone, HasAck
    <3> QED
      BY <1>4, <1>5, <3>2, UnseenSteps DEF SeesNothing, phases
  <2> QED
    BY <2>5, <2>6
<1> QED
  BY <1>6, <1>7

\* The other steps of the controller change no phase, but may stop it, end it
\* or start another one.
LEMMA ControllersRefine ==
    ASSUME SystemInv, CtlStep \/ CtlKilled \/ CtlRestart \/ OldExit
    PROVE  ServiceStep
<1> USE DEF ctlVars, config, fifoVars, runnerVars, startVars
<1>0. /\ OutgoingInv /\ CtlTypeOK /\ StopInv
      /\ DOMAIN rpc = Pids
  BY DEF SystemInv, ProtocolInv, TypeOK
<1>1. CASE CtlStep /\ ~CtlWriteReply
  <2>1. UNCHANGED <<parallel_limit, outgoing, inbox, adrift>>
    BY <1>0, <1>1
    DEF CtlStep, CtlStart, CtlOpen, CtlRead, CtlReadEof, CtlClose, CtlExit, CtlSchedule,
        CtlOpenReply, CtlCloseReply, CreateFifo, StartFails, OpenServer, OpenServerBlocks,
        OpenServerFails, controller_handle_message, reject_submit, handle_submit, take_done,
        handle_status_req, handle_shutdown_req, ReadEof, CloseServer, Exit,
        start_waiting_jobs, try_finish_shutdown, handle_done, OpenReply, OpenReplyFails,
        CloseReply, AfterReply, controller_destroy_queues, Goto
  <2>2. \A q \in Pids : \/ rpc'[q] = rpc[q]
                        \/ /\ rpc[q] \in {"wait", "reply_opening"}
                           /\ rpc'[q] \in {"write", "reply_read"}
    BY <1>0, <1>1
    DEF CtlStep, CtlStart, CtlOpen, CtlRead, CtlReadEof, CtlClose, CtlExit, CtlSchedule,
        CtlOpenReply, CtlCloseReply, GoTo
  <2>3. UNCHANGED phases
    <3>1. \A q \in Executors : Phase(q)' = Phase(q)
      BY <2>1, <2>2 DEF Phase, Over, Cleared, HasAck
    <3> QED
      BY <3>1 DEF phases
  <2>4. CASE UNCHANGED server
    BY <2>1, <2>3, <2>4, UnseenSteps DEF SeesNothing
  <2>5. CASE server = "up" /\ server' = "dead"
    BY <2>1, <2>3, <2>5
    DEF ServiceStep, Service!ServiceNext, Service!Crash, phases, server
  <2>6. CASE server = "up" /\ server' = "stopped"
    <3>1. ~keep_running /\ pc = "close"
      <4>1. pc' \in {"unlink", "exited"} /\ pc \notin {"unlink", "exited"}
        BY <2>6 DEF server
      <4>2. ~CtlRead
        BY <4>1
        DEF CtlRead, controller_handle_message, reject_submit, handle_submit, take_done,
            handle_status_req, handle_shutdown_req, Send, send_ack_to_runner,
            send_shutdown_ack_to_runner
      <4>3. ~CtlSchedule
        BY <4>1 DEF CtlSchedule, start_waiting_jobs, try_finish_shutdown, handle_done, Send,
                    send_ack_to_runner
      <4>4. ~CtlOpenReply /\ ~CtlCloseReply
        BY <1>0, <4>1 DEF CtlOpenReply, CtlCloseReply, OpenReply, OpenReplyFails, CloseReply,
                          AfterReply, Goto, CtlTypeOK
      <4>5. ~CtlStart /\ ~CtlOpen /\ ~CtlReadEof /\ ~CtlExit
        BY <4>1 DEF CtlStart, CtlOpen, CtlReadEof, CtlExit, CreateFifo, StartFails, OpenServer,
                    OpenServerBlocks, OpenServerFails, ReadEof, Exit, Goto
      <4> QED
        BY <1>1, <4>1, <4>2, <4>3, <4>4, <4>5 DEF CtlStep, CtlClose, CloseServer, Goto
    <3>2. Running = {}
      BY <1>0, <3>1 DEF StopInv, Running, CommandIds
    <3>3. \A p \in Executors : phases[p] # "authorized"
      BY <3>1, <3>2, AuthorizedRun DEF phases
    <3>4. Service!Stop
      BY <2>1, <2>3, <2>6, <3>3 DEF Service!Stop, Service!Authorized, phases, server
    <3> QED
      BY <3>4 DEF ServiceStep, Service!ServiceNext
  <2>7. UNCHANGED server \/ (server = "up" /\ server' \in {"dead", "stopped"})
    BY <1>0, <1>1
    DEF CtlStep, CtlStart, CtlOpen, CtlRead, CtlReadEof, CtlClose, CtlExit, CtlSchedule,
        CtlOpenReply, CtlCloseReply, CreateFifo, StartFails, OpenServer, OpenServerBlocks,
        OpenServerFails, ReadEof, CloseServer, Exit, start_waiting_jobs, try_finish_shutdown,
        handle_done, OpenReply, OpenReplyFails, CloseReply, controller_handle_message,
        reject_submit, handle_submit, take_done, handle_status_req, handle_shutdown_req, Goto, server
  <2> QED
    BY <2>4, <2>5, <2>6, <2>7
<1>2. CASE CtlStep /\ CtlWriteReply
  BY <1>2, WriteReplyRefines DEF CtlStep
<1>3. CASE CtlKilled
  <2>1. /\ UNCHANGED <<parallel_limit, rpc, outgoing, inbox, adrift>>
        /\ pc \notin {"exited", "failed", "killed"} /\ pc' = "killed"
    BY <1>3 DEF CtlKilled, Killed, Goto
  <2>2. UNCHANGED phases
    BY <2>1 DEF phases, Phase, Over, Cleared, HasAck
  <2>3. server # "dead" /\ server' = "dead"
    BY <2>1 DEF server
  <2>4. Service!Crash
    BY <2>1, <2>2, <2>3 DEF Service!Crash, phases, server
  <2> QED
    BY <2>4 DEF ServiceStep, Service!ServiceNext
<1>4. CASE CtlRestart
  <2>1. /\ UNCHANGED <<rpc, outgoing, inbox>> /\ Restart
        /\ adrift' = adrift \cup {p \in Executors : HasAck(p) \/ IsDone(p)}
    BY <1>4 DEF CtlRestart, IsDone
  <2>2. server # "up" /\ server' = "up" /\ parallel_limit' \in Nat \ {0}
    <3>1. pc \in {"exited", "failed", "killed", "unlink"} /\ pc' = "create"
      BY <1>4 DEF CtlRestart, Restart
    <3>2. CtlTypeOK'
      BY <1>0, <2>1, RestartFresh
    <3> QED
      BY <3>1, <3>2 DEF server, CtlTypeOK
  <2>3. \A p \in Executors :
          Phase(p)' = IF Phase(p) = "authorized" THEN "adrift" ELSE Phase(p)
    <3> SUFFICES ASSUME NEW p \in Executors
                 PROVE  Phase(p)' = IF Phase(p) = "authorized" THEN "adrift" ELSE Phase(p)
      OBVIOUS
    <3>1. (Over(p)' <=> Over(p)) /\ (Cleared(p)' <=> Cleared(p))
      BY <2>1 DEF Over, Cleared, HasAck
    <3>2. Cleared(p) => p \in adrift'
      BY <1>0, <2>1, DoneRunners DEF Cleared
    <3>3. p \in adrift => p \in adrift'
      BY <2>1
    <3> QED
      BY <3>1, <3>2, <3>3 DEF Phase
  <2>4. phases' = [p \in Executors |-> IF phases[p] = "authorized" THEN "adrift" ELSE phases[p]]
    BY <2>3 DEF phases
  <2>5. Service!StartAgain
    BY <2>2, <2>4 DEF Service!StartAgain, phases, server
  <2> QED
    BY <2>5 DEF ServiceStep, Service!ServiceNext
<1>5. CASE OldExit
  <2>1. UNCHANGED <<parallel_limit, pc, rpc, outgoing, inbox, adrift>>
    BY <1>5 DEF OldExit
  <2>2. UNCHANGED phases /\ UNCHANGED server
    BY <2>1 DEF phases, server, Phase, Over, Cleared, HasAck
  <2> QED
    BY <2>1, <2>2, UnseenSteps DEF SeesNothing
<1> QED
  BY <1>1, <1>2, <1>3, <1>4, <1>5

\* The controller, the FIFOs and the runners implement JobService: under every
\* interleaving, crash and failing call a command runs only after its ACK, no
\* more commands are authorized and unfinished than parallel_limit, the
\* controller stops only when none is, and one that has ended authorizes
\* nothing until it is started again.
THEOREM SystemImplementsService == Spec => ImplementsJobService
<1>1. Init => Service!ServiceInit
  <2> SUFFICES ASSUME Init PROVE Service!ServiceInit
    OBVIOUS
  <2>1. CtlTypeOK /\ pc = "create"
    BY InitialTypes DEF Init, CtlInit
  <2>2. \A p \in Executors : Phase(p) = "idle"
    <3>1. \A p \in Executors : ~HasAck(p) /\ rpc[p] = "start" /\ outgoing[p] = Request(p)
      BY DEF Init, HasAck
    <3> QED
      BY <3>1, RequestFields DEF Phase, Over, Cleared
  <2> QED
    BY <2>1, <2>2 DEF Service!ServiceInit, CtlTypeOK
<1>2. SystemInv /\ [Next]_vars => [Service!ServiceNext]_(Service!serviceVars)
  <2> SUFFICES ASSUME SystemInv, [Next]_vars PROVE ServiceStep
    BY DEF ServiceStep
  <2>1. CASE UNCHANGED vars
    <3>1. SeesNothing
      BY <2>1 DEF vars, ctlVars, config, fifoVars, runnerVars, startVars, SeesNothing, phases,
                  server, Phase, Over, Cleared, HasAck
    <3> QED
      BY <3>1, UnseenSteps
  <2>2. CASE Next
    BY <2>2, RunnersRefine, ControllersRefine DEF Next
  <2> QED
    BY <2>1, <2>2
<1> QED
  BY <1>1, <1>2, SystemInvariance, PTL DEF Spec, ImplementsJobService, Service!ServiceSpec

------------------------------------------------------------------------------
(* The waiting jobs as they are shown *)

\* A sequence of jobs in which no command appears twice and every command is
\* one of the set C.
Distinct(v, C) == v \in Seq(Jobs) /\ NoneTwice(v) /\ CommandIds(v) \subseteq C

\* While the fair order is simulated, a command of the queue is in rest or in
\* array, never in both.
SimGood(s, C) ==
    /\ Distinct(s.rest, C) /\ Distinct(s.array, C)
    /\ CommandIds(s.rest) \cap CommandIds(s.array) = {}

LEMMA TurnGood ==
    ASSUME NEW C, NEW s, SimGood(s, C), NEW fu \in Seq(Int)
    PROVE  SimGood(SimTurn(s, fu), C)
<1> DEFINE target == choose_next_fair_user(s.rest, fu, s.last)
           n == FirstOf(s.rest, target)
<1>0. s.rest \in Seq(Jobs) /\ s.array \in Seq(Jobs)
  BY DEF SimGood, Distinct
<1>1. CASE target = NoUser
  BY <1>1 DEF SimTurn
<1>2. CASE target # NoUser
  <2>1. s.rest # <<>>
    BY <1>2 DEF choose_next_fair_user
  <2>2. n = FairNode(s.rest, fu, s.last)
    BY DEF FairNode
  <2>3. n \in 1..Len(s.rest)
    BY <1>0, <2>1, <2>2, FairNodeIsFirstOfUser
  <2>4. SimTurn(s, fu) = [rest |-> RemoveAt(s.rest, n), last |-> target,
                          array |-> Append(s.array, s.rest[n])]
    BY <1>2 DEF SimTurn
  <2> HIDE DEF target, n
  <2> DEFINE job == s.rest[n]
  <2>5. job \in Jobs /\ job.command_id \in CommandIds(s.rest)
    BY <1>0, <2>3 DEF CommandIds
  <2>6. job.command_id \in C /\ job.command_id \notin CommandIds(s.array)
    BY <2>5 DEF SimGood, Distinct
  <2>7. RemoveAt(s.rest, n) \in Seq(Jobs) /\ Append(s.array, job) \in Seq(Jobs)
    BY <1>0, <2>3, <2>5, RemoveAtProperties
  <2>8. /\ CommandIds(RemoveAt(s.rest, n)) = CommandIds(s.rest) \ {job.command_id}
        /\ NoneTwice(RemoveAt(s.rest, n))
    BY <1>0, <2>3, RemovedIds DEF SimGood, Distinct
  <2>9. /\ CommandIds(Append(s.array, job)) = CommandIds(s.array) \cup {job.command_id}
        /\ NoneTwice(Append(s.array, job))
    BY <1>0, <2>5, <2>6, EnqueuedIds DEF SimGood, Distinct
  <2> HIDE DEF job
  <2> QED
    BY <2>4, <2>6, <2>7, <2>8, <2>9 DEF SimGood, Distinct, job
<1> QED
  BY <1>1, <1>2

LEMMA FairOrderGood ==
    ASSUME NEW q \in Seq(Jobs), NoneTwice(q), NEW fu \in Seq(Int), NEW last
    PROVE  Distinct(queue_copy_fair_to_array(q, fu, last), CommandIds(q))
<1> DEFINE f == Sim(q, fu, last)
           Good(n) == SimGood(f[n], CommandIds(q))
           Bad == {n \in 0..Len(q) : ~Good(n)}
<1>0. f[0] = SimStart(q, last) /\ \A n \in 1..Len(q) : f[n] = SimTurn(f[n - 1], fu)
  BY SimTurns
<1>1. queue_copy_fair_to_array(q, fu, last) = f[Len(q)].array
  BY ViewIsSim
<1> HIDE DEF f
<1>2. Len(q) \in 0..Len(q)
  OBVIOUS
<1> SUFFICES ASSUME Bad # {} PROVE FALSE
  BY <1>1, <1>2 DEF SimGood
<1>3. Min(Bad) \in Bad /\ \A y \in Bad : Min(Bad) <= y
  <2>1. Bad \in SUBSET Nat
    OBVIOUS
  <2> HIDE DEF Bad
  <2> QED
    BY <2>1, MinIsLeast
<1>4. PICK m \in 0..Len(q) : m = Min(Bad)
  BY <1>3
<1>5. Good(0)
  <2>1. f[0].rest = q /\ f[0].array = <<>>
    BY <1>0 DEF SimStart
  <2>2. Distinct(q, CommandIds(q)) /\ Distinct(<<>>, CommandIds(q)) /\ CommandIds(<<>>) = {}
    BY DEF Distinct, NoneTwice, CommandIds
  <2> QED
    BY <2>1, <2>2 DEF SimGood
<1>6. m # 0
  BY <1>3, <1>4, <1>5
<1>7. m \in 1..Len(q) /\ m - 1 \in 0..Len(q) /\ ~(m <= m - 1)
  BY <1>6
<1>8. Good(m - 1)
  BY <1>3, <1>4, <1>7
<1>9. Good(m)
  BY <1>0, <1>7, <1>8, TurnGood
<1> QED
  BY <1>3, <1>4, <1>9

LEMMA PrefixGood ==
    ASSUME NEW C, NEW s, Distinct(s, C), NEW v \in Prefixes(s)
    PROVE  Distinct(v, C)
<1>1. s \in Seq(Jobs) /\ Len(s) \in Nat
  BY DEF Distinct
<1>2. PICK l \in 0..Len(s) : v = SubSeq(s, 1, l)
  BY DEF Prefixes
<1>3. /\ v \in Seq(Jobs) /\ Len(v) = l
      /\ \A k \in 1..l : v[k] = s[k] /\ k \in 1..Len(s)
  BY <1>1, <1>2
<1>4. NoneTwice(v)
  BY <1>3 DEF Distinct, NoneTwice
<1>5. CommandIds(v) \subseteq CommandIds(s)
  BY <1>3 DEF CommandIds
<1> QED
  BY <1>3, <1>4, <1>5 DEF Distinct

\* Whatever runner -c is shown as Scheduled, it is waiting and shown once.
LEMMA ViewGood ==
    ASSUME SystemInv, NEW v \in ScheduledViews
    PROVE  Distinct(v, Waiting)
<1>1. /\ waiting_queue \in Seq(Jobs) /\ NoneTwice(waiting_queue) /\ fair_users \in Seq(Int)
  <2>1. CtlTypeOK
    BY DEF SystemInv, TypeOK
  <2>2. fair_users \in Seq(Int)
    BY <2>1, UsersAssumption DEF CtlTypeOK
  <2> QED
    BY <2>2 DEF SystemInv, TypeOK, CtlTypeOK, ProtocolInv, JobInv
<1> DEFINE order == queue_copy_fair_to_array(waiting_queue, fair_users, last_scheduled_user)
<1>2. Distinct(order, Waiting)
  BY <1>1, FairOrderGood DEF Waiting
<1>3. Distinct(waiting_queue, Waiting)
  BY <1>1 DEF Distinct, Waiting
<1>4. v \in {waiting_queue, order} \cup Prefixes(order)
  BY DEF ScheduledViews, queue_copy_to_array
<1> HIDE DEF order
<1> QED
  BY <1>2, <1>3, <1>4, PrefixGood

------------------------------------------------------------------------------
(* The layout of a status report *)

\* The lines of a report, by their place: a header, the running jobs, a header,
\* the waiting jobs, and the end.
IsReport(all, run, wait) ==
    LET R == Len(run)
        W == Len(wait)
    IN  /\ all \in Seq(ToSet(all))
        /\ Len(all) = R + W + 3
        /\ all[1] = HeaderLine("Executing") /\ all[R + 2] = HeaderLine("Scheduled")
        /\ all[R + W + 3] = StatusEnd
        /\ \A k \in 1..R : all[k + 1] = JobLine(run[k])
        /\ \A k \in 1..W : all[R + k + 2] = JobLine(wait[k])

IsJoin(c, a, b, S) ==
    /\ c \in Seq(S) /\ Len(c) = Len(a) + Len(b)
    /\ \A k \in 1..Len(a) : c[k] = a[k]
    /\ \A k \in 1..Len(b) : c[Len(a) + k] = b[k]

LEMMA Joined ==
    ASSUME NEW S, NEW a \in Seq(S), NEW b \in Seq(S)
    PROVE  IsJoin(a \o b, a, b, S)
  BY DEF IsJoin

LEMMA ReportLayout ==
    ASSUME NEW run \in Seq(Jobs), NEW wait \in Seq(Jobs)
    PROVE  IsReport(StatusReply(run, wait), run, wait)
<1> DEFINE h1 == <<HeaderLine("Executing")>>
           h2 == <<HeaderLine("Scheduled")>>
           jr == JobLines(run)
           jw == JobLines(wait)
           e == <<StatusEnd>>
           S == {HeaderLine("Executing"), HeaderLine("Scheduled"), StatusEnd}
                \cup {JobLine(job) : job \in Jobs}
           R == Len(run)
           W == Len(wait)
<1>0. R \in Nat /\ W \in Nat
  OBVIOUS
<1>1. /\ h1 \in Seq(S) /\ Len(h1) = 1 /\ h1[1] = HeaderLine("Executing")
      /\ h2 \in Seq(S) /\ Len(h2) = 1 /\ h2[1] = HeaderLine("Scheduled")
      /\ e \in Seq(S) /\ Len(e) = 1 /\ e[1] = StatusEnd
  OBVIOUS
<1>2. jr \in Seq(S) /\ Len(jr) = R /\ \A k \in 1..R : jr[k] = JobLine(run[k])
  <2>1. jr = [k \in 1..R |-> JobLine(run[k])] /\ \A k \in 1..R : JobLine(run[k]) \in S
    BY DEF JobLines
  <2> HIDE DEF S
  <2> QED
    BY <1>0, <2>1
<1>3. jw \in Seq(S) /\ Len(jw) = W /\ \A k \in 1..W : jw[k] = JobLine(wait[k])
  <2>1. jw = [k \in 1..W |-> JobLine(wait[k])] /\ \A k \in 1..W : JobLine(wait[k]) \in S
    BY DEF JobLines
  <2> HIDE DEF S
  <2> QED
    BY <1>0, <2>1
<1> DEFINE a1 == h1 \o jr
           a2 == a1 \o h2
           a3 == a2 \o jw
           a4 == a3 \o e
<1>4. StatusReply(run, wait) = a4
  BY DEF StatusReply
<1> HIDE DEF h1, h2, jr, jw, e, S, R, W
<1>5. /\ a1 \in Seq(S) /\ Len(a1) = R + 1 /\ a1[1] = HeaderLine("Executing")
      /\ \A k \in 1..R : a1[k + 1] = JobLine(run[k])
  <2>1. h1 \in Seq(S) /\ jr \in Seq(S) /\ Len(h1) = 1 /\ Len(jr) = R
    BY <1>0, <1>1, <1>2
  <2>2. IsJoin(a1, h1, jr, S)
    BY <2>1, Joined
  <2> HIDE DEF a1
  <2>3. /\ a1 \in Seq(S) /\ Len(a1) = 1 + R
        /\ \A k \in 1..1 : a1[k] = h1[k]
        /\ \A k \in 1..R : a1[1 + k] = jr[k]
    BY <2>1, <2>2 DEF IsJoin
  <2> QED
    BY <1>0, <1>1, <1>2, <2>3
<1> HIDE DEF a1
<1>6. /\ a2 \in Seq(S) /\ Len(a2) = R + 2 /\ a2[1] = HeaderLine("Executing")
      /\ a2[R + 2] = HeaderLine("Scheduled")
      /\ \A k \in 1..R : a2[k + 1] = JobLine(run[k])
  <2>1. a1 \in Seq(S) /\ h2 \in Seq(S) /\ Len(a1) = R + 1 /\ Len(h2) = 1
    BY <1>0, <1>1, <1>5
  <2>2. IsJoin(a2, a1, h2, S)
    BY <2>1, Joined
  <2> HIDE DEF a2
  <2>3. /\ a2 \in Seq(S) /\ Len(a2) = R + 1 + 1
        /\ \A k \in 1..(R + 1) : a2[k] = a1[k]
        /\ \A k \in 1..1 : a2[R + 1 + k] = h2[k]
    BY <2>1, <2>2 DEF IsJoin
  <2>4. 1 \in 1..(R + 1) /\ R + 1 + 1 = R + 2 /\ \A k \in 1..R : k + 1 \in 1..(R + 1)
    BY <1>0
  <2> QED
    BY <1>1, <1>5, <2>3, <2>4
<1> HIDE DEF a2
<1>7. /\ a3 \in Seq(S) /\ Len(a3) = R + 2 + W /\ a3[1] = HeaderLine("Executing")
      /\ a3[R + 2] = HeaderLine("Scheduled")
      /\ \A k \in 1..R : a3[k + 1] = JobLine(run[k])
      /\ \A k \in 1..W : a3[R + 2 + k] = JobLine(wait[k])
  <2>1. a2 \in Seq(S) /\ jw \in Seq(S) /\ Len(a2) = R + 2 /\ Len(jw) = W
    BY <1>0, <1>3, <1>6
  <2>2. IsJoin(a3, a2, jw, S)
    BY <2>1, Joined
  <2> HIDE DEF a3
  <2>3. /\ a3 \in Seq(S) /\ Len(a3) = R + 2 + W
        /\ \A k \in 1..(R + 2) : a3[k] = a2[k]
        /\ \A k \in 1..W : a3[R + 2 + k] = jw[k]
    BY <2>1, <2>2 DEF IsJoin
  <2>4. /\ 1 \in 1..(R + 2) /\ R + 2 \in 1..(R + 2)
        /\ \A k \in 1..R : k + 1 \in 1..(R + 2)
    BY <1>0
  <2> QED
    BY <1>3, <1>6, <2>3, <2>4
<1> HIDE DEF a3
<1>8. /\ a4 \in Seq(S) /\ Len(a4) = R + W + 3 /\ a4[1] = HeaderLine("Executing")
      /\ a4[R + 2] = HeaderLine("Scheduled") /\ a4[R + W + 3] = StatusEnd
      /\ \A k \in 1..R : a4[k + 1] = JobLine(run[k])
      /\ \A k \in 1..W : a4[R + k + 2] = JobLine(wait[k])
  <2>1. a3 \in Seq(S) /\ e \in Seq(S) /\ Len(a3) = R + 2 + W /\ Len(e) = 1
    BY <1>0, <1>1, <1>7
  <2>2. IsJoin(a4, a3, e, S)
    BY <2>1, Joined
  <2> HIDE DEF a4
  <2>3. /\ a4 \in Seq(S) /\ Len(a4) = R + 2 + W + 1
        /\ \A k \in 1..(R + 2 + W) : a4[k] = a3[k]
        /\ \A k \in 1..1 : a4[R + 2 + W + k] = e[k]
    BY <2>1, <2>2 DEF IsJoin
  <2>4. /\ 1 \in 1..(R + 2 + W) /\ R + 2 \in 1..(R + 2 + W) /\ R + 2 + W + 1 = R + W + 3
        /\ \A k \in 1..R : k + 1 \in 1..(R + 2 + W)
        /\ \A k \in 1..W : R + k + 2 \in 1..(R + 2 + W) /\ R + k + 2 = R + 2 + k
    BY <1>0
  <2> QED
    BY <1>1, <1>7, <2>3, <2>4
<1>9. a4 \in Seq(ToSet(a4))
  BY <1>8, OwnElements
<1> HIDE DEF a4
<1> QED
  BY <1>4, <1>8, <1>9 DEF IsReport, R, W

\* Only the last line ends the report, and only two lines are headers.
LEMMA ReportLines ==
    ASSUME NEW run \in Seq(Jobs), NEW wait \in Seq(Jobs), NEW all, IsReport(all, run, wait),
           NEW k \in 1..Len(all)
    PROVE  /\ all[k].type = IF k = Len(all) THEN "STATUS_END" ELSE "STATUS_RESP"
           /\ k # Len(all) =>
                 ("header" \in DOMAIN all[k] <=> (k = 1 \/ k = Len(run) + 2))
<1> DEFINE R == Len(run)
           W == Len(wait)
<1>0. R \in Nat /\ W \in Nat /\ Len(all) = R + W + 3
  BY DEF IsReport
<1>1. \/ k = 1 \/ k = R + 2 \/ k = Len(all)
      \/ (k - 1 \in 1..R /\ k # Len(all) /\ k # 1 /\ k # R + 2)
      \/ (k - R - 2 \in 1..W /\ k # Len(all) /\ k # 1 /\ k # R + 2)
  BY <1>0
<1>2. /\ 1 # Len(all) /\ R + 2 # Len(all)
  BY <1>0
<1>3. ASSUME NEW job PROVE JobLine(job).type = "STATUS_RESP" /\ "header" \notin DOMAIN JobLine(job)
  BY DEF JobLine
<1>4. ASSUME NEW s PROVE HeaderLine(s).type = "STATUS_RESP" /\ "header" \in DOMAIN HeaderLine(s)
  BY DEF HeaderLine
<1>5. CASE k = 1 \/ k = R + 2
  <2>1. \E s : all[k] = HeaderLine(s)
    BY <1>5 DEF IsReport
  <2> QED
    BY <1>2, <1>4, <1>5, <2>1
<1>6. CASE k = Len(all)
  BY <1>0, <1>6 DEF IsReport, StatusEnd
<1>7. CASE k - 1 \in 1..R /\ k # Len(all) /\ k # 1 /\ k # R + 2
  <2>1. all[(k - 1) + 1] = JobLine(run[k - 1])
    BY <1>7 DEF IsReport
  <2>2. all[k] = JobLine(run[k - 1])
    BY <1>0, <2>1
  <2> QED
    BY <1>3, <1>7, <2>2
<1>8. CASE k - R - 2 \in 1..W /\ k # Len(all) /\ k # 1 /\ k # R + 2
  <2>1. all[R + (k - R - 2) + 2] = JobLine(wait[k - R - 2])
    BY <1>8 DEF IsReport
  <2>2. R + (k - R - 2) + 2 = k
    BY <1>0
  <2>3. all[k] = JobLine(wait[k - R - 2])
    BY <2>1, <2>2
  <2> QED
    BY <1>3, <1>8, <2>3
<1> QED
  BY <1>1, <1>5, <1>6, <1>7, <1>8

\* s holds the lines of all that follow the first o.
Segment(s, all, o) ==
    /\ s \in Seq(ToSet(s)) /\ Len(s) \in Nat
    /\ o + Len(s) <= Len(all)
    /\ \A k \in 1..Len(s) : s[k] = all[o + k]

LEMMA SegmentRead ==
    ASSUME NEW all, Len(all) \in Nat, NEW o \in Nat, NEW s, s # <<>>, Segment(s, all, o)
    PROVE  /\ Head(s) = all[o + 1] /\ o + 1 \in 1..Len(all)
           /\ Segment(Tail(s), all, o + 1) /\ Len(Tail(s)) = Len(s) - 1
<1> DEFINE t == Tail(s)
           S == ToSet(s)
<1>1. /\ s \in Seq(S) /\ Len(s) \in Nat /\ o + Len(s) <= Len(all)
      /\ \A k \in 1..Len(s) : s[k] = all[o + k]
  BY DEF Segment
<1>2. t \in Seq(ToSet(t))
  BY <1>1, TakenFirst
<1> HIDE DEF S
<1>3. /\ Len(s) >= 1 /\ Len(t) = Len(s) - 1 /\ Head(s) = s[1]
      /\ \A k \in 1..(Len(s) - 1) : t[k] = s[k + 1]
  BY <1>1
<1> HIDE DEF t
<1>4. /\ 1 \in 1..Len(s) /\ o + 1 \in 1..Len(all)
      /\ Len(t) \in Nat /\ o + 1 + Len(t) <= Len(all)
  BY <1>1, <1>3
<1>5. ASSUME NEW k \in 1..Len(t) PROVE t[k] = all[o + 1 + k]
  <2>1. k \in 1..(Len(s) - 1) /\ k + 1 \in 1..Len(s) /\ o + (k + 1) = o + 1 + k
    BY <1>1, <1>3
  <2>2. t[k] = s[k + 1] /\ s[k + 1] = all[o + (k + 1)]
    BY <1>1, <1>3, <2>1
  <2> QED
    BY <2>1, <2>2
<1>6. Head(s) = all[o + 1]
  BY <1>1, <1>3, <1>4
<1>7. Segment(t, all, o + 1)
  BY <1>2, <1>4, <1>5 DEF Segment
<1> QED
  BY <1>3, <1>4, <1>6, <1>7 DEF t

\* t is s, which holds the lines of all that follow the first o, and one line more.
OneMoreLine(t, s, all, o) ==
    /\ o \in Nat /\ Len(all) \in Nat
    /\ Segment(s, all, o)
    /\ o + Len(s) + 1 <= Len(all)
    /\ t = Append(s, all[o + Len(s) + 1])

LEMMA SegmentWritten ==
    ASSUME NEW all, NEW o, NEW s, NEW t, OneMoreLine(t, s, all, o)
    PROVE  Segment(t, all, o) /\ Len(t) = Len(s) + 1
<1> DEFINE m == all[o + Len(s) + 1]
           S == ToSet(s) \cup {m}
<1>0. o \in Nat /\ Len(all) \in Nat /\ o + Len(s) + 1 <= Len(all) /\ t = Append(s, m)
  BY DEF OneMoreLine
<1>1. /\ s \in Seq(ToSet(s)) /\ Len(s) \in Nat
      /\ \A k \in 1..Len(s) : s[k] = all[o + k]
  BY DEF OneMoreLine, Segment
<1>2. t \in Seq(ToSet(t)) /\ Len(t) = Len(s) + 1
  BY <1>0, <1>1, AddedLast
<1>3. s \in Seq(S) /\ m \in S
  <2>1. s = [i \in 1..Len(s) |-> s[i]] /\ \A i \in 1..Len(s) : s[i] \in S
    BY <1>1
  <2>2. Len(s) \in Nat
    BY <1>1
  <2> HIDE DEF S
  <2>3. s \in Seq(S)
    BY <2>1, <2>2
  <2> QED
    BY <2>3 DEF S
<1> HIDE DEF S
<1>4. (\A k \in 1..Len(s) : t[k] = s[k]) /\ t[Len(s) + 1] = m
  BY <1>0, <1>3
<1>5. ASSUME NEW k \in 1..Len(t) PROVE t[k] = all[o + k]
  <2>1. CASE k \in 1..Len(s)
    BY <1>1, <1>4, <2>1
  <2>2. CASE k = Len(s) + 1
    <3>1. o + k = o + Len(s) + 1
      BY <1>0, <1>1, <2>2
    <3> QED
      BY <1>4, <2>2, <3>1
  <2> QED
    BY <1>1, <1>2, <2>1, <2>2
<1>6. Len(t) \in Nat /\ o + Len(t) <= Len(all)
  BY <1>0, <1>1, <1>2
<1>7. Segment(t, all, o)
  BY <1>2, <1>5, <1>6 DEF Segment
<1> QED
  BY <1>2, <1>7

------------------------------------------------------------------------------
(* The executors that have been sent their ACK *)

Acked(c) == HasAck(c) \/ IsDone(c)

\* Everything in the running queue has been sent its ACK, but for the job
\* whose ACK is on its way, as long as the controller lives.
AckInv ==
    pc # "killed" =>
        \A c \in Running : Acked(c) \/ (Sending(c) /\ reply.kind = "ack")

\* A runner reads its ACK once and then is on its way to DONE.
LEMMA AckStays ==
    ASSUME SystemInv, [Next]_vars, NEW c \in Executors, Acked(c)
    PROVE  Acked(c)'
<1> USE DEF ctlVars, fifoVars, runnerVars, startVars
<1>1. /\ DOMAIN inbox = Pids /\ DOMAIN outgoing = Pids /\ OutgoingInv /\ InboxInv /\ ReplyInv
  BY DEF SystemInv, TypeOK, ProtocolInv
<1>2. CASE inbox'[c] = inbox[c] /\ outgoing'[c] = outgoing[c]
  BY <1>2 DEF Acked, HasAck, IsDone
<1>3. CASE ReceiveAck(c)
  <2>1. PICK m \in ToSet(inbox[c]) :
          /\ Receive(c, m)
          /\ outgoing' = IF m.type # "ACK" THEN outgoing
                         ELSE [outgoing EXCEPT ![c] =
                                  [type |-> "DONE", sender_pid |-> c,
                                   user_id |-> m.user_id, command_id |-> m.command_id]]
    BY <1>3 DEF ReceiveAck
  <2>2. inbox[c] = <<m>> /\ rpc[c] = "reply_read"
    BY <2>1, ReceivedMessage DEF Receive
  <2>3. ~IsDone(c)
    BY <1>1, <2>2, DoneRunners
  <2>4. m.type = "ACK"
    <3>1. \A n \in DOMAIN <<m>> : <<m>>[n] = m
      OBVIOUS
    <3> QED
      BY <2>2, <2>3, <3>1 DEF Acked, HasAck
  <2>5. outgoing'[c].type = "DONE"
    BY <1>1, <2>1, <2>4
  <2> QED
    BY <2>5 DEF Acked, IsDone
<1>4. CASE CtlWriteReply /\ reply.to = c
  <2>1. pc = "send_write" /\ ~IsDone(c) /\ inbox[c] = <<>>
    BY <1>1, <1>4 DEF CtlWriteReply, WriteReply, ReplyInv
  <2> QED
    BY <2>1 DEF Acked, HasAck
<1>5. CASE CtlWriteReply /\ reply.to # c
  BY <1>1, <1>2, <1>5 DEF CtlWriteReply
<1>6. CASE (CtlStep /\ ~CtlWriteReply) \/ CtlKilled \/ CtlRestart \/ OldExit \/ UNCHANGED vars
  BY <1>2, <1>6
  DEF CtlStep, CtlStart, CtlOpen, CtlRead, CtlReadEof, CtlClose, CtlExit, CtlSchedule,
      CtlOpenReply, CtlCloseReply, CtlKilled, CtlRestart, OldExit, vars
<1>7. CASE \E p \in Pids : Start(p) \/ RunnerStep(p) \/ Kill(p)
  <2>1. PICK p \in Pids : Start(p) \/ RunnerStep(p) \/ Kill(p)
    BY <1>7
  <2>2. CASE p # c
    BY <1>1, <1>2, <2>1, <2>2
    DEF Start, RunnerStep, Kill, ipc_send_atomic, SendFails, SendOpen, SendOpenBlocks,
        SendWrite, SendWriteFatal, SendClose, OpenPrivate, ReceiveEof, ReceiveAck,
        ReceiveStatus, ReceiveShutdownAck, Execute, Receive, Move
  <2>3. CASE p = c
    BY <1>2, <1>3, <2>1, <2>3
    DEF Start, RunnerStep, Kill, ipc_send_atomic, SendFails, SendOpen, SendOpenBlocks,
        SendWrite, SendWriteFatal, SendClose, OpenPrivate, ReceiveEof,
        ReceiveStatus, ReceiveShutdownAck, Execute, Move
  <2> QED
    BY <2>2, <2>3
<1> QED
  BY <1>4, <1>5, <1>6, <1>7 DEF Next

LEMMA AddedId ==
    ASSUME NEW q \in Seq(Jobs), NEW job \in Jobs
    PROVE  CommandIds(Append(q, job)) \subseteq CommandIds(q) \cup {job.command_id}
<1> DEFINE r == Append(q, job)
<1>1. /\ Len(q) \in Nat /\ Len(r) = Len(q) + 1
      /\ \A i \in 1..Len(q) : r[i] = q[i]
      /\ r[Len(q) + 1] = job
  OBVIOUS
<1> HIDE DEF r
<1>2. ASSUME NEW x \in CommandIds(r) PROVE x \in CommandIds(q) \cup {job.command_id}
  BY <1>1 DEF CommandIds
<1> QED
  BY <1>2 DEF r

\* A job enters the running queue in the step that starts to send its ACK.
LEMMA NewlyRunning ==
    ASSUME SystemInv, (CtlRead /\ UNCHANGED startVars) \/ CtlSchedule, NEW c \in Running'
    PROVE  c \in Running \/ (Sending(c)' /\ reply'.kind = "ack")
<1> USE DEF jobVars
<1>1. /\ waiting_queue \in Seq(Jobs) /\ running_queue \in Seq(Jobs) /\ JobInv
      /\ fair_users \in Seq(Int)
  <2>1. CtlTypeOK
    BY DEF SystemInv, TypeOK
  <2> QED
    BY <2>1, UsersAssumption DEF CtlTypeOK, SystemInv, ProtocolInv
<1>2. CASE running_queue' = running_queue
  BY <1>2 DEF Running
<1>3. ASSUME NEW job \in Jobs, NEW next, running_queue' = Append(running_queue, job),
             send_ack_to_runner(job, next), job.runner_pid = job.command_id
      PROVE  c \in Running \/ (Sending(c)' /\ reply'.kind = "ack")
  <2>1. c \in Running \/ c = job.command_id
    BY <1>1, <1>3, AddedId DEF Running
  <2>2. pc' = "send_open" /\ reply'.to = job.command_id /\ reply'.kind = "ack"
    BY <1>3 DEF send_ack_to_runner, Send
  <2> QED
    BY <2>1, <2>2 DEF Sending
<1>4. CASE CtlRead /\ UNCHANGED startVars
  <2> DEFINE m == Head(srv_buf)
             job == [command_id |-> m.command_id, user_id |-> m.user_id,
                     runner_pid |-> m.sender_pid, start_time |-> clock]
  <2>1. m \in Messages
    BY <1>4, ReadFrame
  <2> HIDE DEF m
  <2>2. controller_handle_message(m)
    BY <1>4 DEF CtlRead, m
  <2>3. CASE handle_submit(m)
    <3>1. \/ running_queue' = running_queue
          \/ running_queue' = Append(running_queue, job) /\ send_ack_to_runner(job, "finish")
      BY <2>3 DEF handle_submit, queue_enqueue
    <3>2. m.type = "SUBMIT" /\ clock \in Nat
      BY <2>3 DEF handle_submit, SystemInv, TypeOK, CtlTypeOK
    <3>3. m.command_id = m.sender_pid /\ m.sender_pid \in Pids /\ m.user_id \in Users
      BY <2>1, <3>2 DEF Messages
    <3>4. job \in Jobs /\ job.runner_pid = job.command_id
      BY <3>2, <3>3 DEF Jobs
    <3> HIDE DEF job
    <3> QED
      BY <1>2, <1>3, <3>1, <3>4
  <2>4. CASE take_done(m)
    BY <1>2, <2>4 DEF take_done
  <2>5. CASE reject_submit(m) \/ handle_status_req(m) \/ handle_shutdown_req(m)
    BY <1>2, <2>5 DEF reject_submit, handle_status_req, handle_shutdown_req
  <2> QED
    BY <2>2, <2>3, <2>4, <2>5 DEF controller_handle_message
<1>5. CASE try_finish_shutdown
  BY <1>2, <1>5 DEF try_finish_shutdown
<1>6. CASE start_waiting_jobs
  <2>1. CASE running_queue' # running_queue
    <3>1. PICK n \in DequeueNodes(policy, waiting_queue, fair_users,
                                  last_scheduled_user, AllocMayFail) :
            /\ waiting_queue # <<>>
            /\ running_queue' = Append(running_queue, waiting_queue[n])
            /\ send_ack_to_runner(waiting_queue[n], "start_waiting")
      BY <1>6, <2>1 DEF start_waiting_jobs, queue_enqueue
    <3>2. n \in 1..Len(waiting_queue)
      BY <1>1, <3>1, FailureAssumption, DequeuedNode
    <3>3. waiting_queue[n] \in Jobs /\ waiting_queue[n].runner_pid = waiting_queue[n].command_id
      BY <1>1, <3>2 DEF JobInv
    <3> QED
      BY <1>3, <3>1, <3>3
  <2> QED
    BY <1>2, <2>1
<1>7. ASSUME NEW m \in taken, handle_done(m)
      PROVE  c \in Running
  <2> DEFINE nodes == NodesOfCommand(running_queue, m.command_id)
  <2>1. \/ running_queue' = running_queue
        \/ nodes # {} /\ running_queue' = RemoveAt(running_queue, Min(nodes))
    BY <1>7 DEF handle_done, queue_remove_by_command_id
  <2>2. ASSUME nodes # {} PROVE Min(nodes) \in 1..Len(running_queue)
    <3>1. nodes \in SUBSET (1..Len(running_queue))
      BY <1>1 DEF NodesOfCommand
    <3>2. nodes \in SUBSET Nat
      BY <3>1
    <3> HIDE DEF nodes
    <3> QED
      BY <2>2, <3>1, <3>2, MinIsLeast
  <2> HIDE DEF nodes
  <2>3. CASE nodes # {} /\ running_queue' = RemoveAt(running_queue, Min(nodes))
    <3>1. CommandIds(RemoveAt(running_queue, Min(nodes))) \subseteq CommandIds(running_queue)
      BY <1>1, <2>2, <2>3, RemovedIds DEF JobInv
    <3> QED
      BY <2>3, <3>1 DEF Running
  <2>4. CASE running_queue' = running_queue
    BY <2>4 DEF Running
  <2> QED
    BY <2>1, <2>3, <2>4
<1> QED
  BY <1>4, <1>5, <1>6, <1>7 DEF CtlSchedule

\* What the steps of the runners, and of a controller before this one, leave
\* alone.
LEMMA RunnersLeave ==
    ASSUME NEW p \in Pids, Start(p) \/ RunnerStep(p) \/ Kill(p)
    PROVE  /\ UNCHANGED <<starts, parallel_limit, running_queue, reply>>
           /\ pc' = pc \/ (pc = "opening" /\ pc' = "read")
<1> USE DEF ctlVars, config, jobVars, startVars
<1>1. UNCHANGED starts
  BY DEF Start, RunnerStep, Kill
<1>2. UNCHANGED ctlVars \/ OpenServerReturns
  BY DEF Start, RunnerStep, Kill, ipc_send_atomic, SendFails, SendOpen, SendOpenBlocks,
         SendWrite, SendWriteFatal, SendClose, OpenPrivate, ReceiveEof, ReceiveAck,
         ReceiveStatus, ReceiveShutdownAck, Execute, Receive, Move
<1> QED
  BY <1>1, <1>2 DEF OpenServerReturns, Goto

\* The ACK is written: the runner has it.
LEMMA AckWritten ==
    ASSUME SystemInv, CtlWriteReply, reply.kind = "ack", NEW p, p = reply.to
    PROVE  Acked(p)'
<1>1. /\ pc = "send_write" /\ ReplyInv /\ DOMAIN inbox = Pids
      /\ inbox' = [inbox EXCEPT ![reply.to] = Append(@, Head(reply.msgs))]
  BY DEF SystemInv, TypeOK, ProtocolInv, CtlWriteReply, WriteReply
<1>2. p \in Pids
  BY <1>1 DEF ReplyInv
<1>3. p \in Executors /\ \E a \in AckTo(p) : reply.msgs = <<a>>
  BY <1>1, <1>2 DEF ReplyInv
<1>4. inbox[p] = <<>> /\ inbox'[p] = Append(inbox[p], Head(reply.msgs))
  BY <1>1, <1>2, <1>3 DEF ReplyInv
<1>5. Head(reply.msgs).type = "ACK"
  BY <1>3 DEF AckTo
<1>6. 1 \in DOMAIN inbox'[p] /\ inbox'[p][1] = Head(reply.msgs)
  <2>1. inbox'[p] = <<Head(reply.msgs)>>
    BY <1>4
  <2> QED
    BY <2>1
<1>7. HasAck(p)'
  BY <1>5, <1>6 DEF HasAck
<1> QED
  BY <1>7 DEF Acked

LEMMA StepKeepsAcks ==
    ASSUME ~OpenMayFail, SystemInv, AckInv, [Next]_vars
    PROVE  AckInv'
<1> USE DEF config, jobVars, fairVars, stopVars, logVars, ctlVars
<1> SUFFICES ASSUME pc' # "killed", NEW c \in Running'
             PROVE  Acked(c)' \/ (Sending(c)' /\ reply'.kind = "ack")
  BY DEF AckInv
<1>0. Running \subseteq Executors /\ ReplyInv
  BY DEF SystemInv, ProtocolInv, JobInv
<1>1. \A d \in Running : Acked(d) => Acked(d)'
  BY <1>0, AckStays
\* Nothing happens to the ACK on its way.
<1>2. CASE c \in Running /\ pc # "killed" /\ (Sending(c) /\ reply.kind = "ack" =>
                                Sending(c)' /\ reply'.kind = "ack")
  BY <1>1, <1>2 DEF AckInv
<1>3. ASSUME c \in Running, reply' = reply, pc # "killed",
             pc \in {"send_open", "send_write"} => pc' \in {"send_open", "send_write"}
      PROVE  Acked(c)' \/ (Sending(c)' /\ reply'.kind = "ack")
  BY <1>2, <1>3 DEF Sending
<1>4. CASE CtlRead /\ UNCHANGED startVars
  BY <1>2, <1>4, NewlyRunning DEF CtlRead, Sending
<1>5. CASE CtlSchedule
  <2>1. pc \in {"start_waiting", "finish", "done"}
    BY <1>5 DEF CtlSchedule, start_waiting_jobs, try_finish_shutdown, handle_done
  <2> QED
    BY <1>2, <1>5, <2>1, NewlyRunning DEF Sending
<1>6. CASE CtlStart \/ CtlOpen \/ CtlReadEof \/ CtlClose \/ CtlExit
  <2>1. /\ reply' = reply /\ pc \notin {"send_open", "send_write", "killed"}
        /\ running_queue' = running_queue \/ running_queue' = <<>>
    BY <1>6 DEF CtlStart, CtlOpen, CtlReadEof, CtlClose, CtlExit, CreateFifo, StartFails,
                OpenServer, OpenServerBlocks, OpenServerFails, ReadEof, CloseServer, Exit,
                controller_destroy_queues, Goto
  <2>2. c \in Running
    BY <2>1 DEF Running, CommandIds
  <2> QED
    BY <1>3, <2>1, <2>2
<1>7. CASE CtlOpenReply
  <2>1. rpc[reply.to] \in Expecting /\ pc = "send_open"
    BY <1>0, <1>7 DEF CtlOpenReply, OpenReply, OpenReplyFails, Goto, ReplyInv
  <2>2. PrivateFifoExists(reply.to)
    BY <2>1 DEF PrivateFifoExists, Expecting
  <2>3. OpenReply
    BY <1>7, <2>2 DEF CtlOpenReply
  <2>4. reply' = reply /\ pc' = "send_write" /\ running_queue' = running_queue
    BY <2>3 DEF OpenReply, Goto
  <2> QED
    BY <1>3, <2>1, <2>4 DEF Running
<1>8. CASE CtlWriteReply
  <2>1. pc = "send_write" /\ running_queue' = running_queue
    BY <1>8 DEF CtlWriteReply, WriteReply
  <2>2. c \in Running
    BY <2>1 DEF Running
  <2>3. CASE Sending(c) /\ reply.kind = "ack"
    BY <1>8, <2>3, AckWritten DEF Sending
  <2> QED
    BY <1>2, <2>1, <2>2, <2>3
<1>9. CASE CtlCloseReply
  <2>1. pc = "send_close" /\ running_queue' = running_queue
    BY <1>9 DEF CtlCloseReply, CloseReply, AfterReply
  <2> QED
    BY <1>2, <2>1 DEF Running, Sending
<1>10. CASE CtlKilled
  BY <1>10 DEF CtlKilled, Killed, Goto
<1>11. CASE CtlRestart
  <2>1. running_queue' = <<>>
    BY <1>11 DEF CtlRestart, Restart
  <2> QED
    BY <2>1 DEF Running, CommandIds
<1>12. CASE OldExit \/ UNCHANGED vars
  BY <1>3, <1>12 DEF OldExit, vars, Running
<1>13. CASE \E p \in Pids : Start(p) \/ RunnerStep(p) \/ Kill(p)
  <2>1. /\ UNCHANGED <<running_queue, reply>>
        /\ pc' = pc \/ (pc = "opening" /\ pc' = "read")
    BY <1>13, RunnersLeave
  <2> QED
    BY <1>3, <2>1 DEF Running
<1> QED
  BY <1>4, <1>5, <1>6, <1>7, <1>8, <1>9, <1>10, <1>11, <1>12, <1>13 DEF Next, CtlStep

------------------------------------------------------------------------------
(* The invariant of the status report *)

\* What a report made of run and wait says is true: of the commands and, until
\* another controller is started, of the limit.
Truthful(run, wait) ==
    /\ NoneTwice(run) /\ NoneTwice(wait)
    /\ CommandIds(run) \cap CommandIds(wait) = {}
    /\ \A c \in CommandIds(run) : c \in Executors /\ Acked(c)
    /\ starts = 1 => Len(run) <= parallel_limit /\ (wait # <<>> => Len(run) = parallel_limit)

\* Runner p has printed the first lines of the report all, the next ones are
\* in its FIFO and the rest is with the controller.  Unless a controller has
\* died, the report does not break off.
Delivered(p, all) ==
    LET K == Len(printed[p])
        I == Len(inbox[p])
    IN  /\ Segment(printed[p], all, 0) /\ K < Len(all)
        /\ Segment(inbox[p], all, K)
        /\ Sending(p) => /\ reply.msgs # <<>> /\ Segment(reply.msgs, all, K + I)
                         /\ K + I + Len(reply.msgs) = Len(all)
        /\ starts = 1 /\ pc # "killed" =>
              /\ rpc[p] = "reply_read" =>
                    (pc = "send_write" /\ reply.to = p) \/ K + I = Len(all)
              /\ rpc[p] = "exit0" => K + 1 = Len(all)

ReportOf(p) ==
    \E run, wait \in Seq(Jobs) : Truthful(run, wait) /\ Delivered(p, StatusReply(run, wait))

ReportInv ==
    \A p \in StatusClients : (Unread(p) => printed[p] = <<>>) /\ ReportOf(p)

\* A step that neither moves a line of the report of p nor starts or ends one.
QuietFor(p) ==
    /\ printed'[p] = printed[p] /\ inbox'[p] = inbox[p]
    /\ Sending(p)' => Sending(p) /\ reply'.msgs = reply.msgs
    /\ starts' = 1 /\ pc' # "killed" =>
          /\ pc # "killed"
          /\ rpc'[p] = "exit0" => rpc[p] = "exit0"
          /\ rpc'[p] = "reply_read" =>
                \/ pc' = "send_write" /\ reply'.to = p
                \/ rpc[p] = "reply_read" /\ ~(pc = "send_write" /\ reply.to = p)

LEMMA DeliveredFrame ==
    ASSUME NEW p, NEW all, Delivered(p, all), QuietFor(p), starts' = 1 => starts = 1
    PROVE  Delivered(p, all)'
  BY DEF Delivered, QuietFor

LEMMA OneStart ==
    ASSUME SystemInv, [Next]_vars
    PROVE  starts' = 1 => starts = 1 /\ parallel_limit' = parallel_limit
<1> USE DEF config, ctlVars, startVars
<1>1. CASE CtlRestart
  BY <1>1 DEF CtlRestart, SystemInv, TypeOK
<1>2. CASE \E p \in Pids : Start(p) \/ RunnerStep(p) \/ Kill(p)
  BY <1>2, RunnersLeave
<1>3. CASE CtlStep
  BY <1>3
  DEF CtlStep, CtlStart, CtlOpen, CtlRead, CtlReadEof, CtlClose, CtlExit, CtlSchedule,
      CtlOpenReply, CtlWriteReply, CtlCloseReply, CreateFifo, StartFails, OpenServer,
      OpenServerBlocks, OpenServerFails, controller_handle_message, reject_submit,
      handle_submit, take_done, handle_status_req, handle_shutdown_req, ReadEof,
      CloseServer, Exit, start_waiting_jobs, try_finish_shutdown, handle_done, OpenReply,
      OpenReplyFails, WriteReply, CloseReply, AfterReply, controller_destroy_queues, Goto
<1>4. CASE CtlKilled \/ OldExit \/ UNCHANGED vars
  BY <1>4 DEF CtlKilled, Killed, Goto, OldExit, vars
<1> QED
  BY <1>1, <1>2, <1>3, <1>4 DEF Next

\* What was true when it was shown stays true.
LEMMA TruthStays ==
    ASSUME SystemInv, [Next]_vars, NEW run, NEW wait, Truthful(run, wait)
    PROVE  Truthful(run, wait)'
<1>1. \A c \in CommandIds(run) : c \in Executors /\ Acked(c)'
  BY AckStays DEF Truthful
<1> QED
  BY <1>1, OneStart DEF Truthful

LEMMA QuietReports ==
    ASSUME SystemInv, [Next]_vars, NEW p, ReportOf(p), QuietFor(p)
    PROVE  ReportOf(p)'
<1>1. PICK run \in Seq(Jobs), wait \in Seq(Jobs) :
        Truthful(run, wait) /\ Delivered(p, StatusReply(run, wait))
  BY DEF ReportOf
<1>2. Truthful(run, wait)'
  BY <1>1, TruthStays
<1>3. Delivered(p, StatusReply(run, wait))'
  BY <1>1, DeliveredFrame, OneStart
<1> QED
  BY <1>2, <1>3 DEF ReportOf

\* A request is written once, and never unread again once it was read.
LEMMA UnreadBefore ==
    ASSUME SystemInv, [Next]_vars, NEW p \in StatusClients, Unread(p)'
    PROVE  Unread(p)
<1> USE DEF ctlVars, fifoVars, runnerVars, startVars
<1>1. /\ DOMAIN rpc = Pids /\ DOMAIN outgoing = Pids /\ FifoInv /\ OutgoingInv
      /\ srv_buf \in Seq(Messages)
  BY DEF SystemInv, TypeOK, ProtocolInv
<1>2. \A q \in Pids : outgoing[q].sender_pid = q /\ outgoing[q] \in Messages
  BY <1>1, DoneRunners
<1>3. ~IsDone(p)
  BY <1>1, DoneRunners
<1>4. ASSUME outgoing'[p] = outgoing[p], rpc'[p] \in Unsent => rpc[p] \in Unsent,
             outgoing[p] \in Fifo' => outgoing[p] \in Fifo \/ rpc[p] = "write"
      PROVE  Unread(p)
  BY <1>3, <1>4 DEF Unread, Unsent
<1>5. ASSUME FifoShrinks, outgoing'[p] = outgoing[p], rpc'[p] \in Unsent => rpc[p] \in Unsent
      PROVE  Unread(p)
  BY <1>4, <1>5 DEF FifoShrinks
<1>6. ASSUME UNCHANGED srv_buf, outgoing'[p] = outgoing[p],
             rpc'[p] \in Unsent => rpc[p] \in Unsent
      PROVE  Unread(p)
  BY <1>4, <1>6 DEF Fifo
<1>7. CASE CtlRead /\ UNCHANGED startVars
  BY <1>7, ReadFrame
<1>8. CASE \/ CtlStart \/ CtlOpen \/ CtlReadEof \/ CtlSchedule \/ CtlOpenReply \/ CtlWriteReply
           \/ CtlCloseReply \/ CtlRestart \/ UNCHANGED vars
  <2>1. UNCHANGED <<srv_buf, outgoing>>
    BY <1>8 DEF CtlStart, CtlOpen, CtlReadEof, CtlSchedule, CtlOpenReply, CtlWriteReply,
                CtlCloseReply, CtlRestart, vars
  <2>2. rpc'[p] \in Unsent => rpc[p] \in Unsent
    BY <1>1, <1>8 DEF CtlStart, CtlOpen, CtlReadEof, CtlSchedule, CtlOpenReply, CtlWriteReply,
                CtlCloseReply, CtlRestart, vars, GoTo, Unsent
  <2> QED
    BY <1>6, <2>1, <2>2
<1>9. CASE CtlClose \/ CtlExit \/ CtlKilled \/ OldExit
  <2>1. \E last \in BOOLEAN : DropServerBuffer(last)
    BY <1>9 DEF CtlClose, CtlExit, CtlKilled, OldExit, DropServerReader, ipc_destroy_fifo,
                ServerHasReader
  <2>2. UNCHANGED <<rpc, outgoing>>
    BY <1>9 DEF CtlClose, CtlExit, CtlKilled, OldExit
  <2> QED
    BY <1>5, <2>1, <2>2, DropShrinks
<1>10. CASE \E q \in Pids : Start(q) \/ RunnerStep(q) \/ Kill(q)
  <2>1. PICK q \in Pids : Start(q) \/ RunnerStep(q) \/ Kill(q)
    BY <1>10
  <2>2. outgoing'[p] = outgoing[p]
    BY <1>1, <2>1
    DEF Start, RunnerStep, Kill, ipc_send_atomic, SendFails, SendOpen, SendOpenBlocks,
        SendWrite, SendWriteFatal, SendClose, OpenPrivate, ReceiveEof, ReceiveAck,
        ReceiveStatus, ReceiveShutdownAck, Execute, Move
  <2>3. rpc'[p] \in Unsent => rpc[p] \in Unsent
    <3>1. p # q => rpc'[p] = rpc[p]
      BY <1>1, <2>1
      DEF Start, RunnerStep, Kill, ipc_send_atomic, SendFails, SendOpen, SendOpenBlocks,
          SendWrite, SendWriteFatal, SendClose, OpenPrivate, ReceiveEof, ReceiveAck,
          ReceiveStatus, ReceiveShutdownAck, Execute, Move, GoTo
    <3>2. rpc[p] # "exec"
      BY <1>1, <1>3, DoneRunners
    <3>3. CASE p = q
      BY <1>1, <2>1, <3>2, <3>3
      DEF Start, RunnerStep, Kill, ipc_send_atomic, SendFails, SendOpen, SendOpenBlocks,
          SendWrite, SendWriteFatal, SendClose, OpenPrivate, ReceiveEof, ReceiveAck,
          ReceiveStatus, ReceiveShutdownAck, Execute, Receive, Move, GoTo, Unsent
    <3> QED
      BY <3>1, <3>3
  <2>4. CASE SendWrite(q)
    <3>1. rpc[q] = "write" /\ srv_buf' = Append(srv_buf, outgoing[q])
      BY <2>4 DEF SendWrite, GoTo
    <3>2. Fifo' = Fifo \cup {outgoing[q]}
      BY <1>1, <1>2, <3>1, AppendedJobs DEF Fifo
    <3>3. outgoing[p] = outgoing[q] => p = q
      BY <1>2
    <3> QED
      BY <1>4, <2>2, <2>3, <3>1, <3>2, <3>3
  <2>5. CASE SendWriteFatal(q)
    <3>1. srv_buf' = srv_buf \/ srv_buf' = <<>>
      BY <2>5 DEF SendWriteFatal
    <3>2. Fifo' \subseteq Fifo
      BY <3>1 DEF Fifo, ToSet
    <3> QED
      BY <1>4, <2>2, <2>3, <3>2
  <2>6. CASE SendClose(q) \/ Kill(q)
    <3>1. \E last \in BOOLEAN : DropServerBuffer(last)
      BY <2>6 DEF SendClose, Kill, ServerHasReader
    <3> QED
      BY <1>5, <2>2, <2>3, <3>1, DropShrinks
  <2>7. CASE ~SendWrite(q) /\ ~SendWriteFatal(q) /\ ~SendClose(q) /\ ~Kill(q)
    <3>1. UNCHANGED srv_buf
      BY <2>1, <2>7
      DEF Start, RunnerStep, ipc_send_atomic, SendFails, SendOpen, SendOpenBlocks,
          OpenPrivate, ReceiveEof, ReceiveAck, ReceiveStatus, ReceiveShutdownAck, Execute,
          Receive, Move
    <3> QED
      BY <1>6, <2>2, <2>3, <3>1
  <2> QED
    BY <2>4, <2>5, <2>6, <2>7
<1> QED
  BY <1>7, <1>8, <1>9, <1>10 DEF Next, CtlStep

\* The lengths of a report and of what is where of it.
LEMMA ReportLength ==
    ASSUME NEW run \in Seq(Jobs), NEW wait \in Seq(Jobs)
    PROVE  Len(StatusReply(run, wait)) \in Nat
  BY ReportLayout DEF IsReport

LEMMA DeliveredLengths ==
    ASSUME NEW p, NEW all, Len(all) \in Nat, Delivered(p, all)
    PROVE  /\ Len(printed[p]) \in Nat /\ Len(inbox[p]) \in Nat
           /\ Len(printed[p]) < Len(all) /\ Len(printed[p]) + Len(inbox[p]) <= Len(all)
           /\ inbox[p] # <<>> => Len(inbox[p]) # 0
           /\ Sending(p) => /\ Len(reply.msgs) \in Nat /\ Len(reply.msgs) # 0
                            /\ Len(printed[p]) + Len(inbox[p]) + Len(reply.msgs) = Len(all)
<1>1. ASSUME NEW s, NEW o, Segment(s, all, o) PROVE Len(s) \in Nat /\ (s # <<>> => Len(s) # 0)
  BY <1>1, EmptySeq DEF Segment
<1>2. Len(printed[p]) \in Nat /\ Len(inbox[p]) \in Nat
      /\ (inbox[p] # <<>> => Len(inbox[p]) # 0)
      /\ (Sending(p) => Len(reply.msgs) \in Nat /\ Len(reply.msgs) # 0)
  BY <1>1 DEF Delivered
<1>3. Len(printed[p]) + Len(inbox[p]) <= Len(all)
  BY DEF Delivered, Segment
<1> QED
  BY <1>2, <1>3 DEF Delivered

\* A line is printed, or the last one is read.
LEMMA LineReceived ==
    ASSUME SystemInv, [Next]_vars, NEW p \in StatusClients, ReportOf(p),
           ReceiveStatus(p), UNCHANGED startVars
    PROVE  ReportOf(p)'
<1>1. PICK run \in Seq(Jobs), wait \in Seq(Jobs) :
        Truthful(run, wait) /\ Delivered(p, StatusReply(run, wait))
  BY DEF ReportOf
<1> DEFINE all == StatusReply(run, wait)
<1>2. PICK K \in Nat, I \in Nat, L \in Nat :
        /\ K = Len(printed[p]) /\ I = Len(inbox[p]) /\ L = Len(all)
        /\ K < L /\ K + I <= L /\ (inbox[p] # <<>> => I # 0)
  BY <1>1, ReportLength, DeliveredLengths
<1>3. \A k \in 1..L : all[k].type = IF k = L THEN "STATUS_END" ELSE "STATUS_RESP"
  <2>1. IsReport(all, run, wait)
    BY ReportLayout
  <2> HIDE DEF all
  <2> QED
    BY <1>2, <2>1, ReportLines
<1> HIDE DEF all
<1>4. Segment(printed[p], all, 0) /\ Segment(inbox[p], all, K)
  BY <1>1, <1>2 DEF Delivered, all
<1>5. PICK m \in ToSet(inbox[p]) :
        /\ Receive(p, m)
        /\ printed' = [printed EXCEPT ![p] =
                          IF m.type = "STATUS_RESP" THEN Append(@, m) ELSE @]
        /\ rpc' = [rpc EXCEPT ![p] = IF m.type = "STATUS_END" THEN "exit0" ELSE @]
  BY DEF ReceiveStatus
<1>6. /\ DOMAIN rpc = Pids /\ DOMAIN inbox = Pids /\ DOMAIN printed = Pids /\ p \in Pids
  BY DEF SystemInv, TypeOK
<1>7. /\ inbox[p] # <<>> /\ m = Head(inbox[p]) /\ inbox'[p] = Tail(inbox[p])
      /\ rpc[p] = "reply_read" /\ UNCHANGED <<pc, reply, starts>>
  BY <1>5, <1>6 DEF Receive, ctlVars, startVars
<1>8. /\ m = all[K + 1] /\ K + 1 \in 1..L
      /\ Segment(inbox'[p], all, K + 1) /\ Len(inbox'[p]) = I - 1
  <2>1. Len(all) \in Nat
    BY <1>2
  <2>2. /\ Head(inbox[p]) = all[K + 1] /\ K + 1 \in 1..Len(all)
        /\ Segment(Tail(inbox[p]), all, K + 1) /\ Len(Tail(inbox[p])) = Len(inbox[p]) - 1
    BY <1>4, <1>7, <2>1, SegmentRead
  <2> QED
    BY <1>2, <1>7, <2>2
<1>9. Truthful(run, wait)'
  BY <1>1, TruthStays
<1>10. CASE K + 1 = L
  <2>1. m.type = "STATUS_END"
    BY <1>3, <1>8, <1>10
  <2>2. printed'[p] = printed[p] /\ rpc'[p] = "exit0"
    BY <1>5, <1>6, <2>1
  <2>3. I = 1
    <3>1. I # 0 /\ K + I <= L
      BY <1>2, <1>7
    <3> QED
      BY <1>10, <3>1
  <2>4. ~Sending(p)
    <3>1. ASSUME Sending(p) PROVE FALSE
      <4>1. PICK n \in Nat : n = Len(reply.msgs) /\ n # 0 /\ K + I + n = L
        <5>1. Delivered(p, all) /\ Len(all) \in Nat
          BY <1>1, <1>2 DEF all
        <5> QED
          BY <1>2, <3>1, <5>1, DeliveredLengths
      <4>2. n # 0 /\ K + I + n = L
        BY <4>1
      <4> QED
        BY <1>10, <2>3, <4>2
    <3> QED
      BY <3>1
  <2>5. Segment(inbox'[p], all, K)
    <3>1. inbox'[p] \in Seq(ToSet(inbox'[p]))
      BY <1>8 DEF Segment
    <3>2. Len(inbox'[p]) = 0
      BY <1>8, <2>3
    <3>3. K + 0 <= Len(all) /\ 1..0 = {}
      BY <1>2
    <3> QED
      BY <3>1, <3>2, <3>3 DEF Segment
  <2>6. Delivered(p, all)'
    <3>1. ~Sending(p)'
      BY <1>7, <2>4 DEF Sending
    <3> QED
      BY <1>2, <1>4, <1>10, <2>2, <2>5, <3>1 DEF Delivered
  <2> QED
    BY <1>9, <2>6 DEF ReportOf, all
<1>11. CASE K + 1 # L
  <2>1. m.type = "STATUS_RESP"
    BY <1>3, <1>8, <1>11
  <2>2. printed'[p] = Append(printed[p], m) /\ rpc'[p] = "reply_read"
    BY <1>5, <1>6, <1>7, <2>1
  <2>3. Segment(printed'[p], all, 0) /\ Len(printed'[p]) = K + 1
    <3>1. PICK z \in Nat : z = 0
      OBVIOUS
    <3>2. z + K + 1 = K + 1 /\ z + K + 1 <= L
      BY <1>8, <3>1
    <3>3. Segment(printed[p], all, z) /\ m = all[z + K + 1]
      BY <1>4, <1>8, <3>1, <3>2
    <3>4. OneMoreLine(printed'[p], printed[p], all, z)
      BY <1>2, <2>2, <3>2, <3>3 DEF OneMoreLine
    <3>5. Segment(printed'[p], all, z) /\ Len(printed'[p]) = Len(printed[p]) + 1
      BY <3>4, SegmentWritten
    <3> QED
      BY <1>2, <3>1, <3>5
  <2>4. K + 1 < L /\ (K + 1) + (I - 1) = K + I
    BY <1>8, <1>11
  <2>5. Sending(p)' => /\ reply'.msgs # <<>> /\ Segment(reply'.msgs, all, K + I)
                       /\ K + I + Len(reply'.msgs) = Len(all)
    BY <1>1, <1>2, <1>7 DEF Delivered, Sending, all
  <2>6. starts' = 1 /\ pc' # "killed" =>
          (pc' = "send_write" /\ reply'.to = p) \/ K + I = Len(all)
    BY <1>1, <1>2, <1>7 DEF Delivered, all
  <2>7. Delivered(p, all)'
    <3>1. (K + 1) + Len(inbox'[p]) = K + I /\ K + 1 < Len(all)
      BY <1>2, <1>8, <2>4
    <3> QED
      BY <1>8, <2>2, <2>3, <2>5, <2>6, <3>1 DEF Delivered
  <2> QED
    BY <1>9, <2>7 DEF ReportOf, all
<1> QED
  BY <1>10, <1>11

\* The end of the stream is met only where a controller died.
LEMMA StreamEnds ==
    ASSUME NEW p \in StatusClients, ReportOf(p), ReceiveEof(p), UNCHANGED startVars
    PROVE  QuietFor(p)
<1>1. PICK run \in Seq(Jobs), wait \in Seq(Jobs) : Delivered(p, StatusReply(run, wait))
  BY DEF ReportOf
<1>2. /\ rpc[p] = "reply_read" /\ inbox[p] = <<>> /\ ~HasPrivateWriter(p)
      /\ UNCHANGED <<pc, reply, inbox, printed, starts>>
  BY DEF ReceiveEof, Move, GoTo, ctlVars, fifoVars, startVars
<1>3. Len(inbox[p]) = 0 /\ Len(printed[p]) \in Nat
  BY <1>1, <1>2 DEF Delivered, Segment
<1>4. ~(starts = 1 /\ pc # "killed")
  <2> DEFINE L == Len(StatusReply(run, wait))
             K == Len(printed[p])
             I == Len(inbox[p])
  <2>1. K < L /\ (starts = 1 /\ pc # "killed" => K + I = L)
    BY <1>1, <1>2 DEF Delivered, HasPrivateWriter
  <2>2. L \in Int
    BY ReportLayout DEF IsReport
  <2> HIDE DEF L
  <2> QED
    BY <1>3, <2>1, <2>2
<1> QED
  BY <1>2, <1>4 DEF QuietFor, Sending

\* The controller writes the next line.
LEMMA LineWritten ==
    ASSUME SystemInv, [Next]_vars, NEW p \in StatusClients, ReportOf(p),
           CtlWriteReply, reply.to = p, UNCHANGED startVars
    PROVE  ReportOf(p)'
<1>1. PICK run \in Seq(Jobs), wait \in Seq(Jobs) :
        Truthful(run, wait) /\ Delivered(p, StatusReply(run, wait))
  BY DEF ReportOf
<1> DEFINE all == StatusReply(run, wait)
           M == reply.msgs
<1>2. /\ pc = "send_write" /\ pc' = (IF Len(M) = 1 THEN "send_close" ELSE "send_write")
      /\ reply' = [reply EXCEPT !.msgs = Tail(M)]
      /\ inbox' = [inbox EXCEPT ![p] = Append(inbox[p], Head(M))]
      /\ UNCHANGED <<rpc, printed, starts>>
  BY DEF CtlWriteReply, WriteReply, runnerVars, startVars
<1>3. Sending(p)
  BY <1>2 DEF Sending
<1>4. PICK K \in Nat, I \in Nat, N \in Nat, L \in Nat :
        /\ K = Len(printed[p]) /\ I = Len(inbox[p]) /\ N = Len(M) /\ L = Len(all)
        /\ K < L /\ K + I + N = L /\ N # 0
  <2>1. Len(all) \in Nat
    BY <1>1, ReportLength
  <2>2. Delivered(p, all)
    BY <1>1
  <2> HIDE DEF all
  <2>3. /\ Len(printed[p]) \in Nat /\ Len(inbox[p]) \in Nat
        /\ Len(printed[p]) < Len(all) /\ Len(printed[p]) + Len(inbox[p]) <= Len(all)
        /\ inbox[p] # <<>> => Len(inbox[p]) # 0
        /\ Sending(p) => /\ Len(reply.msgs) \in Nat /\ Len(reply.msgs) # 0
                         /\ Len(printed[p]) + Len(inbox[p]) + Len(reply.msgs) = Len(all)
    BY <2>1, <2>2, DeliveredLengths
  <2>4. PICK K \in Nat, I \in Nat, N \in Nat, L \in Nat :
          K = Len(printed[p]) /\ I = Len(inbox[p]) /\ N = Len(M) /\ L = Len(all)
    BY <1>3, <2>1, <2>3
  <2> QED
    BY <1>3, <2>3, <2>4
<1>5. K < L /\ K + I + N = L /\ N # 0
  BY <1>4
<1>6. /\ Segment(printed[p], all, 0) /\ Segment(inbox[p], all, K)
      /\ M # <<>> /\ Segment(M, all, K + I)
  BY <1>1, <1>3, <1>4 DEF Delivered
<1> HIDE DEF all
<1>7. /\ Head(M) = all[K + I + 1] /\ K + I + 1 \in 1..L
      /\ Segment(Tail(M), all, K + I + 1) /\ Len(Tail(M)) = N - 1
  <2>1. Len(all) \in Nat
    BY <1>4
  <2>2. PICK o \in Nat : o = K + I
    OBVIOUS
  <2>3. /\ Head(M) = all[o + 1] /\ o + 1 \in 1..Len(all)
        /\ Segment(Tail(M), all, o + 1) /\ Len(Tail(M)) = Len(M) - 1
    BY <1>6, <2>1, <2>2, SegmentRead
  <2> QED
    BY <1>4, <2>2, <2>3
<1>8. Segment(inbox'[p], all, K) /\ Len(inbox'[p]) = I + 1
  <2>1. inbox'[p] = Append(inbox[p], Head(M))
    BY <1>2 DEF SystemInv, TypeOK
  <2>2. K + I + 1 <= L
    BY <1>7
  <2>3. OneMoreLine(inbox'[p], inbox[p], all, K)
    BY <1>4, <1>6, <1>7, <2>1, <2>2 DEF OneMoreLine
  <2>4. Segment(inbox'[p], all, K) /\ Len(inbox'[p]) = Len(inbox[p]) + 1
    BY <2>3, SegmentWritten
  <2> QED
    BY <1>4, <2>4
<1>9. reply'.msgs = Tail(M) /\ reply'.to = p
  BY <1>2 DEF SystemInv, TypeOK, CtlTypeOK
<1>10. /\ K + (I + 1) = K + I + 1 /\ K + (I + 1) + (N - 1) = L
      /\ (N = 1 => K + (I + 1) = L) /\ (N # 1 => N - 1 # 0)
  BY <1>5
<1>11. N # 1 => Tail(M) # <<>>
  BY <1>7, <1>10
<1>12. rpc[p] # "exit0"
  BY <1>2 DEF CtlWriteReply, HasPrivateReader
<1> HIDE DEF M
<1>13. Delivered(p, all)'
  <2>1. Sending(p)' => /\ reply'.msgs # <<>> /\ Segment(reply'.msgs, all, K + (I + 1))
                       /\ K + (I + 1) + Len(reply'.msgs) = Len(all)
    BY <1>2, <1>4, <1>7, <1>9, <1>10, <1>11 DEF Sending
  <2>2. (pc' = "send_write" /\ reply'.to = p) \/ K + (I + 1) = Len(all)
    BY <1>2, <1>4, <1>9, <1>10
  <2>3. rpc'[p] # "exit0" /\ printed'[p] = printed[p]
    BY <1>2, <1>12
  <2> QED
    BY <1>4, <1>6, <1>8, <2>1, <2>2, <2>3 DEF Delivered
<1>14. Truthful(run, wait)'
  BY <1>1, TruthStays
<1> QED
  BY <1>13, <1>14 DEF ReportOf, all

LEMMA NoCommands ==
    /\ CommandIds(<<>>) = {}
    /\ \A q \in Seq(Jobs) : CommandIds(q) = {} => q = <<>>
<1>1. CommandIds(<<>>) = {}
  BY DEF CommandIds
<1>2. ASSUME NEW q \in Seq(Jobs), q # <<>> PROVE CommandIds(q) # {}
  <2>1. 1 \in 1..Len(q)
    BY <1>2
  <2>2. q[1].command_id \in CommandIds(q)
    BY <2>1 DEF CommandIds
  <2> QED
    BY <2>2
<1> QED
  BY <1>1, <1>2

\* A new report is made of what the controller knows when it reads the request.
LEMMA ReportMade ==
    ASSUME SystemInv, AckInv, CtlRead, UNCHANGED startVars, NEW m, m = Head(srv_buf),
           handle_status_req(m), NEW p \in StatusClients, p = m.sender_pid,
           printed[p] = <<>>, [Next]_vars
    PROVE  ReportOf(p)' \/ QuietFor(p)
<1> USE DEF jobVars, config
<1>1. /\ pc = "read" /\ ~IsDone(p) /\ rpc[p] \in Expecting /\ inbox[p] = <<>>
      /\ UNCHANGED <<inbox, rpc, printed, starts>>
  <2>1. OutgoingInv
    BY DEF SystemInv, ProtocolInv
  <2>2. ~IsDone(p)
    BY <2>1, DoneRunners
  <2>3. pc = "read" /\ ~Noticed(p) /\ rpc[p] \in Expecting /\ UNCHANGED <<inbox, rpc>>
    BY <2>2, ReadFrame
  <2> QED
    BY <2>2, <2>3 DEF Noticed, CtlRead, runnerVars, startVars
<1>2. CASE pc' = "finish"
  BY <1>1, <1>2 DEF QuietFor, Sending, Expecting
<1>3. CASE pc' # "finish"
  <2>1. PICK v \in ScheduledViews :
          Send(p, "status", StatusReply(running_queue, v), "finish")
    BY <1>3 DEF handle_status_req, queue_copy_to_array
  <2>2. PICK run \in Seq(Jobs), wait \in Seq(Jobs) : run = running_queue /\ wait = v
    BY ViewGood DEF Distinct, SystemInv, TypeOK, CtlTypeOK
  <2> DEFINE all == StatusReply(run, wait)
  <2>3. /\ all \in Seq(ToSet(all)) /\ Len(all) = Len(run) + Len(wait) + 3
        /\ Len(run) \in Nat /\ Len(wait) \in Nat
    BY ReportLayout DEF IsReport
  <2>4. Len(all) \in Nat /\ 0 < Len(all)
    BY <2>3
  <2>5. pc' = "send_open" /\ reply'.to = p /\ reply'.msgs = all
    BY <2>1, <2>2 DEF Send
  <2>6. Delivered(p, all)'
    <3> HIDE DEF all
    <3>1. Segment(all, all, 0) /\ all # <<>> /\ 0 + 0 + Len(all) = Len(all)
      BY <2>3, <2>4 DEF Segment
    <3>2. Segment(<<>>, all, 0) /\ Len(<<>>) = 0
      BY <2>4 DEF Segment
    <3>3. printed'[p] = <<>> /\ inbox'[p] = <<>> /\ rpc'[p] \notin {"reply_read", "exit0"}
      BY <1>1 DEF Expecting
    <3>4. 0 + 0 = 0
      OBVIOUS
    <3> QED
      BY <2>4, <2>5, <3>1, <3>2, <3>3, <3>4 DEF Delivered
  <2>7. Truthful(run, wait)
    <3>1. /\ NoneTwice(run) /\ CommandIds(run) = Running /\ Running \subseteq Executors
          /\ NoneTwice(wait) /\ CommandIds(wait) \subseteq Waiting /\ Waiting \cap Running = {}
      BY <2>2, ViewGood DEF Distinct, Running, SystemInv, ProtocolInv, JobInv
    <3>2. \A c \in Running : Acked(c)
      BY <1>1 DEF AckInv, Sending
    <3>3. Len(run) <= parallel_limit
      BY <1>1, <2>2 DEF SystemInv, SlotInv, SlotAccounting
    <3>4. ASSUME wait # <<>> PROVE Len(run) = parallel_limit
      <4>1. waiting_queue # <<>>
        <5>1. ASSUME waiting_queue = <<>> PROVE FALSE
          <6>1. Waiting = {}
            BY <5>1, NoCommands DEF Waiting
          <6>2. CommandIds(wait) = {}
            BY <3>1, <6>1
          <6> QED
            BY <3>4, <6>2, NoCommands
        <5> QED
          BY <5>1
      <4> QED
        BY <1>1, <2>2, <4>1 DEF SystemInv, SlotInv, SlotAccounting, WorkConserving
    <3> QED
      BY <3>1, <3>2, <3>3, <3>4 DEF Truthful
  <2>8. Truthful(run, wait)'
    BY <2>7, TruthStays
  <2> QED
    BY <2>6, <2>8 DEF ReportOf
<1> QED
  BY <1>2, <1>3

\* The steps of the runners.
LEMMA RunnersKeepReports ==
    ASSUME SystemInv, [Next]_vars, NEW p \in StatusClients, ReportOf(p),
           NEW q \in Pids, Start(q) \/ RunnerStep(q) \/ Kill(q)
    PROVE  ReportOf(p)'
<1> USE DEF ctlVars, fifoVars, startVars
<1>1. /\ DOMAIN rpc = Pids /\ DOMAIN inbox = Pids /\ DOMAIN printed = Pids /\ OutgoingInv
  BY DEF SystemInv, TypeOK, ProtocolInv
<1>2. /\ UNCHANGED <<starts, reply>>
      /\ pc' = pc \/ (pc = "opening" /\ pc' = "read")
  BY RunnersLeave
<1>3. ASSUME printed'[p] = printed[p], inbox'[p] = inbox[p],
             rpc'[p] = rpc[p] \/ rpc'[p] \notin {"reply_read", "exit0"}
      PROVE  ReportOf(p)'
  <2>1. QuietFor(p)
    BY <1>2, <1>3 DEF QuietFor, Sending
  <2> QED
    BY <2>1, QuietReports
<1>4. CASE q # p
  <2>1. printed'[p] = printed[p] /\ inbox'[p] = inbox[p] /\ rpc'[p] = rpc[p]
    BY <1>1, <1>4
    DEF Start, RunnerStep, Kill, ipc_send_atomic, SendFails, SendOpen, SendOpenBlocks,
        SendWrite, SendWriteFatal, SendClose, OpenPrivate, ReceiveEof, ReceiveAck,
        ReceiveStatus, ReceiveShutdownAck, Execute, Receive, Move, GoTo
  <2> QED
    BY <1>3, <2>1
<1>5. CASE ReceiveStatus(p) /\ UNCHANGED startVars
  BY <1>5, LineReceived
<1>6. CASE ReceiveEof(p) /\ UNCHANGED startVars
  BY <1>6, StreamEnds, QuietReports
<1>7. CASE /\ q = p
           /\ Start(p) \/ Kill(p) \/ ipc_send_atomic(p) \/ OpenPrivate(p) \/ Execute(p)
  <2>1. printed'[p] = printed[p] /\ inbox'[p] = inbox[p]
    BY <1>7 DEF Start, Kill, ipc_send_atomic, SendFails, SendOpen, SendOpenBlocks,
        SendWrite, SendWriteFatal, SendClose, OpenPrivate, Execute, Move
  <2>2. ~IsDone(p)
    BY <1>1, DoneRunners
  <2>3. rpc'[p] \notin {"reply_read", "exit0"}
    BY <1>1, <1>7, <2>2 DEF Start, Kill, ipc_send_atomic, SendFails, SendOpen, SendOpenBlocks,
        SendWrite, SendWriteFatal, SendClose, OpenPrivate, Execute, Move, GoTo, IsDone
  <2> QED
    BY <1>3, <2>1, <2>3
<1> QED
  BY <1>4, <1>5, <1>6, <1>7 DEF RunnerStep, ReceiveAck, ReceiveShutdownAck

\* The steps of the controllers.
LEMMA ControllersKeepReports ==
    ASSUME ~OpenMayFail, SystemInv, SystemInv', AckInv, [Next]_vars,
           NEW p \in StatusClients, ReportOf(p), Unread(p) => printed[p] = <<>>,
           CtlStep \/ CtlKilled \/ CtlRestart \/ OldExit
    PROVE  ReportOf(p)'
<1> USE DEF ctlVars, fifoVars, runnerVars, startVars
<1>1. /\ DOMAIN rpc = Pids /\ DOMAIN inbox = Pids /\ DOMAIN printed = Pids /\ p \in Pids
      /\ ReplyInv /\ ReplyInv' /\ starts \in Nat /\ starts >= 1 /\ CtlTypeOK
      /\ p \notin Executors /\ p \notin ShutdownClients
  BY DEF SystemInv, TypeOK, ProtocolInv
<1>2. ASSUME QuietFor(p) PROVE ReportOf(p)'
  BY <1>2, QuietReports
\* What is sent to a runner -c is a status report.
<1>3. pc' \in {"send_open", "send_write"} /\ reply'.to = p => reply'.kind = "status"
  BY <1>1 DEF ReplyInv
<1>4. CASE CtlRead /\ UNCHANGED startVars
  <2> DEFINE m == Head(srv_buf)
  <2>1. /\ m \in Messages /\ m.sender_pid \in Pids /\ pc = "read"
        /\ UNCHANGED <<inbox, rpc, printed, starts>>
    BY <1>4, ReadFrame DEF CtlRead
  <2>2. ~IsDone(m.sender_pid) => ~Noticed(m.sender_pid) /\ rpc[m.sender_pid] \in Expecting
    BY <1>4, ReadFrame
  <2>3. m \in Fifo /\ outgoing[m.sender_pid] = m
    BY <1>4, ReadFrame
  <2> HIDE DEF m
  <2>4. controller_handle_message(m)
    BY <1>4 DEF CtlRead, m
  <2>5. CASE handle_status_req(m) /\ m.sender_pid = p
    <3>1. Unread(p)
      BY <2>3, <2>5 DEF Unread, IsDone, handle_status_req
    <3> QED
      BY <1>2, <1>4, <2>5, <3>1, ReportMade DEF m
  <2>6. CASE ~(handle_status_req(m) /\ m.sender_pid = p)
    <3>1. ~Sending(p)'
      <4>1. CASE handle_status_req(m)
        BY <2>1, <2>6, <4>1 DEF handle_status_req, Send, Sending
      <4>2. CASE ~handle_status_req(m)
        BY <1>3, <2>4, <4>2
        DEF controller_handle_message, reject_submit, handle_submit, take_done,
            handle_shutdown_req, send_ack_to_runner, send_shutdown_ack_to_runner, Send, Sending
      <4> QED
        BY <4>1, <4>2
    <3>2. QuietFor(p)
      BY <2>1, <3>1 DEF QuietFor
    <3> QED
      BY <1>2, <3>2
  <2> QED
    BY <2>5, <2>6
<1>5. CASE CtlSchedule /\ UNCHANGED startVars
  <2>1. /\ pc \in {"start_waiting", "finish", "done"}
        /\ UNCHANGED <<inbox, rpc, printed, starts>>
    BY <1>5 DEF CtlSchedule, start_waiting_jobs, try_finish_shutdown, handle_done
  <2>2. ~Sending(p)'
    BY <1>3, <1>5, <2>1
    DEF CtlSchedule, start_waiting_jobs, try_finish_shutdown, handle_done, send_ack_to_runner,
        Send, Sending
  <2>3. QuietFor(p)
    BY <2>1, <2>2 DEF QuietFor
  <2> QED
    BY <1>2, <2>3
<1>6. CASE (CtlStart \/ CtlOpen \/ CtlReadEof \/ CtlClose \/ CtlExit) /\ UNCHANGED startVars
  <2>1. /\ pc \notin {"send_open", "send_write", "killed"}
        /\ pc' \notin {"send_open", "send_write", "killed"}
        /\ UNCHANGED <<reply, inbox, printed, starts>>
    BY <1>6 DEF CtlStart, CtlOpen, CtlReadEof, CtlClose, CtlExit, CreateFifo, StartFails,
                OpenServer, OpenServerBlocks, OpenServerFails, ReadEof, CloseServer, Exit,
                controller_destroy_queues, Goto
  <2>2. rpc'[p] = rpc[p] \/ rpc'[p] = "write"
    BY <1>1, <1>6 DEF CtlStart, CtlOpen, CtlReadEof, CtlClose, CtlExit
  <2>3. QuietFor(p)
    BY <2>1, <2>2 DEF QuietFor, Sending
  <2> QED
    BY <1>2, <2>3
<1>7. CASE CtlOpenReply /\ UNCHANGED startVars
  <2>1. rpc[reply.to] \in Expecting /\ pc = "send_open"
    BY <1>1, <1>7 DEF CtlOpenReply, OpenReply, OpenReplyFails, Goto, ReplyInv
  <2>2. PrivateFifoExists(reply.to)
    BY <2>1 DEF PrivateFifoExists, Expecting
  <2>3. /\ reply' = reply /\ pc' = "send_write" /\ UNCHANGED <<inbox, printed, starts>>
        /\ GoTo(reply.to, "reply_opening", "reply_read")
    BY <1>7, <2>2 DEF CtlOpenReply, OpenReply, Goto
  <2>4. rpc'[p] = rpc[p] \/ (rpc'[p] = "reply_read" /\ reply.to = p)
    BY <1>1, <2>3 DEF GoTo
  <2>5. QuietFor(p)
    BY <2>1, <2>3, <2>4 DEF QuietFor, Sending
  <2> QED
    BY <1>2, <2>5
<1>8. CASE CtlWriteReply /\ UNCHANGED startVars
  <2>1. CASE reply.to = p
    BY <1>8, <2>1, LineWritten
  <2>2. CASE reply.to # p
    <3>1. /\ pc = "send_write" /\ pc' \in {"send_write", "send_close"}
          /\ reply'.to = reply.to /\ inbox'[p] = inbox[p] /\ UNCHANGED <<rpc, printed, starts>>
      BY <1>1, <1>8, <2>2 DEF CtlWriteReply, WriteReply, CtlTypeOK
    <3>2. QuietFor(p)
      BY <2>2, <3>1 DEF QuietFor, Sending
    <3> QED
      BY <1>2, <3>2
  <2> QED
    BY <2>1, <2>2
<1>9. CASE CtlCloseReply /\ UNCHANGED startVars
  <2>1. /\ pc = "send_close" /\ reply' = NoReply /\ UNCHANGED <<inbox, rpc, printed, starts>>
        /\ pc' \notin {"send_open", "send_write"}
    BY <1>1, <1>9 DEF CtlCloseReply, CloseReply, AfterReply, CtlTypeOK
  <2>2. QuietFor(p)
    BY <2>1 DEF QuietFor, Sending
  <2> QED
    BY <1>2, <2>2
<1>10. CASE CtlKilled
  <2>1. pc' = "killed" /\ UNCHANGED <<inbox, printed>>
    BY <1>10 DEF CtlKilled, Killed, Goto
  <2>2. QuietFor(p)
    BY <2>1 DEF QuietFor, Sending
  <2> QED
    BY <1>2, <2>2
<1>11. CASE CtlRestart
  <2>1. pc' = "create" /\ starts' = starts + 1 /\ UNCHANGED <<inbox, printed>>
    BY <1>11 DEF CtlRestart, Restart
  <2>2. starts' # 1
    BY <1>1, <2>1
  <2>3. QuietFor(p)
    BY <2>1, <2>2 DEF QuietFor, Sending
  <2> QED
    BY <1>2, <2>3
<1>12. CASE OldExit
  <2>1. UNCHANGED <<pc, reply, inbox, rpc, printed, starts>>
    BY <1>12 DEF OldExit
  <2>2. QuietFor(p)
    BY <2>1 DEF QuietFor, Sending
  <2> QED
    BY <1>2, <2>2
<1> QED
  BY <1>4, <1>5, <1>6, <1>7, <1>8, <1>9, <1>10, <1>11, <1>12 DEF CtlStep

LEMMA StepKeepsReports ==
    ASSUME ~OpenMayFail, SystemInv, SystemInv', AckInv, ReportInv, [Next]_vars
    PROVE  ReportInv'
<1> SUFFICES ASSUME NEW p \in StatusClients
             PROVE  (Unread(p)' => printed'[p] = <<>>) /\ ReportOf(p)'
  BY DEF ReportInv
<1>1. ReportOf(p) /\ (Unread(p) => printed[p] = <<>>)
  BY DEF ReportInv
<1>2. ASSUME Unread(p)' PROVE printed'[p] = <<>>
  <2>1. Unread(p) /\ printed[p] = <<>>
    BY <1>1, <1>2, UnreadBefore
  <2>2. OutgoingInv /\ FifoInv /\ DOMAIN printed = Pids
    BY DEF SystemInv, ProtocolInv, TypeOK
  <2>3. rpc[p] # "reply_read"
    BY <2>1, <2>2, DoneRunners DEF Unread, FifoInv, Unsent, Expecting, IsDone
  <2>4. printed'[p] = printed[p]
    <3>1. CASE UNCHANGED printed
      BY <3>1
    <3>2. CASE \E q \in Pids : ReceiveStatus(q)
      BY <2>2, <2>3, <3>2 DEF ReceiveStatus, Receive
    <3> QED
      BY <3>1, <3>2
      DEF Next, CtlStep, CtlStart, CtlOpen, CtlRead, CtlReadEof, CtlClose, CtlExit, CtlSchedule,
          CtlOpenReply, CtlWriteReply, CtlCloseReply, CtlKilled, CtlRestart, OldExit, vars,
          Start, RunnerStep, Kill, ipc_send_atomic, SendFails, SendOpen, SendOpenBlocks,
          SendWrite, SendWriteFatal, SendClose, OpenPrivate, ReceiveEof, ReceiveAck,
          ReceiveShutdownAck, Execute, Move, runnerVars
  <2> QED
    BY <2>1, <2>4
<1>3. CASE CtlStep \/ CtlKilled \/ CtlRestart \/ OldExit
  BY <1>1, <1>2, <1>3, ControllersKeepReports
<1>4. CASE \E q \in Pids : Start(q) \/ RunnerStep(q) \/ Kill(q)
  BY <1>1, <1>2, <1>4, RunnersKeepReports
<1>5. CASE UNCHANGED vars
  <2>1. QuietFor(p)
    BY <1>5 DEF vars, ctlVars, fifoVars, runnerVars, startVars, QuietFor, Sending
  <2> QED
    BY <1>1, <1>2, <2>1, QuietReports
<1> QED
  BY <1>3, <1>4, <1>5 DEF Next

LEMMA InitialReports ==
    ASSUME Init
    PROVE  AckInv /\ ReportInv
<1>1. AckInv
  BY DEF Init, CtlInit, AckInv, Running, CommandIds
<1>2. ASSUME NEW p \in StatusClients PROVE printed[p] = <<>> /\ ReportOf(p)
  <2>1. printed[p] = <<>> /\ inbox[p] = <<>> /\ rpc[p] = "start" /\ pc = "create"
    BY DEF Init, CtlInit
  <2>2. <<>> \in Seq(Jobs)
    OBVIOUS
  <2>3. PICK run \in Seq(Jobs) : run = <<>>
    BY <2>2
  <2> DEFINE all == StatusReply(run, run)
  <2>4. Len(all) = Len(run) + Len(run) + 3
    BY ReportLayout DEF IsReport
  <2>5. Len(run) = 0
    BY <2>3
  <2>6. Len(all) \in Nat /\ 0 < Len(all)
    BY <2>4, <2>5
  <2> HIDE DEF all
  <2>7. Segment(<<>>, all, 0) /\ Len(<<>>) = 0
    BY <2>6 DEF Segment
  <2>8. Delivered(p, all)
    BY <2>1, <2>6, <2>7 DEF Delivered, Sending
  <2>9. Truthful(run, run)
    <3>1. NoneTwice(run) /\ CommandIds(run) = {}
      BY <2>3 DEF NoneTwice, CommandIds
    <3>2. 0 <= parallel_limit
      <4>1. CtlTypeOK
        BY InitialTypes DEF Init
      <4> QED
        BY <4>1 DEF CtlTypeOK
    <3> QED
      BY <2>3, <2>5, <3>1, <3>2 DEF Truthful
  <2> QED
    BY <2>1, <2>8, <2>9 DEF ReportOf, all
<1> QED
  BY <1>1, <1>2 DEF ReportInv

------------------------------------------------------------------------------
(* What has been printed *)

\* A section shows the first n commands of a queue.
Shows(lines, q, n) ==
    /\ lines = [k \in 1..n |-> q[k].command_id]
    /\ n \in 0..Len(q)

\* The lines from..to of a report, when the jobs of q start at line from.
LEMMA SectionShown ==
    ASSUME NEW S, NEW out \in Seq(S), NEW q \in Seq(Jobs), NEW from \in Nat \ {0},
           NEW n \in 0..Len(q), from + n - 1 <= Len(out),
           \A k \in 1..n : out[from + k - 1] = JobLine(q[k])
    PROVE  Shows(Listed(SubSeq(out, from, from + n - 1)), q, n)
<1> DEFINE s == SubSeq(out, from, from + n - 1)
<1>1. Len(s) = n /\ s \in Seq(S) /\ \A k \in 1..n : s[k] = out[from + k - 1]
  OBVIOUS
<1> HIDE DEF s
<1>2. DOMAIN s = 1..n
  BY <1>1
<1>3. \A k \in 1..n : s[k].command_id = q[k].command_id
  <2>1. \A k \in 1..n : s[k] = JobLine(q[k])
    BY <1>1
  <2>2. \A job : JobLine(job).command_id = job.command_id
    BY DEF JobLine
  <2> QED
    BY <2>1, <2>2
<1>4. Listed(s) = [k \in 1..n |-> q[k].command_id]
  BY <1>2, <1>3 DEF Listed
<1> QED
  BY <1>4 DEF Shows, s

\* No command is listed twice.
LEMMA ShownOnce ==
    ASSUME NEW run \in Seq(Jobs), NEW wait \in Seq(Jobs), NoneTwice(run), NoneTwice(wait),
           CommandIds(run) \cap CommandIds(wait) = {},
           NEW r, NEW w, NEW m, NEW n, Shows(r, run, m), Shows(w, wait, n)
    PROVE  IsInjective(r \o w)
<1>1. /\ m \in Nat /\ m <= Len(run) /\ Len(run) \in Nat
      /\ n \in Nat /\ n <= Len(wait) /\ Len(wait) \in Nat
      /\ r = [k \in 1..m |-> run[k].command_id] /\ w = [k \in 1..n |-> wait[k].command_id]
  BY DEF Shows
<1>2. /\ \A k \in 1..m : k \in 1..Len(run)
      /\ \A k \in 1..n : k \in 1..Len(wait)
  <2>1. /\ m \in Nat /\ m <= Len(run) /\ Len(run) \in Nat
        /\ n \in Nat /\ n <= Len(wait) /\ Len(wait) \in Nat
    BY <1>1
  <2> QED
    BY <2>1
<1>3. /\ r \in Seq(Pids) /\ Len(r) = m /\ \A k \in 1..m : r[k] = run[k].command_id
      /\ w \in Seq(Pids) /\ Len(w) = n /\ \A k \in 1..n : w[k] = wait[k].command_id
  <2>0. \A job \in Jobs : job.command_id \in Pids
    BY DEF Jobs
  <2>1. \A k \in 1..m : run[k].command_id \in Pids
    BY <1>2, <2>0
  <2>2. \A k \in 1..n : wait[k].command_id \in Pids
    BY <1>2, <2>0
  <2> QED
    BY <1>1, <2>1, <2>2
<1>4. IsJoin(r \o w, r, w, Pids)
  BY <1>3, Joined
<1> DEFINE j == r \o w
<1>5. /\ DOMAIN j = 1..(m + n)
      /\ \A k \in 1..m : j[k] = run[k].command_id
      /\ \A k \in 1..n : j[m + k] = wait[k].command_id
  <2>1. j \in Seq(Pids) /\ Len(j) = m + n
    BY <1>3, <1>4 DEF IsJoin
  <2>2. \A k \in 1..m : j[k] = run[k].command_id
    BY <1>3, <1>4 DEF IsJoin
  <2>3. \A k \in 1..n : j[m + k] = wait[k].command_id
    BY <1>3, <1>4 DEF IsJoin
  <2> HIDE DEF j
  <2>4. DOMAIN j = 1..(m + n)
    BY <2>1
  <2> QED
    BY <2>2, <2>3, <2>4
<1> HIDE DEF j
<1>6. \A k \in 1..(m + n) : \/ k \in 1..m
                           \/ (k - m \in 1..n /\ m + (k - m) = k)
  BY <1>1
<1>7. \A k \in 1..m : k \in 1..Len(run) /\ j[k] \in CommandIds(run)
  BY <1>5, <1>2 DEF CommandIds
<1>8. \A k \in 1..n : k \in 1..Len(wait) /\ j[m + k] \in CommandIds(wait)
  BY <1>5, <1>2 DEF CommandIds
<1>9. ASSUME NEW a \in 1..(m + n), NEW b \in 1..(m + n), j[a] = j[b] PROVE a = b
  <2>1. CASE a \in 1..m /\ b \in 1..m
    BY <1>5, <1>7, <1>9, <2>1 DEF NoneTwice
  <2>2. CASE a - m \in 1..n /\ b - m \in 1..n /\ m + (a - m) = a /\ m + (b - m) = b
    <3>1. j[a] = wait[a - m].command_id /\ j[b] = wait[b - m].command_id
      BY <1>5, <2>2
    <3>2. a - m = b - m
      BY <1>8, <1>9, <2>2, <3>1 DEF NoneTwice
    <3> QED
      BY <2>2, <3>2
  <2>3. CASE a \in 1..m /\ b - m \in 1..n /\ m + (b - m) = b
    <3>1. j[a] \in CommandIds(run) /\ j[b] \in CommandIds(wait)
      BY <1>7, <1>8, <2>3
    <3> QED
      BY <1>9, <3>1
  <2>4. CASE b \in 1..m /\ a - m \in 1..n /\ m + (a - m) = a
    <3>1. j[b] \in CommandIds(run) /\ j[a] \in CommandIds(wait)
      BY <1>7, <1>8, <2>4
    <3> QED
      BY <1>9, <3>1
  <2> QED
    BY <1>6, <2>1, <2>2, <2>3, <2>4
<1> QED
  BY <1>5, <1>9 DEF IsInjective, j

\* The picture that runner p has printed.
SnapshotOf(p) ==
    LET out   == printed[p]
        heads == {n \in DOMAIN out : "header" \in DOMAIN out[n]}
        mid   == Max({1} \cup heads)
        run   == Listed(SubSeq(out, 2, IF mid = 1 THEN Len(out) ELSE mid - 1))
        wait  == IF mid = 1 THEN <<>> ELSE Listed(SubSeq(out, mid + 1, Len(out)))
    IN  /\ out # <<>> => 1 \in heads
        /\ IsInjective(run \o wait)
        /\ \A c \in ToSet(run) : HasAck(c) \/ outgoing[c].type = "DONE"
        /\ rpc[p] = "exit0" /\ starts = 1 /\ pc # "killed" =>
              /\ Cardinality(heads) = 2
              /\ Len(run) <= parallel_limit
              /\ wait # <<>> => Len(run) = parallel_limit

LEMMA MaxOfOne == Max({1}) = 1
<1>1. Max({1}) = CHOOSE x \in {1} : \A y \in {1} : x >= y
  BY DEF Max
<1> QED
  BY <1>1

LEMMA MaxOfTwo ==
    ASSUME NEW n \in Nat, n > 1
    PROVE  Max({1, n}) = n
<1>1. Max({1, n}) = CHOOSE x \in {1, n} : \A y \in {1, n} : x >= y
  BY DEF Max
<1>2. \A x \in {1, n} : (\A y \in {1, n} : x >= y) <=> x = n
  OBVIOUS
<1>3. n \in {1, n}
  OBVIOUS
<1> QED
  BY <1>1, <1>2, <1>3

\* The headers that have been printed, and what stands between them.
LEMMA ReportHeads ==
    ASSUME NEW run \in Seq(Jobs), NEW wait \in Seq(Jobs), NEW all, IsReport(all, run, wait),
           NEW out, Segment(out, all, 0), Len(out) < Len(all),
           NEW heads, heads = {n \in DOMAIN out : "header" \in DOMAIN out[n]}
    PROVE  /\ Len(out) = 0 => heads = {}
           /\ Len(out) \in 1..(Len(run) + 1) => heads = {1}
           /\ Len(out) >= Len(run) + 2 => heads = {1, Len(run) + 2}
<1>1. PICK K \in Nat, R \in Nat, L \in Nat :
        K = Len(out) /\ R = Len(run) /\ L = Len(all) /\ K < L
  BY DEF Segment, IsReport
<1>2. DOMAIN out = 1..K /\ \A k \in 1..K : out[k] = all[k]
  <2>1. out \in Seq(ToSet(out)) /\ \A k \in 1..K : out[k] = all[0 + k]
    BY <1>1 DEF Segment
  <2>2. \A k \in 1..K : 0 + k = k
    OBVIOUS
  <2>3. DOMAIN out = 1..K
    BY <1>1, <2>1
  <2> QED
    BY <2>1, <2>2, <2>3
<1>3. \A k \in 1..K : k \in 1..L /\ k # L
  <2>1. K < L
    BY <1>1
  <2> QED
    BY <2>1
<1>4. \A k \in 1..K : "header" \in DOMAIN out[k] <=> (k = 1 \/ k = R + 2)
  <2> SUFFICES ASSUME NEW k \in 1..K
               PROVE  "header" \in DOMAIN all[k] <=> (k = 1 \/ k = R + 2)
    BY <1>2
  <2> QED
    BY <1>1, <1>3, ReportLines
<1>5. heads = {k \in 1..K : k = 1 \/ k = R + 2}
  BY <1>2, <1>4
<1>6. K = 0 => heads = {}
  BY <1>5
<1>7. K \in 1..(R + 1) => heads = {1}
  BY <1>5
<1>8. K >= R + 2 => heads = {1, R + 2}
  BY <1>5
<1> QED
  BY <1>1, <1>6, <1>7, <1>8

LEMMA ShownLength ==
    ASSUME NEW q \in Seq(Jobs), NEW n, NEW s, Shows(s, q, n)
    PROVE  /\ Len(s) = n /\ n \in Nat
           /\ n = 0 => s = <<>>
           /\ \A c \in ToSet(s) : c \in CommandIds(q)
<1>1. n \in 0..Len(q) /\ s = [k \in 1..n |-> q[k].command_id]
  BY DEF Shows
<1>2. n \in Nat /\ \A k \in 1..n : k \in 1..Len(q)
  <2>1. n \in 0..Len(q) /\ Len(q) \in Nat
    BY <1>1
  <2> QED
    BY <2>1
<1>3. Len(s) = n /\ DOMAIN s = 1..n
  BY <1>1, <1>2
<1>4. n = 0 => s = <<>>
  <2>1. ASSUME n = 0 PROVE s = <<>>
    <3>1. 1..n = {}
      BY <2>1
    <3> QED
      BY <1>1, <3>1
  <2> QED
    BY <2>1
<1>5. \A c \in ToSet(s) : c \in CommandIds(q)
  BY <1>1, <1>2, <1>3 DEF ToSet, CommandIds
<1> QED
  BY <1>2, <1>3, <1>4, <1>5

LEMMA TwoHeads ==
    ASSUME NEW n \in Nat, n # 1
    PROVE  Cardinality({1, n}) = 2
<1>1. IsFiniteSet({1}) /\ Cardinality({1}) = 1
  BY FS_Singleton
<1>2. n \notin {1} /\ {1, n} = {1} \cup {n}
  OBVIOUS
<1>3. Cardinality({1} \cup {n}) = Cardinality({1}) + 1
  BY <1>1, <1>2, FS_AddElement
<1> QED
  BY <1>1, <1>2, <1>3

\* A runner that has printed the first lines of a report shows a consistent
\* picture.
LEMMA ReportIsConsistent ==
    ASSUME NEW p \in StatusClients, ReportOf(p), parallel_limit \in Nat
    PROVE  SnapshotOf(p)
<1>1. PICK run \in Seq(Jobs), wait \in Seq(Jobs) :
        Truthful(run, wait) /\ Delivered(p, StatusReply(run, wait))
  BY DEF ReportOf
<1> DEFINE all == StatusReply(run, wait)
           out == printed[p]
           heads == {n \in DOMAIN out : "header" \in DOMAIN out[n]}
           mid == Max({1} \cup heads)
           r == Listed(SubSeq(out, 2, IF mid = 1 THEN Len(out) ELSE mid - 1))
           w == IF mid = 1 THEN <<>> ELSE Listed(SubSeq(out, mid + 1, Len(out)))
<1>2. IsReport(all, run, wait)
  BY ReportLayout
<1>3. PICK K \in Nat, R \in Nat, W \in Nat, L \in Nat :
        /\ K = Len(out) /\ R = Len(run) /\ W = Len(wait) /\ L = Len(all)
        /\ K < L /\ L = R + W + 3
  BY <1>1, <1>2 DEF Delivered, Segment, IsReport
<1>4. K < L /\ L = R + W + 3
  BY <1>3
<1>5. Segment(out, all, 0) /\ Len(out) < Len(all)
  BY <1>1 DEF Delivered
<1> HIDE DEF all
<1>6. /\ out \in Seq(ToSet(out)) /\ \A k \in 1..K : out[k] = all[k]
  <2>1. out \in Seq(ToSet(out)) /\ \A k \in 1..K : out[k] = all[0 + k]
    BY <1>3, <1>5 DEF Segment
  <2>2. \A k \in 1..K : 0 + k = k
    OBVIOUS
  <2> QED
    BY <2>1, <2>2
<1> HIDE DEF out
<1>7. /\ K = 0 => heads = {}
      /\ K \in 1..(R + 1) => heads = {1}
      /\ K >= R + 2 => heads = {1, R + 2}
  <2>1. PICK h : h = heads
    OBVIOUS
  <2>2. h = {n \in DOMAIN out : "header" \in DOMAIN out[n]}
    BY <2>1
  <2> HIDE DEF heads
  <2>3. /\ Len(out) = 0 => h = {}
        /\ Len(out) \in 1..(Len(run) + 1) => h = {1}
        /\ Len(out) >= Len(run) + 2 => h = {1, Len(run) + 2}
    BY <1>2, <1>5, <2>2, ReportHeads
  <2> QED
    BY <1>3, <2>1, <2>3
<1> HIDE DEF heads
<1>8. \A k \in 1..R : all[k + 1] = JobLine(run[k])
  BY <1>2, <1>3 DEF IsReport
<1>9. \A k \in 1..W : all[R + k + 2] = JobLine(wait[k])
  BY <1>2, <1>3 DEF IsReport
\* Whatever the sections show of the report, they show each command once, and
\* the running ones have their ACK.
<1>10. ASSUME NEW m, NEW n, Shows(r, run, m), Shows(w, wait, n)
       PROVE  /\ IsInjective(r \o w)
              /\ \A c \in ToSet(r) : HasAck(c) \/ outgoing[c].type = "DONE"
  <2> HIDE DEF r, w
  <2>1. IsInjective(r \o w)
    BY <1>1, <1>10, ShownOnce DEF Truthful
  <2>2. \A c \in ToSet(r) : c \in CommandIds(run)
    BY <1>10, ShownLength
  <2> QED
    BY <1>1, <2>1, <2>2 DEF Truthful, Acked, IsDone
<1>11. rpc[p] = "exit0" /\ starts = 1 /\ pc # "killed" => K + 1 = L
  BY <1>1, <1>3 DEF Delivered, all, out
<1>12. CASE K = 0
  <2>1. out = <<>>
    BY <1>3, <1>6, <1>12, EmptySeq
  <2>2. mid = 1
    <3>1. {1} \cup heads = {1}
      BY <1>7, <1>12
    <3> QED
      BY <3>1, MaxOfOne
  <2>3. r = <<>> /\ w = <<>>
    <3>1. SubSeq(<<>>, 2, 0) = <<>> /\ Listed(<<>>) = <<>>
      BY DEF Listed
    <3> QED
      BY <1>3, <1>12, <2>1, <2>2, <3>1
  <2>4. Shows(r, run, 0) /\ Shows(w, wait, 0)
    <3>1. 0 \in 0..Len(run) /\ 0 \in 0..Len(wait) /\ 1..0 = {}
      OBVIOUS
    <3> HIDE DEF r, w
    <3> QED
      BY <2>3, <3>1 DEF Shows
  <2>5. K + 1 # L
    BY <1>4, <1>12
  <2>6. /\ IsInjective(r \o w)
        /\ \A c \in ToSet(r) : HasAck(c) \/ outgoing[c].type = "DONE"
    BY <1>10, <2>4
  <2> QED
    BY <1>11, <2>1, <2>5, <2>6 DEF SnapshotOf, out, heads
<1>13. CASE K \in 1..(R + 1)
  <2>1. heads = {1}
    BY <1>7, <1>13
  <2>2. mid = 1
    <3>1. {1} \cup heads = {1}
      BY <2>1
    <3> QED
      BY <3>1, MaxOfOne
  <2>3. Shows(r, run, K - 1)
    <3>1. PICK n \in Nat, from \in Nat : n = K - 1 /\ from = 2
      BY <1>13
    <3>2. n <= R /\ from + n - 1 = K
          /\ (\A k \in 1..n : from + k - 1 = k + 1 /\ k + 1 \in 1..K /\ k \in 1..R)
      BY <1>13, <3>1
    <3>3. \A k \in 1..n : out[from + k - 1] = JobLine(run[k])
      BY <1>6, <1>8, <3>2
    <3>4. n \in 0..Len(run) /\ from \in Nat \ {0} /\ from + n - 1 <= Len(out)
      BY <1>3, <3>1, <3>2
    <3>5. Shows(Listed(SubSeq(out, from, from + n - 1)), run, n)
      BY <1>6, <3>3, <3>4, SectionShown
    <3> QED
      BY <1>3, <2>2, <3>1, <3>2, <3>5
  <2>4. Shows(w, wait, 0)
    <3>1. 0 \in 0..Len(wait) /\ 1..0 = {}
      OBVIOUS
    <3> QED
      BY <2>2, <3>1 DEF Shows
  <2>5. K + 1 # L
    BY <1>4, <1>13
  <2>6. /\ IsInjective(r \o w)
        /\ \A c \in ToSet(r) : HasAck(c) \/ outgoing[c].type = "DONE"
    BY <1>10, <2>3, <2>4
  <2> QED
    BY <1>11, <2>1, <2>5, <2>6 DEF SnapshotOf, out, heads
<1>14. CASE K >= R + 2
  <2>1. heads = {1, R + 2}
    BY <1>7, <1>14
  <2>2. mid = R + 2 /\ mid # 1
    <3>1. {1} \cup heads = {1, R + 2}
      BY <2>1
    <3>2. R + 2 \in Nat /\ R + 2 > 1
      OBVIOUS
    <3> QED
      BY <3>1, <3>2, MaxOfTwo
  <2>3. Shows(r, run, R)
    <3>1. PICK from \in Nat : from = 2
      OBVIOUS
    <3>2. from + R - 1 = R + 2 - 1 /\ R + 2 - 1 <= K
          /\ (\A k \in 1..R : from + k - 1 = k + 1 /\ k + 1 \in 1..K)
      BY <1>14, <3>1
    <3>3. \A k \in 1..R : out[from + k - 1] = JobLine(run[k])
      BY <1>6, <1>8, <3>2
    <3>4. R \in 0..Len(run) /\ from \in Nat \ {0} /\ from + R - 1 <= Len(out)
      BY <1>3, <3>1, <3>2
    <3>5. Shows(Listed(SubSeq(out, from, from + R - 1)), run, R)
      BY <1>6, <3>3, <3>4, SectionShown
    <3> QED
      BY <2>2, <3>1, <3>2, <3>5
  <2>4. PICK n \in Nat : n = K - R - 2
    BY <1>14
  <2>5. Shows(w, wait, n)
    <3>1. PICK from \in Nat : from = R + 3
      OBVIOUS
    <3>2. n <= W /\ from + n - 1 = K /\ from = R + 2 + 1
          /\ (\A k \in 1..n : from + k - 1 = R + k + 2 /\ R + k + 2 \in 1..K /\ k \in 1..W)
      BY <1>4, <2>4, <3>1
    <3>3. \A k \in 1..n : out[from + k - 1] = JobLine(wait[k])
      BY <1>6, <1>9, <3>2
    <3>4. n \in 0..Len(wait) /\ from \in Nat \ {0} /\ from + n - 1 <= Len(out)
      BY <1>3, <3>1, <3>2
    <3>5. Shows(Listed(SubSeq(out, from, from + n - 1)), wait, n)
      BY <1>6, <3>3, <3>4, SectionShown
    <3> QED
      BY <1>3, <2>2, <3>1, <3>2, <3>5
  <2>6. /\ IsInjective(r \o w)
        /\ \A c \in ToSet(r) : HasAck(c) \/ outgoing[c].type = "DONE"
    BY <1>10, <2>3, <2>5
  <2> HIDE DEF r, w, mid
  <2>7. Cardinality(heads) = 2
    <3>1. R + 2 \in Nat /\ R + 2 # 1
      OBVIOUS
    <3> QED
      BY <2>1, <3>1, TwoHeads
  <2>8. ASSUME starts = 1
        PROVE  Len(r) <= parallel_limit /\ (w # <<>> => Len(r) = parallel_limit)
    <3>1. Len(r) = R
      BY <2>3, ShownLength
    <3>2. R <= parallel_limit /\ (wait # <<>> => R = parallel_limit)
      BY <1>1, <1>3, <2>8 DEF Truthful
    <3>3. wait = <<>> => w = <<>>
      <4>1. ASSUME wait = <<>> PROVE w = <<>>
        <5>1. n = 0
          BY <2>5, <4>1 DEF Shows
        <5> QED
          BY <2>5, <5>1, ShownLength
      <4> QED
        BY <4>1
    <3> QED
      BY <3>1, <3>2, <3>3
  <2> QED
    BY <2>1, <2>6, <2>7, <2>8 DEF SnapshotOf, out, heads, mid, r, w
<1>15. K = 0 \/ K \in 1..(R + 1) \/ K >= R + 2
  OBVIOUS
<1> QED
  BY <1>12, <1>13, <1>14, <1>15

\* What runner -c prints is one consistent picture, for every number of
\* runners, every limit, policy and FIFO capacity, whoever dies when: no
\* command is listed twice, what is listed as executing has been sent its
\* ACK, and unless a controller died the picture is complete and within the
\* limit.  It needs that open() does not fail for want of resources:
\* ipc_send_atomic then gives up an ACK of a job that stays in the running
\* queue.
THEOREM StatusIsConsistent == ~OpenMayFail => (Spec => []StatusSnapshot)
<1> SUFFICES ASSUME ~OpenMayFail PROVE Spec => []StatusSnapshot
  OBVIOUS
<1>1. Init => AckInv /\ ReportInv
  BY InitialReports
<1>2. SystemInv /\ SystemInv' /\ AckInv /\ ReportInv /\ [Next]_vars => AckInv' /\ ReportInv'
  BY StepKeepsAcks, StepKeepsReports
<1>3. SystemInv /\ ReportInv => StatusSnapshot
  <2> SUFFICES ASSUME SystemInv, ReportInv, NEW p \in StatusClients PROVE SnapshotOf(p)
    BY DEF StatusSnapshot, SnapshotOf
  <2>1. ReportOf(p) /\ parallel_limit \in Nat
    BY DEF ReportInv, SystemInv, TypeOK, CtlTypeOK
  <2> QED
    BY <2>1, ReportIsConsistent
<1>4. Spec => []SystemInv
  BY SystemInvariance
<1> QED
  BY <1>1, <1>2, <1>3, <1>4, PTL DEF Spec
==============================================================================
