----------------------- MODULE OrchestratorProperties -----------------------
(* What is checked of the composed system of Orchestrator.tla. *)
EXTENDS Orchestrator

RunnerPoints ==
    {"start", "open", "wait", "write", "close", "reply_open", "reply_opening",
     "reply_read", "exec", "exit0", "exit1", "killed"}

\* The types of the FIFOs and of the runners' local state.
TypeOK ==
    /\ CtlTypeOK
    /\ srv_linked \in BOOLEAN
    /\ srv_buf \in Seq(Messages) /\ Len(srv_buf) <= PipeCapacity
    /\ orphan \subseteq Pids /\ adrift \subseteq Executors
    /\ starts \in 1..MaxStarts /\ old_unlink \in BOOLEAN
    /\ DOMAIN inbox = Pids /\ DOMAIN printed = Pids
    /\ \A p \in Pids : Len(inbox[p]) <= PipeCapacity
    /\ rpc \in [Pids -> RunnerPoints]
    /\ outgoing \in [Pids -> Messages]
    /\ lost \subseteq Messages

\* The controller only answers runners that still have their FIFO: whichever
\* of ipc_send_atomic and handle_status_req replies, its open() finds the
\* path, because a runner creates it before it sends and removes it after the
\* answer.
ReplyFifoExists == pc = "send_open" => PrivateFifoExists(reply.to)

\* From the moment its ACK is in its FIFO until its DONE is carried out, an
\* executor is in the running queue exactly once, so handle_done finds the job
\* of every DONE and a slot is freed once per command, unless main() gave up or
\* the ACK came from an earlier controller.
AuthorizedHoldsSlot ==
    pc # "failed" => \A p \in Executors \ adrift :
        \/ HasAck(p)
        \/ outgoing[p].type = "DONE" /\ rpc[p] \in {"exec", "open", "wait", "write"}
        \/ \E m \in ToSet(srv_buf) \cup taken : m.type = "DONE" /\ m.sender_pid = p
        => Cardinality(NodesOfCommand(running_queue, p)) = 1

\* A command whose runner ended with 0 is in log.txt exactly once, unless its
\* DONE is still in the public FIFO, was lost there, or is the one the
\* controller has read and not yet carried out when it goes on or is killed
\* (read() in main, write() in log_finished_job).  The commands of an earlier
\* controller are set apart: the present one writes no line for them.
FinishedIsLogged ==
    \A p \in Executors \ adrift :
        rpc[p] = "exit0" =>
            \/ outgoing[p] \in ToSet(srv_buf) \cup lost \cup taken
            \/ Cardinality(NodesOfCommand(log, p)) = 1

\* The commands in the lines of one section of a status report.
Listed(lines) == [i \in DOMAIN lines |-> lines[i].command_id]

\* What runner -c has printed so far is one consistent picture, also when the
\* controller dies in the middle of it: no command is listed twice, and every
\* one under Executing has been sent its ACK.  When the runner ends and no
\* controller has died, the picture is complete: both sections are there, no
\* more commands execute than the limit allows, and something is scheduled
\* only when every slot is taken.
StatusSnapshot ==
    \A p \in StatusClients :
        LET out   == printed[p]
            heads == {n \in DOMAIN out : "header" \in DOMAIN out[n]}
            mid   == Max({1} \cup heads)
            run   == Listed(SubSeq(out, 2, IF mid = 1 THEN Len(out) ELSE mid - 1))
            wait  == IF mid = 1 THEN <<>> ELSE Listed(SubSeq(out, mid + 1, Len(out)))
        IN  /\ out # <<>> => 1 \in heads
            /\ IsInjective(run \o wait)
            /\ \A c \in ToSet(run) : HasAck(c) \/ outgoing[c].type = "DONE"
            /\ rpc[p] = "exit0" /\ starts = 1 /\ pc # "killed" =>
                  /\ Cardinality(heads) = 2
                  /\ Len(run) <= parallel_limit
                  /\ wait # <<>> => Len(run) = parallel_limit

(* The promise of the system *)

\* Executor p has ended or sends its DONE; it may run its command, or does.
Over(p) ==
    \/ rpc[p] \in {"exit0", "exit1", "killed"}
    \/ outgoing[p].type = "DONE" /\ rpc[p] # "exec"
Cleared(p) == HasAck(p) \/ rpc[p] = "exec"

Phase(p) ==
    IF Over(p) THEN "ended"
    ELSE IF ~Cleared(p) THEN "idle"
    ELSE IF p \in adrift THEN "adrift" ELSE "authorized"

Service ==
    INSTANCE JobService WITH
        Commands <- Executors,
        limit    <- parallel_limit,
        phase    <- [p \in Executors |-> Phase(p)],
        server   <- IF pc \in {"unlink", "exited"} THEN "stopped"
                    ELSE IF pc \in {"failed", "killed"} THEN "dead" ELSE "up"

\* The controller, the FIFOs and the runners together implement JobService:
\* no command runs without ACK or beyond the limit, "the controller only exits
\* after all running and waiting commands have completed" (README), and
\* nothing is authorized after that, until a controller is started again.
ImplementsJobService == Service!ServiceSpec

(* Progress *)

\* No message was dropped, and none is left in the FIFO of a dead controller.
NoMessageLost == lost = {} /\ (pc \in {"exited", "failed", "killed"} => srv_buf = <<>>)

\* When no message is lost, every runner -e or -c that waits for its answer
\* ends: the refill loop reaches its command, and no one waits in open() or on
\* a full FIFO forever.
EveryRunnerEnds ==
    []NoMessageLost =>
        \A p \in Executors \cup StatusClients :
            rpc[p] = "reply_opening" ~> rpc[p] \in {"exit0", "exit1"}

\* When no message is lost, a shutdown request that was read is carried out.
ShutdownCompletes == []NoMessageLost => (is_shutting_down ~> pc = "exited")

(* What the repository says and the code does not do *)

\* "Random scheduling without lost or duplicated commands", "FIFO message
\* integrity" (README): as long as nobody asks for a shutdown, every message a
\* runner sends is read.
NothingLost == NoMessageLost

\* "This prevents new runners from blocking forever waiting for a normal ACK
\* after shutdown has started" (send_shutdown_ack_to_runner): when the
\* controller is gone, no executor whose SUBMIT went out waits for its answer.
NewRunnersAnswered ==
    pc = "exited" => \A p \in Executors : rpc[p] # "reply_opening"

\* "its sender receives the final ACK" (handle_shutdown_req): when the
\* controller is gone, and no message was lost, no runner -s still waits.
RequestersAcknowledged ==
    pc = "exited" /\ NoMessageLost =>
        \A p \in ShutdownClients : rpc[p] # "reply_opening"

\* The public FIFO is "where all runners send requests" (README): as long as
\* the controller serves, the FIFO it reads has its name, so that runners that
\* are started find it.
ServedFifoHasName ==
    pc \in {"opening", "read", "done", "start_waiting", "finish",
            "send_open", "send_write", "send_close"} => srv_linked
==============================================================================
