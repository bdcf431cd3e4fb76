---------------------------- MODULE Orchestrator ----------------------------
(***************************************************************************)
(* The whole system: the controller, the runners and the FIFOs between     *)
(* them (runner_cli.c and ipc.c, with the steps of Controller.tla), and    *)
(* further controllers that are started when one has ended or died.        *)
(*                                                                         *)
(* Every runner executes one of runner_run_execute, runner_run_status and  *)
(* runner_run_shutdown.  A step of a runner reaches to its next system     *)
(* call on a FIFO that can block or that another process can observe.      *)
(*                                                                         *)
(* A FIFO behaves as the code relies on it (fifo(7), pipe(7)).  open()     *)
(* counts the process as a reader or a writer at once and then waits for   *)
(* the other side.  read() returns 0 when the FIFO is empty and has no     *)
(* writer, and waits when it is empty and has one.  write() of one         *)
(* RpcMessage is atomic, waits while the FIFO is full and kills the        *)
(* process when there is no reader.  What is buffered disappears with the  *)
(* last open descriptor of either side.                                    *)
(***************************************************************************)
EXTENDS Controller

CONSTANTS
    Executors,       \* runners started with -e
    StatusClients,   \* runners started with -c
    ShutdownClients, \* runners started with -s
    UserOf,          \* the user of each executor
    PipeCapacity,    \* messages a FIFO holds before write() blocks
    Mortal,          \* runners that a signal may kill
    CtlMortal,       \* whether a signal may kill the controller
    MaxStarts,       \* how often a controller is started
    Overlap          \* whether one may be started when runner -s reports the
                     \* exit of the one before, which then still runs

ASSUME RolesAssumption ==
    /\ Pids = Executors \cup StatusClients \cup ShutdownClients
    /\ Executors \cap StatusClients = {}
    /\ Executors \cap ShutdownClients = {}
    /\ StatusClients \cap ShutdownClients = {}
    /\ UserOf \in [Executors -> Users]
ASSUME PipeAssumption == PipeCapacity \in Nat \ {0}
ASSUME MortalAssumption == Mortal \subseteq Pids /\ CtlMortal \in BOOLEAN
ASSUME StartsAssumption == MaxStarts \in Nat \ {0} /\ Overlap \in BOOLEAN

VARIABLES
    srv_linked,  \* whether /tmp/server_fifo exists
    srv_buf,     \* the messages in it
    orphan,      \* runners whose end is of a FIFO without name and reader
    inbox,       \* the messages in each runner's private FIFO
    rpc,         \* where each runner stands
    outgoing,    \* the message each runner sends next, or sent last
    printed,     \* the status lines each runner has printed
    lost,        \* history: messages dropped by the FIFO or never written
    starts,      \* how often a controller was started
    old_unlink,  \* the controller before this one has yet to unlink the FIFO
    adrift       \* history: executors an earlier controller had authorized

fifoVars   == <<srv_linked, srv_buf, orphan, inbox, lost>>
runnerVars == <<rpc, outgoing, printed>>
startVars  == <<starts, old_unlink, adrift>>
vars       == <<ctlVars, fifoVars, runnerVars, startVars>>

------------------------------------------------------------------------------
(* FIFO ends *)

\* The controller has the public FIFO open for reading.
ServerHasReader ==
    pc \in {"opening", "read", "done", "start_waiting", "finish",
            "send_open", "send_write", "send_close", "close"}

\* The runners that have the public FIFO open for writing, the ones still
\* waiting inside open() included.
ServerWriters == {p \in Pids : rpc[p] \in {"wait", "write", "close"}} \ orphan

\* Somebody can read what runner p writes.
HasServerReader(p) == ServerHasReader /\ p \notin orphan

\* The message is in the FIFO of runner p that lets it run its command.
HasAck(p) == \E n \in DOMAIN inbox[p] : inbox[p][n].type = "ACK"

\* Runner p has its own FIFO open for reading: from its open() to its end.
HasPrivateReader(p) ==
    \/ rpc[p] \in {"reply_opening", "reply_read", "exec"}
    \/ outgoing[p].type = "DONE" /\ rpc[p] \in {"open", "wait", "write", "close"}

\* Mutant: the FIFO is created only after the request was sent.
CreatedAfterRequest(p) ==
    rpc[p] \notin {"start", "open", "wait", "write", "close", "exit0", "exit1"}

\* Runner p has created its own FIFO and not removed it; a killed runner
\* never does.
PrivateFifoExists(p) == rpc[p] \notin {"start", "exit0", "exit1"}

\* The controller has the FIFO of runner p open for writing.
HasPrivateWriter(p) == pc \in {"send_write", "send_close"} /\ reply.to = p

\* The public FIFO loses one end; what it holds is gone when that was the last.
DropServerBuffer(last) ==
    /\ srv_buf' = IF last THEN <<>> ELSE srv_buf
    /\ lost' = IF last THEN lost \cup ToSet(srv_buf) ELSE lost

\* The controller gives up its end.  A FIFO that has lost its name as well can
\* never get a reader again.
DropServerReader ==
    /\ DropServerBuffer(ServerWriters = {} \/ ~srv_linked)
    /\ orphan' = IF srv_linked THEN orphan ELSE orphan \cup ServerWriters

\* ipc_destroy_fifo removes the name; the FIFO itself stays with the processes
\* that have it open.
ipc_destroy_fifo ==
    /\ srv_linked' = FALSE
    /\ DropServerBuffer(~ServerHasReader)
    /\ orphan' = IF ServerHasReader THEN orphan ELSE orphan \cup ServerWriters

------------------------------------------------------------------------------
(* Initial state *)

Request(p) ==
    IF p \in Executors
    THEN [type |-> "SUBMIT", sender_pid |-> p, user_id |-> UserOf[p], command_id |-> p]
    ELSE [type |-> IF p \in StatusClients THEN "STATUS_REQ" ELSE "SHUTDOWN_REQ",
          sender_pid |-> p, user_id |-> 0, command_id |-> 0]

\* The public FIFO may be left over from a controller that was killed.
Init ==
    /\ CtlInit
    /\ srv_linked \in BOOLEAN
    /\ srv_buf = <<>>
    /\ orphan = {}
    /\ inbox = [p \in Pids |-> <<>>]
    /\ rpc = [p \in Pids |-> "start"]
    /\ outgoing = [p \in Pids |-> Request(p)]
    /\ printed = [p \in Pids |-> <<>>]
    /\ lost = {}
    /\ starts = 1 /\ old_unlink = FALSE /\ adrift = {}

------------------------------------------------------------------------------
(* Runners *)

GoTo(p, from, to) == rpc[p] = from /\ rpc' = [rpc EXCEPT ![p] = to]

\* A step of runner p that changes nothing but its place in the program.
Move(p, from, to) ==
    GoTo(p, from, to) /\ UNCHANGED <<ctlVars, fifoVars, outgoing, printed>>

\* create_runner_fifo, and the request is built.
Start(p) ==
    /\ \/ Move(p, "start", "open")
       \/ OpenMayFail /\ Move(p, "start", "exit1")
    /\ UNCHANGED startVars

(* ipc_send_atomic on the public FIFO, for the request and for DONE *)

\* open() fails: the runner removes its FIFO and returns 1.
SendFails(p) == (~srv_linked \/ OpenMayFail) /\ Move(p, "open", "exit1")

\* open() finds the controller's end; it wakes the controller if that one is
\* itself waiting for a writer.
SendOpen(p) ==
    /\ srv_linked
    /\ ServerHasReader
    /\ GoTo(p, "open", "write")
    /\ IF pc = "opening" THEN OpenServerReturns ELSE UNCHANGED ctlVars
    /\ UNCHANGED <<fifoVars, outgoing, printed>>

\* open() waits: the controller is between close() and open(), or has gone.
SendOpenBlocks(p) ==
    srv_linked /\ ~ServerHasReader /\ Move(p, "open", "wait")

SendWrite(p) ==
    /\ HasServerReader(p)
    /\ Len(srv_buf) < PipeCapacity
    /\ GoTo(p, "write", "close")
    /\ srv_buf' = Append(srv_buf, outgoing[p])
    /\ UNCHANGED <<ctlVars, srv_linked, orphan, inbox, outgoing, printed, lost>>

\* The controller closed its end since this runner opened its own: SIGPIPE.
SendWriteFatal(p) ==
    /\ ~HasServerReader(p)
    /\ GoTo(p, "write", "killed")
    /\ orphan' = orphan \ {p}
    /\ srv_buf' = IF ServerWriters = {p} THEN <<>> ELSE srv_buf
    /\ lost' = lost \cup {outgoing[p]}
                    \cup (IF ServerWriters = {p} THEN ToSet(srv_buf) ELSE {})
    /\ UNCHANGED <<ctlVars, srv_linked, inbox, outgoing, printed>>

\* After the request the runner waits for its answer; after DONE it is done.
SendClose(p) ==
    /\ GoTo(p, "close", IF outgoing[p].type = "DONE" THEN "exit0" ELSE "reply_open")
    /\ DropServerBuffer(~ServerHasReader /\ ServerWriters = {p})
    /\ orphan' = orphan \ {p}
    /\ UNCHANGED <<ctlVars, srv_linked, inbox, outgoing, printed>>

ipc_send_atomic(p) ==
    \/ SendFails(p) \/ SendOpen(p) \/ SendOpenBlocks(p)
    \/ SendWrite(p) \/ SendWriteFatal(p) \/ SendClose(p)

(* The answer *)

\* open() of the private FIFO: the runner is its reader and waits for a writer.
OpenPrivate(p) ==
    \/ Move(p, "reply_open", "reply_opening")
    \/ OpenMayFail /\ Move(p, "reply_open", "exit1")

\* read() returns one message.
Receive(p, m) ==
    /\ rpc[p] = "reply_read"
    /\ inbox[p] # <<>>
    /\ m = Head(inbox[p])
    /\ inbox' = [inbox EXCEPT ![p] = Tail(@)]
    /\ UNCHANGED <<ctlVars, srv_linked, srv_buf, orphan, lost>>

\* read() returns 0: the controller went away before it answered in full.
ReceiveEof(p) ==
    /\ inbox[p] = <<>>
    /\ ~HasPrivateWriter(p)
    /\ Move(p, "reply_read", IF p \in Executors THEN "exit1" ELSE "exit0")

\* The one read of runner_run_execute: an ACK authorizes the command, anything
\* else ends the runner with 1.
ReceiveAck(p) ==
    \E m \in ToSet(inbox[p]) :
        /\ p \in Executors
        /\ Receive(p, m)
        /\ rpc' = [rpc EXCEPT ![p] = IF m.type = "ACK" THEN "exec" ELSE "exit1"]
        /\ outgoing' = IF m.type # "ACK" THEN outgoing
                       ELSE [outgoing EXCEPT ![p] =
                                [type |-> "DONE", sender_pid |-> p,
                                 user_id |-> m.user_id, command_id |-> m.command_id]]
        /\ UNCHANGED printed

\* parser_parse, execute_pipeline and parser_destroy, in detail in Command.tla;
\* the runner sends DONE whatever they did.
Execute(p) == Move(p, "exec", "open")

\* The loop of runner_run_status prints each STATUS_RESP up to STATUS_END.
ReceiveStatus(p) ==
    \E m \in ToSet(inbox[p]) :
        /\ p \in StatusClients
        /\ Receive(p, m)
        /\ printed' = [printed EXCEPT ![p] =
                          IF m.type = "STATUS_RESP" THEN Append(@, m) ELSE @]
        /\ rpc' = [rpc EXCEPT ![p] = IF m.type = "STATUS_END" THEN "exit0" ELSE @]
        /\ UNCHANGED outgoing

\* The loop of runner_run_shutdown waits for SHUTDOWN_ACK.
ReceiveShutdownAck(p) ==
    \E m \in ToSet(inbox[p]) :
        /\ p \in ShutdownClients
        /\ Receive(p, m)
        /\ rpc' = [rpc EXCEPT ![p] = IF m.type = "SHUTDOWN_ACK" THEN "exit0" ELSE @]
        /\ UNCHANGED <<outgoing, printed>>

RunnerStep(p) ==
    /\ \/ ipc_send_atomic(p)
       \/ OpenPrivate(p) \/ ReceiveEof(p)
       \/ ReceiveAck(p) \/ ReceiveStatus(p) \/ ReceiveShutdownAck(p)
       \/ Execute(p)
    /\ UNCHANGED startVars

\* A signal ends runner p: its descriptors are closed, its FIFO stays.
Kill(p) ==
    /\ p \in Mortal
    /\ rpc[p] \notin {"start", "exit0", "exit1", "killed"}
    /\ rpc' = [rpc EXCEPT ![p] = "killed"]
    /\ DropServerBuffer(~ServerHasReader /\ ServerWriters = {p})
    /\ orphan' = orphan \ {p}
    /\ UNCHANGED <<ctlVars, srv_linked, inbox, outgoing, printed, startVars>>

------------------------------------------------------------------------------
(* The controller's steps on the FIFOs *)

CtlStart ==
    \/ /\ CreateFifo
       /\ srv_linked' = TRUE
       /\ UNCHANGED <<srv_buf, orphan, inbox, runnerVars, lost>>
    \/ /\ StartFails
       /\ UNCHANGED <<fifoVars, runnerVars>>

\* open() lets the runners go that were waiting for a reader.
CtlOpen ==
    \/ /\ srv_linked
       /\ IF ServerWriters = {} THEN OpenServerBlocks ELSE OpenServer
       /\ rpc' = [p \in Pids |-> IF rpc[p] = "wait" /\ p \in ServerWriters
                                  THEN "write" ELSE rpc[p]]
       /\ UNCHANGED <<fifoVars, outgoing, printed>>
    \/ /\ OpenServerFails
       /\ ~srv_linked \/ OpenMayFail
       /\ UNCHANGED <<fifoVars, runnerVars>>

CtlRead ==
    /\ pc = "read"
    /\ srv_buf # <<>>
    /\ controller_handle_message(Head(srv_buf))
    /\ srv_buf' = Tail(srv_buf)
    /\ UNCHANGED <<srv_linked, orphan, inbox, runnerVars, lost>>

CtlReadEof ==
    /\ srv_buf = <<>> /\ ServerWriters = {}
    /\ ReadEof
    /\ UNCHANGED <<fifoVars, runnerVars>>

CtlClose ==
    /\ CloseServer
    /\ DropServerReader
    /\ UNCHANGED <<srv_linked, inbox, runnerVars>>

CtlExit ==
    /\ Exit
    /\ ipc_destroy_fifo
    /\ UNCHANGED <<inbox, runnerVars>>

CtlSchedule ==
    /\ \/ \E m \in taken : handle_done(m)
       \/ start_waiting_jobs \/ try_finish_shutdown
    /\ UNCHANGED <<fifoVars, runnerVars>>

\* The controller and the runner meet in their open() calls, whoever came
\* first; the controller waits for a runner that was killed before.
CtlOpenReply ==
    \/ /\ OpenReply
       /\ GoTo(reply.to, "reply_opening", "reply_read")
       /\ UNCHANGED <<fifoVars, outgoing, printed>>
    \/ /\ OpenReplyFails
       /\ ~PrivateFifoExists(reply.to) \/ OpenMayFail
       /\ UNCHANGED <<fifoVars, runnerVars>>

CtlWriteReply ==
    /\ WriteReply
    /\ HasPrivateReader(reply.to)
    /\ Len(inbox[reply.to]) < PipeCapacity
    /\ inbox' = [inbox EXCEPT ![reply.to] = Append(@, Head(reply.msgs))]
    /\ UNCHANGED <<srv_linked, srv_buf, orphan, runnerVars, lost>>

CtlCloseReply ==
    /\ CloseReply
    /\ UNCHANGED <<fifoVars, runnerVars>>

\* SIGPIPE in write(), or any other signal: the descriptors are closed and
\* the public FIFO stays.
CtlKilled ==
    /\ Killed
    /\ CtlMortal \/ (pc = "send_write" /\ ~HasPrivateReader(reply.to))
    /\ DropServerReader
    /\ UNCHANGED <<srv_linked, inbox, runnerVars, startVars>>

CtlStep ==
    /\ \/ CtlStart \/ CtlOpen \/ CtlRead \/ CtlReadEof \/ CtlClose \/ CtlExit
       \/ CtlSchedule \/ CtlOpenReply \/ CtlWriteReply \/ CtlCloseReply
    /\ UNCHANGED startVars

------------------------------------------------------------------------------
(* Another controller *)

\* Somebody starts the controller again: when the process before it has ended,
\* or already when runner -s has said so.
CtlRestart ==
    /\ starts < MaxStarts
    /\ \/ /\ pc \in {"exited", "failed", "killed"}
          /\ UNCHANGED old_unlink
       \/ /\ Overlap
          /\ pc = "unlink" /\ rpc[shutdown_requester_pid] = "exit0"
          /\ old_unlink' = TRUE
    /\ Restart
    /\ starts' = starts + 1
    /\ adrift' = adrift \cup {p \in Executors : HasAck(p) \/ outgoing[p].type = "DONE"}
    /\ UNCHANGED <<fifoVars, runnerVars>>

\* The controller before this one reaches the end of main().
OldExit ==
    /\ old_unlink
    /\ old_unlink' = FALSE
    /\ ipc_destroy_fifo
    /\ UNCHANGED <<ctlVars, inbox, runnerVars, starts, adrift>>

Next ==
    \/ CtlStep
    \/ CtlKilled \/ CtlRestart \/ OldExit
    \/ \E p \in Pids : Start(p) \/ RunnerStep(p) \/ Kill(p)

Spec == Init /\ [][Next]_vars

(***************************************************************************)
(* Fairness.  A process that can go on does: the kernel schedules the      *)
(* controller and every runner that was started.  Nothing says that a      *)
(* runner or another controller is ever started, or a signal ever comes.   *)
(* Fairness of Execute assumes that the user's command terminates;         *)
(* Command.tla shows that the runner then gets to DONE.                    *)
(***************************************************************************)
Fairness ==
    /\ WF_vars(CtlStep) /\ WF_vars(OldExit)
    /\ \A p \in Pids : WF_vars(RunnerStep(p))

FairSpec == Spec /\ Fairness
==============================================================================
