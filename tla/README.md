# A TLA+ model of Runner-Orchestrator

The repository holds two programs. A *controller* decides which commands may
run; *runners*, one process per command, ask it for permission, run the command
themselves and report the end. They talk through named pipes. This directory
models both programs, the pipes between them and what a runner does with its
command and model-checks the model with TLC. With TLAPS it proves, for every
size, every safety property that the passing runs check: of the controller, the
queues, the fair policy, the parser, the pipeline executor and the composed
system, and that the composed system implements its abstract specification.

Paths below are relative to the repository (`src/controller/...` is
`src/src/controller/...` in `PROJECT.json`).

## 1. The system

| Component | State it keeps | Operations | Right when |
|---|---|---|---|
| Main loop (`controller.c`) | `keep_running`, the read end of `/tmp/server_fifo` | create the FIFO; open, read until end of file, close, again; exit | every message sent is read; it stops only when drained |
| Handlers (`controller_handlers.c`) | `running_count`, two queues, `fair_users`, `last_scheduled_user`, shutdown flags | SUBMIT, DONE, STATUS_REQ, SHUTDOWN_REQ, refill, finish the shutdown | the counter counts; never above the limit; no slot idle beside a waiting command; nobody forgotten |
| Policies and queues (`scheduler.c`) | the linked lists: `head`, `tail`, `size`, nodes | create, destroy, enqueue; fcfs, random, fair dequeue; remove by id; two copies for `runner -c` | the list behaves as a sequence; arrival order, rotation of users, the shown order is the real one |
| IPC (`ipc.c`) | the FIFOs of the kernel | create, unlink, send one message, read one message | messages whole, delivered once |
| Runner (`runner_cli.c`, `runner.c`) | its FIFO, the answer | `-e` submit, wait, execute, report; `-c` print the report; `-s` ask for shutdown | it always ends |
| Log (`log_finished_job`) | `log.txt` | append a line | one line per finished command |
| Parser (`parser.c`) | stages, argv, redirections, allocated tokens | split at `|`, tokens, redirections, destroy | the stages are what the text says; every token freed once |
| Executor (`executor.c`) | children, pipe descriptors | one child per stage, connect, wait for all | nobody holds a stray pipe end; all children reaped; the result covers all |

Interaction: a runner creates `/tmp/runner_<pid>`, writes one message to
`/tmp/server_fifo`, opens its own FIFO and waits. The controller is
single-threaded and handles each message to the end, but it blocks inside
`open()` and `write()` on the FIFO of the runner it answers.

What is hard here, and hard to test: the controller closes and reopens the
public FIFO whenever no runner has it open; everybody blocks in `open()` until
the other side comes; the slot counter is updated by hand in three places;
waiting commands are looked at only when a DONE arrives; the shutdown takes
several system calls from decision to exit; processes can be killed between any
two system calls and a new controller started on what they left; allocations
fail; one pipe descriptor too many makes a pipeline hang. `PROJECT.json` lists these hazards with
their lines and the properties about them.

## 2. Modules

| Module | Models | Role |
|---|---|---|
| `Scheduler` | `scheduler.c` | queues as sequences, the three policies as operators |
| `JobQueue` | `scheduler.c` | the same operations on the linked list |
| `JobSequence` | - | the operators of `Scheduler` as a state machine, implemented by `JobQueue` |
| `Controller` | `controller.c`, `controller_handlers.c` | state machine of the controller in an arbitrary environment |
| `Orchestrator` | `runner_cli.c`, `ipc.c`, FIFOs | conjoins the controller's steps with FIFOs, runners and restarts |
| `JobService` | - | abstract specification: what users may rely on |
| `OrchestratorProperties` | - | properties and refinement mapping of the composition |
| `FairRotation` | - | history variable and property of the fair policy |
| `Parser` | `parser.c` | from a command text to stages |
| `CommandSyntax` | - | the declarative meaning of a command text |
| `Executor` | `executor.c`, pipes, child programs | the pipeline of one command |
| `Command` | `runner_cli.c` between ACK and DONE | composes `Parser` and `Executor` |
| `SchedulerProofs`, `ControllerProofs`, `ExecutorProofs`, `QueueProofs`, `FairnessProofs` | - | lemmas and theorems on one component |
| `CommandProofs` | - | theorems on the parser and on `Command` |
| `OrchestratorProofs`, `ServiceProofs` | - | theorems on the composition |
| `MCController`, `MCJobQueue`, `MCCommand`, `MCOrchestrator` | - | bounds and values for TLC |

**Scheduler.** A `job_queue_t` is the sequence of its nodes. `DequeueNodes`
gives the nodes a dequeue may unlink: the head (fcfs, and any unknown policy
name), any node (random: `rand()` is a free choice), or the fair node (fair; the
head too when its array cannot be allocated). `choose_next_fair_user` keeps the
three fall-backs of the C function. User identifiers are integers, so that `-1`
remains both a user and "no user", as in the code. `queue_copy_fair_to_array` is
the separate simulation behind `runner -c`.

**JobQueue.** Pointers are addresses of `Addr`, `heap` maps the allocated ones to
nodes, `malloc()` picks any free address and any enqueue may be refused. A call
is one step (single thread, no system call inside). `Unlink` is what the four
ways to take out a node have in common; they differ in how they recognise the
last node (`EndsAt`: `next == NULL`; `IsTail`: `tail == curr`), and that
difference is kept. `out` records the call, its arguments and its result, so
that under `queue <- Contents` each call has to be the same call of
`JobSequence`, which is written with the operators of `Scheduler`. The fair
choice is modelled twice on purpose: here on the compact array of active users,
in `Scheduler` on the queue.

**Controller.** The variables are the fields of `controller_state_t`, `log`
(log.txt), `clock` (`gettimeofday`, one tick per accepted submission), `pc`,
`reply` and `taken`. A handler runs in one step up to its next blocking call, so
a reply cuts it into `send_open`, `send_write` (once per message) and
`send_close`; `reply.next` says where the handler continues. A DONE takes two
steps, because its handler writes to a file that outlives the process:
`take_done` is the `read()` that takes the message out of the FIFO, `handle_done`
everything up to the `write()` to log.txt and the counter, and in between the
message is in `taken` only, where a kill loses it. The changes in memory around
that `write()` need no steps of their own: who dies there loses them. The other
handlers write nothing that outlives the process before their next system call.
The refill loop of `handle_done` is `start_waiting`, one turn per step because each turn sends an ACK; the end of
`controller_handle_message` is `finish`. `Messages` has every message runners
can send, at any time and any number of times; a reply may fail, and the process
may be killed, at any point. `AllocMayFail` and `OpenMayFail` switch on the
failure of allocations and of `open()`/`mkfifo()`. `JobState` is left out
(nothing reads it), and so are the elapsed time, the command text and the
wording of the status lines.

**Orchestrator.** Each runner is in `-e`, `-c` or `-s` mode and stands at one of
its system calls (`rpc`). FIFO semantics are those of fifo(7) and pipe(7):

* `open()` counts as a reader or writer at once and then waits for the other
  side. For a private FIFO the two `open()` calls meet in one step
  (`CtlOpenReply`); for the public one a runner that waits in `open()` (`wait`)
  is released when the controller opens, and the reverse.
* `read()` returns 0 only when the FIFO is empty and has no writer.
* `write()` of a message is atomic, blocks when `PipeCapacity` messages are
  buffered, and kills the writer (SIGPIPE) when there is no reader.
* Buffered data vanishes with the last descriptor. The history variable `lost`
  remembers such messages and the ones whose writer was killed.

The public FIFO may exist before the controller starts, left by a killed one.
Messages lost by the FIFO are part of every run; the kills of `Mortal` runners
and of the controller are switched on per run.

Restart: when the controller has exited, failed or been killed, `CtlRestart`
starts another one, up to `MaxStarts`, with fresh memory on whatever FIFO,
messages and runners are there. With `Overlap` it may also be started when
`runner -s` has reported the exit and the old process has yet to `unlink()` the
FIFO (`old_unlink`, `OldExit`). A FIFO that lost its name and its reader can
never get a reader again; the runners that still have it open are `orphan`.
`adrift` remembers the executors an earlier controller had authorized.

**JobService.** A command is idle, authorized, adrift or ended; at most `limit`
are authorized; the service stops only when none is, and authorizes nothing once
it has stopped or died until it is started again. A restarted service does not
know the commands authorized before; they are adrift and do not count. In the mapping a command is authorized from the moment its
ACK is in the runner's FIFO until the runner starts to send DONE.

**Parser.** A text is a sequence over the six kinds of characters the code tells
apart; a token is named by its range in the text, so that ownership can be
followed. One step is one turn of a loop. `strtok_r` skips empty pieces. The
tokens of a failing stage, which `parser_destroy` does not reach, stay allocated.
`CommandSyntax` says what a text means without scanning it: maximal ranges, their
rank, the last range of a set. It uses no recursion, so that it can be reasoned
about.

**Executor.** `ends[p]` is the set of pipe ends each process holds. The runner's
steps are `pipe()`, `fork()`, the closes after it, the waits and the return, with
the failure paths; a child inherits the runner's ends, sets up its streams in one
step (nobody can observe the steps between) and runs an external program that
copies, writes once, ends at once or writes for ever. Blocking, end of file and
SIGPIPE follow pipe(7).

**Command.** `parser_parse`, `execute_pipeline`, `parser_destroy` in the order of
`runner_run_execute`. It opens up the step `Execute` of `Orchestrator`:
`EveryCommandEnds` is what the fairness of that step assumes.

## 3. Runs

| Run | Question | States |
|---|---|---|
| `controller` | all policies, limits 1, 2 and the default 4, all message orders; under fair nobody is served twice while another user waits | 901 000 |
| `job_queue` | the linked list implements the sequence | 6 500 |
| `command` | parse and execute, whatever fails | 143 000 |
| `crashes` | kills at any system call, failing allocations, a second controller | 1 890 000 |
| `failing_calls` | any allocation or open fails, around a shutdown and a handover | 1 575 000 |
| `progress` | two `-e`, one `-c`, one `-s`, FIFOs of one message, fairness | 234 000 |
| `lost_message`, `late_runner`, `two_requesters`, `user_minus_one`, `handover`, `failed_parse` | statements of the repository that the code does not keep | violated |

The properties:

* `SlotAccounting`, `WorkConserving`, `ArrivalOrder`, `DrainedBeforeStop`,
  `AcceptedOnce`, `PreviewIsDispatched`: the controller alone, whatever it
  receives. `PreviewIsDispatched` is an action property: each promotion takes
  the first job of the order `runner -c` would have shown and leaves the rest of
  that order as it was. It compares two separate implementations in
  `scheduler.c`.
* `AtMostOneTurnEach`: while a user waits, every other user is served at most
  once, whatever is submitted and whoever joins meanwhile.
* `ReplyFifoExists`, `AuthorizedHoldsSlot`, `FinishedIsLogged`,
  `StatusSnapshot`: facts across processes.
  `AuthorizedHoldsSlot` says that a slot is not given away twice; it does not say
  that the slot of a killed runner comes back, which the code does not do.
  `FinishedIsLogged` excuses the DONEs that the FIFO lost (`lost_message` is about
  those) and the single one in `taken`: a controller that is killed between
  reading a DONE and writing its line leaves that line out, and no other.
  `StatusSnapshot` is also stated for the part of a report that was printed
  before the controller died.
* `ImplementsJobService`: refinement of the abstract specification, across
  crashes and restarts. A crash is a step of the specification, so the commands a
  crash forgets are not held against the code.
* `EveryRunnerEnds`, `ShutdownCompletes`: progress, *when no message is lost*.
  The condition is needed: `lost_message` shows that messages can be lost.
* `ListWellFormed`, `ImplementsSequence`: memory and links of the list, and the
  effect and result of every call.
* `ParsesAsWritten`, `TokensOwned`: the stages against `CommandSyntax`, and the
  ownership of tokens while a command is parsed, executed and destroyed.
* `PipeEndsConfined`, `NothingLeftBehind`, `ResultCoversAll`: who may hold which
  pipe end, what is left when `execute_pipeline` returns, what 0 means.
* `EveryCommandEnds`: every text leads to DONE unless a program of the user
  writes for ever into something outside the pipeline.

Bounds. `job_queue` has three nodes (head, middle, tail), a command identifier
that occurs twice and orders of known users that miss a user or hold an idle
one. `command` takes every text of up to four characters and longer ones that
exceed `MaxStages = 3` and `MaxArgs = 3` (16 and 32 in the code) and repeat
redirections; three stages are the least with a stage that has a pipe on both
sides. `InputBuffer` exceeds every text, as `PARSER_INPUT_BUFFER` exceeds the
payload. `PipeSize = 1` makes writers block. `crashes` and `failing_calls` start
the controller twice. `MaxSubmissions = 3` with limit 1 gives one running and two waiting
commands, the least with which order, rotation and refill can go wrong; limits 2
and 4 add concurrent slots and the default. A process identifier may submit
again, as after reuse. The rotation needs four commands of three users for a
user to be passed twice: under fair the `controller` run goes on to
`MaxFair = 4` submissions and a third user (`ThreeUsers`), without status requests, which
read the queues only, and shutdown requests, after which nobody joins.
`FirstCapacity = 1` instead of 8 makes `fair_users` grow within three
submissions. `PipeCapacity` is 1 or 2 so that FIFOs fill up. The symmetric sets
are model values that no definition tells apart; no liveness property is checked
under symmetry. Deadlock is not checked where the system may come to rest: the
controller waits for runners, everybody has ended, or the command is done.

Fairness (`FairSpec`): weak fairness of the controller's steps and of each
runner's steps once it was started. The kernel schedules every runnable process,
and a process blocked in a system call is not enabled in the model. Nothing is
assumed about the start of runners or about signals. Fairness of `Execute` says
that the user's command terminates, which only the user can guarantee.
`CmdFairSpec` gives the runner and each child weak fairness; a program that has
nothing to wait for goes on or ends.

## 4. Where code and documentation disagree

1. `lost_message`: after `read()` returns 0 the controller closes and reopens
   the public FIFO (`controller.c:49-56`). A message written in between is
   discarded, or its writer dies of SIGPIPE. The README counts "without lost or
   duplicated commands" among what the tests validate.
2. `late_runner`: a SUBMIT behind the last DONE, or sent while the final
   SHUTDOWN_ACK is under way, is never read; its runner waits forever, although
   `send_shutdown_ack_to_runner` "prevents new runners from blocking forever".
3. `two_requesters`: a second `runner -s` overwrites the first one's pid; the
   first waits forever, although "its sender receives the final ACK".
4. `user_minus_one`: a command of user -1 cuts the Scheduled section short.
5. `handover`: the final SHUTDOWN_ACK is sent before the controller unlinks the
   public FIFO. A controller started when `runner -s` prints "controller exited."
   finds the old FIFO, and the old process then removes its name: the new
   controller serves a FIFO no runner can find.
6. `failed_parse`: `parser_destroy` frees "every token allocated while parsing it"
   (`parser.c:269`), but walks the counted stages only, and the stage in which
   `parse_stage` failed is not counted (`parser.c:182-191`): the word 2 of the text
   `2<` is never freed.

Also visible in the model, without a run of its own: `runner_run_execute` returns
0 when the command could not be parsed or its pipeline not set up, although it
announces "non-zero on communication or execution setup failure"
(`runner_cli.c:181`).

## 5. Proofs

Every theorem holds for all constants that satisfy the named assumptions of the
modules, which say what kind of value a constant is: users and limit arguments
are integers, capacities and the number of starts are positive, addresses are
positive numbers and memory is finite, the three kinds of runners are disjoint,
the failure switches are Boolean. Where a property needs a condition on
failures, the theorem or the property states it.

### The controller (`ControllerProofs`)

About `ControllerSpec`, whose environment is arbitrary: any message at any time,
any reply failing, a kill anywhere.

| Theorem | Statement |
|---|---|
| `TypeCorrect` | `[]CtlTypeOK` |
| `SlotsCounted` | `[]SlotAccounting` |
| `NoIdleSlot` | `[]WorkConserving` |
| `StopsDrained` | `[]DrainedBeforeStop` |
| `PoliciesKeepOrder` | `[]ArrivalOrder` |
| `AcceptedJobsAreKept` | `[]AcceptedOnce` |

* `SlotInv` strengthens `WorkConserving`, which is not inductive: the refill
  turn that takes the last free slot leaves the loop to send its ACK with the
  loop's test still ahead. A DONE frees one slot at a time, so while commands
  wait at most one slot is free, inside the loop too; after that turn all slots
  are taken.
* `StopInv` follows the decision to stop from `reply.next` to `keep_running`
  over the steps of the final reply. It uses `SlotsCounted`: the code tests
  `running_count`, the property is about the queue.
* `OrderInv` adds that the waiting queue is in arrival order and that the clock
  is ahead of all jobs. It uses `NoIdleSlot`: `handle_submit` may start a command
  at once only because nothing waits.
* `AcceptInv` turns the counting of `AcceptedOnce` into sets: the start times in
  the two queues and the log are disjoint, none occurs twice in one of them, and
  together they are `0..clock - 1`. It needs `StopInv`: `controller_destroy`
  frees the queues, and only because they are empty then is nothing lost.

`SchedulerProofs` has the lemmas on the operators: `RemoveAt` keeps the other
nodes in order, the user `choose_next_fair_user` returns is active, the fair node
is the first of its user, each policy unlinks a node of the queue.
`ControllerProofs` ends with the lemmas on the simulation behind `runner -c`,
which the fair policy and the status report share.

### The linked list (`QueueProofs`)

| Theorem | Statement |
|---|---|
| `ListStaysWellFormed` | `QueueSpec => []ListWellFormed` |
| `ListImplementsSequence` | `QueueSpec => ImplementsSequence` |

The controller's model uses sequences; these theorems say that the code may be
read that way. The invariant `QueueInv` has a witness: there is a sequence `c`
of addresses without repetition such that `head` is its first, each node points
to the next, the last one to NULL, and the allocated nodes are exactly those of
`c`. A call changes `c` in one place (`LinkNode`, `UnlinkNode`), while the walk
from `head` changes everywhere; `WalkMeets` shows that the walk is `c` whenever
`c` exists. `UnlinkNode` covers the head, a middle node and the tail, and both
ways the code recognises the tail.

For the refinement each call must also hand out what the sequence would. That is
hard for fair only, where the code first builds a compact array of the users
that wait. `CompactFacts` says what the array holds (each waiting user once), and
`SameFairUser` that the search in `fair_users`, and each of its fall-backs,
gives the same user from the array as from the queue. The walk and the array are
defined by recursive functions and folds; their facts are proved by taking the
least counterexample (`LeastNumber`, from the well-foundedness of `<`), which
needs no induction theorem with an operator parameter.

### The fair policy (`FairnessProofs`)

| Theorem | Statement |
|---|---|
| `PreviewIsKept` | `~AllocMayFail /\ NoUser \notin Users => (ControllerSpec => PreviewIsDispatched)` |
| `FairToEveryUser` | `RotationSpec => []AtMostOneTurnEach` |

`PreviewIsKept` compares the simulation behind `runner -c` with the dequeue.
`IsSim` writes the simulation of n turns as a function of the n - 1 turns before;
the lemmas show, again by the least counterexample, that a simulation started
after one dequeue continues the simulation started before it. Both hypotheses
are needed: without memory the dequeue falls back to the head, and the run
`user_minus_one` shows what a user -1 does.

`FairToEveryUser` (the property itself excludes failing allocations) rests on
two invariants. `KnownInv`: `fair_users` lists a user once, lists everyone who
waits, and lists the user served last while anything is queued. `TurnInv`: when
`v` was served while `u` waited, the circular search that starts behind the user
served last meets `u` before it meets `v` again (`Nearer`), so `v` cannot be
served a second time. `NearestUser` shows that `choose_next_fair_user` returns
the nearest active user in this sense. Users who join are appended and do not
change which of two others is nearer.

### The executor (`ExecutorProofs`)

About `ExecSpec`, for any `StageLimit`, `PipeSize` and set of programs, with or
without failing calls:

| Theorem | Statement |
|---|---|
| `ExecTypeCorrect` | `[]ExecTypeOK` |
| `PipeEndsStayConfined` | `[]PipeEndsConfined` |
| `ReturnsClean` | `[]NothingLeftBehind` |
| `ResultRight` | `[]ResultCoversAll` |

`ExecSpec` takes any command of up to `StageLimit` stages, so it does not depend
on the parser. The inductive invariant `ExecInv` adds four facts. `WithinCommand`:
the runner holds ends of pipes between two stages only, so that after the last
fork nothing remains. `LivingHold`: a child that was not forked or has ended holds
nothing. `ForkedInOrder`: which children exist at each point of the loop; on the
failure path stage `i` has none, so -1 is right. `ReapedSoFar`: only ended
children are reaped and `any_child_failed` says whether one of them failed.
`AllReaped` turns the counting of the wait loop (`children_created` waits) into
equality of sets, with the library's facts on cardinality.

### The command (`CommandProofs`)

About `CmdSpec`, for texts of any length and any `MaxStages`, `MaxArgs`,
`InputBuffer`, `PipeSize` and programs. An allocation may fail at any token.

| Theorem | Statement |
|---|---|
| `ParsesAsWrittenTheorem` | `CmdSpec => []ParsesAsWritten` |
| `TokensOwnedTheorem` | `CmdSpec => []TokensOwned` |
| `CommandRunsPipeline` | `CmdSpec => ExecSpec` |

* `OwnInv`, for the tokens: each stage owns what it holds once, two stages own
  nothing together, what is allocated is what the stages own, and everything
  allocated starts before the place the parser has reached. The last part makes
  the next token a new one; without it nothing rules out that the token freed by
  a repeated redirection is still used elsewhere. After a failure `OwnInv` says
  that exactly the tokens of the failing stage are left, which bounds the leak of
  `failed_parse`: nothing of the earlier stages stays allocated.
* `ScanInv`, for the meaning: at every turn of the two loops what is stored is
  what `CommandSyntax` says of the text *up to that place*. `SplitScan` says so
  between two stages, `StageScan` within one: the arguments so far are the first
  ones in order, each redirection is the last target so far, and every operator
  so far has a target. `Boundary` adds that the cursor is never inside a word and
  never between the "2" and the ">" of an operator. The induction over the text
  is the induction over the steps of the parser, so that none over data is
  needed. Most of the proof is about one turn: the range the code cuts is a
  maximal one, it is the next in rank, and the code's view of "2" (the character
  behind it, and where the token starts) agrees with the declarative one (the
  word around it, and what stands before it).
* `CommandRunsPipeline` shows that the executor meets in the composition what its
  specification assumes: the parser hands over at most `StageLimit` stages, once,
  and touches no process or pipe. So the theorems of `ExecutorProofs` hold of
  every command text.

### The composed system (`OrchestratorProofs`, `ServiceProofs`)

About `Spec` of `Orchestrator`: any number of runners, any FIFO capacity, kills,
failing calls and restarts as the constants allow.

| Theorem | Statement |
|---|---|
| `SystemTypes` | `Spec => []TypeOK` |
| `RepliesFindTheirFifo` | `~OpenMayFail => (Spec => []ReplyFifoExists)` |
| `AuthorizedJobsAreRunning` | `Spec => []AuthorizedHoldsSlot` |
| `FinishedJobsAreLogged` | `~OpenMayFail => (Spec => []FinishedIsLogged)` |
| `SystemImplementsService` | `Spec => ImplementsJobService` |
| `StatusIsConsistent` | `~OpenMayFail => (Spec => []StatusSnapshot)` |

The controller's part of a step is a `CtlNext` step, a restart, or leaves
`ctlVars` alone, so `SlotInv` and `StopInv` are reused as they are. The inductive
invariant `SystemInv` adds `ProtocolInv`, the protocol between the processes:

* `OutgoingInv`, `InboxInv`: a runner sends its request and, only after its ACK,
  a DONE; an executor gets one message, and is in `read()` (or was killed there)
  while it is unread. So a DONE and an ACK of the same command never coexist.
* `FifoInv`, `UnreadInv`: a message is in the public FIFO once, and while a
  runner's request is unread the controller knows nothing of it. This is why a
  command is enqueued once.
* `JobInv`: a command is in one of waiting, running and logged, once. A DONE
  therefore frees one slot.
* `TakenInv`: the DONE in `taken` is in no FIFO, it is the last message its
  runner has written, and `taken` is empty unless the controller stands at `done`
  or was killed there.
* `WaitingInv`, `ReplyInv`, `RequesterInv`: the runner of a waiting command, the
  runner being answered and the one that asked for the shutdown still expect
  their answer, so their FIFO exists when the controller opens it.
* `ClaimInv`, `AdriftInv`, `LogInv`: the properties themselves, over the messages
  in the public FIFO and in `taken`, with the commands of earlier controllers set
  apart.

The theorems with `~OpenMayFail` do not hold without it: a runner that cannot
open its own FIFO after it sent its request removes the FIFO and gives up,
`log.txt` may not open, and `ipc_send_atomic` gives up an ACK whose job stays in
the running queue, so that a report shows as executing what never ran.

`SystemImplementsService` maps a command to authorized, adrift or ended by its
ACK, its DONE and `adrift` (`Phase`). The writing of an ACK is the service's
authorization; it respects the limit because the authorized commands are in the
running queue (`ClaimInv`), whose length is at most the limit (`SlotInv`). The
start of a DONE, or the end of a runner, is the service's end of a command. The
service's stop is the step to `unlink`, where `StopInv` says that nothing is
running; kill, failure and restart are its own steps. Every other step of the
system stutters.

`StatusIsConsistent` is about a report that leaves the controller line by line
while the system goes on. Two invariants beside `SystemInv` carry it. `AckInv`:
every command in the running queue has been sent its ACK, but for the one whose
ACK is on its way; a report is only begun when none is. `ReportInv`: there are a
running and a waiting queue of which the whole report was made; the runner has
printed its first lines, the next ones are in its FIFO and the rest is with the
controller (`Delivered`, `Segment`), and what these two queues say is still true
in the sense of the property (`Truthful`): an ACK that was sent stays sent, and
the limit is fixed until another controller is started. The two queues are
the witness that the property itself does not mention. `FairOrderGood` shows that
the simulated order lists the waiting commands, each once. TLC checked `ReportInv`
on the `crashes` configuration before it was proved.

### Only model-checked

* `EveryRunnerEnds`, `ShutdownCompletes`, `EveryCommandEnds`: liveness under
  fairness is out of the prover's reach.
* Where a theorem has the hypothesis `~OpenMayFail` or `~AllocMayFail` and the
  property itself does not, the run has it too; the cases beyond it are the
  counterexamples named above.

## 6. Plan

The components are modelled and every invariant and action property of the
passing runs is proved. When the code changes, the first things to look at are
the mutants (does the property still notice?) and the inductive invariants, which
say what each step relies on.

## 7. Not modelled

* `runner.c` and the parsing of the command line: it picks one of the three
  modes, which the sets of runners and `UserOf` stand for.
* The cut of a command text at 479 characters (`runner_cli.c:199`): texts are
  opaque between runner and controller.
* Two controllers that read the public FIFO at the same time. With `Overlap` the
  old process has closed it and only its `unlink()` is outstanding.
* Process identifiers reused by runners in the composition; the `controller` run
  resubmits the same identifiers.
* `wait()` that fails with children left, which takes an inherited disposition
  of SIGCHLD.
* Short reads and writes: `sizeof(RpcMessage)` is below `PIPE_BUF`, so both are
  whole. `EINTR` does not occur, as no signal handler is installed.
* Elapsed times, texts and formats.

## 8. Running

```
tlc -workers 2 -config controller.cfg MCController
tlc -workers 2 -config job_queue.cfg MCJobQueue
tlc -workers 2 -config command.cfg MCCommand
tlc -workers 2 -config crashes.cfg MCOrchestrator
for m in Scheduler Controller Executor Queue Fairness Command Orchestrator Service; do
  tlapm ${m}Proofs.tla
done
```

`PROJECT.json` maps each definition to its source lines and names, for each
property, a mutation of the model that the property detects; the operators
marked `Mutant` in the modules are those.
