------------------------------ MODULE Executor ------------------------------
(***************************************************************************)
(* execute_pipeline (executor.c): the runner forks one child per stage,    *)
(* connects the stages with pipes and waits for all children.              *)
(*                                                                         *)
(* Pipe k connects stage k to stage k + 1.  ends[p] is the set of pipe     *)
(* ends process p holds: <<k, "r">> and <<k, "w">>; process 0 is the       *)
(* runner, process p the child of stage p.  A child inherits what the      *)
(* runner holds when it is forked, sets up its standard streams and runs a *)
(* program; what a program reads and writes is counted in units.  A pipe   *)
(* behaves as pipe(7) says: a reader sees end of file when no process      *)
(* holds the write end, a writer is killed when none holds the read end.   *)
(***************************************************************************)
EXTENDS Integers, Sequences, FiniteSets

CONSTANTS
    StageLimit,    \* the most stages a command has
    PipeSize,      \* the units a pipe holds before write() blocks
    Programs,      \* what the programs of the stages may do
    CallsMayFail   \* whether pipe() and fork() may fail

\* "copy" copies its input to its output until end of file, "write" writes one
\* unit and ends, "quick" ends at once, "endless" writes until it is killed.
ASSUME ExecutorAssumption ==
    /\ StageLimit \in Nat \ {0} /\ PipeSize \in Nat \ {0}
    /\ Programs \subseteq {"copy", "write", "quick", "endless"}
    /\ CallsMayFail \in BOOLEAN

VARIABLES
    cmd,      \* the stages: whether argv[0] exists and which files redirect them
    i,        \* the stage the loop is at
    xpc,      \* where the runner stands in execute_pipeline
    reaped,   \* the children wait() has returned
    any_child_failed,
    result,   \* what execute_pipeline returned
    ends,     \* the pipe ends each process holds
    child,    \* what has become of the child of each stage
    program,  \* the program each child runs
    todo,     \* the units each child still has to write
    pipe      \* the units in each pipe

parentVars == <<cmd, i, xpc, reaped, any_child_failed, result>>
childVars  == <<child, program, todo, pipe>>
execVars   == <<parentVars, ends, childVars>>

Children  == 1..StageLimit
Processes == 0..StageLimit

num_stages == Len(cmd)

HasReader(k) == \E p \in Processes : <<k, "r">> \in ends[p]
HasWriter(k) == \E p \in Processes : <<k, "w">> \in ends[p]

\* The children that exist: forked in order, so those before stage i, and stage
\* i itself once fork() has returned.
children_created == Cardinality({p \in Children : child[p] # "none"})

------------------------------------------------------------------------------
(* The runner *)

ExecInit ==
    /\ cmd = <<>> /\ i = 1 /\ xpc = "idle"
    /\ reaped = {} /\ any_child_failed = FALSE /\ result = 0
    /\ ends = [p \in Processes |-> {}]
    /\ child = [p \in Children |-> "none"]
    /\ program = [p \in Children |-> "none"]
    /\ todo = [p \in Children |-> 0]
    /\ pipe = [p \in Children |-> 0]

\* A command without stages is refused.
execute_pipeline(stages) ==
    /\ xpc = "idle"
    /\ cmd' = stages
    /\ xpc' = IF stages = <<>> THEN "returned" ELSE "pipe"
    /\ result' = IF stages = <<>> THEN -1 ELSE result
    /\ UNCHANGED <<i, reaped, any_child_failed, ends, childVars>>

\* pipe() for every stage but the last.
CreatePipe ==
    /\ xpc = "pipe"
    /\ xpc' = "fork"
    /\ ends' = [ends EXCEPT ![0] = @ \cup (IF i < num_stages
                                           THEN {<<i, "r">>, <<i, "w">>} ELSE {})]
    /\ UNCHANGED <<cmd, i, reaped, any_child_failed, result, childVars>>

Fork ==
    /\ xpc = "fork"
    /\ xpc' = "close"
    /\ ends' = [ends EXCEPT ![i] = ends[0]]
    /\ child' = [child EXCEPT ![i] = "forked"]
    /\ UNCHANGED <<cmd, i, reaped, any_child_failed, result, program, todo, pipe>>

\* Mutant: the read end of the pipe before this stage stays open.
CloseWriteEndOnly == {<<i, "w">>}

\* What the runner closes after the fork: prev_read_fd and pipefd[1].
ClosedAfterFork == {<<i - 1, "r">>, <<i, "w">>}

CloseEnds ==
    /\ xpc = "close"
    /\ ends' = [ends EXCEPT ![0] = @ \ ClosedAfterFork]
    /\ i' = i + 1
    /\ xpc' = IF i < num_stages THEN "pipe" ELSE "wait"
    /\ UNCHANGED <<cmd, reaped, any_child_failed, result, childVars>>

\* Mutant: the ends are left open while the children are awaited.
ClosedOnFailureLate == {}

\* What is closed when pipe() or fork() fails: prev_read_fd, and the new pipe.
ClosedOnFailure == {<<i - 1, "r">>, <<i, "r">>, <<i, "w">>}

CallFails ==
    /\ CallsMayFail
    /\ xpc = "fork" \/ (xpc = "pipe" /\ i < num_stages)
    /\ xpc' = "drain"
    /\ ends' = [ends EXCEPT ![0] = @ \ ClosedOnFailure]
    /\ UNCHANGED <<cmd, i, reaped, any_child_failed, result, childVars>>

\* The children that have ended and were not awaited yet.
Ended == {p \in Children : child[p] \in {"ok", "bad"}} \ reaped

\* Mutant: only the child awaited last decides.
LastStatus(p) == child[p] = "bad"

FailedSoFar(p) == any_child_failed \/ child[p] = "bad"

\* wait() reaps any child that has ended; on the failure path its status is
\* not looked at.
Wait ==
    /\ xpc \in {"wait", "drain"}
    /\ Cardinality(reaped) < children_created
    /\ \E p \in Ended :
          /\ reaped' = reaped \cup {p}
          /\ any_child_failed' = IF xpc = "wait" THEN FailedSoFar(p) ELSE any_child_failed
    /\ UNCHANGED <<cmd, i, xpc, result, ends, childVars>>

\* Mutant: the flag itself is returned.
ReturnFlag ==
    /\ xpc \in {"wait", "drain"}
    /\ Cardinality(reaped) = children_created
    /\ xpc' = "returned"
    /\ result' = IF xpc = "drain" THEN -1 ELSE IF any_child_failed THEN 1 ELSE 0
    /\ UNCHANGED <<cmd, i, reaped, any_child_failed, ends, childVars>>

Return ==
    /\ xpc \in {"wait", "drain"}
    /\ Cardinality(reaped) = children_created
    /\ xpc' = "returned"
    /\ result' = IF xpc = "drain" \/ any_child_failed THEN -1 ELSE 0
    /\ UNCHANGED <<cmd, i, reaped, any_child_failed, ends, childVars>>

ParentStep == CreatePipe \/ Fork \/ CloseEnds \/ CallFails \/ Wait \/ Return

------------------------------------------------------------------------------
(* The children *)

\* A process that ends gives up every pipe end it holds.
EndsWith(p, status) ==
    /\ child' = [child EXCEPT ![p] = status]
    /\ ends' = [ends EXCEPT ![p] = {}]

\* The streams of stage p after dup2() and close(): a file redirection replaces
\* the pipe that was connected before it.
Streams(p) ==
    (IF p > 1 /\ ~cmd[p].input_file THEN {<<p - 1, "r">>} ELSE {})
    \cup (IF p < num_stages /\ ~cmd[p].output_file THEN {<<p, "w">>} ELSE {})

\* Between fork() and execvp(): the streams are set up and a program starts.
ChildExec(p) ==
    /\ child[p] = "forked"
    /\ cmd[p].argv
    /\ child' = [child EXCEPT ![p] = "running"]
    /\ ends' = [ends EXCEPT ![p] = Streams(p)]
    /\ \E what \in Programs :
          /\ program' = [program EXCEPT ![p] = what]
          /\ todo' = [todo EXCEPT ![p] = IF what \in {"write", "endless"} THEN 1 ELSE 0]
    /\ UNCHANGED <<parentVars, pipe>>

\* dup2(), open() of a redirection or execvp() fails, or there is no argv[0].
ChildSetupFails(p) ==
    /\ child[p] = "forked"
    /\ EndsWith(p, "bad")
    /\ UNCHANGED <<parentVars, program, todo, pipe>>

ReadsPipe(p)  == <<p - 1, "r">> \in ends[p]
WritesPipe(p) == <<p, "w">> \in ends[p]

ReadUnit(p) ==
    /\ child[p] = "running" /\ program[p] = "copy" /\ todo[p] = 0
    /\ ReadsPipe(p) /\ pipe[p - 1] > 0
    /\ pipe' = [pipe EXCEPT ![p - 1] = @ - 1]
    /\ todo' = [todo EXCEPT ![p] = 1]
    /\ UNCHANGED <<parentVars, ends, child, program>>

WriteUnit(p) ==
    /\ child[p] = "running" /\ todo[p] = 1
    /\ WritesPipe(p) => HasReader(p) /\ pipe[p] < PipeSize
    /\ pipe' = IF WritesPipe(p) THEN [pipe EXCEPT ![p] = @ + 1] ELSE pipe
    /\ todo' = [todo EXCEPT ![p] = IF program[p] = "endless" THEN 1 ELSE 0]
    /\ UNCHANGED <<parentVars, ends, child, program>>

\* SIGPIPE: nobody can read what it writes.
WriteFatal(p) ==
    /\ child[p] = "running" /\ todo[p] = 1
    /\ WritesPipe(p) /\ ~HasReader(p)
    /\ EndsWith(p, "bad")
    /\ UNCHANGED <<parentVars, program, todo, pipe>>

\* The program ends by itself, with status 0 or another one; a copy ends when
\* it has seen the end of its input.
Finish(p) ==
    /\ child[p] = "running" /\ todo[p] = 0
    /\ program[p] = "copy" /\ ReadsPipe(p) => pipe[p - 1] = 0 /\ ~HasWriter(p - 1)
    /\ \E status \in {"ok", "bad"} : EndsWith(p, status)
    /\ UNCHANGED <<parentVars, program, todo, pipe>>

ChildStep(p) ==
    \/ ChildExec(p) \/ ChildSetupFails(p)
    \/ ReadUnit(p) \/ WriteUnit(p) \/ WriteFatal(p) \/ Finish(p)

ExecStep == ParentStep \/ \E p \in Children : ChildStep(p)

Stages == [argv : BOOLEAN, input_file : BOOLEAN, output_file : BOOLEAN]

ExecSpec ==
    /\ ExecInit
    /\ [][\/ ExecStep
          \/ \E n \in 0..StageLimit : \E stages \in [1..n -> Stages] :
                execute_pipeline(stages)]_execVars

------------------------------------------------------------------------------
(* Properties *)

\* The types of the runner's and the children's state.
ExecTypeOK ==
    /\ cmd \in Seq(Stages) /\ Len(cmd) <= StageLimit
    /\ i \in 1..(StageLimit + 1)
    /\ xpc \in {"idle", "pipe", "fork", "close", "wait", "drain", "returned"}
    /\ reaped \subseteq Children
    /\ any_child_failed \in BOOLEAN
    /\ result \in {0, -1}
    /\ ends \in [Processes -> SUBSET (Children \X {"r", "w"})]
    /\ child \in [Children -> {"none", "forked", "running", "ok", "bad"}]
    /\ program \in [Children -> Programs \cup {"none"}]
    /\ todo \in [Children -> {0, 1}]
    /\ pipe \in [Children -> 0..PipeSize]

\* Who may hold which end of a pipe: the write end only the child before it,
\* and the runner until it has forked that child; the read end only the child
\* behind it, the runner while it is between the two forks, and the first
\* child before its own close().  Any other holder would keep a stage from
\* seeing end of file, or a writer from being told that nobody reads.
PipeEndsConfined ==
    \A p \in Processes, k \in Children :
        /\ <<k, "w">> \in ends[p] =>
              p = k \/ (p = 0 /\ i = k /\ xpc \in {"fork", "close"})
        /\ <<k, "r">> \in ends[p] =>
              \/ p = k + 1
              \/ p = k /\ child[p] = "forked"
              \/ p = 0 /\ i = k /\ xpc \in {"fork", "close"}
              \/ p = 0 /\ i = k + 1 /\ xpc \in {"pipe", "fork", "close"}

\* "waits for all child processes before returning": when execute_pipeline
\* returns, on the failure paths too, every child was reaped and the runner
\* holds no pipe end, so that none leaks into its next system calls.
NothingLeftBehind ==
    xpc = "returned" =>
        /\ \A p \in Children : child[p] # "none" => p \in reaped
        /\ \A p \in Processes : ends[p] = {}

\* "0 if all children exit with status 0, -1 otherwise": zero means that every
\* stage of the command was started and ended with status 0, whichever order
\* the children ended in.
ResultCoversAll ==
    xpc = "returned" =>
        (result = 0 <=> cmd # <<>> /\ \A p \in 1..num_stages : child[p] = "ok")

\* The run of a pipeline may go on for ever by itself: an endless program writes
\* into a chain of copies that ends outside the pipeline.
RunsForever ==
    LET sink[p \in Children] ==
            /\ child[p] = "running" /\ program[p] = "copy" /\ ReadsPipe(p)
            /\ WritesPipe(p) => p < StageLimit /\ sink[p + 1]
    IN  \E p \in Children :
            /\ child[p] = "running" /\ program[p] = "endless"
            /\ WritesPipe(p) => p < StageLimit /\ sink[p + 1]
==============================================================================
