------------------------------- MODULE Command -------------------------------
(***************************************************************************)
(* What runner -e does between ACK and DONE (runner_run_execute): the text *)
(* is parsed, the pipeline executed and the parsed command destroyed.      *)
(* Orchestrator.tla takes all of it as the step Execute; that the runner   *)
(* reaches DONE, which its fairness assumes, is shown here.                *)
(***************************************************************************)
EXTENDS Parser, Executor

ASSUME StageLimitAssumption == StageLimit = MaxStages

cmdVars == <<parserVars, execVars>>

\* What execute_pipeline asks of the parsed command: parser_get_stage_count,
\* parser_get_stage_argv and the three redirections.  The error output is a
\* file that only its open() can fail on.
Pipeline ==
    [n \in DOMAIN stages |->
        [argv        |-> stages[n].argv # <<>>,
         input_file  |-> stages[n].input_file # NoFile,
         output_file |-> stages[n].output_file # NoFile]]

CmdInit == ParserInit /\ ExecInit

Parse == ParserStep /\ UNCHANGED execVars

Execute ==
    /\ ppc = "parsed"
    /\ ppc' = "executing"
    /\ execute_pipeline(Pipeline)
    /\ UNCHANGED <<buffer, save_pipe, cursor, stage_end, stage, stages, tokens>>

RunnerExec == ParentStep /\ UNCHANGED parserVars

ChildRuns(p) == ChildStep(p) /\ UNCHANGED parserVars

Destroy ==
    /\ ppc = "executing" /\ xpc = "returned"
    /\ parser_destroy("destroyed")
    /\ UNCHANGED execVars

\* The runner goes on to send DONE, whatever the parser and the children did.
ReadyForDone == ppc \in {"refused", "no_memory", "destroyed"}

CmdNext ==
    \/ Parse \/ Execute \/ RunnerExec \/ Destroy
    \/ \E p \in Children : ChildRuns(p)

CmdSpec == CmdInit /\ [][CmdNext]_cmdVars

(***************************************************************************)
(* The runner and every child are scheduled whenever they can go on.       *)
(***************************************************************************)
CmdFairSpec ==
    /\ CmdSpec
    /\ WF_cmdVars(Parse \/ Execute \/ RunnerExec \/ Destroy)
    /\ \A p \in Children : WF_cmdVars(ChildRuns(p))

------------------------------------------------------------------------------
(* Properties *)

\* Every command text leads to DONE, unless the user's own program never ends:
\* what the fairness of Execute in Orchestrator.tla takes for granted.  No
\* stage waits for an end of file or a SIGPIPE that a stray descriptor holds
\* back, and the runner never waits for a child that waits for the runner,
\* also when pipe() or fork() fails half way.
EveryCommandEnds == ppc = "split" ~> ReadyForDone \/ RunsForever
==============================================================================
