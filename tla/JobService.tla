----------------------------- MODULE JobService -----------------------------
(***************************************************************************)
(* What the orchestrator promises to its users, without queues, messages   *)
(* or FIFOs: a command runs only after it was authorized, at most limit    *)
(* commands are authorized and unfinished at any moment, the service stops *)
(* only when no authorized command is unfinished, and once it has stopped  *)
(* or died it authorizes nothing until it is started again.  A service     *)
(* that is started again knows nothing of the commands authorized before.  *)
(***************************************************************************)
EXTENDS Integers, FiniteSets

CONSTANT Commands

VARIABLES
    limit,   \* the parallelism limit, fixed when the service starts
    phase,   \* what each command has come to
    server   \* whether the service is up, was stopped or was killed

serviceVars == <<limit, phase, server>>

Authorized == {c \in Commands : phase[c] = "authorized"}

ServiceInit ==
    /\ limit \in Nat \ {0}
    /\ phase = [c \in Commands |-> "idle"]
    /\ server = "up"

Authorize(c) ==
    /\ server = "up"
    /\ phase[c] = "idle"
    /\ Cardinality(Authorized) < limit
    /\ phase' = [phase EXCEPT ![c] = "authorized"]
    /\ UNCHANGED <<limit, server>>

\* The command finishes, or is given up before or after it was authorized.
End(c) ==
    /\ phase[c] # "ended"
    /\ phase' = [phase EXCEPT ![c] = "ended"]
    /\ UNCHANGED <<limit, server>>

Stop ==
    /\ server = "up"
    /\ Authorized = {}
    /\ server' = "stopped"
    /\ UNCHANGED <<limit, phase>>

Crash ==
    /\ server # "dead"
    /\ server' = "dead"
    /\ UNCHANGED <<limit, phase>>

\* The commands that still run no longer count against the limit.
StartAgain ==
    /\ server # "up"
    /\ server' = "up"
    /\ limit' \in Nat \ {0}
    /\ phase' = [c \in Commands |-> IF phase[c] = "authorized" THEN "adrift" ELSE phase[c]]

ServiceNext == Stop \/ Crash \/ StartAgain \/ \E c \in Commands : Authorize(c) \/ End(c)

ServiceSpec == ServiceInit /\ [][ServiceNext]_serviceVars
=============================================================================
