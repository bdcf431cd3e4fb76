---------------------------- MODULE MCController ----------------------------
(***************************************************************************)
(* The controller alone, under every order of the messages runners can     *)
(* send.  A process identifier may come back in a second submission, as it *)
(* does when a runner was killed and its identifier is used again.         *)
(***************************************************************************)
EXTENDS FairRotation

CONSTANT
    MaxSubmissions,  \* bound on the submissions the controller accepts
    MaxFair          \* the same for the commands of three users under fair

\* Nothing but the number of accepted submissions is bounded for users 1 and 2.
TwoUsers == clock <= MaxSubmissions /\ \A u \in ToSet(fair_users) : u <= 2

\* More submissions, also of a third user, for the rotation; status requests do
\* not touch what the fair policy looks at, and after a shutdown request nobody
\* joins.
ThreeUsers ==
    policy = "fair" /\ clock <= MaxFair /\ reply.kind # "status" /\ ~is_shutting_down

BoundedNext == RotationNext /\ (TwoUsers \/ ThreeUsers)'

BoundedSpec == RotationInit /\ [][BoundedNext]_rotationVars

\* The user of  runner -e -1 "..."  beside an ordinary one.
UsersWithMinusOne == {-1, 1}

PidSymmetry == Permutations(Pids)
=============================================================================
