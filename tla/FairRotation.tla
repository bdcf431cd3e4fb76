---------------------------- MODULE FairRotation ----------------------------
(***************************************************************************)
(* What the fair policy promises to a user with waiting commands, stated   *)
(* over whole behaviours of the controller with a history variable:        *)
(* passed[u][v] counts the commands of user v that were authorized since   *)
(* user u has had commands waiting without one being authorized.           *)
(***************************************************************************)
EXTENDS Controller

VARIABLE passed

rotationVars == <<ctlVars, passed>>

\* A step that authorizes a command appends it to the running queue.
Authorizes == Len(running_queue') > Len(running_queue)

Passed(u, v) ==
    LET served == Last(running_queue').user_id
    IN  IF ~user_exists(waiting_queue, u) \/ ~user_exists(waiting_queue', u) THEN 0
        ELSE IF ~Authorizes THEN passed[u][v]
        ELSE IF served = u THEN 0
        ELSE IF served = v THEN passed[u][v] + 1
        ELSE passed[u][v]

RotationInit == CtlInit /\ passed = [u \in Users |-> [v \in Users |-> 0]]

RotationNext ==
    /\ CtlNext
    /\ passed' = [u \in Users |-> [v \in Users |-> Passed(u, v)]]

RotationSpec == RotationInit /\ [][RotationNext]_rotationVars

\* "fair: alternates between users with pending work" (README): while a user
\* waits, every other user is served at most once before it, however many
\* commands the others submit, whoever joins the rotation meanwhile and
\* whichever slots come free.
AtMostOneTurnEach ==
    policy = "fair" /\ ~AllocMayFail => \A u, v \in Users : passed[u][v] <= 1
=============================================================================
