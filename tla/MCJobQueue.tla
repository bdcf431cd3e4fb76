----------------------------- MODULE MCJobQueue -----------------------------
(* Jobs, users and orders for the linked list. *)
EXTENDS JobQueue

\* Two users; command 1 exists twice, as after the reuse of an identifier.
JobsOfTwoUsers ==
    {[command_id |-> 1, user_id |-> 1], [command_id |-> 1, user_id |-> 2],
     [command_id |-> 2, user_id |-> 2]}

\* No known user (the array could not be allocated), an order that misses a
\* user, and complete orders, with a user that has nothing queued.
SomeFairOrders == {<<>>, <<1>>, <<2, 1>>, <<1, 3, 2>>}
=============================================================================
