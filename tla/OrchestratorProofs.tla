------------------------- MODULE OrchestratorProofs -------------------------
(***************************************************************************)
(* Theorems about the composed system of Orchestrator.tla, for every set   *)
(* of runners, every limit, policy and FIFO capacity, any number of        *)
(* controllers, signals at any point and any failing system call.          *)
(***************************************************************************)
EXTENDS OrchestratorProperties, ControllerProofs, FiniteSetTheorems

USE RolesAssumption, PipeAssumption, StartsAssumption

------------------------------------------------------------------------------
(* The inductive invariant *)

\* The commands of the jobs in a queue, and that none is there twice.
CommandIds(q) == {q[i].command_id : i \in 1..Len(q)}
NoneTwice(q) == \A i, j \in 1..Len(q) : q[i].command_id = q[j].command_id => i = j

Waiting == CommandIds(waiting_queue)
Running == CommandIds(running_queue)
Logged  == CommandIds(log)

\* The messages in the public FIFO.
Fifo == ToSet(srv_buf)

IsDone(p) == outgoing[p].type = "DONE"

\* The controller is about to send runner p a message.
Sending(p) == pc \in {"send_open", "send_write"} /\ reply.to = p

\* A runner that has not written its request, and one that has and got no
\* answer yet, not even an open() of its FIFO.
Unsent == {"start", "open", "wait", "write"}
Expecting ==
    {"close", "reply_open", "reply_opening", "killed"}
    \cup (IF OpenMayFail THEN {"exit1"} ELSE {})

\* The request of runner p has not been read, and the controller has taken
\* notice of runner p.
Unread(p) == ~IsDone(p) /\ (rpc[p] \in Unsent \/ outgoing[p] \in Fifo)
Noticed(p) ==
    \/ p \in Waiting \/ p \in Running \/ p \in Logged
    \/ Sending(p)
    \/ is_shutting_down /\ shutdown_requester_pid = p
    \/ inbox[p] # <<>>

AckTo(p) == {[type |-> "ACK", user_id |-> u, command_id |-> p] : u \in Users}

\* A message in the public FIFO is there once and is the last one its sender
\* sent.
FifoInv ==
    /\ \A i, j \in 1..Len(srv_buf) : srv_buf[i] = srv_buf[j] => i = j
    /\ \A m \in Fifo :
          /\ m = outgoing[m.sender_pid]
          /\ rpc[m.sender_pid] \in IF m.type = "DONE" THEN {"close", "exit0", "killed"}
                                                      ELSE Expecting

\* The controller carries out the DONE it has read before it does anything
\* else, unless it is killed; the DONE is in one place and its runner has sent it.
TakenInv ==
    /\ taken # {} => pc \in {"done", "killed"}
    /\ \A m \in taken :
          /\ taken = {m} /\ m \notin Fifo
          /\ m = outgoing[m.sender_pid]
          /\ rpc[m.sender_pid] \in {"close", "exit0", "killed"}

\* A runner sends its request and, once it has read its ACK, a DONE.
OutgoingInv ==
    \A p \in Pids :
        \/ /\ outgoing[p] = Request(p)
           /\ rpc[p] # "exec"
           /\ p \in Executors => rpc[p] # "exit0"
        \/ /\ p \in Executors
           /\ IsDone(p) /\ outgoing[p] \in Messages /\ outgoing[p].sender_pid = p
           /\ rpc[p] \notin {"start", "reply_open", "reply_opening", "reply_read"}
           /\ inbox[p] = <<>>

\* Nothing is known of a runner whose request was not read.
UnreadInv == \A p \in Pids : Unread(p) => ~Noticed(p)

\* A command is in one place, once.
JobInv ==
    /\ NoneTwice(waiting_queue) /\ NoneTwice(running_queue) /\ NoneTwice(log)
    /\ Waiting \cap Running = {}
    /\ Logged \cap Waiting = {} /\ Logged \cap Running = {}
    /\ Waiting \subseteq Executors /\ Running \subseteq Executors /\ Logged \subseteq Executors
    /\ \A i \in 1..Len(waiting_queue) :
          waiting_queue[i].runner_pid = waiting_queue[i].command_id

\* The runner of a waiting command still expects its answer.
WaitingInv ==
    \A p \in Waiting :
        ~IsDone(p) /\ rpc[p] \in Expecting /\ ~Sending(p) /\ inbox[p] = <<>>

\* What the controller sends, and where the runner it sends it to stands.
ReplyInv ==
    /\ pc = "send_open" =>
          /\ reply.to \in Pids /\ ~IsDone(reply.to) /\ rpc[reply.to] \in Expecting
          /\ reply.to \in Executors => inbox[reply.to] = <<>>
    /\ pc = "send_write" /\ reply.to \in Executors =>
          /\ ~IsDone(reply.to) /\ rpc[reply.to] \in {"reply_read", "killed"}
          /\ inbox[reply.to] = <<>>
    /\ pc \in {"send_open", "send_write"} =>
          \/ /\ reply.kind = "ack" /\ reply.to \in Executors /\ reply.to \in Running
             /\ \E a \in AckTo(reply.to) : reply.msgs = <<a>>
          \/ /\ reply.kind = "shutdown" /\ reply.msgs = <<ShutdownAck>>
             /\ \/ reply.to \in Executors /\ reply.next = "read"
                \/ reply.to \in ShutdownClients /\ reply.next = "stop"
          \/ reply.kind = "status" /\ reply.to \in StatusClients /\ reply.next = "finish"

\* Until the final SHUTDOWN_ACK is decided on, the requester expects it.
RequesterInv ==
    is_shutting_down =>
        /\ shutdown_requester_pid \in ShutdownClients
        /\ keep_running /\ reply.next # "stop" => rpc[shutdown_requester_pid] \in Expecting

\* An executor gets one message, when it is in read() or was killed there.
InboxInv ==
    /\ \A p \in Pids : inbox[p] \in Seq(ToSet(inbox[p]))
    /\ \A p \in Executors : inbox[p] # <<>> =>
          /\ Len(inbox[p]) = 1 /\ inbox[p][1] \in AckTo(p) \cup {ShutdownAck}
          /\ ~IsDone(p) /\ rpc[p] \in {"reply_read", "killed"}

\* AuthorizedHoldsSlot, in terms of the sets above.
Claims(p) ==
    \/ HasAck(p)
    \/ IsDone(p) /\ rpc[p] \in {"exec", "open", "wait", "write"}
    \/ IsDone(p) /\ outgoing[p] \in Fifo \cup taken
ClaimInv == pc # "failed" => \A p \in Executors \ adrift : Claims(p) => p \in Running

AdriftInv == \A p \in adrift : p \in Executors /\ (HasAck(p) \/ IsDone(p))

\* FinishedIsLogged, from the moment DONE is written.
LogInv ==
    ~OpenMayFail => \A p \in Executors \ adrift :
        IsDone(p) /\ rpc[p] \in {"close", "exit0"} =>
            outgoing[p] \in Fifo \cup taken \cup lost \/ p \in Logged

ProtocolInv ==
    /\ FifoInv /\ TakenInv /\ OutgoingInv /\ UnreadInv /\ JobInv /\ WaitingInv
    /\ ReplyInv /\ RequesterInv /\ InboxInv /\ ClaimInv /\ AdriftInv /\ LogInv

SystemInv == TypeOK /\ SlotInv /\ StopInv /\ ProtocolInv

------------------------------------------------------------------------------
(* Queues and FIFOs *)

LEMMA EnqueuedIds ==
    ASSUME NEW q \in Seq(Jobs), NEW job \in Jobs, NoneTwice(q),
           job.command_id \notin CommandIds(q)
    PROVE  /\ CommandIds(Append(q, job)) = CommandIds(q) \cup {job.command_id}
           /\ NoneTwice(Append(q, job))
<1> DEFINE r == Append(q, job)
<1>1. /\ Len(q) \in Nat /\ Len(r) = Len(q) + 1
      /\ \A i \in 1..Len(q) : r[i] = q[i]
      /\ r[Len(q) + 1] = job
  OBVIOUS
<1> HIDE DEF r
<1>2. CommandIds(r) = CommandIds(q) \cup {job.command_id}
  <2>1. ASSUME NEW x \in CommandIds(r) PROVE x \in CommandIds(q) \cup {job.command_id}
    BY <1>1 DEF CommandIds
  <2>2. ASSUME NEW x \in CommandIds(q) PROVE x \in CommandIds(r)
    BY <1>1 DEF CommandIds
  <2>3. job.command_id \in CommandIds(r)
    BY <1>1 DEF CommandIds
  <2> QED
    BY <2>1, <2>2, <2>3
<1>3. NoneTwice(r)
  BY <1>1 DEF NoneTwice, CommandIds
<1> QED
  BY <1>2, <1>3 DEF r

LEMMA RemovedIds ==
    ASSUME NEW q \in Seq(Jobs), NEW i \in 1..Len(q), NoneTwice(q)
    PROVE  /\ CommandIds(RemoveAt(q, i)) = CommandIds(q) \ {q[i].command_id}
           /\ NoneTwice(RemoveAt(q, i))
           /\ \A j \in 1..Len(RemoveAt(q, i)) :
                 \E k \in 1..Len(q) : RemoveAt(q, i)[j] = q[k]
<1> DEFINE r == RemoveAt(q, i)
           old(n) == IF n < i THEN n ELSE n + 1
<1>1. /\ Len(q) \in Nat /\ Len(r) = Len(q) - 1
      /\ \A j \in 1..(Len(q) - 1) : r[j] = IF j < i THEN q[j] ELSE q[j + 1]
  BY RemoveAtProperties
<1> HIDE DEF r
<1>2. \A j \in 1..Len(r) : old(j) \in 1..Len(q) /\ old(j) # i /\ r[j] = q[old(j)]
  BY <1>1
<1>3. \A k \in 1..Len(q) : k # i => \E j \in 1..Len(r) : r[j] = q[k]
  <2> SUFFICES ASSUME NEW k \in 1..Len(q), k # i
               PROVE  \E j \in 1..Len(r) : r[j] = q[k]
    OBVIOUS
  <2>1. CASE k < i
    BY <1>1, <2>1
  <2>2. CASE k > i
    <3>1. k - 1 \in 1..Len(r) /\ r[k - 1] = q[k]
      BY <1>1, <2>2
    <3> QED
      BY <3>1
  <2> QED
    BY <2>1, <2>2
<1>4. \A j, k \in 1..Len(r) : old(j) = old(k) => j = k
  BY <1>1
<1> HIDE DEF old
<1>5. CommandIds(r) = CommandIds(q) \ {q[i].command_id}
  <2>1. ASSUME NEW x \in CommandIds(r) PROVE x \in CommandIds(q) \ {q[i].command_id}
    BY <1>2 DEF CommandIds, NoneTwice
  <2>2. ASSUME NEW x \in CommandIds(q), x # q[i].command_id PROVE x \in CommandIds(r)
    BY <1>3, <2>2 DEF CommandIds
  <2> QED
    BY <2>1, <2>2
<1>6. NoneTwice(r)
  BY <1>2, <1>4 DEF NoneTwice
<1> QED
  BY <1>2, <1>5, <1>6 DEF r

\* A message that is written, and one that is read.
LEMMA WrittenMessage ==
    ASSUME NEW S, NEW b \in Seq(S), NEW m \in S, m \notin ToSet(b),
           \A i, j \in 1..Len(b) : b[i] = b[j] => i = j
    PROVE  /\ ToSet(Append(b, m)) = ToSet(b) \cup {m}
           /\ \A i, j \in 1..Len(Append(b, m)) : Append(b, m)[i] = Append(b, m)[j] => i = j
<1> DEFINE r == Append(b, m)
<1>1. /\ Len(b) \in Nat /\ Len(r) = Len(b) + 1
      /\ \A i \in 1..Len(b) : r[i] = b[i]
      /\ r[Len(b) + 1] = m
  OBVIOUS
<1>2. ToSet(r) = ToSet(b) \cup {m}
  BY AppendedJobs
<1> HIDE DEF r
<1>3. \A i \in 1..Len(b) : b[i] # m
  BY DEF ToSet
<1> QED
  BY <1>1, <1>2, <1>3 DEF r

LEMMA ReadMessage ==
    ASSUME NEW S, NEW b \in Seq(S), b # <<>>,
           \A i, j \in 1..Len(b) : b[i] = b[j] => i = j
    PROVE  /\ Head(b) \in ToSet(b)
           /\ Tail(b) \in Seq(S)
           /\ ToSet(Tail(b)) = ToSet(b) \ {Head(b)}
           /\ \A i, j \in 1..Len(Tail(b)) : Tail(b)[i] = Tail(b)[j] => i = j
<1> DEFINE r == Tail(b)
<1>1. /\ Len(b) \in Nat /\ Len(b) >= 1 /\ Len(r) = Len(b) - 1 /\ r \in Seq(S)
      /\ \A i \in 1..(Len(b) - 1) : r[i] = b[i + 1]
      /\ Head(b) = b[1]
  OBVIOUS
<1> HIDE DEF r
<1>2. \A k \in 1..Len(b) : k # 1 => k - 1 \in 1..Len(r) /\ r[k - 1] = b[k]
  BY <1>1
<1>3. \A k \in 1..Len(r) : k + 1 \in 1..Len(b) /\ r[k] = b[k + 1] /\ k + 1 # 1
  BY <1>1
<1>4. ToSet(r) = ToSet(b) \ {Head(b)}
  <2>1. ToSet(r) = {r[k] : k \in 1..Len(r)} /\ ToSet(b) = {b[k] : k \in 1..Len(b)}
    BY <1>1 DEF ToSet
  <2>2. 1 \in 1..Len(b)
    BY <1>1
  <2>3. ASSUME NEW x \in ToSet(r) PROVE x \in ToSet(b) \ {Head(b)}
    BY <1>1, <1>3, <2>1, <2>2
  <2>4. ASSUME NEW x \in ToSet(b), x # Head(b) PROVE x \in ToSet(r)
    BY <1>1, <1>2, <2>1, <2>4
  <2> QED
    BY <2>3, <2>4
<1>5. Head(b) \in ToSet(b)
  BY <1>1 DEF ToSet
<1>6. \A i, j \in 1..Len(r) : r[i] = r[j] => i = j
  BY <1>1
<1> QED
  BY <1>1, <1>4, <1>5, <1>6 DEF r

------------------------------------------------------------------------------
(* Runners *)

\* What a runner sends first is a request of its kind, never a DONE.
LEMMA RequestFields ==
    ASSUME NEW p \in Pids
    PROVE  /\ Request(p) \in Messages /\ Request(p).sender_pid = p
           /\ p \in Executors => Request(p).type = "SUBMIT"
           /\ p \in StatusClients => Request(p).type = "STATUS_REQ"
           /\ p \in ShutdownClients => Request(p).type = "SHUTDOWN_REQ"
           /\ Request(p).type # "DONE"
<1>1. CASE p \in Executors
  <2>1. Request(p) = [type |-> "SUBMIT", sender_pid |-> p, user_id |-> UserOf[p],
                      command_id |-> p]
    BY <1>1 DEF Request
  <2>2. UserOf[p] \in Users
    BY <1>1
  <2> QED
    BY <1>1, <2>1, <2>2 DEF Messages
<1>2. CASE p \in StatusClients
  <2>1. Request(p) = [type |-> "STATUS_REQ", sender_pid |-> p, user_id |-> 0,
                      command_id |-> 0]
    BY <1>2 DEF Request
  <2> QED
    BY <1>2, <2>1 DEF Messages
<1>3. CASE p \in ShutdownClients
  <2>1. Request(p) = [type |-> "SHUTDOWN_REQ", sender_pid |-> p, user_id |-> 0,
                      command_id |-> 0]
    BY <1>3 DEF Request
  <2> QED
    BY <1>3, <2>1 DEF Messages
<1> QED
  BY <1>1, <1>2, <1>3

\* A runner that sends or has sent a DONE is an executor past its ACK.
LEMMA DoneRunners ==
    ASSUME OutgoingInv, NEW p \in Pids
    PROVE  /\ outgoing[p].sender_pid = p /\ outgoing[p] \in Messages
           /\ ~IsDone(p) => outgoing[p] = Request(p)
           /\ IsDone(p) =>
                 /\ p \in Executors /\ inbox[p] = <<>>
                 /\ rpc[p] \notin {"start", "reply_open", "reply_opening", "reply_read"}
           /\ rpc[p] = "exec" => IsDone(p)
           /\ rpc[p] = "exit0" /\ p \in Executors => IsDone(p)
  BY RequestFields DEF OutgoingInv, IsDone

\* The DONE that was read comes from an executor that has sent it.
LEMMA TakenSender ==
    ASSUME SystemInv, NEW m \in taken
    PROVE  /\ m \in Messages /\ m.type = "DONE" /\ m.sender_pid \in Executors
           /\ m = outgoing[m.sender_pid] /\ IsDone(m.sender_pid) /\ m \notin Fifo
           /\ rpc[m.sender_pid] \in {"close", "exit0", "killed"} /\ taken = {m}
<1>1. m \in Messages /\ m.type = "DONE"
  BY TakenIsDone DEF SystemInv, TypeOK
<1>2. m.sender_pid \in Pids
  BY <1>1, MessageFields
<1>3. /\ m = outgoing[m.sender_pid] /\ rpc[m.sender_pid] \in {"close", "exit0", "killed"}
      /\ taken = {m} /\ m \notin Fifo
  BY DEF SystemInv, ProtocolInv, TakenInv
<1>4. IsDone(m.sender_pid)
  BY <1>1, <1>3 DEF IsDone
<1>5. m.sender_pid \in Executors
  BY <1>2, <1>4, DoneRunners DEF SystemInv, ProtocolInv
<1> QED
  BY <1>1, <1>3, <1>4, <1>5

\* The public FIFO keeps what it holds or loses all of it.
FifoShrinks ==
    /\ srv_buf' = srv_buf \/ srv_buf' = <<>>
    /\ Fifo' \subseteq Fifo
    /\ lost \subseteq lost' /\ Fifo \subseteq Fifo' \cup lost'

LEMMA DropShrinks ==
    ASSUME NEW last \in BOOLEAN, DropServerBuffer(last)
    PROVE  FifoShrinks
<1>1. CASE last
  <2>1. srv_buf' = <<>> /\ lost' = lost \cup Fifo
    BY <1>1 DEF DropServerBuffer, Fifo
  <2>2. Fifo' = {}
    BY <2>1 DEF Fifo, ToSet
  <2> QED
    BY <2>1, <2>2 DEF FifoShrinks
<1>2. CASE ~last
  BY <1>2 DEF DropServerBuffer, FifoShrinks, Fifo
<1> QED
  BY <1>1, <1>2

\* The steps in which a runner only moves on in its program.
LegalMove(p, to) ==
    \/ rpc[p] \in {"start", "open"} /\ to \in {"open", "wait", "write", "exit1"}
    \/ rpc[p] = "close" /\ IsDone(p) /\ to = "exit0"
    \/ rpc[p] = "close" /\ ~IsDone(p) /\ to = "reply_open"
    \/ rpc[p] = "reply_open" /\ (to = "reply_opening" \/ (OpenMayFail /\ to = "exit1"))
    \/ /\ rpc[p] = "reply_read" /\ ~Sending(p) /\ inbox[p] = <<>>
       /\ to = IF p \in Executors THEN "exit1" ELSE "exit0"
    \/ rpc[p] = "exec" /\ to = "open"
    \/ rpc[p] \notin {"start", "exit0", "exit1"} /\ to = "killed"

LEMMA RunnerMoves ==
    ASSUME SystemInv, NEW p \in Pids, NEW to, LegalMove(p, to),
           rpc' = [rpc EXCEPT ![p] = to], FifoShrinks,
           pc' = pc \/ (pc = "opening" /\ pc' = "read"),
           UNCHANGED <<inbox, outgoing, adrift, jobVars, log, taken, stopVars, reply>>
    PROVE  ProtocolInv'
<1> USE DEF jobVars, stopVars
<1>0. /\ rpc \in [Pids -> RunnerPoints] /\ rpc'[p] = to
      /\ \A q \in Pids : q # p => rpc'[q] = rpc[q]
      /\ DOMAIN inbox = Pids
  BY DEF SystemInv, TypeOK
<1>1. /\ FifoInv /\ TakenInv /\ OutgoingInv /\ UnreadInv /\ JobInv /\ WaitingInv
      /\ ReplyInv /\ RequesterInv /\ InboxInv /\ ClaimInv /\ AdriftInv /\ LogInv
  BY DEF SystemInv, ProtocolInv
<1>2. /\ UNCHANGED <<Waiting, Running, Logged>>
      /\ \A q \in Pids : /\ IsDone(q)' <=> IsDone(q)
                         /\ Sending(q)' <=> Sending(q)
                         /\ HasAck(q)' <=> HasAck(q)
  BY DEF Waiting, Running, Logged, IsDone, Sending, HasAck
<1>3. \A m \in Fifo : m.sender_pid \in Pids /\ m \in Messages
  BY MessageFields DEF SystemInv, TypeOK, Fifo, ToSet
<1>4. FifoInv'
  <2>1. \A i, j \in 1..Len(srv_buf') : srv_buf'[i] = srv_buf'[j] => i = j
    BY <1>1 DEF FifoInv, FifoShrinks
  <2>2. ASSUME NEW m \in Fifo'
        PROVE  /\ m = outgoing'[m.sender_pid]
               /\ rpc'[m.sender_pid] \in IF m.type = "DONE" THEN {"close", "exit0", "killed"}
                                                            ELSE Expecting
    BY <1>0, <1>1, <1>3 DEF FifoInv, FifoShrinks, LegalMove, Expecting, IsDone
  <2> QED
    BY <2>1, <2>2 DEF FifoInv
<1>5. OutgoingInv'
  BY <1>0, <1>1, <1>2, DoneRunners DEF OutgoingInv, LegalMove
<1>6. UnreadInv'
  <2>1. ASSUME NEW q \in Pids, Unread(q)' PROVE Unread(q)
    BY <1>0, <1>1, <1>2, <2>1, DoneRunners DEF Unread, Unsent, FifoShrinks, LegalMove
  <2>2. ASSUME NEW q \in Pids, Noticed(q)' PROVE Noticed(q)
    BY <1>2, <2>2 DEF Noticed
  <2> QED
    BY <1>1, <2>1, <2>2 DEF UnreadInv
<1>7. JobInv'
  BY <1>1, <1>2 DEF JobInv
<1>8. WaitingInv'
  BY <1>0, <1>1, <1>2 DEF WaitingInv, JobInv, LegalMove, Expecting
<1>9. ReplyInv'
  BY <1>0, <1>1, <1>2 DEF ReplyInv, LegalMove, Expecting, Sending
<1>10. RequesterInv'
  BY <1>0, <1>1, DoneRunners DEF RequesterInv, LegalMove, Expecting
<1>11. InboxInv'
  BY <1>0, <1>1, <1>2 DEF InboxInv, LegalMove
<1>12. ClaimInv'
  <2>1. ASSUME NEW q \in Pids, Claims(q)' PROVE Claims(q)
    <3>1. (rpc[q] = "exec" => IsDone(q)) /\ (IsDone(q) => rpc[q] # "start")
      BY <1>1, DoneRunners
    <3> QED
      BY <1>0, <1>2, <2>1, <3>1 DEF Claims, LegalMove, FifoShrinks
  <2> QED
    BY <1>1, <1>2, <2>1 DEF ClaimInv
<1>13. AdriftInv'
  BY <1>1, <1>2 DEF AdriftInv
<1>14. LogInv'
  BY <1>0, <1>1, <1>2, DoneRunners DEF LogInv, LegalMove, FifoShrinks
<1>15. TakenInv'
  <2>1. taken' # {} => pc' \in {"done", "killed"}
    BY <1>1 DEF TakenInv
  <2>2. ASSUME NEW m \in taken'
        PROVE  /\ taken' = {m} /\ m \notin Fifo' /\ m = outgoing'[m.sender_pid]
               /\ rpc'[m.sender_pid] \in {"close", "exit0", "killed"}
    <3>1. /\ taken = {m} /\ m \notin Fifo /\ m = outgoing[m.sender_pid]
          /\ IsDone(m.sender_pid) /\ m.sender_pid \in Pids
          /\ rpc[m.sender_pid] \in {"close", "exit0", "killed"}
      BY TakenSender
    <3> QED
      BY <1>0, <3>1 DEF LegalMove, FifoShrinks
  <2> QED
    BY <2>1, <2>2 DEF TakenInv
<1> QED
  BY <1>4, <1>5, <1>6, <1>7, <1>8, <1>9, <1>10, <1>11, <1>12, <1>13, <1>14, <1>15
  DEF ProtocolInv

LEMMA WriteKeepsProtocol ==
    ASSUME SystemInv, NEW p \in Pids, SendWrite(p), UNCHANGED startVars
    PROVE  ProtocolInv'
<1> USE DEF ctlVars, config, jobVars, fairVars, stopVars, logVars, startVars
<1>0. /\ rpc \in [Pids -> RunnerPoints] /\ rpc[p] = "write"
      /\ rpc' = [rpc EXCEPT ![p] = "close"]
      /\ srv_buf \in Seq(Messages) /\ srv_buf' = Append(srv_buf, outgoing[p])
      /\ UNCHANGED <<inbox, outgoing, adrift, jobVars, logVars, stopVars, pc, reply, lost>>
  BY DEF SystemInv, TypeOK, SendWrite, GoTo
<1>1. /\ FifoInv /\ TakenInv /\ OutgoingInv /\ UnreadInv /\ JobInv /\ WaitingInv
      /\ ReplyInv /\ RequesterInv /\ InboxInv /\ ClaimInv /\ AdriftInv /\ LogInv
  BY DEF SystemInv, ProtocolInv
<1>2. /\ UNCHANGED <<Waiting, Running, Logged>>
      /\ \A q \in Pids : /\ IsDone(q)' <=> IsDone(q)
                         /\ Sending(q)' <=> Sending(q)
                         /\ HasAck(q)' <=> HasAck(q)
                         /\ Noticed(q)' <=> Noticed(q)
  BY <1>0 DEF Waiting, Running, Logged, IsDone, Sending, HasAck, Noticed
<1>3. \A q \in Pids : outgoing[q].sender_pid = q /\ outgoing[q] \in Messages
  BY <1>1, DoneRunners
<1>4. outgoing[p] \notin Fifo
  BY <1>0, <1>1, <1>3 DEF FifoInv, Expecting
<1>5. /\ Fifo' = Fifo \cup {outgoing[p]}
      /\ \A i, j \in 1..Len(srv_buf') : srv_buf'[i] = srv_buf'[j] => i = j
  BY <1>0, <1>1, <1>3, <1>4, WrittenMessage DEF FifoInv, Fifo
<1>6. \A m \in Fifo : m.sender_pid \in Pids /\ m.sender_pid # p
  <2>1. \A m \in Fifo : m \in Messages
    BY <1>0 DEF Fifo, ToSet
  <2> QED
    BY <1>0, <1>1, <2>1, MessageFields DEF FifoInv, Expecting
<1>7. rpc'[p] = "close" /\ \A q \in Pids : q # p => rpc'[q] = rpc[q]
  BY <1>0
<1>8. FifoInv'
  BY <1>0, <1>1, <1>3, <1>5, <1>6, <1>7 DEF FifoInv, Expecting
<1>9. OutgoingInv'
  BY <1>0, <1>1, <1>2, <1>7 DEF OutgoingInv
<1>10. UnreadInv'
  <2>1. ASSUME NEW q \in Pids, Unread(q)' PROVE Unread(q)
    BY <1>0, <1>2, <1>3, <1>5, <1>7, <2>1 DEF Unread, Unsent
  <2> QED
    BY <1>1, <1>2, <2>1 DEF UnreadInv
<1>11. JobInv'
  BY <1>0, <1>1, <1>2 DEF JobInv
<1>12. WaitingInv'
  BY <1>0, <1>1, <1>2, <1>7 DEF WaitingInv, JobInv, Expecting
<1>13. ReplyInv'
  BY <1>0, <1>1, <1>2, <1>7 DEF ReplyInv, Expecting
<1>14. RequesterInv'
  BY <1>0, <1>1, <1>7 DEF RequesterInv, Expecting
<1>15. InboxInv'
  BY <1>0, <1>1, <1>2, <1>7 DEF InboxInv
<1>16. ClaimInv'
  <2>1. ASSUME NEW q \in Pids, Claims(q)' PROVE Claims(q)
    BY <1>0, <1>2, <1>3, <1>5, <1>7, <2>1 DEF Claims
  <2> QED
    BY <1>0, <1>1, <1>2, <2>1 DEF ClaimInv
<1>17. AdriftInv'
  BY <1>0, <1>1, <1>2 DEF AdriftInv
<1>18. LogInv'
  BY <1>0, <1>1, <1>2, <1>5, <1>7 DEF LogInv
<1>19. TakenInv'
  <2>1. ASSUME NEW m \in taken
        PROVE  m.sender_pid \in Pids /\ m.sender_pid # p /\ m # outgoing[p]
    <3>1. m.sender_pid \in Pids /\ rpc[m.sender_pid] \in {"close", "exit0", "killed"}
      BY TakenSender
    <3> QED
      BY <1>0, <1>3, <3>1
  <2> QED
    BY <1>0, <1>1, <1>5, <1>7, <2>1 DEF TakenInv
<1> QED
  BY <1>8, <1>9, <1>10, <1>11, <1>12, <1>13, <1>14, <1>15, <1>16, <1>17, <1>18, <1>19
  DEF ProtocolInv

\* A sequence is one of its own elements, before and after a message is added
\* or taken.
LEMMA OwnElements ==
    ASSUME NEW S, NEW r \in Seq(S)
    PROVE  r \in Seq(ToSet(r))
<1>1. \A i \in 1..Len(r) : r[i] \in ToSet(r)
  BY DEF ToSet
<1>2. r = [i \in 1..Len(r) |-> r[i]] /\ Len(r) \in Nat
  OBVIOUS
<1> QED
  BY <1>1, <1>2

LEMMA TakenFirst ==
    ASSUME NEW b, b \in Seq(ToSet(b)), b # <<>>
    PROVE  /\ Tail(b) \in Seq(ToSet(Tail(b)))
           /\ Len(b) \in Nat /\ Len(Tail(b)) = Len(b) - 1 /\ Len(Tail(b)) \in Nat
           /\ Len(b) = 1 => Tail(b) = <<>> /\ b = <<Head(b)>> /\ Head(b) = b[1]
<1> DEFINE S == ToSet(b)
<1> HIDE DEF S
<1>0. b \in Seq(S)
  BY DEF S
<1>1. /\ Tail(b) \in Seq(S) /\ Len(b) \in Nat /\ Len(Tail(b)) = Len(b) - 1
      /\ Len(Tail(b)) \in Nat
  BY <1>0
<1>2. Tail(b) \in Seq(ToSet(Tail(b)))
  BY <1>1, OwnElements
<1>3. ASSUME Len(b) = 1 PROVE Tail(b) = <<>> /\ b = <<Head(b)>> /\ Head(b) = b[1]
  <2>1. Tail(b) = <<>>
    <3>1. Len(Tail(b)) = 0
      BY <1>1, <1>3
    <3> QED
      BY <1>1, <3>1, EmptySeq
  <2>2. Head(b) = b[1]
    BY <1>0, <1>3
  <2>3. b = <<b[1]>>
    <3>1. b = [i \in 1..1 |-> b[i]]
      BY <1>0, <1>3
    <3>2. \A i \in 1..1 : i = 1
      OBVIOUS
    <3>3. [i \in 1..1 |-> b[i]] = <<b[1]>>
      BY <3>2
    <3> QED
      BY <3>1, <3>3
  <2> QED
    BY <2>1, <2>2, <2>3
<1> QED
  BY <1>1, <1>2, <1>3

LEMMA AddedLast ==
    ASSUME NEW b, b \in Seq(ToSet(b)), NEW e
    PROVE  /\ Append(b, e) \in Seq(ToSet(Append(b, e)))
           /\ Len(b) \in Nat /\ Len(Append(b, e)) = Len(b) + 1
           /\ b = <<>> => Append(b, e) = <<e>>
<1> DEFINE S == ToSet(b) \cup {e}
<1> HIDE DEF S
<1>0. b \in Seq(S) /\ e \in S
  <2>1. ToSet(b) \subseteq S /\ e \in S
    BY DEF S
  <2>2. b = [i \in 1..Len(b) |-> b[i]] /\ Len(b) \in Nat /\ \A i \in 1..Len(b) : b[i] \in ToSet(b)
    OBVIOUS
  <2> QED
    BY <2>1, <2>2
<1>1. Append(b, e) \in Seq(S) /\ Len(b) \in Nat /\ Len(Append(b, e)) = Len(b) + 1
  BY <1>0
<1>2. Append(b, e) \in Seq(ToSet(Append(b, e)))
  BY <1>1, OwnElements
<1>3. b = <<>> => Append(b, e) = <<e>>
  BY <1>0
<1> QED
  BY <1>1, <1>2, <1>3

\* Runner p takes the first message out of its FIFO.
LEMMA ReceivedMessage ==
    ASSUME SystemInv, NEW p \in Pids, NEW m, Receive(p, m)
    PROVE  /\ inbox'[p] \in Seq(ToSet(inbox'[p]))
           /\ \A q \in Pids : q # p => inbox'[q] = inbox[q]
           /\ Len(inbox'[p]) <= PipeCapacity /\ DOMAIN inbox' = Pids
           /\ p \in Executors =>
                 inbox'[p] = <<>> /\ inbox[p] = <<m>> /\ m \in AckTo(p) \cup {ShutdownAck}
<1>1. /\ DOMAIN inbox = Pids /\ inbox' = [inbox EXCEPT ![p] = Tail(inbox[p])]
      /\ inbox[p] \in Seq(ToSet(inbox[p])) /\ inbox[p] # <<>> /\ m = Head(inbox[p])
      /\ Len(inbox[p]) <= PipeCapacity
  BY DEF SystemInv, TypeOK, ProtocolInv, InboxInv, Receive
<1>2. inbox'[p] = Tail(inbox[p]) /\ \A q \in Pids : q # p => inbox'[q] = inbox[q]
  BY <1>1
<1>3. p \in Executors => Len(inbox[p]) = 1 /\ inbox[p][1] \in AckTo(p) \cup {ShutdownAck}
  BY <1>1 DEF SystemInv, ProtocolInv, InboxInv
<1>4. /\ Tail(inbox[p]) \in Seq(ToSet(Tail(inbox[p])))
      /\ Len(inbox[p]) \in Nat /\ Len(Tail(inbox[p])) = Len(inbox[p]) - 1
      /\ Len(inbox[p]) = 1 =>
            Tail(inbox[p]) = <<>> /\ inbox[p] = <<Head(inbox[p])>> /\ Head(inbox[p]) = inbox[p][1]
  BY <1>1, TakenFirst
<1>5. Len(inbox'[p]) <= PipeCapacity
  BY <1>1, <1>2, <1>4
<1> QED
  BY <1>1, <1>2, <1>3, <1>4, <1>5

LEMMA AckKeepsProtocol ==
    ASSUME SystemInv, NEW p \in Pids, ReceiveAck(p), UNCHANGED startVars
    PROVE  ProtocolInv'
<1> USE DEF ctlVars, config, jobVars, fairVars, stopVars, logVars, startVars
<1>0. PICK m \in ToSet(inbox[p]) :
        /\ p \in Executors
        /\ Receive(p, m)
        /\ rpc' = [rpc EXCEPT ![p] = IF m.type = "ACK" THEN "exec" ELSE "exit1"]
        /\ outgoing' = IF m.type # "ACK" THEN outgoing
                       ELSE [outgoing EXCEPT ![p] =
                                [type |-> "DONE", sender_pid |-> p,
                                 user_id |-> m.user_id, command_id |-> m.command_id]]
  BY DEF ReceiveAck
<1>1. /\ FifoInv /\ TakenInv /\ OutgoingInv /\ UnreadInv /\ JobInv /\ WaitingInv
      /\ ReplyInv /\ RequesterInv /\ InboxInv /\ ClaimInv /\ AdriftInv /\ LogInv
  BY DEF SystemInv, ProtocolInv
<1>2. /\ rpc \in [Pids -> RunnerPoints] /\ outgoing \in [Pids -> Messages]
      /\ rpc[p] = "reply_read"
      /\ UNCHANGED <<adrift, jobVars, logVars, stopVars, pc, reply, lost, srv_buf>>
  BY <1>0 DEF SystemInv, TypeOK, Receive
<1>3. /\ inbox[p] = <<m>> /\ m \in AckTo(p) \cup {ShutdownAck} /\ inbox'[p] = <<>>
      /\ \A q \in Pids : q # p => inbox'[q] = inbox[q]
      /\ inbox'[p] \in Seq(ToSet(inbox'[p]))
  BY <1>0, ReceivedMessage
<1>4. \A q \in Pids : q # p => rpc'[q] = rpc[q] /\ outgoing'[q] = outgoing[q]
  BY <1>0, <1>2
<1>5. /\ ~IsDone(p) /\ p \notin Waiting /\ ~Sending(p) /\ outgoing[p] = Request(p)
      /\ inbox[p] # <<>>
  <2>1. inbox[p] # <<>>
    BY <1>0 DEF Receive
  <2>2. ~IsDone(p) /\ outgoing[p] = Request(p)
    BY <1>1, <2>1, DoneRunners
  <2>3. p \notin Waiting /\ ~Sending(p)
    BY <1>0, <1>1, <2>1 DEF ReplyInv, WaitingInv, Sending
  <2> QED
    BY <2>1, <2>2, <2>3
<1>6. /\ UNCHANGED <<Waiting, Running, Logged, Fifo>>
      /\ \A q \in Pids : Sending(q)' <=> Sending(q)
      /\ \A q \in Pids : q # p => /\ IsDone(q)' <=> IsDone(q)
                                  /\ HasAck(q)' <=> HasAck(q)
                                  /\ Noticed(q)' <=> Noticed(q)
  BY <1>2, <1>3, <1>4 DEF Waiting, Running, Logged, Fifo, IsDone, Sending, HasAck, Noticed
<1>7. \A f \in Fifo : f.sender_pid \in Pids /\ f.sender_pid # p
  <2>1. \A f \in Fifo : f \in Messages
    BY DEF Fifo, ToSet, SystemInv, TypeOK
  <2> QED
    BY <1>1, <1>2, <2>1, MessageFields DEF FifoInv, Expecting
<1>8. outgoing[p] \notin Fifo /\ outgoing'[p] \notin Fifo
  <2>1. outgoing[p].sender_pid = p
    BY <1>1, DoneRunners
  <2>2. outgoing'[p].sender_pid = p
    BY <1>0, <1>2, <2>1
  <2> QED
    BY <1>7, <2>1, <2>2
<1>9. TakenInv'
  <2>1. ASSUME NEW f \in taken PROVE f.sender_pid \in Pids /\ f.sender_pid # p
    BY <1>2, TakenSender
  <2> QED
    BY <1>1, <1>2, <1>4, <1>6, <2>1 DEF TakenInv
<1>10. CASE m.type = "ACK"
  <2>1. /\ rpc'[p] = "exec"
        /\ outgoing'[p] = [type |-> "DONE", sender_pid |-> p,
                           user_id |-> m.user_id, command_id |-> m.command_id]
    BY <1>0, <1>2, <1>10
  <2>2. m.user_id \in Users /\ m.command_id = p
    BY <1>3, <1>10 DEF AckTo, ShutdownAck
  <2>3. IsDone(p)' /\ outgoing'[p] \in Messages /\ outgoing'[p].sender_pid = p
    BY <2>1, <2>2 DEF IsDone, Messages
  <2>4. HasAck(p)
    BY <1>3, <1>10 DEF HasAck
  <2>5. ~HasAck(p)'
    BY <1>3 DEF HasAck
  <2>6. FifoInv'
    BY <1>1, <1>2, <1>4, <1>6, <1>7 DEF FifoInv
  <2>7. OutgoingInv'
    BY <1>0, <1>1, <1>3, <1>4, <1>6, <2>1, <2>3 DEF OutgoingInv
  <2>8. UnreadInv'
    BY <1>1, <1>4, <1>6, <2>3 DEF UnreadInv, Unread
  <2>9. JobInv'
    BY <1>1, <1>2, <1>6 DEF JobInv
  <2>10. WaitingInv'
    BY <1>1, <1>3, <1>4, <1>5, <1>6 DEF WaitingInv, JobInv
  <2>11. ReplyInv'
    BY <1>1, <1>2, <1>3, <1>4, <1>5, <1>6 DEF ReplyInv, Sending
  <2>12. RequesterInv'
    BY <1>0, <1>1, <1>2, <1>4 DEF RequesterInv
  <2>13. InboxInv'
    BY <1>1, <1>3, <1>4, <1>6 DEF InboxInv
  <2>14. ClaimInv'
    <3>1. ASSUME NEW q \in Executors, Claims(q)' PROVE Claims(q)
      BY <1>2, <1>4, <1>6, <2>4, <3>1 DEF Claims
    <3> QED
      BY <1>1, <1>2, <1>6, <3>1 DEF ClaimInv
  <2>15. AdriftInv'
    BY <1>1, <1>2, <1>6, <2>3 DEF AdriftInv
  <2>16. LogInv'
    BY <1>1, <1>2, <1>4, <1>6, <2>1 DEF LogInv
  <2> QED
    BY <1>9, <2>6, <2>7, <2>8, <2>9, <2>10, <2>11, <2>12, <2>13, <2>14, <2>15, <2>16
    DEF ProtocolInv
<1>11. CASE m.type # "ACK"
  <2>1. rpc'[p] = "exit1" /\ outgoing' = outgoing
    BY <1>0, <1>2, <1>11
  <2>2. ~HasAck(p) /\ ~HasAck(p)' /\ ~IsDone(p)'
    BY <1>3, <1>5, <1>11, <2>1 DEF HasAck, IsDone
  <2>3. p \notin adrift
    BY <1>1, <1>5, <2>2 DEF AdriftInv
  <2>4. FifoInv'
    BY <1>1, <1>2, <1>4, <1>6, <1>7 DEF FifoInv
  <2>5. OutgoingInv'
    BY <1>0, <1>1, <1>3, <1>4, <1>5, <1>6, <2>1 DEF OutgoingInv
  <2>6. UnreadInv'
    BY <1>1, <1>4, <1>6, <1>8, <2>1 DEF UnreadInv, Unread, Unsent
  <2>7. JobInv'
    BY <1>1, <1>2, <1>6 DEF JobInv
  <2>8. WaitingInv'
    BY <1>1, <1>3, <1>4, <1>5, <1>6 DEF WaitingInv, JobInv
  <2>9. ReplyInv'
    BY <1>1, <1>2, <1>3, <1>4, <1>5, <1>6 DEF ReplyInv, Sending
  <2>10. RequesterInv'
    BY <1>0, <1>1, <1>2, <1>4 DEF RequesterInv
  <2>11. InboxInv'
    BY <1>1, <1>3, <1>4, <1>6 DEF InboxInv
  <2>12. ClaimInv'
    <3>1. ASSUME NEW q \in Executors, Claims(q)' PROVE Claims(q)
      BY <1>2, <1>4, <1>6, <2>2, <3>1 DEF Claims
    <3> QED
      BY <1>1, <1>2, <1>6, <3>1 DEF ClaimInv
  <2>13. AdriftInv'
    BY <1>1, <1>2, <1>6, <2>3 DEF AdriftInv
  <2>14. LogInv'
    BY <1>1, <1>2, <1>4, <1>6, <2>2 DEF LogInv
  <2> QED
    BY <1>9, <2>4, <2>5, <2>6, <2>7, <2>8, <2>9, <2>10, <2>11, <2>12, <2>13, <2>14
    DEF ProtocolInv
<1> QED
  BY <1>10, <1>11

\* A status or shutdown client reads one message.
LEMMA ClientReceives ==
    ASSUME SystemInv, NEW p \in Pids \ Executors, NEW m, Receive(p, m),
           rpc'[p] \in {"reply_read", "exit0"},
           \A q \in Pids : q # p => rpc'[q] = rpc[q],
           UNCHANGED <<outgoing, startVars>>
    PROVE  ProtocolInv'
<1> USE DEF ctlVars, config, jobVars, fairVars, stopVars, logVars, startVars
<1>1. /\ FifoInv /\ TakenInv /\ OutgoingInv /\ UnreadInv /\ JobInv /\ WaitingInv
      /\ ReplyInv /\ RequesterInv /\ InboxInv /\ ClaimInv /\ AdriftInv /\ LogInv
  BY DEF SystemInv, ProtocolInv
<1>2. /\ rpc[p] = "reply_read"
      /\ UNCHANGED <<adrift, jobVars, logVars, stopVars, pc, reply, lost, srv_buf>>
  BY DEF Receive
<1>3. /\ \A q \in Pids : q # p => inbox'[q] = inbox[q]
      /\ inbox'[p] \in Seq(ToSet(inbox'[p]))
  BY ReceivedMessage
<1>4. /\ UNCHANGED <<Waiting, Running, Logged, Fifo>>
      /\ \A q \in Pids : /\ Sending(q)' <=> Sending(q)
                         /\ IsDone(q)' <=> IsDone(q)
      /\ \A q \in Pids : q # p => /\ HasAck(q)' <=> HasAck(q)
                                  /\ Noticed(q)' <=> Noticed(q)
  BY <1>2, <1>3 DEF Waiting, Running, Logged, Fifo, IsDone, Sending, HasAck, Noticed
<1>5. \A f \in Fifo : f.sender_pid \in Pids /\ f.sender_pid # p
  <2>1. \A f \in Fifo : f \in Messages
    BY DEF Fifo, ToSet, SystemInv, TypeOK
  <2> QED
    BY <1>1, <1>2, <2>1, MessageFields DEF FifoInv, Expecting
<1>6. outgoing[p] \notin Fifo /\ ~IsDone(p) /\ outgoing[p] = Request(p)
  BY <1>1, <1>5, DoneRunners
<1>7. FifoInv'
  BY <1>1, <1>2, <1>4, <1>5 DEF FifoInv
<1>8. OutgoingInv'
  BY <1>1, <1>3, <1>4, <1>6 DEF OutgoingInv
<1>9. UnreadInv'
  BY <1>1, <1>4, <1>6 DEF UnreadInv, Unread, Unsent
<1>10. JobInv'
  BY <1>1, <1>2, <1>4 DEF JobInv
<1>11. WaitingInv'
  BY <1>1, <1>3, <1>4 DEF WaitingInv, JobInv
<1>12. ReplyInv'
  BY <1>1, <1>2, <1>3, <1>4 DEF ReplyInv, Expecting
<1>13. RequesterInv'
  BY <1>1, <1>2 DEF RequesterInv, Expecting
<1>14. InboxInv'
  BY <1>1, <1>3, <1>4 DEF InboxInv
<1>15. ClaimInv'
  <2>1. ASSUME NEW q \in Executors, Claims(q)' PROVE Claims(q)
    BY <1>2, <1>4, <2>1 DEF Claims
  <2> QED
    BY <1>1, <1>2, <1>4, <2>1 DEF ClaimInv
<1>16. AdriftInv'
  BY <1>1, <1>2, <1>4 DEF AdriftInv
<1>17. LogInv'
  BY <1>1, <1>2, <1>4 DEF LogInv
<1>18. TakenInv'
  <2>1. ASSUME NEW f \in taken PROVE f.sender_pid \in Pids /\ f.sender_pid # p
    BY TakenSender
  <2> QED
    BY <1>1, <1>2, <1>4, <2>1 DEF TakenInv
<1> QED
  BY <1>7, <1>8, <1>9, <1>10, <1>11, <1>12, <1>13, <1>14, <1>15, <1>16, <1>17, <1>18
  DEF ProtocolInv

\* Every step of a runner keeps the invariant.
LEMMA RunnersKeepProtocol ==
    ASSUME SystemInv, NEW p \in Pids, Start(p) \/ RunnerStep(p) \/ Kill(p)
    PROVE  ProtocolInv'
<1> USE DEF ctlVars, config, jobVars, fairVars, stopVars, logVars, startVars, fifoVars
<1>0. /\ rpc \in [Pids -> RunnerPoints] /\ ReplyInv /\ InboxInv
  BY DEF SystemInv, ProtocolInv, TypeOK
<1>1. UNCHANGED fifoVars => FifoShrinks
  BY DEF FifoShrinks, Fifo
<1>2. UNCHANGED startVars
  BY DEF Start, RunnerStep, Kill
<1>3. ASSUME NEW from, NEW to, Move(p, from, to), LegalMove(p, to) PROVE ProtocolInv'
  <2>1. /\ rpc' = [rpc EXCEPT ![p] = to]
        /\ UNCHANGED <<ctlVars, fifoVars, outgoing>>
    BY <1>3 DEF Move, GoTo
  <2> QED
    BY <1>1, <1>2, <1>3, <2>1, RunnerMoves
<1>4. CASE Start(p)
  BY <1>3, <1>4 DEF Start, LegalMove, Move, GoTo
<1>5. CASE SendFails(p)
  BY <1>3, <1>5 DEF SendFails, LegalMove, Move, GoTo
<1>6. CASE SendOpen(p)
  <2>1. /\ rpc[p] = "open" /\ rpc' = [rpc EXCEPT ![p] = "write"]
        /\ UNCHANGED <<fifoVars, outgoing, jobVars, logVars, stopVars, reply>>
        /\ pc' = pc \/ (pc = "opening" /\ pc' = "read")
    BY <1>6 DEF SendOpen, GoTo, OpenServerReturns, Goto
  <2>2. LegalMove(p, "write")
    BY <2>1 DEF LegalMove
  <2> QED
    BY <1>1, <1>2, <2>1, <2>2, RunnerMoves
<1>7. CASE SendOpenBlocks(p)
  BY <1>3, <1>7 DEF SendOpenBlocks, LegalMove, Move, GoTo
<1>8. CASE SendWrite(p)
  BY <1>2, <1>8, WriteKeepsProtocol
<1>9. CASE SendWriteFatal(p)
  <2>1. /\ rpc[p] = "write" /\ rpc' = [rpc EXCEPT ![p] = "killed"]
        /\ UNCHANGED <<ctlVars, inbox, outgoing>>
    BY <1>9 DEF SendWriteFatal, GoTo
  <2>2. FifoShrinks
    BY <1>9 DEF SendWriteFatal, FifoShrinks, Fifo, ToSet
  <2>3. LegalMove(p, "killed")
    BY <2>1 DEF LegalMove
  <2> QED
    BY <1>2, <2>1, <2>2, <2>3, RunnerMoves
<1>10. CASE SendClose(p)
  <2> DEFINE to == IF IsDone(p) THEN "exit0" ELSE "reply_open"
  <2>1. /\ rpc[p] = "close" /\ rpc' = [rpc EXCEPT ![p] = to]
        /\ DropServerBuffer(~ServerHasReader /\ ServerWriters = {p})
        /\ UNCHANGED <<ctlVars, inbox, outgoing>>
    BY <1>10 DEF SendClose, GoTo, IsDone
  <2>2. FifoShrinks
    BY <2>1, DropShrinks
  <2>3. LegalMove(p, to)
    BY <2>1 DEF LegalMove
  <2> QED
    BY <1>2, <2>1, <2>2, <2>3, RunnerMoves
<1>11. CASE OpenPrivate(p)
  BY <1>3, <1>11 DEF OpenPrivate, LegalMove, Move, GoTo
<1>12. CASE ReceiveEof(p)
  <2>1. ~Sending(p)
    BY <1>0, <1>12 DEF ReceiveEof, HasPrivateWriter, Sending, Move, GoTo, ReplyInv, Expecting
  <2> QED
    BY <1>3, <1>12, <2>1 DEF ReceiveEof, LegalMove, Move, GoTo
<1>13. CASE ReceiveAck(p)
  BY <1>2, <1>13, AckKeepsProtocol
<1>14. CASE ReceiveStatus(p)
  <2>1. PICK m \in ToSet(inbox[p]) :
          /\ p \in StatusClients
          /\ Receive(p, m)
          /\ rpc' = [rpc EXCEPT ![p] = IF m.type = "STATUS_END" THEN "exit0" ELSE @]
          /\ UNCHANGED outgoing
    BY <1>14 DEF ReceiveStatus
  <2>2. rpc'[p] \in {"reply_read", "exit0"} /\ \A q \in Pids : q # p => rpc'[q] = rpc[q]
    BY <1>0, <2>1 DEF Receive
  <2> QED
    BY <1>2, <2>1, <2>2, ClientReceives
<1>15. CASE ReceiveShutdownAck(p)
  <2>1. PICK m \in ToSet(inbox[p]) :
          /\ p \in ShutdownClients
          /\ Receive(p, m)
          /\ rpc' = [rpc EXCEPT ![p] = IF m.type = "SHUTDOWN_ACK" THEN "exit0" ELSE @]
          /\ UNCHANGED outgoing
    BY <1>15 DEF ReceiveShutdownAck
  <2>2. rpc'[p] \in {"reply_read", "exit0"} /\ \A q \in Pids : q # p => rpc'[q] = rpc[q]
    BY <1>0, <2>1 DEF Receive
  <2> QED
    BY <1>2, <2>1, <2>2, ClientReceives
<1>16. CASE Execute(p)
  BY <1>3, <1>16 DEF Execute, LegalMove, Move, GoTo
<1>17. CASE Kill(p)
  <2>1. /\ rpc[p] \notin {"start", "exit0", "exit1"} /\ rpc' = [rpc EXCEPT ![p] = "killed"]
        /\ DropServerBuffer(~ServerHasReader /\ ServerWriters = {p})
        /\ UNCHANGED <<ctlVars, inbox, outgoing>>
    BY <1>17 DEF Kill
  <2>2. FifoShrinks
    BY <2>1, DropShrinks
  <2>3. LegalMove(p, "killed")
    BY <2>1 DEF LegalMove
  <2> QED
    BY <1>2, <2>1, <2>2, <2>3, RunnerMoves
<1> QED
  BY <1>4, <1>5, <1>6, <1>7, <1>8, <1>9, <1>10, <1>11, <1>12, <1>13, <1>14, <1>15, <1>16,
     <1>17 DEF RunnerStep, ipc_send_atomic

------------------------------------------------------------------------------
(* The controller *)

\* Steps that send nothing and handle no message: the FIFO may lose what it
\* holds, runners that wait in open() may go on, and main() may give up.
LEMMA QuietSteps ==
    ASSUME SystemInv, FifoShrinks,
           UNCHANGED <<inbox, outgoing, adrift, log, taken, is_shutting_down,
                       shutdown_requester_pid>>,
           \A q \in Pids : rpc'[q] = rpc[q] \/ (rpc[q] = "wait" /\ rpc'[q] = "write"),
           pc' \notin {"send_open", "send_write"} \/ UNCHANGED <<pc, reply>>,
           pc = "failed" => pc' = "failed",
           pc \in {"done", "killed"} => pc' = pc \/ pc' = "killed",
           \/ UNCHANGED <<waiting_queue, running_queue>>
           \/ pc' = "failed" /\ waiting_queue' = <<>> /\ running_queue' = <<>>,
           keep_running' /\ reply'.next # "stop" => keep_running /\ reply.next # "stop"
    PROVE  ProtocolInv'
<1>1. /\ FifoInv /\ TakenInv /\ OutgoingInv /\ UnreadInv /\ JobInv /\ WaitingInv
      /\ ReplyInv /\ RequesterInv /\ InboxInv /\ ClaimInv /\ AdriftInv /\ LogInv
  BY DEF SystemInv, ProtocolInv
<1>2. /\ Waiting' \subseteq Waiting /\ Running' \subseteq Running /\ Logged' = Logged
      /\ UNCHANGED <<waiting_queue, running_queue>> =>
            Waiting' = Waiting /\ Running' = Running
  BY DEF Waiting, Running, Logged, CommandIds
<1>3. \A q \in Pids : /\ IsDone(q)' <=> IsDone(q)
                      /\ HasAck(q)' <=> HasAck(q)
                      /\ Sending(q)' => Sending(q)
  BY DEF IsDone, HasAck, Sending
<1>4. \A m \in Fifo : m.sender_pid \in Pids /\ m \in Messages
  BY MessageFields DEF SystemInv, TypeOK, Fifo, ToSet
<1>5. FifoInv'
  <2>1. \A i, j \in 1..Len(srv_buf') : srv_buf'[i] = srv_buf'[j] => i = j
    BY <1>1 DEF FifoInv, FifoShrinks
  <2>2. \A m \in Fifo' : m \in Fifo
    BY DEF FifoShrinks
  <2> QED
    BY <1>1, <1>4, <2>1, <2>2 DEF FifoInv, Expecting
<1>6. OutgoingInv'
  BY <1>1, <1>3, DoneRunners DEF OutgoingInv
<1>7. UnreadInv'
  <2>1. ASSUME NEW q \in Pids, Unread(q)' PROVE Unread(q)
    BY <1>3, <2>1 DEF Unread, Unsent, FifoShrinks
  <2>2. ASSUME NEW q \in Pids, Noticed(q)' PROVE Noticed(q)
    BY <1>2, <1>3, <2>2 DEF Noticed
  <2> QED
    BY <1>1, <2>1, <2>2 DEF UnreadInv
<1>8. JobInv'
  <2>1. CASE UNCHANGED <<waiting_queue, running_queue>>
    BY <1>1, <1>2, <2>1 DEF JobInv
  <2>2. CASE waiting_queue' = <<>> /\ running_queue' = <<>>
    BY <1>1, <1>2, <2>2 DEF JobInv, NoneTwice
  <2> QED
    BY <2>1, <2>2
<1>9. WaitingInv'
  BY <1>1, <1>2, <1>3 DEF WaitingInv, JobInv, Expecting
<1>10. ReplyInv'
  BY <1>1, <1>2, <1>3 DEF ReplyInv, Expecting
<1>11. RequesterInv'
  BY <1>1 DEF RequesterInv, Expecting
<1>12. InboxInv'
  BY <1>1, <1>3 DEF InboxInv
<1>13. ClaimInv'
  <2>1. ASSUME NEW q \in Pids, Claims(q)' PROVE Claims(q)
    BY <1>3, <2>1 DEF Claims, FifoShrinks
  <2> QED
    BY <1>1, <1>2, <2>1 DEF ClaimInv
<1>14. AdriftInv'
  BY <1>1, <1>3 DEF AdriftInv
<1>15. LogInv'
  BY <1>1, <1>2, <1>3 DEF LogInv, FifoShrinks
<1>16. TakenInv'
  <2>1. ASSUME NEW m \in taken PROVE m.sender_pid \in Pids
    BY TakenSender
  <2> QED
    BY <1>1, <2>1 DEF TakenInv, FifoShrinks
<1> QED
  BY <1>5, <1>6, <1>7, <1>8, <1>9, <1>10, <1>11, <1>12, <1>13, <1>14, <1>15, <1>16
  DEF ProtocolInv

\* What reading a message does whatever its handler does.
LEMMA ReadFrame ==
    ASSUME SystemInv, CtlRead, UNCHANGED startVars,
           NEW m, m = Head(srv_buf), NEW p, p = m.sender_pid
    PROVE  /\ m \in Messages /\ m \in Fifo /\ p \in Pids /\ outgoing[p] = m /\ pc = "read"
           /\ Fifo' = Fifo \ {m} /\ taken = {}
           /\ UNCHANGED <<inbox, outgoing, rpc, adrift, lost>>
           /\ ~IsDone(p) => ~Noticed(p) /\ rpc[p] \in Expecting
           /\ \A q \in Pids : Unread(q)' => Unread(q) /\ q # p
           /\ FifoInv' /\ OutgoingInv' /\ InboxInv' /\ AdriftInv'
<1>1. FifoInv /\ TakenInv /\ OutgoingInv /\ UnreadInv /\ InboxInv /\ AdriftInv
  BY DEF SystemInv, ProtocolInv
<1>2. /\ srv_buf \in Seq(Messages) /\ srv_buf # <<>> /\ srv_buf' = Tail(srv_buf) /\ pc = "read"
      /\ UNCHANGED <<inbox, outgoing, rpc, adrift, lost>>
  BY DEF SystemInv, TypeOK, CtlRead, runnerVars, startVars
<1>3. /\ m \in Fifo /\ Fifo' = Fifo \ {m}
      /\ \A i, j \in 1..Len(srv_buf') : srv_buf'[i] = srv_buf'[j] => i = j
  BY <1>1, <1>2, ReadMessage DEF FifoInv, Fifo
<1>4. \A f \in Fifo : f \in Messages /\ f.sender_pid \in Pids
  BY <1>2, MessageFields DEF Fifo, ToSet
<1>5. outgoing[p] = m /\ p \in Pids
  BY <1>1, <1>3, <1>4 DEF FifoInv
<1>6. ~IsDone(p) => ~Noticed(p) /\ rpc[p] \in Expecting
  BY <1>1, <1>3, <1>5 DEF FifoInv, UnreadInv, Unread, IsDone
<1>7. \A q \in Pids : /\ IsDone(q)' <=> IsDone(q)
                      /\ HasAck(q)' <=> HasAck(q)
  BY <1>2 DEF IsDone, HasAck
<1>8. ASSUME NEW q \in Pids, Unread(q)' PROVE Unread(q) /\ q # p
  <2>1. rpc[p] \notin Unsent
    BY <1>1, <1>3 DEF FifoInv, Unsent, Expecting
  <2> QED
    BY <1>2, <1>3, <1>5, <1>7, <1>8, <2>1 DEF Unread
<1>9. FifoInv'
  BY <1>1, <1>2, <1>3 DEF FifoInv
<1>10. OutgoingInv' /\ InboxInv' /\ AdriftInv'
  BY <1>1, <1>2, <1>7 DEF OutgoingInv, InboxInv, AdriftInv
<1>11. taken = {}
  BY <1>1, <1>2 DEF TakenInv
<1> QED
  BY <1>2, <1>3, <1>4, <1>5, <1>6, <1>8, <1>9, <1>10, <1>11

\* The handlers that put no job anywhere: an answer to a submission that comes
\* too late, a status report, a shutdown request.
LEMMA OtherMessages ==
    ASSUME SystemInv, CtlRead, UNCHANGED startVars, NEW m, m = Head(srv_buf),
           reject_submit(m) \/ handle_status_req(m) \/ handle_shutdown_req(m)
    PROVE  ProtocolInv'
<1> USE DEF config, jobVars, fairVars, stopVars, logVars
<1> DEFINE p == m.sender_pid
<1>1. /\ FifoInv /\ TakenInv /\ OutgoingInv /\ UnreadInv /\ JobInv /\ WaitingInv
      /\ ReplyInv /\ RequesterInv /\ InboxInv /\ ClaimInv /\ AdriftInv /\ LogInv
  BY DEF SystemInv, ProtocolInv
<1>2. /\ m \in Messages /\ m \in Fifo /\ p \in Pids /\ outgoing[p] = m /\ pc = "read"
      /\ Fifo' = Fifo \ {m} /\ taken = {}
      /\ UNCHANGED <<inbox, outgoing, rpc, adrift, lost>>
      /\ ~IsDone(p) => ~Noticed(p) /\ rpc[p] \in Expecting
      /\ \A q \in Pids : Unread(q)' => Unread(q) /\ q # p
      /\ FifoInv' /\ OutgoingInv' /\ InboxInv' /\ AdriftInv'
  BY ReadFrame
<1>3. /\ UNCHANGED <<waiting_queue, running_queue, log, taken, keep_running>>
      /\ m.type \in {"SUBMIT", "STATUS_REQ", "SHUTDOWN_REQ"}
  BY DEF reject_submit, handle_status_req, handle_shutdown_req
<1>4. ~IsDone(p) /\ ~Noticed(p) /\ rpc[p] \in Expecting /\ outgoing[p] = Request(p)
  BY <1>1, <1>2, <1>3, DoneRunners DEF IsDone
<1>5. /\ UNCHANGED <<Waiting, Running, Logged>>
      /\ \A q \in Pids : /\ IsDone(q)' <=> IsDone(q)
                         /\ HasAck(q)' <=> HasAck(q)
  BY <1>2, <1>3 DEF Waiting, Running, Logged, IsDone, HasAck
<1>6. /\ m.type = "SUBMIT" => p \in Executors
      /\ m.type = "STATUS_REQ" => p \in StatusClients
      /\ m.type = "SHUTDOWN_REQ" => p \in ShutdownClients
  BY <1>2, <1>4, RequestFields
<1>7. \/ /\ pc' = "send_open" /\ reply'.to = p
         /\ \/ /\ p \in Executors /\ reply'.kind = "shutdown"
               /\ reply'.msgs = <<ShutdownAck>> /\ reply'.next = "read"
            \/ p \in StatusClients /\ reply'.kind = "status" /\ reply'.next = "finish"
      \/ pc' = "finish" /\ UNCHANGED reply
  BY <1>2, <1>6 DEF reject_submit, handle_status_req, handle_shutdown_req, Send,
                    send_shutdown_ack_to_runner
<1>8. \/ UNCHANGED <<is_shutting_down, shutdown_requester_pid>>
      \/ /\ is_shutting_down' = TRUE /\ shutdown_requester_pid' = p
         /\ p \in ShutdownClients
  BY <1>2, <1>6 DEF reject_submit, handle_status_req, handle_shutdown_req
<1>9. /\ keep_running /\ reply.next # "stop" /\ \A q \in Pids : ~Sending(q)
      /\ \A q \in Pids : Sending(q)' => q = p
  BY <1>2, <1>7 DEF SystemInv, StopInv, Sending
<1> HIDE DEF p
<1>10. UnreadInv'
  BY <1>1, <1>2, <1>5, <1>8, <1>9 DEF UnreadInv, Noticed
<1>11. JobInv'
  BY <1>1, <1>3, <1>5 DEF JobInv
<1>12. WaitingInv'
  BY <1>1, <1>2, <1>4, <1>5, <1>9 DEF WaitingInv, JobInv, Noticed
<1>13. ReplyInv'
  BY <1>2, <1>4, <1>5, <1>7 DEF ReplyInv, Noticed
<1>14. RequesterInv'
  BY <1>1, <1>2, <1>4, <1>8, <1>9 DEF RequesterInv
<1>15. ClaimInv'
  <2>1. ASSUME NEW q \in Pids, Claims(q)' PROVE Claims(q)
    BY <1>2, <1>3, <1>5, <2>1 DEF Claims
  <2> QED
    BY <1>1, <1>2, <1>5, <2>1 DEF ClaimInv
<1>16. LogInv'
  <2>1. \A q \in Pids : IsDone(q) /\ outgoing[q] \in Fifo => outgoing[q] \in Fifo'
    BY <1>2, <1>4 DEF IsDone
  <2> QED
    BY <1>1, <1>2, <1>3, <1>5, <2>1 DEF LogInv
<1>17. TakenInv'
  BY <1>2, <1>3 DEF TakenInv
<1> QED
  BY <1>2, <1>10, <1>11, <1>12, <1>13, <1>14, <1>15, <1>16, <1>17 DEF ProtocolInv

LEMMA SubmitMessage ==
    ASSUME SystemInv, CtlRead, UNCHANGED startVars, NEW m, m = Head(srv_buf), handle_submit(m)
    PROVE  ProtocolInv'
<1> USE DEF config, jobVars, fairVars, stopVars, logVars
<1> DEFINE p == m.sender_pid
           job == [command_id |-> m.command_id, user_id |-> m.user_id,
                   runner_pid |-> m.sender_pid, start_time |-> clock]
<1>1. /\ FifoInv /\ TakenInv /\ OutgoingInv /\ UnreadInv /\ JobInv /\ WaitingInv
      /\ ReplyInv /\ RequesterInv /\ InboxInv /\ ClaimInv /\ AdriftInv /\ LogInv
  BY DEF SystemInv, ProtocolInv
<1>2. /\ m \in Messages /\ m \in Fifo /\ p \in Pids /\ outgoing[p] = m /\ pc = "read"
      /\ Fifo' = Fifo \ {m} /\ taken = {}
      /\ UNCHANGED <<inbox, outgoing, rpc, adrift, lost>>
      /\ ~IsDone(p) => ~Noticed(p) /\ rpc[p] \in Expecting
      /\ \A q \in Pids : Unread(q)' => Unread(q) /\ q # p
      /\ FifoInv' /\ OutgoingInv' /\ InboxInv' /\ AdriftInv'
  BY ReadFrame
<1>3. m.type = "SUBMIT" /\ UNCHANGED <<log, taken, stopVars>>
  BY DEF handle_submit
<1>4. ~IsDone(p) /\ ~Noticed(p) /\ rpc[p] \in Expecting /\ outgoing[p] = Request(p)
  BY <1>1, <1>2, <1>3, DoneRunners DEF IsDone
<1>5. p \in Executors /\ m.command_id = p /\ m.user_id \in Users
  <2>1. p \in Executors
    BY <1>2, <1>3, <1>4, RequestFields
  <2>2. m.command_id = m.sender_pid
    BY <1>2, <1>3 DEF Messages
  <2> QED
    BY <1>2, <1>3, <2>1, <2>2, MessageFields
<1>6. /\ job \in Jobs /\ job.command_id = p /\ job.runner_pid = p /\ job.user_id \in Users
  BY <1>2, <1>5 DEF Jobs, SystemInv, TypeOK, CtlTypeOK
<1>7. /\ waiting_queue \in Seq(Jobs) /\ running_queue \in Seq(Jobs)
      /\ p \notin Waiting /\ p \notin Running /\ p \notin Logged /\ inbox[p] = <<>>
      /\ ~(is_shutting_down /\ shutdown_requester_pid = p)
  BY <1>4 DEF SystemInv, TypeOK, CtlTypeOK, Noticed
<1>8. /\ keep_running /\ reply.next # "stop" /\ \A q \in Pids : ~Sending(q)
  BY <1>2 DEF SystemInv, StopInv, Sending
<1>9. /\ Logged' = Logged
      /\ \A q \in Pids : /\ IsDone(q)' <=> IsDone(q)
                         /\ HasAck(q)' <=> HasAck(q)
  BY <1>2, <1>3 DEF Logged, IsDone, HasAck
<1>10. LogInv'
  <2>1. \A q \in Pids : IsDone(q) /\ outgoing[q] \in Fifo => outgoing[q] \in Fifo'
    BY <1>2, <1>4 DEF IsDone
  <2> QED
    BY <1>1, <1>2, <1>3, <1>9, <2>1 DEF LogInv
<1>11. ASSUME NEW q \in Pids, Claims(q)' PROVE Claims(q)
  BY <1>2, <1>3, <1>9, <1>11 DEF Claims
<1>12. TakenInv'
  BY <1>2, <1>3 DEF TakenInv
<1>13. SUFFICES UnreadInv' /\ JobInv' /\ WaitingInv' /\ ReplyInv' /\ RequesterInv' /\ ClaimInv'
  BY <1>2, <1>10, <1>12 DEF ProtocolInv
<1>14. CASE /\ running_queue' = queue_enqueue(running_queue, job)
            /\ send_ack_to_runner(job, "finish")
            /\ UNCHANGED waiting_queue
  <2>1. pc' = "send_open" /\ reply' = [to |-> p, kind |-> "ack", msgs |-> <<Ack(job)>>,
                                       next |-> "finish"]
    BY <1>14 DEF send_ack_to_runner, Send
  <2>2. Ack(job) \in AckTo(p)
    BY <1>5, <1>6 DEF Ack, AckTo
  <2> HIDE DEF job, p
  <2>3. running_queue' = Append(running_queue, job)
    BY <1>14 DEF queue_enqueue
  <2>4. Running' = Running \cup {p} /\ NoneTwice(running_queue') /\ Waiting' = Waiting
    BY <1>1, <1>6, <1>7, <1>14, <2>3, EnqueuedIds DEF Running, Waiting, JobInv
  <2>5. \A q \in Pids : Sending(q)' => q = p
    BY <2>1 DEF Sending
  <2>6. UnreadInv'
    BY <1>1, <1>2, <1>3, <1>9, <2>4, <2>5 DEF UnreadInv, Noticed
  <2>7. JobInv'
    BY <1>1, <1>3, <1>5, <1>7, <1>9, <1>14, <2>4 DEF JobInv
  <2>8. WaitingInv'
    BY <1>1, <1>2, <1>7, <1>9, <2>4, <2>5 DEF WaitingInv, JobInv
  <2>9. ReplyInv'
    BY <1>2, <1>4, <1>5, <1>7, <1>9, <2>1, <2>2, <2>4 DEF ReplyInv
  <2>10. RequesterInv'
    BY <1>1, <1>2, <1>3, <1>8 DEF RequesterInv
  <2>11. ClaimInv'
    BY <1>1, <1>2, <1>11, <2>4 DEF ClaimInv
  <2> QED
    BY <2>6, <2>7, <2>8, <2>9, <2>10, <2>11
<1>15. CASE /\ waiting_queue' = queue_enqueue(waiting_queue, job)
            /\ pc' = "finish"
            /\ UNCHANGED <<running_queue, reply>>
  <2> HIDE DEF job, p
  <2>1. waiting_queue' = Append(waiting_queue, job)
    BY <1>15 DEF queue_enqueue
  <2>2. Waiting' = Waiting \cup {p} /\ NoneTwice(waiting_queue') /\ Running' = Running
    BY <1>1, <1>6, <1>7, <1>15, <2>1, EnqueuedIds DEF Running, Waiting, JobInv
  <2>3. \A q \in Pids : ~Sending(q)'
    BY <1>15 DEF Sending
  <2>4. UnreadInv'
    BY <1>1, <1>2, <1>3, <1>9, <2>2, <2>3 DEF UnreadInv, Noticed
  <2>5. \A i \in 1..Len(waiting_queue') :
           waiting_queue'[i].runner_pid = waiting_queue'[i].command_id
    <3>1. /\ Len(waiting_queue) \in Nat /\ Len(waiting_queue') = Len(waiting_queue) + 1
          /\ \A i \in 1..Len(waiting_queue) : waiting_queue'[i] = waiting_queue[i]
          /\ waiting_queue'[Len(waiting_queue) + 1] = job
      BY <1>6, <1>7, <2>1
    <3> QED
      BY <1>1, <1>6, <3>1 DEF JobInv
  <2>6. JobInv'
    BY <1>1, <1>3, <1>5, <1>7, <1>9, <1>15, <2>2, <2>5 DEF JobInv
  <2>7. WaitingInv'
    BY <1>1, <1>2, <1>4, <1>7, <1>9, <2>2, <2>3 DEF WaitingInv, JobInv
  <2>8. ReplyInv'
    BY <1>15 DEF ReplyInv
  <2>9. RequesterInv'
    BY <1>1, <1>2, <1>3, <1>15 DEF RequesterInv
  <2>10. ClaimInv'
    BY <1>1, <1>2, <1>11, <2>2 DEF ClaimInv
  <2> QED
    BY <2>4, <2>6, <2>7, <2>8, <2>9, <2>10
<1>16. CASE pc' = "finish" /\ UNCHANGED <<waiting_queue, running_queue, reply>>
  <2> HIDE DEF job, p
  <2>1. Waiting' = Waiting /\ Running' = Running
    BY <1>16 DEF Waiting, Running
  <2>2. \A q \in Pids : ~Sending(q)'
    BY <1>16 DEF Sending
  <2>3. UnreadInv'
    BY <1>1, <1>2, <1>3, <1>9, <2>1, <2>2 DEF UnreadInv, Noticed
  <2>4. JobInv'
    BY <1>1, <1>3, <1>9, <1>16, <2>1 DEF JobInv
  <2>5. WaitingInv'
    BY <1>1, <1>2, <1>9, <2>1, <2>2 DEF WaitingInv, JobInv
  <2>6. ReplyInv'
    BY <1>16 DEF ReplyInv
  <2>7. RequesterInv'
    BY <1>1, <1>2, <1>3, <1>16 DEF RequesterInv
  <2>8. ClaimInv'
    BY <1>1, <1>2, <1>11, <2>1 DEF ClaimInv
  <2> QED
    BY <2>3, <2>4, <2>5, <2>6, <2>7, <2>8
<1> QED
  BY <1>14, <1>15, <1>16 DEF handle_submit

\* A DONE is read: it leaves the FIFO for the memory of the controller.
LEMMA TakeMessage ==
    ASSUME SystemInv, CtlRead, UNCHANGED startVars, NEW m, m = Head(srv_buf), take_done(m)
    PROVE  ProtocolInv'
<1> USE DEF config, jobVars, fairVars, stopVars
<1> DEFINE p == m.sender_pid
<1>1. /\ FifoInv /\ TakenInv /\ OutgoingInv /\ UnreadInv /\ JobInv /\ WaitingInv
      /\ ReplyInv /\ RequesterInv /\ InboxInv /\ ClaimInv /\ AdriftInv /\ LogInv
  BY DEF SystemInv, ProtocolInv
<1>2. /\ m \in Messages /\ m \in Fifo /\ p \in Pids /\ outgoing[p] = m /\ pc = "read"
      /\ Fifo' = Fifo \ {m} /\ taken = {}
      /\ UNCHANGED <<inbox, outgoing, rpc, adrift, lost>>
      /\ \A q \in Pids : Unread(q)' => Unread(q) /\ q # p
      /\ FifoInv' /\ OutgoingInv' /\ InboxInv' /\ AdriftInv'
  BY ReadFrame
<1>3. /\ m.type = "DONE" /\ taken' = {m} /\ pc' = "done"
      /\ UNCHANGED <<waiting_queue, running_queue, log, stopVars, reply>>
  BY DEF take_done
<1>4. rpc[p] \in {"close", "exit0", "killed"}
  BY <1>1, <1>2, <1>3 DEF FifoInv
<1>5. /\ UNCHANGED <<Waiting, Running, Logged>> /\ Fifo' \cup taken' = Fifo \cup taken
      /\ \A q \in Pids : /\ IsDone(q)' <=> IsDone(q)
                         /\ HasAck(q)' <=> HasAck(q)
                         /\ ~Sending(q)'
  BY <1>2, <1>3 DEF Waiting, Running, Logged, IsDone, HasAck, Sending
<1>6. TakenInv'
  BY <1>2, <1>3, <1>4 DEF TakenInv
<1> HIDE DEF p
<1>7. UnreadInv'
  <2>1. ASSUME NEW q \in Pids, Noticed(q)' PROVE Noticed(q)
    BY <1>2, <1>3, <1>5, <2>1 DEF Noticed
  <2> QED
    BY <1>1, <1>2, <2>1 DEF UnreadInv
<1>8. JobInv' /\ WaitingInv'
  BY <1>1, <1>2, <1>3, <1>5 DEF JobInv, WaitingInv
<1>9. ReplyInv' /\ RequesterInv'
  BY <1>1, <1>2, <1>3 DEF ReplyInv, RequesterInv
<1>10. ClaimInv'
  <2>1. ASSUME NEW q \in Pids, Claims(q)' PROVE Claims(q)
    BY <1>2, <1>5, <2>1 DEF Claims
  <2> QED
    BY <1>1, <1>2, <1>5, <2>1 DEF ClaimInv
<1>11. LogInv'
  BY <1>1, <1>2, <1>5 DEF LogInv
<1> QED
  BY <1>2, <1>6, <1>7, <1>8, <1>9, <1>10, <1>11 DEF ProtocolInv

\* The DONE that was read is carried out.
LEMMA DoneKeepsProtocol ==
    ASSUME SystemInv, NEW m \in taken, handle_done(m),
           UNCHANGED <<fifoVars, runnerVars, startVars>>
    PROVE  ProtocolInv'
<1> USE DEF config, jobVars, fairVars, stopVars, fifoVars, runnerVars, startVars
<1> DEFINE p == m.sender_pid
           nodes == NodesOfCommand(running_queue, m.command_id)
<1>1. /\ FifoInv /\ TakenInv /\ OutgoingInv /\ UnreadInv /\ JobInv /\ WaitingInv
      /\ ReplyInv /\ RequesterInv /\ InboxInv /\ ClaimInv /\ AdriftInv /\ LogInv
  BY DEF SystemInv, ProtocolInv
<1>2. /\ m \in Messages /\ m.type = "DONE" /\ p \in Executors /\ p \in Pids
      /\ outgoing[p] = m /\ IsDone(p) /\ m \notin Fifo /\ taken = {m}
      /\ rpc[p] \in {"close", "exit0", "killed"}
  BY TakenSender
<1>3. /\ UNCHANGED <<waiting_queue, stopVars, reply>>
      /\ pc = "done" /\ pc' = "start_waiting" /\ taken' = {}
  BY DEF handle_done
<1>4. m.command_id = p
  BY <1>2 DEF Messages
<1>5. /\ running_queue \in Seq(Jobs) /\ log \in Seq(Jobs)
  BY DEF SystemInv, TypeOK, CtlTypeOK
<1>6. p \notin adrift => p \in Running
  BY <1>1, <1>2, <1>3 DEF ClaimInv, Claims
<1>7. /\ UNCHANGED <<Waiting, Fifo>>
      /\ \A q \in Pids : /\ IsDone(q)' <=> IsDone(q)
                         /\ HasAck(q)' <=> HasAck(q)
                         /\ Unread(q)' <=> Unread(q)
                         /\ ~Sending(q)'
  BY <1>3 DEF Waiting, Fifo, IsDone, HasAck, Unread, Sending
<1>8. /\ Running' = Running \ {p} /\ NoneTwice(running_queue')
      /\ NoneTwice(log')
      /\ Logged \subseteq Logged' /\ Logged' \subseteq Logged \cup (Running \cap {p})
      /\ p \in Running /\ ~OpenMayFail => p \in Logged'
  <2>1. CASE nodes # {} /\ log_finished_job(running_queue[Min(nodes)])
    <3> DEFINE i == Min(nodes)
    <3>1. i \in 1..Len(running_queue)
      BY <1>5, <2>1, FoundNode
    <3>2. running_queue[i].command_id = p
      <4>1. nodes \in SUBSET Nat
        BY <1>5 DEF NodesOfCommand
      <4>2. i \in nodes
        BY <2>1, <4>1, MinIsLeast, Zenon
      <4> QED
        BY <1>4, <4>2 DEF NodesOfCommand
    <3>3. running_queue' = RemoveAt(running_queue, i)
      BY <2>1 DEF handle_done, queue_remove_by_command_id
    <3> HIDE DEF i, nodes, p
    <3>4. Running' = Running \ {p} /\ NoneTwice(running_queue')
      BY <1>1, <1>5, <3>1, <3>2, <3>3, RemovedIds DEF JobInv, Running
    <3>5. running_queue[i] \in Jobs /\ p \in Running
      BY <1>5, <3>1, <3>2 DEF Running, CommandIds
    <3>6. CASE log' = Append(log, running_queue[i])
      <4>1. p \notin Logged
        BY <1>1, <3>5 DEF JobInv
      <4>2. Logged' = Logged \cup {p} /\ NoneTwice(log')
        BY <1>1, <1>5, <3>2, <3>5, <3>6, <4>1, EnqueuedIds DEF JobInv, Logged
      <4> QED
        BY <3>4, <3>5, <4>2
    <3>7. CASE OpenMayFail /\ UNCHANGED log
      BY <1>1, <3>4, <3>5, <3>7 DEF JobInv, Logged
    <3> QED
      BY <2>1, <3>6, <3>7 DEF log_finished_job, i
  <2>2. CASE nodes = {} /\ UNCHANGED <<running_queue, log, running_count>>
    <3>1. p \notin Running
      BY <1>4, <1>5, <2>2 DEF NodesOfCommand, Running, CommandIds
    <3> HIDE DEF nodes, p
    <3> QED
      BY <1>1, <2>2, <3>1 DEF JobInv, Logged, Running
  <2> QED
    BY <2>1, <2>2 DEF handle_done
<1> HIDE DEF p, nodes
<1>9. UnreadInv'
  <2>1. ASSUME NEW q \in Pids, q # p, Noticed(q)' PROVE Noticed(q)
    BY <1>3, <1>7, <1>8, <2>1 DEF Noticed
  <2>2. ~Unread(p)
    BY <1>2 DEF Unread
  <2> QED
    BY <1>1, <1>7, <2>1, <2>2 DEF UnreadInv
<1>10. JobInv'
  BY <1>1, <1>3, <1>7, <1>8 DEF JobInv
<1>11. WaitingInv'
  BY <1>1, <1>7 DEF WaitingInv, JobInv
<1>12. ReplyInv'
  BY <1>3 DEF ReplyInv
<1>13. RequesterInv'
  BY <1>1, <1>3 DEF RequesterInv
<1>14. ClaimInv'
  <2>1. inbox[p] = <<>>
    BY <1>1, <1>2, DoneRunners
  <2>2. ~HasAck(p)
    BY <2>1 DEF HasAck
  <2>3. ASSUME NEW q \in Executors, Claims(q)' PROVE Claims(q) /\ q # p
    BY <1>2, <1>3, <1>7, <2>2, <2>3 DEF Claims
  <2> QED
    BY <1>1, <1>3, <1>8, <2>3 DEF ClaimInv
<1>15. LogInv'
  <2>1. \A q \in Pids : q # p => outgoing[q] \notin taken
    BY <1>1, <1>2, DoneRunners
  <2> QED
    BY <1>1, <1>2, <1>6, <1>7, <1>8, <2>1 DEF LogInv
<1>16. FifoInv' /\ TakenInv' /\ OutgoingInv' /\ InboxInv' /\ AdriftInv'
  BY <1>1, <1>3, <1>7 DEF FifoInv, TakenInv, OutgoingInv, InboxInv, AdriftInv
<1> QED
  BY <1>9, <1>10, <1>11, <1>12, <1>13, <1>14, <1>15, <1>16 DEF ProtocolInv

LEMMA RefillKeepsProtocol ==
    ASSUME SystemInv, start_waiting_jobs, UNCHANGED <<fifoVars, runnerVars, startVars>>
    PROVE  ProtocolInv'
<1> USE DEF config, jobVars, fairVars, stopVars, logVars, fifoVars, runnerVars, startVars
<1>1. /\ FifoInv /\ TakenInv /\ OutgoingInv /\ UnreadInv /\ JobInv /\ WaitingInv
      /\ ReplyInv /\ RequesterInv /\ InboxInv /\ ClaimInv /\ AdriftInv /\ LogInv
  BY DEF SystemInv, ProtocolInv
<1>0. /\ waiting_queue \in Seq(Jobs) /\ running_queue \in Seq(Jobs)
      /\ fair_users \in Seq(Int)
  <2>1. CtlTypeOK
    BY DEF SystemInv, TypeOK
  <2> QED
    BY <2>1, UsersAssumption DEF CtlTypeOK
<1>2. pc = "start_waiting" /\ UNCHANGED <<stopVars, log, taken>>
  BY DEF start_waiting_jobs
<1>3. /\ UNCHANGED <<Fifo, Logged>>
      /\ \A q \in Pids : /\ IsDone(q)' <=> IsDone(q)
                         /\ HasAck(q)' <=> HasAck(q)
                         /\ Unread(q)' <=> Unread(q)
                         /\ Claims(q)' <=> Claims(q)
  BY <1>2 DEF Fifo, Logged, IsDone, HasAck, Unread, Claims
<1>4. FifoInv' /\ TakenInv' /\ OutgoingInv' /\ InboxInv' /\ AdriftInv' /\ LogInv'
  BY <1>1, <1>2, <1>3 DEF FifoInv, TakenInv, OutgoingInv, InboxInv, AdriftInv, LogInv
<1>5. CASE ~SlotFree \/ waiting_queue = <<>>
  <2>1. pc' = "finish" /\ UNCHANGED <<jobVars, reply>>
    BY <1>5 DEF start_waiting_jobs
  <2>2. UNCHANGED fifoVars => FifoShrinks
    BY DEF FifoShrinks, Fifo
  <2> QED
    BY <1>2, <2>1, <2>2, QuietSteps
<1>6. CASE SlotFree /\ waiting_queue # <<>>
  <2>1. PICK i \in DequeueNodes(policy, waiting_queue, fair_users,
                                last_scheduled_user, AllocMayFail) :
          LET next_job == waiting_queue[i] IN
          /\ waiting_queue' = RemoveAt(waiting_queue, i)
          /\ \/ /\ running_queue' = queue_enqueue(running_queue, next_job)
                /\ send_ack_to_runner(next_job, "start_waiting")
             \/ UNCHANGED <<running_queue, running_count, pc, reply>>
    BY <1>6 DEF start_waiting_jobs
  <2> DEFINE next_job == waiting_queue[i]
             p == next_job.command_id
  <2>2. i \in 1..Len(waiting_queue)
    BY <1>0, <1>6, FailureAssumption, DequeuedNode
  <2>3. next_job \in Jobs /\ p \in Waiting /\ next_job.runner_pid = p
    BY <1>0, <1>1, <2>2 DEF Waiting, CommandIds, JobInv
  <2>4. next_job.user_id \in Users /\ p \in Pids
    BY <2>3 DEF Jobs
  <2>5. /\ Waiting' = Waiting \ {p} /\ NoneTwice(waiting_queue')
        /\ \A j \in 1..Len(waiting_queue') :
              waiting_queue'[j].runner_pid = waiting_queue'[j].command_id
    <3>1. /\ CommandIds(RemoveAt(waiting_queue, i)) = CommandIds(waiting_queue) \ {p}
          /\ NoneTwice(RemoveAt(waiting_queue, i))
          /\ \A j \in 1..Len(RemoveAt(waiting_queue, i)) :
                \E k \in 1..Len(waiting_queue) :
                    RemoveAt(waiting_queue, i)[j] = waiting_queue[k]
      BY <1>0, <1>1, <2>2, RemovedIds DEF JobInv
    <3>2. waiting_queue' = RemoveAt(waiting_queue, i)
      BY <2>1
    <3> HIDE DEF p, next_job
    <3>3. \A j \in 1..Len(waiting_queue') :
             \E k \in 1..Len(waiting_queue) : waiting_queue'[j] = waiting_queue[k]
      BY <3>1, <3>2
    <3> QED
      BY <1>1, <3>1, <3>2, <3>3 DEF Waiting, JobInv
  <2>6. /\ p \in Executors /\ ~IsDone(p) /\ rpc[p] \in Expecting /\ inbox[p] = <<>>
        /\ p \notin Running
    BY <1>1, <2>3 DEF WaitingInv, JobInv
  <2>7. CASE /\ running_queue' = queue_enqueue(running_queue, next_job)
             /\ send_ack_to_runner(next_job, "start_waiting")
    <3>1. pc' = "send_open" /\ reply' = [to |-> p, kind |-> "ack", msgs |-> <<Ack(next_job)>>,
                                         next |-> "start_waiting"]
      BY <2>3, <2>7 DEF send_ack_to_runner, Send
    <3>2. Ack(next_job) \in AckTo(p)
      BY <2>4 DEF Ack, AckTo
    <3> HIDE DEF next_job
    <3>3. running_queue' = Append(running_queue, next_job)
      BY <2>7 DEF queue_enqueue
    <3>4. Running' = Running \cup {p} /\ NoneTwice(running_queue')
      BY <1>0, <1>1, <2>3, <2>6, <3>3, EnqueuedIds DEF Running, JobInv
    <3> HIDE DEF p
    <3>5. \A q \in Pids : Sending(q)' => q = p
      BY <3>1 DEF Sending
    <3>6. UnreadInv'
      <4>1. ASSUME NEW q \in Pids, Noticed(q)' PROVE Noticed(q)
        BY <1>2, <1>3, <2>3, <2>5, <3>4, <3>5, <4>1 DEF Noticed
      <4> QED
        BY <1>1, <1>3, <4>1 DEF UnreadInv
    <3>7. JobInv'
      BY <1>1, <1>2, <1>3, <2>3, <2>5, <2>6, <3>4 DEF JobInv
    <3>8. WaitingInv'
      BY <1>1, <1>3, <2>5, <3>5 DEF WaitingInv, JobInv
    <3>9. ReplyInv'
      BY <1>3, <2>4, <2>6, <3>1, <3>2, <3>4 DEF ReplyInv
    <3>10. RequesterInv'
      BY <1>1, <1>2 DEF RequesterInv, SystemInv, StopInv
    <3>11. ClaimInv'
      BY <1>1, <1>2, <1>3, <3>4 DEF ClaimInv
    <3> QED
      BY <1>4, <3>6, <3>7, <3>8, <3>9, <3>10, <3>11 DEF ProtocolInv
  <2>8. CASE UNCHANGED <<running_queue, running_count, pc, reply>>
    <3> HIDE DEF next_job, p
    <3>1. Running' = Running /\ \A q \in Pids : ~Sending(q)'
      BY <1>2, <2>8 DEF Running, Sending
    <3>2. UnreadInv'
      <4>1. ASSUME NEW q \in Pids, Noticed(q)' PROVE Noticed(q)
        BY <1>2, <1>3, <2>5, <3>1, <4>1 DEF Noticed
      <4> QED
        BY <1>1, <1>3, <4>1 DEF UnreadInv
    <3>3. JobInv'
      BY <1>1, <1>2, <1>3, <2>5, <2>8, <3>1 DEF JobInv
    <3>4. WaitingInv'
      BY <1>1, <1>3, <2>5, <3>1 DEF WaitingInv, JobInv
    <3>5. ReplyInv'
      BY <1>2, <2>8 DEF ReplyInv
    <3>6. RequesterInv'
      BY <1>1, <1>2, <2>8 DEF RequesterInv
    <3>7. ClaimInv'
      BY <1>1, <1>2, <1>3, <2>8, <3>1 DEF ClaimInv
    <3> QED
      BY <1>4, <3>2, <3>3, <3>4, <3>5, <3>6, <3>7 DEF ProtocolInv
  <2> QED
    BY <2>1, <2>7, <2>8
<1> QED
  BY <1>5, <1>6

LEMMA FinishKeepsProtocol ==
    ASSUME SystemInv, try_finish_shutdown, UNCHANGED <<fifoVars, runnerVars, startVars>>
    PROVE  ProtocolInv'
<1> USE DEF config, jobVars, fairVars, stopVars, logVars, fifoVars, runnerVars, startVars
<1>1. /\ FifoInv /\ TakenInv /\ OutgoingInv /\ UnreadInv /\ JobInv /\ WaitingInv
      /\ ReplyInv /\ RequesterInv /\ InboxInv /\ ClaimInv /\ AdriftInv /\ LogInv
  BY DEF SystemInv, ProtocolInv
<1>2. pc = "finish" /\ UNCHANGED <<jobVars, stopVars, log, taken>>
  BY DEF try_finish_shutdown
<1>3. /\ UNCHANGED <<Fifo, Waiting, Running, Logged>>
      /\ \A q \in Pids : /\ IsDone(q)' <=> IsDone(q)
                         /\ HasAck(q)' <=> HasAck(q)
                         /\ Unread(q)' <=> Unread(q)
                         /\ Claims(q)' <=> Claims(q)
  BY <1>2 DEF Fifo, Waiting, Running, Logged, IsDone, HasAck, Unread, Claims
<1>4. CASE /\ is_shutting_down
           /\ Send(shutdown_requester_pid, "shutdown", <<ShutdownAck>>, "stop")
  <2>1. /\ pc' = "send_open"
        /\ reply' = [to |-> shutdown_requester_pid, kind |-> "shutdown",
                     msgs |-> <<ShutdownAck>>, next |-> "stop"]
    BY <1>4 DEF Send
  <2>2. keep_running /\ reply.next # "stop"
    BY <1>2 DEF SystemInv, StopInv
  <2>3. /\ shutdown_requester_pid \in ShutdownClients /\ shutdown_requester_pid \in Pids
        /\ rpc[shutdown_requester_pid] \in Expecting /\ ~IsDone(shutdown_requester_pid)
    BY <1>1, <1>4, <2>2, DoneRunners DEF RequesterInv
  <2>4. \A q \in Pids : Sending(q)' => q = shutdown_requester_pid
    BY <2>1 DEF Sending
  <2>5. UnreadInv'
    <3>1. ASSUME NEW q \in Pids, Noticed(q)' PROVE Noticed(q)
      BY <1>2, <1>3, <1>4, <2>4, <3>1 DEF Noticed
    <3> QED
      BY <1>1, <1>3, <3>1 DEF UnreadInv
  <2>6. WaitingInv'
    BY <1>1, <1>3, <2>3, <2>4 DEF WaitingInv, JobInv
  <2>7. ReplyInv'
    BY <1>3, <2>1, <2>3 DEF ReplyInv
  <2>8. RequesterInv'
    BY <1>1, <1>2, <2>1 DEF RequesterInv
  <2>9. FifoInv' /\ OutgoingInv' /\ JobInv' /\ InboxInv' /\ ClaimInv' /\ AdriftInv' /\ LogInv'
    BY <1>1, <1>2, <1>3
    DEF FifoInv, OutgoingInv, JobInv, InboxInv, ClaimInv, AdriftInv, LogInv
  <2>10. TakenInv'
    BY <1>1, <1>2 DEF TakenInv
  <2> QED
    BY <2>5, <2>6, <2>7, <2>8, <2>9, <2>10 DEF ProtocolInv
<1>5. CASE pc' = "read" /\ UNCHANGED reply
  <2>1. FifoShrinks
    BY DEF FifoShrinks, Fifo
  <2> QED
    BY <1>2, <1>5, <2>1, QuietSteps
<1> QED
  BY <1>4, <1>5 DEF try_finish_shutdown

\* The controller and the runner it answers have met in open().
LEMMA OpenReplyKeepsProtocol ==
    ASSUME SystemInv, OpenReply, GoTo(reply.to, "reply_opening", "reply_read"),
           UNCHANGED <<fifoVars, outgoing, startVars>>
    PROVE  ProtocolInv'
<1> USE DEF config, jobVars, fairVars, stopVars, logVars, fifoVars, startVars
<1> DEFINE p == reply.to
<1>1. /\ FifoInv /\ TakenInv /\ OutgoingInv /\ UnreadInv /\ JobInv /\ WaitingInv
      /\ ReplyInv /\ RequesterInv /\ InboxInv /\ ClaimInv /\ AdriftInv /\ LogInv
  BY DEF SystemInv, ProtocolInv
<1>2. /\ pc = "send_open" /\ pc' = "send_write" /\ UNCHANGED <<jobVars, stopVars, logVars, reply>>
      /\ rpc \in [Pids -> RunnerPoints] /\ rpc[p] = "reply_opening"
      /\ rpc' = [rpc EXCEPT ![p] = "reply_read"]
  BY DEF OpenReply, Goto, GoTo, SystemInv, TypeOK
<1>3. p \in Pids /\ ~IsDone(p) /\ Sending(p) /\ outgoing[p] = Request(p)
  BY <1>1, <1>2, DoneRunners DEF ReplyInv, Sending
<1>4. rpc'[p] = "reply_read" /\ \A q \in Pids : q # p => rpc'[q] = rpc[q]
  BY <1>2, <1>3
<1>5. /\ UNCHANGED <<Fifo, Waiting, Running, Logged>>
      /\ \A q \in Pids : /\ IsDone(q)' <=> IsDone(q)
                         /\ HasAck(q)' <=> HasAck(q)
                         /\ Sending(q)' <=> Sending(q)
                         /\ Noticed(q)' <=> Noticed(q)
  BY <1>2 DEF Fifo, Waiting, Running, Logged, IsDone, HasAck, Sending, Noticed
<1>6. outgoing[p] \notin Fifo
  BY <1>1, <1>3 DEF UnreadInv, Unread, Noticed
<1> HIDE DEF p
<1>7. FifoInv'
  <2>1. \A m \in Fifo : m.sender_pid \in Pids
    BY MessageFields DEF SystemInv, TypeOK, Fifo, ToSet
  <2> QED
    BY <1>1, <1>2, <1>4, <1>5, <1>6, <2>1 DEF FifoInv
<1>8. OutgoingInv'
  BY <1>1, <1>3, <1>4, <1>5 DEF OutgoingInv
<1>9. UnreadInv'
  BY <1>1, <1>4, <1>5, <1>6 DEF UnreadInv, Unread, Unsent
<1>10. WaitingInv'
  BY <1>1, <1>3, <1>4, <1>5 DEF WaitingInv, JobInv
<1>11. ReplyInv'
  BY <1>1, <1>2, <1>3, <1>4, <1>5 DEF ReplyInv, p
<1>12. RequesterInv'
  <2>1. p \in ShutdownClients => reply.next = "stop"
    BY <1>1, <1>2 DEF ReplyInv, p
  <2> QED
    BY <1>1, <1>2, <1>4, <2>1 DEF RequesterInv
<1>13. InboxInv'
  BY <1>1, <1>4, <1>5 DEF InboxInv
<1>14. ClaimInv'
  <2>1. ASSUME NEW q \in Pids, Claims(q)' PROVE Claims(q)
    BY <1>2, <1>4, <1>5, <2>1 DEF Claims
  <2> QED
    BY <1>1, <1>2, <1>5, <2>1 DEF ClaimInv
<1>15. LogInv'
  BY <1>1, <1>2, <1>4, <1>5 DEF LogInv
<1>16. JobInv' /\ AdriftInv' /\ TakenInv'
  BY <1>1, <1>2, <1>5 DEF JobInv, AdriftInv, TakenInv
<1> QED
  BY <1>7, <1>8, <1>9, <1>10, <1>11, <1>12, <1>13, <1>14, <1>15, <1>16 DEF ProtocolInv

LEMMA WriteReplyKeepsProtocol ==
    ASSUME SystemInv, CtlWriteReply, UNCHANGED startVars
    PROVE  ProtocolInv'
<1> USE DEF config, jobVars, fairVars, stopVars, logVars, runnerVars, startVars
<1>1. /\ FifoInv /\ TakenInv /\ OutgoingInv /\ UnreadInv /\ JobInv /\ WaitingInv
      /\ ReplyInv /\ RequesterInv /\ InboxInv /\ ClaimInv /\ AdriftInv /\ LogInv
  BY DEF SystemInv, ProtocolInv
<1>0. PICK p \in Pids : p = reply.to
  BY <1>1 DEF ReplyInv, CtlWriteReply, WriteReply
<1> PICK m : m = Head(reply.msgs)
  OBVIOUS
<1>2. /\ pc = "send_write" /\ UNCHANGED <<jobVars, stopVars, log, taken>>
      /\ UNCHANGED <<srv_buf, rpc, outgoing, lost, adrift>>
      /\ pc' = IF Len(reply.msgs) = 1 THEN "send_close" ELSE "send_write"
      /\ reply' = [reply EXCEPT !.msgs = Tail(@)]
      /\ HasPrivateReader(p) /\ DOMAIN inbox = Pids
      /\ inbox' = [inbox EXCEPT ![p] = Append(inbox[p], m)]
  BY <1>0 DEF CtlWriteReply, WriteReply, SystemInv, TypeOK
<1>3. reply'.to = p /\ reply'.kind = reply.kind /\ reply'.next = reply.next
  BY <1>0, <1>2 DEF SystemInv, TypeOK, CtlTypeOK
<1>4. Sending(p)
  BY <1>0, <1>2 DEF Sending
<1>5. /\ \A q \in Pids : q # p => inbox'[q] = inbox[q]
      /\ inbox'[p] = Append(inbox[p], m)
  BY <1>2, <1>4
<1>6. /\ inbox'[p] \in Seq(ToSet(inbox'[p]))
      /\ inbox[p] = <<>> => inbox'[p] = <<m>>
  <2>1. inbox[p] \in Seq(ToSet(inbox[p]))
    BY <1>1, <1>4 DEF InboxInv
  <2> QED
    BY <1>5, <2>1, AddedLast
<1>7. ASSUME p \in Executors
      PROVE  /\ inbox[p] = <<>> /\ ~IsDone(p) /\ rpc[p] = "reply_read" /\ p \notin adrift
             /\ pc' = "send_close"
             /\ m \in AckTo(p) \cup {ShutdownAck} /\ (m.type = "ACK" => p \in Running)
  <2>1. ~IsDone(p) /\ rpc[p] \in {"reply_read", "killed"} /\ inbox[p] = <<>>
    BY <1>0, <1>1, <1>2, <1>7 DEF ReplyInv
  <2>2. rpc[p] = "reply_read"
    BY <1>2, <2>1 DEF HasPrivateReader, IsDone
  <2>3. p \notin adrift
    BY <1>1, <2>1 DEF AdriftInv, HasAck
  <2>4. CASE p \in Running /\ \E a \in AckTo(p) : reply.msgs = <<a>>
    BY <1>2, <2>1, <2>2, <2>3, <2>4
  <2>5. CASE reply.msgs = <<ShutdownAck>>
    <3>1. m = ShutdownAck /\ Len(reply.msgs) = 1
      BY <2>5
    <3> QED
      BY <1>2, <2>1, <2>2, <2>3, <3>1 DEF ShutdownAck
  <2> QED
    BY <1>0, <1>1, <1>2, <1>7, <2>4, <2>5 DEF ReplyInv
<1>8. ASSUME p \in ShutdownClients PROVE pc' = "send_close"
  BY <1>0, <1>1, <1>2, <1>8 DEF ReplyInv
<1>9. /\ UNCHANGED <<Fifo, Waiting, Running, Logged>>
      /\ \A q \in Pids : /\ IsDone(q)' <=> IsDone(q)
                         /\ Sending(q)' => Sending(q)
                         /\ Unread(q)' <=> Unread(q)
      /\ \A q \in Pids : q # p => (HasAck(q)' <=> HasAck(q))
  BY <1>0, <1>2, <1>3, <1>5 DEF Fifo, Waiting, Running, Logged, IsDone, HasAck, Sending, Unread
<1>10. UnreadInv'
  <2>1. ASSUME NEW q \in Pids, Noticed(q)' PROVE Noticed(q)
    BY <1>2, <1>4, <1>5, <1>9, <2>1 DEF Noticed
  <2> QED
    BY <1>1, <1>9, <2>1 DEF UnreadInv
<1>11. OutgoingInv'
  <2>1. ~IsDone(p) /\ outgoing[p] = Request(p)
    BY <1>1, <1>4, <1>7, DoneRunners
  <2> QED
    BY <1>1, <1>2, <1>5, <1>9, <2>1 DEF OutgoingInv
<1>12. WaitingInv'
  BY <1>1, <1>2, <1>4, <1>5, <1>9 DEF WaitingInv, JobInv
<1>13. ReplyInv'
  BY <1>0, <1>1, <1>2, <1>3, <1>7, <1>8, <1>9 DEF ReplyInv
<1>14. RequesterInv'
  BY <1>1, <1>2, <1>3 DEF RequesterInv
<1>15. InboxInv'
  <2>1. \A q \in Pids : inbox'[q] \in Seq(ToSet(inbox'[q]))
    <3>1. ASSUME NEW q \in Pids, q # p PROVE inbox'[q] \in Seq(ToSet(inbox'[q]))
      <4>1. inbox'[q] = inbox[q] /\ inbox[q] \in Seq(ToSet(inbox[q]))
        BY <1>1, <1>5, <3>1 DEF InboxInv
      <4> QED
        BY <4>1
    <3> QED
      BY <1>6, <3>1
  <2>2. ASSUME p \in Executors PROVE Len(inbox'[p]) = 1 /\ inbox'[p][1] = m
    <3>1. inbox'[p] = <<m>>
      BY <1>6, <1>7, <2>2
    <3> QED
      BY <3>1
  <2> QED
    BY <1>1, <1>2, <1>5, <1>7, <1>9, <2>1, <2>2 DEF InboxInv
<1>16. ClaimInv'
  <2>1. ASSUME NEW q \in Executors, q # p, Claims(q)' PROVE Claims(q)
    BY <1>2, <1>9, <2>1 DEF Claims
  <2>2. ASSUME p \in Executors, Claims(p)' PROVE p \in Running
    <3>1. HasAck(p)'
      BY <1>4, <1>7, <1>9, <2>2 DEF Claims
    <3>2. inbox'[p] = <<m>>
      BY <1>6, <1>7, <2>2
    <3>3. m.type = "ACK"
      BY <3>1, <3>2 DEF HasAck
    <3> QED
      BY <1>7, <2>2, <3>3
  <2> QED
    BY <1>1, <1>2, <1>9, <2>1, <2>2 DEF ClaimInv
<1>17. AdriftInv'
  BY <1>1, <1>2, <1>7, <1>9 DEF AdriftInv
<1>18. FifoInv' /\ TakenInv' /\ JobInv' /\ LogInv'
  BY <1>1, <1>2, <1>9 DEF FifoInv, TakenInv, JobInv, LogInv
<1> QED
  BY <1>10, <1>11, <1>12, <1>13, <1>14, <1>15, <1>16, <1>17, <1>18 DEF ProtocolInv

LEMMA RestartKeepsProtocol ==
    ASSUME SystemInv, CtlRestart
    PROVE  ProtocolInv'
<1> USE DEF logVars, fifoVars, runnerVars
<1>1. /\ FifoInv /\ TakenInv /\ OutgoingInv /\ UnreadInv /\ JobInv /\ WaitingInv
      /\ ReplyInv /\ RequesterInv /\ InboxInv /\ ClaimInv /\ AdriftInv /\ LogInv
  BY DEF SystemInv, ProtocolInv
<1>2. /\ waiting_queue' = <<>> /\ running_queue' = <<>> /\ is_shutting_down' = FALSE
      /\ pc' = "create" /\ taken' = {}
      /\ UNCHANGED <<log, srv_buf, inbox, lost, rpc, outgoing>>
  BY DEF CtlRestart, Restart
<1>3. adrift' = adrift \cup {p \in Executors : HasAck(p) \/ IsDone(p)}
  BY DEF CtlRestart, IsDone
<1>4. /\ Waiting' = {} /\ Running' = {} /\ UNCHANGED <<Logged, Fifo>>
      /\ NoneTwice(waiting_queue') /\ NoneTwice(running_queue')
      /\ \A q \in Pids : /\ IsDone(q)' <=> IsDone(q)
                         /\ HasAck(q)' <=> HasAck(q)
                         /\ Unread(q)' <=> Unread(q)
                         /\ ~Sending(q)'
  BY <1>2 DEF Waiting, Running, Logged, Fifo, CommandIds, NoneTwice, IsDone, HasAck, Unread,
              Sending
<1>5. UnreadInv'
  <2>1. ASSUME NEW q \in Pids, Noticed(q)' PROVE Noticed(q)
    BY <1>2, <1>4, <2>1 DEF Noticed
  <2> QED
    BY <1>1, <1>4, <2>1 DEF UnreadInv
<1>6. JobInv' /\ WaitingInv' /\ ReplyInv' /\ RequesterInv'
  BY <1>1, <1>2, <1>4 DEF JobInv, WaitingInv, ReplyInv, RequesterInv
<1>7. ClaimInv'
  BY <1>3, <1>4 DEF ClaimInv, Claims
<1>8. AdriftInv' /\ LogInv'
  BY <1>1, <1>2, <1>3, <1>4 DEF AdriftInv, LogInv
<1>9. FifoInv' /\ TakenInv' /\ OutgoingInv' /\ InboxInv'
  BY <1>1, <1>2, <1>4 DEF FifoInv, TakenInv, OutgoingInv, InboxInv
<1> QED
  BY <1>5, <1>6, <1>7, <1>8, <1>9 DEF ProtocolInv

\* Every step of a controller keeps the invariant.
LEMMA ControllersKeepProtocol ==
    ASSUME SystemInv, CtlStep \/ CtlKilled \/ CtlRestart \/ OldExit
    PROVE  ProtocolInv'
<1> USE DEF ctlVars, config, jobVars, fairVars, stopVars, logVars, fifoVars, runnerVars, startVars
<1>0. /\ UNCHANGED fifoVars => FifoShrinks
      /\ rpc \in [Pids -> RunnerPoints]
  BY DEF FifoShrinks, Fifo, SystemInv, TypeOK
<1>1. CASE CtlStart /\ UNCHANGED startVars
  <2>1. FifoShrinks
    BY <1>1 DEF CtlStart, FifoShrinks, Fifo
  <2>2. /\ pc' \in {"open", "failed"} /\ pc = "create"
        /\ UNCHANGED <<jobVars, stopVars, logVars, reply, inbox, runnerVars, adrift>>
    BY <1>1 DEF CtlStart, CreateFifo, StartFails, Goto
  <2> QED
    BY <2>1, <2>2, QuietSteps
<1>2. CASE CtlOpen /\ UNCHANGED startVars
  <2>1. /\ pc = "open" /\ pc' \in {"read", "opening", "failed"}
        /\ UNCHANGED <<stopVars, logVars, reply, fifoVars, outgoing, adrift>>
    BY <1>2 DEF CtlOpen, OpenServer, OpenServerBlocks, OpenServerFails, Goto,
                controller_destroy_queues
  <2>2. \A q \in Pids : rpc'[q] = rpc[q] \/ (rpc[q] = "wait" /\ rpc'[q] = "write")
    BY <1>2 DEF CtlOpen
  <2>3. \/ UNCHANGED <<waiting_queue, running_queue>>
        \/ pc' = "failed" /\ waiting_queue' = <<>> /\ running_queue' = <<>>
    BY <1>2 DEF CtlOpen, OpenServer, OpenServerBlocks, OpenServerFails, Goto,
                controller_destroy_queues
  <2> QED
    BY <1>0, <2>1, <2>2, <2>3, QuietSteps
<1>3. CASE CtlRead /\ UNCHANGED startVars
  <2>1. controller_handle_message(Head(srv_buf))
    BY <1>3 DEF CtlRead
  <2> QED
    BY <1>3, <2>1, OtherMessages, SubmitMessage, TakeMessage DEF controller_handle_message
<1>4. CASE CtlReadEof /\ UNCHANGED startVars
  BY <1>0, <1>4, QuietSteps DEF CtlReadEof, ReadEof, Goto
<1>5. CASE CtlClose /\ UNCHANGED startVars
  <2>1. FifoShrinks
    BY <1>5, DropShrinks DEF CtlClose, DropServerReader
  <2> QED
    BY <1>5, <2>1, QuietSteps DEF CtlClose, CloseServer, Goto
<1>6. CASE CtlExit /\ UNCHANGED startVars
  <2>1. FifoShrinks
    BY <1>6, DropShrinks DEF CtlExit, ipc_destroy_fifo
  <2>2. /\ pc = "unlink" /\ pc' = "exited" /\ waiting_queue' = <<>> /\ running_queue' = <<>>
        /\ UNCHANGED <<stopVars, logVars, reply, inbox, runnerVars, adrift>>
    BY <1>6 DEF CtlExit, Exit, controller_destroy_queues
  <2>3. waiting_queue = <<>> /\ running_queue = <<>>
    BY <2>2 DEF SystemInv, StopInv
  <2> QED
    BY <2>1, <2>2, <2>3, QuietSteps
<1>7. CASE CtlSchedule /\ UNCHANGED startVars
  BY <1>7, DoneKeepsProtocol, RefillKeepsProtocol, FinishKeepsProtocol DEF CtlSchedule
<1>8. CASE CtlOpenReply /\ UNCHANGED startVars
  <2>1. CASE OpenReply /\ GoTo(reply.to, "reply_opening", "reply_read")
             /\ UNCHANGED <<fifoVars, outgoing>>
    BY <1>8, <2>1, OpenReplyKeepsProtocol
  <2>2. CASE OpenReplyFails /\ UNCHANGED <<fifoVars, runnerVars>>
    <3>1. reply.next \in {"read", "finish", "start_waiting", "stop"}
      BY DEF SystemInv, TypeOK, CtlTypeOK
    <3> QED
      BY <1>0, <1>8, <2>2, <3>1, QuietSteps DEF OpenReplyFails, AfterReply, NoReply
  <2> QED
    BY <1>8, <2>1, <2>2 DEF CtlOpenReply
<1>9. CASE CtlWriteReply /\ UNCHANGED startVars
  BY <1>9, WriteReplyKeepsProtocol
<1>10. CASE CtlCloseReply /\ UNCHANGED startVars
  <2>1. reply.next \in {"read", "finish", "start_waiting", "stop"}
    BY DEF SystemInv, TypeOK, CtlTypeOK
  <2> QED
    BY <1>0, <1>10, <2>1, QuietSteps DEF CtlCloseReply, CloseReply, AfterReply, NoReply
<1>11. CASE CtlKilled
  <2>1. FifoShrinks
    BY <1>11, DropShrinks DEF CtlKilled, DropServerReader
  <2> QED
    BY <1>11, <2>1, QuietSteps DEF CtlKilled, Killed, Goto
<1>12. CASE CtlRestart
  BY <1>12, RestartKeepsProtocol
<1>13. CASE OldExit
  <2>1. FifoShrinks
    BY <1>13, DropShrinks DEF OldExit, ipc_destroy_fifo
  <2> QED
    BY <1>13, <2>1, QuietSteps DEF OldExit
<1> QED
  BY <1>1, <1>2, <1>3, <1>4, <1>5, <1>6, <1>7, <1>8, <1>9, <1>10, <1>11, <1>12, <1>13
  DEF CtlStep

------------------------------------------------------------------------------
(* Types *)

\* What a step does to the controller is a step of the controller, or a new
\* controller.
LEMMA ControllerPart ==
    ASSUME TypeOK, [Next]_vars
    PROVE  [CtlNext]_ctlVars \/ Restart
<1>1. CASE CtlStep
  <2>1. CtlRead => \E m \in Messages : controller_handle_message(m)
    <3>1. srv_buf \in Seq(Messages)
      BY DEF TypeOK
    <3>2. srv_buf # <<>> => Head(srv_buf) \in Messages
      BY <3>1
    <3> QED
      BY <3>2 DEF CtlRead
  <2> QED
    BY <1>1, <2>1 DEF CtlStep, CtlStart, CtlOpen, CtlReadEof, CtlClose, CtlExit, CtlSchedule,
                      CtlOpenReply, CtlWriteReply, CtlCloseReply, CtlNext
<1>2. CASE CtlKilled
  BY <1>2 DEF CtlKilled, CtlNext
<1>3. CASE CtlRestart
  BY <1>3 DEF CtlRestart
<1>4. CASE OldExit
  BY <1>4 DEF OldExit
<1>5. ASSUME NEW p \in Pids, Start(p) \/ RunnerStep(p) \/ Kill(p)
      PROVE  [CtlNext]_ctlVars
  BY <1>5 DEF Start, RunnerStep, Kill, ipc_send_atomic, SendFails, SendOpen, SendOpenBlocks,
              SendWrite, SendWriteFatal, SendClose, OpenPrivate, ReceiveEof, ReceiveAck,
              ReceiveStatus, ReceiveShutdownAck, Execute, Receive, Move, CtlNext
<1>6. CASE UNCHANGED vars
  BY <1>6 DEF vars
<1> QED
  BY <1>1, <1>2, <1>3, <1>4, <1>5, <1>6 DEF Next

LEMMA RestartFresh ==
    ASSUME CtlTypeOK, Restart
    PROVE  CtlTypeOK' /\ SlotInv' /\ StopInv'
<1>1. parallel_limit' \in Nat \ {0}
  BY LimitAssumption DEF Restart, LimitOf, DefaultLimit
<1>2. /\ waiting_queue' = <<>> /\ running_queue' = <<>> /\ running_count' = 0
      /\ fair_users' = <<>> /\ fair_user_capacity' = 0 /\ pc' = "create" /\ keep_running' = TRUE
      /\ reply' = NoReply
  BY DEF Restart
<1>3. /\ reply' = [to |-> reply'.to, kind |-> reply'.kind, msgs |-> reply'.msgs,
                   next |-> reply'.next]
      /\ reply'.to = -1 /\ reply'.kind = "none" /\ reply'.next = "read"
  BY <1>2 DEF NoReply
<1>4. /\ waiting_queue' \in Seq(Jobs) /\ running_queue' \in Seq(Jobs)
      /\ fair_users' \in Seq(Users) /\ Len(fair_users') = 0 /\ Len(running_queue') = 0
  BY <1>2
<1>5. CtlTypeOK'
  <2>1. /\ policy' \in PolicyArgs /\ is_shutting_down' = FALSE
        /\ shutdown_requester_pid' = -1 /\ last_scheduled_user' = NoUser
        /\ clock' = clock /\ log' = log /\ taken' = {}
    BY DEF Restart
  <2>2. clock \in Nat /\ log \in Seq(Jobs)
    BY DEF CtlTypeOK
  <2>3. pc' \in ProgramPoints
    BY <1>2 DEF ProgramPoints
  <2>4. waiting_queue' \in Seq(Jobs) /\ running_queue' \in Seq(Jobs) /\ fair_users' \in Seq(Users)
    BY <1>4
  <2>5. running_count' \in Nat /\ fair_user_capacity' \in Nat
        /\ Len(fair_users') <= fair_user_capacity'
    BY <1>2, <1>4
  <2>6. keep_running' \in BOOLEAN /\ is_shutting_down' \in BOOLEAN
    BY <1>2, <2>1
  <2>7. /\ reply' = [to |-> reply'.to, kind |-> reply'.kind, msgs |-> reply'.msgs,
                     next |-> reply'.next]
        /\ reply'.to \in Pids \cup {-1}
        /\ reply'.kind \in {"none", "ack", "shutdown", "status"}
        /\ reply'.next \in {"read", "finish", "start_waiting", "stop"}
    BY <1>3
  <2> QED
    BY <1>1, <1>2, <2>1, <2>2, <2>3, <2>4, <2>5, <2>6, <2>7, Zenon DEF CtlTypeOK
<1>6. SlotInv'
  BY <1>1, <1>2, <1>4 DEF SlotInv, SlotAccounting, WorkConserving
<1>7. StopInv'
  BY <1>2, <1>3 DEF StopInv
<1> QED
  BY <1>5, <1>6, <1>7

\* The FIFOs and the runners keep their types.
FifoTypes ==
    /\ srv_linked \in BOOLEAN
    /\ srv_buf \in Seq(Messages) /\ Len(srv_buf) <= PipeCapacity
    /\ orphan \subseteq Pids
    /\ DOMAIN inbox = Pids
    /\ \A p \in Pids : Len(inbox[p]) <= PipeCapacity
    /\ lost \subseteq Messages

RunnerTypes ==
    /\ DOMAIN printed = Pids
    /\ rpc \in [Pids -> RunnerPoints]
    /\ outgoing \in [Pids -> Messages]

StartTypes == adrift \subseteq Executors /\ starts \in 1..MaxStarts /\ old_unlink \in BOOLEAN

LEMMA TypeParts ==
    /\ TypeOK <=> CtlTypeOK /\ FifoTypes /\ RunnerTypes /\ StartTypes
    /\ TypeOK' <=> CtlTypeOK' /\ FifoTypes' /\ RunnerTypes' /\ StartTypes'
  BY DEF TypeOK, FifoTypes, RunnerTypes, StartTypes

\* Dropping what the public FIFO holds keeps its types.
LEMMA DropTypes ==
    ASSUME FifoTypes, NEW last \in BOOLEAN, DropServerBuffer(last)
    PROVE  srv_buf' \in Seq(Messages) /\ Len(srv_buf') <= PipeCapacity /\ lost' \subseteq Messages
<1>1. ToSet(srv_buf) \subseteq Messages
  BY DEF FifoTypes, ToSet
<1>2. CASE last
  <2>1. srv_buf' = <<>> /\ lost' = lost \cup ToSet(srv_buf)
    BY <1>2 DEF DropServerBuffer
  <2> QED
    BY <1>1, <2>1 DEF FifoTypes
<1>3. CASE ~last
  BY <1>3 DEF DropServerBuffer, FifoTypes
<1> QED
  BY <1>2, <1>3

LEMMA RunnersKeepTypes ==
    ASSUME SystemInv, NEW p \in Pids, Start(p) \/ RunnerStep(p) \/ Kill(p)
    PROVE  FifoTypes' /\ RunnerTypes' /\ StartTypes'
<1> USE DEF fifoVars, startVars
<1>0. FifoTypes /\ RunnerTypes /\ StartTypes
  BY TypeParts DEF SystemInv
<1>1. StartTypes'
  BY <1>0 DEF Start, RunnerStep, Kill, StartTypes
<1>2. ASSUME NEW from, NEW to \in RunnerPoints, Move(p, from, to)
      PROVE  FifoTypes' /\ RunnerTypes'
  BY <1>0, <1>2 DEF Move, GoTo, FifoTypes, RunnerTypes
<1>3. CASE Start(p) \/ SendFails(p) \/ SendOpenBlocks(p) \/ OpenPrivate(p) \/ Execute(p)
           \/ ReceiveEof(p)
  BY <1>1, <1>2, <1>3 DEF Start, SendFails, SendOpenBlocks, OpenPrivate, Execute, ReceiveEof,
                    RunnerPoints
<1>4. CASE SendOpen(p)
  BY <1>1, <1>0, <1>4 DEF SendOpen, GoTo, FifoTypes, RunnerTypes, RunnerPoints
<1>5. CASE SendWrite(p)
  <2>1. /\ srv_buf' = Append(srv_buf, outgoing[p]) /\ Len(srv_buf) < PipeCapacity
        /\ UNCHANGED <<srv_linked, orphan, inbox, outgoing, printed, lost>>
        /\ rpc' = [rpc EXCEPT ![p] = "close"]
    BY <1>5 DEF SendWrite, GoTo
  <2>2. outgoing[p] \in Messages
    BY <1>0 DEF RunnerTypes
  <2>3. srv_buf' \in Seq(Messages) /\ Len(srv_buf') <= PipeCapacity
    BY <1>0, <2>1, <2>2 DEF FifoTypes
  <2> QED
    BY <1>1, <1>0, <2>1, <2>3 DEF FifoTypes, RunnerTypes, RunnerPoints
<1>6. CASE SendWriteFatal(p)
  <2>1. outgoing[p] \in Messages
    BY <1>0 DEF RunnerTypes
  <2>2. ToSet(srv_buf) \subseteq Messages
    BY <1>0 DEF FifoTypes, ToSet
  <2>3. /\ srv_buf' = srv_buf \/ srv_buf' = <<>>
        /\ lost' \subseteq lost \cup {outgoing[p]} \cup ToSet(srv_buf)
        /\ UNCHANGED <<srv_linked, inbox, outgoing, printed>> /\ orphan' = orphan \ {p}
        /\ rpc' = [rpc EXCEPT ![p] = "killed"]
    BY <1>6 DEF SendWriteFatal, GoTo
  <2>4. FifoTypes'
    <3>1. srv_buf' \in Seq(Messages) /\ Len(srv_buf') <= PipeCapacity
      <4>1. <<>> \in Seq(Messages) /\ Len(<<>>) = 0
        OBVIOUS
      <4>2. CASE srv_buf' = srv_buf
        BY <1>0, <4>2 DEF FifoTypes
      <4>3. CASE srv_buf' = <<>>
        BY <4>1, <4>3
      <4> QED
        BY <2>3, <4>2, <4>3
    <3>2. lost' \subseteq Messages
      BY <1>0, <2>1, <2>2, <2>3 DEF FifoTypes
    <3> QED
      BY <1>0, <2>3, <3>1, <3>2 DEF FifoTypes
  <2>5. RunnerTypes'
    BY <1>0, <2>3 DEF RunnerTypes, RunnerPoints
  <2> QED
    BY <1>1, <2>4, <2>5
<1>7. CASE SendClose(p) \/ Kill(p)
  <2>1. /\ DropServerBuffer(~ServerHasReader /\ ServerWriters = {p})
        /\ UNCHANGED <<srv_linked, inbox, outgoing, printed>> /\ orphan' = orphan \ {p}
        /\ \E to \in RunnerPoints : rpc' = [rpc EXCEPT ![p] = to]
    BY <1>7 DEF SendClose, Kill, GoTo, RunnerPoints
  <2>2. FifoTypes'
    BY <1>0, <2>1, DropTypes DEF FifoTypes
  <2>3. RunnerTypes'
    BY <1>0, <2>1 DEF RunnerTypes
  <2> QED
    BY <1>1, <2>2, <2>3
<1>8. ASSUME NEW m, Receive(p, m) PROVE FifoTypes'
  <2>1. UNCHANGED <<srv_linked, srv_buf, orphan, lost>>
    BY <1>8 DEF Receive
  <2>2. DOMAIN inbox' = Pids /\ Len(inbox'[p]) <= PipeCapacity
        /\ \A q \in Pids : q # p => inbox'[q] = inbox[q]
    BY <1>8, ReceivedMessage
  <2> QED
    BY <1>0, <2>1, <2>2 DEF FifoTypes
<1>9. CASE ReceiveAck(p)
  <2>1. PICK m \in ToSet(inbox[p]) :
          /\ p \in Executors
          /\ Receive(p, m)
          /\ rpc' = [rpc EXCEPT ![p] = IF m.type = "ACK" THEN "exec" ELSE "exit1"]
          /\ outgoing' = IF m.type # "ACK" THEN outgoing
                         ELSE [outgoing EXCEPT ![p] =
                                  [type |-> "DONE", sender_pid |-> p,
                                   user_id |-> m.user_id, command_id |-> m.command_id]]
          /\ UNCHANGED printed
    BY <1>9 DEF ReceiveAck
  <2>2. m.type = "ACK" => [type |-> "DONE", sender_pid |-> p, user_id |-> m.user_id,
                           command_id |-> m.command_id] \in Messages
    <3>1. m \in AckTo(p) \cup {ShutdownAck}
      BY <2>1, ReceivedMessage
    <3>2. m.type = "ACK" => m.user_id \in Users /\ m.command_id = p
      BY <3>1 DEF AckTo, ShutdownAck
    <3> QED
      BY <3>2 DEF Messages
  <2>3. outgoing' \in [Pids -> Messages]
    BY <1>0, <2>1, <2>2 DEF RunnerTypes
  <2>4. RunnerTypes'
    BY <1>0, <2>1, <2>3 DEF RunnerTypes, RunnerPoints
  <2> QED
    BY <1>1, <1>8, <2>1, <2>4
<1>10. CASE ReceiveStatus(p)
  BY <1>1, <1>0, <1>8, <1>10 DEF ReceiveStatus, RunnerTypes, RunnerPoints
<1>11. CASE ReceiveShutdownAck(p)
  BY <1>1, <1>0, <1>8, <1>11 DEF ReceiveShutdownAck, RunnerTypes, RunnerPoints
<1> QED
  BY <1>1, <1>3, <1>4, <1>5, <1>6, <1>7, <1>9, <1>10, <1>11 DEF RunnerStep, ipc_send_atomic

LEMMA ControllersKeepTypes ==
    ASSUME SystemInv, CtlStep \/ CtlKilled \/ CtlRestart \/ OldExit
    PROVE  FifoTypes' /\ RunnerTypes' /\ StartTypes'
<1> USE DEF fifoVars, runnerVars, startVars
<1>0. FifoTypes /\ RunnerTypes /\ StartTypes
  BY TypeParts DEF SystemInv
<1>1. ServerWriters \subseteq Pids
  BY DEF ServerWriters
<1>2. UNCHANGED <<fifoVars, runnerVars>> => FifoTypes' /\ RunnerTypes'
  BY <1>0 DEF FifoTypes, RunnerTypes
<1>3. CASE CtlStep
  <2>1. StartTypes'
    BY <1>0, <1>3 DEF CtlStep, StartTypes
  <2>2. CASE CtlStart
    BY <2>1, <1>0, <2>2 DEF CtlStart, FifoTypes, RunnerTypes
  <2>3. CASE CtlOpen
    <3>1. CASE UNCHANGED <<fifoVars, runnerVars>>
      BY <2>1, <1>2, <3>1
    <3>2. CASE /\ rpc' = [p \in Pids |-> IF rpc[p] = "wait" /\ p \in ServerWriters
                                          THEN "write" ELSE rpc[p]]
               /\ UNCHANGED <<fifoVars, outgoing, printed>>
      BY <2>1, <1>0, <3>2 DEF FifoTypes, RunnerTypes, RunnerPoints
    <3> QED
      BY <2>3, <3>1, <3>2 DEF CtlOpen
  <2>4. CASE CtlRead
    <3>1. /\ srv_buf \in Seq(Messages) /\ srv_buf # <<>> /\ srv_buf' = Tail(srv_buf)
          /\ UNCHANGED <<srv_linked, orphan, inbox, runnerVars, lost>>
      BY <1>0, <2>4 DEF CtlRead, FifoTypes
    <3>2. srv_buf' \in Seq(Messages) /\ Len(srv_buf') <= PipeCapacity
      BY <1>0, <3>1 DEF FifoTypes
    <3> QED
      BY <2>1, <1>0, <3>1, <3>2 DEF FifoTypes, RunnerTypes
  <2>5. CASE CtlClose
    BY <2>1, <1>0, <1>1, <2>5, DropTypes DEF CtlClose, DropServerReader, FifoTypes, RunnerTypes
  <2>6. CASE CtlExit
    BY <2>1, <1>0, <1>1, <2>6, DropTypes DEF CtlExit, ipc_destroy_fifo, FifoTypes, RunnerTypes
  <2>7. CASE CtlReadEof \/ CtlSchedule \/ CtlCloseReply
    BY <2>1, <1>2, <2>7 DEF CtlReadEof, CtlSchedule, CtlCloseReply
  <2>8. CASE CtlOpenReply
    <3>1. CASE /\ GoTo(reply.to, "reply_opening", "reply_read")
               /\ UNCHANGED <<fifoVars, outgoing, printed>>
      BY <2>1, <1>0, <3>1 DEF GoTo, FifoTypes, RunnerTypes, RunnerPoints
    <3> QED
      BY <2>1, <1>2, <2>8, <3>1 DEF CtlOpenReply
  <2>9. CASE CtlWriteReply
    <3>1. PICK p \in Pids : p = reply.to
      BY <2>9 DEF CtlWriteReply, WriteReply, SystemInv, ProtocolInv, ReplyInv
    <3>2. PICK m : m = Head(reply.msgs)
      OBVIOUS
    <3>3. /\ Len(inbox[p]) < PipeCapacity
          /\ inbox' = [inbox EXCEPT ![p] = Append(inbox[p], m)]
          /\ UNCHANGED <<srv_linked, srv_buf, orphan, runnerVars, lost>>
      BY <2>9, <3>1, <3>2 DEF CtlWriteReply
    <3>4. inbox[p] \in Seq(ToSet(inbox[p]))
      BY DEF SystemInv, ProtocolInv, InboxInv
    <3>5. Len(inbox[p]) \in Nat /\ Len(Append(inbox[p], m)) = Len(inbox[p]) + 1
      BY <3>4, AddedLast
    <3>6. /\ inbox'[p] = Append(inbox[p], m) /\ DOMAIN inbox' = Pids
          /\ \A q \in Pids : q # p => inbox'[q] = inbox[q]
      BY <1>0, <3>3 DEF FifoTypes
    <3>7. Len(inbox'[p]) <= PipeCapacity
      BY <3>3, <3>5, <3>6
    <3> QED
      BY <2>1, <1>0, <3>3, <3>6, <3>7 DEF FifoTypes, RunnerTypes
  <2> QED
    BY <1>3, <2>1, <2>2, <2>3, <2>4, <2>5, <2>6, <2>7, <2>8, <2>9 DEF CtlStep
<1>4. CASE CtlKilled
  BY <1>0, <1>1, <1>4, DropTypes
  DEF CtlKilled, DropServerReader, FifoTypes, RunnerTypes, StartTypes
<1>5. CASE CtlRestart
  <2>1. FifoTypes' /\ RunnerTypes'
    BY <1>2, <1>5 DEF CtlRestart
  <2>2. /\ starts < MaxStarts /\ starts' = starts + 1
        /\ adrift' \subseteq adrift \cup Executors
        /\ old_unlink' = old_unlink \/ old_unlink' = TRUE
    BY <1>5 DEF CtlRestart
  <2>3. old_unlink' \in BOOLEAN
    BY <1>0, <2>2, Zenon DEF StartTypes
  <2>4. starts' \in 1..MaxStarts
    BY <1>0, <2>2 DEF StartTypes
  <2>5. adrift' \subseteq Executors
    BY <1>0, <2>2 DEF StartTypes
  <2> QED
    BY <2>1, <2>3, <2>4, <2>5 DEF StartTypes
<1>6. CASE OldExit
  BY <1>0, <1>1, <1>6, DropTypes DEF OldExit, ipc_destroy_fifo, FifoTypes, RunnerTypes, StartTypes
<1> QED
  BY <1>3, <1>4, <1>5, <1>6

------------------------------------------------------------------------------
(* The invariant holds *)

LEMMA InitialInv ==
    ASSUME Init
    PROVE  SystemInv
<1>1. CtlInit
  BY DEF Init
<1>2. /\ waiting_queue = <<>> /\ running_queue = <<>> /\ log = <<>> /\ taken = {}
      /\ running_count = 0
      /\ keep_running = TRUE /\ is_shutting_down = FALSE /\ pc = "create" /\ reply = NoReply
  BY <1>1 DEF CtlInit, controller_configure
<1>3. CtlTypeOK
  BY <1>1, InitialTypes
<1>4. /\ srv_buf = <<>> /\ orphan = {} /\ lost = {} /\ adrift = {} /\ starts = 1
      /\ srv_linked \in BOOLEAN /\ old_unlink = FALSE
      /\ inbox = [p \in Pids |-> <<>>] /\ rpc = [p \in Pids |-> "start"]
      /\ outgoing = [p \in Pids |-> Request(p)] /\ DOMAIN printed = Pids
  BY DEF Init
<1>5. /\ \A p \in Pids : inbox[p] = <<>> /\ rpc[p] = "start" /\ outgoing[p] = Request(p)
      /\ DOMAIN inbox = Pids
  BY <1>4
<1>6. TypeOK
  <2>1. FifoTypes
    <3>1. srv_buf \in Seq(Messages) /\ Len(srv_buf) = 0
      BY <1>4
    <3>2. \A p \in Pids : Len(inbox[p]) <= PipeCapacity
      BY <1>5
    <3> QED
      BY <1>4, <1>5, <3>1, <3>2 DEF FifoTypes
  <2>2. RunnerTypes
    <3>1. outgoing \in [Pids -> Messages]
      BY <1>4, RequestFields
    <3> QED
      BY <1>4, <3>1 DEF RunnerTypes, RunnerPoints
  <2>3. StartTypes
    <3>1. 1 \in 1..MaxStarts
      OBVIOUS
    <3>2. old_unlink \in BOOLEAN
      BY <1>4, Zenon
    <3> QED
      BY <1>4, <3>1, <3>2, Zenon DEF StartTypes
  <2> QED
    BY <1>3, <2>1, <2>2, <2>3, TypeParts
<1>7. SlotInv
  <2>1. parallel_limit \in Nat \ {0} /\ Len(running_queue) = 0
    BY <1>2, <1>3 DEF CtlTypeOK
  <2> QED
    BY <1>2, <2>1 DEF SlotInv, SlotAccounting, WorkConserving
<1>8. StopInv
  BY <1>2 DEF StopInv, NoReply
<1>9. ProtocolInv
  <2>1. Waiting = {} /\ Running = {} /\ Logged = {} /\ Fifo = {}
    BY <1>2, <1>4 DEF Waiting, Running, Logged, Fifo, CommandIds, ToSet
  <2>2. \A p \in Pids : ~IsDone(p) /\ ~HasAck(p) /\ ~Sending(p)
    <3>1. \A p \in Pids : DOMAIN inbox[p] = {}
      BY <1>5
    <3> QED
      BY <1>2, <1>5, <3>1, RequestFields DEF IsDone, HasAck, Sending
  <2>3. FifoInv /\ TakenInv
    BY <1>2, <1>4, <2>1 DEF FifoInv, TakenInv
  <2>4. OutgoingInv
    BY <1>5 DEF OutgoingInv
  <2>5. UnreadInv
    BY <1>2, <1>5, <2>1, <2>2 DEF UnreadInv, Noticed
  <2>6. JobInv
    BY <1>2, <2>1 DEF JobInv, NoneTwice
  <2>7. WaitingInv /\ ReplyInv /\ RequesterInv
    BY <1>2, <2>1 DEF WaitingInv, ReplyInv, RequesterInv
  <2>8. InboxInv
    <3>1. \A S : <<>> \in Seq(S)
      OBVIOUS
    <3> QED
      BY <1>5, <3>1 DEF InboxInv
  <2>9. ClaimInv /\ AdriftInv /\ LogInv
    BY <1>4, <1>5, <2>2 DEF ClaimInv, Claims, AdriftInv, LogInv
  <2> QED
    BY <2>3, <2>4, <2>5, <2>6, <2>7, <2>8, <2>9 DEF ProtocolInv
<1> QED
  BY <1>6, <1>7, <1>8, <1>9 DEF SystemInv

LEMMA StepKeepsInv ==
    ASSUME SystemInv, [Next]_vars
    PROVE  SystemInv'
<1>0. CtlTypeOK /\ SlotInv /\ StopInv /\ TypeOK
  BY DEF SystemInv, TypeOK
<1>1. CtlTypeOK' /\ SlotInv' /\ StopInv'
  <2>1. CASE [CtlNext]_ctlVars
    BY <1>0, <2>1, StepKeepsTypes, StepKeepsSlots, StepKeepsStop
  <2>2. CASE Restart
    BY <1>0, <2>2, RestartFresh
  <2> QED
    BY <1>0, <2>1, <2>2, ControllerPart
<1>2. CASE CtlStep \/ CtlKilled \/ CtlRestart \/ OldExit
  <2>1. ProtocolInv'
    BY <1>2, ControllersKeepProtocol
  <2>2. (FifoTypes /\ RunnerTypes /\ StartTypes)'
    BY <1>2, ControllersKeepTypes
  <2> QED
    BY <1>1, <2>1, <2>2, TypeParts DEF SystemInv
<1>3. ASSUME NEW p \in Pids, Start(p) \/ RunnerStep(p) \/ Kill(p)
      PROVE  SystemInv'
  <2>1. ProtocolInv'
    BY <1>3, RunnersKeepProtocol
  <2>2. (FifoTypes /\ RunnerTypes /\ StartTypes)'
    BY <1>3, RunnersKeepTypes
  <2> QED
    BY <1>1, <2>1, <2>2, TypeParts DEF SystemInv
<1>4. CASE UNCHANGED vars
  <2> USE DEF vars, fifoVars, runnerVars, startVars, ctlVars, config, jobVars, fairVars,
              stopVars, logVars
  <2>1. (FifoTypes /\ RunnerTypes /\ StartTypes)'
    BY <1>0, <1>4, TypeParts DEF FifoTypes, RunnerTypes, StartTypes
  <2>2. FifoShrinks
    BY <1>4 DEF FifoShrinks, Fifo
  <2>3. ProtocolInv'
    BY <1>4, <2>2, QuietSteps
  <2> QED
    BY <1>1, <2>1, <2>3, TypeParts DEF SystemInv
<1> QED
  BY <1>2, <1>3, <1>4 DEF Next

LEMMA SystemInvariance == Spec => []SystemInv
<1>1. Init => SystemInv
  BY InitialInv
<1>2. SystemInv /\ [Next]_vars => SystemInv'
  BY StepKeepsInv
<1> QED
  BY <1>1, <1>2, PTL DEF Spec

\* The controller, the FIFOs and the runners keep their types, and no FIFO ever
\* holds more than the kernel lets ipc_send_atomic write into it.
THEOREM SystemTypes == Spec => []TypeOK
<1>1. SystemInv => TypeOK
  BY DEF SystemInv
<1> QED
  BY <1>1, SystemInvariance, PTL

\* As long as open() and mkfifo() find the resources they need, the controller
\* never replies to a runner that has removed its FIFO: whatever else has gone
\* wrong, ipc_send_atomic and handle_status_req find the path they open.
THEOREM RepliesFindTheirFifo == ~OpenMayFail => (Spec => []ReplyFifoExists)
<1> SUFFICES ASSUME ~OpenMayFail PROVE Spec => []ReplyFifoExists
  OBVIOUS
<1>1. SystemInv => ReplyFifoExists
  BY DEF SystemInv, ProtocolInv, ReplyInv, Expecting, ReplyFifoExists, PrivateFifoExists
<1> QED
  BY <1>1, SystemInvariance, PTL

------------------------------------------------------------------------------
(* Slots and log lines of one command *)

LEMMA OneNode ==
    ASSUME NEW q \in Seq(Jobs), NoneTwice(q), NEW p \in CommandIds(q)
    PROVE  Cardinality(NodesOfCommand(q, p)) = 1
<1>1. PICK i \in 1..Len(q) : q[i].command_id = p
  BY DEF CommandIds
<1>2. DOMAIN q = 1..Len(q)
  OBVIOUS
<1>3. NodesOfCommand(q, p) = {i}
  BY <1>1, <1>2 DEF NodesOfCommand, NoneTwice
<1> QED
  BY <1>3, FS_Singleton

\* In every behaviour of the whole system, from the moment its ACK is in its
\* FIFO until its DONE is carried out, an executor has exactly one node in the
\* running queue of the controller that authorized it, so handle_done finds the
\* job of every DONE and frees one slot per command.
THEOREM AuthorizedJobsAreRunning == Spec => []AuthorizedHoldsSlot
<1>1. SystemInv => AuthorizedHoldsSlot
  <2> SUFFICES ASSUME SystemInv, pc # "failed", NEW p \in Executors \ adrift,
                      \/ HasAck(p)
                      \/ /\ outgoing[p].type = "DONE"
                         /\ rpc[p] \in {"exec", "open", "wait", "write"}
                      \/ \E m \in Fifo \cup taken : m.type = "DONE" /\ m.sender_pid = p
               PROVE  Cardinality(NodesOfCommand(running_queue, p)) = 1
    BY DEF AuthorizedHoldsSlot, Fifo
  <2>1. running_queue \in Seq(Jobs)
    BY DEF SystemInv, TypeOK, CtlTypeOK
  <2>2. NoneTwice(running_queue) /\ FifoInv /\ TakenInv /\ ClaimInv
    BY DEF SystemInv, ProtocolInv, JobInv
  <2>3. Claims(p)
    <3>1. ASSUME NEW m \in Fifo \cup taken, m.type = "DONE", m.sender_pid = p
          PROVE  IsDone(p) /\ outgoing[p] \in Fifo \cup taken
      BY <2>2, <3>1 DEF FifoInv, TakenInv, IsDone
    <3> QED
      BY <3>1 DEF Claims, IsDone
  <2>4. p \in CommandIds(running_queue)
    BY <2>2, <2>3 DEF ClaimInv, Running
  <2> QED
    BY <2>1, <2>2, <2>4, OneNode
<1> QED
  BY <1>1, SystemInvariance, PTL

\* As long as log.txt can be opened, a command whose runner ended with 0 is in
\* log.txt exactly once, unless its DONE is still in the public FIFO, was lost
\* there, is the one a controller had read when it was killed or is about to
\* carry out, or went to a controller that had not authorized it.
THEOREM FinishedJobsAreLogged == ~OpenMayFail => (Spec => []FinishedIsLogged)
<1> SUFFICES ASSUME ~OpenMayFail PROVE Spec => []FinishedIsLogged
  OBVIOUS
<1>1. SystemInv => FinishedIsLogged
  <2> SUFFICES ASSUME SystemInv, NEW p \in Executors \ adrift, rpc[p] = "exit0",
                      outgoing[p] \notin ToSet(srv_buf) \cup lost \cup taken
               PROVE  Cardinality(NodesOfCommand(log, p)) = 1
    BY DEF FinishedIsLogged
  <2>1. log \in Seq(Jobs)
    BY DEF SystemInv, TypeOK, CtlTypeOK
  <2>2. NoneTwice(log) /\ LogInv /\ OutgoingInv
    BY DEF SystemInv, ProtocolInv, JobInv
  <2>3. IsDone(p)
    BY <2>2, DoneRunners
  <2>4. p \in CommandIds(log)
    BY <2>2, <2>3 DEF LogInv, Logged, Fifo
  <2> QED
    BY <2>1, <2>2, <2>4, OneNode
<1> QED
  BY <1>1, SystemInvariance, PTL
==============================================================================
