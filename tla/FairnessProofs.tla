--------------------------- MODULE FairnessProofs ---------------------------
(***************************************************************************)
(* Theorems about the fair policy: what runner -c shows as Scheduled is    *)
(* the order in which the refill loop promotes, and a user that waits is   *)
(* passed at most once by every other user.                                *)
(***************************************************************************)
EXTENDS FairRotation, ControllerProofs

------------------------------------------------------------------------------
(* The order that is shown is the order of the promotions *)

\* The job taken first, and then what the simulation makes of the others, is
\* the simulation of all of them.
LEMMA FirstThenRest ==
    ASSUME NEW q \in Seq(Jobs), q # <<>>, NEW fu \in Seq(Int), NEW last,
           choose_next_fair_user(q, fu, last) # NoUser
    PROVE  LET i == FairNode(q, fu, last) IN
           queue_copy_fair_to_array(q, fu, last)
             = <<q[i]>> \o queue_copy_fair_to_array(RemoveAt(q, i), fu, q[i].user_id)
<1> DEFINE i == FairNode(q, fu, last)
           r == RemoveAt(q, i)
           target == choose_next_fair_user(q, fu, last)
           f == Sim(q, fu, last)
           g == Sim(r, fu, target)
           x == q[i]
           Same(n) == /\ f[n + 1].rest = g[n].rest /\ f[n + 1].last = g[n].last
                      /\ f[n + 1].array = <<x>> \o g[n].array
           Bad == {n \in 0..Len(r) : ~Same(n)}
<1>1. i \in 1..Len(q) /\ Len(q) \in Nat
  BY FairNodeIsFirstOfUser
<1>2. r \in Seq(Jobs) /\ Len(r) = Len(q) - 1 /\ x \in Jobs
  BY <1>1, RemoveAtProperties
<1>3. x.user_id = target
  <2> DEFINE nodes == {k \in DOMAIN q : q[k].user_id = target}
  <2>1. user_exists(q, target)
    BY ChosenUserIsActive
  <2>2. nodes # {} /\ nodes \in SUBSET Nat /\ i = Min(nodes)
    BY <2>1 DEF user_exists, FairNode, FirstOf
  <2> HIDE DEF nodes
  <2>3. i \in nodes
    BY <2>2, MinIsLeast
  <2> QED
    BY <2>3 DEF nodes
<1>4. f[0] = SimStart(q, last) /\ \A n \in 1..Len(q) : f[n] = SimTurn(f[n - 1], fu)
  BY SimTurns
<1>5. g[0] = SimStart(r, target) /\ \A n \in 1..Len(r) : g[n] = SimTurn(g[n - 1], fu)
  BY <1>2, SimTurns
<1>6. \A n \in 0..Len(r) : g[n].rest \in Seq(Jobs) /\ g[n].array \in Seq(Jobs)
  BY <1>2, SimTypes
<1>7. SimTurn(SimStart(q, last), fu) = [rest |-> r, last |-> target, array |-> Append(<<>>, x)]
  BY DEF SimTurn, SimStart, FairNode
<1>8. /\ queue_copy_fair_to_array(q, fu, last) = f[Len(q)].array
      /\ queue_copy_fair_to_array(r, fu, target) = g[Len(r)].array
  BY ViewIsSim
<1> HIDE DEF i, r, target, f, g, x
<1>9. Same(0)
  <2>1. f[1] = [rest |-> r, last |-> target, array |-> Append(<<>>, x)]
    BY <1>1, <1>4, <1>7
  <2>2. g[0] = [rest |-> r, last |-> target, array |-> <<>>]
    BY <1>5 DEF SimStart
  <2>3. Append(<<>>, x) = <<x>> \o <<>>
    OBVIOUS
  <2> QED
    BY <2>1, <2>2, <2>3
<1>10. ASSUME NEW n \in 0..(Len(r) - 1), Same(n)
       PROVE  Same(n + 1)
  <2> DEFINE a == g[n].array
             u == choose_next_fair_user(g[n].rest, fu, g[n].last)
             k == FirstOf(g[n].rest, u)
             y == g[n].rest[k]
  <2>0. n \in 0..Len(r) /\ (n + 1) + 1 = n + 2
    BY <1>1, <1>2
  <2>1. f[n + 2] = SimTurn(f[n + 1], fu) /\ g[n + 1] = SimTurn(g[n], fu)
    <3>1. n + 2 \in 1..Len(q) /\ n + 1 \in 1..Len(r) /\ (n + 2) - 1 = n + 1 /\ (n + 1) - 1 = n
      BY <1>1, <1>2
    <3> QED
      BY <1>4, <1>5, <3>1
  <2>2. CASE u = NoUser
    <3>1. f[n + 2] = f[n + 1] /\ g[n + 1] = g[n]
      BY <1>10, <2>1, <2>2 DEF SimTurn
    <3> QED
      BY <1>10, <2>0, <3>1
  <2>3. CASE u # NoUser
    <3>1. /\ f[n + 2] = [rest |-> RemoveAt(g[n].rest, k), last |-> u,
                         array |-> Append(<<x>> \o a, y)]
          /\ g[n + 1] = [rest |-> RemoveAt(g[n].rest, k), last |-> u, array |-> Append(a, y)]
      BY <1>10, <2>1, <2>3 DEF SimTurn
    <3>2. y \in Jobs
      <4>1. g[n].rest # <<>>
        BY <2>3 DEF choose_next_fair_user
      <4>2. k = FairNode(g[n].rest, fu, g[n].last)
        BY DEF FairNode
      <4>3. k \in 1..Len(g[n].rest)
        BY <1>6, <2>0, <4>1, <4>2, FairNodeIsFirstOfUser
      <4> QED
        BY <1>6, <2>0, <4>3
    <3>3. Append(<<x>> \o a, y) = <<x>> \o Append(a, y)
      <4>1. a \in Seq(Jobs)
        BY <1>6, <2>0
      <4> HIDE DEF a, y
      <4> QED
        BY <1>2, <3>2, <4>1
    <3> HIDE DEF a, u, k, y
    <3>4. /\ f[n + 2].rest = g[n + 1].rest /\ f[n + 2].last = g[n + 1].last
          /\ f[n + 2].array = Append(<<x>> \o a, y) /\ g[n + 1].array = Append(a, y)
      BY <3>1
    <3> QED
      BY <2>0, <3>3, <3>4
  <2> QED
    BY <2>2, <2>3
<1> HIDE DEF Same
<1>11. Bad = {}
  <2> SUFFICES ASSUME Bad # {} PROVE FALSE
    OBVIOUS
  <2>1. Min(Bad) \in Bad /\ \A z \in Bad : Min(Bad) <= z
    <3>1. Bad \in SUBSET Nat
      OBVIOUS
    <3> HIDE DEF Bad
    <3> QED
      BY <3>1, MinIsLeast
  <2>2. PICK m \in 0..Len(r) : m = Min(Bad)
    BY <2>1
  <2>3. m # 0 /\ m - 1 \in 0..(Len(r) - 1) /\ (m - 1) + 1 = m
    BY <1>1, <1>2, <1>9, <2>1, <2>2
  <2>4. Same(m - 1)
    BY <2>1, <2>2, <2>3
  <2>5. Same(m)
    BY <1>10, <2>3, <2>4
  <2> QED
    BY <2>1, <2>2, <2>5
<1>12. f[Len(q)].array = <<x>> \o g[Len(r)].array
  <2>1. Len(r) \in 0..Len(r) /\ Len(r) + 1 = Len(q)
    BY <1>1, <1>2
  <2> QED
    BY <1>11, <2>1 DEF Same
<1> QED
  BY <1>3, <1>8, <1>12 DEF i, r, x

\* What runner -c shows as Scheduled under fair is what happens: when the refill
\* loop of start_waiting_jobs promotes a command, it is the first one of the
\* order that queue_copy_fair_to_array simulates, and the simulated order of the
\* others stays, for every number of users and commands, provided that memory
\* can be allocated and no user has the identifier -1.
THEOREM PreviewIsKept ==
    ~AllocMayFail /\ NoUser \notin Users => (ControllerSpec => PreviewIsDispatched)
<1> SUFFICES ASSUME ~AllocMayFail, NoUser \notin Users
             PROVE  ControllerSpec => PreviewIsDispatched
  OBVIOUS
<1> DEFINE Kept == policy = "fair" /\ Len(running_queue') > Len(running_queue)
                     /\ waiting_queue' # waiting_queue
                   => \E q \in {waiting_queue'}, users \in {fair_users'},
                         last \in {last_scheduled_user'} :
                         FairView = <<Last(running_queue')>>
                                    \o queue_copy_fair_to_array(q, users, last)
<1>1. ASSUME CtlTypeOK, [CtlNext]_ctlVars PROVE [Kept]_ctlVars
  <2> USE DEF config, jobVars, fairVars, stopVars, logVars
  <2> SUFFICES ASSUME CtlNext, policy = "fair", Len(running_queue') > Len(running_queue),
                      waiting_queue' # waiting_queue
               PROVE  FairView = <<Last(running_queue')>> \o FairView'
    BY <1>1 DEF FairView
  <2>0. /\ running_queue \in Seq(Jobs) /\ waiting_queue \in Seq(Jobs)
        /\ fair_users \in Seq(Int) /\ Len(running_queue) \in Nat
    BY <1>1, UsersAssumption DEF CtlTypeOK
  <2>1. start_waiting_jobs
    <3>1. ~(Exit \/ OpenServerFails)
      <4>1. Exit \/ OpenServerFails => running_queue' = <<>>
        BY DEF Exit, OpenServerFails, controller_destroy_queues
      <4>2. running_queue' = <<>> => Len(running_queue') = 0
        OBVIOUS
      <4> QED
        BY <2>0, <4>1, <4>2
    <3>2. ASSUME NEW m \in Messages, controller_handle_message(m) PROVE FALSE
      BY <3>2 DEF controller_handle_message, reject_submit, handle_submit, take_done,
                  handle_status_req, handle_shutdown_req, EnqueueFails
    <3>3. ASSUME NEW m \in taken, handle_done(m) PROVE FALSE
      BY <3>3 DEF handle_done
    <3> QED
      BY <3>1, <3>2, <3>3
      DEF CtlNext, CreateFifo, StartFails, OpenServer, OpenServerBlocks, OpenServerReturns,
          ReadEof, CloseServer, Killed, Goto, try_finish_shutdown, OpenReply, OpenReplyFails,
          WriteReply, CloseReply, AfterReply
  <2>2. waiting_queue # <<>>
    BY <2>1 DEF start_waiting_jobs
  <2>3. PICK i \in DequeueNodes(policy, waiting_queue, fair_users,
                                last_scheduled_user, AllocMayFail) :
          /\ waiting_queue' = RemoveAt(waiting_queue, i)
          /\ running_queue' = Append(running_queue, waiting_queue[i])
          /\ last_scheduled_user' = waiting_queue[i].user_id
          /\ UNCHANGED fair_users
    BY <2>1 DEF start_waiting_jobs, EnqueueFails, queue_enqueue
  <2>4. i = FairNode(waiting_queue, fair_users, last_scheduled_user)
    BY DEF DequeueNodes
  <2>5. choose_next_fair_user(waiting_queue, fair_users, last_scheduled_user) # NoUser
    <3> DEFINE u == choose_next_fair_user(waiting_queue, fair_users, last_scheduled_user)
    <3>1. user_exists(waiting_queue, u)
      BY <2>0, <2>2, ChosenUserIsActive
    <3> HIDE DEF u
    <3>2. PICK k \in DOMAIN waiting_queue : waiting_queue[k].user_id = u
      BY <3>1 DEF user_exists
    <3>3. waiting_queue[k] \in Jobs
      BY <2>0
    <3>4. u \in Users
      BY <3>2, <3>3 DEF Jobs
    <3> QED
      BY <3>4 DEF u
  <2>6. i \in 1..Len(waiting_queue)
    BY <2>0, <2>2, <2>4, FairNodeIsFirstOfUser
  <2>7. Last(running_queue') = waiting_queue[i]
    <3>1. waiting_queue[i] \in Jobs
      BY <2>0, <2>6
    <3> QED
      BY <2>0, <2>3, <3>1 DEF Last
  <2>8. FairView' = queue_copy_fair_to_array(RemoveAt(waiting_queue, i), fair_users,
                                             waiting_queue[i].user_id)
    BY <2>3 DEF FairView
  <2> QED
    BY <2>0, <2>2, <2>4, <2>5, <2>7, <2>8, FirstThenRest DEF FairView
<1> QED
  BY <1>1, TypeCorrect, PTL DEF ControllerSpec, PreviewIsDispatched

------------------------------------------------------------------------------
(* The rotation *)

(***************************************************************************)
(* The search of choose_next_fair_user starts after the place l of the     *)
(* last scheduled user in fair_users and goes round.  Nearer(l, i, j) says *)
(* that it meets place i before place j.                                   *)
(***************************************************************************)
Nearer(l, i, j) == (i > l /\ j <= l) \/ ((i > l <=> j > l) /\ i < j)

Injective(s) == \A i, j \in 1..Len(s) : s[i] = s[j] => i = j
Members(s) == {s[i] : i \in 1..Len(s)}

\* The place the search looks at offset places after l.
Place(n, l, o) == IF l + o <= n THEN l + o ELSE l + o - n

LEMMA PlaceIsModulo ==
    ASSUME NEW n \in Nat \ {0}, NEW l \in 1..n, NEW o \in 1..n
    PROVE  /\ (((l - 1) + o + n) % n) + 1 = Place(n, l, o)
           /\ Place(n, l, o) \in 1..n
<1> DEFINE r == Place(n, l, o) - 1
<1>1. r \in 0..(n - 1) /\ Place(n, l, o) = r + 1 /\ Place(n, l, o) \in 1..n
  BY DEF Place
<1>2. (r + n) % n = r /\ (r + n + n) % n = r
  <2> HIDE DEF r
  <2> QED
    BY <1>1
<1>3. (l - 1) + o + n = r + n \/ (l - 1) + o + n = r + n + n
  BY DEF Place
<1> HIDE DEF r
<1> QED
  BY <1>1, <1>2, <1>3

\* The search meets a place at a smaller offset first.
LEMMA SmallerOffset ==
    ASSUME NEW n \in Nat \ {0}, NEW l \in 1..n, NEW m \in 1..n, NEW o \in 1..n, m < o
    PROVE  Nearer(l, Place(n, l, m), Place(n, l, o))
<1>1. CASE l + o <= n
  BY <1>1 DEF Nearer, Place
<1>2. CASE l + o > n /\ l + m <= n
  BY <1>2 DEF Nearer, Place
<1>3. CASE l + o > n /\ l + m > n
  BY <1>3 DEF Nearer, Place
<1> QED
  BY <1>1, <1>2, <1>3

\* choose_next_fair_user returns the first user of the search that has a job.
LEMMA NearestUser ==
    ASSUME NEW q \in Seq(Jobs), q # <<>>, NEW fu \in Seq(Int), Injective(fu),
           \A k \in 1..Len(q) : q[k].user_id \in Members(fu),
           NEW l \in 1..Len(fu), NEW last, fu[l] = last
    PROVE  \E k \in 1..Len(fu) :
              /\ fu[k] = choose_next_fair_user(q, fu, last)
              /\ \A j \in 1..Len(fu) : user_exists(q, fu[j]) /\ j # k => Nearer(l, k, j)
<1> DEFINE n == Len(fu)
           hits == {o \in 1..n : user_exists(q, UserAt(fu, last, o))}
<1>0. n \in Nat \ {0} /\ DOMAIN fu = 1..n /\ DOMAIN q = 1..Len(q) /\ Len(q) \in Nat
      /\ 1 \in 1..Len(q)
  OBVIOUS
<1>1. LastIdx(fu, last) = l - 1
  <2> DEFINE seen == {i \in DOMAIN fu : fu[i] = last}
  <2>1. seen = {l}
    BY <1>0 DEF Injective
  <2>2. Min({l}) = l
    <3>1. {l} \in SUBSET Nat /\ {l} # {}
      BY <1>0
    <3> QED
      BY <3>1, MinIsLeast
  <2> QED
    BY <2>1, <2>2 DEF LastIdx
<1>2. \A o \in 1..n : UserAt(fu, last, o) = fu[Place(n, l, o)] /\ Place(n, l, o) \in 1..n
  BY <1>0, <1>1, PlaceIsModulo DEF UserAt
<1>3. \A j \in 1..n : \E o \in 1..n : Place(n, l, o) = j
  <2> SUFFICES ASSUME NEW j \in 1..n PROVE \E o \in 1..n : Place(n, l, o) = j
    OBVIOUS
  <2>1. CASE j > l
    <3>1. j - l \in 1..n /\ Place(n, l, j - l) = j
      BY <1>0, <2>1 DEF Place
    <3> QED
      BY <3>1
  <2>2. CASE j <= l
    <3>1. j - l + n \in 1..n /\ Place(n, l, j - l + n) = j
      BY <1>0, <2>2 DEF Place
    <3> QED
      BY <3>1
  <2> QED
    BY <2>1, <2>2
<1>4. hits # {}
  <2>1. PICK j \in 1..n : fu[j] = q[1].user_id
    BY <1>0 DEF Members
  <2>2. PICK o \in 1..n : Place(n, l, o) = j
    BY <1>3
  <2>3. user_exists(q, UserAt(fu, last, o))
    BY <1>0, <1>2, <2>1, <2>2 DEF user_exists
  <2> QED
    BY <2>3
<1>5. Min(hits) \in hits /\ \A o \in hits : Min(hits) <= o
  <2>1. hits \in SUBSET Nat
    OBVIOUS
  <2> HIDE DEF hits
  <2> QED
    BY <1>4, <2>1, MinIsLeast
<1>6. PICK m \in 1..n : m = Min(hits)
  BY <1>5
<1>7. choose_next_fair_user(q, fu, last) = UserAt(fu, last, m)
  <2>1. fu # <<>>
    BY <1>0
  <2> QED
    BY <1>4, <1>6, <2>1 DEF choose_next_fair_user
<1>8. PICK k \in 1..n : k = Place(n, l, m) /\ fu[k] = choose_next_fair_user(q, fu, last)
  BY <1>2, <1>7
<1>9. ASSUME NEW j \in 1..n, user_exists(q, fu[j]), j # k
      PROVE  Nearer(l, k, j)
  <2>1. PICK o \in 1..n : Place(n, l, o) = j
    BY <1>3
  <2>2. o \in hits
    BY <1>2, <1>9, <2>1
  <2>3. m <= o /\ m # o
    BY <1>5, <1>6, <1>8, <1>9, <2>1, <2>2
  <2>4. m < o
    BY <2>3
  <2>5. Nearer(l, Place(n, l, m), Place(n, l, o))
    <3> HIDE DEF n
    <3> QED
      BY <1>0, <2>4, SmallerOffset
  <2> QED
    BY <1>8, <2>1, <2>5
<1> QED
  BY <1>8, <1>9

(***************************************************************************)
(* KnownInv: as long as memory can be allocated, fair_users lists a user   *)
(* once, it lists everyone who waits, and it lists the last user served    *)
(* while anything is queued.                                               *)
(***************************************************************************)
KnownInv ==
    /\ Injective(fair_users)
    /\ \A k \in 1..Len(waiting_queue) : waiting_queue[k].user_id \in Members(fair_users)
    /\ waiting_queue # <<>> \/ running_queue # <<>>
          => last_scheduled_user \in Members(fair_users)

\* The turns of the others end where they began: after the search has passed u
\* to serve v, it meets u before it meets v again.
TurnInv ==
    policy = "fair" =>
        \A u, v \in Users : passed[u][v] # 0 =>
            /\ passed[u][v] = 1
            /\ v \in Members(fair_users)
            /\ \A i, j, l \in 1..Len(fair_users) :
                  /\ fair_users[i] = u
                  /\ fair_users[j] = v
                  /\ fair_users[l] = last_scheduled_user
                  => Nearer(l, i, j)

RotationTypes == passed \in [Users -> [Users -> Nat]]

\* remember_fair_user adds the user at the end unless it is known.
LEMMA Remembered ==
    ASSUME ~AllocMayFail, fair_users \in Seq(Users), Injective(fair_users), NEW u \in Users,
           remember_fair_user(u)
    PROVE  /\ Injective(fair_users')
           /\ u \in Members(fair_users')
           /\ Members(fair_users) \subseteq Members(fair_users')
           /\ \A x \in Members(fair_users) : \A i \in 1..Len(fair_users') :
                 fair_users'[i] = x => i \in 1..Len(fair_users) /\ fair_users[i] = x
<1>0. Len(fair_users) \in Nat /\ DOMAIN fair_users = 1..Len(fair_users)
  OBVIOUS
<1>1. CASE UNCHANGED fair_users
  <2>1. \E i \in DOMAIN fair_users : fair_users[i] = u
    <3>1. CASE fair_users' = Append(fair_users, u)
      <4>1. Len(fair_users') = Len(fair_users) + 1
        BY <3>1
      <4> QED
        BY <1>0, <1>1, <4>1
    <3> QED
      BY <3>1 DEF remember_fair_user
  <2> QED
    BY <1>0, <1>1, <2>1 DEF Injective, Members
<1>2. CASE /\ ~(\E i \in DOMAIN fair_users : fair_users[i] = u)
           /\ fair_users' = Append(fair_users, u)
  <2>1. /\ Len(fair_users') = Len(fair_users) + 1
        /\ \A i \in 1..Len(fair_users) : fair_users'[i] = fair_users[i]
        /\ fair_users'[Len(fair_users) + 1] = u
    BY <1>2
  <2>2. \A i \in 1..Len(fair_users') :
           i \in 1..Len(fair_users) \/ i = Len(fair_users) + 1
    BY <1>0, <2>1
  <2>3. Injective(fair_users')
    BY <1>0, <1>2, <2>1, <2>2 DEF Injective
  <2>4. /\ Len(fair_users) + 1 \in 1..Len(fair_users')
        /\ 1..Len(fair_users) \subseteq 1..Len(fair_users')
    BY <1>0, <2>1
  <2>5. u \in Members(fair_users')
    BY <2>1, <2>4 DEF Members
  <2>6. Members(fair_users) \subseteq Members(fair_users')
    BY <2>1, <2>4 DEF Members
  <2>7. \A x \in Members(fair_users) : x # u
    BY <1>0, <1>2 DEF Members
  <2> QED
    BY <2>1, <2>2, <2>3, <2>5, <2>6, <2>7
<1> QED
  BY <1>1, <1>2 DEF remember_fair_user

LEMMA SubmitKeepsKnown ==
    ASSUME ~AllocMayFail, CtlTypeOK, SlotInv, KnownInv, NEW m \in Messages, handle_submit(m)
    PROVE  KnownInv'
<1> USE DEF config, jobVars, fairVars, stopVars, logVars
<1> DEFINE job == [command_id |-> m.command_id, user_id |-> m.user_id,
                   runner_pid |-> m.sender_pid, start_time |-> clock]
<1>0. /\ running_queue \in Seq(Jobs) /\ waiting_queue \in Seq(Jobs)
      /\ fair_users \in Seq(Users) /\ parallel_limit \in Nat \ {0} /\ running_count \in Nat
      /\ Len(waiting_queue) \in Nat /\ Len(running_queue) \in Nat
  BY DEF CtlTypeOK
<1>1. job \in Jobs /\ job.user_id \in Users
  BY DEF handle_submit, Messages, CtlTypeOK, Jobs
<1>2. /\ Injective(fair_users') /\ job.user_id \in Members(fair_users')
      /\ Members(fair_users) \subseteq Members(fair_users')
  <2>1. remember_fair_user(job.user_id)
    BY DEF handle_submit
  <2> HIDE DEF job
  <2> QED
    BY <1>0, <1>1, <2>1, Remembered DEF KnownInv
<1>3. CASE /\ SlotFree /\ last_scheduled_user' = job.user_id /\ UNCHANGED waiting_queue
  BY <1>2, <1>3 DEF KnownInv
<1>4. CASE /\ ~SlotFree /\ waiting_queue' = queue_enqueue(waiting_queue, job)
           /\ UNCHANGED <<running_queue, last_scheduled_user>>
  <2>1. running_queue # <<>>
    BY <1>0, <1>4 DEF handle_submit, SlotInv, SlotAccounting, SlotFree
  <2>2. last_scheduled_user' \in Members(fair_users')
    BY <1>2, <1>4, <2>1 DEF KnownInv
  <2>3. /\ Len(waiting_queue') = Len(waiting_queue) + 1
        /\ \A k \in 1..Len(waiting_queue) : waiting_queue'[k] = waiting_queue[k]
        /\ waiting_queue'[Len(waiting_queue) + 1] = job
    <3> HIDE DEF job
    <3> QED
      BY <1>0, <1>1, <1>4 DEF queue_enqueue
  <2>4. \A k \in 1..Len(waiting_queue') :
           k \in 1..Len(waiting_queue) \/ k = Len(waiting_queue) + 1
    BY <1>0, <2>3
  <2>5. \A k \in 1..Len(waiting_queue') : waiting_queue'[k].user_id \in Members(fair_users')
    <3> HIDE DEF job
    <3> QED
      BY <1>2, <2>3, <2>4 DEF KnownInv
  <2> QED
    BY <1>2, <2>2, <2>5 DEF KnownInv
<1> QED
  BY <1>3, <1>4 DEF handle_submit, EnqueueFails

\* The job a turn of the refill loop promotes, when memory can be allocated.
LEMMA Promotion ==
    ASSUME ~AllocMayFail, CtlTypeOK, start_waiting_jobs, SlotFree, waiting_queue # <<>>
    PROVE  \E i \in 1..Len(waiting_queue) :
              /\ waiting_queue' = RemoveAt(waiting_queue, i)
              /\ running_queue' = Append(running_queue, waiting_queue[i])
              /\ last_scheduled_user' = waiting_queue[i].user_id
              /\ policy = "fair" => i = FairNode(waiting_queue, fair_users, last_scheduled_user)
<1> USE DEF config, jobVars, fairVars, stopVars, logVars
<1>1. PICK i \in DequeueNodes(policy, waiting_queue, fair_users,
                              last_scheduled_user, AllocMayFail) :
        /\ waiting_queue' = RemoveAt(waiting_queue, i)
        /\ running_queue' = Append(running_queue, waiting_queue[i])
        /\ last_scheduled_user' = waiting_queue[i].user_id
  BY DEF start_waiting_jobs, EnqueueFails, queue_enqueue
<1>2. i \in 1..Len(waiting_queue)
  <2>1. waiting_queue \in Seq(Jobs) /\ fair_users \in Seq(Int)
    BY UsersAssumption DEF CtlTypeOK
  <2> QED
    BY <2>1, FailureAssumption, DequeuedNode
<1>3. policy = "fair" => i = FairNode(waiting_queue, fair_users, last_scheduled_user)
  BY DEF DequeueNodes
<1> QED
  BY <1>1, <1>2, <1>3

LEMMA RefillKeepsKnown ==
    ASSUME ~AllocMayFail, CtlTypeOK, KnownInv, start_waiting_jobs
    PROVE  KnownInv'
<1> USE DEF config, jobVars, fairVars, stopVars, logVars
<1>0. waiting_queue \in Seq(Jobs) /\ UNCHANGED fair_users /\ Len(waiting_queue) \in Nat
  BY DEF CtlTypeOK, start_waiting_jobs
<1>1. CASE ~SlotFree \/ waiting_queue = <<>>
  BY <1>0, <1>1 DEF start_waiting_jobs, KnownInv
<1>2. CASE SlotFree /\ waiting_queue # <<>>
  <2>1. PICK i \in 1..Len(waiting_queue) :
          /\ waiting_queue' = RemoveAt(waiting_queue, i)
          /\ last_scheduled_user' = waiting_queue[i].user_id
    BY <1>2, Promotion
  <2>2. ASSUME NEW k \in 1..Len(waiting_queue')
        PROVE  waiting_queue'[k].user_id \in Members(fair_users')
    <3>1. \E n \in 1..Len(waiting_queue) : waiting_queue'[k] = waiting_queue[n]
      <4>1. k \in 1..(Len(waiting_queue) - 1)
            /\ waiting_queue'[k] = IF k < i THEN waiting_queue[k] ELSE waiting_queue[k + 1]
        BY <1>0, <2>1, RemoveAtProperties
      <4>2. k \in 1..Len(waiting_queue) /\ k + 1 \in 1..Len(waiting_queue)
        BY <1>0, <4>1
      <4> QED
        BY <4>1, <4>2
    <3> QED
      BY <1>0, <3>1 DEF KnownInv
  <2> QED
    BY <1>0, <2>1, <2>2 DEF KnownInv
<1> QED
  BY <1>1, <1>2

LEMMA StepKeepsKnown ==
    ASSUME ~AllocMayFail, CtlTypeOK, SlotInv, KnownInv, [CtlNext]_ctlVars
    PROVE  KnownInv'
<1> USE DEF config, jobVars, fairVars, stopVars, logVars
<1>1. CASE Exit \/ OpenServerFails
  <2>1. waiting_queue' = <<>> /\ running_queue' = <<>> /\ fair_users' = <<>>
    BY <1>1 DEF Exit, OpenServerFails, controller_destroy_queues
  <2> QED
    BY <2>1 DEF KnownInv, Injective
<1>2. CASE \E m \in taken : handle_done(m)
  <2>1. PICK m \in taken : handle_done(m)
    BY <1>2
  <2>2. UNCHANGED <<fair_users, last_scheduled_user, waiting_queue>>
    BY <2>1 DEF handle_done
  <2>3. running_queue = <<>> => UNCHANGED running_queue
    BY <2>1 DEF handle_done, NodesOfCommand
  <2> QED
    BY <2>2, <2>3 DEF KnownInv
<1>3. CASE UNCHANGED <<fair_users, last_scheduled_user, waiting_queue, running_queue>>
  BY <1>3 DEF KnownInv
<1>4. CASE \E m \in Messages : handle_submit(m)
  BY <1>4, SubmitKeepsKnown
<1>5. CASE start_waiting_jobs
  BY <1>5, RefillKeepsKnown
<1> QED
  BY <1>1, <1>2, <1>3, <1>4, <1>5
  DEF CtlNext, ctlVars, CreateFifo, StartFails, OpenServer, OpenServerBlocks,
      OpenServerReturns, ReadEof, CloseServer, Killed, Goto, try_finish_shutdown, OpenReply,
      OpenReplyFails, WriteReply, CloseReply, AfterReply, controller_handle_message,
      reject_submit, take_done, handle_status_req, handle_shutdown_req

NewTurns == passed' = [u \in Users |-> [v \in Users |-> Passed(u, v)]]

\* A step that authorizes nobody leaves the count of turns or clears it.
LEMMA NoTurn ==
    ASSUME KnownInv, TurnInv, NewTurns, ~Authorizes, waiting_queue \in Seq(Jobs),
           UNCHANGED <<policy, last_scheduled_user>>,
           Members(fair_users) \subseteq Members(fair_users'),
           \A x \in Members(fair_users) : \A i \in 1..Len(fair_users') :
               fair_users'[i] = x => i \in 1..Len(fair_users) /\ fair_users[i] = x
    PROVE  TurnInv'
<1> SUFFICES ASSUME policy = "fair", NEW u \in Users, NEW v \in Users, passed'[u][v] # 0
             PROVE  /\ passed'[u][v] = 1
                    /\ v \in Members(fair_users')
                    /\ \A i, j, l \in 1..Len(fair_users') :
                          /\ fair_users'[i] = u
                          /\ fair_users'[j] = v
                          /\ fair_users'[l] = last_scheduled_user'
                          => Nearer(l, i, j)
  BY DEF TurnInv
<1>1. passed'[u][v] = passed[u][v] /\ user_exists(waiting_queue, u)
  BY DEF NewTurns, Passed
<1>2. u \in Members(fair_users) /\ last_scheduled_user \in Members(fair_users)
  BY <1>1 DEF user_exists, KnownInv
<1>3. /\ passed[u][v] = 1 /\ v \in Members(fair_users)
      /\ \A i, j, l \in 1..Len(fair_users) :
            /\ fair_users[i] = u
            /\ fair_users[j] = v
            /\ fair_users[l] = last_scheduled_user
            => Nearer(l, i, j)
  BY <1>1 DEF TurnInv
<1> QED
  BY <1>1, <1>2, <1>3

\* Whoever does not wait has not been passed.
LEMMA NobodyWaits ==
    ASSUME NewTurns, waiting_queue = <<>> \/ waiting_queue' = <<>>
    PROVE  TurnInv'
<1>1. ASSUME NEW u \in Users, NEW v \in Users PROVE passed'[u][v] = 0
  <2>1. ~user_exists(waiting_queue, u) \/ ~user_exists(waiting_queue', u)
    BY DEF user_exists
  <2> QED
    BY <2>1 DEF NewTurns, Passed
<1> QED
  BY <1>1 DEF TurnInv

\* handle_submit authorizes its command only when nobody waits, and adds its
\* user behind all the places that count.
LEMMA SubmitKeepsTurns ==
    ASSUME ~AllocMayFail, CtlTypeOK, SlotInv, KnownInv, TurnInv, NewTurns,
           NEW m \in Messages, handle_submit(m)
    PROVE  TurnInv'
<1> USE DEF config, jobVars, fairVars, stopVars, logVars
<1>0. /\ running_queue \in Seq(Jobs) /\ waiting_queue \in Seq(Jobs)
      /\ fair_users \in Seq(Users) /\ running_count \in Nat /\ parallel_limit \in Nat
      /\ pc = "read" /\ m.user_id \in Users /\ Len(running_queue) \in Nat
      /\ UNCHANGED policy
  BY DEF CtlTypeOK, handle_submit, Messages
<1>1. CASE SlotFree
  <2>1. waiting_queue = <<>>
    BY <1>0, <1>1 DEF SlotInv, WorkConserving, SlotFree
  <2> QED
    BY <2>1, NobodyWaits
<1>2. CASE ~SlotFree
  <2>1. UNCHANGED <<running_queue, last_scheduled_user>>
    BY <1>2 DEF handle_submit, EnqueueFails
  <2>2. ~Authorizes
    BY <1>0, <2>1 DEF Authorizes
  <2>3. remember_fair_user(m.user_id)
    BY DEF handle_submit
  <2> QED
    BY <1>0, <2>1, <2>2, <2>3, Remembered, NoTurn DEF KnownInv
<1> QED
  BY <1>1, <1>2

\* The place the search starts from moves to the user it found, so the users it
\* meets later keep their order.
LEMMA NearerComposes ==
    ASSUME NEW l \in Nat, NEW t \in Nat, NEW i \in Nat, NEW j \in Nat,
           Nearer(l, t, i), Nearer(l, i, j)
    PROVE  Nearer(t, i, j)
  BY DEF Nearer

LEMMA NearerIsOrder ==
    ASSUME NEW l \in Nat, NEW i \in Nat, NEW j \in Nat, Nearer(l, i, j)
    PROVE  ~Nearer(l, j, i)
  BY DEF Nearer

\* A turn of the refill loop under fair serves the first waiting user of the
\* search: it is nobody who has had a turn since another waiting user was last
\* served, and it is now the last one the search would meet.
LEMMA RefillKeepsTurns ==
    ASSUME ~AllocMayFail, CtlTypeOK, KnownInv, RotationTypes, TurnInv, NewTurns,
           start_waiting_jobs
    PROVE  TurnInv'
<1> USE DEF config, jobVars, fairVars, stopVars, logVars
<1>0. /\ running_queue \in Seq(Jobs) /\ waiting_queue \in Seq(Jobs)
      /\ fair_users \in Seq(Users) /\ fair_users \in Seq(Int) /\ Len(running_queue) \in Nat
      /\ Len(fair_users) \in Nat /\ UNCHANGED <<policy, fair_users>>
  BY UsersAssumption DEF CtlTypeOK, start_waiting_jobs
<1>1. CASE ~SlotFree \/ waiting_queue = <<>>
  <2>1. UNCHANGED <<running_queue, last_scheduled_user>>
    BY <1>1 DEF start_waiting_jobs
  <2>2. ~Authorizes
    BY <1>0, <2>1 DEF Authorizes
  <2> QED
    BY <1>0, <2>1, <2>2, NoTurn
<1>2. CASE SlotFree /\ waiting_queue # <<>>
  <2> SUFFICES ASSUME policy = "fair", NEW u \in Users, NEW v \in Users, passed'[u][v] # 0
               PROVE  /\ passed'[u][v] = 1
                      /\ v \in Members(fair_users')
                      /\ \A i, j, l \in 1..Len(fair_users') :
                            /\ fair_users'[i] = u
                            /\ fair_users'[j] = v
                            /\ fair_users'[l] = last_scheduled_user'
                            => Nearer(l, i, j)
    BY <1>0 DEF TurnInv
  <2>1. PICK x \in 1..Len(waiting_queue) :
          /\ waiting_queue' = RemoveAt(waiting_queue, x)
          /\ running_queue' = Append(running_queue, waiting_queue[x])
          /\ last_scheduled_user' = waiting_queue[x].user_id
          /\ x = FairNode(waiting_queue, fair_users, last_scheduled_user)
    BY <1>2, Promotion
  <2> DEFINE t == waiting_queue[x].user_id
  <2>2. t = choose_next_fair_user(waiting_queue, fair_users, last_scheduled_user)
    <3> DEFINE c == choose_next_fair_user(waiting_queue, fair_users, last_scheduled_user)
               nodes == {i \in DOMAIN waiting_queue : waiting_queue[i].user_id = c}
    <3>1. user_exists(waiting_queue, c)
      BY <1>0, <1>2, ChosenUserIsActive
    <3>2. nodes # {} /\ nodes \in SUBSET Nat
      BY <1>0, <3>1 DEF user_exists
    <3>3. Min(nodes) \in nodes
      <4> HIDE DEF nodes
      <4> QED
        BY <3>2, MinIsLeast
    <3>4. x = Min(nodes)
      BY <2>1 DEF FairNode, FirstOf
    <3> QED
      BY <3>3, <3>4
  <2>3. Authorizes /\ Last(running_queue').user_id = t
    <3>1. waiting_queue[x] \in Jobs
      BY <1>0
    <3>2. /\ Len(running_queue') = Len(running_queue) + 1
          /\ running_queue'[Len(running_queue) + 1] = waiting_queue[x]
      BY <1>0, <2>1, <3>1
    <3> QED
      BY <1>0, <3>2 DEF Authorizes, Last
  <2>4. /\ user_exists(waiting_queue, u)
        /\ t # u
        /\ passed'[u][v] = IF t = v THEN passed[u][v] + 1 ELSE passed[u][v]
    BY <2>3 DEF NewTurns, Passed
  <2>5. PICK l \in 1..Len(fair_users) : fair_users[l] = last_scheduled_user
    BY <1>2 DEF KnownInv, Members
  <2>6. PICK k \in 1..Len(fair_users) :
          /\ fair_users[k] = t
          /\ \A j \in 1..Len(fair_users) :
                user_exists(waiting_queue, fair_users[j]) /\ j # k => Nearer(l, k, j)
    <3> HIDE DEF t
    <3>1. /\ Injective(fair_users)
          /\ \A y \in 1..Len(waiting_queue) :
                waiting_queue[y].user_id \in Members(fair_users)
      BY DEF KnownInv
    <3> QED
      BY <1>0, <1>2, <2>2, <2>5, <3>1, NearestUser
  <2>7. PICK i \in 1..Len(fair_users) : fair_users[i] = u
    <3>1. PICK y \in 1..Len(waiting_queue) : waiting_queue[y].user_id = u
      BY <1>0, <2>4 DEF user_exists
    <3>2. u \in Members(fair_users)
      BY <3>1 DEF KnownInv
    <3> QED
      BY <3>2 DEF Members
  <2>8. Nearer(l, k, i)
    BY <2>4, <2>6, <2>7
  <2>9. \A a, b \in 1..Len(fair_users) : fair_users[a] = fair_users[b] => a = b
    BY DEF KnownInv, Injective
  <2>10. passed[u][v] \in Nat
    BY DEF RotationTypes
  <2>11. /\ Len(fair_users') = Len(fair_users) /\ Members(fair_users') = Members(fair_users)
         /\ \A a \in 1..Len(fair_users) :
               /\ fair_users'[a] = u => a = i
               /\ fair_users'[a] = last_scheduled_user' => a = k
               /\ fair_users'[a] = fair_users[a]
    BY <1>0, <2>1, <2>6, <2>7, <2>9
  <2> HIDE DEF t
  <2>12. CASE t = v
    <3>1. passed[u][v] = 0
      <4>1. Nearer(l, i, k) => ~Nearer(l, k, i)
        BY NearerIsOrder
      <4> QED
        BY <2>5, <2>6, <2>7, <2>8, <2>12, <4>1 DEF TurnInv
    <3>2. passed'[u][v] = 1
      BY <2>4, <2>12, <3>1
    <3>3. v \in Members(fair_users)
      BY <2>6, <2>12 DEF Members
    <3>4. Nearer(k, i, k)
      BY <2>8 DEF Nearer
    <3> QED
      BY <2>6, <2>9, <2>12, <2>11, <3>2, <3>3, <3>4
  <2>13. CASE t # v
    <3>1. passed[u][v] # 0 /\ passed'[u][v] = passed[u][v]
      BY <2>4, <2>13
    <3>2. /\ passed[u][v] = 1 /\ v \in Members(fair_users)
          /\ \A j \in 1..Len(fair_users) : fair_users[j] = v => Nearer(l, i, j)
      BY <2>5, <2>7, <3>1 DEF TurnInv
    <3>3. ASSUME NEW j \in 1..Len(fair_users), fair_users[j] = v
          PROVE  Nearer(k, i, j)
      BY <2>8, <3>2, <3>3, NearerComposes
    <3> QED
      BY <2>11, <3>1, <3>2, <3>3
  <2> QED
    BY <2>12, <2>13
<1> QED
  BY <1>1, <1>2

LEMMA StepKeepsTurns ==
    ASSUME ~AllocMayFail, CtlTypeOK, SlotInv, KnownInv, RotationTypes, TurnInv,
           [RotationNext]_rotationVars
    PROVE  TurnInv'
<1> USE DEF config, jobVars, fairVars, stopVars, logVars
<1>0. /\ waiting_queue \in Seq(Jobs) /\ running_queue \in Seq(Jobs)
      /\ Len(running_queue) \in Nat
  BY DEF CtlTypeOK
<1>1. CASE UNCHANGED rotationVars
  BY <1>1 DEF rotationVars, ctlVars, TurnInv
<1>2. CASE RotationNext
  <2>0. CtlNext /\ NewTurns
    BY <1>2 DEF RotationNext, NewTurns
  <2>1. CASE Exit \/ OpenServerFails
    <3>1. waiting_queue' = <<>>
      BY <2>1 DEF Exit, OpenServerFails, controller_destroy_queues
    <3> QED
      BY <2>0, <3>1, NobodyWaits
  <2>2. CASE \E m \in taken : handle_done(m)
    <3>1. PICK m \in taken : handle_done(m)
      BY <2>2
    <3>2. UNCHANGED <<policy, fair_users, last_scheduled_user>>
      BY <3>1 DEF handle_done
    <3>3. ~Authorizes
      <4>1. CASE UNCHANGED running_queue
        BY <1>0, <4>1 DEF Authorizes
      <4>2. CASE /\ NodesOfCommand(running_queue, m.command_id) # {}
                 /\ running_queue' = queue_remove_by_command_id(running_queue, m.command_id)
        <5>1. Min(NodesOfCommand(running_queue, m.command_id)) \in 1..Len(running_queue)
          BY <1>0, <4>2, FoundNode
        <5>2. Len(running_queue') = Len(running_queue) - 1
          BY <1>0, <4>2, <5>1, RemoveAtProperties DEF queue_remove_by_command_id
        <5> QED
          BY <1>0, <5>2 DEF Authorizes
      <4> QED
        BY <3>1, <4>1, <4>2 DEF handle_done
    <3> QED
      BY <1>0, <2>0, <3>2, <3>3, NoTurn
  <2>3. CASE UNCHANGED <<policy, fair_users, last_scheduled_user, running_queue>>
    <3>1. ~Authorizes
      BY <1>0, <2>3 DEF Authorizes
    <3> QED
      BY <1>0, <2>0, <2>3, <3>1, NoTurn
  <2>4. CASE \E m \in Messages : handle_submit(m)
    BY <2>0, <2>4, SubmitKeepsTurns
  <2>5. CASE start_waiting_jobs
    BY <2>0, <2>5, RefillKeepsTurns
  <2> QED
    BY <2>0, <2>1, <2>2, <2>3, <2>4, <2>5
    DEF CtlNext, CreateFifo, StartFails, OpenServer, OpenServerBlocks,
        OpenServerReturns, ReadEof, CloseServer, Killed, Goto, try_finish_shutdown, OpenReply,
        OpenReplyFails, WriteReply, CloseReply, AfterReply, controller_handle_message,
        reject_submit, take_done, handle_status_req, handle_shutdown_req
<1> QED
  BY <1>1, <1>2

LEMMA StepKeepsRotationTypes ==
    ASSUME RotationTypes, [RotationNext]_rotationVars
    PROVE  RotationTypes'
<1>1. CASE UNCHANGED passed
  BY <1>1 DEF RotationTypes
<1>2. CASE RotationNext
  <2>1. ASSUME NEW u \in Users, NEW v \in Users PROVE Passed(u, v) \in Nat
    BY DEF RotationTypes, Passed
  <2> QED
    BY <1>2, <2>1 DEF RotationNext, RotationTypes
<1> QED
  BY <1>1, <1>2 DEF rotationVars

\* "fair: alternates between users with pending work": as long as memory can be
\* allocated, while a user has commands waiting and none of them is authorized,
\* the refill loop and handle_submit together authorize at most one command of
\* every other user, for any number of users, slots and commands, whoever joins
\* the rotation and in whatever order the commands finish.
THEOREM FairToEveryUser == RotationSpec => []AtMostOneTurnEach
<1>1. AllocMayFail => (RotationSpec => []AtMostOneTurnEach)
  <2> SUFFICES ASSUME AllocMayFail PROVE RotationSpec => []AtMostOneTurnEach
    OBVIOUS
  <2>1. AtMostOneTurnEach
    BY DEF AtMostOneTurnEach
  <2> QED
    BY <2>1, PTL
<1>2. ~AllocMayFail => (RotationSpec => []AtMostOneTurnEach)
  <2> SUFFICES ASSUME ~AllocMayFail PROVE RotationSpec => []AtMostOneTurnEach
    OBVIOUS
  <2>1. RotationInit => KnownInv /\ RotationTypes /\ TurnInv
    BY DEF RotationInit, CtlInit, controller_configure, KnownInv, Injective, RotationTypes,
           TurnInv
  <2>2. RotationInit => CtlInit
    BY DEF RotationInit
  <2>3. [RotationNext]_rotationVars => [CtlNext]_ctlVars
    BY DEF RotationNext, rotationVars
  <2>4. CtlTypeOK /\ SlotInv /\ KnownInv /\ RotationTypes /\ TurnInv
        /\ [RotationNext]_rotationVars => KnownInv' /\ RotationTypes' /\ TurnInv'
    BY <2>3, StepKeepsKnown, StepKeepsRotationTypes, StepKeepsTurns
  <2>5. RotationSpec => []CtlTypeOK /\ []SlotInv
    BY <2>2, <2>3, TypeCorrect, SlotInvariance, PTL DEF RotationSpec, ControllerSpec
  <2>6. RotationTypes /\ TurnInv => AtMostOneTurnEach
    BY DEF RotationTypes, TurnInv, AtMostOneTurnEach
  <2> QED
    BY <2>1, <2>4, <2>5, <2>6, PTL DEF RotationSpec
<1> QED
  BY <1>1, <1>2
==============================================================================
