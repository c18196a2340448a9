--------------------------- MODULE RequestScheduler ---------------------------
(***************************************************************************)
(* The server's request scheduler (src/server/request-scheduler).          *)
(*                                                                         *)
(* Every request that names a handle is posted here before it touches      *)
(* storage and released when it is done.  One list per handle keeps the    *)
(* requests in arrival order; a request may run next to others only where  *)
(* one of three rules (I/O, read only, directory entry) allows it.  The    *)
(* same scheduler serialises changes of the server mode (normal or admin)  *)
(* and keeps the timers of the job layer.                                  *)
(*                                                                         *)
(* The caller is any legal user of the API: it releases what it has been   *)
(* told to run, and tests or unposts what it still waits for.              *)
(***************************************************************************)
EXTENDS Integers, Sequences, FiniteSets, SequencesExt

CONSTANTS
  Req,         \* identities of request elements (reused once freed)
  ModeChange,  \* identities of mode-change elements
  Timer,       \* identities of timer elements
  Handle,      \* object handles, PVFS_HANDLE_NULL among them
  Delay,       \* timer delays, in ticks
  WorkMetric   \* job_work_metric: the count handed to testworld

ASSUME SchedulerAssumption ==
  /\ Req \cap ModeChange = {}
  /\ Req \cap Timer = {}
  /\ ModeChange \cap Timer = {}
  /\ Delay \subseteq Nat \ {0}
  /\ WorkMetric \in Nat \ {0}

Elem == Req \cup ModeChange \cup Timer

\* What the scheduler tells apart in enum PVFS_server_op: I/O, the two
\* directory-entry operations crdirent and rmdirent, the operations of
\* PVFS_SERV_IS_MGMT_OP, and everything else.
Op         == {"IO", "DIRENT", "MGMT", "OTHER"}
AccessType == {"READONLY", "MODIFY"}
Mode       == {"NORMAL", "ADMIN"}
State      == {"FREE", "QUEUED", "SCHEDULED", "READY", "TIMING"}

\* The (op, access_type) pairs the server's request table declares.
Class == {<<"IO", "READONLY">>, <<"IO", "MODIFY">>, <<"DIRENT", "MODIFY">>,
          <<"MGMT", "MODIFY">>, <<"OTHER", "READONLY">>, <<"OTHER", "MODIFY">>}

VARIABLES
  queue,         \* req_sched_table: handle -> its req_list (empty = no entry)
  ready_queue,   \* elements that could run and have not been asked for yet
  mode_queue,    \* pending and running mode changes
  timer_queue,   \* timers by deadline
  state,         \* element -> its state; FREE when it is not allocated
  op,            \* request -> its operation
  access_type,   \* request -> the access the scheduler believes it needs
  mode,          \* mode change -> the mode it asks for
  left,          \* timer -> ticks left; 0 = now, -1 = past
  sched_count,   \* requests known to the scheduler
  current_mode,
  granted,       \* elements the caller has been told to run, not yet released
  bypassed       \* running requests that were let through without an element

vars == <<queue, ready_queue, mode_queue, timer_queue, state, op, access_type,
          mode, left, sched_count, current_mode, granted, bypassed>>

TypeOK ==
  /\ queue \in [Handle -> Seq(Req)]
  /\ ready_queue \in Seq(Req \cup ModeChange)
  /\ mode_queue \in Seq(ModeChange)
  /\ timer_queue \in Seq(Timer)
  /\ state \in [Elem -> State]
  /\ op \in [Req -> Op \cup {"NONE"}]
  /\ access_type \in [Req -> AccessType \cup {"NONE"}]
  /\ mode \in [ModeChange -> Mode]
  /\ left \in [Timer -> Int]
  /\ sched_count \in Int
  /\ current_mode \in Mode
  /\ granted \in SUBSET Elem
  /\ bypassed \in SUBSET Req

\* PINT_req_sched_initialize and the static initialisers.
Init ==
  /\ queue = [h \in Handle |-> <<>>]
  /\ ready_queue = <<>>
  /\ mode_queue = <<>>
  /\ timer_queue = <<>>
  /\ state = [e \in Elem |-> "FREE"]
  /\ op = [r \in Req |-> "NONE"]
  /\ access_type = [r \in Req |-> "NONE"]
  /\ mode = [m \in ModeChange |-> "NORMAL"]
  /\ left = [t \in Timer |-> -1]
  /\ sched_count = 0
  /\ current_mode = "NORMAL"
  /\ granted = {}
  /\ bypassed = {}

-----------------------------------------------------------------------------
(* The mode of the server.                                                 *)

\* Seeded fault: a waiting change to admin mode stops nobody.
InAdminModeNow == current_mode = "ADMIN"

\* PINT_req_sched_in_admin_mode: in admin mode, or about to enter it.
InAdminMode ==
  \/ current_mode = "ADMIN"
  \/ mode_queue # <<>> /\ mode[Head(mode_queue)] = "ADMIN"

\* The check made for every request, scheduled or not: -PVFS_EAGAIN to one
\* that modifies the file system and is no management operation.
Admitted(o, a) == (a = "MODIFY" /\ o # "MGMT") => ~InAdminMode

\* PINT_req_sched_schedule_mode_change, run at the end of every release and
\* unpost: st, rq, mq and count are the values the caller has just computed.
ScheduleModeChange(st, rq, mq, count) ==
  IF count = 0 /\ mq # <<>>
    THEN /\ state' = [st EXCEPT ![Head(mq)] = "READY"]
         /\ ready_queue' = Append(rq, Head(mq))
    ELSE /\ state' = st
         /\ ready_queue' = rq

\* PINT_req_sched_change_mode: at the front of the queue, normal mode is
\* entered at once and admin mode once no request is known.
ChangeMode(m, md) ==
  LET now == mode_queue = <<>> /\ (md = "NORMAL" \/ sched_count = 0)
  IN  /\ state[m] = "FREE"
      /\ m \notin granted
      /\ mode_queue' = Append(mode_queue, m)
      /\ mode' = [mode EXCEPT ![m] = md]
      /\ state' = [state EXCEPT ![m] = IF now THEN "SCHEDULED" ELSE "QUEUED"]
      /\ current_mode' = IF now THEN md ELSE current_mode
      /\ granted' = IF now THEN granted \cup {m} ELSE granted
      /\ UNCHANGED <<queue, ready_queue, timer_queue, op, access_type, left,
                     sched_count, bypassed>>

-----------------------------------------------------------------------------
(* Posting a request.                                                      *)

\* Seeded fault: only the head of the list is looked at.
HeadScheduled(q) == q # <<>> /\ state[q[1]] = "SCHEDULED"

\* The head and the tail of a list are both running.
BothEndsScheduled(q) ==
  q # <<>> /\ state[q[1]] = "SCHEDULED" /\ state[q[Len(q)]] = "SCHEDULED"

\* Seeded fault: the read-only rule looks at the first request only.
SharesReadHead(q, o, a) ==
  o # "IO" /\ a = "READONLY" /\ access_type[q[1]] # "MODIFY"

\* The three rules by which a request may join those running on its handle.
SharesIO(q, o)    == o = "IO" /\ \A i \in DOMAIN q : op[q[i]] = "IO"
SharesRead(q, o, a) ==
  o # "IO" /\ a = "READONLY" /\ \A i \in DOMAIN q : access_type[q[i]] # "MODIFY"
SharesDirent(o, a) == o = "DIRENT" /\ a # "READONLY"

MayStart(q, o, a) ==
  \/ q = <<>>
  \/ /\ BothEndsScheduled(q)
     /\ SharesIO(q, o) \/ SharesRead(q, o, a) \/ SharesDirent(o, a)

\* PINT_req_sched_post under PINT_SERVER_REQ_SCHEDULE.  A directory-entry
\* request that joins others is from then on treated as read only.
Post(r, h, o, a) ==
  LET start == MayStart(queue[h], o, a)
  IN  /\ state[r] = "FREE" /\ r \notin bypassed
      /\ Admitted(o, a)
      /\ queue' = [queue EXCEPT ![h] = Append(@, r)]
      /\ state' = [state EXCEPT ![r] = IF start THEN "SCHEDULED" ELSE "QUEUED"]
      /\ op' = [op EXCEPT ![r] = o]
      /\ access_type' = [access_type EXCEPT ![r] =
           IF start /\ queue[h] # <<>> /\ o = "DIRENT" THEN "READONLY" ELSE a]
      /\ sched_count' = sched_count + 1
      /\ granted' = IF start THEN granted \cup {r} ELSE granted
      /\ UNCHANGED <<ready_queue, mode_queue, timer_queue, mode, left,
                     current_mode, bypassed>>

\* PINT_req_sched_post under PINT_SERVER_REQ_BYPASS: no element, id 0.
PostBypass(r, o, a) ==
  /\ state[r] = "FREE" /\ r \notin bypassed
  /\ Admitted(o, a)
  /\ bypassed' = bypassed \cup {r}
  /\ op' = [op EXCEPT ![r] = o]
  /\ access_type' = [access_type EXCEPT ![r] = a]
  /\ UNCHANGED <<queue, ready_queue, mode_queue, timer_queue, state, mode,
                 left, sched_count, current_mode, granted>>

\* PINT_req_sched_release of id 0: nothing to clean up.
ReleaseBypass(r) ==
  /\ r \in bypassed
  /\ bypassed' = bypassed \ {r}
  /\ op' = [op EXCEPT ![r] = "NONE"]
  /\ access_type' = [access_type EXCEPT ![r] = "NONE"]
  /\ UNCHANGED <<queue, ready_queue, mode_queue, timer_queue, state, mode,
                 left, sched_count, current_mode, granted>>

-----------------------------------------------------------------------------
(* Letting the next requests of a handle go.                               *)

IsIO(r)       == op[r] = "IO"
IsReadOnly(r) == access_type[r] = "READONLY"
IOReqs        == {r \in Req : IsIO(r)}
ReadOnlyReqs  == {r \in Req : IsReadOnly(r)}

\* Seeded fault: the request that ends a run goes along with it.
LongestRunPast(q, n, S) ==
  /\ n \in 1..Len(q)
  /\ \A i \in 1..n - 1 : q[i] \in S
  /\ n < Len(q) => q[n] \notin S

\* The first n requests of q are the longest run of members of S.
LongestRun(q, n, S) ==
  /\ n \in 1..Len(q)
  /\ \A i \in 1..n : q[i] \in S
  /\ n < Len(q) => q[n + 1] \notin S

\* Seeded fault: a request that runs alone is not woken.
ReleaseBatchRuns(q, n) ==
  IF q = <<>> \/ state[q[1]] \in {"READY", "SCHEDULED"} THEN n = 0
  ELSE IF IsIO(q[1]) THEN LongestRun(q, n, IOReqs)
  ELSE IF IsReadOnly(q[1]) THEN LongestRun(q, n, ReadOnlyReqs)
  ELSE n = 0

\* How many requests a release makes ready when q is what remains of the
\* list: none unless the head waits, then a run of I/O or of read-only ones.
ReleaseBatch(q, n) ==
  IF q = <<>> \/ state[q[1]] \in {"READY", "SCHEDULED"} THEN n = 0
  ELSE IF IsIO(q[1]) THEN LongestRun(q, n, IOReqs)
  ELSE IF IsReadOnly(q[1]) THEN LongestRun(q, n, ReadOnlyReqs)
  ELSE n = 1

\* Seeded fault: withdrawing a ready request wakes nobody.
UnpostBatchNone(q, n, st) == n = 0

\* The same for the unpost of a request in state st: only if that one was
\* ready, and only runs of I/O are let go together.
UnpostBatch(q, n, st) ==
  IF st # "READY" \/ q = <<>> \/ state[q[1]] \in {"READY", "SCHEDULED"}
    THEN n = 0
  ELSE IF IsIO(q[1]) THEN LongestRun(q, n, IOReqs)
  ELSE n = 1

\* The states once r is freed and the first n requests of q are ready.
Woken(r, q, n) ==
  [e \in Elem |-> IF e = r THEN "FREE"
                  ELSE IF \E i \in 1..n : q[i] = e THEN "READY"
                  ELSE state[e]]

\* Seeded fault: an enumerator of the wrong type.
FreeReqMixed(r) ==
  /\ op' = [op EXCEPT ![r] = "FREE"]
  /\ access_type' = [access_type EXCEPT ![r] = "NONE"]

\* The attributes of a freed request are gone.
FreeReq(r) ==
  /\ op' = [op EXCEPT ![r] = "NONE"]
  /\ access_type' = [access_type EXCEPT ![r] = "NONE"]

\* PINT_req_sched_release of a request that has been running.
Release(r) ==
  /\ r \in granted \cap Req
  /\ \E h \in Handle : \E k \in DOMAIN queue[h] :
       LET q == RemoveAt(queue[h], k)
       IN  /\ queue[h][k] = r
           /\ queue' = [queue EXCEPT ![h] = q]
           /\ \E n \in 0..Len(q) :
                /\ ReleaseBatch(q, n)
                /\ ScheduleModeChange(Woken(r, q, n),
                                      ready_queue \o SubSeq(q, 1, n),
                                      mode_queue, sched_count - 1)
  /\ FreeReq(r)
  /\ sched_count' = sched_count - 1
  /\ granted' = granted \ {r}
  /\ UNCHANGED <<mode_queue, timer_queue, mode, left, current_mode, bypassed>>

\* PINT_req_sched_release of a mode change: it belongs to no handle list.
ReleaseMode(m) ==
  /\ m \in granted \cap ModeChange
  /\ \E k \in DOMAIN mode_queue :
       LET mq == RemoveAt(mode_queue, k)
       IN  /\ mode_queue[k] = m
           /\ mode_queue' = mq
           /\ ScheduleModeChange([state EXCEPT ![m] = "FREE"], ready_queue,
                                 mq, sched_count)
  /\ mode' = [mode EXCEPT ![m] = "NORMAL"]
  /\ granted' = granted \ {m}
  /\ UNCHANGED <<queue, timer_queue, op, access_type, left, sched_count,
                 current_mode, bypassed>>

-----------------------------------------------------------------------------
(* Withdrawing what the caller still waits for.                            *)

\* Seeded fault: the ready link is left in place.
StillLinked(e) == ready_queue

\* The ready queue once e is gone: qlist_del of its ready_link if it is READY.
Unlinked(e) ==
  IF state[e] = "READY"
    THEN RemoveAt(ready_queue, CHOOSE k \in DOMAIN ready_queue : ready_queue[k] = e)
    ELSE ready_queue

\* PINT_req_sched_unpost of a request.
Unpost(r) ==
  /\ r \in Req \ granted
  /\ state[r] \in {"QUEUED", "READY"}
  /\ \E h \in Handle : \E k \in DOMAIN queue[h] :
       LET q == RemoveAt(queue[h], k)
       IN  /\ queue[h][k] = r
           /\ queue' = [queue EXCEPT ![h] = q]
           /\ \E n \in 0..Len(q) :
                /\ UnpostBatch(q, n, state[r])
                /\ ScheduleModeChange(Woken(r, q, n),
                                      Unlinked(r) \o SubSeq(q, 1, n),
                                      mode_queue, sched_count - 1)
  /\ FreeReq(r)
  /\ sched_count' = sched_count - 1
  /\ UNCHANGED <<mode_queue, timer_queue, mode, left, current_mode, granted,
                 bypassed>>

\* PINT_req_sched_unpost of a mode change.
UnpostMode(m) ==
  /\ m \in ModeChange \ granted
  /\ state[m] \in {"QUEUED", "READY"}
  /\ \E k \in DOMAIN mode_queue :
       LET mq == RemoveAt(mode_queue, k)
       IN  /\ mode_queue[k] = m
           /\ mode_queue' = mq
           /\ ScheduleModeChange([state EXCEPT ![m] = "FREE"], Unlinked(m),
                                 mq, sched_count)
  /\ mode' = [mode EXCEPT ![m] = "NORMAL"]
  /\ UNCHANGED <<queue, timer_queue, op, access_type, left, sched_count,
                 current_mode, granted, bypassed>>

\* Seeded fault: withdrawing a timer counts as the end of a request.
UnpostTimerCounted(t) ==
  /\ state[t] = "TIMING"
  /\ \E k \in DOMAIN timer_queue :
       /\ timer_queue[k] = t
       /\ timer_queue' = RemoveAt(timer_queue, k)
  /\ sched_count' = sched_count - 1
  /\ ScheduleModeChange([state EXCEPT ![t] = "FREE"], ready_queue, mode_queue,
                        sched_count - 1)
  /\ left' = [left EXCEPT ![t] = -1]
  /\ UNCHANGED <<queue, mode_queue, op, access_type, mode, current_mode,
                 granted, bypassed>>

\* PINT_req_sched_unpost of a timer.
UnpostTimer(t) ==
  /\ state[t] = "TIMING"
  /\ \E k \in DOMAIN timer_queue :
       /\ timer_queue[k] = t
       /\ timer_queue' = RemoveAt(timer_queue, k)
  /\ ScheduleModeChange([state EXCEPT ![t] = "FREE"], ready_queue, mode_queue,
                        sched_count)
  /\ left' = [left EXCEPT ![t] = -1]
  /\ UNCHANGED <<queue, mode_queue, op, access_type, mode, sched_count,
                 current_mode, granted, bypassed>>

-----------------------------------------------------------------------------
(* Timers.                                                                 *)

\* Seeded fault: timers are kept in the order they were posted.
TimerSlotLast(d, k) == k = Len(timer_queue) + 1

\* Where PINT_req_sched_post_timer inserts a deadline d ticks away: before
\* the first timer that comes later, at the end if there is none.
TimerSlot(d, k) ==
  /\ k \in 1..Len(timer_queue) + 1
  /\ \A i \in 1..k - 1 : left[timer_queue[i]] <= d
  /\ k <= Len(timer_queue) => left[timer_queue[k]] > d

\* PINT_req_sched_post_timer (a delay under one millisecond completes at
\* once and leaves no element).
PostTimer(t, d) ==
  /\ state[t] = "FREE"
  /\ \E k \in 1..Len(timer_queue) + 1 :
       TimerSlot(d, k) /\ timer_queue' = InsertAt(timer_queue, k, t)
  /\ state' = [state EXCEPT ![t] = "TIMING"]
  /\ left' = [left EXCEPT ![t] = d]
  /\ UNCHANGED <<queue, ready_queue, mode_queue, op, access_type, mode,
                 sched_count, current_mode, granted, bypassed>>

\* gettimeofday moves on.  Deadlines are kept relative to now; how far one
\* lies in the past makes no difference.
Tick ==
  /\ \E t \in Timer : left[t] >= 0
  /\ left' = [t \in Timer |-> IF left[t] >= 0 THEN left[t] - 1 ELSE left[t]]
  /\ UNCHANGED <<queue, ready_queue, mode_queue, timer_queue, state, op,
                 access_type, mode, sched_count, current_mode, granted, bypassed>>

-----------------------------------------------------------------------------
(* Testing for completion.                                                 *)

\* PINT_req_sched_do_change_mode for the first n ready elements in turn: the
\* last mode change among them decides.
ModeAfter(n) ==
  \/ /\ \A i \in 1..n : ready_queue[i] \notin ModeChange
     /\ current_mode' = current_mode
  \/ \E i \in 1..n :
       /\ ready_queue[i] \in ModeChange
       /\ \A j \in i + 1..n : ready_queue[j] \notin ModeChange
       /\ current_mode' = mode[ready_queue[i]]

\* testworld takes k timers, then n ready elements, WorkMetric at most.
Reaps(k, n) ==
  /\ k <= WorkMetric /\ k + n <= WorkMetric /\ k + n > 0
  /\ \A i \in 1..k : left[timer_queue[i]] <= 0
  /\ (k < WorkMetric /\ k < Len(timer_queue)) => left[timer_queue[k + 1]] > 0
  /\ k + n < WorkMetric => n = Len(ready_queue)

\* PINT_req_sched_testworld, as do_one_test_cycle_req_sched calls it.
TestWorld ==
  \E k \in 0..Len(timer_queue), n \in 0..Len(ready_queue) :
    LET Fired(e)  == \E i \in 1..k : timer_queue[i] = e
        Picked(e) == \E i \in 1..n : ready_queue[i] = e
    IN  /\ Reaps(k, n)
        /\ timer_queue' = SubSeq(timer_queue, k + 1, Len(timer_queue))
        /\ ready_queue' = SubSeq(ready_queue, n + 1, Len(ready_queue))
        /\ state' = [e \in Elem |-> IF Fired(e) THEN "FREE"
                                    ELSE IF Picked(e) THEN "SCHEDULED"
                                    ELSE state[e]]
        /\ left' = [t \in Timer |-> IF Fired(t) THEN -1 ELSE left[t]]
        /\ ModeAfter(n)
        /\ granted' = granted \cup {e \in Elem : Picked(e)}
        /\ UNCHANGED <<queue, mode_queue, op, access_type, mode, sched_count,
                       bypassed>>

\* PINT_req_sched_test of an element that is ready, and one turn of the loop
\* of PINT_req_sched_testsome.
Test(e) ==
  /\ e \in (Req \cup ModeChange) \ granted
  /\ state[e] = "READY"
  /\ ready_queue' = Unlinked(e)
  /\ state' = [state EXCEPT ![e] = "SCHEDULED"]
  /\ current_mode' = IF e \in ModeChange THEN mode[e] ELSE current_mode
  /\ granted' = granted \cup {e}
  /\ UNCHANGED <<queue, mode_queue, timer_queue, op, access_type, mode, left,
                 sched_count, bypassed>>

\* The same for a timer: here the deadline itself is still too early.
TestTimer(t) ==
  /\ state[t] = "TIMING"
  /\ left[t] < 0
  /\ \E k \in DOMAIN timer_queue :
       /\ timer_queue[k] = t
       /\ timer_queue' = RemoveAt(timer_queue, k)
  /\ state' = [state EXCEPT ![t] = "FREE"]
  /\ UNCHANGED <<queue, ready_queue, mode_queue, op, access_type, mode, left,
                 sched_count, current_mode, granted, bypassed>>

-----------------------------------------------------------------------------
(* The ready queue is an intrusive list: an element linked twice, or freed *)
(* while it is linked, corrupts it.  The model follows the code up to such *)
(* a point and no further.                                                 *)
ReadyIntact ==
  /\ \A i, j \in DOMAIN ready_queue :
       ready_queue[i] = ready_queue[j] => i = j
  /\ \A i \in DOMAIN ready_queue : state[ready_queue[i]] = "READY"

ReqStep ==
  \/ \E r \in Req, h \in Handle, c \in Class : Post(r, h, c[1], c[2])
  \/ \E r \in Req, c \in Class : PostBypass(r, c[1], c[2])
  \/ \E r \in Req : ReleaseBypass(r)
  \/ \E r \in Req : Release(r)
  \/ \E r \in Req : Unpost(r)

ModeStep ==
  \/ \E m \in ModeChange, md \in Mode : ChangeMode(m, md)
  \/ \E m \in ModeChange : ReleaseMode(m)
  \/ \E m \in ModeChange : UnpostMode(m)

TimerStep ==
  \/ \E t \in Timer, d \in Delay : PostTimer(t, d)
  \/ \E t \in Timer : UnpostTimer(t)
  \/ \E t \in Timer : TestTimer(t)
  \/ Tick

Next ==
  \/ /\ ReadyIntact
     /\ \/ ReqStep
        \/ ModeStep
        \/ TimerStep
        \/ TestWorld
        \/ \E e \in Req \cup ModeChange : Test(e)
  \/ ~ReadyIntact /\ UNCHANGED vars

Spec == Init /\ [][Next]_vars

\* The server's main loop never stops calling job_testcontext, which runs
\* testworld; every request state machine reaches its release.
Fairness ==
  /\ WF_vars(TestWorld)
  /\ \A r \in Req : WF_vars(Release(r))

LiveSpec == Spec /\ Fairness

-----------------------------------------------------------------------------
(* Properties of the handle lists.                                         *)

InQueue(r, h) == \E k \in DOMAIN queue[h] : queue[h][k] = r

\* What two requests may hold together: I/O, or read-only access.
Together(a, b) ==
  \/ op[a] = "IO" /\ op[b] = "IO"
  \/ access_type[a] = "READONLY" /\ access_type[b] = "READONLY"

\* "We can never bypass a queued operation": on every handle the requests
\* whose turn has come are a prefix of the list.  PINT_req_sched_post looks
\* only at the two ends of the list, and the assertions of
\* PINT_req_sched_release (a run never meets a request that is not QUEUED)
\* rest on this.
NoBypass ==
  \A h \in Handle : \A j, k \in DOMAIN queue[h] :
    j < k /\ state[queue[h][j]] = "QUEUED" => state[queue[h][k]] = "QUEUED"

\* No wakeup is lost: as long as a handle has requests, the first of them
\* runs or may run, whatever was released or withdrawn around it.
HeadHasTurn ==
  \A h \in Handle : queue[h] # <<>> => state[queue[h][1]] # "QUEUED"

\* Two requests that hold the turn on a handle are ones the I/O and the
\* read-only rule let run together, however they came to be neighbours,
\* unless the one behind is a directory-entry request: what the code's
\* comment says of those is DirentBesideDirent below, and does not hold.
TurnsShared ==
  \A h \in Handle : \A j, k \in DOMAIN queue[h] :
    /\ j < k
    /\ state[queue[h][k]] # "QUEUED"
    /\ op[queue[h][k]] # "DIRENT"
    => Together(queue[h][j], queue[h][k])

\* A request is in one place of one list exactly while it is allocated, and
\* on the ready queue exactly while it is READY: no wakeup goes missing.
Linked ==
  /\ \A r \in Req : state[r] # "FREE" <=> \E h \in Handle : InQueue(r, h)
  /\ \A g, h \in Handle : \A j \in DOMAIN queue[g], k \in DOMAIN queue[h] :
       queue[g][j] = queue[h][k] => g = h /\ j = k
  /\ \A r \in Req :
       state[r] = "READY" <=> \E k \in DOMAIN ready_queue : ready_queue[k] = r

\* sched_count, on which the switch to admin mode waits, is the number of
\* requests the scheduler holds, whatever mixture of releases and unposts
\* of requests, mode changes and timers came before.
CountExact ==
  sched_count = Cardinality({r \in Req : state[r] # "FREE"})

\* A request leaves the state QUEUED, as long as the ready queue stays intact:
\* nobody waits behind requests that have all been released.
EveryRequestStarts ==
  []ReadyIntact =>
    \A r \in Req : (state[r] = "QUEUED") ~> (state[r] # "QUEUED")

\* The scheduler as its requests see it: the abstract HandleAccess, with a
\* turn for every request that is READY or SCHEDULED.
Turn  == {r \in Req : state[r] \in {"READY", "SCHEDULED"}}
Claim == [r \in Req |-> IF state[r] = "FREE" THEN <<"NONE", "NONE">>
                        ELSE <<op[r], access_type[r]>>]

HA == INSTANCE HandleAccess WITH Claim <- Op \X AccessType, line <- queue,
                                 turn <- Turn, claim <- Claim

\* The scheduler implements HandleAccess: turns are given in line order, only
\* to requests that share the handle with all ahead of them (nothing is
\* promised of directory-entry requests here), are never taken back, and the
\* first in line always has one.
ImplementsHandleAccess == HA!ASpec

-----------------------------------------------------------------------------
(* Properties of modes and timers.                                         *)

\* In admin mode no scheduled request modifies the file system, management
\* requests aside: the modifying ones posted before have been released and
\* none got in while the change was waiting.
AdminQuiesced ==
  current_mode = "ADMIN" =>
    \A r \in Req : state[r] # "FREE" =>
      op[r] = "MGMT" \/ (access_type[r] = "READONLY" /\ op[r] # "DIRENT")

\* When testworld returns fewer elements than it was asked for, no timer
\* whose time has come is left behind in the timer queue.
NoTimerOverlooked ==
  [][(TestWorld /\ Len(timer_queue) - Len(timer_queue')
                   + Len(ready_queue) - Len(ready_queue') < WorkMetric)
       => \A i \in DOMAIN timer_queue' : left[timer_queue'[i]] > 0]_vars

-----------------------------------------------------------------------------
(* What comments in the code say and the code does not do.                 *)


\* "for this to work, we must wait for pending ops to complete": no modifying
\* operation, scheduled or let through, is running in admin mode.
AdminWaitedForAll ==
  current_mode = "ADMIN" =>
    \A r \in bypassed : access_type[r] = "MODIFY" => op[r] = "MGMT"

\* REQ_READY_TO_SCHEDULE: "request could be processed, but caller has not
\* asked for it yet": an element the caller already holds is not READY again.
ReadyNotGranted ==
  \A e \in granted : state[e] # "READY"
=============================================================================
