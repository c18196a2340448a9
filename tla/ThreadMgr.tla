------------------------------ MODULE ThreadMgr ------------------------------
(***************************************************************************)
(* Completion and cancellation in the thread manager of the job layer      *)
(* (src/io/job/thread-mgr.c), with its users in job.c and in the flow      *)
(* protocol.                                                               *)
(*                                                                         *)
(* One thread, the tester, loops: it asks BMI (or Trove) for the           *)
(* operations that have completed, then runs the callback of each.  Other  *)
(* threads, and callbacks that meet an error, cancel operations.  BMI      *)
(* frees an operation as soon as it reports it, and its id is the address  *)
(* of the freed memory: cancelling an operation that has been reported     *)
(* would touch memory that is gone or belongs to another operation.  A     *)
(* canceller therefore waits until no test is in progress and then looks   *)
(* through the results of the last one.                                    *)
(*                                                                         *)
(* Every critical section of bmi_test_mutex is one step; a wait on         *)
(* bmi_test_cond ends the step, and a signal wakes one of those asleep.    *)
(***************************************************************************)
EXTENDS Integers, Sequences

CONSTANTS
  Thread,      \* threads that cancel operations, the tester among them
  Tester,      \* bmi_thread_function or trove_thread_function
  User,        \* owners of a callback structure: a job, a buffer of a flow
  Id,          \* addresses of operations, reused once freed
  Lock,        \* completion_mutex of the jobs, flow_mutex of each flow
  LockOf,      \* user -> the lock its callback and its cancellers take
  TestCount,   \* THREAD_MGR_TEST_COUNT
  Polite       \* TRUE for BMI: the tester lets cancellers go first

ASSUME ThreadMgrAssumption ==
  /\ Tester \in Thread
  /\ LockOf \in [User -> Lock]
  /\ TestCount \in Nat \ {0}
  /\ Polite \in BOOLEAN

VARIABLES
  loop,           \* where the tester is: CALL, WAIT (for cancellers) or TEST
  test_flag,      \* bmi_test_flag: a test is in progress
  cancel_waiter,  \* bmi_test_cancel_waiter
  results,        \* stat_bmi_id_array and stat_bmi_user_ptr_array
  called,         \* callbacks run for the results so far
  op,             \* id -> the user whose operation BMI keeps there, if any
  cancelled,      \* ids handed to BMI_cancel
  post,           \* user -> the id it has posted, until its callback runs
  holder,         \* lock -> the thread that holds it, if any
  pc,             \* thread -> OUT of, or WAITing inside, the cancel call
  want,           \* waiting thread -> the <<id, user>> it was called with
  asleep,         \* threads blocked in pthread_cond_wait
  skipped         \* users whose last cancel found the operation already done

vars == <<loop, test_flag, cancel_waiter, results, called, op, cancelled,
          post, holder, pc, want, asleep, skipped>>

TypeOK ==
  /\ loop \in {"CALL", "WAIT", "TEST"}
  /\ test_flag \in BOOLEAN
  /\ cancel_waiter \in Int
  /\ results \in Seq(Id \X User)
  /\ called \in Nat
  /\ op \in [Id -> SUBSET User]
  /\ cancelled \in SUBSET Id
  /\ post \in [User -> SUBSET Id]
  /\ holder \in [Lock -> SUBSET Thread]
  /\ pc \in [Thread -> {"OUT", "WAIT"}]
  /\ want \in [Thread -> SUBSET (Id \X User)]
  /\ asleep \in SUBSET Thread
  /\ skipped \in SUBSET User

Init ==
  /\ loop = "CALL"
  /\ test_flag = FALSE
  /\ cancel_waiter = 0
  /\ results = <<>>
  /\ called = 0
  /\ op = [i \in Id |-> {}]
  /\ cancelled = {}
  /\ post = [u \in User |-> {}]
  /\ holder = [l \in Lock |-> {}]
  /\ pc = [t \in Thread |-> "OUT"]
  /\ want = [t \in Thread |-> {}]
  /\ asleep = {}
  /\ skipped = {}

\* pthread_cond_signal with the threads s asleep.
Signal(s) ==
  \/ s = {} /\ asleep' = s
  \/ \E t \in s : asleep' = s \ {t}

Holds(t) == {l \in Lock : t \in holder[l]}

-----------------------------------------------------------------------------
(* The tester.                                                             *)

\* Seeded fault: the tester does not wait for cancellers.
StartTestRude ==
  /\ loop = "CALL" /\ called = Len(results) /\ Holds(Tester) = {}
  /\ loop' = "TEST"
  /\ test_flag' = TRUE
  /\ results' = <<>>
  /\ called' = 0
  /\ UNCHANGED <<cancel_waiter, op, cancelled, post, holder, pc, want, asleep,
                 skipped>>

\* The top of the loop, and the return from its wait: a polite tester does
\* not start a test while cancellers are inside.
StartTest ==
  /\ \/ loop = "CALL" /\ called = Len(results) /\ Holds(Tester) = {}
     \/ loop = "WAIT" /\ Tester \notin asleep
  /\ IF Polite /\ cancel_waiter # 0
       THEN /\ loop' = "WAIT"
            /\ asleep' = asleep \cup {Tester}
            /\ UNCHANGED <<test_flag, results, called>>
       ELSE /\ loop' = "TEST"
            /\ test_flag' = TRUE
            /\ results' = <<>>
            /\ called' = 0
            /\ UNCHANGED asleep
  /\ UNCHANGED <<cancel_waiter, op, cancelled, post, holder, pc, want, skipped>>

\* BMI_testcontext reports an operation, finished or cancelled, and frees it.
Complete(i, u) ==
  /\ loop = "TEST" /\ Len(results) < TestCount
  /\ op[i] = {u}
  /\ results' = Append(results, <<i, u>>)
  /\ op' = [op EXCEPT ![i] = {}]
  /\ cancelled' = cancelled \ {i}
  /\ UNCHANGED <<loop, test_flag, cancel_waiter, called, post, holder, pc,
                 want, asleep, skipped>>

\* BMI_testcontext returns.
EndTest ==
  /\ loop = "TEST"
  /\ loop' = "CALL"
  /\ test_flag' = FALSE
  /\ Signal(asleep)
  /\ UNCHANGED <<cancel_waiter, results, called, op, cancelled, post, holder,
                 pc, want, skipped>>

\* Seeded fault: posted_id is not cleared.
CallbackStale(u) ==
  /\ loop = "CALL" /\ called < Len(results) /\ Holds(Tester) = {}
  /\ results[called + 1][2] = u
  /\ holder[LockOf[u]] = {}
  /\ called' = called + 1
  /\ skipped' = skipped \ {u}
  /\ holder' \in {holder, [holder EXCEPT ![LockOf[u]] = {Tester}]}
  /\ UNCHANGED <<loop, test_flag, cancel_waiter, results, op, cancelled, post,
                 pc, want, asleep>>

\* The next callback, under the lock of its user.  One that meets an error
\* keeps the lock and goes on to cancel (handle_io_error).
Callback(u) ==
  /\ loop = "CALL" /\ called < Len(results) /\ Holds(Tester) = {}
  /\ results[called + 1][2] = u
  /\ holder[LockOf[u]] = {}
  /\ called' = called + 1
  /\ post' = [post EXCEPT ![u] = {}]
  /\ skipped' = skipped \ {u}
  /\ holder' \in {holder, [holder EXCEPT ![LockOf[u]] = {Tester}]}
  /\ UNCHANGED <<loop, test_flag, cancel_waiter, results, op, cancelled, pc,
                 want, asleep>>

-----------------------------------------------------------------------------
(* Posting and cancelling.                                                 *)

\* A user posts its next operation, at any free address.
Post(u, i) ==
  /\ post[u] = {} /\ op[i] = {}
  /\ post' = [post EXCEPT ![u] = {i}]
  /\ op' = [op EXCEPT ![i] = {u}]
  /\ UNCHANGED <<loop, test_flag, cancel_waiter, results, called, cancelled,
                 holder, pc, want, asleep, skipped>>

\* A thread takes the lock under which it will cancel operations ...
Acquire(t, l) ==
  /\ t # Tester /\ Holds(t) = {} /\ holder[l] = {}
  /\ holder' = [holder EXCEPT ![l] = {t}]
  /\ UNCHANGED <<loop, test_flag, cancel_waiter, results, called, op,
                 cancelled, post, pc, want, asleep, skipped>>

\* ... and gives it back.
Release(t, l) ==
  /\ t \in holder[l] /\ pc[t] = "OUT"
  /\ holder' = [holder EXCEPT ![l] = {}]
  /\ UNCHANGED <<loop, test_flag, cancel_waiter, results, called, op,
                 cancelled, post, pc, want, asleep, skipped>>

\* Seeded fault: the results of the last test are not looked through.
ReportedNever(w) == FALSE

\* The results of the last test name the operation w = <<id, user>>.
Reported(w) == \E k \in DOMAIN results : results[k] = w

\* Seeded faults: the user pointer is passed for the id; a tester that waits
\* is not released.
FinishMixed(w) ==
  /\ cancelled' = cancelled \cup {w[2]}
  /\ UNCHANGED <<skipped, asleep>>
FinishSilent(w) ==
  IF Reported(w)
    THEN skipped' = skipped \cup {w[2]} /\ UNCHANGED <<cancelled, asleep>>
    ELSE cancelled' = cancelled \cup {w[1]} /\ UNCHANGED <<skipped, asleep>>

\* The second half of PINT_thread_mgr_bmi_cancel, no test being in progress:
\* nothing to do for an operation among the results; any other goes to
\* BMI_cancel, and a tester that waits is released.
Finish(w) ==
  IF Reported(w)
    THEN /\ skipped' = skipped \cup {w[2]}
         /\ UNCHANGED <<cancelled, asleep>>
    ELSE /\ cancelled' = cancelled \cup {w[1]}
         /\ IF Polite THEN Signal(asleep) ELSE UNCHANGED asleep
         /\ UNCHANGED skipped

\* PINT_thread_mgr_bmi_cancel and PINT_thread_mgr_trove_cancel, called for
\* an operation whose callback has not run.
Cancel(t, u, i) ==
  /\ t \in holder[LockOf[u]] /\ pc[t] = "OUT" /\ i \in post[u]
  /\ IF test_flag
       THEN /\ cancel_waiter' = cancel_waiter + 1
            /\ pc' = [pc EXCEPT ![t] = "WAIT"]
            /\ want' = [want EXCEPT ![t] = {<<i, u>>}]
            /\ asleep' = asleep \cup {t}
            /\ UNCHANGED <<cancelled, skipped>>
       ELSE /\ Finish(<<i, u>>)
            /\ UNCHANGED <<cancel_waiter, pc, want>>
  /\ UNCHANGED <<loop, test_flag, results, called, op, post, holder>>

\* The canceller has been signalled: it looks at test_flag again.
Resume(t) ==
  /\ pc[t] = "WAIT" /\ t \notin asleep
  /\ IF test_flag
       THEN /\ asleep' = asleep \cup {t}
            /\ UNCHANGED <<cancel_waiter, pc, want, cancelled, skipped>>
       ELSE /\ cancel_waiter' = cancel_waiter - 1
            /\ pc' = [pc EXCEPT ![t] = "OUT"]
            /\ want' = [want EXCEPT ![t] = {}]
            /\ \E w \in want[t] : Finish(w)
  /\ UNCHANGED <<loop, test_flag, results, called, op, post, holder>>

TesterStep ==
  \/ StartTest
  \/ \E i \in Id, u \in User : Complete(i, u)
  \/ EndTest
  \/ \E u \in User : Callback(u)

Next ==
  \/ TesterStep
  \/ \E u \in User, i \in Id : Post(u, i)
  \/ \E t \in Thread, l \in Lock : Acquire(t, l) \/ Release(t, l)
  \/ \E t \in Thread, u \in User, i \in Id : Cancel(t, u, i)
  \/ \E t \in Thread : Resume(t)

Spec == Init /\ [][Next]_vars

\* Threads run: a test ends after its timeout at the latest, a canceller does
\* not keep its lock, and whoever has been signalled gets the mutex.  A lock
\* is taken a few times per operation to cancel it (a timeout, the first error
\* of a flow), so it cannot for ever be taken when its callback looks.
Fairness ==
  /\ WF_vars(StartTest) /\ WF_vars(EndTest)
  /\ \A u \in User : SF_vars(Callback(u))
  /\ \A t \in Thread : WF_vars(Resume(t))
  /\ \A t \in Thread, l \in Lock : WF_vars(Release(t, l))

LiveSpec == Spec /\ Fairness

-----------------------------------------------------------------------------
(* Properties.                                                             *)

\* The callbacks still to be run for the results of the last test.
Due(w) == \E k \in DOMAIN results : k > called /\ results[k] = w

\* An operation a user has posted is either kept by BMI or among the results
\* whose callback is still to come, never both and never lost: its callback
\* runs exactly once, whatever is cancelled around it.
Outstanding ==
  \A u \in User : \A i \in post[u] : op[i] = {u} <=> ~Due(<<i, u>>)

\* BMI_cancel is only handed operations that BMI still keeps: no canceller
\* reaches memory that has been freed.
CancelsKept == \A i \in cancelled : op[i] # {}

\* A canceller gets out of the cancel call, provided cancellers never wait
\* two at a time.  (With two, the end of the test wakes one of them, and that
\* one wakes nobody if it finds its operation already done, or wakes the
\* tester, which goes back to sleep because the other still waits.)
LoneCancelReturns ==
  [](cancel_waiter <= 1) =>
    \A t \in Thread : (pc[t] = "WAIT") ~> (pc[t] = "OUT")

\* The tester goes on testing, provided cancellers never wait two at a time:
\* letting a canceller go first does not stop the tester.
LoneCancelTests == [](cancel_waiter <= 1) => []<>(loop = "TEST")

\* "match; no steps needed to cancel, the op is already done": an operation
\* that a canceller leaves alone is one whose callback is about to run.
SkippedIsDone ==
  \A u \in skipped : \E i \in post[u] : Due(<<i, u>>)
=============================================================================
