---------------------------- MODULE ThreadMgrProofs ----------------------------
(* What holds of ThreadMgr for every number of threads, users, addresses   *)
(* and locks: no operation is lost, and none is cancelled once freed.      *)
EXTENDS ThreadMgr, TLAPS

\* The initial state is of the right type.
LEMMA TypeInit == Init => TypeOK
<1> SUFFICES ASSUME Init PROVE TypeOK
  OBVIOUS
<1>1. results \in Seq(Id \X User)
  BY DEF Init
<1>2. op \in [Id -> SUBSET User] /\ post \in [User -> SUBSET Id]
  BY DEF Init
<1>3. holder \in [Lock -> SUBSET Thread] /\ pc \in [Thread -> {"OUT", "WAIT"}]
  BY DEF Init
<1>4. want \in [Thread -> SUBSET (Id \X User)]
  BY DEF Init
<1>5. test_flag \in BOOLEAN /\ loop \in {"CALL", "WAIT", "TEST"}
  BY DEF Init
<1>6. cancel_waiter \in Int /\ called \in Nat
  BY DEF Init
<1>7. cancelled \in SUBSET Id /\ asleep \in SUBSET Thread /\ skipped \in SUBSET User
  BY DEF Init
<1> QED BY <1>1, <1>2, <1>3, <1>4, <1>5, <1>6, <1>7 DEF TypeOK

\* A signal wakes threads and puts none to sleep.
LEMMA SignalType ==
  ASSUME NEW s \in SUBSET Thread, Signal(s)
  PROVE  asleep' \in SUBSET Thread
  BY DEF Signal

\* What the second half of a cancel call writes has the right type.
LEMMA FinishType ==
  ASSUME TypeOK, NEW i \in Id, NEW u \in User, Finish(<<i, u>>)
  PROVE  /\ cancelled' \in SUBSET Id
         /\ skipped' \in SUBSET User
         /\ asleep' \in SUBSET Thread
  BY SignalType DEF TypeOK, Finish

\* Every step of the tester and of the cancellers preserves the types.
LEMMA TypeNext == TypeOK /\ [Next]_vars => TypeOK'
<1> SUFFICES ASSUME TypeOK, [Next]_vars PROVE TypeOK'
  OBVIOUS
<1> USE ThreadMgrAssumption
<1>1. CASE StartTest
  <2>1. <<>> \in Seq(Id \X User)
    OBVIOUS
  <2>2. loop' \in {"CALL", "WAIT", "TEST"} /\ test_flag' \in BOOLEAN
    BY <1>1 DEF TypeOK, StartTest
  <2>3. results' \in Seq(Id \X User) /\ called' \in Nat
    <3>1. CASE Polite /\ cancel_waiter # 0
      BY <1>1, <3>1 DEF TypeOK, StartTest
    <3>2. CASE ~(Polite /\ cancel_waiter # 0)
      <4>1. results' = <<>> /\ called' = 0
        BY <1>1, <3>2 DEF StartTest
      <4> QED BY <2>1, <4>1
    <3> QED BY <3>1, <3>2
  <2>4. asleep' \in SUBSET Thread
    BY <1>1 DEF TypeOK, StartTest
  <2> QED BY <1>1, <2>2, <2>3, <2>4 DEF TypeOK, StartTest
<1>2. ASSUME NEW i \in Id, NEW u \in User, Complete(i, u) PROVE TypeOK'
  BY <1>2 DEF TypeOK, Complete
<1>3. CASE EndTest
  <2>1. asleep' \in SUBSET Thread
    BY <1>3, SignalType DEF TypeOK, EndTest
  <2> QED BY <1>3, <2>1 DEF TypeOK, EndTest
<1>4. ASSUME NEW u \in User, Callback(u) PROVE TypeOK'
  <2>1. holder' \in [Lock -> SUBSET Thread]
    BY <1>4 DEF TypeOK, Callback
  <2>2. /\ called' \in Nat
        /\ post' \in [User -> SUBSET Id]
        /\ skipped' \in SUBSET User
    BY <1>4 DEF TypeOK, Callback
  <2> QED BY <1>4, <2>1, <2>2 DEF TypeOK, Callback
<1>5. ASSUME NEW u \in User, NEW i \in Id, Post(u, i) PROVE TypeOK'
  <2>1. post' \in [User -> SUBSET Id] /\ op' \in [Id -> SUBSET User]
    BY <1>5 DEF TypeOK, Post
  <2> QED BY <1>5, <2>1 DEF TypeOK, Post
<1>6. ASSUME NEW t \in Thread, NEW l \in Lock, Acquire(t, l) \/ Release(t, l)
      PROVE  TypeOK'
  <2>1. holder' \in [Lock -> SUBSET Thread]
    BY <1>6 DEF TypeOK, Acquire, Release
  <2> QED BY <1>6, <2>1 DEF TypeOK, Acquire, Release
<1>7. ASSUME NEW t \in Thread, NEW u \in User, NEW i \in Id, Cancel(t, u, i)
      PROVE  TypeOK'
  <2>1. CASE test_flag
    <3>1. want' \in [Thread -> SUBSET (Id \X User)]
      <4>1. {<<i, u>>} \in SUBSET (Id \X User)
        OBVIOUS
      <4> QED BY <1>7, <2>1, <4>1 DEF TypeOK, Cancel
    <3>2. asleep' \in SUBSET Thread /\ pc' \in [Thread -> {"OUT", "WAIT"}]
      BY <1>7, <2>1 DEF TypeOK, Cancel
    <3>3. cancel_waiter' \in Int
      BY <1>7, <2>1 DEF TypeOK, Cancel
    <3> QED BY <1>7, <2>1, <3>1, <3>2, <3>3 DEF TypeOK, Cancel
  <2>2. CASE ~test_flag
    BY <1>7, <2>2, FinishType DEF TypeOK, Cancel
  <2> QED BY <2>1, <2>2
<1>8. ASSUME NEW t \in Thread, Resume(t) PROVE TypeOK'
  <2>1. CASE test_flag
    BY <1>8, <2>1 DEF TypeOK, Resume
  <2>2. CASE ~test_flag
    <3>1. PICK w \in want[t] : Finish(w)
      BY <1>8, <2>2 DEF Resume
    <3>2. w \in Id \X User
      BY DEF TypeOK
    <3>3. PICK i \in Id, u \in User : w = <<i, u>>
      BY <3>2
    <3>4. Finish(<<i, u>>)
      BY <3>1, <3>3
    <3>5. want' \in [Thread -> SUBSET (Id \X User)]
      BY <1>8, <2>2 DEF TypeOK, Resume
    <3>6. cancel_waiter' \in Int /\ pc' \in [Thread -> {"OUT", "WAIT"}]
      BY <1>8, <2>2 DEF TypeOK, Resume
    <3>7. /\ cancelled' \in SUBSET Id
          /\ skipped' \in SUBSET User
          /\ asleep' \in SUBSET Thread
      BY <3>4, FinishType
    <3> QED BY <1>8, <2>2, <3>5, <3>6, <3>7 DEF TypeOK, Resume
  <2> QED BY <2>1, <2>2
<1>9. CASE UNCHANGED vars
  BY <1>9 DEF TypeOK, vars
<1> QED BY <1>1, <1>2, <1>3, <1>4, <1>5, <1>6, <1>7, <1>8, <1>9
        DEF Next, TesterStep

\* The state of the thread manager always has its types.
THEOREM TypeCorrect == Spec => []TypeOK
<1> QED BY TypeInit, TypeNext, PTL DEF Spec

-----------------------------------------------------------------------------
(* The inductive invariant.  Outstanding is preserved because a user has   *)
(* one operation at a time; CancelsKept because of what a canceller asleep *)
(* relies on: it holds the lock that the callback of its operation needs.  *)

\* A user has posted at most one operation, and BMI keeps no other.
OneOp ==
  /\ \A u \in User : \A i, j \in post[u] : i = j
  /\ \A i \in Id : \A u \in op[i] : op[i] = {u} /\ i \in post[u]

\* A result whose callback is to come is the operation its user has posted,
\* which BMI no longer keeps, and there is one such result for a user.
DueIsPosted ==
  \A k \in DOMAIN results : k > called =>
    \A i \in Id, u \in User : results[k] = <<i, u>> =>
      /\ i \in post[u] /\ op[i] # {u}
      /\ \A m \in DOMAIN results : m > called =>
           \A j \in Id : results[m] = <<j, u>> => m = k

\* The loop of the tester.
LoopInv ==
  /\ test_flag <=> loop = "TEST"
  /\ called <= Len(results)
  /\ loop = "WAIT" => called = Len(results)

\* A thread inside the cancel call was called for an operation still posted,
\* and holds the lock without which its callback does not run.
WaitInv ==
  /\ \A l \in Lock : \A s, t \in holder[l] : s = t
  /\ \A t \in Thread : pc[t] = "WAIT" =>
       \E i \in Id, u \in User :
         /\ want[t] = {<<i, u>>}
         /\ t \in holder[LockOf[u]]
         /\ i \in post[u]

CancelInv ==
  /\ TypeOK /\ OneOp /\ DueIsPosted /\ LoopInv /\ WaitInv
  /\ Outstanding /\ CancelsKept

\* The invariant holds before anything is posted.
LEMMA CancelInit == Init => CancelInv
<1> SUFFICES ASSUME Init PROVE CancelInv
  OBVIOUS
<1>1. TypeOK
  BY TypeInit
<1>2. OneOp /\ Outstanding /\ CancelsKept
  BY DEF Init, OneOp, Outstanding, CancelsKept
<1>3. DueIsPosted
  BY DEF Init, DueIsPosted
<1>4. LoopInv
  BY DEF Init, LoopInv
<1>5. WaitInv
  BY ThreadMgrAssumption DEF Init, WaitInv
<1> QED BY <1>1, <1>2, <1>3, <1>4, <1>5 DEF CancelInv

\* What the second half of a cancel call does is safe: an operation that is
\* posted and not among the results is one that BMI keeps.
LEMMA FinishSafe ==
  ASSUME CancelInv, NEW i \in Id, NEW u \in User, i \in post[u],
         Finish(<<i, u>>), UNCHANGED op
  PROVE  CancelsKept'
<1>1. CASE Reported(<<i, u>>)
  BY <1>1 DEF CancelInv, CancelsKept, Finish
<1>2. CASE ~Reported(<<i, u>>)
  <2>1. ~Due(<<i, u>>)
    BY <1>2 DEF Due, Reported
  <2>2. op[i] = {u}
    BY <2>1 DEF CancelInv, Outstanding
  <2> QED BY <1>2, <2>2 DEF CancelInv, CancelsKept, Finish
<1> QED BY <1>1, <1>2

\* The steps that change neither what is posted nor what has been reported
\* leave the invariants on them alone.
LEMMA SameOps ==
  ASSUME CancelInv, UNCHANGED <<op, post, results, called>>
  PROVE  OneOp' /\ DueIsPosted' /\ Outstanding'
<1>1. OneOp'
  BY DEF CancelInv, OneOp
<1>2. DueIsPosted'
  BY DEF CancelInv, DueIsPosted
<1>3. Outstanding'
  BY DEF CancelInv, Outstanding, Due
<1> QED BY <1>1, <1>2, <1>3

\* A new test starts only when no callback of the last one is left.
LEMMA CancelStartTest == CancelInv /\ StartTest => CancelInv'
<1> SUFFICES ASSUME CancelInv, StartTest PROVE CancelInv'
  OBVIOUS
<1>1. TypeOK'
  BY TypeNext DEF CancelInv, Next, TesterStep
<1>2. WaitInv' /\ CancelsKept'
  BY DEF CancelInv, StartTest, WaitInv, CancelsKept
<1>3. CASE Polite /\ cancel_waiter # 0
  <2>1. UNCHANGED <<op, post, results, called>>
    BY <1>3 DEF StartTest
  <2>2. called = Len(results) /\ ~test_flag /\ loop' = "WAIT" /\ test_flag' = test_flag
    BY <1>3 DEF CancelInv, StartTest, LoopInv
  <2>3. LoopInv'
    BY <2>1, <2>2 DEF CancelInv, LoopInv, TypeOK
  <2> QED BY <1>1, <1>2, <2>1, <2>3, SameOps DEF CancelInv
<1>4. CASE ~(Polite /\ cancel_waiter # 0)
  <2>1. /\ results' = <<>> /\ called' = 0
        /\ loop' = "TEST" /\ test_flag' = TRUE
        /\ op' = op /\ post' = post
    BY <1>4 DEF StartTest
  <2>2. called = Len(results)
    BY DEF CancelInv, StartTest, LoopInv
  <2>3. ASSUME NEW w PROVE ~Due(w) /\ ~Due(w)'
    <3>1. ~Due(w)
      BY <2>2 DEF Due, CancelInv, TypeOK
    <3>2. ~Due(w)'
      BY <2>1 DEF Due
    <3> QED BY <3>1, <3>2
  <2>4. OneOp'
    BY <2>1 DEF CancelInv, OneOp
  <2>5. DueIsPosted'
    BY <2>1 DEF DueIsPosted
  <2>6. Outstanding'
    BY <2>1, <2>3 DEF CancelInv, Outstanding
  <2>7. LoopInv'
    BY <2>1 DEF LoopInv
  <2> QED BY <1>1, <1>2, <2>4, <2>5, <2>6, <2>7 DEF CancelInv
<1> QED BY <1>3, <1>4

\* An operation that BMI reports moves from what it keeps to the results.
LEMMA CancelComplete ==
  ASSUME CancelInv, NEW i \in Id, NEW u \in User, Complete(i, u)
  PROVE  CancelInv'
<1>1. TypeOK'
  BY TypeNext DEF CancelInv, Next, TesterStep
<1>2. /\ op[i] = {u} /\ i \in post[u]
      /\ op' = [op EXCEPT ![i] = {}]
      /\ post' = post /\ called' = called
    BY DEF Complete, CancelInv, OneOp
<1>3. /\ Len(results') = Len(results) + 1
      /\ results'[Len(results) + 1] = <<i, u>>
      /\ \A k \in 1 .. Len(results) : results'[k] = results[k]
      /\ DOMAIN results = 1 .. Len(results)
      /\ DOMAIN results' = 1 .. Len(results) + 1
      /\ Len(results) \in Nat /\ called \in Nat
  BY DEF Complete, CancelInv, TypeOK
<1>4. called < Len(results) + 1
  <2>1. called <= Len(results)
    BY DEF CancelInv, LoopInv
  <2> QED BY <1>3, <2>1
<1>5. ASSUME NEW j \in Id, NEW v \in User
      PROVE  Due(<<j, v>>)' <=> Due(<<j, v>>) \/ <<j, v>> = <<i, u>>
  BY <1>2, <1>3, <1>4 DEF Due
<1>6. ~Due(<<i, u>>)
  BY <1>2 DEF CancelInv, Outstanding
<1>7. OneOp'
  BY <1>2 DEF CancelInv, OneOp, TypeOK
<1>8. Outstanding'
  <2> SUFFICES ASSUME NEW v \in User, NEW j \in post[v]
               PROVE  op'[j] = {v} <=> ~Due(<<j, v>>)'
    BY <1>2 DEF Outstanding
  <2>1. j \in Id
    BY DEF CancelInv, TypeOK
  <2>2. op[j] = {v} <=> ~Due(<<j, v>>)
    BY DEF CancelInv, Outstanding
  <2>3. CASE j = i /\ v = u
    BY <1>2, <1>5, <2>1, <2>3 DEF CancelInv, TypeOK
  <2>4. CASE j # i
    BY <1>2, <1>5, <2>1, <2>2, <2>4 DEF CancelInv, TypeOK
  <2>5. CASE j = i /\ v # u
    <3>1. op[j] = {u} /\ op'[j] = {}
      BY <1>2, <2>5 DEF CancelInv, TypeOK
    <3>2. v \notin {u} /\ v \in {v} /\ v \notin {}
      BY <2>5
    <3>3. op[j] # {v} /\ op'[j] # {v}
      BY <3>1, <3>2
    <3> QED BY <1>5, <2>1, <2>2, <3>3
  <2> QED BY <2>3, <2>4, <2>5
<1>9. DueIsPosted'
  <2> SUFFICES ASSUME NEW k \in DOMAIN results', k > called,
                      NEW j \in Id, NEW v \in User, results'[k] = <<j, v>>
               PROVE  /\ j \in post[v] /\ op'[j] # {v}
                      /\ \A m \in DOMAIN results' : m > called =>
                           \A a \in Id : results'[m] = <<a, v>> => m = k
    BY <1>2 DEF DueIsPosted
  <2>1. Due(<<j, v>>)'
    BY <1>2 DEF Due
  <2>2. j \in post[v]
    BY <1>2, <1>5, <2>1 DEF CancelInv, DueIsPosted, Due
  <2>3. op'[j] # {v}
    BY <1>8, <2>1, <2>2, <1>2 DEF Outstanding
  <2>4. ASSUME NEW m \in DOMAIN results', m > called, NEW a \in Id,
               results'[m] = <<a, v>>
        PROVE  m = k
    <3>1. CASE k <= Len(results) /\ m <= Len(results)
      BY <1>3, <2>4, <3>1 DEF CancelInv, DueIsPosted
    <3>2. ASSUME NEW n \in 1 .. Len(results), n > called, NEW b \in Id,
                 results[n] = <<b, u>>
          PROVE  FALSE
      <4>1. b \in post[u] /\ op[b] # {u}
        BY <1>3, <3>2 DEF CancelInv, DueIsPosted
      <4>2. b = i
        BY <1>2, <4>1 DEF CancelInv, OneOp
      <4> QED BY <1>2, <4>1, <4>2
    <3>3. CASE k = Len(results) + 1 /\ m <= Len(results)
      BY <1>3, <2>4, <3>2, <3>3
    <3>4. CASE m = Len(results) + 1 /\ k <= Len(results)
      BY <1>3, <2>4, <3>2, <3>4
    <3> QED BY <1>3, <2>4, <3>1, <3>3, <3>4
  <2> QED BY <2>2, <2>3, <2>4
<1>10. LoopInv'
  BY <1>2, <1>3, <1>4 DEF CancelInv, LoopInv, Complete
<1>11. WaitInv'
  BY DEF CancelInv, WaitInv, Complete
<1>12. CancelsKept'
  BY <1>2 DEF CancelInv, CancelsKept, Complete, TypeOK
<1> QED BY <1>1, <1>7, <1>8, <1>9, <1>10, <1>11, <1>12 DEF CancelInv

\* The end of a test wakes a canceller and changes nothing it will look at.
LEMMA CancelEndTest == CancelInv /\ EndTest => CancelInv'
<1> SUFFICES ASSUME CancelInv, EndTest PROVE CancelInv'
  OBVIOUS
<1>1. TypeOK'
  BY TypeNext DEF CancelInv, Next, TesterStep
<1>2. OneOp' /\ DueIsPosted' /\ Outstanding'
  BY SameOps DEF EndTest
<1>3. LoopInv'
  BY DEF CancelInv, EndTest, LoopInv
<1>4. WaitInv' /\ CancelsKept'
  BY DEF CancelInv, EndTest, WaitInv, CancelsKept
<1> QED BY <1>1, <1>2, <1>3, <1>4 DEF CancelInv

\* A callback runs under a lock that nobody inside the cancel call holds, so
\* no canceller loses the operation it is waiting to cancel.
LEMMA CancelCallback ==
  ASSUME CancelInv, NEW u \in User, Callback(u)
  PROVE  CancelInv'
<1>1. TypeOK'
  BY TypeNext DEF CancelInv, Next, TesterStep
<1>2. /\ results' = results /\ op' = op /\ cancelled' = cancelled
      /\ called' = called + 1 /\ called < Len(results)
      /\ post' = [post EXCEPT ![u] = {}]
      /\ called \in Nat /\ Len(results) \in Nat
      /\ DOMAIN results = 1 .. Len(results)
  BY DEF Callback, CancelInv, TypeOK
<1>3. PICK i \in Id : results[called + 1] = <<i, u>>
  <2>1. results[called + 1] \in Id \X User
    BY <1>2 DEF CancelInv, TypeOK
  <2>2. results[called + 1][2] = u
    BY DEF Callback
  <2> QED BY <2>1, <2>2
<1>4. i \in post[u] /\ op[i] # {u}
  BY <1>2, <1>3 DEF CancelInv, DueIsPosted
<1>5. ASSUME NEW v \in User, v # u
      PROVE  post'[v] = post[v]
  BY <1>2, <1>5 DEF CancelInv, TypeOK
<1>6. post'[u] = {}
  BY <1>2 DEF CancelInv, TypeOK
<1>7. ASSUME NEW k \in DOMAIN results, k > called', NEW v \in User, NEW j \in Id,
             results[k] = <<j, v>>
      PROVE  v # u
  BY <1>2, <1>3, <1>7 DEF CancelInv, DueIsPosted
<1>8. OneOp'
  <2>1. \A v \in User : \A a, b \in post'[v] : a = b
    BY <1>5, <1>6 DEF CancelInv, OneOp
  <2>2. ASSUME NEW j \in Id, NEW v \in op[j]
        PROVE  op[j] = {v} /\ j \in post'[v]
    <3>1. op[j] = {v} /\ j \in post[v] /\ v \in User
      BY DEF CancelInv, OneOp, TypeOK
    <3>2. v # u
      <4>1. SUFFICES ASSUME v = u PROVE FALSE
        OBVIOUS
      <4>2. j = i
        BY <1>4, <3>1, <4>1 DEF CancelInv, OneOp
      <4> QED BY <1>4, <3>1, <4>1, <4>2
    <3> QED BY <1>5, <3>1, <3>2
  <2> QED BY <1>2, <2>1, <2>2 DEF OneOp
<1>9. DueIsPosted'
  <2> SUFFICES ASSUME NEW k \in DOMAIN results, k > called',
                      NEW j \in Id, NEW v \in User, results[k] = <<j, v>>
               PROVE  /\ j \in post'[v] /\ op[j] # {v}
                      /\ \A m \in DOMAIN results : m > called' =>
                           \A a \in Id : results[m] = <<a, v>> => m = k
    BY <1>2 DEF DueIsPosted
  <2>1. k > called
    BY <1>2
  <2>2. /\ j \in post[v] /\ op[j] # {v}
        /\ \A m \in DOMAIN results : m > called =>
             \A a \in Id : results[m] = <<a, v>> => m = k
    BY <2>1 DEF CancelInv, DueIsPosted
  <2> QED BY <1>2, <1>5, <1>7, <2>2
<1>10. Outstanding'
  <2> SUFFICES ASSUME NEW v \in User, NEW j \in post'[v]
               PROVE  op[j] = {v} <=> ~Due(<<j, v>>)'
    BY <1>2 DEF Outstanding
  <2>1. v # u /\ j \in post[v]
    BY <1>5, <1>6
  <2>2. op[j] = {v} <=> ~Due(<<j, v>>)
    BY <2>1 DEF CancelInv, Outstanding
  <2>3. Due(<<j, v>>)' <=> Due(<<j, v>>)
    BY <1>2, <1>3, <2>1 DEF Due
  <2> QED BY <2>2, <2>3
<1>11. LoopInv'
  <2>1. loop = "CALL" /\ loop' = loop /\ test_flag' = test_flag
    BY DEF Callback
  <2>2. called' <= Len(results')
    BY <1>2
  <2> QED BY <2>1, <2>2 DEF CancelInv, LoopInv
<1>12. WaitInv'
  <2>1. /\ holder[LockOf[u]] = {} /\ pc' = pc /\ want' = want
        /\ holder' \in {holder, [holder EXCEPT ![LockOf[u]] = {Tester}]}
    BY DEF Callback
  <2>2. \A l \in Lock : \A s, t \in holder'[l] : s = t
    BY <2>1 DEF CancelInv, WaitInv, TypeOK
  <2>3. ASSUME NEW t \in Thread, pc[t] = "WAIT"
        PROVE  \E j \in Id, v \in User :
                 /\ want[t] = {<<j, v>>}
                 /\ t \in holder'[LockOf[v]]
                 /\ j \in post'[v]
    <3>1. PICK j \in Id, v \in User :
                 /\ want[t] = {<<j, v>>}
                 /\ t \in holder[LockOf[v]]
                 /\ j \in post[v]
      BY <2>3 DEF CancelInv, WaitInv
    <3>2. LockOf[v] # LockOf[u]
      BY <2>1, <3>1
    <3>3. LockOf[v] \in Lock /\ holder'[LockOf[v]] = holder[LockOf[v]]
      BY <2>1, <3>2, ThreadMgrAssumption DEF CancelInv, TypeOK
    <3> QED BY <1>5, <3>1, <3>2, <3>3
  <2> QED BY <2>1, <2>2, <2>3 DEF WaitInv
<1>13. CancelsKept'
  BY <1>2 DEF CancelInv, CancelsKept
<1> QED BY <1>1, <1>8, <1>9, <1>10, <1>11, <1>12, <1>13 DEF CancelInv

\* A user posts one operation at an address BMI has free.
LEMMA CancelPost ==
  ASSUME CancelInv, NEW u \in User, NEW i \in Id, Post(u, i)
  PROVE  CancelInv'
<1>1. TypeOK'
  BY TypeNext DEF CancelInv, Next
<1>2. /\ post[u] = {} /\ op[i] = {}
      /\ post' = [post EXCEPT ![u] = {i}] /\ op' = [op EXCEPT ![i] = {u}]
      /\ results' = results /\ called' = called
  BY DEF Post
<1>3. /\ post'[u] = {i} /\ \A v \in User : v # u => post'[v] = post[v]
      /\ op'[i] = {u} /\ \A j \in Id : j # i => op'[j] = op[j]
  BY <1>2 DEF CancelInv, TypeOK
<1>4. ASSUME NEW w PROVE Due(w)' <=> Due(w)
  BY <1>2 DEF Due
<1>5. OneOp'
  <2>1. \A v \in User : \A a, b \in post'[v] : a = b
    BY <1>3 DEF CancelInv, OneOp
  <2>2. \A j \in Id : \A v \in op'[j] : op'[j] = {v} /\ j \in post'[v]
    BY <1>2, <1>3 DEF CancelInv, OneOp, TypeOK
  <2> QED BY <2>1, <2>2 DEF OneOp
<1>6. DueIsPosted'
  <2> SUFFICES ASSUME NEW k \in DOMAIN results, k > called,
                      NEW j \in Id, NEW v \in User, results[k] = <<j, v>>
               PROVE  /\ j \in post'[v] /\ op'[j] # {v}
                      /\ \A m \in DOMAIN results : m > called =>
                           \A a \in Id : results[m] = <<a, v>> => m = k
    BY <1>2 DEF DueIsPosted
  <2>1. /\ j \in post[v] /\ op[j] # {v}
        /\ \A m \in DOMAIN results : m > called =>
             \A a \in Id : results[m] = <<a, v>> => m = k
    BY DEF CancelInv, DueIsPosted
  <2>2. v # u
    BY <1>2, <2>1
  <2>3. op'[j] # {v}
    <3>1. v \notin {u} /\ v \in {v}
      BY <2>2
    <3> QED BY <1>3, <2>1, <3>1
  <2> QED BY <1>3, <2>1, <2>2, <2>3
<1>7. Outstanding'
  <2> SUFFICES ASSUME NEW v \in User, NEW j \in post'[v]
               PROVE  op'[j] = {v} <=> ~Due(<<j, v>>)
    BY <1>4 DEF Outstanding
  <2>1. CASE v = u
    <3>1. j = i /\ op'[j] = {v}
      BY <1>3, <2>1
    <3>2. ~Due(<<j, v>>)
      BY <1>2, <2>1, <3>1 DEF CancelInv, DueIsPosted, Due
    <3> QED BY <3>1, <3>2
  <2>2. CASE v # u
    <3>1. j \in post[v] /\ j \in Id
      BY <1>3, <2>2 DEF CancelInv, TypeOK
    <3>2. op[j] = {v} <=> ~Due(<<j, v>>)
      BY <3>1 DEF CancelInv, Outstanding
    <3>3. op'[j] = {v} <=> op[j] = {v}
      <4>1. v \notin {u} /\ v \in {v} /\ v \notin {}
        BY <2>2
      <4>2. CASE j = i
        BY <1>2, <1>3, <4>1, <4>2
      <4> QED BY <1>3, <3>1, <4>2
    <3> QED BY <3>2, <3>3
  <2> QED BY <2>1, <2>2
<1>8. LoopInv'
  BY <1>2 DEF CancelInv, LoopInv, Post
<1>9. WaitInv'
  BY <1>2, <1>3 DEF CancelInv, WaitInv, Post
<1>10. CancelsKept'
  BY <1>2, <1>3 DEF CancelInv, CancelsKept, Post, TypeOK
<1> QED BY <1>1, <1>5, <1>6, <1>7, <1>8, <1>9, <1>10 DEF CancelInv

\* A lock has one holder, who keeps it while inside the cancel call.
LEMMA CancelLock ==
  ASSUME CancelInv, NEW t \in Thread, NEW l \in Lock,
         Acquire(t, l) \/ Release(t, l)
  PROVE  CancelInv'
<1>1. TypeOK'
  BY TypeNext DEF CancelInv, Next
<1>2. /\ UNCHANGED <<op, post, results, called, loop, test_flag, pc, want, cancelled>>
      /\ \/ holder[l] = {} /\ holder' = [holder EXCEPT ![l] = {t}]
         \/ t \in holder[l] /\ pc[t] = "OUT" /\ holder' = [holder EXCEPT ![l] = {}]
  BY DEF Acquire, Release
<1>3. OneOp' /\ DueIsPosted' /\ Outstanding'
  BY <1>2, SameOps
<1>4. LoopInv' /\ CancelsKept'
  BY <1>2 DEF CancelInv, LoopInv, CancelsKept
<1>5. WaitInv'
  <2>1. \A k \in Lock : \A a, b \in holder'[k] : a = b
    BY <1>2 DEF CancelInv, WaitInv, TypeOK
  <2>2. ASSUME NEW s \in Thread, pc[s] = "WAIT", NEW k \in Lock, s \in holder[k]
        PROVE  s \in holder'[k]
    <3>1. CASE k # l
      BY <1>2, <2>2, <3>1 DEF CancelInv, TypeOK
    <3>2. CASE k = l
      <4>1. t \in holder[l] /\ pc[t] = "OUT"
        BY <1>2, <2>2, <3>2
      <4>2. s = t
        BY <2>2, <3>2, <4>1 DEF CancelInv, WaitInv
      <4> QED BY <2>2, <4>1, <4>2
    <3> QED BY <3>1, <3>2
  <2>3. ASSUME NEW s \in Thread, pc[s] = "WAIT"
        PROVE  \E j \in Id, v \in User :
                 /\ want[s] = {<<j, v>>}
                 /\ s \in holder'[LockOf[v]]
                 /\ j \in post[v]
    <3>1. PICK j \in Id, v \in User :
                 /\ want[s] = {<<j, v>>}
                 /\ s \in holder[LockOf[v]]
                 /\ j \in post[v]
      BY <2>3 DEF CancelInv, WaitInv
    <3>2. LockOf[v] \in Lock
      BY ThreadMgrAssumption
    <3> QED BY <2>2, <2>3, <3>1, <3>2
  <2> QED BY <1>2, <2>1, <2>3 DEF WaitInv
<1> QED BY <1>1, <1>3, <1>4, <1>5 DEF CancelInv

\* The cancel call, up to its wait or to its end.
LEMMA CancelCancel ==
  ASSUME CancelInv, NEW t \in Thread, NEW u \in User, NEW i \in Id,
         Cancel(t, u, i)
  PROVE  CancelInv'
<1>1. TypeOK'
  BY TypeNext DEF CancelInv, Next
<1>2. /\ UNCHANGED <<op, post, results, called, loop, test_flag, holder>>
      /\ t \in holder[LockOf[u]] /\ i \in post[u]
  BY DEF Cancel
<1>3. OneOp' /\ DueIsPosted' /\ Outstanding'
  BY <1>2, SameOps
<1>4. LoopInv'
  BY <1>2 DEF CancelInv, LoopInv
<1>5. CASE test_flag
  <2>1. /\ pc' = [pc EXCEPT ![t] = "WAIT"]
        /\ want' = [want EXCEPT ![t] = {<<i, u>>}]
        /\ cancelled' = cancelled
    BY <1>5 DEF Cancel
  <2>2. CancelsKept'
    BY <1>2, <2>1 DEF CancelInv, CancelsKept
  <2>3. pc'[t] = "WAIT" /\ want'[t] = {<<i, u>>}
    BY <2>1 DEF CancelInv, TypeOK
  <2>4. \A s \in Thread : s # t => pc'[s] = pc[s] /\ want'[s] = want[s]
    BY <2>1 DEF CancelInv, TypeOK
  <2>5. WaitInv'
    BY <1>2, <2>3, <2>4 DEF CancelInv, WaitInv
  <2> QED BY <1>1, <1>3, <1>4, <2>2, <2>5 DEF CancelInv
<1>6. CASE ~test_flag
  <2>1. Finish(<<i, u>>) /\ pc' = pc /\ want' = want
    BY <1>6 DEF Cancel
  <2>2. CancelsKept'
    BY <1>2, <2>1, FinishSafe
  <2>3. WaitInv'
    BY <1>2, <2>1 DEF CancelInv, WaitInv
  <2> QED BY <1>1, <1>3, <1>4, <2>2, <2>3 DEF CancelInv
<1> QED BY <1>5, <1>6

\* A canceller that has been woken.
LEMMA CancelResume ==
  ASSUME CancelInv, NEW t \in Thread, Resume(t)
  PROVE  CancelInv'
<1>1. TypeOK'
  BY TypeNext DEF CancelInv, Next
<1>2. UNCHANGED <<op, post, results, called, loop, test_flag, holder>>
  BY DEF Resume
<1>3. OneOp' /\ DueIsPosted' /\ Outstanding'
  BY <1>2, SameOps
<1>4. LoopInv'
  BY <1>2 DEF CancelInv, LoopInv
<1>5. CASE test_flag
  <2>1. UNCHANGED <<pc, want, cancelled>>
    BY <1>5 DEF Resume
  <2>2. WaitInv' /\ CancelsKept'
    BY <1>2, <2>1 DEF CancelInv, WaitInv, CancelsKept
  <2> QED BY <1>1, <1>3, <1>4, <2>2 DEF CancelInv
<1>6. CASE ~test_flag
  <2>1. /\ pc[t] = "WAIT"
        /\ pc' = [pc EXCEPT ![t] = "OUT"]
        /\ want' = [want EXCEPT ![t] = {}]
        /\ \E w \in want[t] : Finish(w)
    BY <1>6 DEF Resume
  <2>2. PICK i \in Id, u \in User : want[t] = {<<i, u>>} /\ i \in post[u]
    BY <2>1 DEF CancelInv, WaitInv
  <2>3. Finish(<<i, u>>)
    BY <2>1, <2>2
  <2>4. CancelsKept'
    BY <1>2, <2>2, <2>3, FinishSafe
  <2>5. pc'[t] = "OUT"
    BY <2>1 DEF CancelInv, TypeOK
  <2>6. \A s \in Thread : s # t => pc'[s] = pc[s] /\ want'[s] = want[s]
    BY <2>1 DEF CancelInv, TypeOK
  <2>7. WaitInv'
    BY <1>2, <2>5, <2>6 DEF CancelInv, WaitInv
  <2> QED BY <1>1, <1>3, <1>4, <2>4, <2>7 DEF CancelInv
<1> QED BY <1>5, <1>6

\* Every step preserves the invariant.
LEMMA CancelNext == CancelInv /\ [Next]_vars => CancelInv'
<1> SUFFICES ASSUME CancelInv, [Next]_vars PROVE CancelInv'
  OBVIOUS
<1>1. CASE UNCHANGED vars
  <2>1. UNCHANGED <<op, post, results, called>>
    BY <1>1 DEF vars
  <2>2. TypeOK'
    BY TypeNext DEF CancelInv
  <2>3. LoopInv' /\ WaitInv' /\ CancelsKept'
    BY <1>1 DEF CancelInv, LoopInv, WaitInv, CancelsKept, vars
  <2> QED BY <2>1, <2>2, <2>3, SameOps DEF CancelInv
<1>2. CASE Next
  BY <1>2, CancelStartTest, CancelComplete, CancelEndTest, CancelCallback,
     CancelPost, CancelLock, CancelCancel, CancelResume DEF Next, TesterStep
<1> QED BY <1>1, <1>2

\* An operation that has been posted is kept by BMI or is a result whose
\* callback is to come, never both and never neither: cancelling loses no
\* completion and causes none to be delivered twice.
THEOREM OutstandingHolds == Spec => []Outstanding
<1>1. CancelInv => Outstanding
  BY DEF CancelInv
<1> QED BY <1>1, CancelInit, CancelNext, PTL DEF Spec

\* BMI_cancel and trove_dspace_cancel are only given operations that have not
\* been freed, however many threads cancel and whatever locks they share.
THEOREM CancelsKeptHolds == Spec => []CancelsKept
<1>1. CancelInv => CancelsKept
  BY DEF CancelInv
<1> QED BY <1>1, CancelInit, CancelNext, PTL DEF Spec
=============================================================================
