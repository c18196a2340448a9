----------------------- MODULE RequestSchedulerProofs -----------------------
(***************************************************************************)
(* Theorems about RequestScheduler, for every set of requests, handles,    *)
(* mode changes and timers.                                                *)
(***************************************************************************)
EXTENDS RequestScheduler, FiniteSetTheorems, TLAPS

-----------------------------------------------------------------------------
(* Sequences.                                                              *)

\* What RemoveAt, the model of qlist_del, leaves behind: the elements before
\* position k stay where they are and those after it move up by one.
LEMMA RemoveAtFacts ==
  ASSUME NEW S, NEW s \in Seq(S), NEW k \in DOMAIN s
  PROVE  /\ RemoveAt(s, k) \in Seq(S)
         /\ Len(RemoveAt(s, k)) = Len(s) - 1
         /\ \A i \in 1..Len(s) - 1 :
              RemoveAt(s, k)[i] = IF i < k THEN s[i] ELSE s[i + 1]
  <1> DEFINE a == SubSeq(s, 1, k - 1)
             b == SubSeq(s, k + 1, Len(s))
  <1>1. k \in 1..Len(s) /\ Len(s) \in Nat
    OBVIOUS
  <1>2. /\ a \in Seq(S) /\ Len(a) = k - 1
        /\ \A i \in 1..k - 1 : a[i] = s[i]
    BY <1>1
  <1>3. /\ b \in Seq(S) /\ Len(b) = Len(s) - k
        /\ \A i \in 1..Len(s) - k : b[i] = s[i + k]
    BY <1>1
  <1> DEFINE c == a \o b
  <1>4. RemoveAt(s, k) = c
    BY DEF RemoveAt
  <1> HIDE DEF a, b
  <1>5. /\ c \in Seq(S)
        /\ Len(c) = Len(a) + Len(b)
        /\ \A i \in 1..Len(a) + Len(b) :
             c[i] = IF i <= Len(a) THEN a[i] ELSE b[i - Len(a)]
    BY <1>2, <1>3
  <1> HIDE DEF c
  <1>6. Len(c) = Len(s) - 1
    BY <1>1, <1>2, <1>3, <1>5
  <1>7. ASSUME NEW i \in 1..Len(s) - 1
        PROVE  c[i] = IF i < k THEN s[i] ELSE s[i + 1]
    <2>0. i \in 1..Len(a) + Len(b)
      BY <1>1, <1>2, <1>3
    <2>1. c[i] = IF i <= k - 1 THEN a[i] ELSE b[i - (k - 1)]
      <3>1. c[i] = IF i <= Len(a) THEN a[i] ELSE b[i - Len(a)]
        BY <1>5, <2>0
      <3> QED
        BY <1>2, <3>1
    <2>2. CASE i < k
      BY <1>1, <1>2, <2>1, <2>2
    <2>3. CASE ~(i < k)
      <3>1. i - (k - 1) \in 1..Len(s) - k /\ ~(i <= k - 1)
        BY <1>1, <2>3
      <3>2. b[i - (k - 1)] = s[(i - (k - 1)) + k] /\ (i - (k - 1)) + k = i + 1
        BY <1>1, <1>3, <3>1
      <3> QED
        BY <2>1, <2>3, <3>1, <3>2
    <2> QED
      BY <2>2, <2>3
  <1> QED
    BY <1>4, <1>5, <1>6, <1>7

\* InsertAt, the model of __qlist_add, stays within the element type.
LEMMA InsertAtType ==
  ASSUME NEW S, NEW s \in Seq(S), NEW e \in S, NEW k \in 1..Len(s) + 1
  PROVE  InsertAt(s, k, e) \in Seq(S)
  BY DEF InsertAt

-----------------------------------------------------------------------------
(* Steps shared by several actions.                                        *)

\* Every READY element is on the ready queue: what lets unpost and test
\* unlink it.
ReadyLinked ==
  \A e \in Elem : state[e] = "READY" =>
    \E k \in DOMAIN ready_queue : ready_queue[k] = e

\* The trailing PINT_req_sched_schedule_mode_change touches mode changes only.
LEMMA ScheduleModeChangeFacts ==
  ASSUME NEW st \in [Elem -> State], NEW rq \in Seq(Req \cup ModeChange),
         NEW mq \in Seq(ModeChange), NEW count,
         ScheduleModeChange(st, rq, mq, count)
  PROVE  /\ state' \in [Elem -> State]
         /\ ready_queue' \in Seq(Req \cup ModeChange)
         /\ \A e \in Elem \ ModeChange : state'[e] = st[e]
         /\ \A e \in Elem : state'[e] = "READY" =>
              st[e] = "READY" \/ (\E k \in DOMAIN ready_queue' : ready_queue'[k] = e)
         /\ Len(rq) <= Len(ready_queue')
         /\ \A k \in DOMAIN rq : ready_queue'[k] = rq[k]
  <1>1. CASE count = 0 /\ mq # <<>>
    <2>1. Head(mq) \in ModeChange
      BY <1>1
    <2>2. /\ state' = [st EXCEPT ![Head(mq)] = "READY"]
          /\ ready_queue' = Append(rq, Head(mq))
      BY <1>1 DEF ScheduleModeChange
    <2>3. ready_queue'[Len(rq) + 1] = Head(mq) /\ Len(rq) + 1 \in DOMAIN ready_queue'
      BY <2>1, <2>2
    <2> QED
      BY <2>1, <2>2, <2>3 DEF Elem, State
  <1>2. CASE ~(count = 0 /\ mq # <<>>)
    BY <1>2 DEF ScheduleModeChange
  <1> QED
    BY <1>1, <1>2

\* Unlinking a READY element yields the ready queue without it.
LEMMA UnlinkedFacts ==
  ASSUME TypeOK, ReadyLinked, NEW e \in Req \cup ModeChange
  PROVE  /\ Unlinked(e) \in Seq(Req \cup ModeChange)
         /\ state[e] = "READY" => \E k \in DOMAIN ready_queue :
              ready_queue[k] = e /\ Unlinked(e) = RemoveAt(ready_queue, k)
         /\ state[e] # "READY" => Unlinked(e) = ready_queue
  <1>1. CASE state[e] = "READY"
    <2> DEFINE i == CHOOSE k \in DOMAIN ready_queue : ready_queue[k] = e
    <2>1. i \in DOMAIN ready_queue /\ ready_queue[i] = e
      BY <1>1 DEF ReadyLinked, Elem
    <2>2. Unlinked(e) = RemoveAt(ready_queue, i)
      BY <1>1 DEF Unlinked
    <2> HIDE DEF i
    <2> QED
      BY <1>1, <2>1, <2>2, RemoveAtFacts DEF TypeOK
  <1>2. CASE state[e] # "READY"
    BY <1>2 DEF Unlinked, TypeOK
  <1> QED
    BY <1>1, <1>2

\* Unlinking e takes nothing else off the ready queue.
LEMMA UnlinkedKeeps ==
  ASSUME TypeOK, ReadyLinked, NEW e \in Req \cup ModeChange,
         NEW f \in Elem, f # e, state[f] = "READY"
  PROVE  \E k \in DOMAIN Unlinked(e) : Unlinked(e)[k] = f
  <1>1. PICK j \in DOMAIN ready_queue : ready_queue[j] = f
    BY DEF ReadyLinked
  <1>2. CASE state[e] = "READY"
    <2>1. PICK k \in DOMAIN ready_queue :
            ready_queue[k] = e /\ Unlinked(e) = RemoveAt(ready_queue, k)
      BY <1>2, UnlinkedFacts
    <2> DEFINE u == Unlinked(e)
    <2>2. /\ u \in Seq(Req \cup ModeChange)
          /\ Len(u) = Len(ready_queue) - 1
          /\ \A i \in 1..Len(ready_queue) - 1 :
               u[i] = IF i < k THEN ready_queue[i] ELSE ready_queue[i + 1]
      BY <2>1, RemoveAtFacts DEF TypeOK
    <2> HIDE DEF u
    <2>3. j # k /\ j \in 1..Len(ready_queue) /\ k \in 1..Len(ready_queue)
      BY <1>1, <2>1 DEF TypeOK
    <2>4. CASE j < k
      <3>1. j \in 1..Len(ready_queue) - 1 /\ j \in DOMAIN u /\ u[j] = ready_queue[j]
        BY <2>2, <2>3, <2>4
      <3> QED
        BY <1>1, <3>1 DEF u
    <2>5. CASE j > k
      <3>1. j - 1 \in 1..Len(ready_queue) - 1 /\ j - 1 \in DOMAIN u /\ ~(j - 1 < k)
        BY <2>2, <2>3, <2>5
      <3>2. u[j - 1] = ready_queue[(j - 1) + 1] /\ (j - 1) + 1 = j
        BY <2>2, <2>3, <3>1
      <3> QED
        BY <1>1, <3>1, <3>2 DEF u
    <2> QED
      BY <2>3, <2>4, <2>5
  <1>3. CASE state[e] # "READY"
    BY <1>1, <1>3, UnlinkedFacts
  <1> QED
    BY <1>2, <1>3

\* The states a release or an unpost leaves behind, and the place of every
\* woken request at the end of the ready queue rq.
LEMMA WokenFacts ==
  ASSUME TypeOK, NEW r \in Req, NEW q \in Seq(Req), NEW n \in 0..Len(q),
         NEW rq \in Seq(Req \cup ModeChange),
         \A e \in Elem : e # r /\ state[e] = "READY" =>
           \E k \in DOMAIN rq : rq[k] = e
  PROVE  /\ Woken(r, q, n) \in [Elem -> State]
         /\ rq \o SubSeq(q, 1, n) \in Seq(Req \cup ModeChange)
         /\ \A e \in Elem : Woken(r, q, n)[e] = "READY" =>
              \E k \in DOMAIN (rq \o SubSeq(q, 1, n)) : (rq \o SubSeq(q, 1, n))[k] = e
  <1> DEFINE w == SubSeq(q, 1, n)
             c == rq \o w
  <1>1. /\ w \in Seq(Req) /\ Len(w) = n
        /\ \A i \in 1..n : w[i] = q[i]
    OBVIOUS
  <1> HIDE DEF w
  <1>2. w \in Seq(Req \cup ModeChange)
    BY <1>1
  <1>3. /\ c \in Seq(Req \cup ModeChange)
        /\ Len(c) = Len(rq) + Len(w)
        /\ \A i \in 1..Len(rq) : c[i] = rq[i]
        /\ \A i \in 1..Len(w) : c[Len(rq) + i] = w[i]
    BY <1>2
  <1> HIDE DEF c
  <1>4. Woken(r, q, n) \in [Elem -> State]
    BY DEF Woken, TypeOK, State
  <1>5. ASSUME NEW e \in Elem, Woken(r, q, n)[e] = "READY"
        PROVE  \E k \in DOMAIN c : c[k] = e
    <2>1. e # r /\ ((\E i \in 1..n : q[i] = e) \/ state[e] = "READY")
      BY <1>5 DEF Woken
    <2>2. CASE \E i \in 1..n : q[i] = e
      <3>1. PICK i \in 1..n : q[i] = e
        BY <2>2
      <3>2. i \in 1..Len(w) /\ w[i] = e
        BY <1>1, <3>1
      <3>3. Len(rq) + i \in DOMAIN c
        BY <1>1, <1>3
      <3>4. c[Len(rq) + i] = e
        BY <1>3, <3>2
      <3> QED
        BY <3>3, <3>4
    <2>3. CASE state[e] = "READY"
      <3>1. PICK k \in DOMAIN rq : rq[k] = e
        BY <2>1, <2>3
      <3>2. k \in 1..Len(rq) /\ Len(rq) \in Nat /\ Len(w) \in Nat
        BY <1>1, <3>1
      <3>3. k \in 1..Len(c) /\ c[k] = e
        BY <1>3, <3>1, <3>2
      <3> QED
        BY <1>3, <3>3
    <2> QED
      BY <2>1, <2>2, <2>3
  <1> QED
    BY <1>3, <1>4, <1>5 DEF c, w

-----------------------------------------------------------------------------
(* Types.                                                                  *)

TypeInv == TypeOK /\ ReadyLinked

\* The scheduler starts with its types and with an empty ready queue.
LEMMA TypeInit == Init => TypeInv
  BY DEF Init, TypeInv, TypeOK, ReadyLinked, Elem, State, Op, AccessType, Mode

\* When every element that is READY in st is on rq, the same holds of state
\* and ready_queue after PINT_req_sched_schedule_mode_change.
LEMMA ScheduleType ==
  ASSUME NEW st \in [Elem -> State], NEW rq \in Seq(Req \cup ModeChange),
         NEW mq \in Seq(ModeChange), NEW count,
         \A e \in Elem : st[e] = "READY" => \E i \in DOMAIN rq : rq[i] = e,
         ScheduleModeChange(st, rq, mq, count)
  PROVE  /\ state' \in [Elem -> State]
         /\ ready_queue' \in Seq(Req \cup ModeChange)
         /\ ReadyLinked'
         /\ \A e \in Elem \ ModeChange : state'[e] = st[e]
  <1>1. /\ state' \in [Elem -> State]
        /\ ready_queue' \in Seq(Req \cup ModeChange)
        /\ \A e \in Elem \ ModeChange : state'[e] = st[e]
        /\ \A e \in Elem : state'[e] = "READY" =>
             st[e] = "READY" \/ \E i \in DOMAIN ready_queue' : ready_queue'[i] = e
        /\ Len(rq) <= Len(ready_queue')
        /\ \A i \in DOMAIN rq : ready_queue'[i] = rq[i]
    BY ScheduleModeChangeFacts
  <1>2. ReadyLinked'
    <2> SUFFICES ASSUME NEW e \in Elem, state'[e] = "READY"
                 PROVE  \E i \in DOMAIN ready_queue' : ready_queue'[i] = e
      BY DEF ReadyLinked
    <2>1. CASE st[e] = "READY"
      <3>1. PICK i \in DOMAIN rq : rq[i] = e
        BY <2>1
      <3>2. i \in DOMAIN ready_queue'
        BY <1>1, <3>1
      <3> QED
        BY <1>1, <3>1, <3>2
    <2> QED
      BY <1>1, <2>1
  <1> QED
    BY <1>1, <1>2

\* A release or an unpost leaves well-typed states and a ready queue that
\* holds every READY element.
LEMMA WakeType ==
  ASSUME TypeInv, NEW r \in Req, NEW q \in Seq(Req), NEW n \in 0..Len(q),
         NEW rq0 \in Seq(Req \cup ModeChange), NEW count,
         \A e \in Elem : e # r /\ state[e] = "READY" =>
           \E k \in DOMAIN rq0 : rq0[k] = e,
         ScheduleModeChange(Woken(r, q, n), rq0 \o SubSeq(q, 1, n),
                            mode_queue, count)
  PROVE  /\ state' \in [Elem -> State]
         /\ ready_queue' \in Seq(Req \cup ModeChange)
         /\ ReadyLinked'
         /\ \A e \in Elem \ ModeChange : state'[e] = Woken(r, q, n)[e]
  <1> DEFINE rq == rq0 \o SubSeq(q, 1, n)
             st == Woken(r, q, n)
  <1>1. /\ st \in [Elem -> State]
        /\ rq \in Seq(Req \cup ModeChange)
        /\ \A e \in Elem : st[e] = "READY" => \E i \in DOMAIN rq : rq[i] = e
    BY WokenFacts DEF TypeInv
  <1>2. ScheduleModeChange(st, rq, mode_queue, count)
    OBVIOUS
  <1> HIDE DEF rq, st
  <1> QED
    BY <1>1, <1>2, ScheduleType DEF TypeInv, TypeOK, st

\* Posting, releasing and withdrawing requests keep the types.
LEMMA TypeReqStep == TypeInv /\ ReqStep => TypeInv'
  <1> SUFFICES ASSUME TypeInv, ReqStep PROVE TypeInv'
    OBVIOUS
  <1>1. ASSUME NEW r \in Req, NEW h \in Handle, NEW c \in Class,
               Post(r, h, c[1], c[2])
        PROVE  TypeInv'
    <2>1. c[1] \in Op /\ c[2] \in AccessType
      BY DEF Class, Op, AccessType
    <2>2. TypeOK'
      BY <1>1, <2>1 DEF Post, TypeInv, TypeOK, Elem, State, AccessType
    <2>3. ReadyLinked'
      BY <1>1 DEF Post, TypeInv, TypeOK, ReadyLinked, Elem
    <2> QED
      BY <2>2, <2>3 DEF TypeInv
  <1>2. ASSUME NEW r \in Req, NEW c \in Class, PostBypass(r, c[1], c[2])
        PROVE  TypeInv'
    <2>1. c[1] \in Op /\ c[2] \in AccessType
      BY DEF Class, Op, AccessType
    <2> QED
      BY <1>2, <2>1 DEF PostBypass, TypeInv, TypeOK, ReadyLinked
  <1>3. ASSUME NEW r \in Req, ReleaseBypass(r) PROVE TypeInv'
    BY <1>3 DEF ReleaseBypass, TypeInv, TypeOK, ReadyLinked
  <1>4. ASSUME NEW r \in Req, Release(r) PROVE TypeInv'
    <2>1. PICK h \in Handle : \E k \in DOMAIN queue[h] :
            LET q == RemoveAt(queue[h], k)
            IN  /\ queue' = [queue EXCEPT ![h] = q]
                /\ \E n \in 0..Len(q) :
                     ScheduleModeChange(Woken(r, q, n),
                                        ready_queue \o SubSeq(q, 1, n),
                                        mode_queue, sched_count - 1)
      BY <1>4 DEF Release
    <2>2. PICK k \in DOMAIN queue[h] :
            LET q == RemoveAt(queue[h], k)
            IN  /\ queue' = [queue EXCEPT ![h] = q]
                /\ \E n \in 0..Len(q) :
                     ScheduleModeChange(Woken(r, q, n),
                                        ready_queue \o SubSeq(q, 1, n),
                                        mode_queue, sched_count - 1)
      BY <2>1
    <2> DEFINE q == RemoveAt(queue[h], k)
    <2>3. q \in Seq(Req)
      BY RemoveAtFacts DEF TypeInv, TypeOK
    <2>4. state' \in [Elem -> State] /\ ready_queue' \in Seq(Req \cup ModeChange)
          /\ ReadyLinked'
      <3>1. PICK n \in 0..Len(q) :
              ScheduleModeChange(Woken(r, q, n), ready_queue \o SubSeq(q, 1, n),
                                 mode_queue, sched_count - 1)
        BY <2>2
      <3> HIDE DEF q
      <3>2. ready_queue \in Seq(Req \cup ModeChange)
            /\ \A e \in Elem : e # r /\ state[e] = "READY" =>
                 \E i \in DOMAIN ready_queue : ready_queue[i] = e
        BY DEF TypeInv, TypeOK, ReadyLinked
      <3> QED
        BY <2>3, <3>1, <3>2, WakeType
    <2>5. queue' \in [Handle -> Seq(Req)]
      <3>1. queue' = [queue EXCEPT ![h] = q]
        BY <2>2
      <3> HIDE DEF q
      <3> QED
        BY <2>3, <3>1 DEF TypeInv, TypeOK
    <2>6. /\ FreeReq(r)
          /\ sched_count' = sched_count - 1
          /\ granted' = granted \ {r}
          /\ UNCHANGED <<mode_queue, timer_queue, mode, left, current_mode, bypassed>>
      BY <1>4 DEF Release
    <2>7. TypeOK'
      BY <2>4, <2>5, <2>6 DEF FreeReq, TypeInv, TypeOK
    <2> QED
      BY <2>4, <2>7 DEF TypeInv
  <1>5. ASSUME NEW r \in Req, Unpost(r) PROVE TypeInv'
    <2>1. PICK h \in Handle : \E k \in DOMAIN queue[h] :
            LET q == RemoveAt(queue[h], k)
            IN  /\ queue' = [queue EXCEPT ![h] = q]
                /\ \E n \in 0..Len(q) :
                     ScheduleModeChange(Woken(r, q, n),
                                        Unlinked(r) \o SubSeq(q, 1, n),
                                        mode_queue, sched_count - 1)
      BY <1>5 DEF Unpost
    <2>2. PICK k \in DOMAIN queue[h] :
            LET q == RemoveAt(queue[h], k)
            IN  /\ queue' = [queue EXCEPT ![h] = q]
                /\ \E n \in 0..Len(q) :
                     ScheduleModeChange(Woken(r, q, n),
                                        Unlinked(r) \o SubSeq(q, 1, n),
                                        mode_queue, sched_count - 1)
      BY <2>1
    <2> DEFINE q == RemoveAt(queue[h], k)
    <2>3. q \in Seq(Req)
      BY RemoveAtFacts DEF TypeInv, TypeOK
    <2>4. /\ Unlinked(r) \in Seq(Req \cup ModeChange)
          /\ \A e \in Elem : e # r /\ state[e] = "READY" =>
               \E i \in DOMAIN Unlinked(r) : Unlinked(r)[i] = e
      BY UnlinkedFacts, UnlinkedKeeps DEF TypeInv
    <2>5. state' \in [Elem -> State] /\ ready_queue' \in Seq(Req \cup ModeChange)
          /\ ReadyLinked'
      <3>1. PICK n \in 0..Len(q) :
              ScheduleModeChange(Woken(r, q, n), Unlinked(r) \o SubSeq(q, 1, n),
                                 mode_queue, sched_count - 1)
        BY <2>2
      <3> HIDE DEF q
      <3>2. Unlinked(r) \in Seq(Req \cup ModeChange)
            /\ \A e \in Elem : e # r /\ state[e] = "READY" =>
                 \E i \in DOMAIN Unlinked(r) : Unlinked(r)[i] = e
        BY <2>4
      <3> QED
        BY <2>3, <3>1, <3>2, WakeType
    <2>6. queue' \in [Handle -> Seq(Req)]
      <3>1. queue' = [queue EXCEPT ![h] = q]
        BY <2>2
      <3> HIDE DEF q
      <3> QED
        BY <2>3, <3>1 DEF TypeInv, TypeOK
    <2>7. /\ FreeReq(r)
          /\ sched_count' = sched_count - 1
          /\ UNCHANGED <<mode_queue, timer_queue, mode, left, current_mode, granted,
                         bypassed>>
      BY <1>5 DEF Unpost
    <2>8. TypeOK'
      BY <2>5, <2>6, <2>7 DEF FreeReq, TypeInv, TypeOK
    <2> QED
      BY <2>5, <2>8 DEF TypeInv
  <1> QED
    BY <1>1, <1>2, <1>3, <1>4, <1>5 DEF ReqStep

\* Asking for, releasing and withdrawing mode changes keep the types.
LEMMA TypeModeStep == TypeInv /\ ModeStep => TypeInv'
  <1> SUFFICES ASSUME TypeInv, ModeStep PROVE TypeInv'
    OBVIOUS
  <1>1. ASSUME NEW m \in ModeChange, NEW md \in Mode, ChangeMode(m, md)
        PROVE  TypeInv'
    <2>1. TypeOK'
      BY <1>1 DEF ChangeMode, TypeInv, TypeOK, Elem, State
    <2>2. ReadyLinked'
      BY <1>1 DEF ChangeMode, TypeInv, TypeOK, ReadyLinked, Elem
    <2> QED
      BY <2>1, <2>2 DEF TypeInv
  <1>2. ASSUME NEW m \in ModeChange, ReleaseMode(m) PROVE TypeInv'
    <2>1. PICK k \in DOMAIN mode_queue :
            /\ mode_queue' = RemoveAt(mode_queue, k)
            /\ ScheduleModeChange([state EXCEPT ![m] = "FREE"], ready_queue,
                                  RemoveAt(mode_queue, k), sched_count)
      BY <1>2 DEF ReleaseMode
    <2>2. RemoveAt(mode_queue, k) \in Seq(ModeChange)
      BY RemoveAtFacts DEF TypeInv, TypeOK
    <2>3. /\ [state EXCEPT ![m] = "FREE"] \in [Elem -> State]
          /\ \A e \in Elem : [state EXCEPT ![m] = "FREE"][e] = "READY" =>
               \E i \in DOMAIN ready_queue : ready_queue[i] = e
      BY DEF TypeInv, TypeOK, ReadyLinked, Elem, State
    <2>4. /\ state' \in [Elem -> State]
          /\ ready_queue' \in Seq(Req \cup ModeChange)
          /\ ReadyLinked'
      BY <2>1, <2>2, <2>3, ScheduleType DEF TypeInv, TypeOK
    <2>5. TypeOK'
      BY <1>2, <2>1, <2>2, <2>4 DEF ReleaseMode, TypeInv, TypeOK, Mode
    <2> QED
      BY <2>4, <2>5 DEF TypeInv
  <1>3. ASSUME NEW m \in ModeChange, UnpostMode(m) PROVE TypeInv'
    <2>1. PICK k \in DOMAIN mode_queue :
            /\ mode_queue' = RemoveAt(mode_queue, k)
            /\ ScheduleModeChange([state EXCEPT ![m] = "FREE"], Unlinked(m),
                                  RemoveAt(mode_queue, k), sched_count)
      BY <1>3 DEF UnpostMode
    <2>2. RemoveAt(mode_queue, k) \in Seq(ModeChange)
      BY RemoveAtFacts DEF TypeInv, TypeOK
    <2>3. /\ Unlinked(m) \in Seq(Req \cup ModeChange)
          /\ \A e \in Elem : e # m /\ state[e] = "READY" =>
               \E i \in DOMAIN Unlinked(m) : Unlinked(m)[i] = e
      BY UnlinkedFacts, UnlinkedKeeps DEF TypeInv
    <2>4. /\ [state EXCEPT ![m] = "FREE"] \in [Elem -> State]
          /\ \A e \in Elem : [state EXCEPT ![m] = "FREE"][e] = "READY" =>
               \E i \in DOMAIN Unlinked(m) : Unlinked(m)[i] = e
      BY <2>3 DEF TypeInv, TypeOK, Elem, State
    <2>5. /\ state' \in [Elem -> State]
          /\ ready_queue' \in Seq(Req \cup ModeChange)
          /\ ReadyLinked'
      BY <2>1, <2>2, <2>3, <2>4, ScheduleType
    <2>6. TypeOK'
      BY <1>3, <2>1, <2>2, <2>5 DEF UnpostMode, TypeInv, TypeOK, Mode
    <2> QED
      BY <2>5, <2>6 DEF TypeInv
  <1> QED
    BY <1>1, <1>2, <1>3 DEF ModeStep

\* The timer operations keep the types.
LEMMA TypeTimerStep == TypeInv /\ TimerStep => TypeInv'
  <1> SUFFICES ASSUME TypeInv, TimerStep PROVE TypeInv'
    OBVIOUS
  <1>1. ASSUME NEW t \in Timer, NEW d \in Delay, PostTimer(t, d)
        PROVE  TypeInv'
    <2>1. timer_queue' \in Seq(Timer)
      BY <1>1, InsertAtType DEF PostTimer, TypeInv, TypeOK
    <2>2. TypeOK'
      BY <1>1, <2>1, SchedulerAssumption DEF PostTimer, TypeInv, TypeOK, Elem, State
    <2>3. ReadyLinked'
      BY <1>1 DEF PostTimer, TypeInv, TypeOK, ReadyLinked, Elem
    <2> QED
      BY <2>2, <2>3 DEF TypeInv
  <1>2. ASSUME NEW t \in Timer, UnpostTimer(t) PROVE TypeInv'
    <2>1. timer_queue' \in Seq(Timer)
      BY <1>2, RemoveAtFacts DEF UnpostTimer, TypeInv, TypeOK
    <2>2. /\ [state EXCEPT ![t] = "FREE"] \in [Elem -> State]
          /\ \A e \in Elem : [state EXCEPT ![t] = "FREE"][e] = "READY" =>
               \E i \in DOMAIN ready_queue : ready_queue[i] = e
      BY DEF TypeInv, TypeOK, ReadyLinked, Elem, State
    <2>3. ScheduleModeChange([state EXCEPT ![t] = "FREE"], ready_queue,
                             mode_queue, sched_count)
      BY <1>2 DEF UnpostTimer
    <2>4. /\ state' \in [Elem -> State]
          /\ ready_queue' \in Seq(Req \cup ModeChange)
          /\ ReadyLinked'
      BY <2>2, <2>3, ScheduleType DEF TypeInv, TypeOK
    <2>5. TypeOK'
      BY <1>2, <2>1, <2>4 DEF UnpostTimer, TypeInv, TypeOK
    <2> QED
      BY <2>4, <2>5 DEF TypeInv
  <1>3. ASSUME NEW t \in Timer, TestTimer(t) PROVE TypeInv'
    <2>1. timer_queue' \in Seq(Timer)
      BY <1>3, RemoveAtFacts DEF TestTimer, TypeInv, TypeOK
    <2> QED
      BY <1>3, <2>1 DEF TestTimer, TypeInv, TypeOK, ReadyLinked, Elem, State
  <1>4. CASE Tick
    BY <1>4 DEF Tick, TypeInv, TypeOK, ReadyLinked
  <1> QED
    BY <1>1, <1>2, <1>3, <1>4 DEF TimerStep

\* PINT_req_sched_testworld keeps the types.
LEMMA TypeTestWorld == TypeInv /\ TestWorld => TypeInv'
  <1> SUFFICES ASSUME TypeInv, TestWorld PROVE TypeInv'
    OBVIOUS
  <1>1. PICK k \in 0..Len(timer_queue), n \in 0..Len(ready_queue) :
          LET Fired(e)  == \E i \in 1..k : timer_queue[i] = e
              Picked(e) == \E i \in 1..n : ready_queue[i] = e
          IN  /\ timer_queue' = SubSeq(timer_queue, k + 1, Len(timer_queue))
              /\ ready_queue' = SubSeq(ready_queue, n + 1, Len(ready_queue))
              /\ state' = [e \in Elem |-> IF Fired(e) THEN "FREE"
                                          ELSE IF Picked(e) THEN "SCHEDULED"
                                          ELSE state[e]]
              /\ left' = [t \in Timer |-> IF Fired(t) THEN -1 ELSE left[t]]
              /\ ModeAfter(n)
              /\ granted' = granted \cup {e \in Elem : Picked(e)}
              /\ UNCHANGED <<queue, mode_queue, op, access_type, mode,
                             sched_count, bypassed>>
    BY DEF TestWorld
  <1>2. /\ timer_queue' \in Seq(Timer)
        /\ ready_queue' \in Seq(Req \cup ModeChange)
        /\ Len(ready_queue') = Len(ready_queue) - n
        /\ \A i \in 1..Len(ready_queue) - n : ready_queue'[i] = ready_queue[n + i]
    BY <1>1 DEF TypeInv, TypeOK
  <1>3. current_mode' \in Mode
    <2>1. \A i \in 1..n : ready_queue[i] \in ModeChange => mode[ready_queue[i]] \in Mode
      BY DEF TypeInv, TypeOK
    <2> QED
      BY <1>1, <2>1 DEF ModeAfter, TypeInv, TypeOK
  <1>4. TypeOK'
    BY <1>1, <1>2, <1>3 DEF TypeInv, TypeOK, State
  <1>5. ReadyLinked'
    <2> SUFFICES ASSUME NEW e \in Elem, state'[e] = "READY"
                 PROVE  \E i \in DOMAIN ready_queue' : ready_queue'[i] = e
      BY DEF ReadyLinked
    <2>1. state[e] = "READY" /\ \A i \in 1..n : ready_queue[i] # e
      BY <1>1
    <2>2. PICK j \in DOMAIN ready_queue : ready_queue[j] = e
      BY <2>1 DEF TypeInv, ReadyLinked
    <2>3. j \in 1..Len(ready_queue) /\ j > n
      BY <2>1, <2>2 DEF TypeInv, TypeOK
    <2>4. j - n \in 1..Len(ready_queue) - n /\ n + (j - n) = j
      BY <2>3
    <2>5. j - n \in DOMAIN ready_queue' /\ ready_queue'[j - n] = e
      BY <1>2, <2>2, <2>4
    <2> QED
      BY <2>5
  <1> QED
    BY <1>4, <1>5 DEF TypeInv

\* PINT_req_sched_test keeps the types.
LEMMA TypeTest ==
  ASSUME TypeInv, NEW e \in Req \cup ModeChange, Test(e)
  PROVE  TypeInv'
  <1>1. TypeOK'
    BY UnlinkedFacts DEF Test, TypeInv, TypeOK, Elem, State
  <1>2. ReadyLinked'
    BY UnlinkedKeeps DEF Test, TypeInv, TypeOK, ReadyLinked, Elem
  <1> QED
    BY <1>1, <1>2 DEF TypeInv

\* Every step keeps the types.
LEMMA TypeNext == TypeInv /\ [Next]_vars => TypeInv'
  <1> SUFFICES ASSUME TypeInv, [Next]_vars PROVE TypeInv'
    OBVIOUS
  <1>1. CASE UNCHANGED vars
    BY <1>1 DEF vars, TypeInv, TypeOK, ReadyLinked
  <1> QED
    BY <1>1, TypeReqStep, TypeModeStep, TypeTimerStep, TypeTestWorld, TypeTest
    DEF Next

\* The scheduler's state always has its declared type; in particular the
\* unlinking of a READY element never misses.
THEOREM TypeCorrect == Spec => []TypeOK
  <1>1. Init => TypeInv
    BY TypeInit
  <1>2. TypeInv /\ [Next]_vars => TypeInv'
    BY TypeNext
  <1>3. TypeInv => TypeOK
    BY DEF TypeInv
  <1> QED
    BY <1>1, <1>2, <1>3, PTL DEF Spec

-----------------------------------------------------------------------------
(* The handle lists.  NoBypass and HeadHasTurn are not inductive alone:    *)
(* they need every request to be in one place of one list, and TurnsShared *)
(* needs the class of a request to stay what it was when it was posted.    *)

\* A request is FREE, waiting, woken or running, and has a class while it is
\* in a list; what runs outside the scheduler is FREE here.
ReqState ==
  /\ \A r \in Req : state[r] \in {"FREE", "QUEUED", "READY", "SCHEDULED"}
  /\ \A r \in Req : state[r] # "FREE" =>
       op[r] \in Op /\ access_type[r] \in AccessType
  /\ \A r \in bypassed : state[r] = "FREE"
  /\ \A r \in Req : state[r] = "FREE" => r \notin granted

\* The first two conjuncts of Linked.
Placed ==
  /\ \A r \in Req : state[r] # "FREE" <=> \E h \in Handle : InQueue(r, h)
  /\ \A g, h \in Handle : \A j \in DOMAIN queue[g], k \in DOMAIN queue[h] :
       queue[g][j] = queue[h][k] => g = h /\ j = k

\* TurnsShared of one pair: b, behind a, may hold the turn with it.
Beside(a, b) == op[b] # "DIRENT" => Together(a, b)

Lists == ReqState /\ Placed /\ NoBypass /\ HeadHasTurn /\ TurnsShared

ListInv == TypeInv /\ Lists

\* A step that moves no request, at most lets woken ones run, and leaves the
\* class of every request in a list alone.
LEMMA QuietStep ==
  ASSUME ListInv, TypeOK', queue' = queue,
         \A r \in Req : state'[r] = state[r] \/
                        (state[r] = "READY" /\ state'[r] = "SCHEDULED"),
         \A r \in Req : state[r] # "FREE" =>
                        op'[r] = op[r] /\ access_type'[r] = access_type[r],
         \A r \in bypassed' : state[r] = "FREE",
         \A r \in Req : state'[r] = "FREE" => r \notin granted'
  PROVE  Lists'
  <1>1. ReqState'
    BY DEF ListInv, Lists, ReqState, TypeOK
  <1>2. Placed'
    BY DEF ListInv, Lists, Placed, InQueue
  <1>3. \A h \in Handle : \A k \in DOMAIN queue[h] : queue[h][k] \in Req
    BY DEF ListInv, TypeInv, TypeOK
  <1>4. \A h \in Handle : \A k \in DOMAIN queue[h] : state[queue[h][k]] # "FREE"
    BY <1>3 DEF ListInv, Lists, Placed, InQueue
  <1>5. \A r \in Req : state'[r] = "QUEUED" <=> state[r] = "QUEUED"
    OBVIOUS
  <1>6. NoBypass'
    BY <1>3, <1>5 DEF ListInv, Lists, NoBypass
  <1>7. HeadHasTurn'
    <2> SUFFICES ASSUME NEW h \in Handle, queue[h] # <<>>
                 PROVE  state'[queue[h][1]] # "QUEUED"
      BY DEF HeadHasTurn
    <2>1. 1 \in DOMAIN queue[h]
      BY DEF ListInv, TypeInv, TypeOK
    <2> QED
      BY <1>3, <1>5, <2>1 DEF ListInv, Lists, HeadHasTurn
  <1>8. TurnsShared'
    BY <1>3, <1>4, <1>5 DEF ListInv, Lists, TurnsShared, Beside, Together
  <1> QED
    BY <1>1, <1>2, <1>6, <1>7, <1>8 DEF Lists

\* A list whose two ends run has no request that still waits.
LEMMA EndsCover ==
  ASSUME ListInv, NEW h \in Handle, BothEndsScheduled(queue[h])
  PROVE  \A i \in DOMAIN queue[h] : state[queue[h][i]] # "QUEUED"
  <1> DEFINE q == queue[h]
  <1>1. q \in Seq(Req) /\ q # <<>>
    BY DEF BothEndsScheduled, ListInv, TypeInv, TypeOK
  <1>2. Len(q) \in DOMAIN q /\ state[q[Len(q)]] = "SCHEDULED"
    BY <1>1 DEF BothEndsScheduled
  <1> SUFFICES ASSUME NEW i \in DOMAIN q, state[q[i]] = "QUEUED" PROVE FALSE
    OBVIOUS
  <1>3. i < Len(q) \/ i = Len(q)
    BY <1>1
  <1> QED
    BY <1>2, <1>3 DEF ListInv, Lists, NoBypass

\* A request that joins a list leaves it served: it gets its turn only
\* behind requests that all have theirs and share the handle with it.
LEMMA PostStep ==
  ASSUME ListInv, TypeOK', NEW r \in Req, NEW h \in Handle, NEW c \in Class,
         Post(r, h, c[1], c[2])
  PROVE  Lists'
  <1> DEFINE q == queue[h]
             start == MayStart(q, c[1], c[2])
  <1>0. c[1] \in Op /\ c[2] \in AccessType
    BY DEF Class, Op, AccessType
  <1>1. q \in Seq(Req) /\ state[r] = "FREE" /\ r \notin bypassed
    BY DEF ListInv, TypeInv, TypeOK, Post
  <1>2. /\ queue' = [queue EXCEPT ![h] = Append(q, r)]
        /\ state' = [state EXCEPT ![r] = IF start THEN "SCHEDULED" ELSE "QUEUED"]
        /\ op' = [op EXCEPT ![r] = c[1]]
        /\ access_type' = [access_type EXCEPT ![r] =
             IF start /\ q # <<>> /\ c[1] = "DIRENT" THEN "READONLY" ELSE c[2]]
        /\ granted' = IF start THEN granted \cup {r} ELSE granted
        /\ bypassed' = bypassed
    BY DEF Post
  <1>3. \A g \in Handle : \A k \in DOMAIN queue[g] :
          queue[g][k] \in Req /\ queue[g][k] # r
    BY <1>1 DEF ListInv, TypeInv, TypeOK, Lists, Placed, InQueue
  <1>4. /\ queue'[h] \in Seq(Req)
        /\ Len(queue'[h]) = Len(q) + 1
        /\ \A i \in 1..Len(q) : queue'[h][i] = q[i]
        /\ queue'[h][Len(q) + 1] = r
        /\ \A g \in Handle : g # h => queue'[g] = queue[g]
    BY <1>1, <1>2 DEF ListInv, TypeInv, TypeOK
  <1>5. \A x \in Req : x # r =>
          /\ state'[x] = state[x]
          /\ op'[x] = op[x] /\ access_type'[x] = access_type[x]
    BY <1>2 DEF ListInv, TypeInv, TypeOK, Elem
  <1>6. state'[r] = IF start THEN "SCHEDULED" ELSE "QUEUED"
    BY <1>2 DEF ListInv, TypeInv, TypeOK, Elem
  <1>7. op'[r] = c[1] /\ access_type'[r] =
          IF start /\ q # <<>> /\ c[1] = "DIRENT" THEN "READONLY" ELSE c[2]
    BY <1>2 DEF ListInv, TypeInv, TypeOK
  <1>8. ASSUME start, NEW i \in 1..Len(q), NEW x, x = q[i]
        PROVE  state[x] # "QUEUED" /\ Beside(x, r)'
    <2>1. /\ BothEndsScheduled(q)
          /\ SharesIO(q, c[1]) \/ SharesRead(q, c[1], c[2]) \/ SharesDirent(c[1], c[2])
      BY <1>1, <1>8 DEF MayStart
    <2>2. x \in Req /\ x # r /\ i \in DOMAIN q
      BY <1>1, <1>3, <1>8
    <2>3. state[x] # "QUEUED"
      BY <1>8, <2>1, <2>2, EndsCover
    <2>4. op[x] \in Op /\ access_type[x] \in AccessType
      BY <1>8, <2>2 DEF ListInv, Lists, ReqState, Placed, InQueue
    <2>5. CASE SharesIO(q, c[1])
      BY <1>5, <1>7, <1>8, <2>2, <2>3, <2>5 DEF SharesIO, Beside, Together
    <2>6. CASE SharesRead(q, c[1], c[2])
      BY <1>5, <1>7, <1>8, <2>2, <2>3, <2>4, <2>6 DEF SharesRead, Beside, Together, AccessType
    <2>7. CASE SharesDirent(c[1], c[2])
      BY <1>7, <2>3, <2>7 DEF SharesDirent, Beside, Together
    <2> QED
      BY <2>1, <2>3, <2>5, <2>6, <2>7
  <1> HIDE DEF start
  <1>9. ReqState'
    BY <1>0, <1>1, <1>2, <1>5, <1>6, <1>7
    DEF ListInv, TypeInv, TypeOK, Lists, ReqState, AccessType
  <1>10. Placed'
    <2>1. \A x \in Req : state'[x] # "FREE" <=> \E g \in Handle : InQueue(x, g)'
      <3>1. InQueue(r, h)' /\ state'[r] # "FREE"
        BY <1>1, <1>4, <1>6 DEF InQueue
      <3>2. ASSUME NEW x \in Req, x # r, NEW g \in Handle
            PROVE  InQueue(x, g)' <=> InQueue(x, g)
        <4>1. CASE g = h
          <5>1. InQueue(x, h) => InQueue(x, h)'
            BY <1>1, <1>4 DEF InQueue
          <5>2. ASSUME NEW i \in DOMAIN queue'[h], queue'[h][i] = x
                PROVE  i \in DOMAIN q /\ q[i] = x
            BY <1>1, <1>4, <3>2, <5>2
          <5> QED
            BY <4>1, <5>1, <5>2 DEF InQueue
        <4>2. CASE g # h
          BY <1>4, <4>2 DEF InQueue
        <4> QED
          BY <4>1, <4>2
      <3> QED
        BY <1>5, <3>1, <3>2 DEF ListInv, Lists, Placed
    <2>2. ASSUME NEW g \in Handle, NEW f \in Handle,
                 NEW j \in DOMAIN queue'[g], NEW k \in DOMAIN queue'[f],
                 queue'[g][j] = queue'[f][k]
          PROVE  g = f /\ j = k
      <3>1. ASSUME NEW x \in Handle, NEW i \in DOMAIN queue'[x]
            PROVE  \/ x = h /\ i = Len(q) + 1 /\ queue'[x][i] = r
                   \/ i \in DOMAIN queue[x] /\ queue'[x][i] = queue[x][i] /\ queue[x][i] # r
        BY <1>1, <1>3, <1>4
      <3> QED
        BY <2>2, <3>1 DEF ListInv, Lists, Placed
    <2> QED
      BY <2>1, <2>2 DEF Placed
  <1>11. ASSUME NEW g \in Handle, g # h
         PROVE  /\ queue'[g] = queue[g]
                /\ \A i \in DOMAIN queue[g] : state'[queue[g][i]] = state[queue[g][i]]
                /\ \A i, j \in DOMAIN queue[g] :
                     Beside(queue[g][i], queue[g][j])' <=>
                     Beside(queue[g][i], queue[g][j])
    BY <1>3, <1>4, <1>5, <1>11 DEF Beside, Together
  <1>12. \A i \in 1..Len(q) : /\ state'[q[i]] = state[q[i]]
                              /\ op'[q[i]] = op[q[i]]
                              /\ access_type'[q[i]] = access_type[q[i]]
    BY <1>1, <1>3, <1>5
  <1>13. NoBypass'
    <2> SUFFICES ASSUME NEW g \in Handle, NEW j \in DOMAIN queue'[g],
                        NEW k \in DOMAIN queue'[g], j < k,
                        state'[queue'[g][j]] = "QUEUED"
                 PROVE  state'[queue'[g][k]] = "QUEUED"
      BY DEF NoBypass
    <2>1. CASE g # h
      BY <1>11, <2>1 DEF ListInv, Lists, NoBypass
    <2>2. CASE g = h
      <3>1. j \in 1..Len(q) /\ j \in DOMAIN q /\ queue'[g][j] = q[j]
        BY <1>1, <1>4, <2>2
      <3>2. state[q[j]] = "QUEUED"
        BY <1>12, <3>1
      <3>3. CASE k \in 1..Len(q)
        BY <1>1, <1>4, <1>12, <2>2, <3>1, <3>2, <3>3 DEF ListInv, Lists, NoBypass
      <3>4. CASE k = Len(q) + 1
        <4>1. ~start
          BY <1>8, <3>1, <3>2
        <4> QED
          BY <1>4, <1>6, <2>2, <3>4, <4>1
      <3> QED
        BY <1>1, <1>4, <2>2, <3>3, <3>4
    <2> QED
      BY <2>1, <2>2
  <1>14. HeadHasTurn'
    <2> SUFFICES ASSUME NEW g \in Handle, queue'[g] # <<>>
                 PROVE  state'[queue'[g][1]] # "QUEUED"
      BY DEF HeadHasTurn
    <2>1. CASE g # h
      <3>1. 1 \in DOMAIN queue[g]
        BY <1>11, <2>1 DEF ListInv, TypeInv, TypeOK
      <3> QED
        BY <1>11, <2>1, <3>1 DEF ListInv, Lists, HeadHasTurn
    <2>2. CASE g = h /\ q = <<>>
      <3>1. start
        BY <2>2 DEF start, MayStart
      <3> QED
        BY <1>4, <1>6, <2>2, <3>1
    <2>3. CASE g = h /\ q # <<>>
      <3>1. 1 \in 1..Len(q)
        BY <1>1, <2>3
      <3> QED
        BY <1>4, <1>12, <2>3, <3>1 DEF ListInv, Lists, HeadHasTurn
    <2> QED
      BY <2>1, <2>2, <2>3
  <1>15. TurnsShared'
    <2> SUFFICES ASSUME NEW g \in Handle, NEW j \in DOMAIN queue'[g],
                        NEW k \in DOMAIN queue'[g], j < k,
                        state'[queue'[g][k]] # "QUEUED"
                 PROVE  Beside(queue[g][j], queue[g][k])'
      BY DEF TurnsShared, Beside
    <2>1. CASE g # h
      BY <1>11, <2>1 DEF ListInv, Lists, TurnsShared, Beside
    <2>2. CASE g = h
      <3>1. j \in 1..Len(q) /\ j \in DOMAIN q /\ queue'[g][j] = q[j]
        BY <1>1, <1>4, <2>2
      <3>2. CASE k \in 1..Len(q)
        <4>1. k \in DOMAIN q /\ queue'[g][k] = q[k] /\ state[q[k]] # "QUEUED"
          BY <1>1, <1>4, <1>12, <2>2, <3>2
        <4>2. Beside(q[j], q[k])
          BY <3>1, <4>1 DEF ListInv, Lists, TurnsShared, Beside
        <4> QED
          BY <1>12, <3>1, <3>2, <4>1, <4>2 DEF Beside, Together
      <3>3. CASE k = Len(q) + 1
        <4>1. start /\ queue'[g][k] = r
          BY <1>4, <1>6, <2>2, <3>3
        <4>2. \A x : x = q[j] => Beside(x, r)'
          BY <1>8, <3>1, <4>1
        <4> QED
          BY <3>1, <4>1, <4>2 DEF Beside, Together
      <3> QED
        BY <1>1, <1>4, <2>2, <3>2, <3>3
    <2> QED
      BY <2>1, <2>2
  <1> QED
    BY <1>9, <1>10, <1>13, <1>14, <1>15 DEF Lists

\* The requests on the new ready queue are those of rq and the first n of q.
Joins(rq, q, n) ==
  \A i \in DOMAIN ready_queue' :
    \/ ready_queue'[i] \in ModeChange
    \/ \E j \in 1..n : q[j] = ready_queue'[i]
    \/ \E j \in DOMAIN rq : rq[j] = ready_queue'[i]

\* The trailing PINT_req_sched_schedule_mode_change adds no request to the
\* ready queue it is given.
LEMMA WokenJoin ==
  ASSUME NEW st, NEW q \in Seq(Req), NEW n \in 0..Len(q), NEW count,
         NEW rq \in Seq(Req \cup ModeChange), NEW mq \in Seq(ModeChange),
         ScheduleModeChange(st, rq \o SubSeq(q, 1, n), mq, count)
  PROVE  Joins(rq, q, n)
  <1> DEFINE w == SubSeq(q, 1, n)
             c == rq \o w
  <1>1. w \in Seq(Req) /\ Len(w) = n /\ \A i \in 1..n : w[i] = q[i]
    OBVIOUS
  <1>2. ready_queue' = c \/ (mq # <<>> /\ ready_queue' = Append(c, Head(mq)))
    BY DEF ScheduleModeChange
  <1> HIDE DEF w
  <1>w. w \in Seq(Req \cup ModeChange)
    BY <1>1
  <1>3. /\ c \in Seq(Req \cup ModeChange)
        /\ Len(c) = Len(rq) + Len(w)
        /\ \A i \in 1..Len(rq) + Len(w) :
             c[i] = IF i <= Len(rq) THEN rq[i] ELSE w[i - Len(rq)]
    BY <1>w
  <1> HIDE DEF c
  <1>4. ASSUME NEW i \in 1..Len(c)
        PROVE  (\E j \in 1..n : q[j] = c[i]) \/ \E j \in DOMAIN rq : rq[j] = c[i]
    <2>1. CASE i <= Len(rq)
      BY <1>3, <2>1
    <2>2. CASE ~ (i <= Len(rq))
      <3>1. i - Len(rq) \in 1..n
        BY <1>1, <1>3, <2>2
      <3>2. c[i] = w[i - Len(rq)]
        BY <1>3, <2>2
      <3> QED
        BY <1>1, <3>1, <3>2
    <2> QED
      BY <2>1, <2>2
  <1>5. \A i \in DOMAIN ready_queue' :
          ready_queue'[i] \in ModeChange \/ \E j \in 1..Len(c) : ready_queue'[i] = c[j]
    <2>1. CASE ready_queue' = c
      BY <1>3, <2>1
    <2>2. CASE mq # <<>> /\ ready_queue' = Append(c, Head(mq))
      <3>1. Head(mq) \in ModeChange
        BY <2>2
      <3> QED
        BY <1>3, <2>2, <3>1
    <2> QED
      BY <1>2, <2>1, <2>2
  <1> QED
    BY <1>4, <1>5 DEF Joins

\* What a release and an unpost have in common: q is the list of h without
\* its k-th request r, the first n of q are woken, and these are the head
\* alone, or all I/O, or all read only.
Departs(r, h, k, q, n) ==
  /\ queue[h][k] = r
  /\ q = RemoveAt(queue[h], k)
  /\ n \in 0..Len(q)
  /\ (q # <<>> /\ state[q[1]] = "QUEUED") => n > 0
  /\ n > 0 => state[q[1]] = "QUEUED"
  /\ \/ n <= 1
     \/ \A i \in 1..n : IsIO(q[i])
     \/ \A i \in 1..n : IsReadOnly(q[i])
  /\ queue' = [queue EXCEPT ![h] = q]
  /\ \A x \in Req : state'[x] = Woken(r, q, n)[x]
  /\ FreeReq(r)
  /\ granted' = granted \ {r}
  /\ bypassed' = bypassed
  /\ Joins(IF r \in granted THEN ready_queue ELSE Unlinked(r), q, n)

\* A list that loses one request, the first n of the rest made ready, is
\* still served.
LEMMA DepartStep ==
  ASSUME ListInv, TypeOK', NEW r \in Req, NEW h \in Handle,
         NEW k \in DOMAIN queue[h], NEW q, NEW n, Departs(r, h, k, q, n)
  PROVE  Lists'
  <1> DEFINE J(i) == IF i < k THEN i ELSE i + 1
  <1>1. /\ queue[h] \in Seq(Req) /\ queue[h][k] = r
        /\ q \in Seq(Req) /\ Len(q) = Len(queue[h]) - 1
        /\ \A i \in 1..Len(q) : q[i] = queue[h][J(i)]
    <2>1. /\ queue[h] \in Seq(Req) /\ queue[h][k] = r
          /\ q = RemoveAt(queue[h], k)
      BY DEF ListInv, TypeInv, TypeOK, Departs
    <2>2. /\ q \in Seq(Req) /\ Len(q) = Len(queue[h]) - 1
          /\ \A i \in 1..Len(queue[h]) - 1 :
               q[i] = IF i < k THEN queue[h][i] ELSE queue[h][i + 1]
      BY <2>1, RemoveAtFacts
    <2> QED
      BY <2>1, <2>2
  <1>2. \A i \in 1..Len(q) : J(i) \in DOMAIN queue[h] /\ J(i) # k
    BY <1>1
  <1>3. \A i, j \in 1..Len(q) : i < j => J(i) < J(j)
    BY <1>1
  <1>4. \A i \in 1..Len(q) : q[i] \in Req /\ q[i] # r
    <2> SUFFICES ASSUME NEW i \in 1..Len(q) PROVE q[i] \in Req /\ q[i] # r
      OBVIOUS
    <2>1. J(i) \in DOMAIN queue[h] /\ J(i) # k /\ q[i] = queue[h][J(i)]
      BY <1>1, <1>2
    <2> HIDE DEF J
    <2> QED
      BY <1>1, <2>1 DEF ListInv, Lists, Placed
  <1>5. \A i, j \in 1..Len(q) : q[i] = q[j] => i = j
    <2> SUFFICES ASSUME NEW i \in 1..Len(q), NEW j \in 1..Len(q), q[i] = q[j]
                 PROVE  i = j
      OBVIOUS
    <2>1. J(i) = J(j)
      <3>1. J(i) \in DOMAIN queue[h] /\ J(j) \in DOMAIN queue[h]
            /\ queue[h][J(i)] = queue[h][J(j)]
        BY <1>1, <1>2
      <3> HIDE DEF J
      <3> QED
        BY <3>1 DEF ListInv, Lists, Placed
    <2> QED
      BY <1>1, <2>1
  <1>6. /\ n \in 0..Len(q)
        /\ (q # <<>> /\ state[q[1]] = "QUEUED") => n > 0
        /\ n > 0 => state[q[1]] = "QUEUED"
        /\ \/ n <= 1
           \/ \A i \in 1..n : IsIO(q[i])
           \/ \A i \in 1..n : IsReadOnly(q[i])
        /\ queue' = [queue EXCEPT ![h] = q]
        /\ \A x \in Req : state'[x] = Woken(r, q, n)[x]
        /\ FreeReq(r)
        /\ granted' = granted \ {r}
        /\ bypassed' = bypassed
    BY DEF Departs
  \* J carries what holds of two places of the old list over to q.
  <1>7. ASSUME NEW i \in 1..Len(q), NEW j \in 1..Len(q), i < j
        PROVE  /\ state[q[i]] = "QUEUED" => state[q[j]] = "QUEUED"
               /\ state[q[j]] # "QUEUED" => Beside(q[i], q[j])
    <2>1. /\ J(i) \in DOMAIN queue[h] /\ J(j) \in DOMAIN queue[h] /\ J(i) < J(j)
          /\ q[i] = queue[h][J(i)] /\ q[j] = queue[h][J(j)]
      BY <1>1, <1>2, <1>3, <1>7
    <2> HIDE DEF J
    <2> QED
      BY <2>1 DEF ListInv, Lists, NoBypass, TurnsShared, Beside
  <1> HIDE DEF J
  <1>8. n > 0 => \A i \in 1..Len(q) : state[q[i]] = "QUEUED"
    <2> SUFFICES ASSUME n > 0, NEW i \in 1..Len(q) PROVE state[q[i]] = "QUEUED"
      OBVIOUS
    <2>1. 1 \in 1..Len(q) /\ (i = 1 \/ 1 < i)
      BY <1>1, <1>6
    <2> QED
      BY <1>6, <1>7, <2>1
  <1>9. \A i \in 1..Len(q) :
          state'[q[i]] = IF i <= n THEN "READY" ELSE state[q[i]]
    <2> SUFFICES ASSUME NEW i \in 1..Len(q)
                 PROVE  state'[q[i]] = IF i <= n THEN "READY" ELSE state[q[i]]
      OBVIOUS
    <2>1. state'[q[i]] = IF \E j \in 1..n : q[j] = q[i] THEN "READY" ELSE state[q[i]]
      BY <1>4, <1>6 DEF Woken, Elem
    <2>2. (\E j \in 1..n : q[j] = q[i]) <=> i <= n
      BY <1>1, <1>5, <1>6
    <2> QED
      BY <2>1, <2>2
  <1>10. \A x \in Req : x # r =>
           op'[x] = op[x] /\ access_type'[x] = access_type[x]
    BY <1>6 DEF FreeReq, ListInv, TypeInv, TypeOK
  <1>11. /\ state'[r] = "FREE"
         /\ \A x \in Req : x # r /\ (\A i \in 1..Len(q) : q[i] # x) =>
              state'[x] = state[x]
    BY <1>1, <1>6 DEF Woken, Elem
  <1>12. queue'[h] = q /\ \A g \in Handle : g # h => queue'[g] = queue[g]
    BY <1>6 DEF ListInv, TypeInv, TypeOK
  <1>13. \A x \in Req : x # r => (state'[x] = "FREE" <=> state[x] = "FREE")
    <2> SUFFICES ASSUME NEW x \in Req, x # r
                 PROVE  state'[x] = "FREE" <=> state[x] = "FREE"
      OBVIOUS
    <2>1. CASE \E i \in 1..Len(q) : q[i] = x
      BY <1>1, <1>6, <1>8, <1>9, <2>1
    <2> QED
      BY <1>11, <2>1
  <1>14. ReqState'
    <2>1. \A x \in Req : state'[x] \in {"FREE", "QUEUED", "READY", "SCHEDULED"}
      <3> SUFFICES ASSUME NEW x \in Req, x # r
                   PROVE  state'[x] \in {"FREE", "QUEUED", "READY", "SCHEDULED"}
        BY <1>11
      <3> QED
        BY <1>9, <1>11 DEF ListInv, Lists, ReqState
    <2>2. ASSUME NEW x \in Req, state'[x] # "FREE"
          PROVE  op'[x] \in Op /\ access_type'[x] \in AccessType
      BY <1>10, <1>11, <1>13, <2>2 DEF ListInv, Lists, ReqState
    <2>3. \A x \in bypassed' : state'[x] = "FREE"
      BY <1>6, <1>11, <1>13 DEF ListInv, Lists, ReqState, TypeInv, TypeOK
    <2>4. \A x \in Req : state'[x] = "FREE" => x \notin granted'
      BY <1>6, <1>13 DEF ListInv, Lists, ReqState
    <2> QED
      BY <2>1, <2>2, <2>3, <2>4 DEF ReqState
  <1>15. Placed'
    <2>1. ASSUME NEW x \in Req, x # r, NEW g \in Handle
          PROVE  InQueue(x, g)' <=> InQueue(x, g)
      <3>1. CASE g = h
        <4>1. InQueue(x, h)' => InQueue(x, h)
          BY <1>1, <1>2, <1>12 DEF InQueue
        <4>2. ASSUME NEW i \in DOMAIN queue[h], queue[h][i] = x
              PROVE  InQueue(x, h)'
          <5>1. i # k /\ i \in 1..Len(queue[h]) /\ k \in 1..Len(queue[h])
            BY <1>1, <2>1, <4>2
          <5>2. CASE i < k
            BY <1>1, <1>12, <4>2, <5>1, <5>2 DEF InQueue, J
          <5>3. CASE i > k
            <6>1. i - 1 \in 1..Len(q) /\ J(i - 1) = i
              BY <1>1, <5>1, <5>3 DEF J
            <6>2. q[i - 1] = x /\ i - 1 \in DOMAIN q
              BY <1>1, <4>2, <6>1
            <6> QED
              BY <1>12, <6>2 DEF InQueue
          <5> QED
            BY <5>1, <5>2, <5>3
        <4> QED
          BY <3>1, <4>1, <4>2 DEF InQueue
      <3>2. CASE g # h
        BY <1>12, <3>2 DEF InQueue
      <3> QED
        BY <3>1, <3>2
    <2>2. ASSUME NEW g \in Handle PROVE ~InQueue(r, g)'
      <3>1. CASE g = h
        BY <1>1, <1>4, <1>12, <3>1 DEF InQueue
      <3>2. CASE g # h
        <4>1. \A i \in DOMAIN queue[g] : queue[g][i] # queue[h][k]
          BY <3>2 DEF ListInv, Lists, Placed
        <4> QED
          BY <1>1, <1>12, <3>2, <4>1 DEF InQueue
      <3> QED
        BY <3>1, <3>2
    <2>3. \A x \in Req : state'[x] # "FREE" <=> \E g \in Handle : InQueue(x, g)'
      BY <1>11, <1>13, <2>1, <2>2 DEF ListInv, Lists, Placed
    <2>4. ASSUME NEW g \in Handle, NEW f \in Handle,
                 NEW i \in DOMAIN queue'[g], NEW j \in DOMAIN queue'[f],
                 queue'[g][i] = queue'[f][j]
          PROVE  g = f /\ i = j
      <3>1. CASE g = h /\ f = h
        <4>1. i \in 1..Len(q) /\ j \in 1..Len(q) /\ q[i] = q[j]
          BY <1>1, <1>12, <2>4, <3>1
        <4> QED
          BY <1>5, <3>1, <4>1
      <3>2. ASSUME NEW x \in Handle, NEW y \in DOMAIN queue'[x]
            PROVE  \E z \in DOMAIN queue[x] : queue'[x][y] = queue[x][z]
                                             /\ (x # h => z = y)
        <4>1. CASE x = h
          BY <1>1, <1>2, <1>12, <4>1
        <4> QED
          BY <1>12, <4>1
      <3>3. CASE ~(g = h /\ f = h)
        BY <2>4, <3>2, <3>3 DEF ListInv, Lists, Placed
      <3> QED
        BY <3>1, <3>3
    <2> QED
      BY <2>3, <2>4 DEF Placed
  <1>16. ASSUME NEW g \in Handle, g # h
         PROVE  /\ queue'[g] = queue[g]
                /\ \A i \in DOMAIN queue[g] :
                     /\ state'[queue[g][i]] = state[queue[g][i]]
                     /\ op'[queue[g][i]] = op[queue[g][i]]
                     /\ access_type'[queue[g][i]] = access_type[queue[g][i]]
    <2>1. ASSUME NEW i \in DOMAIN queue[g]
          PROVE  /\ queue[g][i] \in Req /\ queue[g][i] # r
                 /\ \A j \in 1..Len(q) : q[j] # queue[g][i]
      <3>1. queue[g][i] \in Req
        BY DEF ListInv, TypeInv, TypeOK
      <3>2. \A j \in DOMAIN queue[h] : queue[g][i] # queue[h][j]
        BY <1>16 DEF ListInv, Lists, Placed
      <3> QED
        BY <1>1, <1>2, <3>1, <3>2
    <2> QED
      BY <1>10, <1>11, <1>12, <1>16, <2>1
  <1>17. NoBypass'
    <2> SUFFICES ASSUME NEW g \in Handle, NEW i \in DOMAIN queue'[g],
                        NEW j \in DOMAIN queue'[g], i < j,
                        state'[queue'[g][i]] = "QUEUED"
                 PROVE  state'[queue'[g][j]] = "QUEUED"
      BY DEF NoBypass
    <2>1. CASE g # h
      BY <1>16, <2>1 DEF ListInv, Lists, NoBypass
    <2>2. CASE g = h
      <3>1. i \in 1..Len(q) /\ j \in 1..Len(q) /\ queue'[g] = q
        BY <1>1, <1>12, <2>2
      <3>2. ~(i <= n) /\ state[q[i]] = "QUEUED" /\ ~(j <= n)
        BY <1>6, <1>9, <3>1
      <3> QED
        BY <1>7, <1>9, <3>1, <3>2
    <2> QED
      BY <2>1, <2>2
  <1>18. HeadHasTurn'
    <2> SUFFICES ASSUME NEW g \in Handle, queue'[g] # <<>>
                 PROVE  state'[queue'[g][1]] # "QUEUED"
      BY DEF HeadHasTurn
    <2>1. CASE g # h
      <3>1. 1 \in DOMAIN queue[g]
        BY <1>16, <2>1 DEF ListInv, TypeInv, TypeOK
      <3> QED
        BY <1>16, <2>1, <3>1 DEF ListInv, Lists, HeadHasTurn
    <2>2. CASE g = h
      <3>1. 1 \in 1..Len(q) /\ queue'[g] = q /\ q # <<>>
        BY <1>1, <1>12, <2>2
      <3> QED
        BY <1>6, <1>9, <3>1
    <2> QED
      BY <2>1, <2>2
  <1>19. TurnsShared'
    <2> SUFFICES ASSUME NEW g \in Handle, NEW i \in DOMAIN queue'[g],
                        NEW j \in DOMAIN queue'[g], i < j,
                        state'[queue'[g][j]] # "QUEUED"
                 PROVE  Beside(queue[g][i], queue[g][j])'
      BY DEF TurnsShared, Beside
    <2>1. CASE g # h
      BY <1>16, <2>1 DEF ListInv, Lists, TurnsShared, Beside, Together
    <2>2. CASE g = h
      <3>1. i \in 1..Len(q) /\ j \in 1..Len(q) /\ queue'[g] = q
        BY <1>1, <1>12, <2>2
      <3>2. /\ op'[q[i]] = op[q[i]] /\ access_type'[q[i]] = access_type[q[i]]
            /\ op'[q[j]] = op[q[j]] /\ access_type'[q[j]] = access_type[q[j]]
        BY <1>4, <1>10, <3>1
      <3>3. Beside(q[i], q[j])
        <4>1. CASE j <= n
          BY <1>6, <3>1, <4>1 DEF IsIO, IsReadOnly, Beside, Together
        <4>2. CASE ~(j <= n)
          BY <1>7, <1>9, <3>1, <4>2
        <4> QED
          BY <4>1, <4>2
      <3> QED
        BY <3>1, <3>2, <3>3 DEF Beside, Together
    <2> QED
      BY <2>1, <2>2
  <1> QED
    BY <1>14, <1>15, <1>17, <1>18, <1>19 DEF Lists

\* The first n requests of q go together: one, or a run of I/O or reads.
LEMMA BatchFacts ==
  ASSUME NEW q \in Seq(Req), NEW n \in 0..Len(q), NEW st, TypeOK, ReqState,
         \A i \in 1..Len(q) : state[q[i]] # "FREE"
  PROVE  /\ ReleaseBatch(q, n) =>
              /\ (q # <<>> /\ state[q[1]] = "QUEUED") => n > 0
              /\ n > 0 => state[q[1]] = "QUEUED"
              /\ \/ n <= 1
                 \/ \A i \in 1..n : IsIO(q[i])
                 \/ \A i \in 1..n : IsReadOnly(q[i])
         /\ UnpostBatch(q, n, st) =>
              /\ (st = "READY" /\ q # <<>> /\ state[q[1]] = "QUEUED") => n > 0
              /\ n > 0 => state[q[1]] = "QUEUED"
              /\ n <= 1 \/ \A i \in 1..n : IsIO(q[i])
  <1>1. q # <<>> => state[q[1]] \in {"QUEUED", "READY", "SCHEDULED"}
    BY DEF ReqState, TypeOK
  <1> QED
    BY <1>1 DEF ReleaseBatch, UnpostBatch, LongestRun, IOReqs, ReadOnlyReqs

\* A list without its k-th request holds requests of the list, and has the
\* same head unless k is the head.
LEMMA QueueWithout ==
  ASSUME TypeOK, NEW h \in Handle, NEW k \in DOMAIN queue[h],
         NEW q, q = RemoveAt(queue[h], k)
  PROVE  /\ q \in Seq(Req)
         /\ \A i \in 1..Len(q) : \E j \in DOMAIN queue[h] : q[i] = queue[h][j]
         /\ k > 1 /\ q # <<>> => q[1] = queue[h][1]
  <1>1. queue[h] \in Seq(Req)
    BY DEF TypeOK
  <1>2. /\ q \in Seq(Req) /\ Len(q) = Len(queue[h]) - 1
        /\ \A i \in 1..Len(queue[h]) - 1 :
             q[i] = IF i < k THEN queue[h][i] ELSE queue[h][i + 1]
    BY <1>1, RemoveAtFacts
  <1>3. ASSUME NEW i \in 1..Len(q)
        PROVE  \E j \in DOMAIN queue[h] : q[i] = queue[h][j]
    <2>1. i \in DOMAIN queue[h] /\ i + 1 \in DOMAIN queue[h]
      BY <1>1, <1>2
    <2> QED
      BY <1>2, <2>1
  <1>4. k > 1 /\ q # <<>> => q[1] = queue[h][1]
    BY <1>1, <1>2
  <1> QED
    BY <1>2, <1>3, <1>4

\* A release wakes a run that keeps the list served.
LEMMA ReleaseStep ==
  ASSUME ListInv, NEW r \in Req, Release(r)
  PROVE  \E h \in Handle : \E k \in DOMAIN queue[h] : \E q, n : Departs(r, h, k, q, n)
  <1>1. PICK h \in Handle : \E k \in DOMAIN queue[h] :
          LET q == RemoveAt(queue[h], k)
          IN  /\ queue[h][k] = r
              /\ queue' = [queue EXCEPT ![h] = q]
              /\ \E n \in 0..Len(q) :
                   /\ ReleaseBatch(q, n)
                   /\ ScheduleModeChange(Woken(r, q, n),
                                         ready_queue \o SubSeq(q, 1, n),
                                         mode_queue, sched_count - 1)
    BY DEF Release
  <1>2. PICK k \in DOMAIN queue[h] :
          LET q == RemoveAt(queue[h], k)
          IN  /\ queue[h][k] = r
              /\ queue' = [queue EXCEPT ![h] = q]
              /\ \E n \in 0..Len(q) :
                   /\ ReleaseBatch(q, n)
                   /\ ScheduleModeChange(Woken(r, q, n),
                                         ready_queue \o SubSeq(q, 1, n),
                                         mode_queue, sched_count - 1)
    BY <1>1
  <1> DEFINE q == RemoveAt(queue[h], k)
  <1>3. PICK n \in 0..Len(q) :
          /\ ReleaseBatch(q, n)
          /\ ScheduleModeChange(Woken(r, q, n), ready_queue \o SubSeq(q, 1, n),
                                mode_queue, sched_count - 1)
    BY <1>2
  <1>4. /\ q \in Seq(Req)
        /\ \A i \in 1..Len(q) : \E j \in DOMAIN queue[h] : q[i] = queue[h][j]
    BY QueueWithout DEF ListInv, TypeInv
  <1>5. queue[h][k] = r /\ queue' = [queue EXCEPT ![h] = q] /\ q = RemoveAt(queue[h], k)
    BY <1>2
  <1> HIDE DEF q
  <1>6. \A i \in 1..Len(q) : state[q[i]] # "FREE"
    BY <1>4 DEF ListInv, Lists, Placed, InQueue
  <1>7. /\ (q # <<>> /\ state[q[1]] = "QUEUED") => n > 0
        /\ n > 0 => state[q[1]] = "QUEUED"
        /\ \/ n <= 1
           \/ \A i \in 1..n : IsIO(q[i])
           \/ \A i \in 1..n : IsReadOnly(q[i])
    BY <1>3, <1>4, <1>6, BatchFacts DEF ListInv, TypeInv, Lists
  <1>8. \A x \in Req : state'[x] = Woken(r, q, n)[x]
    <2>1. /\ ready_queue \in Seq(Req \cup ModeChange)
          /\ \A e \in Elem : e # r /\ state[e] = "READY" =>
               \E i \in DOMAIN ready_queue : ready_queue[i] = e
      BY DEF ListInv, TypeInv, TypeOK, ReadyLinked
    <2>2. \A e \in Elem \ ModeChange : state'[e] = Woken(r, q, n)[e]
      BY <1>3, <1>4, <2>1, WakeType DEF ListInv
    <2> QED
      BY <2>2, SchedulerAssumption DEF Elem
  <1>9. FreeReq(r) /\ granted' = granted \ {r} /\ bypassed' = bypassed
    BY DEF Release
  <1>10. Joins(ready_queue, q, n) /\ r \in granted
    BY <1>3, <1>4, WokenJoin DEF Release, ListInv, TypeInv, TypeOK
  <1>11. Departs(r, h, k, q, n)
    BY <1>3, <1>5, <1>7, <1>8, <1>9, <1>10 DEF Departs
  <1> QED
    BY <1>11

\* So does withdrawing a request that waits.
LEMMA UnpostStep ==
  ASSUME ListInv, NEW r \in Req, Unpost(r)
  PROVE  \E h \in Handle : \E k \in DOMAIN queue[h] : \E q, n : Departs(r, h, k, q, n)
  <1>1. PICK h \in Handle : \E k \in DOMAIN queue[h] :
          LET q == RemoveAt(queue[h], k)
          IN  /\ queue[h][k] = r
              /\ queue' = [queue EXCEPT ![h] = q]
              /\ \E n \in 0..Len(q) :
                   /\ UnpostBatch(q, n, state[r])
                   /\ ScheduleModeChange(Woken(r, q, n),
                                         Unlinked(r) \o SubSeq(q, 1, n),
                                         mode_queue, sched_count - 1)
    BY DEF Unpost
  <1>2. PICK k \in DOMAIN queue[h] :
          LET q == RemoveAt(queue[h], k)
          IN  /\ queue[h][k] = r
              /\ queue' = [queue EXCEPT ![h] = q]
              /\ \E n \in 0..Len(q) :
                   /\ UnpostBatch(q, n, state[r])
                   /\ ScheduleModeChange(Woken(r, q, n),
                                         Unlinked(r) \o SubSeq(q, 1, n),
                                         mode_queue, sched_count - 1)
    BY <1>1
  <1> DEFINE q == RemoveAt(queue[h], k)
  <1>3. PICK n \in 0..Len(q) :
          /\ UnpostBatch(q, n, state[r])
          /\ ScheduleModeChange(Woken(r, q, n), Unlinked(r) \o SubSeq(q, 1, n),
                                mode_queue, sched_count - 1)
    BY <1>2
  <1>4. /\ q \in Seq(Req)
        /\ \A i \in 1..Len(q) : \E j \in DOMAIN queue[h] : q[i] = queue[h][j]
        /\ k > 1 /\ q # <<>> => q[1] = queue[h][1]
    BY QueueWithout DEF ListInv, TypeInv
  <1>5. queue[h][k] = r /\ queue' = [queue EXCEPT ![h] = q] /\ q = RemoveAt(queue[h], k)
    BY <1>2
  <1> HIDE DEF q
  <1>6. \A i \in 1..Len(q) : state[q[i]] # "FREE"
    BY <1>4 DEF ListInv, Lists, Placed, InQueue
  <1>7. /\ (state[r] = "READY" /\ q # <<>> /\ state[q[1]] = "QUEUED") => n > 0
        /\ n > 0 => state[q[1]] = "QUEUED"
        /\ n <= 1 \/ \A i \in 1..n : IsIO(q[i])
    BY <1>3, <1>4, <1>6, BatchFacts DEF ListInv, TypeInv, Lists
  \* A request that still waits is not the head, so the head stays.
  <1>8. (q # <<>> /\ state[q[1]] = "QUEUED") => state[r] = "READY"
    <2> SUFFICES ASSUME q # <<>>, state[q[1]] = "QUEUED", state[r] = "QUEUED"
                 PROVE  FALSE
      BY DEF Unpost
    <2>1. queue[h] \in Seq(Req) /\ queue[h] # <<>>
      BY DEF ListInv, TypeInv, TypeOK
    <2>2. state[queue[h][1]] # "QUEUED"
      BY <2>1 DEF ListInv, Lists, HeadHasTurn
    <2>3. k > 1
      BY <1>5, <2>1, <2>2
    <2> QED
      BY <1>4, <2>2, <2>3
  <1>9. \A x \in Req : state'[x] = Woken(r, q, n)[x]
    <2>1. /\ Unlinked(r) \in Seq(Req \cup ModeChange)
          /\ \A e \in Elem : e # r /\ state[e] = "READY" =>
               \E i \in DOMAIN Unlinked(r) : Unlinked(r)[i] = e
      BY UnlinkedFacts, UnlinkedKeeps DEF ListInv, TypeInv
    <2>2. \A e \in Elem \ ModeChange : state'[e] = Woken(r, q, n)[e]
      BY <1>3, <1>4, <2>1, WakeType DEF ListInv
    <2> QED
      BY <2>2, SchedulerAssumption DEF Elem
  <1>10. FreeReq(r) /\ granted' = granted \ {r} /\ bypassed' = bypassed
    BY DEF Unpost
  <1>11. Joins(Unlinked(r), q, n) /\ r \notin granted /\ granted' = granted
    <2>1. Unlinked(r) \in Seq(Req \cup ModeChange)
      BY UnlinkedFacts DEF ListInv, TypeInv
    <2> QED
      BY <1>3, <1>4, <2>1, WokenJoin DEF Unpost, ListInv, TypeInv, TypeOK
  <1>12. Departs(r, h, k, q, n)
    BY <1>3, <1>5, <1>7, <1>8, <1>9, <1>10, <1>11 DEF Departs
  <1> QED
    BY <1>12

\* Releasing or withdrawing a mode change or a timer changes the state of no
\* request.
LEMMA ModeStepStates ==
  ASSUME TypeInv, NEW m \in ModeChange, ReleaseMode(m) \/ UnpostMode(m)
  PROVE  \A x \in Req : state'[x] = state[x]
  <1> DEFINE st == [state EXCEPT ![m] = "FREE"]
  <1>1. PICK k \in DOMAIN mode_queue, rq \in {ready_queue, Unlinked(m)} :
          ScheduleModeChange(st, rq, RemoveAt(mode_queue, k), sched_count)
    BY DEF ReleaseMode, UnpostMode
  <1>2. /\ RemoveAt(mode_queue, k) \in Seq(ModeChange)
        /\ rq \in Seq(Req \cup ModeChange)
    BY RemoveAtFacts, UnlinkedFacts DEF TypeInv, TypeOK
  <1>3. st \in [Elem -> State] /\ \A x \in Req : st[x] = state[x] /\ x \in Elem \ ModeChange
    BY SchedulerAssumption DEF TypeInv, TypeOK, Elem, State
  <1> HIDE DEF st
  <1>4. \A e \in Elem \ ModeChange : state'[e] = st[e]
    BY <1>1, <1>2, <1>3, ScheduleModeChangeFacts
  <1> QED
    BY <1>3, <1>4

\* The timer operations leave the requests as they are.
LEMMA TimerStepStates ==
  ASSUME TypeInv, NEW t \in Timer, UnpostTimer(t)
  PROVE  \A x \in Req : state'[x] = state[x]
  <1> DEFINE st == [state EXCEPT ![t] = "FREE"]
  <1>1. ScheduleModeChange(st, ready_queue, mode_queue, sched_count)
    BY DEF UnpostTimer
  <1>2. st \in [Elem -> State] /\ \A x \in Req : st[x] = state[x] /\ x \in Elem \ ModeChange
    BY SchedulerAssumption DEF TypeInv, TypeOK, Elem, State
  <1> HIDE DEF st
  <1>3. \A e \in Elem \ ModeChange : state'[e] = st[e]
    BY <1>1, <1>2, ScheduleModeChangeFacts DEF TypeInv, TypeOK
  <1> QED
    BY <1>2, <1>3

\* testworld lets the requests it takes off the ready queue run.
LEMMA TestWorldStates ==
  ASSUME TypeInv, ReadyIntact, TestWorld
  PROVE  \A x \in Req :
           /\ state'[x] = state[x] \/ (state[x] = "READY" /\ state'[x] = "SCHEDULED")
           /\ x \in granted' => x \in granted \/ state'[x] = "SCHEDULED"
  <1>1. PICK k \in 0..Len(timer_queue), n \in 0..Len(ready_queue) :
          LET Fired(e)  == \E i \in 1..k : timer_queue[i] = e
              Picked(e) == \E i \in 1..n : ready_queue[i] = e
          IN  /\ state' = [e \in Elem |-> IF Fired(e) THEN "FREE"
                                          ELSE IF Picked(e) THEN "SCHEDULED"
                                          ELSE state[e]]
              /\ granted' = granted \cup {e \in Elem : Picked(e)}
    BY DEF TestWorld
  <1>2. \A x \in Req : \A i \in 1..k : timer_queue[i] # x
    BY SchedulerAssumption DEF TypeInv, TypeOK
  <1>3. \A i \in 1..n : state[ready_queue[i]] = "READY"
    BY DEF ReadyIntact, TypeInv, TypeOK
  <1> QED
    BY <1>1, <1>2, <1>3 DEF Elem

\* The lists are empty at first.
LEMMA ListInit == Init => ListInv
  <1> SUFFICES ASSUME Init PROVE ListInv
    OBVIOUS
  <1>1. TypeInv
    BY TypeInit
  <1>2. \A h \in Handle : queue[h] = <<>> /\ DOMAIN queue[h] = {}
    BY DEF Init
  <1>3. Lists
    BY <1>2 DEF Init, Lists, ReqState, Placed, InQueue, NoBypass, HeadHasTurn,
                TurnsShared, Elem
  <1> QED
    BY <1>1, <1>3 DEF ListInv

\* Every step keeps the lists served.
LEMMA ListNext == ListInv /\ [Next]_vars => ListInv'
  <1> SUFFICES ASSUME ListInv, [Next]_vars PROVE ListInv'
    OBVIOUS
  <1>0. TypeInv'
    BY TypeNext DEF ListInv
  <1>1. ASSUME NEW r \in Req, NEW h \in Handle, NEW c \in Class,
               Post(r, h, c[1], c[2])
        PROVE  Lists'
    BY <1>0, <1>1, PostStep DEF TypeInv
  <1>2. ASSUME NEW r \in Req, Release(r) \/ Unpost(r)
        PROVE  Lists'
    BY <1>0, <1>2, ReleaseStep, UnpostStep, DepartStep DEF TypeInv
  <1>3. ASSUME NEW r \in Req, NEW c \in Class, PostBypass(r, c[1], c[2])
        PROVE  Lists'
    <2>1. queue' = queue /\ state' = state /\ granted' = granted
          /\ bypassed' = bypassed \cup {r} /\ state[r] = "FREE"
      BY <1>3 DEF PostBypass
    <2>2. \A x \in Req : state[x] # "FREE" =>
            op'[x] = op[x] /\ access_type'[x] = access_type[x]
      BY <1>3, <2>1 DEF PostBypass, ListInv, TypeInv, TypeOK
    <2>3. (\A x \in bypassed' : state[x] = "FREE")
          /\ \A x \in Req : state'[x] = "FREE" => x \notin granted'
      BY <2>1 DEF ListInv, Lists, ReqState
    <2> QED
      BY <1>0, <2>1, <2>2, <2>3, QuietStep DEF TypeInv
  <1>4. ASSUME NEW r \in Req, ReleaseBypass(r) PROVE Lists'
    <2>1. queue' = queue /\ state' = state /\ granted' = granted
          /\ bypassed' = bypassed \ {r} /\ state[r] = "FREE"
      BY <1>4 DEF ReleaseBypass, ListInv, Lists, ReqState
    <2>2. \A x \in Req : state[x] # "FREE" =>
            op'[x] = op[x] /\ access_type'[x] = access_type[x]
      BY <1>4, <2>1 DEF ReleaseBypass, ListInv, TypeInv, TypeOK
    <2>3. (\A x \in bypassed' : state[x] = "FREE")
          /\ \A x \in Req : state'[x] = "FREE" => x \notin granted'
      BY <2>1 DEF ListInv, Lists, ReqState
    <2> QED
      BY <1>0, <2>1, <2>2, <2>3, QuietStep DEF TypeInv
  <1>5. CASE ModeStep
    <2>1. queue' = queue /\ UNCHANGED <<op, access_type, bypassed>>
      BY <1>5 DEF ModeStep, ChangeMode, ReleaseMode, UnpostMode
    <2>2. \A x \in Req : state'[x] = state[x] /\ (x \in granted' <=> x \in granted)
      <3>1. ASSUME NEW m \in ModeChange, NEW md \in Mode, ChangeMode(m, md)
            PROVE  \A x \in Req : state'[x] = state[x] /\ (x \in granted' <=> x \in granted)
        BY <3>1, SchedulerAssumption DEF ChangeMode, ListInv, TypeInv, TypeOK, Elem
      <3>2. ASSUME NEW m \in ModeChange, ReleaseMode(m)
            PROVE  \A x \in Req : state'[x] = state[x] /\ (x \in granted' <=> x \in granted)
        BY <3>2, SchedulerAssumption, ModeStepStates DEF ReleaseMode, ListInv
      <3>3. ASSUME NEW m \in ModeChange, UnpostMode(m)
            PROVE  \A x \in Req : state'[x] = state[x] /\ (x \in granted' <=> x \in granted)
        BY <3>3, ModeStepStates DEF UnpostMode, ListInv
      <3> QED
        BY <1>5, <3>1, <3>2, <3>3 DEF ModeStep
    <2> QED
      BY <1>0, <2>1, <2>2, QuietStep DEF TypeInv, ListInv, Lists, ReqState
  <1>6. CASE TimerStep
    <2>1. queue' = queue /\ UNCHANGED <<op, access_type, bypassed, granted>>
      BY <1>6 DEF TimerStep, PostTimer, UnpostTimer, TestTimer, Tick
    <2>2. \A x \in Req : state'[x] = state[x]
      <3>1. ASSUME NEW t \in Timer, NEW d \in Delay, PostTimer(t, d)
            PROVE  \A x \in Req : state'[x] = state[x]
        BY <3>1, SchedulerAssumption DEF PostTimer, ListInv, TypeInv, TypeOK, Elem
      <3>2. ASSUME NEW t \in Timer, UnpostTimer(t)
            PROVE  \A x \in Req : state'[x] = state[x]
        BY <3>2, TimerStepStates DEF ListInv
      <3>3. ASSUME NEW t \in Timer, TestTimer(t)
            PROVE  \A x \in Req : state'[x] = state[x]
        BY <3>3, SchedulerAssumption DEF TestTimer, ListInv, TypeInv, TypeOK, Elem
      <3> QED
        BY <1>6, <3>1, <3>2, <3>3 DEF TimerStep, Tick
    <2> QED
      BY <1>0, <2>1, <2>2, QuietStep DEF TypeInv, ListInv, Lists, ReqState
  <1>7. CASE ReadyIntact /\ TestWorld
    <2>1. queue' = queue /\ UNCHANGED <<op, access_type, bypassed>>
      BY <1>7 DEF TestWorld
    <2>2. \A x \in Req :
            /\ state'[x] = state[x] \/ (state[x] = "READY" /\ state'[x] = "SCHEDULED")
            /\ x \in granted' => x \in granted \/ state'[x] = "SCHEDULED"
      BY <1>7, TestWorldStates DEF ListInv
    <2> QED
      BY <1>0, <2>1, <2>2, QuietStep DEF TypeInv, ListInv, Lists, ReqState
  <1>8. ASSUME NEW e \in Req \cup ModeChange, Test(e) PROVE Lists'
    <2>1. queue' = queue /\ UNCHANGED <<op, access_type, bypassed>>
      BY <1>8 DEF Test
    <2>2. \A x \in Req :
            /\ state'[x] = state[x] \/ (state[x] = "READY" /\ state'[x] = "SCHEDULED")
            /\ x \in granted' => x \in granted \/ state'[x] = "SCHEDULED"
      BY <1>8 DEF Test, ListInv, TypeInv, TypeOK, Elem
    <2> QED
      BY <1>0, <2>1, <2>2, QuietStep DEF TypeInv, ListInv, Lists, ReqState
  <1>9. CASE UNCHANGED vars
    BY <1>0, <1>9, QuietStep DEF vars, TypeInv, ListInv, Lists, ReqState
  <1> QED
    BY <1>0, <1>1, <1>2, <1>3, <1>4, <1>5, <1>6, <1>7, <1>8, <1>9
    DEF Next, ReqStep, ListInv

\* On every handle, requests get their turn in the order they arrived.
THEOREM NoBypassHolds == Spec => []NoBypass
  BY ListInit, ListNext, PTL DEF Spec, ListInv, Lists

\* The first request of every list has its turn.
THEOREM HeadHasTurnHolds == Spec => []HeadHasTurn
  BY ListInit, ListNext, PTL DEF Spec, ListInv, Lists

\* Requests that hold the turn on a handle together are ones the rules let
\* share it.
THEOREM TurnsSharedHolds == Spec => []TurnsShared
  BY ListInit, ListNext, PTL DEF Spec, ListInv, Lists

-----------------------------------------------------------------------------
(* The ready queue.  Its intrusive links are sound as long as nothing is   *)
(* freed while it is linked, and a request that runs is not.               *)

\* What is on the ready queue is READY, and what the caller was told to run
\* is SCHEDULED.
ReadyInv ==
  /\ \A k \in DOMAIN ready_queue :
       ready_queue[k] \in Req => state[ready_queue[k]] = "READY"
  /\ \A r \in Req : r \in granted => state[r] = "SCHEDULED"

\* Unlinking an element of an intact ready queue takes it off the queue.
LEMMA UnlinkedGone ==
  ASSUME TypeInv, ReadyIntact, NEW e \in Req \cup ModeChange
  PROVE  \A i \in DOMAIN Unlinked(e) :
           /\ state[Unlinked(e)[i]] = "READY" /\ Unlinked(e)[i] # e
           /\ \E j \in DOMAIN ready_queue : ready_queue[j] = Unlinked(e)[i]
  <1>1. CASE state[e] = "READY"
    <2>1. PICK k \in DOMAIN ready_queue :
            ready_queue[k] = e /\ Unlinked(e) = RemoveAt(ready_queue, k)
      BY <1>1, UnlinkedFacts DEF TypeInv
    <2> DEFINE u == Unlinked(e)
    <2>2. /\ u \in Seq(Req \cup ModeChange)
          /\ Len(u) = Len(ready_queue) - 1
          /\ \A i \in 1..Len(ready_queue) - 1 :
               u[i] = IF i < k THEN ready_queue[i] ELSE ready_queue[i + 1]
      BY <2>1, RemoveAtFacts DEF TypeInv, TypeOK
    <2> HIDE DEF u
    <2>3. ASSUME NEW i \in DOMAIN u
          PROVE  \E j \in DOMAIN ready_queue : j # k /\ ready_queue[j] = u[i]
      <3>1. /\ ready_queue \in Seq(Req \cup ModeChange)
            /\ i \in 1..Len(ready_queue) - 1 /\ k \in 1..Len(ready_queue)
        BY <2>2, <2>3 DEF TypeInv, TypeOK
      <3>2. CASE i < k
        BY <2>2, <3>1, <3>2
      <3>3. CASE ~ (i < k)
        <4>1. i + 1 \in DOMAIN ready_queue /\ i + 1 # k
          BY <3>1, <3>3
        <4> QED
          BY <2>2, <3>1, <3>3, <4>1
      <3> QED
        BY <3>2, <3>3
    <2>4. \A i \in DOMAIN u :
            /\ state[u[i]] = "READY" /\ u[i] # e
            /\ \E j \in DOMAIN ready_queue : ready_queue[j] = u[i]
      BY <2>1, <2>3 DEF ReadyIntact
    <2> QED
      BY <2>4 DEF u
  <1>2. CASE state[e] # "READY"
    BY <1>2, UnlinkedFacts DEF ReadyIntact, TypeInv
  <1> QED
    BY <1>1, <1>2

\* A request that leaves its list leaves the ready queue, and those it wakes
\* had been waiting.
LEMMA ReadyDepart ==
  ASSUME ListInv, ListInv', ReadyInv, ReadyIntact, NEW r \in Req,
         NEW h \in Handle, NEW k \in DOMAIN queue[h], NEW q, NEW n,
         Departs(r, h, k, q, n)
  PROVE  ReadyInv'
  <1>1. /\ q \in Seq(Req) /\ n \in 0..Len(q) /\ queue' = [queue EXCEPT ![h] = q]
        /\ \A x \in Req : state'[x] = Woken(r, q, n)[x]
        /\ granted' = granted \ {r}
        /\ n > 0 => state[q[1]] = "QUEUED"
    BY QueueWithout DEF Departs, ListInv, TypeInv
  <1>2. queue'[h] = q /\ queue' \in [Handle -> Seq(Req)]
    BY <1>1 DEF ListInv, TypeInv, TypeOK
  <1>3. \A x \in Req : x \in Elem
    BY DEF Elem
  <1>4. \A i \in 1..Len(q) : q[i] \in Req /\ q[i] # r
    <2> SUFFICES ASSUME NEW i \in 1..Len(q) PROVE q[i] \in Req /\ q[i] # r
      OBVIOUS
    <2>1. q[i] \in Req /\ i \in DOMAIN queue'[h] /\ queue'[h][i] = q[i]
      BY <1>1, <1>2
    <2>2. state'[q[i]] # "FREE"
      BY <2>1 DEF ListInv, Lists, Placed, InQueue
    <2> QED
      BY <1>1, <1>3, <2>1, <2>2 DEF Woken
  <1>5. \A x \in Req : state'[x] = IF x = r THEN "FREE"
                                   ELSE IF \E i \in 1..n : q[i] = x THEN "READY"
                                   ELSE state[x]
    BY <1>1, <1>3 DEF Woken
  <1>6. \A i \in 1..n : state[q[i]] = "QUEUED"
    <2> SUFFICES ASSUME NEW i \in 1..n PROVE state[q[i]] = "QUEUED"
      OBVIOUS
    <2>1. queue[h] \in Seq(Req) /\ q = RemoveAt(queue[h], k)
      BY DEF Departs, ListInv, TypeInv, TypeOK
    <2>2. /\ Len(q) = Len(queue[h]) - 1
          /\ \A j \in 1..Len(queue[h]) - 1 :
               q[j] = IF j < k THEN queue[h][j] ELSE queue[h][j + 1]
      BY <2>1, RemoveAtFacts
    <2>3. i \in 1..Len(queue[h]) - 1 /\ 1 \in 1..Len(queue[h]) - 1 /\ k \in 1..Len(queue[h])
      BY <1>1, <2>1, <2>2
    <2> DEFINE a == IF 1 < k THEN 1 ELSE 2
               b == IF i < k THEN i ELSE i + 1
    <2>4. a \in DOMAIN queue[h] /\ b \in DOMAIN queue[h] /\ (a = b \/ a < b)
      BY <2>1, <2>3
    <2>5. q[1] = queue[h][a] /\ q[i] = queue[h][b] /\ state[q[1]] = "QUEUED"
      <3>1. /\ q[1] = IF 1 < k THEN queue[h][1] ELSE queue[h][1 + 1]
            /\ q[i] = IF i < k THEN queue[h][i] ELSE queue[h][i + 1]
        BY <2>2, <2>3
      <3>2. n > 0 /\ 1 + 1 = 2
        BY <1>1
      <3> QED
        BY <1>1, <3>1, <3>2
    <2> HIDE DEF a, b
    <2> QED
      BY <2>4, <2>5 DEF ListInv, Lists, NoBypass
  <1>7. ASSUME NEW x \in Req, x \in granted' PROVE state'[x] = "SCHEDULED"
    BY <1>1, <1>5, <1>6, <1>7 DEF ReadyInv
  <1>8. ASSUME NEW i \in DOMAIN ready_queue', ready_queue'[i] \in Req
        PROVE  state'[ready_queue'[i]] = "READY"
    <2>1. CASE \E j \in 1..n : q[j] = ready_queue'[i]
      BY <1>1, <1>4, <1>5, <1>8, <2>1
    <2>2. CASE r \in granted /\ \E j \in DOMAIN ready_queue : ready_queue[j] = ready_queue'[i]
      BY <1>5, <1>8, <2>2 DEF ReadyInv
    <2>3. CASE \E j \in DOMAIN Unlinked(r) : Unlinked(r)[j] = ready_queue'[i]
      BY <1>5, <1>8, <2>3, UnlinkedGone DEF ListInv
    <2>4. ready_queue'[i] \notin ModeChange
      BY <1>8, SchedulerAssumption
    <2> QED
      BY <1>8, <2>1, <2>2, <2>3, <2>4 DEF Departs, Joins
  <1> QED
    BY <1>7, <1>8 DEF ReadyInv

\* A step that adds no request to the ready queue, and takes off those it
\* lets run.
LEMMA ReadyNarrows ==
  ASSUME ReadyInv,
         \A i \in DOMAIN ready_queue' : ready_queue'[i] \in Req =>
           /\ \E j \in DOMAIN ready_queue : ready_queue[j] = ready_queue'[i]
           /\ state'[ready_queue'[i]] = state[ready_queue'[i]],
         \A r \in Req : r \in granted' =>
           state'[r] = "SCHEDULED" \/ (r \in granted /\ state'[r] = state[r])
  PROVE  ReadyInv'
  BY DEF ReadyInv

\* A mode change or a timer that goes adds no request to the ready queue.
LEMMA ReadyKept ==
  ASSUME NEW st, NEW rq \in Seq(Req \cup ModeChange), NEW mq \in Seq(ModeChange),
         NEW count, ScheduleModeChange(st, rq, mq, count)
  PROVE  \A i \in DOMAIN ready_queue' : ready_queue'[i] \in Req =>
           \E j \in DOMAIN rq : rq[j] = ready_queue'[i]
  <1>1. CASE ready_queue' = rq
    BY <1>1
  <1>2. CASE mq # <<>> /\ ready_queue' = Append(rq, Head(mq))
    <2>1. Head(mq) \in ModeChange /\ Head(mq) \notin Req
      BY <1>2, SchedulerAssumption
    <2> QED
      BY <1>2, <2>1
  <1> QED
    BY <1>1, <1>2 DEF ScheduleModeChange

\* testworld takes a run off the head of the ready queue and lets it go.
LEMMA ReadyTestWorld ==
  ASSUME ListInv, ReadyInv, ReadyIntact, TestWorld
  PROVE  ReadyInv'
  <1>1. PICK k \in 0..Len(timer_queue), n \in 0..Len(ready_queue) :
          LET Fired(e)  == \E i \in 1..k : timer_queue[i] = e
              Picked(e) == \E i \in 1..n : ready_queue[i] = e
          IN  /\ ready_queue' = SubSeq(ready_queue, n + 1, Len(ready_queue))
              /\ state' = [e \in Elem |-> IF Fired(e) THEN "FREE"
                                          ELSE IF Picked(e) THEN "SCHEDULED"
                                          ELSE state[e]]
              /\ granted' = granted \cup {e \in Elem : Picked(e)}
    BY DEF TestWorld
  <1>2. /\ ready_queue \in Seq(Req \cup ModeChange)
        /\ Len(ready_queue') = Len(ready_queue) - n
        /\ DOMAIN ready_queue' = 1..Len(ready_queue) - n
        /\ \A i \in 1..Len(ready_queue) - n : ready_queue'[i] = ready_queue[n + i]
    BY <1>1 DEF ListInv, TypeInv, TypeOK
  <1>3. \A x \in Req : x \in Elem /\ \A i \in 1..k : timer_queue[i] # x
    BY SchedulerAssumption DEF ListInv, TypeInv, TypeOK, Elem
  <1>4. ASSUME NEW i \in DOMAIN ready_queue', ready_queue'[i] \in Req
        PROVE  /\ \E j \in DOMAIN ready_queue : ready_queue[j] = ready_queue'[i]
               /\ state'[ready_queue'[i]] = state[ready_queue'[i]]
    <2>1. n + i \in DOMAIN ready_queue /\ ready_queue'[i] = ready_queue[n + i] /\ n + i > n
      BY <1>2, <1>4
    <2>2. \A j \in 1..n : ready_queue[j] # ready_queue[n + i]
      BY <1>2, <2>1 DEF ReadyIntact
    <2> QED
      BY <1>1, <1>3, <1>4, <2>1, <2>2
  <1>5. ASSUME NEW r \in Req, r \in granted'
        PROVE  state'[r] = "SCHEDULED" \/ (r \in granted /\ state'[r] = state[r])
    BY <1>1, <1>3, <1>5
  <1> QED
    BY <1>4, <1>5, ReadyNarrows

\* Every step keeps the ready queue to the requests that are READY.
LEMMA ReadyNext == ListInv /\ ReadyInv /\ [Next]_vars => ReadyInv'
  <1> SUFFICES ASSUME ListInv, ReadyInv, [Next]_vars PROVE ReadyInv'
    OBVIOUS
  <1>0. ListInv' /\ TypeInv /\ TypeOK
    BY ListNext DEF ListInv, TypeInv
  <1>1. ASSUME NEW r \in Req, NEW h \in Handle, NEW c \in Class,
               Post(r, h, c[1], c[2])
        PROVE  ReadyInv'
    <2>1. /\ ready_queue' = ready_queue /\ state[r] = "FREE"
          /\ \A x \in Req : x # r => state'[x] = state[x]
          /\ granted' \in {granted, granted \cup {r}}
          /\ r \in granted' => r \in granted \/ state'[r] = "SCHEDULED"
      BY <1>0, <1>1 DEF Post, TypeOK, Elem
    <2>2. r \notin granted
      BY <2>1 DEF ReadyInv
    <2> QED
      BY <2>1, <2>2, ReadyNarrows DEF ReadyInv
  <1>2. ASSUME NEW r \in Req, ReadyIntact, Release(r) \/ Unpost(r)
        PROVE  ReadyInv'
    <2>1. PICK h \in Handle : \E k \in DOMAIN queue[h] : \E q, n : Departs(r, h, k, q, n)
      BY <1>2, ReleaseStep, UnpostStep
    <2> QED
      BY <1>0, <1>2, <2>1, ReadyDepart
  <1>3. ASSUME NEW r \in Req,
               ReleaseBypass(r) \/ \E c \in Class : PostBypass(r, c[1], c[2])
        PROVE  ReadyInv'
    <2>1. UNCHANGED <<ready_queue, state, granted>>
      BY <1>3 DEF PostBypass, ReleaseBypass
    <2> QED
      BY <2>1 DEF ReadyInv
  <1>4. ASSUME NEW m \in ModeChange, NEW md \in Mode, ChangeMode(m, md)
        PROVE  ReadyInv'
    <2>1. /\ ready_queue' = ready_queue
          /\ \A x \in Req : state'[x] = state[x] /\ (x \in granted' <=> x \in granted)
      BY <1>0, <1>4, SchedulerAssumption DEF ChangeMode, TypeOK, Elem
    <2> QED
      BY <2>1 DEF ReadyInv
  <1>5. ASSUME NEW m \in ModeChange, ReadyIntact, ReleaseMode(m) \/ UnpostMode(m)
        PROVE  ReadyInv'
    <2>1. PICK k \in DOMAIN mode_queue, rq \in {ready_queue, Unlinked(m)} :
            ScheduleModeChange([state EXCEPT ![m] = "FREE"], rq,
                               RemoveAt(mode_queue, k), sched_count)
      BY <1>5 DEF ReleaseMode, UnpostMode
    <2>2. /\ RemoveAt(mode_queue, k) \in Seq(ModeChange)
          /\ rq \in Seq(Req \cup ModeChange)
      BY <1>0, RemoveAtFacts, UnlinkedFacts DEF TypeInv, TypeOK
    <2>3. \A i \in DOMAIN ready_queue' : ready_queue'[i] \in Req =>
            \E j \in DOMAIN rq : rq[j] = ready_queue'[i]
      BY <2>1, <2>2, ReadyKept
    <2>4. \A i \in DOMAIN rq : \E j \in DOMAIN ready_queue : ready_queue[j] = rq[i]
      BY <1>0, <1>5, <2>1, UnlinkedGone
    <2>5. \A x \in Req : state'[x] = state[x] /\ (x \in granted' => x \in granted)
      BY <1>0, <1>5, ModeStepStates DEF ReleaseMode, UnpostMode
    <2> QED
      BY <2>3, <2>4, <2>5, ReadyNarrows
  <1>6. CASE TimerStep
    <2>1. ASSUME NEW t \in Timer, NEW d \in Delay, PostTimer(t, d) PROVE ReadyInv'
      <3>1. /\ ready_queue' = ready_queue /\ granted' = granted
            /\ \A x \in Req : state'[x] = state[x]
        BY <1>0, <2>1, SchedulerAssumption DEF PostTimer, TypeOK, Elem
      <3> QED
        BY <3>1 DEF ReadyInv
    <2>2. ASSUME NEW t \in Timer, UnpostTimer(t) PROVE ReadyInv'
      <3>1. /\ ScheduleModeChange([state EXCEPT ![t] = "FREE"], ready_queue, mode_queue,
                                  sched_count)
            /\ granted' = granted
        BY <2>2 DEF UnpostTimer
      <3>2. \A i \in DOMAIN ready_queue' : ready_queue'[i] \in Req =>
              \E j \in DOMAIN ready_queue : ready_queue[j] = ready_queue'[i]
        BY <1>0, <3>1, ReadyKept DEF TypeOK
      <3>3. \A x \in Req : state'[x] = state[x]
        BY <1>0, <2>2, TimerStepStates
      <3> QED
        BY <3>1, <3>2, <3>3, ReadyNarrows
    <2>3. ASSUME NEW t \in Timer, TestTimer(t) PROVE ReadyInv'
      <3>1. /\ ready_queue' = ready_queue /\ granted' = granted
            /\ \A x \in Req : state'[x] = state[x]
        BY <1>0, <2>3, SchedulerAssumption DEF TestTimer, TypeOK, Elem
      <3> QED
        BY <3>1 DEF ReadyInv
    <2>4. CASE Tick
      BY <2>4 DEF Tick, ReadyInv
    <2> QED
      BY <1>6, <2>1, <2>2, <2>3, <2>4 DEF TimerStep
  <1>7. CASE ReadyIntact /\ TestWorld
    BY <1>7, ReadyTestWorld
  <1>8. ASSUME NEW e \in Req \cup ModeChange, ReadyIntact, Test(e) PROVE ReadyInv'
    <2>1. /\ ready_queue' = Unlinked(e) /\ granted' = granted \cup {e}
          /\ state' = [state EXCEPT ![e] = "SCHEDULED"]
      BY <1>8 DEF Test
    <2>2. \A x \in Req : /\ x # e => state'[x] = state[x]
                         /\ x = e => state'[x] = "SCHEDULED"
      BY <1>0, <2>1 DEF TypeOK, Elem
    <2> QED
      BY <1>0, <1>8, <2>1, <2>2, UnlinkedGone, ReadyNarrows
  <1>9. CASE UNCHANGED vars
    BY <1>9 DEF vars, ReadyInv
  <1> QED
    BY <1>1, <1>2, <1>3, <1>4, <1>5, <1>6, <1>7, <1>8, <1>9 DEF Next, ReqStep, ModeStep

\* A request is in one place of one handle list exactly while it is
\* allocated, and on the ready queue exactly while it is READY, whatever
\* posts, releases, withdrawals, mode changes and timers came before: no
\* wakeup of PINT_req_sched_release is lost, and no link outlives its element.
THEOREM LinkedHolds == Spec => []Linked
  <1>1. Init => ReadyInv
    BY DEF Init, ReadyInv
  <1>2. ListInv /\ ReadyInv => Linked
    <2> SUFFICES ASSUME ListInv, ReadyInv PROVE Linked
      OBVIOUS
    <2>1. \A r \in Req : state[r] = "READY" <=>
            \E k \in DOMAIN ready_queue : ready_queue[k] = r
      BY DEF ListInv, TypeInv, ReadyLinked, ReadyInv, Elem
    <2> QED
      BY <2>1 DEF Linked, ListInv, Lists, Placed
  <1> QED
    BY <1>1, <1>2, ListInit, ListNext, ReadyNext, PTL DEF Spec

-----------------------------------------------------------------------------
(* The scheduler implements HandleAccess.                                  *)

\* The invariants say that every line is served as HandleAccess wants it.
LEMMA LinesServed ==
  ASSUME ListInv', NEW h \in Handle
  PROVE  HA!Served(queue'[h], Turn', Claim')
  <1> DEFINE q == queue'[h]
  <1>1. /\ q \in Seq(Req)
        /\ \A k \in DOMAIN q : q[k] \in Req
    BY DEF ListInv, TypeInv, TypeOK
  <1>2. ASSUME NEW k \in DOMAIN q
        PROVE  /\ q[k] \in Turn' <=> state'[q[k]] # "QUEUED"
               /\ Claim'[q[k]] = <<op'[q[k]], access_type'[q[k]]>>
    <2>1. state'[q[k]] \in {"QUEUED", "READY", "SCHEDULED"}
      BY <1>1 DEF ListInv, Lists, ReqState, Placed, InQueue
    <2> QED
      BY <1>1, <2>1 DEF Turn, Claim
  <1>3. q # <<>> => q[1] \in Turn'
    <2>1. q # <<>> => 1 \in DOMAIN q
      BY <1>1
    <2> QED
      BY <1>2, <2>1 DEF ListInv, Lists, HeadHasTurn
  <1>4. ASSUME NEW j \in DOMAIN q, NEW k \in DOMAIN q, j < k, q[k] \in Turn'
        PROVE  /\ q[j] \in Turn'
               /\ Claim'[q[k]][1] # "DIRENT" => HA!Shares(Claim'[q[j]], Claim'[q[k]])
    <2>1. q[j] \in Turn'
      BY <1>2, <1>4 DEF ListInv, Lists, NoBypass
    <2>2. Beside(queue[h][j], queue[h][k])'
      BY <1>2, <1>4 DEF ListInv, Lists, TurnsShared, Beside
    <2>3. Claim'[q[k]][1] # "DIRENT" => HA!Shares(Claim'[q[j]], Claim'[q[k]])
      <3>1. /\ Claim'[q[j]] = <<op'[q[j]], access_type'[q[j]]>>
            /\ Claim'[q[k]] = <<op'[q[k]], access_type'[q[k]]>>
        BY <1>2
      <3>2. /\ Claim'[q[j]][1] = op'[q[j]] /\ Claim'[q[j]][2] = access_type'[q[j]]
            /\ Claim'[q[k]][1] = op'[q[k]] /\ Claim'[q[k]][2] = access_type'[q[k]]
        BY <3>1
      <3> QED
        BY <2>2, <3>2 DEF HA!Shares, Beside, Together
    <2> QED
      BY <2>1, <2>3
  <1> QED
    BY <1>3, <1>4 DEF HA!Served

\* Posting is arriving in line.
LEMMA PostArrives ==
  ASSUME ListInv, ListInv', NEW r \in Req, NEW h \in Handle, NEW c \in Class,
         Post(r, h, c[1], c[2])
  PROVE  HA!ANext
  <1> DEFINE d == <<op'[r], access_type'[r]>>
  <1>1. /\ queue' = [queue EXCEPT ![h] = Append(@, r)]
        /\ state[r] = "FREE"
        /\ \A x \in Req : x # r => state'[x] = state[x] /\ op'[x] = op[x]
                                   /\ access_type'[x] = access_type[x]
        /\ state'[r] \in {"SCHEDULED", "QUEUED"}
    BY DEF Post, ListInv, TypeInv, TypeOK, Elem
  <1>2. d \in Op \X AccessType
    BY <1>1 DEF ListInv, Lists, ReqState
  <1>3. HA!Absent(r)
    BY <1>1 DEF HA!Absent, ListInv, Lists, Placed, InQueue
  <1>4. Claim' = [Claim EXCEPT ![r] = d]
    BY <1>1 DEF Claim
  <1>5. Turn' \in {Turn, Turn \cup {r}}
    <2>1. CASE state'[r] = "SCHEDULED"
      BY <1>1, <2>1 DEF Turn
    <2>2. CASE state'[r] = "QUEUED"
      BY <1>1, <2>2 DEF Turn
    <2> QED
      BY <1>1, <2>1, <2>2
  <1>6. HA!Served(queue'[h], Turn', Claim')
    BY LinesServed
  <1>7. HA!Arrive(r, h, d)
    BY <1>1, <1>3, <1>4, <1>5, <1>6 DEF HA!Arrive
  <1> QED
    BY <1>2, <1>7 DEF HA!ANext

\* Releasing and withdrawing are leaving the line.
LEMMA DepartDeparts ==
  ASSUME ListInv, ListInv', NEW r \in Req, Release(r) \/ Unpost(r)
  PROVE  HA!ANext
  <1>1. PICK h \in Handle : \E k \in DOMAIN queue[h] : \E q, n : Departs(r, h, k, q, n)
    BY ReleaseStep, UnpostStep
  <1>2. PICK k \in DOMAIN queue[h] : \E q, n : Departs(r, h, k, q, n)
    BY <1>1
  <1>3. PICK q, n : Departs(r, h, k, q, n)
    BY <1>2
  <1>4. /\ queue[h][k] = r
        /\ queue' = [queue EXCEPT ![h] = RemoveAt(queue[h], k)]
        /\ queue'[h] = q /\ q \in Seq(Req) /\ n \in 0..Len(q)
        /\ \A x \in Req : state'[x] = Woken(r, q, n)[x]
        /\ \A x \in Req : x # r =>
             op'[x] = op[x] /\ access_type'[x] = access_type[x]
    BY <1>3, QueueWithout DEF Departs, FreeReq, ListInv, TypeInv, TypeOK
  <1>5. state'[r] = "FREE"
        /\ \A x \in Req : x # r => state'[x] =
             IF \E i \in 1..n : q[i] = x THEN "READY" ELSE state[x]
    BY <1>4 DEF Woken, Elem
  <1>6. \A x \in Req : x # r => (state'[x] = "FREE" <=> state[x] = "FREE")
    <2> SUFFICES ASSUME NEW x \in Req, x # r, NEW i \in 1..n, q[i] = x
                 PROVE  state[x] # "FREE"
      BY <1>5
    <2>1. \E j \in DOMAIN queue[h] : queue[h][j] = x
      BY <1>3, <1>4, QueueWithout DEF Departs, ListInv, TypeInv
    <2> QED
      BY <2>1 DEF ListInv, Lists, Placed, InQueue
  <1>7. Claim' = [Claim EXCEPT ![r] = <<"NONE", "NONE">>]
    <2>1. \A x \in Req : x # r => Claim'[x] = Claim[x]
      BY <1>4, <1>6 DEF Claim
    <2>2. Claim'[r] = <<"NONE", "NONE">>
      BY <1>5 DEF Claim
    <2>3. /\ Claim = [x \in Req |-> Claim[x]]
          /\ Claim' = [x \in Req |-> Claim'[x]]
      BY DEF Claim
    <2> QED
      BY <2>1, <2>2, <2>3
  <1>8. /\ Turn \ {r} \subseteq Turn'
        /\ Turn' \subseteq (Turn \ {r}) \cup ToSet(queue'[h])
    BY <1>4, <1>5 DEF Turn, ToSet
  <1>9. HA!Served(queue'[h], Turn', Claim')
    BY LinesServed
  <1>10. HA!Depart(r, h)
    BY <1>4, <1>7, <1>8, <1>9 DEF HA!Depart, HA!RemoveAt, RemoveAt, HA!ToSet, ToSet
  <1> QED
    BY <1>10 DEF HA!ANext

\* Every step of the scheduler is a step of HandleAccess or leaves the lines,
\* the turns and the claims as they are.
LEMMA StepSimulation ==
  ASSUME ListInv, ListInv', [Next]_vars
  PROVE  [HA!ANext]_(HA!avars)
  <1> DEFINE Same == /\ queue' = queue
                     /\ \A x \in Req :
                          /\ state'[x] = state[x] \/
                             (state[x] = "READY" /\ state'[x] = "SCHEDULED")
                          /\ state[x] # "FREE" =>
                               op'[x] = op[x] /\ access_type'[x] = access_type[x]
  <1>1. Same => UNCHANGED HA!avars
    <2> SUFFICES ASSUME Same PROVE UNCHANGED HA!avars
      OBVIOUS
    <2>1. Turn' = Turn
      BY DEF Turn
    <2>2. Claim' = Claim
      <3>1. \A x \in Req : Claim'[x] = Claim[x]
        BY DEF Claim
      <3>2. Claim = [x \in Req |-> Claim[x]] /\ Claim' = [x \in Req |-> Claim'[x]]
        BY DEF Claim
      <3> QED
        BY <3>1, <3>2
    <2> QED
      BY <2>1, <2>2 DEF HA!avars
  <1>2. CASE UNCHANGED vars
    <2>1. Same
      BY <1>2 DEF vars
    <2> QED
      BY <1>1, <2>1
  <1>3. ASSUME NEW r \in Req, NEW h \in Handle, NEW c \in Class,
               Post(r, h, c[1], c[2])
        PROVE  HA!ANext
    BY <1>3, PostArrives
  <1>4. ASSUME NEW r \in Req, Release(r) \/ Unpost(r) PROVE HA!ANext
    BY <1>4, DepartDeparts
  <1>5. ASSUME NEW r \in Req, NEW c \in Class, PostBypass(r, c[1], c[2])
        PROVE  Same
    BY <1>5 DEF PostBypass, ListInv, TypeInv, TypeOK
  <1>6. ASSUME NEW r \in Req, ReleaseBypass(r) PROVE Same
    BY <1>6 DEF ReleaseBypass, ListInv, TypeInv, TypeOK, Lists, ReqState
  <1>7. ASSUME ModeStep PROVE Same
    <2>1. queue' = queue /\ UNCHANGED <<op, access_type>>
      BY <1>7 DEF ModeStep, ChangeMode, ReleaseMode, UnpostMode
    <2>2. \A x \in Req : state'[x] = state[x]
      <3>1. ASSUME NEW m \in ModeChange, NEW md \in Mode, ChangeMode(m, md)
            PROVE  \A x \in Req : state'[x] = state[x]
        BY <3>1, SchedulerAssumption DEF ChangeMode, ListInv, TypeInv, TypeOK, Elem
      <3> QED
        BY <1>7, <3>1, ModeStepStates DEF ModeStep, ListInv
    <2> QED
      BY <2>1, <2>2
  <1>8. ASSUME TimerStep PROVE Same
    <2>1. queue' = queue /\ UNCHANGED <<op, access_type>>
      BY <1>8 DEF TimerStep, PostTimer, UnpostTimer, TestTimer, Tick
    <2>2. \A x \in Req : state'[x] = state[x]
      <3>1. ASSUME NEW t \in Timer, NEW d \in Delay, PostTimer(t, d)
            PROVE  \A x \in Req : state'[x] = state[x]
        BY <3>1, SchedulerAssumption DEF PostTimer, ListInv, TypeInv, TypeOK, Elem
      <3>2. ASSUME NEW t \in Timer, TestTimer(t)
            PROVE  \A x \in Req : state'[x] = state[x]
        BY <3>2, SchedulerAssumption DEF TestTimer, ListInv, TypeInv, TypeOK, Elem
      <3> QED
        BY <1>8, <3>1, <3>2, TimerStepStates DEF TimerStep, Tick, ListInv
    <2> QED
      BY <2>1, <2>2
  <1>9. ASSUME ReadyIntact, TestWorld PROVE Same
    BY <1>9, TestWorldStates DEF TestWorld, ListInv
  <1>10. ASSUME NEW e \in Req \cup ModeChange, Test(e) PROVE Same
    BY <1>10 DEF Test, ListInv, TypeInv, TypeOK, Elem
  <1> QED
    BY <1>1, <1>2, <1>3, <1>4, <1>5, <1>6, <1>7, <1>8, <1>9, <1>10 DEF Next, ReqStep

\* The scheduler, whatever its users do in whatever order, is a HandleAccess.
THEOREM Refinement == Spec => ImplementsHandleAccess
  <1>1. Init => HA!AInit
    BY DEF Init, HA!AInit, Turn, Claim, Elem
  <1>2. ListInv /\ ListInv' /\ [Next]_vars => [HA!ANext]_(HA!avars)
    BY StepSimulation
  <1> QED
    BY <1>1, <1>2, ListInit, ListNext, PTL DEF Spec, ImplementsHandleAccess, HA!ASpec

-----------------------------------------------------------------------------
(* The mode of the server: sched_count counts the requests the scheduler    *)
(* holds, and admin mode is entered only without modifying ones; and the   *)
(* timers.                                                                 *)

Live == {r \in Req : state[r] # "FREE"}

CountInv ==
  /\ ListInv
  /\ IsFiniteSet(Live)
  /\ sched_count = Cardinality(Live)

\* A release or an unpost takes one request out of Live.
LEMMA DepartLive ==
  ASSUME ListInv, NEW r \in Req, Release(r) \/ Unpost(r)
  PROVE  r \in Live /\ Live' = Live \ {r} /\ sched_count' = sched_count - 1
  <1>1. sched_count' = sched_count - 1
    BY DEF Release, Unpost
  <1>2. PICK h \in Handle : \E k \in DOMAIN queue[h] : \E q, n : Departs(r, h, k, q, n)
    BY ReleaseStep, UnpostStep
  <1>3. PICK k \in DOMAIN queue[h] : \E q, n : Departs(r, h, k, q, n)
    BY <1>2
  <1>4. PICK q, n : Departs(r, h, k, q, n)
    BY <1>3
  <1>5. r \in Live
    BY <1>4 DEF Departs, Live, ListInv, Lists, Placed, InQueue
  <1>6. q \in Seq(Req) /\ \A i \in 1..Len(q) : q[i] \in Live
    BY <1>4, QueueWithout DEF Departs, Live, ListInv, TypeInv, Lists, Placed, InQueue
  <1>7. /\ n \in 0..Len(q)
        /\ state'[r] = "FREE"
        /\ \A x \in Req : x # r => state'[x] =
             IF \E i \in 1..n : q[i] = x THEN "READY" ELSE state[x]
    BY <1>4 DEF Departs, Woken, Elem
  <1>8. Live' = Live \ {r}
    BY <1>6, <1>7 DEF Live
  <1> QED
    BY <1>1, <1>5, <1>8

\* The steps of mode changes, timers and tests leave it alone.
LEMMA OtherLive ==
  ASSUME ListInv,
         \/ ModeStep \/ TimerStep \/ (ReadyIntact /\ TestWorld)
         \/ \E e \in Req \cup ModeChange : Test(e)
  PROVE  Live' = Live /\ sched_count' = sched_count
  <1>1. ASSUME \A x \in Req : state'[x] = state[x] \/
                              (state[x] = "READY" /\ state'[x] = "SCHEDULED")
        PROVE  Live' = Live
    BY <1>1 DEF Live
  <1>2. ASSUME ModeStep PROVE Live' = Live /\ sched_count' = sched_count
    <2>1. ASSUME NEW m \in ModeChange, NEW md \in Mode, ChangeMode(m, md)
          PROVE  \A x \in Req : state'[x] = state[x]
      BY <2>1, SchedulerAssumption DEF ChangeMode, ListInv, TypeInv, TypeOK, Elem
    <2>2. \A x \in Req : state'[x] = state[x]
      BY <1>2, <2>1, ModeStepStates DEF ModeStep, ListInv
    <2>3. sched_count' = sched_count
      BY <1>2 DEF ModeStep, ChangeMode, ReleaseMode, UnpostMode
    <2> QED
      BY <1>1, <2>2, <2>3
  <1>3. ASSUME TimerStep PROVE Live' = Live /\ sched_count' = sched_count
    <2>1. ASSUME NEW t \in Timer, NEW d \in Delay, PostTimer(t, d)
          PROVE  \A x \in Req : state'[x] = state[x]
      BY <2>1, SchedulerAssumption DEF PostTimer, ListInv, TypeInv, TypeOK, Elem
    <2>2. ASSUME NEW t \in Timer, TestTimer(t)
          PROVE  \A x \in Req : state'[x] = state[x]
      BY <2>2, SchedulerAssumption DEF TestTimer, ListInv, TypeInv, TypeOK, Elem
    <2>3. \A x \in Req : state'[x] = state[x]
      BY <1>3, <2>1, <2>2, TimerStepStates DEF TimerStep, Tick, ListInv
    <2>4. sched_count' = sched_count
      BY <1>3 DEF TimerStep, PostTimer, UnpostTimer, TestTimer, Tick
    <2> QED
      BY <1>1, <2>3, <2>4
  <1>4. ASSUME ReadyIntact, TestWorld PROVE Live' = Live /\ sched_count' = sched_count
    <2>1. sched_count' = sched_count
      BY <1>4 DEF TestWorld
    <2> QED
      BY <1>1, <1>4, <2>1, TestWorldStates DEF ListInv
  <1>5. ASSUME NEW e \in Req \cup ModeChange, Test(e)
        PROVE  Live' = Live /\ sched_count' = sched_count
    BY <1>5 DEF Test, Live, ListInv, TypeInv, TypeOK, Elem
  <1> QED
    BY <1>2, <1>3, <1>4, <1>5

\* Every step, told by what becomes of Live and of sched_count.
LEMMA LiveStep ==
  ASSUME ListInv, [Next]_vars
  PROVE  \/ Live' = Live /\ sched_count' = sched_count
         \/ \E r \in Req \ Live : Live' = Live \cup {r} /\ sched_count' = sched_count + 1
         \/ \E r \in Live : Live' = Live \ {r} /\ sched_count' = sched_count - 1
  <1>1. CASE UNCHANGED vars
    BY <1>1 DEF vars, Live
  <1>2. ASSUME NEW r \in Req, NEW h \in Handle, NEW c \in Class,
               Post(r, h, c[1], c[2])
        PROVE  /\ r \in Req \ Live
               /\ Live' = Live \cup {r} /\ sched_count' = sched_count + 1
    BY <1>2 DEF Post, Live, ListInv, TypeInv, TypeOK, Elem
  <1>3. ASSUME NEW r \in Req, (\E c \in Class : PostBypass(r, c[1], c[2]))
                              \/ ReleaseBypass(r)
        PROVE  Live' = Live /\ sched_count' = sched_count
    BY <1>3 DEF PostBypass, ReleaseBypass, Live
  <1> QED
    <2>1. CASE \E r \in Req : Release(r) \/ Unpost(r)
      BY <2>1, DepartLive
    <2>2. CASE \/ ModeStep \/ TimerStep \/ (ReadyIntact /\ TestWorld)
               \/ \E e \in Req \cup ModeChange : Test(e)
      BY <2>2, OtherLive
    <2>3. CASE \E r \in Req, h \in Handle, c \in Class : Post(r, h, c[1], c[2])
      BY <1>2, <2>3
    <2>4. CASE \E r \in Req : (\E c \in Class : PostBypass(r, c[1], c[2]))
                              \/ ReleaseBypass(r)
      BY <1>3, <2>4
    <2>5. CASE ReqStep
      BY <2>1, <2>3, <2>4, <2>5 DEF ReqStep
    <2> QED
      BY <1>1, <2>2, <2>5, Zenon DEF Next

\* No request is known and none is counted at first.
LEMMA CountInit == Init => CountInv
  <1> SUFFICES ASSUME Init PROVE CountInv
    OBVIOUS
  <1>1. ListInv
    BY ListInit
  <1>2. Live = {} /\ sched_count = 0
    BY DEF Init, Live, Elem
  <1> QED
    BY <1>1, <1>2, FS_EmptySet DEF CountInv

\* Every step keeps the count exact.
LEMMA CountNext == CountInv /\ [Next]_vars => CountInv'
  <1> SUFFICES ASSUME CountInv, [Next]_vars PROVE CountInv'
    OBVIOUS
  <1>1. ListInv'
    BY ListNext DEF CountInv
  <1>2. IsFiniteSet(Live') /\ sched_count' = Cardinality(Live')
    <2>1. CASE Live' = Live /\ sched_count' = sched_count
      BY <2>1 DEF CountInv
    <2>2. CASE \E r \in Req \ Live : Live' = Live \cup {r} /\ sched_count' = sched_count + 1
      BY <2>2, FS_AddElement DEF CountInv
    <2>3. CASE \E r \in Live : Live' = Live \ {r} /\ sched_count' = sched_count - 1
      BY <2>3, FS_RemoveElement DEF CountInv
    <2> QED
      BY <2>1, <2>2, <2>3, LiveStep DEF CountInv
  <1> QED
    BY <1>1, <1>2 DEF CountInv

\* sched_count is exact in every reachable state.
THEOREM CountExactHolds == Spec => []CountExact
  <1>1. CountInv => CountExact
    BY DEF CountInv, CountExact, Live
  <1> QED
    BY <1>1, CountInit, CountNext, PTL DEF Spec

-----------------------------------------------------------------------------
(* Admin mode.  AdminQuiesced needs to know why a pending change may be    *)
(* applied later, when testworld gets to it: a mode change on the ready    *)
(* queue is the head of the mode queue, so from the moment it was put      *)
(* there (with nothing scheduled) modifying requests have been turned away *)

\* r is no threat to admin mode.
Harmless(r) == op[r] = "MGMT" \/ (access_type[r] = "READONLY" /\ op[r] # "DIRENT")

Quiet == \A r \in Live : Harmless(r)

\* The mode queue holds the allocated mode changes, once each.
ModePlaced ==
  /\ \A m \in ModeChange : state[m] # "FREE" <=>
       \E k \in DOMAIN mode_queue : mode_queue[k] = m
  /\ \A j, k \in DOMAIN mode_queue : mode_queue[j] = mode_queue[k] => j = k

\* As long as the ready queue is a proper list.
ReadyModes ==
  ReadyIntact =>
    \A i \in DOMAIN ready_queue : ready_queue[i] \in ModeChange =>
      /\ mode_queue # <<>>
      /\ ready_queue[i] = Head(mode_queue)
      /\ mode[ready_queue[i]] = "ADMIN" => Quiet

AdminInv ==
  /\ CountInv
  /\ ModePlaced
  /\ ReadyModes
  /\ current_mode = "ADMIN" => Quiet

\* What PINT_req_sched_schedule_mode_change may add to the ready queue, and
\* the only state it may change.
LEMMA ScheduleAdds ==
  ASSUME NEW st \in [Elem -> State], NEW rq \in Seq(Req \cup ModeChange),
         NEW mq \in Seq(ModeChange), NEW count,
         ScheduleModeChange(st, rq, mq, count)
  PROVE  /\ \A i \in DOMAIN ready_queue' :
              \/ \E j \in DOMAIN rq : ready_queue'[i] = rq[j]
              \/ count = 0 /\ mq # <<>> /\ ready_queue'[i] = Head(mq)
         /\ \A e \in Elem : state'[e] = st[e] \/
              (state'[e] = "READY" /\ mq # <<>> /\ e = Head(mq))
  <1>1. CASE count = 0 /\ mq # <<>>
    <2>1. /\ Head(mq) \in ModeChange
          /\ state' = [st EXCEPT ![Head(mq)] = "READY"]
          /\ ready_queue' = Append(rq, Head(mq))
      BY <1>1 DEF ScheduleModeChange
    <2> QED
      BY <1>1, <2>1
  <1>2. CASE ~(count = 0 /\ mq # <<>>)
    BY <1>2 DEF ScheduleModeChange
  <1> QED
    BY <1>1, <1>2

\* While a change to admin mode is at the head of the mode queue, or admin
\* mode is on, a step keeps a quiet scheduler quiet.
LEMMA QuietKept ==
  ASSUME ListInv, ListInv', [Next]_vars, Quiet, InAdminMode
  PROVE  Quiet'
  <1>1. ASSUME NEW r \in Req, NEW h \in Handle, NEW c \in Class,
               Post(r, h, c[1], c[2])
        PROVE  Quiet'
    <2>1. /\ c[2] = "MODIFY" => c[1] = "MGMT"
          /\ c[2] = "READONLY" \/ c[2] = "MODIFY"
          /\ c[2] = "READONLY" => c[1] # "DIRENT"
      BY <1>1 DEF Post, Admitted, Class
    <2>2. op'[r] = c[1] /\ access_type'[r] = c[2]
      BY <1>1, <2>1 DEF Post, ListInv, TypeInv, TypeOK
    <2>3. \A x \in Req : x # r => /\ state'[x] = state[x] /\ op'[x] = op[x]
                                  /\ access_type'[x] = access_type[x]
      BY <1>1 DEF Post, ListInv, TypeInv, TypeOK, Elem
    <2> QED
      BY <2>1, <2>2, <2>3 DEF Quiet, Live, Harmless
  <1>2. ASSUME \A x \in Req : state'[x] # "FREE" =>
                 /\ state[x] # "FREE"
                 /\ op'[x] = op[x] /\ access_type'[x] = access_type[x]
        PROVE  Quiet'
    BY <1>2 DEF Quiet, Live, Harmless
  <1>3. ASSUME NEW r \in Req, Release(r) \/ Unpost(r) PROVE Quiet'
    <2>1. Live' \subseteq Live \ {r}
      BY <1>3, DepartLive
    <2>2. \A x \in Req : x # r => op'[x] = op[x] /\ access_type'[x] = access_type[x]
      BY <1>3 DEF Release, Unpost, FreeReq, ListInv, TypeInv, TypeOK
    <2> QED
      BY <1>2, <2>1, <2>2 DEF Live
  <1>4. ASSUME NEW r \in Req, (\E c \in Class : PostBypass(r, c[1], c[2]))
                              \/ ReleaseBypass(r)
        PROVE  Quiet'
    BY <1>2, <1>4 DEF PostBypass, ReleaseBypass, ListInv, TypeInv, TypeOK,
                      Lists, ReqState
  <1>5. ASSUME UNCHANGED <<op, access_type>>, Live' = Live PROVE Quiet'
    BY <1>5 DEF Quiet, Harmless
  <1>6. ASSUME ModeStep PROVE Quiet'
    <2>1. UNCHANGED <<op, access_type>>
      BY <1>6 DEF ModeStep, ChangeMode, ReleaseMode, UnpostMode
    <2>2. Live' = Live
      BY <1>6, OtherLive
    <2> QED
      BY <1>5, <2>1, <2>2
  <1>7. ASSUME TimerStep PROVE Quiet'
    <2>1. UNCHANGED <<op, access_type>>
      BY <1>7 DEF TimerStep, PostTimer, UnpostTimer, TestTimer, Tick
    <2>2. Live' = Live
      BY <1>7, OtherLive
    <2> QED
      BY <1>5, <2>1, <2>2
  <1>8. ASSUME ReadyIntact, TestWorld PROVE Quiet'
    BY <1>5, <1>8, OtherLive DEF TestWorld
  <1>9. ASSUME NEW e \in Req \cup ModeChange, Test(e) PROVE Quiet'
    BY <1>5, <1>9, OtherLive DEF Test
  <1>10. CASE UNCHANGED vars
    BY <1>10 DEF vars, Quiet, Live, Harmless
  <1> QED
    BY <1>1, <1>3, <1>4, <1>6, <1>7, <1>8, <1>9, <1>10 DEF Next, ReqStep

\* A change to admin mode that is on the ready queue keeps things quiet.
LEMMA ReadyQuiet ==
  ASSUME AdminInv, ListInv', ReadyIntact, [Next]_vars,
         NEW i \in DOMAIN ready_queue, ready_queue[i] \in ModeChange
  PROVE  /\ mode_queue # <<>> /\ ready_queue[i] = Head(mode_queue)
         /\ mode[ready_queue[i]] = "ADMIN" => Quiet'
  <1>1. /\ mode_queue # <<>> /\ ready_queue[i] = Head(mode_queue)
        /\ mode[ready_queue[i]] = "ADMIN" => Quiet
    BY DEF AdminInv, ReadyModes
  <1>2. mode[ready_queue[i]] = "ADMIN" => InAdminMode
    BY <1>1 DEF InAdminMode
  <1> QED
    BY <1>1, <1>2, QuietKept DEF AdminInv, CountInv

\* The steps that end with PINT_req_sched_schedule_mode_change.
LEMMA ScheduleAdmin ==
  ASSUME CountInv', NEW st \in [Elem -> State], NEW rq \in Seq(Req \cup ModeChange),
         ScheduleModeChange(st, rq, mode_queue', sched_count'),
         \A m \in ModeChange : st[m] # "FREE" <=>
           \E k \in DOMAIN mode_queue' : mode_queue'[k] = m,
         \A j, k \in DOMAIN mode_queue' : mode_queue'[j] = mode_queue'[k] => j = k,
         \A i \in DOMAIN rq : rq[i] \in ModeChange =>
           \/ st[rq[i]] = "FREE"
           \/ /\ mode_queue' # <<>> /\ rq[i] = Head(mode_queue')
              /\ mode'[rq[i]] = "ADMIN" => Quiet'
  PROVE  ModePlaced' /\ ReadyModes'
  <1> DEFINE mq == mode_queue'
  <1>1. mq \in Seq(ModeChange)
    BY DEF CountInv, ListInv, TypeInv, TypeOK
  <1>2. mq # <<>> => 1 \in DOMAIN mq /\ mq[1] = Head(mq) /\ Head(mq) \in ModeChange
    BY <1>1
  <1>3. /\ \A i \in DOMAIN ready_queue' :
             \/ \E j \in DOMAIN rq : ready_queue'[i] = rq[j]
             \/ sched_count' = 0 /\ mq # <<>> /\ ready_queue'[i] = Head(mq)
        /\ \A e \in Elem : state'[e] = st[e] \/
             (state'[e] = "READY" /\ mq # <<>> /\ e = Head(mq))
    BY <1>1, ScheduleAdds
  <1>4. ModePlaced'
    <2>1. ASSUME NEW m \in ModeChange
          PROVE  state'[m] # "FREE" <=> \E k \in DOMAIN mq : mq[k] = m
      <3>1. CASE state'[m] = st[m]
        BY <3>1
      <3>2. CASE state'[m] = "READY" /\ mq # <<>> /\ m = Head(mq)
        BY <1>2, <3>2
      <3> QED
        BY <1>3, <3>1, <3>2 DEF Elem
    <2> QED
      BY <2>1 DEF ModePlaced
  <1>5. sched_count' = 0 => Quiet'
    <2>1. sched_count' = 0 => Live' = {}
      BY FS_EmptySet DEF CountInv
    <2> QED
      BY <2>1 DEF Quiet
  <1>6. ASSUME ReadyIntact', NEW i \in DOMAIN ready_queue', ready_queue'[i] \in ModeChange
        PROVE  /\ mq # <<>> /\ ready_queue'[i] = Head(mq)
               /\ mode'[ready_queue'[i]] = "ADMIN" => Quiet'
    <2>1. CASE sched_count' = 0 /\ mq # <<>> /\ ready_queue'[i] = Head(mq)
      BY <1>5, <2>1
    <2>2. ASSUME NEW j \in DOMAIN rq, ready_queue'[i] = rq[j]
          PROVE  /\ mq # <<>> /\ ready_queue'[i] = Head(mq)
                 /\ mode'[ready_queue'[i]] = "ADMIN" => Quiet'
      <3>1. state'[rq[j]] = "READY" /\ rq[j] \in ModeChange
        BY <1>6, <2>2 DEF ReadyIntact
      <3>2. CASE st[rq[j]] = "FREE"
        <4>1. mq # <<>> /\ rq[j] = Head(mq)
          BY <1>3, <3>1, <3>2 DEF Elem
        <4>2. \E k \in DOMAIN mq : mq[k] = rq[j]
          BY <1>2, <4>1
        <4> QED
          BY <3>1, <3>2, <4>2
      <3>3. CASE st[rq[j]] # "FREE"
        BY <2>2, <3>1, <3>3
      <3> QED
        BY <3>2, <3>3
    <2> QED
      BY <1>3, <2>1, <2>2
  <1> QED
    BY <1>4, <1>6 DEF ReadyModes

\* Taking the k-th element off the mode queue.
LEMMA ModeWithout ==
  ASSUME TypeOK, ModePlaced, NEW m \in ModeChange, NEW k \in DOMAIN mode_queue,
         mode_queue[k] = m, NEW mq, mq = RemoveAt(mode_queue, k)
  PROVE  /\ mq \in Seq(ModeChange)
         /\ \A x \in ModeChange : (\E j \in DOMAIN mq : mq[j] = x) <=>
              x # m /\ \E j \in DOMAIN mode_queue : mode_queue[j] = x
         /\ \A i, j \in DOMAIN mq : mq[i] = mq[j] => i = j
         /\ (mode_queue[1] # m => mq # <<>> /\ Head(mq) = mode_queue[1])
  <1> DEFINE J(i) == IF i < k THEN i ELSE i + 1
  <1>1. /\ mode_queue \in Seq(ModeChange) /\ k \in 1..Len(mode_queue)
        /\ Len(mode_queue) \in Nat
    BY DEF TypeOK
  <1>2. /\ mq \in Seq(ModeChange) /\ Len(mq) = Len(mode_queue) - 1
        /\ \A i \in 1..Len(mode_queue) - 1 :
             mq[i] = IF i < k THEN mode_queue[i] ELSE mode_queue[i + 1]
    BY <1>1, RemoveAtFacts
  <1>3. DOMAIN mq = 1..Len(mode_queue) - 1 /\ DOMAIN mode_queue = 1..Len(mode_queue)
    BY <1>1, <1>2
  <1>4. ASSUME NEW i \in DOMAIN mq
        PROVE  J(i) \in DOMAIN mode_queue /\ J(i) # k /\ mq[i] = mode_queue[J(i)]
    BY <1>1, <1>2, <1>3
  <1>5. ASSUME NEW i \in DOMAIN mq, NEW j \in DOMAIN mq, mq[i] = mq[j] PROVE i = j
    <2>1. J(i) = J(j)
      <3>1. J(i) \in DOMAIN mode_queue /\ J(j) \in DOMAIN mode_queue
            /\ mode_queue[J(i)] = mode_queue[J(j)]
        BY <1>4, <1>5
      <3> HIDE DEF J
      <3> QED
        BY <3>1 DEF ModePlaced
    <2> QED
      BY <1>3, <2>1
  <1>6. ASSUME NEW i \in DOMAIN mq PROVE mq[i] # m
    <2>1. J(i) \in DOMAIN mode_queue /\ J(i) # k /\ mq[i] = mode_queue[J(i)]
      BY <1>4
    <2> HIDE DEF J
    <2> QED
      BY <2>1 DEF ModePlaced
  <1>7. ASSUME NEW j \in DOMAIN mode_queue, mode_queue[j] # m
        PROVE  \E i \in DOMAIN mq : mq[i] = mode_queue[j]
    <2>1. CASE j < k
      BY <1>1, <1>2, <1>3, <2>1
    <2>2. CASE j > k
      <3>1. j - 1 \in DOMAIN mq /\ ~(j - 1 < k) /\ (j - 1) + 1 = j
        BY <1>1, <1>3, <2>2
      <3>2. mq[j - 1] = mode_queue[j]
        BY <1>2, <1>3, <3>1
      <3> QED
        BY <3>1, <3>2
    <2> QED
      BY <1>3, <1>7, <2>1, <2>2
  <1>8. ASSUME mode_queue[1] # m PROVE mq # <<>> /\ Head(mq) = mode_queue[1]
    <2>1. k > 1 /\ Len(mq) >= 1
      BY <1>1, <1>2, <1>8
    <2>2. mq # <<>> /\ Head(mq) = mq[1]
      BY <1>2, <2>1
    <2>3. mq[1] = mode_queue[1]
      BY <1>1, <1>2, <2>1
    <2> QED
      BY <2>2, <2>3
  <1>9. ASSUME NEW x \in ModeChange
        PROVE  (\E j \in DOMAIN mq : mq[j] = x) <=>
               x # m /\ \E j \in DOMAIN mode_queue : mode_queue[j] = x
    BY <1>4, <1>6, <1>7
  <1> QED
    BY <1>2, <1>5, <1>8, <1>9

\* Unlinking leaves nothing but what was on the ready queue, and on a proper
\* list not the element itself.
LEMMA UnlinkedFrom ==
  ASSUME TypeInv, NEW e \in Req \cup ModeChange
  PROVE  /\ Unlinked(e) \in Seq(Req \cup ModeChange)
         /\ \A i \in DOMAIN Unlinked(e) : \E j \in DOMAIN ready_queue :
              /\ Unlinked(e)[i] = ready_queue[j]
              /\ ReadyIntact => ready_queue[j] # e
  <1>1. CASE state[e] = "READY"
    <2>1. PICK k \in DOMAIN ready_queue :
            ready_queue[k] = e /\ Unlinked(e) = RemoveAt(ready_queue, k)
      BY <1>1, UnlinkedFacts DEF TypeInv
    <2> DEFINE u == Unlinked(e)
    <2>2. /\ ready_queue \in Seq(Req \cup ModeChange)
          /\ u \in Seq(Req \cup ModeChange)
          /\ Len(u) = Len(ready_queue) - 1
          /\ \A i \in 1..Len(ready_queue) - 1 :
               u[i] = IF i < k THEN ready_queue[i] ELSE ready_queue[i + 1]
      BY <2>1, RemoveAtFacts DEF TypeInv, TypeOK
    <2> HIDE DEF u
    <2>3. ASSUME NEW i \in DOMAIN u
          PROVE  \E j \in DOMAIN ready_queue : u[i] = ready_queue[j] /\ j # k
      <3>1. /\ i \in 1..Len(ready_queue) - 1
            /\ i \in DOMAIN ready_queue /\ i + 1 \in DOMAIN ready_queue
        BY <2>2
      <3>2. CASE i < k
        BY <2>2, <3>1, <3>2
      <3>3. CASE ~(i < k)
        BY <2>2, <3>1, <3>3
      <3> QED
        BY <3>2, <3>3
    <2> QED
      BY <2>1, <2>2, <2>3 DEF u, ReadyIntact
  <1>2. CASE state[e] # "READY"
    BY <1>2, UnlinkedFacts DEF TypeInv, ReadyIntact
  <1> QED
    BY <1>1, <1>2

\* Steps that leave the mode queue, the modes and the states of mode changes
\* alone and add nothing to the ready queue.
LEMMA PlainAdmin ==
  ASSUME AdminInv, CountInv', ReadyIntact, [Next]_vars,
         UNCHANGED <<mode_queue, mode>>,
         \A m \in ModeChange : state'[m] = "FREE" <=> state[m] = "FREE",
         \A i \in DOMAIN ready_queue' : \E j \in DOMAIN ready_queue :
           ready_queue'[i] = ready_queue[j]
  PROVE  ModePlaced' /\ ReadyModes'
  <1>1. ModePlaced'
    BY DEF AdminInv, ModePlaced
  <1>2. ASSUME NEW i \in DOMAIN ready_queue', ready_queue'[i] \in ModeChange
        PROVE  /\ mode_queue # <<>> /\ ready_queue'[i] = Head(mode_queue)
               /\ mode[ready_queue'[i]] = "ADMIN" => Quiet'
    BY <1>2, ReadyQuiet DEF CountInv
  <1> QED
    BY <1>1, <1>2 DEF ReadyModes

\* No request step puts a modifying request into admin mode.
LEMMA AdminReqStep ==
  ASSUME AdminInv, CountInv', ReadyIntact, ReqStep
  PROVE  ModePlaced' /\ ReadyModes' /\ current_mode' = current_mode
  <1>0. [Next]_vars
    BY DEF Next
  <1>t. TypeInv
    BY DEF AdminInv, CountInv, ListInv
  <1>1. ASSUME NEW r \in Req, NEW h \in Handle, NEW c \in Class,
               Post(r, h, c[1], c[2])
        PROVE  ModePlaced' /\ ReadyModes' /\ current_mode' = current_mode
    <2>1. /\ UNCHANGED <<mode_queue, mode, ready_queue, current_mode>>
          /\ \A m \in ModeChange : state'[m] = state[m]
      BY <1>1, <1>t, SchedulerAssumption DEF Post, TypeInv, TypeOK, Elem
    <2> QED
      BY <1>0, <2>1, PlainAdmin
  <1>2. ASSUME NEW r \in Req, (\E c \in Class : PostBypass(r, c[1], c[2]))
                              \/ ReleaseBypass(r)
        PROVE  ModePlaced' /\ ReadyModes' /\ current_mode' = current_mode
    <2>1. UNCHANGED <<mode_queue, mode, ready_queue, current_mode, state>>
      BY <1>2 DEF PostBypass, ReleaseBypass
    <2> QED
      BY <1>0, <2>1, PlainAdmin
  <1>3. ASSUME NEW r \in Req, Release(r) \/ Unpost(r)
        PROVE  ModePlaced' /\ ReadyModes' /\ current_mode' = current_mode
    <2>1. /\ UNCHANGED <<mode_queue, mode, current_mode>>
          /\ sched_count' = sched_count - 1
      BY <1>3 DEF Release, Unpost
    <2>2. PICK h \in Handle : \E k \in DOMAIN queue[h] :
            \E rq0 \in {ready_queue, Unlinked(r)} :
              \E n \in 0..Len(RemoveAt(queue[h], k)) :
                ScheduleModeChange(Woken(r, RemoveAt(queue[h], k), n),
                                   rq0 \o SubSeq(RemoveAt(queue[h], k), 1, n),
                                   mode_queue, sched_count - 1)
      BY <1>3 DEF Release, Unpost
    <2>3. PICK k \in DOMAIN queue[h] :
            \E rq0 \in {ready_queue, Unlinked(r)} :
              \E n \in 0..Len(RemoveAt(queue[h], k)) :
                ScheduleModeChange(Woken(r, RemoveAt(queue[h], k), n),
                                   rq0 \o SubSeq(RemoveAt(queue[h], k), 1, n),
                                   mode_queue, sched_count - 1)
      BY <2>2
    <2> DEFINE q == RemoveAt(queue[h], k)
    <2>4. q \in Seq(Req)
      BY <1>t, QueueWithout DEF TypeInv
    <2>5. PICK rq0 \in {ready_queue, Unlinked(r)} : \E n \in 0..Len(q) :
            ScheduleModeChange(Woken(r, q, n), rq0 \o SubSeq(q, 1, n),
                               mode_queue, sched_count - 1)
      BY <2>3
    <2>6. PICK n \in 0..Len(q) :
            ScheduleModeChange(Woken(r, q, n), rq0 \o SubSeq(q, 1, n),
                               mode_queue, sched_count - 1)
      BY <2>5
    <2> HIDE DEF q
    <2>7. /\ rq0 \in Seq(Req \cup ModeChange)
          /\ \A i \in DOMAIN rq0 : \E j \in DOMAIN ready_queue : rq0[i] = ready_queue[j]
      BY <1>t, UnlinkedFrom DEF TypeInv, TypeOK
    <2> DEFINE w  == SubSeq(q, 1, n)
               rq == rq0 \o w
               st == Woken(r, q, n)
    <2>8. w \in Seq(Req) /\ w \in Seq(Req \cup ModeChange)
      BY <2>4
    <2>9. st \in [Elem -> State] /\ \A m \in ModeChange : st[m] = state[m]
      <3>1. \A m \in ModeChange : m # r /\ \A i \in 1..n : q[i] # m
        BY <2>4, SchedulerAssumption
      <3>2. st \in [Elem -> State]
        BY <1>t DEF Woken, TypeInv, TypeOK, State
      <3> QED
        BY <3>1, <3>2 DEF Woken, Elem
    <2>10. ScheduleModeChange(st, rq, mode_queue', sched_count')
      BY <2>1, <2>6
    <2> HIDE DEF w, st
    <2>11. /\ rq \in Seq(Req \cup ModeChange)
           /\ \A i \in DOMAIN rq : rq[i] \in ModeChange =>
                \E j \in DOMAIN rq0 : rq[i] = rq0[j]
      <3>1. /\ rq \in Seq(Req \cup ModeChange) /\ Len(rq) = Len(rq0) + Len(w)
            /\ \A i \in 1..Len(rq0) + Len(w) :
                 rq[i] = IF i <= Len(rq0) THEN rq0[i] ELSE w[i - Len(rq0)]
        BY <2>7, <2>8
      <3> HIDE DEF rq
      <3>2. ASSUME NEW i \in DOMAIN rq, rq[i] \in ModeChange
            PROVE  \E j \in DOMAIN rq0 : rq[i] = rq0[j]
        <4>1. i \in 1..Len(rq0) + Len(w) /\ Len(rq0) \in Nat /\ Len(w) \in Nat
          BY <2>7, <2>8, <3>1
        <4>2. CASE i <= Len(rq0)
          BY <2>7, <3>1, <4>1, <4>2
        <4>3. CASE ~(i <= Len(rq0))
          <5>1. i - Len(rq0) \in 1..Len(w) /\ rq[i] = w[i - Len(rq0)]
            BY <3>1, <4>1, <4>3
          <5>2. rq[i] \in Req
            BY <2>8, <5>1
          <5> QED
            BY <3>2, <5>2, SchedulerAssumption
        <4> QED
          BY <4>2, <4>3
      <3> QED
        BY <3>1, <3>2
    <2> HIDE DEF rq
    <2>12. \A i \in DOMAIN rq : rq[i] \in ModeChange =>
             /\ mode_queue' # <<>> /\ rq[i] = Head(mode_queue')
             /\ mode'[rq[i]] = "ADMIN" => Quiet'
      BY <1>0, <2>1, <2>7, <2>11, ReadyQuiet DEF CountInv
    <2>13. /\ \A m \in ModeChange : st[m] # "FREE" <=>
                \E i \in DOMAIN mode_queue' : mode_queue'[i] = m
           /\ \A i, j \in DOMAIN mode_queue' : mode_queue'[i] = mode_queue'[j] => i = j
      BY <2>1, <2>9 DEF AdminInv, ModePlaced
    <2>14. ModePlaced' /\ ReadyModes'
      BY <2>9, <2>10, <2>11, <2>12, <2>13, ScheduleAdmin
    <2> QED
      BY <2>1, <2>14
  <1> QED
    BY <1>1, <1>2, <1>3 DEF ReqStep

\* No mode change reaches admin mode while a modifying request is known.
LEMMA AdminModeStep ==
  ASSUME AdminInv, CountInv', ReadyIntact, ModeStep
  PROVE  /\ ModePlaced' /\ ReadyModes'
         /\ current_mode' = current_mode \/ (current_mode' = "ADMIN" => Quiet')
  <1>0. [Next]_vars
    BY DEF Next
  <1>t. TypeInv
    BY DEF AdminInv, CountInv, ListInv
  <1>1. ASSUME NEW m \in ModeChange, NEW md \in Mode, ChangeMode(m, md)
        PROVE  /\ ModePlaced' /\ ReadyModes'
               /\ current_mode' = current_mode \/ (current_mode' = "ADMIN" => Quiet')
    <2>1. /\ mode_queue' = Append(mode_queue, m)
          /\ state[m] = "FREE"
          /\ state'[m] # "FREE"
          /\ \A x \in ModeChange : x # m => state'[x] = state[x] /\ mode'[x] = mode[x]
          /\ ready_queue' = ready_queue /\ sched_count' = sched_count
          /\ current_mode' = current_mode \/ md = "NORMAL" \/ sched_count = 0
          /\ current_mode' = current_mode \/ current_mode' = md
      BY <1>1, <1>t DEF ChangeMode, TypeInv, TypeOK, Elem
    <2>2. mode_queue \in Seq(ModeChange) /\ \A k \in DOMAIN mode_queue : mode_queue[k] # m
      BY <1>t, <2>1 DEF TypeInv, TypeOK, AdminInv, ModePlaced
    <2>3. /\ mode_queue' \in Seq(ModeChange)
          /\ Len(mode_queue') = Len(mode_queue) + 1
          /\ \A k \in 1..Len(mode_queue) : mode_queue'[k] = mode_queue[k]
          /\ mode_queue'[Len(mode_queue) + 1] = m
          /\ mode_queue # <<>> => mode_queue' # <<>> /\ Head(mode_queue') = Head(mode_queue)
      BY <2>1, <2>2
    <2>4. ModePlaced'
      <3>1. ASSUME NEW x \in ModeChange
            PROVE  state'[x] # "FREE" <=> \E k \in DOMAIN mode_queue' : mode_queue'[k] = x
        <4>1. CASE x = m
          BY <2>1, <2>2, <2>3, <4>1
        <4>2. CASE x # m
          <5>1. (\E k \in DOMAIN mode_queue' : mode_queue'[k] = x) <=>
                \E k \in DOMAIN mode_queue : mode_queue[k] = x
            BY <2>2, <2>3, <4>2
          <5> QED
            BY <2>1, <4>2, <5>1 DEF AdminInv, ModePlaced
        <4> QED
          BY <4>1, <4>2
      <3>2. ASSUME NEW i \in DOMAIN mode_queue', NEW j \in DOMAIN mode_queue',
                   mode_queue'[i] = mode_queue'[j]
            PROVE  i = j
        <4>1. ASSUME NEW k \in DOMAIN mode_queue'
              PROVE  \/ k = Len(mode_queue) + 1 /\ mode_queue'[k] = m
                     \/ /\ k \in DOMAIN mode_queue
                        /\ mode_queue'[k] = mode_queue[k] /\ mode_queue[k] # m
          BY <2>2, <2>3
        <4> QED
          BY <3>2, <4>1 DEF AdminInv, ModePlaced
      <3> QED
        BY <3>1, <3>2 DEF ModePlaced
    <2>5. ReadyModes'
      <3> SUFFICES ASSUME NEW i \in DOMAIN ready_queue, ready_queue[i] \in ModeChange
                   PROVE  /\ mode_queue' # <<>> /\ ready_queue[i] = Head(mode_queue')
                          /\ mode'[ready_queue[i]] = "ADMIN" => Quiet'
        BY <2>1 DEF ReadyModes
      <3>1. /\ mode_queue # <<>> /\ ready_queue[i] = Head(mode_queue)
            /\ mode[ready_queue[i]] = "ADMIN" => Quiet'
        BY <1>0, ReadyQuiet DEF CountInv
      <3>2. ready_queue[i] # m
        BY <2>2, <3>1
      <3> QED
        BY <2>1, <2>3, <3>1, <3>2
    <2>6. sched_count = 0 => Quiet'
      <3>1. sched_count = 0 => Live' = {}
        BY <2>1, FS_EmptySet DEF CountInv
      <3> QED
        BY <3>1 DEF Quiet
    <2> QED
      BY <2>1, <2>4, <2>5, <2>6
  <1>2. ASSUME NEW m \in ModeChange, ReleaseMode(m) \/ UnpostMode(m)
        PROVE  ModePlaced' /\ ReadyModes' /\ current_mode' = current_mode
    <2> DEFINE st == [state EXCEPT ![m] = "FREE"]
    <2>1. /\ \A x \in ModeChange : x # m => mode'[x] = mode[x]
          /\ sched_count' = sched_count /\ current_mode' = current_mode
      BY <1>2, <1>t DEF ReleaseMode, UnpostMode, TypeInv, TypeOK
    <2>2. PICK k \in DOMAIN mode_queue, rq \in {ready_queue, Unlinked(m)} :
            /\ mode_queue[k] = m
            /\ mode_queue' = RemoveAt(mode_queue, k)
            /\ ScheduleModeChange(st, rq, RemoveAt(mode_queue, k), sched_count)
      BY <1>2 DEF ReleaseMode, UnpostMode
    <2>3. st \in [Elem -> State] /\ st[m] = "FREE"
          /\ \A x \in ModeChange : x # m => st[x] = state[x]
      BY <1>t DEF TypeInv, TypeOK, Elem, State
    <2> HIDE DEF st
    <2>4. /\ \A x \in ModeChange : (\E j \in DOMAIN mode_queue' : mode_queue'[j] = x) <=>
               x # m /\ \E j \in DOMAIN mode_queue : mode_queue[j] = x
          /\ \A i, j \in DOMAIN mode_queue' : mode_queue'[i] = mode_queue'[j] => i = j
          /\ mode_queue[1] # m => mode_queue' # <<>> /\ Head(mode_queue') = mode_queue[1]
      BY <1>t, <2>2, ModeWithout DEF TypeInv, AdminInv
    <2>5. \A x \in ModeChange : st[x] # "FREE" <=>
            \E j \in DOMAIN mode_queue' : mode_queue'[j] = x
      BY <2>3, <2>4 DEF AdminInv, ModePlaced
    <2>6. /\ rq \in Seq(Req \cup ModeChange)
          /\ \A i \in DOMAIN rq : \E j \in DOMAIN ready_queue : rq[i] = ready_queue[j]
      BY <1>t, UnlinkedFrom DEF TypeInv, TypeOK
    <2>7. ASSUME NEW i \in DOMAIN rq, rq[i] \in ModeChange
          PROVE  \/ st[rq[i]] = "FREE"
                 \/ /\ mode_queue' # <<>> /\ rq[i] = Head(mode_queue')
                    /\ mode'[rq[i]] = "ADMIN" => Quiet'
      <3>1. CASE rq[i] = m
        BY <2>3, <3>1
      <3>2. CASE rq[i] # m
        <4>1. /\ mode_queue # <<>> /\ rq[i] = Head(mode_queue)
              /\ mode[rq[i]] = "ADMIN" => Quiet'
          BY <1>0, <2>6, <2>7, ReadyQuiet DEF CountInv
        <4>2. Head(mode_queue) = mode_queue[1]
          BY <1>t, <4>1 DEF TypeInv, TypeOK
        <4> QED
          BY <2>1, <2>4, <2>7, <3>2, <4>1, <4>2
      <3> QED
        BY <3>1, <3>2
    <2>8. ModePlaced' /\ ReadyModes'
      <3>1. ScheduleModeChange(st, rq, mode_queue', sched_count')
        BY <2>1, <2>2
      <3>2. \A i \in DOMAIN rq : rq[i] \in ModeChange =>
              \/ st[rq[i]] = "FREE"
              \/ /\ mode_queue' # <<>> /\ rq[i] = Head(mode_queue')
                 /\ mode'[rq[i]] = "ADMIN" => Quiet'
        BY <2>7
      <3>3. \A i, j \in DOMAIN mode_queue' : mode_queue'[i] = mode_queue'[j] => i = j
        BY <2>4
      <3>4. rq \in Seq(Req \cup ModeChange) /\ st \in [Elem -> State]
        BY <2>3, <2>6
      <3> QED
        BY <2>5, <3>1, <3>2, <3>3, <3>4, ScheduleAdmin
    <2> QED
      BY <2>1, <2>8
  <1> QED
    BY <1>1, <1>2 DEF ModeStep

\* Timers change neither the mode nor the requests.
LEMMA AdminTimerStep ==
  ASSUME AdminInv, CountInv', ReadyIntact, TimerStep
  PROVE  ModePlaced' /\ ReadyModes' /\ current_mode' = current_mode
  <1>0. [Next]_vars
    BY DEF Next
  <1>t. TypeInv
    BY DEF AdminInv, CountInv, ListInv
  <1>1. ASSUME NEW t \in Timer, (\E d \in Delay : PostTimer(t, d)) \/ TestTimer(t)
        PROVE  ModePlaced' /\ ReadyModes' /\ current_mode' = current_mode
    <2>1. /\ UNCHANGED <<mode_queue, mode, ready_queue, current_mode>>
          /\ \A m \in ModeChange : state'[m] = state[m]
      BY <1>1, <1>t, SchedulerAssumption DEF PostTimer, TestTimer, TypeInv, TypeOK, Elem
    <2> QED
      BY <1>0, <2>1, PlainAdmin
  <1>2. CASE Tick
    <2>1. UNCHANGED <<mode_queue, mode, ready_queue, current_mode, state>>
      BY <1>2 DEF Tick
    <2> QED
      BY <1>0, <2>1, PlainAdmin
  <1>3. ASSUME NEW t \in Timer, UnpostTimer(t)
        PROVE  ModePlaced' /\ ReadyModes' /\ current_mode' = current_mode
    <2> DEFINE st == [state EXCEPT ![t] = "FREE"]
    <2>1. /\ UNCHANGED <<mode_queue, mode, sched_count, current_mode>>
          /\ ScheduleModeChange(st, ready_queue, mode_queue, sched_count)
      BY <1>3 DEF UnpostTimer
    <2>2. st \in [Elem -> State] /\ \A x \in ModeChange : st[x] = state[x]
      BY <1>t, SchedulerAssumption DEF TypeInv, TypeOK, Elem, State
    <2> HIDE DEF st
    <2>3. \A i \in DOMAIN ready_queue : ready_queue[i] \in ModeChange =>
            /\ mode_queue' # <<>> /\ ready_queue[i] = Head(mode_queue')
            /\ mode'[ready_queue[i]] = "ADMIN" => Quiet'
      BY <1>0, <2>1, ReadyQuiet DEF CountInv
    <2>4. /\ \A m \in ModeChange : st[m] # "FREE" <=>
               \E i \in DOMAIN mode_queue' : mode_queue'[i] = m
          /\ \A i, j \in DOMAIN mode_queue' : mode_queue'[i] = mode_queue'[j] => i = j
      BY <2>1, <2>2 DEF AdminInv, ModePlaced
    <2>5. ready_queue \in Seq(Req \cup ModeChange)
      BY <1>t DEF TypeInv, TypeOK
    <2>6. ScheduleModeChange(st, ready_queue, mode_queue', sched_count')
      BY <2>1
    <2>7. ModePlaced' /\ ReadyModes'
      BY <2>2, <2>3, <2>4, <2>5, <2>6, ScheduleAdmin
    <2> QED
      BY <2>1, <2>7
  <1> QED
    BY <1>1, <1>2, <1>3 DEF TimerStep

\* testworld enters admin mode only for a change that was made ready with
\* no request known.
LEMMA AdminTestWorld ==
  ASSUME AdminInv, CountInv', ReadyIntact, TestWorld
  PROVE  /\ ModePlaced' /\ ReadyModes'
         /\ current_mode' = current_mode \/ (current_mode' = "ADMIN" => Quiet')
  <1>0. [Next]_vars
    BY DEF Next
  <1>t. TypeInv
    BY DEF AdminInv, CountInv, ListInv
  <1>1. PICK k \in 0..Len(timer_queue), n \in 0..Len(ready_queue) :
          LET Fired(e)  == \E i \in 1..k : timer_queue[i] = e
              Picked(e) == \E i \in 1..n : ready_queue[i] = e
          IN  /\ ready_queue' = SubSeq(ready_queue, n + 1, Len(ready_queue))
              /\ state' = [e \in Elem |-> IF Fired(e) THEN "FREE"
                                          ELSE IF Picked(e) THEN "SCHEDULED"
                                          ELSE state[e]]
              /\ ModeAfter(n)
    BY DEF TestWorld
  <1>2. UNCHANGED <<mode_queue, mode>>
    BY DEF TestWorld
  <1>3. /\ ready_queue \in Seq(Req \cup ModeChange)
        /\ Len(ready_queue') = Len(ready_queue) - n
        /\ DOMAIN ready_queue' = 1..Len(ready_queue) - n
        /\ \A i \in 1..Len(ready_queue) - n : ready_queue'[i] = ready_queue[n + i]
    BY <1>1, <1>t DEF TypeInv, TypeOK
  <1>4. \A i \in DOMAIN ready_queue' : \E j \in DOMAIN ready_queue :
          ready_queue'[i] = ready_queue[j]
    <2> SUFFICES ASSUME NEW i \in DOMAIN ready_queue'
                 PROVE  \E j \in DOMAIN ready_queue : ready_queue'[i] = ready_queue[j]
      OBVIOUS
    <2>1. n + i \in DOMAIN ready_queue /\ i \in 1..Len(ready_queue) - n
      BY <1>3
    <2> QED
      BY <1>3, <2>1
  <1>5. \A i \in 1..n : i \in DOMAIN ready_queue /\ state[ready_queue[i]] = "READY"
    BY <1>3 DEF ReadyIntact
  <1>6. \A m \in ModeChange : \A i \in 1..k : timer_queue[i] # m
    BY <1>t, SchedulerAssumption DEF TypeInv, TypeOK
  <1>7. \A m \in ModeChange : state'[m] = "FREE" <=> state[m] = "FREE"
    BY <1>1, <1>5, <1>6 DEF Elem
  <1>8. current_mode' = current_mode \/ (current_mode' = "ADMIN" => Quiet')
    BY <1>0, <1>1, <1>5, ReadyQuiet DEF ModeAfter, CountInv
  <1> QED
    BY <1>0, <1>2, <1>4, <1>7, <1>8, PlainAdmin

\* So does test.
LEMMA AdminTest ==
  ASSUME AdminInv, CountInv', ReadyIntact, NEW e \in Req \cup ModeChange, Test(e)
  PROVE  /\ ModePlaced' /\ ReadyModes'
         /\ current_mode' = current_mode \/ (current_mode' = "ADMIN" => Quiet')
  <1>0. [Next]_vars
    BY DEF Next
  <1>t. TypeInv
    BY DEF AdminInv, CountInv, ListInv
  <1>1. UNCHANGED <<mode_queue, mode>> /\ ready_queue' = Unlinked(e)
    BY DEF Test
  <1>2. \A i \in DOMAIN ready_queue' : \E j \in DOMAIN ready_queue :
          ready_queue'[i] = ready_queue[j]
    BY <1>1, <1>t, UnlinkedFrom
  <1>3. \A m \in ModeChange : state'[m] = "FREE" <=> state[m] = "FREE"
    BY <1>t DEF Test, TypeInv, TypeOK, Elem
  <1>4. current_mode' = current_mode \/ (current_mode' = "ADMIN" => Quiet')
    <2>1. PICK j \in DOMAIN ready_queue : ready_queue[j] = e
      BY <1>t DEF Test, TypeInv, ReadyLinked, Elem
    <2> QED
      BY <1>0, <2>1, ReadyQuiet DEF Test, CountInv
  <1> QED
    BY <1>0, <1>1, <1>2, <1>3, <1>4, PlainAdmin

\* The server starts in normal mode.
LEMMA AdminInit == Init => AdminInv
  <1> SUFFICES ASSUME Init PROVE AdminInv
    OBVIOUS
  <1>1. CountInv
    BY CountInit
  <1>2. ModePlaced /\ ReadyModes
    BY DEF Init, ModePlaced, ReadyModes, Elem
  <1> QED
    BY <1>1, <1>2 DEF AdminInv, Init

\* Every step keeps the admin invariant.
LEMMA AdminNext == AdminInv /\ [Next]_vars => AdminInv'
  <1> SUFFICES ASSUME AdminInv, [Next]_vars PROVE AdminInv'
    OBVIOUS
  <1>1. CountInv'
    BY CountNext DEF AdminInv
  <1>2. (current_mode = "ADMIN" /\ current_mode' = current_mode) => Quiet'
    BY <1>1, QuietKept DEF AdminInv, CountInv, InAdminMode
  <1>3. CASE UNCHANGED vars
    <2>1. ModePlaced' /\ ReadyModes'
      BY <1>3 DEF vars, AdminInv, ModePlaced, ReadyModes, ReadyIntact, Quiet, Live, Harmless
    <2> QED
      BY <1>1, <1>2, <1>3, <2>1 DEF AdminInv, vars
  <1>4. ASSUME /\ ModePlaced' /\ ReadyModes'
               /\ current_mode' = current_mode \/ (current_mode' = "ADMIN" => Quiet')
        PROVE  AdminInv'
    BY <1>1, <1>2, <1>4 DEF AdminInv
  <1> QED
    BY <1>1, <1>3, <1>4, AdminReqStep, AdminModeStep, AdminTimerStep,
       AdminTestWorld, AdminTest DEF Next

\* In admin mode the scheduler holds no request that modifies the file
\* system, whatever was posted, released and withdrawn around the change.
THEOREM AdminQuiescedHolds == Spec => []AdminQuiesced
  <1>1. AdminInv => AdminQuiesced
    BY DEF AdminInv, AdminQuiesced, Quiet, Live, Harmless
  <1> QED
    BY <1>1, AdminInit, AdminNext, PTL DEF Spec

-----------------------------------------------------------------------------
(* Timers.                                                                 *)

\* What is on the timer queue is a timer under way, once, and deadlines
\* follow each other.
TimerPlaced ==
  /\ \A i \in DOMAIN timer_queue : state[timer_queue[i]] = "TIMING"
  /\ \A i, j \in DOMAIN timer_queue : timer_queue[i] = timer_queue[j] => i = j
  /\ \A i, j \in DOMAIN timer_queue : i < j => left[timer_queue[i]] <= left[timer_queue[j]]

TimerInv == TypeInv /\ TimerPlaced

\* InsertAt, the model of __qlist_add: what is behind position k moves on.
LEMMA InsertAtFacts ==
  ASSUME NEW S, NEW s \in Seq(S), NEW e \in S, NEW k \in 1..Len(s) + 1
  PROVE  /\ Len(InsertAt(s, k, e)) = Len(s) + 1
         /\ \A i \in 1..Len(s) + 1 :
              InsertAt(s, k, e)[i] = IF i < k THEN s[i] ELSE IF i = k THEN e ELSE s[i - 1]
  <1> DEFINE a == SubSeq(s, 1, k - 1)
             b == SubSeq(s, k, Len(s))
  <1>1. Len(s) \in Nat /\ k \in Nat
    OBVIOUS
  <1>2. /\ a \in Seq(S) /\ Len(a) = k - 1
        /\ \A i \in 1..k - 1 : a[i] = s[i]
    BY <1>1
  <1>3. /\ b \in Seq(S) /\ Len(b) = Len(s) - k + 1
        /\ \A i \in 1..Len(s) - k + 1 : b[i] = s[i + k - 1]
    BY <1>1
  <1> DEFINE c == a \o <<e>>
             d == c \o b
  <1>4. InsertAt(s, k, e) = d
    BY DEF InsertAt
  <1> HIDE DEF a, b
  <1>5. /\ c \in Seq(S) /\ Len(c) = k
        /\ \A i \in 1..k : c[i] = IF i < k THEN s[i] ELSE e
    BY <1>1, <1>2
  <1> HIDE DEF c
  <1>6. /\ Len(d) = Len(c) + Len(b)
        /\ \A i \in 1..Len(c) + Len(b) : d[i] = IF i <= Len(c) THEN c[i] ELSE b[i - Len(c)]
    <2>1. c \in Seq(S) /\ b \in Seq(S)
      BY <1>3, <1>5
    <2> QED BY <2>1
  <1> HIDE DEF d
  <1>7. ASSUME NEW i \in 1..Len(s) + 1
        PROVE  d[i] = IF i < k THEN s[i] ELSE IF i = k THEN e ELSE s[i - 1]
    <2>1. d[i] = IF i <= k THEN c[i] ELSE b[i - k]
      BY <1>1, <1>3, <1>5, <1>6
    <2>2. CASE i <= k
      BY <1>1, <1>5, <2>1, <2>2
    <2>3. CASE ~ (i <= k)
      <3>1. i - k \in 1..Len(s) - k + 1 /\ (i - k) + k - 1 = i - 1
        BY <1>1, <2>3
      <3>2. b[i - k] = s[i - 1]
        BY <1>3, <3>1
      <3> QED BY <1>1, <2>1, <2>3, <3>2
    <2> QED BY <2>2, <2>3
  <1> QED BY <1>1, <1>3, <1>4, <1>5, <1>6, <1>7

\* What is left of a queue once its first k elements are taken.
LEMMA RestFacts ==
  ASSUME NEW S, NEW s \in Seq(S), NEW k \in 0..Len(s)
  PROVE  /\ Len(SubSeq(s, k + 1, Len(s))) = Len(s) - k
         /\ DOMAIN SubSeq(s, k + 1, Len(s)) = 1..Len(s) - k
         /\ \A i \in 1..Len(s) - k : SubSeq(s, k + 1, Len(s))[i] = s[k + i]
  OBVIOUS

\* A queue that lost some of its timers, or none, is still in order.
LEMMA TimersThin ==
  ASSUME TimerInv, TypeInv', NEW J \in [DOMAIN timer_queue' -> DOMAIN timer_queue],
         \A i, j \in DOMAIN timer_queue' : i < j => J[i] < J[j],
         \A i \in DOMAIN timer_queue' :
           /\ timer_queue'[i] = timer_queue[J[i]]
           /\ state'[timer_queue'[i]] = state[timer_queue'[i]]
           /\ left'[timer_queue'[i]] = left[timer_queue'[i]]
  PROVE  TimerPlaced'
  <1>1. \A i, j \in DOMAIN timer_queue' : i < j \/ j < i \/ i = j
    BY DEF TypeInv, TypeOK
  <1>2. \A i, j \in DOMAIN timer_queue' : timer_queue'[i] = timer_queue'[j] => J[i] = J[j]
    BY DEF TimerInv, TimerPlaced
  <1>3. \A i, j \in DOMAIN timer_queue : i < j => i # j
    BY DEF TimerInv, TypeInv, TypeOK
  <1>4. \A i, j \in DOMAIN timer_queue' : timer_queue'[i] = timer_queue'[j] => i = j
    BY <1>1, <1>2, <1>3
  <1>5. \A i \in DOMAIN timer_queue' : state'[timer_queue'[i]] = "TIMING"
    BY DEF TimerInv, TimerPlaced
  <1>6. \A i, j \in DOMAIN timer_queue' :
          i < j => left'[timer_queue'[i]] <= left'[timer_queue'[j]]
    BY DEF TimerInv, TimerPlaced
  <1> QED BY <1>4, <1>5, <1>6 DEF TimerPlaced

\* Requests and mode changes leave the timers alone.
LEMMA TimersOutside ==
  ASSUME TimerInv, ReqStep \/ ModeStep \/ (\E e \in Req \cup ModeChange : Test(e))
  PROVE  /\ UNCHANGED <<timer_queue, left>>
         /\ \A t \in Timer : state'[t] = state[t]
  <1>t. /\ TypeInv /\ \A t \in Timer : t \in Elem \ ModeChange /\ t \notin Req
        /\ mode_queue \in Seq(ModeChange)
    BY SchedulerAssumption DEF TimerInv, TypeInv, TypeOK, Elem
  <1>0. UNCHANGED <<timer_queue, left>>
    BY DEF ReqStep, ModeStep, Post, PostBypass, ReleaseBypass, Release, Unpost, ChangeMode,
           ReleaseMode, UnpostMode, Test
  <1>1. ASSUME NEW r \in Req, \E h \in Handle, c \in Class : Post(r, h, c[1], c[2])
        PROVE  \A t \in Timer : state'[t] = state[t]
    BY <1>1, <1>t DEF Post, TypeInv, TypeOK
  <1>2. ASSUME NEW r \in Req, ReleaseBypass(r) \/ \E c \in Class : PostBypass(r, c[1], c[2])
        PROVE  \A t \in Timer : state'[t] = state[t]
    BY <1>2 DEF ReleaseBypass, PostBypass
  <1>3. ASSUME NEW r \in Req, Release(r) \/ Unpost(r)
        PROVE  \A t \in Timer : state'[t] = state[t]
    <2>1. PICK h \in Handle : \E k \in DOMAIN queue[h] :
            \E n \in 0..Len(RemoveAt(queue[h], k)), rq \in {ready_queue, Unlinked(r)} :
              ScheduleModeChange(Woken(r, RemoveAt(queue[h], k), n),
                                 rq \o SubSeq(RemoveAt(queue[h], k), 1, n),
                                 mode_queue, sched_count - 1)
      BY <1>3 DEF Release, Unpost
    <2>2. PICK k \in DOMAIN queue[h] :
            \E n \in 0..Len(RemoveAt(queue[h], k)), rq \in {ready_queue, Unlinked(r)} :
              ScheduleModeChange(Woken(r, RemoveAt(queue[h], k), n),
                                 rq \o SubSeq(RemoveAt(queue[h], k), 1, n),
                                 mode_queue, sched_count - 1)
      BY <2>1
    <2> DEFINE q == RemoveAt(queue[h], k)
    <2>3. q \in Seq(Req)
      BY <1>t, RemoveAtFacts DEF TypeInv, TypeOK
    <2>4. PICK n \in 0..Len(q), rq \in {ready_queue, Unlinked(r)} :
            ScheduleModeChange(Woken(r, q, n), rq \o SubSeq(q, 1, n), mode_queue,
                               sched_count - 1)
      BY <2>2
    <2> HIDE DEF q
    <2>5. rq \in Seq(Req \cup ModeChange)
      BY <1>t, <2>4, UnlinkedFacts DEF TypeInv, TypeOK
    <2>6. SubSeq(q, 1, n) \in Seq(Req \cup ModeChange)
      BY <2>3
    <2>7. rq \o SubSeq(q, 1, n) \in Seq(Req \cup ModeChange)
      BY <2>5, <2>6
    <2>8. Woken(r, q, n) \in [Elem -> State]
      BY <1>t DEF Woken, TypeInv, TypeOK, State
    <2>9. \A t \in Timer : state'[t] = Woken(r, q, n)[t]
      BY <1>t, <2>4, <2>7, <2>8, ScheduleModeChangeFacts
    <2>10. \A t \in Timer : Woken(r, q, n)[t] = state[t]
      <3>1. \A i \in 1..n : q[i] \in Req
        BY <2>3
      <3> QED BY <1>t, <3>1 DEF Woken
    <2> QED BY <2>9, <2>10
  <1>4. ASSUME NEW m \in ModeChange, \E md \in Mode : ChangeMode(m, md)
        PROVE  \A t \in Timer : state'[t] = state[t]
    BY <1>4, <1>t DEF ChangeMode, TypeInv, TypeOK
  <1>5. ASSUME NEW m \in ModeChange, ReleaseMode(m) \/ UnpostMode(m)
        PROVE  \A t \in Timer : state'[t] = state[t]
    <2> DEFINE st == [state EXCEPT ![m] = "FREE"]
    <2>1. PICK k \in DOMAIN mode_queue, rq \in {ready_queue, Unlinked(m)} :
            ScheduleModeChange(st, rq, RemoveAt(mode_queue, k), sched_count)
      BY <1>5 DEF ReleaseMode, UnpostMode
    <2>2. /\ RemoveAt(mode_queue, k) \in Seq(ModeChange)
          /\ rq \in Seq(Req \cup ModeChange)
      BY <1>t, <2>1, RemoveAtFacts, UnlinkedFacts DEF TypeInv, TypeOK
    <2>3. st \in [Elem -> State] /\ \A t \in Timer : st[t] = state[t]
      BY <1>t DEF TypeInv, TypeOK, State
    <2> HIDE DEF st
    <2>4. \A t \in Timer : state'[t] = st[t]
      BY <1>t, <2>1, <2>2, <2>3, ScheduleModeChangeFacts
    <2> QED BY <2>3, <2>4
  <1>6. ASSUME NEW e \in Req \cup ModeChange, Test(e)
        PROVE  \A t \in Timer : state'[t] = state[t]
    BY <1>6, <1>t DEF Test, TypeInv, TypeOK
  <1>7. \A t \in Timer : state'[t] = state[t]
    BY <1>1, <1>2, <1>3, <1>4, <1>5, <1>6 DEF ReqStep, ModeStep
  <1> QED BY <1>0, <1>7

\* post_timer inserts by deadline; the other steps only take timers off, or
\* let time pass for all of them.
LEMMA TimerKept ==
  ASSUME TimerInv, TypeInv', TimerStep \/ TestWorld
  PROVE  TimerPlaced'
  <1>t. /\ timer_queue \in Seq(Timer) /\ timer_queue' \in Seq(Timer)
        /\ state \in [Elem -> State] /\ left \in [Timer -> Int]
        /\ DOMAIN timer_queue = 1..Len(timer_queue) /\ Len(timer_queue) \in Nat
        /\ DOMAIN timer_queue' = 1..Len(timer_queue') /\ Len(timer_queue') \in Nat
        /\ \A i \in DOMAIN timer_queue : timer_queue[i] \in Timer
        /\ \A i \in DOMAIN timer_queue' : timer_queue'[i] \in Timer
    BY DEF TimerInv, TypeInv, TypeOK
  <1>e. \A t \in Timer : t \in Elem /\ t \notin ModeChange /\ t \notin Req
    BY SchedulerAssumption DEF Elem
  <1>p. TimerPlaced
    BY DEF TimerInv
  <1>1. ASSUME NEW t \in Timer, NEW d \in Delay, PostTimer(t, d)
        PROVE  TimerPlaced'
    <2>1. PICK k \in 1..Len(timer_queue) + 1 :
            TimerSlot(d, k) /\ timer_queue' = InsertAt(timer_queue, k, t)
      BY <1>1 DEF PostTimer
    <2>2. /\ Len(timer_queue') = Len(timer_queue) + 1
          /\ \A i \in 1..Len(timer_queue) + 1 :
               timer_queue'[i] = IF i < k THEN timer_queue[i]
                                 ELSE IF i = k THEN t ELSE timer_queue[i - 1]
      <3>1. timer_queue \in Seq(Timer) /\ timer_queue' = InsertAt(timer_queue, k, t)
        BY <1>t, <2>1
      <3> QED BY <3>1, InsertAtFacts
    <2>3. \A i \in DOMAIN timer_queue : timer_queue[i] # t
      BY <1>1, <1>p DEF PostTimer, TimerPlaced
    <2>4. state'[t] = "TIMING" /\ left'[t] = d /\ d \in Int
      BY <1>1, <1>t, <1>e, SchedulerAssumption DEF PostTimer
    <2>5. \A x \in Timer : x # t => state'[x] = state[x] /\ left'[x] = left[x]
      BY <1>1, <1>t, <1>e DEF PostTimer
    <2>6. /\ \A i \in 1..k - 1 : left[timer_queue[i]] <= d
          /\ \A i \in k..Len(timer_queue) : left[timer_queue[i]] > d
      <3>1. /\ \A i \in 1..k - 1 : left[timer_queue[i]] <= d
            /\ k <= Len(timer_queue) => left[timer_queue[k]] > d
        BY <2>1 DEF TimerSlot
      <3>2. ASSUME NEW i \in k..Len(timer_queue) PROVE left[timer_queue[i]] > d
        <4>1. k \in DOMAIN timer_queue /\ i \in DOMAIN timer_queue /\ (i = k \/ k < i)
          BY <1>t, <2>1
        <4>2. i = k \/ left[timer_queue[k]] <= left[timer_queue[i]]
          BY <1>p, <4>1 DEF TimerPlaced
        <4>3. left[timer_queue[k]] \in Int /\ left[timer_queue[i]] \in Int
          BY <1>t, <4>1
        <4>4. left[timer_queue[k]] > d
          BY <1>t, <3>1, <4>1
        <4> QED BY <2>4, <4>2, <4>3, <4>4
      <3> QED BY <3>1, <3>2
    <2> DEFINE O(i) == IF i < k THEN i ELSE i - 1
    <2>7. ASSUME NEW i \in DOMAIN timer_queue', i # k
          PROVE  /\ O(i) \in DOMAIN timer_queue /\ timer_queue'[i] = timer_queue[O(i)]
                 /\ state'[timer_queue'[i]] = "TIMING"
                 /\ left'[timer_queue'[i]] = left[timer_queue[O(i)]]
                 /\ left[timer_queue[O(i)]] \in Int
                 /\ timer_queue'[i] # t
      <3>1. O(i) \in DOMAIN timer_queue /\ timer_queue'[i] = timer_queue[O(i)]
        BY <1>t, <2>1, <2>2, <2>7
      <3>2. timer_queue[O(i)] \in Timer /\ timer_queue[O(i)] # t
            /\ state[timer_queue[O(i)]] = "TIMING"
        BY <1>t, <1>p, <2>3, <3>1 DEF TimerPlaced
      <3> QED BY <1>t, <2>5, <3>1, <3>2
    <2>8. k \in DOMAIN timer_queue' /\ timer_queue'[k] = t
      BY <1>t, <2>1, <2>2
    <2>9. \A i \in DOMAIN timer_queue' : state'[timer_queue'[i]] = "TIMING"
      BY <2>4, <2>7, <2>8
    <2>10. ASSUME NEW i \in DOMAIN timer_queue', NEW j \in DOMAIN timer_queue',
                  timer_queue'[i] = timer_queue'[j]
           PROVE  i = j
      <3>1. CASE i = k \/ j = k
        BY <2>7, <2>8, <2>10, <3>1
      <3>2. CASE i # k /\ j # k
        <4>1. O(i) = O(j)
          BY <1>p, <2>7, <2>10, <3>2 DEF TimerPlaced
        <4> QED BY <1>t, <2>1, <3>2, <4>1
      <3> QED BY <3>1, <3>2
    <2>11. ASSUME NEW i \in DOMAIN timer_queue', NEW j \in DOMAIN timer_queue', i < j
           PROVE  left'[timer_queue'[i]] <= left'[timer_queue'[j]]
      <3>0. i \in Nat /\ j \in Nat /\ k \in Nat /\ j <= Len(timer_queue) + 1 /\ i >= 1
        BY <1>t, <2>1, <2>2
      <3>1. CASE i = k
        <4>1. j # k /\ O(j) = j - 1 /\ j - 1 \in k..Len(timer_queue)
          BY <2>11, <3>0, <3>1
        <4>2. left[timer_queue[j - 1]] > d
          BY <2>6, <4>1
        <4> QED BY <2>4, <2>7, <2>8, <3>1, <4>1, <4>2
      <3>2. CASE j = k
        <4>1. i # k /\ O(i) = i /\ i \in 1..k - 1
          BY <2>11, <3>0, <3>2
        <4>2. left[timer_queue[i]] <= d
          BY <2>6, <4>1
        <4> QED BY <2>4, <2>7, <2>8, <3>2, <4>1, <4>2
      <3>3. CASE i # k /\ j # k
        <4>1. O(i) < O(j)
          BY <2>11, <3>0, <3>3
        <4>2. left[timer_queue[O(i)]] <= left[timer_queue[O(j)]]
          BY <1>p, <2>7, <3>3, <4>1 DEF TimerPlaced
        <4> QED BY <2>7, <3>3, <4>2
      <3> QED BY <3>1, <3>2, <3>3
    <2> QED BY <2>9, <2>10, <2>11 DEF TimerPlaced
  <1>2. ASSUME NEW t \in Timer, UnpostTimer(t) \/ TestTimer(t)
        PROVE  TimerPlaced'
    <2>1. PICK k \in DOMAIN timer_queue :
            timer_queue[k] = t /\ timer_queue' = RemoveAt(timer_queue, k)
      BY <1>2 DEF UnpostTimer, TestTimer
    <2>2. /\ Len(timer_queue') = Len(timer_queue) - 1
          /\ \A i \in 1..Len(timer_queue) - 1 :
               timer_queue'[i] = IF i < k THEN timer_queue[i] ELSE timer_queue[i + 1]
      BY <1>t, <2>1, RemoveAtFacts
    <2>3. \A x \in Timer : x # t => state'[x] = state[x] /\ left'[x] = left[x]
      <3>1. CASE TestTimer(t)
        BY <1>t, <1>e, <3>1 DEF TestTimer
      <3>2. CASE UnpostTimer(t)
        <4> DEFINE st == [state EXCEPT ![t] = "FREE"]
        <4>1. /\ ScheduleModeChange(st, ready_queue, mode_queue, sched_count)
              /\ left' = [left EXCEPT ![t] = -1]
          BY <3>2 DEF UnpostTimer
        <4>2. st \in [Elem -> State] /\ \A x \in Timer : x # t => st[x] = state[x]
          BY <1>t, <1>e DEF State
        <4>3. mode_queue \in Seq(ModeChange) /\ ready_queue \in Seq(Req \cup ModeChange)
          BY DEF TimerInv, TypeInv, TypeOK
        <4> HIDE DEF st
        <4>4. \A e \in Elem \ ModeChange : state'[e] = st[e]
          BY <4>1, <4>2, <4>3, ScheduleModeChangeFacts
        <4> QED BY <1>t, <1>e, <4>1, <4>2, <4>4
      <3> QED BY <1>2, <3>1, <3>2
    <2> DEFINE J == [i \in DOMAIN timer_queue' |-> IF i < k THEN i ELSE i + 1]
    <2>4. /\ J \in [DOMAIN timer_queue' -> DOMAIN timer_queue]
          /\ \A i, j \in DOMAIN timer_queue' : i < j => J[i] < J[j]
          /\ \A i \in DOMAIN timer_queue' : timer_queue'[i] = timer_queue[J[i]] /\ J[i] # k
      <3>1. k \in 1..Len(timer_queue)
        BY <1>t, <2>1
      <3>2. ASSUME NEW i \in DOMAIN timer_queue'
            PROVE  /\ J[i] \in DOMAIN timer_queue /\ J[i] # k
                   /\ timer_queue'[i] = timer_queue[J[i]]
        <4>1. i \in 1..Len(timer_queue) - 1 /\ J[i] = IF i < k THEN i ELSE i + 1
          BY <1>t, <2>2
        <4>2. i \in Int /\ k \in Int /\ Len(timer_queue) \in Nat
          BY <1>t, <3>1, <4>1
        <4>3. J[i] \in 1..Len(timer_queue) /\ J[i] # k
          BY <3>1, <4>1, <4>2
        <4>4. timer_queue'[i] = IF i < k THEN timer_queue[i] ELSE timer_queue[i + 1]
          BY <2>2, <4>1
        <4>5. timer_queue'[i] = timer_queue[J[i]]
          BY <4>1, <4>4
        <4> QED BY <1>t, <4>3, <4>5
      <3>3. \A i, j \in DOMAIN timer_queue' : i < j => J[i] < J[j]
        BY <1>t, <3>1
      <3> QED BY <3>2, <3>3
    <2> HIDE DEF J
    <2>5. \A i \in DOMAIN timer_queue' : timer_queue'[i] # t /\ timer_queue'[i] \in Timer
      BY <1>t, <1>p, <2>1, <2>4 DEF TimerPlaced
    <2> QED BY <2>3, <2>4, <2>5, TimersThin
  <1>3. CASE Tick
    <2>1. /\ UNCHANGED <<timer_queue, state>>
          /\ left' = [t \in Timer |-> IF left[t] >= 0 THEN left[t] - 1 ELSE left[t]]
      BY <1>3 DEF Tick
    <2>2. ASSUME NEW a \in Timer, NEW b \in Timer, left[a] <= left[b]
          PROVE  left'[a] <= left'[b]
      <3>1. left[a] \in Int /\ left[b] \in Int
        BY <1>t
      <3> QED BY <2>1, <2>2, <3>1
    <2> QED BY <1>t, <1>p, <2>1, <2>2 DEF TimerPlaced
  <1>4. CASE TestWorld
    <2>1. PICK k \in 0..Len(timer_queue), n \in 0..Len(ready_queue) :
            LET Fired(e)  == \E i \in 1..k : timer_queue[i] = e
                Picked(e) == \E i \in 1..n : ready_queue[i] = e
            IN  /\ timer_queue' = SubSeq(timer_queue, k + 1, Len(timer_queue))
                /\ state' = [e \in Elem |-> IF Fired(e) THEN "FREE"
                                            ELSE IF Picked(e) THEN "SCHEDULED"
                                            ELSE state[e]]
                /\ left' = [t \in Timer |-> IF Fired(t) THEN -1 ELSE left[t]]
      BY <1>4 DEF TestWorld
    <2>2. /\ Len(timer_queue') = Len(timer_queue) - k
          /\ \A i \in 1..Len(timer_queue) - k : timer_queue'[i] = timer_queue[k + i]
      <3>1. timer_queue' = SubSeq(timer_queue, k + 1, Len(timer_queue))
        BY <2>1
      <3> QED BY <1>t, <3>1, RestFacts
    <2>3. \A i \in 1..n : ready_queue[i] \notin Timer
      BY <1>e DEF TimerInv, TypeInv, TypeOK
    <2> DEFINE J == [i \in DOMAIN timer_queue' |-> k + i]
    <2>4. /\ J \in [DOMAIN timer_queue' -> DOMAIN timer_queue]
          /\ \A i, j \in DOMAIN timer_queue' : i < j => J[i] < J[j]
          /\ \A i \in DOMAIN timer_queue' : timer_queue'[i] = timer_queue[J[i]] /\ J[i] > k
      <3>1. k \in Nat /\ k <= Len(timer_queue)
        BY <1>t
      <3>2. ASSUME NEW i \in DOMAIN timer_queue'
            PROVE  /\ J[i] \in DOMAIN timer_queue /\ J[i] > k
                   /\ timer_queue'[i] = timer_queue[J[i]]
        <4>1. i \in 1..Len(timer_queue) - k /\ J[i] = k + i
          BY <1>t, <2>2
        <4>2. k + i \in 1..Len(timer_queue) /\ k + i > k
          BY <1>t, <3>1, <4>1
        <4>3. timer_queue'[i] = timer_queue[k + i]
          BY <2>2, <4>1
        <4> QED BY <1>t, <4>1, <4>2, <4>3
      <3>3. \A i, j \in DOMAIN timer_queue' : i < j => J[i] < J[j]
        BY <1>t, <3>1
      <3> QED BY <3>2, <3>3
    <2> HIDE DEF J
    <2>5. ASSUME NEW i \in DOMAIN timer_queue'
          PROVE  /\ state'[timer_queue'[i]] = state[timer_queue'[i]]
                 /\ left'[timer_queue'[i]] = left[timer_queue'[i]]
      <3>1. timer_queue'[i] \in Timer /\ timer_queue'[i] \in Elem
        BY <1>t, <1>e
      <3>2. \A m \in 1..k : timer_queue[m] # timer_queue'[i]
        <4>1. \A m \in 1..k : m \in DOMAIN timer_queue /\ m # J[i]
          <5>1. k \in 0..Len(timer_queue) /\ J[i] \in DOMAIN timer_queue /\ J[i] > k
            BY <2>4
          <5> QED BY <1>t, <5>1
        <4> QED BY <1>p, <2>4, <4>1 DEF TimerPlaced
      <3> QED BY <2>1, <2>3, <3>1, <3>2
    <2> QED BY <2>4, <2>5, TimersThin
  <1> QED BY <1>1, <1>2, <1>3, <1>4 DEF TimerStep

\* The timer queue is in order in every state.
LEMMA TimersInOrder == Spec => []TimerInv
  <1>1. Init => TimerInv
    <2>1. Init => TimerPlaced
      BY DEF Init, TimerPlaced
    <2> QED BY <2>1, TypeInit DEF TimerInv
  <1>2. TimerInv /\ [Next]_vars => TimerInv'
    <2> SUFFICES ASSUME TimerInv, [Next]_vars PROVE TimerInv'
      OBVIOUS
    <2>1. TypeInv'
      BY TypeNext DEF TimerInv
    <2>2. CASE ReqStep \/ ModeStep \/ \E e \in Req \cup ModeChange : Test(e)
      <3>1. UNCHANGED <<timer_queue, left>> /\ \A t \in Timer : state'[t] = state[t]
        BY <2>2, TimersOutside
      <3>2. \A i \in DOMAIN timer_queue : timer_queue[i] \in Timer
        BY DEF TimerInv, TypeInv, TypeOK
      <3> QED BY <2>1, <3>1, <3>2 DEF TimerInv, TimerPlaced
    <2>3. CASE TimerStep \/ TestWorld
      BY <2>1, <2>3, TimerKept DEF TimerInv
    <2>4. CASE UNCHANGED vars
      BY <2>1, <2>4 DEF vars, TimerInv, TimerPlaced
    <2> QED BY <2>2, <2>3, <2>4 DEF Next
  <1> QED BY <1>1, <1>2, PTL DEF Spec

\* PINT_req_sched_testworld stops at the first timer that has not expired; as
\* the queue is in order of deadlines it leaves none behind that has.
THEOREM NoTimerOverlookedHolds == Spec => NoTimerOverlooked
  <1> DEFINE Few == Len(timer_queue) - Len(timer_queue')
                      + Len(ready_queue) - Len(ready_queue') < WorkMetric
             Rest == \A i \in DOMAIN timer_queue' : left[timer_queue'[i]] > 0
  <1>1. TimerInv /\ TypeInv' => (TestWorld /\ Few => Rest)
    <2> SUFFICES ASSUME TimerInv, TypeInv', TestWorld, Few, NEW i \in DOMAIN timer_queue'
                 PROVE  left[timer_queue'[i]] > 0
      OBVIOUS
    <2>t. /\ timer_queue \in Seq(Timer) /\ timer_queue' \in Seq(Timer)
          /\ ready_queue \in Seq(Req \cup ModeChange) /\ left \in [Timer -> Int]
          /\ DOMAIN timer_queue = 1..Len(timer_queue) /\ Len(timer_queue) \in Nat
          /\ Len(ready_queue) \in Nat
      BY DEF TimerInv, TypeInv, TypeOK
    <2>1. PICK k \in 0..Len(timer_queue), n \in 0..Len(ready_queue) :
            /\ Reaps(k, n)
            /\ timer_queue' = SubSeq(timer_queue, k + 1, Len(timer_queue))
            /\ ready_queue' = SubSeq(ready_queue, n + 1, Len(ready_queue))
      BY DEF TestWorld
    <2>2. /\ Len(timer_queue') = Len(timer_queue) - k
          /\ DOMAIN timer_queue' = 1..Len(timer_queue) - k
          /\ \A m \in 1..Len(timer_queue) - k : timer_queue'[m] = timer_queue[k + m]
          /\ Len(ready_queue') = Len(ready_queue) - n
      <3>1. /\ timer_queue' = SubSeq(timer_queue, k + 1, Len(timer_queue))
            /\ ready_queue' = SubSeq(ready_queue, n + 1, Len(ready_queue))
        BY <2>1
      <3> QED BY <2>t, <3>1, RestFacts
    <2>3. k < WorkMetric /\ k + 1 \in DOMAIN timer_queue /\ k + i \in DOMAIN timer_queue
      <3>1. k \in Nat /\ n \in Nat /\ WorkMetric \in Nat /\ i \in 1..Len(timer_queue) - k
        BY <2>t, <2>2, SchedulerAssumption
      <3>2. k + n < WorkMetric
        BY <2>t, <2>2, <3>1
      <3> QED BY <2>t, <3>1, <3>2
    <2>4. left[timer_queue[k + 1]] > 0
      BY <2>t, <2>1, <2>3 DEF Reaps
    <2>5. i = 1 \/ k + 1 < k + i
      <3>1. i \in 1..Len(timer_queue) - k
        BY <2>2
      <3>2. k \in Nat /\ i \in Nat /\ i >= 1
        BY <2>t, <3>1
      <3> QED BY <3>2
    <2>6. i = 1 \/ left[timer_queue[k + 1]] <= left[timer_queue[k + i]]
      BY <2>3, <2>5 DEF TimerInv, TimerPlaced
    <2>7. left[timer_queue[k + 1]] \in Int /\ left[timer_queue[k + i]] \in Int
      BY <2>t, <2>3
    <2>8. left[timer_queue[k + i]] > 0
      BY <2>4, <2>6, <2>7
    <2> QED BY <2>2, <2>8
  <1>2. TimerInv => TypeInv
    BY DEF TimerInv
  <1>3. TimerInv /\ TimerInv' => [(TestWorld /\ Few) => Rest]_vars
    BY <1>1 DEF TimerInv
  <1> QED BY <1>3, TimersInOrder, PTL DEF NoTimerOverlooked
=============================================================================
