------------------------- MODULE MsgPairArrayProofs -------------------------
(***************************************************************************)
(* Proofs about MsgPairArray, for any number of pairs and of retries and   *)
(* however postings fail or break off: how far the count of pending jobs   *)
(* is exact, and that no late answer is taken for a current one.           *)
(***************************************************************************)
EXTENDS MsgPairArray, FiniteSetTheorems, WellFoundedInduction, TLAPS

-----------------------------------------------------------------------------
(* The inductive invariant.                                                *)

\* What TypeOK leaves open: the responses and the messages under way.
Typed ==
  /\ TypeOK
  /\ resp \in [Pairs -> [tag : Nat, attempt : Nat, status : {"none", "ok", "server"}]]
  /\ \A m \in net : /\ m.pair \in Pairs /\ m.tag \in Nat /\ m.attempt \in Nat
                    /\ m.kind = "resp" => m.status \in {"ok", "server"}

\* No tag in use lies in the future.
TagsPast ==
  /\ \A i \in Pairs : session_tag[i] <= next_tag
  /\ \A m \in net : m.tag <= next_tag

\* Only incomplete pairs have jobs.
Jobs == send \cup recv \subseteq Incomplete

\* The machine decodes when nothing is pending, and not before.
Waited == at = "completion_fn" => comp_ct = 0

\* A machine that owes jobs waits for them, and one that has posted pairs it has
\* not counted is not followed.
Stopped == owed < 0 => at \in {"post", "post_retry"}

\* A message that a receive may take belongs to the last posting of its pair.
Tagged ==
  \A m \in net : m.pair \in recv /\ m.tag = session_tag[m.pair]
                   => m.attempt = retry_count[m.pair]

\* A pair whose receive is over and that has not failed has its response.
Answered ==
  owed = 0 /\ at \in {"complete", "completion_fn"} =>
    \A i \in Incomplete \ recv :
      op_status[i] = "ok" => /\ resp[i].attempt = retry_count[i]
                             /\ resp[i].status \in {"ok", "server"}

\* Success means that every pair has its response (Ends, without the liveness).
SuccessIsComplete == at = "done" /\ error_code = "ok" => \A i \in Pairs : complete[i]

MsgInv ==
  /\ Typed /\ TagsPast /\ Jobs /\ Waited /\ Stopped
  /\ Tagged /\ Answered /\ SuccessIsComplete /\ CompCtExact /\ AnswerIsCurrent

-----------------------------------------------------------------------------
(* Counting.                                                               *)

\* Pairs is finite, and so is every set of pairs (mop->count).
LEMMA PairsFinite == /\ IsFiniteSet(Pairs) /\ Cardinality(Pairs) = Count
                     /\ \A S \in SUBSET Pairs :
                          /\ IsFiniteSet(S) /\ Cardinality(S) \in 0..Count
                          /\ Cardinality(S) = 0 <=> S = {}
<1>1. IsFiniteSet(Pairs) /\ Cardinality(Pairs) = Count
  BY FS_Interval, CountAssumption DEF Pairs
<1>2. ASSUME NEW S \in SUBSET Pairs
      PROVE  /\ IsFiniteSet(S) /\ Cardinality(S) \in 0..Count
             /\ Cardinality(S) = 0 <=> S = {}
  BY <1>1, <1>2, FS_Subset, FS_EmptySet, FS_CardinalityType, CountAssumption
<1>3. QED
  BY <1>1, <1>2

\* The pairs of one posting fall into those whose receive fails, those of which
\* only the receive is pending, and those of which both jobs are
\* (msgpairarray_post).
LEMMA SplitCount ==
  ASSUME NEW A \in SUBSET Pairs, NEW B \in SUBSET Pairs, NEW C \in SUBSET Pairs,
         A \cap B = {}, A \cap C = {}, B \cap C = {}
  PROVE  /\ Cardinality(A \cup (B \cup C)) = Cardinality(A) + Cardinality(B) + Cardinality(C)
         /\ Cardinality(B \cup C) = Cardinality(B) + Cardinality(C)
<1>1. IsFiniteSet(A) /\ IsFiniteSet(B) /\ IsFiniteSet(C) /\ IsFiniteSet(B \cup C)
  BY PairsFinite
<1>2. Cardinality(A) \in Nat /\ Cardinality(B) \in Nat /\ Cardinality(C) \in Nat
  BY <1>1, FS_CardinalityType
<1>3. Cardinality(B \cup C) = Cardinality(B) + Cardinality(C)
  <2>1. Cardinality(B \cup C) = Cardinality(B) + Cardinality(C) - Cardinality(B \cap C)
    BY <1>1, FS_Union
  <2>2. Cardinality(B \cap C) = 0
    BY FS_EmptySet
  <2>3. QED
    BY <1>2, <2>1, <2>2
<1>4. Cardinality(A \cup (B \cup C)) =
        Cardinality(A) + Cardinality(B \cup C) - Cardinality(A \cap (B \cup C))
  BY <1>1, FS_Union
<1>5. A \cap (B \cup C) = {}
  OBVIOUS
<1>6. Cardinality(A \cap (B \cup C)) = 0
  BY <1>5, FS_EmptySet
<1>7. QED
  BY <1>2, <1>3, <1>4, <1>6

\* Every set of pairs that is not empty has a first pair.
LEMMA FirstIsLeast ==
  ASSUME NEW S \in SUBSET Pairs, S # {}
  PROVE  First(S) \in S
<1>1. PICK x \in S : \A y \in S : ~ (<<y, x>> \in OpToRel(<, Nat))
  <2>1. S \subseteq Nat
    BY CountAssumption DEF Pairs
  <2>2. QED
    BY <2>1, NatLessThanWellFounded, WFMin
<1>2. \A y \in S : <<y, x>> \in OpToRel(<, Nat) <=> y < x
  BY CountAssumption DEF OpToRel, Pairs
<1>3. \A y \in S : ~ (y < x)
  BY <1>1, <1>2, Zenon
<1>4. \A y \in S : x <= y
  BY <1>3, CountAssumption DEF Pairs
<1>5. QED
  BY <1>4 DEF First

\* A completion leaves one job less (msgpairarray_complete).
LEMMA OneLess ==
  ASSUME NEW S \in SUBSET Pairs, NEW i \in S
  PROVE  Cardinality(S \ {i}) = Cardinality(S) - 1 /\ Cardinality(S) \in Nat
BY PairsFinite, FS_RemoveElement, FS_CardinalityType

-----------------------------------------------------------------------------
(* The steps.                                                              *)

\* MsgInv holds of what msgpairarray_init leaves behind.
LEMMA MsgInit == Init => MsgInv
<1> SUFFICES ASSUME Init PROVE MsgInv
  OBVIOUS
<1>1. Incomplete = Pairs
  BY DEF Init, Incomplete
<1>2. Typed
  BY CountAssumption, RetryAssumption DEF Init, Typed, TypeOK, NoResp, Statuses
<1>3. TagsPast /\ Jobs /\ Waited /\ Stopped /\ SuccessIsComplete
  BY DEF Init, TagsPast, Jobs, Waited, Stopped, SuccessIsComplete, Incomplete
<1>3a. Tagged /\ Answered
  BY DEF Init, Tagged, Answered
<1>3b. AnswerIsCurrent
  BY DEF Init, AnswerIsCurrent
<1>4. CompCtExact
  BY <1>1, PairsFinite DEF Init, CompCtExact
<1>5. QED
  BY <1>2, <1>3, <1>3a, <1>3b, <1>4 DEF MsgInv

\* What msgpairarray_post does for the pairs S it comes to: each gets a new tag,
\* and the jobs pending afterwards are the ones that remain counted for S.
LEMMA PostJobsStep ==
  ASSUME MsgInv, at = "post", NEW S \in SUBSET Incomplete,
         NEW out \in [S -> Outcomes], PostJobs(S, out),
         complete' = complete, retry_count' = retry_count, resp' = resp
  PROVE  /\ Remaining(S, out) = comp_ct - 2 * Cardinality(S)
                                  + Cardinality(send') + Cardinality(recv')
         /\ Cardinality(send') \in 0..Cardinality(S) /\ Cardinality(recv') \in 0..Cardinality(S)
         /\ send' \subseteq S /\ recv' \subseteq S /\ alloc' \subseteq Pairs
         /\ Incomplete' = Incomplete /\ Jobs' /\ TagsPast' /\ Tagged'
         /\ session_tag' \in [Pairs -> Nat] /\ next_tag' \in Nat
         /\ \A m \in net' : /\ m.pair \in Pairs /\ m.tag \in Nat /\ m.attempt \in Nat
                            /\ m.kind = "resp" => m.status \in {"ok", "server"}
<1>1. /\ session_tag' = [i \in Pairs |-> IF i \in S THEN NewTag(i) ELSE session_tag[i]]
      /\ next_tag' = next_tag + Count
      /\ recv' = {i \in S : out[i] # "recv_fails"}
      /\ send' = {i \in S : out[i] = "posted"}
      /\ alloc' \subseteq alloc \cup S
      /\ net' = net \cup {Message("req", i, NewTag(i), retry_count[i], "none") :
                              i \in {j \in S : out[j] \in {"sent", "posted"}}}
  BY DEF PostJobs
<1> DEFINE A == {i \in S : out[i] = "recv_fails"}
           B == {i \in S : out[i] \in {"send_fails", "sent"}}
           C == {i \in S : out[i] = "posted"}
<1>3. Incomplete' = Incomplete /\ Incomplete \subseteq Pairs /\ S \subseteq Pairs
  BY DEF Incomplete
<1>4. /\ Cardinality(S) = Cardinality(A) + Cardinality(B) + Cardinality(C)
      /\ Cardinality(S \ A) = Cardinality(B) + Cardinality(C)
  <2>1. S = A \cup (B \cup C) /\ S \ A = B \cup C
    BY DEF Outcomes
  <2>2. A \cap B = {} /\ A \cap C = {} /\ B \cap C = {}
    OBVIOUS
  <2>3. A \in SUBSET Pairs /\ B \in SUBSET Pairs /\ C \in SUBSET Pairs
    BY <1>3
  <2> HIDE DEF A, B, C
  <2>4. /\ Cardinality(A \cup (B \cup C)) = Cardinality(A) + Cardinality(B) + Cardinality(C)
        /\ Cardinality(B \cup C) = Cardinality(B) + Cardinality(C)
    BY <2>2, <2>3, SplitCount
  <2>5. QED
    BY <2>1, <2>4
<1>5. recv' = S \ A /\ send' = C
  BY <1>1
<1>6. /\ Cardinality(A) \in Nat /\ Cardinality(B) \in Nat
      /\ Cardinality(C) \in Nat /\ Cardinality(S) \in Nat /\ comp_ct \in Nat
  BY <1>3, PairsFinite DEF MsgInv, Typed, TypeOK
<1>7. Remaining(S, out) = comp_ct - 2 * Cardinality(A) - Cardinality(B)
  BY DEF Remaining
<1>8. /\ Remaining(S, out) = comp_ct - 2 * Cardinality(S)
                               + Cardinality(send') + Cardinality(recv')
      /\ Cardinality(send') \in 0..Cardinality(S) /\ Cardinality(recv') \in 0..Cardinality(S)
  <2> HIDE DEF A, B, C
  <2>1. QED
    BY <1>4, <1>5, <1>6, <1>7
<1>9. send' \subseteq S /\ recv' \subseteq S /\ alloc' \subseteq Pairs /\ Jobs'
  BY <1>1, <1>3 DEF MsgInv, Typed, TypeOK, Jobs
<1>10. session_tag' \in [Pairs -> Nat] /\ next_tag' \in Nat
  BY <1>1, CountAssumption DEF MsgInv, Typed, TypeOK, NewTag, Pairs
<1>11. \A m \in net' : /\ m.pair \in Pairs /\ m.tag \in Nat /\ m.attempt \in Nat
                       /\ m.kind = "resp" => m.status \in {"ok", "server"}
  <2> SUFFICES ASSUME NEW m \in net'
               PROVE  /\ m.pair \in Pairs /\ m.tag \in Nat /\ m.attempt \in Nat
                      /\ m.kind = "resp" => m.status \in {"ok", "server"}
    OBVIOUS
  <2>1. CASE m \in net
    BY <2>1 DEF MsgInv, Typed
  <2>2. CASE m \notin net
    <3>1. PICK i \in S : m = Message("req", i, NewTag(i), retry_count[i], "none")
      BY <1>1, <2>2
    <3>2. retry_count[i] \in Nat /\ next_tag + i \in Nat /\ i \in Pairs
      BY <1>3, RetryAssumption DEF MsgInv, Typed, TypeOK, Pairs
    <3>3. QED
      BY <3>1, <3>2 DEF Message, NewTag
  <2>3. QED
    BY <2>1, <2>2
<1>12. TagsPast' /\ Tagged'
  <2>1. \A i \in Pairs : session_tag[i] \in Nat /\ session_tag[i] <= next_tag
    BY DEF MsgInv, TagsPast, Typed, TypeOK
  <2>2. \A i \in Pairs : session_tag'[i] \in Nat /\ session_tag'[i] <= next_tag'
    BY <1>1, <2>1, CountAssumption DEF MsgInv, Typed, TypeOK, NewTag, Pairs
  <2>3. ASSUME NEW m \in net'
        PROVE  m.tag <= next_tag' /\ (m.pair \in recv' /\ m.tag = session_tag'[m.pair]
                                         => m.attempt = retry_count'[m.pair])
    <3>1. CASE m \in net
      <4>1. m.tag \in Nat /\ m.tag <= next_tag /\ m.pair \in Pairs /\ next_tag \in Nat
        BY <3>1 DEF MsgInv, TagsPast, Typed, TypeOK
      <4>2. m.tag <= next_tag'
        BY <1>1, <4>1, CountAssumption
      <4>3. m.pair \in S => session_tag'[m.pair] = next_tag + m.pair
        BY <1>1, <4>1 DEF NewTag
      <4>4. m.pair > 0
        BY <4>1 DEF Pairs
      <4>5. QED
        BY <1>9, <4>1, <4>2, <4>3, <4>4 DEF Pairs
    <3>2. CASE m \notin net
      <4>1. PICK i \in S : m = Message("req", i, NewTag(i), retry_count[i], "none")
        BY <1>1, <3>2
      <4>2. m.tag = next_tag + i /\ m.pair = i /\ m.attempt = retry_count[i] /\ i \in Pairs
        BY <1>3, <4>1 DEF Message, NewTag
      <4>3. next_tag + i <= next_tag + Count
        BY <4>2, CountAssumption DEF Pairs, MsgInv, Typed, TypeOK
      <4>4. QED
        BY <1>1, <4>2, <4>3
    <3>3. QED
      BY <3>1, <3>2
  <2>4. QED
    BY <2>2, <2>3 DEF TagsPast, Tagged
<1>13. QED
  BY <1>3, <1>8, <1>9, <1>10, <1>11, <1>12

\* msgpairarray_post: every incomplete pair is posted, and the jobs that are
\* pending afterwards are the ones counted.
LEMMA PostStep ==
  ASSUME MsgInv, Post
  PROVE  MsgInv'
<1>1. PICK out \in [Todo -> Outcomes], why \in [Todo -> PostErrors] :
           /\ PostJobs(Todo, out)
           /\ op_status' = PostStatus(Todo, out, why)
           /\ comp_ct' = Remaining(Todo, out)
  BY DEF Post
<1>2. /\ at = "post" /\ owed = 0 /\ owed' = 0 /\ error_code' = "ok"
      /\ at' = IF comp_ct' = 0 THEN "completion_fn" ELSE "complete"
      /\ complete' = complete /\ retry_count' = retry_count /\ resp' = resp
  BY DEF Post
<1>3. Todo = Incomplete /\ Incomplete \subseteq Pairs
  BY DEF Todo, Incomplete
<1>4. /\ Remaining(Todo, out) = comp_ct - 2 * Cardinality(Todo)
                                  + Cardinality(send') + Cardinality(recv')
      /\ Cardinality(send') \in 0..Cardinality(Todo) /\ Cardinality(recv') \in 0..Cardinality(Todo)
      /\ send' \subseteq Todo /\ recv' \subseteq Todo /\ alloc' \subseteq Pairs
      /\ Incomplete' = Incomplete /\ Jobs' /\ TagsPast' /\ Tagged'
      /\ session_tag' \in [Pairs -> Nat] /\ next_tag' \in Nat
      /\ \A m \in net' : /\ m.pair \in Pairs /\ m.tag \in Nat /\ m.attempt \in Nat
                         /\ m.kind = "resp" => m.status \in {"ok", "server"}
  BY <1>1, <1>2, <1>3, PostJobsStep
<1>5. Cardinality(Todo) \in 0..Count
  BY <1>3, PairsFinite
<1>6. comp_ct = 2 * Cardinality(Todo)
  BY <1>2, <1>3, <1>5 DEF MsgInv, CompCtExact
<1>7. comp_ct' = Cardinality(send') + Cardinality(recv') /\ comp_ct' \in 0..(2 * Count)
  BY <1>1, <1>4, <1>5, <1>6, CountAssumption
<1>8. CompCtExact'
  <2>1. CASE comp_ct' = 0
    <3>1. Cardinality(send') = 0 /\ Cardinality(recv') = 0
      BY <1>4, <1>5, <1>7, <2>1
    <3>2. send' = {} /\ recv' = {}
      BY <1>3, <1>4, <3>1, PairsFinite
    <3>3. QED
      BY <1>2, <2>1, <3>2 DEF CompCtExact
  <2>2. CASE comp_ct' # 0
    BY <1>2, <1>4, <1>5, <1>7, <2>2 DEF CompCtExact
  <2>3. QED
    BY <2>1, <2>2
<1>9. \A i \in Todo : op_status'[i] = IF out[i] \in {"recv_fails", "send_fails"}
                                      THEN why[i] ELSE "ok"
  BY <1>1, <1>3 DEF PostStatus
<1>10. \A i \in Pairs \ Todo : op_status'[i] = op_status[i]
  BY <1>1 DEF PostStatus
<1>11. Typed'
  <2>1. op_status' \in [Pairs -> Statuses]
    BY <1>1 DEF PostStatus, PostErrors, MsgInv, Typed, TypeOK, Statuses, Errors, BmiErrors
  <2>2. error_code' \in Statuses /\ at' \in {"post", "complete", "completion_fn", "post_retry", "done"}
    BY <1>2 DEF Statuses
  <2>3. send' \subseteq Pairs /\ recv' \subseteq Pairs
    BY <1>3, <1>4
  <2>4. TypeOK'
    BY <1>2, <1>4, <1>7, <2>1, <2>2, <2>3 DEF MsgInv, Typed, TypeOK
  <2>5. resp' \in [Pairs -> [tag : Nat, attempt : Nat, status : {"none", "ok", "server"}]]
    BY <1>2 DEF MsgInv, Typed
  <2>6. \A m \in net' : /\ m.pair \in Pairs /\ m.tag \in Nat /\ m.attempt \in Nat
                        /\ m.kind = "resp" => m.status \in {"ok", "server"}
    BY <1>4, Zenon
  <2>7. QED
    BY <2>4, <2>5, <2>6 DEF Typed
<1>12. Waited' /\ Stopped' /\ SuccessIsComplete'
  BY <1>2 DEF Waited, Stopped, SuccessIsComplete
<1>13. Answered'
  <2> SUFFICES ASSUME NEW i \in Incomplete, i \notin recv' PROVE op_status'[i] # "ok"
    BY <1>4 DEF Answered
  <2>1. out[i] = "recv_fails" /\ why[i] \in PostErrors
    BY <1>1, <1>3 DEF PostJobs
  <2>2. QED
    BY <1>3, <1>9, <2>1 DEF PostErrors
<1>14. AnswerIsCurrent'
  BY <1>2, <1>3, <1>10 DEF AnswerIsCurrent, MsgInv, Incomplete
<1>15. QED
  BY <1>4, <1>8, <1>11, <1>12, <1>13, <1>14 DEF MsgInv

\* A posting breaks off at pair k (msgpairarray_post, the error returns): the
\* pairs from k on stay counted, two jobs each, and msgpairarray_complete takes
\* off only one.
LEMMA PostBreaksStep ==
  ASSUME MsgInv, NEW k \in Pairs, NEW j \in Pairs, PostBreaks(k, j)
  PROVE  MsgInv'
<1> DEFINE before == {i \in Todo : i < k}
           rest == Todo \ before
<1>1. PICK out \in [before -> Outcomes], why \in [before -> PostErrors] :
           /\ PostJobs(before, out)
           /\ op_status' =
                  [i \in Pairs |->
                      LET s == IF i = k THEN "ok"
                               ELSE PostStatus(before, out, why)[i]
                      IN  IF i = j /\ s = "ok" THEN "other" ELSE s]
           /\ comp_ct' = Remaining(before, out) - 1
  BY DEF PostBreaks
<1>2. /\ at = "post" /\ owed = 0 /\ error_code' = "other" /\ k \in Todo
      /\ owed' = 2 * Cardinality(rest) - 1
      /\ at' = IF comp_ct' > 0 THEN "complete" ELSE "completion_fn"
      /\ complete' = complete /\ retry_count' = retry_count /\ resp' = resp
  BY DEF PostBreaks
<1>3. /\ Todo = Incomplete /\ Incomplete \subseteq Pairs /\ before \subseteq Incomplete
      /\ k \in rest /\ rest \subseteq Pairs /\ before \subseteq Pairs
      /\ Todo = {} \cup (before \cup rest) /\ before \cap rest = {}
  BY <1>2 DEF Todo, Incomplete, Pairs
<1> HIDE DEF before, rest
<1>4. /\ Remaining(before, out) = comp_ct - 2 * Cardinality(before)
                                  + Cardinality(send') + Cardinality(recv')
      /\ Cardinality(send') \in 0..Cardinality(before)
      /\ Cardinality(recv') \in 0..Cardinality(before)
      /\ send' \subseteq before /\ recv' \subseteq before /\ alloc' \subseteq Pairs
      /\ Incomplete' = Incomplete /\ Jobs' /\ TagsPast' /\ Tagged'
      /\ session_tag' \in [Pairs -> Nat] /\ next_tag' \in Nat
      /\ \A m \in net' : /\ m.pair \in Pairs /\ m.tag \in Nat /\ m.attempt \in Nat
                         /\ m.kind = "resp" => m.status \in {"ok", "server"}
  BY <1>1, <1>2, <1>3, PostJobsStep
<1>5. Cardinality(Todo) = Cardinality(before) + Cardinality(rest)
  <2>1. Cardinality({} \cup (before \cup rest))
          = Cardinality({}) + Cardinality(before) + Cardinality(rest)
    BY <1>3, SplitCount
  <2>2. Cardinality({}) = 0 /\ Cardinality(before) \in Nat /\ Cardinality(rest) \in Nat
    BY <1>3, FS_EmptySet, PairsFinite
  <2>3. QED
    BY <1>3, <2>1, <2>2
<1>6. /\ Cardinality(Todo) \in 0..Count /\ Cardinality(before) \in 0..Count
      /\ Cardinality(rest) \in 1..Count
  <2>1. Cardinality(rest) # 0
    BY <1>3, PairsFinite
  <2>2. QED
    BY <1>3, <2>1, PairsFinite
<1>7. comp_ct = 2 * Cardinality(Todo)
  BY <1>2, <1>3, <1>6 DEF MsgInv, CompCtExact
<1>8. /\ comp_ct' = Cardinality(send') + Cardinality(recv') + owed'
      /\ comp_ct' \in 0..(2 * Count) /\ comp_ct' > 0 /\ owed' > 0 /\ owed' \in Int
  BY <1>1, <1>2, <1>4, <1>5, <1>6, <1>7, CountAssumption
<1>9. at' = "complete"
  BY <1>2, <1>8
<1>10. CompCtExact' /\ Waited' /\ Stopped' /\ Answered' /\ SuccessIsComplete'
  BY <1>8, <1>9 DEF CompCtExact, Waited, Stopped, Answered, SuccessIsComplete
<1>11. Typed'
  <2>1. PostStatus(before, out, why) \in [Pairs -> Statuses]
    BY <1>1 DEF PostStatus, PostErrors, MsgInv, Typed, TypeOK, Statuses, Errors, BmiErrors
  <2>2. op_status' \in [Pairs -> Statuses]
    BY <1>1, <2>1 DEF Statuses, Errors
  <2>3. error_code' \in Statuses
    BY <1>2 DEF Statuses, Errors
  <2>4. send' \subseteq Pairs /\ recv' \subseteq Pairs
    BY <1>3, <1>4
  <2>5. TypeOK'
    BY <1>2, <1>4, <1>8, <1>9, <2>2, <2>3, <2>4 DEF MsgInv, Typed, TypeOK
  <2>6. resp' \in [Pairs -> [tag : Nat, attempt : Nat, status : {"none", "ok", "server"}]]
    BY <1>2 DEF MsgInv, Typed
  <2>7. \A m \in net' : /\ m.pair \in Pairs /\ m.tag \in Nat /\ m.attempt \in Nat
                        /\ m.kind = "resp" => m.status \in {"ok", "server"}
    BY <1>4, Zenon
  <2>8. QED
    BY <2>5, <2>6, <2>7 DEF Typed
<1>12. AnswerIsCurrent'
  <2>1. ~ (owed' <= 0)
    BY <1>8
  <2>2. QED
    BY <1>2, <2>1 DEF AnswerIsCurrent, MsgInv
<1>13. QED
  BY <1>4, <1>10, <1>11, <1>12 DEF MsgInv

\* One job of a pair is over: its set shrinks by the pair and the count by one.
LEMMA Decrement ==
  ASSUME MsgInv, Decremented, at = "complete", complete' = complete, owed' = owed,
         NEW i \in Pairs,
         \/ i \in send /\ send' = send \ {i} /\ recv' = recv
         \/ i \in recv /\ recv' = recv \ {i} /\ send' = send
  PROVE  /\ CompCtExact' /\ Jobs' /\ Waited' /\ Stopped' /\ Incomplete' = Incomplete
         /\ comp_ct' \in 0..(2 * Count) /\ at' \in {"complete", "completion_fn"}
         /\ send' \subseteq Pairs /\ recv' \subseteq Pairs
<1>1. /\ comp_ct = Cardinality(send) + Cardinality(recv) + owed
      /\ send \in SUBSET Pairs /\ recv \in SUBSET Pairs /\ comp_ct \in 0..(2 * Count)
      /\ owed \in Nat
  BY DEF MsgInv, CompCtExact, Typed, TypeOK, Stopped
<1>2. Cardinality(send) \in Nat /\ Cardinality(recv) \in Nat
  BY <1>1, PairsFinite
<1>3. Cardinality(send') \in Nat /\ Cardinality(recv') \in Nat
      /\ send' \in SUBSET Pairs /\ recv' \in SUBSET Pairs
      /\ Cardinality(send') + Cardinality(recv') + owed = comp_ct - 1
  <2>1. CASE i \in send /\ send' = send \ {i} /\ recv' = recv
    <3>1. Cardinality(send \ {i}) = Cardinality(send) - 1 /\ send \ {i} \in SUBSET Pairs
      BY <1>1, <2>1, OneLess
    <3>2. Cardinality(send \ {i}) \in Nat
      BY <3>1, PairsFinite
    <3>3. QED
      BY <1>1, <1>2, <2>1, <3>1, <3>2
  <2>2. CASE i \in recv /\ recv' = recv \ {i} /\ send' = send
    <3>1. Cardinality(recv \ {i}) = Cardinality(recv) - 1 /\ recv \ {i} \in SUBSET Pairs
      BY <1>1, <2>2, OneLess
    <3>2. Cardinality(recv \ {i}) \in Nat
      BY <3>1, PairsFinite
    <3>3. QED
      BY <1>1, <1>2, <2>2, <3>1, <3>2
  <2>3. QED
    BY <2>1, <2>2
<1>4. comp_ct' = comp_ct - 1 /\ at' = IF comp_ct' > 0 THEN "complete" ELSE "completion_fn"
  BY DEF Decremented
<1>5. /\ comp_ct' \in Nat /\ comp_ct' \in 0..(2 * Count)
      /\ comp_ct' = Cardinality(send') + Cardinality(recv') + owed'
  BY <1>1, <1>3, <1>4, CountAssumption
<1>6. CompCtExact' /\ Waited'
  <2>1. CASE comp_ct' = 0
    <3>1. Cardinality(send') = 0 /\ Cardinality(recv') = 0 /\ owed' = 0
      BY <1>1, <1>3, <1>5, <2>1
    <3>2. send' = {} /\ recv' = {}
      BY <1>3, <3>1, PairsFinite
    <3>3. at' = "completion_fn"
      BY <1>4, <2>1
    <3>4. QED
      BY <2>1, <3>1, <3>2, <3>3 DEF CompCtExact, Waited
  <2>2. CASE comp_ct' # 0
    <3>0. comp_ct' > 0
      BY <1>5, <2>2
    <3>1. at' = "complete"
      BY <1>4, <3>0
    <3>2. QED
      BY <1>5, <3>0, <3>1 DEF CompCtExact, Waited
  <2>3. QED
    BY <2>1, <2>2
<1>7. Incomplete' = Incomplete
  BY DEF Incomplete
<1>8. Jobs'
  BY <1>7 DEF MsgInv, Jobs
<1>8a. Stopped'
  BY <1>1 DEF Stopped
<1>9. QED
  BY <1>3, <1>4, <1>5, <1>6, <1>7, <1>8, <1>8a

\* A send job completes (msgpairarray_complete, the send branch).
LEMMA CompleteSendStep ==
  ASSUME MsgInv, NEW i \in Pairs, NEW e \in {"ok"} \cup BmiErrors, CompleteSend(i, e)
  PROVE  MsgInv'
<1>1. /\ at = "complete" /\ i \in send /\ send' = send \ {i}
      /\ op_status' = [op_status EXCEPT ![i] = IF @ = "ok" THEN e ELSE @]
      /\ Decremented /\ complete' = complete /\ retry_count' = retry_count
      /\ session_tag' = session_tag /\ next_tag' = next_tag /\ recv' = recv
      /\ resp' = resp /\ error_code' = error_code /\ net' = net
      /\ alloc' = alloc /\ owed' = owed
  BY DEF CompleteSend, FirstError
<1>2. /\ CompCtExact' /\ Jobs' /\ Waited' /\ Stopped' /\ Incomplete' = Incomplete
      /\ comp_ct' \in 0..(2 * Count) /\ at' \in {"complete", "completion_fn"}
      /\ send' \subseteq Pairs /\ recv' \subseteq Pairs
  BY <1>1, Decrement
<1>3. op_status \in [Pairs -> Statuses] /\ i \in Incomplete
  BY <1>1 DEF MsgInv, Typed, TypeOK, Jobs
<1>4. \A j \in Pairs : /\ op_status'[j] \in {op_status[j], e}
                       /\ op_status'[j] = "ok" => op_status[j] = "ok"
                       /\ j # i => op_status'[j] = op_status[j]
  BY <1>1, <1>3
<1>5. Typed'
  <2>1. op_status' \in [Pairs -> Statuses]
    BY <1>1, <1>3 DEF Statuses, Errors
  <2>2. QED
    BY <1>1, <1>2, <2>1 DEF MsgInv, Typed, TypeOK
<1>6. TagsPast' /\ SuccessIsComplete'
  BY <1>1, <1>2 DEF MsgInv, TagsPast, SuccessIsComplete
<1>7. Tagged'
  BY <1>1, <1>2 DEF MsgInv, Tagged
<1>9. Answered'
  BY <1>1, <1>2, <1>4 DEF MsgInv, Answered, Incomplete
<1>10. AnswerIsCurrent'
  BY <1>1, <1>3, <1>4 DEF MsgInv, AnswerIsCurrent, Incomplete
<1>11. QED
  BY <1>2, <1>5, <1>6, <1>7, <1>9, <1>10 DEF MsgInv

\* A receive job fails or times out (msgpairarray_complete, the receive branch).
LEMMA FailRecvStep ==
  ASSUME MsgInv, NEW i \in Pairs, NEW e \in BmiErrors, FailRecv(i, e)
  PROVE  MsgInv'
<1>1. /\ at = "complete" /\ i \in recv /\ recv' = recv \ {i}
      /\ op_status' = [op_status EXCEPT ![i] = IF @ = "ok" THEN e ELSE @]
      /\ Decremented /\ complete' = complete /\ retry_count' = retry_count
      /\ session_tag' = session_tag /\ next_tag' = next_tag /\ send' = send
      /\ resp' = resp /\ error_code' = error_code /\ net' = net
      /\ alloc' = alloc /\ owed' = owed
  BY DEF FailRecv, FirstError
<1>2. /\ CompCtExact' /\ Jobs' /\ Waited' /\ Stopped' /\ Incomplete' = Incomplete
      /\ comp_ct' \in 0..(2 * Count) /\ at' \in {"complete", "completion_fn"}
      /\ send' \subseteq Pairs /\ recv' \subseteq Pairs
  BY <1>1, Decrement
<1>3. op_status \in [Pairs -> Statuses] /\ i \in Incomplete
  BY <1>1 DEF MsgInv, Typed, TypeOK, Jobs
<1>4. /\ \A j \in Pairs : /\ op_status'[j] \in {op_status[j], e}
                          /\ j # i => op_status'[j] = op_status[j]
      /\ op_status'[i] # "ok"
  BY <1>1, <1>3 DEF BmiErrors
<1>5. Typed'
  <2>1. op_status' \in [Pairs -> Statuses]
    BY <1>1, <1>3 DEF Statuses, Errors
  <2>2. QED
    BY <1>1, <1>2, <2>1 DEF MsgInv, Typed, TypeOK
<1>6. TagsPast' /\ SuccessIsComplete'
  BY <1>1, <1>2 DEF MsgInv, TagsPast, SuccessIsComplete
<1>7. Tagged'
  BY <1>1, <1>2 DEF MsgInv, Tagged
<1>9. Answered'
  BY <1>1, <1>2, <1>4 DEF MsgInv, Answered, Incomplete
<1>10. AnswerIsCurrent'
  BY <1>1, <1>3, <1>4 DEF MsgInv, AnswerIsCurrent, Incomplete
<1>11. QED
  BY <1>2, <1>5, <1>6, <1>7, <1>9, <1>10 DEF MsgInv

\* A receive takes the response with its tag (msgpairarray_complete); by Tagged
\* the response is one to the last posting.
LEMMA CompleteRecvStep ==
  ASSUME MsgInv, NEW i \in Pairs, NEW m \in net, CompleteRecv(i, m)
  PROVE  MsgInv'
<1>1. /\ at = "complete" /\ i \in recv /\ recv' = recv \ {i}
      /\ m.kind = "resp" /\ m.pair = i /\ m.tag = session_tag[i]
      /\ op_status' = [op_status EXCEPT ![i] = IF @ = "ok" THEN "ok" ELSE @]
      /\ resp' = [resp EXCEPT ![i] = [tag |-> m.tag, attempt |-> m.attempt,
                                      status |-> m.status]]
      /\ Decremented /\ complete' = complete /\ retry_count' = retry_count
      /\ session_tag' = session_tag /\ next_tag' = next_tag /\ send' = send
      /\ error_code' = error_code /\ net' = net \ {m}
      /\ alloc' = alloc /\ owed' = owed
  BY DEF CompleteRecv, FirstError
<1>2. /\ CompCtExact' /\ Jobs' /\ Waited' /\ Stopped' /\ Incomplete' = Incomplete
      /\ comp_ct' \in 0..(2 * Count) /\ at' \in {"complete", "completion_fn"}
      /\ send' \subseteq Pairs /\ recv' \subseteq Pairs
  BY <1>1, Decrement
<1>3. /\ op_status \in [Pairs -> Statuses] /\ i \in Incomplete
      /\ resp \in [Pairs -> [tag : Nat, attempt : Nat, status : {"none", "ok", "server"}]]
      /\ m.tag \in Nat /\ m.attempt \in Nat /\ m.status \in {"ok", "server"}
  BY <1>1 DEF MsgInv, Typed, TypeOK, Jobs
<1>4. op_status' = op_status
  BY <1>1, <1>3
<1>5. m.attempt = retry_count[i]
  BY <1>1, <1>3 DEF MsgInv, Tagged
<1>6. /\ resp' \in [Pairs -> [tag : Nat, attempt : Nat, status : {"none", "ok", "server"}]]
      /\ \A j \in Pairs : j # i => resp'[j] = resp[j]
      /\ resp'[i].attempt = retry_count[i] /\ resp'[i].status \in {"ok", "server"}
  BY <1>1, <1>3, <1>5
<1>7. Typed'
  BY <1>1, <1>2, <1>4, <1>6 DEF MsgInv, Typed, TypeOK
<1>8. TagsPast' /\ SuccessIsComplete'
  BY <1>1, <1>2 DEF MsgInv, TagsPast, SuccessIsComplete
<1>9. Tagged'
  BY <1>1, <1>2 DEF MsgInv, Tagged
<1>10. Answered'
  BY <1>1, <1>2, <1>4, <1>6 DEF MsgInv, Answered, Incomplete
<1>11. AnswerIsCurrent'
  BY <1>1, <1>3, <1>4, <1>6 DEF MsgInv, AnswerIsCurrent, Incomplete
<1>12. QED
  BY <1>2, <1>7, <1>8, <1>9, <1>10, <1>11 DEF MsgInv

\* msgpairarray_completion_fn: what is counted for the next posting is what it
\* will post, less the failed pairs that are not retriable.
LEMMA CompletionFnStep ==
  ASSUME MsgInv, CompletionFn
  PROVE  MsgInv'
<1>1. /\ at = "completion_fn" /\ send = {} /\ recv = {} /\ comp_ct = 0 /\ owed = 0
      /\ op_status' = [i \in Pairs |-> IF i \in Decoded THEN resp[i].status
                                       ELSE op_status[i]]
      /\ complete' = [i \in Pairs |-> complete[i] \/ i \in Decoded]
      /\ comp_ct' = IF Failed = {} THEN comp_ct ELSE 2 * Cardinality(Retriable)
      /\ retry_count' = [i \in Pairs |-> IF i \in Retriable
                                         THEN retry_count[i] + 1
                                         ELSE retry_count[i]]
      /\ session_tag' = session_tag /\ next_tag' = next_tag /\ send' = send
      /\ recv' = recv /\ resp' = resp /\ net' = net /\ alloc' \subseteq alloc
  BY DEF CompletionFn, MsgInv, CompCtExact, Waited, Stopped, Typed, TypeOK
<1>2. /\ Retriable # {} => /\ at' \in {"post", "post_retry"} /\ error_code' = "ok"
                           /\ owed' = -2 * Cardinality(Failed \ Retriable)
      /\ Retriable = {} => at' = "done" /\ error_code' = Result /\ owed' = owed
  BY DEF CompletionFn
<1>3. /\ op_status \in [Pairs -> Statuses] /\ retry_count \in [Pairs -> 0..RetryLimit]
      /\ complete \in [Pairs -> BOOLEAN]
      /\ resp \in [Pairs -> [tag : Nat, attempt : Nat, status : {"none", "ok", "server"}]]
  BY DEF MsgInv, Typed, TypeOK
<1>4. /\ Retriable \subseteq Failed /\ Failed \subseteq Incomplete /\ Decoded \subseteq Incomplete
      /\ Incomplete \subseteq Pairs /\ Incomplete = Failed \cup Decoded
      /\ Failed \cap Decoded = {}
  BY DEF Retriable, Failed, Decoded, Incomplete
<1>5. Incomplete' = Failed
  BY <1>1, <1>3, <1>4 DEF Incomplete
<1>6. \A i \in Decoded : /\ op_status[i] = "ok" /\ resp[i].attempt = retry_count[i]
                         /\ resp[i].status \in {"ok", "server"}
  BY <1>1, <1>4 DEF MsgInv, Answered, Decoded, Failed
<1>7. Cardinality(Failed) = Cardinality(Failed \ Retriable) + Cardinality(Retriable)
  <2>1. Failed = {} \cup ((Failed \ Retriable) \cup Retriable)
    BY <1>4
  <2>2. /\ Cardinality({} \cup ((Failed \ Retriable) \cup Retriable))
            = Cardinality({}) + Cardinality(Failed \ Retriable) + Cardinality(Retriable)
    BY <1>4, SplitCount
  <2>3. Cardinality({}) = 0
    BY FS_EmptySet
  <2>4. Cardinality(Failed \ Retriable) \in Nat /\ Cardinality(Retriable) \in Nat
    BY <1>4, PairsFinite
  <2>5. QED
    BY <2>1, <2>2, <2>3, <2>4
<1>8. /\ Cardinality(Retriable) \in 0..Count /\ (Retriable = {} => Cardinality(Retriable) = 0)
      /\ Cardinality(Failed \ Retriable) \in Nat
      /\ owed' \in Int /\ owed' <= 0 /\ (at' \notin {"post", "post_retry"} => owed' = 0)
  BY <1>1, <1>2, <1>4, PairsFinite
<1>9. Failed # {} => op_status[First(Failed)] \in Errors
  <2> SUFFICES ASSUME Failed # {} PROVE op_status[First(Failed)] \in Errors
    OBVIOUS
  <2>1. First(Failed) \in Failed
    BY <1>4, FirstIsLeast
  <2>2. QED
    BY <1>3, <1>4, <2>1 DEF Failed, Statuses
<1>10. CompCtExact'
  <2>1. CASE Retriable = {}
    <3>1. ~ (owed' > 0) /\ at' = "done" /\ send' = {} /\ recv' = {}
      BY <1>1, <1>2, <2>1
    <3>2. QED
      BY <3>1 DEF CompCtExact
  <2>2. CASE Retriable # {}
    <3>1. comp_ct' = 2 * Cardinality(Retriable)
      BY <1>1, <1>4, <2>2
    <3>2. comp_ct' = 2 * Cardinality(Incomplete') + owed'
      BY <1>2, <1>5, <1>7, <1>8, <2>2, <3>1
    <3>3. ~ (owed' > 0) /\ at' # "complete" /\ send' = {} /\ recv' = {}
      BY <1>1, <1>2, <1>8, <2>2
    <3>4. QED
      BY <3>2, <3>3 DEF CompCtExact
  <2>3. QED
    BY <2>1, <2>2
<1>11. Typed'
  <2>1. op_status' \in [Pairs -> Statuses]
    BY <1>1, <1>3, <1>6 DEF Statuses, Errors
  <2>2. complete' \in [Pairs -> BOOLEAN]
    BY <1>1, <1>3
  <2>3. retry_count' \in [Pairs -> 0..RetryLimit]
    BY <1>1, <1>3, RetryAssumption DEF Retriable
  <2>4. comp_ct' \in 0..(2 * Count)
    BY <1>1, <1>8, CountAssumption
  <2>5. error_code' \in Statuses
    BY <1>2, <1>9 DEF Result, Statuses, Errors
  <2>6. at' \in {"post", "complete", "completion_fn", "post_retry", "done"}
    BY <1>2
  <2>7. alloc' \subseteq Pairs /\ owed' \in Int
    BY <1>1, <1>8 DEF MsgInv, Typed, TypeOK
  <2>8. TypeOK'
    BY <1>1, <1>3, <2>1, <2>2, <2>3, <2>4, <2>5, <2>6, <2>7 DEF MsgInv, Typed, TypeOK
  <2>9. QED
    BY <1>1, <2>8 DEF MsgInv, Typed
<1>12. TagsPast' /\ Jobs' /\ Waited' /\ Tagged' /\ Answered'
  BY <1>1, <1>2 DEF MsgInv, TagsPast, Jobs, Waited, Tagged, Answered
<1>13. Stopped'
  BY <1>8 DEF Stopped
<1>14. AnswerIsCurrent'
  <2> SUFFICES ASSUME NEW i \in Pairs, complete'[i]
               PROVE  /\ resp'[i].attempt = retry_count'[i]
                      /\ op_status'[i] = resp'[i].status
    BY DEF AnswerIsCurrent
  <2>1. i \notin Retriable
    BY <1>1, <1>4 DEF Incomplete
  <2>2. retry_count'[i] = retry_count[i]
    BY <1>1, <2>1
  <2>3. CASE i \in Decoded
    BY <1>1, <1>6, <2>2, <2>3
  <2>4. CASE i \notin Decoded
    BY <1>1, <1>3, <2>2, <2>4 DEF MsgInv, AnswerIsCurrent
  <2>5. QED
    BY <2>3, <2>4
<1>15. SuccessIsComplete'
  <2> SUFFICES ASSUME at' = "done", error_code' = "ok" PROVE \A i \in Pairs : complete'[i]
    BY DEF SuccessIsComplete
  <2>1. Failed = {}
    BY <1>2, <1>9 DEF Result, Errors, BmiErrors
  <2>2. QED
    BY <1>5, <2>1 DEF Incomplete
<1>16. QED
  BY <1>10, <1>11, <1>12, <1>13, <1>14, <1>15 DEF MsgInv

\* The network only moves or drops messages (external).
LEMMA NetworkStep ==
  ASSUME MsgInv, NEW m \in net,
         Lose(m) \/ \E status \in {"ok", "server"} : Serve(m, status)
  PROVE  MsgInv'
<1>1. /\ at' = at /\ comp_ct' = comp_ct /\ complete' = complete /\ op_status' = op_status
      /\ retry_count' = retry_count /\ session_tag' = session_tag /\ next_tag' = next_tag
      /\ send' = send /\ recv' = recv /\ resp' = resp /\ error_code' = error_code
      /\ alloc' = alloc /\ owed' = owed
  BY DEF Lose, Serve
<1>2. \A n \in net' : \/ n \in net
                      \/ \E status \in {"ok", "server"} :
                            n = Message("resp", m.pair, m.tag, m.attempt, status)
  BY DEF Lose, Serve
<1>3. \A n \in net' : n \in net \/ /\ n.pair = m.pair /\ n.tag = m.tag /\ n.attempt = m.attempt
                                   /\ n.status \in {"ok", "server"}
  BY <1>2 DEF Message
<1>4. Incomplete' = Incomplete
  BY <1>1 DEF Incomplete
<1>5. Typed'
  BY <1>1, <1>3 DEF MsgInv, Typed, TypeOK
<1>6. TagsPast'
  BY <1>1, <1>3 DEF MsgInv, TagsPast
<1>7. Tagged'
  BY <1>1, <1>3, <1>4 DEF MsgInv, Tagged
<1>8. Jobs' /\ Waited' /\ Stopped' /\ Answered'
  BY <1>1, <1>4 DEF MsgInv, Jobs, Waited, Stopped, Answered
<1>9. CompCtExact' /\ AnswerIsCurrent' /\ SuccessIsComplete'
  BY <1>1, <1>4 DEF MsgInv, CompCtExact, AnswerIsCurrent, SuccessIsComplete
<1>10. QED
  BY <1>5, <1>6, <1>7, <1>8, <1>9 DEF MsgInv

\* Steps that leave everything but the state of the machine alone.
LEMMA QuietStep ==
  ASSUME MsgInv, PostRetry \/ UNCHANGED vars
  PROVE  MsgInv'
<1>1. /\ comp_ct' = comp_ct /\ complete' = complete /\ op_status' = op_status
      /\ retry_count' = retry_count /\ session_tag' = session_tag /\ next_tag' = next_tag
      /\ send' = send /\ recv' = recv /\ resp' = resp /\ error_code' = error_code
      /\ net' = net /\ alloc' = alloc /\ owed' = owed
      /\ (at' = at \/ (at = "post_retry" /\ at' = "post"))
  <2>1. CASE PostRetry
    BY <2>1 DEF PostRetry
  <2>2. CASE UNCHANGED vars
    BY <2>2 DEF vars
  <2>3. QED
    BY <2>1, <2>2
<1>2. Incomplete' = Incomplete
  BY <1>1 DEF Incomplete
<1>3. Typed'
  BY <1>1 DEF MsgInv, Typed, TypeOK
<1>4. TagsPast' /\ Jobs' /\ Waited' /\ Stopped'
  BY <1>1, <1>2 DEF MsgInv, TagsPast, Jobs, Waited, Stopped
<1>5. Tagged' /\ Answered'
  BY <1>1, <1>2 DEF MsgInv, Tagged, Answered
<1>6. CompCtExact' /\ AnswerIsCurrent' /\ SuccessIsComplete'
  BY <1>1, <1>2 DEF MsgInv, CompCtExact, AnswerIsCurrent, SuccessIsComplete
<1>7. QED
  BY <1>3, <1>4, <1>5, <1>6 DEF MsgInv

-----------------------------------------------------------------------------
(* The theorems.                                                           *)

\* Every step of the machine, of its jobs and of the network keeps MsgInv.
LEMMA MsgStep ==
  ASSUME MsgInv, [Next]_vars
  PROVE  MsgInv'
<1>1. CASE Post
  BY <1>1, PostStep
<1>1a. ASSUME NEW k \in Pairs, NEW j \in Pairs, PostBreaks(k, j) PROVE MsgInv'
  BY <1>1a, PostBreaksStep
<1>2. ASSUME NEW i \in Pairs, CompleteSend(i, "ok") PROVE MsgInv'
  BY <1>2, CompleteSendStep
<1>3. ASSUME NEW i \in Pairs, NEW m \in net, CompleteRecv(i, m) PROVE MsgInv'
  BY <1>3, CompleteRecvStep
<1>4. ASSUME NEW i \in Pairs, Fails(i) PROVE MsgInv'
  <2>1. PICK e \in BmiErrors : CompleteSend(i, e) \/ FailRecv(i, e)
    BY <1>4 DEF Fails
  <2>2. QED
    BY <2>1, CompleteSendStep, FailRecvStep
<1>5. CASE CompletionFn
  BY <1>5, CompletionFnStep
<1>6. CASE PostRetry \/ UNCHANGED vars
  BY <1>6, QuietStep
<1>7. ASSUME NEW m \in net, Lose(m) \/ \E status \in {"ok", "server"} : Serve(m, status)
      PROVE  MsgInv'
  BY <1>7, NetworkStep
<1>8. QED
  BY <1>1, <1>1a, <1>2, <1>3, <1>4, <1>5, <1>6, <1>7 DEF Next

\* MsgInv is an invariant of the array of message pairs.
LEMMA MsgInvariant == Spec => []MsgInv
<1>1. MsgInv /\ [Next]_vars => MsgInv'
  BY MsgStep
<1>2. QED
  BY <1>1, MsgInit, PTL DEF Spec

\* Every variable of the state machine keeps its type, the count of jobs between
\* 0 and twice the number of pairs (msgpairarray.sm).
THEOREM MsgTypeCorrect == Spec => []TypeOK
<1>1. MsgInv => TypeOK
  BY DEF MsgInv, Typed
<1>2. QED
  BY <1>1, MsgInvariant, PTL

\* For every number of pairs comp_ct is the number of pending jobs, and after a
\* posting that broke off, or before one that posts uncounted pairs again, it is
\* off by exactly what that posting left counted or uncounted: the machine never
\* decodes while a job may still write into a pair, and waits for jobs that were
\* never posted after a break and only then (msgpairarray_post,
\* msgpairarray_complete, msgpairarray_completion_fn).
THEOREM CountIsExact == Spec => []CompCtExact
<1>1. MsgInv => CompCtExact
  BY DEF MsgInv
<1>2. QED
  BY <1>1, MsgInvariant, PTL

\* However messages are delayed, lost or answered late, a pair that is complete
\* has the response to its last posting (the session tags of
\* msgpairarray_post).
THEOREM AnswersAreCurrent == Spec => []AnswerIsCurrent
<1>1. MsgInv => AnswerIsCurrent
  BY DEF MsgInv
<1>2. QED
  BY <1>1, MsgInvariant, PTL

\* When the machine ends with error_code 0 every pair has its response
\* (msgpairarray_completion_fn): the safety half of Ends.
THEOREM SuccessHasAllAnswers == Spec => []SuccessIsComplete
<1>1. MsgInv => SuccessIsComplete
  BY DEF MsgInv
<1>2. QED
  BY <1>1, MsgInvariant, PTL
=============================================================================
