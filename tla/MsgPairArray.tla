---------------------------- MODULE MsgPairArray ----------------------------
(***************************************************************************)
(* pvfs2_msgpairarray_sm (common/misc/msgpairarray.sm): the state machine  *)
(* with which the clients, and servers that talk to servers, send an array *)
(* of requests and wait for the responses.                                 *)
(*                                                                         *)
(* Every pair is a send and a receive, posted as two BMI jobs under one    *)
(* session tag; comp_ct counts the jobs that have not completed.  When all *)
(* have, the pairs that failed are sent again, under new tags, up to       *)
(* retry_limit times.  Requests and responses may be lost or late, a job   *)
(* may fail or time out at any time, and a posting may break off half way  *)
(* because a request cannot be encoded or its response has no memory.      *)
(***************************************************************************)
EXTENDS Integers, FiniteSets

CONSTANTS
    Count,          \* mop->count
    RetryFlag,      \* retry_flag = PVFS_MSGPAIR_RETRY, for the whole array
    RetryLimit      \* params.retry_limit

Pairs == 1..Count

(* op_status and error_code: 0, an error of class BMI, the BMI error that  *)
(* says cancelled, an error of another class, or what the server answered. *)
BmiErrors == {"bmi", "ecancel"}
Errors == BmiErrors \cup {"other", "server"}
Statuses == {"ok"} \cup Errors

(* Why the posting of a job can fail: BMI's refusal, or no memory.         *)
PostErrors == {"bmi", "other"}

ASSUME CountAssumption == Count \in Nat \ {0}
ASSUME RetryAssumption == RetryFlag \in BOOLEAN /\ RetryLimit \in Nat

VARIABLES
    at,             \* the state of the machine
    comp_ct,        \* params.comp_ct
    complete,       \* complete[i]: msg_p->complete
    op_status,      \* op_status[i]
    retry_count,    \* retry_count[i]
    session_tag,    \* session_tag[i]
    next_tag,       \* what PINT_util_get_next_tag returns next
    send,           \* the pairs whose send job is pending (send_id)
    recv,           \* the pairs whose receive job is pending (recv_id)
    alloc,          \* the pairs with an encoded_req and an encoded_resp_p
    resp,           \* resp[i]: the response in encoded_resp_p
    error_code,     \* js_p->error_code
    net,            \* the messages under way
    owed            \* history: what comp_ct counts and no job will pay for

vars == <<at, comp_ct, complete, op_status, retry_count, session_tag,
          next_tag, send, recv, alloc, resp, error_code, net, owed>>

(* A message; attempt tells which posting of its pair it belongs to.       *)
Message(kind, i, tag, attempt, status) ==
    [kind |-> kind, pair |-> i, tag |-> tag, attempt |-> attempt,
     status |-> status]

NoResp == [tag |-> 0, attempt |-> 0, status |-> "none"]

Incomplete == {i \in Pairs : ~complete[i]}

(* msgpairarray_init.                                                      *)
Init ==
    /\ at = "post"
    /\ comp_ct = 2 * Count
    /\ complete = [i \in Pairs |-> FALSE]
    /\ op_status = [i \in Pairs |-> "ok"]
    /\ retry_count = [i \in Pairs |-> 0]
    /\ session_tag = [i \in Pairs |-> 0]
    /\ next_tag = 1
    /\ send = {} /\ recv = {} /\ alloc = {}
    /\ resp = [i \in Pairs |-> NoResp]
    /\ error_code = "ok"
    /\ net = {}
    /\ owed = 0

-----------------------------------------------------------------------------
(* msgpairarray_post posts the receive and then the send of every pair     *)
(* that is not complete.  The receive fails at once (then the send is not  *)
(* posted), or the send does (then the receive is cancelled and still to   *)
(* complete), or the send completes at once, or both are pending.          *)
Outcomes == {"recv_fails", "send_fails", "sent", "posted"}

(* A fault: a send that completes at once is counted as pending.           *)
RemainingMore(todo, out) ==
    comp_ct - 2 * Cardinality({i \in todo : out[i] = "recv_fails"})
            - Cardinality({i \in todo : out[i] = "send_fails"})

Remaining(todo, out) ==
    comp_ct - 2 * Cardinality({i \in todo : out[i] = "recv_fails"})
            - Cardinality({i \in todo : out[i] \in {"send_fails", "sent"}})

(* A fault: the tag of the first posting is kept.                          *)
NewTagKept(i) == IF session_tag[i] = 0 THEN next_tag + i ELSE session_tag[i]

NewTag(i) == next_tag + i

Todo == Incomplete

(* local_enc_and_alloc when the receive of pair i has failed: some pair    *)
(* was encoded since the last such failure.  Then the buffers of i go.     *)
LocalAlloc(i, out) ==
    \E j \in Todo \ alloc :
        j <= i /\ \A l \in Todo : j <= l /\ l < i => out[l] # "recv_fails"

(* What posting the pairs S with the outcomes out does to the jobs, the    *)
(* tags and the buffers.                                                   *)
PostJobs(S, out) ==
    /\ session_tag' = [i \in Pairs |-> IF i \in S THEN NewTag(i)
                                       ELSE session_tag[i]]
    /\ next_tag' = next_tag + Count
    /\ recv' = {i \in S : out[i] # "recv_fails"}
    /\ send' = {i \in S : out[i] = "posted"}
    /\ alloc' = (alloc \cup S)
                \ {i \in S : out[i] = "recv_fails" /\ LocalAlloc(i, out)}
    /\ net' = net \cup {Message("req", i, NewTag(i), retry_count[i], "none") :
                           i \in {j \in S : out[j] \in {"sent", "posted"}}}

(* ... and to the status of its pairs.                                     *)
PostStatus(S, out, why) ==
    [i \in Pairs |-> IF i \notin S THEN op_status[i]
                     ELSE IF out[i] \in {"recv_fails", "send_fails"}
                     THEN why[i] ELSE "ok"]

(* A posting of more pairs than comp_ct counts is not followed.            *)
Post ==
    /\ at = "post" /\ owed = 0
    /\ \E out \in [Todo -> Outcomes], why \in [Todo -> PostErrors] :
           /\ PostJobs(Todo, out)
           /\ op_status' = PostStatus(Todo, out, why)
           /\ comp_ct' = Remaining(Todo, out)
    /\ error_code' = "ok"
    /\ at' = IF comp_ct' = 0 THEN "completion_fn" ELSE "complete"
    /\ UNCHANGED <<complete, retry_count, resp, owed>>

(* PINT_encode or BMI_memalloc fails for pair k.  The pairs before k are   *)
(* posted, those from k on are not and stay counted, and the machine goes  *)
(* to state complete, where msgpairarray_complete takes the failure for    *)
(* the completion of whatever job js_p names, one of pair j.               *)
PostBreaks(k, j) ==
    LET before == {i \in Todo : i < k} IN
    /\ at = "post" /\ owed = 0
    /\ k \in Todo \ alloc
    /\ \E out \in [before -> Outcomes], why \in [before -> PostErrors] :
           /\ PostJobs(before, out)
           /\ op_status' =
                  [i \in Pairs |->
                      LET s == IF i = k THEN "ok"
                               ELSE PostStatus(before, out, why)[i]
                      IN  IF i = j /\ s = "ok" THEN "other" ELSE s]
           /\ comp_ct' = Remaining(before, out) - 1
    /\ owed' = 2 * Cardinality(Todo \ before) - 1
    /\ error_code' = "other"
    /\ at' = IF comp_ct' > 0 THEN "complete" ELSE "completion_fn"
    /\ UNCHANGED <<complete, retry_count, resp>>

-----------------------------------------------------------------------------
(* A fault: the last completion is deferred as well.                       *)
DecrementedLate ==
    /\ comp_ct' = comp_ct - 1
    /\ at' = IF comp_ct' >= 0 THEN "complete" ELSE "completion_fn"

(* msgpairarray_complete: one job has completed.  A failure cancels the    *)
(* pair's other job, which then completes as one that has timed out does.  *)
Decremented ==
    /\ comp_ct' = comp_ct - 1
    /\ at' = IF comp_ct' > 0 THEN "complete" ELSE "completion_fn"

FirstError(i, e) ==
    op_status' = [op_status EXCEPT ![i] = IF @ = "ok" THEN e ELSE @]

CompleteSend(i, e) ==
    /\ at = "complete" /\ i \in send
    /\ send' = send \ {i}
    /\ FirstError(i, e)
    /\ Decremented
    /\ UNCHANGED <<complete, retry_count, session_tag, next_tag, recv, alloc,
                   resp, error_code, net, owed>>

(* The receive takes the message with its tag.                             *)
CompleteRecv(i, m) ==
    /\ at = "complete" /\ i \in recv
    /\ m.kind = "resp" /\ m.pair = i /\ m.tag = session_tag[i]
    /\ recv' = recv \ {i}
    /\ resp' = [resp EXCEPT ![i] = [tag |-> m.tag, attempt |-> m.attempt,
                                    status |-> m.status]]
    /\ net' = net \ {m}
    /\ FirstError(i, "ok")
    /\ Decremented
    /\ UNCHANGED <<complete, retry_count, session_tag, next_tag, send, alloc,
                   error_code, owed>>

FailRecv(i, e) ==
    /\ at = "complete" /\ i \in recv
    /\ recv' = recv \ {i}
    /\ FirstError(i, e)
    /\ Decremented
    /\ UNCHANGED <<complete, retry_count, session_tag, next_tag, send, alloc,
                   resp, error_code, net, owed>>

-----------------------------------------------------------------------------
(* msgpairarray_completion_fn.                                             *)

Failed == {i \in Incomplete : op_status[i] # "ok"}
Decoded == Incomplete \ Failed

Retriable ==
    {i \in Failed : /\ RetryFlag
                    /\ op_status[i] \in BmiErrors
                    /\ retry_count[i] < RetryLimit}

Last(S) == CHOOSE i \in S : \A j \in S : j <= i
First(S) == CHOOSE i \in S : \A j \in S : i <= j

(* error_code is the last error a server answered in this pass, or else    *)
(* the first failure that is not retried.  A failed pair that is not       *)
(* retriable is posted again with the others, but not counted.             *)
Refused == {i \in Decoded : resp[i].status = "server"}
Result ==
    IF Refused # {} THEN "server"
    ELSE IF Failed # {} THEN op_status[First(Failed)] ELSE "ok"

CompletionFn ==
    /\ at = "completion_fn"
    /\ op_status' = [i \in Pairs |-> IF i \in Decoded THEN resp[i].status
                                     ELSE op_status[i]]
    /\ complete' = [i \in Pairs |-> complete[i] \/ i \in Decoded]
    /\ comp_ct' = IF Failed = {} THEN comp_ct ELSE 2 * Cardinality(Retriable)
    /\ retry_count' = [i \in Pairs |-> IF i \in Retriable
                                       THEN retry_count[i] + 1
                                       ELSE retry_count[i]]
    /\ IF Retriable # {}
       THEN /\ at' = IF op_status[Last(Retriable)] = "ecancel"
                     THEN "post" ELSE "post_retry"
            /\ error_code' = "ok"
            /\ owed' = -2 * Cardinality(Failed \ Retriable)
       ELSE /\ at' = "done"
            /\ error_code' = Result
            /\ owed' = owed
    /\ alloc' = alloc \ Decoded
    /\ UNCHANGED <<session_tag, next_tag, send, recv, resp, net>>

(* msgpairarray_post_retry: the timer has run out.                         *)
PostRetry ==
    /\ at = "post_retry" /\ at' = "post"
    /\ UNCHANGED <<comp_ct, complete, op_status, retry_count, session_tag,
                   next_tag, send, recv, alloc, resp, error_code, net, owed>>

-----------------------------------------------------------------------------
(* The network and the servers (external).                                 *)

Serve(m, status) ==
    /\ m \in net /\ m.kind = "req"
    /\ net' = (net \ {m}) \cup
              {Message("resp", m.pair, m.tag, m.attempt, status)}
    /\ UNCHANGED <<at, comp_ct, complete, op_status, retry_count,
                   session_tag, next_tag, send, recv, alloc, resp, error_code,
                   owed>>

Lose(m) ==
    /\ m \in net
    /\ net' = net \ {m}
    /\ UNCHANGED <<at, comp_ct, complete, op_status, retry_count,
                   session_tag, next_tag, send, recv, alloc, resp, error_code,
                   owed>>

-----------------------------------------------------------------------------
Fails(i) ==
    \E e \in BmiErrors : CompleteSend(i, e) \/ FailRecv(i, e)

Next ==
    \/ Post
    \/ \E k, j \in Pairs : PostBreaks(k, j)
    \/ \E i \in Pairs : CompleteSend(i, "ok")
    \/ \E i \in Pairs, m \in net : CompleteRecv(i, m)
    \/ \E i \in Pairs : Fails(i)
    \/ CompletionFn
    \/ PostRetry
    \/ \E m \in net, status \in {"ok", "server"} : Serve(m, status)
    \/ \E m \in net : Lose(m)

Spec == Init /\ [][Next]_vars

(* The machine runs, and every job has a timeout.                          *)
Fairness ==
    /\ WF_vars(Post) /\ WF_vars(CompletionFn) /\ WF_vars(PostRetry)
    /\ \A i \in Pairs : WF_vars(Fails(i))

LiveSpec == Spec /\ Fairness

-----------------------------------------------------------------------------
(* Properties.                                                             *)

(* Every variable keeps its type.                                          *)
TypeOK ==
    /\ at \in {"post", "complete", "completion_fn", "post_retry", "done"}
    /\ comp_ct \in 0..(2 * Count)
    /\ complete \in [Pairs -> BOOLEAN]
    /\ op_status \in [Pairs -> Statuses]
    /\ retry_count \in [Pairs -> 0..RetryLimit]
    /\ session_tag \in [Pairs -> Nat] /\ next_tag \in Nat
    /\ send \subseteq Pairs /\ recv \subseteq Pairs /\ alloc \subseteq Pairs
    /\ owed \in Int
    /\ \A i \in Pairs : resp[i].status \in {"none", "ok", "server"}
    /\ error_code \in Statuses

(* comp_ct is the number of jobs still to complete, and differs from it by *)
(* what a posting that broke off has left counted, or by the pairs that a  *)
(* retry posts and has not counted, and by nothing else.  After a break    *)
(* the machine waits, for ever, for jobs that were never posted.           *)
CompCtExact ==
    /\ at = "complete" =>
           comp_ct = Cardinality(send) + Cardinality(recv) + owed
    /\ at # "complete" => send = {} /\ recv = {}
    /\ at \in {"post", "post_retry"} =>
           comp_ct = 2 * Cardinality(Incomplete) + owed
    /\ owed > 0 => at = "complete" /\ comp_ct > 0

(* A pair is complete only with the response to its last posting: a late   *)
(* response to an earlier one is never taken for it.  (A posting that      *)
(* breaks off may leave its error in the status of any pair.)              *)
AnswerIsCurrent ==
    \A i \in Pairs : complete[i] =>
        /\ resp[i].attempt = retry_count[i]
        /\ owed <= 0 => op_status[i] = resp[i].status

(* A machine none of whose postings breaks off, and that posts no pair it  *)
(* has not counted, ends, however many messages are lost, and with success *)
(* only if every pair has its response.                                    *)
Ends ==
    [](owed = 0) =>
        <>(at = "done" /\ (error_code = "ok" => \A i \in Pairs : complete[i]))

(* An error of some pair is seen in the error_code the machine ends with.  *)
ErrorKept ==
    at = "done" /\ error_code = "ok" => \A i \in Pairs : op_status[i] = "ok"
=============================================================================
