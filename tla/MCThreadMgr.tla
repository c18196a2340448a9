----------------------------- MODULE MCThreadMgr -----------------------------
(* Small instances of ThreadMgr for TLC.                                   *)
EXTENDS ThreadMgr

CONSTANTS Flow, Job, FlowLock, JobLock

\* The buffers of one flow share its flow_mutex, all jobs completion_mutex.
Locks == [u \in User |-> IF u \in Flow THEN FlowLock ELSE JobLock]
=============================================================================
