--------------------------- MODULE DbpfSyncProofs ---------------------------
(***************************************************************************)
(* Proofs about DbpfSync, for any number of operations and collections:    *)
(* what is acknowledged is on disk, and no parked operation is forgotten.  *)
(***************************************************************************)
EXTENDS DbpfSync, FiniteSetTheorems, TLAPS

\* A database write or a sync keeps the record of unsynced writes well typed.
LEMMA DirtyType ==
  ASSUME NEW STATE dt, dt \in [Coll -> [Db -> SUBSET Op]],
         dirty \in [Coll -> [Db -> SUBSET Op]],
         NEW c \in Coll
  PROVE  /\ \A o \in Op : \A k : Written(o, c, k) \in [Coll -> [Db -> SUBSET Op]]
         /\ \A d \in Db : Synced(dt, c, d) \in [Coll -> [Db -> SUBSET Op]]
  BY DEF Written, Synced

\* The same for a sync of the databases as they are.
LEMMA SyncedType ==
  ASSUME dirty \in [Coll -> [Db -> SUBSET Op]]
  PROVE  \A c \in Coll, d \in Db : Synced(dirty, c, d) \in [Coll -> [Db -> SUBSET Op]]
  BY DEF Synced

\* What Written and Synced say of one operation in one database.
LEMMA DirtyFacts ==
  ASSUME NEW STATE dt, dt \in [Coll -> [Db -> SUBSET Op]],
         dirty \in [Coll -> [Db -> SUBSET Op]],
         NEW o \in Op, NEW c \in Coll, NEW k, NEW d \in Db,
         NEW b \in Coll, NEW e \in Db, NEW p \in Op
  PROVE  /\ p \in Written(o, c, k)[b][e] =>
              p \in dirty[b][e] \/ (p = o /\ b = c /\ e \in Writes(k))
         /\ p \in Synced(dt, c, d)[b][e] => p \in dt[b][e] /\ ~(b = c /\ e = d)
  BY DEF Written, Synced

\* Every context is one of the two databases.
LEMMA ContextType == \A k : Context(k) \in Db
  BY DEF Context, Db

\* Counting an operation leaves the counters integers.
LEMMA CountType ==
  ASSUME sync_counter \in [Db -> Int], non_sync_counter \in [Db -> Int],
         NEW o, NEW k, NEW s, NEW n \in Int, Count(o, k, s, n)
  PROVE  sync_counter' \in [Db -> Int] /\ non_sync_counter' \in [Db -> Int]
  BY ContextType DEF Count

\* Init establishes the types.
LEMMA TypeInit == Init => TypeOK
  BY DEF Init, TypeOK, Stage, AnyKind, Db

\* Every step keeps the types.
LEMMA TypeNext == TypeOK /\ [Next]_vars => TypeOK'
<1> SUFFICES ASSUME TypeOK, [Next]_vars PROVE TypeOK'
  OBVIOUS
<1> USE DbpfAssumption
<1>a. ASSUME NEW o \in Op, NEW c \in Coll, NEW k \in Kind, NEW s \in BOOLEAN, Post(o, c, k, s)
      PROVE TypeOK'
  <2>1. sync_counter' \in [Db -> Int] /\ non_sync_counter' \in [Db -> Int]
    BY <1>a, CountType DEF Post, TypeOK
  <2>2. op_queue' \in Seq(Op)
    BY <1>a DEF Post, TypeOK
  <2> QED BY <1>a, <2>1, <2>2 DEF Post, Describe, TypeOK, Stage
<1>b. ASSUME NEW o \in Op, NEW c \in Coll, NEW k \in Kind, NEW s \in BOOLEAN, ServeNow(o, c, k, s)
      PROVE TypeOK'
  <2>1. OwnDb(k) \subseteq Db /\ "KEYVAL" \in Db
    BY DEF OwnDb, Db
  <2>2. PICK svc \in BOOLEAN, inner \in SyncResult, outer \in SyncResult, own \in OwnDb(k) :
          LET served == svc /\ (SyncsKeyval(k, s) => inner)
              w == IF svc THEN Written(o, c, k) ELSE dirty
              x == IF SyncsKeyval(k, s) /\ served THEN Synced(w, c, "KEYVAL") ELSE w
          IN  /\ ok' = [ok EXCEPT ![o] = served /\ (s => outer)]
              /\ dirty' = IF served /\ s /\ outer THEN Synced(x, c, own) ELSE x
    BY <1>b DEF ServeNow
  <2>3. dirty' \in [Coll -> [Db -> SUBSET Op]]
    <3> DEFINE served == svc /\ (SyncsKeyval(k, s) => inner)
               w == IF svc THEN Written(o, c, k) ELSE dirty
               x == IF SyncsKeyval(k, s) /\ served THEN Synced(w, c, "KEYVAL") ELSE w
    <3>1. w \in [Coll -> [Db -> SUBSET Op]]
      BY DirtyType, <2>1 DEF TypeOK
    <3>2. x \in [Coll -> [Db -> SUBSET Op]]
      BY <3>1, DirtyType, <2>1 DEF TypeOK
    <3>3. dirty' = IF served /\ s /\ outer THEN Synced(x, c, own) ELSE x
      BY <2>2
    <3> HIDE DEF x, w, served
    <3>4. Synced(x, c, own) \in [Coll -> [Db -> SUBSET Op]]
      BY <3>2, <2>1, DirtyType DEF TypeOK
    <3> QED BY <3>2, <3>3, <3>4
  <2>4. ok' \in [Op -> BOOLEAN]
    BY <2>2 DEF TypeOK
  <2> QED BY <1>b, <2>3, <2>4 DEF ServeNow, Describe, TypeOK, Stage
<1>c. ASSUME NEW o \in Op, NEW c \in Coll, NEW s \in BOOLEAN, StartIO(o, c, s)
      PROVE TypeOK'
  BY <1>c DEF StartIO, Describe, TypeOK, Stage, AnyKind
<1>d. CASE Dequeue
  <2> DEFINE o == Head(op_queue)
  <2>1. o \in Op /\ op_queue' \in Seq(Op)
    BY <1>d DEF Dequeue, TypeOK
  <2>2. sync_counter' \in [Db -> Int] /\ non_sync_counter' \in [Db -> Int]
    <3>1. Count(o, kind[o], sync[o], -1)
      BY <1>d DEF Dequeue
    <3> QED BY <3>1, CountType DEF TypeOK
  <2> QED BY <1>d, <2>1, <2>2 DEF Dequeue, TypeOK, Stage
<1>e. ASSUME NEW o \in Op, Service(o) PROVE TypeOK'
  <2>1. PICK svc \in BOOLEAN, inner \in SyncResult :
          LET flush  == SyncsKeyval(kind[o], sync[o])
              served == svc /\ (flush => inner)
              w == IF svc THEN Written(o, coll[o], kind[o]) ELSE dirty
          IN  /\ ok' = [ok EXCEPT ![o] = served]
              /\ dirty' = IF flush /\ served THEN Synced(w, coll[o], "KEYVAL") ELSE w
              /\ kind' = IF kind[o] = "RESIZE" /\ served
                           THEN [kind EXCEPT ![o] = "DSPACE"] ELSE kind
              /\ sync' = IF kind[o] = "RESIZE" /\ served
                           THEN [sync EXCEPT ![o] = TRUE] ELSE sync
    BY <1>e DEF Service
  <2>2. coll[o] \in Coll /\ "KEYVAL" \in Db
    BY DEF TypeOK, Db
  <2>3. dirty' \in [Coll -> [Db -> SUBSET Op]]
    <3> DEFINE w == IF svc THEN Written(o, coll[o], kind[o]) ELSE dirty
    <3>1. w \in [Coll -> [Db -> SUBSET Op]]
      BY DirtyType, <2>2 DEF TypeOK
    <3>2. dirty' = w \/ dirty' = Synced(w, coll[o], "KEYVAL")
      BY <2>1
    <3> HIDE DEF w
    <3> QED BY <3>1, <3>2, <2>2 DEF Synced
  <2>4. ok' \in [Op -> BOOLEAN]
    BY <2>1 DEF TypeOK
  <2>5. kind' \in [Op -> AnyKind] /\ sync' \in [Op -> BOOLEAN]
    BY <2>1 DEF TypeOK, AnyKind
  <2> QED BY <1>e, <2>3, <2>4, <2>5 DEF Service, TypeOK, Stage
<1>f. ASSUME NEW o \in Op, GrowIO(o) PROVE TypeOK'
  <2>1. dirty' \in [Coll -> [Db -> SUBSET Op]]
    <3>1. coll[o] \in Coll /\ "KEYVAL" \in Db BY DEF TypeOK, Db
    <3> QED BY <1>f, <3>1, DirtyType DEF GrowIO, TypeOK
  <2>2. stage' \in [Op -> Stage] /\ kind' \in [Op -> AnyKind]
    BY <1>f DEF GrowIO, TypeOK, Stage, AnyKind
  <2>3. sync' \in [Op -> BOOLEAN] /\ ok' \in [Op -> BOOLEAN]
    BY <1>f DEF GrowIO, TypeOK
  <2> QED BY <1>f, <2>1, <2>2, <2>3 DEF GrowIO, TypeOK
<1>g. ASSUME NEW o \in Op, FinishIO(o) PROVE TypeOK'
  BY <1>g DEF FinishIO, TypeOK, Stage
<1>h. ASSUME NEW o \in Op, Coalesce(o) PROVE TypeOK'
  <2>0. Context(kind[o]) \in Db /\ coll[o] \in Coll
    BY ContextType DEF TypeOK
  <2>1. CASE CompleteNow(o)
    BY <2>1 DEF CompleteNow, TypeOK, Stage
  <2>2. CASE CompleteEarly(o)
    BY <2>2 DEF CompleteEarly, TypeOK, Stage
  <2>3. CASE CountLate(o)
    <3>1. dirty' = dirty \/ dirty' = Synced(dirty, coll[o], Context(kind[o]))
      BY <2>3 DEF CountLate
    <3>2. dirty' \in [Coll -> [Db -> SUBSET Op]]
      BY <3>1, <2>0, SyncedType DEF TypeOK
    <3>3. coalesce_counter' \in [Db -> Int]
      BY <2>3, <2>0 DEF CountLate, TypeOK
    <3>4. stage' \in [Op -> Stage] /\ cur' \in SUBSET Op
      BY <2>3 DEF CountLate, TypeOK, Stage
    <3> QED BY <2>3, <3>2, <3>3, <3>4 DEF CountLate, TypeOK
  <2>4. CASE Flush(o)
    <3>1. dirty' = dirty \/ dirty' = Synced(dirty, coll[o], Context(kind[o]))
      BY <2>4 DEF Flush
    <3>2. dirty' \in [Coll -> [Db -> SUBSET Op]]
      BY <3>1, <2>0, SyncedType DEF TypeOK
    <3>3. stage' \in [Op -> Stage]
      BY <2>4 DEF Flush, TypeOK, Stage
    <3> QED BY <2>4, <2>0, <3>2, <3>3 DEF Flush, TypeOK
  <2>5. CASE Park(o)
    BY <2>5, <2>0 DEF Park, TypeOK, Stage
  <2> QED BY <1>h, <2>1, <2>2, <2>3, <2>4, <2>5 DEF Coalesce
<1>i. ASSUME NEW o \in Op, Reap(o) PROVE TypeOK'
  BY <1>i DEF Reap, TypeOK, Stage, AnyKind
<1>j. CASE UNCHANGED vars
  BY <1>j DEF vars, TypeOK
<1> QED BY <1>a, <1>b, <1>c, <1>d, <1>e, <1>f, <1>g, <1>h, <1>i, <1>j DEF Next

\* The state stays well typed: counters are integers, queues hold operations.
THEOREM TypeCorrect == Spec => []TypeOK
  BY TypeInit, TypeNext, PTL DEF Spec

-----------------------------------------------------------------------------
(* The queues: what is in them is in the stage they stand for.             *)

QueueOK ==
  /\ \A i \in DOMAIN op_queue : stage[op_queue[i]] = "QUEUED"
  /\ \A i, j \in DOMAIN op_queue : op_queue[i] = op_queue[j] => i = j

ParkedOK ==
  \A d \in Db : \A i \in DOMAIN sync_queue[d] :
    /\ stage[sync_queue[d][i]] = "PARKED"
    /\ NeedsSync(sync_queue[d][i])
    /\ Context(kind[sync_queue[d][i]]) = d
    /\ coll[sync_queue[d][i]] \in MetaSync

QueueInv == TypeOK /\ QueueOK /\ ParkedOK

\* Init: both kinds of queue are empty.
LEMMA QueueInit == Init => QueueInv
  BY TypeInit DEF Init, QueueInv, QueueOK, ParkedOK

\* A step that leaves both queues and every operation in them alone.
LEMMA QueueKept ==
  ASSUME QueueInv, TypeOK', op_queue' = op_queue, sync_queue' = sync_queue,
         NEW o \in Op, stage[o] \notin {"QUEUED", "PARKED"},
         \A p \in Op \ {o} : stage'[p] = stage[p] /\ kind'[p] = kind[p]
                             /\ coll'[p] = coll[p] /\ sync'[p] = sync[p]
  PROVE  QueueInv'
<1>1. \A i \in DOMAIN op_queue : op_queue[i] \in Op \ {o}
  BY DEF QueueInv, QueueOK, TypeOK
<1>2. \A d \in Db : \A i \in DOMAIN sync_queue[d] : sync_queue[d][i] \in Op \ {o}
  BY DEF QueueInv, ParkedOK, TypeOK
<1>3. QueueOK'
  BY <1>1 DEF QueueInv, QueueOK
<1>4. ParkedOK'
  BY <1>2 DEF QueueInv, ParkedOK, NeedsSync
<1> QED BY <1>3, <1>4 DEF QueueInv

\* Every step keeps the queues in order.
LEMMA QueueNext == QueueInv /\ [Next]_vars => QueueInv'
<1> SUFFICES ASSUME QueueInv, [Next]_vars PROVE QueueInv'
  OBVIOUS
<1> TypeOK /\ TypeOK'
  BY TypeNext DEF QueueInv
<1>a. ASSUME NEW o \in Op, NEW c \in Coll, NEW k \in Kind, NEW s \in BOOLEAN, Post(o, c, k, s)
      PROVE QueueInv'
  <2>1. stage[o] = "IDLE" /\ op_queue' = Append(op_queue, o) /\ sync_queue' = sync_queue
    BY <1>a DEF Post, Describe
  <2>2. /\ stage' = [stage EXCEPT ![o] = "QUEUED"] /\ kind' = [kind EXCEPT ![o] = k]
        /\ sync' = [sync EXCEPT ![o] = s] /\ coll' = [coll EXCEPT ![o] = c]
    BY <1>a DEF Post, Describe
  <2>3. QueueOK'
    <3>1. \A i \in DOMAIN op_queue : op_queue[i] \in Op \ {o} /\ stage[op_queue[i]] = "QUEUED"
      BY <2>1 DEF QueueInv, QueueOK, TypeOK
    <3>2. /\ DOMAIN op_queue' = 1..Len(op_queue) + 1
          /\ DOMAIN op_queue = 1..Len(op_queue) /\ Len(op_queue) \in Nat
          /\ \A i \in DOMAIN op_queue : op_queue'[i] = op_queue[i]
          /\ op_queue'[Len(op_queue) + 1] = o
      BY <2>1 DEF TypeOK
    <3>3. \A i \in DOMAIN op_queue' : i \in DOMAIN op_queue \/ i = Len(op_queue) + 1
      BY <3>2
    <3> QED BY <3>1, <3>2, <3>3, <2>2 DEF QueueInv, QueueOK, TypeOK
  <2>4. ParkedOK'
    <3>1. \A d \in Db : \A i \in DOMAIN sync_queue[d] : sync_queue[d][i] \in Op \ {o}
      BY <2>1 DEF QueueInv, ParkedOK, TypeOK
    <3> QED BY <3>1, <2>1, <2>2 DEF QueueInv, ParkedOK, NeedsSync, TypeOK
  <2> QED BY <2>3, <2>4 DEF QueueInv
<1>b. ASSUME NEW o \in Op, NEW c \in Coll, NEW k \in Kind, NEW s \in BOOLEAN, ServeNow(o, c, k, s)
      PROVE QueueInv'
  BY <1>b, QueueKept DEF ServeNow, Describe, TypeOK
<1>c. ASSUME NEW o \in Op, NEW c \in Coll, NEW s \in BOOLEAN, StartIO(o, c, s)
      PROVE QueueInv'
  BY <1>c, QueueKept DEF StartIO, Describe, TypeOK
<1>d. CASE Dequeue
  <2> DEFINE o == Head(op_queue)
  <2>1. /\ op_queue # <<>> /\ op_queue' = Tail(op_queue) /\ sync_queue' = sync_queue
        /\ stage' = [stage EXCEPT ![o] = "IN_SERVICE"] /\ kind' = kind
        /\ coll' = coll /\ sync' = sync
    BY <1>d DEF Dequeue
  <2>2. /\ Len(op_queue) \in Nat \ {0} /\ DOMAIN op_queue = 1..Len(op_queue)
        /\ DOMAIN op_queue' = 1..Len(op_queue) - 1 /\ o = op_queue[1]
        /\ 1 \in DOMAIN op_queue
        /\ \A i \in DOMAIN op_queue' : /\ op_queue'[i] = op_queue[i + 1]
                                       /\ i + 1 \in DOMAIN op_queue /\ i + 1 # 1
    BY <2>1 DEF TypeOK
  <2>a. \A i \in DOMAIN op_queue : op_queue[i] \in Op
    BY DEF TypeOK
  <2>3. o \in Op /\ stage[o] = "QUEUED"
    BY <2>2, <2>a DEF QueueInv, QueueOK
  <2>4. \A i \in DOMAIN op_queue' : op_queue[i + 1] # o /\ op_queue[i + 1] \in Op
    <3> TAKE i \in DOMAIN op_queue'
    <3>1. i + 1 \in DOMAIN op_queue /\ i + 1 # 1 /\ 1 \in DOMAIN op_queue
      BY <2>2
    <3> QED BY <3>1, <2>2, <2>a DEF QueueInv, QueueOK
  <2> HIDE DEF o
  <2>5. QueueOK'
    <3>1. \A i \in DOMAIN op_queue' : stage'[op_queue'[i]] = "QUEUED"
      BY <2>1, <2>2, <2>4 DEF QueueInv, QueueOK, TypeOK
    <3>2. \A i, j \in DOMAIN op_queue' : op_queue'[i] = op_queue'[j] => i = j
      <4> TAKE i, j \in DOMAIN op_queue'
      <4>1. op_queue'[i] = op_queue'[j] => i + 1 = j + 1
        BY <2>2 DEF QueueInv, QueueOK
      <4> QED BY <4>1, <2>2
    <3> QED BY <3>1, <3>2 DEF QueueOK
  <2>6. ParkedOK'
    <3>1. \A d \in Db : \A i \in DOMAIN sync_queue[d] : sync_queue[d][i] \in Op \ {o}
      BY <2>3 DEF QueueInv, ParkedOK, TypeOK
    <3> QED BY <3>1, <2>1 DEF QueueInv, ParkedOK, NeedsSync, TypeOK
  <2> QED BY <2>5, <2>6 DEF QueueInv
<1>e. ASSUME NEW o \in Op, Service(o) PROVE QueueInv'
  <2>1. \A p \in Op \ {o} : kind'[p] = kind[p] /\ sync'[p] = sync[p]
    BY <1>e DEF Service, TypeOK
  <2> QED BY <1>e, <2>1, QueueKept DEF Service, TypeOK
<1>f. ASSUME NEW o \in Op, GrowIO(o) PROVE QueueInv'
  <2>1. \A p \in Op \ {o} : stage'[p] = stage[p] /\ kind'[p] = kind[p] /\ sync'[p] = sync[p]
    BY <1>f DEF GrowIO, TypeOK
  <2> QED BY <1>f, <2>1, QueueKept DEF GrowIO, TypeOK
<1>g. ASSUME NEW o \in Op, FinishIO(o) PROVE QueueInv'
  BY <1>g, QueueKept DEF FinishIO, TypeOK
<1>h. ASSUME NEW o \in Op, Coalesce(o) PROVE QueueInv'
  <2>1. CASE CompleteNow(o)
    BY <2>1, QueueKept DEF CompleteNow, TypeOK
  <2>2. CASE CompleteEarly(o)
    BY <2>2, QueueKept DEF CompleteEarly, TypeOK
  <2>3. CASE CountLate(o)
    BY <2>3, QueueKept DEF CountLate, TypeOK
  <2>4. CASE Flush(o)
    <3> DEFINE e == Context(kind[o])
               Parked(p) == \E i \in DOMAIN sync_queue[e] : sync_queue[e][i] = p
    <3>1. /\ op_queue' = op_queue /\ sync_queue' = [sync_queue EXCEPT ![e] = <<>>]
          /\ stage' = [p \in Op |-> IF p = o \/ Parked(p) THEN "COMPLETED" ELSE stage[p]]
          /\ kind' = kind /\ coll' = coll /\ sync' = sync /\ stage[o] = "SERVED"
      BY <2>4 DEF Flush
    <3>2. e \in Db
      BY ContextType
    <3>3. \A p \in Op : stage[p] = "QUEUED" => stage'[p] = "QUEUED"
      BY <3>1, <3>2 DEF QueueInv, ParkedOK
    <3>4. QueueOK'
      BY <3>1, <3>3 DEF QueueInv, QueueOK, TypeOK
    <3>5. ASSUME NEW d \in Db, NEW i \in DOMAIN sync_queue'[d]
          PROVE  /\ d # e /\ sync_queue'[d] = sync_queue[d]
                 /\ ~Parked(sync_queue[d][i]) /\ sync_queue[d][i] \in Op \ {o}
      <4>1. d # e /\ sync_queue'[d] = sync_queue[d]
        BY <3>1, <3>2, <3>5 DEF TypeOK
      <4>2. sync_queue[d][i] \in Op \ {o}
        BY <4>1, <3>1, <3>5 DEF QueueInv, ParkedOK, TypeOK
      <4>3. Context(kind[sync_queue[d][i]]) = d
        BY <4>1, <3>5 DEF QueueInv, ParkedOK
      <4>4. \A p : Parked(p) => Context(kind[p]) = e
        BY <3>2 DEF QueueInv, ParkedOK
      <4> QED BY <4>1, <4>2, <4>3, <4>4
    <3> HIDE DEF e, Parked
    <3>6. ParkedOK'
      BY <3>1, <3>5 DEF QueueInv, ParkedOK, NeedsSync
    <3> QED BY <3>4, <3>6 DEF QueueInv
  <2>5. CASE Park(o)
    <3> DEFINE e == Context(kind[o])
    <3>1. /\ op_queue' = op_queue /\ sync_queue' = [sync_queue EXCEPT ![e] = Append(@, o)]
          /\ stage' = [stage EXCEPT ![o] = "PARKED"] /\ stage[o] = "SERVED"
          /\ kind' = kind /\ coll' = coll /\ sync' = sync
          /\ NeedsSync(o) /\ coll[o] \in MetaSync
      BY <2>5 DEF Park
    <3>2. e \in Db
      BY ContextType
    <3>3. QueueOK'
      BY <3>1 DEF QueueInv, QueueOK, TypeOK
    <3>4. ASSUME NEW d \in Db, NEW i \in DOMAIN sync_queue'[d]
          PROVE  \/ i \in DOMAIN sync_queue[d] /\ sync_queue'[d][i] = sync_queue[d][i]
                                               /\ sync_queue[d][i] \in Op
                 \/ d = e /\ sync_queue'[d][i] = o
      <4>1. CASE d # e
        BY <4>1, <3>1, <3>4 DEF TypeOK
      <4>2. CASE d = e
        BY <4>2, <3>1, <3>2, <3>4 DEF TypeOK
      <4> QED BY <4>1, <4>2
    <3>5. ParkedOK'
      BY <3>1, <3>4 DEF QueueInv, ParkedOK, NeedsSync, TypeOK
    <3> QED BY <3>3, <3>5 DEF QueueInv
  <2> QED BY <1>h, <2>1, <2>2, <2>3, <2>4, <2>5 DEF Coalesce
<1>i. ASSUME NEW o \in Op, Reap(o) PROVE QueueInv'
  BY <1>i, QueueKept DEF Reap, TypeOK
<1>j. CASE UNCHANGED vars
  BY <1>j DEF vars, QueueInv, QueueOK, ParkedOK, NeedsSync, TypeOK
<1> QED BY <1>a, <1>b, <1>c, <1>d, <1>e, <1>f, <1>g, <1>h, <1>i, <1>j DEF Next

-----------------------------------------------------------------------------
(* Durability.  It holds where all that is parked belongs to one           *)
(* collection, syncs succeed and nobody removes lists of dataspaces; runs  *)
(* show that none of the three can be dropped.                             *)

Sound ==
  /\ \A c, d \in MetaSync : c = d
  /\ ~SyncMayFail
  /\ "REMOVE_LIST" \notin Kind

\* What is true of an operation on its way to the completion queue: before it
\* is served it has written nothing; once served it has nothing unsynced but
\* in the database dbpf_sync_coalesce will sync for it.
OpInv(o) ==
  /\ stage[o] \in {"IDLE", "QUEUED", "IN_SERVICE", "IO"} =>
       \A c \in Coll, d \in Db : o \notin dirty[c][d]
  /\ stage[o] \in {"QUEUED", "IN_SERVICE"} => kind[o] # "IO"
  /\ kind[o] # "REMOVE_LIST"
  /\ stage[o] = "LATE" => coll[o] \notin MetaSync
  /\ stage[o] \in {"SERVED", "PARKED"} /\ ok[o] /\ sync[o] =>
       \A d \in Writes(kind[o]) : (DoesSync(kind[o]) => d # Context(kind[o])) =>
         o \notin dirty[coll[o]][d]
  /\ stage[o] = "COMPLETED" /\ ok[o] /\ sync[o] /\ coll[o] \in MetaSync => OnDisk(o)

DurInv == QueueInv /\ \A o \in Op : OpInv(o)

\* The databases an operation writes are databases.
LEMMA WritesType == \A k : Writes(k) \subseteq Db
  BY DEF Writes, Db

\* An operation that a step does not touch, but perhaps brings to disk.
LEMMA OpKept ==
  ASSUME TypeOK, NEW p \in Op, OpInv(p),
         stage'[p] = stage[p], kind'[p] = kind[p], coll'[p] = coll[p],
         sync'[p] = sync[p], ok'[p] = ok[p],
         \A c \in Coll, d \in Db : p \in dirty'[c][d] => p \in dirty[c][d]
  PROVE  OpInv(p)'
<1>1. coll[p] \in Coll /\ Writes(kind[p]) \subseteq Db
  BY WritesType DEF TypeOK
<1>2. \A d \in Writes(kind[p]) : p \in dirty'[coll[p]][d] => p \in dirty[coll[p]][d]
  BY <1>1
<1>3. OnDisk(p) => OnDisk(p)'
  BY <1>2 DEF OnDisk
<1> QED BY <1>2, <1>3 DEF OpInv

\* Nothing has been written at the start.
LEMMA DurInit == Init => DurInv
  BY QueueInit DEF Init, DurInv, OpInv

\* Posting an operation and starting I/O write nothing.
LEMMA DurPost ==
  ASSUME DurInv, TypeOK', NEW o \in Op, NEW c \in Coll, NEW k \in AnyKind, NEW s \in BOOLEAN,
         k # "REMOVE_LIST", Describe(o, c, k, s), dirty' = dirty, ok' = ok,
         \/ k # "IO" /\ stage' = [stage EXCEPT ![o] = "QUEUED"]
         \/ stage' = [stage EXCEPT ![o] = "IO"]
  PROVE  \A p \in Op : OpInv(p)'
<1> TypeOK
  BY DEF DurInv, QueueInv
<1>1. OpInv(o)'
  <2>1. \A b \in Coll, d \in Db : o \notin dirty'[b][d]
    BY DEF DurInv, OpInv, Describe
  <2>2. kind'[o] = k /\ stage'[o] \in {"QUEUED", "IO"} /\ (stage'[o] = "QUEUED" => k # "IO")
    BY DEF Describe, TypeOK
  <2> QED BY <2>1, <2>2 DEF OpInv
<1>2. \A p \in Op \ {o} : OpInv(p)'
  BY OpKept DEF DurInv, Describe, TypeOK
<1> QED BY <1>1, <1>2

\* With immediate completion an operation that asked for a sync is on disk or
\* has failed, and no write of another one is undone.
LEMMA ServeNowFacts ==
  ASSUME TypeOK, NEW o \in Op, NEW c \in Coll, NEW k \in Kind, NEW s \in BOOLEAN,
         ServeNow(o, c, k, s), k # "REMOVE_LIST"
  PROVE  /\ ok'[o] /\ s => \A d \in Writes(k) : o \notin dirty'[c][d]
         /\ \A p \in Op \ {o} : /\ ok'[p] = ok[p]
                                /\ \A b \in Coll, d \in Db : p \in dirty'[b][d] => p \in dirty[b][d]
<1> k \in AnyKind
  BY DbpfAssumption
<1> k # "IO" /\ k # "RESIZE"
  BY DEF ServeNow, AtOnce
<1>0. OwnDb(k) \subseteq Db /\ "KEYVAL" \in Db
  BY DEF OwnDb, Db
<1>1. PICK svc \in BOOLEAN, inner \in SyncResult, outer \in SyncResult, own \in OwnDb(k) :
        LET served == svc /\ (SyncsKeyval(k, s) => inner)
            w == IF svc THEN Written(o, c, k) ELSE dirty
            x == IF SyncsKeyval(k, s) /\ served THEN Synced(w, c, "KEYVAL") ELSE w
        IN  /\ ok' = [ok EXCEPT ![o] = served /\ (s => outer)]
            /\ dirty' = IF served /\ s /\ outer THEN Synced(x, c, own) ELSE x
  BY DEF ServeNow
<1> DEFINE served == svc /\ (SyncsKeyval(k, s) => inner)
           w == IF svc THEN Written(o, c, k) ELSE dirty
           x == IF SyncsKeyval(k, s) /\ served THEN Synced(w, c, "KEYVAL") ELSE w
<1>2. /\ w \in [Coll -> [Db -> SUBSET Op]]
      /\ \A b \in Coll, d \in Db : \A p \in Op : p \in w[b][d] =>
           p \in dirty[b][d] \/ (p = o /\ b = c /\ d \in Writes(k))
  BY DEF Written, TypeOK
<1>3. /\ x \in [Coll -> [Db -> SUBSET Op]]
      /\ \A b \in Coll, d \in Db : x[b][d] \subseteq w[b][d]
      /\ SyncsKeyval(k, s) /\ served => x[c]["KEYVAL"] = {}
  <2> HIDE DEF w, served
  <2> QED BY <1>0, <1>2 DEF Synced
<1>4. /\ \A b \in Coll, d \in Db : dirty'[b][d] \subseteq x[b][d]
      /\ served /\ s /\ outer => dirty'[c][own] = {}
  <2>1. dirty' = IF served /\ s /\ outer THEN Synced(x, c, own) ELSE x
    BY <1>1
  <2> HIDE DEF x, served
  <2> QED BY <1>0, <1>3, <2>1 DEF Synced
<1>5. ok'[o] = (served /\ (s => outer))
  BY <1>1 DEF TypeOK
<1> HIDE DEF x, w, served
<1>6. ASSUME ok'[o], s PROVE \A d \in Writes(k) : o \notin dirty'[c][d]
  <2>1. dirty'[c][own] = {}
    BY <1>4, <1>5, <1>6
  <2>2. SyncsKeyval(k, s) => dirty'[c]["KEYVAL"] = {}
    BY <1>0, <1>3, <1>4, <1>5, <1>6
  <2>3. \A d \in Writes(k) : d = own \/ (d = "KEYVAL" /\ SyncsKeyval(k, s))
    BY <1>6 DEF Writes, OwnDb, SyncsKeyval, AnyKind
  <2> QED BY <2>1, <2>2, <2>3
<1>7. \A p \in Op \ {o}, b \in Coll, d \in Db : p \in dirty'[b][d] => p \in dirty[b][d]
  BY <1>2, <1>3, <1>4
<1>8. \A p \in Op \ {o} : ok'[p] = ok[p]
  BY <1>1 DEF TypeOK
<1> QED BY <1>6, <1>7, <1>8

\* So it keeps the durability invariant.
LEMMA DurServeNow ==
  ASSUME Sound, DurInv, TypeOK', NEW o \in Op, NEW c \in Coll, NEW k \in Kind, NEW s \in BOOLEAN,
         ServeNow(o, c, k, s)
  PROVE  \A p \in Op : OpInv(p)'
<1> TypeOK
  BY DEF DurInv, QueueInv
<1>1. k # "REMOVE_LIST"
  BY DEF Sound
<1>2. /\ ok'[o] /\ s => \A d \in Writes(k) : o \notin dirty'[c][d]
      /\ \A p \in Op \ {o} : /\ ok'[p] = ok[p]
                             /\ \A b \in Coll, d \in Db : p \in dirty'[b][d] => p \in dirty[b][d]
  BY <1>1, ServeNowFacts
<1>3. stage'[o] = "COMPLETED" /\ kind'[o] = k /\ coll'[o] = c /\ sync'[o] = s
  BY DEF ServeNow, Describe, TypeOK
<1>4. OpInv(o)'
  BY <1>1, <1>2, <1>3 DEF OpInv, OnDisk
<1>5. \A p \in Op \ {o} : OpInv(p)'
  BY <1>2, OpKept DEF DurInv, ServeNow, Describe, TypeOK
<1> QED BY <1>4, <1>5

\* After its service an operation has unsynced writes only in the database
\* that dbpf_sync_coalesce will sync.
LEMMA DurService ==
  ASSUME Sound, DurInv, TypeOK', NEW o \in Op, Service(o)
  PROVE  \A p \in Op : OpInv(p)'
<1> TypeOK /\ OpInv(o)
  BY DEF DurInv, QueueInv
<1> DEFINE k == kind[o]
           c == coll[o]
           s == sync[o]
<1>0. c \in Coll /\ "KEYVAL" \in Db /\ k \in AnyKind /\ s \in BOOLEAN
  BY DEF TypeOK, Db
<1>1. PICK svc \in BOOLEAN, inner \in SyncResult :
        LET flush  == SyncsKeyval(kind[o], sync[o])
            served == svc /\ (flush => inner)
            w == IF svc THEN Written(o, coll[o], kind[o]) ELSE dirty
        IN  /\ ok' = [ok EXCEPT ![o] = served]
            /\ dirty' = IF flush /\ served THEN Synced(w, coll[o], "KEYVAL") ELSE w
            /\ kind' = IF kind[o] = "RESIZE" /\ served
                         THEN [kind EXCEPT ![o] = "DSPACE"] ELSE kind
            /\ sync' = IF kind[o] = "RESIZE" /\ served
                         THEN [sync EXCEPT ![o] = TRUE] ELSE sync
  BY DEF Service
<1> DEFINE served == svc /\ (SyncsKeyval(k, s) => inner)
           w == IF svc THEN Written(o, c, k) ELSE dirty
<1>2. /\ w \in [Coll -> [Db -> SUBSET Op]]
      /\ \A b \in Coll, d \in Db : \A p \in Op : p \in w[b][d] =>
           p \in dirty[b][d] \/ (p = o /\ b = c /\ d \in Writes(k))
  BY <1>0 DEF Written, TypeOK
<1>3. /\ dirty' = IF SyncsKeyval(k, s) /\ served THEN Synced(w, c, "KEYVAL") ELSE w
      /\ ok'[o] = served
      /\ kind'[o] = IF k = "RESIZE" /\ served THEN "DSPACE" ELSE k
      /\ sync'[o] = IF k = "RESIZE" /\ served THEN TRUE ELSE s
      /\ \A p \in Op \ {o} : ok'[p] = ok[p] /\ kind'[p] = kind[p] /\ sync'[p] = sync[p]
  BY <1>1 DEF TypeOK
<1>4. stage[o] = "IN_SERVICE" /\ stage' = [stage EXCEPT ![o] = "SERVED"] /\ coll' = coll
  BY DEF Service
<1>5. k # "IO" /\ k # "REMOVE_LIST" /\ \A b \in Coll, d \in Db : o \notin dirty[b][d]
  BY <1>4 DEF OpInv
<1> HIDE DEF w, served
<1>6. /\ \A b \in Coll, d \in Db : dirty'[b][d] \subseteq w[b][d]
      /\ SyncsKeyval(k, s) /\ served => dirty'[c]["KEYVAL"] = {}
  BY <1>0, <1>2, <1>3 DEF Synced
<1>7. OpInv(o)'
  <2>1. stage'[o] = "SERVED" /\ coll'[o] = c
    BY <1>4 DEF TypeOK
  <2>2. kind'[o] # "REMOVE_LIST"
    BY <1>3, <1>5
  <2>3. ASSUME ok'[o], sync'[o], NEW d \in Writes(kind'[o]),
               DoesSync(kind'[o]) => d # Context(kind'[o])
        PROVE  o \notin dirty'[c][d]
    <3>1. served
      BY <1>3, <2>3
    <3>2. k = "REMOVE" /\ d = "KEYVAL" /\ s
      BY <1>0, <1>3, <1>5, <2>3, <3>1 DEF Writes, DoesSync, Context, AnyKind
    <3>3. SyncsKeyval(k, s)
      BY <3>2 DEF SyncsKeyval
    <3> QED BY <3>1, <3>2, <3>3, <1>6
  <2> QED BY <2>1, <2>2, <2>3 DEF OpInv
<1>8. \A p \in Op \ {o} : OpInv(p)'
  <2>1. \A p \in Op \ {o}, b \in Coll, d \in Db : p \in dirty'[b][d] => p \in dirty[b][d]
    BY <1>2, <1>6
  <2> QED BY <2>1, <1>3, <1>4, OpKept DEF DurInv, TypeOK
<1> QED BY <1>7, <1>8

\* Taking an operation from the queue changes nothing it has written.
LEMMA DurDequeue ==
  ASSUME DurInv, Dequeue
  PROVE  \A p \in Op : OpInv(p)'
<1> TypeOK /\ QueueOK
  BY DEF DurInv, QueueInv
<1>0. 1 \in DOMAIN op_queue /\ Head(op_queue) = op_queue[1] /\ op_queue[1] \in Op
  BY DEF Dequeue, TypeOK
<1>2. PICK o \in Op : o = Head(op_queue)
  BY <1>0
<1>1. /\ stage' = [stage EXCEPT ![o] = "IN_SERVICE"]
      /\ kind' = kind /\ coll' = coll /\ sync' = sync /\ ok' = ok /\ dirty' = dirty
  BY <1>2 DEF Dequeue
<1>3. stage[o] = "QUEUED"
  BY <1>0, <1>2 DEF QueueOK
<1>4. OpInv(o)'
  <2>1. stage'[o] = "IN_SERVICE"
    BY <1>1, <1>2 DEF TypeOK
  <2>2. OpInv(o)
    BY DEF DurInv
  <2> QED BY <1>1, <1>3, <2>1, <2>2 DEF OpInv
<1>5. \A p \in Op \ {o} : OpInv(p)'
  BY <1>1, OpKept DEF DurInv, TypeOK
<1> QED BY <1>4, <1>5

\* An I/O callback leaves an operation that grew a file to be synced, or
\* completes one that asked for no sync or has written nothing here.
LEMMA DurIO ==
  ASSUME DurInv, NEW o \in Op, GrowIO(o) \/ FinishIO(o)
  PROVE  \A p \in Op : OpInv(p)'
<1> TypeOK /\ OpInv(o)
  BY DEF DurInv, QueueInv
<1>0. /\ coll[o] \in Coll /\ kind[o] # "REMOVE_LIST" /\ Writes(kind[o]) \subseteq Db
      /\ \A c \in Coll, d \in Db : o \notin dirty[c][d]
  BY WritesType DEF OpInv, GrowIO, FinishIO, TypeOK
<1>1. CASE GrowIO(o)
  <2>1. \A p \in Op \ {o}, c \in Coll, d \in Db : p \in dirty'[c][d] => p \in dirty[c][d]
    BY <1>1 DEF GrowIO, Written, TypeOK
  <2>2. \A p \in Op \ {o} : /\ stage'[p] = stage[p] /\ kind'[p] = kind[p]
                            /\ coll'[p] = coll[p] /\ sync'[p] = sync[p] /\ ok'[p] = ok[p]
    BY <1>1 DEF GrowIO, TypeOK
  <2>3. \A p \in Op \ {o} : OpInv(p)'
    BY <2>1, <2>2, OpKept DEF DurInv
  <2>4. \/ stage'[o] = "SERVED" /\ kind'[o] = "DSPACE" /\ sync'[o] = TRUE
        \/ stage'[o] = "COMPLETED" /\ ~sync'[o] /\ kind'[o] = kind[o]
    BY <1>1 DEF GrowIO, TypeOK
  <2>5. OpInv(o)'
    <3>1. CASE stage'[o] = "SERVED" /\ kind'[o] = "DSPACE" /\ sync'[o] = TRUE
      BY <3>1 DEF OpInv, Writes, DoesSync, Context
    <3>2. CASE stage'[o] = "COMPLETED" /\ ~sync'[o] /\ kind'[o] = kind[o]
      BY <3>2, <1>0 DEF OpInv
    <3> QED BY <2>4, <3>1, <3>2
  <2> QED BY <2>3, <2>5
<1>2. CASE FinishIO(o)
  <2>1. \A p \in Op \ {o} : OpInv(p)'
    <3>1. \A p \in Op \ {o} : ok'[p] = ok[p] /\ stage'[p] = stage[p]
      BY <1>2 DEF FinishIO, TypeOK
    <3> QED BY <3>1, <1>2, OpKept DEF DurInv, FinishIO
  <2>2. stage'[o] = "COMPLETED" /\ kind' = kind /\ coll' = coll /\ dirty' = dirty
    BY <1>2 DEF FinishIO, TypeOK
  <2>3. OnDisk(o)'
    BY <1>0, <2>2 DEF OnDisk
  <2> QED BY <2>1, <2>2, <2>3, <1>0 DEF OpInv
<1> QED BY <1>1, <1>2

\* dbpf_sync_coalesce completes an operation only once it is on disk, if its
\* collection syncs metadata; the one sync of a flush reaches all it completes.
LEMMA DurCoalesce ==
  ASSUME Sound, DurInv, NEW o \in Op, Coalesce(o)
  PROVE  \A p \in Op : OpInv(p)'
<1> TypeOK /\ OpInv(o) /\ ParkedOK
  BY DEF DurInv, QueueInv
<1> DEFINE e == Context(kind[o])
<1>0. e \in Db /\ coll[o] \in Coll /\ Writes(kind[o]) \subseteq Db
  BY ContextType, WritesType DEF TypeOK
<1>1. CASE CompleteNow(o)
  <2>1. \A p \in Op \ {o} : OpInv(p)'
    BY <1>1, OpKept DEF DurInv, CompleteNow, TypeOK
  <2>2. /\ stage[o] = "SERVED" /\ ~NeedsSync(o) /\ stage'[o] = "COMPLETED"
        /\ kind' = kind /\ coll' = coll /\ dirty' = dirty /\ sync' = sync /\ ok' = ok
    BY <1>1 DEF CompleteNow, TypeOK
  <2>3. ok[o] /\ sync[o] => OnDisk(o)'
    BY <2>2 DEF OpInv, OnDisk, NeedsSync
  <2> QED BY <2>1, <2>2, <2>3 DEF OpInv
<1>2. CASE CompleteEarly(o)
  <2>1. \A p \in Op \ {o} : OpInv(p)'
    BY <1>2, OpKept DEF DurInv, CompleteEarly, TypeOK
  <2>2. stage'[o] = "LATE" /\ kind' = kind /\ coll' = coll /\ coll[o] \notin MetaSync
    BY <1>2 DEF CompleteEarly, TypeOK
  <2> QED BY <2>1, <2>2 DEF OpInv
<1>3. CASE CountLate(o)
  <2>1. \A c \in Coll, d \in Db : dirty'[c][d] \subseteq dirty[c][d]
    <3>1. dirty' = dirty \/ dirty' = Synced(dirty, coll[o], e)
      BY <1>3 DEF CountLate
    <3> HIDE DEF e
    <3>2. CASE dirty' = Synced(dirty, coll[o], e)
      BY <3>2, <1>0 DEF Synced, TypeOK
    <3> QED BY <3>1, <3>2
  <2>2. \A p \in Op \ {o} : OpInv(p)'
    BY <1>3, <2>1, OpKept DEF DurInv, CountLate, TypeOK
  <2>3. /\ stage[o] = "LATE" /\ stage'[o] = "COMPLETED" /\ kind' = kind /\ coll' = coll
    BY <1>3 DEF CountLate, TypeOK
  <2> QED BY <2>2, <2>3 DEF OpInv
<1>4. CASE Flush(o)
  <2> DEFINE Parked(p) == \E i \in DOMAIN sync_queue[e] : sync_queue[e][i] = p
  <2>1. /\ stage[o] = "SERVED" /\ NeedsSync(o) /\ coll[o] \in MetaSync
        /\ stage' = [p \in Op |-> IF p = o \/ Parked(p) THEN "COMPLETED" ELSE stage[p]]
        /\ dirty' = Synced(dirty, coll[o], e)
        /\ kind' = kind /\ coll' = coll /\ sync' = sync /\ ok' = ok
    BY <1>4 DEF Flush, SyncResult, Sound
  <2>2. \A p \in Op : Parked(p) =>
          /\ stage[p] = "PARKED" /\ NeedsSync(p) /\ Context(kind[p]) = e
          /\ coll[p] \in MetaSync
    BY <1>0 DEF ParkedOK
  <2> HIDE DEF e, Parked
  <2>3. /\ \A c \in Coll, d \in Db : dirty'[c][d] \subseteq dirty[c][d]
        /\ dirty'[coll[o]][e] = {}
    BY <2>1, <1>0 DEF Synced, TypeOK
  <2>4. ASSUME NEW p \in Op, p = o \/ Parked(p) PROVE OpInv(p)'
    <3>1. /\ stage[p] \in {"SERVED", "PARKED"} /\ NeedsSync(p) /\ Context(kind[p]) = e
          /\ coll[p] = coll[o] /\ stage'[p] = "COMPLETED" /\ OpInv(p)
      BY <2>1, <2>2, <2>4 DEF Sound, DurInv, e
    <3>2. \A d \in Writes(kind[p]) : d \in Db
      BY WritesType
    <3>3. ok[p] => OnDisk(p)'
      BY <3>1, <3>2, <2>1, <2>3, <1>0 DEF OpInv, OnDisk, NeedsSync
    <3> QED BY <3>1, <3>3, <2>1 DEF OpInv
  <2>5. ASSUME NEW p \in Op, p # o, ~Parked(p) PROVE OpInv(p)'
    BY <2>1, <2>3, <2>5, OpKept DEF DurInv
  <2> QED BY <2>4, <2>5
<1>5. CASE Park(o)
  <2>1. \A p \in Op \ {o} : OpInv(p)'
    BY <1>5, OpKept DEF DurInv, Park, TypeOK
  <2>2. /\ stage[o] = "SERVED" /\ stage'[o] = "PARKED"
        /\ kind' = kind /\ coll' = coll /\ dirty' = dirty /\ sync' = sync /\ ok' = ok
    BY <1>5 DEF Park, TypeOK
  <2> QED BY <2>1, <2>2 DEF OpInv
<1> QED BY <1>1, <1>2, <1>3, <1>4, <1>5 DEF Coalesce

\* A reaped operation owns no writes.
LEMMA DurReap ==
  ASSUME DurInv, NEW o \in Op, Reap(o)
  PROVE  \A p \in Op : OpInv(p)'
<1> TypeOK
  BY DEF DurInv, QueueInv
<1>1. /\ stage' = [stage EXCEPT ![o] = "IDLE"] /\ kind' = [kind EXCEPT ![o] = "READ"]
      /\ coll' = coll /\ sync' = [sync EXCEPT ![o] = FALSE] /\ ok' = [ok EXCEPT ![o] = TRUE]
      /\ dirty' = [c \in Coll |-> [d \in Db |-> dirty[c][d] \ {o}]]
  BY DEF Reap
<1>2. \A c \in Coll, d \in Db : dirty'[c][d] = dirty[c][d] \ {o}
  BY <1>1
<1>3. OpInv(o)'
  <2>1. stage'[o] = "IDLE" /\ kind'[o] = "READ"
    BY <1>1 DEF TypeOK
  <2> QED BY <2>1, <1>2 DEF OpInv
<1>4. \A p \in Op \ {o} : OpInv(p)'
  BY <1>1, <1>2, OpKept DEF DurInv, TypeOK
<1> QED BY <1>3, <1>4

\* Every step keeps the durability invariant.
LEMMA DurNext == Sound /\ DurInv /\ [Next]_vars => DurInv'
<1> SUFFICES ASSUME Sound, DurInv, [Next]_vars PROVE DurInv'
  OBVIOUS
<1>1. QueueInv' /\ TypeOK' /\ TypeOK
  BY QueueNext DEF DurInv, QueueInv
<1>a. ASSUME NEW o \in Op, NEW c \in Coll, NEW k \in Kind, NEW s \in BOOLEAN, Post(o, c, k, s)
      PROVE \A p \in Op : OpInv(p)'
  <2>1. k \in AnyKind /\ k # "REMOVE_LIST" /\ k # "IO"
    BY <1>a, DbpfAssumption DEF Sound, Post
  <2>2. /\ Describe(o, c, k, s) /\ dirty' = dirty /\ ok' = ok
        /\ stage' = [stage EXCEPT ![o] = "QUEUED"]
    BY <1>a DEF Post
  <2> QED BY <1>1, <2>1, <2>2, DurPost
<1>b. ASSUME NEW o \in Op, NEW c \in Coll, NEW k \in Kind, NEW s \in BOOLEAN, ServeNow(o, c, k, s)
      PROVE \A p \in Op : OpInv(p)'
  BY <1>1, <1>b, DurServeNow
<1>c. ASSUME NEW o \in Op, NEW c \in Coll, NEW s \in BOOLEAN, StartIO(o, c, s)
      PROVE \A p \in Op : OpInv(p)'
  <2>1. /\ Describe(o, c, "IO", s) /\ dirty' = dirty /\ ok' = ok
        /\ stage' = [stage EXCEPT ![o] = "IO"]
    BY <1>c DEF StartIO
  <2>2. "IO" \in AnyKind
    BY DEF AnyKind
  <2> QED BY <1>1, <2>1, <2>2, DurPost
<1>d. CASE Dequeue
  BY <1>1, <1>d, DurDequeue DEF DurInv
<1>e. ASSUME NEW o \in Op, Service(o) PROVE \A p \in Op : OpInv(p)'
  BY <1>1, <1>e, DurService
<1>f. ASSUME NEW o \in Op, GrowIO(o) \/ FinishIO(o) PROVE \A p \in Op : OpInv(p)'
  BY <1>f, DurIO
<1>g. ASSUME NEW o \in Op, Coalesce(o) PROVE \A p \in Op : OpInv(p)'
  BY <1>g, DurCoalesce
<1>h. ASSUME NEW o \in Op, Reap(o) PROVE \A p \in Op : OpInv(p)'
  BY <1>h, DurReap
<1>i. CASE UNCHANGED vars
  BY <1>i, <1>1, OpKept DEF DurInv, vars
<1> QED
  <2>1. \A p \in Op : OpInv(p)'
    BY <1>a, <1>b, <1>c, <1>d, <1>e, <1>f, <1>g, <1>h, <1>i DEF Next, DurInv
  <2> QED BY <1>1, <2>1 DEF DurInv

\* A TROVE_SYNC operation of a collection with metadata sync that
\* dbpf_dspace_testcontext can report as done is on disk, for any number of
\* operations, watermarks and orders of service, under Sound.
THEOREM AckedDurableHolds == Sound => (Spec => []AckedDurable)
<1> SUFFICES ASSUME Sound PROVE Spec => []AckedDurable
  OBVIOUS
<1>1. Init => DurInv
  BY DurInit
<1>2. DurInv /\ [Next]_vars => DurInv'
  BY DurNext
<1>3. DurInv => AckedDurable
  BY DEF DurInv, OpInv, AckedDurable
<1> QED BY <1>1, <1>2, <1>3, PTL DEF Spec

-----------------------------------------------------------------------------
(* The counter of queued operations, and the wakeups that rest on it.      *)

\* A step that leaves the counter and the queued operations alone.
LEMMA CountKept ==
  ASSUME CounterExact, sync_counter' = sync_counter,
         \A p \in Op : /\ stage'[p] = "QUEUED" <=> stage[p] = "QUEUED"
                       /\ stage[p] = "QUEUED" => kind'[p] = kind[p] /\ sync'[p] = sync[p]
  PROVE  CounterExact'
<1>1. ASSUME NEW d \in Db PROVE Counted(d)' = Counted(d)
  BY DEF Counted, NeedsSync
<1> QED BY <1>1 DEF CounterExact

\* One operation enters or leaves the set that is counted.
LEMMA CountMoved ==
  ASSUME IsFiniteSet(Op), NEW S \in SUBSET Op, NEW o \in Op
  PROVE  /\ o \notin S => Cardinality(S \cup {o}) = Cardinality(S) + 1
         /\ o \in S => Cardinality(S \ {o}) = Cardinality(S) - 1
         /\ Cardinality(S) \in Nat
<1>1. IsFiniteSet(S)
  BY FS_Subset
<1> QED BY <1>1, FS_AddElement, FS_RemoveElement, FS_CardinalityType

\* sync_counter counts the queued operations that come to dbpf_sync_coalesce.
LEMMA CountNext ==
  ASSUME IsFiniteSet(Op), QueueInv, CounterExact, [Next]_vars
  PROVE  CounterExact'
<1> TypeOK /\ TypeOK'
  BY TypeNext DEF QueueInv
<1>a. ASSUME NEW o \in Op, NEW c \in Coll, NEW k \in Kind, NEW s \in BOOLEAN, Post(o, c, k, s)
      PROVE CounterExact'
  <2>1. /\ stage[o] = "IDLE" /\ stage' = [stage EXCEPT ![o] = "QUEUED"]
        /\ kind' = [kind EXCEPT ![o] = k] /\ sync' = [sync EXCEPT ![o] = s]
        /\ sync_counter' = IF DoesSync(k) /\ s
             THEN [sync_counter EXCEPT ![Context(k)] = @ + 1] ELSE sync_counter
    BY <1>a DEF Post, Describe, Count
  <2>2. ASSUME NEW d \in Db PROVE sync_counter'[d] = Cardinality(Counted(d)')
    <3>1. Counted(d) \in SUBSET Op /\ o \notin Counted(d)
      BY <2>1 DEF Counted
    <3>2. CASE DoesSync(k) /\ s /\ Context(k) = d
      <4>1. Counted(d)' = Counted(d) \cup {o}
        BY <3>2, <2>1 DEF Counted, NeedsSync, TypeOK
      <4>2. sync_counter'[d] = sync_counter[d] + 1
        BY <3>2, <2>1 DEF TypeOK
      <4> HIDE DEF Counted
      <4> QED BY <4>1, <4>2, <3>1, CountMoved DEF CounterExact
    <3>3. CASE ~(DoesSync(k) /\ s /\ Context(k) = d)
      <4>1. Counted(d)' = Counted(d)
        BY <3>3, <2>1 DEF Counted, NeedsSync, TypeOK
      <4>2. sync_counter'[d] = sync_counter[d]
        BY <3>3, <2>1 DEF TypeOK
      <4> QED BY <4>1, <4>2 DEF CounterExact
    <3> QED BY <3>2, <3>3
  <2> QED BY <2>2 DEF CounterExact
<1>b. ASSUME NEW o \in Op, NEW c \in Coll, NEW k \in Kind, NEW s \in BOOLEAN, ServeNow(o, c, k, s)
      PROVE CounterExact'
  BY <1>b, CountKept DEF ServeNow, Describe, TypeOK
<1>c. ASSUME NEW o \in Op, NEW c \in Coll, NEW s \in BOOLEAN, StartIO(o, c, s)
      PROVE CounterExact'
  BY <1>c, CountKept DEF StartIO, Describe, TypeOK
<1>d. CASE Dequeue
  <2>1. 1 \in DOMAIN op_queue /\ Head(op_queue) = op_queue[1] /\ op_queue[1] \in Op
    BY <1>d DEF Dequeue, TypeOK
  <2>2. PICK o \in Op : o = Head(op_queue)
    BY <2>1
  <2>3. /\ stage' = [stage EXCEPT ![o] = "IN_SERVICE"] /\ kind' = kind /\ sync' = sync
        /\ sync_counter' = IF DoesSync(kind[o]) /\ sync[o]
             THEN [sync_counter EXCEPT ![Context(kind[o])] = @ + (-1)] ELSE sync_counter
    BY <1>d, <2>2 DEF Dequeue, Count
  <2>4. stage[o] = "QUEUED"
    BY <2>1, <2>2 DEF QueueInv, QueueOK
  <2>5. ASSUME NEW d \in Db PROVE sync_counter'[d] = Cardinality(Counted(d)')
    <3>1. Counted(d) \in SUBSET Op
      BY DEF Counted
    <3>2. CASE NeedsSync(o) /\ Context(kind[o]) = d
      <4>1. Counted(d)' = Counted(d) \ {o} /\ o \in Counted(d)
        BY <3>2, <2>3, <2>4 DEF Counted, NeedsSync, TypeOK
      <4>2. sync_counter'[d] = sync_counter[d] - 1
        BY <3>2, <2>3 DEF TypeOK, NeedsSync
      <4> HIDE DEF Counted
      <4> QED BY <4>1, <4>2, <3>1, CountMoved DEF CounterExact
    <3>3. CASE ~(NeedsSync(o) /\ Context(kind[o]) = d)
      <4>1. Counted(d)' = Counted(d)
        BY <3>3, <2>3, <2>4 DEF Counted, NeedsSync, TypeOK
      <4>2. sync_counter'[d] = sync_counter[d]
        BY <3>3, <2>3 DEF TypeOK, NeedsSync
      <4> QED BY <4>1, <4>2 DEF CounterExact
    <3> QED BY <3>2, <3>3
  <2> QED BY <2>5 DEF CounterExact
<1>e. ASSUME NEW o \in Op, Service(o) PROVE CounterExact'
  <2>1. \A p \in Op \ {o} : kind'[p] = kind[p] /\ sync'[p] = sync[p]
    BY <1>e DEF Service, TypeOK
  <2> QED BY <1>e, <2>1, CountKept DEF Service, TypeOK
<1>f. ASSUME NEW o \in Op, GrowIO(o) PROVE CounterExact'
  <2>1. \A p \in Op \ {o} : stage'[p] = stage[p] /\ kind'[p] = kind[p] /\ sync'[p] = sync[p]
    BY <1>f DEF GrowIO, TypeOK
  <2>2. stage[o] = "IO" /\ stage'[o] \in {"SERVED", "COMPLETED"} /\ sync_counter' = sync_counter
    BY <1>f DEF GrowIO, TypeOK
  <2> QED BY <2>1, <2>2, CountKept
<1>g. ASSUME NEW o \in Op, FinishIO(o) PROVE CounterExact'
  BY <1>g, CountKept DEF FinishIO, TypeOK
<1>h. ASSUME NEW o \in Op, Coalesce(o) PROVE CounterExact'
  <2>1. CASE CompleteNow(o)
    BY <2>1, CountKept DEF CompleteNow, TypeOK
  <2>2. CASE CompleteEarly(o)
    BY <2>2, CountKept DEF CompleteEarly, TypeOK
  <2>3. CASE CountLate(o)
    BY <2>3, CountKept DEF CountLate, TypeOK
  <2>4. CASE Flush(o)
    <3>1. \A i \in DOMAIN sync_queue[Context(kind[o])] :
            stage[sync_queue[Context(kind[o])][i]] = "PARKED"
      BY ContextType DEF QueueInv, ParkedOK
    <3>2. /\ \A p \in Op : stage'[p] = "QUEUED" <=> stage[p] = "QUEUED"
          /\ kind' = kind /\ sync' = sync /\ sync_counter' = sync_counter
      BY <2>4, <3>1 DEF Flush
    <3> QED BY <3>2, CountKept
  <2>5. CASE Park(o)
    BY <2>5, CountKept DEF Park, TypeOK
  <2> QED BY <1>h, <2>1, <2>2, <2>3, <2>4, <2>5 DEF Coalesce
<1>i. ASSUME NEW o \in Op, Reap(o) PROVE CounterExact'
  BY <1>i, CountKept DEF Reap, TypeOK
<1>j. CASE UNCHANGED vars
  BY <1>j, CountKept DEF vars
<1> QED BY <1>a, <1>b, <1>c, <1>d, <1>e, <1>f, <1>g, <1>h, <1>i, <1>j DEF Next

\* However operations are posted, served, flushed and reaped, sync_counter is
\* the number of queued operations that will come to dbpf_sync_coalesce.
THEOREM CounterExactHolds == IsFiniteSet(Op) => (Spec => []CounterExact)
<1> SUFFICES ASSUME IsFiniteSet(Op) PROVE Spec => []CounterExact
  OBVIOUS
<1>1. Init => CounterExact
  <2> SUFFICES ASSUME Init PROVE CounterExact
    OBVIOUS
  <2>1. ASSUME NEW d \in Db PROVE Counted(d) = {} /\ sync_counter[d] = 0
    BY DEF Init, Counted
  <2> QED BY <2>1, FS_EmptySet DEF CounterExact
<1>2. QueueInv /\ CounterExact /\ [Next]_vars => CounterExact'
  BY CountNext
<1> QED BY <1>1, <1>2, QueueInit, QueueNext, PTL DEF Spec

\* The setting in which nothing is stranded: every collection syncs metadata
\* and has a low watermark of at least one, as the defaults have.
WakesParked == MetaSync = Coll /\ \A c \in Coll : Low[c] >= 1

\* A step that keeps every operation that could wake the parked ones.
LEMMA StrandKept ==
  ASSUME NotStranded,
         \A d \in Db : sync_queue'[d] # <<>> => sync_queue[d] # <<>>,
         \A p \in Op : stage[p] \in {"QUEUED", "IN_SERVICE", "SERVED"} /\ NeedsSync(p) =>
           /\ stage'[p] \in {"QUEUED", "IN_SERVICE", "SERVED"}
           /\ kind'[p] = kind[p] /\ sync'[p] = sync[p]
  PROVE  NotStranded'
  BY DEF NotStranded, NeedsSync

\* An operation is parked only while another one is counted behind it, and
\* the one that would wake the parked ones does so before it completes.
LEMMA StrandNext ==
  ASSUME IsFiniteSet(Op), WakesParked, QueueInv, CounterExact, NotStranded, [Next]_vars
  PROVE  NotStranded'
<1> TypeOK /\ TypeOK'
  BY TypeNext DEF QueueInv
<1>a. ASSUME NEW o \in Op, NEW c \in Coll, NEW k \in Kind, NEW s \in BOOLEAN, Post(o, c, k, s)
      PROVE NotStranded'
  BY <1>a, StrandKept DEF Post, Describe, TypeOK
<1>b. ASSUME NEW o \in Op, NEW c \in Coll, NEW k \in Kind, NEW s \in BOOLEAN, ServeNow(o, c, k, s)
      PROVE NotStranded'
  BY <1>b, StrandKept DEF ServeNow, Describe, TypeOK
<1>c. ASSUME NEW o \in Op, NEW c \in Coll, NEW s \in BOOLEAN, StartIO(o, c, s)
      PROVE NotStranded'
  BY <1>c, StrandKept DEF StartIO, Describe, TypeOK
<1>d. CASE Dequeue
  BY <1>d, StrandKept DEF Dequeue, TypeOK
<1>e. ASSUME NEW o \in Op, Service(o) PROVE NotStranded'
  <2>1. \A p \in Op : NeedsSync(p) => kind'[p] = kind[p] /\ sync'[p] = sync[p]
    BY <1>e DEF Service, TypeOK, NeedsSync, DoesSync
  <2>2. sync_queue' = sync_queue /\ stage' = [stage EXCEPT ![o] = "SERVED"]
    BY <1>e DEF Service
  <2> QED BY <2>1, <2>2, StrandKept DEF TypeOK
<1>f. ASSUME NEW o \in Op, GrowIO(o) PROVE NotStranded'
  <2>1. \A p \in Op \ {o} : stage'[p] = stage[p] /\ kind'[p] = kind[p] /\ sync'[p] = sync[p]
    BY <1>f DEF GrowIO, TypeOK
  <2>2. stage[o] = "IO" /\ sync_queue' = sync_queue
    BY <1>f DEF GrowIO
  <2> QED BY <2>1, <2>2, StrandKept
<1>g. ASSUME NEW o \in Op, FinishIO(o) PROVE NotStranded'
  BY <1>g, StrandKept DEF FinishIO, TypeOK
<1>h. ASSUME NEW o \in Op, Coalesce(o) PROVE NotStranded'
  <2> DEFINE e == Context(kind[o])
  <2>0. e \in Db /\ coll[o] \in Coll
    BY ContextType DEF TypeOK
  <2>1. CASE CompleteNow(o)
    BY <2>1, StrandKept DEF CompleteNow, TypeOK
  <2>2. CASE CompleteEarly(o)
    BY <2>2, <2>0 DEF CompleteEarly, WakesParked
  <2>3. CASE CountLate(o)
    BY <2>3, StrandKept DEF CountLate, TypeOK
  <2>4. CASE Flush(o)
    <3>1. /\ sync_queue' = [sync_queue EXCEPT ![e] = <<>>] /\ kind' = kind /\ sync' = sync
          /\ \A p \in Op : stage'[p] = stage[p] \/ p = o
               \/ \E i \in DOMAIN sync_queue[e] : sync_queue[e][i] = p
      BY <2>4 DEF Flush
    <3>2. \A i \in DOMAIN sync_queue[e] : stage[sync_queue[e][i]] = "PARKED"
      BY <2>0 DEF QueueInv, ParkedOK
    <3>3. ASSUME NEW d \in Db, sync_queue'[d] # <<>>
          PROVE  \E p \in Op : /\ stage'[p] \in {"QUEUED", "IN_SERVICE", "SERVED"}
                               /\ NeedsSync(p)' /\ Context(kind'[p]) = d
      <4>1. d # e /\ sync_queue[d] # <<>>
        BY <3>1, <3>3, <2>0 DEF TypeOK
      <4>2. PICK p \in Op : /\ stage[p] \in {"QUEUED", "IN_SERVICE", "SERVED"}
                            /\ NeedsSync(p) /\ Context(kind[p]) = d
        BY <4>1 DEF NotStranded
      <4>3. stage'[p] = stage[p]
        BY <4>1, <4>2, <3>1, <3>2
      <4> QED BY <4>2, <4>3, <3>1 DEF NeedsSync
    <3> QED BY <3>3 DEF NotStranded
  <2>5. CASE Park(o)
    <3>1. /\ sync_queue' = [sync_queue EXCEPT ![e] = Append(@, o)] /\ kind' = kind
          /\ sync' = sync /\ stage' = [stage EXCEPT ![o] = "PARKED"] /\ stage[o] = "SERVED"
          /\ ~(sync_counter[e] < Low[coll[o]])
      BY <2>5 DEF Park, AtWatermark
    <3>2. \E p \in Op : stage[p] = "QUEUED" /\ NeedsSync(p) /\ Context(kind[p]) = e
      <4>1. Low[coll[o]] >= 1 /\ Low[coll[o]] \in Int /\ sync_counter[e] \in Int
        BY <2>0, DbpfAssumption DEF WakesParked, TypeOK
      <4>2. Cardinality(Counted(e)) # 0
        BY <4>1, <3>1, <2>0 DEF CounterExact
      <4>3. Counted(e) # {}
        BY <4>2, FS_EmptySet
      <4> QED BY <4>3 DEF Counted
    <3>3. ASSUME NEW d \in Db, sync_queue'[d] # <<>>
          PROVE  \E p \in Op : /\ stage'[p] \in {"QUEUED", "IN_SERVICE", "SERVED"}
                               /\ NeedsSync(p)' /\ Context(kind'[p]) = d
      <4>1. CASE d = e
        BY <4>1, <3>1, <3>2 DEF NeedsSync, TypeOK
      <4>2. CASE d # e
        <5>1. sync_queue[d] # <<>>
          BY <4>2, <3>1, <3>3 DEF TypeOK
        <5>2. PICK p \in Op : /\ stage[p] \in {"QUEUED", "IN_SERVICE", "SERVED"}
                              /\ NeedsSync(p) /\ Context(kind[p]) = d
          BY <5>1 DEF NotStranded
        <5>3. p # o
          BY <4>2, <5>2
        <5> QED BY <5>2, <5>3, <3>1 DEF NeedsSync, TypeOK
      <4> QED BY <4>1, <4>2
    <3> QED BY <3>3 DEF NotStranded
  <2> QED BY <1>h, <2>1, <2>2, <2>3, <2>4, <2>5 DEF Coalesce
<1>i. ASSUME NEW o \in Op, Reap(o) PROVE NotStranded'
  BY <1>i, StrandKept DEF Reap, TypeOK
<1>j. CASE UNCHANGED vars
  BY <1>j, StrandKept DEF vars
<1> QED BY <1>a, <1>b, <1>c, <1>d, <1>e, <1>f, <1>g, <1>h, <1>i, <1>j DEF Next

\* No parked operation is forgotten, whatever the number of operations and
\* the high watermark, if every collection syncs metadata and has a low
\* watermark of at least one.
THEOREM NotStrandedHolds == IsFiniteSet(Op) /\ WakesParked => (Spec => []NotStranded)
<1> SUFFICES ASSUME IsFiniteSet(Op), WakesParked PROVE Spec => []NotStranded
  OBVIOUS
<1>1. Init => NotStranded
  BY DEF Init, NotStranded
<1>2. QueueInv /\ CounterExact /\ NotStranded /\ [Next]_vars => NotStranded'
  BY StrandNext
<1>3. Spec => []CounterExact
  BY CounterExactHolds
<1> QED BY <1>1, <1>2, <1>3, QueueInit, QueueNext, PTL DEF Spec

-----------------------------------------------------------------------------
(* The size of a batch.                                                    *)

\* The setting in which the high watermark bounds every batch: each collection
\* syncs metadata, and they agree on the watermark.  The counter that is
\* compared with it belongs to a database context, which the collections
\* share, and a collection without metadata sync resets it.
OneHighMark ==
  /\ MetaSync = Coll
  /\ \A b, c \in Coll : High[c] > 0 => High[b] = High[c]

\* coalesce_counter counts the parked operations.
BatchInv ==
  /\ \A o \in Op : stage[o] # "LATE"
  /\ \A d \in Db : coalesce_counter[d] = Len(sync_queue[d])
  /\ BatchBounded

\* A step that parks nothing and wakes nothing.
LEMMA BatchKept ==
  ASSUME BatchInv, sync_queue' = sync_queue, coalesce_counter' = coalesce_counter,
         \A p \in Op : stage'[p] # "LATE"
  PROVE  BatchInv'
  BY DEF BatchInv, BatchBounded

\* Every step keeps the batches within the watermark.
LEMMA BatchNext ==
  ASSUME OneHighMark, TypeOK, BatchInv, [Next]_vars
  PROVE  BatchInv'
<1> TypeOK'
  BY TypeNext
<1>a. ASSUME NEW o \in Op, NEW c \in Coll, NEW k \in Kind, NEW s \in BOOLEAN,
             Post(o, c, k, s) \/ ServeNow(o, c, k, s)
      PROVE BatchInv'
  BY <1>a, BatchKept DEF BatchInv, Post, ServeNow, TypeOK
<1>c. ASSUME NEW o \in Op, NEW c \in Coll, NEW s \in BOOLEAN, StartIO(o, c, s)
      PROVE BatchInv'
  BY <1>c, BatchKept DEF BatchInv, StartIO, TypeOK
<1>d. CASE Dequeue
  BY <1>d, BatchKept DEF BatchInv, Dequeue, TypeOK
<1>e. ASSUME NEW o \in Op, Service(o) \/ GrowIO(o) \/ FinishIO(o) \/ Reap(o) PROVE BatchInv'
  <2>1. /\ sync_queue' = sync_queue /\ coalesce_counter' = coalesce_counter
        /\ stage' = [stage EXCEPT ![o] = stage'[o]] /\ stage'[o] # "LATE"
    BY <1>e DEF Service, GrowIO, FinishIO, Reap, TypeOK
  <2> QED BY <2>1, BatchKept DEF BatchInv, TypeOK
<1>h. ASSUME NEW o \in Op, Coalesce(o) PROVE BatchInv'
  <2> DEFINE e == Context(kind[o])
             c == coll[o]
  <2>0. e \in Db /\ c \in Coll
    BY ContextType DEF TypeOK
  <2>1. CASE CompleteNow(o)
    BY <2>1, BatchKept DEF BatchInv, CompleteNow, TypeOK
  <2>2. CASE CompleteEarly(o)
    BY <2>0, <2>2 DEF CompleteEarly, OneHighMark
  <2>3. CASE CountLate(o)
    BY <2>3 DEF CountLate, BatchInv
  <2>4. CASE Flush(o)
    <3>1. /\ sync_queue' = [sync_queue EXCEPT ![e] = <<>>]
          /\ coalesce_counter' = [coalesce_counter EXCEPT ![e] = 0]
          /\ \A p \in Op : stage'[p] \in {stage[p], "COMPLETED"}
      BY <2>4 DEF Flush
    <3>2. \A d \in Db : /\ sync_queue'[d] = IF d = e THEN <<>> ELSE sync_queue[d]
                        /\ coalesce_counter'[d] = IF d = e THEN 0 ELSE coalesce_counter[d]
      BY <2>0, <3>1 DEF TypeOK
    <3>3. BatchBounded'
      BY <3>2, DbpfAssumption DEF BatchInv, BatchBounded
    <3> QED BY <3>1, <3>2, <3>3 DEF BatchInv
  <2>5. CASE Park(o)
    <3>1. /\ sync_queue' = [sync_queue EXCEPT ![e] = Append(@, o)]
          /\ coalesce_counter' = [coalesce_counter EXCEPT ![e] = @ + 1]
          /\ stage' = [stage EXCEPT ![o] = "PARKED"]
          /\ ~ (High[c] > 0 /\ coalesce_counter[e] >= High[c])
      BY <2>5 DEF Park, AtWatermark
    <3>2. \A d \in Db : /\ Len(sync_queue'[d]) = IF d = e THEN Len(sync_queue[d]) + 1 ELSE Len(sync_queue[d])
                        /\ coalesce_counter'[d] = IF d = e THEN coalesce_counter[d] + 1 ELSE coalesce_counter[d]
      BY <2>0, <3>1 DEF TypeOK
    <3>3. Len(sync_queue[e]) \in Nat /\ coalesce_counter[e] = Len(sync_queue[e])
      BY <2>0 DEF TypeOK, BatchInv
    <3>4. ASSUME NEW d \in Db, NEW b \in Coll, High[b] > 0 PROVE Len(sync_queue'[d]) <= High[b]
      <4>1. CASE d = e
        <5>1. High[c] = High[b] /\ High[b] \in Int
          BY <2>0, <3>4, DbpfAssumption DEF OneHighMark
        <5> QED BY <2>0, <3>1, <3>2, <3>3, <3>4, <4>1, <5>1
      <4>2. CASE d # e
        BY <3>2, <3>4, <4>2 DEF BatchInv, BatchBounded
      <4> QED BY <4>1, <4>2
    <3>5. BatchBounded'
      BY <3>4 DEF BatchBounded
    <3>6. \A p \in Op : stage'[p] # "LATE"
      BY <3>1 DEF BatchInv, TypeOK
    <3> QED BY <3>2, <3>5, <3>6 DEF BatchInv
  <2> QED BY <1>h, <2>1, <2>2, <2>3, <2>4, <2>5 DEF Coalesce
<1>j. CASE UNCHANGED vars
  BY <1>j, BatchKept DEF BatchInv, vars
<1> QED BY <1>a, <1>c, <1>d, <1>e, <1>h, <1>j DEF Next

\* Never do more than c_high_watermark operations wait for one sync, whatever
\* comes in, where every collection syncs metadata and has that watermark
\* (dbpf_sync_coalesce).
THEOREM BatchBoundedHolds == OneHighMark => (Spec => []BatchBounded)
<1> SUFFICES ASSUME OneHighMark PROVE Spec => []BatchBounded
  OBVIOUS
<1>1. Init => BatchInv
  <2> SUFFICES ASSUME Init PROVE BatchInv
    OBVIOUS
  <2>1. \A d \in Db : sync_queue[d] = <<>> /\ coalesce_counter[d] = 0
    BY DEF Init
  <2>2. BatchBounded
    BY <2>1, DbpfAssumption DEF BatchBounded
  <2> QED BY <2>1, <2>2 DEF Init, BatchInv
<1>2. TypeOK /\ BatchInv /\ [Next]_vars => BatchInv'
  BY BatchNext
<1>3. BatchInv => BatchBounded
  BY DEF BatchInv
<1> QED BY <1>1, <1>2, <1>3, TypeCorrect, PTL DEF Spec

-----------------------------------------------------------------------------
(* Collections without metadata sync.  What such an operation wrote may    *)
(* stay unsynced when it completes, but not for ever.                      *)

\* The setting: one collection does without metadata sync and has a low
\* watermark of at least one; those with it complete immediately, so that
\* their operations do not count in the queue.
OneLazy ==
  /\ \A c, d \in Coll \ MetaSync : c = d
  /\ \A c \in Coll \ MetaSync : Low[c] >= 1
  /\ MetaSync \subseteq Immediate

Lazy(o) == coll[o] \notin MetaSync

\* p will come to count itself for database d, and to sync it if it is last.
ComesFor(p, d) ==
  /\ stage[p] \in {"QUEUED", "IN_SERVICE", "SERVED", "LATE"}
  /\ NeedsSync(p) /\ Lazy(p) /\ Context(kind[p]) = d

\* o is reported as done and its database has not been synced since.
Owed(o) ==
  /\ Lazy(o) /\ stage[o] = "COMPLETED" /\ ok[o] /\ NeedsSync(o)
  /\ o \in dirty[coll[o]][Context(kind[o])]

\* What is counted is lazy, and a lazy operation that is done has nothing
\* unsynced but in the database of its context.
LazyDone(o) ==
  /\ stage[o] \in {"QUEUED", "IN_SERVICE"} /\ DoesSync(kind[o]) => Lazy(o)
  /\ Lazy(o) /\ stage[o] \in {"LATE", "COMPLETED"} /\ ok[o] /\ sync[o] =>
       \A d \in Writes(kind[o]) : (DoesSync(kind[o]) => d # Context(kind[o])) =>
         o \notin dirty[coll[o]][d]

\* An unsynced database has an operation on its way that will sync it.
LazyInv ==
  \A o \in Op : /\ LazyDone(o)
                /\ Owed(o) => \E p \in Op : ComesFor(p, Context(kind[o]))

\* The operation p is left as it is, or its writes are brought to disk.
Untouched(p) ==
  /\ stage'[p] = stage[p] /\ kind'[p] = kind[p] /\ coll'[p] = coll[p]
  /\ sync'[p] = sync[p] /\ ok'[p] = ok[p]
  /\ \A c \in Coll, d \in Db : p \in dirty'[c][d] => p \in dirty[c][d]

\* Then it owes no more than before.
LEMMA UntouchedFacts ==
  ASSUME TypeOK, NEW p \in Op, Untouched(p)
  PROVE  /\ LazyDone(p) => LazyDone(p)'
         /\ Owed(p)' => Owed(p) /\ Context(kind'[p]) = Context(kind[p])
         /\ \A d : ComesFor(p, d) => ComesFor(p, d)'
<1>1. coll[p] \in Coll /\ Writes(kind[p]) \subseteq Db /\ Context(kind[p]) \in Db
  BY WritesType, ContextType DEF TypeOK
<1>2. LazyDone(p) => LazyDone(p)'
  BY <1>1 DEF Untouched, LazyDone, Lazy
<1>3. Owed(p)' => Owed(p) /\ Context(kind'[p]) = Context(kind[p])
  BY <1>1 DEF Untouched, Owed, Lazy, NeedsSync
<1>4. \A d : ComesFor(p, d) => ComesFor(p, d)'
  BY DEF Untouched, ComesFor, Lazy, NeedsSync
<1> QED BY <1>2, <1>3, <1>4

\* A sync of one database of one collection makes nothing dirty.
LEMMA SyncedShrinks ==
  ASSUME TypeOK, NEW c \in Coll, NEW e \in Db
  PROVE  \A b \in Coll, d \in Db : Synced(dirty, c, e)[b][d] \subseteq dirty[b][d]
BY DEF Synced, TypeOK

\* A step in which nobody who is coming stops coming, and nobody gets to owe
\* anything.
LEMMA LazyKept ==
  ASSUME TypeOK, LazyInv,
         \A p \in Op : \/ Untouched(p)
                       \/ /\ LazyDone(p)' /\ ~ Owed(p)'
                          /\ \A d : ComesFor(p, d) => ComesFor(p, d)'
  PROVE  LazyInv'
<1>1. \A p \in Op, d \in Db : ComesFor(p, d) => ComesFor(p, d)'
  BY UntouchedFacts
<1>2. ASSUME NEW o \in Op PROVE LazyDone(o)'
  BY UntouchedFacts DEF LazyInv
<1>3. ASSUME NEW o \in Op, Owed(o)' PROVE (\E p \in Op : ComesFor(p, Context(kind[o])))'
  <2>1. Owed(o) /\ Context(kind'[o]) = Context(kind[o]) /\ Context(kind[o]) \in Db
    BY <1>3, UntouchedFacts, ContextType
  <2>2. PICK p \in Op : ComesFor(p, Context(kind[o]))
    BY <2>1 DEF LazyInv
  <2>3. PICK d \in Db : d = Context(kind[o])
    BY <2>1
  <2>4. ComesFor(p, d)'
    BY <1>1, <2>2, <2>3
  <2> QED BY <2>1, <2>3, <2>4 DEF ComesFor
<1> QED BY <1>2, <1>3 DEF LazyInv

\* The operation that counts itself last syncs for everybody before it; one
\* that is not last leaves that to those still queued.
LEMMA LazyCountLate ==
  ASSUME Sound, OneLazy, IsFiniteSet(Op), DurInv, CounterExact, LazyInv,
         NEW o \in Op, CountLate(o)
  PROVE  LazyInv'
<1> TypeOK
  BY DEF DurInv, QueueInv
<1> DEFINE e == Context(kind[o])
           c == coll[o]
<1>1. /\ stage[o] = "LATE" /\ stage' = [stage EXCEPT ![o] = "COMPLETED"]
      /\ kind' = kind /\ coll' = coll /\ sync' = sync /\ ok' = ok
  BY DEF CountLate
<1>2. e \in Db /\ c \in Coll \ MetaSync
  BY <1>1, ContextType DEF TypeOK, DurInv, OpInv
<1>3. \A b \in Coll, d \in Db : dirty'[b][d] \subseteq dirty[b][d]
  <2>1. dirty' = dirty \/ dirty' = Synced(dirty, coll[o], Context(kind[o]))
    BY DEF CountLate
  <2> QED BY <1>2, <2>1, SyncedShrinks
<1>4. \A p \in Op \ {o} : Untouched(p)
  BY <1>1, <1>3 DEF Untouched, TypeOK
<1>5. ASSUME NEW p \in Op PROVE LazyDone(p)'
  <2>1. CASE p # o
    BY <1>4, <2>1, UntouchedFacts DEF LazyInv
  <2>2. CASE p = o
    <3>1. LazyDone(o)
      BY DEF LazyInv
    <3>2. Writes(kind[o]) \subseteq Db /\ stage'[o] = "COMPLETED"
      BY <1>1, WritesType DEF TypeOK
    <3> QED BY <1>1, <1>2, <1>3, <2>2, <3>1, <3>2 DEF LazyDone, Lazy
  <2> QED BY <2>1, <2>2
<1>6. CASE AtWatermark(c, e, coalesce_counter[e] + 1)
  <2>1. dirty' = Synced(dirty, c, e)
    BY <1>6 DEF CountLate, SyncResult, Sound
  <2>2. dirty'[c][e] = {}
    BY <1>2, <2>1 DEF Synced, TypeOK
  <2>3. ASSUME NEW p \in Op, Owed(p)' PROVE (\E q \in Op : ComesFor(q, Context(kind[p])))'
    <3>1. coll[p] \in Coll \ MetaSync /\ kind'[p] = kind[p] /\ coll'[p] = coll[p]
      BY <1>1, <2>3 DEF Owed, Lazy, TypeOK
    <3>2. coll[p] = c
      BY <1>2, <3>1 DEF OneLazy
    <3>3. Context(kind[p]) # e
      BY <2>2, <2>3, <3>1, <3>2 DEF Owed
    <3>4. p # o /\ Owed(p)
      BY <1>4, <2>3, <3>3, UntouchedFacts
    <3>5. PICK q \in Op : ComesFor(q, Context(kind[p]))
      BY <3>4 DEF LazyInv
    <3>6. q # o
      BY <3>3, <3>5 DEF ComesFor
    <3>7. PICK d \in Db : d = Context(kind[p])
      BY ContextType
    <3>8. ComesFor(q, d)'
      BY <1>4, <3>5, <3>6, <3>7, UntouchedFacts
    <3> QED BY <3>1, <3>7, <3>8
  <2> QED BY <1>5, <2>3 DEF LazyInv
<1>7. CASE ~ AtWatermark(c, e, coalesce_counter[e] + 1)
  <2>1. ~ (sync_counter[e] < Low[c]) /\ Low[c] >= 1 /\ Low[c] \in Int /\ sync_counter[e] \in Int
    BY <1>2, <1>7, DbpfAssumption DEF AtWatermark, OneLazy, TypeOK
  <2>2. Cardinality(Counted(e)) # 0
    BY <1>2, <2>1 DEF CounterExact
  <2>3. Counted(e) # {}
    BY <2>2, FS_EmptySet
  <2>4. PICK q \in Op : stage[q] = "QUEUED" /\ NeedsSync(q) /\ Context(kind[q]) = e
    BY <2>3 DEF Counted
  <2>5. Lazy(q)
    BY <2>4 DEF LazyInv, LazyDone, NeedsSync
  <2>6. ASSUME NEW d \in Db, d = e PROVE ComesFor(q, d)'
    <3>1. q # o
      BY <1>1, <2>4
    <3> QED BY <1>1, <2>4, <2>5, <2>6, <3>1 DEF ComesFor, Lazy, NeedsSync, TypeOK
  <2>7. ASSUME NEW p \in Op, Owed(p)' PROVE (\E r \in Op : ComesFor(r, Context(kind[p])))'
    <3>1. PICK d \in Db : d = Context(kind[p]) /\ kind'[p] = kind[p]
      BY <1>1, ContextType
    <3>2. CASE d = e
      <4>1. ComesFor(q, d)'
        BY <2>6, <3>2
      <4> QED BY <3>1, <4>1
    <3>3. CASE d # e
      <4>1. p # o /\ Owed(p)
        BY <1>4, <2>7, <3>1, <3>3, UntouchedFacts
      <4>2. PICK r \in Op : ComesFor(r, d)
        BY <3>1, <4>1 DEF LazyInv
      <4>3. r # o
        BY <3>3, <4>2 DEF ComesFor
      <4>4. ComesFor(r, d)'
        BY <1>4, <4>2, <4>3, UntouchedFacts
      <4> QED BY <3>1, <4>4
    <3> QED BY <3>2, <3>3
  <2> QED BY <1>5, <2>7 DEF LazyInv
<1> QED BY <1>6, <1>7

\* Every step keeps the promise to sync.
LEMMA LazyNext ==
  ASSUME Sound, OneLazy, IsFiniteSet(Op), DurInv, CounterExact, LazyInv, [Next]_vars
  PROVE  LazyInv'
<1> TypeOK /\ TypeOK' /\ QueueInv
  BY TypeNext DEF DurInv, QueueInv
<1>a. ASSUME NEW o \in Op, NEW c \in Coll, NEW k \in Kind, NEW s \in BOOLEAN, Post(o, c, k, s)
      PROVE LazyInv'
  <2>1. /\ stage[o] = "IDLE" /\ stage' = [stage EXCEPT ![o] = "QUEUED"]
        /\ kind' = [kind EXCEPT ![o] = k] /\ sync' = [sync EXCEPT ![o] = s]
        /\ coll' = [coll EXCEPT ![o] = c] /\ ok' = ok /\ dirty' = dirty /\ ~ AtOnce(c, k)
    BY <1>a DEF Post, Describe
  <2>2. \A p \in Op \ {o} : Untouched(p)
    BY <2>1 DEF Untouched, TypeOK
  <2>3. stage'[o] = "QUEUED" /\ kind'[o] = k /\ coll'[o] = c
    BY <2>1 DEF TypeOK
  <2>4. DoesSync(k) => c \notin MetaSync
    BY <2>1 DEF AtOnce, DoesSync, OneLazy
  <2>5. LazyDone(o)' /\ ~ Owed(o)' /\ \A d : ~ ComesFor(o, d)
    BY <2>1, <2>3, <2>4 DEF LazyDone, Lazy, Owed, ComesFor
  <2> QED BY <2>2, <2>5, LazyKept
<1>b. ASSUME NEW o \in Op, NEW c \in Coll, NEW k \in Kind, NEW s \in BOOLEAN, ServeNow(o, c, k, s)
      PROVE LazyInv'
  <2>1. /\ stage[o] = "IDLE" /\ stage' = [stage EXCEPT ![o] = "COMPLETED"]
        /\ kind' = [kind EXCEPT ![o] = k] /\ sync' = [sync EXCEPT ![o] = s]
        /\ coll' = [coll EXCEPT ![o] = c]
    BY <1>b DEF ServeNow, Describe
  <2>2. k # "REMOVE_LIST"
    BY DEF Sound
  <2>3. /\ ok'[o] /\ s => \A d \in Writes(k) : o \notin dirty'[c][d]
        /\ \A p \in Op \ {o} : ok'[p] = ok[p]
        /\ \A p \in Op \ {o}, b \in Coll, d \in Db : p \in dirty'[b][d] => p \in dirty[b][d]
    BY <1>b, <2>2, ServeNowFacts
  <2>4. \A p \in Op \ {o} : Untouched(p)
    BY <2>1, <2>3 DEF Untouched, TypeOK
  <2>5. stage'[o] = "COMPLETED" /\ kind'[o] = k /\ coll'[o] = c /\ sync'[o] = s
    BY <2>1 DEF TypeOK
  <2>6. DoesSync(k) => Context(k) \in Writes(k)
    BY DEF DoesSync, Context, Writes
  <2>7. LazyDone(o)' /\ ~ Owed(o)' /\ \A d : ~ ComesFor(o, d)
    BY <2>1, <2>3, <2>5, <2>6 DEF LazyDone, Lazy, Owed, ComesFor, NeedsSync
  <2> QED BY <2>4, <2>7, LazyKept
<1>c. ASSUME NEW o \in Op, NEW c \in Coll, NEW s \in BOOLEAN, StartIO(o, c, s)
      PROVE LazyInv'
  <2>1. \A p \in Op \ {o} : Untouched(p)
    BY <1>c DEF Untouched, StartIO, Describe, TypeOK
  <2>2. stage[o] = "IDLE" /\ stage'[o] = "IO"
    BY <1>c DEF StartIO, Describe, TypeOK
  <2>3. LazyDone(o)' /\ ~ Owed(o)' /\ \A d : ~ ComesFor(o, d)
    BY <2>2 DEF LazyDone, Owed, ComesFor
  <2> QED BY <2>1, <2>3, LazyKept
<1>d. CASE Dequeue
  <2>1. 1 \in DOMAIN op_queue /\ Head(op_queue) = op_queue[1] /\ op_queue[1] \in Op
    BY <1>d DEF Dequeue, TypeOK
  <2>2. PICK o \in Op : o = Head(op_queue)
    BY <2>1
  <2>3. /\ stage' = [stage EXCEPT ![o] = "IN_SERVICE"] /\ kind' = kind /\ sync' = sync
        /\ coll' = coll /\ ok' = ok /\ dirty' = dirty
    BY <1>d, <2>2 DEF Dequeue
  <2>4. stage[o] = "QUEUED" /\ stage'[o] = "IN_SERVICE"
    BY <2>1, <2>2, <2>3 DEF QueueInv, QueueOK, TypeOK
  <2>5. \A p \in Op \ {o} : Untouched(p)
    BY <2>3 DEF Untouched, TypeOK
  <2>6. LazyDone(o)' /\ ~ Owed(o)' /\ \A d : ComesFor(o, d) => ComesFor(o, d)'
    BY <2>3, <2>4 DEF LazyInv, LazyDone, Lazy, Owed, ComesFor, NeedsSync
  <2> QED BY <2>5, <2>6, LazyKept
<1>e. ASSUME NEW o \in Op, Service(o) PROVE LazyInv'
  <2>0. coll[o] \in Coll /\ "KEYVAL" \in Db
    BY DEF TypeOK, Db
  <2>1. PICK svc \in BOOLEAN, inner \in SyncResult :
          LET flush  == SyncsKeyval(kind[o], sync[o])
              served == svc /\ (flush => inner)
              w == IF svc THEN Written(o, coll[o], kind[o]) ELSE dirty
          IN  /\ ok' = [ok EXCEPT ![o] = served]
              /\ dirty' = IF flush /\ served THEN Synced(w, coll[o], "KEYVAL") ELSE w
              /\ kind' = IF kind[o] = "RESIZE" /\ served
                           THEN [kind EXCEPT ![o] = "DSPACE"] ELSE kind
              /\ sync' = IF kind[o] = "RESIZE" /\ served
                           THEN [sync EXCEPT ![o] = TRUE] ELSE sync
    BY <1>e DEF Service
  <2> DEFINE w == IF svc THEN Written(o, coll[o], kind[o]) ELSE dirty
  <2>2. /\ w \in [Coll -> [Db -> SUBSET Op]]
        /\ \A p \in Op \ {o}, b \in Coll, d \in Db : p \in w[b][d] => p \in dirty[b][d]
    BY <2>0 DEF Written, TypeOK
  <2>3. dirty' = w \/ dirty' = Synced(w, coll[o], "KEYVAL")
    BY <2>1
  <2> HIDE DEF w
  <2>4. \A p \in Op \ {o}, b \in Coll, d \in Db : p \in dirty'[b][d] => p \in dirty[b][d]
    BY <2>0, <2>2, <2>3 DEF Synced
  <2>5. /\ stage[o] = "IN_SERVICE" /\ stage' = [stage EXCEPT ![o] = "SERVED"] /\ coll' = coll
    BY <1>e DEF Service
  <2>6. /\ \A p \in Op \ {o} : kind'[p] = kind[p] /\ sync'[p] = sync[p] /\ ok'[p] = ok[p]
        /\ NeedsSync(o) => kind'[o] = kind[o] /\ sync'[o] = sync[o]
    BY <2>1 DEF TypeOK, NeedsSync, DoesSync
  <2>7. \A p \in Op \ {o} : Untouched(p)
    BY <2>4, <2>5, <2>6 DEF Untouched, TypeOK
  <2>8. stage'[o] = "SERVED"
    BY <2>5 DEF TypeOK
  <2>9. LazyDone(o)' /\ ~ Owed(o)' /\ \A d : ComesFor(o, d) => ComesFor(o, d)'
    BY <2>5, <2>6, <2>8 DEF LazyDone, Owed, ComesFor, Lazy, NeedsSync
  <2> QED BY <2>7, <2>9, LazyKept
<1>f. ASSUME NEW o \in Op, GrowIO(o) PROVE LazyInv'
  <2>0. coll[o] \in Coll
    BY DEF TypeOK
  <2>1. \A p \in Op \ {o}, b \in Coll, d \in Db : p \in dirty'[b][d] => p \in dirty[b][d]
    BY <1>f, <2>0 DEF GrowIO, Written, TypeOK
  <2>2. \A p \in Op \ {o} : /\ stage'[p] = stage[p] /\ kind'[p] = kind[p] /\ sync'[p] = sync[p]
                            /\ ok'[p] = ok[p] /\ coll'[p] = coll[p]
    BY <1>f DEF GrowIO, TypeOK
  <2>3. \A p \in Op \ {o} : Untouched(p)
    BY <2>1, <2>2 DEF Untouched
  <2>4. stage[o] = "IO" /\ (stage'[o] = "SERVED" \/ (stage'[o] = "COMPLETED" /\ ~ sync'[o]))
    BY <1>f DEF GrowIO, TypeOK
  <2>5. LazyDone(o)' /\ ~ Owed(o)' /\ \A d : ~ ComesFor(o, d)
    BY <2>4 DEF LazyDone, Owed, ComesFor, NeedsSync
  <2> QED BY <2>3, <2>5, LazyKept
<1>g. ASSUME NEW o \in Op, FinishIO(o) PROVE LazyInv'
  <2>1. /\ stage[o] = "IO" /\ stage' = [stage EXCEPT ![o] = "COMPLETED"]
        /\ \E r \in BOOLEAN : ok' = [ok EXCEPT ![o] = r]
        /\ kind' = kind /\ coll' = coll /\ sync' = sync /\ dirty' = dirty
    BY <1>g DEF FinishIO
  <2>2. \A p \in Op \ {o} : Untouched(p)
    BY <2>1 DEF Untouched, TypeOK
  <2>3. \A c \in Coll, d \in Db : o \notin dirty'[c][d]
    BY <2>1 DEF DurInv, OpInv
  <2>4. coll'[o] \in Coll /\ Writes(kind'[o]) \subseteq Db /\ Context(kind'[o]) \in Db /\ stage'[o] = "COMPLETED"
    BY <2>1, WritesType, ContextType DEF TypeOK
  <2>5. LazyDone(o)' /\ ~ Owed(o)' /\ \A d : ~ ComesFor(o, d)
    BY <2>1, <2>3, <2>4 DEF LazyDone, Owed, ComesFor
  <2> QED BY <2>2, <2>5, LazyKept
<1>h. ASSUME NEW o \in Op, Coalesce(o) PROVE LazyInv'
  <2> DEFINE e == Context(kind[o])
  <2>0. e \in Db /\ coll[o] \in Coll /\ OpInv(o)
    BY ContextType DEF TypeOK, DurInv
  <2>1. CASE CompleteNow(o) \/ CompleteEarly(o)
    <3>1. /\ stage[o] = "SERVED" /\ kind' = kind /\ coll' = coll /\ sync' = sync /\ ok' = ok
          /\ dirty' = dirty
          /\ \/ ~ NeedsSync(o) /\ stage' = [stage EXCEPT ![o] = "COMPLETED"]
             \/ stage' = [stage EXCEPT ![o] = "LATE"]
      BY <2>1 DEF CompleteNow, CompleteEarly
    <3>2. \A p \in Op \ {o} : Untouched(p)
      BY <3>1 DEF Untouched, TypeOK
    <3>3. (~ NeedsSync(o) /\ stage'[o] = "COMPLETED") \/ stage'[o] = "LATE"
      BY <3>1 DEF TypeOK
    <3>4. LazyDone(o)' /\ ~ Owed(o)' /\ \A d : ComesFor(o, d) => ComesFor(o, d)'
      BY <2>0, <3>1, <3>3 DEF OpInv, LazyDone, Lazy, Owed, ComesFor, NeedsSync
    <3> QED BY <3>2, <3>4, LazyKept
  <2>2. CASE CountLate(o)
    BY <2>2, LazyCountLate
  <2>3. CASE Flush(o) \/ Park(o)
    <3>1. /\ coll[o] \in MetaSync /\ kind' = kind /\ coll' = coll /\ sync' = sync /\ ok' = ok
          /\ \A p \in Op : \/ stage'[p] = stage[p]
                           \/ /\ stage'[p] \in {"COMPLETED", "PARKED"}
                              /\ p = o \/ \E i \in DOMAIN sync_queue[e] : sync_queue[e][i] = p
      BY <2>3 DEF Flush, Park, TypeOK
    <3>2. \A b \in Coll, d \in Db : dirty'[b][d] \subseteq dirty[b][d]
      <4>1. dirty' = dirty \/ dirty' = Synced(dirty, coll[o], Context(kind[o]))
        BY <2>3 DEF Flush, Park
      <4> QED BY <2>0, <4>1, SyncedShrinks
    <3>3. \A i \in DOMAIN sync_queue[e] : coll[sync_queue[e][i]] \in MetaSync
      BY <2>0 DEF QueueInv, ParkedOK
    <3>4. ASSUME NEW p \in Op
          PROVE  \/ Untouched(p)
                 \/ /\ LazyDone(p)' /\ ~ Owed(p)'
                    /\ \A d : ComesFor(p, d) => ComesFor(p, d)'
      <4>1. CASE stage'[p] = stage[p]
        BY <3>1, <3>2, <4>1 DEF Untouched
      <4>2. CASE stage'[p] # stage[p]
        <5>1. stage'[p] \in {"COMPLETED", "PARKED"} /\ ~ Lazy(p) /\ ~ Lazy(p)'
          BY <3>1, <3>3, <4>2 DEF Lazy
        <5> QED BY <5>1 DEF LazyDone, Owed, ComesFor
      <4> QED BY <4>1, <4>2
    <3> QED BY <3>4, LazyKept
  <2> QED BY <1>h, <2>1, <2>2, <2>3 DEF Coalesce
<1>i. ASSUME NEW o \in Op, Reap(o) PROVE LazyInv'
  <2>1. \A c \in Coll, d \in Db : dirty'[c][d] = dirty[c][d] \ {o}
    BY <1>i DEF Reap
  <2>2. \A p \in Op \ {o} : Untouched(p)
    BY <1>i, <2>1 DEF Untouched, Reap, TypeOK
  <2>3. stage[o] = "COMPLETED" /\ stage'[o] = "IDLE"
    BY <1>i DEF Reap, TypeOK
  <2>4. LazyDone(o)' /\ ~ Owed(o)' /\ \A d : ~ ComesFor(o, d)
    BY <2>3 DEF LazyDone, Owed, ComesFor
  <2> QED BY <2>2, <2>4, LazyKept
<1>j. CASE UNCHANGED vars
  <2>1. \A p \in Op : Untouched(p)
    BY <1>j DEF Untouched, vars
  <2> QED BY <2>1, LazyKept
<1> QED BY <1>a, <1>b, <1>c, <1>d, <1>e, <1>f, <1>g, <1>h, <1>i, <1>j DEF Next

\* A server at rest has nothing to lose, even in the collection without
\* metadata sync: whichever of its operations counts itself last syncs what
\* the others left (the end of dbpf_sync_coalesce without meta_sync_enabled).
THEOREM IdleIsCleanHolds ==
  Sound /\ OneLazy /\ IsFiniteSet(Op) => (Spec => []IdleIsClean)
<1> SUFFICES ASSUME Sound, OneLazy, IsFiniteSet(Op) PROVE Spec => []IdleIsClean
  OBVIOUS
<1>1. Init => LazyInv
  BY DEF Init, LazyInv, LazyDone, Owed
<1>2. DurInv /\ CounterExact /\ LazyInv /\ [Next]_vars => LazyInv'
  BY LazyNext
<1>3. DurInv /\ LazyInv => IdleIsClean
  <2> SUFFICES ASSUME DurInv, LazyInv, \A p \in Op : stage[p] \in {"IDLE", "IO", "COMPLETED"},
                      NEW o \in Op, stage[o] = "COMPLETED", ok[o], sync[o],
                      NEW d \in Writes(kind[o])
               PROVE  o \notin dirty[coll[o]][d]
    BY DEF IdleIsClean, OnDisk
  <2>1. CASE coll[o] \in MetaSync
    BY <2>1 DEF DurInv, OpInv, OnDisk
  <2>2. CASE Lazy(o)
    <3>1. \A p \in Op, e \in Db : ~ ComesFor(p, e)
      BY DEF ComesFor
    <3>2. ~ Owed(o)
      BY <3>1, ContextType DEF LazyInv
    <3> QED BY <2>2, <3>2 DEF LazyInv, LazyDone, Owed, NeedsSync
  <2> QED BY <2>1, <2>2 DEF Lazy
<1>4. Init => DurInv
  BY DurInit
<1>5. DurInv /\ [Next]_vars => DurInv'
  BY DurNext
<1>6. Spec => []CounterExact
  BY CounterExactHolds
<1> QED BY <1>1, <1>2, <1>3, <1>4, <1>5, <1>6, PTL DEF Spec
=============================================================================
