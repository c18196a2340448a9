------------------------------ MODULE DbpfSync ------------------------------
(***************************************************************************)
(* Metadata operations of Trove-DBPF and their synchronisation to disk     *)
(* (src/io/trove/trove-dbpf: dbpf-op-queue.c, dbpf-thread.c, dbpf-sync.c). *)
(*                                                                         *)
(* Operations wait in one queue; the trove thread takes them one by one,   *)
(* applies them to the collection's databases and then either syncs the    *)
(* database or parks the operation until a later one does, so that one     *)
(* sync serves many operations.  Only then does the server see the         *)
(* operation complete and answer its client: a crash may come in any state,*)
(* and what an answer promises must be on disk by then.                    *)
(*                                                                         *)
(* All collections share the two sync contexts (keyval, dataspace) of the  *)
(* one Trove context the server opens.                                     *)
(***************************************************************************)
EXTENDS Integers, Sequences, FiniteSets, SequencesExt

CONSTANTS
  Op,           \* identities of operations (reused once freed)
  Coll,         \* collections, one per file system
  MetaSync,     \* the collections with meta_sync_enabled
  Immediate,    \* the collections with immediate_completion
  Low, High,    \* c_low_watermark and c_high_watermark of every collection
  Kind,         \* the kinds of operation the server posts, from AnyKind
  SyncMayFail   \* whether dbpf_db_sync can report an error

\* What DBPF tells apart in enum dbpf_op_type.  KEYVAL: write, write list,
\* remove key; DSPACE: create, create list, setattr; IO: reads and writes of a
\* bstream; READ: everything that changes no database.
AnyKind == {"KEYVAL", "DSPACE", "REMOVE", "REMOVE_LIST", "RESIZE", "FLUSH",
            "READ", "IO"}

ASSUME DbpfAssumption ==
  /\ MetaSync \subseteq Coll
  /\ Immediate \subseteq Coll
  /\ Low \in [Coll -> Int]
  /\ High \in [Coll -> Int]
  /\ Kind \subseteq AnyKind
  /\ SyncMayFail \in BOOLEAN

\* The databases of a collection, and the sync context each belongs to.
Db == {"KEYVAL", "DSPACE"}

\* IDLE: not allocated; SERVED: its service function (or its I/O callback)
\* has returned and dbpf_sync_coalesce is next; PARKED: in a sync_queue;
\* COMPLETED: in the completion queue; LATE: there as well, its thread still
\* has to count it.
Stage == {"IDLE", "QUEUED", "IN_SERVICE", "IO", "SERVED", "PARKED",
          "COMPLETED", "LATE"}

VARIABLES
  op_queue,          \* dbpf_op_queue
  cur,               \* the operation the trove thread works on: at most one
  stage,             \* operation -> where it is
  kind, coll, sync,  \* operation -> type, collection, flags & TROVE_SYNC
  ok,                \* operation -> its service succeeded
  dirty,             \* collection -> database -> operations with a write in
                     \*   it that no sync has reached
  sync_queue,        \* context -> operations waiting for a sync
  sync_counter,      \* context -> TROVE_SYNC operations in op_queue
  non_sync_counter,  \* context -> other modifying operations in op_queue
  coalesce_counter   \* context -> operations since the last sync

vars == <<op_queue, cur, stage, kind, coll, sync, ok, dirty, sync_queue,
          sync_counter, non_sync_counter, coalesce_counter>>

TypeOK ==
  /\ op_queue \in Seq(Op)
  /\ cur \in SUBSET Op
  /\ stage \in [Op -> Stage]
  /\ kind \in [Op -> AnyKind]
  /\ coll \in [Op -> Coll]
  /\ sync \in [Op -> BOOLEAN]
  /\ ok \in [Op -> BOOLEAN]
  /\ dirty \in [Coll -> [Db -> SUBSET Op]]
  /\ sync_queue \in [Db -> Seq(Op)]
  /\ sync_counter \in [Db -> Int]
  /\ non_sync_counter \in [Db -> Int]
  /\ coalesce_counter \in [Db -> Int]

-----------------------------------------------------------------------------
(* What the kinds of operation do.                                         *)

\* DBPF_OP_DOES_SYNC
DoesSync(k) == k \in {"KEYVAL", "DSPACE", "REMOVE"}

\* Seeded fault: removals count as keyval operations.
ContextKeyval(k) == IF k \in {"KEYVAL", "REMOVE"} THEN "KEYVAL" ELSE "DSPACE"

\* dbpf_sync_get_object_sync_context
Context(k) == IF k = "KEYVAL" THEN "KEYVAL" ELSE "DSPACE"

\* The database an operation belongs to by its type: for a READ, which stands
\* for operations on either, one of the two.
OwnDb(k) ==
  CASE k \in {"KEYVAL", "FLUSH"} -> {"KEYVAL"}
    [] k = "READ"                -> Db
    [] OTHER                     -> {"DSPACE"}

\* The databases its service function writes.
Writes(k) ==
  CASE k = "KEYVAL"                   -> {"KEYVAL"}
    [] k \in {"DSPACE", "RESIZE", "IO"} -> {"DSPACE"}
    [] k \in {"REMOVE", "REMOVE_LIST"} -> {"KEYVAL", "DSPACE"}
    [] OTHER                          -> {}

\* Whether the service function itself syncs the keyval database: a removal
\* of dataspaces, "because we're in a dspace operation", and a flush.
SyncsKeyval(k, s) == k = "FLUSH" \/ (k \in {"REMOVE", "REMOVE_LIST"} /\ s)

\* The databases once o, of kind k, has written to those of collection c.
Written(o, c, k) ==
  [dirty EXCEPT ![c] = [d \in Db |-> IF d \in Writes(k) THEN @[d] \cup {o} ELSE @[d]]]

\* The databases dt of which database d of collection c has been synced, as
\* dbpf_db_sync of the Berkeley DB backend leaves them: on disk on return.
\* (The LMDB backend opens its map with MDB_MAPASYNC and does not force the
\* sync: there the return of dbpf_db_sync promises nothing.)
Synced(dt, c, d) == [dt EXCEPT ![c][d] = {}]

\* dbpf_db_sync either works or, where it may, reports an error.
SyncResult == IF SyncMayFail THEN BOOLEAN ELSE {TRUE}

Init ==
  /\ op_queue = <<>>
  /\ cur = {}
  /\ stage = [o \in Op |-> "IDLE"]
  /\ kind = [o \in Op |-> "READ"]
  /\ coll \in [Op -> Coll] /\ \A o, p \in Op : coll[o] = coll[p]
  /\ sync = [o \in Op |-> FALSE]
  /\ ok = [o \in Op |-> TRUE]
  /\ dirty = [c \in Coll |-> [d \in Db |-> {}]]
  /\ sync_queue = [d \in Db |-> <<>>]
  /\ sync_counter = [d \in Db |-> 0]
  /\ non_sync_counter = [d \in Db |-> 0]
  /\ coalesce_counter = [d \in Db |-> 0]

-----------------------------------------------------------------------------
(* Posting operations.                                                     *)

\* dbpf_queue_or_service services the metadata operations of a collection
\* with immediate completion at once; removals of lists always queue.
AtOnce(c, k) == c \in Immediate /\ k \notin {"REMOVE_LIST", "RESIZE", "IO"}

\* Seeded fault: operations that ask for no sync are counted all the same.
CountEvery(o, k, s, n) ==
  /\ sync_counter' = IF DoesSync(k)
       THEN [sync_counter EXCEPT ![Context(k)] = @ + n] ELSE sync_counter
  /\ UNCHANGED non_sync_counter

\* The counter that dbpf_sync_coalesce_enqueue and _dequeue change by n.
Count(o, k, s, n) ==
  /\ sync_counter' = IF DoesSync(k) /\ s
       THEN [sync_counter EXCEPT ![Context(k)] = @ + n] ELSE sync_counter
  /\ non_sync_counter' = IF DoesSync(k) /\ ~s
       THEN [non_sync_counter EXCEPT ![Context(k)] = @ + n] ELSE non_sync_counter

\* Seeded fault: the type receives a state.
DescribeMixed(o, c, k, s) ==
  /\ stage[o] = "IDLE"
  /\ coll' = [coll EXCEPT ![o] = c]
  /\ kind' = [kind EXCEPT ![o] = "QUEUED"]
  /\ sync' = [sync EXCEPT ![o] = s]

\* dbpf_queued_op_init: the operation as its caller describes it.
Describe(o, c, k, s) ==
  /\ stage[o] = "IDLE"
  /\ coll' = [coll EXCEPT ![o] = c]
  /\ kind' = [kind EXCEPT ![o] = k]
  /\ sync' = [sync EXCEPT ![o] = s]

\* dbpf_queued_op_queue
Post(o, c, k, s) ==
  /\ k # "IO" /\ ~AtOnce(c, k)
  /\ Describe(o, c, k, s)
  /\ op_queue' = Append(op_queue, o)
  /\ stage' = [stage EXCEPT ![o] = "QUEUED"]
  /\ Count(o, k, s, 1)
  /\ UNCHANGED <<cur, ok, dirty, sync_queue, coalesce_counter>>

\* dbpf_queue_or_service with immediate completion: the caller's thread
\* services the operation, then syncs the database of its type if flagged.
ServeNow(o, c, k, s) ==
  /\ k # "IO" /\ AtOnce(c, k)
  /\ Describe(o, c, k, s)
  /\ \E svc \in BOOLEAN, inner, outer \in SyncResult, own \in OwnDb(k) :
       LET served == svc /\ (SyncsKeyval(k, s) => inner)
           w == IF svc THEN Written(o, c, k) ELSE dirty
           x == IF SyncsKeyval(k, s) /\ served THEN Synced(w, c, "KEYVAL") ELSE w
       IN  /\ ok' = [ok EXCEPT ![o] = served /\ (s => outer)]
           /\ dirty' = IF served /\ s /\ outer THEN Synced(x, c, own) ELSE x
  /\ stage' = [stage EXCEPT ![o] = "COMPLETED"]
  /\ UNCHANGED <<op_queue, cur, sync_queue, sync_counter, non_sync_counter,
                 coalesce_counter>>

\* A read or write of a bstream is handed to the I/O threads.
StartIO(o, c, s) ==
  /\ Describe(o, c, "IO", s)
  /\ stage' = [stage EXCEPT ![o] = "IO"]
  /\ UNCHANGED <<op_queue, cur, ok, dirty, sync_queue, sync_counter,
                 non_sync_counter, coalesce_counter>>

-----------------------------------------------------------------------------
(* Servicing operations.                                                   *)

\* dbpf_do_one_work_cycle takes the next operation: dbpf_queued_op_dequeue.
Dequeue ==
  /\ cur = {} /\ op_queue # <<>>
  /\ LET o == Head(op_queue)
     IN  /\ op_queue' = Tail(op_queue)
         /\ cur' = {o}
         /\ stage' = [stage EXCEPT ![o] = "IN_SERVICE"]
         /\ Count(o, kind[o], sync[o], -1)
  /\ UNCHANGED <<kind, coll, sync, ok, dirty, sync_queue, coalesce_counter>>

\* svc_fn.  A resize that succeeds becomes a setattr with TROVE_SYNC.
Service(o) ==
  /\ stage[o] = "IN_SERVICE"
  /\ \E svc \in BOOLEAN, inner \in SyncResult :
       LET flush  == SyncsKeyval(kind[o], sync[o])
           served == svc /\ (flush => inner)
           w == IF svc THEN Written(o, coll[o], kind[o]) ELSE dirty
       IN  /\ ok' = [ok EXCEPT ![o] = served]
           /\ dirty' = IF flush /\ served THEN Synced(w, coll[o], "KEYVAL") ELSE w
           /\ kind' = IF kind[o] = "RESIZE" /\ served
                        THEN [kind EXCEPT ![o] = "DSPACE"] ELSE kind
           /\ sync' = IF kind[o] = "RESIZE" /\ served
                        THEN [sync EXCEPT ![o] = TRUE] ELSE sync
  /\ stage' = [stage EXCEPT ![o] = "SERVED"]
  /\ UNCHANGED <<op_queue, cur, coll, sync_queue, sync_counter,
                 non_sync_counter, coalesce_counter>>

\* An I/O callback whose write made the file grow: the new size is in the
\* dataspace database, and the operation becomes a setattr with TROVE_SYNC
\* (with direct I/O always, with AIO if it was flagged).
GrowIO(o) ==
  /\ stage[o] = "IO"
  /\ dirty' = Written(o, coll[o], "IO")
  /\ ok' = [ok EXCEPT ![o] = TRUE]
  /\ \/ /\ kind' = [kind EXCEPT ![o] = "DSPACE"]
        /\ sync' = [sync EXCEPT ![o] = TRUE]
        /\ stage' = [stage EXCEPT ![o] = "SERVED"]
     \/ /\ ~sync[o]
        /\ stage' = [stage EXCEPT ![o] = "COMPLETED"]
        /\ UNCHANGED <<kind, sync>>
  /\ UNCHANGED <<op_queue, cur, coll, sync_queue, sync_counter,
                 non_sync_counter, coalesce_counter>>

\* Any other I/O callback, failed or not, completes the operation.
FinishIO(o) ==
  /\ stage[o] = "IO"
  /\ \E r \in BOOLEAN : ok' = [ok EXCEPT ![o] = r]
  /\ stage' = [stage EXCEPT ![o] = "COMPLETED"]
  /\ UNCHANGED <<op_queue, cur, kind, coll, sync, dirty, sync_queue,
                 sync_counter, non_sync_counter, coalesce_counter>>

-----------------------------------------------------------------------------
(* dbpf_sync_coalesce, called for every operation that has been served.    *)

\* Seeded faults: the low watermark is not looked at; the high watermark is
\* passed by one.
AtHighOnly(c, d, n) == High[c] > 0 /\ n >= High[c]
AtWatermarkLate(c, d, n) ==
  \/ sync_counter[d] < Low[c]
  \/ High[c] > 0 /\ n > High[c]

\* The watermark tests, with n operations coalesced so far.
AtWatermark(c, d, n) ==
  \/ sync_counter[d] < Low[c]
  \/ High[c] > 0 /\ n >= High[c]

NeedsSync(o) == DoesSync(kind[o]) /\ sync[o]

\* No sync needed: complete.
CompleteNow(o) ==
  /\ stage[o] = "SERVED" /\ ~NeedsSync(o)
  /\ stage' = [stage EXCEPT ![o] = "COMPLETED"]
  /\ cur' = cur \ {o}
  /\ UNCHANGED <<op_queue, kind, coll, sync, ok, dirty, sync_queue,
                 sync_counter, non_sync_counter, coalesce_counter>>

\* Metadata sync is disabled: complete first ...
CompleteEarly(o) ==
  /\ stage[o] = "SERVED" /\ NeedsSync(o) /\ coll[o] \notin MetaSync
  /\ stage' = [stage EXCEPT ![o] = "LATE"]
  /\ UNCHANGED <<op_queue, cur, kind, coll, sync, ok, dirty, sync_queue,
                 sync_counter, non_sync_counter, coalesce_counter>>

\* ... and sync now and then, an error going to nobody.
CountLate(o) ==
  LET d == Context(kind[o])
      n == coalesce_counter[d] + 1
  IN  /\ stage[o] = "LATE"
      /\ IF AtWatermark(coll[o], d, n)
           THEN /\ coalesce_counter' = [coalesce_counter EXCEPT ![d] = 0]
                /\ \E r \in SyncResult :
                     dirty' = IF r THEN Synced(dirty, coll[o], d) ELSE dirty
           ELSE /\ coalesce_counter' = [coalesce_counter EXCEPT ![d] = n]
                /\ UNCHANGED dirty
      /\ stage' = [stage EXCEPT ![o] = "COMPLETED"]
      /\ cur' = cur \ {o}
      /\ UNCHANGED <<op_queue, kind, coll, sync, ok, sync_queue, sync_counter,
                     non_sync_counter>>

\* At a watermark: sync the database of this operation's collection, then
\* complete it and every parked one.  What dbpf_sync_db returns is lost: ret
\* is assigned again before it is looked at.
Flush(o) ==
  LET d == Context(kind[o])
      Parked(p) == \E i \in DOMAIN sync_queue[d] : sync_queue[d][i] = p
  IN  /\ stage[o] = "SERVED" /\ NeedsSync(o) /\ coll[o] \in MetaSync
      /\ AtWatermark(coll[o], d, coalesce_counter[d])
      /\ \E r \in SyncResult :
           dirty' = IF r THEN Synced(dirty, coll[o], d) ELSE dirty
      /\ stage' = [p \in Op |-> IF p = o \/ Parked(p) THEN "COMPLETED" ELSE stage[p]]
      /\ sync_queue' = [sync_queue EXCEPT ![d] = <<>>]
      /\ coalesce_counter' = [coalesce_counter EXCEPT ![d] = 0]
      /\ cur' = cur \ {o}
      /\ UNCHANGED <<op_queue, kind, coll, sync, ok, sync_counter,
                     non_sync_counter>>

\* Otherwise: leave it to a later operation.
Park(o) ==
  LET d == Context(kind[o])
  IN  /\ stage[o] = "SERVED" /\ NeedsSync(o) /\ coll[o] \in MetaSync
      /\ ~AtWatermark(coll[o], d, coalesce_counter[d])
      /\ stage' = [stage EXCEPT ![o] = "PARKED"]
      /\ sync_queue' = [sync_queue EXCEPT ![d] = Append(@, o)]
      /\ coalesce_counter' = [coalesce_counter EXCEPT ![d] = @ + 1]
      /\ cur' = cur \ {o}
      /\ UNCHANGED <<op_queue, kind, coll, sync, ok, dirty, sync_counter,
                     non_sync_counter>>

\* dbpf_dspace_testcontext hands the result to the job layer and frees the
\* operation; nobody asks any more which of its writes are on disk.
Reap(o) ==
  /\ stage[o] = "COMPLETED"
  /\ stage' = [stage EXCEPT ![o] = "IDLE"]
  /\ dirty' = [c \in Coll |-> [d \in Db |-> dirty[c][d] \ {o}]]
  /\ kind' = [kind EXCEPT ![o] = "READ"]
  /\ sync' = [sync EXCEPT ![o] = FALSE]
  /\ ok' = [ok EXCEPT ![o] = TRUE]
  /\ UNCHANGED <<op_queue, cur, coll, sync_queue, sync_counter,
                 non_sync_counter, coalesce_counter>>

Coalesce(o) ==
  CompleteNow(o) \/ CompleteEarly(o) \/ CountLate(o) \/ Flush(o) \/ Park(o)

Next ==
  \/ \E o \in Op, c \in Coll, k \in Kind, s \in BOOLEAN :
       Post(o, c, k, s) \/ ServeNow(o, c, k, s)
  \/ \E o \in Op, c \in Coll, s \in BOOLEAN : "IO" \in Kind /\ StartIO(o, c, s)
  \/ Dequeue
  \/ \E o \in Op :
       Service(o) \/ GrowIO(o) \/ FinishIO(o) \/ Coalesce(o) \/ Reap(o)

Spec == Init /\ [][Next]_vars

\* The trove thread runs as long as the server does.
Fairness ==
  /\ WF_vars(Dequeue)
  /\ \A o \in Op : WF_vars(Service(o)) /\ WF_vars(Coalesce(o))

LiveSpec == Spec /\ Fairness

-----------------------------------------------------------------------------
(* Properties.                                                             *)

\* The writes of o that a TROVE_SYNC operation has to bring to disk.
OnDisk(o) == \A d \in Writes(kind[o]) : o \notin dirty[coll[o]][d]

\* With metadata sync enabled, an operation that was to be synced and is
\* reported as done is on disk: whenever the server crashes, what a client
\* was told has happened.
AckedDurable ==
  \A o \in Op :
    stage[o] = "COMPLETED" /\ ok[o] /\ sync[o] /\ coll[o] \in MetaSync
    => OnDisk(o)

Counted(d) ==
  {o \in Op : stage[o] = "QUEUED" /\ NeedsSync(o) /\ Context(kind[o]) = d}

\* sync_counter, on which the low watermark is tested, is the number of
\* operations still queued that will themselves come to dbpf_sync_coalesce.
CounterExact == \A d \in Db : sync_counter[d] = Cardinality(Counted(d))

\* No parked operation is forgotten: while one waits, another one is on its
\* way that will sync the same database.
NotStranded ==
  \A d \in Db : sync_queue[d] # <<>> =>
    \E o \in Op : /\ stage[o] \in {"QUEUED", "IN_SERVICE", "SERVED"}
                  /\ NeedsSync(o) /\ Context(kind[o]) = d

\* Even without metadata sync a server that has come to rest has nothing to
\* lose: when no operation is queued, in service or parked, every finished
\* TROVE_SYNC operation is on disk.
IdleIsClean ==
  (\A o \in Op : stage[o] \in {"IDLE", "IO", "COMPLETED"}) =>
    \A o \in Op : stage[o] = "COMPLETED" /\ ok[o] /\ sync[o] => OnDisk(o)

\* At most c_high_watermark operations wait for one sync.
BatchBounded ==
  \A d \in Db, c \in Coll : High[c] > 0 => Len(sync_queue[d]) <= High[c]

\* Every queued operation completes.
EveryOpCompletes ==
  \A o \in Op : (stage[o] = "QUEUED") ~> (stage[o] = "COMPLETED")

\* "If the dbpf call returned an error, we need to call sync_coalesce, which
\* will sync the database, and return and move _all_ the ready-to-be-synced
\* operations to the completion queue": one that failed is never parked.
ErrorFlushes == \A o \in Op : stage[o] = "PARKED" => ok[o]
=============================================================================
