------------------------------- MODULE Upcall -------------------------------
(***************************************************************************)
(* The Linux kernel module's path from a system call to the client daemon: *)
(* service_operation and its two waits (kernel/linux-2.6/waitqueue.c), the *)
(* request device the daemon reads upcalls from and writes downcalls to    *)
(* (devpvfs2-req.c), the shared buffers (pvfs2-bufmap.c) and the caller    *)
(* that uses them for file I/O (wait_for_direct_io, file.c).               *)
(*                                                                         *)
(* An operation waits on pvfs2_request_list until the daemon reads it and  *)
(* then in htable_ops_in_progress until the daemon answers.  Meanwhile the *)
(* caller may be interrupted or time out, and the daemon may die and be    *)
(* started again.  Locks are those of the code: one step is what is done   *)
(* under one hold of op->lock, of the list lock or of devreq_semaphore.    *)
(*                                                                         *)
(* A released operation is not handed out again by the allocator: every    *)
(* caller makes one call.                                                  *)
(***************************************************************************)
EXTENDS Integers, FiniteSets, Sequences, SequencesExt

CONSTANTS
    PlainCallers,   \* processes in a call that needs no shared buffer
    IoCallers,      \* processes in wait_for_direct_io
    Buffers,        \* buffer_index_array's indices
    PurgeRetry,     \* PVFS2_PURGE_RETRY_COUNT
    MaxDeaths,      \* bound: how often the daemon dies
    None            \* no operation, no buffer

Callers == PlainCallers \cup IoCallers

ASSUME CallersApart ==
    /\ PlainCallers \cap IoCallers = {}
    /\ None \notin Buffers
    /\ PurgeRetry \in Nat /\ MaxDeaths \in Nat

(* The operation structures: one for each call, one more for the          *)
(* cancellation a failed I/O sends, and the daemon's remount.             *)
Main(c) == <<c, "main">>
Cancel(c) == <<c, "cancel">>
Mount == <<"daemon", "mount">>
Mains == {Main(c) : c \in Callers}
IoMains == {Main(c) : c \in IoCallers}
Cancels == {Cancel(c) : c \in IoCallers}
Ops == Mains \cup Cancels \cup {Mount}

ASSUME NoneApart == None \notin Ops

(* op_state is a set of bits: purging adds one, everything else assigns.  *)
Flags == {"waiting", "inprogress", "serviced", "purged", "interrupted"}

VARIABLES
    pc,         \* pc[o]: where the process that owns o stands
    flags,      \* flags[o]: op->op_state
    attempts,   \* attempts[o]: op->attempts
    ret,        \* ret[o]: what the wait, or service_operation, returned
    list,       \* pvfs2_request_list
    htable,     \* htable_ops_in_progress
    completed,  \* the operations with io_completed set
    sem,        \* who holds request_semaphore
    daemon,     \* "up", "dying" (a signal is pending) or "down"
    closing,    \* what pvfs2_devreq_release has still to purge
    deaths,     \* how often the daemon was killed
    late,       \* whose callers a new daemon has outrun (history)
    remount,    \* this daemon's remount has been answered
    pending,    \* mount_pending of the mounted file system
    reading,    \* what pvfs2_devreq_read took off the list
    writing,    \* the operation a write to the device is about
    stage,      \* how far that write is
    held,       \* what the daemon has read and not answered (external)
    mapped,     \* bufmap_init
    gen,        \* counts the buffer maps
    inuse,      \* buffer_index_array
    buffer,     \* buffer[c]: buffer_index of wait_for_direct_io
    array,      \* array[c]: the map whose array and buffer c has got
    torn        \* dropped by one side while the other had them (history)

opVars == <<pc, flags, attempts, ret, list, htable, completed>>
devVars == <<daemon, closing, deaths, late, remount, pending, reading,
             writing, stage, held>>
bufVars == <<mapped, gen, inuse, buffer, array>>
vars == <<opVars, devVars, bufVars, sem, torn>>

(* A daemon runs, it has mounted the file system and mapped its buffers,   *)
(* and no call is under way.                                               *)
Init ==
    /\ pc = [o \in Ops |-> "none"]
    /\ flags = [o \in Ops |-> {}]
    /\ attempts = [o \in Ops |-> 0]
    /\ ret = [o \in Ops |-> "none"]
    /\ list = <<>> /\ htable = {} /\ completed = {}
    /\ sem = None
    /\ daemon = "up" /\ closing = "no" /\ deaths = 0 /\ late = {}
    /\ remount = TRUE /\ pending = FALSE
    /\ reading = None /\ writing = None /\ stage = "none" /\ held = {}
    /\ mapped = TRUE /\ gen = 1 /\ inuse = {}
    /\ buffer = [c \in IoCallers |-> None]
    /\ array = [c \in IoCallers |-> 0]
    /\ torn = {}

-----------------------------------------------------------------------------
(* Helpers.                                                                *)

(* The list without o, as remove_op_from_request_list leaves it.           *)
Off(o) ==
    IF Contains(list, o)
    THEN RemoveAt(list, CHOOSE i \in DOMAIN list : list[i] = o) ELSE list

Goes(o, where, what) ==
    /\ pc' = [pc EXCEPT ![o] = where]
    /\ ret' = [ret EXCEPT ![o] = what]

UsedByDevice(o) == reading = o \/ writing = o

Listed(o) == o \in htable \/ Contains(list, o)

(* op_release clears the state and frees the structures in S, whoever      *)
(* still has a pointer to one: aio_ref_count is not looked at, nor whether *)
(* a list still holds it.                                                  *)
Freed(S) ==
    /\ flags' = [o \in Ops |-> IF o \in S THEN {} ELSE flags[o]]
    /\ attempts' = [o \in Ops |-> IF o \in S THEN 0 ELSE attempts[o]]

Release(S) ==
    /\ Freed(S)
    /\ torn' = torn \cup {o \in S : UsedByDevice(o) \/ Listed(o)}

(* put_back_slot clears the entry of whatever array is there now.          *)
InUseWithout(b) == IF mapped THEN inuse \ {b} ELSE inuse

(* fsid_of_op: cancellations and mounts belong to no file system.          *)
OfFs(o) == o \in Mains

-----------------------------------------------------------------------------
(* The caller: wait_for_direct_io gets a buffer first, other calls post    *)
(* their operation at once.                                                *)

CallPlain(c) ==
    /\ c \in PlainCallers /\ pc[Main(c)] = "none"
    /\ Goes(Main(c), "post", "none")
    /\ UNCHANGED <<flags, attempts, list, htable, completed,
                   devVars, bufVars, sem, torn>>

CallIo(c) ==
    /\ c \in IoCallers /\ pc[Main(c)] = "none"
    /\ IF mapped
       THEN /\ Goes(Main(c), "slot", "none")
            /\ array' = [array EXCEPT ![c] = gen]
            /\ UNCHANGED <<flags, attempts, torn>>
       ELSE /\ Goes(Main(c), "done", "none")
            /\ Release({Main(c)})
            /\ UNCHANGED array
    /\ UNCHANGED <<list, htable, completed, devVars, mapped, gen, inuse,
                   buffer, sem>>

(* wait_for_a_slot finds a free entry in the array it was called with.     *)
GetSlot(c) ==
    /\ pc[Main(c)] = "slot"
    /\ mapped /\ array[c] = gen
    /\ \E b \in Buffers \ inuse :
           /\ inuse' = inuse \cup {b}
           /\ buffer' = [buffer EXCEPT ![c] = b]
    /\ Goes(Main(c), "post", "none")
    /\ UNCHANGED <<flags, attempts, list, htable, completed,
                   devVars, mapped, gen, array, sem, torn>>

(* It does not look at bufmap_init again after sleeping: when the map was  *)
(* shut down meanwhile, slot_array points to freed memory and any entry    *)
(* may look free.                                                          *)
GetSlotStale(c) ==
    /\ pc[Main(c)] = "slot"
    /\ ~mapped \/ array[c] # gen
    /\ \E b \in Buffers : buffer' = [buffer EXCEPT ![c] = b]
    /\ Goes(Main(c), "post", "none")
    /\ UNCHANGED <<flags, attempts, list, htable, completed,
                   devVars, mapped, gen, inuse, array, sem, torn>>

(* No entry is free and the wait ends by timeout or signal.                *)
NoSlot(c) ==
    /\ pc[Main(c)] = "slot"
    /\ ~mapped \/ array[c] # gen \/ Buffers \subseteq inuse
    /\ Goes(Main(c), "done", "none")
    /\ Release({Main(c)})
    /\ UNCHANGED <<list, htable, completed, devVars, bufVars, sem>>

(* precopy_buffers fails: the buffer goes back, nothing was queued.        *)
PrecopyFails(c) ==
    /\ pc[Main(c)] = "post"
    /\ inuse' = InUseWithout(buffer[c])
    /\ buffer' = [buffer EXCEPT ![c] = None]
    /\ Goes(Main(c), "done", "none")
    /\ Release({Main(c)})
    /\ UNCHANGED <<list, htable, completed, devVars, mapped, gen, array, sem>>

-----------------------------------------------------------------------------
(* service_operation up to the wait.                                       *)

(* Take request_semaphore (the remount's caller already has it) and see    *)
(* whether the daemon is there: if not, this attempt is on a timer.        *)
Post(o) ==
    /\ pc[o] = "post"
    /\ sem = IF o = Mount THEN Mount ELSE None
    /\ sem' = o
    /\ attempts' = [attempts EXCEPT ![o] =
                        IF daemon = "down" THEN @ + 1 ELSE @]
    /\ Goes(o, "queue", "none")
    /\ UNCHANGED <<flags, list, htable, completed, devVars,
                   bufVars, torn>>

(* A signal ends the wait for the semaphore; nothing was queued.           *)
PostInterrupted(o) ==
    /\ pc[o] = "post" /\ o # Mount
    /\ sem # None
    /\ Goes(o, "over", "EINTR")
    /\ UNCHANGED <<flags, attempts, list, htable, completed,
                   devVars, bufVars, sem, torn>>

(* add_op_to_request_list, or its priority form for the remount.  One link *)
(* serves the list and the table: what becomes of them when an operation   *)
(* still on one is queued is not followed.                                 *)
Enqueue(o) ==
    /\ pc[o] = "queue" /\ ~Listed(o)
    /\ flags' = [flags EXCEPT ![o] = {"waiting"}]
    /\ list' = IF o = Mount THEN <<o>> \o list ELSE Append(list, o)
    /\ sem' = IF o = Mount THEN sem ELSE None
    /\ Goes(o, "wait", "none")
    /\ UNCHANGED <<attempts, htable, completed, devVars, bufVars,
                   torn>>

-----------------------------------------------------------------------------
(* wait_for_matching_downcall and wait_for_cancellation_downcall.          *)

Served(o) ==
    /\ pc[o] = "wait"
    /\ "serviced" \in flags[o]
    /\ Goes(o, "over", "ok")
    /\ UNCHANGED <<flags, attempts, list, htable, completed,
                   devVars, bufVars, sem, torn>>

(* Woken by the purge: queue again unless it happened too often.           *)
WokenByPurge(o) ==
    /\ pc[o] = "wait" /\ o \notin Cancels
    /\ "purged" \in flags[o]
    /\ attempts' = [attempts EXCEPT ![o] = @ + 1]
    /\ Goes(o, "cleanup",
            IF attempts[o] + 1 < PurgeRetry THEN "EAGAIN" ELSE "EIO")
    /\ UNCHANGED <<flags, list, htable, completed, devVars,
                   bufVars, sem, torn>>

(* A cancellation that is woken from its sleep gives up whatever woke it,  *)
(* the answer, the purge or a fatal signal, and does not clean up.         *)
CancelWoken(o) ==
    /\ pc[o] = "wait" /\ o \in Cancels
    /\ Goes(o, "over", "ETIMEDOUT")
    /\ UNCHANGED <<flags, attempts, list, htable, completed,
                   devVars, bufVars, sem, torn>>

(* The first attempt is not on a timer, unless the operation was purged    *)
(* before its caller slept; a cancellation always is.                      *)
Timed(o) == o \in Cancels \/ attempts[o] > 0 \/ "purged" \in flags[o]

(* A fault: a timeout is answered like a purge, by trying again.           *)
TimesOutAgain(o) ==
    /\ pc[o] = "wait"
    /\ "serviced" \notin flags[o]
    /\ Timed(o)
    /\ Goes(o, "cleanup", "EAGAIN")
    /\ UNCHANGED <<flags, attempts, list, htable, completed, devVars,
                   bufVars, sem, torn>>

TimesOut(o) ==
    /\ pc[o] = "wait"
    /\ "serviced" \notin flags[o]
    /\ Timed(o)
    /\ Goes(o, "cleanup", "ETIMEDOUT")
    /\ UNCHANGED <<flags, attempts, list, htable, completed,
                   devVars, bufVars, sem, torn>>

(* A signal; the remount's process is the daemon, which is then dying.     *)
Interrupted(o) ==
    /\ pc[o] = "wait"
    /\ "serviced" \notin flags[o]
    /\ o = Mount => daemon = "dying"
    /\ Goes(o, "cleanup", "EINTR")
    /\ UNCHANGED <<flags, attempts, list, htable, completed,
                   devVars, bufVars, sem, torn>>

(* pvfs2_clean_up_interrupted_operation, up to its unlock of op->lock.  In *)
(* the serviced state there is no unlock: the caller then waits for a lock *)
(* it holds itself.                                                        *)
CleanUp(o) ==
    /\ pc[o] = "cleanup"
    /\ \/ /\ "waiting" \in flags[o]
          /\ flags' = [flags EXCEPT ![o] = {"interrupted"}]
          /\ Goes(o, "unlist", ret[o])
       \/ /\ "inprogress" \in flags[o]
          /\ flags' = [flags EXCEPT ![o] = {"interrupted"}]
          /\ Goes(o, "unhash", ret[o])
       \/ /\ "serviced" \in flags[o]
          /\ Goes(o, "hung", ret[o])
          /\ UNCHANGED flags
       \/ /\ flags[o] = {}
          /\ Goes(o, "over", ret[o])
          /\ UNCHANGED flags
    /\ UNCHANGED <<attempts, list, htable, completed, devVars,
                   bufVars, sem, torn>>

(* The removal itself, after the unlock.                                   *)
TakeOff(o) ==
    /\ \/ pc[o] = "unlist" /\ list' = Off(o) /\ UNCHANGED htable
       \/ pc[o] = "unhash" /\ htable' = htable \ {o} /\ UNCHANGED list
    /\ Goes(o, "over", ret[o])
    /\ UNCHANGED <<flags, attempts, completed, devVars, bufVars,
                   sem, torn>>

-----------------------------------------------------------------------------
(* service_operation after the wait, and its callers.                      *)

Again(o) == "serviced" \notin flags[o] /\ ret[o] = "EAGAIN"

PlainOver(c) ==
    /\ pc[Main(c)] = "over" /\ c \in PlainCallers
    /\ IF Again(Main(c))
       THEN /\ Goes(Main(c), "post", "none")
            /\ UNCHANGED <<flags, attempts, torn>>
       ELSE /\ Goes(Main(c), "done", "none")
            /\ Release({Main(c)})
    /\ UNCHANGED <<list, htable, completed, devVars, bufVars, sem>>

(* An operation with a shared buffer is not queued again here: it waits    *)
(* for the buffers to be mapped and leaves the rest to its caller.         *)
IoOver(c) ==
    /\ pc[Main(c)] = "over" /\ c \in IoCallers
    /\ Goes(Main(c),
            IF Again(Main(c)) /\ ~mapped THEN "remap" ELSE "ret",
            ret[Main(c)])
    /\ UNCHANGED <<flags, attempts, list, htable, completed,
                   devVars, bufVars, sem, torn>>

Remapped(c) ==
    /\ pc[Main(c)] = "remap"
    /\ Goes(Main(c), "ret", IF mapped THEN "EAGAIN" ELSE "EIO")
    /\ UNCHANGED <<flags, attempts, list, htable, completed,
                   devVars, bufVars, sem, torn>>

(* wait_for_direct_io takes a new buffer if the operation was purged,      *)
(* copies the data if it was served, and cancels it otherwise              *)
(* (handle_io_error).                                                      *)
IoReturned(c) ==
    LET o == Main(c) IN
    /\ pc[o] = "ret"
    /\ IF ret[o] = "EAGAIN" /\ "purged" \in flags[o]
       THEN /\ Goes(o, "slot", "none")
            /\ array' = [array EXCEPT ![c] = gen]
       ELSE /\ pc' = IF ret[o] = "ok" \/ "serviced" \in flags[o]
                     THEN [pc EXCEPT ![o] = "copy"]
                     ELSE [pc EXCEPT ![o] = "cancel",
                                     ![Cancel(c)] = "post"]
            /\ UNCHANGED <<ret, array>>
    /\ UNCHANGED <<flags, attempts, list, htable, completed,
                   devVars, mapped, gen, inuse, buffer, sem, torn>>

(* The data is copied; the daemon may return from its write, which         *)
(* releases the operation, and the buffer goes back.                       *)
Copied(c) ==
    /\ pc[Main(c)] = "copy"
    /\ completed' = completed \cup {Main(c)}
    /\ inuse' = InUseWithout(buffer[c])
    /\ buffer' = [buffer EXCEPT ![c] = None]
    /\ Goes(Main(c), "done", "none")
    /\ UNCHANGED <<flags, attempts, list, htable, devVars,
                   mapped, gen, array, sem, torn>>

(* pvfs2_cancel_op_in_progress is over: both operations are released and   *)
(* the buffer goes back.                                                   *)
CancelOver(c) ==
    /\ pc[Cancel(c)] = "over"
    /\ pc' = [pc EXCEPT ![Cancel(c)] = "done", ![Main(c)] = "done"]
    /\ ret' = [ret EXCEPT ![Cancel(c)] = "none", ![Main(c)] = "none"]
    /\ Release({Cancel(c), Main(c)})
    /\ inuse' = InUseWithout(buffer[c])
    /\ buffer' = [buffer EXCEPT ![c] = None]
    /\ UNCHANGED <<list, htable, completed, devVars, mapped, gen, array, sem>>

-----------------------------------------------------------------------------
(* The daemon's side: pvfs2_devreq_read, pvfs2_devreq_write_iter.          *)

(* What a read may take: the operations that wait, except those of a file  *)
(* system that has to be mounted again first.                              *)
Readable(o) == "waiting" \in flags[o] /\ ~(pending /\ OfFs(o))

ReadPick ==
    /\ daemon = "up" /\ reading = None
    /\ \E i \in DOMAIN list :
           /\ Readable(list[i]) /\ \A j \in 1..i - 1 : ~Readable(list[j])
           /\ reading' = list[i]
           /\ list' = RemoveAt(list, i)
    /\ UNCHANGED <<pc, flags, attempts, ret, htable, completed,
                   daemon, closing, deaths, late, remount, pending, writing,
                   stage, held, bufVars, sem, torn>>

(* A fault: the state is not looked at again.                              *)
ReadMarkUnchecked ==
    /\ reading # None
    /\ reading' = None
    /\ flags' = [flags EXCEPT ![reading] = {"inprogress"}]
    /\ htable' = htable \cup {reading}
    /\ held' = held \cup {reading}
    /\ UNCHANGED <<pc, attempts, ret, list, completed, daemon, closing,
                   deaths, late, remount, pending, writing, stage, bufVars,
                   sem, torn>>

(* The list lock was dropped: the operation may have been interrupted.     *)
(* One that was queued again meanwhile comes into the table while the list *)
(* still leads to it.                                                      *)
ReadMark ==
    /\ reading # None
    /\ reading' = None
    /\ IF "waiting" \in flags[reading]
       THEN /\ flags' = [flags EXCEPT ![reading] = {"inprogress"}]
            /\ htable' = htable \cup {reading}
            /\ held' = held \cup {reading}
       ELSE UNCHANGED <<flags, htable, held>>
    /\ UNCHANGED <<pc, attempts, ret, list, completed, daemon,
                   closing, deaths, late, remount, pending, writing, stage,
                   bufVars, sem, torn>>

(* An answer: the operation is looked up by its tag; an answer that no one *)
(* waits for is dropped.                                                   *)
WriteTake(o) ==
    /\ daemon = "up" /\ writing = None
    /\ o \in held
    /\ held' = held \ {o}
    /\ IF o \in htable
       THEN writing' = o /\ stage' = "taken" /\ htable' = htable \ {o}
       ELSE UNCHANGED <<writing, stage, htable>>
    /\ UNCHANGED <<pc, flags, attempts, ret, list, completed,
                   daemon, closing, deaths, late, remount, pending, reading,
                   bufVars, sem, torn>>

(* Tell the caller; for file I/O the write then waits for the copying.     *)
WriteServe ==
    /\ stage = "taken"
    /\ flags' = [flags EXCEPT ![writing] = {"serviced"}]
    /\ IF writing \in IoMains
       THEN stage' = "io" /\ UNCHANGED writing
       ELSE stage' = "none" /\ writing' = None
    /\ UNCHANGED <<pc, attempts, ret, list, htable, completed,
                   daemon, closing, deaths, late, remount, pending, reading,
                   held, bufVars, sem, torn>>

(* The answer cannot be copied, or is not as long as it says, or there is  *)
(* no room for its trailer: the write fails, and neither puts the          *)
(* operation back into the table nor wakes its caller.                     *)
WriteFails ==
    /\ stage = "taken"
    /\ stage' = "none" /\ writing' = None
    /\ torn' = torn \cup {writing}
    /\ UNCHANGED <<opVars, daemon, closing, deaths, late, remount, pending,
                   reading, held, bufVars, sem>>

WriteEnds ==
    /\ stage = "io" /\ pc[writing] # "hung"
    /\ stage' = "none" /\ writing' = None
    /\ UNCHANGED <<pc, ret, list, htable, completed, daemon,
                   closing, deaths, late, remount, pending, reading, held,
                   bufVars, sem>>

(* The copying is done: the write releases the operation.                  *)
WriteCompleted ==
    /\ WriteEnds
    /\ writing \in completed
    /\ Freed({writing})
    /\ UNCHANGED torn

(* The timer runs out: the write returns and releases nothing.             *)
WriteTimesOut ==
    /\ WriteEnds
    /\ writing \notin completed
    /\ UNCHANGED <<flags, attempts, torn>>

(* A signal: the write releases the operation, copied or not.              *)
WriteInterrupted ==
    /\ WriteEnds
    /\ writing \notin completed
    /\ daemon = "dying"
    /\ Freed({writing})
    /\ torn' = torn \cup {writing}

-----------------------------------------------------------------------------
(* The daemon's life.                                                      *)

Kill ==
    /\ daemon = "up" /\ deaths < MaxDeaths
    /\ daemon' = "dying" /\ deaths' = deaths + 1
    /\ UNCHANGED <<opVars, closing, late, remount, pending, reading, writing,
                   stage, held, bufVars, sem, torn>>

(* pvfs2_devreq_release runs when the last system call on the device has   *)
(* returned.                                                               *)
Close ==
    /\ daemon = "dying"
    /\ reading = None /\ writing = None /\ pc[Mount] = "none"
    /\ daemon' = "down" /\ closing' = "waiting"
    /\ mapped' = FALSE /\ pending' = TRUE
    /\ held' = {}
    /\ UNCHANGED <<opVars, deaths, late, remount, reading, writing, stage,
                   gen, inuse, buffer, array, sem, torn>>

(* purge_waiting_ops: under one hold of the list lock.                     *)
Purged(o) ==
    IF Contains(list, o) /\ "waiting" \in flags[o]
    THEN flags[o] \cup {"purged"} ELSE flags[o]

PurgeWaiting ==
    /\ closing = "waiting" /\ closing' = "inprogress"
    /\ flags' = [o \in Ops |-> Purged(o)]
    /\ UNCHANGED <<pc, attempts, ret, list, htable, completed,
                   daemon, deaths, late, remount, pending, reading, writing,
                   stage, held, bufVars, sem, torn>>

(* purge_inprogress_ops walks the table, taking the lock of one operation  *)
(* after the other.                                                        *)
ToPurge(o) ==
    o \in htable /\ "inprogress" \in flags[o] /\ "purged" \notin flags[o]

PurgeInProgress(o) ==
    /\ closing = "inprogress"
    /\ ToPurge(o)
    /\ flags' = [flags EXCEPT ![o] = @ \cup {"purged"}]
    /\ UNCHANGED <<pc, attempts, ret, list, htable, completed, devVars,
                   bufVars, sem, torn>>

(* A fault: only the request list is purged.                               *)
PurgeEndsEarly ==
    /\ closing = "inprogress" /\ closing' = "no"
    /\ UNCHANGED <<opVars, daemon, deaths, late, remount, pending, reading,
                   writing, stage, held, bufVars, sem, torn>>

PurgeEnds ==
    /\ closing = "inprogress" /\ closing' = "no"
    /\ \A o \in htable : ~ToPurge(o)
    /\ UNCHANGED <<opVars, daemon, deaths, late, remount, pending, reading,
                   writing, stage, held, bufVars, sem, torn>>

(* A caller the purge has woken, to queue its operation again, that has    *)
(* not yet taken it off where it is.                                       *)
Reacting(o) ==
    \/ pc[o] = "wait" /\ "purged" \in flags[o]
    \/ pc[o] \in {"cleanup", "unlist", "unhash"} /\ ret[o] = "EAGAIN"

(* pvfs2-client waits for its child and starts another.  That takes longer *)
(* than a caller needs to run, but nothing enforces it: the callers that   *)
(* are slower are noted.                                                   *)
Open ==
    /\ daemon = "down" /\ closing = "no"
    /\ daemon' = "up" /\ remount' = FALSE
    /\ late' = late \cup {o \in Ops : Reacting(o)}
    /\ UNCHANGED <<opVars, closing, deaths, pending, reading, writing, stage,
                   held, bufVars, sem, torn>>

(* PVFS_DEV_MAP: pvfs_bufmap_initialize.                                   *)
MapBuffers ==
    /\ daemon = "up" /\ ~mapped
    /\ mapped' = TRUE /\ gen' = gen + 1 /\ inuse' = {}
    /\ UNCHANGED <<opVars, devVars, buffer, array, sem, torn>>

(* PVFS_DEV_REMOUNT_ALL holds request_semaphore until the mount is         *)
(* answered.                                                               *)
RemountStart ==
    /\ daemon = "up" /\ mapped /\ ~remount /\ pc[Mount] = "none"
    /\ sem = None /\ sem' = Mount
    /\ Goes(Mount, "post", "none")
    /\ UNCHANGED <<flags, attempts, list, htable, completed, devVars,
                   bufVars, torn>>

(* A fault: the mount is not noted.                                        *)
RemountOverPending ==
    /\ pc[Mount] = "over"
    /\ remount' = (ret[Mount] = "ok")
    /\ sem' = None
    /\ Goes(Mount, "none", "none")
    /\ Release({Mount})
    /\ UNCHANGED <<list, htable, completed, daemon, closing, deaths, late,
                   pending, reading, writing, stage, held, bufVars>>

RemountOver ==
    /\ pc[Mount] = "over"
    /\ remount' = (ret[Mount] = "ok")
    /\ pending' = IF ret[Mount] = "ok" THEN FALSE ELSE pending
    /\ sem' = None
    /\ Goes(Mount, "none", "none")
    /\ Release({Mount})
    /\ UNCHANGED <<list, htable, completed, daemon, closing,
                   deaths, late, reading, writing, stage, held, bufVars>>

-----------------------------------------------------------------------------
(* What a caller does of itself; Interrupted and PostInterrupted are       *)
(* signals, which need not come.                                           *)
CallerStep(c) ==
    \/ GetSlot(c) \/ GetSlotStale(c) \/ NoSlot(c)
    \/ PlainOver(c) \/ IoOver(c) \/ Remapped(c) \/ IoReturned(c)
    \/ Copied(c) \/ CancelOver(c)

OpStep(o) ==
    \/ Post(o) \/ Enqueue(o)
    \/ Served(o) \/ WokenByPurge(o) \/ CancelWoken(o) \/ TimesOut(o)
    \/ CleanUp(o) \/ TakeOff(o)

DaemonRead == ReadPick \/ ReadMark
DaemonWrite ==
    \/ WriteServe \/ WriteFails
    \/ WriteCompleted \/ WriteTimesOut \/ WriteInterrupted
DaemonLife ==
    \/ Close \/ PurgeWaiting \/ (\E o \in Ops : PurgeInProgress(o))
    \/ PurgeEnds \/ Open \/ MapBuffers
    \/ RemountStart \/ RemountOver

Next ==
    \/ \E c \in Callers : CallPlain(c)
    \/ \E c \in IoCallers : CallIo(c)
    \/ \E c \in IoCallers : GetSlot(c)
    \/ \E c \in IoCallers : GetSlotStale(c)
    \/ \E c \in IoCallers : NoSlot(c)
    \/ \E c \in IoCallers : PrecopyFails(c)
    \/ \E c \in PlainCallers : PlainOver(c)
    \/ \E c \in IoCallers : IoOver(c)
    \/ \E c \in IoCallers : Remapped(c)
    \/ \E c \in IoCallers : IoReturned(c)
    \/ \E c \in IoCallers : Copied(c)
    \/ \E c \in IoCallers : CancelOver(c)
    \/ \E o \in Ops : OpStep(o)
    \/ \E o \in Ops : Interrupted(o)
    \/ \E o \in Ops : PostInterrupted(o)
    \/ \E o \in Ops : WriteTake(o)
    \/ DaemonRead \/ DaemonWrite \/ DaemonLife \/ Kill

Spec == Init /\ [][Next]_vars

(* Processes run, timers fire, the daemon handles what it has read, a      *)
(* daemon that is killed exits and pvfs2-client starts another.  Of all    *)
(* this one step that can be taken is taken: no process is promised a      *)
(* turn, since none can go on for ever.                                    *)
Progress ==
    \/ \E c \in PlainCallers : PlainOver(c)
    \/ \E c \in IoCallers : CallerStep(c)
    \/ \E o \in Ops : OpStep(o) \/ WriteTake(o)
    \/ Interrupted(Mount) \/ DaemonRead \/ DaemonWrite \/ DaemonLife

Fairness == WF_vars(Progress)

LiveSpec == Spec /\ Fairness

-----------------------------------------------------------------------------
(* Properties.                                                             *)

Places == {"none", "slot", "post", "queue", "wait", "cleanup", "unlist",
           "unhash", "hung", "over", "remap", "ret", "copy", "cancel",
           "done"}
Results == {"none", "ok", "EAGAIN", "EINTR", "ETIMEDOUT", "EIO"}

(* Every variable keeps its type, and the request list holds an operation  *)
(* at most once.                                                           *)
TypeOK ==
    /\ pc \in [Ops -> Places] /\ flags \in [Ops -> SUBSET Flags]
    /\ attempts \in [Ops -> Nat] /\ ret \in [Ops -> Results]
    /\ list \in Seq(Ops)
    /\ \A i, j \in DOMAIN list : list[i] = list[j] => i = j
    /\ htable \subseteq Ops /\ completed \subseteq IoMains
    /\ torn \subseteq Ops /\ late \subseteq Ops \ {Mount}
    /\ sem \in Ops \cup {None} /\ daemon \in {"up", "dying", "down"}
    /\ closing \in {"no", "waiting", "inprogress"}
    /\ deaths \in 0..MaxDeaths
    /\ remount \in BOOLEAN /\ pending \in BOOLEAN
    /\ reading \in Ops \cup {None} /\ writing \in Ops \cup {None}
    /\ stage \in {"none", "taken", "io"} /\ held \subseteq Ops
    /\ mapped \in BOOLEAN /\ gen \in Nat /\ inuse \subseteq Buffers
    /\ buffer \in [IoCallers -> Buffers \cup {None}]
    /\ array \in [IoCallers -> Nat]

(* The post-condition of wait_for_matching_downcall: when the wait is over *)
(* the operation is on no list and in no table, whatever the daemon was    *)
(* doing with it; unless its caller was purged and the next daemon was     *)
(* there before it ran.                                                    *)
WaitIsOver ==
    {"none", "over", "remap", "ret", "copy", "cancel", "done"}
OffAt(o) == pc[o] \in WaitIsOver => ~Listed(o)
OffWhenOver == \A o \in (Mains \cup {Mount}) \ late : OffAt(o)

(* The post-condition as the comment of wait_for_matching_downcall has it, *)
(* for every operation.                                                    *)
OffAllLists == \A o \in Mains \cup {Mount} : OffAt(o)

(* A caller that sleeps has not been forgotten: its operation is still to   *)
(* be read, or the living daemon has it, or the purge that wakes the caller *)
(* has been or is still to come.  (Not of the operations of history: of    *)
(* one that was dropped or whose caller was outrun nothing is promised.)   *)
Asleep(o) == pc[o] = "wait" /\ flags[o] \cap {"serviced", "purged"} = {}
Remembered ==
    \A o \in Ops \ (torn \cup late) :
        Asleep(o) =>
            \/ Contains(list, o)
            \/ UsedByDevice(o)
            \/ o \in htable /\ (o \in held \/ closing # "no")

(* A daemon is not handed an operation again that it already has, since a  *)
(* caller that is not outrun queues its operation again only while no      *)
(* daemon is there; and none of a mounted file system before it has        *)
(* mounted it again.                                                       *)
HandedOnce ==
    /\ \A o \in held \ late :
           /\ reading # o
           /\ Contains(list, o) => "waiting" \notin flags[o]
    /\ \A o \in held \cup {reading} : o \in Mains => remount

(* An operation is released under the other side, or a caller holds its    *)
(* own lock: the two races in which nothing is promised any more.          *)
Broken == torn # {} \/ \E o \in Ops : pc[o] = "hung"

(* Every call returns: the daemon answers, or it dies and is started       *)
(* again, or a timer ends the wait.  A caller calls once, so that a moment *)
(* without calls under way is one after the return of all made before.     *)
UnderWay(c) == pc[Main(c)] \notin {"none", "done"}
EveryCallReturns ==
    (\E c \in Callers : UnderWay(c))
        ~> ((\A c \in Callers : ~UnderWay(c)) \/ Broken)

(* A buffer that a caller got from the present map is not on offer to      *)
(* another.                                                                *)
BuffersTaken ==
    mapped => \A c \in IoCallers :
        buffer[c] # None /\ array[c] = gen => buffer[c] \in inuse
=============================================================================
