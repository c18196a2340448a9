------------------------------ MODULE OpenCache ------------------------------
(***************************************************************************)
(* The cache of open bstream files of a server and the thread that deletes *)
(* removed ones (src/io/trove/trove-dbpf/dbpf-open-cache.c), with the part *)
(* of dataspace creation that moves a left-over file out of the way        *)
(* (dbpf-dspace.c).                                                        *)
(*                                                                         *)
(* A descriptor outlives the name of its file: one that was opened before  *)
(* the file was renamed is told apart from one of the file now at that     *)
(* name.  An open type is only its choice of creating the file or not;     *)
(* O_DIRECT is left out.                                                   *)
(***************************************************************************)
EXTENDS Integers, FiniteSets, Sequences, SequencesExt

CONSTANTS Handles,   \* bstreams of one collection
          Slots,     \* the entries of prealloc (OPEN_CACHE_SIZE of them)
          Users,     \* operations that hold at most one reference each
          MaxFd,     \* descriptors a process may have
          MaxQueue,  \* bound on the list of the unlink thread
          MaxRestarts

NoFd == 0

NoSlot == "none"

ASSUME CacheAssumption ==
    /\ Handles # {} /\ IsFiniteSet(Handles) /\ IsFiniteSet(Slots) /\ IsFiniteSet(Users)
    /\ NoSlot \notin Slots \union Handles
    /\ "run" \notin Handles /\ "wait" \notin Handles
    /\ MaxFd \in Nat /\ MaxQueue \in Nat /\ MaxRestarts \in Nat

VARIABLES entry,     \* prealloc: handle, fd, ref_ct and remove_flag of each slot
          used,      \* used_list, first element first
          unused,    \* unused_list
          unfilled,  \* free_list
          held,      \* the reference each user holds
          fds,       \* what the open descriptors refer to
          data,      \* the handles that have a bstream file
          stranded,  \* those that have a file in the stranded-bstreams directory
          toUnlink,  \* global_list of the unlink thread
          unlinker,  \* what that thread is doing
          exists,    \* the dataspaces
          restarts   \* how often the server has been restarted

cacheVars == <<entry, used, unused, unfilled>>
unlinkVars == <<toUnlink, unlinker>>
vars == <<entry, used, unused, unfilled, held, fds, data, stranded, toUnlink, unlinker, exists, restarts>>

Empty == [handle |-> NoSlot, fd |-> NoFd, ref |-> 0, flag |-> FALSE]

NoRef == [slot |-> NoSlot, handle |-> NoSlot, fd |-> NoFd]

Descriptors == 1 .. MaxFd

-----------------------------------------------------------------------------
(* The file system, as open, close, rename and unlink show it: a descriptor is
   of the file that is now the bstream of a handle, or of one that was. *)

Closed == <<"closed">>

Current(h) == <<"current", h>>

Former(h) == <<"former", h>>

Least(S) == CHOOSE x \in S : \A y \in S : x <= y

ClosedFds(table) == {d \in Descriptors : table[d] = Closed}

AfterClose(table, d) == IF d = NoFd THEN table ELSE [table EXCEPT ![d] = Closed]

(* open_fd creates the file only for writing. *)
Opens(h, write) == write \/ h \in data

(* rename of the bstream file to its stranded name, over an older one there. *)
Rename(h, table) ==
    /\ data' = data \ {h}
    /\ stranded' = stranded \union {h}
    /\ fds' = [d \in Descriptors |-> IF table[d] = Current(h) THEN Former(h) ELSE table[d]]

-----------------------------------------------------------------------------
(* dbpf_open_cache_find_entry *)
Cached(h) == {s \in Slots : entry[s].handle = h /\ (Contains(used, s) \/ Contains(unused, s))}

(* qlist_del of an element's link, from the list if it is there. *)
Dropped(list, s) ==
    IF Contains(list, s) THEN RemoveAt(list, CHOOSE k \in DOMAIN list : list[k] = s) ELSE list

Init ==
    /\ entry = [s \in Slots |-> Empty]
    /\ used = <<>> /\ unused = <<>>
    /\ unfilled = SetToSeq(Slots)
    /\ held = [u \in Users |-> NoRef]
    /\ fds = [d \in Descriptors |-> Closed]
    /\ data = {} /\ stranded = {}
    /\ toUnlink = <<>>
    /\ unlinker = "run"
    /\ exists = {}
    /\ restarts = 0

(* dbpf_open_cache_get finds an entry in use or still open: one more
   reference, and the entry goes to the head of the used list.  Such an entry
   has its descriptor. *)
GetCached(u, h) ==
    /\ held[u] = NoRef /\ h \in exists
    /\ \E s \in Cached(h) :
          /\ entry' = [entry EXCEPT ![s].ref = @ + 1]
          /\ used' = <<s>> \o Dropped(used, s)
          /\ unused' = Dropped(unused, s)
          /\ held' = [held EXCEPT ![u] = [slot |-> s, handle |-> h, fd |-> entry[s].fd]]
    /\ UNCHANGED <<unfilled, fds, data, stranded, toUnlink, unlinker, exists, restarts>>

(* The entry a new descriptor goes into: an unfilled one, else the one that
   has been unused longest. *)
Victim == IF unfilled # <<>> THEN Head(unfilled) ELSE Head(unused)

(* A fault for the reuse of an unused entry: its descriptor stays open. *)
VacatedLeaking == fds

(* An unused entry still has a descriptor, which is closed first. *)
Vacated == AfterClose(fds, entry[Victim].fd)

(* dbpf_open_cache_get, nothing cached: an entry is set up anew. *)
GetNew(u, h, write) ==
    /\ held[u] = NoRef /\ h \in exists
    /\ Cached(h) = {}
    /\ unfilled # <<>> \/ unused # <<>>
    /\ Opens(h, write) /\ ClosedFds(Vacated) # {}
    /\ LET s == Victim
           d == Least(ClosedFds(Vacated))
       IN /\ entry' = [entry EXCEPT ![s] = [handle |-> h, fd |-> d, ref |-> 1, flag |-> FALSE]]
          /\ unfilled' = Dropped(unfilled, s) /\ unused' = Dropped(unused, s)
          /\ used' = <<s>> \o used
          /\ held' = [held EXCEPT ![u] = [slot |-> s, handle |-> h, fd |-> d]]
          /\ fds' = [Vacated EXCEPT ![d] = Current(h)]
          /\ data' = data \union {h}
    /\ UNCHANGED <<stranded, toUnlink, unlinker, exists, restarts>>

(* The same when open fails, for want of a file or for any other reason: the
   entry, its old descriptor closed, goes to the free list. *)
GetNewFails(u, h) ==
    /\ held[u] = NoRef /\ h \in exists
    /\ Cached(h) = {}
    /\ unfilled # <<>> \/ unused # <<>>
    /\ LET s == Victim IN
       /\ entry' = [entry EXCEPT ![s] = [handle |-> h, fd |-> NoFd, ref |-> 1, flag |-> FALSE]]
       /\ unused' = Dropped(unused, s)
       /\ unfilled' = <<s>> \o Dropped(unfilled, s)
       /\ fds' = Vacated
    /\ UNCHANGED <<used, held, data, stranded, toUnlink, unlinker, exists, restarts>>

(* Every entry is in use: the reference is not cached. *)
GetUncached(u, h, write) ==
    /\ held[u] = NoRef /\ h \in exists
    /\ Cached(h) = {}
    /\ unfilled = <<>> /\ unused = <<>>
    /\ Opens(h, write) /\ ClosedFds(fds) # {}
    /\ LET d == Least(ClosedFds(fds)) IN
       /\ held' = [held EXCEPT ![u] = [slot |-> NoSlot, handle |-> h, fd |-> d]]
       /\ fds' = [fds EXCEPT ![d] = Current(h)]
       /\ data' = data \union {h}
    /\ UNCHANGED <<entry, used, unused, unfilled, stranded, toUnlink, unlinker, exists, restarts>>

(* A fault for dbpf_open_cache_put: the entry is set aside at every put. *)
PutCachedEager(u) ==
    /\ held[u].slot # NoSlot
    /\ LET s == held[u].slot IN
          /\ entry' = [entry EXCEPT ![s].ref = @ - 1]
          /\ used' = Dropped(used, s)
          /\ unused' = Append(Dropped(unused, s), s)
    /\ held' = [held EXCEPT ![u] = NoRef]
    /\ UNCHANGED <<unfilled, fds, data, stranded, toUnlink, unlinker, exists, restarts>>

(* dbpf_open_cache_put *)
PutCached(u) ==
    /\ held[u].slot # NoSlot
    /\ LET s == held[u].slot
           last == entry[s].ref = 1
       IN /\ entry' = [entry EXCEPT ![s].ref = @ - 1]
          /\ used' = IF last THEN Dropped(used, s) ELSE used
          /\ unused' = IF last THEN Append(unused, s) ELSE unused
    /\ held' = [held EXCEPT ![u] = NoRef]
    /\ UNCHANGED <<unfilled, fds, data, stranded, toUnlink, unlinker, exists, restarts>>

PutUncached(u) ==
    /\ held[u].slot = NoSlot /\ held[u].fd # NoFd
    /\ fds' = AfterClose(fds, held[u].fd)
    /\ held' = [held EXCEPT ![u] = NoRef]
    /\ UNCHANGED <<entry, used, unused, unfilled, data, stranded, toUnlink, unlinker, exists, restarts>>

(* A fault for fast_unlink: the thread is not woken. *)
QueueUnlinkSilent(h) ==
    /\ toUnlink' = Append(toUnlink, h)
    /\ UNCHANGED unlinker

(* The end of fast_unlink: the path is queued and the thread woken. *)
QueueUnlink(h) ==
    /\ toUnlink' = Append(toUnlink, h)
    /\ unlinker' = IF unlinker = "wait" THEN "run" ELSE unlinker

(* fast_unlink, given the descriptors that are still open: the file is renamed
   and left to the thread.  There may be none (ENOENT), or there is no memory
   for the path, or the renaming fails: then the file stays where it is. *)
FastUnlink(h, table) ==
    \/ h \in data /\ Rename(h, table) /\ QueueUnlink(h)
    \/ fds' = table /\ UNCHANGED <<data, stranded, toUnlink, unlinker>>

(* A fault for dbpf_open_cache_remove: an unused entry is left alone. *)
RemoveUnusedKept(h) ==
    /\ h \in exists
    /\ Len(toUnlink) < MaxQueue
    /\ exists' = exists \ {h}
    /\ \E s \in Cached(h) : Contains(unused, s)
    /\ FastUnlink(h, fds)
    /\ UNCHANGED <<entry, used, unused, unfilled, held, restarts>>

(* remove_one_handle calls dbpf_open_cache_remove: an unused entry is closed
   and freed, the file given to the unlink thread. *)
RemoveUnused(h) ==
    /\ h \in exists
    /\ Len(toUnlink) < MaxQueue
    /\ exists' = exists \ {h}
    /\ \E s \in Cached(h) :
          /\ Contains(unused, s)
          /\ entry' = [entry EXCEPT ![s].fd = NoFd, ![s].flag = FALSE]
          /\ unused' = Dropped(unused, s)
          /\ unfilled' = <<s>> \o unfilled
          /\ FastUnlink(h, AfterClose(fds, entry[s].fd))
    /\ UNCHANGED <<used, held, restarts>>

RemoveUncached(h) ==
    /\ h \in exists
    /\ Len(toUnlink) < MaxQueue
    /\ exists' = exists \ {h}
    /\ Cached(h) = {}
    /\ FastUnlink(h, fds)
    /\ UNCHANGED <<entry, used, unused, unfilled, held, restarts>>

(* The entry is in use: it is only flagged and the call fails, which
   remove_one_handle overlooks. *)
RemoveBusy(h) ==
    /\ h \in exists
    /\ exists' = exists \ {h}
    /\ \E s \in Cached(h) :
          /\ Contains(used, s)
          /\ entry' = [entry EXCEPT ![s].flag = TRUE]
    /\ UNCHANGED <<used, unused, unfilled, held, fds, data, stranded, toUnlink, unlinker, restarts>>

(* dbpf_dspace_create_store_handle: a file left over is moved away. *)
Create(h) ==
    /\ h \notin exists
    /\ exists' = exists \union {h}
    /\ IF h \in data THEN Rename(h, fds) ELSE UNCHANGED <<data, stranded, fds>>
    /\ UNCHANGED <<entry, used, unused, unfilled, held, toUnlink, unlinker, restarts>>

(* unlink_bstream: with nothing to do the thread waits, else it takes a path
   off the list and deletes it without the lock.  It does not look at what
   unlink(2) returns; that it succeeds is assumed here. *)
UnlinkWait ==
    /\ unlinker = "run" /\ toUnlink = <<>>
    /\ unlinker' = "wait"
    /\ UNCHANGED <<entry, used, unused, unfilled, held, fds, data, stranded, toUnlink, exists, restarts>>

UnlinkNext ==
    /\ unlinker = "run" /\ toUnlink # <<>>
    /\ unlinker' = Head(toUnlink)
    /\ toUnlink' = Tail(toUnlink)
    /\ UNCHANGED <<entry, used, unused, unfilled, held, fds, data, stranded, exists, restarts>>

Unlink ==
    /\ unlinker \in Handles
    /\ stranded' = stranded \ {unlinker}
    /\ unlinker' = "run"
    /\ UNCHANGED <<entry, used, unused, unfilled, held, fds, data, toUnlink, exists, restarts>>

(* The server dies and starts again: descriptors are gone, files stay, and
   clear_stranded_bstreams queues what the unlink thread had not deleted. *)
Restart ==
    /\ restarts < MaxRestarts
    /\ restarts' = restarts + 1
    /\ entry' = [s \in Slots |-> Empty]
    /\ used' = <<>> /\ unused' = <<>>
    /\ unfilled' = SetToSeq(Slots)
    /\ held' = [u \in Users |-> NoRef]
    /\ fds' = [d \in Descriptors |-> Closed]
    /\ toUnlink' = SetToSeq(stranded)
    /\ unlinker' = "run"
    /\ UNCHANGED <<data, stranded, exists>>

Get(u, h) ==
    \/ GetCached(u, h)
    \/ GetNewFails(u, h)
    \/ \E write \in BOOLEAN : GetNew(u, h, write) \/ GetUncached(u, h, write)

UnlinkThread == UnlinkWait \/ UnlinkNext \/ Unlink

Next ==
    \/ \E u \in Users, h \in Handles : Get(u, h)
    \/ \E u \in Users : PutCached(u) \/ PutUncached(u)
    \/ \E h \in Handles : RemoveUnused(h) \/ RemoveUncached(h) \/ RemoveBusy(h) \/ Create(h)
    \/ UnlinkThread
    \/ Restart

Spec == Init /\ [][Next]_vars

(* The unlink thread is a thread of the server that runs whenever it can. *)
LiveSpec == Spec /\ WF_vars(UnlinkThread)

-----------------------------------------------------------------------------
(* Type correctness: no count exceeds the number of users, no entry has a
   descriptor that does not exist. *)
TypeOK ==
    /\ entry \in [Slots -> [handle : Handles \union {NoSlot}, fd : 0 .. MaxFd,
                            ref : 0 .. Cardinality(Users), flag : BOOLEAN]]
    /\ fds \in [Descriptors -> {Closed} \union {Current(h) : h \in Handles}
                                        \union {Former(h) : h \in Handles}]
    /\ data \subseteq Handles /\ stranded \subseteq Handles
    /\ held \in [Users -> [slot : Slots \union {NoSlot}, handle : Handles \union {NoSlot}, fd : 0 .. MaxFd]]
    /\ exists \subseteq Handles
    /\ unlinker \in {"run", "wait"} \union Handles

InLists(s) == Contains(used, s) \/ Contains(unused, s)

(* A slot is on one of the three lists; it is on the used list as long as
   somebody holds a reference to it, and its count is the number of those. *)
RefsCounted ==
    \A s \in Slots :
        LET n == Cardinality({u \in Users : held[u].slot = s}) IN
        /\ n > 0 <=> Contains(used, s)
        /\ InLists(s) => entry[s].ref = n
        /\ Contains(unfilled, s) <=> ~ InLists(s)
        /\ ~ (Contains(used, s) /\ Contains(unused, s))

(* A descriptor is open exactly when one entry or one uncached reference has
   it: none is closed while it is in use or held by two, none is left open for
   ever. *)
FdsOwned ==
    \A d \in Descriptors :
        Cardinality({s \in Slots : InLists(s) /\ entry[s].fd = d})
          + Cardinality({u \in Users : held[u].slot = NoSlot /\ held[u].fd = d})
          = IF fds[d] = Closed THEN 0 ELSE 1

(* The descriptor of a cached entry is that of the file which now is the
   bstream of its handle, however often the handle was removed and created
   again, unless a removal met the entry in use and flagged it. *)
CachedIsCurrent ==
    \A s \in Slots : InLists(s) /\ ~ entry[s].flag =>
        /\ entry[s].fd # NoFd
        /\ fds[entry[s].fd] = Current(entry[s].handle)
        /\ \A t \in Slots : InLists(t) /\ entry[t].handle = entry[s].handle => s = t

(* What a removal has handed to the unlink thread, and what it had not deleted
   before a crash, is deleted in the end. *)
StrandedGoes == \A h \in Handles : Contains(toUnlink, h) ~> h \notin stranded
=============================================================================
