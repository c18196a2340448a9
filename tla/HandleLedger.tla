---------------------------- MODULE HandleLedger ----------------------------
(***************************************************************************)
(* The handle allocator of one collection (src/io/trove/trove-handle-mgmt) *)
(* together with the dataspace operations that use it (the create and      *)
(* remove service functions of dbpf-dspace.c).                             *)
(*                                                                         *)
(* A ledger keeps three lists of extents of handles: the free ones, the    *)
(* recently freed ones, and those freed once the second list is full.  The *)
(* index of a list, an AVL tree in the code, is a set of extents here: the *)
(* extents do not overlap, so a search finds what the set holds.           *)
(* num_extents and the time stamp of the free list are only printed and    *)
(* are left out.                                                           *)
(***************************************************************************)
EXTENDS Integers, FiniteSets, Sequences, FiniteSetsExt

CONSTANTS Ranges,       \* the configured extents of the collection
          RangeArrays,  \* the extent arrays creations ask with
          Purgatory,    \* s_extentlist_purgatory, in seconds
          Workers,      \* threads that service dataspace operations
          MaxCount,     \* bound on the length of a list creation
          MaxTime       \* bound on the clock

Extent(a, b) == [first |-> a, last |-> b]

Members(e) == e.first .. e.last

Handles == UNION {Members(r) : r \in Ranges}

Extents == {e \in {Extent(a, b) : a \in Handles, b \in Handles} : e.first <= e.last}

(* The configured extents are not empty and neither overlap nor touch;
   handle 0 is TROVE_HANDLE_NULL. *)
ASSUME RangesAssumption ==
    /\ Ranges # {} /\ IsFiniteSet(Ranges)
    /\ \A r \in Ranges : r.first \in Nat \ {0} /\ r.last \in Nat /\ r.first <= r.last
                         /\ r = Extent(r.first, r.last)
    /\ \A r, s \in Ranges : r # s => r.last + 1 < s.first \/ s.last + 1 < r.first

ASSUME ArraysAssumption ==
    \A a \in RangeArrays : \A i \in 1 .. Len(a) : a[i] \in Extents

ASSUME LedgerBounds ==
    /\ Purgatory \in Nat /\ MaxTime \in Nat /\ MaxCount \in Nat \ {0}
    /\ Workers # {}

VARIABLES free,     \* free_list: index and num_handles
          recent,   \* recently_freed_list
          over,     \* overflow_list
          stamp,    \* the time stamps of the last two
          stored,   \* the handles of the dataspace database
          worker,   \* what each thread is doing
          lost,     \* handles no list, operation or record knows of
          now       \* gettimeofday, in seconds

ledgerVars == <<free, recent, over, stamp>>
vars == <<free, recent, over, stamp, stored, worker, lost, now>>

-----------------------------------------------------------------------------
(* trove-extentlist.c *)

Covered(l) == UNION {Members(e) : e \in l.index}

(* avlinsert refuses a key that is there already. *)
Inserted(index, e) ==
    IF \E x \in index : x.first = e.first THEN index ELSE index \union {e}

(* A fault for extentlist_coalesce_extent: the extent above is overlooked. *)
CoalescedLesser(index, e) ==
    LET lesser == {x \in index : x.last = e.first - 1} IN
    IF lesser = {} THEN Inserted(index, e)
    ELSE Inserted(index \ lesser, Extent((CHOOSE x \in lesser : TRUE).first, e.last))

(* extentlist_coalesce_extent and the insertion that follows it: the extent
   below and the extent above are taken out and the union put in. *)
Coalesced(index, e) ==
    LET lesser  == {x \in index : x.last = e.first - 1}
        greater == {x \in index : x.first = e.last + 1}
        low  == IF lesser = {} THEN e.first ELSE (CHOOSE x \in lesser : TRUE).first
        high == IF greater = {} THEN e.last ELSE (CHOOSE x \in greater : TRUE).last
    IN Inserted(index \ (lesser \union greater), Extent(low, high))

(* A fault for extentlist_addextent: an extent counted without its last handle. *)
AddedShort(l, e) ==
    [index |-> Coalesced(l.index, e), num |-> l.num + (e.last - e.first)]

(* extentlist_addextent *)
Added(l, e) ==
    [index |-> Coalesced(l.index, e), num |-> l.num + (e.last - e.first + 1)]

(* extentlist_merge: the extents of src are added to dest one by one. *)
Merged(dest, src) ==
    LET AddTo(l, e) == Added(l, e) IN FoldSet(LAMBDA e, l : AddTo(l, e), dest, src.index)

EmptyList == [index |-> {}, num |-> 0]

(* extentlist_hit_cutoff with the threshold of trove_handle_ledger_set_threshold *)
Cutoff == (Cardinality(Handles) \div 4) + 1

HitCutoff(l) == l.num > Cutoff

(* avltree_extent_search_in_range, at an extent that meets the request: which
   handle of their common part is proposed. *)
Proposed(e, r) ==
    CASE r.first \in {e.first, e.last} -> r.first
      [] r.last \in {e.first, e.last} -> r.last
      [] r.first > e.first /\ r.last < e.last -> r.last
      [] r.first < e.first /\ r.last > e.last -> e.last
      [] r.first < e.first /\ r.last < e.last -> e.first
      [] OTHER -> e.last

Meets(e, r) == e.first <= r.last /\ r.first <= e.last

(* The search goes down the tree to the first extent that meets the request;
   which one that is depends on the shape of the tree. *)
Found(l, r) == {Proposed(e, r) : e \in {x \in l.index : Meets(x, r)}}

(* extentlist_get_and_dec_extent: the last handle of the highest extent.  When
   it was the only one of its extent num_handles stays as it is. *)
Highest(l) == CHOOSE e \in l.index : \A x \in l.index : x.first <= e.first

WithoutHighest(l) ==
    LET e == Highest(l) IN
    IF e.first = e.last
    THEN [l EXCEPT !.index = @ \ {e}]
    ELSE [index |-> (l.index \ {e}) \union {Extent(e.first, e.last - 1)}, num |-> l.num - 1]

(* extentlist_handle_remove: the extent is cut, num_handles stays. *)
Without(l, h) ==
    LET e == CHOOSE x \in l.index : h \in Members(x)
        rest == {x \in {Extent(e.first, h - 1), Extent(h + 1, e.last)} : x.first <= x.last}
    IN [l EXCEPT !.index = (@ \ {e}) \union rest]

-----------------------------------------------------------------------------
(* trove-ledger.c and trove-handle-mgmt.c *)

(* extentlist_endured_purgatory *)
Endured(st) == st.recent - st.over > Purgatory

(* A fault for handle_recycle: the recently freed list is not emptied. *)
RecycleKeeping(r, o) ==
    /\ free' = Merged(free, r)
    /\ recent' = r
    /\ over' = o
    /\ stamp' = [recent |-> stamp.over, over |-> now]

(* handle_recycle: the recently freed handles become free, the overflow list
   takes their place. *)
Recycle(r, o) ==
    /\ free' = Merged(free, r)
    /\ recent' = o
    /\ over' = EmptyList
    /\ stamp' = [recent |-> stamp.over, over |-> now]

(* trove_ledger_handle_free *)
Free(h) ==
    LET e == Extent(h, h)
        full == HitCutoff(recent)
        r  == IF full THEN recent ELSE Added(recent, e)
        o  == IF full THEN Added(over, e) ELSE over
        st == IF full THEN [stamp EXCEPT !.over = now] ELSE [stamp EXCEPT !.recent = now]
    IN IF free.num <= Cutoff /\ Endured(st)
       THEN Recycle(r, o)
       ELSE recent' = r /\ over' = o /\ stamp' = st /\ UNCHANGED free

(* trove_handle_alloc_from_range: the extents of the array are tried in order. *)
Allocatable(array) ==
    LET hits == {i \in 1 .. Len(array) : Found(free, array[i]) # {}} IN
    IF hits = {} THEN {}
    ELSE Found(free, array[CHOOSE i \in hits : \A j \in hits : i <= j])

-----------------------------------------------------------------------------
(* The dataspace operations of dbpf-dspace.c.  A thread is idle; or it is about
   to store the handle it was given, for a single creation or for a list; or
   about to take the next handle of a list; or it has deleted a record and has
   the handle to give back, for a removal or because it undoes a list. *)
Steps == {"idle", "store", "storeList", "nextOfList", "removed", "undo", "undone"}

Idle == [at |-> "idle", handle |-> 0, array |-> <<>>, left |-> 0, made |-> <<>>]

Holding == {"store", "storeList", "removed", "undone"}

Held == {worker[w].handle : w \in {v \in Workers : worker[v].at \in Holding}}

Becomes(w, j) == worker' = [worker EXCEPT ![w] = j]

(* A fault for trove_check_handle_ranges: the stored handles stay free. *)
MappedAll(used) == Merged(EmptyList, [index |-> Ranges])

(* trove_set_handle_ranges: the ranges are mapped into the free list and the
   handles of the stored dataspaces taken out; num_handles counts them all. *)
Mapped(used) ==
    FoldSet(LAMBDA h, l : Without(l, h), Merged(EmptyList, [index |-> Ranges]), used)

Init ==
    /\ stored = {}
    /\ free = Mapped({})
    /\ recent = EmptyList /\ over = EmptyList
    /\ now = 0
    /\ stamp = [recent |-> 0, over |-> 0]
    /\ worker = [w \in Workers |-> Idle]
    /\ lost = {}

(* dbpf_dspace_create_op_svc takes a handle out of the given ranges.  A single
   range of one handle is not searched: without the force flag the creation
   fails with ENOSPC. *)
Create(w, array) ==
    /\ worker[w].at = "idle"
    /\ ~ (Len(array) = 1 /\ array[1].first = array[1].last)
    /\ \E h \in Allocatable(array) :
          /\ free' = Without(free, h)
          /\ Becomes(w, [Idle EXCEPT !.at = "store", !.handle = h])
    /\ UNCHANGED <<recent, over, stamp, stored, lost, now>>

(* The caller does not care where the handle comes from (the range is
   TROVE_HANDLE_NULL): trove_handle_alloc.  An empty free list yields -1,
   which is not a handle of the collection: callers keep clear of it. *)
CreateAnywhere(w) ==
    /\ worker[w].at = "idle"
    /\ free.index # {}
    /\ free' = WithoutHighest(free)
    /\ Becomes(w, [Idle EXCEPT !.at = "store", !.handle = Highest(free).last])
    /\ UNCHANGED <<recent, over, stamp, stored, lost, now>>

(* A creation with TROVE_FORCE_REQUESTED_HANDLE: the handle is taken out of
   the free list.  mkspace asks so for a handle of a collection it has just
   made; trove_handle_set_used finds it. *)
CreateForced(w, h) ==
    /\ worker[w].at = "idle"
    /\ h \in Covered(free)
    /\ free' = Without(free, h)
    /\ Becomes(w, [Idle EXCEPT !.at = "store", !.handle = h])
    /\ UNCHANGED <<recent, over, stamp, stored, lost, now>>

(* dbpf_dspace_create_list_op_svc, from its loop: another handle is taken, or
   there is none and the operation ends with ENOSPC, what it has stored so
   far staying stored. *)
CreateList(w, array, count) ==
    /\ worker[w].at = "idle"
    /\ Becomes(w, [Idle EXCEPT !.at = "nextOfList", !.array = array, !.left = count])
    /\ UNCHANGED <<free, recent, over, stamp, stored, lost, now>>

NextOfList(w) ==
    /\ worker[w].at = "nextOfList"
    /\ \E h \in Allocatable(worker[w].array) :
          /\ free' = Without(free, h)
          /\ Becomes(w, [worker[w] EXCEPT !.at = "storeList", !.handle = h, !.left = @ - 1])
    /\ UNCHANGED <<recent, over, stamp, stored, lost, now>>

ListNoSpace(w) ==
    /\ worker[w].at = "nextOfList"
    /\ Allocatable(worker[w].array) = {}
    /\ Becomes(w, Idle)
    /\ UNCHANGED <<free, recent, over, stamp, stored, lost, now>>

(* dbpf_dspace_create_store_handle records the handle. *)
Store(w) ==
    /\ worker[w].at \in {"store", "storeList"}
    /\ worker[w].handle \notin stored
    /\ stored' = stored \union {worker[w].handle}
    /\ LET j == worker[w] IN
       Becomes(w, IF j.left = 0 THEN Idle
                  ELSE [j EXCEPT !.at = "nextOfList", !.handle = 0, !.made = Append(@, j.handle)])
    /\ UNCHANGED <<free, recent, over, stamp, lost, now>>

(* The record exists already or the database fails.  A single creation gives
   its handle back.  A list creation gives back what its array holds; the
   handle at hand is not in it yet. *)
StoreFails(w) ==
    /\ worker[w].at = "store"
    /\ Free(worker[w].handle)
    /\ Becomes(w, Idle)
    /\ UNCHANGED <<stored, lost, now>>

StoreListFails(w) ==
    /\ worker[w].at = "storeList"
    /\ lost' = lost \union {worker[w].handle}
    /\ Becomes(w, [Idle EXCEPT !.at = "undo", !.made = worker[w].made])
    /\ UNCHANGED <<free, recent, over, stamp, stored, now>>

(* A failed list creation deletes the records it has made, one by one, giving
   back the handle of each. *)
Undo(w) ==
    /\ worker[w].at = "undo"
    /\ LET made == worker[w].made IN
       IF made = <<>>
       THEN Becomes(w, Idle) /\ UNCHANGED stored
       ELSE /\ stored' = stored \ {Head(made)}
            /\ Becomes(w, [Idle EXCEPT !.at = "undone", !.handle = Head(made), !.made = Tail(made)])
    /\ UNCHANGED <<free, recent, over, stamp, lost, now>>

Undone(w) ==
    /\ worker[w].at = "undone"
    /\ Free(worker[w].handle)
    /\ Becomes(w, [Idle EXCEPT !.at = "undo", !.made = worker[w].made])
    /\ UNCHANGED <<stored, lost, now>>

(* The handles of a list creation in progress, which no caller knows yet. *)
Unannounced ==
    UNION {{worker[w].made[i] : i \in 1 .. Len(worker[w].made)} : w \in Workers}

(* remove_one_handle deletes the record ... *)
Remove(w, h) ==
    /\ worker[w].at = "idle"
    /\ h \in stored \ Unannounced
    /\ stored' = stored \ {h}
    /\ Becomes(w, [Idle EXCEPT !.at = "removed", !.handle = h])
    /\ UNCHANGED <<free, recent, over, stamp, lost, now>>

(* ... and, its attributes, bstream and keyval records gone, gives the handle
   back. *)
Removed(w) ==
    /\ worker[w].at = "removed"
    /\ Free(worker[w].handle)
    /\ Becomes(w, Idle)
    /\ UNCHANGED <<stored, lost, now>>

(* The keyval records cannot be removed: the operation ends with an error, the
   record deleted and the handle not given back. *)
RemoveFails(w) ==
    /\ worker[w].at = "removed"
    /\ lost' = lost \union {worker[w].handle}
    /\ Becomes(w, Idle)
    /\ UNCHANGED <<free, recent, over, stamp, stored, now>>

Tick ==
    /\ now < MaxTime
    /\ now' = now + 1
    /\ UNCHANGED <<free, recent, over, stamp, stored, worker, lost>>

(* The server stops and starts again: the ledger is built anew from the
   database. *)
Restart ==
    /\ free' = Mapped(stored)
    /\ recent' = EmptyList /\ over' = EmptyList
    /\ stamp' = [recent |-> now, over |-> now]
    /\ worker' = [w \in Workers |-> Idle]
    /\ lost' = {}
    /\ UNCHANGED <<stored, now>>

Next ==
    \/ \E w \in Workers :
         \/ \E array \in RangeArrays : Create(w, array)
         \/ CreateAnywhere(w)
         \/ \E h \in Handles : CreateForced(w, h)
         \/ \E array \in RangeArrays, count \in 1 .. MaxCount : CreateList(w, array, count)
         \/ NextOfList(w)
         \/ ListNoSpace(w)
         \/ Store(w)
         \/ StoreFails(w)
         \/ StoreListFails(w)
         \/ Undo(w)
         \/ Undone(w)
         \/ \E h \in stored : Remove(w, h)
         \/ Removed(w)
         \/ RemoveFails(w)
    \/ Tick
    \/ Restart

Spec == Init /\ [][Next]_vars

-----------------------------------------------------------------------------
Lists == {free, recent, over}

(* Type correctness: the lists hold extents of configured handles only, and
   no unsigned counter has wrapped. *)
TypeOK ==
    /\ \A l \in Lists : l.num \in Nat /\ l.index \subseteq Extents
    /\ stored \subseteq Handles
    /\ lost \subseteq Handles
    /\ now \in 0 .. MaxTime
    /\ stamp \in [recent : 0 .. MaxTime, over : 0 .. MaxTime]
    /\ \A w \in Workers : worker[w].at \in Steps

(* The extents of a list hold a handle at least, do not overlap, and do not
   even touch: two that touch would have been made one by
   extentlist_coalesce_extent.  The searches of the tree by first and by last
   are right only while this holds (trove-extentlist.c:190-196). *)
ExtentsApart ==
    \A l \in Lists : \A e, f \in l.index :
        /\ e.first <= e.last
        /\ e # f => e.last + 1 < f.first \/ f.last + 1 < e.first

(* A configured handle is in one place, whatever the order of splitting,
   joining and recycling: on one of the three lists, or held by one operation,
   or the handle of a stored dataspace; and none disappears but by the two
   error paths that are known to drop one (StoreListFails, RemoveFails). *)
OnePlace ==
    \A h \in Handles :
         Cardinality({k \in 1 .. 3 : h \in Covered(<<free, recent, over>>[k])})
           + Cardinality({w \in Workers : worker[w].at \in Holding /\ worker[w].handle = h})
           + (IF h \in stored THEN 1 ELSE 0)
           = IF h \in lost THEN 0 ELSE 1

(* The counters that decide when the overflow list is used and when recycling
   is considered: exact for the two lists of freed handles, and never below
   the truth for the free list, so that recycling does not start while more
   than the threshold is free. *)
CountsSafe ==
    /\ \A h \in Lists : h.num >= Cardinality(Covered(h))
    /\ recent.num = Cardinality(Covered(recent))
    /\ over.num = Cardinality(Covered(over))

(* The ledger with the dataspace operations on top of it implements the pool
   of handles of HandlePool. *)
Pool == INSTANCE HandlePool WITH
    Handle  <- Handles,
    avail   <- Covered(free),
    resting <- Covered(recent) \union Covered(over),
    taken   <- Held,
    named   <- stored,
    missing <- lost

ImplementsHandlePool == Pool!Spec

(* A handle does not become available by the very step that gives it back: it
   sits out the configured time first. *)
RestsFirst == [][Restart \/ \A h \in Held : h \notin Covered(free')]_vars
=============================================================================
