---------------------------- MODULE StripedFile -----------------------------
(***************************************************************************)
(* Reading, writing and truncating a striped file                          *)
(* (client/sysint/sys-io.sm, sys-small-io.sm, sys-truncate.sm, with the    *)
(* server's io.sm, small-io.sm and truncate.sm): the bytes of the file are *)
(* spread over its datafiles by the distribution, nothing but the sizes of *)
(* the datafiles says how long the file is, and each datafile is read and  *)
(* written on its own.                                                     *)
(*                                                                         *)
(* One client changes the file (writes and truncations, one at a time)     *)
(* while another reads it.  A request is a contiguous region of the file   *)
(* and of memory; the servers handle their parts in any order.  A byte is  *)
(* "data" (it was written), "zero", or in the reader's buffer "old": what  *)
(* the caller had there before.                                            *)
(***************************************************************************)
EXTENDS Distribution

CONSTANTS
    Files,          \* the distributions (see Distribution), each with the
                    \* number d.small of bytes that fit a small I/O message
    MaxSize,        \* bound: no byte at or past this offset
    Lengths,        \* the lengths of the regions read and written
    MaxChanges      \* bound: writes and truncations

ASSUME FileBounds ==
    /\ MaxSize \in Nat \ {0} /\ MaxChanges \in Nat
    /\ Lengths \subseteq 1..MaxSize

VARIABLES
    dist,           \* the file's distribution
    psize,          \* the size of each datafile's bstream
    data,           \* the physical offsets of each with written bytes
    size, written,  \* history: the file's size and its written bytes
    op,             \* the write or truncation under way
    rd,             \* the read under way
    changes         \* writes and truncations so far

vars == <<dist, psize, data, size, written, op, rd, changes>>

Bytes(off, len) == off..(off + len - 1)

(* No change, or no read, is under way.                                    *)
None == [kind |-> "none", phase |-> "none"]

Init ==
    /\ dist \in Files
    /\ psize = [s \in Servers(dist) |-> 0]
    /\ data = [s \in Servers(dist) |-> {}]
    /\ size = 0 /\ written = {}
    /\ op = None /\ rd = None
    /\ changes = 0

-----------------------------------------------------------------------------
(* io_find_target_datafiles: the datafiles with bytes of the region; it is *)
(* small I/O if every part fits a message.                                 *)

Part(s, off, len) == Pieces(dist, s, off, len, 0, TRUE)
Targets(off, len) == {s \in Servers(dist) : Part(s, off, len) # {}}
IsSmall(off, len) ==
    \A s \in Targets(off, len) : Length(Part(s, off, len)) <= dist.small

Logical(pieces) == UNION {Bytes(x.loff, x.size) : x \in pieces}
Physical(pieces) == UNION {Bytes(x.poff, x.size) : x \in pieces}

(* The file size of twod_stripe and varstrip is the sum of the datafiles', *)
(* which is right only for files without holes.                            *)
Sums == dist.kind \in {"twod", "varstrip"}

(* What a read under way may count on when the file is changed meanwhile.  *)
Meanwhile(low, high, sure, maybe) ==
    IF rd = None THEN None
    ELSE [rd EXCEPT !.low = Min({@, low}), !.high = Max({@, high}),
                    !.sure = @ \cap sure, !.maybe = @ \cup maybe,
                    !.calm = FALSE]

-----------------------------------------------------------------------------
(* Writes.                                                                 *)

WriteStart(off, len) ==
    /\ op = None /\ changes < MaxChanges
    /\ off + len <= MaxSize
    /\ Sums => off <= size
    /\ op' = [kind |-> "write", off |-> off, len |-> len,
              todo |-> Targets(off, len)]
    /\ changes' = changes + 1
    /\ rd' = Meanwhile(size, Max({size, off + len}), 0..(MaxSize - 1),
                       Bytes(off, len))
    /\ UNCHANGED <<dist, psize, data, size, written>>

(* One server's part: the flow, or the small write, extends the bstream.   *)
WriteServer(s) ==
    /\ op # None /\ op.kind = "write" /\ s \in op.todo
    /\ LET p == Pieces(dist, s, op.off, op.len, psize[s], TRUE)
       IN  /\ data' = [data EXCEPT ![s] = @ \cup Physical(p)]
           /\ psize' = [psize EXCEPT
                            ![s] = Max({@} \cup {x.poff + x.size : x \in p})]
    /\ op' = [op EXCEPT !.todo = @ \ {s}]
    /\ UNCHANGED <<dist, size, written, rd, changes>>

WriteDone ==
    /\ op # None /\ op.kind = "write" /\ op.todo = {}
    /\ size' = Max({size, op.off + op.len})
    /\ written' = written \cup Bytes(op.off, op.len)
    /\ op' = None
    /\ UNCHANGED <<dist, psize, data, rd, changes>>

-----------------------------------------------------------------------------
(* Truncations: every datafile is cut, or extended, to the physical offset *)
(* of the new size.  varstrip does not know that offset for the datafiles  *)
(* that do not hold it: its files are left out.                            *)

TruncateStart(z) ==
    /\ op = None /\ changes < MaxChanges
    /\ dist.kind # "varstrip"
    /\ op' = [kind |-> "truncate", to |-> z, todo |-> Servers(dist)]
    /\ changes' = changes + 1
    /\ rd' = Meanwhile(0, Max({size, z}), 0..(z - 1), {})
    /\ UNCHANGED <<dist, psize, data, size, written>>

(* A fault: the datafiles share the size evenly.                           *)
NewSizeEven(d, s, z) == (z + d.ct - 1) \div d.ct

NewSize(d, s, z) == L2P(d, s, z)

TruncateServer(s) ==
    /\ op # None /\ op.kind = "truncate" /\ s \in op.todo
    /\ LET p == NewSize(dist, s, op.to)
       IN  /\ psize' = [psize EXCEPT ![s] = p]
           /\ data' = [data EXCEPT ![s] = @ \cap 0..(p - 1)]
    /\ op' = [op EXCEPT !.todo = @ \ {s}]
    /\ UNCHANGED <<dist, size, written, rd, changes>>

TruncateDone ==
    /\ op # None /\ op.kind = "truncate" /\ op.todo = {}
    /\ size' = op.to
    /\ written' = written \cap 0..(op.to - 1)
    /\ op' = None
    /\ UNCHANGED <<dist, psize, data, rd, changes>>

-----------------------------------------------------------------------------
(* Reads.  rd.index holds the datafiles of datafile_index_array, which are *)
(* in it in their order, rd.sizes is dfile_size_array (from calloc) and    *)
(* rd.all the size_array of a getattr.                                     *)

(* History: the sizes the file may show while a change is under way.  A    *)
(* truncation cuts one datafile after the other: if the one that holds the *)
(* new end of the file is a hole that is yet to be extended, the file is   *)
(* shorter for a while than it was and than it will be.                    *)
LowSize == IF op # None /\ op.kind = "truncate" THEN 0 ELSE size
HighSize ==
    IF op = None THEN size
    ELSE Max({size, IF op.kind = "write" THEN op.off + op.len ELSE op.to})

ReadStart(off, len) ==
    /\ rd = None
    /\ off + len <= MaxSize
    /\ rd' = [phase |-> "io", off |-> off, len |-> len,
              small |-> IsSmall(off, len),
              index |-> Targets(off, len),
              todo |-> Targets(off, len),
              buf |-> [l \in Bytes(off, len) |-> "old"],
              sizes |-> [s \in Servers(dist) |-> 0],
              all |-> [s \in Servers(dist) |-> 0],
              total |-> 0, completed |-> 0,
              low |-> LowSize,
              high |-> HighSize,
              sure |-> IF op # None /\ op.kind = "truncate"
                       THEN written \cap 0..(op.to - 1) ELSE written,
              maybe |-> IF op # None /\ op.kind = "write"
                        THEN written \cup Bytes(op.off, op.len) ELSE written,
              calm |-> op = None]
    /\ UNCHANGED <<dist, psize, data, size, written, op, changes>>

(* One server's part, up to the end of its bstream; the size of the        *)
(* bstream comes with it.  A large read keeps the size under the number of *)
(* its context, a small one under the number of the datafile.              *)
Place(s) == Cardinality({t \in rd.index : t < s})
Slot(s) == IF rd.small THEN s ELSE Place(s)

ReadServer(s) ==
    /\ rd # None /\ rd.phase = "io" /\ s \in rd.todo
    /\ LET p == Pieces(dist, s, rd.off, rd.len, psize[s], FALSE)
           byte(x, l) == IF x.poff + (l - x.loff) \in data[s]
                         THEN "data" ELSE "zero"
       IN  rd' = [rd EXCEPT
                     !.todo = @ \ {s},
                     !.sizes[Slot(s)] = psize[s],
                     !.total = @ + Length(p),
                     !.buf = [l \in DOMAIN @ |->
                                 IF l \in Logical(p)
                                 THEN byte(CHOOSE x \in p :
                                             l \in Bytes(x.loff, x.size), l)
                                 ELSE @[l]]]
    /\ UNCHANGED <<dist, psize, data, size, written, op, changes>>

(* io_zero_fill_holes for one datafile of which actual bytes exist: the    *)
(* bytes of the region between its end and that of the file.               *)
(* A fault: everything the datafile has of the region.                     *)
HolesAll(d, s, actual, eof, off, len) ==
    LET real == L2P(d, s, eof)
    IN  IF actual >= real THEN {}
        ELSE Logical(Pieces(d, s, off, len, 0, TRUE))
                 \cap 0..(P2L(d, s, real) - 1)

Holes(d, s, actual, eof, off, len) ==
    LET real == L2P(d, s, eof)
    IN  IF actual >= real THEN {}
        ELSE Logical(Pieces(d, s, off, len, 0, TRUE))
                 \cap P2L(d, s, actual)..(P2L(d, s, real) - 1)

Filled(holes) ==
    [l \in DOMAIN rd.buf |-> IF l \in holes THEN "zero" ELSE rd.buf[l]]

(* io_find_total_size.                                                     *)
TotalSize(off, final) == Max({0, final - off})

(* Every datafile i with sizes[i], when the sizes of all are known.        *)
AllHoles(sizes, eof) ==
    UNION {Holes(dist, i, sizes[i], eof, rd.off, rd.len) : i \in Servers(dist)}

(* The datafiles read, each with the size at its place in the index array. *)
IndexHoles(sizes, eof) ==
    UNION {Holes(dist, s, sizes[Place(s)], eof, rd.off, rd.len) :
              s \in rd.index}

(* io_analyze_results.                                                     *)
Analyze ==
    /\ rd # None /\ rd.phase = "io" /\ rd.todo = {}
    /\ LET eor == rd.off + rd.len
           top == FileSize(dist, rd.sizes)
       IN  \/ /\ rd.total = rd.len
              /\ rd' = [rd EXCEPT !.phase = "done", !.completed = rd.len]
           \/ /\ rd.total # rd.len /\ top > eor
              /\ rd' = [rd EXCEPT !.phase = "done", !.completed = rd.len,
                                  !.buf = Filled(IndexHoles(rd.sizes, top))]
           \/ /\ rd.total # rd.len /\ top <= eor
              /\ Cardinality(rd.index) = dist.ct
              /\ rd' = [rd EXCEPT !.phase = "done",
                                  !.completed = TotalSize(rd.off, top),
                                  !.buf = Filled(AllHoles(rd.sizes, eor))]
           \/ /\ rd.total # rd.len /\ top <= eor
              /\ Cardinality(rd.index) # dist.ct
              /\ rd' = [rd EXCEPT !.phase = "sizes", !.todo = Servers(dist)]
    /\ UNCHANGED <<dist, psize, data, size, written, op, changes>>

(* getattr_datafile_sizes: the sizes of all datafiles, asked for again.    *)
GetSize(s) ==
    /\ rd # None /\ rd.phase = "sizes" /\ s \in rd.todo
    /\ rd' = [rd EXCEPT !.todo = @ \ {s}, !.all[s] = psize[s]]
    /\ UNCHANGED <<dist, psize, data, size, written, op, changes>>

(* io_analyze_size_results.                                                *)
AnalyzeSize ==
    /\ rd # None /\ rd.phase = "sizes" /\ rd.todo = {}
    /\ LET eor == rd.off + rd.len
           eof == FileSize(dist, rd.all)
       IN  rd' = [rd EXCEPT
                     !.phase = "done",
                     !.completed = IF eof > eor THEN rd.len
                                   ELSE TotalSize(rd.off, eof),
                     !.buf = Filled(AllHoles(rd.all, eof))]
    /\ UNCHANGED <<dist, psize, data, size, written, op, changes>>

ReadReturn ==
    /\ rd # None /\ rd.phase = "done"
    /\ rd' = None
    /\ UNCHANGED <<dist, psize, data, size, written, op, changes>>

-----------------------------------------------------------------------------
Offsets == 0..(MaxSize - 1)

Next ==
    \/ \E off \in Offsets, len \in Lengths : WriteStart(off, len)
    \/ \E s \in Servers(dist) : WriteServer(s)
    \/ WriteDone
    \/ \E z \in 0..MaxSize : TruncateStart(z)
    \/ \E s \in Servers(dist) : TruncateServer(s)
    \/ TruncateDone
    \/ \E off \in Offsets, len \in Lengths : ReadStart(off, len)
    \/ \E s \in Servers(dist) : ReadServer(s)
    \/ Analyze
    \/ \E s \in Servers(dist) : GetSize(s)
    \/ AnalyzeSize
    \/ ReadReturn

Spec == Init /\ [][Next]_vars

-----------------------------------------------------------------------------
(* Type correctness.                                                       *)
TypeOK ==
    /\ dist \in Files
    /\ psize \in [Servers(dist) -> 0..MaxSize]
    /\ data \in [Servers(dist) -> SUBSET Offsets]
    /\ size \in 0..MaxSize /\ written \subseteq Offsets
    /\ changes \in 0..MaxChanges
    /\ op # None => op.todo \subseteq Servers(dist)
    /\ rd # None =>
          /\ rd.phase \in {"io", "sizes", "done"}
          /\ rd.todo \subseteq Servers(dist)
          /\ rd.total \in 0..rd.len /\ rd.completed \in 0..rd.len
          /\ rd.sizes \in [Servers(dist) -> 0..MaxSize]
          /\ rd.all \in [Servers(dist) -> 0..MaxSize]
          /\ rd.buf \in [Bytes(rd.off, rd.len) -> {"old", "data", "zero"}]

(* The size of the file is computed from its datafiles (logical_file_size, *)
(* used by getattr and by every short read): when no change is under way   *)
(* it is the size the writes and truncations have made, and while one is,  *)
(* with some datafiles changed and others not, it is at most the larger of *)
(* the sizes before and after, and during a write at least the size before.*)
SizeBetween ==
    FileSize(dist, psize) \in LowSize..HighSize

(* The written bytes of the file are those on its datafiles, each in one   *)
(* place: the client's and the servers' use of the distribution agree on   *)
(* where a byte is, whatever was written or truncated before.              *)
DataInPlace ==
    op = None =>
        /\ UNION {{P2L(dist, s, p) : p \in data[s]} : s \in Servers(dist)}
               = written
        /\ MapThenSumSet(LAMBDA s : Cardinality(data[s]), Servers(dist))
               = Cardinality(written)
        /\ \A s \in Servers(dist) : \A p \in data[s] : p < psize[s]

(* What a read returns: the bytes up to the end of the file, or of the     *)
(* region if that comes first, the sizes before and after a concurrent     *)
(* change both being right; every byte that was there throughout is data,  *)
(* no byte is that nobody wrote, and the holes are zero: nothing of what   *)
(* the buffer held before is passed off as the file's (when nothing is     *)
(* changed during the read: a byte that a change adds after its datafile   *)
(* was read and before the sizes are fetched stays as it was).             *)
Expected(z) == Min({rd.len, TotalSize(rd.off, z)})

ReadRight ==
    rd # None /\ rd.phase = "done" =>
        /\ rd.completed \in Expected(rd.low)..Expected(rd.high)
        /\ \A l \in Bytes(rd.off, rd.completed) :
              /\ l \in rd.sure => rd.buf[l] = "data"
              /\ rd.buf[l] = "data" => l \in rd.maybe
              /\ rd.calm => rd.buf[l] # "old"
=============================================================================
