--------------------------- MODULE OpenCacheProofs ---------------------------
(***************************************************************************)
(* Proofs about OpenCache: for any number of entries, users, descriptors   *)
(* and handles, references are counted, descriptors have one owner, and a  *)
(* cached descriptor is one of the current file of its handle.             *)
(***************************************************************************)
EXTENDS OpenCache, FunctionTheorems, FiniteSetTheorems, WellFoundedInduction, TLAPS

-----------------------------------------------------------------------------
(* The lists.                                                              *)

\* No element is on a list twice.
Distinct(list) == \A i, j \in 1 .. Len(list) : list[i] = list[j] => i = j

\* What RemoveAt leaves behind.
LEMMA RemovedFacts ==
  ASSUME NEW S, NEW l \in Seq(S), NEW k \in DOMAIN l
  PROVE  /\ RemoveAt(l, k) \in Seq(S)
         /\ Len(RemoveAt(l, k)) = Len(l) - 1
         /\ \A i \in 1 .. Len(l) - 1 :
              RemoveAt(l, k)[i] = IF i < k THEN l[i] ELSE l[i + 1]
<1> DEFINE a == SubSeq(l, 1, k - 1)
           b == SubSeq(l, k + 1, Len(l))
           c == a \o b
<1>1. k \in 1 .. Len(l) /\ Len(l) \in Nat
  OBVIOUS
<1>2. a \in Seq(S) /\ Len(a) = k - 1 /\ \A i \in 1 .. k - 1 : a[i] = l[i]
  BY <1>1
<1>3. b \in Seq(S) /\ Len(b) = Len(l) - k /\ \A i \in 1 .. Len(l) - k : b[i] = l[i + k]
  BY <1>1
<1>4. RemoveAt(l, k) = c
  BY DEF RemoveAt
<1> HIDE DEF a, b
<1>5. /\ c \in Seq(S) /\ Len(c) = Len(a) + Len(b)
      /\ \A i \in 1 .. Len(a) + Len(b) : c[i] = IF i <= Len(a) THEN a[i] ELSE b[i - Len(a)]
  BY <1>2, <1>3
<1> HIDE DEF c
<1>6. ASSUME NEW i \in 1 .. Len(l) - 1
      PROVE  c[i] = IF i < k THEN l[i] ELSE l[i + 1]
  <2>1. i \in 1 .. Len(a) + Len(b)
    BY <1>1, <1>2, <1>3
  <2>2. c[i] = IF i <= k - 1 THEN a[i] ELSE b[i - (k - 1)]
    <3>1. c[i] = IF i <= Len(a) THEN a[i] ELSE b[i - Len(a)]
      BY <1>5, <2>1
    <3>2. QED
      BY <1>2, <3>1
  <2>3. CASE i < k
    BY <1>1, <1>2, <2>2, <2>3
  <2>4. CASE ~ (i < k)
    <3>1. i - (k - 1) \in 1 .. Len(l) - k /\ ~ (i <= k - 1)
      BY <1>1, <2>4
    <3>2. b[i - (k - 1)] = l[(i - (k - 1)) + k] /\ (i - (k - 1)) + k = i + 1
      BY <1>1, <1>3, <3>1
    <3>3. QED
      BY <2>2, <2>4, <3>1, <3>2
  <2>5. QED
    BY <2>3, <2>4
<1>7. QED
  BY <1>1, <1>2, <1>3, <1>4, <1>5, <1>6

\* qlist_del takes exactly its element off a list.
LEMMA DroppedFacts ==
  ASSUME NEW S, NEW l \in Seq(S), Distinct(l), NEW s
  PROVE  /\ Dropped(l, s) \in Seq(S) /\ Distinct(Dropped(l, s))
         /\ \A t : Contains(Dropped(l, s), t) <=> Contains(l, t) /\ t # s
<1>1. CASE ~ Contains(l, s)
  <2>1. \A t : Contains(l, t) => t # s
    BY <1>1
  <2>2. QED
    BY <1>1, <2>1 DEF Dropped
<1>2. CASE Contains(l, s)
  <2> DEFINE k == CHOOSE i \in DOMAIN l : l[i] = s
             r == RemoveAt(l, k)
  <2>1. k \in DOMAIN l /\ l[k] = s
    BY <1>2 DEF Contains
  <2>2. Dropped(l, s) = r
    BY <1>2 DEF Dropped
  <2> HIDE DEF k
  <2>3. /\ r \in Seq(S) /\ Len(r) = Len(l) - 1
        /\ \A i \in 1 .. Len(l) - 1 : r[i] = IF i < k THEN l[i] ELSE l[i + 1]
    BY <2>1, RemovedFacts
  <2> HIDE DEF r
  <2>4. k \in 1 .. Len(l) /\ Len(l) \in Nat
    BY <2>1
  <2>5. Distinct(r)
    <3> SUFFICES ASSUME NEW i \in 1 .. Len(r), NEW j \in 1 .. Len(r), r[i] = r[j]
                 PROVE  i = j
      BY DEF Distinct
    <3>1. i \in 1 .. Len(l) - 1 /\ j \in 1 .. Len(l) - 1 /\ i \in 1 .. Len(l) /\ j \in 1 .. Len(l)
          /\ i + 1 \in 1 .. Len(l) /\ j + 1 \in 1 .. Len(l)
      BY <2>3, <2>4
    <3>2. /\ r[i] = IF i < k THEN l[i] ELSE l[i + 1]
          /\ r[j] = IF j < k THEN l[j] ELSE l[j + 1]
      BY <2>3, <3>1
    <3>3. CASE i < k /\ j < k
      BY <3>1, <3>2, <3>3 DEF Distinct
    <3>4. CASE i < k /\ ~ (j < k)
      <4>1. i = j + 1
        BY <3>1, <3>2, <3>4 DEF Distinct
      <4>2. QED
        BY <2>4, <3>1, <3>4, <4>1
    <3>5. CASE ~ (i < k) /\ j < k
      <4>1. i + 1 = j
        BY <3>1, <3>2, <3>5 DEF Distinct
      <4>2. QED
        BY <2>4, <3>1, <3>5, <4>1
    <3>6. CASE ~ (i < k) /\ ~ (j < k)
      <4>1. i + 1 = j + 1
        BY <3>1, <3>2, <3>6 DEF Distinct
      <4>2. QED
        BY <3>1, <4>1
    <3>7. QED
      BY <3>3, <3>4, <3>5, <3>6
  <2>6. ASSUME NEW t PROVE Contains(r, t) <=> Contains(l, t) /\ t # s
    <3>1. ASSUME Contains(r, t) PROVE Contains(l, t) /\ t # s
      <4>1. PICK i \in 1 .. Len(r) : r[i] = t
        BY <3>1 DEF Contains
      <4>2. i \in 1 .. Len(l) - 1 /\ i \in 1 .. Len(l) /\ i + 1 \in 1 .. Len(l)
        BY <2>3, <2>4
      <4>3. r[i] = IF i < k THEN l[i] ELSE l[i + 1]
        BY <2>3, <4>2
      <4>4. CASE i < k
        BY <2>1, <2>4, <4>1, <4>2, <4>3, <4>4 DEF Contains, Distinct
      <4>5. CASE ~ (i < k)
        <5>1. i + 1 # k
          BY <2>4, <4>2, <4>5
        <5>2. QED
          BY <2>1, <2>4, <4>1, <4>2, <4>3, <4>5, <5>1 DEF Contains, Distinct
      <4>6. QED
        BY <4>4, <4>5
    <3>2. ASSUME Contains(l, t), t # s PROVE Contains(r, t)
      <4>1. PICK i \in 1 .. Len(l) : l[i] = t
        BY <3>2 DEF Contains
      <4>2. i # k
        BY <2>1, <3>2, <4>1
      <4>3. CASE i < k
        <5>1. i \in 1 .. Len(l) - 1
          BY <2>4, <4>3
        <5>2. i \in 1 .. Len(r) /\ r[i] = t
          BY <2>3, <4>1, <4>3, <5>1
        <5>3. QED
          BY <5>2 DEF Contains
      <4>4. CASE i > k
        <5>1. i - 1 \in 1 .. Len(l) - 1 /\ ~ (i - 1 < k) /\ (i - 1) + 1 = i
          BY <2>4, <4>4
        <5>2. i - 1 \in 1 .. Len(r) /\ r[i - 1] = l[(i - 1) + 1]
          BY <2>3, <5>1
        <5>3. QED
          BY <4>1, <5>1, <5>2 DEF Contains
      <4>5. QED
        BY <2>4, <4>2, <4>3, <4>4
    <3>3. QED
      BY <3>1, <3>2
  <2>7. QED
    BY <2>2, <2>3, <2>5, <2>6
<1>3. QED
  BY <1>1, <1>2

\* qlist_add puts an element at the head of a list it is not on.
LEMMA AddedFacts ==
  ASSUME NEW S, NEW l \in Seq(S), Distinct(l), NEW s \in S, ~ Contains(l, s)
  PROVE  /\ <<s>> \o l \in Seq(S) /\ Distinct(<<s>> \o l)
         /\ \A t : Contains(<<s>> \o l, t) <=> t = s \/ Contains(l, t)
<1> DEFINE c == <<s>> \o l
<1>1. /\ c \in Seq(S) /\ Len(c) = Len(l) + 1 /\ Len(l) \in Nat /\ c[1] = s
      /\ \A i \in 2 .. Len(l) + 1 : c[i] = l[i - 1]
  OBVIOUS
<1> HIDE DEF c
<1>2. ASSUME NEW i \in 1 .. Len(c), i # 1
      PROVE  c[i] = l[i - 1] /\ i - 1 \in 1 .. Len(l)
  BY <1>1, <1>2
<1>3. ASSUME NEW i \in 1 .. Len(l) PROVE c[i + 1] = l[i] /\ i + 1 \in 1 .. Len(c)
  <2>1. i + 1 \in 2 .. Len(l) + 1 /\ (i + 1) - 1 = i
    BY <1>1
  <2>2. QED
    BY <1>1, <2>1
<1>4. Distinct(c)
  <2> SUFFICES ASSUME NEW i \in 1 .. Len(c), NEW j \in 1 .. Len(c), c[i] = c[j] PROVE i = j
    BY DEF Distinct
  <2>1. CASE i = 1 \/ j = 1
    BY <1>1, <1>2, <2>1 DEF Contains
  <2>2. CASE i # 1 /\ j # 1
    <3>1. i - 1 = j - 1
      BY <1>2, <2>2 DEF Distinct
    <3>2. QED
      BY <1>1, <3>1
  <2>3. QED
    BY <2>1, <2>2
<1>5. ASSUME NEW t PROVE Contains(c, t) <=> t = s \/ Contains(l, t)
  <2>1. ASSUME Contains(c, t) PROVE t = s \/ Contains(l, t)
    BY <1>1, <1>2, <2>1 DEF Contains
  <2>2. ASSUME t = s PROVE Contains(c, t)
    BY <1>1, <2>2 DEF Contains
  <2>3. ASSUME Contains(l, t) PROVE Contains(c, t)
    <3>1. PICK i \in 1 .. Len(l) : l[i] = t
      BY <2>3 DEF Contains
    <3>2. QED
      BY <1>3, <3>1 DEF Contains
  <2>4. QED
    BY <2>1, <2>2, <2>3
<1>6. QED
  BY <1>1, <1>4, <1>5 DEF c

\* qlist_add_tail puts it at the end.
LEMMA AppendedFacts ==
  ASSUME NEW S, NEW l \in Seq(S), Distinct(l), NEW s \in S, ~ Contains(l, s)
  PROVE  /\ Append(l, s) \in Seq(S) /\ Distinct(Append(l, s))
         /\ \A t : Contains(Append(l, s), t) <=> t = s \/ Contains(l, t)
<1> DEFINE c == Append(l, s)
<1>1. /\ c \in Seq(S) /\ Len(c) = Len(l) + 1 /\ Len(l) \in Nat /\ c[Len(l) + 1] = s
      /\ \A i \in 1 .. Len(l) : c[i] = l[i]
  OBVIOUS
<1> HIDE DEF c
<1>2. \A i \in 1 .. Len(c) : i = Len(l) + 1 \/ i \in 1 .. Len(l)
  BY <1>1
<1>3. Distinct(c)
  <2> SUFFICES ASSUME NEW i \in 1 .. Len(c), NEW j \in 1 .. Len(c), c[i] = c[j] PROVE i = j
    BY DEF Distinct
  <2>1. QED
    BY <1>1, <1>2 DEF Distinct, Contains
<1>4. ASSUME NEW t PROVE Contains(c, t) <=> t = s \/ Contains(l, t)
  <2>1. ASSUME Contains(c, t) PROVE t = s \/ Contains(l, t)
    BY <1>1, <1>2, <2>1 DEF Contains
  <2>2. ASSUME t = s PROVE Contains(c, t)
    BY <1>1, <2>2 DEF Contains
  <2>3. ASSUME Contains(l, t) PROVE Contains(c, t)
    <3>1. PICK i \in 1 .. Len(l) : l[i] = t
      BY <2>3 DEF Contains
    <3>2. i \in 1 .. Len(c) /\ c[i] = t
      BY <1>1, <3>1
    <3>3. QED
      BY <3>2 DEF Contains
  <2>4. QED
    BY <2>1, <2>2, <2>3
<1>5. QED
  BY <1>1, <1>3, <1>4 DEF c

\* The head of a list is on it.
LEMMA HeadFacts ==
  ASSUME NEW S, NEW l \in Seq(S), l # <<>>
  PROVE  Head(l) \in S /\ Contains(l, Head(l))
BY DEF Contains

\* An empty list holds nothing.
LEMMA EmptyFacts ==
  ASSUME NEW S
  PROVE  <<>> \in Seq(S) /\ Distinct(<<>>) /\ \A t : ~ Contains(<<>>, t)
BY DEF Distinct, Contains

\* The list of a finite set: dbpf_open_cache_initialize puts every entry on the
\* free list.
LEMMA SetToSeqFacts ==
  ASSUME NEW S, IsFiniteSet(S)
  PROVE  /\ SetToSeq(S) \in Seq(S) /\ Distinct(SetToSeq(S))
         /\ \A t \in S : Contains(SetToSeq(S), t)
<1> DEFINE n == Cardinality(S)
           q == SetToSeq(S)
<1>1. n \in Nat /\ \E f \in [1 .. n -> S] : IsInjective(f)
  <2>1. n \in Nat /\ \E f : f \in Bijection(1 .. n, S)
    BY FS_CardinalityType DEF ExistsBijection
  <2>2. PICK f : f \in Bijection(1 .. n, S)
    BY <2>1
  <2>3. f \in [1 .. n -> S] /\ \A a, b \in 1 .. n : f[a] = f[b] => a = b
    BY <2>2, Fun_IsBij DEF Bijection, Injection, IsInjective
  <2>4. QED
    BY <2>1, <2>3 DEF IsInjective
<1>2. q \in [1 .. n -> S] /\ IsInjective(q)
  BY <1>1 DEF SetToSeq
<1> HIDE DEF q
<1>3. q \in Seq(S) /\ Len(q) = n
  BY <1>1, <1>2
<1>4. Distinct(q)
  BY <1>2, <1>3 DEF Distinct, IsInjective
<1>5. q \in Surjection(1 .. n, S)
  <2>1. q \in Injection(1 .. n, S)
    BY <1>2 DEF Injection, IsInjective
  <2>2. Cardinality(1 .. n) = n
    BY <1>1, FS_Interval
  <2> HIDE DEF n
  <2>3. QED
    BY <2>1, <2>2, FS_Injection DEF n
<1>6. \A t \in S : \E i \in 1 .. n : q[i] = t
  BY <1>5 DEF Surjection
<1>7. QED
  BY <1>3, <1>4, <1>6 DEF Contains, q

-----------------------------------------------------------------------------
(* Descriptors and the files they refer to.                                *)

\* What a descriptor may refer to.
Files == {Closed} \union {Current(h) : h \in Handles} \union {Former(h) : h \in Handles}

\* The files are told apart.
LEMMA FilesDiffer ==
  /\ \A h : Current(h) # Closed /\ Former(h) # Closed
  /\ \A g, h : (Current(g) = Current(h) => g = h) /\ Current(g) # Former(h)
BY DEF Current, Former, Closed

\* close makes its descriptor, and no other, available again.
LEMMA AfterCloseFacts ==
  ASSUME NEW table \in [Descriptors -> Files], NEW d \in 0 .. MaxFd
  PROVE  /\ AfterClose(table, d) \in [Descriptors -> Files]
         /\ \A c \in Descriptors :
               AfterClose(table, d)[c] = IF c = d THEN Closed ELSE table[c]
<1>1. d = NoFd => d \notin Descriptors
  BY DEF NoFd, Descriptors
<1>2. d # NoFd => d \in Descriptors
  BY CacheAssumption DEF NoFd, Descriptors
<1>3. Closed \in Files
  BY DEF Files
<1>4. QED
  BY <1>1, <1>2, <1>3 DEF AfterClose

\* open takes a descriptor that is not in use.
LEMMA LeastFacts ==
  ASSUME NEW table, ClosedFds(table) # {}
  PROVE  /\ Least(ClosedFds(table)) \in Descriptors
         /\ table[Least(ClosedFds(table))] = Closed
<1> DEFINE S == ClosedFds(table)
<1>1. S \in SUBSET Nat /\ S # {} /\ \A d \in S : d \in Descriptors /\ table[d] = Closed
  BY CacheAssumption DEF ClosedFds, Descriptors
<1> HIDE DEF S
<1>2. PICK x \in S : \A y \in S : ~ (<<y, x>> \in OpToRel(<, Nat))
  BY <1>1, NatLessThanWellFounded, WFMin
<1>3. \A y \in S : <<y, x>> \in OpToRel(<, Nat) <=> y < x
  BY <1>1 DEF OpToRel
<1>4. \A y \in S : ~ (y < x)
  BY <1>2, <1>3, Zenon
<1>5. \E z \in S : \A y \in S : z <= y
  BY <1>1, <1>4
<1>6. Least(S) \in S
  BY <1>5 DEF Least
<1>7. QED
  BY <1>1, <1>6 DEF S

\* The descriptors after the file of h was renamed.
Renamed(table, h) ==
    [d \in Descriptors |-> IF table[d] = Current(h) THEN Former(h) ELSE table[d]]

\* Renaming opens and closes nothing, and concerns one handle.
LEMMA RenamedFacts ==
  ASSUME NEW table \in [Descriptors -> Files], NEW h \in Handles
  PROVE  /\ Renamed(table, h) \in [Descriptors -> Files]
         /\ \A d \in Descriptors :
               /\ Renamed(table, h)[d] = Closed <=> table[d] = Closed
               /\ \A g : g # h /\ table[d] = Current(g) => Renamed(table, h)[d] = Current(g)
<1>1. Former(h) \in Files
  BY DEF Files
<1> DEFINE r == Renamed(table, h)
<1>2. \A d \in Descriptors : r[d] = IF table[d] = Current(h) THEN Former(h) ELSE table[d]
  BY DEF Renamed
<1>3. r \in [Descriptors -> Files]
  BY <1>1 DEF Renamed
<1> HIDE DEF r
<1>4. QED
  BY <1>2, <1>3, FilesDiffer DEF r

-----------------------------------------------------------------------------
(* The inductive invariant.                                                *)

\* What the entries hold, and the users.
Entries == [handle : Handles \union {NoSlot}, fd : 0 .. MaxFd,
            ref : 0 .. Cardinality(Users), flag : BOOLEAN]

Refs == [slot : Slots \union {NoSlot}, handle : Handles \union {NoSlot}, fd : 0 .. MaxFd]

\* Types.  Every list holds entries, the unlink thread's holds handles.
CacheTypes ==
    /\ entry \in [Slots -> Entries]
    /\ used \in Seq(Slots) /\ unused \in Seq(Slots) /\ unfilled \in Seq(Slots)
    /\ held \in [Users -> Refs]
    /\ fds \in [Descriptors -> Files]
    /\ data \subseteq Handles /\ stranded \subseteq Handles /\ exists \subseteq Handles
    /\ toUnlink \in Seq(Handles)
    /\ unlinker \in {"run", "wait"} \union Handles

\* An entry is on one of the three lists, once.
ListsSound ==
    /\ Distinct(used) /\ Distinct(unused) /\ Distinct(unfilled)
    /\ \A s \in Slots : /\ Contains(unfilled, s) <=> ~ InLists(s)
                        /\ ~ (Contains(used, s) /\ Contains(unused, s))

\* The users with a reference to an entry.
Busy(refs, s) == {u \in Users : refs[u].slot = s}

\* ref_ct counts them, and an entry is in use as long as there is one.
Counted ==
    \A s \in Slots : /\ Contains(used, s) <=> Busy(held, s) # {}
                     /\ InLists(s) => entry[s].ref = Cardinality(Busy(held, s))

\* The user has a reference that is not cached.
Loose(u) == held[u].slot = NoSlot /\ held[u].fd # NoFd

\* What an entry on a list and an uncached reference have is theirs alone, and
\* every open descriptor is one of those.
FdsSound ==
    /\ \A s \in Slots : IF InLists(s) THEN entry[s].fd \in Descriptors /\ fds[entry[s].fd] # Closed
                                       ELSE entry[s].fd = NoFd
    /\ \A u \in Users : Loose(u) => fds[held[u].fd] # Closed
    /\ \A s, t \in Slots : InLists(s) /\ InLists(t) /\ entry[s].fd = entry[t].fd => s = t
    /\ \A s \in Slots, u \in Users : InLists(s) /\ Loose(u) => entry[s].fd # held[u].fd
    /\ \A u, v \in Users : Loose(u) /\ Loose(v) /\ held[u].fd = held[v].fd => u = v
    /\ \A d \in Descriptors : fds[d] # Closed =>
          \/ \E s \in Slots : InLists(s) /\ entry[s].fd = d
          \/ \E u \in Users : Loose(u) /\ held[u].fd = d

\* A handle has one entry.  One that no removal has flagged is of a dataspace
\* that exists, and its descriptor is of the bstream that dataspace now has.
HandlesSound ==
    /\ \A s \in Slots : InLists(s) => entry[s].handle \in Handles
    /\ \A s, t \in Slots : InLists(s) /\ InLists(t) /\ entry[s].handle = entry[t].handle => s = t
    /\ \A s \in Slots : InLists(s) /\ ~ entry[s].flag =>
          fds[entry[s].fd] = Current(entry[s].handle) /\ entry[s].handle \in exists

CacheInv == CacheTypes /\ ListsSound /\ Counted /\ FdsSound /\ HandlesSound

-----------------------------------------------------------------------------
(* References.                                                             *)

\* What a user without a reference has.
LEMMA NoRefFacts ==
  /\ NoRef \in Refs
  /\ NoRef.slot = NoSlot /\ NoRef.fd = NoFd /\ NoSlot \notin Slots /\ NoFd \notin Descriptors
BY CacheAssumption DEF NoRef, NoFd, Descriptors, Refs

\* The users of an entry can be counted.
LEMMA BusyFinite ==
  ASSUME NEW f, NEW s
  PROVE  /\ IsFiniteSet(Busy(f, s)) /\ Cardinality(Busy(f, s)) \in 0 .. Cardinality(Users)
         /\ Cardinality(Users) \in Nat /\ (Cardinality(Busy(f, s)) = 0 <=> Busy(f, s) = {})
<1>1. Busy(f, s) \subseteq Users /\ IsFiniteSet(Users)
  BY CacheAssumption DEF Busy
<1>2. /\ IsFiniteSet(Busy(f, s)) /\ Cardinality(Busy(f, s)) <= Cardinality(Users)
      /\ Cardinality(Busy(f, s)) \in Nat /\ Cardinality(Users) \in Nat
  BY <1>1, FS_Subset, FS_CardinalityType
<1>3. QED
  BY <1>2, FS_EmptySet

\* Only u's reference changes, and is now to s.
Moves(f, g, u, s) == \A v \in Users : g[v].slot = IF v = u THEN s ELSE f[v].slot

\* A user without one takes a reference to an entry.
LEMMA BusyTaken ==
  ASSUME NEW f, NEW g, NEW u \in Users, NEW s \in Slots,
         f[u].slot = NoSlot, Moves(f, g, u, s)
  PROVE  /\ Cardinality(Busy(g, s)) = Cardinality(Busy(f, s)) + 1
         /\ Busy(g, s) # {}
         /\ \A t \in Slots \ {s} : Busy(g, t) = Busy(f, t)
<1>1. u \notin Busy(f, s) /\ Busy(g, s) = Busy(f, s) \union {u}
  BY NoRefFacts DEF Busy, Moves
<1>2. \A t \in Slots \ {s} : Busy(g, t) = Busy(f, t)
  BY NoRefFacts DEF Busy, Moves
<1>3. IsFiniteSet(Busy(f, s))
  BY BusyFinite
<1>4. Cardinality(Busy(f, s) \union {u}) = Cardinality(Busy(f, s)) + 1
  BY <1>1, <1>3, FS_AddElement
<1>5. QED
  BY <1>1, <1>2, <1>4

\* A user gives its reference to an entry back.
LEMMA BusyGiven ==
  ASSUME NEW f, NEW g, NEW u \in Users, NEW s \in Slots,
         f[u].slot = s, Moves(f, g, u, NoSlot)
  PROVE  /\ Cardinality(Busy(g, s)) = Cardinality(Busy(f, s)) - 1
         /\ Busy(f, s) # {}
         /\ \A t \in Slots \ {s} : Busy(g, t) = Busy(f, t)
<1>1. u \in Busy(f, s) /\ Busy(g, s) = Busy(f, s) \ {u}
  BY NoRefFacts DEF Busy, Moves
<1>2. \A t \in Slots \ {s} : Busy(g, t) = Busy(f, t)
  BY NoRefFacts DEF Busy, Moves
<1>3. IsFiniteSet(Busy(f, s))
  BY BusyFinite
<1>4. Cardinality(Busy(f, s) \ {u}) = Cardinality(Busy(f, s)) - 1
  BY <1>1, <1>3, FS_RemoveElement
<1>5. QED
  BY <1>1, <1>2, <1>4

\* References that are not cached do not count.
LEMMA BusySame ==
  ASSUME NEW f, NEW g, NEW u \in Users, f[u].slot = NoSlot, Moves(f, g, u, NoSlot)
  PROVE  \A t \in Slots : Busy(g, t) = Busy(f, t)
BY NoRefFacts DEF Busy, Moves

-----------------------------------------------------------------------------
(* The steps.                                                              *)

\* dbpf_open_cache_get of an entry that is on a list.
LEMMA GetCachedKeeps ==
  ASSUME CacheInv, NEW u \in Users, NEW h \in Handles, GetCached(u, h)
  PROVE  CacheInv'
<1>1. PICK s \in Cached(h) :
         /\ entry' = [entry EXCEPT ![s].ref = @ + 1]
         /\ used' = <<s>> \o Dropped(used, s)
         /\ unused' = Dropped(unused, s)
         /\ held' = [held EXCEPT ![u] = [slot |-> s, handle |-> h, fd |-> entry[s].fd]]
  BY DEF GetCached
<1> DEFINE r == [slot |-> s, handle |-> h, fd |-> entry[s].fd]
<1>2. s \in Slots /\ InLists(s) /\ entry[s].handle = h /\ held[u] = NoRef
  BY DEF Cached, InLists, GetCached
<1>3. UNCHANGED <<unfilled, fds, data, stranded, toUnlink, unlinker, exists, restarts>>
  BY DEF GetCached
<1>4. /\ used' \in Seq(Slots) /\ Distinct(used')
      /\ \A t : Contains(used', t) <=> t = s \/ Contains(used, t)
  <2> DEFINE l == Dropped(used, s)
  <2>1. /\ l \in Seq(Slots) /\ Distinct(l)
        /\ \A t : Contains(l, t) <=> Contains(used, t) /\ t # s
    BY DroppedFacts DEF CacheInv, CacheTypes, ListsSound
  <2> HIDE DEF l
  <2>2. /\ <<s>> \o l \in Seq(Slots) /\ Distinct(<<s>> \o l)
        /\ \A t : Contains(<<s>> \o l, t) <=> t = s \/ Contains(l, t)
    BY <1>2, <2>1, AddedFacts
  <2>3. QED
    BY <1>1, <2>1, <2>2 DEF l
<1>5. /\ unused' \in Seq(Slots) /\ Distinct(unused')
      /\ \A t : Contains(unused', t) <=> Contains(unused, t) /\ t # s
  BY <1>1, DroppedFacts DEF CacheInv, CacheTypes, ListsSound
<1>6. \A t \in Slots : InLists(t)' <=> InLists(t)
  BY <1>2, <1>4, <1>5 DEF InLists
<1>7. r.slot = s /\ r \in Refs
  BY <1>2 DEF Refs, Entries, CacheInv, CacheTypes
<1>8. held' = [held EXCEPT ![u] = r]
  BY <1>1
<1> HIDE DEF r
<1>9. held \in [Users -> Refs] /\ held[u].slot = NoSlot /\ Moves(held, held', u, s)
  BY <1>2, <1>7, <1>8, NoRefFacts DEF CacheInv, CacheTypes, Moves
<1>10. /\ Cardinality(Busy(held', s)) = Cardinality(Busy(held, s)) + 1 /\ Busy(held', s) # {}
       /\ \A t \in Slots \ {s} : Busy(held', t) = Busy(held, t)
  BY <1>2, <1>9, BusyTaken
<1>11. entry[s].ref + 1 = Cardinality(Busy(held', s)) /\ entry[s].ref + 1 \in 0 .. Cardinality(Users)
  BY <1>2, <1>10, BusyFinite DEF CacheInv, Counted
<1>12. /\ \A t \in Slots : /\ entry'[t].handle = entry[t].handle /\ entry'[t].fd = entry[t].fd
                           /\ entry'[t].flag = entry[t].flag
                           /\ entry'[t].ref = IF t = s THEN entry[s].ref + 1 ELSE entry[t].ref
  BY <1>1, <1>2 DEF CacheInv, CacheTypes, Entries
<1>13. CacheTypes'
  <2>1. entry' \in [Slots -> Entries]
    BY <1>1, <1>2, <1>11 DEF CacheInv, CacheTypes, Entries
  <2>2. held' \in [Users -> Refs]
    BY <1>7, <1>8, <1>9
  <2>3. QED
    BY <1>3, <1>4, <1>5, <2>1, <2>2 DEF CacheInv, CacheTypes
<1>14. ListsSound'
  BY <1>2, <1>3, <1>4, <1>5, <1>6 DEF CacheInv, ListsSound, InLists
<1>15. Counted'
  BY <1>2, <1>4, <1>6, <1>10, <1>11, <1>12 DEF CacheInv, Counted
<1>16. \A v \in Users : (Loose(v)' <=> Loose(v)) /\ (Loose(v) => held'[v].fd = held[v].fd)
  BY <1>2, <1>7, <1>8, <1>9, NoRefFacts DEF Loose
<1>17. FdsSound'
  BY <1>3, <1>6, <1>12, <1>16 DEF CacheInv, FdsSound
<1>18. HandlesSound'
  BY <1>3, <1>6, <1>12 DEF CacheInv, HandlesSound
<1>19. QED
  BY <1>13, <1>14, <1>15, <1>17, <1>18 DEF CacheInv

\* The entry a new descriptor goes into: nobody uses it.
LEMMA VictimFacts ==
  ASSUME CacheInv, unfilled # <<>> \/ unused # <<>>
  PROVE  /\ Victim \in Slots /\ ~ Contains(used, Victim)
         /\ Contains(unfilled, Victim) \/ Contains(unused, Victim)
<1>0. \A t \in Slots : /\ Contains(unfilled, t) => ~ Contains(used, t)
                       /\ Contains(unused, t) => ~ Contains(used, t)
  BY DEF CacheInv, ListsSound, InLists
<1>1. CASE unfilled # <<>>
  <2>1. Victim \in Slots /\ Contains(unfilled, Victim)
    BY <1>1, HeadFacts DEF Victim, CacheInv, CacheTypes
  <2>2. QED
    BY <1>0, <2>1
<1>2. CASE unfilled = <<>>
  <2>1. Victim \in Slots /\ Contains(unused, Victim)
    BY <1>2, HeadFacts DEF Victim, CacheInv, CacheTypes
  <2>2. QED
    BY <1>0, <2>1
<1>3. QED
  BY <1>1, <1>2

\* An uncached reference has a descriptor.
LEMMA LooseFacts ==
  ASSUME CacheTypes, NEW u \in Users, Loose(u)
  PROVE  held[u].fd \in Descriptors
BY CacheAssumption DEF CacheTypes, Refs, Loose, NoFd, Descriptors

\* Closing the descriptor of an entry leaves everybody else's open, and
\* everything that stays open has an owner.
LEMMA VacateFacts ==
  ASSUME CacheInv, NEW s \in Slots, NEW table, table = AfterClose(fds, entry[s].fd)
  PROVE  /\ table \in [Descriptors -> Files]
         /\ \A t \in Slots : InLists(t) /\ t # s => table[entry[t].fd] = fds[entry[t].fd]
         /\ \A u \in Users : Loose(u) => table[held[u].fd] = fds[held[u].fd]
         /\ \A d \in Descriptors : table[d] # Closed =>
               \/ \E t \in Slots : t # s /\ InLists(t) /\ entry[t].fd = d
               \/ \E u \in Users : Loose(u) /\ held[u].fd = d
<1>1. entry[s].fd \in 0 .. MaxFd /\ fds \in [Descriptors -> Files]
  BY DEF CacheInv, CacheTypes, Entries
<1>2. /\ table \in [Descriptors -> Files]
      /\ \A d \in Descriptors : table[d] = IF d = entry[s].fd THEN Closed ELSE fds[d]
  BY <1>1, AfterCloseFacts
<1>3. ASSUME NEW t \in Slots, InLists(t), t # s PROVE table[entry[t].fd] = fds[entry[t].fd]
  <2>1. entry[t].fd \in Descriptors /\ entry[t].fd # entry[s].fd
    BY <1>3, NoRefFacts DEF CacheInv, FdsSound
  <2>2. QED
    BY <1>2, <2>1
<1>4. ASSUME NEW u \in Users, Loose(u) PROVE table[held[u].fd] = fds[held[u].fd]
  <2>1. held[u].fd \in Descriptors
    BY <1>4, LooseFacts DEF CacheInv
  <2>2. held[u].fd # entry[s].fd
    BY <1>4, <2>1, NoRefFacts DEF CacheInv, FdsSound
  <2>3. QED
    BY <1>2, <2>1, <2>2
<1>5. ASSUME NEW d \in Descriptors, table[d] # Closed
      PROVE  \/ \E t \in Slots : t # s /\ InLists(t) /\ entry[t].fd = d
             \/ \E u \in Users : Loose(u) /\ held[u].fd = d
  <2>1. d # entry[s].fd /\ fds[d] # Closed
    BY <1>2, <1>5
  <2>2. QED
    BY <2>1 DEF CacheInv, FdsSound
<1>6. QED
  BY <1>2, <1>3, <1>4, <1>5

\* dbpf_open_cache_get with a new descriptor.
LEMMA GetNewKeeps ==
  ASSUME CacheInv, NEW u \in Users, NEW h \in Handles, NEW write, GetNew(u, h, write)
  PROVE  CacheInv'
<1> DEFINE s == Victim
           d == Least(ClosedFds(Vacated))
           e == [handle |-> h, fd |-> d, ref |-> 1, flag |-> FALSE]
           r == [slot |-> s, handle |-> h, fd |-> d]
<1>1. /\ held[u] = NoRef /\ Cached(h) = {} /\ (unfilled # <<>> \/ unused # <<>>)
      /\ ClosedFds(Vacated) # {}
      /\ entry' = [entry EXCEPT ![s] = e]
      /\ unfilled' = Dropped(unfilled, s) /\ unused' = Dropped(unused, s)
      /\ used' = <<s>> \o used
      /\ held' = [held EXCEPT ![u] = r]
      /\ fds' = [Vacated EXCEPT ![d] = Current(h)]
      /\ data' = data \union {h}
      /\ UNCHANGED <<stranded, toUnlink, unlinker, exists, restarts>>
  BY DEF GetNew
<1>2. /\ s \in Slots /\ ~ Contains(used, s)
      /\ Contains(unfilled, s) \/ Contains(unused, s)
  BY <1>1, VictimFacts
<1>3. /\ Vacated \in [Descriptors -> Files]
      /\ \A t \in Slots : InLists(t) /\ t # s => Vacated[entry[t].fd] = fds[entry[t].fd]
      /\ \A v \in Users : Loose(v) => Vacated[held[v].fd] = fds[held[v].fd]
      /\ \A c \in Descriptors : Vacated[c] # Closed =>
            \/ \E t \in Slots : t # s /\ InLists(t) /\ entry[t].fd = c
            \/ \E v \in Users : Loose(v) /\ held[v].fd = c
  <2>1. Vacated = AfterClose(fds, entry[s].fd)
    BY DEF Vacated
  <2> HIDE DEF s
  <2>2. QED
    BY <1>2, <2>1, VacateFacts
<1>4. d \in Descriptors /\ Vacated[d] = Closed /\ d \in 0 .. MaxFd
  <2>1. d \in Descriptors /\ Vacated[d] = Closed
    BY <1>1, LeastFacts
  <2>2. QED
    BY <2>1 DEF Descriptors
<1> HIDE DEF s, d
<1>5. Cardinality(Users) \in Nat /\ Cardinality(Users) >= 1
  <2>1. IsFiniteSet(Users) /\ Users # {}
    BY CacheAssumption
  <2>2. Cardinality(Users) \in Nat /\ Cardinality(Users) # 0
    BY <2>1, FS_CardinalityType, FS_EmptySet
  <2>3. QED
    BY <2>2
<1>6. /\ e \in Entries /\ e.handle = h /\ e.fd = d /\ e.ref = 1 /\ e.flag = FALSE
      /\ r \in Refs /\ r.slot = s /\ r.fd = d
  BY <1>2, <1>4, <1>5 DEF Entries, Refs
<1> HIDE DEF e, r
<1>7. /\ used' \in Seq(Slots) /\ Distinct(used')
      /\ \A t : Contains(used', t) <=> t = s \/ Contains(used, t)
  BY <1>1, <1>2, AddedFacts DEF CacheInv, CacheTypes, ListsSound
<1>8. /\ unused' \in Seq(Slots) /\ Distinct(unused')
      /\ \A t : Contains(unused', t) <=> Contains(unused, t) /\ t # s
  BY <1>1, DroppedFacts DEF CacheInv, CacheTypes, ListsSound
<1>9. /\ unfilled' \in Seq(Slots) /\ Distinct(unfilled')
      /\ \A t : Contains(unfilled', t) <=> Contains(unfilled, t) /\ t # s
  BY <1>1, DroppedFacts DEF CacheInv, CacheTypes, ListsSound
<1>10. \A t \in Slots : InLists(t)' <=> t = s \/ InLists(t)
  BY <1>7, <1>8 DEF InLists
<1>11. /\ held \in [Users -> Refs] /\ held[u].slot = NoSlot /\ Moves(held, held', u, s)
       /\ \A v \in Users : (Loose(v)' <=> Loose(v)) /\ (Loose(v) => held'[v] = held[v])
  BY <1>1, <1>2, <1>6, NoRefFacts DEF CacheInv, CacheTypes, Moves, Loose
<1>12. /\ Cardinality(Busy(held', s)) = Cardinality(Busy(held, s)) + 1 /\ Busy(held', s) # {}
       /\ \A t \in Slots \ {s} : Busy(held', t) = Busy(held, t)
  BY <1>2, <1>11, BusyTaken
<1>13. Cardinality(Busy(held', s)) = 1
  <2>1. Busy(held, s) = {}
    BY <1>2 DEF CacheInv, Counted
  <2>2. Cardinality(Busy(held, s)) = 0
    BY <2>1, BusyFinite
  <2>3. QED
    BY <1>12, <2>2
<1>14. \A t \in Slots : entry'[t] = IF t = s THEN e ELSE entry[t]
  BY <1>1, <1>2 DEF CacheInv, CacheTypes
<1>15. \A c \in Descriptors : fds'[c] = IF c = d THEN Current(h) ELSE Vacated[c]
  BY <1>1, <1>3, <1>4
<1>16. CacheTypes'
  <2>1. entry' \in [Slots -> Entries]
    BY <1>1, <1>2, <1>6 DEF CacheInv, CacheTypes
  <2>2. held' \in [Users -> Refs]
    BY <1>1, <1>6, <1>11
  <2>3. fds' \in [Descriptors -> Files]
    BY <1>1, <1>3, <1>4 DEF Files
  <2>4. QED
    BY <1>1, <1>7, <1>8, <1>9, <2>1, <2>2, <2>3 DEF CacheInv, CacheTypes
<1>17. ListsSound'
  BY <1>2, <1>7, <1>8, <1>9, <1>10 DEF CacheInv, ListsSound, InLists
<1>18. Counted'
  BY <1>2, <1>6, <1>7, <1>10, <1>12, <1>13, <1>14 DEF CacheInv, Counted
<1>19. /\ \A t \in Slots : InLists(t) /\ t # s =>
             /\ entry[t].fd \in Descriptors /\ fds[entry[t].fd] # Closed
             /\ entry[t].fd # d /\ fds'[entry[t].fd] = fds[entry[t].fd]
       /\ \A v \in Users : Loose(v) =>
             /\ held[v].fd # d /\ fds'[held[v].fd] = fds[held[v].fd] /\ fds[held[v].fd] # Closed
  <2>1. ASSUME NEW t \in Slots, InLists(t), t # s
        PROVE  /\ entry[t].fd \in Descriptors /\ fds[entry[t].fd] # Closed
               /\ entry[t].fd # d /\ fds'[entry[t].fd] = fds[entry[t].fd]
    <3>1. entry[t].fd \in Descriptors /\ fds[entry[t].fd] # Closed
      BY <2>1 DEF CacheInv, FdsSound
    <3>2. QED
      BY <1>3, <1>4, <1>15, <2>1, <3>1
  <2>2. ASSUME NEW v \in Users, Loose(v)
        PROVE  /\ held[v].fd # d /\ fds'[held[v].fd] = fds[held[v].fd] /\ fds[held[v].fd] # Closed
    <3>1. held[v].fd \in Descriptors /\ fds[held[v].fd] # Closed
      BY <2>2, LooseFacts DEF CacheInv, FdsSound
    <3>2. QED
      BY <1>3, <1>4, <1>15, <2>2, <3>1
  <2>3. QED
    BY <2>1, <2>2
<1>20. FdsSound'
  <2>1. \A t \in Slots : IF InLists(t)' THEN entry'[t].fd \in Descriptors /\ fds'[entry'[t].fd] # Closed
                                        ELSE entry'[t].fd = NoFd
    <3>1. \A t \in Slots : ~ InLists(t) => entry[t].fd = NoFd
      BY DEF CacheInv, FdsSound
    <3>2. QED
      BY <1>4, <1>6, <1>10, <1>14, <1>15, <1>19, <3>1, FilesDiffer
  <2>2. \A v \in Users : Loose(v)' => fds'[held'[v].fd] # Closed
    BY <1>11, <1>19
  <2>3. \A t, o \in Slots : InLists(t)' /\ InLists(o)' /\ entry'[t].fd = entry'[o].fd => t = o
    <3>1. \A t, o \in Slots : InLists(t) /\ InLists(o) /\ entry[t].fd = entry[o].fd => t = o
      BY DEF CacheInv, FdsSound
    <3>2. QED
      BY <1>6, <1>10, <1>14, <1>19, <3>1
  <2>4. \A t \in Slots, v \in Users : InLists(t)' /\ Loose(v)' => entry'[t].fd # held'[v].fd
    <3>1. \A t \in Slots, v \in Users : InLists(t) /\ Loose(v) => entry[t].fd # held[v].fd
      BY DEF CacheInv, FdsSound
    <3>2. QED
      BY <1>6, <1>10, <1>11, <1>14, <1>19, <3>1
  <2>5. \A v, w \in Users : Loose(v)' /\ Loose(w)' /\ held'[v].fd = held'[w].fd => v = w
    <3>1. \A v, w \in Users : Loose(v) /\ Loose(w) /\ held[v].fd = held[w].fd => v = w
      BY DEF CacheInv, FdsSound
    <3>2. QED
      BY <1>11, <3>1
  <2>6. ASSUME NEW c \in Descriptors, fds'[c] # Closed
        PROVE  \/ \E t \in Slots : InLists(t)' /\ entry'[t].fd = c
               \/ \E v \in Users : Loose(v)' /\ held'[v].fd = c
    <3>1. CASE c = d
      BY <1>2, <1>6, <1>10, <1>14, <3>1
    <3>2. CASE c # d
      BY <1>3, <1>10, <1>11, <1>14, <1>15, <2>6, <3>2
    <3>3. QED
      BY <3>1, <3>2
  <2>7. QED
    BY <2>1, <2>2, <2>3, <2>4, <2>5, <2>6 DEF FdsSound
<1>21. HandlesSound'
  <2>1. \A t \in Slots : InLists(t) => entry[t].handle # h
    BY <1>1 DEF Cached, InLists
  <2>2. h \in exists
    BY DEF GetNew
  <2>3. \A t \in Slots : InLists(t)' => entry'[t].handle \in Handles
    BY <1>6, <1>10, <1>14 DEF CacheInv, HandlesSound
  <2>4. \A t, o \in Slots : InLists(t)' /\ InLists(o)' /\ entry'[t].handle = entry'[o].handle => t = o
    <3>1. \A t, o \in Slots : InLists(t) /\ InLists(o) /\ entry[t].handle = entry[o].handle => t = o
      BY DEF CacheInv, HandlesSound
    <3>2. QED
      BY <1>6, <1>10, <1>14, <2>1, <3>1
  <2>5. \A t \in Slots : InLists(t)' /\ ~ entry'[t].flag =>
          fds'[entry'[t].fd] = Current(entry'[t].handle) /\ entry'[t].handle \in exists'
    <3>1. \A t \in Slots : InLists(t) /\ ~ entry[t].flag =>
            fds[entry[t].fd] = Current(entry[t].handle) /\ entry[t].handle \in exists
      BY DEF CacheInv, HandlesSound
    <3>2. QED
      BY <1>1, <1>4, <1>6, <1>10, <1>14, <1>15, <1>19, <2>2, <3>1
  <2>6. QED
    BY <2>3, <2>4, <2>5 DEF HandlesSound
<1>22. QED
  BY <1>16, <1>17, <1>18, <1>20, <1>21 DEF CacheInv

\* dbpf_open_cache_get whose open fails: the entry is free again.
LEMMA GetNewFailsKeeps ==
  ASSUME CacheInv, NEW u \in Users, NEW h \in Handles, GetNewFails(u, h)
  PROVE  CacheInv'
<1> DEFINE s == Victim
           e == [handle |-> h, fd |-> NoFd, ref |-> 1, flag |-> FALSE]
<1>1. /\ unfilled # <<>> \/ unused # <<>>
      /\ entry' = [entry EXCEPT ![s] = e]
      /\ unused' = Dropped(unused, s)
      /\ unfilled' = <<s>> \o Dropped(unfilled, s)
      /\ fds' = Vacated
      /\ UNCHANGED <<used, held, data, stranded, toUnlink, unlinker, exists, restarts>>
  BY DEF GetNewFails
<1>2. /\ s \in Slots /\ ~ Contains(used, s)
      /\ Contains(unfilled, s) \/ Contains(unused, s)
  BY <1>1, VictimFacts
<1>3. fds' = AfterClose(fds, entry[s].fd)
  BY <1>1 DEF Vacated
<1> HIDE DEF s
<1>4. /\ fds' \in [Descriptors -> Files]
      /\ \A t \in Slots : InLists(t) /\ t # s => fds'[entry[t].fd] = fds[entry[t].fd]
      /\ \A v \in Users : Loose(v) => fds'[held[v].fd] = fds[held[v].fd]
      /\ \A c \in Descriptors : fds'[c] # Closed =>
            \/ \E t \in Slots : t # s /\ InLists(t) /\ entry[t].fd = c
            \/ \E v \in Users : Loose(v) /\ held[v].fd = c
  BY <1>2, <1>3, VacateFacts
<1>5. e \in Entries /\ e.fd = NoFd
  <2>1. Cardinality(Users) \in Nat /\ Cardinality(Users) # 0
    BY CacheAssumption, FS_CardinalityType, FS_EmptySet
  <2>2. 1 \in 0 .. Cardinality(Users) /\ NoFd \in 0 .. MaxFd
    BY <2>1, CacheAssumption DEF NoFd
  <2>3. QED
    BY <2>2 DEF Entries
<1> HIDE DEF e
<1>6. /\ unused' \in Seq(Slots) /\ Distinct(unused')
      /\ \A t : Contains(unused', t) <=> Contains(unused, t) /\ t # s
  BY <1>1, DroppedFacts DEF CacheInv, CacheTypes, ListsSound
<1>7. /\ unfilled' \in Seq(Slots) /\ Distinct(unfilled')
      /\ \A t : Contains(unfilled', t) <=> t = s \/ Contains(unfilled, t)
  <2> DEFINE l == Dropped(unfilled, s)
  <2>1. /\ l \in Seq(Slots) /\ Distinct(l)
        /\ \A t : Contains(l, t) <=> Contains(unfilled, t) /\ t # s
    BY DroppedFacts DEF CacheInv, CacheTypes, ListsSound
  <2> HIDE DEF l
  <2>2. /\ <<s>> \o l \in Seq(Slots) /\ Distinct(<<s>> \o l)
        /\ \A t : Contains(<<s>> \o l, t) <=> t = s \/ Contains(l, t)
    BY <1>2, <2>1, AddedFacts
  <2>3. QED
    BY <1>1, <2>1, <2>2 DEF l
<1>8. used' = used /\ \A t \in Slots : InLists(t)' <=> t # s /\ InLists(t)
  BY <1>1, <1>2, <1>6 DEF InLists
<1>9. \A t \in Slots : entry'[t] = IF t = s THEN e ELSE entry[t]
  BY <1>1, <1>2 DEF CacheInv, CacheTypes
<1>10. held' = held /\ exists' = exists /\ \A v \in Users : Loose(v)' <=> Loose(v)
  BY <1>1 DEF Loose
<1>11. CacheTypes'
  <2>1. entry' \in [Slots -> Entries]
    BY <1>1, <1>2, <1>5 DEF CacheInv, CacheTypes
  <2>2. QED
    BY <1>1, <1>4, <1>6, <1>7, <2>1 DEF CacheInv, CacheTypes
<1>12. ListsSound'
  BY <1>2, <1>6, <1>7, <1>8 DEF CacheInv, ListsSound, InLists
<1>13. Counted'
  BY <1>2, <1>8, <1>9, <1>10 DEF CacheInv, Counted
<1>14. FdsSound'
  BY <1>4, <1>5, <1>8, <1>9, <1>10 DEF CacheInv, FdsSound
<1>15. HandlesSound'
  BY <1>4, <1>8, <1>9, <1>10 DEF CacheInv, HandlesSound
<1>16. QED
  BY <1>11, <1>12, <1>13, <1>14, <1>15 DEF CacheInv

\* dbpf_open_cache_get past the cache.
LEMMA GetUncachedKeeps ==
  ASSUME CacheInv, NEW u \in Users, NEW h \in Handles, NEW write, GetUncached(u, h, write)
  PROVE  CacheInv'
<1> DEFINE d == Least(ClosedFds(fds))
           r == [slot |-> NoSlot, handle |-> h, fd |-> d]
<1>1. /\ held[u] = NoRef /\ ClosedFds(fds) # {}
      /\ held' = [held EXCEPT ![u] = r]
      /\ fds' = [fds EXCEPT ![d] = Current(h)]
      /\ data' = data \union {h}
      /\ UNCHANGED <<entry, used, unused, unfilled, stranded, toUnlink, unlinker, exists, restarts>>
  BY DEF GetUncached
<1>2. d \in Descriptors /\ fds[d] = Closed /\ d \in 0 .. MaxFd /\ d # NoFd
  <2>1. d \in Descriptors /\ fds[d] = Closed
    BY <1>1, LeastFacts
  <2>2. QED
    BY <2>1 DEF Descriptors, NoFd
<1> HIDE DEF d
<1>3. r \in Refs /\ r.slot = NoSlot /\ r.fd = d
  BY <1>2 DEF Refs
<1> HIDE DEF r
<1>4. /\ held \in [Users -> Refs] /\ held[u].slot = NoSlot /\ held[u].fd = NoFd
      /\ \A v \in Users : held'[v] = IF v = u THEN r ELSE held[v]
  BY <1>1, NoRefFacts DEF CacheInv, CacheTypes
<1>5. \A t \in Slots : Busy(held', t) = Busy(held, t)
  <2>1. Moves(held, held', u, NoSlot)
    BY <1>3, <1>4 DEF Moves
  <2>2. QED
    BY <1>4, <2>1, BusySame
<1>6. \A c \in Descriptors : fds'[c] = IF c = d THEN Current(h) ELSE fds[c]
  BY <1>1, <1>2 DEF CacheInv, CacheTypes
<1>7. /\ entry' = entry /\ used' = used /\ unused' = unused /\ unfilled' = unfilled
      /\ exists' = exists /\ \A t \in Slots : InLists(t)' <=> InLists(t)
  BY <1>1 DEF InLists
<1>8. /\ ~ Loose(u) /\ Loose(u)' /\ held'[u].fd = d
      /\ \A v \in Users : v # u => (Loose(v)' <=> Loose(v)) /\ held'[v] = held[v]
  BY <1>2, <1>3, <1>4 DEF Loose
<1>9. /\ \A t \in Slots : InLists(t) => /\ entry[t].fd \in Descriptors /\ entry[t].fd # d
                                        /\ fds'[entry[t].fd] = fds[entry[t].fd]
      /\ \A v \in Users : Loose(v) => /\ held[v].fd \in Descriptors /\ held[v].fd # d
                                      /\ fds'[held[v].fd] = fds[held[v].fd]
  <2>1. \A v \in Users : Loose(v) => held[v].fd \in Descriptors
    BY LooseFacts DEF CacheInv
  <2>2. QED
    BY <1>2, <1>6, <2>1 DEF CacheInv, FdsSound
<1>10. CacheTypes'
  <2>1. held' \in [Users -> Refs]
    BY <1>1, <1>3, <1>4
  <2>2. fds' \in [Descriptors -> Files]
    BY <1>1, <1>2 DEF Files, CacheInv, CacheTypes
  <2>3. QED
    BY <1>1, <2>1, <2>2 DEF CacheInv, CacheTypes
<1>11. ListsSound'
  BY <1>7 DEF CacheInv, ListsSound
<1>12. Counted'
  BY <1>5, <1>7 DEF CacheInv, Counted
<1>13. FdsSound'
  BY <1>2, <1>6, <1>7, <1>8, <1>9, FilesDiffer DEF CacheInv, FdsSound
<1>14. HandlesSound'
  BY <1>7, <1>9 DEF CacheInv, HandlesSound
<1>15. QED
  BY <1>10, <1>11, <1>12, <1>13, <1>14 DEF CacheInv

\* dbpf_open_cache_put of a cached reference.
LEMMA PutCachedKeeps ==
  ASSUME CacheInv, NEW u \in Users, PutCached(u)
  PROVE  CacheInv'
<1> DEFINE s == held[u].slot
<1>1. /\ s # NoSlot
      /\ entry' = [entry EXCEPT ![s].ref = @ - 1]
      /\ used' = IF entry[s].ref = 1 THEN Dropped(used, s) ELSE used
      /\ unused' = IF entry[s].ref = 1 THEN Append(unused, s) ELSE unused
      /\ held' = [held EXCEPT ![u] = NoRef]
      /\ UNCHANGED <<unfilled, fds, data, stranded, toUnlink, unlinker, exists, restarts>>
  BY DEF PutCached
<1>2. s \in Slots /\ held \in [Users -> Refs]
  BY <1>1 DEF CacheInv, CacheTypes, Refs
<1>3. /\ \A v \in Users : held'[v] = IF v = u THEN NoRef ELSE held[v]
      /\ Moves(held, held', u, NoSlot)
  BY <1>1, <1>2, NoRefFacts DEF Moves
<1>4. held[u].slot = s
  OBVIOUS
<1> HIDE DEF s
<1>5. /\ Cardinality(Busy(held', s)) = Cardinality(Busy(held, s)) - 1
      /\ Busy(held, s) # {}
      /\ \A t \in Slots \ {s} : Busy(held', t) = Busy(held, t)
  BY <1>2, <1>3, <1>4, BusyGiven
<1>6. Contains(used, s) /\ ~ Contains(unused, s) /\ entry[s].ref = Cardinality(Busy(held, s))
  <2>1. Contains(used, s)
    BY <1>2, <1>5 DEF CacheInv, Counted
  <2>2. QED
    BY <1>2, <2>1 DEF CacheInv, Counted, ListsSound, InLists
<1>7. /\ entry[s].ref - 1 = Cardinality(Busy(held', s)) /\ entry[s].ref - 1 \in 0 .. Cardinality(Users)
      /\ (entry[s].ref = 1 <=> Busy(held', s) = {})
  <2>1. /\ Cardinality(Busy(held', s)) \in 0 .. Cardinality(Users)
        /\ (Cardinality(Busy(held', s)) = 0 <=> Busy(held', s) = {})
    BY BusyFinite
  <2>2. Cardinality(Busy(held, s)) \in Nat
    BY BusyFinite
  <2>3. QED
    BY <1>5, <1>6, <2>1, <2>2
<1>8. /\ used' \in Seq(Slots) /\ Distinct(used')
      /\ \A t : Contains(used', t) <=> Contains(used, t) /\ (t # s \/ entry[s].ref # 1)
  <2>1. CASE entry[s].ref = 1
    BY <1>1, <2>1, DroppedFacts DEF CacheInv, CacheTypes, ListsSound
  <2>2. CASE entry[s].ref # 1
    BY <1>1, <2>2 DEF CacheInv, CacheTypes, ListsSound
  <2>3. QED
    BY <2>1, <2>2
<1>9. /\ unused' \in Seq(Slots) /\ Distinct(unused')
      /\ \A t : Contains(unused', t) <=> Contains(unused, t) \/ (t = s /\ entry[s].ref = 1)
  <2>1. CASE entry[s].ref = 1
    BY <1>1, <1>2, <1>6, <2>1, AppendedFacts DEF CacheInv, CacheTypes, ListsSound
  <2>2. CASE entry[s].ref # 1
    BY <1>1, <2>2 DEF CacheInv, CacheTypes, ListsSound
  <2>3. QED
    BY <2>1, <2>2
<1>10. \A t \in Slots : InLists(t)' <=> InLists(t)
  BY <1>6, <1>8, <1>9 DEF InLists
<1>11. \A t \in Slots : /\ entry'[t].handle = entry[t].handle /\ entry'[t].fd = entry[t].fd
                        /\ entry'[t].flag = entry[t].flag
                        /\ entry'[t].ref = IF t = s THEN entry[s].ref - 1 ELSE entry[t].ref
  BY <1>1, <1>2 DEF CacheInv, CacheTypes, Entries
<1>12. \A v \in Users : (Loose(v)' <=> Loose(v)) /\ (Loose(v) => held'[v] = held[v])
  BY <1>1, <1>3, <1>4, NoRefFacts DEF Loose
<1>13. CacheTypes'
  <2>1. entry' \in [Slots -> Entries]
    BY <1>1, <1>2, <1>7 DEF CacheInv, CacheTypes, Entries
  <2>2. held' \in [Users -> Refs]
    BY <1>1, <1>2, NoRefFacts
  <2>3. QED
    BY <1>1, <1>8, <1>9, <2>1, <2>2 DEF CacheInv, CacheTypes
<1>14. ListsSound'
  BY <1>1, <1>2, <1>6, <1>8, <1>9, <1>10 DEF CacheInv, ListsSound, InLists
<1>15. Counted'
  <2> SUFFICES ASSUME NEW t \in Slots
               PROVE  /\ Contains(used', t) <=> Busy(held', t) # {}
                      /\ InLists(t)' => entry'[t].ref = Cardinality(Busy(held', t))
    BY DEF Counted
  <2>1. CASE t = s
    BY <1>6, <1>7, <1>8, <1>11, <2>1
  <2>2. CASE t # s
    BY <1>5, <1>8, <1>10, <1>11, <2>2 DEF CacheInv, Counted
  <2>3. QED
    BY <2>1, <2>2
<1>16. FdsSound'
  BY <1>1, <1>10, <1>11, <1>12 DEF CacheInv, FdsSound
<1>17. HandlesSound'
  BY <1>1, <1>10, <1>11 DEF CacheInv, HandlesSound
<1>18. QED
  BY <1>13, <1>14, <1>15, <1>16, <1>17 DEF CacheInv

\* dbpf_open_cache_put of a reference that is not cached.
LEMMA PutUncachedKeeps ==
  ASSUME CacheInv, NEW u \in Users, PutUncached(u)
  PROVE  CacheInv'
<1> DEFINE d == held[u].fd
<1>1. /\ held[u].slot = NoSlot /\ d # NoFd
      /\ fds' = AfterClose(fds, d)
      /\ held' = [held EXCEPT ![u] = NoRef]
      /\ UNCHANGED <<entry, used, unused, unfilled, data, stranded, toUnlink, unlinker, exists, restarts>>
  BY DEF PutUncached
<1>2. Loose(u) /\ d \in Descriptors /\ d \in 0 .. MaxFd
  <2>1. Loose(u)
    BY <1>1 DEF Loose
  <2>2. QED
    BY <2>1, LooseFacts DEF CacheInv, Descriptors
<1>3. /\ fds' \in [Descriptors -> Files]
      /\ \A c \in Descriptors : fds'[c] = IF c = d THEN Closed ELSE fds[c]
  BY <1>1, <1>2, AfterCloseFacts DEF CacheInv, CacheTypes
<1>4. /\ held \in [Users -> Refs] /\ \A v \in Users : held'[v] = IF v = u THEN NoRef ELSE held[v]
      /\ Moves(held, held', u, NoSlot)
  BY <1>1, NoRefFacts DEF CacheInv, CacheTypes, Moves
<1>5. \A t \in Slots : Busy(held', t) = Busy(held, t)
  BY <1>1, <1>4, BusySame
<1>6. /\ entry' = entry /\ used' = used /\ unused' = unused /\ unfilled' = unfilled
      /\ exists' = exists /\ \A t \in Slots : InLists(t)' <=> InLists(t)
  BY <1>1 DEF InLists
<1>7. \A v \in Users : (Loose(v)' <=> Loose(v) /\ v # u) /\ (v # u => held'[v] = held[v])
  BY <1>4, NoRefFacts DEF Loose
<1>8. /\ \A t \in Slots : InLists(t) => /\ entry[t].fd \in Descriptors /\ entry[t].fd # d
                                        /\ fds'[entry[t].fd] = fds[entry[t].fd]
      /\ \A v \in Users : Loose(v) /\ v # u => /\ held[v].fd \in Descriptors /\ held[v].fd # d
                                               /\ fds'[held[v].fd] = fds[held[v].fd]
  <2>1. \A v \in Users : Loose(v) => held[v].fd \in Descriptors
    BY LooseFacts DEF CacheInv
  <2>2. QED
    BY <1>2, <1>3, <2>1 DEF CacheInv, FdsSound
<1>9. CacheTypes'
  <2>1. held' \in [Users -> Refs]
    BY <1>1, <1>4, NoRefFacts
  <2>2. QED
    BY <1>1, <1>3, <2>1 DEF CacheInv, CacheTypes
<1>10. ListsSound'
  BY <1>6 DEF CacheInv, ListsSound
<1>11. Counted'
  BY <1>5, <1>6 DEF CacheInv, Counted
<1>12. FdsSound'
  BY <1>2, <1>3, <1>6, <1>7, <1>8 DEF CacheInv, FdsSound
<1>13. HandlesSound'
  BY <1>6, <1>8 DEF CacheInv, HandlesSound
<1>14. QED
  BY <1>9, <1>10, <1>11, <1>12, <1>13 DEF CacheInv

\* What fast_unlink leaves of the descriptors it is given: none is opened or
\* closed, and those of other handles are still of their current files.
LEMMA FastUnlinkFacts ==
  ASSUME CacheTypes, NEW h \in Handles, NEW table \in [Descriptors -> Files], FastUnlink(h, table)
  PROVE  /\ fds' \in [Descriptors -> Files]
         /\ \A d \in Descriptors :
               /\ fds'[d] = Closed <=> table[d] = Closed
               /\ \A g : g # h /\ table[d] = Current(g) => fds'[d] = Current(g)
         /\ data' \subseteq Handles /\ stranded' \subseteq Handles
         /\ toUnlink' \in Seq(Handles)
         /\ unlinker' \in {"run", "wait"} \union Handles
<1>1. CASE Rename(h, table) /\ QueueUnlink(h)
  <2>1. /\ fds' = Renamed(table, h) /\ data' = data \ {h} /\ stranded' = stranded \union {h}
        /\ toUnlink' = Append(toUnlink, h)
        /\ unlinker' = IF unlinker = "wait" THEN "run" ELSE unlinker
    BY <1>1 DEF Rename, QueueUnlink, Renamed
  <2>2. /\ data' \subseteq Handles /\ stranded' \subseteq Handles
        /\ toUnlink' \in Seq(Handles)
        /\ unlinker' \in {"run", "wait"} \union Handles
    BY <2>1 DEF CacheTypes
  <2>3. QED
    BY <2>1, <2>2, RenamedFacts
<1>2. CASE fds' = table /\ UNCHANGED <<data, stranded, toUnlink, unlinker>>
  BY <1>2 DEF CacheTypes
<1>3. QED
  BY <1>1, <1>2 DEF FastUnlink

\* dbpf_open_cache_remove of an entry nobody uses.
LEMMA RemoveUnusedKeeps ==
  ASSUME CacheInv, NEW h \in Handles, RemoveUnused(h)
  PROVE  CacheInv'
<1>1. PICK s \in Cached(h) :
         /\ Contains(unused, s)
         /\ entry' = [entry EXCEPT ![s].fd = NoFd, ![s].flag = FALSE]
         /\ unused' = Dropped(unused, s)
         /\ unfilled' = <<s>> \o unfilled
         /\ FastUnlink(h, AfterClose(fds, entry[s].fd))
  BY DEF RemoveUnused
<1>2. exists' = exists \ {h} /\ UNCHANGED <<used, held, restarts>>
  BY DEF RemoveUnused
<1>3. /\ s \in Slots /\ entry[s].handle = h /\ InLists(s)
      /\ ~ Contains(used, s) /\ ~ Contains(unfilled, s)
  <2>1. s \in Slots /\ entry[s].handle = h /\ InLists(s)
    BY <1>1 DEF Cached, InLists
  <2>2. QED
    BY <1>1, <2>1 DEF CacheInv, ListsSound
<1> DEFINE table == AfterClose(fds, entry[s].fd)
<1>4. FastUnlink(h, table)
  BY <1>1
<1>5. table = AfterClose(fds, entry[s].fd)
  OBVIOUS
<1> HIDE DEF table
<1>6. /\ table \in [Descriptors -> Files]
      /\ \A t \in Slots : InLists(t) /\ t # s => table[entry[t].fd] = fds[entry[t].fd]
      /\ \A v \in Users : Loose(v) => table[held[v].fd] = fds[held[v].fd]
      /\ \A c \in Descriptors : table[c] # Closed =>
            \/ \E t \in Slots : t # s /\ InLists(t) /\ entry[t].fd = c
            \/ \E v \in Users : Loose(v) /\ held[v].fd = c
  BY <1>3, <1>5, VacateFacts
<1>7. /\ fds' \in [Descriptors -> Files]
      /\ \A d \in Descriptors :
            /\ fds'[d] = Closed <=> table[d] = Closed
            /\ \A g : g # h /\ table[d] = Current(g) => fds'[d] = Current(g)
      /\ data' \subseteq Handles /\ stranded' \subseteq Handles
      /\ toUnlink' \in Seq(Handles)
      /\ unlinker' \in {"run", "wait"} \union Handles
  BY <1>4, <1>6, FastUnlinkFacts DEF CacheInv
<1>8. /\ unused' \in Seq(Slots) /\ Distinct(unused')
      /\ \A t : Contains(unused', t) <=> Contains(unused, t) /\ t # s
  BY <1>1, DroppedFacts DEF CacheInv, CacheTypes, ListsSound
<1>9. /\ unfilled' \in Seq(Slots) /\ Distinct(unfilled')
      /\ \A t : Contains(unfilled', t) <=> t = s \/ Contains(unfilled, t)
  BY <1>1, <1>3, AddedFacts DEF CacheInv, CacheTypes, ListsSound
<1>10. used' = used /\ \A t \in Slots : InLists(t)' <=> t # s /\ InLists(t)
  BY <1>2, <1>3, <1>8 DEF InLists
<1>11. entry'[s].fd = NoFd /\ \A t \in Slots : t # s => entry'[t] = entry[t]
  BY <1>1, <1>3 DEF CacheInv, CacheTypes, Entries
<1>12. held' = held /\ \A v \in Users : Loose(v)' <=> Loose(v)
  BY <1>2 DEF Loose
<1>13. CacheTypes'
  <2>1. NoFd \in 0 .. MaxFd
    BY CacheAssumption DEF NoFd
  <2>2. entry' \in [Slots -> Entries]
    BY <1>1, <1>3, <2>1 DEF CacheInv, CacheTypes, Entries
  <2>3. QED
    BY <1>2, <1>7, <1>8, <1>9, <2>2 DEF CacheInv, CacheTypes
<1>14. ListsSound'
  BY <1>3, <1>8, <1>9, <1>10 DEF CacheInv, ListsSound, InLists
<1>15. Counted'
  BY <1>3, <1>10, <1>11, <1>12 DEF CacheInv, Counted
<1>16. \A v \in Users : Loose(v) => held[v].fd \in Descriptors
  BY LooseFacts DEF CacheInv
<1>17. FdsSound'
  BY <1>6, <1>7, <1>10, <1>11, <1>12, <1>16 DEF CacheInv, FdsSound
<1>18. HandlesSound'
  <2>1. \A t \in Slots : InLists(t) /\ t # s => entry[t].handle # h /\ entry[t].fd \in Descriptors
    BY <1>3 DEF CacheInv, HandlesSound, FdsSound
  <2>2. QED
    BY <1>2, <1>6, <1>7, <1>10, <1>11, <2>1 DEF CacheInv, HandlesSound
<1>19. QED
  BY <1>13, <1>14, <1>15, <1>17, <1>18 DEF CacheInv

\* The cache, its references and the set of dataspaces other than h are not
\* touched, and h has no entry that is trusted to be current.
LEMMA FilesOnly ==
  ASSUME CacheInv, NEW h \in Handles,
         UNCHANGED <<entry, used, unused, unfilled, held>>,
         CacheTypes',
         \A d \in Descriptors :
            /\ fds'[d] = Closed <=> fds[d] = Closed
            /\ \A g : g # h /\ fds[d] = Current(g) => fds'[d] = Current(g),
         exists \ {h} \subseteq exists',
         \A t \in Slots : InLists(t) /\ ~ entry[t].flag => entry[t].handle # h
  PROVE  CacheInv'
<1>1. /\ \A t \in Slots : InLists(t)' <=> InLists(t)
      /\ \A v \in Users : Loose(v)' <=> Loose(v)
  BY DEF InLists, Loose
<1>2. ListsSound' /\ Counted'
  BY <1>1 DEF CacheInv, ListsSound, Counted
<1>3. \A v \in Users : Loose(v) => held[v].fd \in Descriptors
  BY LooseFacts DEF CacheInv
<1>4. FdsSound'
  BY <1>1, <1>3 DEF CacheInv, FdsSound
<1>5. HandlesSound'
  <2>1. \A t \in Slots : InLists(t) => entry[t].fd \in Descriptors
    BY DEF CacheInv, FdsSound
  <2>2. QED
    BY <1>1, <2>1 DEF CacheInv, HandlesSound
<1>6. QED
  BY <1>2, <1>4, <1>5 DEF CacheInv

\* dbpf_open_cache_remove of a handle without an entry.
LEMMA RemoveUncachedKeeps ==
  ASSUME CacheInv, NEW h \in Handles, RemoveUncached(h)
  PROVE  CacheInv'
<1>1. /\ exists' = exists \ {h} /\ Cached(h) = {} /\ FastUnlink(h, fds)
      /\ UNCHANGED <<entry, used, unused, unfilled, held, restarts>>
  BY DEF RemoveUncached
<1>2. \A t \in Slots : InLists(t) => entry[t].handle # h
  BY <1>1 DEF Cached, InLists
<1>3. /\ fds' \in [Descriptors -> Files]
      /\ \A d \in Descriptors :
            /\ fds'[d] = Closed <=> fds[d] = Closed
            /\ \A g : g # h /\ fds[d] = Current(g) => fds'[d] = Current(g)
      /\ data' \subseteq Handles /\ stranded' \subseteq Handles
      /\ toUnlink' \in Seq(Handles)
      /\ unlinker' \in {"run", "wait"} \union Handles
  BY <1>1, FastUnlinkFacts DEF CacheInv, CacheTypes
<1>4. CacheTypes'
  BY <1>1, <1>3 DEF CacheInv, CacheTypes
<1>5. QED
  BY <1>1, <1>2, <1>3, <1>4, FilesOnly

\* dbpf_dspace_create_store_handle moves a file that was left over away.
LEMMA CreateKeeps ==
  ASSUME CacheInv, NEW h \in Handles, Create(h)
  PROVE  CacheInv'
<1>1. /\ h \notin exists /\ exists' = exists \union {h}
      /\ IF h \in data THEN Rename(h, fds) ELSE UNCHANGED <<data, stranded, fds>>
      /\ UNCHANGED <<entry, used, unused, unfilled, held, toUnlink, unlinker, restarts>>
  BY DEF Create
<1>2. \A t \in Slots : InLists(t) /\ ~ entry[t].flag => entry[t].handle # h
  BY <1>1 DEF CacheInv, HandlesSound
<1>3. /\ fds' \in [Descriptors -> Files]
      /\ \A d \in Descriptors :
            /\ fds'[d] = Closed <=> fds[d] = Closed
            /\ \A g : g # h /\ fds[d] = Current(g) => fds'[d] = Current(g)
      /\ data' \subseteq Handles /\ stranded' \subseteq Handles
  <2>1. CASE h \in data
    <3>1. fds' = Renamed(fds, h) /\ data' = data \ {h} /\ stranded' = stranded \union {h}
      BY <1>1, <2>1 DEF Rename, Renamed
    <3>2. data' \subseteq Handles /\ stranded' \subseteq Handles /\ fds \in [Descriptors -> Files]
      BY <3>1 DEF CacheInv, CacheTypes
    <3>3. QED
      BY <3>1, <3>2, RenamedFacts
  <2>2. CASE h \notin data
    BY <1>1, <2>2 DEF CacheInv, CacheTypes
  <2>3. QED
    BY <2>1, <2>2
<1>4. CacheTypes'
  BY <1>1, <1>3 DEF CacheInv, CacheTypes
<1>5. QED
  BY <1>1, <1>2, <1>3, <1>4, FilesOnly

\* dbpf_open_cache_remove of an entry in use flags it.
LEMMA RemoveBusyKeeps ==
  ASSUME CacheInv, NEW h \in Handles, RemoveBusy(h)
  PROVE  CacheInv'
<1>1. PICK s \in Cached(h) : entry' = [entry EXCEPT ![s].flag = TRUE]
  BY DEF RemoveBusy
<1>2. /\ exists' = exists \ {h}
      /\ UNCHANGED <<used, unused, unfilled, held, fds, data, stranded, toUnlink, unlinker, restarts>>
  BY DEF RemoveBusy
<1>3. s \in Slots /\ entry[s].handle = h /\ InLists(s)
  BY DEF Cached, InLists
<1>4. \A t \in Slots : /\ entry'[t].handle = entry[t].handle /\ entry'[t].fd = entry[t].fd
                       /\ entry'[t].ref = entry[t].ref
                       /\ entry'[t].flag = IF t = s THEN TRUE ELSE entry[t].flag
  BY <1>1, <1>3 DEF CacheInv, CacheTypes, Entries
<1>5. /\ \A t \in Slots : InLists(t)' <=> InLists(t)
      /\ \A v \in Users : Loose(v)' <=> Loose(v)
  BY <1>2 DEF InLists, Loose
<1>6. CacheTypes'
  <2>1. entry' \in [Slots -> Entries]
    BY <1>1, <1>3 DEF CacheInv, CacheTypes, Entries
  <2>2. QED
    BY <1>2, <2>1 DEF CacheInv, CacheTypes
<1>7. ListsSound'
  BY <1>2, <1>5 DEF CacheInv, ListsSound
<1>8. Counted'
  BY <1>2, <1>4, <1>5 DEF CacheInv, Counted
<1>9. FdsSound'
  <2>1. held' = held /\ fds' = fds
    BY <1>2
  <2>2. \A t \in Slots : entry'[t].fd = entry[t].fd
    BY <1>4
  <2>3. QED
    BY <1>5, <2>1, <2>2 DEF CacheInv, FdsSound
<1>10. HandlesSound'
  BY <1>2, <1>3, <1>4, <1>5 DEF CacheInv, HandlesSound
<1>11. QED
  BY <1>6, <1>7, <1>8, <1>9, <1>10 DEF CacheInv

\* The unlink thread deletes stranded files and touches nothing else.
LEMMA UnlinkThreadKeeps ==
  ASSUME CacheInv, UnlinkThread
  PROVE  CacheInv'
<1>1. UNCHANGED <<entry, used, unused, unfilled, held, fds, data, exists>>
  BY DEF UnlinkThread, UnlinkWait, UnlinkNext, Unlink
<1>2. /\ stranded' \subseteq Handles /\ toUnlink' \in Seq(Handles)
      /\ unlinker' \in {"run", "wait"} \union Handles
  <2>1. CASE UnlinkWait
    BY <2>1 DEF UnlinkWait, CacheInv, CacheTypes
  <2>2. CASE UnlinkNext
    <3>1. Head(toUnlink) \in Handles /\ Tail(toUnlink) \in Seq(Handles)
      BY <2>2 DEF UnlinkNext, CacheInv, CacheTypes
    <3>2. QED
      BY <2>2, <3>1 DEF UnlinkNext, CacheInv, CacheTypes
  <2>3. CASE Unlink
    BY <2>3 DEF Unlink, CacheInv, CacheTypes
  <2>4. QED
    BY <2>1, <2>2, <2>3 DEF UnlinkThread
<1>3. CacheTypes'
  BY <1>1, <1>2 DEF CacheInv, CacheTypes
<1>4. /\ \A t \in Slots : InLists(t)' <=> InLists(t)
      /\ \A v \in Users : Loose(v)' <=> Loose(v)
  BY <1>1 DEF InLists, Loose
<1>5. ListsSound' /\ Counted' /\ FdsSound' /\ HandlesSound'
  BY <1>1, <1>4 DEF CacheInv, ListsSound, Counted, FdsSound, HandlesSound
<1>6. QED
  BY <1>3, <1>5 DEF CacheInv

\* A cache just initialised, with every entry on the free list and every
\* descriptor closed.
Fresh ==
    /\ entry = [s \in Slots |-> Empty]
    /\ used = <<>> /\ unused = <<>> /\ unfilled = SetToSeq(Slots)
    /\ held = [u \in Users |-> NoRef]
    /\ fds = [d \in Descriptors |-> Closed]
    /\ data \subseteq Handles /\ stranded \subseteq Handles /\ exists \subseteq Handles
    /\ toUnlink \in Seq(Handles)
    /\ unlinker = "run"

\* It satisfies the invariant, whatever files and dataspaces there are.
LEMMA FreshKeeps == Fresh => CacheInv
<1> SUFFICES ASSUME Fresh PROVE CacheInv
  OBVIOUS
<1>1. /\ Empty \in Entries /\ Empty.fd = NoFd
  <2>1. Cardinality(Users) \in Nat
    BY CacheAssumption, FS_CardinalityType
  <2>2. 0 \in 0 .. Cardinality(Users) /\ NoFd \in 0 .. MaxFd
    BY <2>1, CacheAssumption DEF NoFd
  <2>3. QED
    BY <2>2 DEF Empty, Entries
<1>2. /\ unfilled \in Seq(Slots) /\ Distinct(unfilled)
      /\ \A t \in Slots : Contains(unfilled, t)
  BY CacheAssumption, SetToSeqFacts DEF Fresh
<1>3. /\ used \in Seq(Slots) /\ Distinct(used) /\ \A t : ~ Contains(used, t)
      /\ unused \in Seq(Slots) /\ Distinct(unused) /\ \A t : ~ Contains(unused, t)
  BY EmptyFacts DEF Fresh
<1>4. \A t \in Slots : ~ InLists(t)
  BY <1>3 DEF InLists
<1>5. \A t \in Slots : Busy(held, t) = {}
  BY NoRefFacts DEF Fresh, Busy
<1>6. \A v \in Users : ~ Loose(v)
  BY NoRefFacts DEF Fresh, Loose
<1>7. CacheTypes
  <2>1. held \in [Users -> Refs] /\ fds \in [Descriptors -> Files] /\ entry \in [Slots -> Entries]
    BY <1>1, NoRefFacts DEF Fresh, Files
  <2>2. QED
    BY <1>2, <1>3, <2>1 DEF Fresh, CacheTypes
<1>8. ListsSound
  BY <1>2, <1>3, <1>4 DEF ListsSound
<1>9. Counted
  BY <1>3, <1>4, <1>5 DEF Counted
<1>10. FdsSound
  <2>1. \A s \in Slots : entry[s].fd = NoFd
    BY <1>1 DEF Fresh
  <2>2. \A d \in Descriptors : fds[d] = Closed
    BY DEF Fresh
  <2>3. QED
    BY <1>4, <1>6, <2>1, <2>2 DEF FdsSound
<1>11. HandlesSound
  BY <1>4 DEF HandlesSound
<1>12. QED
  BY <1>7, <1>8, <1>9, <1>10, <1>11 DEF CacheInv

\* The server is restarted: clear_stranded_bstreams lists what is stranded.
LEMMA RestartKeeps ==
  ASSUME CacheInv, Restart
  PROVE  Fresh'
<1>1. stranded \subseteq Handles /\ data \subseteq Handles /\ exists \subseteq Handles
  BY DEF CacheInv, CacheTypes
<1>2. SetToSeq(stranded) \in Seq(stranded)
  <2>1. IsFiniteSet(stranded)
    BY <1>1, CacheAssumption, FS_Subset
  <2>2. QED
    BY <2>1, SetToSeqFacts
<1>3. SetToSeq(stranded) \in Seq(Handles)
  BY <1>1, <1>2
<1>4. QED
  BY <1>1, <1>3 DEF Restart, Fresh

\* Entries, lists, references, descriptors and bstream files agree after every
\* step of the users, the unlink thread and a restart (dbpf-open-cache.c).
THEOREM CacheInvariant == Spec => []CacheInv
<1>1. Init => CacheInv
  <2>1. Init => Fresh
    BY DEF Init, Fresh
  <2>2. QED
    BY <2>1, FreshKeeps
<1>2. CacheInv /\ Restart => CacheInv'
  <2>1. CacheInv /\ Restart => Fresh'
    BY RestartKeeps
  <2>2. Fresh' => CacheInv'
    BY FreshKeeps, PTL
  <2>3. QED
    BY <2>1, <2>2
<1>3. CacheInv /\ [Next]_vars => CacheInv'
  <2> SUFFICES ASSUME CacheInv, [Next]_vars PROVE CacheInv'
    OBVIOUS
  <2>1. ASSUME NEW u \in Users, NEW h \in Handles, Get(u, h) PROVE CacheInv'
    BY <2>1, GetCachedKeeps, GetNewFailsKeeps, GetNewKeeps, GetUncachedKeeps DEF Get
  <2>2. ASSUME NEW u \in Users, PutCached(u) \/ PutUncached(u) PROVE CacheInv'
    BY <2>2, PutCachedKeeps, PutUncachedKeeps
  <2>3. ASSUME NEW h \in Handles, RemoveUnused(h) \/ RemoveUncached(h) \/ RemoveBusy(h) \/ Create(h)
        PROVE  CacheInv'
    BY <2>3, RemoveUnusedKeeps, RemoveUncachedKeeps, RemoveBusyKeeps, CreateKeeps
  <2>4. CASE UnlinkThread
    BY <2>4, UnlinkThreadKeeps
  <2>5. CASE Restart
    BY <1>2, <2>5
  <2>6. CASE UNCHANGED vars
    <3>1. /\ \A t \in Slots : InLists(t)' <=> InLists(t)
          /\ \A v \in Users : Loose(v)' <=> Loose(v)
      BY <2>6 DEF vars, InLists, Loose
    <3>2. CacheTypes'
      BY <2>6 DEF vars, CacheInv, CacheTypes
    <3>3. ListsSound' /\ Counted' /\ FdsSound' /\ HandlesSound'
      BY <2>6, <3>1 DEF vars, CacheInv, ListsSound, Counted, FdsSound, HandlesSound
    <3>4. QED
      BY <3>2, <3>3 DEF CacheInv
  <2>7. QED
    BY <2>1, <2>2, <2>3, <2>4, <2>5, <2>6 DEF Next
<1>4. QED
  BY <1>1, <1>3, PTL DEF Spec

-----------------------------------------------------------------------------
(* What the runs check.                                                    *)

\* No count exceeds the number of users, and every descriptor of an entry
\* exists (struct open_cache_entry).
THEOREM CacheTypeCorrect == Spec => []TypeOK
<1>1. CacheInv => TypeOK
  BY DEF CacheInv, CacheTypes, TypeOK, Entries, Refs, Files
<1>2. QED
  BY <1>1, CacheInvariant, PTL

\* ref_ct is the number of references, and an entry is on the used list as
\* long as there is one (dbpf_open_cache_get, dbpf_open_cache_put).
THEOREM ReferencesCounted == Spec => []RefsCounted
<1>1. CacheInv => RefsCounted
  <2> SUFFICES ASSUME CacheInv, NEW s \in Slots
               PROVE  LET n == Cardinality({u \in Users : held[u].slot = s}) IN
                      /\ n > 0 <=> Contains(used, s)
                      /\ InLists(s) => entry[s].ref = n
                      /\ Contains(unfilled, s) <=> ~ InLists(s)
                      /\ ~ (Contains(used, s) /\ Contains(unused, s))
    BY DEF RefsCounted
  <2>1. {u \in Users : held[u].slot = s} = Busy(held, s)
    BY DEF Busy
  <2>2. Cardinality(Busy(held, s)) > 0 <=> Busy(held, s) # {}
    BY BusyFinite
  <2>3. QED
    BY <2>1, <2>2 DEF CacheInv, Counted, ListsSound
<1>2. QED
  BY <1>1, CacheInvariant, PTL

\* An open descriptor has exactly one owner and a closed one none: none is
\* closed under its user, shared by two entries, or leaked.
THEOREM DescriptorsOwned == Spec => []FdsOwned
<1>1. CacheInv => FdsOwned
  <2> SUFFICES ASSUME CacheInv, NEW d \in Descriptors
               PROVE  Cardinality({s \in Slots : InLists(s) /\ entry[s].fd = d})
                        + Cardinality({u \in Users : held[u].slot = NoSlot /\ held[u].fd = d})
                        = IF fds[d] = Closed THEN 0 ELSE 1
    BY DEF FdsOwned
  <2> DEFINE S == {s \in Slots : InLists(s) /\ entry[s].fd = d}
             U == {u \in Users : held[u].slot = NoSlot /\ held[u].fd = d}
  <2> SUFFICES Cardinality(S) + Cardinality(U) = IF fds[d] = Closed THEN 0 ELSE 1
    OBVIOUS
  <2>1. \A u \in U : u \in Users /\ Loose(u) /\ held[u].fd = d
    BY NoRefFacts DEF Loose
  <2>2. \A u \in Users : Loose(u) /\ held[u].fd = d => u \in U
    BY DEF Loose
  <2>3. /\ \A s, t \in S : s = t
        /\ S # {} => fds[d] # Closed
    BY DEF CacheInv, FdsSound
  <2>4. /\ \A u, v \in U : u = v
        /\ U # {} => fds[d] # Closed
    BY <2>1 DEF CacheInv, FdsSound
  <2>5. S = {} \/ U = {}
    BY <2>1 DEF CacheInv, FdsSound
  <2>6. fds[d] # Closed => S # {} \/ U # {}
    BY <2>2 DEF CacheInv, FdsSound
  <2> HIDE DEF S, U
  <2>7. /\ S = {} => Cardinality(S) = 0
        /\ S # {} => Cardinality(S) = 1
        /\ U = {} => Cardinality(U) = 0
        /\ U # {} => Cardinality(U) = 1
    <3>1. \A A : A # {} /\ (\A x, y \in A : x = y) => \E x : A = {x}
      <4> SUFFICES ASSUME NEW A, A # {}, \A x, y \in A : x = y PROVE \E x : A = {x}
        OBVIOUS
      <4>1. PICK x \in A : TRUE
        OBVIOUS
      <4>2. A = {x}
        BY <4>1
      <4>3. QED
        BY <4>2
    <3>2. QED
      BY <2>3, <2>4, <3>1, FS_EmptySet, FS_Singleton, Zenon
  <2>8. CASE S # {}
    BY <2>3, <2>5, <2>7, <2>8
  <2>9. CASE S = {} /\ U # {}
    BY <2>4, <2>7, <2>9
  <2>10. CASE S = {} /\ U = {}
    BY <2>6, <2>7, <2>10
  <2>11. QED
    BY <2>8, <2>9, <2>10
<1>2. QED
  BY <1>1, CacheInvariant, PTL

\* A descriptor in the cache is of the current bstream of its handle unless a
\* removal has flagged the entry (dbpf_open_cache_remove,
\* dbpf_dspace_create_store_handle).
THEOREM CachedStaysCurrent == Spec => []CachedIsCurrent
<1>1. CacheInv => CachedIsCurrent
  BY NoRefFacts DEF CacheInv, CachedIsCurrent, HandlesSound, FdsSound
<1>2. QED
  BY <1>1, CacheInvariant, PTL
=============================================================================
