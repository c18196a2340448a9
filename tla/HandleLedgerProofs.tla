------------------------- MODULE HandleLedgerProofs -------------------------
(***************************************************************************)
(* Proofs about HandleLedger, for any configured ranges, any requests and  *)
(* any number of threads: the extents of a list stay apart, a handle is in *)
(* one place, the counters of the lists are right, and the ledger          *)
(* implements HandlePool.                                                  *)
(***************************************************************************)
EXTENDS HandleLedger, FiniteSetTheorems, WellFoundedInduction, TLAPS

-----------------------------------------------------------------------------
(* Numbers and finite sets.                                                *)

\* A set of natural numbers has a least one; the inductions below take a least
\* counterexample.
LEMMA NatMin ==
  ASSUME NEW S \in SUBSET Nat, S # {}
  PROVE  \E x \in S : \A y \in S : x <= y
<1>1. PICK x \in S : \A y \in S : ~ (<<y, x>> \in OpToRel(<, Nat))
  BY NatLessThanWellFounded, WFMin
<1>2. \A y \in S : <<y, x>> \in OpToRel(<, Nat) <=> y < x
  BY DEF OpToRel
<1>3. \A y \in S : ~ (y < x)
  BY <1>1, <1>2, Zenon
<1>4. \A y \in S : x <= y
  BY <1>3
<1>5. QED
  BY <1>4

\* A finite set of integers has a greatest one.
LEMMA FiniteMax ==
  ASSUME NEW S \in SUBSET Int, IsFiniteSet(S), S # {}
  PROVE  \E m \in S : \A x \in S : x <= m
<1> DEFINE Best(T) == \E m \in T : \A x \in T : x <= m
           Bad == {n \in Nat : \E T \in SUBSET Int :
                     IsFiniteSet(T) /\ T # {} /\ Cardinality(T) = n /\ ~ Best(T)}
<1>1. Bad = {}
  <2> SUFFICES ASSUME Bad # {} PROVE FALSE
    OBVIOUS
  <2>1. PICK n \in Bad : \A k \in Bad : n <= k
    BY NatMin
  <2>2. PICK T \in SUBSET Int :
          IsFiniteSet(T) /\ T # {} /\ Cardinality(T) = n /\ ~ Best(T)
    OBVIOUS
  <2>3. PICK x \in T : TRUE
    BY <2>2
  <2> DEFINE R == T \ {x}
  <2>4. IsFiniteSet(R) /\ Cardinality(R) = n - 1 /\ Cardinality(R) \in Nat /\ R \in SUBSET Int
    BY <2>2, <2>3, FS_RemoveElement, FS_CardinalityType
  <2>5. R # {}
    <3>1. R = {} => T = {x}
      BY <2>3
    <3>2. T = {x} => Best(T)
      OBVIOUS
    <3>3. QED
      BY <2>2, <3>1, <3>2
  <2>6. Best(R)
    <3>1. n - 1 \notin Bad
      BY <2>1, <2>4
    <3>2. QED
      BY <2>4, <2>5, <3>1
  <2>7. PICK m \in R : \A y \in R : y <= m
    BY <2>6
  <2>8. IF m <= x THEN \A y \in T : y <= x ELSE \A y \in T : y <= m
    BY <2>7
  <2>9. Best(T)
    BY <2>3, <2>7, <2>8
  <2>10. QED
    BY <2>2, <2>9
<1>2. Cardinality(S) \in Nat
  BY FS_CardinalityType
<1>3. QED
  BY <1>1, <1>2

-----------------------------------------------------------------------------
(* Extents and lists of extents (trove-extentlist.c).                      *)

\* The handles of a set of extents; Covered(l) is Cov(l.index).
Cov(I) == UNION {Members(e) : e \in I}

\* ExtentsApart, of one list.
Apart(I) == \A e, f \in I : e # f => e.last + 1 < f.first \/ f.last + 1 < e.first

\* The index of a list of the ledger.
Sound(I) == I \subseteq Extents /\ Apart(I) /\ Cov(I) \subseteq Handles

\* The configured handles are finitely many positive numbers
\* (trove_handle_mgmt's handle ranges).
LEMMA HandlesFinite == IsFiniteSet(Handles) /\ Handles \subseteq Nat \ {0}
<1> DEFINE f == [r \in Ranges |-> Members(r)]
           S == {Members(r) : r \in Ranges}
<1>1. f \in Surjection(Ranges, S)
  BY DEF Surjection
<1>2. IsFiniteSet(S)
  BY <1>1, FS_Surjection, RangesAssumption
<1>3. \A T \in S : IsFiniteSet(T)
  BY FS_Interval, RangesAssumption DEF Members
<1>4. IsFiniteSet(Handles)
  BY <1>2, <1>3, FS_UNION DEF Handles
<1>5. Handles \subseteq Nat \ {0}
  BY RangesAssumption DEF Handles, Members
<1>6. QED
  BY <1>4, <1>5

\* What an extent is.
LEMMA ExtentFacts ==
  /\ \A e \in Extents : /\ e.first \in Handles /\ e.last \in Handles /\ e.first <= e.last
                        /\ e.first \in Nat /\ e.last \in Nat /\ e = Extent(e.first, e.last)
                        /\ e.first \in Members(e) /\ e.last \in Members(e)
  /\ \A a, b \in Handles : a <= b => /\ Extent(a, b) \in Extents
                                     /\ Extent(a, b).first = a /\ Extent(a, b).last = b
  /\ \A r \in Ranges : r \in Extents
<1>1. \A e \in Extents : /\ e.first \in Handles /\ e.last \in Handles /\ e.first <= e.last
                         /\ e = Extent(e.first, e.last)
  BY DEF Extents, Extent
<1>2. \A a, b \in Handles : a <= b => /\ Extent(a, b) \in Extents
                                      /\ Extent(a, b).first = a /\ Extent(a, b).last = b
  BY DEF Extents, Extent
<1>3. \A r \in Ranges : r.first \in Handles /\ r.last \in Handles
  BY RangesAssumption DEF Handles, Members
<1>4. \A r \in Ranges : r \in Extents
  BY <1>2, <1>3, RangesAssumption
<1>5. \A e \in Extents : e.first \in Nat /\ e.last \in Nat
  BY <1>1, HandlesFinite
<1>6. \A e \in Extents : e.first \in Members(e) /\ e.last \in Members(e)
  BY <1>1, <1>5 DEF Members
<1>7. QED
  BY <1>1, <1>2, <1>4, <1>5, <1>6

\* When a handle lies in a set of extents.
LEMMA InCov ==
  ASSUME NEW I \in SUBSET Extents
  PROVE  \A x : x \in Cov(I) <=> x \in Int /\ \E e \in I : e.first <= x /\ x <= e.last
BY ExtentFacts DEF Cov, Members

\* There are finitely many extents.
LEMMA ExtentsFinite == IsFiniteSet(Extents)
<1> DEFINE P == Handles \X Handles
           S == {Extent(a, b) : a \in Handles, b \in Handles}
           f == [p \in P |-> Extent(p[1], p[2])]
<1>1. IsFiniteSet(P)
  BY HandlesFinite, FS_Product
<1>2. f \in Surjection(P, S)
  <2>1. f \in [P -> S]
    OBVIOUS
  <2>2. ASSUME NEW t \in S PROVE \E p \in P : f[p] = t
    <3>1. PICK a \in Handles, b \in Handles : t = Extent(a, b)
      OBVIOUS
    <3>2. <<a, b>> \in P /\ f[<<a, b>>] = t
      BY <3>1
    <3>3. QED
      BY <3>2
  <2>3. QED
    BY <2>1, <2>2 DEF Surjection
<1>3. IsFiniteSet(S)
  BY <1>1, <1>2, FS_Surjection
<1>4. Extents \in SUBSET S
  BY DEF Extents
<1>5. QED
  BY <1>3, <1>4, FS_Subset

\* extentlist_coalesce_extent and avlinsert: an extent of handles that are not in
\* the list is added, joined with the one below and the one above if they touch.
LEMMA CoalescedFacts ==
  ASSUME NEW I, Sound(I), NEW e \in Extents,
         Members(e) \subseteq Handles, Members(e) \cap Cov(I) = {}
  PROVE  Sound(Coalesced(I, e)) /\ Cov(Coalesced(I, e)) = Cov(I) \cup Members(e)
<1> DEFINE lesser  == {x \in I : x.last = e.first - 1}
           greater == {x \in I : x.first = e.last + 1}
           low  == IF lesser = {} THEN e.first ELSE (CHOOSE x \in lesser : TRUE).first
           high == IF greater = {} THEN e.last ELSE (CHOOSE x \in greater : TRUE).last
           rest == I \ (lesser \cup greater)
           u == Extent(low, high)
<1>1. /\ e.first \in Nat /\ e.last \in Nat /\ e.first <= e.last
      /\ e.first \in Handles /\ e.last \in Handles
  BY ExtentFacts
<1>2. \A x \in I : /\ x.first \in Nat /\ x.last \in Nat /\ x.first <= x.last
                   /\ x.first \in Handles /\ x.last \in Handles /\ x \in Extents
  BY ExtentFacts DEF Sound
<1>3. \A x, y \in I : x # y => x.last + 1 < y.first \/ y.last + 1 < x.first
  BY DEF Sound, Apart
<1>4. \A x \in I : x.last < e.first \/ e.last < x.first
  <2> SUFFICES ASSUME NEW x \in I, e.first <= x.last, x.first <= e.last PROVE FALSE
    BY <1>1, <1>2
  <2> DEFINE p == IF x.first <= e.first THEN e.first ELSE x.first
  <2>1. p \in Int /\ x.first <= p /\ p <= x.last /\ e.first <= p /\ p <= e.last
    BY <1>1, <1>2
  <2>2. p \in Cov(I) /\ p \in Members(e)
    BY <2>1, InCov DEF Sound, Members
  <2>3. QED
    BY <2>2
<1>5. \/ lesser = {} /\ low = e.first
      \/ \E a \in I : lesser = {a} /\ low = a.first /\ a.last = e.first - 1
  <2>1. CASE lesser = {}
    BY <2>1
  <2>2. CASE lesser # {}
    <3>1. PICK a \in lesser : a = CHOOSE x \in lesser : TRUE
      BY <2>2
    <3>2. \A y \in lesser : y = a
      BY <1>2, <1>3, <3>1
    <3>3. lesser = {a}
      BY <3>2
    <3>4. QED
      BY <2>2, <3>1, <3>3
  <2>3. QED
    BY <2>1, <2>2
<1>6. \/ greater = {} /\ high = e.last
      \/ \E b \in I : greater = {b} /\ high = b.last /\ b.first = e.last + 1
  <2>1. CASE greater = {}
    BY <2>1
  <2>2. CASE greater # {}
    <3>1. PICK b \in greater : b = CHOOSE x \in greater : TRUE
      BY <2>2
    <3>2. \A y \in greater : y = b
      BY <1>2, <1>3, <3>1
    <3>3. greater = {b}
      BY <3>2
    <3>4. QED
      BY <2>2, <3>1, <3>3
  <2>3. QED
    BY <2>1, <2>2
<1>7. Coalesced(I, e) = Inserted(rest, u)
  BY DEF Coalesced
<1>8. /\ low \in Handles /\ high \in Handles /\ low \in Nat /\ high \in Nat
      /\ low <= e.first /\ e.last <= high
      /\ lesser \subseteq I /\ greater \subseteq I
  <2>1. low \in Handles /\ low \in Nat /\ low <= e.first
    BY <1>1, <1>2, <1>5
  <2>2. high \in Handles /\ high \in Nat /\ e.last <= high
    BY <1>1, <1>2, <1>6
  <2>3. QED
    BY <2>1, <2>2
<1>9. \A x \in rest : /\ x \in I /\ x.last # e.first - 1 /\ x.first # e.last + 1
                      /\ x \notin lesser /\ x \notin greater
  OBVIOUS
<1>10. \A x \in I : x \in rest \/ x \in lesser \/ x \in greater
  OBVIOUS
<1>11. \A x : /\ x \in lesser => x \in I /\ x.last = e.first - 1
              /\ x \in greater => x \in I /\ x.first = e.last + 1
  OBVIOUS
<1> HIDE DEF lesser, greater, low, high, rest
<1>12. \A x \in rest : x.last + 1 < low \/ high + 1 < x.first
  <2> SUFFICES ASSUME NEW x \in rest PROVE x.last + 1 < low \/ high + 1 < x.first
    OBVIOUS
  <2>1. x.first \in Nat /\ x.last \in Nat /\ x.first <= x.last
    BY <1>2, <1>9
  <2>2. x.last + 1 < e.first \/ e.last + 1 < x.first
    BY <1>1, <1>4, <1>9, <2>1
  <2>3. x.last + 1 < e.first => x.last + 1 < low
    <3>1. CASE lesser = {} /\ low = e.first
      BY <3>1
    <3>2. CASE \E a \in I : lesser = {a} /\ low = a.first /\ a.last = e.first - 1
      <4>1. PICK a \in I : lesser = {a} /\ low = a.first /\ a.last = e.first - 1
        BY <3>2
      <4>2. x.last + 1 < a.first \/ a.last + 1 < x.first
        BY <1>3, <1>9, <4>1
      <4>3. QED
        BY <1>1, <1>2, <2>1, <4>1, <4>2
    <3>3. QED
      BY <1>5, <3>1, <3>2
  <2>4. e.last + 1 < x.first => high + 1 < x.first
    <3>1. CASE greater = {} /\ high = e.last
      BY <3>1
    <3>2. CASE \E b \in I : greater = {b} /\ high = b.last /\ b.first = e.last + 1
      <4>1. PICK b \in I : greater = {b} /\ high = b.last /\ b.first = e.last + 1
        BY <3>2
      <4>2. x.last + 1 < b.first \/ b.last + 1 < x.first
        BY <1>3, <1>9, <4>1
      <4>3. QED
        BY <1>1, <1>2, <2>1, <4>1, <4>2
    <3>3. QED
      BY <1>6, <3>1, <3>2
  <2>5. QED
    BY <2>2, <2>3, <2>4
<1>13. u \in Extents /\ u.first = low /\ u.last = high
  BY <1>1, <1>8, ExtentFacts
<1>14. Inserted(rest, u) = rest \cup {u}
  <2>1. \A x \in rest : x.first # u.first
    BY <1>1, <1>2, <1>8, <1>9, <1>12, <1>13
  <2>2. QED
    BY <2>1 DEF Inserted
<1> HIDE DEF u
<1>15. rest \cup {u} \subseteq Extents
  BY <1>2, <1>9, <1>13
<1>16. Apart(rest \cup {u})
  <2> SUFFICES ASSUME NEW x \in rest \cup {u}, NEW y \in rest \cup {u}, x # y
               PROVE  x.last + 1 < y.first \/ y.last + 1 < x.first
    BY DEF Apart
  <2>1. CASE x \in rest /\ y \in rest
    BY <1>3, <1>9, <2>1
  <2>2. CASE x \in rest /\ y = u
    BY <1>12, <1>13, <2>2
  <2>3. CASE x = u /\ y \in rest
    BY <1>12, <1>13, <2>3
  <2>4. QED
    BY <2>1, <2>2, <2>3
<1>17. Cov(rest \cup {u}) = Cov(I) \cup Members(e)
  <2>1. ASSUME NEW z, z \in Cov(rest \cup {u}) PROVE z \in Cov(I) \cup Members(e)
    <3>1. PICK x \in rest \cup {u} : z \in Int /\ x.first <= z /\ z <= x.last
      BY <1>15, <2>1, InCov
    <3>2. CASE x \in rest
      BY <1>9, <3>1, <3>2, InCov DEF Sound
    <3>3. CASE x = u
      <4>1. low <= z /\ z <= high /\ z \in Int
        BY <1>13, <3>1, <3>3
      <4>2. CASE e.first <= z /\ z <= e.last
        BY <4>1, <4>2 DEF Members
      <4>3. CASE z < e.first
        <5>1. PICK a \in I : lesser = {a} /\ low = a.first /\ a.last = e.first - 1
          BY <1>1, <1>5, <4>1, <4>3
        <5>2. a.first <= z /\ z <= a.last
          BY <1>1, <1>2, <4>1, <4>3, <5>1
        <5>3. QED
          BY <4>1, <5>2, InCov DEF Sound
      <4>4. CASE e.last < z
        <5>1. PICK b \in I : greater = {b} /\ high = b.last /\ b.first = e.last + 1
          BY <1>1, <1>6, <4>1, <4>4
        <5>2. b.first <= z /\ z <= b.last
          BY <1>1, <1>2, <4>1, <4>4, <5>1
        <5>3. QED
          BY <4>1, <5>2, InCov DEF Sound
      <4>5. QED
        BY <1>1, <4>1, <4>2, <4>3, <4>4
    <3>4. QED
      BY <3>2, <3>3
  <2>2. ASSUME NEW z, z \in Cov(I) PROVE z \in Cov(rest \cup {u})
    <3>1. PICK x \in I : z \in Int /\ x.first <= z /\ z <= x.last
      BY <2>2, InCov DEF Sound
    <3>2. CASE x \in rest
      BY <1>15, <3>1, <3>2, InCov
    <3>3. CASE x \in lesser
      <4>1. low <= z /\ z <= high
        BY <1>1, <1>2, <1>5, <1>8, <1>11, <3>1, <3>3
      <4>2. QED
        BY <1>13, <1>15, <3>1, <4>1, InCov
    <3>4. CASE x \in greater
      <4>1. low <= z /\ z <= high
        BY <1>1, <1>2, <1>6, <1>8, <1>11, <3>1, <3>4
      <4>2. QED
        BY <1>13, <1>15, <3>1, <4>1, InCov
    <3>5. QED
      BY <1>10, <3>2, <3>3, <3>4
  <2>3. ASSUME NEW z, z \in Members(e) PROVE z \in Cov(rest \cup {u})
    <3>1. z \in Int /\ low <= z /\ z <= high
      BY <1>1, <1>8, <2>3 DEF Members
    <3>2. QED
      BY <1>13, <1>15, <3>1, InCov
  <2>4. QED
    BY <2>1, <2>2, <2>3
<1>18. QED
  BY <1>7, <1>14, <1>15, <1>16, <1>17 DEF Sound

\* The sets of handles that are counted are finite.
LEMMA CovFinite ==
  ASSUME NEW S \in SUBSET Handles
  PROVE  IsFiniteSet(S) /\ Cardinality(S) \in Nat
BY HandlesFinite, FS_Subset, FS_CardinalityType

\* Two sets of handles without a common one are counted together.
LEMMA CountApart ==
  ASSUME NEW S \in SUBSET Handles, NEW T \in SUBSET Handles, S \cap T = {}
  PROVE  Cardinality(S \cup T) = Cardinality(S) + Cardinality(T)
<1>1. IsFiniteSet(S) /\ IsFiniteSet(T) /\ Cardinality(S) \in Nat /\ Cardinality(T) \in Nat
  BY CovFinite
<1>2. Cardinality(S \cup T) = Cardinality(S) + Cardinality(T) - Cardinality(S \cap T)
  BY <1>1, FS_Union
<1>3. Cardinality(S \cap T) = 0
  BY FS_EmptySet
<1>4. QED
  BY <1>1, <1>2, <1>3

\* A list of the ledger.
ListRecords == [index : SUBSET Extents, num : Nat]
SoundList(l) == l \in ListRecords /\ Sound(l.index)

\* extentlist_addextent: what the list covers and counts grows by the extent.
LEMMA AddedFacts ==
  ASSUME NEW l, SoundList(l), NEW e \in Extents,
         Members(e) \subseteq Handles, Members(e) \cap Covered(l) = {}
  PROVE  /\ SoundList(Added(l, e))
         /\ Covered(Added(l, e)) = Covered(l) \cup Members(e)
         /\ Added(l, e).num = l.num + Cardinality(Members(e))
         /\ Cardinality(Covered(Added(l, e))) = Cardinality(Covered(l)) + Cardinality(Members(e))
<1>1. Covered(l) = Cov(l.index) /\ Covered(l) \subseteq Handles
  BY DEF Covered, Cov, SoundList, Sound
<1>2. /\ Sound(Coalesced(l.index, e))
      /\ Cov(Coalesced(l.index, e)) = Cov(l.index) \cup Members(e)
  BY <1>1, CoalescedFacts DEF SoundList
<1>3. Cardinality(Members(e)) = e.last - e.first + 1 /\ Cardinality(Members(e)) \in Nat
  <2>1. e.first \in Int /\ e.last \in Int /\ e.first <= e.last
    BY ExtentFacts
  <2>2. QED
    BY <2>1, FS_Interval DEF Members
<1>4. Added(l, e).index = Coalesced(l.index, e) /\ Added(l, e).num = l.num + (e.last - e.first + 1)
  BY DEF Added
<1>5. Added(l, e) \in ListRecords
  BY <1>2, <1>3, ExtentFacts DEF Added, ListRecords, SoundList, Sound
<1>6. Covered(Added(l, e)) = Covered(l) \cup Members(e)
  BY <1>1, <1>2, <1>4 DEF Covered, Cov
<1>7. Cardinality(Covered(Added(l, e))) = Cardinality(Covered(l)) + Cardinality(Members(e))
  BY <1>1, <1>6, CountApart
<1>8. QED
  BY <1>2, <1>3, <1>4, <1>5, <1>6, <1>7 DEF SoundList

-----------------------------------------------------------------------------
(* The folds (extentlist_merge, trove_map_handle_ranges): a fold over a    *)
(* finite set is the value of a function that exists, and what it yields   *)
(* is found by taking a least counterexample.                              *)

Picked(s) == CHOOSE x \in s : TRUE

IsTaking(base, U, g) ==
  g = [s \in SUBSET U |-> IF s = {} THEN base ELSE Without(g[s \ {Picked(s)}], Picked(s))]

IsMerge(dest, I, g) ==
  g = [s \in SUBSET I |-> IF s = {} THEN dest ELSE Added(g[s \ {Picked(s)}], Picked(s))]

\* What a fold leaves for later has one element less.
LEMMA PartFacts ==
  ASSUME NEW I, IsFiniteSet(I), NEW s \in SUBSET I
  PROVE  /\ IsFiniteSet(s) /\ Cardinality(s) \in Nat
         /\ s # {} => /\ Picked(s) \in s
                      /\ Cardinality(s \ {Picked(s)}) = Cardinality(s) - 1
                      /\ Cardinality(s \ {Picked(s)}) \in Nat
<1>1. IsFiniteSet(s) /\ Cardinality(s) \in Nat
  BY FS_Subset, FS_CardinalityType
<1>2. s # {} => Picked(s) \in s
  BY DEF Picked
<1>3. /\ IsFiniteSet(s \ {Picked(s)})
      /\ Picked(s) \in s => Cardinality(s \ {Picked(s)}) = Cardinality(s) - 1
  BY <1>1, FS_RemoveElement
<1>4. Cardinality(s \ {Picked(s)}) \in Nat
  BY <1>3, FS_CardinalityType
<1>5. QED
  BY <1>1, <1>2, <1>3, <1>4

\* The function that Merged evaluates exists.
LEMMA MergeExists ==
  ASSUME NEW dest, NEW I, IsFiniteSet(I)
  PROVE  \E g : IsMerge(dest, I, g)
<1> DEFINE D(n) == {s \in SUBSET I : Cardinality(s) <= n}
           On(n, g) == g = [s \in D(n) |-> IF s = {} THEN dest
                                          ELSE Added(g[s \ {Picked(s)}], Picked(s))]
           Bad == {n \in Nat : ~ \E g : On(n, g)}
<1>1. \E g : On(0, g)
  <2> DEFINE g == [s \in D(0) |-> dest]
  <2>1. \A s \in D(0) : s = {}
    <3> SUFFICES ASSUME NEW s \in SUBSET I, Cardinality(s) <= 0 PROVE s = {}
      OBVIOUS
    <3>1. Cardinality(s) \in Nat /\ IsFiniteSet(s)
      BY PartFacts
    <3>2. Cardinality(s) = 0
      BY <3>1
    <3>3. QED
      BY <3>1, <3>2, FS_EmptySet
  <2>2. On(0, g)
    BY <2>1
  <2>3. QED
    BY <2>2
<1>2. ASSUME NEW n \in Nat, NEW g, On(n, g) PROVE \E h : On(n + 1, h)
  <2> DEFINE h == [s \in D(n + 1) |-> IF s = {} THEN dest
                                     ELSE Added(g[s \ {Picked(s)}], Picked(s))]
  <2>1. \A s \in SUBSET I : Cardinality(s) <= n => Cardinality(s) <= n + 1
    <3> SUFFICES ASSUME NEW s \in SUBSET I, Cardinality(s) <= n PROVE Cardinality(s) <= n + 1
      OBVIOUS
    <3>1. Cardinality(s) \in Nat
      BY PartFacts
    <3>2. QED
      BY <3>1
  <2>2. \A s \in SUBSET I : s # {} /\ Cardinality(s) <= n + 1 => Cardinality(s \ {Picked(s)}) <= n
    <3> SUFFICES ASSUME NEW s \in SUBSET I, s # {}, Cardinality(s) <= n + 1
                 PROVE  Cardinality(s \ {Picked(s)}) <= n
      OBVIOUS
    <3>1. Cardinality(s) \in Nat /\ Cardinality(s \ {Picked(s)}) = Cardinality(s) - 1
      BY PartFacts
    <3>2. QED
      BY <3>1
  <2>3. \A s \in D(n) : s \in D(n + 1) /\ h[s] = g[s]
    BY <1>2, <2>1
  <2>4. \A s \in D(n + 1) : s # {} => s \ {Picked(s)} \in D(n)
    BY <2>2
  <2>5. On(n + 1, h)
    BY <2>3, <2>4
  <2>6. QED
    BY <2>5
<1> HIDE DEF D, On
<1>3. Bad = {}
  <2> SUFFICES ASSUME Bad # {} PROVE FALSE
    OBVIOUS
  <2>1. PICK n \in Bad : \A k \in Bad : n <= k
    BY NatMin
  <2>2. n \in Nat /\ n # 0
    BY <1>1
  <2>3. n - 1 \in Nat /\ (n - 1) + 1 = n /\ ~ (n <= n - 1)
    BY <2>2
  <2>4. PICK g : On(n - 1, g)
    BY <2>1, <2>3
  <2>5. \E h : On((n - 1) + 1, h)
    BY <1>2, <2>3, <2>4
  <2>6. QED
    BY <2>3, <2>5
<1>4. Cardinality(I) \in Nat
  BY FS_CardinalityType
<1>5. PICK g : On(Cardinality(I), g)
  BY <1>3, <1>4
<1>6. D(Cardinality(I)) = SUBSET I
  BY FS_Subset DEF D
<1>7. QED
  BY <1>5, <1>6 DEF IsMerge, On

\* extentlist_merge: the destination gets the extents of the source, whatever the
\* order in which they are added, and its count what they hold.
LEMMA MergedFacts ==
  ASSUME NEW dest, SoundList(dest), NEW src, Sound(src.index),
         Covered(dest) \cap Cov(src.index) = {}
  PROVE  /\ SoundList(Merged(dest, src))
         /\ Covered(Merged(dest, src)) = Covered(dest) \cup Cov(src.index)
         /\ Merged(dest, src).num = dest.num + Cardinality(Cov(src.index))
<1> DEFINE I == src.index
           F == CHOOSE h : IsMerge(dest, I, h)
           Right(s) == /\ SoundList(F[s])
                       /\ Covered(F[s]) = Covered(dest) \cup Cov(s)
                       /\ F[s].num = dest.num + Cardinality(Cov(s))
           Bad == {n \in Nat : \E s \in SUBSET I : Cardinality(s) = n /\ ~ Right(s)}
<1>1. Merged(dest, src) = F[I]
  BY Zenon DEF Merged, FoldSet, MapThenFoldSet, IsMerge, Picked
<1>2. IsFiniteSet(I)
  BY ExtentsFinite, FS_Subset DEF Sound
<1>3. IsMerge(dest, I, F)
  BY <1>2, MergeExists
<1>4. \A s \in SUBSET I : F[s] = IF s = {} THEN dest ELSE Added(F[s \ {Picked(s)}], Picked(s))
  BY <1>3 DEF IsMerge
<1> HIDE DEF F
<1>5. \A s \in SUBSET I : /\ IsFiniteSet(s) /\ Cardinality(s) \in Nat
                          /\ s \subseteq Extents /\ Apart(s) /\ Cov(s) \subseteq Handles
                          /\ Cov(s) \subseteq Cov(I)
  BY <1>2, FS_Subset, FS_CardinalityType DEF Sound, Apart, Cov
<1>6. Bad = {}
  <2> SUFFICES ASSUME Bad # {} PROVE FALSE
    OBVIOUS
  <2>1. PICK n \in Bad : \A k \in Bad : n <= k
    BY NatMin
  <2>2. PICK s \in SUBSET I : Cardinality(s) = n /\ ~ Right(s)
    OBVIOUS
  <2>3. CASE s = {}
    <3>1. Cov(s) = {} /\ Cardinality(Cov(s)) = 0
      BY <2>3, FS_EmptySet DEF Cov
    <3>2. F[s] = dest
      BY <1>4, <2>3
    <3>3. Right(s)
      BY <3>1, <3>2 DEF SoundList, ListRecords
    <3>4. QED
      BY <2>2, <3>3
  <2>4. CASE s # {}
    <3> DEFINE x == Picked(s)
               t == s \ {x}
    <3>1. x \in s /\ t \in SUBSET I /\ x \in I
      BY <2>4 DEF Picked
    <3>2. F[s] = Added(F[t], x)
      BY <1>4, <2>4
    <3>3. Cardinality(t) = n - 1 /\ Cardinality(t) \in Nat
      BY <1>5, <2>2, <3>1, FS_RemoveElement
    <3>4. Right(t)
      <4>1. n \in Nat /\ ~ (n <= n - 1)
        OBVIOUS
      <4>2. n - 1 \notin Bad
        BY <2>1, <4>1
      <4>3. QED
        BY <3>1, <3>3, <4>2
    <3>5. x \in Extents /\ Members(x) \subseteq Handles /\ Members(x) \subseteq Cov(I)
      BY <3>1 DEF Sound, Cov
    <3>6. Cov(s) = Cov(t) \cup Members(x)
      BY <3>1 DEF Cov
    <3>7. Members(x) \cap Cov(t) = {}
      <4> SUFFICES ASSUME NEW z \in Members(x), z \in Cov(t) PROVE FALSE
        OBVIOUS
      <4>1. PICK y \in t : z \in Int /\ y.first <= z /\ z <= y.last
        BY <1>5, <3>1, InCov
      <4>2. x.first <= z /\ z <= x.last
        BY DEF Members
      <4>3. y \in I /\ y # x
        BY <3>1, <4>1
      <4>4. x.last + 1 < y.first \/ y.last + 1 < x.first
        BY <3>1, <4>3 DEF Sound, Apart
      <4>5. /\ x.first \in Nat /\ x.last \in Nat /\ y.first \in Nat /\ y.last \in Nat
        BY <3>5, <4>3, ExtentFacts DEF Sound
      <4>6. QED
        BY <4>1, <4>2, <4>4, <4>5
    <3> HIDE DEF x, t
    <3>8. Covered(F[t]) = Covered(dest) \cup Cov(t)
      BY <3>4
    <3>9. Members(x) \cap Covered(F[t]) = {}
      BY <3>5, <3>7, <3>8
    <3>10. /\ SoundList(Added(F[t], x))
           /\ Covered(Added(F[t], x)) = Covered(F[t]) \cup Members(x)
           /\ Added(F[t], x).num = F[t].num + Cardinality(Members(x))
      BY <3>4, <3>5, <3>9, AddedFacts
    <3>11. Cardinality(Cov(s)) = Cardinality(Cov(t)) + Cardinality(Members(x))
      BY <1>5, <3>1, <3>5, <3>6, <3>7, CountApart
    <3>12. /\ Cardinality(Cov(t)) \in Nat /\ Cardinality(Members(x)) \in Nat /\ dest.num \in Nat
      BY <1>5, <3>1, <3>5, CovFinite DEF SoundList, ListRecords
    <3>13. F[s].num = dest.num + Cardinality(Cov(s))
      BY <3>2, <3>4, <3>10, <3>11, <3>12
    <3>14. Covered(F[s]) = Covered(dest) \cup Cov(s)
      BY <3>2, <3>6, <3>8, <3>10
    <3>15. QED
      BY <2>2, <3>2, <3>10, <3>13, <3>14
  <2>5. QED
    BY <2>3, <2>4
<1>7. Right(I)
  BY <1>5, <1>6
<1>8. QED
  BY <1>1, <1>7

-----------------------------------------------------------------------------
(* Taking handles out of a list.                                           *)

\* The extents of a sound list that has a handle: one holds it, the others are
\* apart from that one.
LEMMA HolderFacts ==
  ASSUME NEW I, Sound(I), NEW e \in I
  PROVE  /\ e.first \in Nat /\ e.last \in Nat /\ e.first <= e.last
         /\ Members(e) \subseteq Handles
         /\ \A x \in I \ {e} : /\ x \in Extents /\ x.first \in Nat /\ x.last \in Nat
                               /\ x.first <= x.last
                               /\ x.last + 1 < e.first \/ e.last + 1 < x.first
<1>1. Members(e) \subseteq Handles
  BY DEF Sound, Cov
<1>2. \A x \in I \ {e} : x.last + 1 < e.first \/ e.last + 1 < x.first
  BY DEF Sound, Apart
<1>3. \A x \in I : /\ x \in Extents /\ x.first \in Nat /\ x.last \in Nat
                   /\ x.first <= x.last
  BY ExtentFacts DEF Sound
<1>4. QED
  BY <1>1, <1>2, <1>3

\* The parts P of an extent e.
PartsOf(P, e) ==
  P \subseteq Extents /\ Apart(P) /\ \A p \in P : e.first <= p.first /\ p.last <= e.last

\* An extent is replaced by parts of it that are apart: the list stays sound.
LEMMA CutFacts ==
  ASSUME NEW I, Sound(I), NEW e \in I, NEW P, PartsOf(P, e)
  PROVE  /\ Sound((I \ {e}) \cup P)
         /\ Cov((I \ {e}) \cup P) = (Cov(I) \ Members(e)) \cup Cov(P)
<1> DEFINE J == (I \ {e}) \cup P
<1> USE DEF PartsOf
<1>1. /\ e.first \in Nat /\ e.last \in Nat /\ e.first <= e.last
      /\ Members(e) \subseteq Handles
      /\ \A x \in I \ {e} : /\ x \in Extents /\ x.first \in Nat /\ x.last \in Nat
                            /\ x.first <= x.last
                            /\ x.last + 1 < e.first \/ e.last + 1 < x.first
  BY HolderFacts
<1>2. \A p \in P : p.first \in Nat /\ p.last \in Nat /\ p.first <= p.last
  BY ExtentFacts
<1>3. J \subseteq Extents
  BY <1>1
<1>4. Apart(J)
  <2> SUFFICES ASSUME NEW x \in J, NEW y \in J, x # y
               PROVE  x.last + 1 < y.first \/ y.last + 1 < x.first
    BY DEF Apart
  <2>1. CASE x \in I \ {e} /\ y \in I \ {e}
    BY <2>1 DEF Sound, Apart
  <2>2. CASE x \in P /\ y \in P
    BY <2>2 DEF Apart
  <2>3. CASE x \in I \ {e} /\ y \in P
    BY <1>1, <1>2, <2>3
  <2>4. CASE x \in P /\ y \in I \ {e}
    BY <1>1, <1>2, <2>4
  <2>5. QED
    BY <2>1, <2>2, <2>3, <2>4
<1>5. Cov(P) \subseteq Members(e)
  BY <1>1, <1>2, InCov DEF Members
<1>6. Cov(I \ {e}) = Cov(I) \ Members(e)
  <2>1. ASSUME NEW z, z \in Cov(I \ {e}) PROVE z \in Cov(I) /\ z \notin Members(e)
    <3>1. PICK x \in I \ {e} : z \in Int /\ x.first <= z /\ z <= x.last
      BY <1>1, <2>1, InCov
    <3>2. z \in Cov(I)
      BY <3>1, InCov DEF Sound
    <3>3. z \notin Members(e)
      BY <1>1, <3>1 DEF Members
    <3>4. QED
      BY <3>2, <3>3
  <2>2. ASSUME NEW z, z \in Cov(I), z \notin Members(e) PROVE z \in Cov(I \ {e})
    BY <2>2 DEF Cov
  <2>3. QED
    BY <2>1, <2>2
<1>7. Cov(J) = Cov(I \ {e}) \cup Cov(P)
  BY DEF Cov
<1>8. Cov(J) \subseteq Handles
  BY <1>1, <1>5, <1>6, <1>7 DEF Sound
<1>9. QED
  BY <1>3, <1>4, <1>6, <1>7, <1>8 DEF Sound

\* extentlist_handle_remove: the list loses the handle and nothing else, its count
\* stays.
LEMMA WithoutFacts ==
  ASSUME NEW l, SoundList(l), NEW h \in Covered(l)
  PROVE  /\ SoundList(Without(l, h))
         /\ Covered(Without(l, h)) = Covered(l) \ {h}
         /\ Without(l, h).num = l.num
<1> DEFINE I == l.index
           e == CHOOSE x \in I : h \in Members(x)
           a == Extent(e.first, h - 1)
           b == Extent(h + 1, e.last)
           P == {x \in {a, b} : x.first <= x.last}
<1>1. e \in I /\ h \in Members(e)
  BY DEF Covered
<1>2. Sound(I) /\ l \in ListRecords /\ Covered(l) = Cov(I)
  BY DEF SoundList, Covered, Cov
<1>3. Without(l, h) = [l EXCEPT !.index = (I \ {e}) \cup P]
  BY DEF Without
<1>4. /\ a.first = e.first /\ a.last = h - 1 /\ b.first = h + 1 /\ b.last = e.last
  BY DEF Extent
<1> HIDE DEF e
<1>5. /\ e.first \in Nat /\ e.last \in Nat /\ e.first <= e.last /\ Members(e) \subseteq Handles
  BY <1>1, <1>2, HolderFacts
<1>6. h \in Nat /\ e.first <= h /\ h <= e.last
  BY <1>1, <1>5 DEF Members
<1>7. a.first <= a.last => a \in Extents
  <2>1. e.first <= h - 1 => e.first \in Handles /\ h - 1 \in Handles
    BY <1>5, <1>6 DEF Members
  <2>2. QED
    BY <1>4, <2>1, ExtentFacts
<1>8. b.first <= b.last => b \in Extents
  <2>1. h + 1 <= e.last => h + 1 \in Handles /\ e.last \in Handles
    BY <1>5, <1>6 DEF Members
  <2>2. QED
    BY <1>4, <2>1, ExtentFacts
<1> HIDE DEF a, b
<1>9. /\ P \in SUBSET Extents /\ Apart(P)
      /\ \A p \in P : e.first <= p.first /\ p.last <= e.last
  <2>1. P \in SUBSET Extents
    BY <1>7, <1>8
  <2>2. Apart(P)
    BY <1>4, <1>5, <1>6 DEF Apart
  <2>3. \A p \in P : e.first <= p.first /\ p.last <= e.last
    BY <1>4, <1>5, <1>6
  <2>4. QED
    BY <2>1, <2>2, <2>3
<1>10. Cov(P) = Members(e) \ {h}
  <2>1. ASSUME NEW z, z \in Cov(P) PROVE z \in Members(e) /\ z # h
    <3>1. PICK p \in P : z \in Int /\ p.first <= z /\ z <= p.last
      BY <1>9, <2>1, InCov
    <3>2. QED
      BY <1>4, <1>5, <1>6, <3>1 DEF Members
  <2>2. ASSUME NEW z, z \in Members(e), z # h PROVE z \in Cov(P)
    <3>1. z \in Int /\ e.first <= z /\ z <= e.last
      BY <1>5, <2>2 DEF Members
    <3>2. \/ a \in P /\ a.first <= z /\ z <= a.last
          \/ b \in P /\ b.first <= z /\ z <= b.last
      BY <1>4, <1>5, <1>6, <2>2, <3>1
    <3>3. QED
      BY <1>9, <3>1, <3>2, InCov
  <2>3. QED
    BY <2>1, <2>2
<1>11. /\ Sound((I \ {e}) \cup P)
       /\ Cov((I \ {e}) \cup P) = (Cov(I) \ Members(e)) \cup Cov(P)
  <2>1. PartsOf(P, e)
    BY <1>9 DEF PartsOf
  <2>2. Sound(I) /\ e \in I
    BY <1>1, <1>2
  <2> HIDE DEF P, I
  <2>3. QED
    BY <2>1, <2>2, CutFacts
<1>12. Cov((I \ {e}) \cup P) = Cov(I) \ {h}
  <2> HIDE DEF P
  <2>1. Members(e) \subseteq Cov(I)
    BY <1>1 DEF Cov
  <2>2. QED
    BY <1>1, <1>10, <1>11, <2>1
<1> HIDE DEF P
<1>13. /\ Without(l, h).index = (I \ {e}) \cup P /\ Without(l, h).num = l.num
       /\ Without(l, h) \in ListRecords
  BY <1>2, <1>3, <1>11 DEF ListRecords, Sound
<1>14. QED
  BY <1>2, <1>11, <1>12, <1>13 DEF SoundList, Covered, Cov

\* extentlist_get_and_dec_extent: the list loses the last handle of its highest
\* extent, and its count does not fall by more than one.
LEMMA WithoutHighestFacts ==
  ASSUME NEW l, SoundList(l), l.index # {}, l.num >= Cardinality(Covered(l))
  PROVE  /\ Highest(l).last \in Covered(l)
         /\ SoundList(WithoutHighest(l))
         /\ Covered(WithoutHighest(l)) = Covered(l) \ {Highest(l).last}
         /\ WithoutHighest(l).num \in {l.num, l.num - 1}
<1> DEFINE I == l.index
           e == Highest(l)
           c == Extent(e.first, e.last - 1)
           P == IF e.first = e.last THEN {} ELSE {c}
<1>1. Sound(I) /\ l \in ListRecords /\ Covered(l) = Cov(I)
  BY DEF SoundList, Covered, Cov
<1>2. e \in I
  <2> DEFINE S == {x.first : x \in I}
             f == [x \in I |-> x.first]
  <2>1. S \in SUBSET Int /\ S # {}
    BY <1>1, ExtentFacts DEF Sound
  <2>2. IsFiniteSet(S)
    <3>1. IsFiniteSet(I)
      BY <1>1, ExtentsFinite, FS_Subset DEF Sound
    <3>2. f \in Surjection(I, S)
      BY DEF Surjection
    <3>3. QED
      BY <3>1, <3>2, FS_Surjection
  <2>3. PICK m \in S : \A x \in S : x <= m
    BY <2>1, <2>2, FiniteMax
  <2>4. PICK x \in I : m = x.first
    OBVIOUS
  <2>5. \A y \in I : y.first <= x.first
    BY <2>3, <2>4
  <2>6. QED
    BY <2>5 DEF Highest
<1> HIDE DEF e
<1>3. /\ e.first \in Nat /\ e.last \in Nat /\ e.first <= e.last /\ Members(e) \subseteq Handles
  BY <1>1, <1>2, HolderFacts
<1>4. e.last \in Members(e) /\ Members(e) \subseteq Cov(I)
  BY <1>2, <1>3 DEF Members, Cov
<1>5. c.first = e.first /\ c.last = e.last - 1
  BY DEF Extent
<1>6. e.first # e.last => c \in Extents
  <2>1. e.first # e.last => e.first \in Handles /\ e.last - 1 \in Handles /\ e.first <= e.last - 1
    BY <1>3 DEF Members
  <2>2. QED
    BY <2>1, ExtentFacts
<1> HIDE DEF c
<1>7. /\ P \in SUBSET Extents /\ Apart(P)
      /\ \A p \in P : e.first <= p.first /\ p.last <= e.last
  BY <1>3, <1>5, <1>6 DEF Apart
<1>8. Cov(P) = Members(e) \ {e.last}
  <2>1. ASSUME NEW z, z \in Cov(P) PROVE z \in Members(e) /\ z # e.last
    <3>1. PICK p \in P : z \in Int /\ p.first <= z /\ z <= p.last
      BY <1>7, <2>1, InCov
    <3>2. QED
      BY <1>3, <1>5, <3>1 DEF Members
  <2>2. ASSUME NEW z, z \in Members(e), z # e.last PROVE z \in Cov(P)
    <3>1. z \in Int /\ e.first <= z /\ z <= e.last
      BY <1>3, <2>2 DEF Members
    <3>2. c \in P /\ c.first <= z /\ z <= c.last
      BY <1>3, <1>5, <2>2, <3>1
    <3>3. QED
      BY <1>7, <3>1, <3>2, InCov
  <2>3. QED
    BY <2>1, <2>2
<1> DEFINE w == WithoutHighest(l)
<1>9. w.index = (I \ {e}) \cup P /\ w.num \in {l.num, l.num - 1} /\ w.num \in Nat
      /\ w = [index |-> w.index, num |-> w.num]
  <2>1. CASE e.first = e.last
    <3>1. w = [l EXCEPT !.index = I \ {e}]
      BY <2>1 DEF WithoutHighest, e
    <3>2. QED
      BY <1>1, <2>1, <3>1 DEF ListRecords
  <2>2. CASE e.first # e.last
    <3>1. w = [index |-> (I \ {e}) \cup {c}, num |-> l.num - 1]
      BY <2>2 DEF WithoutHighest, e, c
    <3>2. l.num \in Nat /\ l.num # 0
      <4>1. Cardinality(Covered(l)) \in Nat /\ IsFiniteSet(Covered(l)) /\ Covered(l) # {}
        BY <1>1, <1>4, CovFinite DEF Sound
      <4>2. Cardinality(Covered(l)) # 0
        BY <4>1, FS_EmptySet
      <4>3. QED
        BY <1>1, <4>1, <4>2 DEF ListRecords
    <3>3. QED
      BY <2>2, <3>1, <3>2
  <2>3. QED
    BY <2>1, <2>2
<1> HIDE DEF P, w
<1>10. /\ Sound((I \ {e}) \cup P)
       /\ Cov((I \ {e}) \cup P) = (Cov(I) \ Members(e)) \cup Cov(P)
  <2>1. PartsOf(P, e)
    BY <1>7 DEF PartsOf
  <2> HIDE DEF I
  <2>2. QED
    BY <1>1, <1>2, <2>1, CutFacts
<1>11. Cov((I \ {e}) \cup P) = Cov(I) \ {e.last}
  BY <1>4, <1>8, <1>10
<1>12. SoundList(w)
  BY <1>9, <1>10 DEF SoundList, ListRecords, Sound
<1>13. Covered(w) = Covered(l) \ {e.last}
  BY <1>1, <1>9, <1>11 DEF Covered, Cov
<1>14. QED
  BY <1>1, <1>4, <1>9, <1>12, <1>13 DEF e, w

\* avltree_extent_search_in_range proposes a handle of the list.
LEMMA FoundInList ==
  ASSUME NEW l, SoundList(l), NEW r \in Extents
  PROVE  Found(l, r) \subseteq Covered(l)
<1> SUFFICES ASSUME NEW e \in l.index, Meets(e, r) PROVE Proposed(e, r) \in Members(e)
  BY DEF Found, Covered
<1>1. /\ e.first \in Nat /\ e.last \in Nat /\ e.first <= e.last
      /\ r.first \in Nat /\ r.last \in Nat /\ r.first <= r.last
  BY ExtentFacts DEF SoundList, Sound
<1>2. e.first <= r.last /\ r.first <= e.last
  BY DEF Meets
<1>3. Proposed(e, r) \in Nat /\ e.first <= Proposed(e, r) /\ Proposed(e, r) <= e.last
  BY <1>1, <1>2 DEF Proposed
<1>4. QED
  BY <1>1, <1>3 DEF Members

\* The function that Mapped evaluates exists.
LEMMA TakingExists ==
  ASSUME NEW base, NEW U, IsFiniteSet(U)
  PROVE  \E g : IsTaking(base, U, g)
<1> DEFINE D(n) == {s \in SUBSET U : Cardinality(s) <= n}
           On(n, g) == g = [s \in D(n) |-> IF s = {} THEN base
                                          ELSE Without(g[s \ {Picked(s)}], Picked(s))]
           Bad == {n \in Nat : ~ \E g : On(n, g)}
<1>1. \E g : On(0, g)
  <2> DEFINE g == [s \in D(0) |-> base]
  <2>1. \A s \in D(0) : s = {}
    <3> SUFFICES ASSUME NEW s \in SUBSET U, Cardinality(s) <= 0 PROVE s = {}
      OBVIOUS
    <3>1. Cardinality(s) \in Nat /\ IsFiniteSet(s)
      BY PartFacts
    <3>2. Cardinality(s) = 0
      BY <3>1
    <3>3. QED
      BY <3>1, <3>2, FS_EmptySet
  <2>2. On(0, g)
    BY <2>1
  <2>3. QED
    BY <2>2
<1>2. ASSUME NEW n \in Nat, NEW g, On(n, g) PROVE \E h : On(n + 1, h)
  <2> DEFINE h == [s \in D(n + 1) |-> IF s = {} THEN base
                                     ELSE Without(g[s \ {Picked(s)}], Picked(s))]
  <2>1. \A s \in SUBSET U : Cardinality(s) <= n => Cardinality(s) <= n + 1
    <3> SUFFICES ASSUME NEW s \in SUBSET U, Cardinality(s) <= n PROVE Cardinality(s) <= n + 1
      OBVIOUS
    <3>1. Cardinality(s) \in Nat
      BY PartFacts
    <3>2. QED
      BY <3>1
  <2>2. \A s \in SUBSET U : s # {} /\ Cardinality(s) <= n + 1 => Cardinality(s \ {Picked(s)}) <= n
    <3> SUFFICES ASSUME NEW s \in SUBSET U, s # {}, Cardinality(s) <= n + 1
                 PROVE  Cardinality(s \ {Picked(s)}) <= n
      OBVIOUS
    <3>1. Cardinality(s) \in Nat /\ Cardinality(s \ {Picked(s)}) = Cardinality(s) - 1
      BY PartFacts
    <3>2. QED
      BY <3>1
  <2>3. \A s \in D(n) : s \in D(n + 1) /\ h[s] = g[s]
    BY <1>2, <2>1
  <2>4. \A s \in D(n + 1) : s # {} => s \ {Picked(s)} \in D(n)
    BY <2>2
  <2>5. On(n + 1, h)
    BY <2>3, <2>4
  <2>6. QED
    BY <2>5
<1> HIDE DEF D, On
<1>3. Bad = {}
  <2> SUFFICES ASSUME Bad # {} PROVE FALSE
    OBVIOUS
  <2>1. PICK n \in Bad : \A k \in Bad : n <= k
    BY NatMin
  <2>2. n \in Nat /\ n # 0
    BY <1>1
  <2>3. n - 1 \in Nat /\ (n - 1) + 1 = n /\ ~ (n <= n - 1)
    BY <2>2
  <2>4. PICK g : On(n - 1, g)
    BY <2>1, <2>3
  <2>5. \E h : On((n - 1) + 1, h)
    BY <1>2, <2>3, <2>4
  <2>6. QED
    BY <2>3, <2>5
<1>4. Cardinality(U) \in Nat
  BY FS_CardinalityType
<1>5. PICK g : On(Cardinality(U), g)
  BY <1>3, <1>4
<1>6. D(Cardinality(U)) = SUBSET U
  BY FS_Subset DEF D
<1>7. QED
  BY <1>5, <1>6 DEF IsTaking, On

\* trove_set_handle_ranges: the free list that a restart builds covers the
\* configured handles that no stored dataspace has, and counts all of them.
LEMMA MappedFacts ==
  ASSUME NEW U \in SUBSET Handles
  PROVE  /\ SoundList(Mapped(U)) /\ Covered(Mapped(U)) = Handles \ U
         /\ Mapped(U).num >= Cardinality(Handles \ U)
<1> DEFINE base == Merged(EmptyList, [index |-> Ranges])
           F == CHOOSE h : IsTaking(base, U, h)
           Right(s) == /\ SoundList(F[s]) /\ Covered(F[s]) = Handles \ s
                       /\ F[s].num = base.num
           Bad == {n \in Nat : \E s \in SUBSET U : Cardinality(s) = n /\ ~ Right(s)}
<1>1. Mapped(U) = F[U]
  BY Zenon DEF Mapped, FoldSet, MapThenFoldSet, IsTaking, Picked
<1>2. SoundList(base) /\ Covered(base) = Handles /\ base.num = Cardinality(Handles)
  <2>1. SoundList(EmptyList) /\ Covered(EmptyList) = {} /\ EmptyList.num = 0
    BY DEF SoundList, ListRecords, EmptyList, Sound, Apart, Cov, Covered
  <2>2. Cov(Ranges) = Handles
    BY DEF Cov, Handles
  <2>3. Sound(Ranges)
    BY <2>2, ExtentFacts, RangesAssumption DEF Sound, Apart
  <2>4. Cardinality(Handles) \in Nat
    BY CovFinite
  <2>5. /\ SoundList(base)
        /\ Covered(base) = Covered(EmptyList) \cup Cov([index |-> Ranges].index)
        /\ base.num = EmptyList.num + Cardinality(Cov([index |-> Ranges].index))
    BY <2>1, <2>3, MergedFacts
  <2>6. QED
    BY <2>1, <2>2, <2>4, <2>5
<1> HIDE DEF base
<1>3. IsFiniteSet(U)
  BY CovFinite
<1>4. IsTaking(base, U, F)
  BY <1>3, TakingExists
<1>5. \A s \in SUBSET U : F[s] = IF s = {} THEN base ELSE Without(F[s \ {Picked(s)}], Picked(s))
  BY <1>4 DEF IsTaking
<1> HIDE DEF F
<1>6. Bad = {}
  <2> SUFFICES ASSUME Bad # {} PROVE FALSE
    OBVIOUS
  <2>1. PICK n \in Bad : \A k \in Bad : n <= k
    BY NatMin
  <2>2. PICK s \in SUBSET U : Cardinality(s) = n /\ ~ Right(s)
    OBVIOUS
  <2>3. s # {}
    BY <1>2, <1>5, <2>2
  <2> DEFINE x == Picked(s)
             t == s \ {x}
  <2>4. x \in s /\ t \in SUBSET U /\ x \in U /\ x \notin t
    BY <2>3 DEF Picked
  <2>5. F[s] = Without(F[t], x)
    BY <1>5, <2>3
  <2>6. Cardinality(t) = n - 1 /\ Cardinality(t) \in Nat
    BY <1>3, <2>2, <2>3, PartFacts
  <2>7. Right(t)
    <3>1. n \in Nat /\ ~ (n <= n - 1)
      OBVIOUS
    <3>2. n - 1 \notin Bad
      BY <2>1, <3>1
    <3>3. QED
      BY <2>4, <2>6, <3>2
  <2>8. x \in Covered(F[t])
    BY <2>4, <2>7
  <2>9. s = t \cup {x}
    BY <2>4
  <2> HIDE DEF x, t
  <2>10. /\ SoundList(Without(F[t], x)) /\ Covered(Without(F[t], x)) = Covered(F[t]) \ {x}
         /\ Without(F[t], x).num = F[t].num
    BY <2>7, <2>8, WithoutFacts
  <2>11. Right(s)
    BY <2>5, <2>7, <2>9, <2>10
  <2>12. QED
    BY <2>2, <2>11
<1>7. Right(U)
  <2>1. Cardinality(U) \in Nat
    BY CovFinite
  <2>2. QED
    BY <1>6, <2>1
<1>8. Cardinality(Handles \ U) <= Cardinality(Handles)
  BY HandlesFinite, FS_Subset
<1>9. QED
  BY <1>1, <1>2, <1>7, <1>8

-----------------------------------------------------------------------------
(* The inductive invariant.                                                *)

\* Every configured handle is in just one of six places.
Split(A, B, C, D, E, F) ==
  /\ A \cap B = {} /\ A \cap C = {} /\ A \cap D = {} /\ A \cap E = {} /\ A \cap F = {}
  /\ B \cap C = {} /\ B \cap D = {} /\ B \cap E = {} /\ B \cap F = {}
  /\ C \cap D = {} /\ C \cap E = {} /\ C \cap F = {}
  /\ D \cap E = {} /\ D \cap F = {} /\ E \cap F = {}
  /\ A \cup B \cup C \cup D \cup E \cup F = Handles

Jobs == [at : Steps, handle : Nat, array : RangeArrays \cup {<<>>}, left : Int,
         made : Seq(Handles)]

\* The lists are sound, the counts of the freed handles exact and that of the
\* free ones not below the truth.
ListsSound ==
  /\ SoundList(free) /\ SoundList(recent) /\ SoundList(over)
  /\ free.num >= Cardinality(Covered(free))
  /\ recent.num = Cardinality(Covered(recent))
  /\ over.num = Cardinality(Covered(over))

Clocked == now \in 0 .. MaxTime /\ stamp \in [recent : 0 .. MaxTime, over : 0 .. MaxTime]

\* Two operations never hold the same handle.
Holders ==
  /\ worker \in [Workers -> Jobs]
  /\ \A v, w \in Workers :
       v # w /\ worker[v].at \in Holding /\ worker[w].at \in Holding
         => worker[v].handle # worker[w].handle

\* What a list creation has made so far is stored, and is its own.
MadeStored ==
  /\ \A w \in Workers : \A i \in 1 .. Len(worker[w].made) : worker[w].made[i] \in stored
  /\ \A v, w \in Workers : \A i \in 1 .. Len(worker[v].made), j \in 1 .. Len(worker[w].made) :
       worker[v].made[i] = worker[w].made[j] => v = w /\ i = j

Placed == Split(Covered(free), Covered(recent), Covered(over), Held, stored, lost)

LedgerInv == ListsSound /\ Clocked /\ Holders /\ MadeStored /\ Placed

-----------------------------------------------------------------------------
(* What the threads hold.                                                  *)

\* A thread goes on to job j: what is held changes by its handle at most.
LEMMA HeldStep ==
  ASSUME Holders, NEW w \in Workers, NEW j \in Jobs, Becomes(w, j),
         j.at \in Holding => j.handle \notin Held
  PROVE  /\ Holders'
         /\ \A v \in Workers : worker'[v] = IF v = w THEN j ELSE worker[v]
         /\ worker[w].at \notin Holding /\ j.at \notin Holding => Held' = Held
         /\ worker[w].at \notin Holding /\ j.at \in Holding => Held' = Held \cup {j.handle}
         /\ worker[w].at \in Holding /\ j.at \notin Holding =>
              Held' = Held \ {worker[w].handle} /\ worker[w].handle \in Held
<1>1. worker \in [Workers -> Jobs] /\ worker' = [worker EXCEPT ![w] = j]
  BY DEF Holders, Becomes
<1>2. \A v \in Workers : worker'[v] = IF v = w THEN j ELSE worker[v]
  BY <1>1
<1>3. worker' \in [Workers -> Jobs]
  BY <1>1
<1>4. \A x : x \in Held <=> \E v \in Workers : worker[v].at \in Holding /\ x = worker[v].handle
  BY DEF Held
<1>5. \A x : x \in Held' <=> \E v \in Workers : worker'[v].at \in Holding /\ x = worker'[v].handle
  BY DEF Held
<1>6. \A v \in Workers : worker[v].at \in Holding => worker[v].handle \in Held
  BY <1>4
<1>7. Holders'
  <2>1. ASSUME NEW v \in Workers, NEW u \in Workers, v # u,
               worker'[v].at \in Holding, worker'[u].at \in Holding
        PROVE  worker'[v].handle # worker'[u].handle
    BY <1>2, <1>6, <2>1 DEF Holders
  <2>2. QED
    BY <1>3, <2>1 DEF Holders
<1>8. ASSUME worker[w].at \notin Holding, j.at \notin Holding PROVE Held' = Held
  <2>1. \A x : x \in Held' <=> x \in Held
    BY <1>2, <1>4, <1>5, <1>8
  <2>2. QED
    BY <2>1
<1>9. ASSUME worker[w].at \notin Holding, j.at \in Holding PROVE Held' = Held \cup {j.handle}
  <2>1. \A x : x \in Held' <=> x \in Held \/ x = j.handle
    BY <1>2, <1>4, <1>5, <1>9
  <2>2. QED
    BY <2>1
<1>10. ASSUME worker[w].at \in Holding, j.at \notin Holding
       PROVE  Held' = Held \ {worker[w].handle} /\ worker[w].handle \in Held
  <2>1. \A v \in Workers : v # w /\ worker[v].at \in Holding => worker[v].handle # worker[w].handle
    BY <1>10 DEF Holders
  <2>2. \A x : x \in Held' <=> x \in Held /\ x # worker[w].handle
    BY <1>2, <1>4, <1>5, <1>10, <2>1
  <2>3. QED
    BY <1>6, <1>10, <2>2
<1>11. QED
  BY <1>2, <1>7, <1>8, <1>9, <1>10

\* A thread keeps or drops its list of made handles.
LEMMA MadeKept ==
  ASSUME Holders, MadeStored, NEW w \in Workers, NEW j \in Jobs,
         \A v \in Workers : worker'[v] = IF v = w THEN j ELSE worker[v],
         j.made \in {<<>>, worker[w].made}, stored \subseteq stored'
  PROVE  MadeStored'
<1>1. \A v \in Workers : worker'[v].made \in {<<>>, worker[v].made}
  OBVIOUS
<1>2. \A v \in Workers : \A i \in 1 .. Len(worker'[v].made) :
        i \in 1 .. Len(worker[v].made) /\ worker'[v].made[i] = worker[v].made[i]
  BY <1>1
<1>3. \A v \in Workers : \A i \in 1 .. Len(worker'[v].made) : worker'[v].made[i] \in stored'
  BY <1>2 DEF MadeStored
<1>4. ASSUME NEW v \in Workers, NEW u \in Workers,
             NEW i \in 1 .. Len(worker'[v].made), NEW k \in 1 .. Len(worker'[u].made),
             worker'[v].made[i] = worker'[u].made[k]
      PROVE  v = u /\ i = k
  BY <1>2, <1>4 DEF MadeStored
<1>5. QED
  BY <1>3, <1>4 DEF MadeStored

\* The jobs the operations go through.
LEMMA IdleJob == Idle \in Jobs /\ Idle.at = "idle" /\ Idle.made = <<>>
BY DEF Jobs, Idle, Steps

\* A creation with its handle, and a removal with its.
Holds(a, h) == [Idle EXCEPT !.at = a, !.handle = h]

\* Such a job holds its handle and has made nothing.
LEMMA HoldJob ==
  ASSUME NEW h \in Nat, NEW a \in {"store", "removed"}
  PROVE  /\ Holds(a, h) \in Jobs /\ Holds(a, h).at = a /\ Holds(a, h).handle = h
         /\ Holds(a, h).made = <<>>
BY IdleJob DEF Jobs, Steps, Holds

\* A list creation that begins.
BeginsList(array, count) == [Idle EXCEPT !.at = "nextOfList", !.array = array, !.left = count]

\* It holds no handle and has made none yet.
LEMMA ListJob ==
  ASSUME NEW array \in RangeArrays, NEW count \in Int
  PROVE  /\ BeginsList(array, count) \in Jobs /\ BeginsList(array, count).at = "nextOfList"
         /\ BeginsList(array, count).made = <<>>
BY IdleJob DEF Jobs, Steps, BeginsList

\* A list creation to be undone.
Undoes(m) == [Idle EXCEPT !.at = "undo", !.made = m]

\* It holds no handle; what it has made is still to be taken back.
LEMMA UndoJob ==
  ASSUME NEW m \in Seq(Handles)
  PROVE  Undoes(m) \in Jobs /\ Undoes(m).at = "undo" /\ Undoes(m).made = m
BY IdleJob DEF Jobs, Steps, Undoes

\* The handle of a record that has been taken back.
HoldsUndone(h, m) == [Idle EXCEPT !.at = "undone", !.handle = h, !.made = m]

\* It holds the handle whose record is gone until that is back on a list.
LEMMA UndoneJob ==
  ASSUME NEW h \in Nat, NEW m \in Seq(Handles)
  PROVE  /\ HoldsUndone(h, m) \in Jobs /\ HoldsUndone(h, m).at = "undone"
         /\ HoldsUndone(h, m).handle = h /\ HoldsUndone(h, m).made = m
BY IdleJob DEF Jobs, Steps, HoldsUndone

\* A list creation with its next handle.
HoldsNext(i, h) == [i EXCEPT !.at = "storeList", !.handle = h, !.left = @ - 1]

\* It holds the new handle beside those it has made.
LEMMA StoreListJob ==
  ASSUME NEW i \in Jobs, NEW h \in Nat
  PROVE  /\ HoldsNext(i, h) \in Jobs /\ HoldsNext(i, h).at = "storeList"
         /\ HoldsNext(i, h).handle = h /\ HoldsNext(i, h).made = i.made
<1>1. i.left - 1 \in Int
  BY DEF Jobs
<1>2. QED
  BY <1>1 DEF Jobs, Steps, HoldsNext

\* A list creation that has stored a handle and goes on.
GoesOn(i, m) == [i EXCEPT !.at = "nextOfList", !.handle = 0, !.made = m]

\* It holds no handle between two rounds.
LEMMA NextJob ==
  ASSUME NEW i \in Jobs, NEW m \in Seq(Handles)
  PROVE  GoesOn(i, m) \in Jobs /\ GoesOn(i, m).at = "nextOfList" /\ GoesOn(i, m).made = m
BY DEF Jobs, Steps, GoesOn

\* Which of the steps hold a handle.
LEMMA HoldingFacts ==
  /\ "store" \in Holding /\ "storeList" \in Holding /\ "removed" \in Holding /\ "undone" \in Holding
  /\ "idle" \notin Holding /\ "nextOfList" \notin Holding /\ "undo" \notin Holding
BY DEF Holding

-----------------------------------------------------------------------------
(* The kinds of step, each with the step of HandlePool that it is.         *)

\* A handle goes from the free list to an operation (trove_handle_alloc_from_range,
\* trove_handle_alloc, trove_handle_set_used).
LEMMA TakeStep ==
  ASSUME LedgerInv, NEW w \in Workers, NEW j \in Jobs, NEW h \in Covered(free),
         worker[w].at \notin Holding, j.at \in Holding, j.handle = h,
         j.made \in {<<>>, worker[w].made}, Becomes(w, j),
         SoundList(free'), Covered(free') = Covered(free) \ {h},
         free'.num \in {free.num, free.num - 1},
         UNCHANGED <<recent, over, stamp, stored, lost, now>>
  PROVE  LedgerInv' /\ Pool!Next
<1> USE DEF LedgerInv
<1>1. Split(Covered(free), Covered(recent), Covered(over), Held, stored, lost)
  BY DEF Placed
<1>2. h \notin Held /\ h \in Handles
  BY <1>1 DEF Split
<1>3. /\ Holders' /\ Held' = Held \cup {h}
      /\ \A v \in Workers : worker'[v] = IF v = w THEN j ELSE worker[v]
  BY <1>2, HeldStep
<1>4. Placed'
  BY <1>1, <1>3 DEF Placed, Split
<1>5. MadeStored'
  BY <1>3, MadeKept
<1>6. free'.num >= Cardinality(Covered(free'))
  <2>1. IsFiniteSet(Covered(free)) /\ Cardinality(Covered(free)) \in Nat
    BY <1>1, CovFinite DEF Split
  <2>2. Cardinality(Covered(free')) = Cardinality(Covered(free)) - 1
    BY <2>1, FS_RemoveElement
  <2>3. free.num \in Nat /\ free.num >= Cardinality(Covered(free))
    BY DEF ListsSound, SoundList, ListRecords
  <2>4. QED
    BY <2>1, <2>2, <2>3
<1>7. ListsSound' /\ Clocked'
  BY <1>6 DEF ListsSound, Clocked
<1>8. Pool!Take(h)
  BY <1>3 DEF Pool!Take
<1>9. QED
  BY <1>2, <1>3, <1>4, <1>5, <1>7, <1>8 DEF Pool!Next

\* An operation ends and its handle is known to nobody (StoreListFails,
\* RemoveFails).
LEMMA LoseStep ==
  ASSUME LedgerInv, NEW w \in Workers, NEW j \in Jobs,
         worker[w].at \in Holding, j.at \in {"idle", "undo"},
         j.made \in {<<>>, worker[w].made}, Becomes(w, j),
         lost' = lost \cup {worker[w].handle},
         UNCHANGED <<free, recent, over, stamp, stored, now>>
  PROVE  LedgerInv' /\ Pool!Next
<1> USE DEF LedgerInv
<1> DEFINE h == worker[w].handle
<1>1. Split(Covered(free), Covered(recent), Covered(over), Held, stored, lost)
  BY DEF Placed
<1>2. j.at \notin Holding
  BY HoldingFacts
<1>3. /\ Holders' /\ Held' = Held \ {h} /\ h \in Held
      /\ \A v \in Workers : worker'[v] = IF v = w THEN j ELSE worker[v]
  BY <1>2, HeldStep
<1> HIDE DEF h
<1>4. Placed' /\ h \in Handles
  BY <1>1, <1>3 DEF Placed, Split, h
<1>5. MadeStored'
  BY <1>3, MadeKept
<1>6. ListsSound' /\ Clocked'
  BY DEF ListsSound, Clocked
<1>7. Pool!Lose(h)
  BY <1>3 DEF Pool!Lose, h
<1>8. QED
  BY <1>3, <1>4, <1>5, <1>6, <1>7 DEF Pool!Next

\* A record is deleted and its handle held until it is given back (Undo, Remove).
LEMMA UnnameStep ==
  ASSUME LedgerInv, NEW w \in Workers, NEW j \in Jobs, NEW h \in stored,
         worker[w].at \notin Holding, j.at \in {"removed", "undone"}, j.handle = h,
         Becomes(w, j), stored' = stored \ {h}, MadeStored',
         UNCHANGED <<free, recent, over, stamp, lost, now>>
  PROVE  LedgerInv' /\ Pool!Next
<1> USE DEF LedgerInv
<1>1. Split(Covered(free), Covered(recent), Covered(over), Held, stored, lost)
  BY DEF Placed
<1>2. h \notin Held /\ h \in Handles
  BY <1>1 DEF Split
<1>3. j.at \in Holding
  BY HoldingFacts
<1>4. /\ Holders' /\ Held' = Held \cup {h}
  BY <1>2, <1>3, HeldStep
<1>5. Placed'
  BY <1>1, <1>4 DEF Placed, Split
<1>6. ListsSound' /\ Clocked'
  BY DEF ListsSound, Clocked
<1>7. Pool!Unname(h)
  BY <1>4 DEF Pool!Unname
<1>8. QED
  BY <1>2, <1>4, <1>5, <1>6, <1>7 DEF Pool!Next

\* Neither the lists nor what is held, stored or lost change.
LEMMA KeepStep ==
  ASSUME LedgerInv, NEW w \in Workers, NEW j \in Jobs,
         worker[w].at \notin Holding, j.at \in {"idle", "nextOfList"},
         j.made \in {<<>>, worker[w].made}, Becomes(w, j),
         UNCHANGED <<free, recent, over, stamp, stored, lost, now>>
  PROVE  LedgerInv' /\ UNCHANGED Pool!poolVars
<1> USE DEF LedgerInv
<1>1. j.at \notin Holding
  BY HoldingFacts
<1>2. /\ Holders' /\ Held' = Held
      /\ \A v \in Workers : worker'[v] = IF v = w THEN j ELSE worker[v]
  BY <1>1, HeldStep
<1>3. MadeStored'
  BY <1>2, MadeKept
<1>4. Placed'
  BY <1>2 DEF Placed
<1>5. ListsSound' /\ Clocked'
  BY DEF ListsSound, Clocked
<1>6. UNCHANGED Pool!poolVars
  BY <1>2 DEF Pool!poolVars
<1>7. QED
  BY <1>2, <1>3, <1>4, <1>5, <1>6

\* trove_ledger_handle_free: the handle goes to one of the lists of freed handles,
\* and one of these may be merged into the free list by the same call.
LEMMA FreeFacts ==
  ASSUME ListsSound, Clocked, NEW h \in Handles, Free(h), now' = now,
         h \notin Covered(free), h \notin Covered(recent), h \notin Covered(over),
         Covered(free) \cap Covered(recent) = {}, Covered(free) \cap Covered(over) = {},
         Covered(recent) \cap Covered(over) = {}
  PROVE  /\ ListsSound' /\ Clocked' /\ Covered(recent') \cap Covered(over') = {}
         /\ \E awake \in SUBSET (Covered(recent) \cup Covered(over) \cup {h}) :
              /\ Covered(free') = Covered(free) \cup awake
              /\ Covered(recent') \cup Covered(over') =
                   (Covered(recent) \cup Covered(over) \cup {h}) \ awake
<1> DEFINE e  == Extent(h, h)
           r  == IF HitCutoff(recent) THEN recent ELSE Added(recent, e)
           o  == IF HitCutoff(recent) THEN Added(over, e) ELSE over
           st == IF HitCutoff(recent) THEN [stamp EXCEPT !.over = now]
                 ELSE [stamp EXCEPT !.recent = now]
<1>1. /\ SoundList(free) /\ SoundList(recent) /\ SoundList(over)
      /\ free.num >= Cardinality(Covered(free))
      /\ recent.num = Cardinality(Covered(recent)) /\ over.num = Cardinality(Covered(over))
  BY DEF ListsSound
<1>2. /\ Covered(free) \subseteq Handles /\ Covered(recent) \subseteq Handles
      /\ Covered(over) \subseteq Handles
  BY <1>1 DEF SoundList, Sound, Covered, Cov
<1>3. h \in Nat /\ e \in Extents /\ Members(e) = {h}
  <2>1. h \in Nat
    BY HandlesFinite
  <2>2. e \in Extents /\ e.first = h /\ e.last = h
    BY <2>1, ExtentFacts
  <2>3. QED
    BY <2>1, <2>2 DEF Members
<1>4. IF free.num <= Cutoff /\ Endured(st) THEN Recycle(r, o)
      ELSE recent' = r /\ over' = o /\ stamp' = st /\ UNCHANGED free
  BY DEF Free
<1> HIDE DEF e
<1>5. /\ SoundList(Added(recent, e)) /\ Covered(Added(recent, e)) = Covered(recent) \cup {h}
      /\ Added(recent, e).num = Cardinality(Covered(Added(recent, e)))
  BY <1>1, <1>3, AddedFacts
<1>6. /\ SoundList(Added(over, e)) /\ Covered(Added(over, e)) = Covered(over) \cup {h}
      /\ Added(over, e).num = Cardinality(Covered(Added(over, e)))
  BY <1>1, <1>3, AddedFacts
<1>7. /\ SoundList(r) /\ SoundList(o)
      /\ r.num = Cardinality(Covered(r)) /\ o.num = Cardinality(Covered(o))
      /\ Covered(r) \cup Covered(o) = Covered(recent) \cup Covered(over) \cup {h}
      /\ Covered(r) \cap Covered(o) = {}
      /\ Covered(free) \cap Covered(r) = {} /\ Covered(free) \cap Covered(o) = {}
  <2>1. CASE HitCutoff(recent)
    <3>1. r = recent /\ o = Added(over, e)
      BY <2>1
    <3> HIDE DEF r, o
    <3>2. QED
      BY <1>1, <1>6, <3>1
  <2>2. CASE ~ HitCutoff(recent)
    <3>1. r = Added(recent, e) /\ o = over
      BY <2>2
    <3> HIDE DEF r, o
    <3>2. QED
      BY <1>1, <1>5, <3>1
  <2>3. QED
    BY <2>1, <2>2
<1>8. st \in [recent : 0 .. MaxTime, over : 0 .. MaxTime]
  BY DEF Clocked
<1> HIDE DEF r, o, st
<1>9. CASE free.num <= Cutoff /\ Endured(st)
  <2>1. /\ free' = Merged(free, r) /\ recent' = o /\ over' = EmptyList
        /\ stamp' = [recent |-> stamp.over, over |-> now]
    BY <1>4, <1>9 DEF Recycle
  <2>2. Covered(r) = Cov(r.index) /\ Sound(r.index) /\ Covered(r) \subseteq Handles
    BY <1>7 DEF Covered, Cov, SoundList, Sound
  <2>3. /\ SoundList(free') /\ Covered(free') = Covered(free) \cup Covered(r)
        /\ free'.num = free.num + Cardinality(Covered(r))
    BY <1>1, <1>7, <2>1, <2>2, MergedFacts
  <2>4. SoundList(EmptyList) /\ Covered(EmptyList) = {} /\ EmptyList.num = Cardinality({})
    BY FS_EmptySet DEF SoundList, ListRecords, EmptyList, Sound, Apart, Cov, Covered
  <2>5. free'.num >= Cardinality(Covered(free'))
    <3>1. Cardinality(Covered(free')) = Cardinality(Covered(free)) + Cardinality(Covered(r))
      BY <1>2, <1>7, <2>2, <2>3, CountApart
    <3>2. Cardinality(Covered(free)) \in Nat /\ Cardinality(Covered(r)) \in Nat
      BY <1>2, <2>2, CovFinite
    <3>3. free.num \in Nat
      BY <1>1 DEF SoundList, ListRecords
    <3>4. QED
      BY <1>1, <2>3, <3>1, <3>2, <3>3
  <2>6. ListsSound'
    BY <1>7, <2>1, <2>3, <2>4, <2>5 DEF ListsSound
  <2>7. Clocked'
    BY <2>1 DEF Clocked
  <2>8. Covered(r) \in SUBSET (Covered(recent) \cup Covered(over) \cup {h})
    BY <1>7
  <2>9. Covered(o) = (Covered(recent) \cup Covered(over) \cup {h}) \ Covered(r)
    BY <1>7
  <2>10. QED
    BY <2>1, <2>3, <2>4, <2>6, <2>7, <2>8, <2>9
<1>10. CASE ~ (free.num <= Cutoff /\ Endured(st))
  <2>1. recent' = r /\ over' = o /\ stamp' = st /\ free' = free
    BY <1>4, <1>10
  <2>2. ListsSound' /\ Clocked'
    BY <1>1, <1>7, <1>8, <2>1 DEF ListsSound, Clocked
  <2>3. Covered(free') = Covered(free) \cup {}
    BY <2>1
  <2>4. QED
    BY <1>7, <2>1, <2>2, <2>3
<1>11. QED
  BY <1>9, <1>10

\* An operation gives its handle back (StoreFails, Undone, Removed).
LEMMA GiveBackStep ==
  ASSUME LedgerInv, NEW w \in Workers, NEW j \in Jobs,
         worker[w].at \in Holding, j.at \in {"idle", "undo"},
         j.made \in {<<>>, worker[w].made}, Becomes(w, j), Free(worker[w].handle),
         UNCHANGED <<stored, lost, now>>
  PROVE  LedgerInv' /\ Pool!Next
<1> USE DEF LedgerInv
<1> DEFINE h == worker[w].handle
<1>1. Split(Covered(free), Covered(recent), Covered(over), Held, stored, lost)
  BY DEF Placed
<1>2. j.at \notin Holding
  BY HoldingFacts
<1>3. /\ Holders' /\ Held' = Held \ {h} /\ h \in Held
      /\ \A v \in Workers : worker'[v] = IF v = w THEN j ELSE worker[v]
  BY <1>2, HeldStep
<1>4. Free(h)
  OBVIOUS
<1> HIDE DEF h
<1>5. MadeStored'
  BY <1>3, MadeKept
<1>6. /\ h \in Handles /\ h \notin Covered(free) /\ h \notin Covered(recent)
      /\ h \notin Covered(over) /\ Covered(free) \cap Covered(recent) = {}
      /\ Covered(free) \cap Covered(over) = {} /\ Covered(recent) \cap Covered(over) = {}
  BY <1>1, <1>3 DEF Split
<1>7. /\ ListsSound' /\ Clocked' /\ Covered(recent') \cap Covered(over') = {}
      /\ \E awake \in SUBSET (Covered(recent) \cup Covered(over) \cup {h}) :
           /\ Covered(free') = Covered(free) \cup awake
           /\ Covered(recent') \cup Covered(over') =
                (Covered(recent) \cup Covered(over) \cup {h}) \ awake
  BY <1>4, <1>6, FreeFacts
<1>8. PICK awake \in SUBSET (Covered(recent) \cup Covered(over) \cup {h}) :
           /\ Covered(free') = Covered(free) \cup awake
           /\ Covered(recent') \cup Covered(over') =
                (Covered(recent) \cup Covered(over) \cup {h}) \ awake
  BY <1>7
<1>9. Split(Covered(free'), Covered(recent'), Covered(over'), Held', stored, lost)
  BY <1>1, <1>3, <1>6, <1>7, <1>8 DEF Split
<1>10. Placed'
  BY <1>9 DEF Placed
<1>11. Pool!GiveBack(h)
  BY <1>3, <1>8 DEF Pool!GiveBack
<1>12. QED
  BY <1>3, <1>5, <1>6, <1>7, <1>10, <1>11 DEF Pool!Next

-----------------------------------------------------------------------------
(* The actions.                                                            *)

\* trove_handle_alloc_from_range offers free handles only.
LEMMA AllocatableFree ==
  ASSUME SoundList(free), NEW a \in RangeArrays \cup {<<>>}
  PROVE  Allocatable(a) \subseteq Covered(free)
<1> DEFINE hits == {i \in 1 .. Len(a) : Found(free, a[i]) # {}}
           k == CHOOSE i \in hits : \A j \in hits : i <= j
<1>1. CASE hits = {}
  BY <1>1 DEF Allocatable
<1>2. CASE hits # {}
  <2>1. hits \in SUBSET Nat
    OBVIOUS
  <2>2. \E i \in hits : \A j \in hits : i <= j
    <3> HIDE DEF hits
    <3> QED
      BY <1>2, <2>1, NatMin
  <2>3. k \in hits
    BY <2>2
  <2>4. k \in 1 .. Len(a)
    BY <2>3
  <2>5. a # <<>>
    BY <2>4
  <2>6. a[k] \in Extents
    BY <2>4, <2>5, ArraysAssumption
  <2>7. Allocatable(a) = Found(free, a[k])
    BY <1>2 DEF Allocatable
  <2>8. QED
    BY <2>6, <2>7, FoundInList
<1>3. QED
  BY <1>1, <1>2

\* Taking a handle out of the free list by its number.
LEMMA TakeOne ==
  ASSUME LedgerInv, NEW h \in Covered(free), free' = Without(free, h)
  PROVE  /\ SoundList(free') /\ Covered(free') = Covered(free) \ {h}
         /\ free'.num \in {free.num, free.num - 1} /\ h \in Nat
<1>1. SoundList(free) /\ h \in Handles
  BY DEF LedgerInv, ListsSound, Placed, Split
<1>2. QED
  BY <1>1, WithoutFacts, HandlesFinite

\* dbpf_dspace_create_op_svc, with a range.
LEMMA CreateStep ==
  ASSUME LedgerInv, NEW w \in Workers, NEW array \in RangeArrays, Create(w, array)
  PROVE  LedgerInv' /\ Pool!Next
<1>1. PICK h \in Allocatable(array) :
         free' = Without(free, h) /\ Becomes(w, [Idle EXCEPT !.at = "store", !.handle = h])
  BY DEF Create
<1>2. worker[w].at = "idle" /\ UNCHANGED <<recent, over, stamp, stored, lost, now>>
  BY DEF Create
<1>3. h \in Covered(free)
  BY AllocatableFree DEF LedgerInv, ListsSound
<1>4. /\ SoundList(free') /\ Covered(free') = Covered(free) \ {h}
      /\ free'.num \in {free.num, free.num - 1} /\ h \in Nat
  BY <1>1, <1>3, TakeOne
<1> DEFINE j == [Idle EXCEPT !.at = "store", !.handle = h]
<1>j. j = Holds("store", h) /\ Becomes(w, j)
  BY <1>1 DEF Holds
<1> HIDE DEF j
<1>5. j \in Jobs /\ j.at = "store" /\ j.handle = h /\ j.made = <<>> /\ Becomes(w, j)
  BY <1>4, <1>j, HoldJob
<1>6. QED
  BY <1>2, <1>3, <1>4, <1>5, TakeStep, HoldingFacts

\* dbpf_dspace_create_op_svc, without a range.
LEMMA CreateAnywhereStep ==
  ASSUME LedgerInv, NEW w \in Workers, CreateAnywhere(w)
  PROVE  LedgerInv' /\ Pool!Next
<1> DEFINE h == Highest(free).last
           j == [Idle EXCEPT !.at = "store", !.handle = h]
<1>1. /\ worker[w].at = "idle" /\ UNCHANGED <<recent, over, stamp, stored, lost, now>>
      /\ free.index # {} /\ free' = WithoutHighest(free) /\ Becomes(w, j)
  BY DEF CreateAnywhere
<1>2. SoundList(free) /\ free.num >= Cardinality(Covered(free)) /\ Covered(free) \subseteq Handles
  BY DEF LedgerInv, ListsSound, SoundList, Sound, Covered, Cov
<1>3. /\ h \in Covered(free) /\ SoundList(free') /\ Covered(free') = Covered(free) \ {h}
      /\ free'.num \in {free.num, free.num - 1}
  BY <1>1, <1>2, WithoutHighestFacts
<1>4. h \in Nat
  BY <1>2, <1>3, HandlesFinite
<1>j. j = Holds("store", h)
  BY DEF Holds
<1> HIDE DEF h, j
<1>5. j \in Jobs /\ j.at = "store" /\ j.handle = h /\ j.made = <<>>
  BY <1>4, <1>j, HoldJob
<1>6. QED
  BY <1>1, <1>3, <1>5, TakeStep, HoldingFacts

\* dbpf_dspace_create_op_svc, with TROVE_FORCE_REQUESTED_HANDLE.
LEMMA CreateForcedStep ==
  ASSUME LedgerInv, NEW w \in Workers, NEW h \in Handles, CreateForced(w, h)
  PROVE  LedgerInv' /\ Pool!Next
<1> DEFINE j == [Idle EXCEPT !.at = "store", !.handle = h]
<1>1. /\ worker[w].at = "idle" /\ UNCHANGED <<recent, over, stamp, stored, lost, now>>
      /\ h \in Covered(free) /\ free' = Without(free, h) /\ Becomes(w, j)
  BY DEF CreateForced
<1>2. /\ SoundList(free') /\ Covered(free') = Covered(free) \ {h}
      /\ free'.num \in {free.num, free.num - 1} /\ h \in Nat
  BY <1>1, TakeOne
<1>j. j = Holds("store", h)
  BY DEF Holds
<1> HIDE DEF j
<1>3. j \in Jobs /\ j.at = "store" /\ j.handle = h /\ j.made = <<>>
  BY <1>2, <1>j, HoldJob
<1>4. QED
  BY <1>1, <1>2, <1>3, TakeStep, HoldingFacts

\* dbpf_dspace_create_list_op_svc takes another handle.
LEMMA NextOfListStep ==
  ASSUME LedgerInv, NEW w \in Workers, NextOfList(w)
  PROVE  LedgerInv' /\ Pool!Next
<1>1. PICK h \in Allocatable(worker[w].array) :
         /\ free' = Without(free, h)
         /\ Becomes(w, [worker[w] EXCEPT !.at = "storeList", !.handle = h, !.left = @ - 1])
  BY DEF NextOfList
<1>2. worker[w].at = "nextOfList" /\ UNCHANGED <<recent, over, stamp, stored, lost, now>>
  BY DEF NextOfList
<1>3. worker[w] \in Jobs /\ worker[w].array \in RangeArrays \cup {<<>>}
  BY DEF LedgerInv, Holders, Jobs
<1>4. h \in Covered(free)
  BY <1>3, AllocatableFree DEF LedgerInv, ListsSound
<1>5. /\ SoundList(free') /\ Covered(free') = Covered(free) \ {h}
      /\ free'.num \in {free.num, free.num - 1} /\ h \in Nat
  BY <1>1, <1>4, TakeOne
<1> DEFINE j == [worker[w] EXCEPT !.at = "storeList", !.handle = h, !.left = @ - 1]
<1>j. j = HoldsNext(worker[w], h) /\ Becomes(w, j)
  BY <1>1 DEF HoldsNext
<1> HIDE DEF j
<1>6. /\ j \in Jobs /\ j.at = "storeList" /\ j.handle = h /\ j.made = worker[w].made
      /\ Becomes(w, j)
  BY <1>3, <1>5, <1>j, StoreListJob
<1>7. QED
  BY <1>2, <1>4, <1>5, <1>6, TakeStep, HoldingFacts

\* dbpf_dspace_create_store_handle.
LEMMA StoreStep ==
  ASSUME LedgerInv, NEW w \in Workers, Store(w)
  PROVE  LedgerInv' /\ Pool!Next
<1> USE DEF LedgerInv
<1> DEFINE h == worker[w].handle
           m == worker[w].made
           j == IF worker[w].left = 0 THEN Idle
                ELSE [worker[w] EXCEPT !.at = "nextOfList", !.handle = 0, !.made = Append(m, h)]
<1>1. /\ worker[w].at \in {"store", "storeList"} /\ h \notin stored /\ stored' = stored \cup {h}
      /\ UNCHANGED <<free, recent, over, stamp, lost, now>>
  BY DEF Store
<1>2. worker[w] \in Jobs
  BY DEF Holders
<1>3. Becomes(w, j)
  BY DEF Store
<1>4. Split(Covered(free), Covered(recent), Covered(over), Held, stored, lost)
  BY DEF Placed
<1>5. worker[w].at \in Holding
  BY <1>1, HoldingFacts
<1>6. h \in Held /\ h \in Handles
  BY <1>4, <1>5 DEF Held, Split
<1>7. m \in Seq(Handles) /\ Append(m, h) \in Seq(Handles)
  BY <1>2, <1>6 DEF Jobs
<1>8. j \in Jobs /\ j.at \in {"idle", "nextOfList"} /\ j.made \in {<<>>, Append(m, h)}
  <2>1. CASE worker[w].left = 0
    BY <2>1, IdleJob
  <2>2. CASE worker[w].left # 0
    <3>1. j = GoesOn(worker[w], Append(m, h))
      BY <2>2 DEF GoesOn
    <3> HIDE DEF j, h, m
    <3>2. QED
      BY <1>2, <1>7, <3>1, NextJob
  <2>3. QED
    BY <2>1, <2>2
<1> HIDE DEF j
<1>9. j.at \notin Holding
  BY <1>8, HoldingFacts
<1>10. /\ Holders' /\ Held' = Held \ {h}
       /\ \A v \in Workers : worker'[v] = IF v = w THEN j ELSE worker[v]
  BY <1>3, <1>5, <1>8, <1>9, HeldStep
<1> HIDE DEF h
<1>11. Placed'
  BY <1>1, <1>4, <1>6, <1>10 DEF Placed, Split
<1>12. MadeStored'
  <2>1. \A v \in Workers : \A i \in 1 .. Len(worker'[v].made) :
          \/ i \in 1 .. Len(worker[v].made) /\ worker'[v].made[i] = worker[v].made[i]
          \/ v = w /\ i = Len(m) + 1 /\ worker'[v].made[i] = h
    BY <1>7, <1>8, <1>10
  <2>2. \A v \in Workers : \A i \in 1 .. Len(worker'[v].made) : worker'[v].made[i] \in stored'
    BY <1>1, <2>1 DEF MadeStored
  <2>3. \A v \in Workers : \A i \in 1 .. Len(worker[v].made) : worker[v].made[i] # h
    BY <1>1 DEF MadeStored
  <2>4. ASSUME NEW v \in Workers, NEW u \in Workers,
               NEW i \in 1 .. Len(worker'[v].made), NEW k \in 1 .. Len(worker'[u].made),
               worker'[v].made[i] = worker'[u].made[k]
        PROVE  v = u /\ i = k
    <3>1. CASE i \in 1 .. Len(worker[v].made) /\ worker'[v].made[i] = worker[v].made[i]
      <4>1. worker'[u].made[k] # h
        BY <2>3, <2>4, <3>1
      <4>2. k \in 1 .. Len(worker[u].made) /\ worker'[u].made[k] = worker[u].made[k]
        BY <2>1, <4>1
      <4>3. worker[v].made[i] = worker[u].made[k]
        BY <2>4, <3>1, <4>2
      <4>4. QED
        BY <3>1, <4>2, <4>3 DEF MadeStored
    <3>2. CASE v = w /\ i = Len(m) + 1 /\ worker'[v].made[i] = h
      <4>1. u = w /\ k = Len(m) + 1
        BY <2>1, <2>3, <2>4, <3>2
      <4>2. QED
        BY <3>2, <4>1
    <3>3. QED
      BY <2>1, <3>1, <3>2
  <2>5. QED
    BY <2>2, <2>4 DEF MadeStored
<1>13. ListsSound' /\ Clocked'
  BY <1>1 DEF ListsSound, Clocked
<1>14. Pool!Name(h)
  BY <1>1, <1>6, <1>10 DEF Pool!Name
<1>15. QED
  BY <1>6, <1>10, <1>11, <1>12, <1>13, <1>14 DEF Pool!Next

\* A failed list creation takes back the first record it made.
LEMMA UndoStep ==
  ASSUME LedgerInv, NEW w \in Workers, Undo(w)
  PROVE  LedgerInv' /\ [Pool!Next]_(Pool!poolVars)
<1> DEFINE m == worker[w].made
<1>1. /\ worker[w].at = "undo" /\ worker[w] \in Jobs
      /\ UNCHANGED <<free, recent, over, stamp, lost, now>>
  BY DEF Undo, LedgerInv, Holders
<1>2. m \in Seq(Handles)
  BY <1>1 DEF Jobs
<1>3. CASE m = <<>>
  <2>1. Becomes(w, Idle) /\ UNCHANGED stored
    BY <1>3 DEF Undo
  <2>2. QED
    BY <1>1, <2>1, KeepStep, IdleJob, HoldingFacts
<1>4. CASE m # <<>>
  <2> DEFINE h == Head(m)
             j == [Idle EXCEPT !.at = "undone", !.handle = h, !.made = Tail(m)]
  <2>1. stored' = stored \ {h} /\ Becomes(w, j)
    BY <1>4 DEF Undo
  <2>2. h \in Handles /\ Tail(m) \in Seq(Handles) /\ Len(m) > 0 /\ h = m[1]
    BY <1>2, <1>4
  <2>3. h \in Nat
    BY <2>2, HandlesFinite
  <2>j. j = HoldsUndone(h, Tail(m))
    BY DEF HoldsUndone
  <2> HIDE DEF j
  <2>4. j \in Jobs /\ j.at = "undone" /\ j.handle = h /\ j.made = Tail(m)
    <3> HIDE DEF h
    <3> QED
      BY <2>2, <2>3, <2>j, UndoneJob
  <2>5. h \in stored
    BY <1>2, <2>2 DEF LedgerInv, MadeStored
  <2>6. \A v \in Workers : worker'[v] = IF v = w THEN j ELSE worker[v]
    BY <2>1 DEF Becomes, LedgerInv, Holders
  <2>7. MadeStored'
    <3> DEFINE Was(v, i) == IF v = w THEN i + 1 ELSE i
    <3>1. \A v \in Workers : \A i \in 1 .. Len(worker'[v].made) :
            /\ Was(v, i) \in 1 .. Len(worker[v].made)
            /\ worker'[v].made[i] = worker[v].made[Was(v, i)]
      <4> SUFFICES ASSUME NEW v \in Workers, NEW i \in 1 .. Len(worker'[v].made)
                   PROVE  /\ Was(v, i) \in 1 .. Len(worker[v].made)
                          /\ worker'[v].made[i] = worker[v].made[Was(v, i)]
        OBVIOUS
      <4>1. CASE v = w
        <5>1. worker'[v].made = Tail(m) /\ i \in 1 .. Len(Tail(m))
          BY <2>4, <2>6, <4>1
        <5>2. i + 1 \in 1 .. Len(m) /\ Tail(m)[i] = m[i + 1]
          BY <1>2, <1>4, <5>1
        <5>3. QED
          BY <4>1, <5>1, <5>2
      <4>2. CASE v # w
        BY <2>6, <4>2
      <4>3. QED
        BY <4>1, <4>2
    <3>2. \A v \in Workers : \A i \in 1 .. Len(worker'[v].made) :
            worker'[v].made[i] \in stored /\ worker'[v].made[i] # h
      <4> SUFFICES ASSUME NEW v \in Workers, NEW i \in 1 .. Len(worker'[v].made)
                   PROVE  worker'[v].made[i] \in stored /\ worker'[v].made[i] # h
        OBVIOUS
      <4>1. 1 \in 1 .. Len(worker[w].made)
        BY <1>2, <2>2
      <4>2. v = w => Was(v, i) # 1
        OBVIOUS
      <4> HIDE DEF Was
      <4>3. Was(v, i) \in 1 .. Len(worker[v].made) /\ worker'[v].made[i] = worker[v].made[Was(v, i)]
        BY <3>1
      <4>4. QED
        BY <2>2, <4>1, <4>2, <4>3 DEF LedgerInv, MadeStored
    <3>3. ASSUME NEW v \in Workers, NEW u \in Workers,
                 NEW i \in 1 .. Len(worker'[v].made), NEW k \in 1 .. Len(worker'[u].made),
                 worker'[v].made[i] = worker'[u].made[k]
          PROVE  v = u /\ i = k
      <4>1. v = u /\ Was(v, i) = Was(u, k)
        <5> HIDE DEF Was
        <5>1. /\ Was(v, i) \in 1 .. Len(worker[v].made) /\ Was(u, k) \in 1 .. Len(worker[u].made)
              /\ worker[v].made[Was(v, i)] = worker[u].made[Was(u, k)]
          BY <3>1, <3>3
        <5>2. QED
          BY <5>1 DEF LedgerInv, MadeStored
      <4>2. QED
        BY <4>1
    <3>4. QED
      BY <2>1, <3>2, <3>3 DEF MadeStored
  <2> HIDE DEF h
  <2>8. QED
    BY <1>1, <2>1, <2>4, <2>5, <2>7, UnnameStep, HoldingFacts
<1>5. QED
  BY <1>3, <1>4

\* remove_one_handle deletes a record that no list creation in progress has made.
LEMMA RemoveStep ==
  ASSUME LedgerInv, NEW w \in Workers, NEW h \in stored, Remove(w, h)
  PROVE  LedgerInv' /\ Pool!Next
<1> DEFINE j == [Idle EXCEPT !.at = "removed", !.handle = h]
<1>1. /\ worker[w].at = "idle" /\ UNCHANGED <<free, recent, over, stamp, lost, now>>
      /\ h \notin Unannounced /\ stored' = stored \ {h} /\ Becomes(w, j)
  BY DEF Remove
<1>2. h \in Nat
  BY HandlesFinite DEF LedgerInv, Placed, Split
<1>j. j = Holds("removed", h)
  BY DEF Holds
<1> HIDE DEF j
<1>3. j \in Jobs /\ j.at = "removed" /\ j.handle = h /\ j.made = <<>>
  BY <1>2, <1>j, HoldJob
<1>4. \A v \in Workers : worker'[v] = IF v = w THEN j ELSE worker[v]
  BY <1>1 DEF Becomes, LedgerInv, Holders
<1>5. MadeStored'
  <2>1. \A v \in Workers : worker'[v].made \in {<<>>, worker[v].made}
    BY <1>3, <1>4
  <2>2. \A v \in Workers : \A i \in 1 .. Len(worker'[v].made) :
          i \in 1 .. Len(worker[v].made) /\ worker'[v].made[i] = worker[v].made[i]
    BY <2>1
  <2>3. \A v \in Workers : \A i \in 1 .. Len(worker[v].made) : worker[v].made[i] # h
    BY <1>1 DEF Unannounced
  <2>4. \A v \in Workers : \A i \in 1 .. Len(worker'[v].made) : worker'[v].made[i] \in stored'
    BY <1>1, <2>2, <2>3 DEF LedgerInv, MadeStored
  <2>5. ASSUME NEW v \in Workers, NEW u \in Workers,
               NEW i \in 1 .. Len(worker'[v].made), NEW k \in 1 .. Len(worker'[u].made),
               worker'[v].made[i] = worker'[u].made[k]
        PROVE  v = u /\ i = k
    BY <2>2, <2>5 DEF LedgerInv, MadeStored
  <2>6. QED
    BY <2>4, <2>5 DEF MadeStored
<1>6. QED
  BY <1>1, <1>3, <1>5, UnnameStep, HoldingFacts

\* The steps that end an operation, or begin or end a list creation.
LEMMA ThreadStep ==
  ASSUME LedgerInv, NEW w \in Workers,
         \/ \E array \in RangeArrays, count \in 1 .. MaxCount : CreateList(w, array, count)
         \/ ListNoSpace(w) \/ StoreFails(w) \/ StoreListFails(w) \/ Undone(w)
         \/ Removed(w) \/ RemoveFails(w)
  PROVE  LedgerInv' /\ [Pool!Next]_(Pool!poolVars)
<1>1. worker[w] \in Jobs /\ worker[w].made \in Seq(Handles)
  BY DEF LedgerInv, Holders, Jobs
<1> DEFINE u == Undoes(worker[w].made)
<1>2. u \in Jobs /\ u.at = "undo" /\ u.made = worker[w].made
  BY <1>1, UndoJob
<1>3. ASSUME NEW array \in RangeArrays, NEW count \in 1 .. MaxCount, CreateList(w, array, count)
      PROVE  LedgerInv' /\ [Pool!Next]_(Pool!poolVars)
  <2> DEFINE j == BeginsList(array, count)
  <2>1. /\ worker[w].at = "idle" /\ Becomes(w, j)
        /\ UNCHANGED <<free, recent, over, stamp, stored, lost, now>>
    BY <1>3 DEF CreateList, BeginsList
  <2>2. j \in Jobs /\ j.at = "nextOfList" /\ j.made = <<>>
    BY LedgerBounds, ListJob
  <2> HIDE DEF j
  <2>3. QED
    BY <2>1, <2>2, KeepStep, HoldingFacts
<1>4. CASE ListNoSpace(w)
  BY <1>4, IdleJob, KeepStep, HoldingFacts DEF ListNoSpace
<1>5. CASE StoreFails(w)
  BY <1>5, IdleJob, GiveBackStep, HoldingFacts DEF StoreFails
<1>6. CASE Removed(w)
  BY <1>6, IdleJob, GiveBackStep, HoldingFacts DEF Removed
<1>7. CASE Undone(w)
  <2>1. /\ worker[w].at = "undone" /\ Free(worker[w].handle) /\ Becomes(w, u)
        /\ UNCHANGED <<stored, lost, now>>
    BY <1>7 DEF Undone, Undoes
  <2> HIDE DEF u
  <2>2. QED
    BY <1>2, <2>1, GiveBackStep, HoldingFacts
<1>8. CASE StoreListFails(w)
  <2>1. /\ worker[w].at = "storeList" /\ lost' = lost \cup {worker[w].handle} /\ Becomes(w, u)
        /\ UNCHANGED <<free, recent, over, stamp, stored, now>>
    BY <1>8 DEF StoreListFails, Undoes
  <2> HIDE DEF u
  <2>2. QED
    BY <1>2, <2>1, LoseStep, HoldingFacts
<1>9. CASE RemoveFails(w)
  BY <1>9, IdleJob, LoseStep, HoldingFacts DEF RemoveFails
<1>10. QED
  BY <1>3, <1>4, <1>5, <1>6, <1>7, <1>8, <1>9

\* With every thread idle and the freed lists empty, the free list that
\* trove_set_handle_ranges builds for the stored dataspaces U has all the rest.
LEMMA Fresh ==
  ASSUME NEW U \in SUBSET Handles
  PROVE  /\ SoundList(Mapped(U)) /\ SoundList(EmptyList)
         /\ Mapped(U).num >= Cardinality(Covered(Mapped(U)))
         /\ EmptyList.num = Cardinality(Covered(EmptyList))
         /\ Covered(EmptyList) = {} /\ Covered(Mapped(U)) = Handles \ U
         /\ Split(Covered(Mapped(U)), {}, {}, {}, U, {})
<1>1. SoundList(EmptyList) /\ Covered(EmptyList) = {} /\ EmptyList.num = Cardinality({})
  BY FS_EmptySet DEF SoundList, ListRecords, EmptyList, Sound, Apart, Cov, Covered
<1>2. /\ SoundList(Mapped(U)) /\ Covered(Mapped(U)) = Handles \ U
      /\ Mapped(U).num >= Cardinality(Handles \ U)
  BY MappedFacts
<1>3. Split(Covered(Mapped(U)), {}, {}, {}, U, {})
  BY <1>2 DEF Split
<1>4. QED
  BY <1>1, <1>2, <1>3

\* What is there when the server starts for the first time.
LEMMA LedgerInit == Init => LedgerInv /\ Pool!Init
<1> SUFFICES ASSUME Init PROVE LedgerInv /\ Pool!Init
  OBVIOUS
<1>1. /\ free = Mapped({}) /\ recent = EmptyList /\ over = EmptyList /\ stored = {} /\ lost = {}
      /\ worker = [w \in Workers |-> Idle] /\ now = 0 /\ stamp = [recent |-> 0, over |-> 0]
  BY DEF Init
<1>2. Held = {} /\ Holders /\ MadeStored
  BY <1>1, IdleJob, HoldingFacts DEF Held, Holders, MadeStored
<1>3. {} \in SUBSET Handles
  OBVIOUS
<1>4. ListsSound
  BY <1>1, <1>3, Fresh DEF ListsSound
<1>5. Placed
  BY <1>1, <1>2, <1>3, Fresh DEF Placed
<1>6. Clocked
  BY <1>1, LedgerBounds DEF Clocked
<1>7. Pool!Init
  BY <1>1, <1>2, <1>3, Fresh DEF Pool!Init
<1>8. QED
  BY <1>2, <1>4, <1>5, <1>6, <1>7 DEF LedgerInv

\* The server starts again: what was held, resting or lost is free.
LEMMA RestartStep ==
  ASSUME LedgerInv, Restart
  PROVE  LedgerInv' /\ Pool!Restart
<1>1. /\ free' = Mapped(stored) /\ recent' = EmptyList /\ over' = EmptyList /\ stored' = stored
      /\ lost' = {} /\ worker' = [w \in Workers |-> Idle] /\ now' = now
      /\ stamp' = [recent |-> now, over |-> now]
  BY DEF Restart
<1>2. Held' = {} /\ Holders' /\ MadeStored'
  BY <1>1, IdleJob, HoldingFacts DEF Held, Holders, MadeStored
<1>3. stored \in SUBSET Handles
  BY DEF LedgerInv, Placed, Split
<1>4. ListsSound'
  BY <1>1, <1>3, Fresh DEF ListsSound
<1>5. Placed'
  BY <1>1, <1>2, <1>3, Fresh DEF Placed
<1>6. Clocked'
  BY <1>1 DEF Clocked, LedgerInv
<1>7. Pool!Restart
  BY <1>1, <1>2, <1>3, Fresh DEF Pool!Restart
<1>8. QED
  BY <1>2, <1>4, <1>5, <1>6, <1>7 DEF LedgerInv

\* Time passes, or nothing happens.
LEMMA TickStep ==
  ASSUME LedgerInv, Tick \/ UNCHANGED vars
  PROVE  LedgerInv' /\ UNCHANGED Pool!poolVars
<1>1. /\ free' = free /\ recent' = recent /\ over' = over /\ stamp' = stamp
      /\ stored' = stored /\ worker' = worker /\ lost' = lost
  BY DEF Tick, vars
<1>2. now' \in 0 .. MaxTime
  BY LedgerBounds DEF Tick, vars, LedgerInv, Clocked
<1>3. Held' = Held
  BY <1>1 DEF Held
<1>4. ListsSound' /\ Placed' /\ Clocked'
  BY <1>1, <1>2, <1>3 DEF LedgerInv, ListsSound, Placed, Clocked
<1>5. Holders' /\ MadeStored'
  BY <1>1 DEF LedgerInv, Holders, MadeStored
<1>6. UNCHANGED Pool!poolVars
  BY <1>1, <1>3 DEF Pool!poolVars
<1>7. QED
  BY <1>4, <1>5, <1>6 DEF LedgerInv

\* Every step keeps the invariant and is a step of the pool or none.
LEMMA LedgerStep ==
  ASSUME LedgerInv, [Next]_vars
  PROVE  LedgerInv' /\ [Pool!Next]_(Pool!poolVars)
<1>1. ASSUME NEW w \in Workers, NEW array \in RangeArrays, Create(w, array)
      PROVE  LedgerInv' /\ [Pool!Next]_(Pool!poolVars)
  BY <1>1, CreateStep
<1>2. ASSUME NEW w \in Workers, CreateAnywhere(w)
      PROVE  LedgerInv' /\ [Pool!Next]_(Pool!poolVars)
  BY <1>2, CreateAnywhereStep
<1>3. ASSUME NEW w \in Workers, NEW h \in Handles, CreateForced(w, h)
      PROVE  LedgerInv' /\ [Pool!Next]_(Pool!poolVars)
  BY <1>3, CreateForcedStep
<1>4. ASSUME NEW w \in Workers, NextOfList(w)
      PROVE  LedgerInv' /\ [Pool!Next]_(Pool!poolVars)
  BY <1>4, NextOfListStep
<1>5. ASSUME NEW w \in Workers, Store(w)
      PROVE  LedgerInv' /\ [Pool!Next]_(Pool!poolVars)
  BY <1>5, StoreStep
<1>6. ASSUME NEW w \in Workers, Undo(w)
      PROVE  LedgerInv' /\ [Pool!Next]_(Pool!poolVars)
  BY <1>6, UndoStep
<1>7. ASSUME NEW w \in Workers, NEW h \in stored, Remove(w, h)
      PROVE  LedgerInv' /\ [Pool!Next]_(Pool!poolVars)
  BY <1>7, RemoveStep
<1>8. ASSUME NEW w \in Workers,
             \/ \E array \in RangeArrays, count \in 1 .. MaxCount : CreateList(w, array, count)
             \/ ListNoSpace(w) \/ StoreFails(w) \/ StoreListFails(w) \/ Undone(w)
             \/ Removed(w) \/ RemoveFails(w)
      PROVE  LedgerInv' /\ [Pool!Next]_(Pool!poolVars)
  BY <1>8, ThreadStep
<1>9. CASE Tick \/ UNCHANGED vars
  BY <1>9, TickStep
<1>10. CASE Restart
  BY <1>10, RestartStep DEF Pool!Next
<1>11. QED
  BY <1>1, <1>2, <1>3, <1>4, <1>5, <1>6, <1>7, <1>8, <1>9, <1>10 DEF Next

-----------------------------------------------------------------------------
(* The theorems.                                                           *)

\* The invariant of the ledger.
LEMMA LedgerInvariant == Spec => []LedgerInv
<1>1. LedgerInv /\ [Next]_vars => LedgerInv'
  BY LedgerStep
<1>2. QED
  BY <1>1, LedgerInit, PTL DEF Spec

\* Every variable keeps its type, no counter of a list wraps, and the lists hold
\* extents of configured handles only (trove-extentlist.c).
THEOREM LedgerTypeCorrect == Spec => []TypeOK
<1>1. LedgerInv => TypeOK
  <2> SUFFICES ASSUME LedgerInv PROVE TypeOK
    OBVIOUS
  <2>1. \A l \in Lists : l.num \in Nat /\ l.index \subseteq Extents
    BY DEF LedgerInv, ListsSound, SoundList, ListRecords, Lists
  <2>2. stored \subseteq Handles /\ lost \subseteq Handles
    BY DEF LedgerInv, Placed, Split
  <2>3. \A w \in Workers : worker[w].at \in Steps
    BY DEF LedgerInv, Holders, Jobs
  <2>4. QED
    BY <2>1, <2>2, <2>3 DEF TypeOK, LedgerInv, Clocked
<1>2. QED
  BY <1>1, LedgerInvariant, PTL

\* The extents of each list stay apart, for any sequence of splitting, joining and
\* merging (extentlist_coalesce_extent, extentlist_handle_remove).
THEOREM ExtentsStayApart == Spec => []ExtentsApart
<1>1. LedgerInv => ExtentsApart
  <2> SUFFICES ASSUME LedgerInv, NEW l \in Lists, NEW e \in l.index, NEW f \in l.index
               PROVE  /\ e.first <= e.last
                      /\ e # f => e.last + 1 < f.first \/ f.last + 1 < e.first
    BY DEF ExtentsApart
  <2>1. Sound(l.index)
    BY DEF LedgerInv, ListsSound, SoundList, Lists
  <2>2. QED
    BY <2>1, ExtentFacts DEF Sound, Apart
<1>2. QED
  BY <1>1, LedgerInvariant, PTL

\* num_handles is exact for the lists of freed handles and never below the truth
\* for the free list (extentlist_addextent, extentlist_get_and_dec_extent).
THEOREM CountsStaySafe == Spec => []CountsSafe
<1>1. LedgerInv => CountsSafe
  <2> SUFFICES ASSUME LedgerInv PROVE CountsSafe
    OBVIOUS
  <2>1. /\ Covered(recent) \subseteq Handles /\ Covered(over) \subseteq Handles
    BY DEF LedgerInv, Placed, Split
  <2>2. Cardinality(Covered(recent)) \in Nat /\ Cardinality(Covered(over)) \in Nat
    BY <2>1, CovFinite
  <2>3. QED
    BY <2>2 DEF CountsSafe, LedgerInv, ListsSound, Lists
<1>2. QED
  BY <1>1, LedgerInvariant, PTL

\* A configured handle is on one list, or held by one operation, or stored, or
\* lost: none is given out twice, whatever the threads do (trove-ledger.c,
\* dbpf-dspace.c).
THEOREM OnePlaceHolds == Spec => []OnePlace
<1>1. LedgerInv => OnePlace
  <2> SUFFICES ASSUME LedgerInv, NEW h \in Handles
               PROVE  Cardinality({k \in 1 .. 3 : h \in Covered(<<free, recent, over>>[k])})
                        + Cardinality({w \in Workers : worker[w].at \in Holding /\ worker[w].handle = h})
                        + (IF h \in stored THEN 1 ELSE 0)
                        = IF h \in lost THEN 0 ELSE 1
    BY DEF OnePlace
  <2> DEFINE L == {k \in 1 .. 3 : h \in Covered(<<free, recent, over>>[k])}
             W == {w \in Workers : worker[w].at \in Holding /\ worker[w].handle = h}
  <2> SUFFICES Cardinality(L) + Cardinality(W) + (IF h \in stored THEN 1 ELSE 0)
                 = IF h \in lost THEN 0 ELSE 1
    OBVIOUS
  <2>1. Split(Covered(free), Covered(recent), Covered(over), Held, stored, lost)
    BY DEF LedgerInv, Placed
  <2>2. /\ 1 \in L <=> h \in Covered(free)
        /\ 2 \in L <=> h \in Covered(recent)
        /\ 3 \in L <=> h \in Covered(over)
        /\ L \subseteq {1, 2, 3}
    OBVIOUS
  <2>3. W = {} <=> h \notin Held
    BY DEF Held
  <2>4. W # {} => \E w : W = {w}
    BY DEF LedgerInv, Holders
  <2> HIDE DEF L, W
  <2>5. /\ L = {} => Cardinality(L) = 0
        /\ (\E k : L = {k}) => Cardinality(L) = 1
        /\ W = {} => Cardinality(W) = 0
        /\ (\E w : W = {w}) => Cardinality(W) = 1
    BY FS_EmptySet, FS_Singleton
  <2>6. CASE h \in Covered(free)
    <3>1. L = {1} /\ W = {} /\ h \notin stored /\ h \notin lost
      BY <2>1, <2>2, <2>3, <2>6 DEF Split
    <3>2. QED
      BY <2>5, <3>1
  <2>7. CASE h \in Covered(recent)
    <3>1. L = {2} /\ W = {} /\ h \notin stored /\ h \notin lost
      BY <2>1, <2>2, <2>3, <2>7 DEF Split
    <3>2. QED
      BY <2>5, <3>1
  <2>8. CASE h \in Covered(over)
    <3>1. L = {3} /\ W = {} /\ h \notin stored /\ h \notin lost
      BY <2>1, <2>2, <2>3, <2>8 DEF Split
    <3>2. QED
      BY <2>5, <3>1
  <2>9. CASE h \in Held
    <3>1. L = {} /\ W # {} /\ h \notin stored /\ h \notin lost
      BY <2>1, <2>2, <2>3, <2>9 DEF Split
    <3>2. Cardinality(L) = 0 /\ Cardinality(W) = 1
      BY <2>4, <2>5, <3>1, Zenon
    <3>3. QED
      BY <3>1, <3>2
  <2>10. CASE h \in stored
    <3>1. L = {} /\ W = {} /\ h \notin lost
      BY <2>1, <2>2, <2>3, <2>10 DEF Split
    <3>2. QED
      BY <2>5, <2>10, <3>1
  <2>11. CASE h \in lost
    <3>1. L = {} /\ W = {} /\ h \notin stored
      BY <2>1, <2>2, <2>3, <2>11 DEF Split
    <3>2. QED
      BY <2>5, <2>11, <3>1
  <2>12. QED
    BY <2>1, <2>6, <2>7, <2>8, <2>9, <2>10, <2>11 DEF Split
<1>2. QED
  BY <1>1, LedgerInvariant, PTL

\* The ledger and the dataspace operations implement the pool of handles of
\* HandlePool: every step of theirs is one of the pool's or leaves it alone.
THEOREM LedgerImplementsPool == Spec => ImplementsHandlePool
<1>1. LedgerInv /\ [Next]_vars => [Pool!Next]_(Pool!poolVars)
  BY LedgerStep
<1>2. Init => Pool!Init
  BY LedgerInit
<1>3. QED
  BY <1>1, <1>2, LedgerInvariant, PTL DEF Spec, ImplementsHandlePool, Pool!Spec
=============================================================================
