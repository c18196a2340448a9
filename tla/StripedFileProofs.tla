------------------------- MODULE StripedFileProofs --------------------------
(***************************************************************************)
(* Proofs about StripedFile, for any number of datafiles, any strip size,  *)
(* any regions and any interleaving of a reader with writes and            *)
(* truncations: the methods of a distribution fit together, the pieces of  *)
(* a request are its bytes on a datafile, the datafiles hold what was      *)
(* written, their sizes give the size of the file, and what a read returns *)
(* is right.  The files are striped by simple_stripe, twod_stripe or basic *)
(* (FilesLaid); those read by small I/O have at most two datafiles         *)
(* (SmallReads).                                                           *)
(***************************************************************************)
EXTENDS StripedFile, FiniteSetTheorems, WellFoundedInduction, TLAPS

-----------------------------------------------------------------------------
(* Arithmetic.                                                             *)

\* A product grows by one factor for every step of the other.
LEMMA MulStep ==
  ASSUME NEW a \in Int, NEW b \in Int, NEW c \in Nat
  PROVE  /\ a < b => a * c + c <= b * c
         /\ a <= b => a * c <= b * c
OBVIOUS

\* Factors may be regrouped.
LEMMA MulOrder ==
  ASSUME NEW a \in Int, NEW b \in Int, NEW c \in Int
  PROVE  a * b * c = a * (b * c) /\ a * b * c = (a * c) * b /\ a * b = b * a
OBVIOUS

\* Products of naturals.
LEMMA MulNat ==
  ASSUME NEW a \in Nat, NEW b \in Nat
  PROVE  a * b \in Nat /\ (a # 0 /\ b # 0 => a * b # 0)
OBVIOUS

\* Quotient and remainder.
LEMMA DivMod ==
  ASSUME NEW a \in Nat, NEW b \in Nat \ {0}
  PROVE  a \div b \in Nat /\ a % b \in 0..(b - 1) /\ a = (a \div b) * b + (a % b)
OBVIOUS

\* There is one way to write a number as a multiple and a rest.
LEMMA DivUnique ==
  ASSUME NEW b \in Nat \ {0}, NEW q \in Nat, NEW r \in 0..(b - 1)
  PROVE  (q * b + r) \div b = q /\ (q * b + r) % b = r
OBVIOUS

-----------------------------------------------------------------------------
(* What the other proofs need to know of a distribution: P2L enumerates    *)
(* the bytes of a datafile in order, L2P counts those below an offset.     *)

Typed(d) ==
  /\ d.ct \in Nat \ {0}
  /\ \A s \in Servers(d), x \in Nat : P2L(d, s, x) \in Nat /\ L2P(d, s, x) \in Nat

Counts(d) ==
  \A s \in Servers(d), p, l \in Nat : P2L(d, s, p) < l <=> p < L2P(d, s, l)

Rises(d) ==
  \A s \in Servers(d), p, q \in Nat : p < q => P2L(d, s, p) < P2L(d, s, q)

Covers(d) ==
  \A l \in Nat : \E s \in Servers(d), p \in Nat : P2L(d, s, p) = l

Disjoint(d) ==
  \A s, t \in Servers(d), p, q \in Nat : P2L(d, s, p) = P2L(d, t, q) => s = t

Seeks(d) ==
  \A s \in Servers(d), l \in Nat : NextMapped(d, s, l) = P2L(d, s, L2P(d, s, l))

Runs(d) ==
  \A s \in Servers(d), p \in Nat :
    /\ Contiguous(d, s, p) \in Nat \ {0}
    /\ \A i \in Nat : i < Contiguous(d, s, p) \/ d.ct = 1 =>
                        P2L(d, s, p + i) = P2L(d, s, p) + i

Earlier(d) ==
  \A s, t \in Servers(d), p \in Nat : s <= t => P2L(d, s, p) <= P2L(d, t, p)

Layout(d) ==
  /\ Typed(d) /\ Counts(d) /\ Rises(d) /\ Covers(d) /\ Disjoint(d) /\ Seeks(d)
  /\ Runs(d) /\ Earlier(d)

-----------------------------------------------------------------------------
(* simple_stripe.                                                          *)

IsSimple(d) ==
  d.kind = "simple" /\ d.ct \in Nat \ {0} /\ d.strip \in Nat \ {0}

\* A physical offset as its strip and the place in it, and where that is.
LEMMA SimpleSplit ==
  ASSUME NEW d, IsSimple(d), NEW s \in Servers(d), NEW q \in Nat, NEW r \in 0..(d.strip - 1)
  PROVE  /\ P2L(d, s, q * d.strip + r) = q * (d.strip * d.ct) + (s * d.strip + r)
         /\ s * d.strip + r \in 0..(d.strip * d.ct - 1)
<1>1. /\ d.strip \in Nat \ {0} /\ d.ct \in Nat \ {0} /\ s \in Nat /\ s < d.ct
      /\ r \in Nat /\ r < d.strip /\ d.strip * d.ct \in Nat
  BY MulNat DEF IsSimple, Servers
<1>2. (q * d.strip + r) \div d.strip = q /\ (q * d.strip + r) % d.strip = r
  BY <1>1, DivUnique
<1>3. P2L(d, s, q * d.strip + r) = q * d.strip * d.ct + d.strip * s + r
  BY <1>2 DEF P2L, SimpleP2L, IsSimple
<1>4. q * d.strip * d.ct = q * (d.strip * d.ct) /\ d.strip * s = s * d.strip
      /\ d.ct * d.strip = d.strip * d.ct
  BY <1>1, MulOrder
<1>5. s * d.strip + d.strip <= d.ct * d.strip /\ s * d.strip \in Nat
      /\ q * (d.strip * d.ct) \in Nat
  BY <1>1, MulStep, MulNat
<1> QED
  BY <1>1, <1>3, <1>4, <1>5

\* A logical offset as its stripe and the place in it, and how many bytes of
\* the datafile are below it.
LEMMA SimpleRank ==
  ASSUME NEW d, IsSimple(d), NEW s \in Servers(d),
         NEW k \in Nat, NEW o \in 0..(d.strip * d.ct - 1)
  PROVE  LET w == o - s * d.strip
         IN  L2P(d, s, k * (d.strip * d.ct) + o) =
               k * d.strip + (IF w < 0 THEN 0 ELSE IF w < d.strip THEN w ELSE d.strip)
<1>1. /\ d.strip \in Nat \ {0} /\ d.ct \in Nat \ {0} /\ s \in Nat
      /\ d.strip * d.ct \in Nat \ {0}
  BY MulNat DEF IsSimple, Servers
<1>2. (k * (d.strip * d.ct) + o) \div (d.strip * d.ct) = k
  BY <1>1, DivUnique
<1>3. k * d.strip * d.ct = k * (d.strip * d.ct) /\ k * (d.strip * d.ct) \in Nat
  BY <1>1, MulOrder, MulNat
<1>4. k * (d.strip * d.ct) + o - k * d.strip * d.ct = o
  BY <1>1, <1>3
<1> QED
  BY <1>2, <1>4 DEF L2P, SimpleL2P, IsSimple

\* Every offset has such a form.
LEMMA SimpleForms ==
  ASSUME NEW d, IsSimple(d)
  PROVE  /\ d.strip \in Nat \ {0} /\ d.ct \in Nat \ {0} /\ d.strip * d.ct \in Nat \ {0}
         /\ \A p \in Nat : \E q \in Nat, r \in 0..(d.strip - 1) : p = q * d.strip + r
         /\ \A l \in Nat : \E k \in Nat, o \in 0..(d.strip * d.ct - 1) :
                              l = k * (d.strip * d.ct) + o
<1>1. d.strip \in Nat \ {0} /\ d.ct \in Nat \ {0} /\ d.strip * d.ct \in Nat \ {0}
  BY MulNat DEF IsSimple
<1> QED
  BY <1>1, DivMod

\* simple_stripe: logical_to_physical_offset counts what
\* physical_to_logical_offset enumerates.
LEMMA SimpleCounts ==
  ASSUME NEW d, IsSimple(d)
  PROVE  Typed(d) /\ Counts(d)
<1> DEFINE b == d.strip
           W == d.strip * d.ct
<1>b. b \in Nat \ {0} /\ W \in Nat \ {0} /\ d.ct \in Nat \ {0}
  BY SimpleForms
<1>1. ASSUME NEW s \in Servers(d), NEW p \in Nat, NEW l \in Nat
      PROVE  /\ P2L(d, s, p) \in Nat /\ L2P(d, s, l) \in Nat
             /\ P2L(d, s, p) < l <=> p < L2P(d, s, l)
  <2>1. PICK q \in Nat, r \in 0..(b - 1) : p = q * b + r
    BY SimpleForms
  <2>2. PICK k \in Nat, o \in 0..(W - 1) : l = k * W + o
    BY SimpleForms
  <2> DEFINE u == s * b
             w == o - u
             c == IF w < 0 THEN 0 ELSE IF w < b THEN w ELSE b
  <2>3. P2L(d, s, p) = q * W + (u + r) /\ u + r \in 0..(W - 1)
    BY <2>1, SimpleSplit
  <2>4. L2P(d, s, l) = k * b + c
    BY <2>2, SimpleRank
  <2>5. u \in Nat /\ q * W \in Nat /\ k * W \in Nat /\ q * b \in Nat /\ k * b \in Nat
    BY <1>b, MulNat DEF Servers
  <2>6. c \in 0..b /\ o \in 0..(W - 1) /\ r \in 0..(b - 1)
    BY <1>b, <2>5
  <2>7. /\ q < k => q * W + W <= k * W /\ q * b + b <= k * b
        /\ k < q => k * W + W <= q * W /\ k * b + b <= q * b
    BY <1>b, MulStep
  <2>8. CASE q < k
    <3> HIDE DEF b, W, u, c
    <3> QED BY <1>b, <2>1, <2>2, <2>3, <2>4, <2>5, <2>6, <2>7, <2>8
  <2>9. CASE k < q
    <3> HIDE DEF b, W, u, c
    <3> QED BY <1>b, <2>1, <2>2, <2>3, <2>4, <2>5, <2>6, <2>7, <2>9
  <2>10. CASE k = q
    <3>1. u + r < o <=> r < c
      <4> HIDE DEF b, W, u
      <4> QED BY <1>b, <2>3, <2>5, <2>6
    <3> HIDE DEF b, W, u, c
    <3> QED BY <1>b, <2>1, <2>2, <2>3, <2>4, <2>5, <2>6, <2>10, <3>1
  <2> QED BY <2>8, <2>9, <2>10
<1>2. 0 \in Nat
  OBVIOUS
<1> QED
  BY <1>b, <1>1, <1>2 DEF Typed, Counts

\* simple_stripe: the bytes of a datafile come in order, every byte of the file is
\* on a datafile and on one only, and what a strip holds is in one piece.
LEMMA SimpleEnumerates ==
  ASSUME NEW d, IsSimple(d)
  PROVE  Rises(d) /\ Covers(d) /\ Disjoint(d) /\ Runs(d) /\ Earlier(d)
<1> DEFINE b == d.strip
           W == d.strip * d.ct
<1>b. b \in Nat \ {0} /\ W \in Nat \ {0} /\ d.ct \in Nat \ {0}
  BY SimpleForms
<1>s. ASSUME NEW s \in Servers(d)
      PROVE  s \in Nat /\ s < d.ct /\ s * b \in Nat
  BY <1>b, MulNat DEF Servers
<1>1. ASSUME NEW s \in Servers(d), NEW t \in Servers(d), NEW p \in Nat, NEW q \in Nat
      PROVE  /\ s = t /\ p < q => P2L(d, s, p) < P2L(d, t, q)
             /\ P2L(d, s, p) = P2L(d, t, q) => s = t
             /\ s <= t => P2L(d, s, p) <= P2L(d, t, p)
  <2>1. PICK k \in Nat, r \in 0..(b - 1) : p = k * b + r
    BY SimpleForms
  <2>2. PICK j \in Nat, i \in 0..(b - 1) : q = j * b + i
    BY SimpleForms
  <2>3. P2L(d, s, p) = k * W + (s * b + r) /\ s * b + r \in 0..(W - 1)
    BY <2>1, SimpleSplit
  <2>4. P2L(d, t, q) = j * W + (t * b + i) /\ t * b + i \in 0..(W - 1)
    BY <2>2, SimpleSplit
  <2>5. P2L(d, t, p) = k * W + (t * b + r)
    BY <2>1, SimpleSplit
  <2>6. /\ s * b \in Nat /\ t * b \in Nat /\ k * W \in Nat /\ j * W \in Nat
        /\ k * b \in Nat /\ j * b \in Nat
    BY <1>b, <1>s, MulNat
  <2>7. /\ k < j => k * W + W <= j * W /\ k * b + b <= j * b
        /\ j < k => j * W + W <= k * W /\ j * b + b <= k * b
    BY <1>b, MulStep
  <2>8. /\ s < t => s * b + b <= t * b
        /\ t < s => t * b + b <= s * b
    BY <1>b, <1>s, MulStep
  <2>9. s \in Nat /\ t \in Nat
    BY <1>s
  <2> DEFINE sb == s * b
             tb == t * b
             kW == k * W
             jW == j * W
             kb == k * b
             jb == j * b
  <2>10. s = t => sb = tb
    OBVIOUS
  <2>11. k = j => kW = jW /\ kb = jb
    OBVIOUS
  <2>12. k < j \/ k = j \/ j < k
    OBVIOUS
  <2> HIDE DEF b, W, sb, tb, kW, jW, kb, jb
  <2>13. ASSUME s = t, p < q PROVE P2L(d, s, p) < P2L(d, t, q)
    BY <1>b, <2>1, <2>2, <2>3, <2>4, <2>6, <2>7, <2>10, <2>11, <2>12, <2>13 DEF sb, tb, kW, jW, kb, jb
  <2>14. ASSUME P2L(d, s, p) = P2L(d, t, q) PROVE s = t
    BY <1>b, <2>3, <2>4, <2>6, <2>7, <2>8, <2>9, <2>11, <2>12, <2>14 DEF sb, tb, kW, jW, kb, jb
  <2>15. ASSUME s <= t PROVE P2L(d, s, p) <= P2L(d, t, p)
    BY <1>b, <2>3, <2>5, <2>6, <2>8, <2>9, <2>10, <2>15 DEF sb, tb, kW
  <2> QED BY <2>13, <2>14, <2>15
<1>2. ASSUME NEW l \in Nat
      PROVE  \E s \in Servers(d), p \in Nat : P2L(d, s, p) = l
  <2>1. PICK k \in Nat, o \in 0..(W - 1) : l = k * W + o
    BY SimpleForms
  <2>0. o \in Nat /\ o < W
    BY <1>b
  <2>2. PICK s \in Nat, r \in 0..(b - 1) : o = s * b + r
    BY <2>0, SimpleForms
  <2>3. s < d.ct
    <3>1. SUFFICES ASSUME d.ct <= s PROVE FALSE
      BY <1>b
    <3>2. d.ct * b <= s * b /\ d.ct * b = W
      BY <1>b, <3>1, MulStep, MulOrder
    <3> QED BY <1>b, <2>0, <2>2, <3>2, MulNat
  <2>4. s \in Servers(d)
    BY <1>b, <2>3 DEF Servers
  <2>5. k * b + r \in Nat
    BY <1>b, MulNat
  <2> QED BY <2>1, <2>2, <2>4, <2>5, SimpleSplit
<1>3. ASSUME NEW s \in Servers(d), NEW p \in Nat
      PROVE  /\ Contiguous(d, s, p) \in Nat \ {0}
             /\ \A i \in Nat : i < Contiguous(d, s, p) \/ d.ct = 1 =>
                                 P2L(d, s, p + i) = P2L(d, s, p) + i
  <2>1. PICK q \in Nat, r \in 0..(b - 1) : p = q * b + r
    BY SimpleForms
  <2>2. p % b = r
    BY <1>b, <2>1, DivUnique
  <2>3. Contiguous(d, s, p) = b - r
    BY <2>2 DEF Contiguous, IsSimple
  <2>4. P2L(d, s, p) = q * W + (s * b + r)
    BY <2>1, SimpleSplit
  <2>5. ASSUME NEW i \in Nat, i < b - r PROVE P2L(d, s, p + i) = P2L(d, s, p) + i
    <3>1. r + i \in 0..(b - 1)
      BY <1>b, <2>5
    <3>2. P2L(d, s, q * b + (r + i)) = q * W + (s * b + (r + i))
      BY <3>1, SimpleSplit
    <3>3. q * b \in Nat /\ q * W \in Nat /\ s * b \in Nat
      BY <1>b, <1>s, MulNat
    <3>4. q * b + (r + i) = p + i
      BY <2>1, <3>3
    <3> QED BY <2>4, <3>2, <3>3, <3>4
  <2>6. ASSUME d.ct = 1, NEW i \in Nat PROVE P2L(d, s, i) = i
    <3>1. s = 0
      BY <1>s, <2>6
    <3>2. PICK k \in Nat, o \in 0..(b - 1) : i = k * b + o
      BY SimpleForms
    <3>3. P2L(d, s, i) = k * W + (s * b + o) /\ W = b /\ s * b = 0
      BY <1>b, <2>6, <3>1, <3>2, SimpleSplit
    <3> QED BY <1>b, <3>2, <3>3, MulNat
  <2> QED BY <1>b, <2>3, <2>5, <2>6
<1> HIDE DEF b, W
<1> QED
  BY <1>1, <1>2, <1>3 DEF Rises, Covers, Disjoint, Runs, Earlier

\* simple_stripe: next_mapped_offset finds the first byte of the datafile that is
\* not below the offset.
LEMMA SimpleSeeks ==
  ASSUME NEW d, IsSimple(d)
  PROVE  Seeks(d)
<1> DEFINE b == d.strip
           W == d.strip * d.ct
<1>a. b \in Nat \ {0} /\ W \in Nat \ {0} /\ d.ct \in Nat \ {0}
  BY SimpleForms
<1>b. b \in Nat \ {0} /\ W \in Nat \ {0} /\ d.ct \in Nat \ {0} /\ d.ct * b = W
  BY <1>a, MulOrder
<1>1. ASSUME NEW s \in Servers(d), NEW l \in Nat
      PROVE  NextMapped(d, s, l) = P2L(d, s, L2P(d, s, l))
  <2> DEFINE u == s * b
  <2>1. PICK k \in Nat, o \in 0..(W - 1) : l = k * W + o
    BY SimpleForms
  <2>2. s \in Nat /\ s < d.ct /\ u \in Nat /\ u + b <= W
    BY <1>b, MulNat, MulStep DEF Servers
  <2>3. NextMapped(d, s, l) =
          IF l < u THEN u
          ELSE IF (l - u) % W >= b THEN l + (W - ((l - u) % W)) ELSE l
    <3>1. NextMapped(d, s, l) = SimpleNext(d, s, l)
      BY DEF NextMapped, IsSimple
    <3> DEFINE T == d.ct * b
    <3>2. SimpleNext(d, s, l) =
            IF l < u THEN u ELSE IF (l - u) % T >= b THEN l + (T - ((l - u) % T)) ELSE l
      BY <1>b, <2>2 DEF SimpleNext
    <3>3. T = W
      BY <1>b
    <3> HIDE DEF T, W, u, b
    <3> QED BY <3>1, <3>2, <3>3
  <2>4. \A j \in Nat, r \in 0..(b - 1) : P2L(d, s, j * b + r) = j * W + (u + r)
    BY SimpleSplit
  <2>5. \A j \in Nat, r \in 0..(W - 1) : (j * W + r) % W = r
    BY <1>b, DivUnique
  <2>6. L2P(d, s, l) = k * b + (IF o - u < 0 THEN 0 ELSE IF o - u < b THEN o - u ELSE b)
    BY <2>1, SimpleRank
  <2>7. k * W \in Nat /\ k * b \in Nat /\ o \in Nat /\ o < W
    BY <1>b, MulNat
  <2> HIDE DEF b, W, u
  <2>8. CASE o >= u /\ o - u < b
    <3>1. o - u \in 0..(b - 1) /\ o - u \in 0..(W - 1)
      BY <1>b, <2>2, <2>7, <2>8
    <3>2. l - u = k * W + (o - u) /\ ~ (l < u)
      BY <2>1, <2>2, <2>7, <2>8
    <3>3. (l - u) % W = o - u
      BY <2>5, <3>1, <3>2
    <3>4. NextMapped(d, s, l) = l
      BY <1>b, <2>3, <2>8, <3>1, <3>2, <3>3
    <3>5. L2P(d, s, l) = k * b + (o - u)
      BY <2>2, <2>6, <2>7, <2>8
    <3>6. P2L(d, s, L2P(d, s, l)) = k * W + (u + (o - u))
      BY <2>4, <3>1, <3>5
    <3> QED BY <2>1, <2>2, <2>7, <3>4, <3>6
  <2>9. CASE o >= u /\ o - u >= b
    <3>1. o - u \in 0..(W - 1)
      BY <1>b, <2>2, <2>7, <2>9
    <3>2. l - u = k * W + (o - u) /\ ~ (l < u)
      BY <2>1, <2>2, <2>7, <2>9
    <3>3. (l - u) % W = o - u
      BY <2>5, <3>1, <3>2
    <3>4. NextMapped(d, s, l) = l + (W - (o - u))
      BY <1>b, <2>2, <2>3, <2>9, <3>2, <3>3
    <3>5. L2P(d, s, l) = k * b + b
      BY <1>b, <2>2, <2>6, <2>7, <2>9
    <3>6. (k + 1) * b + 0 = k * b + b /\ (k + 1) * W = k * W + W /\ k + 1 \in Nat
      BY <1>b
    <3>7. P2L(d, s, (k + 1) * b + 0) = (k + 1) * W + (u + 0)
      <4>1. 0 \in 0..(b - 1)
        BY <1>b
      <4> QED BY <2>4, <3>6, <4>1
    <3>8. P2L(d, s, L2P(d, s, l)) = (k + 1) * W + (u + 0)
      BY <3>5, <3>6, <3>7
    <3> QED BY <1>b, <2>1, <2>2, <2>7, <3>4, <3>6, <3>8
  <2>10. CASE o < u
    <3>1. L2P(d, s, l) = k * b + 0
      BY <2>2, <2>6, <2>7, <2>10
    <3>2. P2L(d, s, L2P(d, s, l)) = k * W + (u + 0)
      BY <1>b, <2>4, <3>1
    <3>3. CASE k = 0
      <4>1. k * W = 0
        BY <1>b, <3>3
      <4> QED BY <2>1, <2>2, <2>3, <2>7, <2>10, <3>2, <4>1
    <3>4. CASE k # 0
      <4>1. k - 1 \in Nat /\ (k - 1) * W = k * W - W
        BY <1>b, <3>4
      <4>2. (k - 1) * W \in Nat
        BY <1>b, <4>1, MulNat
      <4> DEFINE i == W + (o - u)
      <4>3. i \in 0..(W - 1) /\ i >= b
        BY <1>b, <2>2, <2>7, <2>10
      <4>4. l - u = (k - 1) * W + i /\ ~ (l < u)
        BY <1>b, <2>1, <2>2, <2>7, <2>10, <4>1, <4>2
      <4>5. (l - u) % W = i
        BY <2>5, <4>1, <4>3, <4>4
      <4> HIDE DEF i
      <4>6. NextMapped(d, s, l) = l + (W - i)
        <5>1. NextMapped(d, s, l) = IF i >= b THEN l + (W - i) ELSE l
          BY Zenon, <2>3, <4>4, <4>5
        <5> QED BY <4>3, <5>1
      <4> QED BY <1>b, <2>1, <2>2, <2>7, <3>2, <4>6 DEF i
    <3> QED BY <3>3, <3>4
  <2> QED BY <1>b, <2>2, <2>7, <2>8, <2>9, <2>10
<1> QED
  BY <1>1 DEF Seeks

\* The methods of simple_stripe (dist-simple-stripe.c) agree with each other:
\* every byte of a file is on one datafile, physical_to_logical_offset lists a
\* datafile's bytes in order, logical_to_physical_offset counts those below an
\* offset, next_mapped_offset finds the next one and contiguous_length is a run.
THEOREM SimpleLayout ==
  ASSUME NEW d, IsSimple(d)
  PROVE  Layout(d)
BY SimpleCounts, SimpleEnumerates, SimpleSeeks DEF Layout

-----------------------------------------------------------------------------
(* basic.                                                                  *)

IsBasic(d) ==
  d.kind = "basic" /\ d.ct = 1 /\ d.block \in Nat \ {0}

\* The same of basic (dist-basic.c), with its one datafile.
THEOREM BasicLayout ==
  ASSUME NEW d, IsBasic(d)
  PROVE  Layout(d)
<1>1. /\ d.ct = 1 /\ d.block \in Nat \ {0}
      /\ \A s, x : P2L(d, s, x) = x /\ L2P(d, s, x) = x /\ NextMapped(d, s, x) = x
                   /\ Contiguous(d, s, x) = d.block
  BY DEF IsBasic, P2L, L2P, NextMapped, Contiguous
<1>2. Servers(d) = {0}
  BY <1>1 DEF Servers
<1>3. Typed(d) /\ Counts(d) /\ Rises(d) /\ Seeks(d) /\ Earlier(d)
  BY <1>1, <1>2 DEF Typed, Counts, Rises, Seeks, Earlier
<1>4. Covers(d) /\ Disjoint(d)
  BY <1>1, <1>2 DEF Covers, Disjoint
<1>5. Runs(d)
  BY <1>1, <1>2 DEF Runs
<1> QED
  BY <1>3, <1>4, <1>5 DEF Layout

-----------------------------------------------------------------------------
(* twod_stripe.  A group takes d.factor stripes of a simple_stripe over    *)
(* its datafiles.                                                          *)

IsTwod(d) ==
  /\ d.kind = "twod" /\ d.ct \in Nat \ {0} /\ d.strip \in Nat \ {0}
  /\ d.factor \in Nat \ {0} /\ d.groups \in 1..d.ct

\* The first datafile of the group of s, how many the group has, and the
\* distribution within the group.
Small(d) == d.ct \div d.groups
First(d, s) == GroupNr(d, s, Small(d)) * Small(d)
Width(d, s) == InGroup(d, GroupNr(d, s, Small(d)), Small(d))
Inner(d, s) == [kind |-> "simple", ct |-> Width(d, s), strip |-> d.strip]

\* What a group has on a datafile, and what all have on all, in one stripe.
Share(d) == d.factor * d.strip
Stripe(d) == d.ct * Share(d)

\* num_groups is not cut down.
LEMMA TwodGroups ==
  ASSUME NEW d, IsTwod(d)
  PROVE  Groups(d) = d.groups
<1>1. d.groups \in Nat /\ d.ct \in Nat /\ d.groups <= d.ct
  BY DEF IsTwod
<1>2. \A y \in {d.groups, d.ct} : d.groups =< y
  BY <1>1
<1>3. \A x \in {d.groups, d.ct} : (\A y \in {d.groups, d.ct} : x =< y) => x = d.groups
  BY <1>1
<1> QED
  BY <1>2, <1>3 DEF Groups, Min

\* Groups are ranges of datafiles that follow each other.
LEMMA TwodRanges ==
  ASSUME NEW d, IsTwod(d), NEW s \in Servers(d), NEW t \in Servers(d)
  PROVE  /\ First(d, s) \in Nat /\ Width(d, s) \in Nat \ {0}
         /\ First(d, s) <= s /\ s < First(d, s) + Width(d, s)
         /\ First(d, s) + Width(d, s) <= d.ct
         /\ \/ First(d, s) = First(d, t) /\ Width(d, s) = Width(d, t)
            \/ First(d, s) + Width(d, s) <= First(d, t)
            \/ First(d, t) + Width(d, t) <= First(d, s)
<1> DEFINE m == Small(d)
           G == d.groups
           L == (G - 1) * m
           R(x) == GroupNr(d, x, m)
<1>1. /\ d.ct \in Nat \ {0} /\ G \in Nat \ {0} /\ G <= d.ct
      /\ s \in Nat /\ s < d.ct /\ t \in Nat /\ t < d.ct /\ Groups(d) = G
  BY TwodGroups DEF IsTwod, Servers
<1>2. m \in Nat \ {0} /\ G * m <= d.ct
  <2>0. m \in Nat /\ d.ct % G \in 0..(G - 1) /\ d.ct = m * G + (d.ct % G)
    BY <1>1, DivMod DEF Small
  <2>1. m \in Nat /\ d.ct % G \in 0..(G - 1) /\ d.ct = m * G + (d.ct % G) /\ m * G = G * m
    BY <1>1, <2>0, MulOrder
  <2>2. m # 0
    BY <1>1, <2>1
  <2>3. m * G \in Nat
    BY <1>1, <2>1, MulNat
  <2> QED BY <1>1, <2>1, <2>2, <2>3
<1>3. L \in Nat /\ L + m <= d.ct
  <2>1. G - 1 \in Nat /\ (G - 1) * m + m = G * m
    BY <1>1, <1>2
  <2> QED BY <1>2, <2>1, MulNat
<1>4. ASSUME NEW x \in Nat, x < d.ct
      PROVE  \/ /\ x >= L /\ R(x) = G - 1
                /\ First(d, x) = L /\ Width(d, x) = d.ct - L
             \/ /\ x < L /\ R(x) \in Nat /\ R(x) < G - 1
                /\ First(d, x) = R(x) * m /\ Width(d, x) = m
                /\ R(x) * m \in Nat /\ R(x) * m <= x /\ x < R(x) * m + m /\ R(x) * m + m <= L
  <2>1. CASE x >= L
    <3>1. R(x) = G - 1
      BY <1>1, <2>1 DEF GroupNr
    <3> QED BY <1>1, <2>1, <3>1 DEF First, Width, InGroup
  <2>2. CASE x < L
    <3>1. R(x) = x \div m
      BY <1>1, <1>3, <2>2 DEF GroupNr
    <3>2. R(x) \in Nat /\ R(x) * m <= x /\ x < R(x) * m + m /\ R(x) * m \in Nat
      <4>1. R(x) \in Nat /\ x % m \in 0..(m - 1) /\ x = R(x) * m + (x % m)
        BY <1>2, <3>1, DivMod
      <4>2. R(x) * m \in Nat
        BY <1>2, <4>1, MulNat
      <4> HIDE DEF R, m
      <4> QED BY <1>2, <4>1, <4>2
    <3>3. R(x) < G - 1
      <4>1. SUFFICES ASSUME G - 1 <= R(x) PROVE FALSE
        BY <1>1, <3>2
      <4>2. L <= R(x) * m
        BY <1>1, <1>2, <3>2, <4>1, MulStep
      <4> HIDE DEF R, L
      <4> QED BY <1>2, <1>3, <2>2, <3>2, <4>2
    <3>4. R(x) * m + m <= L
      BY <1>1, <1>2, <3>2, <3>3, MulStep
    <3>5. First(d, x) = R(x) * m /\ Width(d, x) = m
      BY <1>1, <3>2, <3>3 DEF First, Width, InGroup
    <3> QED BY <2>2, <3>2, <3>3, <3>4, <3>5
  <2> QED BY <1>3, <2>1, <2>2
<1>5. /\ R(s) \in Nat /\ R(t) \in Nat => /\ R(s) < R(t) => R(s) * m + m <= R(t) * m
                                         /\ R(t) < R(s) => R(t) * m + m <= R(s) * m
  BY <1>2, MulStep
<1> HIDE DEF R
<1> DEFINE F(x) == R(x) * m
           In(x, f, w) == \/ x >= L /\ f = L /\ w = d.ct - L
                          \/ /\ x < L /\ f = F(x) /\ w = m /\ F(x) \in Nat /\ F(x) <= x
                             /\ x < F(x) + m /\ F(x) + m <= L
<1>6. In(s, First(d, s), Width(d, s)) /\ In(t, First(d, t), Width(d, t))
  BY <1>1, <1>4
<1>7. s < L /\ t < L => F(s) = F(t) \/ F(s) + m <= F(t) \/ F(t) + m <= F(s)
  <2>1. s < L /\ t < L => R(s) \in Nat /\ R(t) \in Nat
    BY <1>1, <1>3, <1>4
  <2> QED BY <1>5, <2>1
<1> HIDE DEF F, L, m, G
<1> QED
  BY <1>1, <1>2, <1>3, <1>6, <1>7

\* The group of a datafile is the group of all in its range.
LEMMA TwodSameGroup ==
  ASSUME NEW d, IsTwod(d), NEW s \in Servers(d), NEW i \in Nat, i < Width(d, s)
  PROVE  /\ First(d, s) + i \in Servers(d)
         /\ First(d, First(d, s) + i) = First(d, s)
         /\ Width(d, First(d, s) + i) = Width(d, s)
<1>1. /\ First(d, s) \in Nat /\ Width(d, s) \in Nat /\ d.ct \in Nat
      /\ First(d, s) + Width(d, s) <= d.ct
  BY TwodRanges DEF IsTwod
<1>2. First(d, s) + i \in Servers(d)
  BY <1>1 DEF Servers
<1> DEFINE t == First(d, s) + i
<1>3. /\ First(d, t) \in Nat /\ Width(d, t) \in Nat
      /\ First(d, t) <= t /\ t < First(d, t) + Width(d, t)
      /\ \/ First(d, s) = First(d, t) /\ Width(d, s) = Width(d, t)
         \/ First(d, s) + Width(d, s) <= First(d, t)
         \/ First(d, t) + Width(d, t) <= First(d, s)
  BY <1>2, TwodRanges
<1>4. First(d, s) = First(d, t) /\ Width(d, s) = Width(d, t)
  BY <1>1, <1>3
<1> QED
  BY <1>2, <1>4

\* Every offset as its stripe and the place in it.
LEMMA TwodForms ==
  ASSUME NEW d, IsTwod(d)
  PROVE  /\ d.strip \in Nat \ {0} /\ d.ct \in Nat \ {0} /\ d.factor \in Nat \ {0}
         /\ Share(d) \in Nat \ {0} /\ Stripe(d) \in Nat \ {0}
         /\ \A p \in Nat : \E q \in Nat, x \in 0..(Share(d) - 1) : p = q * Share(d) + x
         /\ \A l \in Nat : \E k \in Nat, o \in 0..(Stripe(d) - 1) : l = k * Stripe(d) + o
<1>1. d.strip \in Nat \ {0} /\ d.ct \in Nat \ {0} /\ d.factor \in Nat \ {0}
  BY DEF IsTwod
<1>2. Share(d) \in Nat \ {0}
  BY <1>1, MulNat DEF Share
<1>3. Stripe(d) \in Nat \ {0}
  BY <1>1, <1>2, MulNat DEF Stripe
<1> QED
  BY <1>1, <1>2, <1>3, DivMod

\* The distribution within a group, and what of a datafile is in one turn of it.
LEMMA TwodInner ==
  ASSUME NEW d, IsTwod(d), NEW s \in Servers(d)
  PROVE  LET e == Inner(d, s)
             i == s - First(d, s)
         IN  /\ IsSimple(e) /\ Layout(e) /\ e.ct = Width(d, s) /\ e.strip = d.strip
             /\ i \in Servers(e)
             /\ Width(d, s) * Share(d) \in Nat /\ First(d, s) * Share(d) \in Nat
             /\ First(d, s) * Share(d) + Width(d, s) * Share(d) <= Stripe(d)
             /\ L2P(e, i, Width(d, s) * Share(d)) = Share(d)
             /\ \A x \in Nat : /\ P2L(e, i, x) \in Nat
                               /\ x < Share(d) <=> P2L(e, i, x) < Width(d, s) * Share(d)
<1> DEFINE e == Inner(d, s)
           i == s - First(d, s)
           N == Width(d, s)
           A == First(d, s)
           F == Share(d)
<1>1. /\ d.strip \in Nat \ {0} /\ d.ct \in Nat \ {0} /\ d.factor \in Nat \ {0}
      /\ F \in Nat \ {0}
  BY TwodForms
<1>2. /\ A \in Nat /\ N \in Nat \ {0} /\ A <= s /\ s < A + N /\ A + N <= d.ct /\ s \in Nat
  BY TwodRanges DEF Servers
<1>3. IsSimple(e) /\ e.ct = N /\ e.strip = d.strip
  BY <1>1, <1>2 DEF Inner, IsSimple
<1>4. Layout(e)
  BY <1>3, SimpleLayout
<1>5. i \in Servers(e) /\ i \in Nat /\ i < N
  BY <1>2, <1>3 DEF Servers
<1>6. N * F \in Nat /\ A * F \in Nat /\ A * F + N * F <= Stripe(d)
  <2>1. N * F \in Nat /\ A * F \in Nat
    BY <1>1, <1>2, MulNat
  <2>2. (A + N) * F <= d.ct * F
    BY <1>1, <1>2, MulStep
  <2>3. (A + N) * F = A * F + N * F
    BY <1>1, <1>2
  <2> QED BY <2>1, <2>2, <2>3 DEF Stripe
<1>7. L2P(e, i, N * F) = F
  <2>1. d.strip * N \in Nat \ {0}
    BY <1>1, <1>2, MulNat
  <2>2. 0 \in 0..(e.strip * e.ct - 1) /\ d.factor \in Nat
    BY <1>1, <1>3, <2>1
  <2>3. i * d.strip \in Nat
    BY <1>1, <1>5, MulNat
  <2>4. L2P(e, i, d.factor * (e.strip * e.ct) + 0) =
          d.factor * e.strip + (IF 0 - i * e.strip < 0 THEN 0
                                ELSE IF 0 - i * e.strip < e.strip THEN 0 - i * e.strip
                                ELSE e.strip)
    BY <1>3, <1>5, <2>2, SimpleRank
  <2>5. (IF 0 - i * e.strip < 0 THEN 0
         ELSE IF 0 - i * e.strip < e.strip THEN 0 - i * e.strip ELSE e.strip) = 0
    <3> HIDE DEF i, e
    <3> QED BY <1>1, <1>3, <2>3
  <2>6. d.factor * (e.strip * e.ct) + 0 = N * F
    <3>1. d.factor * (d.strip * N) = d.factor * d.strip * N /\ F * N = N * F
      BY <1>1, <1>2, MulOrder
    <3>2. d.factor * (d.strip * N) \in Nat
      BY <1>1, <2>1, MulNat
    <3> QED BY <1>3, <3>1, <3>2 DEF Share
  <2>7. d.factor * e.strip + 0 = F
    BY <1>1, <1>3 DEF Share
  <2> QED BY <2>4, <2>5, <2>6, <2>7
<1>8. \A x \in Nat : P2L(e, i, x) \in Nat /\ (x < F <=> P2L(e, i, x) < N * F)
  BY <1>4, <1>5, <1>6, <1>7 DEF Layout, Typed, Counts
<1> QED
  BY <1>3, <1>4, <1>5, <1>6, <1>7, <1>8

\* physical_to_logical_offset by stripe, group and place in the group.
LEMMA TwodSplit ==
  ASSUME NEW d, IsTwod(d), NEW s \in Servers(d), NEW q \in Nat, NEW x \in 0..(Share(d) - 1)
  PROVE  P2L(d, s, q * Share(d) + x) =
           q * Stripe(d) + (First(d, s) * Share(d) + P2L(Inner(d, s), s - First(d, s), x))
<1> DEFINE b == d.strip
           f == d.factor
           N == Width(d, s)
           A == First(d, s)
           e == Inner(d, s)
           F == Share(d)
           g == GroupNr(d, s, Small(d))
<1>1. b \in Nat \ {0} /\ d.ct \in Nat \ {0} /\ f \in Nat \ {0} /\ F \in Nat \ {0}
      /\ Stripe(d) \in Nat
  BY TwodForms
<1>2. A \in Nat /\ N \in Nat \ {0} /\ A <= s /\ s \in Nat
  BY TwodRanges DEF Servers
<1>3. IsSimple(e) /\ e.ct = N /\ e.strip = b /\ s - A \in Servers(e) /\ A * F \in Nat
  BY TwodInner
<1>4. x \in Nat /\ x < F
  BY <1>1
<1>5. PICK k \in Nat, r \in 0..(b - 1) : x = k * b + r
  BY <1>1, <1>4, DivMod
<1>6. k < f
  <2>1. SUFFICES ASSUME f <= k PROVE FALSE
    BY <1>1
  <2>2. f * b <= k * b /\ k * b \in Nat
    BY <1>1, <2>1, MulStep, MulNat
  <2> HIDE DEF f, b
  <2> QED BY <1>1, <1>4, <1>5, <2>2 DEF Share, f, b
<1>7. P2L(e, s - A, x) = k * (b * N) + ((s - A) * b + r)
  BY <1>3, <1>5, SimpleSplit
<1> DEFINE p == q * F + x
           w == q * f + k
<1>8. w \in Nat /\ p = w * b + r
  <2>1. q * f \in Nat /\ k * b \in Nat
    BY <1>1, MulNat
  <2>2. q * F = q * f * b
    BY <1>1, MulOrder DEF Share
  <2>3. (q * f + k) * b = q * f * b + k * b
    BY <1>1, <2>1
  <2> QED BY <1>1, <1>5, <2>1, <2>2, <2>3, MulNat
<1>9. p \div b = w /\ p % b = r
  <2> HIDE DEF p, w
  <2>1. (w * b + r) \div b = w /\ (w * b + r) % b = r
    BY <1>1, <1>8, DivUnique
  <2> QED BY <1>8, <2>1
<1>10. w \div f = q /\ w % f = k
  <2>1. k \in 0..(f - 1)
    BY <1>1, <1>6
  <2> QED BY <1>1, <2>1, DivUnique
<1>11. P2L(d, s, p) = q * f * d.ct * b + g * Small(d) * f * b + k * N * b + (s - g * Small(d)) * b + r
  <2>1. P2L(d, s, p) = TwodP2L(d, s, p)
    BY DEF P2L, IsTwod
  <2> HIDE DEF p, w
  <2>2. TwodP2L(d, s, p) =
          ((p \div b) \div f) * f * d.ct * b + g * Small(d) * f * b
            + ((p \div b) % f) * N * b + (s - g * Small(d)) * b + (p % b)
    BY DEF TwodP2L, Small, Width
  <2> QED BY <1>9, <1>10, <2>1, <2>2
<1>12. g * Small(d) = A
  BY DEF First
<1>13. /\ q * f * d.ct * b = q * Stripe(d)
       /\ A * f * b = A * F
       /\ k * N * b = k * (b * N)
  <2>1. q * f * d.ct * b = q * (d.ct * (f * b))
    BY <1>1
  <2>2. A * f * b = A * (f * b) /\ k * N * b = k * (b * N)
    BY <1>1, <1>2
  <2> QED BY <2>1, <2>2 DEF Stripe, Share
<1>14. /\ q * Stripe(d) \in Nat /\ k * (b * N) \in Nat /\ (s - A) * b \in Nat
  BY <1>1, <1>2, MulNat
<1> HIDE DEF A, b, f, N, e, F, p, w
<1>15. P2L(d, s, p) = q * Stripe(d) + A * F + k * (b * N) + (s - A) * b + r
  BY <1>11, <1>12, <1>13
<1>16. r \in Nat
  BY <1>1
<1>17. P2L(d, s, p) = q * Stripe(d) + (A * F + P2L(e, s - A, x))
  BY <1>3, <1>7, <1>14, <1>15, <1>16
<1> QED
  BY <1>17 DEF p, A, F, e

\* logical_to_physical_offset by stripe, group and place in the group.
LEMMA TwodRank ==
  ASSUME NEW d, IsTwod(d), NEW s \in Servers(d), NEW k \in Nat, NEW o \in 0..(Stripe(d) - 1)
  PROVE  LET y == o - First(d, s) * Share(d)
         IN  L2P(d, s, k * Stripe(d) + o) =
               k * Share(d) + (IF y <= 0 THEN 0
                               ELSE IF y > Width(d, s) * Share(d) THEN Share(d)
                               ELSE L2P(Inner(d, s), s - First(d, s), y))
<1> DEFINE b == d.strip
           f == d.factor
           N == Width(d, s)
           A == First(d, s)
           e == Inner(d, s)
           F == Share(d)
           W == Stripe(d)
           i == s - A
           y == o - A * F
           g == GroupNr(d, s, Small(d))
           l == k * W + o
           full == y \div (N * b)
           rest == y - full * N * b
           strips == rest \div b
           part == IF strips >= i + 1 THEN b ELSE IF strips = i THEN rest % b ELSE 0
<1>1. b \in Nat \ {0} /\ d.ct \in Nat \ {0} /\ f \in Nat \ {0} /\ F \in Nat \ {0}
      /\ W \in Nat \ {0}
  BY TwodForms
<1>2. A \in Nat /\ N \in Nat \ {0} /\ A <= s /\ s \in Nat /\ i \in Nat /\ i < N
  BY TwodRanges DEF Servers
<1>3. IsSimple(e) /\ e.ct = N /\ e.strip = b /\ i \in Servers(e) /\ A * F \in Nat /\ N * F \in Nat
  BY TwodInner
<1>4. Groups(d) = d.groups /\ g * Small(d) = A
  BY TwodGroups DEF First
<1>5. /\ d.ct * b * f = W /\ k * d.ct * b * f = k * W
      /\ g * f * b * Small(d) = A * F /\ N * f * b = N * F /\ k * f * b = k * F
      /\ f * b = F
  <2>1. d.ct * b * f = d.ct * (f * b) /\ k * d.ct * b * f = k * (d.ct * (f * b))
        /\ N * f * b = N * (f * b) /\ k * f * b = k * (f * b)
    BY <1>1, <1>2
  <2>2. g \in Nat /\ Small(d) \in Nat
    <3>1. d.groups \in Nat \ {0} /\ s \in Nat
      BY <1>2 DEF IsTwod
    <3>2. Small(d) \in Nat
      BY <1>1, <3>1, DivMod DEF Small
    <3>3. Small(d) = 0 => s >= (d.groups - 1) * Small(d)
      BY <3>1
    <3>4. Small(d) # 0 => s \div Small(d) \in Nat
      BY <3>1, <3>2, DivMod
    <3> QED BY <1>4, <3>1, <3>2, <3>3, <3>4 DEF GroupNr
  <2>3. g * f * b * Small(d) = (g * Small(d)) * (f * b)
    BY <1>1, <2>2
  <2> QED BY <1>4, <2>1, <2>3 DEF Stripe, Share
<1>6. l \div W = k
  BY <1>1, DivUnique
<1>7. k * W \in Nat /\ o \in Nat /\ k * F \in Nat /\ y \in Int
  BY <1>1, <1>3, MulNat
<1>8. l - k * W - A * F = y
  BY <1>3, <1>7
<1>9. L2P(d, s, l) =
        k * F + (IF y <= 0 THEN 0 ELSE IF y > N * F THEN F ELSE full * b + part)
  <2> HIDE DEF l
  <2>1. L2P(d, s, l) = TwodL2P(d, s, l)
    BY DEF L2P, IsTwod
  <2> DEFINE kk == l \div (d.ct * b * f)
             yy == l - kk * d.ct * b * f - g * f * b * Small(d)
             fl == yy \div (N * b)
             re == yy - fl * N * b
             st == re \div b
  <2>2. d.ct \div Groups(d) = Small(d)
    BY <1>4 DEF Small
  <2>3. TwodL2P(d, s, l) =
          kk * f * b + (IF yy <= 0 THEN 0 ELSE IF yy > N * f * b THEN f * b
                        ELSE fl * b + (IF st >= (s - g * Small(d)) + 1 THEN b
                                       ELSE IF st = s - g * Small(d) THEN re % b ELSE 0))
    BY <2>2 DEF TwodL2P, Width
  <2>4. kk = k
    BY <1>5, <1>6
  <2>5. yy = y
    BY <1>5, <1>8, <2>4
  <2> HIDE DEF kk, yy, y, N, b, f, F, W
  <2> QED BY <1>4, <1>5, <2>1, <2>3, <2>4, <2>5
<1>10. ASSUME y > 0, y <= N * F PROVE full * b + part = L2P(e, i, y)
  <2>1. N * b \in Nat \ {0} /\ b * N = N * b /\ y \in Nat
    BY <1>1, <1>2, <1>7, <1>10, MulNat, MulOrder
  <2> HIDE DEF y
  <2>2. full \in Nat /\ y % (N * b) \in 0..(N * b - 1) /\ y = full * (N * b) + (y % (N * b))
    BY <2>1, DivMod
  <2>3. full * N * b = full * (N * b) /\ full * (N * b) \in Nat /\ full * b \in Nat
    <3> HIDE DEF full
    <3> QED BY <1>1, <1>2, <2>1, <2>2, MulOrder, MulNat
  <2>4. rest = y % (N * b) /\ rest \in 0..(N * b - 1)
    <3> HIDE DEF full
    <3> QED BY <2>1, <2>2, <2>3
  <2>5. y = full * (b * N) + rest
    BY <2>1, <2>2, <2>4
  <2> HIDE DEF full, rest
  <2> DEFINE w == rest - i * b
  <2>6. L2P(e, i, full * (b * N) + rest) =
          full * b + (IF w < 0 THEN 0 ELSE IF w < b THEN w ELSE b)
    <3>1. rest \in 0..(e.strip * e.ct - 1)
      BY <1>3, <2>1, <2>4
    <3> QED BY <1>3, <2>2, <3>1, SimpleRank
  <2>7. rest \in Nat /\ i * b \in Nat
    BY <1>1, <1>2, <2>1, <2>4, MulNat
  <2>8. strips \in Nat /\ rest % b \in 0..(b - 1) /\ rest = strips * b + (rest % b)
    BY <1>1, <2>7, DivMod
  <2> HIDE DEF strips
  <2>9. /\ strips < i => strips * b + b <= i * b
        /\ i < strips => i * b + b <= strips * b
        /\ i = strips => i * b = strips * b
    <3> HIDE DEF b, i
    <3> QED BY <1>1, <1>2, <2>8, MulStep
  <2>10. part = IF w < 0 THEN 0 ELSE IF w < b THEN w ELSE b
    <3>1. strips * b \in Nat
      BY <1>1, <2>8, MulNat
    <3> HIDE DEF b, i
    <3> QED BY <1>1, <1>2, <2>7, <2>8, <2>9, <3>1
  <2> QED BY <2>5, <2>6, <2>10
<1>11. L2P(d, s, l) =
         k * F + (IF y <= 0 THEN 0 ELSE IF y > N * F THEN F ELSE L2P(e, i, y))
  <2>1. N * F \in Nat
    BY <1>3
  <2> HIDE DEF full, part, y, F, N, e, i, l
  <2> QED BY <1>7, <1>9, <1>10, <2>1
<1> QED
  BY <1>11

\* twod_stripe: logical_to_physical_offset counts what
\* physical_to_logical_offset enumerates.
LEMMA TwodCounts ==
  ASSUME NEW d, IsTwod(d)
  PROVE  Typed(d) /\ Counts(d)
<1> DEFINE F == Share(d)
           W == Stripe(d)
<1>b. F \in Nat \ {0} /\ W \in Nat \ {0} /\ d.ct \in Nat \ {0}
  BY TwodForms
<1>1. ASSUME NEW s \in Servers(d), NEW p \in Nat, NEW l \in Nat
      PROVE  /\ P2L(d, s, p) \in Nat /\ L2P(d, s, l) \in Nat
             /\ P2L(d, s, p) < l <=> p < L2P(d, s, l)
  <2> DEFINE e == Inner(d, s)
             i == s - First(d, s)
             a == First(d, s) * F
             n == Width(d, s) * F
  <2>1. PICK q \in Nat, x \in 0..(F - 1) : p = q * F + x
    BY TwodForms
  <2>2. PICK k \in Nat, o \in 0..(W - 1) : l = k * W + o
    BY TwodForms
  <2>3. /\ Layout(e) /\ i \in Servers(e) /\ a \in Nat /\ n \in Nat /\ a + n <= W
        /\ L2P(e, i, n) = F
        /\ \A z \in Nat : P2L(e, i, z) \in Nat /\ (z < F <=> P2L(e, i, z) < n)
    BY TwodInner
  <2> DEFINE y == o - a
             v == P2L(e, i, x)
             u == L2P(e, i, y)
             c == IF y <= 0 THEN 0 ELSE IF y > n THEN F ELSE u
  <2>4. P2L(d, s, p) = q * W + (a + v)
    BY <2>1, TwodSplit
  <2>5. L2P(d, s, l) = k * F + c
    BY <2>2, TwodRank
  <2>6. v \in Nat /\ v < n /\ x \in Nat /\ x < F /\ o \in Nat /\ o < W
    BY <1>b, <2>3
  <2>7. y > 0 /\ y <= n => u \in Nat /\ u <= F /\ (v < y <=> x < u)
    <3>1. SUFFICES ASSUME y > 0, y <= n PROVE u \in Nat /\ u <= F /\ (v < y <=> x < u)
      OBVIOUS
    <3>2. y \in Nat
      BY <2>3, <2>6, <3>1
    <3> HIDE DEF e, i, y
    <3>3. u \in Nat
      BY <2>3, <3>2 DEF Layout, Typed
    <3>4. v < y <=> x < u
      BY <2>3, <2>6, <3>2 DEF Layout, Counts
    <3>5. ~ (F < u)
      <4>1. P2L(e, i, F) < y <=> F < u
        BY <1>b, <2>3, <3>2 DEF Layout, Counts
      <4>2. P2L(e, i, F) \in Nat /\ ~ (P2L(e, i, F) < n)
        BY <1>b, <2>3
      <4> QED BY <2>3, <3>1, <3>2, <4>1, <4>2
    <3> QED BY <1>b, <3>3, <3>4, <3>5
  <2> HIDE DEF v, u, e, i, n, a, F, W
  <2>8. y \in Int /\ c \in 0..F
    BY <1>b, <2>3, <2>6, <2>7
  <2>9. a + v < o <=> x < c
    BY <1>b, <2>3, <2>6, <2>7, <2>8
  <2> HIDE DEF c, y
  <2>10. q * W \in Nat /\ k * W \in Nat /\ q * F \in Nat /\ k * F \in Nat
    BY <1>b, MulNat
  <2>11. /\ q < k => q * W + W <= k * W /\ q * F + F <= k * F
         /\ k < q => k * W + W <= q * W /\ k * F + F <= q * F
         /\ k = q => k * W = q * W /\ k * F = q * F
    BY <1>b, MulStep
  <2>12. P2L(d, s, p) \in Nat /\ L2P(d, s, l) \in Nat
    BY <1>b, <2>3, <2>4, <2>5, <2>6, <2>8, <2>10
  <2>13. CASE q < k
    BY <1>b, <2>1, <2>2, <2>3, <2>4, <2>5, <2>6, <2>8, <2>10, <2>11, <2>12, <2>13
  <2>14. CASE k < q
    BY <1>b, <2>1, <2>2, <2>3, <2>4, <2>5, <2>6, <2>8, <2>10, <2>11, <2>12, <2>14
  <2>15. CASE k = q
    BY <1>b, <2>1, <2>2, <2>3, <2>4, <2>5, <2>6, <2>8, <2>9, <2>10, <2>11, <2>12, <2>15
  <2> QED BY <2>13, <2>14, <2>15
<1>2. 0 \in Nat
  OBVIOUS
<1> QED
  BY <1>b, <1>1, <1>2 DEF Typed, Counts

\* twod_stripe: the bytes of a datafile come in order, every byte of the file is
\* on a datafile and on one only, and what a strip holds is in one piece.
LEMMA TwodEnumerates ==
  ASSUME NEW d, IsTwod(d)
  PROVE  Rises(d) /\ Covers(d) /\ Disjoint(d) /\ Runs(d) /\ Earlier(d)
<1> DEFINE F == Share(d)
           W == Stripe(d)
           b == d.strip
           E(s, x) == First(d, s) * F + P2L(Inner(d, s), s - First(d, s), x)
<1>b. F \in Nat \ {0} /\ W \in Nat \ {0} /\ d.ct \in Nat \ {0} /\ b \in Nat \ {0}
  BY TwodForms
<1>e. ASSUME NEW s \in Servers(d), NEW x \in 0..(F - 1)
      PROVE  E(s, x) \in 0..(W - 1) /\ \A q \in Nat : P2L(d, s, q * F + x) = q * W + E(s, x)
  <2> DEFINE v == P2L(Inner(d, s), s - First(d, s), x)
             a == First(d, s) * F
             n == Width(d, s) * F
  <2>1. x \in Nat /\ x < F
    BY <1>b
  <2>2. v \in Nat /\ v < n /\ a \in Nat /\ n \in Nat /\ a + n <= W
    BY <2>1, TwodInner
  <2>3. E(s, x) \in 0..(W - 1)
    <3> HIDE DEF v, n, W
    <3> QED BY <1>b, <2>2 DEF v
  <2>4. \A q \in Nat : P2L(d, s, q * F + x) = q * W + E(s, x)
    BY TwodSplit
  <2> QED BY <2>3, <2>4
<1>f. ASSUME NEW s \in Servers(d), NEW t \in Servers(d), NEW x \in 0..(F - 1), NEW z \in 0..(F - 1)
      PROVE  /\ s = t /\ x < z => E(s, x) < E(t, z)
             /\ E(s, x) = E(t, z) => s = t
             /\ s <= t => E(s, x) <= E(t, x)
  <2> DEFINE A(j) == First(d, j)
             N(j) == Width(d, j)
             v(j, m) == P2L(Inner(d, j), j - A(j), m)
  <2>1. /\ x \in Nat /\ x < F /\ z \in Nat /\ z < F
    BY <1>b
  <2>2. ASSUME NEW j \in Servers(d), NEW m \in Nat, m < F
        PROVE  v(j, m) \in Nat /\ v(j, m) < N(j) * F /\ A(j) * F \in Nat /\ N(j) * F \in Nat
    BY <2>2, TwodInner
  <2>3. ASSUME NEW j \in Servers(d), NEW m \in Servers(d), A(j) + N(j) <= A(m)
        PROVE  A(j) * F + N(j) * F <= A(m) * F /\ j < m
    <3>1. A(j) \in Nat /\ N(j) \in Nat /\ A(m) \in Nat /\ j < A(j) + N(j) /\ A(m) <= m
          /\ j \in Nat /\ m \in Nat
      BY TwodRanges DEF Servers
    <3>2. (A(j) + N(j)) * F <= A(m) * F
      BY <1>b, <2>3, <3>1, MulStep
    <3>3. (A(j) + N(j)) * F = A(j) * F + N(j) * F
      BY <1>b, <3>1
    <3> QED BY <2>3, <3>1, <3>2, <3>3
  <2>4. \/ A(s) = A(t) /\ N(s) = N(t)
        \/ A(s) + N(s) <= A(t)
        \/ A(t) + N(t) <= A(s)
    BY TwodRanges
  <2>s. s \in Nat /\ t \in Nat
    BY DEF Servers
  <2>5. CASE A(s) + N(s) <= A(t)
    <3>1. A(s) * F + N(s) * F <= A(t) * F /\ s < t
      BY <2>3, <2>5
    <3>2. /\ v(s, x) \in Nat /\ v(s, x) < N(s) * F /\ A(s) * F \in Nat /\ N(s) * F \in Nat
          /\ v(t, z) \in Nat /\ v(t, x) \in Nat /\ A(t) * F \in Nat
      BY <2>1, <2>2
    <3> HIDE DEF v, A, N, F
    <3> QED BY <2>s, <3>1, <3>2 DEF v, A
  <2>6. CASE A(t) + N(t) <= A(s)
    <3>1. A(t) * F + N(t) * F <= A(s) * F /\ t < s
      BY <2>3, <2>6
    <3>2. /\ v(t, z) \in Nat /\ v(t, z) < N(t) * F /\ A(t) * F \in Nat /\ N(t) * F \in Nat
          /\ v(s, x) \in Nat /\ A(s) * F \in Nat
      BY <2>1, <2>2
    <3> HIDE DEF v, A, N, F
    <3> QED BY <2>s, <3>1, <3>2 DEF v, A
  <2>7. CASE A(s) = A(t) /\ N(s) = N(t)
    <3> DEFINE e == Inner(d, s)
    <3>1. Inner(d, t) = e
      BY <2>7 DEF Inner
    <3>2. Layout(e) /\ s - A(s) \in Servers(e) /\ t - A(s) \in Servers(e)
      BY <2>7, <3>1, TwodInner
    <3>3. v(s, x) = P2L(e, s - A(s), x) /\ v(t, z) = P2L(e, t - A(s), z)
          /\ v(t, x) = P2L(e, t - A(s), x)
      BY <2>7, <3>1
    <3>4. A(s) \in Nat
      BY TwodRanges
    <3>5. s <= t => s - A(s) <= t - A(s)
      BY <2>s, <3>4
    <3>6. s - A(s) = t - A(s) => s = t
      BY <2>s, <3>4
    <3> HIDE DEF e
    <3>7. /\ s = t /\ x < z => v(s, x) < v(t, z)
          /\ v(s, x) = v(t, z) => s = t
          /\ s <= t => v(s, x) <= v(t, x)
      <4> HIDE DEF v
      <4> QED BY <2>1, <3>2, <3>3, <3>5, <3>6 DEF Layout, Rises, Disjoint, Earlier
    <3>8. A(s) * F = A(t) * F /\ A(s) * F \in Nat /\ v(s, x) \in Nat /\ v(t, z) \in Nat /\ v(t, x) \in Nat
      BY <2>1, <2>2, <2>7
    <3> HIDE DEF v, A, F
    <3> QED BY <2>s, <3>7, <3>8 DEF v, A
  <2> QED BY <2>4, <2>5, <2>6, <2>7
<1> HIDE DEF E, F, W
<1>1. ASSUME NEW s \in Servers(d), NEW t \in Servers(d), NEW p \in Nat, NEW q \in Nat
      PROVE  /\ s = t /\ p < q => P2L(d, s, p) < P2L(d, t, q)
             /\ P2L(d, s, p) = P2L(d, t, q) => s = t
             /\ s <= t => P2L(d, s, p) <= P2L(d, t, p)
  <2>1. PICK k \in Nat, x \in 0..(F - 1) : p = k * F + x
    BY TwodForms DEF F
  <2>2. PICK j \in Nat, z \in 0..(F - 1) : q = j * F + z
    BY TwodForms DEF F
  <2>3. /\ P2L(d, s, p) = k * W + E(s, x) /\ E(s, x) \in 0..(W - 1)
        /\ P2L(d, t, q) = j * W + E(t, z) /\ E(t, z) \in 0..(W - 1)
        /\ P2L(d, t, p) = k * W + E(t, x) /\ E(t, x) \in 0..(W - 1)
    BY <1>e, <2>1, <2>2
  <2>4. /\ s = t /\ x < z => E(s, x) < E(t, z)
        /\ E(s, x) = E(t, z) => s = t
        /\ s <= t => E(s, x) <= E(t, x)
    BY <1>f
  <2>5. k * W \in Nat /\ j * W \in Nat /\ k * F \in Nat /\ j * F \in Nat
    BY <1>b, MulNat
  <2>6. /\ k < j => k * W + W <= j * W /\ k * F + F <= j * F
        /\ j < k => j * W + W <= k * W /\ j * F + F <= k * F
        /\ k = j => k * W = j * W /\ k * F = j * F
    BY <1>b, MulStep
  <2>7. k < j \/ k = j \/ j < k
    OBVIOUS
  <2>8. ASSUME s = t, p < q PROVE P2L(d, s, p) < P2L(d, t, q)
    BY <1>b, <2>1, <2>2, <2>3, <2>4, <2>5, <2>6, <2>7, <2>8
  <2>9. ASSUME P2L(d, s, p) = P2L(d, t, q) PROVE s = t
    BY <1>b, <2>3, <2>4, <2>5, <2>6, <2>7, <2>9
  <2>10. ASSUME s <= t PROVE P2L(d, s, p) <= P2L(d, t, p)
    BY <1>b, <2>3, <2>4, <2>5, <2>10
  <2> QED BY <2>8, <2>9, <2>10
<1>2. ASSUME NEW l \in Nat
      PROVE  \E s \in Servers(d), p \in Nat : P2L(d, s, p) = l
  <2>1. PICK k \in Nat, o \in 0..(W - 1) : l = k * W + o
    BY TwodForms DEF W
  <2>2. PICK j \in Nat, r \in 0..(F - 1) : o = j * F + r
    <3>1. o \in Nat
      BY <1>b
    <3> QED BY <1>b, <3>1, DivMod
  <2>3. j < d.ct
    <3>1. SUFFICES ASSUME d.ct <= j PROVE FALSE
      BY <1>b
    <3>2. d.ct * F <= j * F /\ d.ct * F = W
      BY <1>b, <3>1, MulStep DEF W, F, Stripe
    <3>3. j * F \in Nat
      BY <1>b, MulNat
    <3> QED BY <1>b, <2>2, <3>2, <3>3
  <2>4. j \in Servers(d)
    BY <1>b, <2>3 DEF Servers
  <2> DEFINE A == First(d, j)
             N == Width(d, j)
             e == Inner(d, j)
             y == o - A * F
  <2>5. A \in Nat /\ N \in Nat \ {0} /\ A <= j /\ j < A + N
    BY <2>4, TwodRanges
  <2>6. y \in Nat /\ y < N * F /\ N * F \in Nat /\ A * F \in Nat
    <3>1. A * F <= j * F /\ j * F + F <= (A + N) * F
      BY <1>b, <2>5, MulStep
    <3>2. (A + N) * F = A * F + N * F /\ A * F \in Nat /\ N * F \in Nat /\ j * F \in Nat
      BY <1>b, <2>5, MulNat
    <3> HIDE DEF A, N
    <3> QED BY <1>b, <2>2, <3>1, <3>2
  <2>7. Layout(e) /\ e.ct = N
    BY <2>4, TwodInner
  <2>8. PICK i \in Servers(e), x \in Nat : P2L(e, i, x) = y
    <3> HIDE DEF e, y
    <3> QED BY <2>6, <2>7 DEF Layout, Covers
  <2>9. i \in Nat /\ i < N
    BY <2>5, <2>7 DEF Servers
  <2> DEFINE s == A + i
  <2>10. s \in Servers(d) /\ First(d, s) = A /\ Width(d, s) = N
    BY <2>4, <2>9, TwodSameGroup
  <2>11. Inner(d, s) = e /\ s - First(d, s) = i
    BY <2>5, <2>9, <2>10 DEF Inner
  <2>12. x < F
    BY <2>6, <2>8, <2>10, <2>11, TwodInner DEF F
  <2>13. x \in 0..(F - 1)
    BY <1>b, <2>12
  <2>14. E(s, x) = o
    <3>1. E(s, x) = A * F + P2L(e, i, x)
      BY <2>10, <2>11 DEF E
    <3>2. E(s, x) = A * F + (o - A * F)
      BY <2>8, <3>1
    <3>3. o \in Int
      OBVIOUS
    <3> HIDE DEF A, s
    <3> QED BY <2>6, <3>2, <3>3
  <2>15. P2L(d, s, k * F + x) = l /\ k * F + x \in Nat
    BY <1>b, <1>e, <2>1, <2>10, <2>13, <2>14, MulNat
  <2> QED BY <2>10, <2>15
<1>3. ASSUME NEW s \in Servers(d), NEW p \in Nat
      PROVE  /\ Contiguous(d, s, p) \in Nat \ {0}
             /\ \A i \in Nat : i < Contiguous(d, s, p) \/ d.ct = 1 =>
                                 P2L(d, s, p + i) = P2L(d, s, p) + i
  <2> DEFINE e == Inner(d, s)
             j == s - First(d, s)
             a == First(d, s) * F
  <2>0. Layout(e) /\ j \in Servers(e) /\ a \in Nat /\ e.kind = "simple" /\ e.strip = b
        /\ e.ct = Width(d, s) /\ \A z \in Nat : P2L(e, j, z) \in Nat
    BY TwodInner DEF F, IsSimple
  <2>1. PICK q \in Nat, x \in 0..(F - 1) : p = q * F + x
    BY TwodForms DEF F
  <2>2. x \in Nat /\ x < F /\ q * F \in Nat /\ q * W \in Nat
    BY <1>b, MulNat
  <2>3. PICK k \in Nat, r \in 0..(b - 1) : x = k * b + r
    <3>1. x \div b \in Nat /\ x % b \in 0..(b - 1) /\ x = (x \div b) * b + (x % b)
      BY <1>b, <2>2, DivMod
    <3> QED BY <3>1
  <2>4. p % b = r /\ x % b = r /\ k * b + b <= F
    <3>1. F = d.factor * b /\ d.factor \in Nat
      BY TwodForms DEF F, Share
    <3>2. k * b \in Nat /\ r \in Nat /\ r < b
      BY <1>b, MulNat
    <3>3. k < d.factor
      <4>1. SUFFICES ASSUME d.factor <= k PROVE FALSE
        BY <3>1
      <4>2. d.factor * b <= k * b
        BY <1>b, <3>1, <4>1, MulStep
      <4> QED BY <1>b, <2>2, <2>3, <3>1, <3>2, <4>2
    <3>4. k * b + b <= F
      BY <1>b, <3>1, <3>3, MulStep
    <3>5. q * d.factor + k \in Nat /\ p = (q * d.factor + k) * b + r
      <4>1. q * d.factor \in Nat
        BY <3>1, MulNat
      <4>2. q * F = q * d.factor * b
        BY <1>b, <3>1, MulOrder
      <4>3. (q * d.factor + k) * b = q * d.factor * b + k * b
        BY <1>b, <4>1
      <4> QED BY <2>1, <2>2, <2>3, <3>2, <4>1, <4>2, <4>3
    <3>6. x % b = r
      BY <1>b, <2>3, DivUnique
    <3> DEFINE m == q * d.factor + k
    <3> HIDE DEF m
    <3>7. m \in Nat /\ p = m * b + r
      BY <3>5 DEF m
    <3>8. (m * b + r) % b = r
      BY <1>b, <3>7, DivUnique
    <3> QED BY <3>4, <3>6, <3>7, <3>8
  <2>5. Contiguous(d, s, p) = b - r
    BY <2>4 DEF Contiguous, IsTwod
  <2>6. Contiguous(e, j, x) = b - r
    BY <2>0, <2>4 DEF Contiguous
  <2> HIDE DEF e, j
  <2>7. P2L(d, s, p) = q * W + E(s, x) /\ E(s, x) = a + P2L(e, j, x) /\ E(s, x) \in Nat
    <3>1. E(s, x) \in 0..(W - 1)
      BY <1>e
    <3> QED BY <1>b, <1>e, <2>1, <3>1 DEF E, e, j
  <2>8. ASSUME NEW i \in Nat, i < b - r PROVE P2L(d, s, p + i) = P2L(d, s, p) + i
    <3>1. x + i \in 0..(F - 1)
      <4>1. k * b \in Nat /\ r \in Nat
        BY <1>b, MulNat
      <4> QED BY <1>b, <2>2, <2>3, <2>4, <2>8, <4>1
    <3>2. P2L(e, j, x + i) = P2L(e, j, x) + i
      BY <2>0, <2>2, <2>6, <2>8 DEF Layout, Runs
    <3>3. P2L(d, s, q * F + (x + i)) = q * W + E(s, x + i)
      BY <1>e, <3>1
    <3>4. E(s, x + i) = a + P2L(e, j, x + i)
      BY DEF E, e, j
    <3>5. p + i = q * F + (x + i)
      BY <2>1, <2>2
    <3>6. P2L(e, j, x) \in Nat
      BY <2>0, <2>2
    <3> HIDE DEF a
    <3> QED BY <2>0, <2>2, <2>7, <3>2, <3>3, <3>4, <3>5, <3>6
  <2>9. ASSUME d.ct = 1, NEW i \in Nat PROVE P2L(d, s, i) = i
    <3>1. s = 0 /\ First(d, s) = 0 /\ Width(d, s) = 1 /\ W = F /\ a = 0
      <4>1. s = 0
        BY <2>9 DEF Servers
      <4>2. First(d, s) = 0 /\ Width(d, s) = 1
        BY <2>9, <4>1, TwodRanges
      <4>3. W = F
        BY <1>b, <2>9 DEF W, F, Stripe
      <4> QED BY <1>b, <4>1, <4>2, <4>3
    <3>2. PICK m \in Nat, z \in 0..(F - 1) : i = m * F + z
      BY TwodForms DEF F
    <3>3. P2L(d, s, i) = m * W + E(s, z)
      BY <1>e, <3>2
    <3>4. E(s, z) = a + P2L(e, j, z)
      BY DEF E, e, j
    <3>5. z \in Nat /\ 0 \in Nat /\ 0 + z = z
      BY <1>b
    <3>6. P2L(e, j, 0 + z) = P2L(e, j, 0) + z
      BY <2>0, <3>1, <3>5 DEF Layout, Runs
    <3>7. P2L(e, j, 0) = 0
      <4>1. e = [kind |-> "simple", ct |-> 1, strip |-> b] /\ j = 0
        BY <3>1 DEF e, j, Inner
      <4>2. IsSimple(e) /\ e.strip = b /\ e.ct = 1 /\ 0 \in Servers(e)
        BY <1>b, <4>1 DEF IsSimple, Servers
      <4>3. P2L(e, 0, 0 * b + 0) = 0 * (b * 1) + (0 * b + 0)
        BY <1>b, <4>2, SimpleSplit
      <4> QED BY <1>b, <4>1, <4>3
    <3> QED BY <1>b, <3>1, <3>2, <3>3, <3>4, <3>5, <3>6, <3>7, MulNat
  <2> QED BY <1>b, <2>5, <2>8, <2>9
<1> QED
  BY <1>1, <1>2, <1>3 DEF Rises, Covers, Disjoint, Runs, Earlier

\* twod_stripe: next_mapped_offset finds the first byte of the datafile that is
\* not below the offset.
LEMMA TwodSeeks ==
  ASSUME NEW d, IsTwod(d)
  PROVE  Seeks(d)
<1> SUFFICES ASSUME NEW s \in Servers(d), NEW l \in Nat
             PROVE  NextMapped(d, s, l) = P2L(d, s, L2P(d, s, l))
  BY DEF Seeks
<1> DEFINE F == Share(d)
           W == Stripe(d)
           b == d.strip
           f == d.factor
           A == First(d, s)
           N == Width(d, s)
           e == Inner(d, s)
           i == s - A
           g == GroupNr(d, s, Small(d))
           P(w) == TwodP2L(d, s, w)
<1>1. /\ F \in Nat \ {0} /\ W \in Nat \ {0} /\ d.ct \in Nat \ {0} /\ b \in Nat \ {0}
      /\ f \in Nat \ {0}
  BY TwodForms
<1>2. PICK k \in Nat, o \in 0..(W - 1) : l = k * W + o
  BY TwodForms
<1> DEFINE y == o - A * F
           full == y \div (N * b)
           rest == y - full * b * N
<1>3. A \in Nat /\ N \in Nat \ {0} /\ i \in Nat /\ i < N
  BY TwodRanges DEF Servers
<1>4. IsSimple(e) /\ e.ct = N /\ e.strip = b /\ i \in Servers(e) /\ A * F \in Nat /\ N * F \in Nat
      /\ L2P(e, i, N * F) = F
  BY TwodInner
<1>5. k * W \in Nat /\ o \in Nat /\ o < W /\ k * F \in Nat /\ k * f \in Nat /\ y \in Int
  BY <1>1, <1>4, MulNat
<1>6. g * Small(d) = A /\ Groups(d) = d.groups
  BY TwodGroups DEF First
<1>7. NextMapped(d, s, l) =
        IF y >= N * F THEN P((k * f + f) * b)
        ELSE IF l = 0 \/ y <= 0 THEN P(k * f * b)
        ELSE IF rest < i * b THEN P((k * f + full) * b)
        ELSE IF rest >= (i + 1) * b THEN P((k * f + full + 1) * b)
        ELSE l
  <2>1. NextMapped(d, s, l) = TwodNext(d, s, l)
    BY DEF NextMapped, IsTwod
  <2> DEFINE T == d.ct * f * b
             yy == (l % T) - g * Small(d) * f * b
             fl == yy \div (N * b)
             re == yy - fl * b * N
             st == (l \div T) * f
  <2> HIDE DEF P
  <2>2. TwodNext(d, s, l) =
        IF yy >= N * f * b THEN P((st + f) * b)
        ELSE IF l = 0 \/ yy <= 0 THEN P(st * b)
        ELSE IF re < (s - g * Small(d)) * b THEN P((st + fl) * b)
        ELSE IF re >= (s - g * Small(d) + 1) * b THEN P((st + fl + 1) * b)
        ELSE l
    BY DEF TwodNext, Small, Width, P
  <2>3. T = W /\ g * Small(d) * f * b = A * F /\ N * f * b = N * F
    <3>1. d.ct * f * b = d.ct * (f * b) /\ A * f * b = A * (f * b) /\ N * f * b = N * (f * b)
      BY <1>1, <1>3
    <3> QED BY <1>6, <3>1 DEF Stripe, Share
  <2>4. l \div W = k /\ l % W = o
    <3> HIDE DEF W
    <3> QED BY <1>1, <1>2, DivUnique
  <2>5. yy = y /\ st = k * f
    BY <2>3, <2>4
  <2> HIDE DEF T, yy, y, st, F, W, b, f, N
  <2> QED BY <1>6, <2>1, <2>2, <2>3, <2>5
<1>8. \A w \in Nat : P(w) = P2L(d, s, w)
  BY DEF P2L, IsTwod
<1>9. L2P(d, s, l) =
        k * F + (IF y <= 0 THEN 0 ELSE IF y > N * F THEN F ELSE L2P(e, i, y))
  BY <1>2, TwodRank
<1>f. k * f * b = k * F /\ (k * f + f) * b = k * F + F
  <2>1. k * f * b = k * (f * b) /\ (k * f + f) * b = k * (f * b) + f * b
    BY <1>1
  <2> QED BY <2>1 DEF Share
<1> HIDE DEF P, F, W
<1>10. CASE y >= N * F
  <2>1. L2P(d, s, l) = k * F + F
    <3>0. y > 0
      <4>1. N * F # 0
        BY <1>1, <1>3, MulNat
      <4> HIDE DEF y, N
      <4> QED BY <1>4, <1>5, <1>10, <4>1
    <3>1. CASE y = N * F
      <4> HIDE DEF y, N, e, i
      <4> QED BY <1>4, <1>5, <1>9, <3>0, <3>1
    <3>2. CASE y > N * F
      <4> HIDE DEF y, N, e, i
      <4> QED BY <1>4, <1>5, <1>9, <3>0, <3>2
    <3> HIDE DEF y, N
    <3> QED BY <1>4, <1>5, <1>10, <3>1, <3>2
  <2>2. NextMapped(d, s, l) = P((k * f + f) * b)
    BY <1>7, <1>10
  <2>3. k * F + F \in Nat
    BY <1>1, <1>5
  <2> QED BY <1>8, <1>f, <2>1, <2>2, <2>3
<1>11. CASE y < N * F /\ y <= 0
  <2>1. L2P(d, s, l) = k * F
    <3> HIDE DEF y
    <3> QED BY <1>5, <1>9, <1>11
  <2>2. NextMapped(d, s, l) = P(k * f * b)
    <3> HIDE DEF y, N
    <3> QED BY <1>4, <1>5, <1>7, <1>11
  <2> QED BY <1>5, <1>8, <1>f, <2>1, <2>2
<1>12. CASE y < N * F /\ y > 0
  <2>1. N * b \in Nat \ {0} /\ b * N = N * b /\ y \in Nat
    BY <1>1, <1>3, <1>5, <1>12, MulNat, MulOrder
  <2>2. l # 0
    <3> HIDE DEF W, F
    <3>1. A * F \in Nat
      BY <1>4
    <3> QED BY <1>2, <1>5, <1>12, <3>1
  <2> HIDE DEF y
  <2>3. full \in Nat /\ y % (N * b) \in 0..(N * b - 1) /\ y = full * (N * b) + (y % (N * b))
    BY <2>1, DivMod
  <2>4. full * b * N = full * (N * b) /\ full * (b * N) = full * (N * b)
        /\ full * (N * b) \in Nat /\ full * b \in Nat
    <3> HIDE DEF full
    <3> QED BY <1>1, <1>3, <2>1, <2>3, MulOrder, MulNat
  <2>5. rest = y % (N * b) /\ rest \in 0..(N * b - 1) /\ rest \in Nat
    <3> HIDE DEF full
    <3> QED BY <2>1, <2>3, <2>4
  <2>6. y = full * (b * N) + rest
    BY <2>3, <2>4, <2>5
  <2> HIDE DEF full, rest
  <2> DEFINE w == rest - i * b
             c == IF w < 0 THEN 0 ELSE IF w < b THEN w ELSE b
  <2>7. L2P(e, i, y) = full * b + c
    <3>1. rest \in 0..(e.strip * e.ct - 1)
      BY <1>4, <2>1, <2>5
    <3>2. L2P(e, i, full * (e.strip * e.ct) + rest) =
            full * e.strip + (IF rest - i * e.strip < 0 THEN 0
                              ELSE IF rest - i * e.strip < e.strip THEN rest - i * e.strip
                              ELSE e.strip)
      BY <1>4, <2>3, <3>1, SimpleRank
    <3> QED BY <1>4, <2>6, <3>2
  <2>8. L2P(d, s, l) = k * F + (full * b + c)
    <3> HIDE DEF c, N, e, i
    <3> QED BY <1>4, <1>9, <1>12, <2>1, <2>7
  <2>9. i * b \in Nat /\ (i + 1) * b = i * b + b
    BY <1>1, <1>3, MulNat
  <2>10. NextMapped(d, s, l) =
           IF rest < i * b THEN P((k * f + full) * b)
           ELSE IF rest >= (i + 1) * b THEN P((k * f + full + 1) * b)
           ELSE l
    <3> HIDE DEF i, N
    <3> QED BY <1>4, <1>7, <1>12, <2>1, <2>2
  <2>11. (k * f + full) * b = k * F + full * b /\ (k * f + full + 1) * b = k * F + (full * b + b)
    <3>1. (k * f + full) * b = k * f * b + full * b /\ (k * f + full + 1) * b = k * f * b + (full * b + b)
      BY <1>1, <2>3
    <3> QED BY <1>f, <3>1
  <2>12. CASE w < 0
    <3>1. c = 0 /\ rest < i * b
      <4> HIDE DEF i
      <4> QED BY <1>1, <2>5, <2>9, <2>12
    <3>2. L2P(d, s, l) = k * F + full * b /\ k * F + full * b \in Nat
      BY <1>5, <2>4, <2>8, <3>1
    <3>3. NextMapped(d, s, l) = P((k * f + full) * b)
      BY <2>10, <3>1
    <3> QED BY <1>8, <2>11, <3>2, <3>3
  <2>13. CASE w >= b
    <3>1. c = b /\ ~ (rest < i * b) /\ rest >= (i + 1) * b
      <4> HIDE DEF i
      <4> QED BY <1>1, <2>5, <2>9, <2>13
    <3>2. L2P(d, s, l) = k * F + (full * b + b) /\ k * F + (full * b + b) \in Nat
      BY <1>1, <1>5, <2>4, <2>8, <3>1
    <3>3. NextMapped(d, s, l) = P((k * f + full + 1) * b)
      BY <2>10, <3>1
    <3> QED BY <1>8, <2>11, <3>2, <3>3
  <2>14. CASE ~ (w < 0) /\ ~ (w >= b)
    <3>1. c = w /\ ~ (rest < i * b) /\ ~ (rest >= (i + 1) * b) /\ w \in 0..(b - 1)
      <4> HIDE DEF i
      <4> QED BY <1>1, <2>5, <2>9, <2>14
    <3>2. NextMapped(d, s, l) = l
      BY <2>10, <3>1
    <3>3. P2L(e, i, full * b + w) = full * (b * N) + (i * b + w)
      BY <1>4, <2>3, <3>1, SimpleSplit
    <3>4. P2L(e, i, full * b + w) = y
      <4> HIDE DEF i
      <4> QED BY <2>4, <2>5, <2>6, <2>9, <3>3
    <3>5. full * b + w \in 0..(F - 1)
      <4>1. full * b + w \in Nat
        BY <1>1, <2>4, <3>1
      <4>2. full * b + w < F <=> P2L(e, i, full * b + w) < N * F
        <5> HIDE DEF w, full
        <5> QED BY <4>1, TwodInner DEF F
      <4> HIDE DEF N
      <4> QED BY <1>1, <1>12, <3>4, <4>1, <4>2
    <3>6. P2L(d, s, k * F + (full * b + w)) = k * W + (A * F + P2L(e, i, full * b + w))
      BY <3>5, TwodSplit DEF F, W
    <3>7. P2L(d, s, L2P(d, s, l)) = k * W + (A * F + y)
      BY <2>8, <3>1, <3>4, <3>6
    <3>8. A * F + y = o
      <4>1. A * F \in Nat
        BY <1>4
      <4> QED BY <1>5, <4>1 DEF y
    <3> QED BY <1>2, <3>2, <3>7, <3>8
  <2>15. w \in Int
    BY <2>5, <2>9
  <2> HIDE DEF w
  <2> QED BY <1>1, <2>12, <2>13, <2>14, <2>15
<1> HIDE DEF y, N
<1> QED
  BY <1>4, <1>5, <1>10, <1>11, <1>12

\* The same of twod_stripe (dist-twod-stripe.c), with no more groups than
\* datafiles, any number of which may be left for the last group.
THEOREM TwodLayout ==
  ASSUME NEW d, IsTwod(d)
  PROVE  Layout(d)
BY TwodCounts, TwodEnumerates, TwodSeeks DEF Layout

-----------------------------------------------------------------------------
(* What follows from a layout.                                             *)

\* The datafile s holds byte l of the file.
Owns(d, s, l) == P2L(d, s, L2P(d, s, l)) = l

\* The methods of a layout on one datafile.
LEMMA LayoutFacts ==
  ASSUME NEW d, Layout(d), NEW s \in Servers(d)
  PROVE  /\ \A x \in Nat : P2L(d, s, x) \in Nat /\ L2P(d, s, x) \in Nat
         /\ \A p, l \in Nat : P2L(d, s, p) < l <=> p < L2P(d, s, l)
         /\ \A p, q \in Nat : p < q => P2L(d, s, p) < P2L(d, s, q)
         /\ \A p \in Nat : L2P(d, s, P2L(d, s, p)) = p
         /\ \A l, m \in Nat : l <= m => L2P(d, s, l) <= L2P(d, s, m)
         /\ \A l \in Nat : l <= P2L(d, s, L2P(d, s, l))
         /\ \A p \in Nat : Owns(d, s, P2L(d, s, p))
         /\ L2P(d, s, 0) = 0
<1>1. \A x \in Nat : P2L(d, s, x) \in Nat /\ L2P(d, s, x) \in Nat
  BY DEF Layout, Typed
<1>2. \A p, l \in Nat : P2L(d, s, p) < l <=> p < L2P(d, s, l)
  BY DEF Layout, Counts
<1>3. \A p, q \in Nat : p < q => P2L(d, s, p) < P2L(d, s, q)
  BY DEF Layout, Rises
<1>4. \A p \in Nat : L2P(d, s, P2L(d, s, p)) = p
  <2> SUFFICES ASSUME NEW p \in Nat PROVE L2P(d, s, P2L(d, s, p)) = p
    OBVIOUS
  <2> DEFINE n == L2P(d, s, P2L(d, s, p))
  <2>1. n \in Nat /\ P2L(d, s, p) \in Nat /\ P2L(d, s, n) \in Nat
    BY <1>1
  <2>2. ~ (p < n)
    BY <1>2, <2>1
  <2>3. ~ (n < p)
    BY <1>2, <1>3, <2>1
  <2> QED
    BY <2>1, <2>2, <2>3
<1>5. \A l, m \in Nat : l <= m => L2P(d, s, l) <= L2P(d, s, m)
  <2> SUFFICES ASSUME NEW l \in Nat, NEW m \in Nat, l <= m, L2P(d, s, m) < L2P(d, s, l)
               PROVE  FALSE
    BY <1>1
  <2>1. L2P(d, s, m) \in Nat /\ P2L(d, s, L2P(d, s, m)) \in Nat
    BY <1>1
  <2>2. P2L(d, s, L2P(d, s, m)) < l
    BY <1>2, <2>1
  <2>3. P2L(d, s, L2P(d, s, m)) < m
    BY <2>1, <2>2
  <2>4. L2P(d, s, m) < L2P(d, s, m)
    BY <1>2, <2>1, <2>3
  <2> QED
    BY <2>1, <2>4
<1>6. \A l \in Nat : l <= P2L(d, s, L2P(d, s, l))
  <2> SUFFICES ASSUME NEW l \in Nat PROVE l <= P2L(d, s, L2P(d, s, l))
    OBVIOUS
  <2>1. L2P(d, s, l) \in Nat /\ P2L(d, s, L2P(d, s, l)) \in Nat
    BY <1>1
  <2> QED
    BY <1>2, <2>1
<1>7. \A p \in Nat : Owns(d, s, P2L(d, s, p))
  BY <1>4 DEF Owns
<1>8. L2P(d, s, 0) = 0
  <2>1. 0 \in Nat /\ L2P(d, s, 0) \in Nat /\ P2L(d, s, 0) \in Nat
    BY <1>1
  <2>2. ~ (0 < L2P(d, s, 0))
    BY <1>2, <2>1
  <2> QED
    BY <2>1, <2>2
<1> QED
  BY <1>1, <1>2, <1>3, <1>4, <1>5, <1>6, <1>7, <1>8

\* Every byte of the file is on one datafile.
LEMMA OwnerFacts ==
  ASSUME NEW d, Layout(d), NEW l \in Nat
  PROVE  /\ \E s \in Servers(d) : Owns(d, s, l)
         /\ \A s, t \in Servers(d) : Owns(d, s, l) /\ Owns(d, t, l) => s = t
<1>1. PICK s \in Servers(d), p \in Nat : P2L(d, s, p) = l
  BY DEF Layout, Covers
<1>2. Owns(d, s, l)
  BY <1>1, LayoutFacts
<1>3. ASSUME NEW t \in Servers(d), NEW u \in Servers(d), Owns(d, t, l), Owns(d, u, l)
      PROVE  t = u
  <2>1. L2P(d, t, l) \in Nat /\ L2P(d, u, l) \in Nat
    BY LayoutFacts
  <2>2. P2L(d, t, L2P(d, t, l)) = P2L(d, u, L2P(d, u, l))
    BY <1>3 DEF Owns
  <2> QED
    BY <2>1, <2>2 DEF Layout, Disjoint
<1> QED
  BY <1>2, <1>3

\* A byte of the datafile is below an offset exactly if its place is.
LEMMA OwnedBelow ==
  ASSUME NEW d, Layout(d), NEW s \in Servers(d), NEW l \in Nat, Owns(d, s, l), NEW m \in Nat
  PROVE  /\ l < m <=> L2P(d, s, l) < L2P(d, s, m)
         /\ l < P2L(d, s, m) <=> L2P(d, s, l) < m
<1>1. L2P(d, s, l) \in Nat /\ P2L(d, s, m) \in Nat /\ P2L(d, s, L2P(d, s, l)) = l
  BY LayoutFacts DEF Owns
<1>2. l < m <=> L2P(d, s, l) < L2P(d, s, m)
  BY <1>1, LayoutFacts
<1>3. P2L(d, s, L2P(d, s, l)) < P2L(d, s, m) <=> L2P(d, s, l) < L2P(d, s, P2L(d, s, m))
  BY <1>1, LayoutFacts
<1>4. L2P(d, s, P2L(d, s, m)) = m
  BY LayoutFacts
<1> QED
  BY <1>1, <1>2, <1>3, <1>4

\* A later datafile has at most as many bytes below an offset.
LEMMA LaterHasFewer ==
  ASSUME NEW d, Layout(d), NEW s \in Servers(d), NEW t \in Servers(d), s <= t, NEW l \in Nat
  PROVE  L2P(d, t, l) <= L2P(d, s, l)
<1>1. L2P(d, t, l) \in Nat /\ L2P(d, s, l) \in Nat
  BY LayoutFacts
<1> SUFFICES ASSUME L2P(d, s, l) < L2P(d, t, l) PROVE FALSE
  BY <1>1
<1> DEFINE p == L2P(d, s, l)
<1>2. P2L(d, t, p) \in Nat /\ P2L(d, s, p) \in Nat
  BY <1>1, LayoutFacts
<1>3. P2L(d, t, p) < l
  BY <1>1, LayoutFacts
<1>4. P2L(d, s, p) <= P2L(d, t, p)
  BY <1>1 DEF Layout, Earlier
<1>5. P2L(d, s, p) < l
  BY <1>2, <1>3, <1>4
<1>6. p < L2P(d, s, l)
  BY <1>1, <1>5, LayoutFacts
<1> QED
  BY <1>1, <1>6

-----------------------------------------------------------------------------
(* Maxima and sums.                                                        *)

\* counterexample.
LEMMA NatMin ==
  ASSUME NEW S \in SUBSET Nat, S # {}
  PROVE  \E x \in S : \A y \in S : x <= y
<1>1. PICK x \in S : \A y \in S : ~ (<<y, x>> \in OpToRel(<, Nat))
  BY NatLessThanWellFounded, WFMin
<1>2. \A y \in S : <<y, x>> \in OpToRel(<, Nat) <=> y < x
  BY DEF OpToRel
<1>3. \A y \in S : ~ (y < x)
  BY <1>1, <1>2, Zenon
<1>4. \A y \in S : x <= y
  BY <1>3
<1>5. QED
  BY <1>4

\* A set of naturals with an upper bound has a greatest element.
LEMMA MaxFacts ==
  ASSUME NEW S \in SUBSET Nat, S # {}, NEW b \in Nat, \A x \in S : x <= b
  PROVE  Max(S) \in S /\ \A x \in S : x <= Max(S)
<1> DEFINE B == {c \in Nat : \A x \in S : x <= c}
<1>1. PICK m \in B : \A c \in B : m <= c
  BY NatMin
<1>2. m \in S
  <2> SUFFICES ASSUME m \notin S PROVE FALSE
    OBVIOUS
  <2>1. PICK x \in S : TRUE
    OBVIOUS
  <2>2. m # 0
    BY <2>1
  <2>3. m - 1 \in Nat /\ \A y \in S : y <= m - 1
    BY <2>2
  <2> QED
    BY <1>1, <2>3
<1>3. m \in S /\ \A y \in S : m >= y
  BY <1>2
<1>4. Max(S) \in S /\ \A y \in S : Max(S) >= y
  BY <1>3 DEF Max
<1> QED
  BY <1>4

\* The larger and the smaller of two numbers.
LEMMA TwoFacts ==
  ASSUME NEW a \in Int, NEW b \in Int
  PROVE  /\ Max({a, b}) = IF a <= b THEN b ELSE a
         /\ Min({a, b}) = IF a <= b THEN a ELSE b
<1>1. \E x \in {a, b} : \A y \in {a, b} : x >= y
  OBVIOUS
<1>2. \E x \in {a, b} : \A y \in {a, b} : x =< y
  OBVIOUS
<1>3. Max({a, b}) \in {a, b} /\ \A y \in {a, b} : Max({a, b}) >= y
  BY <1>1 DEF Max
<1>4. Min({a, b}) \in {a, b} /\ \A y \in {a, b} : Min({a, b}) =< y
  BY <1>2 DEF Min
<1> QED
  BY <1>3, <1>4

Picked(s) == CHOOSE x \in s : TRUE

IsSum(v, U, g) ==
  g = [s \in SUBSET U |-> IF s = {} THEN 0 ELSE v[Picked(s)] + g[s \ {Picked(s)}]]

\* What a sum leaves for later has one element less.
LEMMA PartFacts ==
  ASSUME NEW I, IsFiniteSet(I), NEW s \in SUBSET I
  PROVE  /\ IsFiniteSet(s) /\ Cardinality(s) \in Nat
         /\ s # {} => /\ Picked(s) \in s
                      /\ Cardinality(s \ {Picked(s)}) = Cardinality(s) - 1
                      /\ Cardinality(s \ {Picked(s)}) \in Nat
<1>1. IsFiniteSet(s) /\ Cardinality(s) \in Nat
  BY FS_Subset, FS_CardinalityType
<1>2. s # {} => Picked(s) \in s
  BY DEF Picked
<1>3. /\ IsFiniteSet(s \ {Picked(s)})
      /\ Picked(s) \in s => Cardinality(s \ {Picked(s)}) = Cardinality(s) - 1
  BY <1>1, FS_RemoveElement
<1>4. Cardinality(s \ {Picked(s)}) \in Nat
  BY <1>3, FS_CardinalityType
<1> QED
  BY <1>1, <1>2, <1>3, <1>4

\* The function that a sum over a finite set evaluates exists.
LEMMA SumExists ==
  ASSUME NEW v, NEW U, IsFiniteSet(U)
  PROVE  \E g : IsSum(v, U, g)
<1> DEFINE D(n) == {s \in SUBSET U : Cardinality(s) <= n}
           On(n, g) == g = [s \in D(n) |-> IF s = {} THEN 0
                                          ELSE v[Picked(s)] + g[s \ {Picked(s)}]]
           Bad == {n \in Nat : ~ \E g : On(n, g)}
<1>1. \E g : On(0, g)
  <2> DEFINE g == [s \in D(0) |-> 0]
  <2>1. \A s \in D(0) : s = {}
    <3> SUFFICES ASSUME NEW s \in SUBSET U, Cardinality(s) <= 0 PROVE s = {}
      OBVIOUS
    <3>1. Cardinality(s) \in Nat /\ IsFiniteSet(s)
      BY PartFacts
    <3>2. Cardinality(s) = 0
      BY <3>1
    <3> QED
      BY <3>1, <3>2, FS_EmptySet
  <2>2. On(0, g)
    BY <2>1
  <2> QED
    BY <2>2
<1>2. ASSUME NEW n \in Nat, NEW g, On(n, g) PROVE \E h : On(n + 1, h)
  <2> DEFINE h == [s \in D(n + 1) |-> IF s = {} THEN 0
                                     ELSE v[Picked(s)] + g[s \ {Picked(s)}]]
  <2>1. \A s \in SUBSET U : Cardinality(s) <= n => Cardinality(s) <= n + 1
    <3> SUFFICES ASSUME NEW s \in SUBSET U, Cardinality(s) <= n PROVE Cardinality(s) <= n + 1
      OBVIOUS
    <3>1. Cardinality(s) \in Nat
      BY PartFacts
    <3> QED
      BY <3>1
  <2>2. \A s \in SUBSET U : s # {} /\ Cardinality(s) <= n + 1 => Cardinality(s \ {Picked(s)}) <= n
    <3> SUFFICES ASSUME NEW s \in SUBSET U, s # {}, Cardinality(s) <= n + 1
                 PROVE  Cardinality(s \ {Picked(s)}) <= n
      OBVIOUS
    <3>1. Cardinality(s) \in Nat /\ Cardinality(s \ {Picked(s)}) = Cardinality(s) - 1
      BY PartFacts
    <3> QED
      BY <3>1
  <2>3. \A s \in D(n) : s \in D(n + 1) /\ h[s] = g[s]
    BY <1>2, <2>1
  <2>4. \A s \in D(n + 1) : s # {} => s \ {Picked(s)} \in D(n)
    BY <2>2
  <2>5. On(n + 1, h)
    BY <2>3, <2>4
  <2> QED
    BY <2>5
<1> HIDE DEF D, On
<1>3. Bad = {}
  <2> SUFFICES ASSUME Bad # {} PROVE FALSE
    OBVIOUS
  <2>1. PICK n \in Bad : \A k \in Bad : n <= k
    BY NatMin
  <2>2. n \in Nat /\ n # 0
    BY <1>1
  <2>3. n - 1 \in Nat /\ (n - 1) + 1 = n /\ ~ (n <= n - 1)
    BY <2>2
  <2>4. PICK g : On(n - 1, g)
    BY <2>1, <2>3
  <2>5. \E h : On((n - 1) + 1, h)
    BY <1>2, <2>3, <2>4
  <2> QED
    BY <2>3, <2>5
<1>4. Cardinality(U) \in Nat
  BY FS_CardinalityType
<1>5. PICK g : On(Cardinality(U), g)
  BY <1>3, <1>4
<1>6. D(Cardinality(U)) = SUBSET U
  BY FS_Subset DEF D
<1> QED
  BY <1>5, <1>6 DEF IsSum, On

\* Finite sets f[x] that are disjoint, with v[x] their sizes; and their union.
Parts(U, f, v) ==
  /\ IsFiniteSet(U)
  /\ \A x \in U : IsFiniteSet(f[x]) /\ v[x] = Cardinality(f[x])
  /\ \A x, y \in U : x # y => f[x] \cap f[y] = {}
Whole(U, f) == UNION {f[x] : x \in U}

\* The sum of the sizes of finite sets that are disjoint is that of their union.
LEMMA SumCounts ==
  ASSUME NEW U, NEW f, NEW v, Parts(U, f, v), NEW g, IsSum(v, U, g)
  PROVE  IsFiniteSet(Whole(U, f)) /\ g[U] = Cardinality(Whole(U, f))
<1>0. /\ IsFiniteSet(U)
      /\ \A x \in U : IsFiniteSet(f[x]) /\ v[x] = Cardinality(f[x])
      /\ \A x, y \in U : x # y => f[x] \cap f[y] = {}
  BY DEF Parts
<1> DEFINE Cov(s) == UNION {f[x] : x \in s}
           Right(s) == IsFiniteSet(Cov(s)) /\ g[s] = Cardinality(Cov(s))
           Bad == {n \in Nat : \E s \in SUBSET U : Cardinality(s) = n /\ ~ Right(s)}
<1>1. \A s \in SUBSET U : g[s] = IF s = {} THEN 0 ELSE v[Picked(s)] + g[s \ {Picked(s)}]
  BY DEF IsSum
<1>2. Bad = {}
  <2> SUFFICES ASSUME Bad # {} PROVE FALSE
    OBVIOUS
  <2>1. PICK n \in Bad : \A k \in Bad : n <= k
    BY NatMin
  <2>2. PICK s \in SUBSET U : Cardinality(s) = n /\ ~ Right(s)
    OBVIOUS
  <2>3. CASE s = {}
    <3>1. Cov(s) = {} /\ IsFiniteSet({}) /\ Cardinality({}) = 0
      BY <2>3, FS_EmptySet
    <3>2. g[s] = 0
      BY <1>1, <2>3
    <3> QED
      BY <2>2, <3>1, <3>2
  <2>4. CASE s # {}
    <3> DEFINE x == Picked(s)
               t == s \ {x}
    <3>1. x \in s /\ t \in SUBSET U /\ x \in U
      BY <2>4 DEF Picked
    <3>2. g[s] = v[x] + g[t]
      BY <1>1, <2>4
    <3>3. Cardinality(t) = n - 1 /\ Cardinality(t) \in Nat
      BY <1>0, <2>2, <2>4, PartFacts
    <3>4. Right(t)
      <4>1. n \in Nat /\ ~ (n <= n - 1)
        OBVIOUS
      <4>2. n - 1 \notin Bad
        BY <2>1, <4>1
      <4> QED
        BY <3>1, <3>3, <4>2
    <3>5. Cov(s) = Cov(t) \cup f[x]
      BY <3>1
    <3>6. f[x] \cap Cov(t) = {}
      BY <1>0, <3>1
    <3> HIDE DEF x, t
    <3>7. IsFiniteSet(f[x]) /\ v[x] = Cardinality(f[x]) /\ IsFiniteSet(Cov(t)) /\ g[t] = Cardinality(Cov(t))
      BY <1>0, <3>1, <3>4
    <3> HIDE DEF Cov
    <3>8. /\ IsFiniteSet(Cov(t) \cup f[x])
          /\ Cardinality(Cov(t) \cup f[x]) =
               Cardinality(Cov(t)) + Cardinality(f[x]) - Cardinality(Cov(t) \cap f[x])
      BY <3>7, FS_Union
    <3>9. Cov(t) \cap f[x] = {} /\ Cardinality({}) = 0
      BY <3>6, FS_EmptySet
    <3>10. Cardinality(Cov(t)) \in Nat /\ Cardinality(f[x]) \in Nat
      BY <3>7, FS_CardinalityType
    <3>11. Cardinality(Cov(s)) = Cardinality(f[x]) + Cardinality(Cov(t))
      <4>1. Cardinality(Cov(t) \cap f[x]) = 0
        BY <3>9
      <4>2. Cardinality(Cov(s)) = Cardinality(Cov(t) \cup f[x])
        BY <3>5
      <4> QED
        BY <3>8, <3>10, <4>1, <4>2
    <3>12. IsFiniteSet(Cov(s)) /\ g[s] = Cardinality(Cov(s))
      BY <3>2, <3>5, <3>7, <3>8, <3>11
    <3> QED
      BY <2>2, <3>12
  <2> QED
    BY <2>3, <2>4
<1>3. Cardinality(U) \in Nat
  BY <1>0, FS_CardinalityType
<1> HIDE DEF Right
<1>4. Right(U)
  BY <1>2, <1>3
<1> QED
  BY <1>4 DEF Right, Whole

Total(ps, U) == MapThenSumSet(LAMBDA s : ps[s], U)
TotalCount(c, U) == MapThenSumSet(LAMBDA s : Cardinality(c[s]), U)

\* The sum of a function's values over a finite set.
LEMMA SumOfFunction ==
  ASSUME NEW U, NEW f, NEW ps, Parts(U, f, ps)
  PROVE  Total(ps, U) = Cardinality(Whole(U, f))
<1> DEFINE F == CHOOSE g : IsSum(ps, U, g)
<1>1. Total(ps, U) = F[U]
  BY Zenon DEF Total, MapThenSumSet, MapThenFoldSet, IsSum, Picked
<1>2. IsSum(ps, U, F)
  BY SumExists DEF Parts
<1> HIDE DEF F
<1> QED
  BY <1>1, <1>2, SumCounts

\* The sum of the sizes of the sets that a function holds.
LEMMA SumOfSets ==
  ASSUME NEW U, NEW f, NEW c,
         Parts(U, f, [x \in U |-> Cardinality(c[x])])
  PROVE  TotalCount(c, U) = Cardinality(Whole(U, f))
<1> DEFINE v == [x \in U |-> Cardinality(c[x])]
           Is(g) == g = [s \in SUBSET U |-> IF s = {} THEN 0
                           ELSE Cardinality(c[Picked(s)]) + g[s \ {Picked(s)}]]
           F == CHOOSE g : Is(g)
<1>1. TotalCount(c, U) = F[U]
  BY Zenon DEF TotalCount, MapThenSumSet, MapThenFoldSet, Picked
<1>2. PICK g : IsSum(v, U, g)
  BY SumExists DEF Parts
<1>3. \A s \in SUBSET U : s # {} => v[Picked(s)] = Cardinality(c[Picked(s)])
  BY DEF Picked
<1>4. Is(g)
  BY <1>2, <1>3 DEF IsSum
<1>5. Is(F)
  BY <1>4
<1>6. IsSum(v, U, F)
  BY <1>3, <1>5 DEF IsSum
<1> HIDE DEF F
<1> QED
  BY <1>1, <1>6, SumCounts

\* Length, the sum of the sizes of the pieces of a request.
LEMMA SumOfPieces ==
  ASSUME NEW U, NEW f, Parts(U, f, [x \in U |-> x.size])
  PROVE  IsFiniteSet(Whole(U, f)) /\ Length(U) = Cardinality(Whole(U, f))
<1> DEFINE v == [x \in U |-> x.size]
           Is(g) == g = [s \in SUBSET U |-> IF s = {} THEN 0
                           ELSE Picked(s).size + g[s \ {Picked(s)}]]
           F == CHOOSE g : Is(g)
<1>1. Length(U) = F[U]
  BY Zenon DEF Length, MapThenSumSet, MapThenFoldSet, Picked
<1>2. PICK g : IsSum(v, U, g)
  BY SumExists DEF Parts
<1>3. \A s \in SUBSET U : s # {} => v[Picked(s)] = Picked(s).size
  BY DEF Picked
<1>4. Is(g)
  BY <1>2, <1>3 DEF IsSum
<1>5. Is(F)
  BY <1>4
<1>6. IsSum(v, U, F)
  BY <1>3, <1>5 DEF IsSum
<1> HIDE DEF F
<1> QED
  BY <1>1, <1>6, SumCounts

\* A function that takes no value twice has as many values as arguments.
LEMMA ImageCount ==
  ASSUME NEW S, IsFiniteSet(S), NEW f,
         \A x, y \in S : f[x] = f[y] => x = y
  PROVE  LET T == {f[x] : x \in S}
         IN  IsFiniteSet(T) /\ Cardinality(T) = Cardinality(S)
<1> DEFINE T == {f[x] : x \in S}
           g == [x \in S |-> f[x]]
<1>1. g \in [S -> T] /\ (\A x, y \in S : g[x] = g[y] => x = y) /\ (\A y \in T : \E x \in S : g[x] = y)
  OBVIOUS
<1>2. g \in Bijection(S, T)
  BY <1>1 DEF Bijection, Injection, Surjection, IsInjective
<1>3. ExistsBijection(S, T)
  BY <1>2 DEF ExistsBijection
<1> QED
  BY <1>3, FS_Bijection

-----------------------------------------------------------------------------
(* The size of the file (logical_file_size).                               *)

Laid(d) == IsSimple(d) \/ IsBasic(d) \/ IsTwod(d)

\* Datafiles of sizes ps end at or below z; and reach up to z.
Top(d, ps, z) == \A s \in Servers(d) : ps[s] <= L2P(d, s, z)
Floor(d, ps, z) ==
  IF d.kind = "twod" THEN \A s \in Servers(d) : L2P(d, s, z) <= ps[s]
  ELSE z = 0 \/ \E s \in Servers(d) : L2P(d, s, z - 1) < ps[s]

\* The distributions lay out every file.
LEMMA LaidLayout ==
  ASSUME NEW d, Laid(d)
  PROVE  Layout(d) /\ d.ct \in Nat \ {0} /\ IsFiniteSet(Servers(d)) /\ Servers(d) \subseteq Nat
<1>1. Layout(d)
  BY SimpleLayout, BasicLayout, TwodLayout DEF Laid
<1>2. d.ct \in Nat \ {0}
  BY <1>1 DEF Layout, Typed
<1> QED
  BY <1>1, <1>2, FS_Interval DEF Servers

\* simple_stripe: the end of the last byte of a datafile.
LEMMA SimpleEndFacts ==
  ASSUME NEW d, IsSimple(d), NEW s \in Servers(d), NEW p \in Nat \ {0}
  PROVE  SimpleEnd(d, s, p) = P2L(d, s, p - 1) + 1
BY DEF SimpleEnd, P2L, SimpleP2L, IsSimple

\* simple_stripe: the file ends where the last of its bytes does.
LEMMA SimpleSizeFacts ==
  ASSUME NEW d, IsSimple(d), NEW ps \in [Servers(d) -> Nat], NEW z \in Nat, Top(d, ps, z)
  PROVE  /\ FileSize(d, ps) \in Nat /\ FileSize(d, ps) <= z
         /\ \A y \in Nat : Floor(d, ps, y) => y <= FileSize(d, ps)
<1> DEFINE E == {SimpleEnd(d, s, ps[s]) : s \in {t \in Servers(d) : ps[t] # 0}}
           M == {0} \cup E
<1>1. Layout(d)
  BY SimpleLayout
<1>2. ASSUME NEW s \in Servers(d), ps[s] # 0
      PROVE  /\ ps[s] \in Nat \ {0} /\ ps[s] - 1 \in Nat
             /\ SimpleEnd(d, s, ps[s]) = P2L(d, s, ps[s] - 1) + 1
             /\ P2L(d, s, ps[s] - 1) \in Nat
             /\ SimpleEnd(d, s, ps[s]) \in Nat /\ SimpleEnd(d, s, ps[s]) <= z
  <2>1. ps[s] \in Nat \ {0} /\ ps[s] - 1 \in Nat
    BY <1>2
  <2>2. SimpleEnd(d, s, ps[s]) = P2L(d, s, ps[s] - 1) + 1
    BY <2>1, SimpleEndFacts
  <2>3. P2L(d, s, ps[s] - 1) \in Nat /\ L2P(d, s, z) \in Nat
    BY <1>1, <2>1, LayoutFacts
  <2>4. ps[s] - 1 < L2P(d, s, z)
    BY <2>1, <2>3 DEF Top
  <2>5. P2L(d, s, ps[s] - 1) < z
    BY <1>1, <2>1, <2>4, LayoutFacts
  <2> QED
    BY <2>1, <2>2, <2>3, <2>5
<1>3. M \in SUBSET Nat /\ M # {} /\ \A x \in M : x <= z
  BY <1>2
<1>4. Max(M) \in M /\ \A x \in M : x <= Max(M)
  BY <1>3, MaxFacts
<1>5. FileSize(d, ps) = Max(M)
  BY DEF FileSize, SimpleSize, IsSimple
<1> DEFINE m == Max(M)
<1>6. m \in Nat /\ m <= z
  BY <1>3, <1>4
<1>7. ASSUME NEW y \in Nat, Floor(d, ps, y) PROVE y <= m
  <2>1. CASE y = 0
    BY <1>6, <2>1
  <2>2. CASE y # 0
    <3>1. PICK s \in Servers(d) : L2P(d, s, y - 1) < ps[s]
      BY <1>7, <2>2 DEF Floor, IsSimple
    <3>2. y - 1 \in Nat /\ ps[s] \in Nat
      BY <2>2
    <3>3. L2P(d, s, y - 1) \in Nat
      BY <1>1, <3>2, LayoutFacts
    <3>4. ps[s] # 0 /\ ps[s] - 1 \in Nat /\ ~ (ps[s] - 1 < L2P(d, s, y - 1))
      BY <3>1, <3>2, <3>3
    <3>5. ~ (P2L(d, s, ps[s] - 1) < y - 1)
      BY <1>1, <3>2, <3>4, LayoutFacts
    <3>6. SimpleEnd(d, s, ps[s]) \in M
      BY <3>4
    <3>7. SimpleEnd(d, s, ps[s]) <= m
      BY <1>4, <3>6
    <3>8. SimpleEnd(d, s, ps[s]) = P2L(d, s, ps[s] - 1) + 1 /\ P2L(d, s, ps[s] - 1) \in Nat
      BY <1>2, <3>4
    <3> HIDE DEF m, M
    <3> QED
      BY <1>6, <3>5, <3>7, <3>8
  <2> QED
    BY <2>1, <2>2
<1> QED
  BY <1>5, <1>6, <1>7

\* basic: the file is its datafile.
LEMMA BasicSizeFacts ==
  ASSUME NEW d, IsBasic(d), NEW ps \in [Servers(d) -> Nat], NEW z \in Nat, Top(d, ps, z)
  PROVE  /\ FileSize(d, ps) \in Nat /\ FileSize(d, ps) <= z
         /\ \A y \in Nat : Floor(d, ps, y) => y <= FileSize(d, ps)
<1>1. Servers(d) = {0} /\ \A l : L2P(d, 0, l) = l
  BY DEF Servers, IsBasic, L2P
<1>2. FileSize(d, ps) = ps[0] /\ ps[0] \in Nat
  BY <1>1 DEF FileSize, IsBasic
<1>3. ps[0] <= z
  BY <1>1 DEF Top
<1>4. \A y \in Nat : Floor(d, ps, y) => y = 0 \/ y - 1 < ps[0]
  BY <1>1 DEF Floor, IsBasic
<1> QED
  BY <1>2, <1>3, <1>4

\* twod_stripe: the sum of the sizes of the datafiles counts the bytes they hold.
LEMMA TwodSizeFacts ==
  ASSUME NEW d, IsTwod(d), NEW ps \in [Servers(d) -> Nat], NEW z \in Nat, Top(d, ps, z)
  PROVE  /\ FileSize(d, ps) \in Nat /\ FileSize(d, ps) <= z
         /\ \A y \in Nat : Floor(d, ps, y) => y <= FileSize(d, ps)
<1> DEFINE U == Servers(d)
           g(s) == [p \in 0..(ps[s] - 1) |-> P2L(d, s, p)]
           f == [s \in U |-> {g(s)[p] : p \in 0..(ps[s] - 1)}]
<1>1. Layout(d) /\ IsFiniteSet(U) /\ U \subseteq Nat
  BY LaidLayout, TwodLayout DEF Laid
<1>2. ASSUME NEW s \in U
      PROVE  IsFiniteSet(f[s]) /\ ps[s] = Cardinality(f[s])
  <2>1. IsFiniteSet(0..(ps[s] - 1)) /\ Cardinality(0..(ps[s] - 1)) = ps[s]
    <3>1. ps[s] \in Nat /\ 0 \in Int /\ ps[s] - 1 \in Int
      OBVIOUS
    <3>2. /\ IsFiniteSet(0..(ps[s] - 1))
          /\ Cardinality(0..(ps[s] - 1)) = IF 0 > ps[s] - 1 THEN 0 ELSE (ps[s] - 1) - 0 + 1
      BY <3>1, FS_Interval
    <3> QED
      BY <3>1, <3>2
  <2>2. \A p, q \in 0..(ps[s] - 1) : g(s)[p] = g(s)[q] => p = q
    <3> SUFFICES ASSUME NEW p \in 0..(ps[s] - 1), NEW q \in 0..(ps[s] - 1),
                        P2L(d, s, p) = P2L(d, s, q)
                 PROVE  p = q
      OBVIOUS
    <3>1. p \in Nat /\ q \in Nat
      OBVIOUS
    <3>2. L2P(d, s, P2L(d, s, p)) = p /\ L2P(d, s, P2L(d, s, q)) = q
      BY <1>1, <3>1, LayoutFacts
    <3> QED
      BY <3>2
  <2>3. f[s] = {g(s)[p] : p \in 0..(ps[s] - 1)}
    OBVIOUS
  <2> HIDE DEF f, g
  <2> QED
    BY <2>1, <2>2, <2>3, ImageCount
<1>3. ASSUME NEW s \in U PROVE f[s] = {P2L(d, s, p) : p \in 0..(ps[s] - 1)}
  OBVIOUS
<1> HIDE DEF f, g
<1>4. ASSUME NEW s \in U, NEW t \in U, NEW l \in f[s], l \in f[t] PROVE s = t
  <2>1. PICK p \in 0..(ps[s] - 1) : l = P2L(d, s, p)
    BY <1>3
  <2>2. PICK q \in 0..(ps[t] - 1) : l = P2L(d, t, q)
    BY <1>3, <1>4
  <2>3. p \in Nat /\ q \in Nat
    OBVIOUS
  <2> QED
    BY <1>1, <2>1, <2>2, <2>3 DEF Layout, Disjoint
<1>5. Parts(U, f, ps)
  <2>1. \A s, t \in U : s # t => f[s] \cap f[t] = {}
    BY <1>4
  <2> QED
    BY <1>1, <1>2, <2>1 DEF Parts
<1> DEFINE n == FileSize(d, ps)
<1>6. n = Cardinality(Whole(U, f))
  <2>1. n = Total(ps, U)
    BY Zenon DEF FileSize, IsTwod, Total
  <2> QED
    BY <1>5, <2>1, SumOfFunction
<1> HIDE DEF n
<1>7. \A y \in Nat : IsFiniteSet(0..(y - 1)) /\ Cardinality(0..(y - 1)) = y
  <2> SUFFICES ASSUME NEW y \in Nat PROVE IsFiniteSet(0..(y - 1)) /\ Cardinality(0..(y - 1)) = y
    OBVIOUS
  <2>1. 0 \in Int /\ y - 1 \in Int
    OBVIOUS
  <2>2. /\ IsFiniteSet(0..(y - 1))
        /\ Cardinality(0..(y - 1)) = IF 0 > y - 1 THEN 0 ELSE (y - 1) - 0 + 1
    BY <2>1, FS_Interval
  <2> QED
    BY <2>2
<1>8. Whole(U, f) \subseteq 0..(z - 1)
  <2> SUFFICES ASSUME NEW s \in U, NEW p \in 0..(ps[s] - 1) PROVE P2L(d, s, p) \in 0..(z - 1)
    BY <1>3 DEF Whole
  <2>1. p \in Nat /\ ps[s] \in Nat /\ p < ps[s]
    OBVIOUS
  <2>2. P2L(d, s, p) \in Nat /\ L2P(d, s, z) \in Nat
    BY <1>1, <2>1, LayoutFacts
  <2>3. p < L2P(d, s, z)
    BY <2>1, <2>2 DEF Top
  <2>4. P2L(d, s, p) < z
    BY <1>1, <2>1, <2>3, LayoutFacts
  <2> QED
    BY <2>2, <2>4
<1>9. IsFiniteSet(Whole(U, f)) /\ n \in Nat /\ n <= z
  BY <1>6, <1>7, <1>8, FS_Subset, FS_CardinalityType
<1>10. ASSUME NEW y \in Nat, Floor(d, ps, y) PROVE y <= n
  <2>1. 0..(y - 1) \subseteq Whole(U, f)
    <3> SUFFICES ASSUME NEW l \in 0..(y - 1) PROVE \E s \in U : l \in f[s]
      BY DEF Whole
    <3>0. l \in Nat /\ l < y
      OBVIOUS
    <3>1. PICK s \in U : Owns(d, s, l)
      BY <1>1, <3>0, OwnerFacts
    <3> DEFINE p == L2P(d, s, l)
    <3>2. p \in Nat /\ L2P(d, s, y) \in Nat /\ p < L2P(d, s, y) /\ P2L(d, s, p) = l
      BY <1>1, <3>0, <3>1, OwnedBelow, LayoutFacts DEF Owns
    <3>3. L2P(d, s, y) <= ps[s] /\ ps[s] \in Nat
      BY <1>10 DEF Floor, IsTwod
    <3>4. p \in 0..(ps[s] - 1)
      BY <3>2, <3>3
    <3> QED
      BY <1>3, <3>2, <3>4
  <2> QED
    BY <1>6, <1>7, <1>9, <2>1, FS_Subset
<1> QED
  BY <1>9, <1>10 DEF n

\* logical_file_size lies between what the datafiles reach and where they end.
LEMMA SizeFacts ==
  ASSUME NEW d, Laid(d), NEW ps \in [Servers(d) -> Nat], NEW z \in Nat, Top(d, ps, z)
  PROVE  /\ FileSize(d, ps) \in Nat /\ FileSize(d, ps) <= z
         /\ \A y \in Nat : Floor(d, ps, y) => y <= FileSize(d, ps)
BY SimpleSizeFacts, BasicSizeFacts, TwodSizeFacts DEF Laid

\* Datafiles that are larger reach further, and a lower mark is reached sooner.
LEMMA FloorFacts ==
  ASSUME NEW d, Laid(d), NEW ps \in [Servers(d) -> Nat], NEW qs \in [Servers(d) -> Nat],
         NEW y \in Nat, NEW z \in Nat
  PROVE  /\ Floor(d, ps, z) /\ y <= z /\ (\A s \in Servers(d) : ps[s] <= qs[s]) => Floor(d, qs, y)
         /\ Floor(d, ps, 0)
<1>1. Layout(d)
  BY LaidLayout
<1>2. Floor(d, ps, 0)
  <2>1. \A s \in Servers(d) : L2P(d, s, 0) = 0 /\ ps[s] \in Nat
    BY <1>1, LayoutFacts
  <2> QED
    BY <2>1 DEF Floor
<1>3. ASSUME Floor(d, ps, z), y <= z, \A s \in Servers(d) : ps[s] <= qs[s]
      PROVE  Floor(d, qs, y)
  <2>1. CASE d.kind = "twod"
    <3>1. \A s \in Servers(d) : L2P(d, s, y) <= L2P(d, s, z) /\ L2P(d, s, y) \in Nat
                                /\ L2P(d, s, z) \in Nat
      BY <1>1, <1>3, LayoutFacts
    <3>2. \A s \in Servers(d) : L2P(d, s, z) <= ps[s] /\ ps[s] <= qs[s] /\ ps[s] \in Nat /\ qs[s] \in Nat
      BY <1>3, <2>1 DEF Floor
    <3> QED
      BY <2>1, <3>1, <3>2 DEF Floor
  <2>2. CASE d.kind # "twod" /\ y # 0
    <3>1. PICK s \in Servers(d) : L2P(d, s, z - 1) < ps[s]
      BY <1>3, <2>2 DEF Floor
    <3>2. y - 1 \in Nat /\ z - 1 \in Nat /\ y - 1 <= z - 1
      BY <1>3, <2>2
    <3>3. L2P(d, s, y - 1) <= L2P(d, s, z - 1) /\ L2P(d, s, y - 1) \in Nat /\ L2P(d, s, z - 1) \in Nat
      BY <1>1, <3>2, LayoutFacts
    <3>4. L2P(d, s, y - 1) < qs[s]
      BY <1>3, <3>1, <3>3
    <3> QED
      BY <2>2, <3>4 DEF Floor
  <2> QED
    BY <2>1, <2>2 DEF Floor
<1> QED
  BY <1>2, <1>3

-----------------------------------------------------------------------------
(* PINT_distribute: the pieces of a region on one datafile.                *)

\* The piece found from offset o on, and what follows it.
PieceFrom(d, s, o, end, fsize, extend) ==
  NextPiece(d, s, NextMapped(d, s, o), end, fsize, extend)
Stops(x, end) == x.loff >= end \/ x.size <= 0
IsWalk(d, s, off, end, fsize, extend, g) ==
  g = [o \in off..end |->
         LET x == PieceFrom(d, s, o, end, fsize, extend)
         IN  IF Stops(x, end) THEN {} ELSE {x} \cup g[x.loff + x.size]]

\* A piece lies on consecutive bytes of the datafile.
Sound(d, s, x, end, fsize, extend) ==
  /\ x.loff \in Nat /\ x.poff \in Nat /\ x.size \in Nat \ {0}
  /\ x.loff + x.size <= end
  /\ \A i \in Nat : i < x.size => P2L(d, s, x.poff + i) = x.loff + i
  /\ ~ extend => x.poff + x.size <= fsize

\* The bytes of the region that are on the datafile and may be accessed.
Wanted(d, s, l, fsize, extend) == Owns(d, s, l) /\ (extend \/ L2P(d, s, l) < fsize)

\* One step of the walk: a piece is sound, nothing wanted is left out before it,
\* and nothing is left when the walk stops.
LEMMA PieceStep ==
  ASSUME NEW d, Layout(d), NEW s \in Servers(d), NEW o \in Nat, NEW end \in Nat,
         NEW fsize \in Nat, NEW extend \in BOOLEAN
  PROVE  LET x == PieceFrom(d, s, o, end, fsize, extend)
         IN  /\ x.loff \in Nat /\ o <= x.loff /\ x.size \in Int
             /\ ~ Stops(x, end) => Sound(d, s, x, end, fsize, extend)
             /\ \A l \in Nat : o <= l /\ l < end /\ Wanted(d, s, l, fsize, extend) =>
                                  ~ Stops(x, end) /\ x.loff <= l
<1> DEFINE x == PieceFrom(d, s, o, end, fsize, extend)
           p == L2P(d, s, o)
           m == P2L(d, s, p)
           frag == Contiguous(d, s, p)
           left == end - m
           want == IF left > frag /\ d.ct # 1 THEN frag ELSE left
<1>1. p \in Nat /\ m \in Nat /\ o <= m /\ L2P(d, s, m) = p
  BY LayoutFacts
<1>2. NextMapped(d, s, o) = m
  BY DEF Layout, Seeks
<1>3. /\ x.loff = m /\ x.poff = p
      /\ x.size = IF p + want > fsize /\ ~ extend THEN fsize - p ELSE want
  BY <1>1, <1>2 DEF PieceFrom, NextPiece, PieceAt, PieceSize
<1>4. frag \in Nat \ {0} /\ \A i \in Nat : i < frag \/ d.ct = 1 => P2L(d, s, p + i) = m + i
  BY <1>1 DEF Layout, Runs
<1> HIDE DEF x, p, m, frag
<1>5. left \in Int /\ want \in Int /\ want <= left /\ (want <= frag \/ d.ct = 1)
  BY <1>1, <1>4
<1>6. x.size \in Int /\ x.size <= want
  BY <1>1, <1>3, <1>5
<1>7. ASSUME ~ Stops(x, end) PROVE Sound(d, s, x, end, fsize, extend)
  <2>1. x.size \in Nat \ {0}
    BY <1>6, <1>7 DEF Stops
  <2>2. x.loff + x.size <= end
    BY <1>1, <1>3, <1>5, <1>6
  <2>3. \A i \in Nat : i < x.size => P2L(d, s, x.poff + i) = x.loff + i
    <3> SUFFICES ASSUME NEW i \in Nat, i < x.size PROVE P2L(d, s, x.poff + i) = x.loff + i
      OBVIOUS
    <3>1. i < frag \/ d.ct = 1
      BY <1>4, <1>5, <1>6
    <3> QED
      BY <1>3, <1>4, <3>1
  <2>4. ~ extend => x.poff + x.size <= fsize
    BY <1>1, <1>3, <1>5
  <2> QED
    BY <1>1, <1>3, <2>1, <2>2, <2>3, <2>4 DEF Sound
<1>8. ASSUME NEW l \in Nat, o <= l, l < end, Wanted(d, s, l, fsize, extend)
      PROVE  ~ Stops(x, end) /\ x.loff <= l
  <2>1. L2P(d, s, l) \in Nat /\ p <= L2P(d, s, l)
    BY <1>8, LayoutFacts DEF p
  <2>2. P2L(d, s, L2P(d, s, l)) = l
    BY <1>8 DEF Wanted, Owns
  <2>3. m <= l
    <3>1. p < L2P(d, s, l) => P2L(d, s, p) < P2L(d, s, L2P(d, s, l))
      BY <1>1, <2>1, LayoutFacts
    <3>2. p = L2P(d, s, l) => m = l
      BY <2>2 DEF m
    <3>3. p < L2P(d, s, l) => m < l
      BY <2>2, <3>1 DEF m
    <3> QED
      BY <1>1, <2>1, <3>2, <3>3
  <2>4. left > 0 /\ want > 0
    BY <1>1, <1>4, <1>8, <2>3
  <2>5. extend \/ p < fsize
    BY <1>1, <1>8, <2>1 DEF Wanted
  <2>6. x.size > 0
    BY <1>1, <1>3, <1>5, <2>4, <2>5
  <2> QED
    BY <1>1, <1>3, <1>6, <1>8, <2>3, <2>6 DEF Stops
<1> QED
  BY <1>1, <1>3, <1>6, <1>7, <1>8 DEF x

\* The function that Pieces evaluates exists.
LEMMA WalkExists ==
  ASSUME NEW d, Layout(d), NEW s \in Servers(d), NEW off \in Nat, NEW end \in Nat, off <= end,
         NEW fsize \in Nat, NEW extend \in BOOLEAN
  PROVE  \E g : IsWalk(d, s, off, end, fsize, extend, g)
<1> DEFINE X(o) == PieceFrom(d, s, o, end, fsize, extend)
           D(n) == {o \in off..end : end - o <= n}
           On(n, g) == g = [o \in D(n) |-> IF Stops(X(o), end) THEN {}
                                          ELSE {X(o)} \cup g[X(o).loff + X(o).size]]
           Bad == {n \in Nat : ~ \E g : On(n, g)}
<1>0. ASSUME NEW o \in off..end, ~ Stops(X(o), end)
      PROVE  X(o).loff + X(o).size \in off..end /\ X(o).loff + X(o).size > o
  <2>1. o \in Nat
    OBVIOUS
  <2>2. X(o).loff \in Nat /\ o <= X(o).loff /\ Sound(d, s, X(o), end, fsize, extend)
    BY <1>0, <2>1, PieceStep
  <2>3. X(o).size \in Nat \ {0} /\ X(o).loff + X(o).size <= end
    BY <2>2 DEF Sound
  <2> QED
    BY <2>1, <2>2, <2>3
<1> HIDE DEF X
<1>1. \E g : On(0, g)
  <2> DEFINE g == [o \in D(0) |-> {}]
  <2>1. \A o \in D(0) : Stops(X(o), end)
    BY <1>0
  <2>2. On(0, g)
    BY <2>1
  <2> QED
    BY <2>2
<1>2. ASSUME NEW n \in Nat, NEW g, On(n, g) PROVE \E h : On(n + 1, h)
  <2> DEFINE h == [o \in D(n + 1) |-> IF Stops(X(o), end) THEN {}
                                     ELSE {X(o)} \cup g[X(o).loff + X(o).size]]
  <2>1. \A o \in D(n) : o \in D(n + 1)
    OBVIOUS
  <2>2. \A o \in D(n + 1) : ~ Stops(X(o), end) => X(o).loff + X(o).size \in D(n)
    BY <1>0
  <2>3. \A o \in D(n) : h[o] = g[o]
    BY <1>2, <2>1
  <2>4. On(n + 1, h)
    BY <2>2, <2>3
  <2> QED
    BY <2>4
<1> HIDE DEF On, D
<1>3. Bad = {}
  <2> SUFFICES ASSUME Bad # {} PROVE FALSE
    OBVIOUS
  <2>1. PICK n \in Bad : \A k \in Bad : n <= k
    BY NatMin
  <2>2. n \in Nat /\ n # 0
    BY <1>1
  <2>3. n - 1 \in Nat /\ (n - 1) + 1 = n /\ ~ (n <= n - 1)
    BY <2>2
  <2>4. PICK g : On(n - 1, g)
    BY <2>1, <2>3
  <2>5. \E h : On((n - 1) + 1, h)
    BY <1>2, <2>3, <2>4
  <2> QED
    BY <2>3, <2>5
<1>4. end \in Nat /\ D(end) = off..end
  BY DEF D
<1>5. PICK g : On(end, g)
  BY <1>3, <1>4
<1> QED
  BY <1>4, <1>5 DEF IsWalk, On, X

\* What a walk from an offset on has found.
Found(d, s, P, o, end, fsize, extend) ==
  /\ IsFiniteSet(P)
  /\ \A x \in P : o <= x.loff /\ Sound(d, s, x, end, fsize, extend)
  /\ \A x, y \in P : x # y => x.loff + x.size <= y.loff \/ y.loff + y.size <= x.loff
  /\ \A l \in Nat : o <= l /\ l < end /\ Wanted(d, s, l, fsize, extend) =>
                      \E x \in P : x.loff <= l /\ l < x.loff + x.size

\* PINT_distribute finds every byte of the region that is on the datafile.
LEMMA PiecesFound ==
  ASSUME NEW d, Layout(d), NEW s \in Servers(d), NEW off \in Nat, NEW len \in Nat,
         NEW fsize \in Nat, NEW extend \in BOOLEAN
  PROVE  Found(d, s, Pieces(d, s, off, len, fsize, extend), off, off + len, fsize, extend)
<1> DEFINE end == off + len
           F == CHOOSE g : IsWalk(d, s, off, end, fsize, extend, g)
           X(o) == PieceFrom(d, s, o, end, fsize, extend)
           Right(o) == Found(d, s, F[o], o, end, fsize, extend)
           Bad == {n \in Nat : \E o \in off..end : end - o = n /\ ~ Right(o)}
<1>1. Pieces(d, s, off, len, fsize, extend) = F[off]
  BY Zenon DEF Pieces, IsWalk, PieceFrom, Stops
<1>2. end \in Nat /\ off <= end
  OBVIOUS
<1> HIDE DEF end
<1>3. IsWalk(d, s, off, end, fsize, extend, F)
  BY <1>2, WalkExists
<1> HIDE DEF F
<1>4. \A o \in off..end : F[o] = IF Stops(X(o), end) THEN {} ELSE {X(o)} \cup F[X(o).loff + X(o).size]
  BY <1>3 DEF IsWalk
<1>5. ASSUME NEW o \in off..end,
             \A q \in off..end : q > o => Right(q)
      PROVE  Right(o)
  <2>1. o \in Nat
    OBVIOUS
  <2>2. /\ X(o).loff \in Nat /\ o <= X(o).loff
        /\ ~ Stops(X(o), end) => Sound(d, s, X(o), end, fsize, extend)
        /\ \A l \in Nat : o <= l /\ l < end /\ Wanted(d, s, l, fsize, extend) =>
                                  ~ Stops(X(o), end) /\ X(o).loff <= l
    BY <1>2, <2>1, PieceStep
  <2>3. CASE Stops(X(o), end)
    <3>1. F[o] = {}
      BY <1>4, <2>3
    <3> QED
      BY <2>2, <2>3, <3>1, FS_EmptySet DEF Found
  <2>4. CASE ~ Stops(X(o), end)
    <3> DEFINE x == X(o)
               q == x.loff + x.size
    <3>1. F[o] = {x} \cup F[q]
      BY <1>4, <2>4
    <3>2. Sound(d, s, x, end, fsize, extend) /\ o <= x.loff
      BY <2>2, <2>4
    <3> HIDE DEF x
    <3>3. x.loff \in Nat /\ x.size \in Nat \ {0} /\ x.loff + x.size <= end
      BY <3>2 DEF Sound
    <3>4. q \in off..end /\ q > o /\ q \in Nat /\ q = x.loff + x.size
      BY <1>2, <2>1, <3>2, <3>3
    <3> HIDE DEF q
    <3>5. Found(d, s, F[q], q, end, fsize, extend)
      BY <1>5, <3>4
    <3>6. IsFiniteSet(F[o])
      <4>1. IsFiniteSet(F[q])
        BY <3>5 DEF Found
      <4>2. IsFiniteSet(F[q] \cup {x})
        BY <4>1, FS_AddElement
      <4>3. F[o] = F[q] \cup {x}
        BY <3>1
      <4> QED
        BY <4>2, <4>3
    <3>7. \A y \in F[q] : q <= y.loff /\ Sound(d, s, y, end, fsize, extend) /\ y.loff \in Nat
      BY <3>5 DEF Found, Sound
    <3>8. \A y \in F[o] : o <= y.loff /\ Sound(d, s, y, end, fsize, extend)
      BY <2>1, <3>1, <3>2, <3>4, <3>7
    <3>9. \A y, z \in F[o] : y # z => y.loff + y.size <= z.loff \/ z.loff + z.size <= y.loff
      BY <3>1, <3>4, <3>5, <3>7 DEF Found
    <3>10. ASSUME NEW l \in Nat, o <= l, l < end, Wanted(d, s, l, fsize, extend)
           PROVE  \E y \in F[o] : y.loff <= l /\ l < y.loff + y.size
      <4>1. x.loff <= l
        BY <2>2, <3>10 DEF x
      <4>2. CASE l < q
        BY <3>1, <3>4, <4>1, <4>2
      <4>3. CASE ~ (l < q)
        <5>1. q <= l
          BY <3>4, <4>3
        <5>2. \E y \in F[q] : y.loff <= l /\ l < y.loff + y.size
          BY <3>5, <3>10, <5>1 DEF Found
        <5> QED
          BY <3>1, <5>2
      <4> QED
        BY <4>2, <4>3
    <3> QED
      BY <3>6, <3>8, <3>9, <3>10 DEF Found
  <2> QED
    BY <2>3, <2>4
<1> HIDE DEF Right, X
<1>6. Bad = {}
  <2> SUFFICES ASSUME Bad # {} PROVE FALSE
    OBVIOUS
  <2>1. PICK n \in Bad : \A k \in Bad : n <= k
    BY NatMin
  <2>2. PICK o \in off..end : end - o = n /\ ~ Right(o)
    OBVIOUS
  <2>3. ASSUME NEW q \in off..end, q > o PROVE Right(q)
    <3>1. end - q \in Nat /\ ~ (n <= end - q)
      BY <1>2, <2>2, <2>3
    <3> QED
      BY <2>1, <3>1
  <2> QED
    BY <1>5, <2>2, <2>3
<1>7. off \in off..end /\ end - off \in Nat
  BY <1>2
<1>8. Right(off)
  BY <1>6, <1>7
<1> QED
  BY <1>1, <1>8 DEF Right, end

\* The bytes of a region that are on a datafile of the given size.
OnFile(d, s, off, len, fsize, extend) ==
  {l \in Bytes(off, len) : Wanted(d, s, l, fsize, extend)}

Places(d, s, L) == {L2P(d, s, l) : l \in L}

\* PINT_distribute (pint-request.c) finds the bytes of the region that are on
\* the datafile, up to its end unless it is extended: each once, each with its
\* place, and as many as the sizes of the pieces say.
THEOREM PiecesFacts ==
  ASSUME NEW d, Layout(d), NEW s \in Servers(d), NEW off \in Nat, NEW len \in Nat,
         NEW fsize \in Nat, NEW extend \in BOOLEAN
  PROVE  LET P == Pieces(d, s, off, len, fsize, extend)
             L == OnFile(d, s, off, len, fsize, extend)
         IN  /\ Logical(P) = L
             /\ Physical(P) = Places(d, s, L)
             /\ \A x \in P : \A l \in Bytes(x.loff, x.size) : x.poff + (l - x.loff) = L2P(d, s, l)
             /\ P = {} <=> L = {}
             /\ IsFiniteSet(L) /\ Length(P) = Cardinality(L)
             /\ \A x \in P : x.poff \in Nat /\ x.size \in Nat /\ x.loff \in Nat
                             /\ \E l \in L : x.poff + x.size = L2P(d, s, l) + 1
<1> DEFINE P == Pieces(d, s, off, len, fsize, extend)
           L == OnFile(d, s, off, len, fsize, extend)
<1>1. Found(d, s, P, off, off + len, fsize, extend)
  BY PiecesFound
<1> HIDE DEF P
<1>2. ASSUME NEW x \in P
      PROVE  /\ x.loff \in Nat /\ x.poff \in Nat /\ x.size \in Nat \ {0} /\ off <= x.loff
             /\ x.loff + x.size <= off + len
             /\ \A i \in Nat : i < x.size => P2L(d, s, x.poff + i) = x.loff + i
             /\ ~ extend => x.poff + x.size <= fsize
  BY <1>1 DEF Found, Sound
<1>3. ASSUME NEW x \in P, NEW i \in Nat, i < x.size
      PROVE  x.loff + i \in L /\ L2P(d, s, x.loff + i) = x.poff + i
  <2>1. x.poff + i \in Nat /\ x.loff + i \in Nat /\ P2L(d, s, x.poff + i) = x.loff + i
    BY <1>2, <1>3
  <2>2. L2P(d, s, x.loff + i) = x.poff + i /\ Owns(d, s, x.loff + i)
    BY <2>1, LayoutFacts DEF Owns
  <2>3. x.loff + i \in Bytes(off, len)
    BY <1>2, <1>3 DEF Bytes
  <2>4. extend \/ x.poff + i < fsize
    BY <1>2, <1>3
  <2> QED
    BY <2>2, <2>3, <2>4 DEF OnFile, Wanted
<1>4. ASSUME NEW x \in P, NEW l \in Bytes(x.loff, x.size)
      PROVE  l \in L /\ L2P(d, s, l) = x.poff + (l - x.loff)
  <2>1. l - x.loff \in Nat /\ l - x.loff < x.size /\ x.loff + (l - x.loff) = l
    BY <1>2 DEF Bytes
  <2> QED
    BY <1>3, <2>1
<1>5. ASSUME NEW l \in L PROVE \E x \in P : l \in Bytes(x.loff, x.size)
  <2>1. l \in Nat /\ off <= l /\ l < off + len /\ Wanted(d, s, l, fsize, extend)
    BY DEF OnFile, Bytes
  <2>2. PICK x \in P : x.loff <= l /\ l < x.loff + x.size
    BY <1>1, <2>1 DEF Found
  <2>3. l \in Bytes(x.loff, x.size)
    BY <1>2, <2>1, <2>2 DEF Bytes
  <2> QED
    BY <2>3
<1>6. Logical(P) = L
  BY <1>4, <1>5 DEF Logical
<1>7. Physical(P) = Places(d, s, L)
  <2>1. ASSUME NEW p \in Physical(P) PROVE \E l \in L : p = L2P(d, s, l)
    <3>1. PICK x \in P : p \in Bytes(x.poff, x.size)
      BY DEF Physical
    <3>2. p - x.poff \in Nat /\ p - x.poff < x.size /\ x.poff + (p - x.poff) = p
      BY <1>2, <3>1 DEF Bytes
    <3> QED
      BY <1>3, <3>2
  <2>2. ASSUME NEW l \in L PROVE L2P(d, s, l) \in Physical(P)
    <3>1. PICK x \in P : l \in Bytes(x.loff, x.size)
      BY <1>5
    <3>2. L2P(d, s, l) = x.poff + (l - x.loff)
      BY <1>4, <3>1
    <3>3. L2P(d, s, l) \in Bytes(x.poff, x.size)
      BY <1>2, <3>1, <3>2 DEF Bytes
    <3> QED
      BY <3>3 DEF Physical
  <2> QED
    BY <2>1, <2>2 DEF Places
<1>8. ASSUME NEW x \in P
      PROVE  \E l \in L : x.poff + x.size = L2P(d, s, l) + 1
  <2>1. x.size - 1 \in Nat /\ x.size - 1 < x.size
    BY <1>2
  <2>2. x.loff + (x.size - 1) \in L /\ L2P(d, s, x.loff + (x.size - 1)) = x.poff + (x.size - 1)
    BY <1>3, <2>1
  <2>3. x.poff + x.size = L2P(d, s, x.loff + (x.size - 1)) + 1
    BY <1>2, <2>2
  <2> QED
    BY <2>2, <2>3
<1>9. P = {} <=> L = {}
  BY <1>5, <1>8
<1>10. IsFiniteSet(L) /\ Length(P) = Cardinality(L)
  <2> DEFINE f == [x \in P |-> Bytes(x.loff, x.size)]
  <2>1. \A x \in P : IsFiniteSet(f[x]) /\ x.size = Cardinality(f[x])
    <3> SUFFICES ASSUME NEW x \in P
                 PROVE  IsFiniteSet(Bytes(x.loff, x.size)) /\ Cardinality(Bytes(x.loff, x.size)) = x.size
      OBVIOUS
    <3>1. x.loff \in Nat /\ x.size \in Nat \ {0} /\ x.loff \in Int /\ x.loff + x.size - 1 \in Int
      BY <1>2
    <3>2. /\ IsFiniteSet(x.loff..(x.loff + x.size - 1))
          /\ Cardinality(x.loff..(x.loff + x.size - 1)) =
               IF x.loff > x.loff + x.size - 1 THEN 0 ELSE (x.loff + x.size - 1) - x.loff + 1
      BY <3>1, FS_Interval
    <3> QED
      BY <3>1, <3>2 DEF Bytes
  <2>2. \A x, y \in P : x # y => f[x] \cap f[y] = {}
    <3> SUFFICES ASSUME NEW x \in P, NEW y \in P, x # y, NEW l \in Bytes(x.loff, x.size),
                        l \in Bytes(y.loff, y.size)
                 PROVE  FALSE
      OBVIOUS
    <3>1. x.loff + x.size <= y.loff \/ y.loff + y.size <= x.loff
      BY <1>1 DEF Found
    <3> QED
      BY <1>2, <3>1 DEF Bytes
  <2>3. Parts(P, f, [x \in P |-> x.size])
    BY <1>1, <2>1, <2>2 DEF Parts, Found
  <2>4. Whole(P, f) = L
    BY <1>6 DEF Whole, Logical
  <2> HIDE DEF f
  <2> QED
    BY <2>3, <2>4, SumOfPieces
<1> QED
  BY <1>2, <1>4, <1>6, <1>7, <1>8, <1>9, <1>10 DEF P

-----------------------------------------------------------------------------
(* One datafile: n bytes long, with data at the offsets D.                 *)

\* D is where the bytes in goal are.
Kept(d, s, n, D, goal) ==
  /\ D \subseteq Nat
  /\ \A p \in Nat : p \in D <=> P2L(d, s, p) \in goal
  /\ \A p \in D : p < n

\* The datafile ends at or below z, and for twod_stripe, whose files have no
\* holes, there.
Sized(d, s, n, z) ==
  /\ n \in Nat /\ n <= L2P(d, s, z)
  /\ d.kind = "twod" => n = L2P(d, s, z)

Larger(a, b) == IF a <= b THEN b ELSE a

\* A region that starts in the file or at its end, and has no byte on the
\* datafile beyond n, does not reach further than n.
LEMMA NoHole ==
  ASSUME NEW d, Layout(d), NEW s \in Servers(d), NEW n \in Nat, NEW z \in Nat,
         L2P(d, s, z) <= n, NEW off \in Nat, NEW len \in Nat, off <= z,
         \A l \in Bytes(off, len) : Owns(d, s, l) => L2P(d, s, l) < n
  PROVE  L2P(d, s, Larger(z, off + len)) <= n
<1>1. CASE z <= off + len
  <2> DEFINE e == off + len
  <2>1. e \in Nat /\ L2P(d, s, e) \in Nat /\ L2P(d, s, z) \in Nat /\ P2L(d, s, n) \in Nat
    BY LayoutFacts
  <2> SUFFICES ASSUME n < L2P(d, s, e) PROVE FALSE
    BY <1>1, <2>1 DEF Larger
  <2>2. P2L(d, s, n) < e
    BY <2>1, LayoutFacts
  <2>3. ~ (P2L(d, s, n) < z)
    <3>1. ~ (n < L2P(d, s, z))
      BY <2>1
    <3> QED
      BY <3>1, LayoutFacts
  <2>4. P2L(d, s, n) \in Bytes(off, len)
    BY <2>1, <2>2, <2>3 DEF Bytes
  <2>5. Owns(d, s, P2L(d, s, n)) /\ L2P(d, s, P2L(d, s, n)) = n
    BY LayoutFacts
  <2> QED
    BY <2>4, <2>5
<1>2. CASE ~ (z <= off + len)
  BY <1>2 DEF Larger
<1> QED
  BY <1>1, <1>2

\* A bstream write that extends the bstream of n bytes: where it ends then.
NewEnd(d, s, off, len, n) ==
  Max({n} \cup {x.poff + x.size : x \in Pieces(d, s, off, len, n, TRUE)})

\* A bstream write that extends the bstream: where it ends then.
LEMMA PutSize ==
  ASSUME NEW d, Layout(d), NEW s \in Servers(d), NEW n \in Nat,
         NEW off \in Nat, NEW len \in Nat
  PROVE  LET m == NewEnd(d, s, off, len, n)
         IN  /\ m \in Nat /\ n <= m
             /\ \A l \in Bytes(off, len) : Owns(d, s, l) => L2P(d, s, l) < m
             /\ m = n \/ \E l \in Bytes(off, len) : Owns(d, s, l) /\ m = L2P(d, s, l) + 1
<1> DEFINE P == Pieces(d, s, off, len, n, TRUE)
           L == OnFile(d, s, off, len, n, TRUE)
           E == {x.poff + x.size : x \in P}
           m == Max({n} \cup E)
<1>1. /\ Logical(P) = L
      /\ \A x \in P : \A l \in Bytes(x.loff, x.size) : x.poff + (l - x.loff) = L2P(d, s, l)
      /\ \A x \in P : x.poff \in Nat /\ x.size \in Nat /\ x.loff \in Nat
                      /\ \E l \in L : x.poff + x.size = L2P(d, s, l) + 1
  BY PiecesFacts
<1>2. \A l : l \in L <=> l \in Bytes(off, len) /\ Owns(d, s, l)
  BY DEF OnFile, Wanted
<1> HIDE DEF P, L
<1>3. \A l \in L : l \in Nat /\ l < off + len /\ L2P(d, s, l) \in Nat
                   /\ L2P(d, s, l) < L2P(d, s, off + len)
  <2> SUFFICES ASSUME NEW l \in L
               PROVE  l \in Nat /\ l < off + len /\ L2P(d, s, l) \in Nat
                      /\ L2P(d, s, l) < L2P(d, s, off + len)
    OBVIOUS
  <2>1. l \in Nat /\ l < off + len /\ off + len \in Nat /\ Owns(d, s, l)
    BY <1>2 DEF Bytes
  <2> QED
    BY <2>1, OwnedBelow, LayoutFacts
<1>4. L2P(d, s, off + len) \in Nat
  BY LayoutFacts
<1> DEFINE b == n + L2P(d, s, off + len) + 1
<1>5. {n} \cup E \in SUBSET Nat /\ {n} \cup E # {} /\ b \in Nat /\ \A x \in {n} \cup E : x <= b
  BY <1>1, <1>3, <1>4
<1> HIDE DEF b
<1>6. m \in {n} \cup E /\ \A x \in {n} \cup E : x <= m
  BY <1>5, MaxFacts
<1> HIDE DEF m
<1>7. m \in Nat /\ n <= m
  BY <1>5, <1>6
<1>8. ASSUME NEW l \in L PROVE L2P(d, s, l) < m
  <2>1. PICK x \in P : l \in Bytes(x.loff, x.size)
    BY <1>1 DEF Logical
  <2>2. x.poff + (l - x.loff) = L2P(d, s, l) /\ x.poff \in Nat /\ x.size \in Nat /\ x.loff \in Nat
    BY <1>1, <2>1
  <2>3. L2P(d, s, l) < x.poff + x.size
    BY <2>1, <2>2 DEF Bytes
  <2>4. x.poff + x.size <= m
    BY <1>6
  <2> QED
    BY <1>3, <1>7, <2>2, <2>3, <2>4
<1>9. m = n \/ \E l \in L : m = L2P(d, s, l) + 1
  BY <1>1, <1>6
<1> QED
  BY <1>2, <1>7, <1>8, <1>9 DEF m, P, NewEnd

\* A bstream write: the datafile has the bytes of the region too.
LEMMA PutFacts ==
  ASSUME NEW d, Layout(d), NEW s \in Servers(d), NEW n \in Nat, NEW D, NEW goal,
         NEW off \in Nat, NEW len \in Nat, NEW z \in Nat,
         Kept(d, s, n, D, goal), Sized(d, s, n, z), d.kind = "twod" => off <= z
  PROVE  LET P == Pieces(d, s, off, len, n, TRUE)
             m == NewEnd(d, s, off, len, n)
         IN  /\ m \in Nat /\ n <= m
             /\ Kept(d, s, m, D \cup Physical(P), goal \cup Bytes(off, len))
             /\ Sized(d, s, m, Larger(z, off + len))
<1> DEFINE P == Pieces(d, s, off, len, n, TRUE)
           L == OnFile(d, s, off, len, n, TRUE)
           m == NewEnd(d, s, off, len, n)
           e == Larger(z, off + len)
<1>1. /\ m \in Nat /\ n <= m
      /\ \A l \in Bytes(off, len) : Owns(d, s, l) => L2P(d, s, l) < m
      /\ m = n \/ \E l \in Bytes(off, len) : Owns(d, s, l) /\ m = L2P(d, s, l) + 1
  BY PutSize
<1>2. Physical(P) = {L2P(d, s, l) : l \in L}
  <2>1. Physical(P) = Places(d, s, L)
    BY PiecesFacts
  <2> QED
    BY <2>1 DEF Places
<1>3. \A l : l \in L <=> l \in Bytes(off, len) /\ Owns(d, s, l)
  BY DEF OnFile, Wanted
<1>4. \A l \in Bytes(off, len) : l \in Nat /\ l < off + len
  BY DEF Bytes
<1> HIDE DEF P, L, m
<1>5. e \in Nat /\ z <= e /\ off + len <= e
  BY DEF Larger
<1>6. \A l \in L : L2P(d, s, l) \in Nat /\ P2L(d, s, L2P(d, s, l)) = l /\ L2P(d, s, l) < m
  BY <1>1, <1>3, <1>4, LayoutFacts DEF Owns
<1>7. Kept(d, s, m, D \cup Physical(P), goal \cup Bytes(off, len))
  <2>1. D \cup Physical(P) \subseteq Nat
    BY <1>2, <1>6 DEF Kept
  <2>2. \A p \in D \cup Physical(P) : p < m
    <3>1. \A p \in D : p \in Nat /\ p < n
      BY DEF Kept
    <3> QED
      BY <1>1, <1>2, <1>6, <3>1
  <2>3. ASSUME NEW p \in Nat
        PROVE  p \in Physical(P) <=> P2L(d, s, p) \in Bytes(off, len)
    <3>1. Owns(d, s, P2L(d, s, p)) /\ L2P(d, s, P2L(d, s, p)) = p
      BY LayoutFacts
    <3> QED
      BY <1>2, <1>3, <1>6, <3>1
  <2> QED
    BY <2>1, <2>2, <2>3 DEF Kept
<1>8. m <= L2P(d, s, e)
  <2>1. L2P(d, s, z) <= L2P(d, s, e) /\ L2P(d, s, z) \in Nat /\ L2P(d, s, e) \in Nat
    BY <1>5, LayoutFacts
  <2>2. n <= L2P(d, s, z)
    BY DEF Sized
  <2>3. CASE m = n
    BY <2>1, <2>2, <2>3
  <2>4. ASSUME NEW l \in Bytes(off, len), Owns(d, s, l), m = L2P(d, s, l) + 1
        PROVE  m <= L2P(d, s, e)
    <3>1. l \in Nat /\ l < e
      BY <1>4, <1>5
    <3>2. L2P(d, s, l) < L2P(d, s, e) /\ L2P(d, s, l) \in Nat
      BY <1>5, <2>4, <3>1, OwnedBelow, LayoutFacts
    <3> QED
      BY <2>1, <2>4, <3>2
  <2> QED
    BY <1>1, <2>3, <2>4
<1>9. d.kind = "twod" => m = L2P(d, s, e)
  <2> SUFFICES ASSUME d.kind = "twod" PROVE m = L2P(d, s, e)
    OBVIOUS
  <2>1. n = L2P(d, s, z) /\ off <= z
    BY DEF Sized
  <2>2. L2P(d, s, e) \in Nat /\ L2P(d, s, z) <= m
    BY <1>1, <1>5, <2>1, LayoutFacts
  <2>3. L2P(d, s, e) <= m
    BY <1>1, <2>1, <2>2, NoHole
  <2> QED
    BY <1>1, <1>8, <2>2, <2>3
<1> QED
  BY <1>1, <1>7, <1>8, <1>9 DEF Sized, m, P

\* A datafile that has no byte of the region: it is as if written.
LEMMA SkipFacts ==
  ASSUME NEW d, Layout(d), NEW s \in Servers(d), NEW n \in Nat, NEW D, NEW goal,
         NEW off \in Nat, NEW len \in Nat, NEW z \in Nat,
         Kept(d, s, n, D, goal), Sized(d, s, n, z), d.kind = "twod" => off <= z,
         \A l \in Bytes(off, len) : ~ Owns(d, s, l)
  PROVE  /\ Kept(d, s, n, D, goal \cup Bytes(off, len))
         /\ Sized(d, s, n, Larger(z, off + len))
<1> DEFINE e == Larger(z, off + len)
<1>1. \A p \in Nat : P2L(d, s, p) \notin Bytes(off, len)
  BY LayoutFacts
<1>2. Kept(d, s, n, D, goal \cup Bytes(off, len))
  BY <1>1 DEF Kept
<1>3. e \in Nat /\ z <= e
  BY DEF Larger
<1>4. L2P(d, s, z) <= L2P(d, s, e) /\ L2P(d, s, z) \in Nat /\ L2P(d, s, e) \in Nat
  BY <1>3, LayoutFacts
<1>5. n <= L2P(d, s, e)
  BY <1>4 DEF Sized
<1>6. d.kind = "twod" => n = L2P(d, s, e)
  <2> SUFFICES ASSUME d.kind = "twod" PROVE L2P(d, s, e) <= n
    BY <1>4, <1>5
  <2>1. n = L2P(d, s, z) /\ off <= z
    BY DEF Sized
  <2>2. L2P(d, s, z) <= n
    BY <1>4, <2>1
  <2> HIDE DEF e
  <2> QED
    BY <2>1, <2>2, NoHole DEF e
<1> QED
  BY <1>2, <1>5, <1>6 DEF Sized

\* bstream_resize to the physical offset of the new size.
LEMMA CutFacts ==
  ASSUME NEW d, Layout(d), NEW s \in Servers(d), NEW n \in Nat, NEW D, NEW goal,
         NEW z \in Nat, Kept(d, s, n, D, goal)
  PROVE  LET m == L2P(d, s, z)
         IN  /\ m \in Nat
             /\ Kept(d, s, m, D \cap 0..(m - 1), goal \cap 0..(z - 1))
             /\ Sized(d, s, m, z)
<1> DEFINE m == L2P(d, s, z)
<1>1. m \in Nat
  BY LayoutFacts
<1>2. \A p \in Nat : P2L(d, s, p) \in Nat /\ (P2L(d, s, p) < z <=> p < m)
  BY LayoutFacts
<1> HIDE DEF m
<1>3. \A p \in Nat : P2L(d, s, p) \in 0..(z - 1) <=> p \in 0..(m - 1)
  BY <1>1, <1>2
<1>4. Kept(d, s, m, D \cap 0..(m - 1), goal \cap 0..(z - 1))
  BY <1>1, <1>3 DEF Kept
<1> QED
  BY <1>1, <1>4 DEF Sized, m

-----------------------------------------------------------------------------
(* The file between the steps of a write or a truncation.                  *)

FilesLaid == \A d \in Files : Laid(d)

Writing == op.kind = "write"
Truncating == op.kind = "truncate"

\* The datafile is yet to be changed.
Before(s) == ~ (Writing \/ Truncating) \/ s \in op.todo

\* The bytes of the file that a datafile should have, and where it may end.
Goal(s) ==
  IF Before(s) THEN written
  ELSE IF Writing THEN written \cup Bytes(op.off, op.len)
  ELSE written \cap 0..(op.to - 1)
Reach(s) ==
  IF Before(s) THEN size
  ELSE IF Writing THEN Larger(size, op.off + op.len) ELSE op.to

OpOK ==
  \/ op = None
  \/ /\ op = [kind |-> "write", off |-> op.off, len |-> op.len, todo |-> op.todo]
     /\ op.off \in Nat /\ op.len \in Nat \ {0} /\ op.off + op.len <= MaxSize
     /\ dist.kind = "twod" => op.off <= size
     /\ op.todo \subseteq Servers(dist)
  \/ /\ op = [kind |-> "truncate", to |-> op.to, todo |-> op.todo]
     /\ op.to \in 0..MaxSize
     /\ op.todo \subseteq Servers(dist)

Shape ==
  /\ dist \in Files
  /\ psize \in [Servers(dist) -> Nat]
  /\ data \in [Servers(dist) -> SUBSET Nat]
  /\ size \in 0..MaxSize /\ written \subseteq 0..(size - 1)

Local(s) ==
  /\ Kept(dist, s, psize[s], data[s], Goal(s))
  /\ Sized(dist, s, psize[s], Reach(s))
  /\ Truncating /\ s \notin op.todo => psize[s] = L2P(dist, s, op.to)

FileInv ==
  /\ Shape /\ OpOK
  /\ \A s \in Servers(dist) : Local(s)
  /\ ~ Truncating => Floor(dist, psize, size)

fileVars == <<dist, psize, data, size, written, op>>

\* What the file's distribution is.
LEMMA DistFacts ==
  ASSUME FilesLaid, Shape
  PROVE  /\ Laid(dist) /\ Layout(dist) /\ dist.ct \in Nat \ {0}
         /\ IsFiniteSet(Servers(dist)) /\ Servers(dist) \subseteq Nat
         /\ size \in Nat /\ MaxSize \in Nat
<1>1. Laid(dist)
  BY DEF FilesLaid, Shape
<1> QED
  BY <1>1, LaidLayout, FileBounds DEF Shape

\* io_find_target_datafiles finds the datafiles that have bytes of the region.
LEMMA TargetFacts ==
  ASSUME FilesLaid, Shape, NEW off \in Nat, NEW len \in Nat
  PROVE  /\ Targets(off, len) \subseteq Servers(dist)
         /\ \A s \in Servers(dist) :
              s \in Targets(off, len) <=> \E l \in Bytes(off, len) : Owns(dist, s, l)
<1>1. Layout(dist)
  BY DistFacts
<1>2. ASSUME NEW s \in Servers(dist)
      PROVE  Part(s, off, len) = {} <=> OnFile(dist, s, off, len, 0, TRUE) = {}
  <2>1. 0 \in Nat /\ TRUE \in BOOLEAN
    OBVIOUS
  <2> QED
    BY <1>1, <2>1, PiecesFacts DEF Part
<1>3. \A s, l : l \in OnFile(dist, s, off, len, 0, TRUE) <=> l \in Bytes(off, len) /\ Owns(dist, s, l)
  BY DEF OnFile, Wanted
<1> QED
  BY <1>2, <1>3 DEF Targets

\* A new file is empty.
LEMMA InitFile ==
  ASSUME FilesLaid, Init
  PROVE  FileInv
<1>1. Shape /\ op = None
  BY FileBounds DEF Init, Shape
<1>2. Layout(dist) /\ Laid(dist)
  BY <1>1, DistFacts
<1>3. ~ Writing /\ ~ Truncating
  BY <1>1 DEF Writing, Truncating, None
<1>4. ASSUME NEW s \in Servers(dist) PROVE Local(s)
  <2>1. Goal(s) = {} /\ Reach(s) = 0 /\ psize[s] = 0 /\ data[s] = {}
    BY <1>3 DEF Init, Goal, Reach, Before
  <2>2. L2P(dist, s, 0) = 0
    BY <1>2, LayoutFacts
  <2> QED
    BY <1>3, <2>1, <2>2 DEF Local, Kept, Sized
<1>5. Floor(dist, psize, size)
  <2>1. size = 0 /\ psize \in [Servers(dist) -> Nat]
    BY <1>1 DEF Init, Shape
  <2> QED
    BY <1>2, <2>1, FloorFacts
<1> QED
  BY <1>1, <1>4, <1>5 DEF FileInv, OpOK

\* A step that leaves the file alone.
LEMMA FileUnchanged ==
  ASSUME FileInv, UNCHANGED fileVars
  PROVE  FileInv'
BY DEF FileInv, fileVars, Shape, OpOK, Local, Goal, Reach, Before, Writing, Truncating

\* The start of a write leaves the datafiles that are no targets as written.
LEMMA WriteStartFile ==
  ASSUME FilesLaid, FileInv, NEW off \in Offsets, NEW len \in Lengths, WriteStart(off, len)
  PROVE  FileInv'
<1>1. /\ op = None /\ off + len <= MaxSize /\ (Sums => off <= size)
      /\ op' = [kind |-> "write", off |-> off, len |-> len, todo |-> Targets(off, len)]
      /\ UNCHANGED <<dist, psize, data, size, written>>
  BY DEF WriteStart
<1>2. Shape /\ Laid(dist) /\ Layout(dist) /\ size \in Nat
  BY DistFacts DEF FileInv
<1>3. off \in Nat /\ len \in Nat \ {0}
  BY FileBounds DEF Offsets
<1>4. dist.kind = "twod" => off <= size
  BY <1>1 DEF Sums
<1>5. /\ Targets(off, len) \subseteq Servers(dist)
      /\ \A s \in Servers(dist) : s \notin Targets(off, len) => \A l \in Bytes(off, len) : ~ Owns(dist, s, l)
  BY <1>2, <1>3, TargetFacts
<1>6. Shape' /\ OpOK'
  BY <1>1, <1>2, <1>3, <1>4, <1>5 DEF Shape, OpOK
<1>7. /\ ~ Writing /\ ~ Truncating /\ Writing' /\ ~ Truncating'
      /\ op'.todo = Targets(off, len) /\ op'.off = off /\ op'.len = len
  BY <1>1 DEF Writing, Truncating, None
<1>8. ASSUME NEW s \in Servers(dist) PROVE Local(s)'
  <2>1. /\ Kept(dist, s, psize[s], data[s], written) /\ Sized(dist, s, psize[s], size)
        /\ psize[s] \in Nat
    BY <1>2, <1>7 DEF FileInv, Local, Goal, Reach, Before, Shape
  <2>2. CASE s \in Targets(off, len)
    <3>1. Goal(s)' = written /\ Reach(s)' = size
      BY <1>1, <1>7, <2>2 DEF Goal, Reach, Before
    <3> QED
      BY <1>1, <1>7, <2>1, <3>1 DEF Local
  <2>3. CASE s \notin Targets(off, len)
    <3>1. Goal(s)' = written \cup Bytes(off, len) /\ Reach(s)' = Larger(size, off + len)
      BY <1>1, <1>7, <2>3 DEF Goal, Reach, Before
    <3>2. /\ Kept(dist, s, psize[s], data[s], written \cup Bytes(off, len))
          /\ Sized(dist, s, psize[s], Larger(size, off + len))
      <4>1. len \in Nat /\ \A l \in Bytes(off, len) : ~ Owns(dist, s, l)
        BY <1>3, <1>5, <2>3
      <4> QED
        BY <1>2, <1>3, <1>4, <2>1, <4>1, SkipFacts
    <3> QED
      BY <1>1, <1>7, <3>1, <3>2 DEF Local
  <2> QED
    BY <2>2, <2>3
<1>9. Floor(dist, psize, size)
  BY <1>7 DEF FileInv
<1> QED
  BY <1>1, <1>6, <1>8, <1>9 DEF FileInv

\* One server's part of a write.
LEMMA WriteServerFile ==
  ASSUME FilesLaid, FileInv, NEW s \in Servers(dist), WriteServer(s)
  PROVE  FileInv' /\ \A t \in Servers(dist) : psize'[t] \in Nat /\ psize[t] <= psize'[t]
<1> DEFINE P == Pieces(dist, s, op.off, op.len, psize[s], TRUE)
           m == NewEnd(dist, s, op.off, op.len, psize[s])
<1>1. /\ op.kind = "write" /\ s \in op.todo
      /\ data' = [data EXCEPT ![s] = @ \cup Physical(P)]
      /\ psize' = [psize EXCEPT ![s] = m]
      /\ op' = [op EXCEPT !.todo = @ \ {s}]
      /\ UNCHANGED <<dist, size, written>>
  BY DEF WriteServer, NewEnd
<1>2. Shape /\ Laid(dist) /\ Layout(dist) /\ size \in Nat
  BY DistFacts DEF FileInv
<1>3. /\ op = [kind |-> "write", off |-> op.off, len |-> op.len, todo |-> op.todo]
      /\ op.off \in Nat /\ op.len \in Nat \ {0} /\ op.off + op.len <= MaxSize
      /\ dist.kind = "twod" => op.off <= size
      /\ op.todo \subseteq Servers(dist)
  BY <1>1 DEF FileInv, OpOK, None
<1>4. op' = [kind |-> "write", off |-> op.off, len |-> op.len, todo |-> op.todo \ {s}]
  BY <1>1, <1>3
<1>5. /\ Writing /\ ~ Truncating /\ Writing' /\ ~ Truncating'
      /\ op'.todo = op.todo \ {s} /\ op'.off = op.off /\ op'.len = op.len
  BY <1>1, <1>4 DEF Writing, Truncating
<1>6. psize[s] \in Nat /\ Kept(dist, s, psize[s], data[s], written) /\ Sized(dist, s, psize[s], size)
  BY <1>1, <1>2, <1>5 DEF FileInv, Local, Goal, Reach, Before, Shape
<1>7. /\ m \in Nat /\ psize[s] <= m
      /\ Kept(dist, s, m, data[s] \cup Physical(P), written \cup Bytes(op.off, op.len))
      /\ Sized(dist, s, m, Larger(size, op.off + op.len))
  <2>1. op.len \in Nat
    BY <1>3
  <2> QED
    BY <1>2, <1>3, <1>6, <2>1, PutFacts
<1> HIDE DEF P, m
<1>8. data[s] \cup Physical(P) \subseteq Nat
  BY <1>7 DEF Kept
<1>9. Shape'
  <2>1. psize' \in [Servers(dist) -> Nat] /\ data' \in [Servers(dist) -> SUBSET Nat]
    BY <1>1, <1>2, <1>7, <1>8 DEF Shape
  <2> QED
    BY <1>1, <1>2, <2>1 DEF Shape
<1>10. OpOK'
  BY <1>1, <1>3, <1>4 DEF OpOK
<1>11. \A t \in Servers(dist) : psize'[t] \in Nat /\ psize[t] <= psize'[t]
  BY <1>1, <1>2, <1>7 DEF Shape
<1>12. ASSUME NEW t \in Servers(dist) PROVE Local(t)'
  <2>1. CASE t = s
    <3>1. /\ psize'[t] = m /\ data'[t] = data[s] \cup Physical(P)
          /\ Goal(t)' = written \cup Bytes(op.off, op.len)
          /\ Reach(t)' = Larger(size, op.off + op.len)
      BY <1>1, <1>2, <1>5, <2>1 DEF Shape, Goal, Reach, Before
    <3> QED
      BY <1>1, <1>5, <1>7, <2>1, <3>1 DEF Local
  <2>2. CASE t # s
    <3>1. psize'[t] = psize[t] /\ data'[t] = data[t] /\ Goal(t)' = Goal(t) /\ Reach(t)' = Reach(t)
      BY <1>1, <1>2, <1>5, <2>2 DEF Shape, Goal, Reach, Before
    <3>2. Local(t)
      BY DEF FileInv
    <3> QED
      BY <1>1, <1>5, <3>1, <3>2 DEF Local
  <2> QED
    BY <2>1, <2>2
<1>13. Floor(dist, psize', size)
  <2>1. Floor(dist, psize, size) /\ psize \in [Servers(dist) -> Nat]
    BY <1>2, <1>5 DEF FileInv, Shape
  <2>2. psize' \in [Servers(dist) -> Nat] /\ size <= size
    BY <1>1, <1>2, <1>9 DEF Shape
  <2> QED
    BY <1>2, <1>11, <2>1, <2>2, FloorFacts
<1> QED
  BY <1>1, <1>9, <1>10, <1>11, <1>12, <1>13 DEF FileInv

\* A datafile reaches up to a byte that it has.
LEMMA FloorOfByte ==
  ASSUME NEW d, Laid(d), d.kind # "twod", NEW ps \in [Servers(d) -> Nat], NEW z \in Nat \ {0},
         NEW s \in Servers(d), L2P(d, s, z - 1) < ps[s]
  PROVE  Floor(d, ps, z)
BY DEF Floor

\* The end of a write.
LEMMA WriteDoneFile ==
  ASSUME FilesLaid, FileInv, WriteDone
  PROVE  FileInv' /\ size <= size'
<1> DEFINE e == Larger(size, op.off + op.len)
<1>1. /\ op.kind = "write" /\ op.todo = {} /\ op' = None
      /\ size' = Max({size, op.off + op.len}) /\ written' = written \cup Bytes(op.off, op.len)
      /\ UNCHANGED <<dist, psize, data>>
  BY DEF WriteDone
<1>2. Shape /\ Laid(dist) /\ Layout(dist) /\ size \in Nat /\ MaxSize \in Nat
  BY DistFacts DEF FileInv
<1>3. /\ op.off \in Nat /\ op.len \in Nat \ {0} /\ op.off + op.len <= MaxSize
  BY <1>1 DEF FileInv, OpOK, None
<1>4. size' = e
  BY <1>1, <1>2, <1>3, TwoFacts DEF Larger
<1>5. e \in Nat /\ size <= e /\ op.off + op.len <= e /\ e <= MaxSize
  BY <1>2, <1>3 DEF Larger, Shape
<1>6. Writing /\ ~ Truncating /\ ~ Writing' /\ ~ Truncating'
  BY <1>1 DEF Writing, Truncating, None
<1>7. Shape'
  <2> HIDE DEF e
  <2>1. \A l \in written : l \in Nat /\ l < size
    BY <1>2 DEF Shape
  <2>2. \A l \in Bytes(op.off, op.len) : l \in Nat /\ l < op.off + op.len
    BY <1>3 DEF Bytes
  <2>3. \A l \in written' : l \in 0..(e - 1)
    BY <1>1, <1>2, <1>3, <1>5, <2>1, <2>2
  <2>4. size' \in 0..MaxSize /\ written' \subseteq 0..(size' - 1)
    BY <1>2, <1>4, <1>5, <2>3
  <2> QED
    BY <1>1, <1>2, <2>4 DEF Shape
<1>8. ASSUME NEW s \in Servers(dist)
      PROVE  /\ Kept(dist, s, psize[s], data[s], written')
             /\ Sized(dist, s, psize[s], e)
  BY <1>1, <1>6 DEF FileInv, Local, Goal, Reach, Before
<1>9. ASSUME NEW s \in Servers(dist) PROVE Local(s)'
  BY <1>1, <1>4, <1>6, <1>8 DEF Local, Goal, Reach, Before
<1>10. Floor(dist, psize, e)
  <2>1. Floor(dist, psize, size) /\ psize \in [Servers(dist) -> Nat]
    BY <1>2, <1>6 DEF FileInv, Shape
  <2>2. CASE dist.kind = "twod"
    <3>1. \A s \in Servers(dist) : psize[s] = L2P(dist, s, e) /\ psize[s] \in Nat
      BY <1>8, <2>2 DEF Sized
    <3> QED
      BY <2>2, <3>1 DEF Floor
  <2>3. CASE dist.kind # "twod" /\ e = size
    BY <2>1, <2>3
  <2>4. CASE dist.kind # "twod" /\ e # size
    <3>1. e = op.off + op.len /\ e - 1 \in Bytes(op.off, op.len) /\ e - 1 \in Nat /\ e # 0
      BY <1>2, <1>3, <2>4 DEF Larger, Bytes
    <3>2. PICK s \in Servers(dist) : Owns(dist, s, e - 1)
      BY <1>2, <3>1, OwnerFacts
    <3>3. L2P(dist, s, e - 1) \in Nat /\ P2L(dist, s, L2P(dist, s, e - 1)) = e - 1
      BY <1>2, <3>1, <3>2, LayoutFacts DEF Owns
    <3>4. L2P(dist, s, e - 1) \in data[s]
      BY <1>1, <1>8, <3>1, <3>3 DEF Kept
    <3>5. L2P(dist, s, e - 1) < psize[s]
      BY <1>8, <3>4 DEF Kept
    <3> HIDE DEF e
    <3> QED
      BY <1>2, <1>5, <2>1, <2>4, <3>1, <3>5, FloorOfByte
  <2> QED
    BY <2>2, <2>3, <2>4
<1> QED
  BY <1>1, <1>2, <1>4, <1>5, <1>7, <1>9, <1>10 DEF FileInv, OpOK

\* The start of a truncation.
LEMMA TruncateStartFile ==
  ASSUME FilesLaid, FileInv, NEW z \in 0..MaxSize, TruncateStart(z)
  PROVE  FileInv'
<1>1. /\ op = None
      /\ op' = [kind |-> "truncate", to |-> z, todo |-> Servers(dist)]
      /\ UNCHANGED <<dist, psize, data, size, written>>
  BY DEF TruncateStart
<1>2. /\ ~ Writing /\ ~ Truncating /\ ~ Writing' /\ Truncating'
      /\ op'.todo = Servers(dist) /\ op'.to = z
  BY <1>1 DEF Writing, Truncating, None
<1>3. Shape' /\ OpOK'
  BY <1>1 DEF FileInv, Shape, OpOK
<1>4. ASSUME NEW s \in Servers(dist) PROVE Local(s)'
  <2>1. Goal(s)' = written /\ Reach(s)' = size /\ Goal(s) = written /\ Reach(s) = size
    BY <1>1, <1>2 DEF Goal, Reach, Before
  <2>2. Local(s)
    BY DEF FileInv
  <2> QED
    BY <1>1, <1>2, <2>1, <2>2 DEF Local
<1> QED
  BY <1>1, <1>2, <1>3, <1>4 DEF FileInv

\* One server's part of a truncation.
LEMMA TruncateServerFile ==
  ASSUME FilesLaid, FileInv, NEW s \in Servers(dist), TruncateServer(s)
  PROVE  FileInv'
<1> DEFINE m == L2P(dist, s, op.to)
<1>1. /\ op.kind = "truncate" /\ s \in op.todo
      /\ data' = [data EXCEPT ![s] = @ \cap 0..(m - 1)]
      /\ psize' = [psize EXCEPT ![s] = m]
      /\ op' = [op EXCEPT !.todo = @ \ {s}]
      /\ UNCHANGED <<dist, size, written>>
  BY DEF TruncateServer, NewSize
<1>2. Shape /\ Laid(dist) /\ Layout(dist) /\ size \in Nat /\ MaxSize \in Nat
  BY DistFacts DEF FileInv
<1>3. /\ op = [kind |-> "truncate", to |-> op.to, todo |-> op.todo]
      /\ op.to \in 0..MaxSize /\ op.to \in Nat
      /\ op.todo \subseteq Servers(dist)
  BY <1>1, <1>2 DEF FileInv, OpOK, None
<1>4. op' = [kind |-> "truncate", to |-> op.to, todo |-> op.todo \ {s}]
  BY <1>1, <1>3
<1>5. /\ ~ Writing /\ Truncating /\ ~ Writing' /\ Truncating'
      /\ op'.todo = op.todo \ {s} /\ op'.to = op.to
  BY <1>1, <1>4 DEF Writing, Truncating
<1>6. psize[s] \in Nat /\ Kept(dist, s, psize[s], data[s], written)
  BY <1>1, <1>2, <1>5 DEF FileInv, Local, Goal, Reach, Before, Shape
<1>7. /\ m \in Nat
      /\ Kept(dist, s, m, data[s] \cap 0..(m - 1), written \cap 0..(op.to - 1))
      /\ Sized(dist, s, m, op.to)
  BY <1>2, <1>3, <1>6, CutFacts
<1> HIDE DEF m
<1>8. Shape'
  <2>1. psize' \in [Servers(dist) -> Nat] /\ data' \in [Servers(dist) -> SUBSET Nat]
    BY <1>1, <1>2, <1>7 DEF Shape
  <2> QED
    BY <1>1, <1>2, <2>1 DEF Shape
<1>9. OpOK'
  BY <1>1, <1>3, <1>4 DEF OpOK
<1>10. ASSUME NEW t \in Servers(dist) PROVE Local(t)'
  <2>1. CASE t = s
    <3>1. /\ psize'[t] = m /\ data'[t] = data[s] \cap 0..(m - 1)
          /\ Goal(t)' = written \cap 0..(op.to - 1) /\ Reach(t)' = op.to
      BY <1>1, <1>2, <1>5, <2>1 DEF Shape, Goal, Reach, Before
    <3> QED
      BY <1>1, <1>5, <1>7, <2>1, <3>1 DEF Local, m
  <2>2. CASE t # s
    <3>1. psize'[t] = psize[t] /\ data'[t] = data[t] /\ Goal(t)' = Goal(t) /\ Reach(t)' = Reach(t)
      BY <1>1, <1>2, <1>5, <2>2 DEF Shape, Goal, Reach, Before
    <3>2. Local(t)
      BY DEF FileInv
    <3> QED
      BY <1>1, <1>5, <2>2, <3>1, <3>2 DEF Local
  <2> QED
    BY <2>1, <2>2
<1> QED
  BY <1>1, <1>5, <1>8, <1>9, <1>10 DEF FileInv

\* The end of a truncation.
LEMMA TruncateDoneFile ==
  ASSUME FilesLaid, FileInv, TruncateDone
  PROVE  FileInv'
<1>1. /\ op.kind = "truncate" /\ op.todo = {} /\ op' = None
      /\ size' = op.to /\ written' = written \cap 0..(op.to - 1)
      /\ UNCHANGED <<dist, psize, data>>
  BY DEF TruncateDone
<1>2. Shape /\ Laid(dist) /\ Layout(dist) /\ size \in Nat /\ MaxSize \in Nat
  BY DistFacts DEF FileInv
<1>3. op.to \in 0..MaxSize /\ op.to \in Nat
  BY <1>1, <1>2 DEF FileInv, OpOK, None
<1>4. ~ Writing /\ Truncating /\ ~ Writing' /\ ~ Truncating'
  BY <1>1 DEF Writing, Truncating, None
<1>5. Shape'
  BY <1>1, <1>2, <1>3 DEF Shape
<1>6. ASSUME NEW s \in Servers(dist)
      PROVE  /\ Kept(dist, s, psize[s], data[s], written')
             /\ Sized(dist, s, psize[s], op.to) /\ psize[s] = L2P(dist, s, op.to)
  BY <1>1, <1>4 DEF FileInv, Local, Goal, Reach, Before
<1>7. ASSUME NEW s \in Servers(dist) PROVE Local(s)'
  BY <1>1, <1>4, <1>6 DEF Local, Goal, Reach, Before
<1>8. Floor(dist, psize, op.to)
  <2>1. psize \in [Servers(dist) -> Nat]
    BY <1>2 DEF Shape
  <2>2. CASE dist.kind = "twod"
    <3>1. \A s \in Servers(dist) : psize[s] = L2P(dist, s, op.to) /\ psize[s] \in Nat
      BY <1>6, <2>1
    <3> QED
      BY <2>2, <3>1 DEF Floor
  <2>3. CASE op.to = 0
    BY <1>2, <2>1, <2>3, FloorFacts
  <2>4. CASE dist.kind # "twod" /\ op.to # 0
    <3>1. op.to - 1 \in Nat /\ op.to - 1 < op.to
      BY <1>3, <2>4
    <3>2. PICK s \in Servers(dist) : Owns(dist, s, op.to - 1)
      BY <1>2, <3>1, OwnerFacts
    <3>3. L2P(dist, s, op.to - 1) < L2P(dist, s, op.to)
      BY <1>2, <1>3, <3>1, <3>2, OwnedBelow
    <3>4. L2P(dist, s, op.to - 1) < psize[s]
      BY <1>6, <3>3
    <3> QED
      BY <1>2, <1>3, <2>1, <2>4, <3>4, FloorOfByte
  <2> QED
    BY <2>2, <2>3, <2>4
<1> QED
  BY <1>1, <1>4, <1>5, <1>7, <1>8 DEF FileInv, OpOK

\* Every step preserves what the file is.
LEMMA NextFile ==
  ASSUME FilesLaid, FileInv, [Next]_vars
  PROVE  FileInv'
<1>1. ASSUME NEW off \in Offsets, NEW len \in Lengths, WriteStart(off, len) PROVE FileInv'
  BY <1>1, WriteStartFile
<1>2. ASSUME NEW s \in Servers(dist), WriteServer(s) PROVE FileInv'
  BY <1>2, WriteServerFile
<1>3. CASE WriteDone
  BY <1>3, WriteDoneFile
<1>4. ASSUME NEW z \in 0..MaxSize, TruncateStart(z) PROVE FileInv'
  BY <1>4, TruncateStartFile
<1>5. ASSUME NEW s \in Servers(dist), TruncateServer(s) PROVE FileInv'
  BY <1>5, TruncateServerFile
<1>6. CASE TruncateDone
  BY <1>6, TruncateDoneFile
<1>7. CASE \/ \E off \in Offsets, len \in Lengths : ReadStart(off, len)
           \/ \E s \in Servers(dist) : ReadServer(s)
           \/ Analyze
           \/ \E s \in Servers(dist) : GetSize(s)
           \/ AnalyzeSize
           \/ ReadReturn
           \/ UNCHANGED vars
  <2>1. UNCHANGED fileVars
    BY <1>7 DEF ReadStart, ReadServer, Analyze, GetSize, AnalyzeSize, ReadReturn, vars, fileVars
  <2> QED
    BY <2>1, FileUnchanged
<1> QED
  BY <1>1, <1>2, <1>3, <1>4, <1>5, <1>6, <1>7 DEF Next

-----------------------------------------------------------------------------
(* The size of the file and the place of its bytes.                        *)

\* The datafiles end at or below the largest size the file may show.
LEMMA HighFacts ==
  ASSUME FilesLaid, FileInv
  PROVE  /\ LowSize \in Nat /\ HighSize \in Nat /\ size <= HighSize
         /\ \A s \in Servers(dist) : Reach(s) \in Nat /\ Reach(s) <= HighSize
         /\ \A s \in Servers(dist) : psize[s] <= L2P(dist, s, HighSize)
         /\ Top(dist, psize, HighSize)
         /\ LowSize = IF Truncating THEN 0 ELSE size
         /\ ~ Writing /\ ~ Truncating => HighSize = size
         /\ Writing => HighSize = Larger(size, op.off + op.len)
         /\ Truncating => HighSize = Larger(size, op.to)
<1>1. Shape /\ Laid(dist) /\ Layout(dist) /\ size \in Nat /\ MaxSize \in Nat /\ OpOK
  BY DistFacts DEF FileInv
<1>2. /\ op = None => ~ Writing /\ ~ Truncating
      /\ Writing => op # None /\ ~ Truncating /\ op.off + op.len \in Nat
      /\ Truncating => op # None /\ ~ Writing /\ op.to \in Nat
      /\ op = None \/ Writing \/ Truncating
  BY <1>1 DEF OpOK, None, Writing, Truncating
<1>3. LowSize = IF Truncating THEN 0 ELSE size
  BY <1>2 DEF LowSize, Truncating
<1>4. /\ ~ Writing /\ ~ Truncating => HighSize = size
      /\ Writing => HighSize = Larger(size, op.off + op.len)
      /\ Truncating => HighSize = Larger(size, op.to)
  <2>1. CASE Writing
    BY <1>1, <1>2, <2>1, TwoFacts DEF HighSize, Larger, Writing
  <2>2. CASE Truncating
    BY <1>1, <1>2, <2>2, TwoFacts DEF HighSize, Larger, Writing, Truncating
  <2>3. CASE op = None
    BY <1>2, <2>3 DEF HighSize
  <2> QED
    BY <1>2, <2>1, <2>2, <2>3
<1>5. HighSize \in Nat /\ size <= HighSize
  BY <1>1, <1>2, <1>4 DEF Larger
<1>6. \A s \in Servers(dist) : Reach(s) \in Nat /\ Reach(s) <= HighSize
  BY <1>1, <1>2, <1>4, <1>5 DEF Reach, Before, Larger
<1> HIDE DEF HighSize
<1>7. ASSUME NEW s \in Servers(dist) PROVE psize[s] <= L2P(dist, s, HighSize)
  <2>1. psize[s] \in Nat /\ psize[s] <= L2P(dist, s, Reach(s))
    BY DEF FileInv, Local, Sized
  <2>2. /\ L2P(dist, s, Reach(s)) <= L2P(dist, s, HighSize)
        /\ L2P(dist, s, Reach(s)) \in Nat /\ L2P(dist, s, HighSize) \in Nat
    BY <1>1, <1>5, <1>6, LayoutFacts
  <2> QED
    BY <2>1, <2>2
<1> QED
  BY <1>1, <1>3, <1>4, <1>5, <1>6, <1>7 DEF Top

\* The size of the file is between the sizes before and after a change.
LEMMA FileHasSize ==
  ASSUME FilesLaid, FileInv
  PROVE  SizeBetween
<1>1. /\ LowSize \in Nat /\ HighSize \in Nat /\ Top(dist, psize, HighSize)
      /\ LowSize = IF Truncating THEN 0 ELSE size
  BY HighFacts
<1>2. Laid(dist) /\ psize \in [Servers(dist) -> Nat] /\ size \in Nat
  BY DistFacts DEF FileInv, Shape
<1>3. Floor(dist, psize, LowSize)
  <2>1. CASE Truncating
    BY <1>1, <1>2, <2>1, FloorFacts
  <2>2. CASE ~ Truncating
    BY <1>1, <2>2 DEF FileInv
  <2> QED
    BY <2>1, <2>2
<1> HIDE DEF LowSize, HighSize
<1>4. /\ FileSize(dist, psize) \in Nat /\ FileSize(dist, psize) <= HighSize
      /\ LowSize <= FileSize(dist, psize)
  BY <1>1, <1>2, <1>3, SizeFacts
<1> QED
  BY <1>1, <1>4 DEF SizeBetween

\* The written bytes are on the datafiles, each in one place.
LEMMA FileHasData ==
  ASSUME FilesLaid, FileInv
  PROVE  DataInPlace
<1> SUFFICES ASSUME op = None
             PROVE  /\ UNION {{P2L(dist, s, p) : p \in data[s]} : s \in Servers(dist)} = written
                    /\ MapThenSumSet(LAMBDA s : Cardinality(data[s]), Servers(dist))
                          = Cardinality(written)
                    /\ \A s \in Servers(dist) : \A p \in data[s] : p < psize[s]
  BY Zenon DEF DataInPlace
<1>1. Shape /\ Layout(dist) /\ IsFiniteSet(Servers(dist)) /\ size \in Nat
  BY DistFacts DEF FileInv
<1>2. ASSUME NEW s \in Servers(dist)
      PROVE  /\ data[s] \subseteq Nat /\ (\A p \in data[s] : p < psize[s]) /\ psize[s] \in Nat
             /\ \A p \in Nat : p \in data[s] <=> P2L(dist, s, p) \in written
  BY <1>1 DEF FileInv, Local, Kept, Goal, Before, Writing, Truncating, None, Shape
<1> DEFINE g(s) == [p \in data[s] |-> P2L(dist, s, p)]
           f == [s \in Servers(dist) |-> {g(s)[p] : p \in data[s]}]
<1>3. \A s \in Servers(dist) : f[s] = {P2L(dist, s, p) : p \in data[s]}
  OBVIOUS
<1>4. Whole(Servers(dist), f) = written
  <2>1. ASSUME NEW s \in Servers(dist), NEW p \in data[s] PROVE P2L(dist, s, p) \in written
    BY <1>2
  <2>2. ASSUME NEW l \in written PROVE \E s \in Servers(dist) : \E p \in data[s] : l = P2L(dist, s, p)
    <3>1. l \in Nat
      BY <1>1 DEF Shape
    <3>2. PICK s \in Servers(dist) : Owns(dist, s, l)
      BY <1>1, <3>1, OwnerFacts
    <3>3. L2P(dist, s, l) \in Nat /\ P2L(dist, s, L2P(dist, s, l)) = l
      BY <1>1, <3>1, <3>2, LayoutFacts DEF Owns
    <3>4. L2P(dist, s, l) \in data[s]
      BY <1>2, <3>3
    <3> QED
      BY <3>3, <3>4
  <2> HIDE DEF f
  <2> QED
    BY <1>3, <2>1, <2>2 DEF Whole
<1>5. UNION {{P2L(dist, s, p) : p \in data[s]} : s \in Servers(dist)} = Whole(Servers(dist), f)
  <2> HIDE DEF f
  <2> QED
    BY <1>3 DEF Whole
<1>6. ASSUME NEW s \in Servers(dist)
      PROVE  IsFiniteSet(f[s]) /\ Cardinality(f[s]) = Cardinality(data[s])
  <2>1. IsFiniteSet(data[s])
    <3>1. data[s] \in SUBSET Nat /\ \A p \in data[s] : p <= psize[s]
      BY <1>2
    <3> QED
      BY <1>2, <3>1, FS_BoundedSetOfNaturals
  <2>2. \A p, q \in data[s] : g(s)[p] = g(s)[q] => p = q
    <3> SUFFICES ASSUME NEW p \in data[s], NEW q \in data[s], P2L(dist, s, p) = P2L(dist, s, q)
                 PROVE  p = q
      OBVIOUS
    <3>1. p \in Nat /\ q \in Nat
      BY <1>2
    <3>2. L2P(dist, s, P2L(dist, s, p)) = p /\ L2P(dist, s, P2L(dist, s, q)) = q
      BY <1>1, <3>1, LayoutFacts
    <3> QED
      BY <3>2
  <2>3. f[s] = {g(s)[p] : p \in data[s]}
    OBVIOUS
  <2> HIDE DEF f, g
  <2> QED
    BY <2>1, <2>2, <2>3, ImageCount
<1> HIDE DEF f, g
<1>7. ASSUME NEW s \in Servers(dist), NEW t \in Servers(dist), NEW l \in f[s], l \in f[t]
      PROVE  s = t
  <2>1. PICK p \in data[s] : l = P2L(dist, s, p)
    BY <1>3
  <2>2. PICK q \in data[t] : l = P2L(dist, t, q)
    BY <1>3, <1>7
  <2>3. p \in Nat /\ q \in Nat
    BY <1>2
  <2> QED
    BY <1>1, <2>1, <2>2, <2>3 DEF Layout, Disjoint
<1>8. Parts(Servers(dist), f, [s \in Servers(dist) |-> Cardinality(data[s])])
  BY <1>1, <1>6, <1>7 DEF Parts
<1>9. TotalCount(data, Servers(dist)) = Cardinality(written)
  BY <1>4, <1>8, SumOfSets
<1>10. MapThenSumSet(LAMBDA s : Cardinality(data[s]), Servers(dist)) = Cardinality(written)
  BY <1>9, Zenon DEF TotalCount
<1> QED
  BY <1>2, <1>4, <1>5, <1>10, Zenon

\* Between any two steps of sys-io.sm, sys-truncate.sm and the servers every
\* datafile holds the bytes written and not cut off, and ends where the part of
\* the change that it has seen ends it.
THEOREM FileInvariant ==
  ASSUME FilesLaid
  PROVE  Spec => []FileInv
<1>1. Init => FileInv
  BY InitFile
<1>2. FileInv /\ [Next]_vars => FileInv'
  BY NextFile
<1> QED
  BY <1>1, <1>2, PTL DEF Spec

\* The size that logical_file_size computes from the datafiles is the file's,
\* and lies between the sizes before and after a change that is under way.
THEOREM SizesBetween ==
  ASSUME FilesLaid
  PROVE  Spec => []SizeBetween
<1>1. FileInv => SizeBetween
  BY FileHasSize
<1> QED
  BY <1>1, FileInvariant, PTL

\* The bytes on the datafiles, as the servers wrote and cut them, are those
\* that the clients wrote, each in one place.
THEOREM DataStaysInPlace ==
  ASSUME FilesLaid
  PROVE  Spec => []DataInPlace
<1>1. FileInv => DataInPlace
  BY FileHasData
<1> QED
  BY <1>1, FileInvariant, PTL

-----------------------------------------------------------------------------
(* The read.  What it has found so far, in the buffer and in the sizes, is *)
(* right for what it may still count on; a change that begins only takes   *)
(* from what it may count on.                                              *)

\* A small read keeps sizes by datafile and looks them up by position, which is
\* the same as long as a file has at most two datafiles.
SmallReads == \A d \in Files : d.small = 0 \/ d.ct <= 2

\* How much of the region there is in a file of z bytes.
Within(off, len, z) == IF off + len <= z THEN len ELSE IF z <= off THEN 0 ELSE z - off

\* The sizes a read will have when all of todo have answered.
Mixed(todo, ps, got) == [s \in Servers(dist) |-> IF s \in todo THEN ps[s] ELSE got[s]]

\* The read waits for the part of s.
Reading(s) == rd.phase = "io" /\ s \in rd.todo

ReadTypes ==
  rd \in [phase : {"io", "sizes", "done"}, off : Nat, len : Nat \ {0},
          small : BOOLEAN, index : SUBSET Servers(dist), todo : SUBSET Servers(dist),
          buf : [Bytes(rd.off, rd.len) -> {"old", "data", "zero"}],
          sizes : [Servers(dist) -> Nat], all : [Servers(dist) -> Nat],
          total : Nat, completed : Nat, low : Nat, high : Nat,
          sure : SUBSET Nat, maybe : SUBSET Nat, calm : BOOLEAN]

ReadOf ==
  /\ rd.small => dist.ct <= 2
  /\ \A s \in Servers(dist) :
       s \in rd.index <=> \E l \in Bytes(rd.off, rd.len) : Owns(dist, s, l)

\* What the read may count on is true of the file.
History ==
  /\ rd.low <= LowSize /\ HighSize <= rd.high
  /\ rd.sure \subseteq written
  /\ Truncating => rd.sure \subseteq 0..(op.to - 1)
  /\ written \subseteq rd.maybe
  /\ Writing => Bytes(op.off, op.len) \subseteq rd.maybe
  /\ rd.calm => op = None /\ rd.low = size /\ rd.high = size

\* The buffer holds what was read from the datafiles that have answered.
ByteRead(s, l) ==
  IF Reading(s) THEN rd.buf[l] = "old"
  ELSE /\ rd.buf[l] # "old" <=> L2P(dist, s, l) < rd.sizes[Slot(s)]
       /\ rd.buf[l] = "data" => l \in rd.maybe
       /\ l \in rd.sure => rd.buf[l] = "data"
PartRead ==
  \A s \in rd.index, l \in Bytes(rd.off, rd.len) : Owns(dist, s, l) => ByteRead(s, l)

\* The sizes that came with the data.
SizesRead ==
  /\ Top(dist, rd.sizes, rd.high)
  /\ \A s \in rd.index : ~ Reading(s) =>
       /\ rd.sizes[Slot(s)] <= L2P(dist, s, rd.high)
       /\ rd.calm => rd.sizes[Slot(s)] = psize[s]
  /\ rd.small => \A i \in Servers(dist) \ rd.index : rd.sizes[i] = 0

\* The bytes of the region that were read.
Got == {l \in Bytes(rd.off, rd.len) : rd.buf[l] # "old"}

IoInv ==
  /\ rd.todo \subseteq rd.index
  /\ rd.total = Cardinality(Got)
  /\ rd.all = [s \in Servers(dist) |-> 0]
  /\ rd.index = Servers(dist) => Floor(dist, Mixed(rd.todo, psize, rd.sizes), rd.low)

\* The sizes that were asked for again.
SizesInv ==
  /\ Top(dist, rd.all, rd.high)
  /\ Floor(dist, Mixed(rd.todo, psize, rd.all), rd.low)
  /\ \A s \in Servers(dist) \ rd.todo :
       /\ \A l \in rd.sure : Owns(dist, s, l) => L2P(dist, s, l) < rd.all[s]
       /\ rd.calm => rd.all[s] = psize[s]

DoneInv ==
  /\ Within(rd.off, rd.len, rd.low) <= rd.completed
  /\ rd.completed <= Within(rd.off, rd.len, rd.high)
  /\ \A l \in Bytes(rd.off, rd.completed) :
       /\ l \in rd.sure => rd.buf[l] = "data"
       /\ rd.buf[l] = "data" => l \in rd.maybe
       /\ rd.calm => rd.buf[l] # "old"

ReadBody ==
  /\ ReadTypes /\ ReadOf
  /\ rd.phase # "done" => PartRead /\ SizesRead
  /\ rd.phase = "io" => IoInv
  /\ rd.phase = "sizes" => SizesInv
  /\ rd.phase = "done" => DoneInv

ReadInv == rd # None => ReadBody /\ History

\* The types of the fields.
LEMMA FieldTypes ==
  ASSUME ReadTypes
  PROVE  /\ rd.phase \in {"io", "sizes", "done"} /\ rd.off \in Nat /\ rd.len \in Nat \ {0}
         /\ rd.len \in Nat
         /\ rd.small \in BOOLEAN /\ rd.index \subseteq Servers(dist)
         /\ rd.todo \subseteq Servers(dist)
         /\ rd.buf \in [Bytes(rd.off, rd.len) -> {"old", "data", "zero"}]
         /\ rd.sizes \in [Servers(dist) -> Nat] /\ rd.all \in [Servers(dist) -> Nat]
         /\ rd.total \in Nat /\ rd.completed \in Nat /\ rd.low \in Nat /\ rd.high \in Nat
         /\ rd.sure \subseteq Nat /\ rd.maybe \subseteq Nat /\ rd.calm \in BOOLEAN
         /\ rd # None
BY DEF ReadTypes, None

\* The part of the region that is in a file.
LEMMA WithinFacts ==
  ASSUME NEW off \in Nat, NEW len \in Nat, NEW z \in Nat
  PROVE  /\ Min({len, TotalSize(off, z)}) = Within(off, len, z)
         /\ TotalSize(off, z) = (IF z <= off THEN 0 ELSE z - off)
         /\ Within(off, len, z) \in 0..len
         /\ \A y \in Nat : y <= z => Within(off, len, y) <= Within(off, len, z)
<1>1. TotalSize(off, z) = (IF z <= off THEN 0 ELSE z - off)
  <2>1. 0 \in Int /\ z - off \in Int
    OBVIOUS
  <2>2. Max({0, z - off}) = IF 0 <= z - off THEN z - off ELSE 0
    BY <2>1, TwoFacts
  <2> QED
    BY <2>2 DEF TotalSize
<1>2. TotalSize(off, z) \in Int /\ len \in Int
  BY <1>1
<1>3. Min({len, TotalSize(off, z)}) = IF len <= TotalSize(off, z) THEN len ELSE TotalSize(off, z)
  BY <1>2, TwoFacts
<1> QED
  BY <1>1, <1>3 DEF Within

\* What ReadRight says of a read that is done.
LEMMA DoneIsRight ==
  ASSUME ReadInv
  PROVE  ReadRight
<1> SUFFICES ASSUME rd # None, rd.phase = "done"
             PROVE  /\ rd.completed \in Expected(rd.low)..Expected(rd.high)
                    /\ \A l \in Bytes(rd.off, rd.completed) :
                         /\ l \in rd.sure => rd.buf[l] = "data"
                         /\ rd.buf[l] = "data" => l \in rd.maybe
                         /\ rd.calm => rd.buf[l] # "old"
  BY DEF ReadRight
<1>1. ReadTypes /\ DoneInv
  BY DEF ReadInv, ReadBody
<1>2. /\ rd.off \in Nat /\ rd.len \in Nat /\ rd.low \in Nat /\ rd.high \in Nat /\ rd.completed \in Nat
  BY <1>1, FieldTypes
<1>3. /\ Expected(rd.low) = Within(rd.off, rd.len, rd.low)
      /\ Expected(rd.high) = Within(rd.off, rd.len, rd.high)
      /\ Within(rd.off, rd.len, rd.low) \in Nat /\ Within(rd.off, rd.len, rd.high) \in Nat
  <2>1. ASSUME NEW z \in Nat
        PROVE  Expected(z) = Within(rd.off, rd.len, z) /\ Within(rd.off, rd.len, z) \in Nat
    <3>1. Min({rd.len, TotalSize(rd.off, z)}) = Within(rd.off, rd.len, z)
      BY <1>2, WithinFacts
    <3>2. Within(rd.off, rd.len, z) \in 0..rd.len
      BY <1>2, WithinFacts
    <3> QED
      BY <1>2, <3>1, <3>2 DEF Expected
  <2> QED
    BY <1>2, <2>1
<1> QED
  BY <1>1, <1>2, <1>3 DEF DoneInv

\* The position of a datafile in datafile_index_array.
LEMMA PlaceFacts ==
  ASSUME FilesLaid, Shape, ReadTypes
  PROVE  /\ \A s \in rd.index : Place(s) \in Servers(dist) /\ Place(s) <= s
         /\ \A s, t \in rd.index : s # t => Place(s) # Place(t)
         /\ rd.index = Servers(dist) => \A s \in rd.index : Place(s) = s
<1>1. /\ rd.index \subseteq Servers(dist) /\ Servers(dist) \subseteq Nat
      /\ IsFiniteSet(Servers(dist)) /\ dist.ct \in Nat
  BY DistFacts, FieldTypes
<1> DEFINE B(s) == {t \in rd.index : t < s}
<1>2. ASSUME NEW s \in Servers(dist)
      PROVE  /\ s \in Nat /\ s < dist.ct
             /\ IsFiniteSet(0..(s - 1)) /\ Cardinality(0..(s - 1)) = s /\ B(s) \in SUBSET (0..(s - 1))
             /\ IsFiniteSet(B(s)) /\ Cardinality(B(s)) \in Nat /\ Cardinality(B(s)) <= s
  <2>1. s \in Nat /\ s < dist.ct /\ 0 \in Int /\ s - 1 \in Int
    BY <1>1 DEF Servers
  <2>2. /\ IsFiniteSet(0..(s - 1))
        /\ Cardinality(0..(s - 1)) = IF 0 > s - 1 THEN 0 ELSE (s - 1) - 0 + 1
    BY <2>1, FS_Interval
  <2>3. Cardinality(0..(s - 1)) = s
    BY <2>1, <2>2
  <2>4. B(s) \in SUBSET (0..(s - 1))
    BY <1>1, <2>1
  <2>5. IsFiniteSet(B(s)) /\ Cardinality(B(s)) <= s /\ Cardinality(B(s)) \in Nat
    BY <2>2, <2>3, <2>4, FS_Subset, FS_CardinalityType
  <2> QED
    BY <2>1, <2>2, <2>3, <2>4, <2>5
<1>3. \A s : Place(s) = Cardinality(B(s))
  BY DEF Place
<1>4. ASSUME NEW s \in rd.index PROVE Place(s) \in Servers(dist) /\ Place(s) <= s
  <2>1. Place(s) \in Nat /\ Place(s) <= s /\ s < dist.ct /\ s \in Nat
    BY <1>1, <1>2, <1>3
  <2> QED
    BY <1>1, <2>1 DEF Servers
<1>5. ASSUME NEW s \in rd.index, NEW t \in rd.index, s < t PROVE Place(s) # Place(t)
  <2>1. s \in B(t) /\ s \notin B(s) /\ B(s) \in SUBSET B(t)
    BY <1>1, <1>2, <1>5
  <2>2. IsFiniteSet(B(t))
    BY <1>1, <1>2
  <2> HIDE DEF B
  <2> QED
    BY <1>3, <2>1, <2>2, FS_Subset
<1>6. ASSUME NEW s \in rd.index, rd.index = Servers(dist) PROVE Place(s) = s
  <2>1. s \in Nat /\ s < dist.ct
    BY <1>1, <1>2
  <2>2. B(s) = 0..(s - 1)
    BY <1>1, <1>6, <2>1 DEF Servers
  <2> QED
    BY <1>1, <1>2, <1>3, <2>2
<1>7. \A s, t \in rd.index : s # t => s < t \/ t < s
  BY <1>1
<1> QED
  BY <1>4, <1>5, <1>6, <1>7

\* The place in dfile_size_array of a datafile's size.
LEMMA SlotFacts ==
  ASSUME FilesLaid, Shape, ReadTypes
  PROVE  /\ \A s \in rd.index : Slot(s) \in Servers(dist) /\ Slot(s) <= s
         /\ \A s, t \in rd.index : s # t => Slot(s) # Slot(t)
         /\ rd.index = Servers(dist) => \A s \in rd.index : Slot(s) = s
<1>1. rd.index \subseteq Servers(dist) /\ Servers(dist) \subseteq Nat
  BY DistFacts, FieldTypes
<1> QED
  BY <1>1, PlaceFacts DEF Slot

\* Sizes that end at or below z end at or below any larger size.
LEMMA TopGrows ==
  ASSUME NEW d, Layout(d), NEW ps \in [Servers(d) -> Nat], NEW y \in Nat, NEW z \in Nat,
         y <= z, Top(d, ps, y)
  PROVE  Top(d, ps, z)
<1> SUFFICES ASSUME NEW s \in Servers(d) PROVE ps[s] <= L2P(d, s, z)
  BY DEF Top
<1>1. /\ L2P(d, s, y) \in Nat /\ L2P(d, s, z) \in Nat /\ L2P(d, s, y) <= L2P(d, s, z)
      /\ ps[s] \in Nat /\ ps[s] <= L2P(d, s, y)
  BY LayoutFacts DEF Top
<1> QED
  BY <1>1

\* The read has made no step, and what it may count on is the same or less.
Waits ==
  /\ dist' = dist
  /\ rd'.phase = rd.phase /\ rd'.off = rd.off /\ rd'.len = rd.len /\ rd'.small = rd.small
  /\ rd'.index = rd.index /\ rd'.todo = rd.todo /\ rd'.buf = rd.buf /\ rd'.sizes = rd.sizes
  /\ rd'.all = rd.all /\ rd'.total = rd.total /\ rd'.completed = rd.completed
  /\ rd'.low <= rd.low /\ rd.high <= rd'.high
  /\ rd'.sure \subseteq rd.sure /\ rd.maybe \subseteq rd'.maybe
  /\ rd'.calm => rd.calm /\ psize' = psize
  /\ rd'.low = 0 \/ \A s \in Servers(dist) : psize[s] <= psize'[s]

\* The sizes a read will have are no smaller when those of the datafiles are not.
LEMMA MixedFloor ==
  ASSUME FilesLaid, Shape, Shape', Waits, NEW todo, NEW got \in [Servers(dist) -> Nat],
         rd.low \in Nat, rd'.low \in Nat, Floor(dist, Mixed(todo, psize, got), rd.low)
  PROVE  Floor(dist, Mixed(todo, psize', got), rd'.low)
<1> DEFINE a == Mixed(todo, psize, got)
           b == Mixed(todo, psize', got)
<1>1. Laid(dist)
  BY DistFacts
<1>2. psize \in [Servers(dist) -> Nat] /\ psize' \in [Servers(dist) -> Nat]
  BY DEF Shape, Waits
<1>3. a \in [Servers(dist) -> Nat] /\ b \in [Servers(dist) -> Nat]
  BY <1>2 DEF Mixed
<1>4. CASE rd'.low = 0
  BY <1>1, <1>3, <1>4, FloorFacts
<1>5. CASE \A s \in Servers(dist) : psize[s] <= psize'[s]
  <2>1. \A s \in Servers(dist) : a[s] <= b[s]
    BY <1>2, <1>5 DEF Mixed
  <2>2. rd'.low <= rd.low
    BY DEF Waits
  <2> HIDE DEF a, b
  <2> QED
    BY <1>1, <1>3, <2>1, <2>2, FloorFacts DEF a, b
<1> QED
  BY <1>4, <1>5 DEF Waits

\* A read that waits while the file changes.
LEMMA WaitingRead ==
  ASSUME FilesLaid, Shape, Shape', Waits, ReadBody, ReadTypes'
  PROVE  ReadBody'
<1>1. ReadTypes /\ ReadOf /\ Layout(dist)
  BY DistFacts DEF ReadBody
<1>2. /\ rd.low \in Nat /\ rd.high \in Nat /\ rd.sizes \in [Servers(dist) -> Nat]
      /\ rd.all \in [Servers(dist) -> Nat] /\ rd.off \in Nat /\ rd.len \in Nat
      /\ rd.completed \in Nat /\ rd.index \subseteq Servers(dist)
      /\ rd.todo \subseteq Servers(dist)
  BY <1>1, FieldTypes
<1>3. rd'.low \in Nat /\ rd'.high \in Nat
  BY DEF ReadTypes
<1>4. /\ dist' = dist
      /\ rd'.phase = rd.phase /\ rd'.off = rd.off /\ rd'.len = rd.len /\ rd'.small = rd.small
      /\ rd'.index = rd.index /\ rd'.todo = rd.todo /\ rd'.buf = rd.buf /\ rd'.sizes = rd.sizes
      /\ rd'.all = rd.all /\ rd'.total = rd.total /\ rd'.completed = rd.completed
      /\ rd'.low <= rd.low /\ rd.high <= rd'.high
      /\ rd'.sure \subseteq rd.sure /\ rd.maybe \subseteq rd'.maybe
      /\ rd'.calm => rd.calm /\ psize' = psize
  BY DEF Waits
<1>5. ReadOf'
  BY <1>1, <1>4 DEF ReadOf
<1>6. /\ \A s : Slot(s)' = Slot(s) /\ (Reading(s)' <=> Reading(s))
      /\ Got' = Got
  BY <1>4 DEF Slot, Place, Reading, Got
<1>7. ASSUME PartRead, SizesRead PROVE PartRead' /\ SizesRead'
  <2>1. ASSUME NEW s, NEW l, ByteRead(s, l) PROVE ByteRead(s, l)'
    <3>1. CASE Reading(s)
      BY <1>4, <1>6, <2>1, <3>1 DEF ByteRead
    <3>2. CASE ~ Reading(s)
      BY <1>4, <1>6, <2>1, <3>2 DEF ByteRead
    <3> QED
      BY <3>1, <3>2
  <2>2. PartRead'
    BY <1>4, <1>7, <2>1 DEF PartRead
  <2>3. Top(dist, rd.sizes, rd'.high)
    BY <1>1, <1>2, <1>3, <1>4, <1>7, TopGrows DEF SizesRead
  <2>4. ASSUME NEW s \in rd.index, ~ Reading(s)
        PROVE  /\ rd.sizes[Slot(s)] <= L2P(dist, s, rd'.high)
               /\ rd'.calm => rd.sizes[Slot(s)] = psize'[s]
    <3>1. /\ rd.sizes[Slot(s)] <= L2P(dist, s, rd.high)
          /\ rd.calm => rd.sizes[Slot(s)] = psize[s]
      BY <1>7, <2>4 DEF SizesRead
    <3>2. Slot(s) \in Servers(dist) /\ s \in Servers(dist)
      BY <1>1, <1>2, SlotFacts
    <3>3. /\ rd.sizes[Slot(s)] \in Nat /\ L2P(dist, s, rd.high) <= L2P(dist, s, rd'.high)
          /\ L2P(dist, s, rd.high) \in Nat /\ L2P(dist, s, rd'.high) \in Nat
      BY <1>1, <1>2, <1>3, <1>4, <3>2, LayoutFacts
    <3> QED
      BY <1>4, <3>1, <3>3
  <2>5. rd.small => \A i \in Servers(dist) \ rd.index : rd.sizes[i] = 0
    BY <1>7 DEF SizesRead
  <2> QED
    BY <1>4, <1>6, <2>2, <2>3, <2>4, <2>5 DEF SizesRead
<1>8. ASSUME IoInv PROVE IoInv'
  <2>1. rd.index = Servers(dist) => Floor(dist, Mixed(rd.todo, psize', rd.sizes), rd'.low)
    BY <1>2, <1>3, <1>8, MixedFloor DEF IoInv
  <2>2. Mixed(rd.todo, psize, rd.sizes)' = Mixed(rd.todo, psize', rd.sizes)
    BY <1>4 DEF Mixed
  <2> QED
    BY <1>4, <1>6, <1>8, <2>1, <2>2 DEF IoInv
<1>9. ASSUME SizesInv PROVE SizesInv'
  <2>1. Floor(dist, Mixed(rd.todo, psize', rd.all), rd'.low)
    BY <1>2, <1>3, <1>9, MixedFloor DEF SizesInv
  <2>2. Mixed(rd.todo, psize, rd.all)' = Mixed(rd.todo, psize', rd.all)
    BY <1>4 DEF Mixed
  <2>3. Top(dist, rd.all, rd'.high)
    BY <1>1, <1>2, <1>3, <1>4, <1>9, TopGrows DEF SizesInv
  <2>4. ASSUME NEW s \in Servers(dist) \ rd.todo
        PROVE  /\ \A l \in rd'.sure : Owns(dist, s, l) => L2P(dist, s, l) < rd.all[s]
               /\ rd'.calm => rd.all[s] = psize'[s]
    BY <1>4, <1>9 DEF SizesInv
  <2> QED
    BY <1>4, <2>1, <2>2, <2>3, <2>4 DEF SizesInv
<1>10. ASSUME DoneInv PROVE DoneInv'
  <2>1. /\ Within(rd.off, rd.len, rd'.low) <= Within(rd.off, rd.len, rd.low)
        /\ Within(rd.off, rd.len, rd.high) <= Within(rd.off, rd.len, rd'.high)
        /\ Within(rd.off, rd.len, rd'.low) \in Nat /\ Within(rd.off, rd.len, rd.low) \in Nat
        /\ Within(rd.off, rd.len, rd'.high) \in Nat /\ Within(rd.off, rd.len, rd.high) \in Nat
    BY <1>2, <1>3, <1>4 DEF Within
  <2>2. /\ Within(rd.off, rd.len, rd'.low) <= rd.completed
        /\ rd.completed <= Within(rd.off, rd.len, rd'.high)
    BY <1>2, <1>10, <2>1 DEF DoneInv
  <2>3. \A l \in Bytes(rd.off, rd.completed) :
           /\ l \in rd'.sure => rd.buf[l] = "data"
           /\ rd.buf[l] = "data" => l \in rd'.maybe
           /\ rd'.calm => rd.buf[l] # "old"
    BY <1>4, <1>10 DEF DoneInv
  <2> QED
    BY <1>4, <2>2, <2>3 DEF DoneInv
<1> QED
  BY <1>4, <1>5, <1>7, <1>8, <1>9, <1>10 DEF ReadBody

\* What a read may count on after a change has begun.
LEMMA MeanwhileFacts ==
  ASSUME Shape, ReadTypes, NEW low \in Nat, NEW high \in Nat, NEW sure, NEW maybe \in SUBSET Nat,
         dist' = dist, psize' = psize, rd' = Meanwhile(low, high, sure, maybe)
  PROVE  /\ ReadTypes' /\ Waits
         /\ rd'.low <= low /\ high <= rd'.high /\ rd'.low \in Nat /\ rd'.high \in Nat
         /\ rd'.sure = rd.sure \cap sure /\ rd'.maybe = rd.maybe \cup maybe
         /\ rd'.calm = FALSE
<1>1. /\ rd # None /\ rd.low \in Nat /\ rd.high \in Nat
      /\ rd.low \in Int /\ rd.high \in Int /\ low \in Int /\ high \in Int
  BY FieldTypes
<1>2. /\ Min({rd.low, low}) = IF rd.low <= low THEN rd.low ELSE low
      /\ Max({rd.high, high}) = IF rd.high <= high THEN high ELSE rd.high
  BY <1>1, TwoFacts
<1> DEFINE a == Min({rd.low, low})
           b == Max({rd.high, high})
<1>3. a \in Nat /\ b \in Nat /\ a <= low /\ a <= rd.low /\ high <= b /\ rd.high <= b
  BY <1>1, <1>2
<1>4. rd' = [rd EXCEPT !.low = a, !.high = b, !.sure = @ \cap sure, !.maybe = @ \cup maybe,
                       !.calm = FALSE]
  BY <1>1 DEF Meanwhile
<1> HIDE DEF a, b
<1>5. /\ rd'.low = a /\ rd'.high = b /\ rd'.sure = rd.sure \cap sure
      /\ rd'.maybe = rd.maybe \cup maybe /\ rd'.calm = FALSE
      /\ rd'.phase = rd.phase /\ rd'.off = rd.off /\ rd'.len = rd.len /\ rd'.small = rd.small
      /\ rd'.index = rd.index /\ rd'.todo = rd.todo /\ rd'.buf = rd.buf /\ rd'.sizes = rd.sizes
      /\ rd'.all = rd.all /\ rd'.total = rd.total /\ rd'.completed = rd.completed
  BY <1>4 DEF ReadTypes
<1>6. ReadTypes'
  BY <1>3, <1>4, <1>5 DEF ReadTypes
<1>7. \A s \in Servers(dist) : psize[s] <= psize'[s]
  BY DEF Shape
<1>8. Waits
  BY <1>3, <1>5, <1>7 DEF Waits
<1> QED
  BY <1>3, <1>5, <1>6, <1>8

\* The read is not at work, or waits for a change.
LEMMA ReadWaits ==
  ASSUME FilesLaid, FileInv, FileInv', ReadInv,
         rd' = None \/ (rd # None /\ ReadTypes' /\ Waits /\ History')
  PROVE  ReadInv'
BY WaitingRead DEF ReadInv, FileInv

\* A read while a write begins.
LEMMA WriteStartRead ==
  ASSUME FilesLaid, FileInv, ReadInv, NEW off \in Offsets, NEW len \in Lengths,
         WriteStart(off, len)
  PROVE  ReadInv'
<1> DEFINE h == Max({size, off + len})
<1>1. /\ op = None
      /\ op' = [kind |-> "write", off |-> off, len |-> len, todo |-> Targets(off, len)]
      /\ rd' = Meanwhile(size, h, 0..(MaxSize - 1), Bytes(off, len))
      /\ UNCHANGED <<dist, psize, data, size, written>>
  BY DEF WriteStart
<1>2. FileInv' /\ Shape /\ size \in Nat
  BY WriteStartFile, DistFacts DEF FileInv
<1>3. /\ off \in Nat /\ len \in Nat /\ off + len \in Nat /\ Bytes(off, len) \in SUBSET Nat
  BY FileBounds DEF Offsets, Bytes
<1>4. h \in Nat /\ size <= h /\ LowSize' = size /\ HighSize' = h
  <2>1. size \in Int /\ off + len \in Int
    BY <1>2, <1>3
  <2>2. h = IF size <= off + len THEN off + len ELSE size
    BY <2>1, TwoFacts
  <2>3. h \in Nat /\ size <= h
    BY <1>2, <1>3, <2>2
  <2> HIDE DEF h
  <2>4. LowSize' = size /\ HighSize' = h
    BY <1>1 DEF LowSize, HighSize, None, h
  <2> QED
    BY <2>3, <2>4
<1> HIDE DEF h
<1>5. CASE rd = None
  <2>1. rd' = None
    BY <1>1, <1>5 DEF Meanwhile
  <2> QED
    BY <2>1 DEF ReadInv
<1>6. CASE rd # None
  <2>1. ReadTypes /\ History
    BY <1>6 DEF ReadInv, ReadBody
  <2>2. /\ ReadTypes' /\ Waits
        /\ rd'.low <= size /\ h <= rd'.high /\ rd'.low \in Nat /\ rd'.high \in Nat
        /\ rd'.sure = rd.sure \cap 0..(MaxSize - 1) /\ rd'.maybe = rd.maybe \cup Bytes(off, len)
        /\ rd'.calm = FALSE
    BY <1>1, <1>2, <1>3, <1>4, <2>1, MeanwhileFacts
  <2>3. Writing' /\ ~ Truncating' /\ op'.off = off /\ op'.len = len
    BY <1>1 DEF Writing, Truncating
  <2>4. rd'.low <= LowSize' /\ HighSize' <= rd'.high
    BY <1>4, <2>2
  <2>5. History'
    BY <1>1, <2>1, <2>2, <2>3, <2>4 DEF History
  <2> QED
    BY <1>2, <1>6, <2>2, <2>5, ReadWaits
<1> QED
  BY <1>5, <1>6

\* A read while a truncation begins.
LEMMA TruncateStartRead ==
  ASSUME FilesLaid, FileInv, ReadInv, NEW z \in 0..MaxSize, TruncateStart(z)
  PROVE  ReadInv'
<1> DEFINE h == Max({size, z})
<1>1. /\ op = None
      /\ op' = [kind |-> "truncate", to |-> z, todo |-> Servers(dist)]
      /\ rd' = Meanwhile(0, h, 0..(z - 1), {})
      /\ UNCHANGED <<dist, psize, data, size, written>>
  BY DEF TruncateStart
<1>2. FileInv' /\ Shape /\ size \in Nat /\ z \in Nat
  BY TruncateStartFile, DistFacts DEF FileInv
<1>4. h \in Nat /\ LowSize' = 0 /\ HighSize' = h
  <2>1. size \in Int /\ z \in Int
    BY <1>2
  <2>2. h = IF size <= z THEN z ELSE size
    BY <2>1, TwoFacts
  <2>3. h \in Nat
    BY <1>2, <2>2
  <2> HIDE DEF h
  <2>4. LowSize' = 0 /\ HighSize' = h
    BY <1>1 DEF LowSize, HighSize, None, h
  <2> QED
    BY <2>3, <2>4
<1> HIDE DEF h
<1>5. CASE rd = None
  <2>1. rd' = None
    BY <1>1, <1>5 DEF Meanwhile
  <2> QED
    BY <2>1 DEF ReadInv
<1>6. CASE rd # None
  <2>1. ReadTypes /\ History
    BY <1>6 DEF ReadInv, ReadBody
  <2>2. /\ ReadTypes' /\ Waits
        /\ rd'.low <= 0 /\ h <= rd'.high /\ rd'.low \in Nat /\ rd'.high \in Nat
        /\ rd'.sure = rd.sure \cap 0..(z - 1) /\ rd'.maybe = rd.maybe \cup {}
        /\ rd'.calm = FALSE
    <3>1. 0 \in Nat /\ {} \in SUBSET Nat
      OBVIOUS
    <3> QED
      BY <1>1, <1>2, <1>4, <2>1, <3>1, MeanwhileFacts
  <2>3. ~ Writing' /\ Truncating' /\ op'.to = z
    BY <1>1 DEF Writing, Truncating
  <2>4. rd'.low <= LowSize' /\ HighSize' <= rd'.high
    BY <1>4, <2>2
  <2>5. History'
    BY <1>1, <2>1, <2>2, <2>3, <2>4 DEF History
  <2> QED
    BY <1>2, <1>6, <2>2, <2>5, ReadWaits
<1> QED
  BY <1>5, <1>6

\* A read while a datafile is written.
LEMMA WriteServerRead ==
  ASSUME FilesLaid, FileInv, ReadInv, NEW s \in Servers(dist), WriteServer(s)
  PROVE  ReadInv'
<1>1. /\ op # None /\ op.kind = "write" /\ op' = [op EXCEPT !.todo = @ \ {s}]
      /\ UNCHANGED <<dist, size, written, rd>>
  BY DEF WriteServer
<1>2. FileInv' /\ \A t \in Servers(dist) : psize[t] <= psize'[t]
  BY WriteServerFile
<1>3. CASE rd = None
  BY <1>1, <1>3 DEF ReadInv
<1>4. CASE rd # None
  <2>1. ReadTypes /\ History
    BY <1>4 DEF ReadInv, ReadBody
  <2>2. op = [kind |-> "write", off |-> op.off, len |-> op.len, todo |-> op.todo]
    BY <1>1 DEF FileInv, OpOK
  <2>3. op' = [kind |-> "write", off |-> op.off, len |-> op.len, todo |-> op.todo \ {s}]
    BY <1>1, <2>2
  <2>4. /\ Writing /\ Writing' /\ ~ Truncating /\ ~ Truncating' /\ op'.off = op.off /\ op'.len = op.len
        /\ op' # None
    BY <1>1, <2>3 DEF Writing, Truncating, None
  <2>5. LowSize' = LowSize /\ HighSize' = HighSize
    BY <1>1, <2>3, <2>4 DEF LowSize, HighSize, None
  <2>6. ~ rd.calm
    BY <1>1, <2>1 DEF History
  <2>7. Waits
    BY <1>1, <1>2, <2>1, <2>6, FieldTypes DEF Waits
  <2>8. ReadTypes'
    BY <1>1, <2>1 DEF ReadTypes
  <2>9. History'
    BY <1>1, <2>1, <2>4, <2>5, <2>6 DEF History
  <2> QED
    BY <1>2, <1>4, <2>7, <2>8, <2>9, ReadWaits
<1> QED
  BY <1>3, <1>4

\* A read while a write ends.
LEMMA WriteDoneRead ==
  ASSUME FilesLaid, FileInv, ReadInv, WriteDone
  PROVE  ReadInv'
<1>1. /\ op # None /\ op.kind = "write" /\ op' = None
      /\ size' = Max({size, op.off + op.len}) /\ written' = written \cup Bytes(op.off, op.len)
      /\ UNCHANGED <<dist, psize, data, rd>>
  BY DEF WriteDone
<1>2. FileInv' /\ size <= size' /\ Shape /\ size \in Nat /\ size' \in Nat
  <2>1. FileInv' /\ size <= size'
    BY WriteDoneFile
  <2>2. Shape /\ size \in 0..MaxSize /\ size' \in 0..MaxSize
    BY <2>1 DEF FileInv, Shape
  <2>3. MaxSize \in Nat
    BY FileBounds
  <2> QED
    BY <2>1, <2>2, <2>3
<1>3. CASE rd = None
  BY <1>1, <1>3 DEF ReadInv
<1>4. CASE rd # None
  <2>1. ReadTypes /\ History
    BY <1>4 DEF ReadInv, ReadBody
  <2>2. Writing /\ ~ Writing' /\ ~ Truncating /\ ~ Truncating'
    BY <1>1 DEF Writing, Truncating, None
  <2>3. LowSize = size /\ LowSize' = size' /\ HighSize' = HighSize
    BY <1>1, <2>2 DEF LowSize, HighSize, None, Truncating
  <2>4. ~ rd.calm
    BY <1>1, <2>1 DEF History
  <2>5. Waits
    BY <1>1, <1>2, <2>1, <2>4, FieldTypes DEF Waits, Shape
  <2>6. ReadTypes'
    BY <1>1, <2>1 DEF ReadTypes
  <2>7. rd'.low <= LowSize' /\ HighSize' <= rd'.high
    <3>1. rd.low \in Nat /\ rd.low <= size /\ HighSize <= rd.high
      BY <2>1, <2>3, FieldTypes DEF History
    <3> QED
      BY <1>1, <1>2, <2>3, <3>1
  <2>8. History'
    BY <1>1, <2>1, <2>2, <2>4, <2>7 DEF History
  <2> QED
    BY <1>2, <1>4, <2>5, <2>6, <2>8, ReadWaits
<1> QED
  BY <1>3, <1>4

\* A read while a datafile is cut or extended: it may count on no size.
LEMMA TruncateServerRead ==
  ASSUME FilesLaid, FileInv, ReadInv, NEW s \in Servers(dist), TruncateServer(s)
  PROVE  ReadInv'
<1>1. /\ op # None /\ op.kind = "truncate" /\ op' = [op EXCEPT !.todo = @ \ {s}]
      /\ UNCHANGED <<dist, size, written, rd>>
  BY DEF TruncateServer
<1>2. FileInv'
  BY TruncateServerFile
<1>3. CASE rd = None
  BY <1>1, <1>3 DEF ReadInv
<1>4. CASE rd # None
  <2>1. ReadTypes /\ History /\ rd.low \in Nat
    BY <1>4, FieldTypes DEF ReadInv, ReadBody
  <2>2. op = [kind |-> "truncate", to |-> op.to, todo |-> op.todo]
    BY <1>1 DEF FileInv, OpOK
  <2>3. op' = [kind |-> "truncate", to |-> op.to, todo |-> op.todo \ {s}]
    BY <1>1, <2>2
  <2>4. ~ Writing /\ ~ Writing' /\ Truncating /\ Truncating' /\ op'.to = op.to /\ op' # None
    BY <1>1, <2>3 DEF Writing, Truncating, None
  <2>5. LowSize = 0 /\ LowSize' = LowSize /\ HighSize' = HighSize
    BY <1>1, <2>3, <2>4 DEF LowSize, HighSize, None
  <2>6. ~ rd.calm /\ rd.low = 0
    BY <1>1, <2>1, <2>5 DEF History
  <2>7. Waits
    BY <1>1, <2>1, <2>6, FieldTypes DEF Waits
  <2>8. ReadTypes'
    BY <1>1, <2>1 DEF ReadTypes
  <2>9. History'
    BY <1>1, <2>1, <2>4, <2>5, <2>6 DEF History
  <2> QED
    BY <1>2, <1>4, <2>7, <2>8, <2>9, ReadWaits
<1> QED
  BY <1>3, <1>4

\* A read while a truncation ends.
LEMMA TruncateDoneRead ==
  ASSUME FilesLaid, FileInv, ReadInv, TruncateDone
  PROVE  ReadInv'
<1>1. /\ op # None /\ op.kind = "truncate" /\ op' = None
      /\ size' = op.to /\ written' = written \cap 0..(op.to - 1)
      /\ UNCHANGED <<dist, psize, data, rd>>
  BY DEF TruncateDone
<1>2. FileInv' /\ Shape /\ size \in Nat /\ size' \in Nat
  <2>1. FileInv'
    BY TruncateDoneFile
  <2>2. Shape /\ size \in 0..MaxSize /\ size' \in 0..MaxSize
    BY <2>1 DEF FileInv, Shape
  <2>3. MaxSize \in Nat
    BY FileBounds
  <2> QED
    BY <2>1, <2>2, <2>3
<1>3. CASE rd = None
  BY <1>1, <1>3 DEF ReadInv
<1>4. CASE rd # None
  <2>1. ReadTypes /\ History /\ rd.low \in Nat /\ rd.high \in Nat
    BY <1>4, FieldTypes DEF ReadInv, ReadBody
  <2>2. ~ Writing /\ ~ Writing' /\ Truncating /\ ~ Truncating'
    BY <1>1 DEF Writing, Truncating, None
  <2>3. LowSize = 0 /\ LowSize' = size' /\ HighSize' = size' /\ HighSize = Larger(size, op.to)
    BY <1>1, <2>2, HighFacts DEF LowSize, HighSize, None
  <2>4. ~ rd.calm /\ rd.low = 0 /\ Larger(size, op.to) <= rd.high
    BY <1>1, <2>1, <2>3 DEF History
  <2>5. Waits
    BY <1>1, <2>1, <2>4, FieldTypes DEF Waits
  <2>6. ReadTypes'
    BY <1>1, <2>1 DEF ReadTypes
  <2>7. rd'.low <= LowSize' /\ HighSize' <= rd'.high
    BY <1>1, <1>2, <2>1, <2>3, <2>4 DEF Larger
  <2>8. History'
    BY <1>1, <2>1, <2>2, <2>4, <2>7 DEF History
  <2> QED
    BY <1>2, <1>4, <2>5, <2>6, <2>8, ReadWaits
<1> QED
  BY <1>3, <1>4

\* A step that changes nothing.
LEMMA ReadUnchanged ==
  ASSUME FilesLaid, FileInv, ReadInv, UNCHANGED vars
  PROVE  ReadInv'
<1>1. UNCHANGED <<dist, psize, data, size, written, op, rd>>
  BY DEF vars
<1>2. FileInv' /\ Shape
  BY <1>1, FileUnchanged DEF fileVars, FileInv
<1>3. CASE rd = None
  BY <1>1, <1>3 DEF ReadInv
<1>4. CASE rd # None
  <2>1. ReadTypes /\ History
    BY <1>4 DEF ReadInv, ReadBody
  <2>2. Waits
    BY <1>1, <1>2, <2>1, FieldTypes DEF Waits, Shape
  <2>3. ReadTypes'
    BY <1>1, <2>1 DEF ReadTypes
  <2>4. LowSize' = LowSize /\ HighSize' = HighSize
    BY <1>1 DEF LowSize, HighSize
  <2>5. History'
    BY <1>1, <2>1, <2>4 DEF History, Writing, Truncating
  <2> QED
    BY <1>2, <1>4, <2>2, <2>3, <2>5, ReadWaits
<1> QED
  BY <1>3, <1>4

-----------------------------------------------------------------------------
(* The steps of the read.                                                  *)

\* The datafiles reach the smallest size the file may show.
LEMMA FloorLow ==
  ASSUME FilesLaid, FileInv
  PROVE  Floor(dist, psize, LowSize)
<1>1. LowSize = IF Truncating THEN 0 ELSE size
  BY HighFacts
<1>2. Laid(dist) /\ psize \in [Servers(dist) -> Nat]
  BY DistFacts DEF FileInv, Shape
<1>3. CASE Truncating
  BY <1>1, <1>2, <1>3, FloorFacts
<1>4. CASE ~ Truncating
  BY <1>1, <1>4 DEF FileInv
<1> QED
  BY <1>3, <1>4

\* A datafile has the bytes the read may count on, and none that were never written.
LEMMA GoalFacts ==
  ASSUME FilesLaid, FileInv, ReadTypes, History, NEW s \in Servers(dist), NEW l \in Nat,
         Owns(dist, s, l)
  PROVE  /\ L2P(dist, s, l) \in Nat
         /\ l \in rd.sure => L2P(dist, s, l) \in data[s]
         /\ L2P(dist, s, l) \in data[s] => l \in rd.maybe
         /\ L2P(dist, s, l) \in data[s] => L2P(dist, s, l) < psize[s]
<1>1. Layout(dist)
  BY DistFacts DEF FileInv
<1>2. L2P(dist, s, l) \in Nat
  BY <1>1, LayoutFacts
<1>3. Kept(dist, s, psize[s], data[s], Goal(s))
  BY DEF FileInv, Local
<1>4. L2P(dist, s, l) \in data[s] <=> l \in Goal(s)
  BY <1>2, <1>3 DEF Kept, Owns
<1>5. rd.sure \subseteq Goal(s) /\ Goal(s) \subseteq rd.maybe
  BY DEF Goal, Before, History
<1>6. L2P(dist, s, l) \in data[s] => L2P(dist, s, l) < psize[s]
  BY <1>3 DEF Kept
<1> QED
  BY <1>2, <1>4, <1>5, <1>6

\* A read is small only if its files may be read by small I/O.
LEMMA SmallFacts ==
  ASSUME FilesLaid, SmallReads, Shape, NEW off \in Nat, NEW len \in Nat \ {0}, IsSmall(off, len)
  PROVE  dist.ct <= 2
<1>1. Layout(dist) /\ off \in Bytes(off, len) /\ len \in Nat
  BY DistFacts DEF Bytes
<1>2. PICK s \in Servers(dist) : Owns(dist, s, off)
  BY <1>1, OwnerFacts
<1>3. s \in Targets(off, len)
  BY <1>1, <1>2, TargetFacts
<1> DEFINE L == OnFile(dist, s, off, len, 0, TRUE)
<1>4. Length(Part(s, off, len)) = Cardinality(L) /\ IsFiniteSet(L)
  <2>1. 0 \in Nat /\ TRUE \in BOOLEAN
    OBVIOUS
  <2> QED
    BY <1>1, <2>1, PiecesFacts DEF Part
<1>5. off \in L
  BY <1>1, <1>2 DEF OnFile, Wanted
<1> HIDE DEF L
<1>6. Cardinality(L) \in Nat /\ Cardinality(L) # 0
  BY <1>4, <1>5, FS_CardinalityType, FS_EmptySet
<1>7. Cardinality(L) <= dist.small
  BY <1>3, <1>4 DEF IsSmall
<1>8. dist.small # 0
  BY <1>6, <1>7
<1> QED
  BY <1>8 DEF SmallReads, Shape

\* A read begins.
LEMMA ReadStartRead ==
  ASSUME FilesLaid, SmallReads, FileInv, NEW off \in Offsets, NEW len \in Lengths,
         ReadStart(off, len)
  PROVE  ReadInv'
<1>1. /\ rd' = [phase |-> "io", off |-> off, len |-> len,
                small |-> IsSmall(off, len),
                index |-> Targets(off, len),
                todo |-> Targets(off, len),
                buf |-> [l \in Bytes(off, len) |-> "old"],
                sizes |-> [s \in Servers(dist) |-> 0],
                all |-> [s \in Servers(dist) |-> 0],
                total |-> 0, completed |-> 0,
                low |-> LowSize,
                high |-> HighSize,
                sure |-> IF op # None /\ op.kind = "truncate"
                         THEN written \cap 0..(op.to - 1) ELSE written,
                maybe |-> IF op # None /\ op.kind = "write"
                          THEN written \cup Bytes(op.off, op.len) ELSE written,
                calm |-> op = None]
      /\ UNCHANGED <<dist, psize, data, size, written, op>>
  BY DEF ReadStart
<1>2. /\ Shape /\ OpOK /\ Laid(dist) /\ Layout(dist) /\ size \in Nat /\ written \subseteq Nat
      /\ psize \in [Servers(dist) -> Nat]
  BY DistFacts DEF FileInv, Shape
<1>3. off \in Nat /\ len \in Nat \ {0} /\ len \in Nat
  BY FileBounds DEF Offsets
<1>4. /\ LowSize \in Nat /\ HighSize \in Nat
      /\ LowSize' = LowSize /\ HighSize' = HighSize
      /\ LowSize = IF Truncating THEN 0 ELSE size
      /\ ~ Writing /\ ~ Truncating => HighSize = size
  BY <1>1, HighFacts DEF LowSize, HighSize
<1>5. /\ Targets(off, len) \subseteq Servers(dist)
      /\ \A s \in Servers(dist) :
              s \in Targets(off, len) <=> \E l \in Bytes(off, len) : Owns(dist, s, l)
  BY <1>2, <1>3, TargetFacts
<1>6. /\ op = None => ~ Writing /\ ~ Truncating
      /\ Writing <=> op # None /\ op.kind = "write"
      /\ Truncating <=> op # None /\ op.kind = "truncate"
      /\ Writing => Bytes(op.off, op.len) \subseteq Nat
      /\ (Writing' <=> Writing) /\ (Truncating' <=> Truncating)
  BY <1>1, <1>2 DEF OpOK, Writing, Truncating, None, Bytes
<1> HIDE DEF LowSize, HighSize
<1>7. /\ rd'.phase = "io" /\ rd'.off = off /\ rd'.len = len /\ rd'.small = IsSmall(off, len)
      /\ rd'.index = Targets(off, len) /\ rd'.todo = Targets(off, len)
      /\ rd'.buf = [l \in Bytes(off, len) |-> "old"]
      /\ rd'.sizes = [s \in Servers(dist) |-> 0] /\ rd'.all = [s \in Servers(dist) |-> 0]
      /\ rd'.total = 0 /\ rd'.low = LowSize /\ rd'.high = HighSize
      /\ rd'.sure = IF Truncating THEN written \cap 0..(op.to - 1) ELSE written
      /\ rd'.maybe = IF Writing THEN written \cup Bytes(op.off, op.len) ELSE written
      /\ rd'.calm = (op = None)
  BY <1>1, <1>6
<1>8. ReadTypes'
  <2>1. IsSmall(off, len) \in BOOLEAN
    BY DEF IsSmall
  <2> QED
    BY <1>1, <1>2, <1>3, <1>4, <1>5, <1>6, <1>7, <2>1 DEF ReadTypes
<1>9. ReadOf'
  BY <1>1, <1>2, <1>3, <1>5, <1>7, SmallFacts DEF ReadOf
<1>10. PartRead'
  BY <1>1, <1>7 DEF PartRead, ByteRead, Reading
<1>11. SizesRead'
  <2>1. ASSUME NEW s \in Servers(dist) PROVE 0 <= L2P(dist, s, HighSize)
    BY <1>2, <1>4, LayoutFacts
  <2> QED
    BY <1>1, <1>7, <2>1 DEF SizesRead, Top, Reading
<1>12. IoInv'
  <2>1. Got' = {}
    BY <1>7 DEF Got
  <2>2. rd'.total = Cardinality(Got)'
    BY <1>7, <2>1, FS_EmptySet
  <2>3. ASSUME rd'.index = Servers(dist)
        PROVE  Mixed(rd'.todo, psize, rd'.sizes) = psize
    BY <1>2, <1>7, <2>3 DEF Mixed
  <2>4. Floor(dist, psize, LowSize)
    BY FloorLow
  <2>5. Mixed(rd.todo, psize, rd.sizes)' = Mixed(rd'.todo, psize, rd'.sizes)
    BY <1>1 DEF Mixed
  <2> QED
    BY <1>1, <1>7, <2>2, <2>3, <2>4, <2>5 DEF IoInv
<1>13. History'
  <2>1. UNCHANGED <<size, written, op>>
    BY <1>1
  <2>2. rd'.low <= LowSize' /\ HighSize' <= rd'.high
    BY <1>4, <1>7
  <2>3. /\ rd'.sure \subseteq written' /\ (Truncating' => rd'.sure \subseteq 0..(op'.to - 1))
        /\ written' \subseteq rd'.maybe /\ (Writing' => Bytes(op'.off, op'.len) \subseteq rd'.maybe)
    BY <1>6, <1>7, <2>1
  <2>4. rd'.calm => op' = None /\ rd'.low = size' /\ rd'.high = size'
    BY <1>4, <1>6, <1>7, <2>1
  <2> QED
    BY <2>2, <2>3, <2>4 DEF History
<1> QED
  BY <1>7, <1>8, <1>9, <1>10, <1>11, <1>12, <1>13 DEF ReadInv, ReadBody

\* The reader's own steps leave what the read may count on.
LEMMA HistoryKept ==
  ASSUME History, UNCHANGED <<size, written, op>>,
         rd'.low = rd.low, rd'.high = rd.high, rd'.sure = rd.sure, rd'.maybe = rd.maybe,
         rd'.calm = rd.calm
  PROVE  History'
<1>1. LowSize' = LowSize /\ HighSize' = HighSize
  BY DEF LowSize, HighSize
<1> QED
  BY <1>1 DEF History, Writing, Truncating

\* What a server's part of the read puts into the buffer.
Byte(s, l) == IF L2P(dist, s, l) \in data[s] THEN "data" ELSE "zero"
Filling(s, buf) ==
  LET L == OnFile(dist, s, rd.off, rd.len, psize[s], FALSE)
  IN  [l \in DOMAIN buf |-> IF l \in L THEN Byte(s, l) ELSE buf[l]]

\* The bytes of the pieces, put where the request has them in memory.
LEMMA ReadServerStep ==
  ASSUME FilesLaid, Shape, ReadTypes, NEW s \in Servers(dist), ReadServer(s)
  PROVE  /\ rd' = [rd EXCEPT !.todo = @ \ {s}, !.sizes[Slot(s)] = psize[s],
                             !.total = @ + Cardinality(OnFile(dist, s, rd.off, rd.len, psize[s], FALSE)),
                             !.buf = Filling(s, @)]
         /\ IsFiniteSet(OnFile(dist, s, rd.off, rd.len, psize[s], FALSE))
<1> DEFINE P == Pieces(dist, s, rd.off, rd.len, psize[s], FALSE)
           L == OnFile(dist, s, rd.off, rd.len, psize[s], FALSE)
           Q(l) == CHOOSE x \in P : l \in Bytes(x.loff, x.size)
           new == [l \in DOMAIN rd.buf |->
                     IF l \in Logical(P)
                     THEN IF Q(l).poff + (l - Q(l).loff) \in data[s] THEN "data" ELSE "zero"
                     ELSE rd.buf[l]]
<1>1. Layout(dist) /\ psize[s] \in Nat /\ rd.off \in Nat /\ rd.len \in Nat
  BY DistFacts, FieldTypes DEF Shape
<1>2. /\ Logical(P) = L /\ IsFiniteSet(L) /\ Length(P) = Cardinality(L)
      /\ \A x \in P : \A l \in Bytes(x.loff, x.size) : x.poff + (l - x.loff) = L2P(dist, s, l)
  <2>1. FALSE \in BOOLEAN
    OBVIOUS
  <2> QED
    BY <1>1, <2>1, PiecesFacts
<1>3. rd' = [rd EXCEPT !.todo = @ \ {s}, !.sizes[Slot(s)] = psize[s],
                       !.total = @ + Length(P), !.buf = new]
  BY Zenon DEF ReadServer
<1>4. ASSUME NEW l \in Logical(P) PROVE Q(l).poff + (l - Q(l).loff) = L2P(dist, s, l)
  <2> HIDE DEF P
  <2>1. \E x \in P : l \in Bytes(x.loff, x.size)
    BY DEF Logical
  <2>2. Q(l) \in P /\ l \in Bytes(Q(l).loff, Q(l).size)
    BY <2>1
  <2> HIDE DEF Q
  <2> QED
    BY <1>2, <2>2
<1>5. new = Filling(s, rd.buf)
  <2> HIDE DEF P, Q
  <2>1. \A l \in DOMAIN rd.buf :
           (IF l \in Logical(P)
            THEN IF Q(l).poff + (l - Q(l).loff) \in data[s] THEN "data" ELSE "zero"
            ELSE rd.buf[l]) = (IF l \in L THEN Byte(s, l) ELSE rd.buf[l])
    BY <1>2, <1>4 DEF Byte
  <2> QED
    BY <2>1 DEF Filling
<1> HIDE DEF new, P, L
<1> QED
  BY <1>2, <1>3, <1>5 DEF L

\* The part of one server arrives.
LEMMA ReadServerRead ==
  ASSUME FilesLaid, FileInv, ReadInv, NEW s \in Servers(dist), ReadServer(s)
  PROVE  ReadInv'
<1> DEFINE L == OnFile(dist, s, rd.off, rd.len, psize[s], FALSE)
<1>1. /\ rd # None /\ rd.phase = "io" /\ s \in rd.todo
      /\ UNCHANGED <<dist, psize, data, size, written, op>>
  BY DEF ReadServer
<1>2. /\ ReadTypes /\ ReadOf /\ PartRead /\ SizesRead /\ IoInv /\ History
  BY <1>1 DEF ReadInv, ReadBody
<1>3. /\ Shape /\ Laid(dist) /\ Layout(dist) /\ psize \in [Servers(dist) -> Nat]
      /\ psize[s] \in Nat
  BY DistFacts DEF FileInv, Shape
<1>4. /\ rd.low \in Nat /\ rd.high \in Nat /\ rd.sizes \in [Servers(dist) -> Nat]
      /\ rd.all \in [Servers(dist) -> Nat] /\ rd.off \in Nat /\ rd.len \in Nat
      /\ rd.index \subseteq Servers(dist) /\ rd.todo \subseteq Servers(dist) /\ rd.total \in Nat
      /\ rd.buf \in [Bytes(rd.off, rd.len) -> {"old", "data", "zero"}]
  BY <1>2, FieldTypes
<1>5. /\ rd' = [rd EXCEPT !.todo = @ \ {s}, !.sizes[Slot(s)] = psize[s],
                          !.total = @ + Cardinality(L), !.buf = Filling(s, @)]
      /\ IsFiniteSet(L)
  BY <1>2, <1>3, ReadServerStep
<1>6. Cardinality(L) \in Nat
  BY <1>5, FS_CardinalityType
<1> HIDE DEF L
<1>7. /\ rd'.phase = rd.phase /\ rd'.off = rd.off /\ rd'.len = rd.len /\ rd'.small = rd.small
      /\ rd'.index = rd.index /\ rd'.todo = rd.todo \ {s} /\ rd'.buf = Filling(s, rd.buf)
      /\ rd'.sizes = [rd.sizes EXCEPT ![Slot(s)] = psize[s]]
      /\ rd'.all = rd.all /\ rd'.total = rd.total + Cardinality(L)
      /\ rd'.low = rd.low /\ rd'.high = rd.high /\ rd'.sure = rd.sure /\ rd'.maybe = rd.maybe
      /\ rd'.calm = rd.calm
  BY <1>2, <1>5 DEF ReadTypes
<1>8. \A l : l \in L <=> l \in Bytes(rd.off, rd.len) /\ Owns(dist, s, l) /\ L2P(dist, s, l) < psize[s]
  BY DEF L, OnFile, Wanted
<1>9. /\ rd'.buf \in [Bytes(rd.off, rd.len) -> {"old", "data", "zero"}]
      /\ \A l \in Bytes(rd.off, rd.len) : rd'.buf[l] = IF l \in L THEN Byte(s, l) ELSE rd.buf[l]
  <2>1. rd'.buf = [l \in Bytes(rd.off, rd.len) |-> IF l \in L THEN Byte(s, l) ELSE rd.buf[l]]
    BY <1>4, <1>7 DEF Filling, L
  <2>2. \A l : Byte(s, l) \in {"data", "zero"}
    BY DEF Byte
  <2> QED
    BY <1>4, <2>1, <2>2
<1>10. /\ s \in rd.index /\ Slot(s) \in Servers(dist) /\ Slot(s) <= s
       /\ \A t \in rd.index : Slot(t) \in Servers(dist) /\ (t # s => Slot(t) # Slot(s))
       /\ rd.index = Servers(dist) => Slot(s) = s
       /\ rd.small => Slot(s) = s
  <2>1. s \in rd.index
    BY <1>1, <1>2 DEF IoInv
  <2> QED
    BY <1>2, <1>3, <2>1, SlotFacts DEF Slot
<1>11. \A t : Slot(t)' = Slot(t)
  BY <1>7 DEF Slot, Place
<1>12. Reading(s) /\ ~ Reading(s)' /\ \A t : t # s => (Reading(t)' <=> Reading(t))
  BY <1>1, <1>7 DEF Reading
<1>13. /\ rd'.sizes \in [Servers(dist) -> Nat] /\ rd'.sizes[Slot(s)] = psize[s]
       /\ \A i \in Servers(dist) : i # Slot(s) => rd'.sizes[i] = rd.sizes[i]
  BY <1>3, <1>4, <1>7, <1>10
<1>14. ReadTypes'
  <2>1. rd'.total \in Nat /\ rd'.todo \in SUBSET Servers(dist)
    BY <1>4, <1>6, <1>7
  <2> HIDE DEF Slot
  <2>2. rd' = [rd EXCEPT !.todo = rd'.todo, !.sizes = rd'.sizes, !.total = rd'.total, !.buf = rd'.buf]
    BY <1>2, <1>5, <1>7 DEF ReadTypes
  <2> QED
    BY <1>1, <1>2, <1>7, <1>9, <1>13, <2>1, <2>2 DEF ReadTypes
<1>15. ReadOf'
  BY <1>1, <1>2, <1>7 DEF ReadOf
<1>16. \A l \in Bytes(rd.off, rd.len) : Owns(dist, s, l) => rd.buf[l] = "old"
  BY <1>2, <1>10, <1>12 DEF PartRead, ByteRead
<1>17. ASSUME NEW t \in rd.index, NEW l \in Bytes(rd.off, rd.len), Owns(dist, t, l)
       PROVE  ByteRead(t, l)'
  <2>1. l \in Nat /\ t \in Servers(dist)
    BY <1>4 DEF Bytes
  <2>2. CASE t = s
    <3>1. /\ L2P(dist, s, l) \in Nat
          /\ l \in rd.sure => L2P(dist, s, l) \in data[s]
          /\ L2P(dist, s, l) \in data[s] => l \in rd.maybe
          /\ L2P(dist, s, l) \in data[s] => L2P(dist, s, l) < psize[s]
      BY <1>2, <1>17, <2>1, <2>2, GoalFacts
    <3>2. rd.buf[l] = "old" /\ (l \in L <=> L2P(dist, s, l) < psize[s])
      BY <1>8, <1>16, <1>17, <2>2
    <3>3. rd'.buf[l] # "old" <=> l \in L
      BY <1>9, <3>2 DEF Byte
    <3>4. rd'.buf[l] = "data" <=> L2P(dist, s, l) \in data[s]
      BY <1>9, <3>1, <3>2 DEF Byte
    <3> QED
      BY <1>1, <1>7, <1>11, <1>12, <1>13, <2>2, <3>1, <3>2, <3>3, <3>4 DEF ByteRead
  <2>3. CASE t # s
    <3>1. l \notin L
      BY <1>3, <1>8, <1>17, <2>1, <2>3, OwnerFacts
    <3>2. rd'.buf[l] = rd.buf[l] /\ rd'.sizes[Slot(t)] = rd.sizes[Slot(t)]
      BY <1>9, <1>10, <1>13, <2>3, <3>1
    <3>3. ByteRead(t, l)
      BY <1>2, <1>17 DEF PartRead
    <3>4. Reading(t)' <=> Reading(t)
      BY <1>12, <2>3
    <3>5. CASE Reading(t)
      BY <1>1, <1>7, <1>11, <3>2, <3>3, <3>4, <3>5 DEF ByteRead
    <3>6. CASE ~ Reading(t)
      BY <1>1, <1>7, <1>11, <3>2, <3>3, <3>4, <3>6 DEF ByteRead
    <3> QED
      BY <3>5, <3>6
  <2> QED
    BY <2>2, <2>3
<1>18. PartRead'
  BY <1>1, <1>7, <1>17 DEF PartRead
<1>19. psize[s] <= L2P(dist, s, rd.high) /\ L2P(dist, s, rd.high) \in Nat
  <2>1. psize[s] <= L2P(dist, s, HighSize) /\ HighSize \in Nat /\ HighSize <= rd.high
    BY <1>2, HighFacts DEF History
  <2> HIDE DEF HighSize
  <2>2. /\ L2P(dist, s, HighSize) <= L2P(dist, s, rd.high)
        /\ L2P(dist, s, HighSize) \in Nat /\ L2P(dist, s, rd.high) \in Nat
    BY <1>3, <1>4, <2>1, LayoutFacts
  <2> QED
    BY <1>3, <2>1, <2>2
<1>20. SizesRead'
  <2>1. ASSUME NEW i \in Servers(dist) PROVE rd'.sizes[i] <= L2P(dist, i, rd.high)
    <3>1. CASE i = Slot(s)
      <4>1. L2P(dist, s, rd.high) <= L2P(dist, i, rd.high) /\ L2P(dist, i, rd.high) \in Nat
        BY <1>3, <1>4, <1>10, <3>1, LaterHasFewer, LayoutFacts
      <4> QED
        BY <1>3, <1>13, <1>19, <3>1, <4>1
    <3>2. CASE i # Slot(s)
      BY <1>2, <1>13, <3>2 DEF SizesRead, Top
    <3> QED
      BY <3>1, <3>2
  <2>2. ASSUME NEW t \in rd.index, ~ Reading(t)'
        PROVE  /\ rd'.sizes[Slot(t)] <= L2P(dist, t, rd.high)
               /\ rd.calm => rd'.sizes[Slot(t)] = psize[t]
    <3>1. CASE t = s
      BY <1>13, <1>19, <3>1
    <3>2. CASE t # s
      <4>1. ~ Reading(t) /\ rd'.sizes[Slot(t)] = rd.sizes[Slot(t)]
        BY <1>10, <1>12, <1>13, <2>2, <3>2
      <4> QED
        BY <1>2, <4>1 DEF SizesRead
    <3> QED
      BY <3>1, <3>2
  <2>3. ASSUME rd.small, NEW i \in Servers(dist) \ rd.index PROVE rd'.sizes[i] = 0
    <3>1. i # Slot(s) /\ rd.sizes[i] = 0
      BY <1>2, <1>10, <2>3 DEF SizesRead
    <3> QED
      BY <1>13, <3>1
  <2>4. Top(dist, rd'.sizes, rd.high)
    BY <2>1 DEF Top
  <2> QED
    BY <1>1, <1>7, <1>11, <2>2, <2>3, <2>4 DEF SizesRead
<1>21. rd'.total = Cardinality(Got)'
  <2>1. Got' = Got \cup L /\ Got \cap L = {}
    <3>1. \A l \in L : l \in Bytes(rd.off, rd.len) /\ rd.buf[l] = "old" /\ rd'.buf[l] # "old"
      BY <1>8, <1>9, <1>16 DEF Byte
    <3>2. \A l \in Bytes(rd.off, rd.len) : l \notin L => rd'.buf[l] = rd.buf[l]
      BY <1>9
    <3>3. Got' = {l \in Bytes(rd.off, rd.len) : rd'.buf[l] # "old"}
      BY <1>7 DEF Got
    <3> QED
      BY <3>1, <3>2, <3>3 DEF Got
  <2>2. IsFiniteSet(Got)
    <3>1. rd.off \in Int /\ rd.off + rd.len - 1 \in Int
      BY <1>4
    <3>2. IsFiniteSet(Bytes(rd.off, rd.len))
      BY <3>1, FS_Interval DEF Bytes
    <3>3. Got \in SUBSET Bytes(rd.off, rd.len)
      BY DEF Got
    <3> QED
      BY <3>2, <3>3, FS_Subset
  <2>3. Cardinality(Got \cup L) = Cardinality(Got) + Cardinality(L) - Cardinality(Got \cap L)
    BY <1>5, <2>2, FS_Union
  <2>4. Cardinality(Got \cap L) = 0 /\ Cardinality(Got) \in Nat
    BY <2>1, <2>2, FS_EmptySet, FS_CardinalityType
  <2>5. rd.total = Cardinality(Got)
    BY <1>2 DEF IoInv
  <2> HIDE DEF Got
  <2> QED
    BY <1>6, <1>7, <2>1, <2>3, <2>4, <2>5
<1>22. IoInv'
  <2>1. ASSUME rd.index = Servers(dist)
        PROVE  Mixed(rd.todo, psize, rd.sizes)' = Mixed(rd.todo, psize, rd.sizes)
    <3>1. Slot(s) = s /\ psize' = psize /\ dist' = dist
      BY <1>1, <1>10, <2>1
    <3>2. \A i \in Servers(dist) :
             (IF i \in rd'.todo THEN psize'[i] ELSE rd'.sizes[i])
               = IF i \in rd.todo THEN psize[i] ELSE rd.sizes[i]
      BY <1>1, <1>7, <1>13, <3>1
    <3> QED
      BY <3>1, <3>2 DEF Mixed
  <2>2. rd'.todo \subseteq rd.index /\ rd'.all = [i \in Servers(dist) |-> 0]
    BY <1>2, <1>7 DEF IoInv
  <2>3. rd.index = Servers(dist) => Floor(dist, Mixed(rd.todo, psize, rd.sizes), rd.low)
    BY <1>2 DEF IoInv
  <2> QED
    BY <1>1, <1>7, <1>21, <2>1, <2>2, <2>3 DEF IoInv
<1>23. History'
  BY <1>1, <1>2, <1>7, HistoryKept
<1> QED
  BY <1>1, <1>7, <1>14, <1>15, <1>18, <1>20, <1>22, <1>23 DEF ReadInv, ReadBody

\* io_zero_fill_holes: the bytes of the region past the datafile's end and below the file's.
LEMMA HolesFacts ==
  ASSUME NEW d, Layout(d), NEW s \in Servers(d), NEW a \in Nat, NEW eof \in Nat,
         NEW off \in Nat, NEW len \in Nat, NEW l
  PROVE  l \in Holes(d, s, a, eof, off, len) <=>
           l \in Bytes(off, len) /\ Owns(d, s, l) /\ a <= L2P(d, s, l) /\ l < eof
<1> DEFINE real == L2P(d, s, eof)
           P == Pieces(d, s, off, len, 0, TRUE)
<1>1. real \in Nat /\ P2L(d, s, a) \in Nat /\ P2L(d, s, real) \in Nat
  BY LayoutFacts
<1>2. Logical(P) = OnFile(d, s, off, len, 0, TRUE)
  <2>1. 0 \in Nat /\ TRUE \in BOOLEAN
    OBVIOUS
  <2> QED
    BY <2>1, PiecesFacts
<1>3. l \in Logical(P) <=> l \in Bytes(off, len) /\ Owns(d, s, l)
  BY <1>2 DEF OnFile, Wanted
<1>4. Holes(d, s, a, eof, off, len) =
        IF a >= real THEN {} ELSE Logical(P) \cap P2L(d, s, a)..(P2L(d, s, real) - 1)
  BY DEF Holes
<1> HIDE DEF P
<1>5. CASE ~ (l \in Bytes(off, len) /\ Owns(d, s, l))
  BY <1>3, <1>4, <1>5
<1>6. CASE l \in Bytes(off, len) /\ Owns(d, s, l)
  <2>1. l \in Nat
    BY <1>6 DEF Bytes
  <2>2. L2P(d, s, l) \in Nat
    BY <2>1, LayoutFacts
  <2>3. /\ l < eof <=> L2P(d, s, l) < real
        /\ l < P2L(d, s, a) <=> L2P(d, s, l) < a
        /\ l < P2L(d, s, real) <=> L2P(d, s, l) < real
    BY <1>1, <1>6, <2>1, OwnedBelow
  <2> HIDE DEF real
  <2>4. l \in P2L(d, s, a)..(P2L(d, s, real) - 1) <=> a <= L2P(d, s, l) /\ l < eof
    BY <1>1, <2>1, <2>2, <2>3
  <2>5. a >= real => ~ (a <= L2P(d, s, l) /\ l < eof)
    BY <1>1, <2>1, <2>2, <2>3
  <2> QED
    BY <1>3, <1>4, <1>6, <2>4, <2>5
<1> QED
  BY <1>5, <1>6

\* The datafiles of the region have all answered.
Answered == (rd.phase = "io" /\ rd.todo = {}) \/ rd.phase = "sizes"

\* What is in the buffer then, byte by byte.
LEMMA AnsweredFacts ==
  ASSUME FilesLaid, Shape, ReadBody, Answered, NEW l \in Bytes(rd.off, rd.len)
  PROVE  /\ l \in Nat
         /\ \E s \in rd.index :
              /\ s \in Servers(dist) /\ Owns(dist, s, l)
              /\ L2P(dist, s, l) \in Nat /\ Slot(s) \in Servers(dist) /\ rd.sizes[Slot(s)] \in Nat
              /\ rd.buf[l] # "old" <=> L2P(dist, s, l) < rd.sizes[Slot(s)]
              /\ rd.sizes[Slot(s)] <= L2P(dist, s, rd.high)
              /\ rd.calm => rd.sizes[Slot(s)] = psize[s]
              /\ \A t \in Servers(dist) : Owns(dist, t, l) => t = s
         /\ rd.buf[l] = "data" => l \in rd.maybe
         /\ l \in rd.sure => rd.buf[l] = "data"
<1>1. ReadTypes /\ ReadOf /\ PartRead /\ SizesRead /\ Layout(dist)
  BY DistFacts DEF ReadBody, Answered
<1>2. rd.off \in Nat /\ rd.len \in Nat /\ rd.sizes \in [Servers(dist) -> Nat]
  BY <1>1, FieldTypes
<1>3. l \in Nat
  BY <1>2 DEF Bytes
<1>4. PICK s \in Servers(dist) : Owns(dist, s, l)
  BY <1>1, <1>3, OwnerFacts
<1>5. s \in rd.index /\ ~ Reading(s)
  BY <1>1, <1>4 DEF ReadOf, Reading, Answered
<1>6. Slot(s) \in Servers(dist) /\ rd.sizes[Slot(s)] \in Nat
  BY <1>1, <1>2, <1>5, SlotFacts
<1>7. ByteRead(s, l)
  BY <1>1, <1>4, <1>5 DEF PartRead
<1>8. /\ rd.sizes[Slot(s)] <= L2P(dist, s, rd.high)
      /\ rd.calm => rd.sizes[Slot(s)] = psize[s]
  BY <1>1, <1>5 DEF SizesRead
<1>9. L2P(dist, s, l) \in Nat /\ \A t \in Servers(dist) : Owns(dist, t, l) => t = s
  BY <1>1, <1>3, <1>4, LayoutFacts, OwnerFacts
<1>10. /\ rd.buf[l] # "old" <=> L2P(dist, s, l) < rd.sizes[Slot(s)]
       /\ rd.buf[l] = "data" => l \in rd.maybe
       /\ l \in rd.sure => rd.buf[l] = "data"
  BY <1>5, <1>7 DEF ByteRead
<1> QED
  BY <1>3, <1>4, <1>5, <1>6, <1>8, <1>9, <1>10

\* The end of a read: the size it returns is right, the holes are no bytes it may count on,
\* and what was not read is a hole.
LEMMA FinishedRead ==
  ASSUME FilesLaid, FileInv, ReadInv, rd # None, Answered, NEW c \in Nat, NEW H,
         rd' = [rd EXCEPT !.phase = "done", !.completed = c, !.buf = Filled(H)],
         UNCHANGED <<dist, psize, data, size, written, op>>,
         Within(rd.off, rd.len, rd.low) <= c, c <= Within(rd.off, rd.len, rd.high),
         \A l \in Bytes(rd.off, rd.len) : l \in H => l \notin rd.sure,
         rd.calm => \A l \in Bytes(rd.off, c) : rd.buf[l] = "old" => l \in H
  PROVE  ReadInv'
<1>1. Shape /\ ReadBody /\ ReadTypes /\ ReadOf /\ History
  BY DEF ReadInv, ReadBody, FileInv
<1>2. /\ rd.off \in Nat /\ rd.len \in Nat /\ rd.high \in Nat
      /\ rd.buf \in [Bytes(rd.off, rd.len) -> {"old", "data", "zero"}]
  BY <1>1, FieldTypes
<1>3. /\ Filled(H) \in [Bytes(rd.off, rd.len) -> {"old", "data", "zero"}]
      /\ \A l \in Bytes(rd.off, rd.len) : Filled(H)[l] = IF l \in H THEN "zero" ELSE rd.buf[l]
  BY <1>2 DEF Filled
<1> HIDE DEF Filled
<1>4. /\ rd'.phase = "done" /\ rd'.off = rd.off /\ rd'.len = rd.len /\ rd'.small = rd.small
      /\ rd'.index = rd.index /\ rd'.buf = Filled(H) /\ rd'.completed = c
      /\ rd'.low = rd.low /\ rd'.high = rd.high /\ rd'.sure = rd.sure /\ rd'.maybe = rd.maybe
      /\ rd'.calm = rd.calm
  BY <1>1 DEF ReadTypes
<1>5. ReadTypes'
  BY <1>1, <1>3, <1>4 DEF ReadTypes
<1>6. ReadOf'
  BY <1>1, <1>4 DEF ReadOf
<1>7. Bytes(rd.off, c) \subseteq Bytes(rd.off, rd.len)
  <2>1. Within(rd.off, rd.len, rd.high) \in Nat /\ Within(rd.off, rd.len, rd.high) <= rd.len
    BY <1>2 DEF Within
  <2>2. c <= rd.len
    BY <1>2, <2>1
  <2> QED
    BY <1>2, <2>2 DEF Bytes
<1>8. ASSUME NEW l \in Bytes(rd.off, c)
      PROVE  /\ l \in rd.sure => Filled(H)[l] = "data"
             /\ Filled(H)[l] = "data" => l \in rd.maybe
             /\ rd.calm => Filled(H)[l] # "old"
  <2>1. l \in Bytes(rd.off, rd.len)
    BY <1>7
  <2>2. /\ rd.buf[l] = "data" => l \in rd.maybe
        /\ l \in rd.sure => rd.buf[l] = "data"
    BY <1>1, <2>1, AnsweredFacts
  <2> QED
    BY <1>3, <2>1, <2>2
<1>9. DoneInv'
  BY <1>4, <1>8 DEF DoneInv
<1>10. History'
  BY <1>1, <1>4, HistoryKept
<1> QED
  BY <1>4, <1>5, <1>6, <1>9, <1>10 DEF ReadInv, ReadBody

\* Everything was read: the file is at least as long as the region.
LEMMA FullRead ==
  ASSUME FilesLaid, FileInv, ReadInv, rd # None, rd.phase = "io", rd.todo = {}, rd.total = rd.len,
         rd' = [rd EXCEPT !.phase = "done", !.completed = rd.len],
         UNCHANGED <<dist, psize, data, size, written, op>>
  PROVE  ReadInv'
<1>1. Shape /\ Layout(dist) /\ ReadBody /\ ReadTypes /\ IoInv /\ Answered
  BY DistFacts DEF ReadInv, ReadBody, FileInv, Answered
<1>2. /\ rd.off \in Nat /\ rd.len \in Nat /\ rd.len # 0 /\ rd.low \in Nat /\ rd.high \in Nat
      /\ rd.buf \in [Bytes(rd.off, rd.len) -> {"old", "data", "zero"}]
  BY <1>1, FieldTypes
<1>3. Got = Bytes(rd.off, rd.len)
  <2>1. rd.off \in Int /\ rd.off + rd.len - 1 \in Int
    BY <1>2
  <2>2. /\ IsFiniteSet(Bytes(rd.off, rd.len))
        /\ Cardinality(Bytes(rd.off, rd.len)) =
             IF rd.off > rd.off + rd.len - 1 THEN 0 ELSE (rd.off + rd.len - 1) - rd.off + 1
    BY <2>1, FS_Interval DEF Bytes
  <2>3. Cardinality(Bytes(rd.off, rd.len)) = rd.len
    BY <1>2, <2>2
  <2>4. Got \in SUBSET Bytes(rd.off, rd.len) /\ Cardinality(Got) = rd.len
    BY <1>1 DEF Got, IoInv
  <2> QED
    BY <2>2, <2>3, <2>4, FS_Subset
<1>4. \A l \in Bytes(rd.off, rd.len) : rd.buf[l] # "old"
  BY <1>3 DEF Got
<1>5. rd.off + rd.len <= rd.high
  <2> DEFINE l == rd.off + rd.len - 1
  <2>1. l \in Bytes(rd.off, rd.len) /\ l \in Nat
    BY <1>2 DEF Bytes
  <2>2. PICK s \in Servers(dist) :
          /\ Owns(dist, s, l) /\ L2P(dist, s, l) \in Nat /\ rd.sizes[Slot(s)] \in Nat
          /\ L2P(dist, s, l) < rd.sizes[Slot(s)] /\ rd.sizes[Slot(s)] <= L2P(dist, s, rd.high)
    <3> HIDE DEF l
    <3> QED
      BY <1>1, <1>4, <2>1, AnsweredFacts
  <2>3. L2P(dist, s, rd.high) \in Nat
    BY <1>1, <1>2, LayoutFacts
  <2>4. L2P(dist, s, l) < L2P(dist, s, rd.high)
    BY <2>2, <2>3
  <2>5. l < rd.high
    <3> HIDE DEF l
    <3> QED
      BY <1>1, <1>2, <2>1, <2>2, <2>4, OwnedBelow
  <2> QED
    BY <1>2, <2>5
<1>6. /\ Within(rd.off, rd.len, rd.low) <= rd.len /\ rd.len <= Within(rd.off, rd.len, rd.high)
  BY <1>2, <1>5 DEF Within
<1>7. Filled({}) = rd.buf
  BY <1>2 DEF Filled
<1>8. rd' = [rd EXCEPT !.phase = "done", !.completed = rd.len, !.buf = Filled({})]
  BY <1>1, <1>7 DEF ReadTypes
<1>9. Bytes(rd.off, rd.len) = Bytes(rd.off, rd.len) /\ \A l : l \notin {}
  OBVIOUS
<1> HIDE DEF Filled
<1> QED
  BY <1>1, <1>2, <1>4, <1>6, <1>8, <1>9, FinishedRead

\* The size found for a datafile at its position in datafile_index_array is its
\* own: a small read that uses another one has seen no file that long.
LEMMA IndexPlaces ==
  ASSUME FilesLaid, FileInv, ReadInv, rd # None, rd.phase = "io", rd.todo = {}, rd.total # rd.len,
         FileSize(dist, rd.sizes) > rd.off + rd.len
  PROVE  \A s \in rd.index : Place(s) = Slot(s)
<1>1. Shape /\ Layout(dist) /\ Laid(dist) /\ ReadBody /\ ReadTypes /\ ReadOf /\ SizesRead /\ IoInv /\ Answered
  BY DistFacts DEF ReadInv, ReadBody, FileInv, Answered
<1>2. /\ rd.off \in Nat /\ rd.len \in Nat /\ rd.sizes \in [Servers(dist) -> Nat]
      /\ rd.index \subseteq Servers(dist) /\ dist.ct \in Nat
  BY <1>1, FieldTypes, DistFacts
<1> SUFFICES ASSUME NEW s \in rd.index, rd.small, Place(s) # s PROVE FALSE
  BY DEF Slot
<1>3. dist.ct <= 2 /\ \A i \in Servers(dist) : i = 0 \/ i = 1
  BY <1>1, <1>2 DEF ReadOf, Servers
<1>4. /\ \A t \in rd.index : Place(t) \in Servers(dist) /\ Place(t) <= t
      /\ \A t, u \in rd.index : t # u => Place(t) # Place(u)
  BY <1>1, PlaceFacts
<1>5. s = 1 /\ 0 \notin rd.index
  <2>1. s = 1 /\ Place(s) = 0
    <3>1. s \in Servers(dist) /\ Place(s) \in Servers(dist) /\ Place(s) <= s
      BY <1>2, <1>4
    <3> QED
      BY <1>3, <3>1
  <2>2. 0 \in rd.index => Place(0) = 0
    BY <1>2, <1>3, <1>4
  <2> QED
    BY <1>4, <2>1, <2>2
<1>6. PICK l \in Bytes(rd.off, rd.len) : rd.buf[l] = "old"
  <2> SUFFICES ASSUME \A l \in Bytes(rd.off, rd.len) : rd.buf[l] # "old" PROVE FALSE
    OBVIOUS
  <2>1. Got = Bytes(rd.off, rd.len)
    BY DEF Got
  <2>2. rd.off \in Int /\ rd.off + rd.len - 1 \in Int
    BY <1>2
  <2>3. Cardinality(Bytes(rd.off, rd.len)) =
             IF rd.off > rd.off + rd.len - 1 THEN 0 ELSE (rd.off + rd.len - 1) - rd.off + 1
    BY <2>2, FS_Interval DEF Bytes
  <2>4. Cardinality(Bytes(rd.off, rd.len)) = rd.len
    BY <1>2, <2>3
  <2> QED
    BY <1>1, <2>1, <2>4 DEF IoInv
<1>7. /\ l \in Nat
      /\ \E t \in rd.index : L2P(dist, t, l) \in Nat /\ rd.sizes[Slot(t)] \in Nat
                             /\ ~ (L2P(dist, t, l) < rd.sizes[Slot(t)])
  BY <1>1, <1>6, AnsweredFacts
<1>8. \A t \in rd.index : t = 1 /\ Slot(t) = 1
  BY <1>2, <1>3, <1>5 DEF Slot
<1>9. rd.sizes[1] <= L2P(dist, 1, l)
  BY <1>7, <1>8
<1>10. Top(dist, rd.sizes, l)
  <2> SUFFICES ASSUME NEW i \in Servers(dist) PROVE rd.sizes[i] <= L2P(dist, i, l)
    BY DEF Top
  <2>1. CASE i = 1
    BY <1>9, <2>1
  <2>2. CASE i = 0
    <3>1. rd.sizes[i] = 0 /\ L2P(dist, i, l) \in Nat
      BY <1>1, <1>5, <1>7, <2>2, LayoutFacts DEF SizesRead
    <3> QED
      BY <3>1
  <2> QED
    BY <1>3, <2>1, <2>2
<1>11. FileSize(dist, rd.sizes) \in Nat /\ FileSize(dist, rd.sizes) <= l
  BY <1>1, <1>2, <1>7, <1>10, SizeFacts
<1>12. l < rd.off + rd.len
  BY <1>2, <1>6 DEF Bytes
<1> QED
  BY <1>2, <1>7, <1>11, <1>12

\* The datafiles of the region go on: what was not read is a hole of the file.
LEMMA HoleRead ==
  ASSUME FilesLaid, FileInv, ReadInv, rd # None, rd.phase = "io", rd.todo = {}, rd.total # rd.len,
         FileSize(dist, rd.sizes) > rd.off + rd.len,
         rd' = [rd EXCEPT !.phase = "done", !.completed = rd.len,
                          !.buf = Filled(IndexHoles(rd.sizes, FileSize(dist, rd.sizes)))],
         UNCHANGED <<dist, psize, data, size, written, op>>
  PROVE  ReadInv'
<1> DEFINE top == FileSize(dist, rd.sizes)
           H == IndexHoles(rd.sizes, top)
<1>1. Shape /\ Layout(dist) /\ Laid(dist) /\ ReadBody /\ ReadTypes /\ SizesRead /\ Answered
  BY DistFacts DEF ReadInv, ReadBody, FileInv, Answered
<1>2. /\ rd.off \in Nat /\ rd.len \in Nat /\ rd.sizes \in [Servers(dist) -> Nat]
      /\ rd.low \in Nat /\ rd.high \in Nat /\ rd.index \subseteq Servers(dist)
  BY <1>1, FieldTypes
<1>3. top \in Nat /\ top <= rd.high
  BY <1>1, <1>2, SizeFacts DEF SizesRead
<1>4. \A s \in rd.index : Place(s) = Slot(s) /\ Slot(s) \in Servers(dist)
  BY <1>1, IndexPlaces, SlotFacts
<1>5. top > rd.off + rd.len
  OBVIOUS
<1>6. /\ Within(rd.off, rd.len, rd.low) <= rd.len /\ rd.len <= Within(rd.off, rd.len, rd.high)
  <2> HIDE DEF top
  <2> QED
    BY <1>2, <1>3, <1>5 DEF Within
<1>7. H = UNION {Holes(dist, s, rd.sizes[Place(s)], top, rd.off, rd.len) : s \in rd.index}
  BY DEF IndexHoles
<1> HIDE DEF top, H
<1>8. ASSUME NEW l \in Bytes(rd.off, rd.len) PROVE l \in H <=> rd.buf[l] = "old"
  <2>1. PICK s \in rd.index :
          /\ s \in Servers(dist) /\ Owns(dist, s, l) /\ l \in Nat
          /\ L2P(dist, s, l) \in Nat /\ Slot(s) \in Servers(dist) /\ rd.sizes[Slot(s)] \in Nat
          /\ rd.buf[l] # "old" <=> L2P(dist, s, l) < rd.sizes[Slot(s)]
          /\ \A t \in Servers(dist) : Owns(dist, t, l) => t = s
    BY <1>1, AnsweredFacts
  <2>2. ASSUME NEW t \in rd.index
        PROVE  l \in Holes(dist, t, rd.sizes[Place(t)], top, rd.off, rd.len) <=>
                 Owns(dist, t, l) /\ rd.sizes[Slot(t)] <= L2P(dist, t, l) /\ l < top
    <3>1. t \in Servers(dist) /\ Place(t) = Slot(t) /\ rd.sizes[Place(t)] \in Nat
      BY <1>2, <1>4
    <3> HIDE DEF Slot, Place
    <3> QED
      BY <1>1, <1>2, <1>3, <3>1, HolesFacts
  <2>3. l < top
    BY <1>2, <1>3, <1>5, <2>1 DEF Bytes
  <2>4. l \in H <=> rd.sizes[Slot(s)] <= L2P(dist, s, l)
    BY <1>2, <1>7, <2>1, <2>2, <2>3
  <2> QED
    BY <2>1, <2>4
<1>9. \A l \in Bytes(rd.off, rd.len) : l \in H => l \notin rd.sure
  <2> SUFFICES ASSUME NEW l \in Bytes(rd.off, rd.len), l \in H PROVE l \notin rd.sure
    OBVIOUS
  <2>1. l \in rd.sure => rd.buf[l] = "data"
    BY <1>1, AnsweredFacts
  <2> QED
    BY <1>8, <2>1
<1>10. rd' = [rd EXCEPT !.phase = "done", !.completed = rd.len, !.buf = Filled(H)]
  BY DEF H, top
<1> HIDE DEF Filled
<1> QED
  BY <1>1, <1>2, <1>6, <1>8, <1>9, <1>10, FinishedRead

\* Every datafile was read: their sizes are the file's.
LEMMA WholeRead ==
  ASSUME FilesLaid, FileInv, ReadInv, rd # None, rd.phase = "io", rd.todo = {}, rd.total # rd.len,
         FileSize(dist, rd.sizes) <= rd.off + rd.len, Cardinality(rd.index) = dist.ct,
         rd' = [rd EXCEPT !.phase = "done",
                          !.completed = TotalSize(rd.off, FileSize(dist, rd.sizes)),
                          !.buf = Filled(AllHoles(rd.sizes, rd.off + rd.len))],
         UNCHANGED <<dist, psize, data, size, written, op>>
  PROVE  ReadInv'
<1> DEFINE top == FileSize(dist, rd.sizes)
           eor == rd.off + rd.len
           H == AllHoles(rd.sizes, eor)
           c == TotalSize(rd.off, top)
<1>1. Shape /\ Layout(dist) /\ Laid(dist) /\ ReadBody /\ ReadTypes /\ SizesRead /\ IoInv /\ Answered
  BY DistFacts DEF ReadInv, ReadBody, FileInv, Answered
<1>2. /\ rd.off \in Nat /\ rd.len \in Nat /\ rd.sizes \in [Servers(dist) -> Nat]
      /\ rd.low \in Nat /\ rd.high \in Nat /\ rd.index \subseteq Servers(dist)
      /\ IsFiniteSet(Servers(dist)) /\ dist.ct \in Nat \ {0}
  BY <1>1, FieldTypes, DistFacts
<1>3. rd.index = Servers(dist)
  <2>1. 0 \in Int /\ dist.ct - 1 \in Int
    BY <1>2
  <2>2. Cardinality(Servers(dist)) = IF 0 > dist.ct - 1 THEN 0 ELSE (dist.ct - 1) - 0 + 1
    BY <2>1, FS_Interval DEF Servers
  <2>3. Cardinality(Servers(dist)) = dist.ct
    BY <1>2, <2>2
  <2>4. rd.index \in SUBSET Servers(dist)
    BY <1>2
  <2> HIDE DEF Servers
  <2> QED
    BY <1>2, <2>3, <2>4, FS_Subset
<1>4. \A s \in Servers(dist) : Slot(s) = s
  BY <1>1, <1>3, SlotFacts
<1>5. Mixed(rd.todo, psize, rd.sizes) = rd.sizes
  BY <1>2 DEF Mixed
<1>6. Floor(dist, rd.sizes, rd.low)
  BY <1>1, <1>3, <1>5 DEF IoInv
<1>7. top \in Nat /\ top <= rd.high /\ rd.low <= top /\ top <= eor
  BY <1>1, <1>2, <1>6, SizeFacts DEF SizesRead
<1> HIDE DEF top
<1>8. c = IF top <= rd.off THEN 0 ELSE top - rd.off
  BY <1>2, <1>7, WithinFacts
<1> HIDE DEF c
<1>9. /\ c \in Nat /\ Within(rd.off, rd.len, rd.low) <= c /\ c <= Within(rd.off, rd.len, rd.high)
  BY <1>2, <1>7, <1>8 DEF Within
<1>10. H = UNION {Holes(dist, s, rd.sizes[s], eor, rd.off, rd.len) : s \in Servers(dist)}
  BY DEF AllHoles
<1> HIDE DEF H
<1>11. ASSUME NEW l \in Bytes(rd.off, rd.len) PROVE l \in H <=> rd.buf[l] = "old"
  <2>1. PICK s \in rd.index :
          /\ s \in Servers(dist) /\ Owns(dist, s, l) /\ l \in Nat
          /\ L2P(dist, s, l) \in Nat /\ Slot(s) \in Servers(dist) /\ rd.sizes[Slot(s)] \in Nat
          /\ rd.buf[l] # "old" <=> L2P(dist, s, l) < rd.sizes[Slot(s)]
          /\ \A t \in Servers(dist) : Owns(dist, t, l) => t = s
    BY <1>1, AnsweredFacts
  <2>2. ASSUME NEW t \in Servers(dist)
        PROVE  l \in Holes(dist, t, rd.sizes[t], eor, rd.off, rd.len) <=>
                 Owns(dist, t, l) /\ rd.sizes[t] <= L2P(dist, t, l) /\ l < eor
    <3>1. eor \in Nat /\ rd.sizes[t] \in Nat
      BY <1>2
    <3> HIDE DEF eor
    <3> QED
      BY <1>1, <1>2, <3>1, HolesFacts
  <2>3. l < eor
    BY <1>2, <2>1 DEF Bytes
  <2>4. l \in H <=> rd.sizes[s] <= L2P(dist, s, l)
    BY <1>10, <2>1, <2>2, <2>3
  <2> QED
    BY <1>4, <2>1, <2>4
<1>12. \A l \in Bytes(rd.off, rd.len) : l \in H => l \notin rd.sure
  <2> SUFFICES ASSUME NEW l \in Bytes(rd.off, rd.len), l \in H PROVE l \notin rd.sure
    OBVIOUS
  <2>1. l \in rd.sure => rd.buf[l] = "data"
    BY <1>1, AnsweredFacts
  <2> QED
    BY <1>11, <2>1
<1>13. \A l \in Bytes(rd.off, c) : l \in Bytes(rd.off, rd.len)
  BY <1>2, <1>7, <1>8, <1>9 DEF Bytes
<1>14. rd' = [rd EXCEPT !.phase = "done", !.completed = c, !.buf = Filled(H)]
  BY DEF H, top, c
<1> HIDE DEF Filled
<1> QED
  BY <1>1, <1>2, <1>9, <1>11, <1>12, <1>13, <1>14, FinishedRead

\* Some datafiles have no part of the region: all are asked for their sizes.
LEMMA AskSizes ==
  ASSUME FilesLaid, FileInv, ReadInv, rd # None, rd.phase = "io", rd.todo = {},
         rd' = [rd EXCEPT !.phase = "sizes", !.todo = Servers(dist)],
         UNCHANGED <<dist, psize, data, size, written, op>>
  PROVE  ReadInv'
<1>1. /\ Shape /\ Layout(dist) /\ Laid(dist) /\ ReadTypes /\ ReadOf /\ PartRead /\ SizesRead
      /\ IoInv /\ History /\ psize \in [Servers(dist) -> Nat]
  BY DistFacts DEF ReadInv, ReadBody, FileInv, Shape
<1>2. rd.low \in Nat /\ rd.high \in Nat
  BY <1>1, FieldTypes
<1>3. /\ rd'.phase = "sizes" /\ rd'.off = rd.off /\ rd'.len = rd.len /\ rd'.small = rd.small
      /\ rd'.index = rd.index /\ rd'.todo = Servers(dist) /\ rd'.buf = rd.buf
      /\ rd'.sizes = rd.sizes /\ rd'.all = rd.all
      /\ rd'.low = rd.low /\ rd'.high = rd.high /\ rd'.sure = rd.sure /\ rd'.maybe = rd.maybe
      /\ rd'.calm = rd.calm
  BY <1>1 DEF ReadTypes
<1>4. ReadTypes'
  BY <1>1, <1>3 DEF ReadTypes
<1>5. ReadOf'
  BY <1>1, <1>3 DEF ReadOf
<1>6. \A s : ~ Reading(s) /\ ~ Reading(s)' /\ Slot(s)' = Slot(s)
  BY <1>3 DEF Reading, Slot, Place
<1>7. PartRead'
  <2>1. ASSUME NEW s, NEW l, ByteRead(s, l) PROVE ByteRead(s, l)'
    BY <1>3, <1>6, <2>1 DEF ByteRead
  <2> QED
    BY <1>1, <1>3, <2>1 DEF PartRead
<1>8. SizesRead'
  BY <1>1, <1>3, <1>6 DEF SizesRead
<1>9. SizesInv'
  <2>1. Mixed(rd.todo, psize, rd.all)' = psize
    BY <1>1, <1>3 DEF Mixed
  <2>2. Floor(dist, psize, rd.low)
    <3>1. Floor(dist, psize, LowSize) /\ LowSize \in Nat /\ rd.low <= LowSize
      BY <1>1, FloorLow, HighFacts DEF History
    <3>2. \A s \in Servers(dist) : psize[s] <= psize[s]
      BY <1>1
    <3> HIDE DEF LowSize
    <3> QED
      BY <1>1, <1>2, <3>1, <3>2, FloorFacts
  <2>3. Top(dist, rd.all, rd.high)
    <3>1. ASSUME NEW s \in Servers(dist) PROVE 0 <= L2P(dist, s, rd.high)
      BY <1>1, <1>2, LayoutFacts
    <3>2. \A s \in Servers(dist) : rd.all[s] = 0
      BY <1>1 DEF IoInv
    <3> QED
      BY <3>1, <3>2 DEF Top
  <2> QED
    BY <1>3, <2>1, <2>2, <2>3 DEF SizesInv
<1>10. History'
  BY <1>1, <1>3, HistoryKept
<1> QED
  BY <1>3, <1>4, <1>5, <1>7, <1>8, <1>9, <1>10 DEF ReadInv, ReadBody

\* io_analyze_results.
LEMMA AnalyzeRead ==
  ASSUME FilesLaid, FileInv, ReadInv, Analyze
  PROVE  ReadInv'
<1>1. /\ rd # None /\ rd.phase = "io" /\ rd.todo = {}
      /\ UNCHANGED <<dist, psize, data, size, written, op>>
  BY DEF Analyze
<1>2. CASE /\ rd.total = rd.len
           /\ rd' = [rd EXCEPT !.phase = "done", !.completed = rd.len]
  BY <1>1, <1>2, FullRead
<1>3. CASE /\ rd.total # rd.len /\ FileSize(dist, rd.sizes) > rd.off + rd.len
           /\ rd' = [rd EXCEPT !.phase = "done", !.completed = rd.len,
                               !.buf = Filled(IndexHoles(rd.sizes, FileSize(dist, rd.sizes)))]
  BY <1>1, <1>3, HoleRead
<1>4. CASE /\ rd.total # rd.len /\ FileSize(dist, rd.sizes) <= rd.off + rd.len
           /\ Cardinality(rd.index) = dist.ct
           /\ rd' = [rd EXCEPT !.phase = "done",
                               !.completed = TotalSize(rd.off, FileSize(dist, rd.sizes)),
                               !.buf = Filled(AllHoles(rd.sizes, rd.off + rd.len))]
  BY <1>1, <1>4, WholeRead
<1>5. CASE rd' = [rd EXCEPT !.phase = "sizes", !.todo = Servers(dist)]
  BY <1>1, <1>5, AskSizes
<1> QED
  BY <1>2, <1>3, <1>4, <1>5 DEF Analyze

\* The size of a datafile arrives.
LEMMA GetSizeRead ==
  ASSUME FilesLaid, FileInv, ReadInv, NEW s \in Servers(dist), GetSize(s)
  PROVE  ReadInv'
<1>1. /\ rd # None /\ rd.phase = "sizes" /\ s \in rd.todo
      /\ rd' = [rd EXCEPT !.todo = @ \ {s}, !.all[s] = psize[s]]
      /\ UNCHANGED <<dist, psize, data, size, written, op>>
  BY DEF GetSize
<1>2. /\ Shape /\ Layout(dist) /\ ReadTypes /\ ReadOf /\ PartRead /\ SizesRead
      /\ SizesInv /\ History /\ psize \in [Servers(dist) -> Nat]
  BY <1>1, DistFacts DEF ReadInv, ReadBody, FileInv, Shape
<1>3. /\ rd.low \in Nat /\ rd.high \in Nat /\ rd.all \in [Servers(dist) -> Nat]
      /\ rd.todo \subseteq Servers(dist) /\ rd.sure \subseteq Nat
  BY <1>2, FieldTypes
<1>4. /\ rd'.phase = "sizes" /\ rd'.off = rd.off /\ rd'.len = rd.len /\ rd'.small = rd.small
      /\ rd'.index = rd.index /\ rd'.todo = rd.todo \ {s} /\ rd'.buf = rd.buf
      /\ rd'.sizes = rd.sizes /\ rd'.all = [rd.all EXCEPT ![s] = psize[s]]
      /\ rd'.low = rd.low /\ rd'.high = rd.high /\ rd'.sure = rd.sure /\ rd'.maybe = rd.maybe
      /\ rd'.calm = rd.calm
  BY <1>1, <1>2 DEF ReadTypes
<1>5. /\ rd'.all \in [Servers(dist) -> Nat] /\ rd'.all[s] = psize[s]
      /\ \A t \in Servers(dist) : t # s => rd'.all[t] = rd.all[t]
  BY <1>2, <1>3, <1>4
<1>6. ReadTypes'
  <2>1. rd' = [rd EXCEPT !.todo = rd'.todo, !.all = rd'.all]
    BY <1>1, <1>2, <1>4 DEF ReadTypes
  <2>2. rd'.todo \in SUBSET Servers(dist)
    BY <1>3, <1>4
  <2> QED
    BY <1>1, <1>2, <1>4, <1>5, <2>1, <2>2 DEF ReadTypes
<1>7. ReadOf'
  BY <1>1, <1>2, <1>4 DEF ReadOf
<1>8. \A t : ~ Reading(t) /\ ~ Reading(t)' /\ Slot(t)' = Slot(t)
  BY <1>1, <1>4 DEF Reading, Slot, Place
<1>9. PartRead'
  <2>1. ASSUME NEW t, NEW l, ByteRead(t, l) PROVE ByteRead(t, l)'
    BY <1>1, <1>4, <1>8, <2>1 DEF ByteRead
  <2> QED
    BY <1>1, <1>2, <1>4, <2>1 DEF PartRead
<1>10. SizesRead'
  BY <1>1, <1>2, <1>4, <1>8 DEF SizesRead
<1>11. SizesInv'
  <2>1. Mixed(rd.todo, psize, rd.all)' = Mixed(rd.todo, psize, rd.all)
    <3>1. \A t \in Servers(dist) :
             (IF t \in rd'.todo THEN psize'[t] ELSE rd'.all[t])
               = IF t \in rd.todo THEN psize[t] ELSE rd.all[t]
      BY <1>1, <1>4, <1>5
    <3> QED
      BY <1>1, <3>1 DEF Mixed
  <2>2. Top(dist, rd'.all, rd.high)
    <3> SUFFICES ASSUME NEW t \in Servers(dist) PROVE rd'.all[t] <= L2P(dist, t, rd.high)
      BY DEF Top
    <3>1. CASE t = s
      <4>1. psize[s] <= L2P(dist, s, HighSize) /\ HighSize \in Nat /\ HighSize <= rd.high
        BY <1>2, HighFacts DEF History
      <4> HIDE DEF HighSize
      <4>2. /\ L2P(dist, s, HighSize) <= L2P(dist, s, rd.high)
            /\ L2P(dist, s, HighSize) \in Nat /\ L2P(dist, s, rd.high) \in Nat
        BY <1>2, <1>3, <4>1, LayoutFacts
      <4>3. psize[s] \in Nat /\ rd'.all[t] = psize[s]
        BY <1>2, <1>5, <3>1
      <4> QED
        BY <3>1, <4>1, <4>2, <4>3
    <3>2. CASE t # s
      BY <1>2, <1>5, <3>2 DEF SizesInv, Top
    <3> QED
      BY <3>1, <3>2
  <2>3. ASSUME NEW t \in Servers(dist) \ rd'.todo
        PROVE  /\ \A l \in rd.sure : Owns(dist, t, l) => L2P(dist, t, l) < rd'.all[t]
               /\ rd.calm => rd'.all[t] = psize[t]
    <3>1. CASE t = s
      <4>1. ASSUME NEW l \in rd.sure, Owns(dist, s, l) PROVE L2P(dist, s, l) < psize[s]
        <5>1. l \in Nat
          BY <1>3
        <5> QED
          BY <1>2, <4>1, <5>1, GoalFacts
      <4> QED
        BY <1>5, <3>1, <4>1
    <3>2. CASE t # s
      BY <1>2, <1>4, <1>5, <3>2 DEF SizesInv
    <3> QED
      BY <3>1, <3>2
  <2>4. Floor(dist, Mixed(rd.todo, psize, rd.all), rd.low)
    BY <1>2 DEF SizesInv
  <2> QED
    BY <1>1, <1>4, <2>1, <2>2, <2>3, <2>4 DEF SizesInv
<1>12. History'
  BY <1>1, <1>2, <1>4, HistoryKept
<1> QED
  BY <1>1, <1>4, <1>6, <1>7, <1>9, <1>10, <1>11, <1>12 DEF ReadInv, ReadBody

\* io_analyze_size_results.
LEMMA AnalyzeSizeRead ==
  ASSUME FilesLaid, FileInv, ReadInv, AnalyzeSize
  PROVE  ReadInv'
<1> DEFINE eof == FileSize(dist, rd.all)
           H == AllHoles(rd.all, eof)
           c == IF eof > rd.off + rd.len THEN rd.len ELSE TotalSize(rd.off, eof)
<1>1. /\ rd # None /\ rd.phase = "sizes" /\ rd.todo = {}
      /\ rd' = [rd EXCEPT !.phase = "done", !.completed = c, !.buf = Filled(H)]
      /\ UNCHANGED <<dist, psize, data, size, written, op>>
  BY DEF AnalyzeSize
<1>2. Shape /\ Layout(dist) /\ Laid(dist) /\ ReadBody /\ ReadTypes /\ SizesInv /\ Answered
  BY <1>1, DistFacts DEF ReadInv, ReadBody, FileInv, Answered
<1>3. /\ rd.off \in Nat /\ rd.len \in Nat /\ rd.all \in [Servers(dist) -> Nat]
      /\ rd.low \in Nat /\ rd.high \in Nat
  BY <1>2, FieldTypes
<1>4. Mixed(rd.todo, psize, rd.all) = rd.all
  BY <1>1, <1>3 DEF Mixed
<1>5. eof \in Nat /\ eof <= rd.high /\ rd.low <= eof
  BY <1>2, <1>3, <1>4, SizeFacts DEF SizesInv
<1> HIDE DEF eof
<1>6. TotalSize(rd.off, eof) = IF eof <= rd.off THEN 0 ELSE eof - rd.off
  BY <1>3, <1>5, WithinFacts
<1>7. c = Within(rd.off, rd.len, eof)
  BY <1>3, <1>5, <1>6 DEF Within
<1> HIDE DEF c
<1>8. /\ c \in Nat /\ Within(rd.off, rd.len, rd.low) <= c /\ c <= Within(rd.off, rd.len, rd.high)
      /\ c <= rd.len /\ (c # 0 => rd.off + c <= eof)
  BY <1>3, <1>5, <1>7 DEF Within
<1>9. H = UNION {Holes(dist, s, rd.all[s], eof, rd.off, rd.len) : s \in Servers(dist)}
  BY DEF AllHoles
<1> HIDE DEF H
<1>10. ASSUME NEW l \in Bytes(rd.off, rd.len)
       PROVE  /\ l \in H => l \notin rd.sure
              /\ rd.calm /\ rd.buf[l] = "old" /\ l < eof => l \in H
  <2>1. PICK s \in rd.index :
          /\ s \in Servers(dist) /\ Owns(dist, s, l) /\ l \in Nat
          /\ L2P(dist, s, l) \in Nat /\ rd.sizes[Slot(s)] \in Nat
          /\ rd.buf[l] # "old" <=> L2P(dist, s, l) < rd.sizes[Slot(s)]
          /\ rd.calm => rd.sizes[Slot(s)] = psize[s]
          /\ \A t \in Servers(dist) : Owns(dist, t, l) => t = s
    BY <1>2, AnsweredFacts
  <2>2. ASSUME NEW t \in Servers(dist)
        PROVE  l \in Holes(dist, t, rd.all[t], eof, rd.off, rd.len) <=>
                 Owns(dist, t, l) /\ rd.all[t] <= L2P(dist, t, l) /\ l < eof
    <3>1. rd.all[t] \in Nat
      BY <1>3
    <3> QED
      BY <1>2, <1>3, <1>5, <3>1, HolesFacts
  <2>3. l \in H <=> rd.all[s] <= L2P(dist, s, l) /\ l < eof
    BY <1>9, <2>1, <2>2
  <2>4. /\ l \in rd.sure => L2P(dist, s, l) < rd.all[s]
        /\ rd.calm => rd.all[s] = psize[s]
    BY <1>1, <1>2, <2>1 DEF SizesInv
  <2>5. rd.all[s] \in Nat
    BY <1>3, <2>1
  <2> QED
    BY <2>1, <2>3, <2>4, <2>5
<1>11. \A l \in Bytes(rd.off, c) : l \in Bytes(rd.off, rd.len) /\ l < eof
  BY <1>3, <1>5, <1>8 DEF Bytes
<1> HIDE DEF Filled
<1> QED
  BY <1>1, <1>2, <1>8, <1>10, <1>11, FinishedRead

\* Every step preserves what the read has.
LEMMA NextRead ==
  ASSUME FilesLaid, SmallReads, FileInv, ReadInv, [Next]_vars
  PROVE  ReadInv'
<1>1. ASSUME NEW off \in Offsets, NEW len \in Lengths, WriteStart(off, len) PROVE ReadInv'
  BY <1>1, WriteStartRead
<1>2. ASSUME NEW s \in Servers(dist), WriteServer(s) PROVE ReadInv'
  BY <1>2, WriteServerRead
<1>3. CASE WriteDone
  BY <1>3, WriteDoneRead
<1>4. ASSUME NEW z \in 0..MaxSize, TruncateStart(z) PROVE ReadInv'
  BY <1>4, TruncateStartRead
<1>5. ASSUME NEW s \in Servers(dist), TruncateServer(s) PROVE ReadInv'
  BY <1>5, TruncateServerRead
<1>6. CASE TruncateDone
  BY <1>6, TruncateDoneRead
<1>7. ASSUME NEW off \in Offsets, NEW len \in Lengths, ReadStart(off, len) PROVE ReadInv'
  BY <1>7, ReadStartRead
<1>8. ASSUME NEW s \in Servers(dist), ReadServer(s) PROVE ReadInv'
  BY <1>8, ReadServerRead
<1>9. CASE Analyze
  BY <1>9, AnalyzeRead
<1>10. ASSUME NEW s \in Servers(dist), GetSize(s) PROVE ReadInv'
  BY <1>10, GetSizeRead
<1>11. CASE AnalyzeSize
  BY <1>11, AnalyzeSizeRead
<1>12. CASE ReadReturn
  BY <1>12 DEF ReadReturn, ReadInv
<1>13. CASE UNCHANGED vars
  BY <1>13, ReadUnchanged
<1> QED
  BY <1>1, <1>2, <1>3, <1>4, <1>5, <1>6, <1>7, <1>8, <1>9, <1>10, <1>11, <1>12, <1>13 DEF Next

\* What a read (io_analyze_results, io_analyze_size_results) returns is right,
\* whatever is written or truncated meanwhile: the bytes up to the end of the
\* file, the data that was there throughout, nothing nobody wrote, and zeros in
\* the holes if the file was left alone.
THEOREM ReadsRight ==
  ASSUME FilesLaid, SmallReads
  PROVE  Spec => []ReadRight
<1>1. Init => FileInv /\ ReadInv
  BY InitFile DEF Init, ReadInv
<1>2. (FileInv /\ ReadInv) /\ [Next]_vars => (FileInv /\ ReadInv)'
  <2>1. FileInv /\ ReadInv /\ [Next]_vars => FileInv'
    BY NextFile
  <2>2. FileInv /\ ReadInv /\ [Next]_vars => ReadInv'
    BY NextRead
  <2> QED
    BY <2>1, <2>2
<1>3. ReadInv => ReadRight
  BY DoneIsRight
<1> QED
  BY <1>1, <1>2, <1>3, PTL DEF Spec
=============================================================================
