---------------------------- MODULE Distribution ----------------------------
(***************************************************************************)
(* The distributions (io/description/dist-*.c): how the bytes of a file    *)
(* are laid out over its datafiles.                                        *)
(*                                                                         *)
(* A distribution d is a record: its kind, the number d.ct of datafiles    *)
(* and its parameters.  Datafiles (server_nr) count from 0.  The five      *)
(* methods of a distribution (struct PINT_dist_methods) are the operators  *)
(* L2P, P2L, NextMapped, Contiguous and FileSize.                          *)
(***************************************************************************)
EXTENDS Integers, Sequences, FiniteSetsExt

Servers(d) == 0..(d.ct - 1)

-----------------------------------------------------------------------------
(* simple_stripe: strips of d.strip bytes, round robin.                    *)

SimpleL2P(d, s, l) ==
    LET stripes == l \div (d.strip * d.ct)
        leftover == l - stripes * d.strip * d.ct
        within == leftover - s * d.strip
    IN  stripes * d.strip + (IF within < 0 THEN 0
                             ELSE IF within < d.strip THEN within
                             ELSE d.strip)

SimpleP2L(d, s, p) ==
    (p \div d.strip) * d.strip * d.ct + d.strip * s + (p % d.strip)

(* Left of the first strip the remainder of C is negative.                 *)
SimpleNext(d, s, l) ==
    LET start == s * d.strip
        stripe == d.ct * d.strip
        diff == (l - start) % stripe
    IN  IF l < start THEN start
        ELSE IF diff >= d.strip THEN l + (stripe - diff) ELSE l

(* physical_to_logical_size: the end of the last of p bytes, p # 0.        *)
(* A fault: the last byte of a strip is taken for the first of the next.   *)
SimpleEndNext(d, s, p) == SimpleP2L(d, s, p)

SimpleEnd(d, s, p) ==
    ((p - 1) \div d.strip) * d.strip * d.ct + d.strip * s
        + ((p - 1) % d.strip) + 1

SimpleSize(d, psize) ==
    Max({0} \cup {SimpleEnd(d, s, psize[s]) :
                     s \in {t \in Servers(d) : psize[t] # 0}})

-----------------------------------------------------------------------------
(* twod_stripe: the datafiles form d.groups groups, the last one takes the *)
(* remainder; a group gets d.factor strips of each of its datafiles before *)
(* the next group has its turn.                                            *)

Groups(d) == Min({d.groups, d.ct})
GroupNr(d, s, small) ==
    IF s >= (Groups(d) - 1) * small THEN Groups(d) - 1 ELSE s \div small
InGroup(d, g, small) ==
    IF g = Groups(d) - 1 THEN d.ct - (Groups(d) - 1) * small ELSE small

TwodL2P(d, s, l) ==
    LET small == d.ct \div Groups(d)
        g == GroupNr(d, s, small)
        n == InGroup(d, g, small)
        gs == s - g * small
        stripes == l \div (d.ct * d.strip * d.factor)
        group == l - stripes * d.ct * d.strip * d.factor
                   - g * d.factor * d.strip * small
        full == group \div (n * d.strip)
        rest == group - full * n * d.strip
        strips == rest \div d.strip
    IN  stripes * d.factor * d.strip
            + (IF group <= 0 THEN 0
               ELSE IF group > n * d.factor * d.strip THEN d.factor * d.strip
               ELSE full * d.strip + (IF strips >= gs + 1 THEN d.strip
                                      ELSE IF strips = gs THEN rest % d.strip
                                      ELSE 0))

(* The size of the small groups is computed here, and in the next one,     *)
(* before num_groups is brought down to the number of datafiles.           *)
TwodP2L(d, s, p) ==
    LET small == d.ct \div d.groups
        g == GroupNr(d, s, small)
        n == InGroup(d, g, small)
        strips == p \div d.strip
    IN  (strips \div d.factor) * d.factor * d.ct * d.strip
            + g * small * d.factor * d.strip
            + (strips % d.factor) * n * d.strip
            + (s - g * small) * d.strip
            + (p % d.strip)

TwodNext(d, s, l) ==
    LET small == d.ct \div d.groups
        g == GroupNr(d, s, small)
        n == InGroup(d, g, small)
        gs == s - g * small
        stripe == d.ct * d.factor * d.strip
        strips == (l \div stripe) * d.factor
        group == (l % stripe) - g * small * d.factor * d.strip
        full == group \div (n * d.strip)
        rest == group - full * d.strip * n
    IN  IF group >= n * d.factor * d.strip
        THEN TwodP2L(d, s, (strips + d.factor) * d.strip)
        ELSE IF l = 0 \/ group <= 0 THEN TwodP2L(d, s, strips * d.strip)
        ELSE IF rest < gs * d.strip
        THEN TwodP2L(d, s, (strips + full) * d.strip)
        ELSE IF rest >= (gs + 1) * d.strip
        THEN TwodP2L(d, s, (strips + full + 1) * d.strip)
        ELSE l

-----------------------------------------------------------------------------
(* varstrip: d.strips lists the strips of one stripe, each with its        *)
(* datafile nr, its offset in the stripe and its size.                     *)

VarStripe(d) == d.strips[Len(d.strips)].offset + d.strips[Len(d.strips)].size
VarMine(d, s) == {i \in DOMAIN d.strips : d.strips[i].nr = s}
VarSize(d, I) == MapThenSumSet(LAMBDA i : d.strips[i].size, I)
VarAt(d, o) ==
    CHOOSE i \in DOMAIN d.strips :
        o \in d.strips[i].offset..(d.strips[i].offset + d.strips[i].size - 1)

(* An offset that is not on this datafile maps to 0.                       *)
VarL2P(d, s, l) ==
    LET o == l % VarStripe(d)
        i == VarAt(d, o)
    IN  IF i \notin VarMine(d, s) THEN 0
        ELSE (l \div VarStripe(d)) * VarSize(d, VarMine(d, s))
                 + VarSize(d, {j \in VarMine(d, s) : j < i})
                 + o - d.strips[i].offset

VarP2L(d, s, p) ==
    LET mine == VarMine(d, s)
        o == p % VarSize(d, mine)
        before(k) == VarSize(d, {j \in mine : j < k})
        i == Min({j \in mine : o < before(j) + d.strips[j].size})
    IN  (p \div VarSize(d, mine)) * VarStripe(d)
            + d.strips[i].offset + o - before(i)

VarNext(d, s, l) ==
    LET stripe == l \div VarStripe(d)
        i == VarAt(d, l % VarStripe(d))
        after == {j \in VarMine(d, s) : j > i}
    IN  IF i \in VarMine(d, s) THEN l
        ELSE IF after # {}
        THEN stripe * VarStripe(d) + d.strips[Min(after)].offset
        ELSE (stripe + 1) * VarStripe(d)
                 + d.strips[Min(VarMine(d, s))].offset

VarContiguous(d, s, p) ==
    LET o == VarP2L(d, s, p) % VarStripe(d)
        i == VarAt(d, o)
    IN  d.strips[i].offset + d.strips[i].size - o

-----------------------------------------------------------------------------
(* The methods; basic keeps the file in one datafile.                      *)

L2P(d, s, l) ==
    CASE d.kind = "simple" -> SimpleL2P(d, s, l)
      [] d.kind = "twod" -> TwodL2P(d, s, l)
      [] d.kind = "varstrip" -> VarL2P(d, s, l)
      [] d.kind = "basic" -> l

P2L(d, s, p) ==
    CASE d.kind = "simple" -> SimpleP2L(d, s, p)
      [] d.kind = "twod" -> TwodP2L(d, s, p)
      [] d.kind = "varstrip" -> VarP2L(d, s, p)
      [] d.kind = "basic" -> p

NextMapped(d, s, l) ==
    CASE d.kind = "simple" -> SimpleNext(d, s, l)
      [] d.kind = "twod" -> TwodNext(d, s, l)
      [] d.kind = "varstrip" -> VarNext(d, s, l)
      [] d.kind = "basic" -> l

Contiguous(d, s, p) ==
    CASE d.kind \in {"simple", "twod"} -> d.strip - (p % d.strip)
      [] d.kind = "varstrip" -> VarContiguous(d, s, p)
      [] d.kind = "basic" -> d.block

FileSize(d, psize) ==
    CASE d.kind = "simple" -> SimpleSize(d, psize)
      [] d.kind \in {"twod", "varstrip"} ->
             MapThenSumSet(LAMBDA s : psize[s], Servers(d))
      [] d.kind = "basic" -> psize[0]

-----------------------------------------------------------------------------
(* PINT_distribute: the pieces of the region of len bytes at off that are  *)
(* on datafile s, which has fsize bytes; past its end only if extend.      *)
PieceSize(d, left, poff, frag, fsize, extend) ==
    LET want == IF left > frag /\ d.ct # 1 THEN frag ELSE left
    IN  IF poff + want > fsize /\ ~extend THEN fsize - poff ELSE want

PieceAt(d, s, loff, poff, end, fsize, extend) ==
    [loff |-> loff, poff |-> poff,
     size |-> PieceSize(d, end - loff, poff, Contiguous(d, s, poff), fsize,
                        extend)]

NextPiece(d, s, loff, end, fsize, extend) ==
    PieceAt(d, s, loff, L2P(d, s, loff), end, fsize, extend)

Pieces(d, s, off, len, fsize, extend) ==
    LET end == off + len
        from[o \in off..end] ==
            LET And(x) == IF x.loff >= end \/ x.size <= 0 THEN {}
                          ELSE {x} \cup from[x.loff + x.size]
            IN  And(NextPiece(d, s, NextMapped(d, s, o), end, fsize, extend))
    IN  from[off]

Length(pieces) == MapThenSumSet(LAMBDA x : x.size, pieces)
=============================================================================
