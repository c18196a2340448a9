--------------------------- MODULE MCStripedFile ----------------------------
EXTENDS StripedFile

(* Two datafiles read with small I/O, and three read with flows.           *)
Simple2 == [kind |-> "simple", ct |-> 2, strip |-> 2, small |-> 2]
Simple3 == [kind |-> "simple", ct |-> 3, strip |-> 1, small |-> 0]
Twod3 == [kind |-> "twod", ct |-> 3, strip |-> 1, groups |-> 2, factor |-> 2,
          small |-> 0]
Var2 == [kind |-> "varstrip", ct |-> 2, small |-> 0,
         strips |-> <<[nr |-> 0, offset |-> 0, size |-> 1],
                      [nr |-> 1, offset |-> 1, size |-> 2],
                      [nr |-> 0, offset |-> 3, size |-> 1]>>]
Basic1 == [kind |-> "basic", ct |-> 1, block |-> 3, small |-> 0]

AllFiles == {Simple2, Simple3, Twod3, Var2, Basic1}

(* Three datafiles read with small I/O.                                    *)
SmallFiles == {[Simple3 EXCEPT !.small = 1]}
=============================================================================
