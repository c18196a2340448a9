------------------------------ MODULE MCUpcall ------------------------------
(***************************************************************************)
(* Bounds for TLC: the callers in Signalled are the ones signals reach,    *)
(* those in Slow the ones a new daemon may outrun, after which signals     *)
(* reach nobody, and what follows the drop of an operation that the other  *)
(* side still has is left to the proofs.                                   *)
(***************************************************************************)
EXTENDS Upcall
CONSTANTS Signalled, Slow

Few ==
    /\ torn = {}
    /\ \A c \in Callers :
           ret'[Main(c)] = "EINTR" => c \in Signalled /\ late = {}
    /\ late' \subseteq {Main(c) : c \in Slow}

FewNext == Next /\ Few
FewSpec == Init /\ [][FewNext]_vars /\ Fairness
=============================================================================
