----------------------------- MODULE HandlePool -----------------------------
(***************************************************************************)
(* What the handle allocator of a collection promises its users: a handle  *)
(* belongs to one place at a time.  It is free, or taken by one creation   *)
(* or removal in progress, or the name of a stored dataspace, or resting   *)
(* after its removal, or it has been lost until the server restarts.       *)
(***************************************************************************)
CONSTANT Handle

VARIABLES avail,    \* handles that may be given out
          resting,  \* handles given back and not yet available again
          taken,    \* handles held by operations in progress
          named,    \* handles of stored dataspaces
          missing   \* handles that nobody will give back

poolVars == <<avail, resting, taken, named, missing>>

Init ==
    /\ named \subseteq Handle
    /\ avail = Handle \ named
    /\ resting = {} /\ taken = {} /\ missing = {}

(* A creation takes an available handle. *)
Take(h) ==
    /\ h \in avail
    /\ avail' = avail \ {h}
    /\ taken' = taken \union {h}
    /\ UNCHANGED <<resting, named, missing>>

(* The creation is recorded: the handle now names a dataspace. *)
Name(h) ==
    /\ h \in taken
    /\ taken' = taken \ {h}
    /\ named' = named \union {h}
    /\ UNCHANGED <<avail, resting, missing>>

(* A removal deletes the record and holds the handle until it gives it back. *)
Unname(h) ==
    /\ h \in named
    /\ named' = named \ {h}
    /\ taken' = taken \union {h}
    /\ UNCHANGED <<avail, resting, missing>>

(* A handle is given back.  Some of the resting ones, this one possibly among
   them, may become available by the same step. *)
GiveBack(h) ==
    /\ h \in taken
    /\ taken' = taken \ {h}
    /\ \E awake \in SUBSET (resting \union {h}) :
          /\ avail' = avail \union awake
          /\ resting' = (resting \union {h}) \ awake
    /\ UNCHANGED <<named, missing>>

(* An operation that held a handle ends without giving it back. *)
Lose(h) ==
    /\ h \in taken
    /\ taken' = taken \ {h}
    /\ missing' = missing \union {h}
    /\ UNCHANGED <<avail, resting, named>>

(* After a restart everything that names no dataspace is available. *)
Restart ==
    /\ avail' = Handle \ named
    /\ resting' = {} /\ taken' = {} /\ missing' = {}
    /\ UNCHANGED named

Next ==
    \/ \E h \in Handle : Take(h) \/ Name(h) \/ Unname(h) \/ GiveBack(h) \/ Lose(h)
    \/ Restart

Spec == Init /\ [][Next]_poolVars
=============================================================================
