----------------------------- MODULE HandleAccess -----------------------------
(***************************************************************************)
(* What the request scheduler promises to the requests of a handle.        *)
(*                                                                         *)
(* Requests stand in line per handle, in the order they came.  Some of     *)
(* those in a line have their turn.  A turn is given in line order, only   *)
(* to requests that may share the handle with everyone ahead of them, and  *)
(* is kept until its holder leaves; and as long as there is a line, its    *)
(* first request has its turn.  Nothing is said of when requests are told, *)
(* nor of what a directory-entry request may share: it has its turn in     *)
(* line order, beside whatever is ahead of it.                             *)
(***************************************************************************)
EXTENDS Integers, Sequences, SequencesExt

CONSTANTS Req, Handle, Claim

VARIABLES
  line,    \* handle -> the requests in line, first come first
  turn,    \* the requests whose turn it is
  claim    \* request -> what it wants of the handle: <<op, access>>

avars == <<line, turn, claim>>

\* Requests that want c and d may share the handle.
Shares(c, d) ==
  \/ c[1] = "IO" /\ d[1] = "IO"
  \/ c[2] = "READONLY" /\ d[2] = "READONLY"

\* The turns tn are a fair way to serve the line q of requests that want cl.
Served(q, tn, cl) ==
  /\ q # <<>> => q[1] \in tn
  /\ \A j, k \in DOMAIN q : j < k /\ q[k] \in tn =>
       /\ q[j] \in tn
       /\ cl[q[k]][1] # "DIRENT" => Shares(cl[q[j]], cl[q[k]])

Absent(r) == \A h \in Handle : \A k \in DOMAIN line[h] : line[h][k] # r

AInit ==
  /\ line = [h \in Handle |-> <<>>]
  /\ turn = {}
  /\ claim = [r \in Req |-> <<"NONE", "NONE">>]

\* r takes its place in the line of h; it may have its turn at once.
Arrive(r, h, c) ==
  /\ Absent(r)
  /\ line' = [line EXCEPT ![h] = Append(@, r)]
  /\ claim' = [claim EXCEPT ![r] = c]
  /\ turn' \in {turn, turn \cup {r}}
  /\ Served(line'[h], turn', claim')

\* r leaves, done or withdrawn; others of its line may get their turn.
Depart(r, h) ==
  /\ \E k \in DOMAIN line[h] : line[h][k] = r /\ line' = [line EXCEPT ![h] = RemoveAt(@, k)]
  /\ claim' = [claim EXCEPT ![r] = <<"NONE", "NONE">>]
  /\ turn \ {r} \subseteq turn'
  /\ turn' \subseteq (turn \ {r}) \cup ToSet(line'[h])
  /\ Served(line'[h], turn', claim')

ANext ==
  \E r \in Req, h \in Handle : (\E c \in Claim : Arrive(r, h, c)) \/ Depart(r, h)

ASpec == AInit /\ [][ANext]_avars
=============================================================================
