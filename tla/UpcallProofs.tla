---------------------------- MODULE UpcallProofs ----------------------------
(***************************************************************************)
(* Theorems about Upcall, for every set of callers, every number of        *)
(* buffers, of purges that are tried again and of deaths of the daemon.    *)
(*                                                                         *)
(* Nothing in the kernel module keeps a caller the purge has woken from    *)
(* running later than the next daemon's start.  Of an operation this       *)
(* happens to (late) nothing is said; what is said of the others holds     *)
(* beside such operations too.                                             *)
(***************************************************************************)
EXTENDS Upcall, TLAPS

-----------------------------------------------------------------------------
(* The inductive invariant.                                                *)

On(o) == Contains(list, o)

\* The device itself: what it is doing and what a death leaves behind.
Device ==
  /\ stage = "none" <=> writing = None
  /\ stage = "io" => writing \in IoMains
  /\ closing # "no" => daemon = "down"
  /\ daemon = "down" => /\ reading = None /\ writing = None /\ held = {}
                        /\ pc[Mount] = "none" /\ pending
  /\ \A o \in completed : pc[o] = "done"

\* A daemon that has not mounted the file system again serves no call on it.
Remounting ==
  /\ ~remount => pending
  /\ pc[Mount] # "none" => ~remount
  /\ \A o \in Mains : o \in held \/ reading = o => remount

\* The remount gives up only when its daemon is being killed, so that the
\* next remount meets nothing of it.
MountInv ==
  /\ attempts[Mount] = 0
  /\ pc[Mount] \in {"cleanup", "unlist", "unhash", "hung"} => daemon = "dying"
  /\ pc[Mount] \in {"none", "over"} /\ daemon = "up" =>
       reading # Mount /\ writing # Mount /\ Mount \notin held

\* A call is cancelled once.
CancelInv ==
  \A c \in IoCallers :
    pc[Main(c)] \notin {"cancel", "done"} => pc[Cancel(c)] = "none"

\* An operation is in one place only: on the list, in the hand of a read,
\* or with the daemon.
OnePlace(o) ==
  /\ ~ (On(o) /\ reading = o)
  /\ On(o) \/ reading = o => o \notin htable /\ writing # o /\ o \notin held
  /\ writing = o => o \notin htable /\ o \notin held

Away(o) == reading # o /\ writing # o /\ o \notin held

\* An operation that is about to be queued is nowhere.
Fresh(o) ==
  /\ pc[o] \in {"none", "slot", "post", "queue"} => ~ On(o) /\ o \notin htable
  /\ pc[o] \in {"none", "slot", "post", "queue"} /\ ~ (o = Mount /\ pc[o] = "none")
       => Away(o)

\* While its caller waits, the state of an operation says where it is.
Where(o) ==
  \/ /\ "waiting" \in flags[o] /\ flags[o] \cap {"inprogress", "serviced"} = {}
     /\ On(o) \/ reading = o
  \/ /\ "inprogress" \in flags[o] /\ flags[o] \cap {"waiting", "serviced"} = {}
     /\ ~ On(o) /\ reading # o
     /\ \/ o \in htable /\ (o \in held \/ closing # "no" \/ "purged" \in flags[o])
        \/ writing = o /\ stage = "taken"
        \/ o \in torn /\ o \notin htable /\ o \notin held /\ writing # o
  \/ /\ flags[o] = {"serviced"}
     /\ ~ On(o) /\ reading # o /\ o \notin htable /\ o \notin held
     /\ writing = o => stage = "io"
  \/ /\ flags[o] = {} /\ o \in torn
     /\ ~ On(o) /\ o \notin htable /\ Away(o)
Waiting(o) == pc[o] \in {"wait", "cleanup"} => Where(o)

\* A caller that gives up takes its operation off what it saw it on.
Leaving(o) ==
  o \notin Cancels =>
    /\ On(o) => pc[o] \in {"wait", "cleanup", "unlist"}
    /\ o \in htable => pc[o] \in {"wait", "cleanup", "unhash"}
    /\ pc[o] = "unlist" => o \notin htable /\ writing # o /\ o \notin held
    /\ pc[o] = "unhash" => ~ On(o) /\ reading # o
    /\ pc[o] \notin {"wait", "cleanup"} => "waiting" \notin flags[o]

\* Only a purge makes a caller try again, and by then the daemon is gone.
Purge(o) ==
  /\ pc[o] = "wait" /\ "purged" \in flags[o] => daemon = "down"
  /\ pc[o] \in {"cleanup", "unlist", "unhash"} /\ ret[o] = "EAGAIN" => daemon = "down"
  /\ o \notin Cancels =>
       /\ pc[o] \in {"over", "ret"} /\ ret[o] = "EAGAIN" => Away(o)
       /\ pc[o] = "remap" => Away(o)

OpInv(o) ==
  OnePlace(o) /\ Fresh(o) /\ Waiting(o) /\ Leaving(o) /\ Purge(o)

UpInv ==
  /\ TypeOK /\ Device /\ Remounting /\ MountInv /\ CancelInv
  /\ \A o \in Ops \ late : OpInv(o)

-----------------------------------------------------------------------------
(* Operations and the request list.                                        *)

\* Each caller has an operation of its own, and one more for a cancellation.
LEMMA OpsFacts ==
  /\ Mount \in Ops /\ Mount \notin Mains /\ Mount \notin Cancels
  /\ Mains \subseteq Ops /\ Cancels \subseteq Ops /\ IoMains \subseteq Mains
  /\ Mains \cap Cancels = {} /\ None \notin Ops
  /\ \A c \in Callers : Main(c) \in Mains
  /\ \A c \in IoCallers : c \in Callers /\ Main(c) \in IoMains /\ Cancel(c) \in Cancels
  /\ \A c, d \in Callers : Main(c) = Main(d) => c = d
  /\ \A c, d \in IoCallers : Cancel(c) = Cancel(d) => c = d
  BY NoneApart DEF Ops, Mains, Cancels, IoMains, Main, Cancel, Mount, Callers

\* One list behind another.
LEMMA ConcatFacts ==
  ASSUME NEW S, NEW a \in Seq(S), NEW b \in Seq(S)
  PROVE  /\ a \o b \in Seq(S)
         /\ Len(a \o b) = Len(a) + Len(b)
         /\ \A i \in 1..Len(a) + Len(b) :
              (a \o b)[i] = IF i <= Len(a) THEN a[i] ELSE b[i - Len(a)]
  OBVIOUS

\* What RemoveAt, the model of list_del, leaves behind: everything else, and
\* the element itself no more if it was there once.
LEMMA RemoveAtFacts ==
  ASSUME NEW S, NEW s \in Seq(S), NEW k \in DOMAIN s,
         \A i, j \in DOMAIN s : s[i] = s[j] => i = j
  PROVE  /\ RemoveAt(s, k) \in Seq(S)
         /\ \A i, j \in DOMAIN RemoveAt(s, k) :
              RemoveAt(s, k)[i] = RemoveAt(s, k)[j] => i = j
         /\ \A e \in S : Contains(RemoveAt(s, k), e) <=> Contains(s, e) /\ e # s[k]
  <1> DEFINE a == SubSeq(s, 1, k - 1)
             b == SubSeq(s, k + 1, Len(s))
             J(i) == IF i < k THEN i ELSE i + 1
  <1>1. k \in 1..Len(s) /\ Len(s) \in Nat
    OBVIOUS
  <1>2. /\ a \in Seq(S) /\ Len(a) = k - 1
        /\ \A i \in 1..k - 1 : a[i] = s[i]
    BY <1>1
  <1>3. /\ b \in Seq(S) /\ Len(b) = Len(s) - k
        /\ \A i \in 1..Len(s) - k : b[i] = s[i + k]
    BY <1>1
  <1> DEFINE c == a \o b
  <1>4. RemoveAt(s, k) = c
    BY DEF RemoveAt
  <1> HIDE DEF a, b
  <1>5. /\ c \in Seq(S)
        /\ Len(c) = Len(a) + Len(b)
        /\ \A i \in 1..Len(a) + Len(b) :
             c[i] = IF i <= Len(a) THEN a[i] ELSE b[i - Len(a)]
    BY <1>2, <1>3, ConcatFacts
  <1> HIDE DEF c
  <1>6. Len(c) = Len(s) - 1
    BY <1>1, <1>2, <1>3, <1>5
  <1>7. ASSUME NEW i \in 1..Len(c) PROVE J(i) \in DOMAIN s /\ J(i) # k /\ c[i] = s[J(i)]
    <2>0. i \in 1..Len(a) + Len(b) /\ i \in 1..Len(s) - 1
      BY <1>1, <1>2, <1>3, <1>5
    <2>1. c[i] = IF i <= k - 1 THEN a[i] ELSE b[i - (k - 1)]
      <3>1. c[i] = IF i <= Len(a) THEN a[i] ELSE b[i - Len(a)]
        BY <1>5, <2>0
      <3> QED BY <1>2, <3>1
    <2>2. CASE i < k
      BY <1>1, <1>2, <2>0, <2>1, <2>2
    <2>3. CASE ~(i < k)
      <3>1. i - (k - 1) \in 1..Len(s) - k /\ ~(i <= k - 1)
        BY <1>1, <2>0, <2>3
      <3>2. b[i - (k - 1)] = s[(i - (k - 1)) + k] /\ (i - (k - 1)) + k = i + 1
        BY <1>1, <1>3, <3>1
      <3> QED BY <1>1, <2>0, <2>1, <2>3, <3>1, <3>2
    <2> QED BY <2>2, <2>3
  <1>8. \A i, j \in 1..Len(c) : J(i) = J(j) => i = j
    BY <1>1, <1>6
  <1>9. \A m \in DOMAIN s : m # k => \E i \in 1..Len(c) : J(i) = m
    <2> SUFFICES ASSUME NEW m \in DOMAIN s, m # k PROVE \E i \in 1..Len(c) : J(i) = m
      OBVIOUS
    <2>1. CASE m < k
      BY <1>1, <1>6, <2>1
    <2>2. CASE m > k
      <3>1. m - 1 \in 1..Len(c) /\ J(m - 1) = m
        BY <1>1, <1>6, <2>2
      <3> QED BY <3>1
    <2> QED BY <1>1, <2>1, <2>2
  <1> HIDE DEF J
  <1>10. \A i, j \in DOMAIN c : c[i] = c[j] => i = j
    BY <1>5, <1>7, <1>8
  <1>11. ASSUME NEW e \in S PROVE Contains(c, e) <=> Contains(s, e) /\ e # s[k]
    BY <1>1, <1>7, <1>9 DEF Contains
  <1> QED BY <1>4, <1>5, <1>10, <1>11

\* Taking an operation off the request list takes off that one only.
LEMMA OffFacts ==
  ASSUME TypeOK, NEW o \in Ops
  PROVE  /\ Off(o) \in Seq(Ops)
         /\ \A i, j \in DOMAIN Off(o) : Off(o)[i] = Off(o)[j] => i = j
         /\ \A p \in Ops : Contains(Off(o), p) <=> On(p) /\ p # o
  <1>1. CASE Contains(list, o)
    <2> DEFINE i == CHOOSE i \in DOMAIN list : list[i] = o
    <2>1. i \in DOMAIN list /\ list[i] = o
      BY <1>1 DEF Contains, TypeOK
    <2>2. Off(o) = RemoveAt(list, i)
      BY <1>1 DEF Off
    <2> HIDE DEF i
    <2> QED BY <2>1, <2>2, RemoveAtFacts DEF TypeOK, On
  <1>2. CASE ~ Contains(list, o)
    BY <1>2 DEF Off, On, TypeOK
  <1> QED BY <1>1, <1>2

\* An operation that is queued is on the list from then on.
LEMMA QueuedFacts ==
  ASSUME TypeOK, NEW o \in Ops, ~ On(o), NEW l, l = <<o>> \o list \/ l = Append(list, o)
  PROVE  /\ l \in Seq(Ops)
         /\ \A i, j \in DOMAIN l : l[i] = l[j] => i = j
         /\ \A p \in Ops : Contains(l, p) <=> On(p) \/ p = o
  <1>1. list \in Seq(Ops) /\ Len(list) \in Nat /\ DOMAIN list = 1..Len(list)
        /\ \A i \in 1..Len(list) : list[i] # o
    BY DEF TypeOK, On, Contains
  <1>2. CASE l = Append(list, o)
    <2>1. /\ l \in Seq(Ops) /\ Len(l) = Len(list) + 1 /\ l[Len(list) + 1] = o
          /\ \A i \in 1..Len(list) : l[i] = list[i]
      BY <1>1, <1>2
    <2>2. \A i \in DOMAIN l : i \in 1..Len(list) \/ i = Len(list) + 1
      BY <1>1, <2>1
    <2>3. \A i, j \in DOMAIN l : l[i] = l[j] => i = j
      BY <1>1, <2>1, <2>2 DEF TypeOK
    <2>4. \A p \in Ops : Contains(l, p) <=> On(p) \/ p = o
      BY <1>1, <2>1, <2>2 DEF On, Contains
    <2> QED BY <2>1, <2>3, <2>4
  <1>3. CASE l = <<o>> \o list
    <2>1. /\ l \in Seq(Ops) /\ Len(l) = Len(list) + 1 /\ l[1] = o
          /\ \A i \in 1..Len(list) + 1 : l[i] = IF i = 1 THEN o ELSE list[i - 1]
      BY <1>1, <1>3
    <2>2. \A i \in DOMAIN l : i = 1 \/ (i - 1 \in 1..Len(list) /\ l[i] = list[i - 1])
      BY <1>1, <2>1
    <2>3. \A i \in 1..Len(list) : i + 1 \in DOMAIN l /\ l[i + 1] = list[i]
      BY <1>1, <2>1
    <2>4. ASSUME NEW i \in DOMAIN l, NEW j \in DOMAIN l, l[i] = l[j] PROVE i = j
      <3>1. \A m, n \in 1..Len(list) : list[m] = list[n] => m = n
        BY <1>1 DEF TypeOK
      <3> QED BY <1>1, <2>1, <2>2, <2>4, <3>1
    <2>5. ASSUME NEW p \in Ops PROVE Contains(l, p) <=> On(p) \/ p = o
      <3>1. DOMAIN l = 1..Len(l) /\ 1 \in DOMAIN l
        BY <1>1, <2>1
      <3>2. On(p) => Contains(l, p)
        BY <1>1, <2>3, <3>1 DEF On, Contains
      <3>3. Contains(l, p) => On(p) \/ p = o
        BY <1>1, <2>1, <2>2, <3>1 DEF On, Contains
      <3> QED BY <2>1, <3>1, <3>2, <3>3 DEF Contains
    <2> QED BY <2>1, <2>4, <2>5
  <1> QED BY <1>2, <1>3

-----------------------------------------------------------------------------
(* Steps that leave an operation, or the device, alone.                    *)

\* An operation nothing happens to stays as it is.
LEMMA Frame ==
  ASSUME NEW o, OpInv(o), pc'[o] = pc[o], flags'[o] = flags[o], ret'[o] = ret[o],
         On(o)' <=> On(o), o \in htable' <=> o \in htable, o \in held' <=> o \in held,
         reading' = o <=> reading = o, writing' = o <=> writing = o,
         writing' = o => stage' = stage,
         daemon' = daemon, closing' = closing, o \in torn => o \in torn'
  PROVE  OpInv(o)'
  <1>1. OnePlace(o)' /\ Fresh(o)'
    BY DEF OpInv, OnePlace, Fresh, Away
  <1>2. Waiting(o)'
    BY DEF OpInv, Waiting, Where, Away
  <1>3. Leaving(o)'
    BY DEF OpInv, Leaving
  <1>4. Purge(o)'
    BY DEF OpInv, Purge, Away
  <1> QED BY <1>1, <1>2, <1>3, <1>4 DEF OpInv

\* A step of the process that owns o, of which the device sees nothing.
Alone(o) ==
  /\ UNCHANGED <<list, htable, devVars>>
  /\ \A p \in Ops \ {o} : pc'[p] = pc[p] /\ flags'[p] = flags[p] /\ ret'[p] = ret[p]
  /\ attempts'[Mount] = attempts[Mount]
  /\ torn \subseteq torn'
  /\ \A x \in completed' : pc'[x] = "done"

\* Such a step keeps the invariant if it keeps what is said of o.
LEMMA AloneKeeps ==
  ASSUME UpInv, TypeOK', NEW o \in Ops, Alone(o), o \notin late => OpInv(o)',
         pc[o] \notin {"cancel", "done"}, o \in Cancels => pc[o] # "none",
         o = Mount => pc[o] # "none" /\ MountInv'
  PROVE  UpInv'
  <1>1. /\ UNCHANGED <<list, htable, daemon, closing, late, remount, pending, reading, writing,
                       stage, held>>
        /\ \A p \in Ops \ {o} : pc'[p] = pc[p] /\ flags'[p] = flags[p] /\ ret'[p] = ret[p]
        /\ attempts'[Mount] = attempts[Mount] /\ torn \subseteq torn'
        /\ \A x \in completed' : pc'[x] = "done"
    BY DEF Alone, devVars
  <1>2. \A p \in Ops : On(p)' <=> On(p)
    BY <1>1 DEF On
  <1>3. \A p \in Ops \ late' : OpInv(p)'
    <2> SUFFICES ASSUME NEW p \in Ops \ late, p # o PROVE OpInv(p)'
      BY <1>1
    <2>1. OpInv(p)
      BY DEF UpInv
    <2> QED BY <1>1, <1>2, <2>1, Frame
  <1>4. Device'
    BY <1>1, OpsFacts DEF UpInv, Device
  <1>5. Remounting'
    BY <1>1, OpsFacts DEF UpInv, Remounting
  <1>6. MountInv'
    BY <1>1, OpsFacts DEF UpInv, MountInv
  <1>7. CancelInv'
    <2> SUFFICES ASSUME NEW c \in IoCallers, pc'[Main(c)] \notin {"cancel", "done"}
                 PROVE  pc'[Cancel(c)] = "none"
      BY DEF CancelInv
    <2>1. Main(c) \in Ops /\ Cancel(c) \in Ops /\ Cancel(c) \in Cancels
      BY OpsFacts
    <2>2. pc[Main(c)] \notin {"cancel", "done"}
      BY <1>1, <2>1
    <2>3. pc[Cancel(c)] = "none"
      BY <2>2 DEF UpInv, CancelInv
    <2> QED BY <1>1, <2>1, <2>3
  <1> QED BY <1>3, <1>4, <1>5, <1>6, <1>7 DEF UpInv

-----------------------------------------------------------------------------
(* The caller's steps.                                                     *)

\* A step that moves the owner of o from one place to another.
Moves(o) ==
  /\ UNCHANGED <<list, htable, devVars, flags, torn>>
  /\ \E w \in Places, r \in Results : Goes(o, w, r)

\* The invariant does not lose what such a step leaves alone.
LEMMA MovesAlone ==
  ASSUME UpInv, NEW o \in Ops, Moves(o), attempts'[Mount] = attempts[Mount],
         \A x \in completed' : x = o \/ x \in completed, pc[o] # "done",
         o \in completed' => pc'[o] = "done"
  PROVE  /\ Alone(o)
         /\ pc' \in [Ops -> Places] /\ ret' \in [Ops -> Results]
         /\ flags'[o] = flags[o] /\ (On(o)' <=> On(o))
         /\ \A w, r : Goes(o, w, r) => pc'[o] = w /\ ret'[o] = r
  <1>1. PICK w \in Places, r \in Results : Goes(o, w, r)
    BY DEF Moves
  <1>2. /\ pc' \in [Ops -> Places] /\ ret' \in [Ops -> Results]
        /\ \A p \in Ops \ {o} : pc'[p] = pc[p] /\ ret'[p] = ret[p]
    BY <1>1 DEF Goes, UpInv, TypeOK
  <1>3. \A x \in completed' : pc'[x] = "done"
    <2> SUFFICES ASSUME NEW x \in completed', x # o PROVE pc'[x] = "done"
      OBVIOUS
    <2>1. x \in completed /\ x \in Ops /\ pc[x] = "done"
      BY OpsFacts DEF UpInv, TypeOK, Device
    <2> QED BY <1>2, <2>1
  <1>4. Alone(o)
    BY <1>2, <1>3 DEF Alone, Moves
  <1>5. flags'[o] = flags[o] /\ (On(o)' <=> On(o))
    BY DEF Moves, On
  <1>6. \A v, q : Goes(o, v, q) => pc'[o] = v /\ ret'[o] = q
    BY DEF Goes, UpInv, TypeOK
  <1> QED BY <1>2, <1>4, <1>5, <1>6

\* Where service_operation takes a caller that nothing has been queued for.
LEMMA PostSteps ==
  ASSUME UpInv, NEW o \in Ops, Post(o) \/ PostInterrupted(o)
  PROVE  UpInv'
  <1>1. TypeOK /\ Device /\ MountInv /\ (o \notin late => OpInv(o))
    BY DEF UpInv
  <1>2. /\ pc[o] = "post" /\ UNCHANGED completed /\ Moves(o)
        /\ Goes(o, "queue", "none") \/ (o # Mount /\ Goes(o, "over", "EINTR"))
    BY DEF Post, PostInterrupted, Moves, Places, Results
  <1>3. attempts'[Mount] = attempts[Mount]
    <2>1. o = Mount => daemon # "down"
      BY <1>1, <1>2 DEF Device
    <2> QED BY <1>1, <2>1, OpsFacts DEF Post, PostInterrupted, TypeOK
  <1>4. o \notin completed
    BY <1>1, <1>2 DEF Device
  <1>5. TypeOK'
    <2>1. attempts' \in [Ops -> Nat] /\ sem' \in Ops \cup {None}
      <3>1. attempts \in [Ops -> Nat] /\ sem \in Ops \cup {None}
        BY <1>1 DEF TypeOK
      <3>2. \/ attempts' = attempts
            \/ attempts' = [attempts EXCEPT ![o] = attempts[o] + 1]
        BY <3>1 DEF Post, PostInterrupted
      <3>3. sem' = o \/ sem' = sem
        BY DEF Post, PostInterrupted
      <3> QED BY <3>1, <3>2, <3>3
    <2>2. UNCHANGED <<flags, list, htable, completed, devVars, bufVars, torn>>
      BY DEF Post, PostInterrupted
    <2>3. pc' \in [Ops -> Places] /\ ret' \in [Ops -> Results]
      BY <1>2, <1>3, <1>4, MovesAlone
    <2> QED BY <1>1, <2>1, <2>2, <2>3 DEF TypeOK, devVars, bufVars
  <1>6. /\ Alone(o) /\ flags'[o] = flags[o] /\ (On(o)' <=> On(o))
        /\ UNCHANGED <<htable, reading, writing, held, daemon>>
        /\ pc'[o] = "queue" \/ (o # Mount /\ pc'[o] = "over" /\ ret'[o] = "EINTR")
    BY <1>2, <1>3, <1>4, MovesAlone DEF Alone, devVars
  <1>7. o \notin late => OpInv(o)'
    BY <1>1, <1>2, <1>6 DEF OpInv, OnePlace, Fresh, Waiting, Leaving, Purge, Away
  <1>8. o = Mount => MountInv'
    BY <1>1, <1>3, <1>6 DEF MountInv
  <1> QED BY <1>2, <1>5, <1>6, <1>7, <1>8, AloneKeeps

\* The ends of the two waits.
LEMMA WaitSteps ==
  ASSUME UpInv, NEW o \in Ops,
         Served(o) \/ WokenByPurge(o) \/ CancelWoken(o) \/ TimesOut(o) \/ Interrupted(o)
  PROVE  UpInv'
  <1>1. /\ TypeOK /\ Device /\ MountInv /\ Mount \notin late
        /\ o \notin late => OpInv(o) /\ Where(o)
    BY DEF UpInv, TypeOK, OpInv, Waiting, Served, WokenByPurge, CancelWoken, TimesOut, Interrupted
  <1>2. /\ pc[o] = "wait" /\ Moves(o)
        /\ UNCHANGED <<flags, list, htable, completed, devVars, bufVars, sem, torn>>
    BY DEF Served, WokenByPurge, CancelWoken, TimesOut, Interrupted, Moves, Places, Results
  <1>3. o = Mount => /\ daemon # "down" /\ "purged" \notin flags[o] /\ attempts[o] = 0
    BY <1>1, <1>2 DEF Device, OpInv, Purge, MountInv
  <1>4. o = Mount => ~ WokenByPurge(o) /\ ~ TimesOut(o) /\ ~ CancelWoken(o)
    BY <1>3, OpsFacts DEF WokenByPurge, TimesOut, Timed, CancelWoken
  <1>5. attempts' \in [Ops -> Nat] /\ attempts'[Mount] = attempts[Mount]
    BY <1>1, <1>4, OpsFacts DEF Served, WokenByPurge, CancelWoken, TimesOut, Interrupted, TypeOK
  <1>6. o \notin completed
    BY <1>1, <1>2 DEF Device
  <1>7. /\ Alone(o) /\ flags'[o] = flags[o] /\ (On(o)' <=> On(o))
        /\ pc' \in [Ops -> Places] /\ ret' \in [Ops -> Results]
        /\ \A w, r : Goes(o, w, r) => pc'[o] = w /\ ret'[o] = r
    BY <1>2, <1>5, <1>6, MovesAlone
  <1>8. TypeOK'
    BY <1>1, <1>2, <1>5, <1>7 DEF TypeOK, devVars, bufVars
  <1>9. UNCHANGED <<htable, reading, writing, held, daemon, stage, closing, torn>>
    BY <1>2 DEF devVars
  <1>10. \/ pc'[o] = "over" /\ "serviced" \in flags[o] /\ ret'[o] = "ok"
         \/ pc'[o] = "over" /\ o \in Cancels
         \/ /\ pc'[o] = "cleanup" /\ (ret'[o] = "EAGAIN" => "purged" \in flags[o])
            /\ o = Mount => daemon = "dying"
    <2>1. CASE Served(o)
      BY <1>7, <2>1 DEF Served
    <2>2. CASE WokenByPurge(o)
      BY <1>4, <1>7, <2>2 DEF WokenByPurge
    <2>3. CASE CancelWoken(o)
      BY <1>7, <2>3 DEF CancelWoken
    <2>4. CASE TimesOut(o)
      BY <1>4, <1>7, <2>4 DEF TimesOut
    <2>5. CASE Interrupted(o)
      BY <1>7, <2>5 DEF Interrupted
    <2> QED BY <2>1, <2>2, <2>3, <2>4, <2>5
  <1>11. ASSUME o \notin late PROVE OpInv(o)'
    <2>0. OpInv(o) /\ Where(o)
      BY <1>1, <1>11
    <2>1. OnePlace(o)' /\ Fresh(o)' /\ Purge(o)'
      BY <2>0, <1>2, <1>7, <1>9, <1>10 DEF OpInv, OnePlace, Fresh, Purge, Away
    <2>2. Waiting(o)'
      BY <2>0, <1>7, <1>9, <1>10 DEF Waiting, Where, Away
    <2>3. Leaving(o)'
      BY <2>0, <1>2, <1>7, <1>9, <1>10 DEF OpInv, Leaving, Where
    <2> QED BY <2>1, <2>2, <2>3 DEF OpInv
  <1>12. o = Mount => MountInv'
    <2> SUFFICES ASSUME o = Mount PROVE MountInv'
      OBVIOUS
    <2>1. pc'[o] = "over" => Away(o)
      <3> SUFFICES ASSUME pc'[o] = "over" PROVE Away(o)
        OBVIOUS
      <3>1. "serviced" \in flags[o]
        BY <1>10, OpsFacts
      <3>2. reading # o /\ o \notin held
        BY <1>1, <3>1 DEF Where
      <3>3. writing # o
        BY <1>1, <3>1, OpsFacts DEF Where, Device
      <3> QED BY <3>2, <3>3 DEF Away
    <2> QED BY <1>1, <1>5, <1>9, <1>10, <2>1, OpsFacts DEF MountInv, Away
  <1> QED BY <1>2, <1>7, <1>8, <1>11, <1>12, AloneKeeps

\* An operation that is queued is on the list and waits.
LEMMA EnqueueStep ==
  ASSUME UpInv, NEW o \in Ops, Enqueue(o)
  PROVE  UpInv'
  <1>1. TypeOK /\ Device /\ Remounting /\ MountInv /\ CancelInv /\ (o \notin late => OpInv(o))
    BY DEF UpInv
  <1>2. /\ pc[o] = "queue" /\ pc' = [pc EXCEPT ![o] = "wait"]
        /\ ret' = [ret EXCEPT ![o] = "none"] /\ flags' = [flags EXCEPT ![o] = {"waiting"}]
        /\ list' = <<o>> \o list \/ list' = Append(list, o)
        /\ UNCHANGED <<attempts, htable, completed, devVars, bufVars, torn>>
    BY DEF Enqueue, Goes
  <1>3. ~ On(o) /\ o \notin htable /\ (o \notin late => Away(o))
    BY <1>1, <1>2 DEF OpInv, Fresh, Enqueue, Listed, On
  <1>4. /\ list' \in Seq(Ops)
        /\ \A i, j \in DOMAIN list' : list'[i] = list'[j] => i = j
        /\ \A p \in Ops : On(p)' <=> On(p) \/ p = o
    BY <1>1, <1>2, <1>3, QueuedFacts DEF On
  <1>5. TypeOK'
    <2>1. /\ pc' \in [Ops -> Places] /\ ret' \in [Ops -> Results]
          /\ flags' \in [Ops -> SUBSET Flags] /\ sem' \in Ops \cup {None}
      BY <1>1, <1>2 DEF TypeOK, Places, Results, Flags, Enqueue
    <2> QED BY <1>1, <1>2, <1>4, <2>1 DEF TypeOK, devVars, bufVars
  <1>6. /\ \A p \in Ops \ {o} : pc'[p] = pc[p] /\ flags'[p] = flags[p] /\ ret'[p] = ret[p]
        /\ pc'[o] = "wait" /\ flags'[o] = {"waiting"} /\ ret'[o] = "none"
        /\ UNCHANGED <<daemon, closing, late, remount, pending, reading, writing, stage, held>>
    BY <1>1, <1>2 DEF TypeOK, devVars
  <1>7. \A p \in Ops \ late' : OpInv(p)'
    <2>1. ASSUME NEW p \in Ops \ late, p # o PROVE OpInv(p)'
      <3>1. OpInv(p)
        BY DEF UpInv
      <3> QED BY <1>2, <1>4, <1>6, <2>1, <3>1, Frame
    <2>2. o \notin late => OpInv(o)'
      BY <1>2, <1>3, <1>4, <1>6
      DEF OpInv, OnePlace, Fresh, Waiting, Where, Leaving, Purge, Away
    <2> QED BY <1>6, <2>1, <2>2
  <1>8. Device' /\ Remounting' /\ MountInv'
    BY <1>1, <1>2, <1>6, OpsFacts DEF TypeOK, Device, Remounting, MountInv
  <1>9. CancelInv'
    <2> SUFFICES ASSUME NEW c \in IoCallers, pc'[Main(c)] \notin {"cancel", "done"}
                 PROVE  pc'[Cancel(c)] = "none"
      BY DEF CancelInv
    <2>1. Main(c) \in Ops /\ Cancel(c) \in Ops
      BY OpsFacts
    <2> QED BY <1>1, <1>2, <1>6, <2>1 DEF CancelInv
  <1> QED BY <1>5, <1>7, <1>8, <1>9 DEF UpInv

\* Giving up, up to the unlock: the state says where the operation is.
LEMMA CleanUpStep ==
  ASSUME UpInv, NEW o \in Ops, CleanUp(o)
  PROVE  UpInv'
  <1>1. TypeOK /\ Device /\ MountInv /\ (o \notin late => OpInv(o) /\ Where(o))
    BY DEF UpInv, OpInv, Waiting, CleanUp
  <1>2. /\ pc[o] = "cleanup"
        /\ UNCHANGED <<attempts, list, htable, completed, devVars, bufVars, sem, torn>>
    BY DEF CleanUp
  <1>3. \E w \in {"unlist", "unhash", "hung", "over"} : Goes(o, w, ret[o])
    BY DEF CleanUp
  <1>4. /\ pc' \in [Ops -> Places] /\ ret' = ret
        /\ \A p \in Ops \ {o} : pc'[p] = pc[p] /\ ret'[p] = ret[p]
    BY <1>1, <1>3 DEF Goes, TypeOK, Places
  <1>5. /\ flags' = flags \/ flags' = [flags EXCEPT ![o] = {"interrupted"}]
        /\ \/ /\ "waiting" \in flags[o] /\ pc'[o] = "unlist" /\ flags'[o] = {"interrupted"}
           \/ /\ "inprogress" \in flags[o] /\ pc'[o] = "unhash" /\ flags'[o] = {"interrupted"}
           \/ /\ "serviced" \in flags[o] /\ pc'[o] = "hung" /\ flags'[o] = flags[o]
           \/ /\ flags[o] = {} /\ pc'[o] = "over" /\ flags'[o] = {}
    BY <1>1 DEF CleanUp, Goes, TypeOK
  <1>6. TypeOK'
    <2>1. flags' \in [Ops -> SUBSET Flags]
      BY <1>1, <1>5 DEF TypeOK, Flags
    <2> QED BY <1>1, <1>2, <1>4, <2>1 DEF TypeOK, devVars, bufVars
  <1>7. On(o)' <=> On(o)
    BY <1>2 DEF On
  <1>8. UNCHANGED <<htable, reading, writing, held, daemon, stage, closing, torn, attempts>>
    BY <1>2 DEF devVars
  <1>9. Alone(o)
    <2>1. \A x \in completed' : pc'[x] = "done"
      BY <1>1, <1>2, <1>4, OpsFacts DEF Device, TypeOK
    <2>2. \A p \in Ops \ {o} : flags'[p] = flags[p]
      BY <1>1, <1>5 DEF TypeOK
    <2> QED BY <1>2, <1>4, <2>1, <2>2 DEF Alone
  <1>10. ASSUME o \notin late PROVE OpInv(o)'
    <2>0. OpInv(o) /\ Where(o)
      BY <1>1, <1>10
    <2>1. OnePlace(o)' /\ Fresh(o)' /\ Waiting(o)'
      BY <2>0, <1>5, <1>7, <1>8 DEF OpInv, OnePlace, Fresh, Waiting
    <2>2. Leaving(o)'
      BY <2>0, <1>5, <1>7, <1>8 DEF OpInv, OnePlace, Leaving, Where, Away
    <2>3. Purge(o)'
      <3>1. ret'[o] = "EAGAIN" => daemon = "down" /\ Away(o)
        BY <1>1, <1>2, <1>4, <2>0, OpsFacts DEF OpInv, Purge, Device, Away
      <3> QED BY <1>5, <1>8, <3>1 DEF Purge, Away
    <2> QED BY <2>1, <2>2, <2>3 DEF OpInv
  <1>11. o = Mount => MountInv'
    BY <1>1, <1>2, <1>5, <1>8 DEF MountInv
  <1> QED BY <1>2, <1>6, <1>9, <1>10, <1>11, AloneKeeps

\* The removal that follows it.
LEMMA TakeOffStep ==
  ASSUME UpInv, NEW o \in Ops, TakeOff(o)
  PROVE  UpInv'
  <1>1. TypeOK /\ Device /\ Remounting /\ MountInv /\ CancelInv /\ (o \notin late => OpInv(o))
    BY DEF UpInv
  <1>2. /\ pc' = [pc EXCEPT ![o] = "over"] /\ ret' = ret
        /\ UNCHANGED <<flags, attempts, completed, devVars, bufVars, sem, torn>>
        /\ \/ pc[o] = "unlist" /\ list' = Off(o) /\ htable' = htable
           \/ pc[o] = "unhash" /\ htable' = htable \ {o} /\ list' = list
    BY <1>1 DEF TakeOff, Goes, TypeOK
  <1>3. /\ list' \in Seq(Ops)
        /\ \A i, j \in DOMAIN list' : list'[i] = list'[j] => i = j
        /\ \A p \in Ops : p # o => (On(p)' <=> On(p))
        /\ pc[o] = "unlist" => ~ On(o)'
        /\ pc[o] = "unhash" => (On(o)' <=> On(o))
    <2>1. CASE pc[o] = "unlist"
      BY <1>1, <1>2, <2>1, OffFacts DEF On
    <2>2. CASE pc[o] = "unhash"
      BY <1>1, <1>2, <2>2 DEF On, TypeOK
    <2> QED BY <1>2, <2>1, <2>2
  <1>4. TypeOK'
    <2>1. pc' \in [Ops -> Places] /\ htable' \subseteq Ops
      BY <1>1, <1>2 DEF TypeOK, Places
    <2> QED BY <1>1, <1>2, <1>3, <2>1 DEF TypeOK, devVars, bufVars
  <1>5. /\ \A p \in Ops \ {o} : pc'[p] = pc[p] /\ (p \in htable' <=> p \in htable)
        /\ pc'[o] = "over" /\ flags' = flags /\ ret' = ret
        /\ UNCHANGED <<daemon, closing, late, remount, pending, reading, writing, stage, held>>
    BY <1>1, <1>2 DEF TypeOK, devVars
  <1>6. \A p \in Ops \ late' : OpInv(p)'
    <2>1. ASSUME NEW p \in Ops \ late, p # o PROVE OpInv(p)'
      <3>1. OpInv(p)
        BY DEF UpInv
      <3> QED BY <1>2, <1>3, <1>5, <2>1, <3>1, Frame
    <2>2. ASSUME o \notin late PROVE OpInv(o)'
      <3>0. OpInv(o)
        BY <1>1, <2>2
      <3>1. o \notin htable' \/ o \in Cancels
        BY <3>0, <1>2 DEF OpInv, Leaving
      <3>2. ~ On(o)' \/ o \in Cancels
        BY <3>0, <1>2, <1>3 DEF OpInv, Leaving
      <3>3. o \in htable' => o \in htable
        BY <1>2
      <3>4. On(o)' => On(o)
        BY <1>2, <1>3
      <3>5. ret[o] = "EAGAIN" => Away(o)
        BY <1>1, <1>2, <3>0, OpsFacts DEF OpInv, Purge, Device, Away
      <3> QED BY <3>0, <1>2, <1>5, <3>1, <3>2, <3>3, <3>4, <3>5
          DEF OpInv, OnePlace, Fresh, Waiting, Leaving, Purge, Away
    <2> QED BY <1>5, <2>1, <2>2
  <1>7. Device' /\ Remounting' /\ MountInv'
    BY <1>1, <1>2, <1>5, OpsFacts DEF TypeOK, Device, Remounting, MountInv
  <1>8. CancelInv'
    <2> SUFFICES ASSUME NEW c \in IoCallers, pc'[Main(c)] \notin {"cancel", "done"}
                 PROVE  pc'[Cancel(c)] = "none"
      BY DEF CancelInv
    <2>1. Main(c) \in Ops /\ Cancel(c) \in Ops
      BY OpsFacts
    <2> QED BY <1>1, <1>2, <1>5, <2>1 DEF CancelInv
  <1> QED BY <1>4, <1>6, <1>7, <1>8 DEF UpInv

\* Op_release clears the structures it frees and no other.
LEMMA ReleaseFacts ==
  ASSUME TypeOK, NEW S \in SUBSET Ops, Release(S)
  PROVE  /\ flags' \in [Ops -> SUBSET Flags] /\ attempts' \in [Ops -> Nat]
         /\ \A o \in Ops : flags'[o] = IF o \in S THEN {} ELSE flags[o]
         /\ \A o \in Ops : attempts'[o] = IF o \in S THEN 0 ELSE attempts[o]
         /\ torn \subseteq torn' /\ torn' \subseteq Ops
  <1>1. /\ flags' = [o \in Ops |-> IF o \in S THEN {} ELSE flags[o]]
        /\ attempts' = [o \in Ops |-> IF o \in S THEN 0 ELSE attempts[o]]
    BY DEF Release, Freed
  <1>2. flags' \in [Ops -> SUBSET Flags] /\ attempts' \in [Ops -> Nat]
    BY <1>1 DEF TypeOK
  <1>3. torn \subseteq torn' /\ torn' \subseteq Ops
    BY DEF Release, TypeOK
  <1> QED BY <1>1, <1>2, <1>3

\* The places in which a caller's operation is neither queued nor served.
Ashore == {"none", "slot", "post", "over", "remap", "ret", "copy"}

\* A step of a caller whose operation is nowhere: only where it goes to
\* matters.
LEMMA CallerKeeps ==
  ASSUME UpInv, TypeOK', NEW o \in Mains, pc[o] \in Ashore,
         UNCHANGED <<list, htable, devVars>>,
         \A p \in Ops \ {o} : pc'[p] = pc[p] /\ flags'[p] = flags[p] /\ ret'[p] = ret[p],
         attempts'[Mount] = attempts[Mount], torn \subseteq torn',
         flags'[o] = flags[o] \/ flags'[o] = {},
         pc'[o] \in {"slot", "post", "remap", "ret", "copy", "done"},
         o \notin late /\ (\/ pc'[o] \in {"slot", "post", "remap"}
                           \/ (pc'[o] = "ret" /\ ret'[o] = "EAGAIN"))
           => Away(o),
         completed' \subseteq completed \cup (IF pc'[o] = "done" THEN {o} ELSE {})
  PROVE  UpInv'
  <1>1. o \in Ops /\ o # Mount /\ o \notin Cancels
    BY OpsFacts
  <1>2. TypeOK /\ Device /\ (o \notin late => OpInv(o)) /\ pc[o] # "done"
    BY <1>1 DEF UpInv, Ashore
  <1>3. o \notin late => ~ On(o) /\ o \notin htable /\ "waiting" \notin flags[o]
    BY <1>1, <1>2 DEF OpInv, Leaving, Fresh, Ashore
  <1>4. On(o)' <=> On(o)
    BY DEF On
  <1>5. UNCHANGED <<htable, reading, writing, held, daemon, stage, closing>>
    BY DEF devVars
  <1>6. o \notin late => OpInv(o)'
    <2> SUFFICES ASSUME o \notin late PROVE OpInv(o)'
      OBVIOUS
    <2>1. OnePlace(o)' /\ Waiting(o)' /\ Leaving(o)'
      BY <1>2, <1>3, <1>4, <1>5 DEF OpInv, OnePlace, Waiting, Leaving
    <2>2. Fresh(o)'
      BY <1>3, <1>4, <1>5 DEF Fresh, Away
    <2>3. Purge(o)'
      BY <1>2, <1>5 DEF OpInv, Purge, Away
    <2> QED BY <2>1, <2>2, <2>3 DEF OpInv
  <1>7. Alone(o)
    <2>1. \A x \in completed' : pc'[x] = "done"
      <3> SUFFICES ASSUME NEW x \in completed', x # o PROVE pc'[x] = "done"
        BY <1>2 DEF Device
      <3>1. x \in completed /\ x \in Ops /\ pc[x] = "done"
        BY <1>2, OpsFacts DEF Device, TypeOK
      <3> QED BY <3>1
    <2> QED BY <2>1 DEF Alone
  <1>8. pc[o] \notin {"cancel", "done"}
    BY DEF Ashore
  <1> QED BY <1>1, <1>6, <1>7, <1>8, AloneKeeps

\* The caller's steps up to the post of its operation.
LEMMA CallSteps ==
  ASSUME UpInv, NEW c \in Callers,
         \/ CallPlain(c)
         \/ c \in IoCallers /\ 
              (\/ CallIo(c) \/ GetSlot(c) \/ GetSlotStale(c)
               \/ NoSlot(c) \/ PrecopyFails(c))
  PROVE  UpInv'
  <1> DEFINE o == Main(c)
  <1>1. o \in Mains /\ o \in Ops /\ o # Mount /\ {o} \in SUBSET Ops
    BY OpsFacts
  <1>2. TypeOK /\ (o \notin late => OpInv(o))
    BY <1>1 DEF UpInv
  <1>3. /\ pc[o] \in {"none", "slot", "post"}
        /\ UNCHANGED <<list, htable, completed, devVars, mapped, gen, sem>>
    BY DEF CallPlain, CallIo, GetSlot, GetSlotStale, NoSlot, PrecopyFails, bufVars
  <1>4. \/ Goes(o, "post", "none") /\ UNCHANGED <<flags, attempts, torn>>
        \/ Goes(o, "slot", "none") /\ UNCHANGED <<flags, attempts, torn>>
        \/ Goes(o, "done", "none") /\ Release({o})
    BY DEF CallPlain, CallIo, GetSlot, GetSlotStale, NoSlot, PrecopyFails
  <1>5. /\ pc' \in [Ops -> Places] /\ ret' \in [Ops -> Results]
        /\ \A p \in Ops \ {o} : pc'[p] = pc[p] /\ ret'[p] = ret[p]
        /\ pc'[o] \in {"slot", "post", "done"} /\ ret'[o] = "none"
    BY <1>1, <1>2, <1>4 DEF Goes, TypeOK, Places, Results
  <1>6. /\ flags' \in [Ops -> SUBSET Flags] /\ attempts' \in [Ops -> Nat]
        /\ \A p \in Ops \ {o} : flags'[p] = flags[p] /\ attempts'[p] = attempts[p]
        /\ flags'[o] = flags[o] \/ flags'[o] = {}
        /\ torn \subseteq torn' /\ torn' \subseteq Ops
    <2>1. CASE UNCHANGED <<flags, attempts, torn>>
      BY <1>2, <2>1 DEF TypeOK
    <2>2. CASE Release({o})
      BY <1>1, <1>2, <2>2, ReleaseFacts
    <2> QED BY <1>4, <2>1, <2>2
  <1>7. /\ inuse' \subseteq Buffers /\ buffer' \in [IoCallers -> Buffers \cup {None}]
        /\ array' \in [IoCallers -> Nat]
    <2>1. CASE CallPlain(c) \/ NoSlot(c)
      BY <1>2, <2>1 DEF CallPlain, NoSlot, bufVars, TypeOK
    <2>2. CASE CallIo(c)
      BY <1>2, <2>2 DEF CallIo, TypeOK
    <2>3. CASE GetSlot(c) \/ GetSlotStale(c)
      BY <1>2, <2>3 DEF GetSlot, GetSlotStale, TypeOK
    <2>4. CASE PrecopyFails(c)
      BY <1>2, <2>4 DEF PrecopyFails, InUseWithout, TypeOK
    <2> QED BY <2>1, <2>2, <2>3, <2>4
  <1>8. TypeOK'
    BY <1>2, <1>3, <1>5, <1>6, <1>7 DEF TypeOK, devVars
  <1>9. o \notin late => Away(o)
    BY <1>1, <1>2, <1>3 DEF OpInv, Fresh
  <1>10. pc[o] \in Ashore /\ attempts'[Mount] = attempts[Mount] /\ completed' \subseteq completed
    BY <1>1, <1>3, <1>6, OpsFacts DEF Ashore
  <1> HIDE DEF o
  <1> QED BY <1>1, <1>3, <1>5, <1>6, <1>8, <1>9, <1>10, CallerKeeps

\* The caller's steps after the wait, but for the start of a cancellation.
LEMMA ReturnSteps ==
  ASSUME UpInv, NEW c \in Callers,
         \/ c \in PlainCallers /\ PlainOver(c)
         \/ c \in IoCallers /\ (IoOver(c) \/ Remapped(c) \/ Copied(c))
  PROVE  UpInv'
  <1> DEFINE o == Main(c)
  <1>1. o \in Mains /\ o \in Ops /\ o # Mount /\ {o} \in SUBSET Ops /\ o \notin Cancels
    BY OpsFacts
  <1>2. TypeOK /\ (o \notin late => OpInv(o))
    BY <1>1 DEF UpInv
  <1>3. /\ pc[o] \in {"over", "remap", "copy"}
        /\ UNCHANGED <<list, htable, devVars, mapped, gen, sem, array>>
    BY DEF PlainOver, IoOver, Remapped, Copied, bufVars
  <1>4. \/ /\ Goes(o, "post", "none") /\ UNCHANGED <<flags, attempts, torn, completed>>
           /\ pc[o] = "over" /\ ret[o] = "EAGAIN"
        \/ Goes(o, "done", "none") /\ Release({o}) /\ UNCHANGED completed
        \/ /\ Goes(o, "remap", ret[o]) /\ UNCHANGED <<flags, attempts, torn, completed>>
           /\ pc[o] = "over" /\ ret[o] = "EAGAIN"
        \/ /\ Goes(o, "ret", ret[o]) /\ UNCHANGED <<flags, attempts, torn, completed>>
           /\ pc[o] = "over"
        \/ /\ \E r \in {"EAGAIN", "EIO"} : Goes(o, "ret", r)
           /\ UNCHANGED <<flags, attempts, torn, completed>> /\ pc[o] = "remap"
        \/ /\ Goes(o, "done", "none") /\ UNCHANGED <<flags, attempts, torn>>
           /\ c \in IoCallers /\ completed' = completed \cup {o}
    <2>1. CASE c \in PlainCallers /\ PlainOver(c)
      BY <2>1 DEF PlainOver, Again
    <2>2. CASE c \in IoCallers /\ IoOver(c)
      BY <2>2 DEF IoOver, Again
    <2>3. CASE c \in IoCallers /\ Remapped(c)
      BY <2>3 DEF Remapped
    <2>4. CASE c \in IoCallers /\ Copied(c)
      BY <2>4 DEF Copied
    <2> QED BY <2>1, <2>2, <2>3, <2>4
  <1>5. /\ pc' \in [Ops -> Places] /\ ret' \in [Ops -> Results]
        /\ \A p \in Ops \ {o} : pc'[p] = pc[p] /\ ret'[p] = ret[p]
        /\ pc'[o] \in {"post", "remap", "ret", "done"}
    BY <1>1, <1>2, <1>4 DEF Goes, TypeOK, Places, Results
  <1>6. /\ flags' \in [Ops -> SUBSET Flags] /\ attempts' \in [Ops -> Nat]
        /\ \A p \in Ops \ {o} : flags'[p] = flags[p] /\ attempts'[p] = attempts[p]
        /\ flags'[o] = flags[o] \/ flags'[o] = {}
        /\ torn \subseteq torn' /\ torn' \subseteq Ops
    <2>1. CASE UNCHANGED <<flags, attempts, torn>>
      BY <1>2, <2>1 DEF TypeOK
    <2>2. CASE Release({o})
      BY <1>1, <1>2, <2>2, ReleaseFacts
    <2> QED BY <1>4, <2>1, <2>2
  <1>7. inuse' \subseteq Buffers /\ buffer' \in [IoCallers -> Buffers \cup {None}]
    <2>1. CASE c \in PlainCallers /\ PlainOver(c)
      BY <1>2, <2>1 DEF PlainOver, bufVars, TypeOK
    <2>2. CASE IoOver(c) \/ Remapped(c)
      BY <1>2, <2>2 DEF IoOver, Remapped, bufVars, TypeOK
    <2>3. CASE Copied(c)
      BY <1>2, <2>3 DEF Copied, InUseWithout, TypeOK
    <2> QED BY <2>1, <2>2, <2>3
  <1>8. /\ completed' \subseteq IoMains
        /\ completed' \subseteq completed \cup (IF pc'[o] = "done" THEN {o} ELSE {})
    <2>1. CASE completed' = completed
      BY <1>2, <2>1 DEF TypeOK
    <2>2. CASE c \in IoCallers /\ Goes(o, "done", "none") /\ completed' = completed \cup {o}
      BY <1>1, <1>2, <2>2, OpsFacts DEF TypeOK, Goes
    <2> QED BY <1>4, <2>1, <2>2
  <1>9. TypeOK'
    BY <1>2, <1>3, <1>5, <1>6, <1>7, <1>8 DEF TypeOK, devVars
  <1>10. o \notin late /\ (\/ pc'[o] \in {"slot", "post", "remap"}
                           \/ (pc'[o] = "ret" /\ ret'[o] = "EAGAIN"))
           => Away(o)
    <2>1. /\ o \notin late
          /\ (pc[o] = "over" /\ ret[o] = "EAGAIN") \/ pc[o] = "remap"
          => Away(o)
      BY <1>1, <1>2 DEF OpInv, Purge
    <2> QED BY <1>1, <1>2, <1>4, <2>1 DEF Goes, TypeOK
  <1>11. pc[o] \in Ashore /\ attempts'[Mount] = attempts[Mount]
    BY <1>1, <1>3, <1>6, OpsFacts DEF Ashore
  <1> HIDE DEF o
  <1> QED BY <1>1, <1>3, <1>5, <1>6, <1>8, <1>9, <1>10, <1>11, CallerKeeps

\* A step of a caller that concerns its call and its cancellation.
LEMMA PairKeeps ==
  ASSUME UpInv, TypeOK', NEW c \in IoCallers, UNCHANGED <<list, htable, devVars, completed>>,
         \A p \in Ops \ {Main(c), Cancel(c)} :
           pc'[p] = pc[p] /\ flags'[p] = flags[p] /\ ret'[p] = ret[p],
         attempts'[Mount] = attempts[Mount], torn \subseteq torn',
         pc'[Main(c)] \in {"cancel", "done"},
         Main(c) \in completed => pc'[Main(c)] = "done",
         Main(c) \notin late => OpInv(Main(c))', Cancel(c) \notin late => OpInv(Cancel(c))'
  PROVE  UpInv'
  <1>1. /\ UNCHANGED <<daemon, closing, late, remount, pending, reading, writing, stage, held>>
        /\ \A p \in Ops : On(p)' <=> On(p)
    BY DEF devVars, On
  <1>2. pc'[Mount] = pc[Mount]
    BY OpsFacts
  <1>3. \A p \in Ops \ late' : OpInv(p)'
    <2> SUFFICES ASSUME NEW p \in Ops \ late, p # Main(c), p # Cancel(c) PROVE OpInv(p)'
      BY <1>1
    <2>1. OpInv(p) /\ p \in Ops \ {Main(c), Cancel(c)}
      BY DEF UpInv
    <2>2. pc'[p] = pc[p] /\ flags'[p] = flags[p] /\ ret'[p] = ret[p]
      BY <2>1
    <2> QED BY <1>1, <2>1, <2>2, Frame
  <1>4. Device'
    <2>1. \A x \in completed' : pc'[x] = "done"
      <3> SUFFICES ASSUME NEW x \in completed, x # Main(c) PROVE pc'[x] = "done"
        OBVIOUS
      <3>1. x \in Ops /\ x # Cancel(c) /\ pc[x] = "done"
        BY OpsFacts DEF UpInv, TypeOK, Device
      <3> QED BY <3>1
    <2> QED BY <1>1, <1>2, <2>1 DEF UpInv, Device
  <1>5. Remounting' /\ MountInv'
    BY <1>1, <1>2 DEF UpInv, Remounting, MountInv
  <1>6. CancelInv'
    <2> SUFFICES ASSUME NEW d \in IoCallers, pc'[Main(d)] \notin {"cancel", "done"}
                 PROVE  pc'[Cancel(d)] = "none"
      BY DEF CancelInv
    <2>1. d # c
      OBVIOUS
    <2>2. /\ Main(d) \in Ops \ {Main(c), Cancel(c)} /\ Cancel(d) \in Ops \ {Main(c), Cancel(c)}
      BY <2>1, OpsFacts
    <2> QED BY <2>2 DEF UpInv, CancelInv
  <1> QED BY <1>3, <1>4, <1>5, <1>6 DEF UpInv

\* wait_for_direct_io after service_operation.
LEMMA IoReturnedStep ==
  ASSUME UpInv, NEW c \in IoCallers, IoReturned(c)
  PROVE  UpInv'
  <1> DEFINE o == Main(c)
             x == Cancel(c)
  <1>1. /\ o \in Mains /\ o \in Ops /\ o \notin Cancels /\ o # Mount
        /\ x \in Cancels /\ x \in Ops /\ x # o /\ x # Mount
    BY OpsFacts
  <1>2. /\ TypeOK /\ Device
        /\ o \notin late => OpInv(o)
        /\ x \notin late => OpInv(x)
    BY <1>1 DEF UpInv
  <1>3. /\ pc[o] = "ret" /\ pc[x] = "none"
        /\ UNCHANGED <<flags, attempts, list, htable, completed, devVars, mapped, gen,
                       inuse, buffer, sem, torn>>
    BY DEF IoReturned, UpInv, CancelInv
  <1>4. \/ /\ pc' = [pc EXCEPT ![o] = "slot"] /\ ret' = [ret EXCEPT ![o] = "none"]
           /\ ret[o] = "EAGAIN"
        \/ pc' = [pc EXCEPT ![o] = "copy"] /\ ret' = ret
        \/ pc' = [pc EXCEPT ![o] = "cancel", ![x] = "post"] /\ ret' = ret
    BY DEF IoReturned, Goes
  <1>5. array' \in [IoCallers -> Nat]
    BY <1>2 DEF IoReturned, TypeOK
  <1>6. TypeOK'
    <2>1. pc' \in [Ops -> Places] /\ ret' \in [Ops -> Results]
      BY <1>1, <1>2, <1>4 DEF TypeOK, Places, Results
    <2> QED BY <1>2, <1>3, <1>5, <2>1 DEF TypeOK, devVars
  <1> HIDE DEF o, x
  <1>7. CASE pc' # [pc EXCEPT ![o] = "cancel", ![x] = "post"]
    <2>1. /\ \A p \in Ops \ {o} : pc'[p] = pc[p] /\ flags'[p] = flags[p] /\ ret'[p] = ret[p]
          /\ pc'[o] \in {"slot", "copy"} /\ (pc'[o] = "slot" => ret[o] = "EAGAIN")
      BY <1>1, <1>2, <1>3, <1>4, <1>7 DEF TypeOK
    <2>2. o \notin late /\ pc'[o] = "slot" => Away(o)
      BY <1>1, <1>2, <1>3, <2>1 DEF OpInv, Purge
    <2>3. pc[o] \in Ashore
      BY <1>3 DEF Ashore
    <2> QED BY <1>1, <1>3, <1>6, <2>1, <2>2, <2>3, CallerKeeps
  <1>8. CASE pc' = [pc EXCEPT ![o] = "cancel", ![x] = "post"]
    <2>1. /\ \A p \in Ops \ {o, x} : pc'[p] = pc[p] /\ flags'[p] = flags[p] /\ ret'[p] = ret[p]
          /\ pc'[o] = "cancel" /\ pc'[x] = "post"
          /\ flags' = flags /\ ret' = ret
      BY <1>1, <1>2, <1>3, <1>4, <1>8 DEF TypeOK
    <2>2. /\ UNCHANGED <<htable, reading, writing, held, daemon, stage, closing>>
          /\ On(o)' <=> On(o)
          /\ On(x)' <=> On(x)
      BY <1>3 DEF devVars, On
    <2>3. o \notin late => OpInv(o)'
      BY <1>1, <1>2, <1>3, <2>1, <2>2
      DEF OpInv, OnePlace, Fresh, Waiting, Leaving, Purge, Away
    <2>4. x \notin late => OpInv(x)'
      BY <1>1, <1>2, <1>3, <2>1, <2>2
      DEF OpInv, OnePlace, Fresh, Waiting, Leaving, Purge, Away
    <2>5. o \notin completed
      BY <1>2, <1>3 DEF Device
    <2> QED BY <1>3, <1>6, <2>1, <2>3, <2>4, <2>5, PairKeeps DEF o, x
  <1> QED BY <1>7, <1>8

\* The end of a cancellation.
LEMMA CancelOverStep ==
  ASSUME UpInv, NEW c \in IoCallers, CancelOver(c)
  PROVE  UpInv'
  <1> DEFINE o == Main(c)
             x == Cancel(c)
  <1>1. /\ o \in Mains /\ o \in Ops /\ o \notin Cancels /\ o # Mount
        /\ x \in Cancels /\ x \in Ops /\ x # o /\ x # Mount /\ {x, o} \in SUBSET Ops
    BY OpsFacts
  <1>2. /\ TypeOK /\ Device
        /\ o \notin late => OpInv(o)
        /\ x \notin late => OpInv(x)
    BY <1>1 DEF UpInv
  <1>3. /\ pc[x] = "over" /\ pc[o] \in {"cancel", "done"}
        /\ pc' = [pc EXCEPT ![x] = "done", ![o] = "done"]
        /\ ret' = [ret EXCEPT ![x] = "none", ![o] = "none"]
        /\ Release({x, o})
        /\ UNCHANGED <<list, htable, completed, devVars, mapped, gen, array, sem>>
    BY DEF CancelOver, UpInv, CancelInv
  <1>4. inuse' \subseteq Buffers /\ buffer' \in [IoCallers -> Buffers \cup {None}]
    BY <1>2 DEF CancelOver, InUseWithout, TypeOK
  <1>5. /\ flags' \in [Ops -> SUBSET Flags] /\ attempts' \in [Ops -> Nat]
        /\ \A p \in Ops \ {o, x} : flags'[p] = flags[p] /\ attempts'[p] = attempts[p]
        /\ flags'[o] = {} /\ flags'[x] = {}
        /\ torn \subseteq torn' /\ torn' \subseteq Ops
    BY <1>1, <1>2, <1>3, ReleaseFacts
  <1>6. TypeOK'
    <2>1. pc' \in [Ops -> Places] /\ ret' \in [Ops -> Results]
      BY <1>1, <1>2, <1>3 DEF TypeOK, Places, Results
    <2> QED BY <1>2, <1>3, <1>4, <1>5, <2>1 DEF TypeOK, devVars
  <1> HIDE DEF o, x
  <1>7. /\ \A p \in Ops \ {o, x} : pc'[p] = pc[p] /\ ret'[p] = ret[p]
        /\ pc'[o] = "done" /\ pc'[x] = "done"
    BY <1>1, <1>2, <1>3 DEF TypeOK
  <1>8. /\ UNCHANGED <<htable, reading, writing, held, daemon, stage, closing>>
        /\ On(o)' <=> On(o)
        /\ On(x)' <=> On(x)
    BY <1>3 DEF devVars, On
  <1>9. o \notin late => OpInv(o)'
    BY <1>1, <1>2, <1>3, <1>5, <1>7, <1>8
    DEF OpInv, OnePlace, Fresh, Waiting, Leaving, Purge, Away
  <1>10. x \notin late => OpInv(x)'
    BY <1>1, <1>2, <1>3, <1>5, <1>7, <1>8
    DEF OpInv, OnePlace, Fresh, Waiting, Leaving, Purge, Away
  <1>11. attempts'[Mount] = attempts[Mount]
    BY <1>1, <1>5, OpsFacts
  <1> QED BY <1>3, <1>5, <1>6, <1>7, <1>9, <1>10, <1>11, PairKeeps DEF o, x

-----------------------------------------------------------------------------
(* The daemon's steps.                                                     *)

\* Cancellations are not started by the daemon.
LEMMA CancelKept ==
  ASSUME UpInv, \A p \in Ops : p = Mount \/ pc'[p] = pc[p]
  PROVE  CancelInv'
  <1> SUFFICES ASSUME NEW c \in IoCallers, pc'[Main(c)] \notin {"cancel", "done"}
               PROVE  pc'[Cancel(c)] = "none"
    BY DEF CancelInv
  <1>1. /\ Main(c) \in Ops /\ Main(c) # Mount /\ Cancel(c) \in Ops /\ Cancel(c) # Mount
    BY OpsFacts
  <1> QED BY <1>1 DEF UpInv, CancelInv

\* A read takes a waiting operation off the list, none of a file system that
\* has to be mounted again.
LEMMA ReadPickStep ==
  ASSUME UpInv, ReadPick
  PROVE  UpInv'
  <1>1. TypeOK /\ Device /\ Remounting /\ MountInv
    BY DEF UpInv
  <1>2. PICK k \in DOMAIN list :
          Readable(list[k]) /\ reading' = list[k] /\ list' = RemoveAt(list, k)
    BY DEF ReadPick
  <1>3. /\ daemon = "up" /\ reading = None
        /\ UNCHANGED <<pc, flags, attempts, ret, htable, completed, daemon, closing, deaths, late,
                       remount, pending, writing, stage, held, bufVars, sem, torn>>
    BY DEF ReadPick
  <1>o. PICK o \in Ops : o = list[k]
    BY <1>1, <1>2 DEF TypeOK
  <1>4. On(o) /\ "waiting" \in flags[o] /\ (o \in Mains => ~ pending)
    BY <1>1, <1>2, <1>o DEF TypeOK, On, Contains, Readable, OfFs
  <1>5. /\ list' \in Seq(Ops)
        /\ \A i, j \in DOMAIN list' : list'[i] = list'[j] => i = j
        /\ \A p \in Ops : On(p)' <=> On(p) /\ p # o
    BY <1>1, <1>2, <1>o, RemoveAtFacts DEF TypeOK, On
  <1>6. reading' = o
    BY <1>2, <1>o
  <1>7. (o \notin late => OpInv(o)) /\ o # None
    BY <1>4, OpsFacts DEF UpInv
  <1>8. TypeOK'
    BY <1>1, <1>3, <1>4, <1>5, <1>6 DEF TypeOK, bufVars
  <1>9. \A p \in Ops \ late' : OpInv(p)'
    <2>1. ASSUME NEW p \in Ops \ late, p # o PROVE OpInv(p)'
      <3>1. OpInv(p) /\ p # None
        BY OpsFacts DEF UpInv
      <3>2. /\ pc'[p] = pc[p] /\ flags'[p] = flags[p] /\ ret'[p] = ret[p]
            /\ On(p)' <=> On(p)
            /\ reading' # p /\ reading # p
        BY <1>3, <1>5, <1>6, <2>1, <3>1
      <3> QED BY <1>3, <3>1, <3>2, Frame
    <2>2. ASSUME o \notin late PROVE OpInv(o)'
      <3>0. OpInv(o)
        BY <1>7, <2>2
      <3>1. ~ On(o)' /\ o \notin htable /\ writing # o /\ o \notin held
        BY <1>4, <1>5, <3>0 DEF OpInv, OnePlace
      <3>2. OnePlace(o)' /\ Waiting(o)'
        BY <1>3, <1>4, <1>6, <3>0, <3>1 DEF OpInv, OnePlace, Waiting, Where, Away
      <3>3. Fresh(o)'
        BY <1>3, <1>4, <3>0 DEF OpInv, Fresh
      <3>4. Leaving(o)' /\ Purge(o)'
        BY <1>3, <1>4, <3>0, <3>1 DEF OpInv, Leaving, Purge
      <3> QED BY <3>2, <3>3, <3>4 DEF OpInv
    <2> QED BY <1>3, <2>1, <2>2
  <1>10. Device'
    BY <1>1, <1>3 DEF Device
  <1>11. Remounting'
    BY <1>1, <1>3, <1>4, <1>6 DEF Remounting
  <1>12. MountInv'
    <2>1. o = Mount => pc[o] \notin {"none", "over"}
      BY <1>1, <1>4, <1>7, OpsFacts DEF OpInv, Leaving, TypeOK
    <2> QED BY <1>1, <1>3, <1>6, <2>1 DEF MountInv
  <1>13. CancelInv'
    BY <1>3, CancelKept
  <1> QED BY <1>8, <1>9, <1>10, <1>11, <1>12, <1>13 DEF UpInv

\* The read looks at the state again before it hands the operation out.
LEMMA ReadMarkStep ==
  ASSUME UpInv, ReadMark
  PROVE  UpInv'
  <1>1. TypeOK /\ Device /\ Remounting /\ MountInv
    BY DEF UpInv
  <1> DEFINE o == reading
             taken == "waiting" \in flags[reading]
  <1>2. /\ reading # None /\ reading' = None
        /\ flags' = IF taken THEN [flags EXCEPT ![o] = {"inprogress"}] ELSE flags
        /\ htable' = IF taken THEN htable \cup {o} ELSE htable
        /\ held' = IF taken THEN held \cup {o} ELSE held
        /\ UNCHANGED <<pc, attempts, ret, list, completed, daemon, closing, deaths, late, remount,
                       pending, writing, stage, bufVars, sem, torn>>
    BY DEF ReadMark
  <1>3. o \in Ops /\ (o \notin late => OpInv(o)) /\ daemon # "down"
    BY <1>1, <1>2 DEF TypeOK, UpInv, Device
  <1>4. TypeOK'
    <2>1. flags' \in [Ops -> SUBSET Flags] /\ htable' \subseteq Ops /\ held' \subseteq Ops
      BY <1>1, <1>2, <1>3 DEF TypeOK, Flags
    <2> QED BY <1>1, <1>2, <2>1 DEF TypeOK, bufVars
  <1>5. \A p \in Ops : On(p)' <=> On(p)
    BY <1>2 DEF On
  <1>6. o \notin late /\ taken => o \in Cancels \/ pc[o] \in {"wait", "cleanup"}
    BY <1>3 DEF OpInv, Leaving
  <1>7. o \notin late => ~ On(o) /\ o \notin htable /\ writing # o /\ o \notin held
    BY <1>3 DEF OpInv, OnePlace
  <1>8. ASSUME NEW p \in Ops \ late PROVE OpInv(p)'
    <2>1. OpInv(p) /\ p # None
      BY OpsFacts DEF UpInv
    <2>2. CASE p # o
      <3>1. /\ pc'[p] = pc[p] /\ flags'[p] = flags[p] /\ ret'[p] = ret[p]
            /\ p \in htable' <=> p \in htable
            /\ p \in held' <=> p \in held
        BY <1>1, <1>2, <2>2 DEF TypeOK
      <3> QED BY <1>2, <1>5, <2>1, <2>2, <3>1, Frame
    <2>3. CASE p = o /\ ~ taken
      <3>1. UNCHANGED <<flags, htable, held>>
        BY <1>2, <2>3
      <3> QED BY <1>2, <1>5, <1>7, <2>1, <2>3, <3>1
          DEF OpInv, OnePlace, Fresh, Waiting, Where, Leaving, Purge, Away
    <2>4. CASE p = o /\ taken
      <3>1. flags'[p] = {"inprogress"} /\ p \in htable' /\ p \in held'
        BY <1>1, <1>2, <2>4 DEF TypeOK
      <3>2. /\ ~ On(p)' /\ reading' # p /\ writing' # p
        BY <1>2, <1>5, <1>7, <2>1, <2>4
      <3>3. OnePlace(p)' /\ Waiting(p)'
        BY <3>1, <3>2 DEF OnePlace, Waiting, Where
      <3>4. pc[p] \notin {"none", "slot", "post", "queue"} \/ p \in Cancels
        BY <1>6, <2>4
      <3>5. Fresh(p)'
        <4>1. pc[p] \in {"none", "slot", "post", "queue"} => p = Mount
          BY <2>1, <2>4 DEF OpInv, Fresh, Away
        <4> QED BY <1>2, <3>4, <4>1, OpsFacts DEF Fresh
      <3>6. Leaving(p)'
        BY <1>2, <1>6, <2>4, <3>1, <3>2 DEF Leaving
      <3>7. Purge(p)'
        BY <1>2, <1>6, <2>1, <2>4, <3>1 DEF OpInv, Purge, Away
      <3> QED BY <3>3, <3>5, <3>6, <3>7 DEF OpInv
    <2> QED BY <2>2, <2>3, <2>4
  <1>9. Device'
    BY <1>1, <1>2, <1>3 DEF Device
  <1>10. Remounting'
    BY <1>1, <1>2, <1>3, OpsFacts DEF Remounting
  <1>11. MountInv'
    BY <1>1, <1>2, <1>3, OpsFacts DEF MountInv
  <1>12. CancelInv'
    BY <1>2, CancelKept
  <1> QED BY <1>2, <1>4, <1>8, <1>9, <1>10, <1>11, <1>12 DEF UpInv

\* An answer finds its operation by the tag, or nobody.
LEMMA WriteTakeStep ==
  ASSUME UpInv, NEW o \in Ops, WriteTake(o)
  PROVE  UpInv'
  <1>1. TypeOK /\ Device /\ Remounting /\ MountInv /\ o # None
    BY OpsFacts DEF UpInv
  <1>2. /\ daemon = "up" /\ writing = None /\ o \in held /\ held' = held \ {o}
        /\ \/ o \in htable /\ writing' = o /\ stage' = "taken" /\ htable' = htable \ {o}
           \/ o \notin htable /\ UNCHANGED <<writing, stage, htable>>
        /\ UNCHANGED <<pc, flags, attempts, ret, list, completed, daemon, closing, deaths, late,
                       remount, pending, reading, bufVars, sem, torn>>
    BY DEF WriteTake
  <1>3. TypeOK'
    <2>1. htable' \subseteq Ops /\ held' \subseteq Ops /\ writing' \in Ops \cup {None}
          /\ stage' \in {"none", "taken", "io"}
      BY <1>1, <1>2 DEF TypeOK
    <2> QED BY <1>1, <1>2, <2>1 DEF TypeOK, bufVars
  <1>4. \A p \in Ops : On(p)' <=> On(p)
    BY <1>2 DEF On
  <1>5. ASSUME NEW p \in Ops \ late PROVE OpInv(p)'
    <2>1. OpInv(p) /\ p # None
      BY OpsFacts DEF UpInv
    <2>2. CASE p # o
      <3>1. /\ p \in htable' <=> p \in htable
            /\ p \in held' <=> p \in held
            /\ writing' # p /\ writing # p
        BY <1>2, <2>1, <2>2
      <3> QED BY <1>2, <1>4, <2>1, <2>2, <3>1, Frame
    <2>3. CASE p = o
      <3>1. ~ On(p) /\ reading # p /\ writing # p /\ p \notin held' /\ p \notin htable'
        BY <1>1, <1>2, <2>1, <2>3 DEF OpInv, OnePlace
      <3>2. OnePlace(p)'
        BY <1>2, <1>4, <3>1 DEF OnePlace
      <3>3. Waiting(p)'
        BY <1>2, <1>4, <2>1, <2>3, <3>1 DEF OpInv, Waiting, Where, Away
      <3>4. Fresh(p)' /\ Leaving(p)' /\ Purge(p)'
        BY <1>2, <1>4, <2>1, <2>3, <3>1 DEF OpInv, Fresh, Leaving, Purge, Away
      <3> QED BY <3>2, <3>3, <3>4 DEF OpInv
    <2> QED BY <2>2, <2>3
  <1>6. Device'
    BY <1>1, <1>2 DEF Device
  <1>7. Remounting' /\ MountInv'
    BY <1>1, <1>2, OpsFacts DEF Remounting, MountInv
  <1>8. CancelInv'
    BY <1>2, CancelKept
  <1> QED BY <1>2, <1>3, <1>5, <1>6, <1>7, <1>8 DEF UpInv

\* The answer reaches the operation, wherever its caller has got to.
LEMMA WriteServeStep ==
  ASSUME UpInv, WriteServe
  PROVE  UpInv'
  <1>1. TypeOK /\ Device /\ Remounting /\ MountInv
    BY DEF UpInv
  <1>2. writing \in Ops /\ stage = "taken"
    BY <1>1 DEF WriteServe, Device, TypeOK
  <1>o. PICK o \in Ops : o = writing
    BY <1>2
  <1>3. /\ flags' = [flags EXCEPT ![o] = {"serviced"}]
        /\ \/ o \in IoMains /\ stage' = "io" /\ writing' = o
           \/ o \notin IoMains /\ stage' = "none" /\ writing' = None
        /\ UNCHANGED <<pc, attempts, ret, list, htable, completed, daemon, closing, deaths, late,
                       remount, pending, reading, held, bufVars, sem, torn>>
    BY <1>o DEF WriteServe
  <1>4. TypeOK'
    <2>1. flags' \in [Ops -> SUBSET Flags] /\ writing' \in Ops \cup {None}
          /\ stage' \in {"none", "taken", "io"}
      BY <1>1, <1>3 DEF TypeOK, Flags
    <2> QED BY <1>1, <1>3, <2>1 DEF TypeOK, bufVars
  <1>5. \A p \in Ops : On(p)' <=> On(p)
    BY <1>3 DEF On
  <1>6. ASSUME NEW p \in Ops \ late PROVE OpInv(p)'
    <2>1. OpInv(p) /\ p # None
      BY OpsFacts DEF UpInv
    <2>2. CASE p # o
      <3>1. flags'[p] = flags[p] /\ writing' # p /\ writing # p
        BY <1>1, <1>o, <1>3, <2>1, <2>2 DEF TypeOK
      <3> QED BY <1>3, <1>5, <2>1, <2>2, <3>1, Frame
    <2>3. CASE p = o
      <3>1. ~ On(p) /\ reading # p /\ p \notin held /\ p \notin htable /\ writing = p
        BY <1>o, <2>1, <2>3 DEF OpInv, OnePlace
      <3>2. flags'[p] = {"serviced"} /\ (writing' = p => stage' = "io")
        BY <1>1, <1>3, <2>1, <2>3 DEF TypeOK
      <3>3. OnePlace(p)' /\ Waiting(p)'
        BY <1>3, <1>5, <3>1, <3>2 DEF OnePlace, Waiting, Where
      <3>4. Fresh(p)'
        BY <1>3, <1>5, <2>1, <3>1 DEF OpInv, Fresh, Away
      <3>5. Leaving(p)'
        BY <1>3, <1>5, <2>1, <3>1, <3>2 DEF OpInv, Leaving
      <3>6. Purge(p)'
        BY <1>3, <2>1, <3>1, <3>2 DEF OpInv, Purge, Away
      <3> QED BY <3>3, <3>4, <3>5, <3>6 DEF OpInv
    <2> QED BY <2>2, <2>3
  <1>7. Device'
    BY <1>1, <1>2, <1>3, OpsFacts DEF Device
  <1>8. Remounting' /\ MountInv'
    <2>1. writing' = Mount => writing = Mount
      BY <1>o, <1>3, OpsFacts
    <2> QED BY <1>1, <1>3, <2>1 DEF Remounting, MountInv
  <1>9. CancelInv'
    BY <1>3, CancelKept
  <1> QED BY <1>3, <1>4, <1>6, <1>7, <1>8, <1>9 DEF UpInv

\* A write that fails leaves the operation nowhere and its caller asleep.
LEMMA WriteFailsStep ==
  ASSUME UpInv, WriteFails
  PROVE  UpInv'
  <1>1. TypeOK /\ Device /\ Remounting /\ MountInv
    BY DEF UpInv
  <1>2. writing \in Ops /\ stage = "taken"
    BY <1>1 DEF WriteFails, Device, TypeOK
  <1>o. PICK o \in Ops : o = writing
    BY <1>2
  <1>3. /\ stage' = "none" /\ writing' = None /\ torn' = torn \cup {o}
        /\ UNCHANGED <<pc, flags, attempts, ret, list, htable, completed, daemon, closing,
                       deaths, late, remount, pending, reading, held, bufVars, sem>>
    BY <1>o DEF WriteFails, opVars
  <1>4. TypeOK'
    BY <1>1, <1>3 DEF TypeOK, bufVars
  <1>5. \A p \in Ops : On(p)' <=> On(p)
    BY <1>3 DEF On
  <1>6. ASSUME NEW p \in Ops \ late PROVE OpInv(p)'
    <2>1. OpInv(p) /\ p # None
      BY OpsFacts DEF UpInv
    <2>2. CASE p # o
      <3>1. writing' # p /\ writing # p /\ (p \in torn => p \in torn')
        BY <1>o, <1>3, <2>1, <2>2
      <3> QED BY <1>3, <1>5, <2>1, <2>2, <3>1, Frame
    <2>3. CASE p = o
      <3>1. ~ On(p) /\ reading # p /\ p \notin held /\ p \notin htable /\ writing = p
        BY <1>o, <2>1, <2>3 DEF OpInv, OnePlace
      <3>2. writing' # p /\ p \in torn'
        BY <1>3, <2>1, <2>3
      <3>3. OnePlace(p)' /\ Fresh(p)' /\ Leaving(p)' /\ Purge(p)'
        BY <1>3, <1>5, <2>1, <3>1, <3>2 DEF OpInv, OnePlace, Fresh, Leaving, Purge, Away
      <3>4. Waiting(p)'
        <4> SUFFICES ASSUME pc[p] \in {"wait", "cleanup"} PROVE Where(p)'
          BY <1>3 DEF Waiting
        <4>1. Where(p)
          BY <2>1 DEF OpInv, Waiting
        <4> QED BY <1>2, <1>3, <1>5, <3>1, <3>2, <4>1 DEF Where, Away
      <3> QED BY <3>3, <3>4 DEF OpInv
    <2> QED BY <2>2, <2>3
  <1>7. Device'
    BY <1>1, <1>2, <1>3, OpsFacts DEF Device
  <1>8. Remounting' /\ MountInv'
    BY <1>1, <1>3, OpsFacts DEF Remounting, MountInv
  <1>9. CancelInv'
    BY <1>3, CancelKept
  <1> QED BY <1>3, <1>4, <1>6, <1>7, <1>8, <1>9 DEF UpInv

\* The write returns; it may have released the operation.
LEMMA WriteEndsStep ==
  ASSUME UpInv, WriteCompleted \/ WriteTimesOut \/ WriteInterrupted
  PROVE  UpInv'
  <1>1. TypeOK /\ Device /\ Remounting /\ MountInv
    BY DEF UpInv
  <1>2. stage = "io" /\ writing \in IoMains /\ pc[writing] # "hung"
    BY <1>1 DEF WriteCompleted, WriteTimesOut, WriteInterrupted, WriteEnds, Device
  <1>o. PICK o \in Ops : o = writing /\ o \in Mains
    BY <1>2, OpsFacts
  <1>3. /\ stage' = "none" /\ writing' = None
        /\ UNCHANGED <<pc, ret, list, htable, completed, daemon, closing, deaths, late, remount,
                       pending, reading, held, bufVars, sem>>
    BY DEF WriteCompleted, WriteTimesOut, WriteInterrupted, WriteEnds
  <1>4. \/ UNCHANGED <<flags, attempts, torn>>
        \/ /\ Freed({o}) /\ torn' = torn /\ o \in completed
        \/ /\ Freed({o}) /\ torn' = torn \cup {o}
    BY <1>o DEF WriteCompleted, WriteTimesOut, WriteInterrupted
  <1>5. /\ flags' \in [Ops -> SUBSET Flags] /\ attempts' \in [Ops -> Nat]
        /\ \A p \in Ops \ {o} : flags'[p] = flags[p] /\ attempts'[p] = attempts[p]
        /\ torn \subseteq torn' /\ torn' \subseteq Ops
        /\ \/ flags'[o] = flags[o]
           \/ flags'[o] = {} /\ (o \in torn' \/ pc[o] = "done")
    <2>1. CASE UNCHANGED <<flags, attempts, torn>>
      BY <1>1, <2>1 DEF TypeOK
    <2>2. CASE Freed({o})
      <3>1. /\ flags' = [p \in Ops |-> IF p \in {o} THEN {} ELSE flags[p]]
            /\ attempts' = [p \in Ops |-> IF p \in {o} THEN 0 ELSE attempts[p]]
        BY <2>2 DEF Freed
      <3>2. flags' \in [Ops -> SUBSET Flags] /\ attempts' \in [Ops -> Nat]
        BY <1>1, <3>1 DEF TypeOK
      <3>3. /\ torn \subseteq torn' /\ torn' \subseteq Ops
            /\ o \in torn' \/ o \in completed \/ flags'[o] = flags[o]
        BY <1>1, <1>4 DEF TypeOK
      <3> QED BY <1>1, <3>1, <3>2, <3>3 DEF Device
    <2> QED BY <1>4, <2>1, <2>2
  <1>6. TypeOK'
    BY <1>1, <1>3, <1>5 DEF TypeOK, bufVars
  <1>7. \A p \in Ops : On(p)' <=> On(p)
    BY <1>3 DEF On
  <1>8. ASSUME NEW p \in Ops \ late PROVE OpInv(p)'
    <2>1. OpInv(p) /\ p # None
      BY OpsFacts DEF UpInv
    <2>2. CASE p # o
      <3>1. flags'[p] = flags[p] /\ writing' # p /\ writing # p
        BY <1>o, <1>3, <1>5, <2>1, <2>2
      <3> QED BY <1>3, <1>5, <1>7, <2>1, <2>2, <3>1, Frame
    <2>3. CASE p = o
      <3>1. ~ On(p) /\ reading # p /\ p \notin held /\ p \notin htable /\ writing = p
        BY <1>o, <2>1, <2>3 DEF OpInv, OnePlace
      <3>2. OnePlace(p)' /\ Fresh(p)'
        BY <1>3, <1>7, <2>1, <3>1 DEF OnePlace, OpInv, Fresh, Away
      <3>3. Waiting(p)'
        <4> SUFFICES ASSUME pc[p] \in {"wait", "cleanup"} PROVE Where(p)'
          BY <1>3 DEF Waiting
        <4>1. flags[p] = {"serviced"}
          BY <1>2, <2>1, <3>1 DEF OpInv, Waiting, Where, Away
        <4>2. ~ On(p)' /\ reading' # p /\ writing' # p /\ p \notin held' /\ p \notin htable'
          BY <1>3, <1>7, <2>1, <3>1
        <4>3. flags'[p] = {"serviced"} \/ (flags'[p] = {} /\ p \in torn')
          BY <1>5, <2>3, <4>1
        <4> QED BY <4>2, <4>3 DEF Where, Away
      <3>4. Leaving(p)'
        BY <1>3, <1>5, <1>7, <2>1, <2>3, <3>1 DEF OpInv, Leaving
      <3>5. Purge(p)'
        BY <1>3, <1>5, <2>1, <2>3, <3>1 DEF OpInv, Purge, Away
      <3> QED BY <3>2, <3>3, <3>4, <3>5 DEF OpInv
    <2> QED BY <2>2, <2>3
  <1>9. Device'
    BY <1>1, <1>3 DEF Device
  <1>10. Remounting' /\ MountInv'
    <2>1. attempts'[Mount] = attempts[Mount] /\ writing' # Mount
      BY <1>o, <1>3, <1>5, OpsFacts
    <2> QED BY <1>1, <1>3, <2>1 DEF Remounting, MountInv
  <1>11. CancelInv'
    BY <1>3, CancelKept
  <1> QED BY <1>3, <1>6, <1>8, <1>9, <1>10, <1>11 DEF UpInv

\* A daemon that is killed dies once its calls have returned.
LEMMA DeathSteps ==
  ASSUME UpInv, Kill \/ Close
  PROVE  UpInv'
  <1>1. TypeOK /\ Device /\ Remounting /\ MountInv
    BY DEF UpInv
  <1>2. /\ UNCHANGED <<opVars, late, remount, reading, writing, stage, gen, inuse, buffer, array,
                       sem, torn>>
        /\ daemon \in {"up", "dying"} /\ closing = "no"
        /\ \/ daemon' = "dying" /\ UNCHANGED <<closing, held, pending, mapped>>
           \/ /\ reading = None /\ writing = None /\ pc[Mount] = "none"
              /\ daemon' = "down" /\ closing' = "waiting" /\ held' = {} /\ pending'
        /\ mapped' \in BOOLEAN /\ pending' \in BOOLEAN
    BY <1>1 DEF Kill, Close, bufVars, Device, TypeOK
  <1>3. deaths' \in 0..MaxDeaths
    BY <1>1, CallersApart DEF Kill, Close, TypeOK
  <1>4. TypeOK'
    BY <1>1, <1>2, <1>3 DEF TypeOK, opVars
  <1>5. UNCHANGED <<pc, flags, ret, htable, attempts, completed, reading, writing, stage, torn>>
        /\ \A p \in Ops : On(p)' <=> On(p)
    BY <1>2 DEF opVars, On
  <1>6. ASSUME NEW p \in Ops \ late PROVE OpInv(p)'
    <2>1. OpInv(p) /\ p # None
      BY OpsFacts DEF UpInv
    <2>2. p \in held' => p \in held
      BY <1>2
    <2>3. OnePlace(p)' /\ Fresh(p)'
      BY <1>5, <2>1, <2>2 DEF OpInv, OnePlace, Fresh, Away
    <2>4. p \in held' \/ closing' # "no" \/ p \notin held
      BY <1>2
    <2>5. Waiting(p)'
      BY <1>2, <1>5, <2>1, <2>2, <2>4 DEF OpInv, Waiting, Where, Away
    <2>6. Leaving(p)'
      BY <1>5, <2>1, <2>2 DEF OpInv, Leaving
    <2>7. Purge(p)'
      BY <1>2, <1>5, <2>1, <2>2 DEF OpInv, Purge, Away
    <2> QED BY <2>3, <2>5, <2>6, <2>7 DEF OpInv
  <1>7. Device'
    BY <1>1, <1>2, <1>5 DEF Device
  <1>8. Remounting'
    BY <1>1, <1>2, <1>5 DEF Remounting
  <1>9. MountInv'
    BY <1>1, <1>2, <1>5 DEF MountInv
  <1>10. CancelInv'
    BY <1>5, CancelKept
  <1> QED BY <1>2, <1>4, <1>6, <1>7, <1>8, <1>9, <1>10 DEF UpInv

\* The purge tells everybody who waits.
LEMMA PurgeSteps ==
  ASSUME UpInv, PurgeWaiting \/ PurgeEnds \/ \E o \in Ops : PurgeInProgress(o)
  PROVE  UpInv'
  <1>1. TypeOK /\ Device /\ Remounting /\ MountInv
    BY DEF UpInv
  <1>2. /\ daemon = "down"
        /\ UNCHANGED <<pc, attempts, ret, list, htable, completed, daemon, deaths, late, remount,
                       pending, reading, writing, stage, held, bufVars, sem, torn>>
        /\ \/ closing' = "inprogress" /\ flags' = [o \in Ops |-> Purged(o)]
           \/ /\ closing' # "no"
              /\ \E o \in htable : /\ "inprogress" \in flags[o]
                                  /\ flags' = [flags EXCEPT ![o] = flags[o] \cup {"purged"}]
           \/ /\ closing' = "no" /\ flags' = flags
              /\ \A o \in htable : "inprogress" \in flags[o] => "purged" \in flags[o]
    <2>1. CASE PurgeWaiting
      BY <1>1, <2>1 DEF PurgeWaiting, Device
    <2>2. CASE PurgeEnds
      BY <1>1, <2>2 DEF PurgeEnds, ToPurge, Device, opVars
    <2>3. ASSUME NEW o \in Ops, PurgeInProgress(o)
          PROVE  /\ daemon = "down" /\ closing' # "no" /\ UNCHANGED devVars
                 /\ o \in htable /\ "inprogress" \in flags[o]
                 /\ flags' = [flags EXCEPT ![o] = flags[o] \cup {"purged"}]
                 /\ UNCHANGED <<pc, attempts, ret, list, htable, completed, bufVars, sem, torn>>
      BY <1>1, <2>3 DEF PurgeInProgress, ToPurge, Device, devVars
    <2> QED BY <2>1, <2>2, <2>3 DEF devVars
  <1>c. closing' \in {"no", "inprogress"}
    BY DEF PurgeWaiting, PurgeEnds, PurgeInProgress, devVars
  <1>3. /\ flags' \in [Ops -> SUBSET Flags]
        /\ \A p \in Ops : flags'[p] = flags[p] \/
                          (flags'[p] = flags[p] \cup {"purged"} /\ flags[p] # {}
                             /\ flags[p] # {"serviced"})
        /\ \/ closing' # "no"
           \/ \A p \in Ops : p \in htable /\ "inprogress" \in flags[p] => "purged" \in flags'[p]
    <2>1. CASE closing' = "inprogress" /\ flags' = [o \in Ops |-> Purged(o)]
      BY <1>1, <2>1 DEF Purged, TypeOK, Flags
    <2>2. ASSUME closing' # "no", NEW o \in htable, "inprogress" \in flags[o],
                 flags' = [flags EXCEPT ![o] = flags[o] \cup {"purged"}]
          PROVE  /\ flags' \in [Ops -> SUBSET Flags]
                 /\ \A p \in Ops : flags'[p] = flags[p] \/
                      (flags'[p] = flags[p] \cup {"purged"} /\ flags[p] # {}
                         /\ flags[p] # {"serviced"})
      BY <1>1, <2>2 DEF TypeOK, Flags
    <2>3. CASE /\ closing' = "no" /\ flags' = flags
               /\ \A o \in htable : "inprogress" \in flags[o] => "purged" \in flags[o]
      BY <1>1, <2>3 DEF TypeOK
    <2> QED BY <1>2, <2>1, <2>2, <2>3
  <1>4. TypeOK'
    <2>1. closing' \in {"no", "waiting", "inprogress"}
      BY <1>1, <1>c
    <2> QED BY <1>1, <1>2, <1>3, <2>1 DEF TypeOK, bufVars
  <1>5. \A p \in Ops : On(p)' <=> On(p)
    BY <1>2 DEF On
  <1>6. ASSUME NEW p \in Ops \ late PROVE OpInv(p)'
    <2>1. OpInv(p) /\ p # None
      BY OpsFacts DEF UpInv
    <2>2. OnePlace(p)' /\ Fresh(p)'
      BY <1>2, <1>5, <2>1 DEF OpInv, OnePlace, Fresh, Away
    <2>3. Waiting(p)'
      <3> SUFFICES ASSUME pc[p] \in {"wait", "cleanup"} PROVE Where(p)'
        BY <1>2 DEF Waiting
      <3>1. Where(p)
        BY <2>1 DEF OpInv, Waiting
      <3>2. /\ "waiting" \in flags'[p] <=> "waiting" \in flags[p]
            /\ "inprogress" \in flags'[p] <=> "inprogress" \in flags[p]
            /\ "serviced" \in flags'[p] <=> "serviced" \in flags[p]
            /\ "purged" \in flags[p] => "purged" \in flags'[p]
            /\ flags[p] = {} \/ flags[p] = {"serviced"} => flags'[p] = flags[p]
        BY <1>3
      <3>3. \/ closing' # "no"
            \/ p \in htable /\ "inprogress" \in flags[p] => "purged" \in flags'[p]
        BY <1>3
      <3> QED BY <1>2, <1>5, <3>1, <3>2, <3>3 DEF Where, Away
    <2>4. Leaving(p)'
      BY <1>2, <1>3, <1>5, <2>1 DEF OpInv, Leaving
    <2>5. Purge(p)'
      BY <1>2, <2>1 DEF OpInv, Purge, Away
    <2> QED BY <2>2, <2>3, <2>4, <2>5 DEF OpInv
  <1>7. Device' /\ Remounting' /\ MountInv'
    BY <1>1, <1>2 DEF Device, Remounting, MountInv
  <1>8. CancelInv'
    BY <1>2, CancelKept
  <1> QED BY <1>2, <1>4, <1>6, <1>7, <1>8 DEF UpInv

\* What a new daemon finds of the old one belongs to the callers it outruns.
LEMMA OpenStep ==
  ASSUME UpInv, Open
  PROVE  UpInv'
  <1>1. TypeOK /\ Device /\ Remounting /\ MountInv
    BY DEF UpInv
  <1>2. /\ daemon = "down" /\ closing = "no" /\ late' = late \cup {o \in Ops : Reacting(o)}
        /\ daemon' = "up" /\ remount' = FALSE
        /\ UNCHANGED <<opVars, closing, deaths, pending, reading, writing, stage, held,
                       bufVars, sem, torn>>
    BY DEF Open
  <1>3. TypeOK'
    <2>1. ~ Reacting(Mount)
      BY <1>1, <1>2 DEF Device, Reacting
    <2> QED BY <1>1, <1>2, <2>1 DEF TypeOK, opVars, bufVars
  <1>4. UNCHANGED <<pc, flags, ret, htable, attempts, completed>>
        /\ \A p \in Ops : On(p)' <=> On(p)
    BY <1>2 DEF opVars, On
  <1>5. ASSUME NEW p \in Ops \ late' PROVE OpInv(p)'
    <2>1. OpInv(p) /\ ~ Reacting(p)
      BY <1>2 DEF UpInv
    <2>2. OnePlace(p)' /\ Fresh(p)' /\ Leaving(p)'
      BY <1>2, <1>4, <2>1 DEF OpInv, OnePlace, Fresh, Leaving, Away
    <2>3. Waiting(p)'
      BY <1>2, <1>4, <2>1 DEF OpInv, Waiting, Where, Away
    <2>4. Purge(p)'
      BY <1>2, <1>4, <2>1 DEF OpInv, Purge, Away, Reacting
    <2> QED BY <2>2, <2>3, <2>4 DEF OpInv
  <1>6. Device' /\ Remounting' /\ MountInv'
    <2>1. reading = None /\ writing = None /\ held = {} /\ pc[Mount] = "none" /\ pending
      BY <1>1, <1>2 DEF Device
    <2> QED BY <1>1, <1>2, <1>4, <2>1, OpsFacts DEF Device, Remounting, MountInv
  <1>7. CancelInv'
    BY <1>4, CancelKept
  <1> QED BY <1>3, <1>5, <1>6, <1>7 DEF UpInv

\* Mapping the buffers concerns no operation.
LEMMA MapStep ==
  ASSUME UpInv, MapBuffers \/ UNCHANGED vars
  PROVE  UpInv'
  <1>1. TypeOK /\ Device /\ Remounting /\ MountInv
    BY DEF UpInv
  <1>2. UNCHANGED <<opVars, devVars, buffer, array, sem, torn>>
    BY DEF MapBuffers, vars, bufVars
  <1>3. mapped' \in BOOLEAN /\ gen' \in Nat /\ inuse' \subseteq Buffers
    <2>1. CASE MapBuffers
      <3>1. gen \in Nat
        BY <1>1 DEF TypeOK
      <3> QED BY <2>1, <3>1 DEF MapBuffers
    <2>2. CASE UNCHANGED vars
      BY <1>1, <2>2 DEF vars, bufVars, TypeOK
    <2> QED BY <2>1, <2>2
  <1>4. /\ UNCHANGED <<pc, flags, attempts, ret, list, htable, completed>>
        /\ UNCHANGED <<daemon, closing, deaths, late, remount, pending, reading, writing, stage, held>>
        /\ \A p \in Ops : On(p)' <=> On(p)
    BY <1>2 DEF opVars, devVars, On
  <1>5. TypeOK'
    BY <1>1, <1>2, <1>3, <1>4 DEF TypeOK
  <1>6. ASSUME NEW p \in Ops \ late PROVE OpInv(p)'
    <2>1. OpInv(p)
      BY DEF UpInv
    <2> QED BY <1>2, <1>4, <2>1, Frame
  <1>7. Device' /\ Remounting' /\ MountInv'
    BY <1>1, <1>4 DEF Device, Remounting, MountInv
  <1>8. CancelInv'
    BY <1>4, CancelKept
  <1> QED BY <1>4, <1>5, <1>6, <1>7, <1>8 DEF UpInv

\* The remount's operation is used for one remount after the other; between
\* two of them nobody has it.
LEMMA RemountSteps ==
  ASSUME UpInv, RemountStart \/ RemountOver
  PROVE  UpInv'
  <1>1. TypeOK /\ Device /\ Remounting /\ MountInv /\ OpInv(Mount) /\ {Mount} \in SUBSET Ops
    BY OpsFacts DEF UpInv, TypeOK
  <1>2. /\ UNCHANGED <<list, htable, completed, daemon, closing, deaths, late, reading, writing,
                       stage, held, bufVars>>
        /\ sem' \in {Mount, None}
        /\ \/ /\ pc[Mount] = "none" /\ pc' = [pc EXCEPT ![Mount] = "post"]
              /\ daemon = "up" /\ ~ remount /\ UNCHANGED <<flags, attempts, torn, remount, pending>>
           \/ /\ pc[Mount] = "over" /\ pc' = [pc EXCEPT ![Mount] = "none"]
              /\ Release({Mount}) /\ remount' \in BOOLEAN /\ pending' \in BOOLEAN
              /\ remount' \/ pending' = pending
        /\ ret' = [ret EXCEPT ![Mount] = "none"]
    BY <1>1 DEF RemountStart, RemountOver, Goes, devVars, TypeOK
  <1>3. /\ pc' \in [Ops -> Places] /\ ret' \in [Ops -> Results]
        /\ pc'[Mount] \in {"none", "post"} /\ ret'[Mount] = "none"
        /\ \A p \in Ops \ {Mount} : pc'[p] = pc[p] /\ ret'[p] = ret[p]
    BY <1>1, <1>2 DEF TypeOK, Places, Results
  <1>4. /\ flags' \in [Ops -> SUBSET Flags] /\ attempts' \in [Ops -> Nat]
        /\ \A p \in Ops \ {Mount} : flags'[p] = flags[p]
        /\ attempts'[Mount] = 0 /\ (flags'[Mount] = flags[Mount] \/ flags'[Mount] = {})
        /\ torn \subseteq torn' /\ torn' \subseteq Ops
    <2>1. CASE UNCHANGED <<flags, attempts, torn>>
      BY <1>1, <2>1 DEF TypeOK, MountInv
    <2>2. CASE Release({Mount})
      BY <1>1, <2>2, ReleaseFacts
    <2> QED BY <1>2, <2>1, <2>2
  <1>5. TypeOK'
    <2>1. remount' \in BOOLEAN /\ pending' \in BOOLEAN /\ sem' \in Ops \cup {None}
      BY <1>1, <1>2 DEF TypeOK
    <2> QED BY <1>1, <1>2, <1>3, <1>4, <2>1 DEF TypeOK, bufVars
  <1>6. \A p \in Ops : On(p)' <=> On(p)
    BY <1>2 DEF On
  <1>7. pc[Mount] \in {"none", "over"} /\ ~ On(Mount) /\ Mount \notin htable
    BY <1>1, <1>2, OpsFacts DEF OpInv, Leaving
  <1>8. daemon = "up" => Away(Mount)
    BY <1>1, <1>7 DEF MountInv, Away
  <1>9. ASSUME NEW p \in Ops \ late PROVE OpInv(p)'
    <2>1. OpInv(p)
      BY DEF UpInv
    <2>2. CASE p # Mount
      <3>1. pc'[p] = pc[p] /\ flags'[p] = flags[p] /\ ret'[p] = ret[p]
        BY <1>3, <1>4, <2>2
      <3> QED BY <1>2, <1>4, <1>6, <2>1, <3>1, Frame
    <2>3. CASE p = Mount
      <3>1. OnePlace(p)'
        BY <1>2, <1>6, <2>1 DEF OpInv, OnePlace
      <3>2. pc'[p] = "post" => daemon = "up"
        BY <1>1, <1>2, <2>3, OpsFacts DEF TypeOK
      <3>3. Fresh(p)'
        BY <1>2, <1>3, <1>6, <1>7, <1>8, <2>3, <3>2 DEF Fresh, Away
      <3>4. Waiting(p)' /\ Purge(p)'
        BY <1>3, <2>3 DEF Waiting, Purge
      <3>5. "waiting" \notin flags'[p]
        BY <1>4, <1>7, <2>1, <2>3, OpsFacts DEF OpInv, Leaving
      <3>6. Leaving(p)'
        BY <1>2, <1>3, <1>6, <1>7, <2>3, <3>5 DEF Leaving
      <3> QED BY <3>1, <3>3, <3>4, <3>6 DEF OpInv
    <2> QED BY <2>2, <2>3
  <1>10. Device'
    <2>1. daemon # "down"
      BY <1>1, <1>2 DEF Device
    <2>2. \A o \in completed : o \in Ops /\ o # Mount
      BY <1>1, OpsFacts DEF TypeOK
    <2> QED BY <1>1, <1>2, <1>3, <2>1, <2>2 DEF Device
  <1>11. Remounting'
    <2>1. CASE pc[Mount] = "none" /\ ~ remount /\ UNCHANGED <<remount, pending>>
      BY <1>1, <1>2, <2>1 DEF Remounting
    <2>2. CASE pc[Mount] = "over" /\ pc'[Mount] = "none"
      <3>1. ~ remount /\ pending
        BY <1>1, <2>2 DEF Remounting
      <3>2. remount' \/ pending'
        BY <1>2, <2>2, <3>1
      <3>3. \A o \in Mains : o \notin held' /\ reading' # o
        BY <1>1, <1>2, <3>1 DEF Remounting
      <3> QED BY <2>2, <3>2, <3>3 DEF Remounting
    <2> QED BY <1>1, <1>2, <2>1, <2>2, OpsFacts DEF TypeOK
  <1>12. MountInv'
    BY <1>2, <1>3, <1>4, <1>8 DEF MountInv, Away
  <1>13. CancelInv'
    BY <1>3, CancelKept
  <1> QED BY <1>2, <1>5, <1>9, <1>10, <1>11, <1>12, <1>13 DEF UpInv

-----------------------------------------------------------------------------
(* The invariant holds.                                                    *)

\* It holds with nothing under way.
LEMMA UpInit == Init => UpInv
  <1> SUFFICES ASSUME Init PROVE UpInv
    OBVIOUS
  <1>1. TypeOK
    <2>1. /\ pc \in [Ops -> Places] /\ flags \in [Ops -> SUBSET Flags]
          /\ attempts \in [Ops -> Nat] /\ ret \in [Ops -> Results]
          /\ buffer \in [IoCallers -> Buffers \cup {None}] /\ array \in [IoCallers -> Nat]
      BY DEF Init, Places, Results
    <2>2. list \in Seq(Ops) /\ \A i, j \in DOMAIN list : list[i] = list[j] => i = j
      BY DEF Init
    <2>3. deaths \in 0..MaxDeaths /\ gen \in Nat
      BY CallersApart DEF Init
    <2> QED BY <2>1, <2>2, <2>3 DEF Init, TypeOK
  <1>2. \A o \in Ops : ~ On(o)
    BY DEF Init, On, Contains
  <1>3. Device /\ Remounting /\ MountInv /\ CancelInv
    BY OpsFacts DEF Init, Device, Remounting, MountInv, CancelInv
  <1>4. ASSUME NEW o \in Ops PROVE OpInv(o)
    <2>1. /\ pc[o] = "none" /\ flags[o] = {} /\ htable = {} /\ held = {} /\ ~ On(o)
          /\ reading # o /\ writing # o
      BY <1>2, OpsFacts DEF Init
    <2> QED BY <2>1 DEF OpInv, OnePlace, Fresh, Waiting, Leaving, Purge, Away
  <1> QED BY <1>1, <1>3, <1>4 DEF UpInv

\* Every step keeps it.
LEMMA UpNext == UpInv /\ [Next]_vars => UpInv'
  <1> SUFFICES ASSUME UpInv, [Next]_vars PROVE UpInv'
    OBVIOUS
  <1>1. ASSUME NEW c \in Callers, CallPlain(c) PROVE UpInv'
    BY <1>1, CallSteps
  <1>2. ASSUME NEW c \in IoCallers, \/ CallIo(c) \/ GetSlot(c) \/ GetSlotStale(c)
                                   \/ NoSlot(c) \/ PrecopyFails(c)
        PROVE UpInv'
    <2>1. c \in Callers
      BY DEF Callers
    <2> QED BY <1>2, <2>1, CallSteps
  <1>3. ASSUME NEW c \in PlainCallers, PlainOver(c) PROVE UpInv'
    <2>1. c \in Callers
      BY DEF Callers
    <2> QED BY <1>3, <2>1, ReturnSteps
  <1>4. ASSUME NEW c \in IoCallers, IoOver(c) \/ Remapped(c) \/ Copied(c) PROVE UpInv'
    <2>1. c \in Callers
      BY DEF Callers
    <2> QED BY <1>4, <2>1, ReturnSteps
  <1>5. ASSUME NEW c \in IoCallers, IoReturned(c) PROVE UpInv'
    BY <1>5, IoReturnedStep
  <1>6. ASSUME NEW c \in IoCallers, CancelOver(c) PROVE UpInv'
    BY <1>6, CancelOverStep
  <1>7. ASSUME NEW o \in Ops, OpStep(o) PROVE UpInv'
    BY <1>7, PostSteps, EnqueueStep, WaitSteps, CleanUpStep, TakeOffStep DEF OpStep
  <1>8. ASSUME NEW o \in Ops, Interrupted(o) PROVE UpInv'
    BY <1>8, WaitSteps
  <1>9. ASSUME NEW o \in Ops, PostInterrupted(o) PROVE UpInv'
    BY <1>9, PostSteps
  <1>10. ASSUME NEW o \in Ops, WriteTake(o) PROVE UpInv'
    BY <1>10, WriteTakeStep
  <1>11. CASE DaemonRead
    BY <1>11, ReadPickStep, ReadMarkStep DEF DaemonRead
  <1>12. CASE DaemonWrite
    BY <1>12, WriteServeStep, WriteFailsStep, WriteEndsStep DEF DaemonWrite
  <1>13. CASE DaemonLife
    BY <1>13, DeathSteps, PurgeSteps, OpenStep, MapStep, RemountSteps DEF DaemonLife
  <1>14. CASE Kill
    BY <1>14, DeathSteps
  <1>15. CASE UNCHANGED vars
    BY <1>15, MapStep
  <1> QED BY <1>1, <1>2, <1>3, <1>4, <1>5, <1>6, <1>7, <1>8, <1>9, <1>10, <1>11, <1>12,
             <1>13, <1>14, <1>15 DEF Next

\* The lists and the device agree on where every operation is whose caller no
\* new daemon has outrun.
LEMMA UpInvariant == Spec => []UpInv
  <1>1. Init => UpInv
    BY UpInit
  <1>2. UpInv /\ [Next]_vars => UpInv'
    BY UpNext
  <1> QED BY <1>1, <1>2, PTL DEF Spec

-----------------------------------------------------------------------------
(* Theorems.                                                               *)

\* Every variable keeps its type, and no operation is on pvfs2_request_list
\* twice (add_op_to_request_list links a list head that must be free).
THEOREM UpcallTypeCorrect == Spec => []TypeOK
  <1>1. UpInv => TypeOK
    BY DEF UpInv
  <1> QED BY <1>1, UpInvariant, PTL

\* When wait_for_matching_downcall is over its operation is on no list and in
\* no table: whatever the daemon and the purge did meanwhile,
\* pvfs2_clean_up_interrupted_operation removes it from where it is.  The one
\* exception is a purged caller that runs only when a new daemon is there.
THEOREM OffWhenOverHolds == Spec => []OffWhenOver
  <1>1. UpInv => OffWhenOver
    <2> SUFFICES ASSUME UpInv, NEW o \in (Mains \cup {Mount}) \ late,
                        pc[o] \in WaitIsOver
                 PROVE  ~ Contains(list, o) /\ o \notin htable
      BY DEF OffWhenOver, OffAt, Listed
    <2>1. o \in Ops /\ o \notin Cancels
      BY OpsFacts
    <2>2. Leaving(o)
      BY <2>1 DEF UpInv, OpInv
    <2> QED BY <2>1, <2>2 DEF Leaving, On, WaitIsOver
  <1> QED BY <1>1, UpInvariant, PTL

\* No sleeping caller is forgotten: its operation is still to be read, the
\* living daemon has it, or the purge of pvfs2_devreq_release is still to
\* reach it.
THEOREM RememberedHolds == Spec => []Remembered
  <1>1. UpInv => Remembered
    <2> SUFFICES ASSUME UpInv, NEW o \in Ops \ (torn \cup late), Asleep(o)
                 PROVE  \/ Contains(list, o)
                        \/ UsedByDevice(o)
                        \/ o \in htable /\ (o \in held \/ closing # "no")
      BY DEF Remembered
    <2>1. Where(o)
      BY DEF UpInv, OpInv, Waiting, Asleep
    <2> QED BY <2>1 DEF Where, On, Asleep, UsedByDevice
  <1> QED BY <1>1, UpInvariant, PTL

\* pvfs2_devreq_read hands an operation to a daemon once, and none of a file
\* system that the daemon has not mounted again.
THEOREM HandedOnceHolds == Spec => []HandedOnce
  <1>1. UpInv => HandedOnce
    <2> SUFFICES ASSUME UpInv PROVE HandedOnce
      OBVIOUS
    <2>1. ASSUME NEW o \in held \ late PROVE reading # o /\ ~ Contains(list, o)
      <3>1. o \in Ops
        BY DEF UpInv, TypeOK
      <3>2. OnePlace(o)
        BY <3>1 DEF UpInv, OpInv
      <3> QED BY <3>2 DEF OnePlace, On
    <2>2. \A o \in held \cup {reading} : o \in Mains => remount
      BY DEF UpInv, Remounting
    <2> QED BY <2>1, <2>2 DEF HandedOnce
  <1> QED BY <1>1, UpInvariant, PTL
=============================================================================
