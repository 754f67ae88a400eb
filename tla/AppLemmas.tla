----------------------------- MODULE AppLemmas ------------------------------
(***************************************************************************)
(* The invariant of AppInterface, and that the steps of the threads inside *)
(* a softc and those of the broadcasts preserve it, for every number of    *)
(* programs and of calls and every length of the queues.                   *)
(***************************************************************************)
EXTENDS AppInterface, FiniteSetTheorems, TLAPS

\* The time that the provers may take for a step
USE ZenonT(3), SMTT(20), ZenonT(60)

-----------------------------------------------------------------------------
(* The invariant *)

Softcs ==
  [st : {"none", "opening", "open"},
   flags : SUBSET {"CLOSING", "SLEEP_WAKEUP", "SLEEP_ENTERED", "SELECT", "IOCTL", "BLOCK"},
   q : 0 .. QMax, refs : Nat,
   rd : {"out", "asleep", "awake", "signal"}, poll : {"out", "asleep"},
   io : {"out", "cntl", "run"},
   cl : {"out", "loop", "asleep", "calls", "dchan", "drain", "closed"},
   view : SUBSET Calls, lossy : BOOLEAN]

\* One softc: what its flags say of the threads inside it.
Consistent(s) ==
  /\ s.st = "none" => s = NewSoftc
  /\ s.st = "opening" => s.cl = "out" /\ s.io = "out"
  /\ "CLOSING" \in s.flags <=> s.cl # "out"
  /\ "IOCTL" \in s.flags <=> s.io # "out"
  /\ s.io # "out" => s.cl \in {"out", "loop", "asleep"}
  /\ s.rd = "asleep" => "SLEEP_WAKEUP" \in s.flags /\ s.q = 0
  /\ s.poll = "asleep" => "SELECT" \in s.flags /\ s.q = 0

SoftcInv == app \in [Apps -> Softcs] /\ \A a \in Apps : Consistent(app[a])

\* The list holds the softcs that exist, each of them once.
ListInv ==
  /\ list \in Seq(Apps)
  /\ \A a \in Apps : app[a].st # "none" <=> \E i \in DOMAIN list : list[i] = a
  /\ \A i, j \in DOMAIN list : list[i] = list[j] => i = j

Casts == [at : Apps \cup {"NONE"}, pc : {"put", "next"}, exclude : Apps \cup {"NONE"},
          msg : Messages]

At(t, a) == IF cast[t].at = a THEN 1 ELSE 0

\* A softc is referred to by the broadcasts that stand at it.
CastInv ==
  /\ cast \in [Casters -> Casts]
  /\ \A t \in Casters : cast[t].at # "NONE" => app[cast[t].at].st # "none"
  /\ \A a \in Apps : app[a].refs = At("cntl", a) + At("drv", a)
  /\ cast["drv"].msg = OtherMsg

Early == {"out", "loop", "asleep", "calls"}

\* A call has an owner that is open, and a D-channel.
OwnerInv ==
  /\ cds \in [Calls -> [ai : Owners, count : Nat]]
  /\ \A c \in Calls : cds[c].ai \in Apps =>
       app[cds[c].ai].st = "open" /\ app[cds[c].ai].cl \in Early
  /\ \A c \in Calls : Used(c) => dch.up

\* What the holder of the controller lock does, and the broadcast that goes with it.
LockInv ==
  /\ cntl \in [by : Apps \cup {"free", "net"}, cd : Calls \cup {"NONE"},
               then : {"none", "offered", "free", "accept", "reject"}]
  /\ cntl.by = "free" => cntl = Unlocked /\ cast["cntl"].at = "NONE"
  /\ cntl.by \in Apps => app[cntl.by].io = "run"
  /\ cntl.by # "free" =>
       /\ cntl.cd \in Calls /\ cntl.then # "none"
       /\ cntl.then \in {"offered", "free"} => cds[cntl.cd].ai = "BROADCAST"
       /\ cntl.then \in {"accept", "reject"} => cntl.by \in Apps /\ cds[cntl.cd].ai = cntl.by
       /\ cast["cntl"].at # "NONE" =>
            /\ cast["cntl"].exclude = IF cntl.then \in {"accept", "reject"} THEN cntl.by ELSE "NONE"
            /\ cast["cntl"].msg =
                 Msg(IF cntl.then = "offered" THEN CONNECT_IND ELSE DISCONNECT_IND, cntl.cd)

\* The programs that i4b_open_refcount stands for
Counted ==
  {a \in Apps : IF dch.sx = a THEN app[a].st = "opening"
                ELSE app[a].st = "open" /\ app[a].cl \notin {"drain", "closed"}}

DchInv ==
  /\ dch \in [refs : Nat, sx : Apps \cup {"free"}, up : BOOLEAN]
  /\ dch.refs = Cardinality(Counted)
  /\ dch.sx = "free" => (dch.up <=> dch.refs > 0)
  /\ dch.sx # "free" => /\ Updating(dch.sx)
                        /\ dch.up <=> (app[dch.sx].st = "opening" => dch.refs > 1)

\* a comes before b in i4b_head.
Before(a, b) == \E i, j \in DOMAIN list : i < j /\ list[i] = a /\ list[j] = b

\* The softcs that a broadcast has come to, and whose close waits for the lock.
Reached ==
  {a \in Apps : /\ app[a].st # "none" /\ app[a].cl \in Early
                /\ \/ a = cast["cntl"].at /\ cast["cntl"].pc = "next"
                   \/ Before(a, cast["cntl"].at)}

\* No program is counted twice.
CountInv ==
  /\ \A c \in Calls : cds[c].count <= Cardinality(Apps)
  /\ cntl.then = "offered" /\ cast["cntl"].at # "NONE"
       => cds[cntl.cd].count <= Cardinality(Reached)

\* The broadcast under the controller lock has yet to come to a.
Ahead(a) ==
  /\ cast["cntl"].at # "NONE"
  /\ \/ a = cast["cntl"].at /\ cast["cntl"].pc = "put"
     \/ Before(cast["cntl"].at, a)

\* A call that a program knows is its own, or rings for everybody, or the news is on
\* its way.
Rightly(a, c) ==
  \/ cds[c].ai = "BROADCAST" /\ ~(cntl.then = "free" /\ cntl.cd = c)
  \/ cds[c].ai = a
  \/ cntl.then \in {"free", "accept", "reject"} /\ cntl.cd = c /\ Ahead(a)

ViewInv ==
  \A a \in Apps :
    app[a].st # "none" /\ app[a].cl = "out" /\ ~app[a].lossy
      => \A c \in app[a].view : Rightly(a, c)

AppInv ==
  /\ uses \in Loads /\ SoftcInv /\ ListInv /\ CastInv /\ OwnerInv /\ LockInv /\ DchInv
  /\ CountInv /\ ViewInv

-----------------------------------------------------------------------------
(* One softc *)

\* r is s after a step that neither opens it nor lets its close past the controller lock
\* or i4b_update_all_d_channels.
SameLife(s, r) ==
  /\ r.st = s.st
  /\ r.cl = s.cl \/ {r.cl, s.cl} \subseteq Early \/ {r.cl, s.cl} \subseteq {"drain", "closed"}

\* ... nor closes it, nor runs its ioctl.
Quietly(s, r) == r.st = s.st /\ r.refs = s.refs /\ r.cl = s.cl /\ r.io = s.io

LEMMA QMaxNat == QMax \in Nat /\ QMax > 0
  BY AppAssumption

LEMMA WakeReaderFields ==
  ASSUME NEW s \in Softcs
  PROVE  LET r == WakeReader(s) IN
         /\ r \in Softcs /\ Quietly(s, r)
         /\ r.q = s.q /\ r.view = s.view /\ r.lossy = s.lossy /\ r.poll = s.poll
         /\ r.flags = s.flags \ {"SLEEP_WAKEUP"}
         /\ "SLEEP_WAKEUP" \in s.flags => r.rd # "asleep"
         /\ "SLEEP_WAKEUP" \notin s.flags => r.rd = s.rd
<1>1. CASE "SLEEP_WAKEUP" \in s.flags
  <2> DEFINE r == [s EXCEPT !.flags = @ \ {"SLEEP_WAKEUP"},
                            !.rd = IF @ = "asleep" THEN "awake" ELSE @]
  <2>1. WakeReader(s) = r
    BY <1>1 DEF WakeReader
  <2>2. /\ r \in Softcs /\ r.flags = s.flags \ {"SLEEP_WAKEUP"} /\ r.rd # "asleep"
        /\ r.q = s.q /\ r.view = s.view /\ r.lossy = s.lossy /\ r.poll = s.poll
    BY DEF Softcs
  <2>3. Quietly(s, r)
    BY DEF Softcs, Quietly
  <2> QED
    BY <1>1, <2>1, <2>2, <2>3
<1>2. CASE "SLEEP_WAKEUP" \notin s.flags
  BY <1>2 DEF WakeReader, Softcs, Quietly
<1> QED
  BY <1>1, <1>2

\* What putting messages into a queue does to a softc
LEMMA PutFields ==
  ASSUME NEW s \in Softcs, Consistent(s), s.st # "none",
         NEW n \in Nat, NEW v \in SUBSET Calls
  PROVE  LET r == PutMessages(s, n, v) IN
         /\ r \in Softcs /\ Consistent(r) /\ Quietly(s, r)
         /\ ~r.lossy => ~s.lossy
         /\ s.cl = "out" /\ n # 0 => r.view = v
         /\ s.cl # "out" \/ n = 0 => r = s
<1> DEFINE full == s.q + n > QMax
           t == [s EXCEPT !.q = IF full THEN QMax ELSE @ + n,
                          !.view = v, !.lossy = @ \/ full]
           w == WakeReader(t)
           u == [w EXCEPT !.poll = IF "SELECT" \in w.flags /\ @ = "asleep" THEN "out" ELSE @,
                          !.flags = @ \ {"SELECT"}]
           r == PutMessages(s, n, v)
<1>1. CASE "CLOSING" \in s.flags \/ n = 0
  BY <1>1 DEF PutMessages, Quietly, Consistent
<1>2. CASE "CLOSING" \notin s.flags /\ n # 0
  <2>1. r = u
    BY <1>2 DEF PutMessages
  <2>2. s.cl = "out"
    BY <1>2 DEF Consistent
  <2>3. /\ t \in Softcs /\ Quietly(s, t) /\ t.view = v /\ t.flags = s.flags
        /\ t.rd = s.rd /\ t.poll = s.poll /\ (~t.lossy => ~s.lossy)
    <3>1. s.q + n \in Nat /\ s.q \in 0 .. QMax /\ s.lossy \in BOOLEAN
      BY QMaxNat DEF Softcs
    <3>2. (IF full THEN QMax ELSE s.q + n) \in 0 .. QMax
      BY <3>1, QMaxNat
    <3>3. (s.lossy \/ full) \in BOOLEAN
      OBVIOUS
    <3> HIDE DEF full
    <3> QED
      BY <3>1, <3>2, <3>3 DEF Softcs, Quietly
  <2> HIDE DEF t
  <2>4. /\ w \in Softcs /\ Quietly(t, w) /\ w.view = v /\ w.lossy = t.lossy
        /\ w.flags = s.flags \ {"SLEEP_WAKEUP"} /\ w.poll = s.poll
        /\ "SLEEP_WAKEUP" \in s.flags => w.rd # "asleep"
        /\ "SLEEP_WAKEUP" \notin s.flags => w.rd = s.rd
    BY <2>3, WakeReaderFields
  <2> HIDE DEF w
  <2>5. /\ u \in Softcs /\ Quietly(w, u) /\ u.view = v /\ u.lossy = w.lossy /\ u.rd = w.rd
        /\ u.flags = s.flags \ {"SLEEP_WAKEUP", "SELECT"}
        /\ "SELECT" \in s.flags => u.poll = "out"
        /\ "SELECT" \notin s.flags => u.poll = s.poll
    BY <2>4 DEF Softcs, Quietly
  <2> HIDE DEF u
  <2>6. Quietly(s, u)
    BY <2>3, <2>4, <2>5 DEF Quietly
  <2>7. u.rd # "asleep"
    BY <2>4, <2>5 DEF Consistent
  <2>8. u.poll # "asleep"
    BY <2>5 DEF Consistent
  <2>9. Consistent(u)
    BY <2>2, <2>5, <2>6, <2>7, <2>8 DEF Consistent, Quietly
  <2> QED
    BY <2>1, <2>2, <2>3, <2>4, <2>5, <2>6, <2>9, <1>2
<1> QED
  BY <1>1, <1>2

-----------------------------------------------------------------------------
(* What a step must keep for each part of the invariant *)

LEMMA Replaced ==
  ASSUME SoftcInv, NEW a \in Apps, NEW s \in Softcs, Consistent(s),
         app' = [app EXCEPT ![a] = s]
  PROVE  /\ SoftcInv'
         /\ app'[a] = s
         /\ \A b \in Apps : b # a => app'[b] = app[b]
BY DEF SoftcInv

LEMMA ListKept ==
  ASSUME ListInv, list' = list, \A a \in Apps : app'[a].st = "none" <=> app[a].st = "none"
  PROVE  ListInv'
BY DEF ListInv

LEMMA OrderKept ==
  ASSUME list' = list, NEW a, NEW b
  PROVE  Before(a, b)' <=> Before(a, b)
BY DEF Before

LEMMA CastKept ==
  ASSUME CastInv, cast' = cast,
         \A a \in Apps : /\ app'[a].st = "none" <=> app[a].st = "none"
                         /\ app'[a].refs = app[a].refs
  PROVE  CastInv'
<1>1. \A t \in Casters : cast[t].at \in Apps \cup {"NONE"}
  BY DEF CastInv, Casts
<1>2. \A t \in Casters : cast[t].at # "NONE" => app'[cast[t].at].st # "none"
  BY <1>1 DEF CastInv
<1>3. \A a \in Apps : At("cntl", a)' = At("cntl", a) /\ At("drv", a)' = At("drv", a)
  BY DEF At
<1>4. \A a \in Apps : app'[a].refs = At("cntl", a)' + At("drv", a)'
  BY <1>3 DEF CastInv
<1> QED
  BY <1>2, <1>4 DEF CastInv

LEMMA OwnersKept ==
  ASSUME OwnerInv, cds' = cds, dch'.up = dch.up,
         \A a \in Apps : SameLife(app[a], app'[a])
  PROVE  OwnerInv'
<1>1. ASSUME NEW c \in Calls, cds[c].ai \in Apps
      PROVE  app'[cds[c].ai].st = "open" /\ app'[cds[c].ai].cl \in Early
  BY <1>1 DEF OwnerInv, SameLife, Early
<1> QED
  BY <1>1 DEF OwnerInv, Used

LEMMA LockKept ==
  ASSUME LockInv, cds' = cds, cast'["cntl"] = cast["cntl"], cntl' = cntl,
         \A a \in Apps : cntl.by = a => app'[a].io = app[a].io
  PROVE  LockInv'
BY DEF LockInv

LEMMA DchKept ==
  ASSUME DchInv, dch' = dch, \A a \in Apps : SameLife(app[a], app'[a])
  PROVE  DchInv'
<1>1. ASSUME NEW a \in Apps
      PROVE  /\ app'[a].st = app[a].st
             /\ app'[a].cl \notin {"drain", "closed"} <=> app[a].cl \notin {"drain", "closed"}
             /\ app'[a].cl = "dchan" <=> app[a].cl = "dchan"
  BY DEF SameLife, Early
<1>2. Counted' = Counted
  BY <1>1 DEF Counted
<1>3. dch.sx # "free" => dch.sx \in Apps /\ (Updating(dch.sx)' <=> Updating(dch.sx))
  BY <1>1 DEF DchInv, Updating
<1> QED
  BY <1>1, <1>2, <1>3 DEF DchInv

LEMMA CountsKept ==
  ASSUME CountInv, cds' = cds, cntl' = cntl, cast'["cntl"] = cast["cntl"], list' = list,
         \A a \in Apps : SameLife(app[a], app'[a])
  PROVE  CountInv'
<1>1. Reached' = Reached
  BY DEF Reached, SameLife, Early, Before
<1> QED
  BY <1>1 DEF CountInv

\* A program whose softc takes in nothing new knows what it knew.
LEMMA RightlyKept ==
  ASSUME cds' = cds, cntl' = cntl, cast'["cntl"] = cast["cntl"], list' = list, NEW a, NEW c
  PROVE  Rightly(a, c)' <=> Rightly(a, c)
BY DEF Rightly, Ahead, Before

\* What the holder of the controller lock does is left alone, and so are the calls.
LEMMA AsideStep ==
  ASSUME AppInv, SoftcInv', CastInv', cast'["cntl"] = cast["cntl"],
         UNCHANGED <<uses, list, cds, cntl, dch>>,
         \A a \in Apps :
           /\ SameLife(app[a], app'[a])
           /\ cntl.by = a => app'[a].io = app[a].io
           /\ app'[a].cl = "out" /\ ~app'[a].lossy =>
                app[a].cl = "out" /\ ~app[a].lossy /\ app'[a].view = app[a].view
  PROVE  AppInv'
<1>1. \A b \in Apps : app'[b].st = app[b].st
  BY DEF SameLife
<1>2. ListInv' /\ OwnerInv'
  BY <1>1, ListKept, OwnersKept DEF AppInv
<1>3. LockInv' /\ DchInv' /\ CountInv'
  BY LockKept, DchKept, CountsKept DEF AppInv
<1>4. ViewInv'
  BY <1>1, RightlyKept DEF ViewInv, AppInv
<1> QED
  BY <1>2, <1>3, <1>4 DEF AppInv

\* A step of one thread inside a softc that no other part of the driver sees
Locally(s, r) ==
  /\ r \in Softcs /\ Consistent(r) /\ SameLife(s, r)
  /\ r.refs = s.refs /\ r.view = s.view /\ r.lossy = s.lossy
  /\ r.cl = "out" => s.cl = "out"

LEMMA LocalStep ==
  ASSUME AppInv, NEW a \in Apps, NEW s, Locally(app[a], s),
         app' = [app EXCEPT ![a] = s], cntl.by = a => s.io = app[a].io,
         UNCHANGED <<uses, list, cds, cast, cntl, dch>>
  PROVE  AppInv'
<1>1. /\ SoftcInv' /\ app'[a] = s
      /\ \A b \in Apps : b # a => app'[b] = app[b]
  BY Replaced DEF AppInv, Locally
<1>2. \A b \in Apps : /\ SameLife(app[b], app'[b]) /\ app'[b].st = app[b].st
                      /\ app'[b].refs = app[b].refs
                      /\ cntl.by = b => app'[b].io = app[b].io
  BY <1>1 DEF Locally, SameLife
<1>3. CastInv'
  BY <1>2, CastKept DEF AppInv
<1>4. \A b \in Apps : app'[b].cl = "out" /\ ~app'[b].lossy =>
                        app[b].cl = "out" /\ ~app[b].lossy /\ app'[b].view = app[b].view
  BY <1>1 DEF Locally
<1> QED
  BY <1>1, <1>2, <1>3, <1>4, AsideStep

-----------------------------------------------------------------------------
(* Steps of the threads inside a softc *)

LEMMA Busy ==
  ASSUME NEW s, Consistent(s)
  PROVE  /\ s.rd # "out" \/ s.poll # "out" \/ s.io # "out" \/ s.cl # "out" => s.st # "none"
         /\ s.io # "out" \/ s.cl # "out" => s.st # "opening"
BY DEF Consistent, NewSoftc

LEMMA ReadLoopLocal ==
  ASSUME NEW s \in Softcs, Consistent(s), s.st # "none"
  PROVE  Locally(s, ReadLoop(s)) /\ ReadLoop(s).io = s.io
<1>0. s.q \in 0 .. QMax /\ QMax \in Nat
  BY QMaxNat DEF Softcs
<1>1. CASE s.q > 0
  <2> DEFINE r == [s EXCEPT !.q = @ - 1, !.rd = "out"]
  <2>1. ReadLoop(s) = r
    BY <1>1 DEF ReadLoop
  <2>2. s.q - 1 \in 0 .. QMax /\ s.poll # "asleep"
    BY <1>0, <1>1 DEF Consistent
  <2>3. r \in Softcs
    BY <2>2 DEF Softcs
  <2>4. /\ r.st = s.st /\ r.flags = s.flags /\ r.rd = "out" /\ r.poll = s.poll /\ r.io = s.io
        /\ r.cl = s.cl /\ r.refs = s.refs /\ r.view = s.view /\ r.lossy = s.lossy
    BY DEF Softcs
  <2> HIDE DEF r
  <2> QED
    BY <2>1, <2>2, <2>3, <2>4 DEF Locally, SameLife, Consistent
<1>2. CASE s.q = 0 /\ "BLOCK" \in s.flags
  <2> DEFINE r == [s EXCEPT !.flags = @ \cup Asleep, !.rd = "asleep"]
  <2>1. ReadLoop(s) = r
    BY <1>2 DEF ReadLoop
  <2>2. r \in Softcs
    BY DEF Softcs, Asleep
  <2>3. /\ r.st = s.st /\ r.flags = s.flags \cup {"SLEEP_WAKEUP", "SLEEP_ENTERED"} /\ r.q = 0
        /\ r.poll = s.poll /\ r.io = s.io
        /\ r.cl = s.cl /\ r.refs = s.refs /\ r.view = s.view /\ r.lossy = s.lossy
    BY <1>2 DEF Softcs, Asleep
  <2> HIDE DEF r
  <2> QED
    BY <2>1, <2>2, <2>3 DEF Locally, SameLife, Consistent
<1>3. CASE s.q = 0 /\ "BLOCK" \notin s.flags
  <2> DEFINE r == [s EXCEPT !.rd = "out"]
  <2>1. ReadLoop(s) = r
    BY <1>3 DEF ReadLoop
  <2>2. r \in Softcs
    BY DEF Softcs
  <2>3. /\ r.st = s.st /\ r.flags = s.flags /\ r.q = s.q /\ r.rd = "out" /\ r.poll = s.poll
        /\ r.io = s.io
        /\ r.cl = s.cl /\ r.refs = s.refs /\ r.view = s.view /\ r.lossy = s.lossy
    BY DEF Softcs
  <2> HIDE DEF r
  <2> QED
    BY <2>1, <2>2, <2>3 DEF Locally, SameLife, Consistent
<1> QED
  BY <1>0, <1>1, <1>2, <1>3

LEMMA WakeCloserLocal ==
  ASSUME NEW s \in Softcs, Consistent(s), s.st # "none"
  PROVE  Locally(s, WakeCloser(s)) /\ WakeCloser(s).io = s.io
<1>1. CASE "CLOSING" \in s.flags /\ s.cl = "asleep"
  <2> DEFINE r == [s EXCEPT !.cl = "loop"]
  <2>1. WakeCloser(s) = r
    BY <1>1 DEF WakeCloser
  <2>2. r \in Softcs
    BY DEF Softcs
  <2>3. /\ r.st = s.st /\ r.flags = s.flags /\ r.q = s.q /\ r.rd = s.rd /\ r.poll = s.poll
        /\ r.io = s.io
        /\ r.cl = "loop" /\ r.refs = s.refs /\ r.view = s.view /\ r.lossy = s.lossy
    BY DEF Softcs
  <2> HIDE DEF r
  <2> QED
    BY <1>1, <2>1, <2>2, <2>3 DEF Locally, SameLife, Consistent, Early
<1>2. CASE ~("CLOSING" \in s.flags /\ s.cl = "asleep")
  BY <1>2 DEF WakeCloser, Locally, SameLife
<1> QED
  BY <1>1, <1>2

LEMMA LocalChain ==
  ASSUME NEW s, NEW r, NEW u, Locally(s, r), Locally(r, u)
  PROVE  Locally(s, u)
BY DEF Locally, SameLife, Early

\* The threads that read
LEMMA ReaderSteps ==
  ASSUME AppInv, NEW a \in Apps, uses' = uses, Read(a) \/ Signal(a) \/ ReadWoken(a)
  PROVE  AppInv'
<1>0. app[a] \in Softcs /\ Consistent(app[a])
  BY DEF AppInv, SoftcInv
<1>1. CASE Read(a)
  <2>1. app[a].st # "none"
    BY <1>1 DEF Read
  <2>2. Locally(app[a], ReadLoop(app[a])) /\ ReadLoop(app[a]).io = app[a].io
    BY <1>0, <2>1, ReadLoopLocal
  <2>3. app' = [app EXCEPT ![a] = ReadLoop(app[a])] /\ UNCHANGED <<list, cds, cast, cntl, dch>>
    BY <1>1 DEF Read
  <2> QED
    BY <2>2, <2>3, LocalStep
<1>2. CASE Signal(a)
  <2> DEFINE r == [app[a] EXCEPT !.rd = "signal"]
  <2>1. app' = [app EXCEPT ![a] = r] /\ UNCHANGED <<list, cds, cast, cntl, dch>>
    BY <1>2 DEF Signal
  <2>2. r \in Softcs
    BY <1>0 DEF Softcs
  <2>3. /\ r.st = app[a].st /\ r.flags = app[a].flags /\ r.q = app[a].q /\ r.rd = "signal"
        /\ r.poll = app[a].poll /\ r.io = app[a].io /\ r.cl = app[a].cl
        /\ r.refs = app[a].refs /\ r.view = app[a].view /\ r.lossy = app[a].lossy
    BY <1>0 DEF Softcs
  <2>4. app[a].st # "none"
    BY <1>0, <1>2, Busy DEF Signal
  <2> HIDE DEF r
  <2>5. Locally(app[a], r)
    BY <1>0, <2>2, <2>3, <2>4 DEF Locally, SameLife, Consistent
  <2> QED
    BY <2>1, <2>3, <2>5, LocalStep
<1>3. CASE ReadWoken(a)
  <2> DEFINE s == [app[a] EXCEPT !.flags = @ \ Asleep]
             u == [s EXCEPT !.rd = "out"]
             r == IF "CLOSING" \in s.flags \/ s.rd = "signal" THEN WakeCloser(u) ELSE ReadLoop(s)
  <2>1. app' = [app EXCEPT ![a] = r] /\ UNCHANGED <<list, cds, cast, cntl, dch>>
    BY <1>3 DEF ReadWoken
  <2>2. s \in Softcs /\ u \in Softcs
    BY <1>0 DEF Softcs, Asleep
  <2>3. /\ s.st = app[a].st /\ s.flags = app[a].flags \ {"SLEEP_WAKEUP", "SLEEP_ENTERED"}
        /\ s.q = app[a].q /\ s.rd = app[a].rd
        /\ s.poll = app[a].poll /\ s.io = app[a].io /\ s.cl = app[a].cl
        /\ s.refs = app[a].refs /\ s.view = app[a].view /\ s.lossy = app[a].lossy
    BY <1>0 DEF Softcs, Asleep
  <2>4. app[a].st # "none" /\ app[a].rd \in {"awake", "signal"}
    BY <1>0, <1>3, <2>3, Busy DEF ReadWoken
  <2>5. /\ u.st = s.st /\ u.flags = s.flags /\ u.q = s.q /\ u.rd = "out"
        /\ u.poll = s.poll /\ u.io = s.io /\ u.cl = s.cl
        /\ u.refs = s.refs /\ u.view = s.view /\ u.lossy = s.lossy
    BY <2>2 DEF Softcs
  <2> HIDE DEF s, u
  <2>6. Locally(app[a], s)
    BY <1>0, <2>2, <2>3, <2>4 DEF Locally, SameLife, Consistent
  <2>7. Locally(s, u)
    BY <2>2, <2>3, <2>4, <2>5, <2>6 DEF Locally, SameLife, Consistent
  <2>8. Consistent(s) /\ s.st # "none" /\ Consistent(u) /\ u.st # "none"
    BY <2>3, <2>4, <2>5, <2>6, <2>7 DEF Locally
  <2>9. /\ Locally(s, ReadLoop(s)) /\ ReadLoop(s).io = s.io
        /\ Locally(u, WakeCloser(u)) /\ WakeCloser(u).io = u.io
    BY <2>2, <2>8, ReadLoopLocal, WakeCloserLocal
  <2>10. Locally(app[a], r) /\ r.io = app[a].io
    BY <2>3, <2>5, <2>6, <2>7, <2>9, LocalChain
  <2> QED
    BY <2>1, <2>10, LocalStep
<1> QED
  BY <1>1, <1>2, <1>3

\* The threads that poll and that change the mode of the file
LEMMA PollerSteps ==
  ASSUME AppInv, NEW a \in Apps, uses' = uses,
         Poll(a) \/ PollTimeout(a) \/ SetBlocking(a)
  PROVE  AppInv'
<1>0. app[a] \in Softcs /\ Consistent(app[a])
  BY DEF AppInv, SoftcInv
<1>1. CASE Poll(a)
  <2> DEFINE r == [app[a] EXCEPT !.poll = "asleep", !.flags = @ \cup {"SELECT"}]
  <2>1. app' = [app EXCEPT ![a] = r] /\ UNCHANGED <<list, cds, cast, cntl, dch>>
    BY <1>1 DEF Poll
  <2>2. r \in Softcs
    BY <1>0 DEF Softcs
  <2>3. /\ r.st = app[a].st /\ r.flags = app[a].flags \cup {"SELECT"} /\ r.q = app[a].q
        /\ r.rd = app[a].rd /\ r.io = app[a].io /\ r.cl = app[a].cl
        /\ r.refs = app[a].refs /\ r.view = app[a].view /\ r.lossy = app[a].lossy
    BY <1>0 DEF Softcs
  <2>4. app[a].st # "none" /\ app[a].q = 0
    BY <1>1 DEF Poll
  <2> HIDE DEF r
  <2>5. Locally(app[a], r)
    BY <1>0, <2>2, <2>3, <2>4 DEF Locally, SameLife, Consistent
  <2> QED
    BY <2>1, <2>3, <2>5, LocalStep
<1>2. CASE PollTimeout(a)
  <2> DEFINE r == [app[a] EXCEPT !.poll = "out"]
  <2>1. app' = [app EXCEPT ![a] = r] /\ UNCHANGED <<list, cds, cast, cntl, dch>>
    BY <1>2 DEF PollTimeout
  <2>2. r \in Softcs
    BY <1>0 DEF Softcs
  <2>3. /\ r.st = app[a].st /\ r.flags = app[a].flags /\ r.q = app[a].q /\ r.poll = "out"
        /\ r.rd = app[a].rd /\ r.io = app[a].io /\ r.cl = app[a].cl
        /\ r.refs = app[a].refs /\ r.view = app[a].view /\ r.lossy = app[a].lossy
    BY <1>0 DEF Softcs
  <2>4. app[a].st # "none"
    BY <1>0, <1>2, Busy DEF PollTimeout
  <2> HIDE DEF r
  <2>5. Locally(app[a], r)
    BY <1>0, <2>2, <2>3, <2>4 DEF Locally, SameLife, Consistent
  <2> QED
    BY <2>1, <2>3, <2>5, LocalStep
<1>3. CASE SetBlocking(a)
  <2> DEFINE f == IF "BLOCK" \in app[a].flags THEN app[a].flags \ {"BLOCK"}
                  ELSE app[a].flags \cup {"BLOCK"}
             r == [app[a] EXCEPT !.flags = f]
  <2>1. app' = [app EXCEPT ![a] = r] /\ UNCHANGED <<list, cds, cast, cntl, dch>>
    BY <1>3 DEF SetBlocking
  <2>2. r \in Softcs
    BY <1>0 DEF Softcs
  <2>3. /\ r.st = app[a].st /\ r.flags = f /\ r.q = app[a].q /\ r.poll = app[a].poll
        /\ r.rd = app[a].rd /\ r.io = app[a].io /\ r.cl = app[a].cl
        /\ r.refs = app[a].refs /\ r.view = app[a].view /\ r.lossy = app[a].lossy
    BY <1>0 DEF Softcs
  <2>4. app[a].st # "none" /\ f \ {"BLOCK"} = app[a].flags \ {"BLOCK"}
    BY <1>3 DEF SetBlocking
  <2> HIDE DEF r, f
  <2>5. \A x \in {"CLOSING", "IOCTL", "SLEEP_WAKEUP", "SELECT"} : x \in f <=> x \in app[a].flags
    BY <2>4
  <2>6. Locally(app[a], r)
    BY <1>0, <2>2, <2>3, <2>4, <2>5 DEF Locally, SameLife, Consistent
  <2> QED
    BY <2>1, <2>3, <2>6, LocalStep
<1> QED
  BY <1>1, <1>2, <1>3

\* The ends of an ioctl.  The thread that holds the controller lock is in neither.
LEMMA IoctlEnds ==
  ASSUME AppInv, NEW a \in Apps, uses' = uses, IoctlBegin(a) \/ IoctlEnd(a)
  PROVE  AppInv'
<1>0. app[a] \in Softcs /\ Consistent(app[a])
  BY DEF AppInv, SoftcInv
<1>1. CASE IoctlBegin(a)
  <2> DEFINE r == [app[a] EXCEPT !.io = "cntl", !.flags = @ \cup {"IOCTL"}]
  <2>1. app' = [app EXCEPT ![a] = r] /\ UNCHANGED <<list, cds, cast, cntl, dch>>
    BY <1>1 DEF IoctlBegin
  <2>2. r \in Softcs
    BY <1>0 DEF Softcs
  <2>3. /\ r.st = app[a].st /\ r.flags = app[a].flags \cup {"IOCTL"} /\ r.q = app[a].q
        /\ r.rd = app[a].rd /\ r.io = "cntl" /\ r.cl = app[a].cl /\ r.poll = app[a].poll
        /\ r.refs = app[a].refs /\ r.view = app[a].view /\ r.lossy = app[a].lossy
    BY <1>0 DEF Softcs
  <2>4. app[a].st = "open" /\ app[a].io = "out" /\ "CLOSING" \notin app[a].flags
    BY <1>1 DEF IoctlBegin
  <2>5. cntl.by # a
    BY <2>4 DEF AppInv, LockInv
  <2> HIDE DEF r
  <2>6. Locally(app[a], r)
    BY <1>0, <2>2, <2>3, <2>4 DEF Locally, SameLife, Consistent
  <2> QED
    BY <2>1, <2>5, <2>6, LocalStep
<1>2. CASE IoctlEnd(a)
  <2> DEFINE s == [app[a] EXCEPT !.io = "out", !.flags = @ \ {"IOCTL"}]
  <2>u. UNCHANGED <<list, cds, cast, cntl, dch>> /\ cntl.by # a /\ app[a].io = "run"
    BY <1>2 DEF IoctlEnd
  <2>w. app' = [app EXCEPT ![a] = WakeCloser(s)]
    BY <1>2 DEF IoctlEnd
  <2>1. /\ app' = [app EXCEPT ![a] = WakeCloser(s)] /\ UNCHANGED <<list, cds, cast, cntl, dch>>
        /\ cntl.by # a /\ app[a].io = "run"
    BY <2>u, <2>w
  <2>2. s \in Softcs
    BY <1>0 DEF Softcs
  <2>3. /\ s.st = app[a].st /\ s.flags = app[a].flags \ {"IOCTL"} /\ s.q = app[a].q
        /\ s.rd = app[a].rd /\ s.io = "out" /\ s.cl = app[a].cl /\ s.poll = app[a].poll
        /\ s.refs = app[a].refs /\ s.view = app[a].view /\ s.lossy = app[a].lossy
    BY <1>0 DEF Softcs
  <2>4. app[a].st # "none"
    BY <1>0, <2>1, Busy
  <2> HIDE DEF s
  <2>5. Locally(app[a], s)
    BY <1>0, <2>2, <2>3, <2>4 DEF Locally, SameLife, Consistent
  <2>6. Locally(s, WakeCloser(s))
    BY <2>2, <2>3, <2>4, <2>5, WakeCloserLocal DEF Locally
  <2>7. Locally(app[a], WakeCloser(s))
    BY <2>5, <2>6, LocalChain
  <2> QED
    BY <2>1, <2>7, LocalStep
<1> QED
  BY <1>1, <1>2

\* i4b_close, up to the controller lock and after i4b_update_all_d_channels
LEMMA CloserSteps ==
  ASSUME AppInv, NEW a \in Apps, uses' = uses, Close(a) \/ CloseDrain(a)
  PROVE  AppInv'
<1>0. app[a] \in Softcs /\ Consistent(app[a])
  BY DEF AppInv, SoftcInv
<1>1. CASE Close(a)
  <2> DEFINE s == [app[a] EXCEPT !.flags = @ \cup {"CLOSING"}]
             w == WakeReader(s)
             u == [w EXCEPT !.cl = "asleep"]
             v == [s EXCEPT !.cl = "calls"]
             r == CloseLoop(s)
  <2>u. /\ UNCHANGED <<list, cds, cast, cntl, dch>>
        /\ app[a].cl = "loop" \/ (app[a].st = "open" /\ app[a].cl = "out")
    BY <1>1 DEF Close
  <2>w. app' = [app EXCEPT ![a] = r]
    BY <1>1 DEF Close
  <2>1. /\ app' = [app EXCEPT ![a] = r] /\ UNCHANGED <<list, cds, cast, cntl, dch>>
        /\ app[a].cl = "loop" \/ (app[a].st = "open" /\ app[a].cl = "out")
    BY <2>u, <2>w
  <2>2. app[a].st = "open" /\ app[a].cl \in {"out", "loop"}
    BY <1>0, <2>1, Busy DEF Softcs
  <2>3. s \in Softcs /\ v \in Softcs
    BY <1>0 DEF Softcs
  <2>4. /\ s.st = app[a].st /\ s.flags = app[a].flags \cup {"CLOSING"} /\ s.q = app[a].q
        /\ s.rd = app[a].rd /\ s.io = app[a].io /\ s.poll = app[a].poll
        /\ s.refs = app[a].refs /\ s.view = app[a].view /\ s.lossy = app[a].lossy
    BY <1>0 DEF Softcs
  <2>5. /\ v.st = s.st /\ v.flags = s.flags /\ v.q = s.q /\ v.cl = "calls"
        /\ v.rd = s.rd /\ v.io = s.io /\ v.poll = s.poll
        /\ v.refs = s.refs /\ v.view = s.view /\ v.lossy = s.lossy
    BY <2>3 DEF Softcs
  <2>6. r = IF s.flags \cap {"SLEEP_WAKEUP", "SLEEP_ENTERED", "IOCTL"} # {} THEN u ELSE v
    BY DEF CloseLoop
  <2> HIDE DEF s, v, r
  <2>7. /\ w \in Softcs /\ Quietly(s, w)
        /\ w.q = s.q /\ w.view = s.view /\ w.lossy = s.lossy /\ w.poll = s.poll
        /\ w.flags = s.flags \ {"SLEEP_WAKEUP"}
        /\ "SLEEP_WAKEUP" \in s.flags => w.rd # "asleep"
        /\ "SLEEP_WAKEUP" \notin s.flags => w.rd = s.rd
    BY <2>3, WakeReaderFields
  <2> HIDE DEF w
  <2>8. /\ u \in Softcs
        /\ u.st = w.st /\ u.flags = w.flags /\ u.q = w.q /\ u.cl = "asleep"
        /\ u.rd = w.rd /\ u.io = w.io /\ u.poll = w.poll
        /\ u.refs = w.refs /\ u.view = w.view /\ u.lossy = w.lossy
    BY <2>7 DEF Softcs
  <2> HIDE DEF u
  <2>9. Locally(app[a], u) /\ u.io = app[a].io
    <3>1. u.rd # "asleep"
      BY <1>0, <2>4, <2>7, <2>8 DEF Consistent
    <3>2. u.st = "open" /\ u.flags = (app[a].flags \cup {"CLOSING"}) \ {"SLEEP_WAKEUP"}
      BY <2>2, <2>4, <2>7, <2>8 DEF Quietly
    <3>3. /\ u.io = app[a].io /\ u.poll = app[a].poll /\ u.q = app[a].q
          /\ u.refs = app[a].refs /\ u.view = app[a].view /\ u.lossy = app[a].lossy
      BY <2>4, <2>7, <2>8 DEF Quietly
    <3>4. Consistent(u)
      BY <1>0, <2>8, <3>1, <3>2, <3>3 DEF Consistent
    <3> QED
      BY <2>2, <2>8, <3>2, <3>3, <3>4 DEF Locally, SameLife, Early
  <2>10. CASE s.flags \cap {"SLEEP_WAKEUP", "SLEEP_ENTERED", "IOCTL"} # {}
    BY <2>1, <2>6, <2>9, <2>10, LocalStep
  <2>11. CASE s.flags \cap {"SLEEP_WAKEUP", "SLEEP_ENTERED", "IOCTL"} = {}
    <3>1. "IOCTL" \notin app[a].flags /\ "SLEEP_WAKEUP" \notin app[a].flags
      BY <2>4, <2>11
    <3>2. app[a].io = "out" /\ app[a].rd # "asleep"
      BY <1>0, <3>1 DEF Consistent
    <3>3. Consistent(v)
      BY <1>0, <2>2, <2>4, <2>5, <3>1, <3>2 DEF Consistent
    <3>4. Locally(app[a], v) /\ v.io = app[a].io
      BY <2>2, <2>3, <2>4, <2>5, <3>3 DEF Locally, SameLife, Early
    <3> QED
      BY <2>1, <2>6, <2>11, <3>4, LocalStep
  <2> QED
    BY <2>10, <2>11
<1>2. CASE CloseDrain(a)
  <2> DEFINE r == [app[a] EXCEPT !.cl = "closed", !.q = 0]
  <2>1. /\ app' = [app EXCEPT ![a] = r] /\ UNCHANGED <<list, cds, cast, cntl, dch>>
        /\ app[a].cl = "drain"
    BY <1>2 DEF CloseDrain
  <2>2. r \in Softcs
    <3>1. 0 \in 0 .. QMax
      BY QMaxNat
    <3> QED
      BY <1>0, <3>1 DEF Softcs
  <2>3. /\ r.st = app[a].st /\ r.flags = app[a].flags /\ r.q = 0 /\ r.cl = "closed"
        /\ r.rd = app[a].rd /\ r.io = app[a].io /\ r.poll = app[a].poll
        /\ r.refs = app[a].refs /\ r.view = app[a].view /\ r.lossy = app[a].lossy
    BY <1>0 DEF Softcs
  <2>4. app[a].st = "open"
    BY <1>0, <2>1, Busy DEF Softcs
  <2> HIDE DEF r
  <2>5. Locally(app[a], r)
    BY <1>0, <2>1, <2>2, <2>3, <2>4 DEF Locally, SameLife, Consistent
  <2> QED
    BY <2>1, <2>3, <2>5, LocalStep
<1> QED
  BY <1>1, <1>2

-----------------------------------------------------------------------------
(* The order of the softcs, and the references of the broadcasts *)

LEMMA Names ==
  /\ "NONE" \notin Apps /\ "BROADCAST" \notin Apps /\ "free" \notin Apps /\ "net" \notin Apps
BY AppAssumption

LEMMA PlaceLemma ==
  ASSUME ListInv, NEW a \in Apps, app[a].st # "none"
  PROVE  Place(a) \in DOMAIN list /\ list[Place(a)] = a
<1>1. \E i \in DOMAIN list : list[i] = a
  BY DEF ListInv
<1> QED
  BY <1>1 DEF Place

LEMMA ListRange ==
  ASSUME ListInv
  PROVE  /\ DOMAIN list = 1 .. Len(list) /\ Len(list) \in Nat
         /\ \A i \in DOMAIN list : list[i] \in Apps /\ app[list[i]].st # "none"
BY DEF ListInv

\* A broadcast starts at the first softc, and every other comes after it.
LEMMA FirstLemma ==
  ASSUME ListInv
  PROVE  /\ First = "NONE" => \A a \in Apps : app[a].st = "none"
         /\ First # "NONE" => /\ First \in Apps /\ app[First].st # "none"
                              /\ \A a \in Apps : app[a].st # "none" => a = First \/ Before(First, a)
<1>1. CASE list = <<>>
  <2>1. First = "NONE"
    BY <1>1 DEF First
  <2>2. DOMAIN list = {}
    BY <1>1
  <2> QED
    BY <2>1, <2>2 DEF ListInv
<1>2. CASE list # <<>>
  <2>1. 1 \in DOMAIN list /\ First = list[1]
    BY <1>2 DEF ListInv, First
  <2>2. First \in Apps /\ app[First].st # "none"
    BY <2>1, ListRange
  <2>3. ASSUME NEW a \in Apps, app[a].st # "none", a # First PROVE Before(First, a)
    <3>1. PICK j \in DOMAIN list : list[j] = a
      BY <2>3 DEF ListInv
    <3>2. 1 < j
      BY <2>1, <2>3, <3>1, ListRange
    <3> QED
      BY <2>1, <3>1, <3>2 DEF Before
  <2> QED
    BY <2>2, <2>3, Names
<1> QED
  BY <1>1, <1>2

\* It goes on to the next softc, and leaves none out.
LEMMA AfterLemma ==
  ASSUME ListInv, NEW a \in Apps, app[a].st # "none"
  PROVE  /\ After(a) # "NONE" => /\ After(a) \in Apps /\ app[After(a)].st # "none" /\ After(a) # a
                                 /\ \A x : Before(x, After(a)) <=> x = a \/ Before(x, a)
         /\ \A x : Before(a, x) <=> After(a) # "NONE" /\ (x = After(a) \/ Before(After(a), x))
         /\ ~Before(a, a)
<1> DEFINE i == Place(a)
<1>0. /\ i \in DOMAIN list /\ list[i] = a
      /\ DOMAIN list = 1 .. Len(list) /\ Len(list) \in Nat
      /\ \A j, k \in DOMAIN list : list[j] = list[k] => j = k
  BY PlaceLemma, ListRange DEF ListInv
<1>a. After(a) = IF i = Len(list) THEN "NONE" ELSE list[i + 1]
  BY DEF After
<1> HIDE DEF i
<1>1. ~Before(a, a)
  BY <1>0 DEF Before
<1>2. CASE i = Len(list)
  <2>1. After(a) = "NONE"
    BY <1>2, <1>a
  <2>2. \A x : ~Before(a, x)
    BY <1>0, <1>2 DEF Before
  <2> QED
    BY <1>1, <2>1, <2>2
<1>3. CASE i # Len(list)
  <2>1. i + 1 \in DOMAIN list /\ After(a) = list[i + 1]
    BY <1>0, <1>3, <1>a
  <2>2. After(a) \in Apps /\ app[After(a)].st # "none" /\ After(a) # "NONE"
    BY <2>1, ListRange, Names
  <2>3. After(a) # a
    BY <1>0, <2>1
  <2>4. ASSUME NEW x PROVE Before(x, After(a)) <=> x = a \/ Before(x, a)
    <3>1. ASSUME Before(x, After(a)) PROVE x = a \/ Before(x, a)
      <4>1. PICK j, k \in DOMAIN list : j < k /\ list[j] = x /\ list[k] = After(a)
        BY <3>1 DEF Before
      <4>2. k = i + 1
        BY <1>0, <2>1, <4>1
      <4>3. j = i \/ j < i
        BY <1>0, <4>1, <4>2
      <4> QED
        BY <1>0, <4>1, <4>3 DEF Before
    <3>2. ASSUME x = a \/ Before(x, a) PROVE Before(x, After(a))
      <4>1. PICK j \in DOMAIN list : j <= i /\ list[j] = x
        BY <1>0, <3>2 DEF Before
      <4>2. j < i + 1
        BY <1>0, <4>1
      <4> QED
        BY <2>1, <4>1, <4>2 DEF Before
    <3> QED
      BY <3>1, <3>2
  <2>5. ASSUME NEW x PROVE Before(a, x) <=> x = After(a) \/ Before(After(a), x)
    <3>1. ASSUME Before(a, x) PROVE x = After(a) \/ Before(After(a), x)
      <4>1. PICK j, k \in DOMAIN list : j < k /\ list[j] = a /\ list[k] = x
        BY <3>1 DEF Before
      <4>2. j = i
        BY <1>0, <4>1
      <4>3. k = i + 1 \/ i + 1 < k
        BY <1>0, <4>1, <4>2
      <4> QED
        BY <2>1, <4>1, <4>3 DEF Before
    <3>2. ASSUME x = After(a) \/ Before(After(a), x) PROVE Before(a, x)
      <4>1. PICK k \in DOMAIN list : i + 1 <= k /\ list[k] = x
        <5>1. CASE x = After(a)
          BY <1>0, <2>1, <5>1
        <5>2. CASE Before(After(a), x)
          <6>1. PICK j, k \in DOMAIN list : j < k /\ list[j] = After(a) /\ list[k] = x
            BY <5>2 DEF Before
          <6>2. j = i + 1
            BY <1>0, <2>1, <6>1
          <6> QED
            BY <1>0, <6>1, <6>2
        <5> QED
          BY <3>2, <5>1, <5>2
      <4>2. i < k
        BY <1>0, <4>1
      <4> QED
        BY <1>0, <4>1, <4>2 DEF Before
    <3> QED
      BY <3>1, <3>2
  <2> QED
    BY <1>1, <2>2, <2>3, <2>4, <2>5
<1> QED
  BY <1>2, <1>3


\* Only the reference count of a softc differs.
Referred(s, r) ==
  /\ r \in Softcs /\ Consistent(r)
  /\ r.st = s.st /\ r.cl = s.cl /\ r.io = s.io /\ r.view = s.view /\ r.lossy = s.lossy

LEMMA ReferredSoftc ==
  ASSUME NEW s \in Softcs, Consistent(s), s.st # "none", NEW n \in Nat
  PROVE  Referred(s, [s EXCEPT !.refs = n]) /\ [s EXCEPT !.refs = n].refs = n
<1> DEFINE r == [s EXCEPT !.refs = n]
<1>1. /\ r \in Softcs /\ r.refs = n /\ r.st = s.st /\ r.cl = s.cl /\ r.io = s.io
      /\ r.view = s.view /\ r.lossy = s.lossy /\ r.flags = s.flags /\ r.q = s.q
      /\ r.rd = s.rd /\ r.poll = s.poll
  BY DEF Softcs
<1> HIDE DEF r
<1>2. Referred(s, r)
  BY <1>1 DEF Referred, Consistent
<1> QED
  BY <1>1, <1>2 DEF r

LEMMA ReferFields ==
  ASSUME NEW ap \in [Apps -> Softcs], \A b \in Apps : Consistent(ap[b]),
         NEW f \in Apps \cup {"NONE"}, f # "NONE" => ap[f].st # "none"
  PROVE  /\ Refer(ap, f) \in [Apps -> Softcs]
         /\ \A b \in Apps : /\ Referred(ap[b], Refer(ap, f)[b])
                            /\ Refer(ap, f)[b].refs = ap[b].refs + (IF f = b THEN 1 ELSE 0)
<1>0. \A b \in Apps : ap[b].refs \in Nat
  BY DEF Softcs
<1>1. CASE f = "NONE"
  <2>1. Refer(ap, f) = ap /\ f \notin Apps
    BY <1>1, Names DEF Refer
  <2> QED
    BY <1>0, <2>1 DEF Referred
<1>2. CASE f # "NONE"
  <2> DEFINE s == [ap[f] EXCEPT !.refs = ap[f].refs + 1]
  <2>1. f \in Apps /\ ap[f].refs + 1 \in Nat
    BY <1>0, <1>2
  <2>2. Refer(ap, f) = [ap EXCEPT ![f] = s]
    BY <1>2 DEF Refer
  <2>3. Referred(ap[f], s) /\ s.refs = ap[f].refs + 1
    BY <1>2, <2>1, ReferredSoftc
  <2> HIDE DEF s
  <2>4. Refer(ap, f) \in [Apps -> Softcs]
    BY <2>1, <2>2, <2>3 DEF Referred
  <2>5. ASSUME NEW b \in Apps
        PROVE  /\ Referred(ap[b], Refer(ap, f)[b])
               /\ Refer(ap, f)[b].refs = ap[b].refs + (IF f = b THEN 1 ELSE 0)
    <3>1. CASE b = f
      BY <2>1, <2>2, <2>3, <3>1
    <3>2. CASE b # f
      <4>1. Refer(ap, f)[b] = ap[b]
        BY <2>2, <3>2
      <4> QED
        BY <1>0, <3>2, <4>1 DEF Referred
    <3> QED
      BY <3>1, <3>2
  <2> QED
    BY <2>4, <2>5
<1> QED
  BY <1>1, <1>2

\* A broadcast takes its reference along.
LEMMA CastMoves ==
  ASSUME CastInv, NEW t \in Casters, NEW b \in Casts, cast' = [cast EXCEPT ![t] = b],
         b.at # "NONE" => app[b.at].st # "none", t = "drv" => b.msg = OtherMsg,
         \A x \in Apps : /\ app'[x].st = app[x].st
                         /\ app'[x].refs = app[x].refs + (IF b.at = x THEN 1 ELSE 0) - At(t, x)
  PROVE  CastInv'
<1>1. /\ cast' \in [Casters -> Casts] /\ cast'[t] = b
      /\ \A u \in Casters : u # t => cast'[u] = cast[u]
      /\ \A u \in Casters : cast'[u].at \in Apps \cup {"NONE"}
  BY DEF CastInv, Casts
<1>2. ASSUME NEW u \in Casters, cast'[u].at # "NONE" PROVE app'[cast'[u].at].st # "none"
  BY <1>1, <1>2 DEF CastInv
<1>3. ASSUME NEW x \in Apps
      PROVE  app'[x].refs = At("cntl", x)' + At("drv", x)'
  <2>1. app[x].refs = At("cntl", x) + At("drv", x)
    BY DEF CastInv
  <2>2. At(t, x)' = IF b.at = x THEN 1 ELSE 0
    BY <1>1 DEF At
  <2>3. \A u \in Casters : At(u, x) \in {0, 1} /\ (u # t => At(u, x)' = At(u, x))
    BY <1>1 DEF At
  <2>4. CASE t = "cntl"
    BY <2>1, <2>2, <2>3, <2>4 DEF Casters
  <2>5. CASE t = "drv"
    BY <2>1, <2>2, <2>3, <2>5 DEF Casters
  <2> QED
    BY <2>4, <2>5 DEF Casters
<1>4. cast'["drv"].msg = OtherMsg
  BY <1>1 DEF CastInv, Casters
<1> QED
  BY <1>1, <1>2, <1>3, <1>4 DEF CastInv

\* The softcs ap, from which an operation goes on, differ from app by a local step.
AsIf(ap) == ap \in [Apps -> Softcs] /\ \A b \in Apps : Locally(app[b], ap[b])

LEMMA CastBegins ==
  ASSUME AppInv, NEW t \in Casters, cast[t].at = "NONE", NEW ap, AsIf(ap),
         NEW e \in Apps \cup {"NONE"}, NEW m \in Messages, t = "drv" => m = OtherMsg,
         CastStart(t, ap, e, m)
  PROVE  /\ SoftcInv' /\ CastInv'
         /\ \A b \in Apps : Referred(ap[b], app'[b])
         /\ cast'[t] = IF First = "NONE" THEN NoCast
                       ELSE [at |-> First, pc |-> "put", exclude |-> e, msg |-> m]
         /\ cast'[t].at = First
         /\ \A u \in Casters : u # t => cast'[u] = cast[u]
<1> DEFINE b == IF First = "NONE" THEN NoCast
                ELSE [at |-> First, pc |-> "put", exclude |-> e, msg |-> m]
<1>1. /\ First \in Apps \cup {"NONE"}
      /\ First # "NONE" => app[First].st # "none" /\ ap[First].st # "none"
  BY FirstLemma DEF AppInv, AsIf, Locally, SameLife
<1>2. /\ app' = Refer(ap, First) /\ cast' = [cast EXCEPT ![t] = b]
  BY DEF CastStart
<1>3. b \in Casts /\ b.at = First /\ (t = "drv" => b.msg = OtherMsg)
  BY <1>1 DEF Casts, NoCast, Messages
<1>4. \A x \in Apps : /\ ap[x] \in Softcs /\ Consistent(ap[x])
                      /\ ap[x].refs = app[x].refs /\ ap[x].st = app[x].st
  BY DEF AsIf, Locally, SameLife
<1>5. /\ app' \in [Apps -> Softcs]
      /\ \A x \in Apps : /\ Referred(ap[x], app'[x])
                         /\ app'[x].refs = ap[x].refs + (IF First = x THEN 1 ELSE 0)
  BY <1>1, <1>2, <1>4, ReferFields DEF AsIf
<1>6. SoftcInv'
  BY <1>5 DEF SoftcInv, Referred
<1>7. cast'[t] = b /\ \A u \in Casters : u # t => cast'[u] = cast[u]
  BY <1>2 DEF AppInv, CastInv
<1> HIDE DEF b
<1>8. ASSUME NEW x \in Apps
      PROVE  /\ app'[x].st = app[x].st
             /\ app'[x].refs = app[x].refs + (IF b.at = x THEN 1 ELSE 0) - At(t, x)
  <2>1. At(t, x) = 0
    BY Names DEF At
  <2>2. app[x].refs \in Nat
    BY <1>4 DEF Softcs
  <2> QED
    BY <1>3, <1>4, <1>5, <2>1, <2>2 DEF Referred
<1>9. CastInv'
  BY <1>1, <1>2, <1>3, <1>8, CastMoves DEF AppInv
<1> QED
  BY <1>3, <1>5, <1>6, <1>7, <1>9 DEF b


-----------------------------------------------------------------------------
(* Broadcasts *)

\* The frame for the steps of a driver's broadcast
LEMMA DriverMessageStep ==
  ASSUME AppInv, UNCHANGED uses, DriverMessage
  PROVE  AppInv'
<1>1. AsIf(app)
  BY DEF AsIf, Locally, AppInv, SoftcInv, SameLife
<1>2. OtherMsg \in Messages /\ "drv" \in Casters /\ "cntl" \in Casters
  BY DEF Messages, Casters
<1>3. /\ SoftcInv' /\ CastInv' /\ cast'["cntl"] = cast["cntl"]
      /\ \A b \in Apps : Referred(app[b], app'[b])
  BY <1>1, <1>2, CastBegins DEF DriverMessage
<1>4. UNCHANGED <<uses, list, cds, cntl, dch>>
  BY DEF DriverMessage
<1>5. \A b \in Apps : SameLife(app[b], app'[b])
  BY <1>3 DEF Referred, SameLife
<1> QED
  BY <1>3, <1>4, <1>5, AsideStep DEF Referred

\* The softc a broadcast stands at
LEMMA Standing ==
  ASSUME AppInv, NEW t \in Casters, cast[t].at # "NONE"
  PROVE  /\ cast[t] \in Casts /\ cast[t].at \in Apps /\ app[cast[t].at].st # "none"
         /\ app[cast[t].at] \in Softcs /\ Consistent(app[cast[t].at])
         /\ app[cast[t].at].refs \in Nat /\ app[cast[t].at].refs > 0
<1>1. cast[t] \in Casts /\ cast[t].at \in Apps /\ app[cast[t].at].st # "none"
  BY DEF AppInv, CastInv, Casts
<1>2. app[cast[t].at] \in Softcs /\ Consistent(app[cast[t].at])
  BY <1>1 DEF AppInv, SoftcInv
<1>3. app[cast[t].at].refs = At("cntl", cast[t].at) + At("drv", cast[t].at)
  BY <1>1 DEF AppInv, CastInv
<1>4. \A u \in Casters, x \in Apps : At(u, x) \in {0, 1}
  BY DEF At
<1>5. At(t, cast[t].at) = 1
  BY DEF At
<1>6. app[cast[t].at].refs > 0 /\ app[cast[t].at].refs \in Nat
  BY <1>1, <1>3, <1>4, <1>5 DEF Casters
<1> QED
  BY <1>1, <1>2, <1>6

\* The part of CastNext that does not depend on whose broadcast it is
LEMMA CastGoesOn ==
  ASSUME AppInv, NEW t \in Casters, CastNext(t)
  PROVE  /\ SoftcInv' /\ CastInv' /\ cast' = [cast EXCEPT ![t] = Onward(cast[t])]
         /\ \A b \in Apps : Referred(app[b], app'[b])
<1> DEFINE b == cast[t]
           f == After(b.at)
           s == [app[b.at] EXCEPT !.refs = app[b.at].refs - 1]
           ap == [app EXCEPT ![b.at] = s]
           n == Onward(b)
<1>0. b.at # "NONE" /\ app' = Refer(ap, f) /\ cast' = [cast EXCEPT ![t] = n]
  BY DEF CastNext
<1>1. /\ b \in Casts /\ b.at \in Apps /\ app[b.at].st # "none"
      /\ app[b.at] \in Softcs /\ Consistent(app[b.at])
      /\ app[b.at].refs \in Nat /\ app[b.at].refs > 0
  BY <1>0, Standing
<1>2. app[b.at].refs - 1 \in Nat
  BY <1>1
<1>3. Referred(app[b.at], s) /\ s.refs = app[b.at].refs - 1
  BY <1>1, <1>2, ReferredSoftc
<1>4. f \in Apps \cup {"NONE"} /\ (f # "NONE" => app[f].st # "none" /\ f # b.at)
  BY <1>1, AfterLemma DEF AppInv
<1>5. /\ n \in Casts /\ n.at = f /\ (t = "drv" => n.msg = OtherMsg)
  <2>1. CASE f = "NONE"
    BY <2>1 DEF Onward, NoCast, Casts, Messages
  <2>2. CASE f # "NONE"
    <3>1. n = [b EXCEPT !.at = f, !.pc = "put"]
      BY <2>2 DEF Onward
    <3>2. t = "drv" => b.msg = OtherMsg
      BY DEF AppInv, CastInv
    <3> QED
      BY <1>1, <1>4, <3>1, <3>2 DEF Casts
  <2> QED
    BY <2>1, <2>2
<1>c. app \in [Apps -> Softcs] /\ \A x \in Apps : Consistent(app[x])
  BY DEF AppInv, SoftcInv
<1> HIDE DEF n, s, f
<1>6. /\ ap \in [Apps -> Softcs] /\ ap[b.at] = s
      /\ \A x \in Apps : x # b.at => ap[x] = app[x]
  BY <1>1, <1>3, <1>c DEF Referred
<1>7. \A x \in Apps : Referred(app[x], ap[x])
  BY <1>3, <1>6, <1>c DEF Referred
<1> HIDE DEF ap, b
<1>8. f # "NONE" => ap[f].st # "none"
  BY <1>4, <1>6
<1>9. /\ app' \in [Apps -> Softcs]
      /\ \A x \in Apps : /\ Referred(ap[x], app'[x])
                         /\ app'[x].refs = ap[x].refs + (IF f = x THEN 1 ELSE 0)
  BY <1>0, <1>4, <1>6, <1>7, <1>8, ReferFields DEF Referred
<1>10. \A x \in Apps : Referred(app[x], app'[x])
  BY <1>7, <1>9 DEF Referred
<1>11. SoftcInv'
  BY <1>9, <1>10 DEF SoftcInv, Referred
<1>12. ASSUME NEW x \in Apps
       PROVE  app'[x].refs = app[x].refs + (IF n.at = x THEN 1 ELSE 0) - At(t, x)
  <2>1. app[x].refs \in Nat
    BY <1>c DEF Softcs
  <2>2. CASE x = b.at
    <3>1. At(t, x) = 1
      BY <2>2 DEF At, b
    <3>2. ap[x].refs = app[x].refs - 1
      BY <1>3, <1>6, <2>2
    <3> QED
      BY <1>5, <1>9, <2>1, <3>1, <3>2
  <2>3. CASE x # b.at
    <3>1. At(t, x) = 0
      BY <2>3 DEF At, b
    <3>2. ap[x].refs = app[x].refs
      BY <1>6, <2>3
    <3> QED
      BY <1>5, <1>9, <2>1, <3>1, <3>2
  <2> QED
    BY <2>2, <2>3
<1>13. \A x \in Apps : app'[x].st = app[x].st
  BY <1>10 DEF Referred
<1>14. CastInv'
  BY <1>0, <1>4, <1>5, <1>12, <1>13, CastMoves DEF AppInv
<1> QED
  BY <1>0, <1>10, <1>11, <1>14 DEF n, b


\* A broadcast under the controller lock has a holder, and says what the holder does.
LEMMA Spoken ==
  ASSUME AppInv, cast["cntl"].at # "NONE"
  PROVE  /\ cntl.by # "free" /\ cntl.cd \in Calls /\ cast["cntl"].msg.cd = cntl.cd
         /\ \/ /\ cntl.then = "offered" /\ cast["cntl"].exclude = "NONE"
               /\ cast["cntl"].msg.type = CONNECT_IND /\ cds[cntl.cd].ai = "BROADCAST"
            \/ /\ cntl.then = "free" /\ cast["cntl"].exclude = "NONE"
               /\ cast["cntl"].msg.type = DISCONNECT_IND
            \/ /\ cntl.then \in {"accept", "reject"} /\ cast["cntl"].exclude = cntl.by
               /\ cast["cntl"].msg.type = DISCONNECT_IND /\ cds[cntl.cd].ai = cntl.by
BY DEF AppInv, LockInv, Msg, Unlocked

LEMMA CastNextStep ==
  ASSUME AppInv, UNCHANGED uses, NEW t \in Casters, CastNext(t)
  PROVE  AppInv'
<1>1. /\ SoftcInv' /\ CastInv' /\ cast' = [cast EXCEPT ![t] = Onward(cast[t])]
      /\ \A b \in Apps : Referred(app[b], app'[b])
  BY CastGoesOn
<1>2. UNCHANGED <<uses, list, cds, cntl, dch>> /\ cast[t].at # "NONE" /\ cast[t].pc = "next"
  BY DEF CastNext
<1>3. /\ \A b \in Apps : SameLife(app[b], app'[b])
      /\ \A b \in Apps : /\ app'[b].st = app[b].st /\ app'[b].io = app[b].io
                         /\ app'[b].cl = app[b].cl /\ app'[b].view = app[b].view
                         /\ app'[b].lossy = app[b].lossy
  BY <1>1 DEF Referred, SameLife
<1>d. CASE t = "drv"
  <2>1. cast'["cntl"] = cast["cntl"]
    BY <1>1, <1>d DEF AppInv, CastInv, Casters
  <2> QED
    BY <1>1, <1>2, <1>3, <2>1, AsideStep
<1>c. CASE t = "cntl"
  <2> DEFINE b == cast["cntl"]
             f == After(b.at)
  <2>1. b.at \in Apps /\ app[b.at].st # "none"
    BY <1>2, <1>c, Standing
  <2>2. /\ cast'["cntl"] = Onward(b) /\ cast'["cntl"].at = f
        /\ f # "NONE" => /\ cast'["cntl"].pc = "put" /\ cast'["cntl"].exclude = b.exclude
                         /\ cast'["cntl"].msg = b.msg
    BY <1>1, <1>c DEF AppInv, CastInv, Casters, Onward, NoCast, Casts
  <2>3. /\ f # "NONE" => \A x : Before(x, f) <=> x = b.at \/ Before(x, b.at)
        /\ \A x : Before(b.at, x) <=> f # "NONE" /\ (x = f \/ Before(f, x))
    BY <2>1, AfterLemma DEF AppInv
  <2>4. \A x, y : Before(x, y)' <=> Before(x, y)
    BY <1>2, OrderKept
  <2>5. cntl.by # "free"
    BY <1>2, <1>c, Spoken
  <2> HIDE DEF f
  <2>6. LockInv'
    BY <1>2, <1>3, <1>c, <2>2, <2>5 DEF AppInv, LockInv
  <2>7. CountInv'
    <3>1. f # "NONE" => Reached' = Reached
      BY <1>2, <1>3, <1>c, <2>2, <2>3, <2>4 DEF Reached
    <3> QED
      BY <1>2, <1>c, <2>2, <3>1 DEF AppInv, CountInv
  <2>8. \A x \in Apps : Ahead(x) => Ahead(x)'
    BY <1>2, <1>c, <2>2, <2>3, <2>4 DEF Ahead
  <2>v. \A x \in Apps : \A c : Rightly(x, c) => Rightly(x, c)'
    BY <1>2, <2>8 DEF Rightly
  <2>9. ViewInv'
    BY <1>3, <2>v DEF AppInv, ViewInv
  <2> QED
    BY <1>1, <1>2, <1>3, <2>6, <2>7, <2>9, ListKept, OwnersKept, DchKept DEF AppInv
<1> QED
  BY <1>c, <1>d DEF Casters

\* The part of CastPut that does not depend on whose broadcast it is: r is the softc
\* after the message.
LEMMA CastPuts ==
  ASSUME AppInv, NEW t \in Casters, CastPut(t)
  PROVE  /\ SoftcInv' /\ CastInv' /\ cast' = [cast EXCEPT ![t].pc = "next"]
         /\ cast[t].at \in Apps /\ app[cast[t].at].st # "none" /\ cast[t].pc = "put"
         /\ \A x \in Apps \ {cast[t].at} : app'[x] = app[x]
         /\ \A x \in Apps : Quietly(app[x], app'[x])
         /\ LET b == cast[t]
                s == app[b.at]
                r == app'[b.at]
            IN /\ r.cl = "out" /\ ~r.lossy =>
                    /\ ~s.lossy
                    /\ r.view = IF b.at = b.exclude THEN s.view ELSE Noted(s.view, b.msg)
               /\ cds' = cds \/ /\ b.msg.type = CONNECT_IND /\ s.cl = "out"
                                /\ cds' = [cds EXCEPT ![b.msg.cd].count = @ + 1]
<1> DEFINE b == cast[t]
           s == app[b.at]
           v == Noted(s.view, b.msg)
<1>0. b.at # "NONE" /\ b.pc = "put"
  BY DEF CastPut
<1>1. /\ b \in Casts /\ b.at \in Apps /\ s.st # "none"
      /\ s \in Softcs /\ Consistent(s)
  BY <1>0, Standing
<1>2. v \in SUBSET Calls
  <2>1. s.view \subseteq Calls /\ b.msg \in Messages
    BY <1>1 DEF Softcs, Casts
  <2>2. b.msg.type = CONNECT_IND => b.msg.cd \in Calls
    BY <2>1 DEF Messages, Msg, OtherMsg, CONNECT_IND, DISCONNECT_IND
  <2> QED
    BY <2>1, <2>2 DEF Noted
<1>3. PICK copied \in BOOLEAN :
        LET put == b.at # b.exclude /\ copied
            kept == put /\ "CLOSING" \notin s.flags
        IN /\ app' = [app EXCEPT ![b.at] = IF put THEN PutQueue(s, b.msg)
                                           ELSE [s EXCEPT !.lossy = @ \/ b.at # b.exclude]]
           /\ cds' = IF kept /\ b.msg.type = CONNECT_IND
                     THEN [cds EXCEPT ![b.msg.cd].count = @ + 1] ELSE cds
           /\ cast' = [cast EXCEPT ![t].pc = "next"]
  BY DEF CastPut
<1> DEFINE put == b.at # b.exclude /\ copied
           r == IF put THEN PutQueue(s, b.msg) ELSE [s EXCEPT !.lossy = @ \/ b.at # b.exclude]
<1>4. /\ r \in Softcs /\ Consistent(r) /\ Quietly(s, r)
      /\ r.cl = "out" /\ ~r.lossy =>
           ~s.lossy /\ r.view = IF b.at = b.exclude THEN s.view ELSE v
  <2>1. CASE put
    <3>1. r = PutMessages(s, 1, v)
      BY <2>1 DEF PutQueue
    <3>2. 1 \in Nat /\ 1 # 0
      OBVIOUS
    <3> HIDE DEF v, s, r, put
    <3>3. /\ r \in Softcs /\ Consistent(r) /\ Quietly(s, r)
          /\ ~r.lossy => ~s.lossy
          /\ s.cl = "out" => r.view = v
      BY <1>1, <1>2, <3>1, <3>2, PutFields
    <3> QED
      BY <2>1, <3>3 DEF Quietly, put
  <2>2. CASE ~put
    <3> DEFINE away == b.at # b.exclude
    <3>1. r = [s EXCEPT !.lossy = @ \/ away]
      BY <2>2
    <3>2. (s.lossy \/ away) \in BOOLEAN
      OBVIOUS
    <3> HIDE DEF s
    <3>3. /\ r \in Softcs /\ r.st = s.st /\ r.cl = s.cl /\ r.io = s.io /\ r.refs = s.refs
          /\ r.view = s.view /\ r.lossy = (s.lossy \/ away) /\ r.flags = s.flags /\ r.q = s.q
          /\ r.rd = s.rd /\ r.poll = s.poll
      BY <1>1, <3>1, <3>2 DEF Softcs
    <3> HIDE DEF r
    <3>4. Consistent(r) /\ Quietly(s, r)
      BY <1>1, <3>3 DEF Consistent, Quietly
    <3> QED
      BY <3>3, <3>4
  <2> QED
    BY <2>1, <2>2
<1>5. app' = [app EXCEPT ![b.at] = r]
  BY <1>3
<1>c. cds' = cds \/ /\ b.msg.type = CONNECT_IND /\ s.cl = "out"
                    /\ cds' = [cds EXCEPT ![b.msg.cd].count = @ + 1]
  BY <1>1, <1>3 DEF Consistent
<1> HIDE DEF r, s, v
<1>6. SoftcInv' /\ app'[b.at] = r /\ \A x \in Apps : x # b.at => app'[x] = app[x]
  BY <1>1, <1>4, <1>5, Replaced DEF AppInv
<1>7. \A x \in Apps : Quietly(app[x], app'[x])
  BY <1>4, <1>6 DEF Quietly, s
<1>8. CastInv'
  <2> DEFINE n == [b EXCEPT !.pc = "next"]
  <2>1. cast' = [cast EXCEPT ![t] = n]
    BY <1>3
  <2>2. n \in Casts /\ n.at = b.at /\ n.msg = b.msg
    BY <1>1 DEF Casts
  <2> HIDE DEF n
  <2>3. t = "drv" => n.msg = OtherMsg
    BY <2>2 DEF AppInv, CastInv
  <2>4. ASSUME NEW x \in Apps
        PROVE  /\ app'[x].st = app[x].st
               /\ app'[x].refs = app[x].refs + (IF n.at = x THEN 1 ELSE 0) - At(t, x)
    <3>1. app'[x].st = app[x].st /\ app'[x].refs = app[x].refs
      BY <1>7 DEF Quietly
    <3>2. app[x].refs \in Nat
      BY DEF AppInv, SoftcInv, Softcs
    <3>3. At(t, x) = IF n.at = x THEN 1 ELSE 0
      BY <2>2 DEF At
    <3> QED
      BY <3>1, <3>2, <3>3
  <2>5. n.at # "NONE" => app[n.at].st # "none"
    BY <1>1, <2>2 DEF s
  <2> QED
    BY <2>1, <2>2, <2>3, <2>4, <2>5, CastMoves DEF AppInv
<1> QED
  BY <1>0, <1>1, <1>3, <1>4, <1>6, <1>7, <1>8, <1>c DEF s, v


LEMMA CastPutStep ==
  ASSUME AppInv, UNCHANGED uses, NEW t \in Casters, CastPut(t)
  PROVE  AppInv'
<1> DEFINE b == cast[t]
<1>1. /\ SoftcInv' /\ CastInv' /\ cast' = [cast EXCEPT ![t].pc = "next"]
      /\ b.at \in Apps /\ app[b.at].st # "none" /\ b.pc = "put"
      /\ \A x \in Apps \ {b.at} : app'[x] = app[x]
      /\ \A x \in Apps : Quietly(app[x], app'[x])
  BY CastPuts
<1>2. app'[b.at].cl = "out" /\ ~app'[b.at].lossy =>
        /\ ~app[b.at].lossy
        /\ app'[b.at].view = IF b.at = b.exclude THEN app[b.at].view
                             ELSE Noted(app[b.at].view, b.msg)
  BY CastPuts
<1>3. cds' = cds \/ /\ b.msg.type = CONNECT_IND /\ app[b.at].cl = "out"
                    /\ cds' = [cds EXCEPT ![b.msg.cd].count = @ + 1]
  BY CastPuts
<1>4. UNCHANGED <<uses, list, cntl, dch>>
  BY DEF CastPut
<1>5. \A x \in Apps : /\ SameLife(app[x], app'[x]) /\ app'[x].st = app[x].st
                      /\ app'[x].cl = app[x].cl /\ app'[x].io = app[x].io
  BY <1>1 DEF Quietly, SameLife
<1>d. CASE t = "drv"
  <2>1. cast'["cntl"] = cast["cntl"] /\ b.msg = OtherMsg
    BY <1>1, <1>d DEF AppInv, CastInv, Casters
  <2>2. cds' = cds /\ Noted(app[b.at].view, b.msg) = app[b.at].view
    BY <1>3, <2>1 DEF OtherMsg, CONNECT_IND, DISCONNECT_IND, Noted
  <2>3. \A x \in Apps : app'[x].cl = "out" /\ ~app'[x].lossy =>
                          app[x].cl = "out" /\ ~app[x].lossy /\ app'[x].view = app[x].view
    BY <1>1, <1>2, <1>5, <2>2
  <2> QED
    BY <1>1, <1>4, <1>5, <2>1, <2>2, <2>3, AsideStep
<1>c. CASE t = "cntl"
  <2>1. /\ cast'["cntl"].at = b.at /\ cast'["cntl"].pc = "next"
        /\ cast'["cntl"].exclude = b.exclude /\ cast'["cntl"].msg = b.msg
        /\ b = cast["cntl"] /\ b.at # "NONE"
    BY <1>1, <1>c, Names DEF AppInv, CastInv, Casters, Casts
  <2>2. /\ cntl.by # "free" /\ cntl.cd \in Calls /\ b.msg.cd = cntl.cd
        /\ \/ /\ cntl.then = "offered" /\ b.exclude = "NONE"
              /\ b.msg.type = CONNECT_IND /\ cds[cntl.cd].ai = "BROADCAST"
           \/ /\ cntl.then = "free" /\ b.exclude = "NONE"
              /\ b.msg.type = DISCONNECT_IND
           \/ /\ cntl.then \in {"accept", "reject"} /\ b.exclude = cntl.by
              /\ b.msg.type = DISCONNECT_IND /\ cds[cntl.cd].ai = cntl.by
    BY <2>1, Spoken
  <2>3. \A x, y : Before(x, y)' <=> Before(x, y)
    BY <1>4, OrderKept
  <2>4. ~Before(b.at, b.at)
    BY <1>1, AfterLemma DEF AppInv
  <2> HIDE DEF b
  <2>5. /\ cds' \in [Calls -> [ai : Owners, count : Nat]]
        /\ \A c \in Calls : cds'[c].ai = cds[c].ai
        /\ \A c \in Calls : cds'[c].count = cds[c].count
             \/ /\ c = cntl.cd /\ cntl.then = "offered" /\ app[b.at].cl = "out"
                /\ cds'[c].count = cds[c].count + 1
    <3>1. cds \in [Calls -> [ai : Owners, count : Nat]]
      BY DEF AppInv, OwnerInv
    <3>2. CASE cds' = cds
      BY <3>1, <3>2
    <3>3. CASE cds' # cds
      <4>1. /\ b.msg.type = CONNECT_IND /\ app[b.at].cl = "out"
            /\ cds' = [cds EXCEPT ![cntl.cd].count = @ + 1]
        BY <1>3, <2>2, <3>3 DEF b
      <4>2. cntl.then = "offered"
        BY <2>2, <4>1 DEF CONNECT_IND, DISCONNECT_IND
      <4>3. cds[cntl.cd].count + 1 \in Nat
        BY <2>2, <3>1
      <4> QED
        BY <2>2, <3>1, <4>1, <4>2, <4>3
    <3> QED
      BY <3>2, <3>3
  <2>6. OwnerInv'
    <3>1. ASSUME NEW c \in Calls, cds'[c].ai \in Apps
          PROVE  app'[cds'[c].ai].st = "open" /\ app'[cds'[c].ai].cl \in Early
      BY <1>5, <2>5, <3>1 DEF AppInv, OwnerInv
    <3> QED
      BY <1>4, <2>5, <3>1 DEF AppInv, OwnerInv, Used
  <2>7. LockInv'
    BY <1>4, <1>5, <2>1, <2>2, <2>5 DEF AppInv, LockInv
  <2>8. CountInv'
    <3>0. /\ Reached \subseteq Apps /\ IsFiniteSet(Apps)
          /\ IsFiniteSet(Reached) /\ Cardinality(Reached) \in Nat
      BY AppAssumption, FS_Subset, FS_CardinalityType DEF Reached
    <3>1. b.at \notin Reached
      BY <1>1, <2>1, <2>4 DEF Reached
    <3>2. Reached' = Reached \cup (IF app[b.at].cl \in Early THEN {b.at} ELSE {})
      BY <1>1, <1>5, <2>1, <2>3 DEF Reached
    <3>3. /\ Cardinality(Reached) <= Cardinality(Reached')
          /\ app[b.at].cl = "out" => Cardinality(Reached') = Cardinality(Reached) + 1
      <4>1. "out" \in Early
        BY DEF Early
      <4>2. Cardinality(Reached \cup {b.at}) = Cardinality(Reached) + 1
        BY <3>0, <3>1, FS_AddElement
      <4> QED
        BY <3>0, <3>2, <4>1, <4>2
    <3>4. Reached' \subseteq Apps /\ Cardinality(Reached') <= Cardinality(Apps)
          /\ Cardinality(Reached') \in Nat /\ Cardinality(Apps) \in Nat
      <4>1. Reached' \subseteq Apps
        BY DEF Reached
      <4> QED
        BY <3>0, <4>1, FS_Subset, FS_CardinalityType
    <3>5. \A c \in Calls : cds[c].count \in Nat /\ cds[c].count <= Cardinality(Apps)
      BY DEF AppInv, OwnerInv, CountInv
    <3>6. cntl.then = "offered" => cds'[cntl.cd].count <= Cardinality(Reached')
      <4>1. ASSUME cntl.then = "offered" PROVE cds[cntl.cd].count <= Cardinality(Reached)
        BY <2>1, <4>1 DEF AppInv, CountInv
      <4> QED
        BY <2>2, <2>5, <3>0, <3>3, <3>4, <3>5, <4>1
    <3>7. \A c \in Calls : cds'[c].count <= Cardinality(Apps)
      <4>1. \A c \in Calls : cds'[c].count \in Nat
        BY <2>5
      <4> QED
        BY <2>2, <2>5, <3>4, <3>5, <3>6, <4>1
    <3> QED
      BY <1>4, <3>6, <3>7 DEF CountInv
  <2>9. ViewInv'
    <3>1. ASSUME NEW x \in Apps, x # b.at PROVE Ahead(x) <=> Ahead(x)'
      BY <2>1, <2>3, <3>1 DEF Ahead
    <3>2. ASSUME NEW x \in Apps, x # b.at, NEW c \in Calls, Rightly(x, c) PROVE Rightly(x, c)'
      BY <1>4, <2>5, <3>1, <3>2 DEF Rightly
    <3>3. ASSUME NEW x \in Apps, x = b.at, app'[x].cl = "out", ~app'[x].lossy,
                 NEW c \in app'[x].view
          PROVE  Rightly(x, c)'
      <4>1. /\ ~app[x].lossy /\ app[x].cl = "out" /\ app[x].st # "none"
            /\ app'[x].view = IF x = b.exclude THEN app[x].view
                                 ELSE Noted(app[x].view, b.msg)
        BY <1>1, <1>2, <1>5, <3>3 DEF b
      <4>2. c \in app[x].view => Rightly(x, c) /\ c \in Calls
        BY <4>1 DEF AppInv, ViewInv, SoftcInv, Softcs
      <4>3. x # "NONE"
        BY <2>1, <3>3
      <4>4. CASE cntl.then = "offered"
        <5>1. c = cntl.cd \/ c \in app[x].view
          BY <2>2, <3>3, <4>1, <4>3, <4>4 DEF Noted, CONNECT_IND, DISCONNECT_IND
        <5> QED
          BY <1>4, <2>2, <2>5, <4>2, <4>4, <5>1 DEF Rightly
      <4>5. CASE cntl.then = "free"
        <5>1. c # cntl.cd /\ c \in app[x].view
          BY <2>2, <3>3, <4>1, <4>3, <4>5 DEF Noted, CONNECT_IND, DISCONNECT_IND
        <5> QED
          BY <1>4, <2>5, <4>2, <5>1 DEF Rightly
      <4>6. CASE cntl.then \in {"accept", "reject"}
        <5>1. c \in app[x].view /\ (x # cntl.by => c # cntl.cd)
          BY <2>2, <3>3, <4>1, <4>6 DEF Noted, CONNECT_IND, DISCONNECT_IND
        <5> QED
          BY <1>4, <2>2, <2>5, <4>2, <4>6, <5>1 DEF Rightly
      <4> QED
        BY <2>2, <4>4, <4>5, <4>6
    <3>4. ASSUME NEW x \in Apps, x # b.at, app'[x].st # "none", app'[x].cl = "out",
                 ~app'[x].lossy, NEW c \in app'[x].view
          PROVE  Rightly(x, c)'
      <4>1. app'[x] = app[x]
        BY <1>1, <3>4 DEF b
      <4>2. c \in Calls
        BY <3>4, <4>1 DEF AppInv, SoftcInv, Softcs
      <4> QED
        BY <3>2, <3>4, <4>1, <4>2 DEF AppInv, ViewInv
    <3> QED
      BY <3>3, <3>4 DEF ViewInv
  <2> QED
    BY <1>1, <1>4, <1>5, <2>6, <2>7, <2>8, <2>9, ListKept, DchKept DEF AppInv
<1> QED
  BY <1>c, <1>d DEF Casters
=============================================================================
