----------------------------- MODULE AppProofs ------------------------------
(***************************************************************************)
(* Proofs about AppInterface, for every number of programs and of calls    *)
(* and every length of the queues: the steps of i4b_open, i4b_ioctl and    *)
(* i4b_close and those of the calls, and the theorems. The invariant and   *)
(* the other steps are those of AppLemmas.                                 *)
(***************************************************************************)
EXTENDS AppLemmas

\* The time that the provers may take for a step
USE ZenonT(3), SMTT(20), ZenonT(60)

-----------------------------------------------------------------------------
(* Calls, under the controller lock *)

\* With no broadcast under way a program knows of its calls and those that ring.
LEMMA Known ==
  ASSUME AppInv, cast["cntl"].at = "NONE", NEW a \in Apps, app[a].st # "none",
         app[a].cl = "out", ~app[a].lossy, NEW c \in app[a].view
  PROVE  /\ c \in Calls
         /\ \/ cds[c].ai = a
            \/ cds[c].ai = "BROADCAST" /\ ~(cntl.then = "free" /\ cntl.cd = c)
<1>1. c \in Calls
  BY DEF AppInv, SoftcInv, Softcs
<1>2. Rightly(a, c) /\ ~Ahead(a)
  BY DEF AppInv, ViewInv, Ahead
<1> QED
  BY <1>1, <1>2 DEF Rightly

\* An operation after which the controller lock is free
LEMMA EndsUnlocked ==
  ASSUME AppInv, cast["cntl"].at = "NONE", SoftcInv', OwnerInv', cast' = cast,
         cntl' = Unlocked, UNCHANGED <<uses, list, dch>>,
         \A b \in Apps : SameLife(app[b], app'[b]) /\ app'[b].refs = app[b].refs,
         \A c \in Calls : cds'[c].count <= Cardinality(Apps),
         \A b \in Apps : app'[b].st # "none" /\ app'[b].cl = "out" /\ ~app'[b].lossy
                           => \A c \in app'[b].view : cds'[c].ai \in {"BROADCAST", b}
  PROVE  AppInv'
<1>1. \A b \in Apps : app'[b].st = app[b].st
  BY DEF SameLife
<1>2. ListInv' /\ CastInv' /\ DchInv'
  BY <1>1, ListKept, CastKept, DchKept DEF AppInv
<1>3. LockInv' /\ CountInv'
  BY Names DEF LockInv, CountInv, Unlocked
<1>4. ViewInv'
  BY DEF ViewInv, Rightly, Unlocked
<1> QED
  BY <1>2, <1>3, <1>4 DEF AppInv

\* An operation that starts a broadcast and keeps the controller lock
LEMMA Announced ==
  ASSUME AppInv, cast["cntl"].at = "NONE", NEW ap, AsIf(ap), NEW who \in Apps \cup {"net"},
         who \in Apps => ap[who].io = "run", NEW c \in Calls,
         NEW th \in {"offered", "free", "accept", "reject"},
         NEW d \in [ai : Owners, count : Nat], d.count <= Cardinality(Apps), dch.up,
         th = "offered" => d.count = 0, th \in {"offered", "free"} => d.ai = "BROADCAST",
         th \in {"accept", "reject"} => who \in Apps /\ d.ai = who,
         CastStart("cntl", ap, IF th \in {"accept", "reject"} THEN who ELSE "NONE",
                   Msg(IF th = "offered" THEN CONNECT_IND ELSE DISCONNECT_IND, c)),
         cntl' = [by |-> who, then |-> th, cd |-> c], cds' = [cds EXCEPT ![c] = d],
         UNCHANGED <<uses, list, dch>>
  PROVE  AppInv'
<1> DEFINE e == IF th \in {"accept", "reject"} THEN who ELSE "NONE"
           m == Msg(IF th = "offered" THEN CONNECT_IND ELSE DISCONNECT_IND, c)
           b == cast'["cntl"]
<1>0. e \in Apps \cup {"NONE"} /\ m \in Messages /\ "cntl" \in Casters /\ "cntl" # "drv"
  BY DEF Messages, Casters
<1>s. CastStart("cntl", ap, e, m)
  OBVIOUS
<1> HIDE DEF e, m, b
<1>1. /\ SoftcInv' /\ CastInv' /\ \A x \in Apps : Referred(ap[x], app'[x])
      /\ b = IF First = "NONE" THEN NoCast
             ELSE [at |-> First, pc |-> "put", exclude |-> e, msg |-> m]
      /\ b.at = First
  <2>t. PICK t \in Casters : t = "cntl"
    BY <1>0
  <2>1. cast[t].at = "NONE" /\ CastStart(t, ap, e, m) /\ b = cast'[t] /\ t # "drv"
    BY <1>0, <1>s, <2>t DEF b
  <2> QED
    BY <1>0, <2>1, CastBegins
<1>2. First # "NONE" => b.pc = "put" /\ b.exclude = e /\ b.msg = m
  BY <1>1
<1>3. \A x \in Apps : /\ SameLife(app[x], app'[x]) /\ app'[x].st = app[x].st
                      /\ app'[x].io = ap[x].io
                      /\ app'[x].view = app[x].view /\ app'[x].lossy = app[x].lossy
                      /\ app'[x].cl = "out" => app[x].cl = "out"
  BY <1>1 DEF AsIf, Locally, Referred, SameLife
<1>4. /\ cds \in [Calls -> [ai : Owners, count : Nat]]
      /\ cds' \in [Calls -> [ai : Owners, count : Nat]] /\ cds'[c] = d
      /\ \A x \in Calls : x # c => cds'[x] = cds[x]
  BY DEF AppInv, OwnerInv
<1>5. OwnerInv'
  <2>1. ASSUME NEW x \in Calls, cds'[x].ai \in Apps
        PROVE  app'[cds'[x].ai].st = "open" /\ app'[cds'[x].ai].cl \in Early
    <3>1. ASSUME NEW a \in Apps, app[a].st = "open", app[a].cl \in Early
          PROVE  app'[a].st = "open" /\ app'[a].cl \in Early
      BY <1>3, <3>1 DEF SameLife, Early
    <3>2. CASE x # c
      BY <1>4, <2>1, <3>1, <3>2 DEF AppInv, OwnerInv
    <3>3. CASE x = c
      <4>1. who \in Apps /\ d.ai = who
        BY <1>4, <2>1, <3>3, Names
      <4>2. ap[who] \in Softcs /\ Consistent(ap[who]) /\ ap[who].io = "run"
            /\ Referred(ap[who], app'[who])
        BY <1>1, <4>1 DEF AsIf, Locally
      <4>3. ap[who].st = "open" /\ ap[who].cl \in Early
        <5>1. ap[who].st \in {"none", "opening", "open"} /\ NewSoftc.io = "out"
          BY <4>2 DEF Softcs, NewSoftc
        <5> QED
          BY <4>2, <5>1 DEF Consistent, Early
      <4>4. app'[who].st = "open" /\ app'[who].cl \in Early
        BY <4>2, <4>3 DEF Referred
      <4> QED
        BY <1>4, <3>3, <4>1, <4>4
    <3> QED
      BY <3>2, <3>3
  <2> QED
    BY <1>4, <2>1 DEF OwnerInv, Used, AppInv
<1>6. LockInv'
  <2>1. /\ cntl'.by = who /\ cntl'.then = th /\ cntl'.cd = c
        /\ cntl' \in [by : Apps \cup {"free", "net"}, cd : Calls \cup {"NONE"},
                      then : {"none", "offered", "free", "accept", "reject"}]
    OBVIOUS
  <2>2. who # "free" /\ (who \in Apps => app'[who].io = "run")
    BY <1>3, Names
  <2>3. th # "none" /\ d.ai = IF th \in {"offered", "free"} THEN "BROADCAST" ELSE who
    OBVIOUS
  <2> QED
    BY <1>1, <1>2, <1>4, <2>1, <2>2, <2>3 DEF LockInv, b, e, m
<1>7. CountInv'
  <2>1. \A x \in Calls : cds'[x].count <= Cardinality(Apps)
    BY <1>4 DEF AppInv, CountInv
  <2>2. IsFiniteSet(Reached') /\ 0 <= Cardinality(Reached')
    <3>1. Reached' \subseteq Apps
      BY DEF Reached
    <3> QED
      BY <3>1, AppAssumption, FS_Subset, FS_CardinalityType
  <2> QED
    BY <1>4, <2>1, <2>2 DEF CountInv
<1>8. ViewInv'
  <2>1. ASSUME NEW a \in Apps, app'[a].st # "none", app'[a].cl = "out", ~app'[a].lossy,
               NEW x \in app'[a].view
        PROVE  Rightly(a, x)'
    <3>1. app[a].st # "none" /\ app[a].cl = "out" /\ ~app[a].lossy /\ x \in app[a].view
      BY <1>3, <2>1
    <3>2. x \in Calls /\ cds[x].ai \in {a, "BROADCAST"}
      BY <3>1, Known
    <3>3. CASE x # c
      BY <1>4, <3>2, <3>3 DEF Rightly
    <3>4. CASE x = c
      <4>1. First # "NONE" /\ (a = First \/ Before(First, a))
        BY <3>1, FirstLemma DEF AppInv
      <4>2. Before(First, a) => Before(cast["cntl"].at, a)'
        BY <1>1 DEF Before, b
      <4>3. Ahead(a)'
        BY <1>1, <1>2, <4>1, <4>2 DEF Ahead, b
      <4> QED
        BY <1>4, <3>4, <4>3 DEF Rightly
    <3> QED
      BY <3>3, <3>4
  <2> QED
    BY <2>1 DEF ViewInv
<1> QED
  BY <1>1, <1>3, <1>5, <1>6, <1>7, <1>8, ListKept, DchKept DEF AppInv


\* n_free_cd, by the holder of the lock or one who takes it
LEMMA ReleaseStep ==
  ASSUME AppInv, cast["cntl"].at = "NONE", NEW ap, AsIf(ap), NEW who \in Apps \cup {"net"},
         who \in Apps => ap[who].io = "run", NEW c \in Calls, Used(c),
         Release(who, ap, c), UNCHANGED <<uses, list, dch>>
  PROVE  AppInv'
<1>0. /\ cds \in [Calls -> [ai : Owners, count : Nat]]
      /\ \A x \in Calls : cds[x].count <= Cardinality(Apps)
      /\ dch.up /\ cds[c].ai \in Apps \cup {"BROADCAST"}
  BY DEF AppInv, OwnerInv, CountInv, Used, Owners
<1>1. CASE cds[c].ai = "BROADCAST"
  <2>t. PICK th \in {"free"} : th = "free"
    OBVIOUS
  <2>d. PICK d \in [ai : Owners, count : Nat] : d = cds[c]
    BY <1>0
  <2>1. /\ CastStart("cntl", ap, "NONE", Msg(DISCONNECT_IND, c))
        /\ cntl' = [by |-> who, then |-> th, cd |-> c] /\ cds' = cds
    BY <1>1, <2>t DEF Release
  <2>2. CastStart("cntl", ap, IF th \in {"accept", "reject"} THEN who ELSE "NONE",
                   Msg(IF th = "offered" THEN CONNECT_IND ELSE DISCONNECT_IND, c))
    BY <2>t, <2>1
  <2>3. cds' = [cds EXCEPT ![c] = d]
    BY <1>0, <2>1, <2>d
  <2>4. d.ai = "BROADCAST" /\ d.count <= Cardinality(Apps)
    BY <1>0, <1>1, <2>d
  <2>5. /\ th \in {"offered", "free", "accept", "reject"}
        /\ th # "offered" /\ th \notin {"accept", "reject"}
    BY <2>t
  <2> QED
    BY ZenonT(60), <1>0, <2>1, <2>2, <2>3, <2>4, <2>5, Announced
<1>2. CASE cds[c].ai # "BROADCAST"
  <2> DEFINE o == cds[c].ai
             m == Msg(DISCONNECT_IND, c)
             v == ap[o].view \ {c}
             r == PutMessages(ap[o], 1, v)
  <2>1. /\ o \in Apps /\ app' = [ap EXCEPT ![o] = PutQueue(ap[o], m)]
        /\ cds' = [cds EXCEPT ![c] = FreeCd] /\ cntl' = Unlocked /\ cast' = cast
    BY <1>0, <1>2 DEF Release
  <2>2. PutQueue(ap[o], m) = r
    BY DEF PutQueue, Noted, Msg, CONNECT_IND, DISCONNECT_IND
  <2>3. \A b \in Apps : /\ ap[b] \in Softcs /\ Consistent(ap[b]) /\ SameLife(app[b], ap[b])
                        /\ ap[b].refs = app[b].refs /\ ap[b].view = app[b].view
                        /\ ap[b].lossy = app[b].lossy /\ ap[b].st = app[b].st
                        /\ ap[b].cl = "out" => app[b].cl = "out"
    BY DEF AsIf, Locally, SameLife
  <2>4. v \in SUBSET Calls /\ ap[o].st # "none" /\ 1 \in Nat /\ 1 # 0
    BY <2>1, <2>3 DEF Softcs, AppInv, OwnerInv
  <2>a. app' = [ap EXCEPT ![o] = r]
    BY <2>1, <2>2
  <2> HIDE DEF v, r, o
  <2>5. /\ r \in Softcs /\ Consistent(r) /\ Quietly(ap[o], r)
        /\ ~r.lossy => ~ap[o].lossy
        /\ ap[o].cl = "out" => r.view = v
    BY <2>1, <2>3, <2>4, PutFields DEF r
  <2>6. /\ app' \in [Apps -> Softcs] /\ app'[o] = r
        /\ \A b \in Apps : b # o => app'[b] = ap[b]
    BY <2>1, <2>5, <2>a DEF AsIf
  <2>7. SoftcInv'
    BY <2>3, <2>5, <2>6 DEF SoftcInv
  <2>8. \A b \in Apps : /\ SameLife(app[b], app'[b]) /\ app'[b].refs = app[b].refs
                        /\ app'[b].st = app[b].st /\ (app'[b].cl = "out" => app[b].cl = "out")
                        /\ ~app'[b].lossy => ~app[b].lossy
    <3>1. ASSUME NEW b \in Apps, b # o
          PROVE  /\ SameLife(app[b], app'[b]) /\ app'[b].refs = app[b].refs
                 /\ app'[b].st = app[b].st /\ (app'[b].cl = "out" => app[b].cl = "out")
                 /\ ~app'[b].lossy => ~app[b].lossy
      BY <2>3, <2>6, <3>1
    <3>2. /\ SameLife(app[o], r) /\ r.refs = app[o].refs
          /\ r.st = app[o].st /\ (r.cl = "out" => app[o].cl = "out")
          /\ ~r.lossy => ~app[o].lossy
      BY <2>1, <2>3, <2>5 DEF Quietly, SameLife
    <3> QED
      BY <2>6, <3>1, <3>2
  <2>9. /\ cds' \in [Calls -> [ai : Owners, count : Nat]] /\ cds'[c] = FreeCd
        /\ \A x \in Calls : x # c => cds'[x] = cds[x]
    BY <1>0, <2>1 DEF FreeCd, Owners
  <2>10. OwnerInv'
    <3>1. ASSUME NEW x \in Calls, cds'[x].ai \in Apps
          PROVE  app'[cds'[x].ai].st = "open" /\ app'[cds'[x].ai].cl \in Early
      <4>1. x # c /\ cds'[x] = cds[x]
        BY <2>9, <3>1, Names DEF FreeCd
      <4> QED
        BY <2>8, <3>1, <4>1 DEF AppInv, OwnerInv, SameLife, Early
    <3>2. dch'.up
      BY <1>0
    <3> QED
      BY <2>9, <3>1, <3>2 DEF OwnerInv
  <2>11. \A x \in Calls : cds'[x].count <= Cardinality(Apps)
    <3>1. 0 <= Cardinality(Apps) /\ FreeCd.count = 0
      BY AppAssumption, FS_CardinalityType DEF FreeCd
    <3> QED
      BY <1>0, <2>9, <3>1
  <2>12. ASSUME NEW b \in Apps, app'[b].st # "none", app'[b].cl = "out", ~app'[b].lossy,
                NEW x \in app'[b].view
         PROVE  cds'[x].ai \in {"BROADCAST", b}
    <3>1. app[b].st # "none" /\ app[b].cl = "out" /\ ~app[b].lossy
      BY <2>8, <2>12
    <3>2. x \in app[b].view /\ (b = o => x # c)
      <4>1. CASE b # o
        BY <2>3, <2>6, <2>12, <4>1
      <4>2. CASE b = o
        <5>1. ap[o].cl = "out" /\ r.view = v /\ v = app[o].view \ {c}
          BY <2>1, <2>3, <2>5, <2>6, <2>12, <4>2 DEF Quietly, v
        <5> QED
          BY <2>6, <2>12, <4>2, <5>1
      <4> QED
        BY <4>1, <4>2
    <3>3. x \in Calls /\ cds[x].ai \in {b, "BROADCAST"}
      BY <3>1, <3>2, Known
    <3>4. x # c
      BY <1>2, <3>2, <3>3 DEF o
    <3> QED
      BY <2>9, <3>3, <3>4
  <2> QED
    BY <2>1, <2>7, <2>8, <2>10, <2>11, <2>12, EndsUnlocked
<1> QED
  BY <1>1, <1>2


LEMMA AsIfApp ==
  ASSUME AppInv
  PROVE  AsIf(app)
BY DEF AsIf, Locally, AppInv, SoftcInv, SameLife

LEMMA IncomingCallStep ==
  ASSUME AppInv, UNCHANGED uses, NEW c \in Calls, IncomingCall(c)
  PROVE  AppInv'
<1>1. PICK th \in {"offered", "free", "accept", "reject"} : th = "offered"
  OBVIOUS
<1>2. PICK who \in Apps \cup {"net"} : who = "net"
  OBVIOUS
<1>3. PICK d \in [ai : Owners, count : Nat] : d = [ai |-> "BROADCAST", count |-> 0]
  BY DEF Owners
<1>4. /\ dch.up /\ cntl.by = "free" /\ cds' = [cds EXCEPT ![c] = d]
      /\ cntl' = [by |-> who, then |-> th, cd |-> c]
      /\ CastStart("cntl", app, "NONE", Msg(CONNECT_IND, c)) /\ UNCHANGED <<uses, list, dch>>
  BY <1>1, <1>2, <1>3 DEF IncomingCall
<1>5. cast["cntl"].at = "NONE"
  BY <1>4 DEF AppInv, LockInv
<1>6. CastStart("cntl", app, IF th \in {"accept", "reject"} THEN who ELSE "NONE",
                Msg(IF th = "offered" THEN CONNECT_IND ELSE DISCONNECT_IND, c))
  BY <1>1, <1>4
<1>7. d.ai = "BROADCAST" /\ d.count = 0 /\ d.count <= Cardinality(Apps)
  BY <1>3, AppAssumption, FS_CardinalityType
<1>8. who \notin Apps /\ th \notin {"accept", "reject"}
  BY <1>1, <1>2, Names
<1> QED
  BY ZenonT(60), <1>4, <1>5, <1>6, <1>7, <1>8, AsIfApp, Announced

LEMMA RemoteReleaseStep ==
  ASSUME AppInv, UNCHANGED uses, NEW c \in Calls, RemoteRelease(c)
  PROVE  AppInv'
<1>1. PICK who \in Apps \cup {"net"} : who = "net"
  OBVIOUS
<1>2. Used(c) /\ Release(who, app, c) /\ UNCHANGED <<uses, list, dch>>
  BY <1>1 DEF RemoteRelease
<1>3. cast["cntl"].at = "NONE" /\ who \notin Apps
  BY <1>1, Names DEF RemoteRelease, AppInv, LockInv
<1> QED
  BY <1>2, <1>3, AsIfApp, ReleaseStep

\* The lock is given back and nothing else happens, except that a call may be freed.
LEMMA LockReturned ==
  ASSUME AppInv, cast["cntl"].at = "NONE", app' = app, cast' = cast, cntl' = Unlocked,
         cntl.then = "free" => cds' = [cds EXCEPT ![cntl.cd] = FreeCd],
         cntl.then # "free" => cds' = cds, cntl.by # "free",
         UNCHANGED <<uses, list, dch>>
  PROVE  AppInv'
<1>1. SoftcInv' /\ \A b \in Apps : SameLife(app[b], app'[b]) /\ app'[b].refs = app[b].refs
  BY DEF AppInv, SoftcInv, SameLife
<1>2. cds \in [Calls -> [ai : Owners, count : Nat]] /\ cntl.cd \in Calls
  BY DEF AppInv, OwnerInv, LockInv
<1>3. \A c \in Calls : cds'[c] = IF cntl.then = "free" /\ c = cntl.cd THEN FreeCd ELSE cds[c]
  BY <1>2
<1>4. cds' \in [Calls -> [ai : Owners, count : Nat]]
  BY <1>2 DEF FreeCd, Owners
<1>5. OwnerInv'
  <2>1. ASSUME NEW x \in Calls, cds'[x].ai \in Apps
        PROVE  app'[cds'[x].ai].st = "open" /\ app'[cds'[x].ai].cl \in Early
    <3>1. cds'[x] = cds[x]
      BY <1>3, <2>1, Names DEF FreeCd
    <3> QED
      BY <2>1, <3>1 DEF AppInv, OwnerInv
  <2>2. ASSUME NEW x \in Calls, Used(x)' PROVE dch'.up
    <3>1. cds'[x] = cds[x]
      BY <1>3, <2>2 DEF FreeCd, Used
    <3> QED
      BY <2>2, <3>1 DEF AppInv, OwnerInv, Used
  <2> QED
    BY <1>4, <2>1, <2>2 DEF OwnerInv
<1>6. \A x \in Calls : cds'[x].count <= Cardinality(Apps)
  <2>1. 0 <= Cardinality(Apps) /\ FreeCd.count = 0
    BY AppAssumption, FS_CardinalityType DEF FreeCd
  <2> QED
    BY <1>3, <2>1 DEF AppInv, CountInv
<1>7. ASSUME NEW b \in Apps, app'[b].st # "none", app'[b].cl = "out", ~app'[b].lossy,
             NEW x \in app'[b].view
      PROVE  cds'[x].ai \in {"BROADCAST", b}
  <2>1. x \in Calls /\ \/ cds[x].ai = b
                       \/ cds[x].ai = "BROADCAST" /\ ~(cntl.then = "free" /\ cntl.cd = x)
    BY <1>7, Known
  <2>2. cntl.then = "free" => cds[cntl.cd].ai = "BROADCAST"
    BY DEF AppInv, LockInv
  <2> QED
    BY <1>3, <2>1, <2>2, Names
<1> QED
  BY <1>1, <1>5, <1>6, <1>7, EndsUnlocked

LEMMA LockHolderStep ==
  ASSUME AppInv, UNCHANGED uses, LockHolder
  PROVE  AppInv'
<1>0. /\ cntl.by # "free" /\ cast["cntl"].at = "NONE" /\ UNCHANGED <<uses, list, dch>>
      /\ cntl.by \in Apps \cup {"net"} /\ cntl.cd \in Calls
      /\ cntl.by \in Apps => app[cntl.by].io = "run"
      /\ Used(cntl.cd)
  <2>1. /\ cntl.by # "free" /\ cast["cntl"].at = "NONE" /\ UNCHANGED <<uses, list, dch>>
    BY DEF LockHolder, Offered, Freed, Responded, Holding
  <2>2. /\ cntl.by \in Apps \cup {"net"} /\ cntl.cd \in Calls
        /\ cntl.by \in Apps => app[cntl.by].io = "run"
    BY <2>1 DEF AppInv, LockInv
  <2>3. Used(cntl.cd)
    BY <2>1, Names DEF AppInv, LockInv, Used
  <2> QED
    BY <2>1, <2>2, <2>3
<1>r. ASSUME Release(cntl.by, app, cntl.cd) PROVE AppInv'
  BY <1>0, <1>r, AsIfApp, ReleaseStep
<1>1. CASE Offered
  <2>1. CASE cds[cntl.cd].count = 0
    BY <1>1, <1>r, <2>1 DEF Offered
  <2>2. CASE cds[cntl.cd].count # 0
    <3>1. app' = app /\ cds' = cds /\ cast' = cast /\ cntl' = Unlocked /\ cntl.then # "free"
      BY <1>1, <2>2 DEF Offered, Holding
    <3> QED
      BY <1>0, <3>1, LockReturned
  <2> QED
    BY <2>1, <2>2
<1>2. CASE Freed
  <2>1. /\ cntl.then = "free" /\ cds' = [cds EXCEPT ![cntl.cd] = FreeCd] /\ cntl' = Unlocked
        /\ app' = app /\ cast' = cast
    BY <1>2 DEF Freed, Holding
  <2> QED
    BY <1>0, <2>1, LockReturned
<1>3. CASE Responded
  <2>1. CASE Holding("accept") /\ cntl' = Unlocked /\ UNCHANGED <<app, cds, cast>>
    <3>1. app' = app /\ cds' = cds /\ cast' = cast /\ cntl' = Unlocked /\ cntl.then # "free"
      BY <2>1 DEF Holding
    <3> QED
      BY <1>0, <3>1, LockReturned
  <2>2. CASE Holding("reject") /\ Release(cntl.by, app, cntl.cd)
    BY <1>r, <2>2
  <2> QED
    BY <1>3, <2>1, <2>2 DEF Responded
<1> QED
  BY <1>1, <1>2, <1>3 DEF LockHolder


-----------------------------------------------------------------------------
(* i4b_ioctl, once it has the controller lock *)

LEMMA EnteredFields ==
  ASSUME AppInv, NEW a \in Apps, app[a].io = "cntl"
  PROVE  /\ AsIf(Entered(a)) /\ Entered(a)[a].io = "run"
         /\ \A b \in Apps : b # a => Entered(a)[b] = app[b]
         /\ Entered(a)[a].st = "open" /\ Entered(a)[a].cl \in Early
<1> DEFINE s == app[a]
           r == [s EXCEPT !.io = "run"]
<1>1. s \in Softcs /\ Consistent(s) /\ app \in [Apps -> Softcs]
      /\ \A b \in Apps : Consistent(app[b])
  BY DEF AppInv, SoftcInv
<1>2. Entered(a) = [app EXCEPT ![a] = r]
  BY DEF Entered
<1>3. /\ r \in Softcs /\ r.io = "run" /\ r.st = s.st /\ r.cl = s.cl /\ r.refs = s.refs
      /\ r.view = s.view /\ r.lossy = s.lossy /\ r.flags = s.flags /\ r.q = s.q
      /\ r.rd = s.rd /\ r.poll = s.poll
  BY <1>1 DEF Softcs
<1>4. s.st \in {"none", "opening", "open"} /\ NewSoftc.io = "out"
  BY <1>1 DEF Softcs, NewSoftc
<1>5. s.st = "open" /\ s.cl \in Early
  BY <1>1, <1>4 DEF Consistent, Early
<1> HIDE DEF r
<1>6. Consistent(r)
  BY <1>1, <1>3, <1>5 DEF Consistent
<1>7. Entered(a)[a] = r /\ (\A b \in Apps : b # a => Entered(a)[b] = app[b])
      /\ Entered(a) \in [Apps -> Softcs]
  BY <1>1, <1>2, <1>3
<1>8. ASSUME NEW b \in Apps PROVE Locally(app[b], Entered(a)[b])
  <2>1. CASE b = a
    BY <1>3, <1>6, <1>7, <2>1 DEF Locally, SameLife
  <2>2. CASE b # a
    BY <1>1, <1>7, <2>2 DEF Locally, SameLife
  <2> QED
    BY <2>1, <2>2
<1> QED
  BY <1>3, <1>5, <1>7, <1>8 DEF AsIf

\* A command that starts no broadcast: r is the softc of its program afterwards, and d
\* the call it is about.
LEMMA CommandDone ==
  ASSUME AppInv, NEW a \in Apps, app[a].io = "cntl", cntl.by = "free",
         NEW r \in Softcs, Consistent(r), Quietly(Entered(a)[a], r), ~r.lossy => ~app[a].lossy,
         app' = [Entered(a) EXCEPT ![a] = r],
         NEW c \in Calls, NEW d \in [ai : Owners, count : Nat], d.count <= Cardinality(Apps),
         cds' = [cds EXCEPT ![c] = d], dch.up, d.ai \in Apps => d.ai = a,
         cds[c].ai \in {d.ai, "NONE"}, r.view \subseteq app[a].view \cup {c},
         d.ai \in {a, "BROADCAST"},
         UNCHANGED <<uses, list, cast, cntl, dch>>
  PROVE  AppInv'
<1> DEFINE ap == Entered(a)
<1>1. /\ AsIf(ap) /\ ap[a].st = "open" /\ ap[a].cl \in Early
      /\ \A b \in Apps : b # a => ap[b] = app[b]
  BY EnteredFields
<1>2. /\ cast["cntl"].at = "NONE" /\ cntl' = Unlocked
  BY DEF AppInv, LockInv
<1> HIDE DEF ap
<1>3. /\ ap \in [Apps -> Softcs]
      /\ \A b \in Apps : /\ ap[b] \in Softcs /\ Consistent(ap[b]) /\ SameLife(app[b], ap[b])
                         /\ ap[b].refs = app[b].refs /\ ap[b].view = app[b].view
                         /\ ap[b].lossy = app[b].lossy /\ ap[b].st = app[b].st
                         /\ ap[b].cl = "out" => app[b].cl = "out"
  BY <1>1 DEF AsIf, Locally, SameLife
<1>4. /\ app' \in [Apps -> Softcs] /\ app'[a] = r
      /\ \A b \in Apps : b # a => app'[b] = app[b]
  BY <1>1, <1>3 DEF ap
<1>5. SoftcInv'
  BY <1>4 DEF SoftcInv, AppInv
<1>6. /\ SameLife(app[a], r) /\ r.refs = app[a].refs /\ r.st = app[a].st
      /\ (r.cl = "out" => app[a].cl = "out") /\ r.st = "open" /\ r.cl \in Early
  BY <1>1, <1>3 DEF Quietly, SameLife, ap
<1>s. \A b \in Apps : SameLife(app[b], app[b])
  BY DEF SameLife
<1>7. \A b \in Apps : SameLife(app[b], app'[b]) /\ app'[b].refs = app[b].refs
  BY <1>4, <1>6, <1>s
<1>8. /\ cds \in [Calls -> [ai : Owners, count : Nat]]
      /\ cds' \in [Calls -> [ai : Owners, count : Nat]] /\ cds'[c] = d
      /\ \A x \in Calls : x # c => cds'[x] = cds[x]
  BY DEF AppInv, OwnerInv
<1>9. OwnerInv'
  <2>1. ASSUME NEW x \in Calls, cds'[x].ai \in Apps
        PROVE  app'[cds'[x].ai].st = "open" /\ app'[cds'[x].ai].cl \in Early
    <3>1. CASE x = c
      BY <1>4, <1>6, <1>8, <2>1, <3>1
    <3>2. CASE x # c
      <4>1. cds'[x] = cds[x]
        BY <1>8, <3>2
      <4>2. app[cds[x].ai].st = "open" /\ app[cds[x].ai].cl \in Early
        BY <2>1, <4>1 DEF AppInv, OwnerInv
      <4> QED
        BY <1>4, <1>6, <2>1, <4>1, <4>2
    <3> QED
      BY <3>1, <3>2
  <2> QED
    BY <1>8, <2>1 DEF OwnerInv
<1>10. \A x \in Calls : cds'[x].count <= Cardinality(Apps)
  BY <1>8 DEF AppInv, CountInv
<1>11. ASSUME NEW b \in Apps, app'[b].st # "none", app'[b].cl = "out", ~app'[b].lossy,
              NEW x \in app'[b].view
       PROVE  cds'[x].ai \in {"BROADCAST", b}
  <2>1. app[b].st # "none" /\ app[b].cl = "out" /\ ~app[b].lossy
    BY <1>4, <1>6, <1>11
  <2>2. CASE b = a /\ x = c
    BY <1>8, <2>2
  <2>3. CASE ~(b = a /\ x = c)
    <3>1. x \in app[b].view
      BY <1>4, <1>11, <2>3
    <3>2. x \in Calls /\ cds[x].ai \in {b, "BROADCAST"}
      BY <1>2, <2>1, <3>1, Known
    <3>3. x = c => cds'[x].ai = cds[x].ai
      BY <1>8, <3>2, Names
    <3> QED
      BY <1>8, <3>2, <3>3
  <2> QED
    BY <2>2, <2>3
<1> QED
  BY <1>2, <1>5, <1>7, <1>9, <1>10, <1>11, EndsUnlocked

LEMMA CdidReqStep ==
  ASSUME AppInv, NEW a \in Apps, app[a].io = "cntl", cntl.by = "free", CdidReq(a),
         UNCHANGED <<uses, list, dch>>
  PROVE  AppInv'
<1>1. PICK c \in Calls :
        /\ dch.up /\ ~Used(c) /\ cds' = [cds EXCEPT ![c] = [ai |-> a, count |-> 0]]
        /\ app' = [Entered(a) EXCEPT ![a].view = @ \cup {c}] /\ UNCHANGED <<cast, cntl>>
  BY DEF CdidReq
<1> DEFINE s == Entered(a)[a]
           r == [s EXCEPT !.view = s.view \cup {c}]
<1>2. PICK d \in [ai : Owners, count : Nat] : d = [ai |-> a, count |-> 0]
  BY DEF Owners
<1>3. /\ s \in Softcs /\ Consistent(s)
      /\ s.view = app[a].view /\ s.lossy = app[a].lossy /\ s.st = "open"
  BY EnteredFields DEF AsIf, Locally
<1>4. app' = [Entered(a) EXCEPT ![a] = r]
  BY <1>1
<1> HIDE DEF s
<1>5. /\ r \in Softcs /\ r.io = s.io /\ r.st = s.st /\ r.cl = s.cl /\ r.refs = s.refs
      /\ r.view = s.view \cup {c} /\ r.lossy = s.lossy /\ r.flags = s.flags /\ r.q = s.q
      /\ r.rd = s.rd /\ r.poll = s.poll
  BY <1>3 DEF Softcs
<1> HIDE DEF r
<1>6. Consistent(r) /\ Quietly(s, r)
  BY <1>3, <1>5 DEF Consistent, Quietly
<1>7. d.ai = a /\ d.count <= Cardinality(Apps) /\ cds[c].ai = "NONE"
  BY <1>1, <1>2, AppAssumption, FS_CardinalityType DEF Used
<1> QED
  BY <1>1, <1>2, <1>3, <1>4, <1>5, <1>6, <1>7, CommandDone DEF s


LEMMA ConnectRespStep ==
  ASSUME AppInv, NEW a \in Apps, app[a].io = "cntl", cntl.by = "free", NEW c \in Calls,
         MayUse(a, c), NEW response \in {"accept", "reject"}, ConnectResp(a, c, response),
         UNCHANGED <<uses, list, dch>>
  PROVE  AppInv'
<1>1. /\ cast["cntl"].at = "NONE" /\ dch.up /\ Used(c)
      /\ cds \in [Calls -> [ai : Owners, count : Nat]] /\ cds[c].count <= Cardinality(Apps)
  BY Names DEF AppInv, LockInv, MayUse, Used, OwnerInv, CountInv
<1>2. AsIf(Entered(a)) /\ Entered(a)[a].io = "run"
  BY EnteredFields
<1>3. CASE cds[c].ai = "BROADCAST"
  <2>d. PICK d \in [ai : Owners, count : Nat] : d = [ai |-> a, count |-> cds[c].count]
    BY <1>1 DEF Owners
  <2>1. /\ cds' = [cds EXCEPT ![c].ai = a]
        /\ CastStart("cntl", Entered(a), a, Msg(DISCONNECT_IND, c))
        /\ cntl' = [by |-> a, then |-> response, cd |-> c]
    BY <1>3 DEF ConnectResp
  <2>e. [cds[c] EXCEPT !.ai = a] = d
    BY <1>1, <2>d
  <2>2. cds' = [cds EXCEPT ![c] = d]
    BY <2>1, <2>e
  <2>w. PICK who \in Apps \cup {"net"} : who = a
    OBVIOUS
  <2>t. PICK th \in {"offered", "free", "accept", "reject"} : th = response
    OBVIOUS
  <2>p. PICK ap : ap = Entered(a)
    OBVIOUS
  <2>3. CastStart("cntl", ap, IF th \in {"accept", "reject"} THEN who ELSE "NONE",
                  Msg(IF th = "offered" THEN CONNECT_IND ELSE DISCONNECT_IND, c))
    BY <2>1, <2>w, <2>t, <2>p
  <2>4. d.ai = who /\ d.count <= Cardinality(Apps) /\ who \in Apps
    BY <1>1, <2>d, <2>w
  <2>5. th \notin {"offered", "free"} /\ cntl' = [by |-> who, then |-> th, cd |-> c]
    BY <2>1, <2>t, <2>w
  <2>6. AsIf(ap) /\ ap[who].io = "run"
    BY <1>2, <2>p, <2>w
  <2> QED
    BY ZenonT(60), <1>1, <2>2, <2>3, <2>4, <2>5, <2>6, Announced
<1>4. CASE cds[c].ai # "BROADCAST"
  <2>1. Release(a, Entered(a), c)
    BY <1>4 DEF ConnectResp
  <2> QED
    BY <1>1, <1>2, <2>1, ReleaseStep
<1> QED
  BY <1>3, <1>4

\* The softc of a program whose command did nothing to it
LEMMA EnteredOnly ==
  ASSUME AppInv, NEW a \in Apps, app[a].io = "cntl"
  PROVE  /\ Entered(a)[a] \in Softcs /\ Consistent(Entered(a)[a])
         /\ Quietly(Entered(a)[a], Entered(a)[a]) /\ Entered(a)[a].lossy = app[a].lossy
         /\ Entered(a)[a].view = app[a].view /\ Entered(a)[a].st = "open"
         /\ Entered(a) = [Entered(a) EXCEPT ![a] = Entered(a)[a]]
<1>1. AsIf(Entered(a)) /\ Entered(a)[a].st = "open"
  BY EnteredFields
<1>2. Entered(a) \in [Apps -> Softcs] /\ Locally(app[a], Entered(a)[a])
  BY <1>1 DEF AsIf
<1>3. Entered(a) = [Entered(a) EXCEPT ![a] = Entered(a)[a]]
  BY <1>2
<1> QED
  BY <1>1, <1>2, <1>3 DEF Locally, Quietly

LEMMA IgnoreStep ==
  ASSUME AppInv, NEW a \in Apps, app[a].io = "cntl", cntl.by = "free", NEW c \in Calls,
         MayUse(a, c), Ignore(a, c), UNCHANGED <<uses, list, dch>>
  PROVE  AppInv'
<1>1. /\ cast["cntl"].at = "NONE" /\ dch.up /\ Used(c) /\ cds[c].ai \in {a, "BROADCAST"}
      /\ cds \in [Calls -> [ai : Owners, count : Nat]] /\ cds[c].count <= Cardinality(Apps)
  BY Names DEF AppInv, LockInv, MayUse, Used, OwnerInv, CountInv
<1>3. CASE cds[c].count < 2
  <2>1. Release(a, Entered(a), c)
    BY <1>3 DEF Ignore
  <2> QED
    BY <1>1, <2>1, EnteredFields, ReleaseStep
<1>4. CASE ~(cds[c].count < 2)
  <2>1. /\ cds' = [cds EXCEPT ![c].count = @ - 1] /\ app' = Entered(a)
        /\ UNCHANGED <<cast, cntl>>
    BY <1>4 DEF Ignore
  <2>2. cds[c].count \in Nat /\ cds[c].count - 1 \in Nat /\ Cardinality(Apps) \in Nat
    BY <1>1, <1>4, AppAssumption, FS_CardinalityType
  <2>d. PICK d \in [ai : Owners, count : Nat] : d = [ai |-> cds[c].ai, count |-> cds[c].count - 1]
    BY <1>1, <2>2
  <2>e. [cds[c] EXCEPT !.count = @ - 1] = d
    BY <1>1, <2>2, <2>d
  <2>3. cds' = [cds EXCEPT ![c] = d]
    BY <2>1, <2>e
  <2>4. d.ai = cds[c].ai /\ d.count <= Cardinality(Apps)
    BY <1>1, <2>2, <2>d
  <2>5. /\ d.ai \in Apps => d.ai = a
        /\ d.ai \in {a, "BROADCAST"} /\ cds[c].ai \in {d.ai, "NONE"}
    BY <1>1, <2>4, Names
  <2>r. PICK r : r = Entered(a)[a]
    OBVIOUS
  <2>6. /\ r \in Softcs /\ Consistent(r) /\ Quietly(Entered(a)[a], r) /\ r.lossy = app[a].lossy
        /\ r.view \subseteq app[a].view \cup {c} /\ app' = [Entered(a) EXCEPT ![a] = r]
    BY <2>1, <2>r, EnteredOnly
  <2>7. UNCHANGED <<uses, list, cast, cntl, dch>> /\ (~r.lossy => ~app[a].lossy)
    BY <2>1, <2>6
  <2> QED
    BY ZenonT(60), <1>1, <2>3, <2>4, <2>5, <2>6, <2>7, CommandDone
<1> QED
  BY <1>3, <1>4

LEMMA ReplayStep ==
  ASSUME AppInv, NEW a \in Apps, app[a].io = "cntl", cntl.by = "free", NEW c \in Calls,
         MayUse(a, c), Replay(a, c), UNCHANGED <<uses, list, dch>>
  PROVE  AppInv'
<1> DEFINE s == Entered(a)[a]
           v == s.view \cup {c}
           r == PutMessages(s, 1, v)
<1>1. /\ dch.up /\ cds[c].ai = "BROADCAST" /\ UNCHANGED <<cds, cast, cntl>>
      /\ app' = [Entered(a) EXCEPT ![a] = PutQueue(s, Msg(CONNECT_IND, c))]
      /\ cds \in [Calls -> [ai : Owners, count : Nat]] /\ cds[c].count <= Cardinality(Apps)
  BY DEF Replay, MayUse, AppInv, OwnerInv, CountInv
<1>2. PutQueue(s, Msg(CONNECT_IND, c)) = r
  BY DEF PutQueue, Noted, Msg, CONNECT_IND, DISCONNECT_IND
<1>3. /\ s \in Softcs /\ Consistent(s)
      /\ s.lossy = app[a].lossy /\ s.view = app[a].view /\ s.st # "none"
  BY EnteredOnly
<1>4. v \in SUBSET Calls /\ 1 \in Nat /\ 1 # 0
  BY <1>3 DEF Softcs
<1> HIDE DEF s, v
<1>5. /\ r \in Softcs /\ Consistent(r) /\ Quietly(s, r)
      /\ ~r.lossy => ~s.lossy
      /\ s.cl = "out" => r.view = v
      /\ s.cl # "out" => r = s
  BY <1>3, <1>4, PutFields
<1> HIDE DEF r
<1>6. r.view \subseteq app[a].view \cup {c}
  BY <1>3, <1>5 DEF v
<1>d. PICK d \in [ai : Owners, count : Nat] : d = cds[c]
  BY <1>1
<1>7. /\ d.ai \notin Apps /\ d.ai \in {a, "BROADCAST"} /\ cds[c].ai \in {d.ai, "NONE"}
      /\ d.count <= Cardinality(Apps) /\ app' = [Entered(a) EXCEPT ![a] = r]
  BY <1>1, <1>2, <1>d, Names
<1>8. cds' = [cds EXCEPT ![c] = d]
  BY <1>1, <1>d
<1>9. /\ Quietly(Entered(a)[a], r) /\ (~r.lossy => ~app[a].lossy)
      /\ UNCHANGED <<uses, list, cast, cntl, dch>>
  BY <1>1, <1>3, <1>5 DEF s
<1>10. dch.up /\ r \in Softcs /\ Consistent(r)
  BY <1>1, <1>5
<1> QED
  BY <1>6, <1>7, <1>8, <1>9, <1>10, CommandDone

LEMMA IoctlRunStep ==
  ASSUME AppInv, UNCHANGED uses, NEW a \in Apps, IoctlRun(a)
  PROVE  AppInv'
<1>0. app[a].io = "cntl" /\ cntl.by = "free" /\ UNCHANGED <<uses, list, dch>>
  BY DEF IoctlRun
<1>1. CASE CdidReq(a)
  BY <1>0, <1>1, CdidReqStep
<1>2. ASSUME NEW c \in Calls, MayUse(a, c), Release(a, Entered(a), c) PROVE AppInv'
  <2>1. cast["cntl"].at = "NONE" /\ Used(c)
    BY <1>0, <1>2, Names DEF AppInv, LockInv, MayUse, Used
  <2> QED
    BY <1>0, <1>2, <2>1, EnteredFields, ReleaseStep
<1>3. CASE app' = Entered(a) /\ UNCHANGED <<cds, cast, cntl>>
  <2>1. Locally(app[a], Entered(a)[a]) /\ app' = [app EXCEPT ![a] = Entered(a)[a]]
    <3>1. Entered(a) = [app EXCEPT ![a] = [app[a] EXCEPT !.io = "run"]]
      BY DEF Entered
    <3>2. app \in [Apps -> Softcs]
      BY DEF AppInv, SoftcInv
    <3>3. Locally(app[a], Entered(a)[a])
      BY <1>0, EnteredFields DEF AsIf
    <3> QED
      BY <1>3, <3>1, <3>2, <3>3
  <2>2. cntl.by # a
    BY <1>0, Names
  <2> QED
    BY <1>0, <1>3, <2>1, <2>2, LocalStep
<1> QED
  BY <1>0, <1>1, <1>2, <1>3, ConnectRespStep, IgnoreStep, ReplayStep DEF IoctlRun


-----------------------------------------------------------------------------
(* i4b_open and i4b_ai_free_softc *)

LEMMA Appended ==
  ASSUME ListInv, NEW a \in Apps, app[a].st = "none", list' = Append(list, a)
  PROVE  /\ list' \in Seq(Apps) /\ DOMAIN list' = 1 .. Len(list) + 1 /\ Len(list) \in Nat
         /\ DOMAIN list = 1 .. Len(list)
         /\ \A i \in DOMAIN list : list'[i] = list[i] /\ list[i] # a
         /\ list'[Len(list) + 1] = a
BY DEF ListInv

\* A softc is linked at the end of the list.
LEMMA ListAppended ==
  ASSUME ListInv, NEW a \in Apps, app[a].st = "none", list' = Append(list, a),
         app'[a].st # "none", \A b \in Apps \ {a} : app'[b] = app[b]
  PROVE  /\ ListInv'
         /\ \A x, y \in Apps \ {a} : Before(x, y)' <=> Before(x, y)
         /\ \A y \in Apps \ {a} : ~Before(a, y)'
<1>1. /\ list' \in Seq(Apps) /\ DOMAIN list' = 1 .. Len(list) + 1 /\ Len(list) \in Nat
      /\ DOMAIN list = 1 .. Len(list)
      /\ \A i \in DOMAIN list : list'[i] = list[i] /\ list[i] # a
      /\ list'[Len(list) + 1] = a
  BY Appended
<1>2. \A i \in DOMAIN list' : i \in DOMAIN list \/ i = Len(list) + 1
  BY <1>1
<1>3. DOMAIN list \subseteq DOMAIN list' /\ Len(list) + 1 \in DOMAIN list'
  BY <1>1
<1>4. ListInv'
  <2>1. ASSUME NEW b \in Apps
        PROVE  app'[b].st # "none" <=> \E i \in DOMAIN list' : list'[i] = b
    <3>1. CASE b = a
      BY <1>1, <1>3, <3>1
    <3>2. CASE b # a
      <4>1. app[b].st # "none" <=> \E i \in DOMAIN list : list[i] = b
        BY DEF ListInv
      <4> QED
        BY <1>1, <1>2, <1>3, <3>2, <4>1
    <3> QED
      BY <3>1, <3>2
  <2>2. \A i, j \in DOMAIN list' : list'[i] = list'[j] => i = j
    BY <1>1, <1>2 DEF ListInv
  <2> QED
    BY <1>1, <2>1, <2>2 DEF ListInv
<1>5. ASSUME NEW x \in Apps \ {a}, NEW y \in Apps \ {a}
      PROVE  Before(x, y)' <=> Before(x, y)
  <2>1. \A i \in DOMAIN list' : list'[i] \in {x, y} => i \in DOMAIN list /\ list[i] = list'[i]
    BY <1>1, <1>2
  <2> QED
    BY <1>1, <1>3, <2>1 DEF Before
<1>6. ASSUME NEW y \in Apps \ {a} PROVE ~Before(a, y)'
  <2>1. SUFFICES ASSUME NEW i \in DOMAIN list', NEW j \in DOMAIN list', i < j,
                        list'[i] = a, list'[j] = y
                 PROVE  FALSE
    BY DEF Before
  <2>2. i = Len(list) + 1
    BY <1>1, <1>2, <2>1
  <2> QED
    BY <1>1, <2>1, <2>2
<1> QED
  BY <1>4, <1>5, <1>6

\* ... and unlinked from any place in it.
LEMMA ListCut ==
  ASSUME ListInv, NEW a \in Apps, app[a].st # "none",
         list' = SubSeq(list, 1, Place(a) - 1) \o SubSeq(list, Place(a) + 1, Len(list)),
         app'[a].st = "none", \A b \in Apps \ {a} : app'[b] = app[b]
  PROVE  /\ ListInv'
         /\ \A x, y \in Apps \ {a} : Before(x, y)' <=> Before(x, y)
<1> DEFINE p == Place(a)
           n == Len(list)
<1>1. /\ p \in 1 .. n /\ list[p] = a /\ DOMAIN list = 1 .. n /\ n \in Nat
      /\ list \in Seq(Apps)
      /\ \A i, j \in DOMAIN list : list[i] = list[j] => i = j
  BY PlaceLemma, ListRange DEF ListInv
<1>a. list' = SubSeq(list, 1, p - 1) \o SubSeq(list, p + 1, n)
  OBVIOUS
<1> HIDE DEF p, n
<1>2. /\ list' \in Seq(Apps) /\ DOMAIN list' = 1 .. n - 1
      /\ \A i \in 1 .. n - 1 : list'[i] = IF i < p THEN list[i] ELSE list[i + 1]
  <2> DEFINE l == SubSeq(list, 1, p - 1)
             r == SubSeq(list, p + 1, n)
  <2>0. p \in Nat /\ p >= 1 /\ p <= n /\ n = Len(list)
    BY <1>1 DEF n
  <2>1. /\ l \in Seq(Apps) /\ Len(l) = p - 1 /\ \A i \in 1 .. p - 1 : l[i] = list[i]
    BY <1>1, <2>0
  <2>2. /\ r \in Seq(Apps) /\ Len(r) = n - p /\ \A i \in 1 .. n - p : r[i] = list[i + p]
    <3>1. CASE p = n
      <4>1. r = <<>> /\ 1 .. n - p = {} /\ n - p = 0
        BY <1>1, <2>0, <3>1
      <4> HIDE DEF r
      <4> QED
        BY <4>1
    <3>2. CASE p < n
      <4>0. p + 1 <= n /\ p + 1 \in Nat /\ n \in Nat /\ 1 <= p + 1
        BY <1>1, <2>0, <3>2
      <4>a. r \in Seq(Apps)
        BY <1>1, <2>0, <4>0
      <4>b. Len(r) = n - (p + 1) + 1
        BY <1>1, <2>0, <4>0
      <4>1. r \in Seq(Apps) /\ Len(r) = n - (p + 1) + 1
        BY <4>a, <4>b
      <4>2. \A i \in 1 .. n - p : r[i] = list[(p + 1) + i - 1]
        <5>1. PICK m \in Nat : m = p + 1
          BY <4>0
        <5>2. r = SubSeq(list, m, n) /\ 1 <= m /\ m <= n /\ n = Len(list)
          BY <2>0, <4>0, <5>1
        <5> HIDE DEF r
        <5>3. \A i \in 1 .. n - m + 1 : r[i] = list[m + i - 1]
          BY <1>1, <5>2
        <5>4. n - m + 1 = n - p
          BY <2>0, <4>0, <5>1
        <5> QED
          BY <5>1, <5>3, <5>4
      <4>3. n - (p + 1) + 1 = n - p /\ \A i \in 1 .. n - p : (p + 1) + i - 1 = i + p
        BY <2>0
      <4> QED
        BY <4>1, <4>2, <4>3
    <3> QED
      BY <2>0, <3>1, <3>2
  <2> HIDE DEF l, r
  <2>3. l \o r \in Seq(Apps) /\ Len(l \o r) = n - 1
    BY <2>0, <2>1, <2>2
  <2>4. ASSUME NEW i \in 1 .. n - 1 PROVE (l \o r)[i] = IF i < p THEN list[i] ELSE list[i + 1]
    <3>1. CASE i < p
      BY <2>0, <2>1, <2>2, <3>1
    <3>2. CASE ~(i < p)
      <4>1. (l \o r)[i] = r[i - (p - 1)] /\ i - (p - 1) \in 1 .. n - p
        <5>1. i \in Nat /\ i > Len(l) /\ i <= Len(l) + Len(r)
          BY <2>0, <2>1, <2>2, <3>2
        <5>0. l \in Seq(Apps) /\ r \in Seq(Apps) /\ Len(l) \in Nat /\ Len(r) \in Nat
          BY <2>1, <2>2
        <5>2. (l \o r)[i] = r[i - Len(l)]
          <6>1. i \in 1 .. Len(l) + Len(r) /\ ~(i <= Len(l))
            BY <5>0, <5>1
          <6> QED
            BY <5>0, <6>1
        <5>3. i - (p - 1) \in 1 .. n - p
          BY <2>0, <3>2
        <5> QED
          BY <2>1, <5>2, <5>3
      <4>2. r[i - (p - 1)] = list[(i - (p - 1)) + p] /\ (i - (p - 1)) + p = i + 1
        BY <2>0, <2>2, <4>1
      <4> QED
        BY <3>2, <4>1, <4>2
    <3> QED
      BY <3>1, <3>2
  <2>5. list' = l \o r
    BY <1>a DEF l, r
  <2>6. DOMAIN (l \o r) = 1 .. n - 1
    BY <2>3
  <2> QED
    BY <2>3, <2>4, <2>5, <2>6
<1> DEFINE Old(i) == IF i < p THEN i ELSE i + 1
           New(i) == IF i < p THEN i ELSE i - 1
<1>3. ASSUME NEW i \in DOMAIN list'
      PROVE  Old(i) \in DOMAIN list /\ Old(i) # p /\ list'[i] = list[Old(i)]
  <2>1. i \in 1 .. n - 1 /\ list'[i] = IF i < p THEN list[i] ELSE list[i + 1]
    BY <1>2
  <2>2. CASE i < p
    <3>1. Old(i) = i /\ list'[i] = list[i]
      BY <2>1, <2>2
    <3>2. i \in 1 .. n /\ i # p
      BY <1>1, <2>1, <2>2
    <3> HIDE DEF Old
    <3> QED
      BY <1>1, <3>1, <3>2
  <2>3. CASE ~(i < p)
    <3>1. Old(i) = i + 1 /\ list'[i] = list[i + 1]
      BY <2>1, <2>3
    <3>2. i + 1 \in 1 .. n /\ i + 1 # p
      BY <1>1, <2>1, <2>3
    <3> HIDE DEF Old
    <3> QED
      BY <1>1, <3>1, <3>2
  <2> QED
    BY <2>2, <2>3
<1>4. \A i, j \in DOMAIN list' : (i < j <=> Old(i) < Old(j)) /\ (Old(i) = Old(j) => i = j)
  BY <1>1, <1>2
<1>5. \A i \in DOMAIN list : i # p => New(i) \in DOMAIN list' /\ Old(New(i)) = i
  <2> SUFFICES ASSUME NEW i \in 1 .. n, i # p
               PROVE  New(i) \in 1 .. n - 1 /\ Old(New(i)) = i
    BY <1>1, <1>2
  <2>1. CASE i < p
    BY <1>1, <2>1
  <2>2. CASE i > p
    BY <1>1, <2>2
  <2> QED
    BY <1>1, <2>1, <2>2
<1> HIDE DEF Old, New
<1>6. \A i \in DOMAIN list : i # p <=> list[i] # a
  BY <1>1
<1>7. ListInv'
  <2>1. ASSUME NEW b \in Apps
        PROVE  app'[b].st # "none" <=> \E i \in DOMAIN list' : list'[i] = b
    <3>1. CASE b = a
      BY <1>3, <1>6, <3>1
    <3>2. CASE b # a
      <4>1. app[b].st # "none" <=> \E i \in DOMAIN list : list[i] = b
        BY DEF ListInv
      <4>2. ASSUME NEW i \in DOMAIN list, list[i] = b PROVE \E j \in DOMAIN list' : list'[j] = b
        BY <1>3, <1>5, <1>6, <3>2, <4>2
      <4>3. ASSUME NEW i \in DOMAIN list', list'[i] = b PROVE \E j \in DOMAIN list : list[j] = b
        BY <1>3, <4>3
      <4> QED
        BY <3>2, <4>1, <4>2, <4>3
    <3> QED
      BY <3>1, <3>2
  <2>2. ASSUME NEW i \in DOMAIN list', NEW j \in DOMAIN list', list'[i] = list'[j] PROVE i = j
    <3>1. Old(i) \in DOMAIN list /\ Old(j) \in DOMAIN list /\ list[Old(i)] = list[Old(j)]
      BY <1>3, <2>2
    <3>2. Old(i) = Old(j)
      BY <1>1, <3>1
    <3> QED
      BY <1>4, <3>2
  <2> QED
    BY <1>2, <2>1, <2>2 DEF ListInv
<1>8. ASSUME NEW x \in Apps \ {a}, NEW y \in Apps \ {a}
      PROVE  Before(x, y)' <=> Before(x, y)
  <2>1. ASSUME Before(x, y)' PROVE Before(x, y)
    <3>1. PICK i, j \in DOMAIN list' : i < j /\ list'[i] = x /\ list'[j] = y
      BY <2>1 DEF Before
    <3>2. /\ Old(i) \in DOMAIN list /\ list[Old(i)] = x
          /\ Old(j) \in DOMAIN list /\ list[Old(j)] = y /\ Old(i) < Old(j)
      BY <1>3, <1>4, <3>1
    <3> QED
      BY <3>2 DEF Before
  <2>2. ASSUME Before(x, y) PROVE Before(x, y)'
    <3>1. PICK i, j \in DOMAIN list : i < j /\ list[i] = x /\ list[j] = y
      BY <2>2 DEF Before
    <3>2. /\ New(i) \in DOMAIN list' /\ list'[New(i)] = x /\ Old(New(i)) = i
          /\ New(j) \in DOMAIN list' /\ list'[New(j)] = y /\ Old(New(j)) = j
      BY <1>3, <1>5, <1>6, <3>1
    <3> QED
      BY <1>4, <3>1, <3>2 DEF Before
  <2> QED
    BY <2>1, <2>2
<1> QED
  BY <1>7, <1>8


\* A softc without references is where no broadcast stands.
LEMMA NotReached ==
  ASSUME AppInv, NEW a \in Apps, app[a].refs = 0
  PROVE  \A t \in Casters : cast[t].at # a /\ cast[t].at \in Apps \cup {"NONE"}
<1>1. app[a].refs = At("cntl", a) + At("drv", a)
  BY DEF AppInv, CastInv
<1>2. \A t \in Casters : At(t, a) \in {0, 1} /\ (cast[t].at = a => At(t, a) = 1)
  BY DEF At
<1>3. \A t \in Casters : cast[t].at \in Apps \cup {"NONE"}
  <2>1. cast \in [Casters -> Casts]
    BY DEF AppInv, CastInv
  <2> QED
    BY <2>1 DEF Casts
<1>4. At("cntl", a) = 0 /\ At("drv", a) = 0
  <2>1. PICK x \in {0, 1} : x = At("cntl", a)
    BY <1>2 DEF Casters
  <2>2. PICK y \in {0, 1} : y = At("drv", a)
    BY <1>2 DEF Casters
  <2>3. x + y = 0
    BY <1>1, <2>1, <2>2
  <2>4. x = 0 /\ y = 0
    BY <2>3
  <2> QED
    BY <2>1, <2>2, <2>4
<1> QED
  BY <1>2, <1>3, <1>4 DEF Casters

\* A softc comes or goes; no other part of the driver refers to it.
LEMMA ComesOrGoes ==
  ASSUME AppInv, UNCHANGED <<uses, cds, cast, cntl, dch>>, ListInv', NEW a \in Apps,
         NEW s \in Softcs, Consistent(s), app' = [app EXCEPT ![a] = s],
         s.refs = 0, app[a].refs = 0, s.io = "out", app[a].io = "out", s.view = {},
         s.st # "open", app[a].st # "open" \/ app[a].cl = "closed", dch.sx # a,
         \A x, y \in Apps \ {a} : Before(x, y)' <=> Before(x, y),
         s.st = "none" \/ \A y \in Apps \ {a} : ~Before(a, y)',
         app[a].st # "none" => app[a].cl = "closed"
  PROVE  AppInv'
<1>1. SoftcInv' /\ app'[a] = s /\ \A b \in Apps : b # a => app'[b] = app[b]
  BY Replaced DEF AppInv
<1>2. \A t \in Casters : cast[t].at # a /\ cast[t].at \in Apps \cup {"NONE"}
  BY NotReached
<1>3. CastInv'
  <2>1. \A t \in Casters : cast'[t].at # "NONE" => app'[cast'[t].at].st # "none"
    BY <1>1, <1>2 DEF AppInv, CastInv
  <2>2. \A b \in Apps : At("cntl", b)' = At("cntl", b) /\ At("drv", b)' = At("drv", b)
    BY DEF At
  <2>3. \A b \in Apps : app'[b].refs = app[b].refs
    BY <1>1
  <2>4. \A b \in Apps : app'[b].refs = At("cntl", b)' + At("drv", b)'
    BY <2>2, <2>3 DEF AppInv, CastInv
  <2> QED
    BY <2>1, <2>4 DEF AppInv, CastInv
<1>4. OwnerInv'
  <2>1. ASSUME NEW c \in Calls, cds[c].ai \in Apps
        PROVE  app'[cds[c].ai].st = "open" /\ app'[cds[c].ai].cl \in Early
    <3>1. app[cds[c].ai].st = "open" /\ app[cds[c].ai].cl \in Early
      BY <2>1 DEF AppInv, OwnerInv
    <3>2. cds[c].ai # a
      BY <3>1 DEF Early
    <3> QED
      BY <1>1, <2>1, <3>1, <3>2
  <2> QED
    BY <2>1 DEF AppInv, OwnerInv, Used
<1>5. LockInv'
  <2>1. cntl.by # a
    BY DEF AppInv, LockInv
  <2> QED
    BY <1>1, <2>1, LockKept DEF AppInv
<1>6. DchInv'
  <2>1. Counted' = Counted
    BY <1>1 DEF Counted
  <2>2. dch.sx # "free" => dch.sx \in Apps /\ app'[dch.sx] = app[dch.sx]
    BY <1>1 DEF AppInv, DchInv
  <2> QED
    BY <2>1, <2>2 DEF AppInv, DchInv, Updating
<1>7. CountInv'
  <2>1. cast["cntl"].at # "NONE" => Reached' = Reached
    <3>1. ASSUME cast["cntl"].at # "NONE", NEW x \in Apps PROVE x \in Reached' <=> x \in Reached
      <4>0. cast["cntl"].at \in Apps \ {a} /\ cast'["cntl"] = cast["cntl"]
        BY <1>2, <3>1 DEF Casters
      <4>1. CASE x = a
        <5>1. x \notin Reached
          BY <4>1 DEF Reached, Early
        <5>2. x \notin Reached'
          BY <1>1, <4>0, <4>1 DEF Reached
        <5> QED
          BY <5>1, <5>2
      <4>2. CASE x # a
        BY <1>1, <4>0, <4>2 DEF Reached
      <4> QED
        BY <4>1, <4>2
    <3> QED
      BY <3>1 DEF Reached
  <2> QED
    BY <2>1 DEF AppInv, CountInv
<1>8. ViewInv'
  <2>1. ASSUME NEW x \in Apps, x # a, NEW c \in Calls, Rightly(x, c) PROVE Rightly(x, c)'
    <3>1. Ahead(x) => Ahead(x)'
      BY <1>2, <2>1 DEF Ahead, Casters
    <3> QED
      BY <2>1, <3>1 DEF Rightly
  <2>2. \A x \in Apps : app[x].view \subseteq Calls
    BY DEF AppInv, SoftcInv, Softcs
  <2> QED
    BY <1>1, <2>1, <2>2 DEF AppInv, ViewInv
<1> QED
  BY <1>1, <1>3, <1>4, <1>5, <1>6, <1>7, <1>8 DEF AppInv

LEMMA NewSoftcType == NewSoftc \in Softcs /\ Consistent(NewSoftc)
<1>1. 0 \in 0 .. QMax
  BY QMaxNat
<1> QED
  BY <1>1 DEF NewSoftc, Softcs, Consistent

LEMMA OpenStep ==
  ASSUME AppInv, UNCHANGED uses, NEW a \in Apps, Open(a)
  PROVE  AppInv'
<1> DEFINE s == [NewSoftc EXCEPT !.st = "opening", !.flags = {"BLOCK"}]
<1>1. /\ app[a].st = "none" /\ app' = [app EXCEPT ![a] = s] /\ list' = Append(list, a)
      /\ UNCHANGED <<uses, cds, cast, cntl, dch>>
  BY DEF Open
<1>2. /\ s \in Softcs /\ Consistent(s) /\ s.refs = 0 /\ s.io = "out" /\ s.view = {}
      /\ s.st = "opening"
  <2>1. s \in Softcs /\ s.st = "opening" /\ s.flags = {"BLOCK"}
        /\ s.refs = NewSoftc.refs /\ s.io = NewSoftc.io /\ s.view = NewSoftc.view
        /\ s.cl = NewSoftc.cl /\ s.rd = NewSoftc.rd /\ s.poll = NewSoftc.poll
    BY NewSoftcType DEF Softcs
  <2> HIDE DEF s
  <2> QED
    BY <2>1 DEF Consistent, NewSoftc
<1> HIDE DEF s
<1>3. app[a] = NewSoftc
  BY <1>1 DEF AppInv, SoftcInv, Consistent
<1>4. app[a].refs = 0 /\ app[a].io = "out" /\ app[a].cl = "out"
  BY <1>3 DEF NewSoftc
<1>5. dch.sx # a
  BY <1>1, <1>4, Names DEF AppInv, DchInv, Updating
<1>6. app'[a] = s /\ \A b \in Apps \ {a} : app'[b] = app[b]
  BY <1>1 DEF AppInv, SoftcInv
<1>7. /\ ListInv'
      /\ \A x, y \in Apps \ {a} : Before(x, y)' <=> Before(x, y)
      /\ \A y \in Apps \ {a} : ~Before(a, y)'
  BY <1>1, <1>2, <1>6, ListAppended DEF AppInv
<1> QED
  BY <1>1, <1>2, <1>4, <1>5, <1>7, ComesOrGoes

LEMMA FreeSoftcStep ==
  ASSUME AppInv, UNCHANGED uses, NEW a \in Apps, FreeSoftc(a)
  PROVE  AppInv'
<1>1. /\ app[a].cl = "closed" /\ app[a].refs = 0 /\ app' = [app EXCEPT ![a] = NewSoftc]
      /\ list' = SubSeq(list, 1, Place(a) - 1) \o SubSeq(list, Place(a) + 1, Len(list))
      /\ UNCHANGED <<uses, cds, cast, cntl, dch>>
  BY DEF FreeSoftc
<1>2. /\ NewSoftc \in Softcs /\ Consistent(NewSoftc) /\ NewSoftc.refs = 0
      /\ NewSoftc.io = "out" /\ NewSoftc.view = {} /\ NewSoftc.st = "none" /\ NewSoftc.cl = "out"
  BY NewSoftcType DEF NewSoftc
<1>3. app[a].st # "none" /\ app[a].st # "opening" /\ app[a].io = "out"
  BY <1>1, <1>2 DEF AppInv, SoftcInv, Consistent
<1>4. dch.sx # a
  BY <1>1, <1>3, Names DEF AppInv, DchInv, Updating
<1>5. app'[a] = NewSoftc /\ \A b \in Apps \ {a} : app'[b] = app[b]
  BY <1>1 DEF AppInv, SoftcInv
<1>6. ListInv' /\ \A x, y \in Apps \ {a} : Before(x, y)' <=> Before(x, y)
  BY <1>1, <1>2, <1>3, <1>5, ListCut DEF AppInv
<1>7. NewSoftc.st # "open"
  BY <1>2
<1> QED
  BY <1>1, <1>2, <1>3, <1>4, <1>6, <1>7, ComesOrGoes


-----------------------------------------------------------------------------
(* i4b_close and i4b_update_all_d_channels *)

LEMMA CloseCallsStep ==
  ASSUME AppInv, UNCHANGED uses, NEW a \in Apps, CloseCalls(a)
  PROVE  AppInv'
<1> DEFINE s == app[a]
           r == [s EXCEPT !.cl = "dchan"]
<1>1. /\ s.cl = "calls" /\ cntl.by = "free" /\ app' = [app EXCEPT ![a] = r]
      /\ cds' = [c \in Calls |-> IF dch.up /\ cds[c].ai = a THEN FreeCd ELSE cds[c]]
      /\ UNCHANGED <<uses, list, cast, cntl, dch>>
  BY DEF CloseCalls
<1>2. s \in Softcs /\ Consistent(s) /\ s.io = "out" /\ s.st = "open"
  <2>1. s \in Softcs /\ Consistent(s)
    BY DEF AppInv, SoftcInv
  <2>2. s.io = "out" /\ s.st \in {"none", "opening", "open"} /\ NewSoftc.cl = "out"
    BY <1>1, <2>1 DEF Consistent, Softcs, NewSoftc
  <2> QED
    BY <1>1, <2>1, <2>2 DEF Consistent
<1>3. /\ r \in Softcs /\ r.cl = "dchan" /\ r.io = s.io /\ r.st = s.st /\ r.refs = s.refs
      /\ r.flags = s.flags /\ r.q = s.q /\ r.rd = s.rd /\ r.poll = s.poll
  BY <1>2 DEF Softcs
<1> HIDE DEF r
<1>4. Consistent(r)
  BY <1>1, <1>2, <1>3 DEF Consistent
<1>5. SoftcInv' /\ app'[a] = r /\ \A b \in Apps : b # a => app'[b] = app[b]
  BY <1>1, <1>3, <1>4, Replaced DEF AppInv
<1>6. \A b \in Apps : /\ app'[b].st = app[b].st /\ app'[b].refs = app[b].refs
                      /\ app'[b].io = app[b].io
  BY <1>3, <1>5
<1>7. ListInv' /\ CastInv'
  BY <1>1, <1>6, ListKept, CastKept DEF AppInv
<1>8. cntl = Unlocked /\ cast["cntl"].at = "NONE"
  BY <1>1 DEF AppInv, LockInv
<1>9. LockInv' /\ CountInv'
  <2>1. 0 <= Cardinality(Apps) /\ FreeCd.count = 0
    BY AppAssumption, FS_CardinalityType DEF FreeCd
  <2>2. \A c \in Calls : cds'[c].count <= Cardinality(Apps)
    BY <1>1, <2>1 DEF AppInv, CountInv
  <2> QED
    BY <1>1, <1>8, <2>2, Names DEF LockInv, CountInv, Unlocked
<1>10. OwnerInv'
  <2>1. cds' \in [Calls -> [ai : Owners, count : Nat]]
    BY <1>1 DEF AppInv, OwnerInv, FreeCd, Owners
  <2>2. ASSUME NEW c \in Calls, cds'[c].ai # "NONE"
        PROVE  cds'[c] = cds[c] /\ cds[c].ai # a /\ dch.up
    BY <1>1, <2>2, Names DEF AppInv, OwnerInv, FreeCd, Used
  <2>3. ASSUME NEW c \in Calls, cds'[c].ai \in Apps
        PROVE  app'[cds'[c].ai].st = "open" /\ app'[cds'[c].ai].cl \in Early
    BY <1>5, <2>2, <2>3, Names DEF AppInv, OwnerInv
  <2> QED
    BY <1>1, <2>1, <2>2, <2>3 DEF OwnerInv, Used
<1>11. DchInv'
  <2>1. dch.sx # a
    BY <1>1, <1>2, Names DEF AppInv, DchInv, Updating
  <2>2. Counted' = Counted
    BY <1>1, <1>2, <1>3, <1>5, <2>1 DEF Counted
  <2>3. dch.sx # "free" => dch.sx \in Apps /\ app'[dch.sx] = app[dch.sx]
    BY <1>5, <2>1 DEF AppInv, DchInv
  <2> QED
    BY <1>1, <2>2, <2>3 DEF AppInv, DchInv, Updating
<1>12. ViewInv'
  <2>1. ASSUME NEW b \in Apps, app'[b].st # "none", app'[b].cl = "out", ~app'[b].lossy,
               NEW c \in app'[b].view
        PROVE  Rightly(b, c)'
    <3>1. b # a /\ app'[b] = app[b]
      BY <1>3, <1>5, <2>1
    <3>2. c \in Calls /\ cds[c].ai \in {b, "BROADCAST"}
      BY <1>8, <2>1, <3>1, Known
    <3>3. cds'[c] = cds[c]
      BY <1>1, <3>1, <3>2, Names
    <3> QED
      BY <1>1, <1>8, <3>2, <3>3 DEF Rightly, Unlocked
  <2> QED
    BY <2>1 DEF ViewInv
<1> QED
  BY <1>1, <1>5, <1>7, <1>9, <1>10, <1>11, <1>12 DEF AppInv

LEMMA CountedFinite ==
  /\ IsFiniteSet(Counted) /\ Cardinality(Counted) \in Nat
  /\ Cardinality(Counted) <= Cardinality(Apps)
<1>1. Counted \subseteq Apps
  BY DEF Counted
<1> QED
  BY <1>1, AppAssumption, FS_Subset, FS_CardinalityType

\* The threads in i4b_update_all_d_channels
LEMMA UpdatingFields ==
  ASSUME SoftcInv, NEW a \in Apps, Updating(a)
  PROVE  \/ app[a].st = "opening" /\ app[a].cl = "out" /\ app[a].io = "out"
         \/ app[a].st = "open" /\ app[a].cl = "dchan" /\ app[a].io = "out"
<1>1. app[a] \in Softcs /\ Consistent(app[a])
  BY DEF SoftcInv
<1>2. app[a].st \in {"none", "opening", "open"} /\ NewSoftc.cl = "out"
  BY <1>1 DEF Softcs, NewSoftc
<1> QED
  BY <1>1, <1>2 DEF Updating, Consistent

LEMMA DchCountStep ==
  ASSUME AppInv, UNCHANGED uses, NEW a \in Apps, DchCount(a)
  PROVE  AppInv'
<1>1. /\ Updating(a) /\ dch.sx = "free" /\ UNCHANGED <<uses, app, list, cds, cast, cntl>>
      /\ dch' = [dch EXCEPT !.sx = a,
                            !.refs = IF app[a].st = "opening" THEN @ + 1
                                     ELSE IF @ # 0 THEN @ - 1 ELSE 0]
  BY DEF DchCount
<1>2. /\ dch \in [refs : Nat, sx : Apps \cup {"free"}, up : BOOLEAN]
      /\ dch.refs = Cardinality(Counted) /\ (dch.up <=> dch.refs > 0)
  BY <1>1 DEF AppInv, DchInv
<1>3. /\ dch'.sx = a /\ dch'.up = dch.up
      /\ dch'.refs = IF app[a].st = "opening" THEN dch.refs + 1
                     ELSE IF dch.refs # 0 THEN dch.refs - 1 ELSE 0
      /\ dch' \in [refs : Nat, sx : Apps \cup {"free"}, up : BOOLEAN]
  <2>1. dch.refs + 1 \in Nat /\ (dch.refs # 0 => dch.refs - 1 \in Nat)
    BY <1>2
  <2> QED
    BY <1>1, <1>2, <2>1
<1>4. \/ app[a].st = "opening" /\ app[a].cl = "out"
      \/ app[a].st = "open" /\ app[a].cl = "dchan"
  BY <1>1, UpdatingFields DEF AppInv
<1>f. a # "free"
  BY Names
<1>5. DchInv'
  <2>1. CASE app[a].st = "opening"
    <3>1. a \notin Counted /\ Counted' = Counted \cup {a}
      BY <1>1, <1>3, <1>f, <2>1, Names DEF Counted
    <3>2. Cardinality(Counted') = Cardinality(Counted) + 1
      BY <3>1, CountedFinite, FS_AddElement
    <3>3. dch'.refs = Cardinality(Counted') /\ dch'.refs = dch.refs + 1
      BY <1>2, <1>3, <2>1, <3>2
    <3>4. dch'.up <=> dch'.refs > 1
      BY <1>2, <1>3, <3>3
    <3> QED
      BY <1>1, <1>3, <1>f, <2>1, <3>3, <3>4 DEF DchInv, Updating
  <2>2. CASE app[a].st # "opening"
    <3>1. a \in Counted /\ Counted' = Counted \ {a}
      BY <1>1, <1>3, <1>4, <1>f, <2>2, Names DEF Counted
    <3>2. Cardinality(Counted') = Cardinality(Counted) - 1
      BY <3>1, CountedFinite, FS_RemoveElement
    <3>3. Cardinality(Counted) # 0
      BY <3>1, CountedFinite, FS_EmptySet
    <3>4. dch'.refs = Cardinality(Counted') /\ dch.refs > 0
      BY <1>2, <1>3, <2>2, <3>2, <3>3, CountedFinite
    <3> QED
      BY <1>1, <1>2, <1>3, <1>f, <2>2, <3>4 DEF DchInv, Updating
  <2> QED
    BY <2>1, <2>2
<1>6. \A b \in Apps : SameLife(app[b], app'[b]) /\ app'[b].st = app[b].st
  BY <1>1 DEF SameLife
<1>7. SoftcInv' /\ ListInv' /\ CastInv'
  BY <1>1, ListKept, CastKept DEF AppInv, SoftcInv
<1>8. OwnerInv' /\ LockInv' /\ CountInv'
  BY <1>1, <1>3, <1>6, OwnersKept, LockKept, CountsKept DEF AppInv
<1>9. ViewInv'
  BY <1>1, RightlyKept DEF AppInv, ViewInv
<1> QED
  BY <1>1, <1>5, <1>7, <1>8, <1>9 DEF AppInv


\* A program is past i4b_update_all_d_channels.
LEMMA UpdateDoneFields ==
  ASSUME NEW s \in Softcs, Consistent(s), s.io = "out",
         \/ s.st = "opening" /\ s.cl = "out"
         \/ s.st = "open" /\ s.cl = "dchan"
  PROVE  LET r == UpdateDone(s) IN
         /\ r \in Softcs /\ Consistent(r) /\ r.refs = s.refs /\ r.io = "out"
         /\ r.view = s.view /\ r.lossy = s.lossy /\ r.st = "open"
         /\ r.cl = IF s.st = "opening" THEN "out" ELSE "drain"
<1> DEFINE r == UpdateDone(s)
<1>1. CASE s.st = "opening"
  <2>1. r = [s EXCEPT !.st = "open"]
    BY <1>1 DEF UpdateDone
  <2>2. /\ r \in Softcs /\ r.st = "open" /\ r.cl = s.cl /\ r.io = s.io /\ r.refs = s.refs
        /\ r.view = s.view /\ r.lossy = s.lossy /\ r.flags = s.flags /\ r.q = s.q
        /\ r.rd = s.rd /\ r.poll = s.poll
    BY <2>1 DEF Softcs
  <2> HIDE DEF r
  <2>3. Consistent(r)
    BY <1>1, <2>2 DEF Consistent
  <2> QED
    BY <1>1, <2>2, <2>3 DEF r
<1>2. CASE s.st # "opening"
  <2>1. r = [s EXCEPT !.cl = "drain"]
    BY <1>2 DEF UpdateDone
  <2>2. /\ r \in Softcs /\ r.st = s.st /\ r.cl = "drain" /\ r.io = s.io /\ r.refs = s.refs
        /\ r.view = s.view /\ r.lossy = s.lossy /\ r.flags = s.flags /\ r.q = s.q
        /\ r.rd = s.rd /\ r.poll = s.poll
    BY <2>1 DEF Softcs
  <2> HIDE DEF r
  <2>3. Consistent(r)
    BY <1>2, <2>2 DEF Consistent
  <2> QED
    BY <1>2, <2>2, <2>3 DEF r
<1> QED
  BY <1>1, <1>2

\* The D-channel goes down: every program hears of its calls and of those that ring.
LEMMA ToldFields ==
  ASSUME AppInv, cntl.by = "free", NEW x \in Apps, app[x].st # "none"
  PROVE  LET r == Told(app[x], x) IN
         /\ r \in Softcs /\ Consistent(r) /\ Quietly(app[x], r)
         /\ r.cl = "out" /\ ~r.lossy => r.view = {}
<1> DEFINE s == app[x]
           gone == {c \in Calls : cds[c].ai \in {"BROADCAST", x}}
           n == Cardinality(gone)
           v == s.view \ gone
           r == PutMessages(s, n, v)
<1>1. s \in Softcs /\ Consistent(s) /\ s.view \subseteq Calls
  BY DEF AppInv, SoftcInv, Softcs
<1>2. IsFiniteSet(gone) /\ n \in Nat
  BY AppAssumption, FS_Subset, FS_CardinalityType
<1>3. v \in SUBSET Calls
  BY <1>1
<1>4. Told(s, x) = r
  BY DEF Told
<1>k. s.cl = "out" /\ ~s.lossy => s.view \subseteq gone
  <2>1. cast["cntl"].at = "NONE"
    BY DEF AppInv, LockInv
  <2> QED
    BY <2>1, Known
<1>e. n = 0 => gone = {}
  BY <1>2, FS_EmptySet
<1> HIDE DEF s, gone, n, v
<1>5. /\ r \in Softcs /\ Consistent(r) /\ Quietly(s, r) /\ (~r.lossy => ~s.lossy)
      /\ (s.cl = "out" /\ n # 0 => r.view = v) /\ (s.cl # "out" \/ n = 0 => r = s)
  BY <1>1, <1>2, <1>3, PutFields DEF s
<1> HIDE DEF r
<1>6. r.cl = "out" /\ ~r.lossy => r.view = {}
  BY <1>5, <1>k, <1>e DEF Quietly, v
<1> QED
  BY <1>4, <1>5, <1>6 DEF s

LEMMA DchUpdateStep ==
  ASSUME AppInv, UNCHANGED uses, NEW a \in Apps, DchUpdate(a)
  PROVE  AppInv'
<1> DEFINE attach == dch.refs = 1 /\ app[a].st = "opening"
           detach == dch.refs = 0
           T(x) == IF detach /\ app[x].st # "none" THEN Told(app[x], x) ELSE app[x]
<1>1. /\ Updating(a) /\ dch.sx = a /\ (attach \/ detach => cntl.by = "free")
      /\ dch' = [dch EXCEPT !.sx = "free", !.up = (@ \/ attach) /\ ~detach]
      /\ cds' = IF detach THEN [c \in Calls |-> FreeCd] ELSE cds
      /\ app' = [x \in Apps |-> IF x = a THEN UpdateDone(T(x)) ELSE T(x)]
      /\ UNCHANGED <<uses, list, cast, cntl>>
  BY DEF DchUpdate
<1>2. \/ app[a].st = "opening" /\ app[a].cl = "out" /\ app[a].io = "out"
      \/ app[a].st = "open" /\ app[a].cl = "dchan" /\ app[a].io = "out"
  BY <1>1, UpdatingFields DEF AppInv
<1>3. /\ dch \in [refs : Nat, sx : Apps \cup {"free"}, up : BOOLEAN]
      /\ dch.refs = Cardinality(Counted)
      /\ dch.up <=> (app[a].st = "opening" => dch.refs > 1)
  BY <1>1, Names DEF AppInv, DchInv
<1>4. app[a].st = "opening" => dch.refs > 0
  <2>1. app[a].st = "opening" => a \in Counted
    BY <1>1 DEF Counted
  <2> QED
    BY <1>3, <2>1, CountedFinite, FS_EmptySet
<1>5. /\ dch'.sx = "free" /\ dch'.refs = dch.refs
      /\ dch'.up <=> dch.refs > 0
      /\ dch' \in [refs : Nat, sx : Apps \cup {"free"}, up : BOOLEAN]
  <2>1. /\ dch'.sx = "free" /\ dch'.refs = dch.refs /\ dch'.up = ((dch.up \/ attach) /\ ~detach)
        /\ dch' \in [refs : Nat, sx : Apps \cup {"free"}, up : BOOLEAN]
    BY <1>1, <1>3
  <2>2. ((dch.up \/ attach) /\ ~detach) <=> dch.refs > 0
    BY <1>3, <1>4
  <2> QED
    BY <2>1, <2>2
<1>6. ASSUME NEW x \in Apps
      PROVE  /\ T(x) \in Softcs /\ Consistent(T(x)) /\ Quietly(app[x], T(x))
             /\ detach /\ T(x).cl = "out" /\ ~T(x).lossy => T(x).view = {}
             /\ ~detach => T(x) = app[x]
  <2>0. app[x] \in Softcs /\ Consistent(app[x]) /\ Quietly(app[x], app[x])
    BY DEF AppInv, SoftcInv, Quietly
  <2>1. CASE detach /\ app[x].st # "none"
    <3>1. T(x) = Told(app[x], x) /\ cntl.by = "free"
      BY <1>1, <2>1
    <3> QED
      BY <2>1, <3>1, ToldFields
  <2>2. CASE detach /\ app[x].st = "none"
    <3>1. T(x) = app[x]
      BY <2>2
    <3>2. app[x] = NewSoftc /\ NewSoftc.view = {}
      BY <2>0, <2>2 DEF Consistent, NewSoftc
    <3>3. T(x).view = {}
      BY <3>1, <3>2
    <3> HIDE DEF T
    <3> QED
      BY <2>0, <2>2, <3>1, <3>3
  <2>3. CASE ~detach
    BY <2>0, <2>3
  <2> QED
    BY <2>1, <2>2, <2>3
<1> HIDE DEF T, attach
<1>7. LET r == UpdateDone(T(a)) IN
      /\ r \in Softcs /\ Consistent(r) /\ r.refs = app[a].refs /\ r.io = "out"
      /\ r.view = T(a).view /\ r.lossy = T(a).lossy /\ r.st = "open"
      /\ r.cl = IF app[a].st = "opening" THEN "out" ELSE "drain"
  <2>1. T(a) \in Softcs /\ Consistent(T(a)) /\ Quietly(app[a], T(a)) /\ a \in Apps
    BY <1>1, <1>6
  <2>2. T(a).st = app[a].st /\ T(a).cl = app[a].cl /\ T(a).io = app[a].io
        /\ T(a).refs = app[a].refs
    BY <2>1 DEF Quietly
  <2>3. PICK s \in Softcs : s = T(a)
    BY <2>1
  <2>4. /\ Consistent(s) /\ s.io = "out"
        /\ \/ s.st = "opening" /\ s.cl = "out"
           \/ s.st = "open" /\ s.cl = "dchan"
    BY <1>2, <2>1, <2>2, <2>3
  <2>5. LET r == UpdateDone(s) IN
        /\ r \in Softcs /\ Consistent(r) /\ r.refs = s.refs /\ r.io = "out"
        /\ r.view = s.view /\ r.lossy = s.lossy /\ r.st = "open"
        /\ r.cl = IF s.st = "opening" THEN "out" ELSE "drain"
    BY <2>4, UpdateDoneFields
  <2> QED
    BY <2>2, <2>3, <2>5
<1>8. app'[a] = UpdateDone(T(a)) /\ \A x \in Apps : x # a => app'[x] = T(x)
  BY <1>1
<1>9. SoftcInv'
  BY <1>1, <1>6, <1>7, <1>8 DEF SoftcInv
<1>10. \A x \in Apps : /\ app'[x].refs = app[x].refs /\ app'[x].io = app[x].io
                       /\ app'[x].st = "none" <=> app[x].st = "none"
                       /\ app'[x].cl \in Early <=> app[x].cl \in Early
                       /\ app'[x].cl = "out" <=> app[x].cl = "out"
                       /\ x # a => app'[x].st = app[x].st /\ app'[x].cl = app[x].cl
  BY <1>2, <1>6, <1>7, <1>8 DEF Quietly, Early
<1>11. ListInv' /\ CastInv'
  BY <1>1, <1>10, ListKept, CastKept DEF AppInv
<1>12. DchInv'
  <2>1. Counted' = Counted
    BY <1>1, <1>2, <1>5, <1>7, <1>8, <1>10, Names DEF Counted
  <2> QED
    BY <1>3, <1>5, <2>1 DEF DchInv
<1>13. CASE detach
  <2>1. cntl = Unlocked /\ cast["cntl"].at = "NONE" /\ cds' = [c \in Calls |-> FreeCd]
    BY <1>1, <1>13 DEF AppInv, LockInv
  <2>2. 0 <= Cardinality(Apps) /\ FreeCd.count = 0 /\ FreeCd.ai = "NONE"
    BY AppAssumption, FS_CardinalityType DEF FreeCd
  <2>3. OwnerInv'
    BY <2>1, <2>2, Names DEF OwnerInv, Owners, FreeCd, Used
  <2>4. LockInv' /\ CountInv'
    BY <1>1, <2>1, <2>2, Names DEF LockInv, CountInv, Unlocked
  <2>5. ViewInv'
    <3>1. ASSUME NEW x \in Apps, app'[x].cl = "out", ~app'[x].lossy PROVE app'[x].view = {}
      <4>1. T(x).cl = "out"
        BY <1>6, <1>10, <3>1 DEF Quietly
      <4>2. app'[x].view = T(x).view /\ app'[x].lossy = T(x).lossy
        BY <1>7, <1>8
      <4> QED
        BY <1>6, <1>13, <3>1, <4>1, <4>2
    <3> QED
      BY <3>1 DEF ViewInv
  <2> QED
    BY <1>1, <1>9, <1>11, <1>12, <2>3, <2>4, <2>5 DEF AppInv
<1>14. CASE ~detach
  <2>1. cds' = cds /\ dch'.up
    BY <1>1, <1>3, <1>5, <1>14
  <2>2. OwnerInv'
    <3>1. ASSUME NEW c \in Calls, cds[c].ai \in Apps
          PROVE  app'[cds[c].ai].st = "open" /\ app'[cds[c].ai].cl \in Early
      <4>1. app[cds[c].ai].st = "open" /\ app[cds[c].ai].cl \in Early
        BY <3>1 DEF AppInv, OwnerInv
      <4>2. cds[c].ai # a
        BY <1>2, <4>1 DEF Early
      <4> QED
        BY <1>10, <3>1, <4>1, <4>2
    <3> QED
      BY <2>1, <3>1 DEF AppInv, OwnerInv
  <2>3. LockInv'
    BY <1>1, <1>10, <2>1, LockKept DEF AppInv
  <2>4. CountInv'
    <3>1. Reached' = Reached
      BY <1>1, <1>10 DEF Reached, Before
    <3> QED
      BY <1>1, <2>1, <3>1 DEF AppInv, CountInv
  <2>5. ViewInv'
    <3>1. \A x \in Apps : app'[x].view = app[x].view /\ app'[x].lossy = app[x].lossy
      BY <1>6, <1>7, <1>8, <1>14
    <3> QED
      BY <1>1, <1>10, <2>1, <3>1, RightlyKept DEF AppInv, ViewInv
  <2> QED
    BY <1>1, <1>9, <1>11, <1>12, <2>2, <2>3, <2>4, <2>5 DEF AppInv
<1> QED
  BY <1>13, <1>14


-----------------------------------------------------------------------------
(* The invariant holds *)

LEMMA AppInitially ==
  ASSUME Init
  PROVE  AppInv
<1>1. SoftcInv
  BY NewSoftcType DEF Init, SoftcInv
<1>2. ListInv
  <2>1. list = <<>> /\ DOMAIN list = {} /\ \A a \in Apps : app[a].st = "none"
    BY DEF Init, NewSoftc
  <2> QED
    BY <2>1 DEF ListInv
<1>3. CastInv
  <2>1. \A t \in Casters : cast[t] = NoCast /\ cast[t].at = "NONE"
    BY DEF Init, NoCast
  <2>2. NoCast \in Casts /\ NoCast.msg = OtherMsg
    BY DEF NoCast, Casts, Messages
  <2>3. \A a \in Apps : At("cntl", a) = 0 /\ At("drv", a) = 0 /\ app[a].refs = 0
    BY <2>1, Names DEF At, Init, NewSoftc, Casters
  <2> QED
    BY <2>1, <2>2, <2>3 DEF CastInv, Init, Casters
<1>4. OwnerInv
  BY Names DEF Init, OwnerInv, Owners, FreeCd, Used
<1>5. LockInv
  BY Names DEF Init, LockInv, Unlocked, Casters, NoCast
<1>6. DchInv
  <2>1. dch = [refs |-> 0, sx |-> "free", up |-> FALSE] /\ \A a \in Apps : app[a].st = "none"
    BY DEF Init, NewSoftc
  <2>2. Counted = {}
    BY <2>1, Names DEF Counted
  <2>3. Cardinality(Counted) = 0
    BY <2>2, FS_EmptySet
  <2> QED
    BY <2>1, <2>3 DEF DchInv
<1>7. CountInv
  <2>1. 0 <= Cardinality(Apps)
    BY AppAssumption, FS_CardinalityType
  <2>2. cntl.then = "none" /\ \A c \in Calls : cds[c].count = 0
    BY DEF Init, Unlocked, FreeCd
  <2> QED
    BY <2>1, <2>2 DEF CountInv
<1>8. ViewInv
  BY DEF Init, ViewInv, NewSoftc
<1>9. uses \in Loads
  BY DEF Init
<1> QED
  BY <1>1, <1>2, <1>3, <1>4, <1>5, <1>6, <1>7, <1>8, <1>9 DEF AppInv

LEMMA IdleStep ==
  ASSUME AppInv, UNCHANGED <<uses, app, list, cds, cast, cntl, dch>>
  PROVE  AppInv'
<1>1. SoftcInv' /\ CastInv'
  BY CastKept DEF AppInv, SoftcInv
<1> QED
  BY <1>1, AsideStep DEF SameLife


LEMMA AppStep ==
  ASSUME AppInv, [Next]_vars
  PROVE  AppInv'
<1>1. CASE UNCHANGED vars
  BY <1>1, IdleStep DEF vars
<1>2. CASE Next
  <2>0. uses' = uses
    BY <1>2 DEF Next
  <2>1. CASE Network
    BY <2>0, <2>1, IncomingCallStep, RemoteReleaseStep DEF Network
  <2>2. CASE DriverMessage
    BY <2>0, <2>2, DriverMessageStep
  <2>3. CASE Casting
    BY <2>0, <2>3, CastPutStep, CastNextStep DEF Casting
  <2>4. CASE LockHolder
    BY <2>0, <2>4, LockHolderStep
  <2>5. ASSUME NEW a \in Apps, Inside(a) PROVE AppInv'
    <3>1. CASE IoctlRun(a) \/ IoctlEnd(a) \/ ReadWoken(a)
      BY <2>0, <3>1, IoctlRunStep, IoctlEnds, ReaderSteps
    <3>2. CASE DchCount(a) \/ DchUpdate(a)
      BY <2>0, <3>2, DchCountStep, DchUpdateStep
    <3>3. CASE Close(a) \/ CloseCalls(a) \/ CloseDrain(a) \/ FreeSoftc(a)
      BY <2>0, <3>3, CloserSteps, CloseCallsStep, FreeSoftcStep
    <3> QED
      BY <2>5, <3>1, <3>2, <3>3 DEF Inside
  <2>6. ASSUME NEW a \in Apps, Program(a) PROVE AppInv'
    <3>1. CASE Open(a) \/ Read(a) \/ Signal(a)
      BY <2>0, <3>1, OpenStep, ReaderSteps
    <3>2. CASE Poll(a) \/ PollTimeout(a) \/ SetBlocking(a)
      BY <2>0, <3>2, PollerSteps
    <3>3. CASE IoctlBegin(a) \/ Close(a)
      BY <2>0, <3>3, IoctlEnds, CloserSteps
    <3> QED
      BY <2>6, <3>1, <3>2, <3>3 DEF Program
  <2>7. CASE BecomeQuiet
    <3>1. UNCHANGED <<uses, app, list, cds, cast, cntl, dch>>
      BY <2>0, <2>7 DEF BecomeQuiet
    <3> QED
      BY <3>1, IdleStep
  <2> QED
    BY <1>2, <2>1, <2>2, <2>3, <2>4, <2>5, <2>6, <2>7 DEF Next
<1> QED
  BY <1>1, <1>2

\* The invariant AppInv holds of every number of programs and calls.
THEOREM AppInvariance == Spec => []AppInv
<1>1. Init => AppInv
  BY AppInitially
<1>2. AppInv /\ [Next]_vars => AppInv'
  BY AppStep
<1> QED
  BY <1>1, <1>2, PTL DEF Spec

\* A broadcast and a call refer to softcs that are not freed: i4b_ai_putqueue holds a
\* reference, and i4b_close frees the calls before the softc.
THEOREM NeverUsedAfterFree == Spec => []NoUseAfterFree
<1>1. ASSUME AppInv PROVE NoUseAfterFree
  <2>1. ASSUME NEW t \in Casters, cast[t].at # "NONE"
        PROVE  cast[t].at \in Range(list) /\ app[cast[t].at].refs > 0
    <3>1. /\ cast[t].at \in Apps /\ app[cast[t].at].st # "none"
          /\ app[cast[t].at].refs > 0
      BY <1>1, <2>1, Standing
    <3>2. \E i \in DOMAIN list : list[i] = cast[t].at
      BY <1>1, <3>1 DEF AppInv, ListInv
    <3> QED
      BY <3>1, <3>2 DEF Range
  <2> QED
    BY <1>1, <2>1 DEF NoUseAfterFree, AppInv, OwnerInv, Early
<1> QED
  BY <1>1, AppInvariance, PTL

\* The D-channel driver is attached exactly while i4b_open_refcount is not zero, and the
\* count is that of the programs that have the device open.
THEOREM DchannelAlwaysFollows == Spec => []DchannelFollows
<1>1. ASSUME AppInv PROVE DchannelFollows
  <2>1. ASSUME dch.sx = "free"
        PROVE  /\ dch.up = (dch.refs > 0)
               /\ Counted = {a \in Apps : /\ app[a].st = "open"
                                          /\ app[a].cl \notin {"drain", "closed"}}
    <3>1. dch.up \in BOOLEAN /\ (dch.up <=> dch.refs > 0)
      BY <1>1, <2>1 DEF AppInv, DchInv
    <3>2. \A a \in Apps : dch.sx # a
      BY <2>1, Names
    <3> QED
      BY <3>1, <3>2 DEF Counted
  <2> QED
    BY <1>1, <2>1 DEF DchannelFollows, AppInv, DchInv
<1> QED
  BY <1>1, AppInvariance, PTL

LEMMA AppTypes ==
  ASSUME AppInv
  PROVE  TypeOK
<1>1. Cardinality(Casters) = 2
  <2>1. IsFiniteSet({"cntl"}) /\ Cardinality({"cntl"}) = 1 /\ "drv" \notin {"cntl"}
    BY FS_Singleton
  <2>2. Cardinality({"cntl"} \cup {"drv"}) = 2
    BY <2>1, FS_AddElement
  <2>3. Casters = {"cntl"} \cup {"drv"}
    BY DEF Casters
  <2> QED
    BY <2>2, <2>3
<1>2. \A a \in Apps : app[a].refs \in 0 .. 2
  <2>1. \A a \in Apps : At("cntl", a) \in {0, 1} /\ At("drv", a) \in {0, 1}
    BY DEF At
  <2> QED
    BY <2>1 DEF AppInv, CastInv
<1>3. app \in [Apps ->
        [st : {"none", "opening", "open"},
         flags : SUBSET {"CLOSING", "SLEEP_WAKEUP", "SLEEP_ENTERED", "SELECT", "IOCTL", "BLOCK"},
         q : 0 .. QMax, refs : 0 .. 2,
         rd : {"out", "asleep", "awake", "signal"}, poll : {"out", "asleep"},
         io : {"out", "cntl", "run"},
         cl : {"out", "loop", "asleep", "calls", "dchan", "drain", "closed"},
         view : SUBSET Calls, lossy : BOOLEAN]]
  <2> DEFINE Few == 0 .. 2
             Full == 0 .. QMax
  <2>1. \A a \in Apps : app[a].refs \in Few
    BY <1>2
  <2> HIDE DEF Few
  <2>2. app \in [Apps -> Softcs]
    BY DEF AppInv, SoftcInv
  <2>3. \A a \in Apps : app[a] \in
        [st : {"none", "opening", "open"},
         flags : SUBSET {"CLOSING", "SLEEP_WAKEUP", "SLEEP_ENTERED", "SELECT", "IOCTL", "BLOCK"},
         q : 0 .. QMax, refs : Few,
         rd : {"out", "asleep", "awake", "signal"}, poll : {"out", "asleep"},
         io : {"out", "cntl", "run"},
         cl : {"out", "loop", "asleep", "calls", "dchan", "drain", "closed"},
         view : SUBSET Calls, lossy : BOOLEAN]
    BY <2>1, <2>2 DEF Softcs
  <2> QED
    BY <2>2, <2>3 DEF Few
<1>4. cds \in [Calls -> [ai : Owners, count : 0 .. Cardinality(Apps)]]
  <2>1. cds \in [Calls -> [ai : Owners, count : Nat]]
    BY DEF AppInv, OwnerInv
  <2>2. \A c \in Calls : cds[c].count \in 0 .. Cardinality(Apps)
    <3>1. Cardinality(Apps) \in Nat
      BY AppAssumption, FS_CardinalityType
    <3> QED
      BY <2>1, <3>1 DEF AppInv, CountInv
  <2> DEFINE Few == 0 .. Cardinality(Apps)
  <2> HIDE DEF Few
  <2>3. \A c \in Calls : cds[c] \in [ai : Owners, count : Few]
    BY <2>1, <2>2 DEF Few
  <2> QED
    BY <2>1, <2>3 DEF Few
<1>5. dch \in [refs : 0 .. Cardinality(Apps), sx : Apps \cup {"free"}, up : BOOLEAN]
  <2>1. dch \in [refs : Nat, sx : Apps \cup {"free"}, up : BOOLEAN]
    BY DEF AppInv, DchInv
  <2>2. dch.refs \in 0 .. Cardinality(Apps)
    BY CountedFinite, AppAssumption, FS_CardinalityType DEF AppInv, DchInv
  <2> QED
    BY <2>1, <2>2
<1> QED
  BY <1>1, <1>3, <1>4, <1>5 DEF TypeOK, AppInv, ListInv, LockInv


\* Nobody sleeps on a message, and with the controller unlocked a program that lost no
\* message knows of no call but its own and those that ring for everybody.
THEOREM ProgramsAlwaysInformed == Spec => []ProgramsInformed
<1>1. ASSUME AppInv PROVE ProgramsInformed
  <2>1. \A a \in Apps : app[a].rd = "asleep" \/ app[a].poll = "asleep" => app[a].q = 0
    BY <1>1 DEF AppInv, SoftcInv, Consistent
  <2>2. ASSUME NEW a \in Apps, cntl.by = "free", app[a].st = "open", app[a].cl = "out",
               ~app[a].lossy, NEW c \in Calls \cap app[a].view
        PROVE  cds[c].ai \in {"BROADCAST", a}
    <3>1. cast["cntl"].at = "NONE"
      BY <1>1, <2>2 DEF AppInv, LockInv
    <3> QED
      BY <1>1, <2>2, <3>1, Known
  <2> QED
    BY <1>1, <2>1, <2>2, AppTypes DEF ProgramsInformed
<1> QED
  BY <1>1, AppInvariance, PTL

-----------------------------------------------------------------------------
(* Whose calls an ioctl may touch *)

LEMMA ReleaseTouches ==
  ASSUME AppInv, cast["cntl"].at = "NONE", NEW ap, AsIf(ap), NEW who, NEW c \in Calls,
         Used(c), Release(who, ap, c)
  PROVE  /\ \A x \in Apps : app'[x].io = ap[x].io
         /\ \A x \in Calls : x # c => cds'[x] = cds[x]
<1>0. cds \in [Calls -> [ai : Owners, count : Nat]] /\ cds[c].ai \in Apps \cup {"BROADCAST"}
  BY DEF AppInv, OwnerInv, Used, Owners
<1>1. CASE cds[c].ai = "BROADCAST"
  <2>t. PICK t \in Casters : t = "cntl"
    BY DEF Casters
  <2>m. PICK m \in Messages : m = Msg(DISCONNECT_IND, c)
    BY DEF Messages
  <2>e. PICK e \in Apps \cup {"NONE"} : e = "NONE"
    OBVIOUS
  <2>1. CastStart(t, ap, e, m) /\ cds' = cds /\ t # "drv" /\ cast[t].at = "NONE"
    BY <1>1, <2>t, <2>m, <2>e DEF Release
  <2>2. \A x \in Apps : Referred(ap[x], app'[x])
    BY <2>1, CastBegins
  <2> QED
    BY <2>1, <2>2 DEF Referred
<1>2. CASE cds[c].ai # "BROADCAST"
  <2> DEFINE o == cds[c].ai
             v == ap[o].view \ {c}
  <2>1. /\ o \in Apps /\ app' = [ap EXCEPT ![o] = PutQueue(ap[o], Msg(DISCONNECT_IND, c))]
        /\ cds' = [cds EXCEPT ![c] = FreeCd]
    BY <1>0, <1>2 DEF Release
  <2>2. PutQueue(ap[o], Msg(DISCONNECT_IND, c)) = PutMessages(ap[o], 1, v)
    BY DEF PutQueue, Noted, Msg, CONNECT_IND, DISCONNECT_IND
  <2>3. ap[o] \in Softcs /\ Consistent(ap[o]) /\ ap[o].st # "none" /\ ap \in [Apps -> Softcs]
    BY <2>1 DEF AsIf, Locally, SameLife, AppInv, OwnerInv
  <2>4. v \in SUBSET Calls /\ 1 \in Nat
    BY <2>3 DEF Softcs
  <2>a. PICK r : r = PutMessages(ap[o], 1, v) /\ app' = [ap EXCEPT ![o] = r]
    BY <2>1, <2>2
  <2> HIDE DEF o, v
  <2>5. Quietly(ap[o], r)
    BY <2>3, <2>4, <2>a, PutFields
  <2> QED
    BY <1>0, <2>1, <2>3, <2>5, <2>a DEF Quietly
<1> QED
  BY <1>1, <1>2

\* An ioctl touches neither the ioctl of another program nor a call that one owns.
LEMMA IoctlTouches ==
  ASSUME AppInv, NEW x \in Apps, IoctlRun(x)
  PROVE  /\ \A b \in Apps \ {x} : app'[b].io = app[b].io
         /\ \A c \in Calls : cds[c].ai \in Apps \ {x} => cds'[c] = cds[c]
<1> DEFINE Goal == /\ \A b \in Apps \ {x} : app'[b].io = app[b].io
                   /\ \A c \in Calls : cds[c].ai \in Apps \ {x} => cds'[c] = cds[c]
<1>0. app[x].io = "cntl" /\ cntl.by = "free"
  BY DEF IoctlRun
<1>1. /\ cast["cntl"].at = "NONE" /\ AsIf(Entered(x))
      /\ \A b \in Apps : b # x => Entered(x)[b] = app[b]
      /\ Entered(x) \in [Apps -> Softcs] /\ cds \in [Calls -> [ai : Owners, count : Nat]]
  BY <1>0, EnteredFields DEF AppInv, LockInv, OwnerInv, AsIf
<1>2. CASE CdidReq(x)
  <2>1. PICK d \in Calls :
          /\ ~Used(d) /\ cds' = [cds EXCEPT ![d] = [ai |-> x, count |-> 0]]
          /\ app' = [Entered(x) EXCEPT ![x].view = @ \cup {d}]
    BY <1>2 DEF CdidReq
  <2>2. \A b \in Apps \ {x} : app'[b].io = app[b].io
    BY <1>1, <2>1
  <2>3. \A c \in Calls : cds[c].ai \in Apps \ {x} => c # d
    BY <2>1, Names DEF Used
  <2> QED
    BY <1>1, <2>1, <2>2, <2>3
<1>3. ASSUME NEW d \in Calls, MayUse(x, d),
             \/ \E response \in {"accept", "reject"} : ConnectResp(x, d, response)
             \/ Ignore(x, d) \/ Release(x, Entered(x), d) \/ Replay(x, d)
      PROVE  Goal
  <2>1. Used(d) /\ \A c \in Calls : cds[c].ai \in Apps \ {x} => c # d
    BY <1>3, Names DEF MayUse, Used
  <2>2. SUFFICES /\ \A b \in Apps \ {x} : app'[b].io = Entered(x)[b].io
                 /\ \A c \in Calls : c # d => cds'[c] = cds[c]
    BY <1>1, <2>1
  <2>3. CASE Release(x, Entered(x), d)
    BY <1>1, <2>1, <2>3, ReleaseTouches
  <2>4. ASSUME NEW response \in {"accept", "reject"}, ConnectResp(x, d, response),
               cds[d].ai = "BROADCAST"
        PROVE  /\ \A b \in Apps \ {x} : app'[b].io = Entered(x)[b].io
               /\ \A c \in Calls : c # d => cds'[c] = cds[c]
    <3>t. PICK t \in Casters : t = "cntl"
      BY DEF Casters
    <3>m. PICK m \in Messages : m = Msg(DISCONNECT_IND, d)
      BY DEF Messages
    <3>1. /\ CastStart(t, Entered(x), x, m) /\ t # "drv" /\ cast[t].at = "NONE"
          /\ cds' = [cds EXCEPT ![d].ai = x]
      BY <1>1, <2>4, <3>t, <3>m DEF ConnectResp
    <3>2. \A b \in Apps : Referred(Entered(x)[b], app'[b])
      BY <1>1, <3>1, CastBegins
    <3> QED
      BY <1>1, <3>1, <3>2 DEF Referred
  <2>5. CASE \E response \in {"accept", "reject"} : ConnectResp(x, d, response)
    BY <2>3, <2>4, <2>5 DEF ConnectResp
  <2>6. CASE Ignore(x, d)
    <3>1. CASE cds[d].count < 2
      BY <2>3, <2>6, <3>1 DEF Ignore
    <3>2. CASE ~(cds[d].count < 2)
      <4>1. cds' = [cds EXCEPT ![d].count = @ - 1] /\ app' = Entered(x)
        BY <2>6, <3>2 DEF Ignore
      <4> QED
        BY <1>1, <4>1
    <3> QED
      BY <3>1, <3>2
  <2>7. CASE Replay(x, d)
    BY <1>1, <2>7 DEF Replay
  <2> QED
    BY <1>3, <2>3, <2>5, <2>6, <2>7
<1>4. CASE app' = Entered(x) /\ UNCHANGED <<cds, cast, cntl>>
  BY <1>1, <1>4
<1> QED
  BY <1>2, <1>3, <1>4 DEF IoctlRun

\* Only the ioctl of a program brings its thread under the controller lock, and no other
\* step changes a call meanwhile.
LEMMA OthersLeaveIo ==
  ASSUME AppInv, Next, NEW a \in Apps, app[a].io = "cntl", app'[a].io = "run"
  PROVE  IoctlRun(a) \/ cds' = cds
<1> DEFINE Same == app'[a].io = app[a].io
<1>0. SUFFICES Same \/ IoctlRun(a) \/ cds' = cds
  OBVIOUS
<1>1. CASE Network
  <2>1. PICK c \in Calls : IncomingCall(c) \/ RemoteRelease(c)
    BY <1>1 DEF Network
  <2>2. cast["cntl"].at = "NONE"
    BY <2>1 DEF IncomingCall, RemoteRelease, AppInv, LockInv
  <2>3. CASE IncomingCall(c)
    <3>t. PICK t \in Casters : t = "cntl"
      BY DEF Casters
    <3>m. PICK m \in Messages : m = Msg(CONNECT_IND, c)
      BY DEF Messages
    <3>e. PICK e \in Apps \cup {"NONE"} : e = "NONE"
      OBVIOUS
    <3>1. CastStart(t, app, e, m) /\ t # "drv" /\ cast[t].at = "NONE"
      BY <2>2, <2>3, <3>t, <3>m, <3>e DEF IncomingCall
    <3>2. Referred(app[a], app'[a])
      BY <3>1, AsIfApp, CastBegins
    <3> QED
      BY <3>2 DEF Referred
  <2>4. CASE RemoteRelease(c)
    BY <2>2, <2>4, AsIfApp, ReleaseTouches DEF RemoteRelease
  <2> QED
    BY <2>1, <2>3, <2>4
<1>2. CASE DriverMessage \/ BecomeQuiet
  BY <1>2 DEF DriverMessage, BecomeQuiet
<1>3. CASE Casting
  <2>1. PICK t \in Casters : CastPut(t) \/ CastNext(t)
    BY <1>3 DEF Casting
  <2>2. CASE CastPut(t)
    BY <2>2, CastPuts DEF Quietly
  <2>3. CASE CastNext(t)
    BY <2>3 DEF CastNext
  <2> QED
    BY <2>1, <2>2, <2>3
<1>4. CASE LockHolder
  <2>0. cntl.by # "free" /\ cast["cntl"].at = "NONE"
    BY <1>4 DEF LockHolder, Offered, Freed, Responded, Holding
  <2>u. Used(cntl.cd) /\ cntl.cd \in Calls
    BY <2>0, Names DEF AppInv, LockInv, Used
  <2>r. ASSUME Release(cntl.by, app, cntl.cd) PROVE Same
    BY <2>0, <2>r, <2>u, AsIfApp, ReleaseTouches
  <2>1. CASE Offered
    BY <2>1, <2>r DEF Offered
  <2>2. CASE Freed
    BY <2>2 DEF Freed
  <2>3. CASE Responded
    BY <2>3, <2>r DEF Responded
  <2> QED
    BY <1>4, <2>1, <2>2, <2>3 DEF LockHolder
<1>5. ASSUME NEW x \in Apps, Inside(x) PROVE Same \/ IoctlRun(a) \/ cds' = cds
  <2>1. CASE IoctlRun(x)
    BY <2>1, IoctlTouches
  <2>2. CASE IoctlEnd(x) \/ ReadWoken(x) \/ DchCount(x) \/ Close(x) \/ CloseDrain(x)
             \/ FreeSoftc(x)
    BY <2>2 DEF IoctlEnd, ReadWoken, DchCount, Close, CloseDrain, FreeSoftc
  <2>3. CASE CloseCalls(x)
    <3>1. app' = [app EXCEPT ![x].cl = "dchan"] /\ app \in [Apps -> Softcs] /\ app[x] \in Softcs
      BY <2>3 DEF CloseCalls, AppInv, SoftcInv
    <3> QED
      BY <3>1 DEF Softcs
  <2>4. CASE DchUpdate(x)
    <3>1. x # a
      BY <2>4, UpdatingFields DEF DchUpdate, AppInv
    <3>2. CASE dch.refs = 0 /\ app[a].st # "none"
      <4>1. app'[a] = Told(app[a], a) /\ cntl.by = "free"
        BY <2>4, <3>1, <3>2 DEF DchUpdate
      <4> QED
        BY <3>2, <4>1, ToldFields DEF Quietly
    <3>3. CASE ~(dch.refs = 0 /\ app[a].st # "none")
      BY <2>4, <3>1, <3>3 DEF DchUpdate
    <3> QED
      BY <3>2, <3>3
  <2> QED
    BY <1>5, <2>1, <2>2, <2>3, <2>4 DEF Inside
<1>6. ASSUME NEW x \in Apps, Program(x) PROVE cds' = cds
  BY <1>6 DEF Program, Open, Read, Signal, Poll, PollTimeout, SetBlocking, IoctlBegin, Close
<1> QED
  BY <1>1, <1>2, <1>3, <1>4, <1>5, <1>6 DEF Next

\* No ioctl of one program ends or takes over a call that another one owns.
THEOREM CallsProtected == Spec => CallProtected
<1> DEFINE Protects ==
      \A a, b \in Apps : \A c \in Calls :
        /\ a # b /\ cds[c].ai = b
        /\ app[a].io = "cntl" /\ app'[a].io = "run"
        => cds'[c] = cds[c]
<1>1. ASSUME AppInv, Next PROVE Protects
  BY <1>1, OthersLeaveIo, IoctlTouches
<1>2. ASSUME AppInv, [Next]_vars PROVE [Protects]_vars
  BY <1>1, <1>2
<1> QED
  BY <1>2, AppInvariance, PTL DEF Spec, CallProtected
=============================================================================
