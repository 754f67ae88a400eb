---------------------------- MODULE AppInterface ----------------------------
(***************************************************************************)
(* The call-control device /dev/i4b (layer4/i4b_i4bdrv.c): the softc of    *)
(* each open file, its message queue, the threads that read, poll, issue   *)
(* ioctls and close, the broadcast of messages to all of them, and the     *)
(* ownership of incoming calls (layer4/i4b_l4.c, i4b_l4mgmt.c).            *)
(*                                                                         *)
(* A step is a stretch of code under one mutex.  The call control below    *)
(* the application interface is cut down to calls that ring, are answered  *)
(* and are freed; Dss1Call has the rest.                                   *)
(***************************************************************************)
EXTENDS Integers, Sequences, FiniteSets, Functions

CONSTANTS
  Apps,      \* places of softcs; a place is used again after free()
  Calls,     \* call descriptors
  QMax,      \* ifq_maxlen of sc_rdqueue (0x80 in the code)
  Loads      \* what programs, drivers and the network may do, see AllUses

\* "short": m_copypacket may fail for want of memory
AllUses == {"read", "poll", "nonblock", "ioctl", "driver", "calls", "short", "quiet"}

ASSUME AppAssumption ==
  /\ IsFiniteSet(Apps) /\ IsFiniteSet(Calls) /\ QMax \in Nat \ {0}
  /\ \A l \in Loads : l \subseteq AllUses
  /\ Apps \cap {"NONE", "BROADCAST", "free", "net"} = {}

VARIABLES
  uses,      \* the load, which never changes
  app,       \* the softcs and the threads inside them
  list,      \* i4b_head
  cds,       \* ai_ptr and connect_ind_count of each call descriptor
  cast,      \* the broadcasts in progress
  cntl,      \* the controller lock: its holder, and what it does next
  dch,       \* i4b_open_refcount, its sx lock, whether the D-channel is up
  quiet      \* no more calls, answers or driver messages: for liveness only

vars == <<uses, app, list, cds, cast, cntl, dch, quiet>>

CONNECT_IND == "CONNECT"
DISCONNECT_IND == "DISCONNECT"
Msg(t, c) == [type |-> t, cd |-> c]
OtherMsg == [type |-> "OTHER", cd |-> "NONE"]
Messages == {Msg(t, c) : t \in {CONNECT_IND, DISCONNECT_IND}, c \in Calls}
              \cup {OtherMsg}

Casters == {"cntl", "drv"}

NoCast == [at |-> "NONE", pc |-> "put", exclude |-> "NONE", msg |-> OtherMsg]
FreeCd == [ai |-> "NONE", count |-> 0]
Unlocked == [by |-> "free", then |-> "none", cd |-> "NONE"]

\* q: how many messages sc_rdqueue holds; view: the calls that a program which reads its
\* whole queue takes to be offered to it or its own; lossy: a message to it was lost.
NewSoftc == [st |-> "none", flags |-> {}, q |-> 0, refs |-> 0,
             rd |-> "out", poll |-> "out", io |-> "out", cl |-> "out",
             view |-> {}, lossy |-> FALSE]

Init ==
  /\ uses \in Loads
  /\ app = [a \in Apps |-> NewSoftc]
  /\ list = <<>>
  /\ cds = [c \in Calls |-> FreeCd]
  /\ cast = [t \in Casters |-> NoCast]
  /\ cntl = Unlocked
  /\ dch = [refs |-> 0, sx |-> "free", up |-> FALSE]
  /\ quiet = FALSE

-----------------------------------------------------------------------------
(* i4b_ai_putqueue *)

Noted(view, m) ==
  CASE m.type = CONNECT_IND -> view \cup {m.cd}
    [] m.type = DISCONNECT_IND -> view \ {m.cd}
    [] OTHER -> view

\* wakeup(&sc->sc_rdqueue)
WakeReader(s) ==
  IF "SLEEP_WAKEUP" \in s.flags
  THEN [s EXCEPT !.flags = @ \ {"SLEEP_WAKEUP"},
                 !.rd = IF @ = "asleep" THEN "awake" ELSE @]
  ELSE s

\* n messages for one softc: nothing once it closes, the oldest entries go if it is full.
PutMessages(s, n, view) ==
  IF "CLOSING" \in s.flags \/ n = 0 THEN s
  ELSE LET full == s.q + n > QMax
           t == [s EXCEPT !.q = IF full THEN QMax ELSE @ + n,
                          !.view = view, !.lossy = @ \/ full]
           w == WakeReader(t)
       IN [w EXCEPT !.poll = IF "SELECT" \in w.flags /\ @ = "asleep" THEN "out" ELSE @,
                    !.flags = @ \ {"SELECT"}]

PutQueue(s, m) == PutMessages(s, 1, Noted(s.view, m))

First == IF list = <<>> THEN "NONE" ELSE Head(list)

Place(a) == CHOOSE i \in DOMAIN list : list[i] = a

After(a) == IF Place(a) = Len(list) THEN "NONE" ELSE list[Place(a) + 1]

Refer(ap, a) == IF a = "NONE" THEN ap ELSE [ap EXCEPT ![a].refs = @ + 1]

\* A broadcast starts at the head of the list, under i4b_global_lock.
CastStart(t, ap, exclude, m) ==
  /\ cast' = [cast EXCEPT ![t] = IF First = "NONE" THEN NoCast
       ELSE [at |-> First, pc |-> "put", exclude |-> exclude, msg |-> m]]
  /\ app' = Refer(ap, First)

\* The message goes into one queue, under the lock of that softc.
CastPut(t) ==
  LET b == cast[t]
  IN /\ b.at # "NONE" /\ b.pc = "put"
     /\ \E copied \in IF "short" \in uses THEN BOOLEAN ELSE {TRUE} :
          LET s == app[b.at]
              put == b.at # b.exclude /\ copied
              kept == put /\ "CLOSING" \notin s.flags
          IN /\ app' = [app EXCEPT ![b.at] =
                          IF put THEN PutQueue(s, b.msg)
                          ELSE [s EXCEPT !.lossy = @ \/ b.at # b.exclude]]
             /\ cds' = IF kept /\ b.msg.type = CONNECT_IND
                       THEN [cds EXCEPT ![b.msg.cd].count = @ + 1] ELSE cds
             /\ cast' = [cast EXCEPT ![t].pc = "next"]
     /\ UNCHANGED <<list, cntl, dch, quiet>>

Onward(b) == IF After(b.at) = "NONE" THEN NoCast
             ELSE [b EXCEPT !.at = After(b.at), !.pc = "put"]

\* The reference moves on to the next softc, under i4b_global_lock.
CastNext(t) ==
  LET b == cast[t]
  IN /\ b.at # "NONE" /\ b.pc = "next"
     /\ app' = Refer([app EXCEPT ![b.at].refs = @ - 1], After(b.at))
     /\ cast' = [cast EXCEPT ![t] = Onward(b)]
     /\ UNCHANGED <<list, cds, cntl, dch, quiet>>

\* i4b_l4_dialout and the like: a driver tells all programs.
DriverMessage ==
  /\ "driver" \in uses /\ ~quiet /\ cast["drv"].at = "NONE"
  /\ CastStart("drv", app, "NONE", OtherMsg)
  /\ UNCHANGED <<list, cds, cntl, dch, quiet>>

-----------------------------------------------------------------------------
(* Calls, under the controller lock. *)

Used(c) == cds[c].ai # "NONE"

\* n_free_cd: the disconnect indication goes to the owner of the call, or to
\* everybody.
Release(who, ap, c) ==
  IF cds[c].ai = "BROADCAST"
  THEN /\ CastStart("cntl", ap, "NONE", Msg(DISCONNECT_IND, c))
       /\ cntl' = [by |-> who, then |-> "free", cd |-> c]
       /\ UNCHANGED cds
  ELSE /\ app' = [ap EXCEPT ![cds[c].ai] = PutQueue(@, Msg(DISCONNECT_IND, c))]
       /\ cds' = [cds EXCEPT ![c] = FreeCd]
       /\ cntl' = Unlocked
       /\ UNCHANGED cast

\* A SETUP message arrives; i4b_l4_connect_ind counts the copies.
IncomingCall(c) ==
  /\ "calls" \in uses /\ ~quiet /\ dch.up /\ cntl.by = "free" /\ ~Used(c)
  /\ cds' = [cds EXCEPT ![c] = [ai |-> "BROADCAST", count |-> 0]]
  /\ cntl' = [by |-> "net", then |-> "offered", cd |-> c]
  /\ CastStart("cntl", app, "NONE", Msg(CONNECT_IND, c))
  /\ UNCHANGED <<list, dch, quiet>>

\* The other end, or a timeout, ends a call.
RemoteRelease(c) ==
  /\ ~quiet /\ dch.up /\ cntl.by = "free" /\ Used(c)
  /\ Release("net", app, c)
  /\ UNCHANGED <<list, dch, quiet>>

Holding(then) == cntl.by # "free" /\ cntl.then = then /\ cast["cntl"].at = "NONE"

\* A call nobody was told of is released.
Offered ==
  /\ Holding("offered")
  /\ IF cds[cntl.cd].count = 0 THEN Release(cntl.by, app, cntl.cd)
     ELSE cntl' = Unlocked /\ UNCHANGED <<app, cds, cast>>
  /\ UNCHANGED <<list, dch, quiet>>

Freed ==
  /\ Holding("free")
  /\ cds' = [cds EXCEPT ![cntl.cd] = FreeCd]
  /\ cntl' = Unlocked
  /\ UNCHANGED <<app, list, cast, dch, quiet>>

\* The others know; now N_CONNECT_RESPONSE.
Responded ==
  /\ \/ Holding("accept") /\ cntl' = Unlocked /\ UNCHANGED <<app, cds, cast>>
     \/ Holding("reject") /\ Release(cntl.by, app, cntl.cd)
  /\ UNCHANGED <<list, dch, quiet>>

-----------------------------------------------------------------------------
(* i4b_ioctl *)

IoctlBegin(a) ==
  /\ "ioctl" \in uses /\ ~quiet /\ app[a].st = "open" /\ app[a].io = "out"
  /\ app[a].flags \cap {"IOCTL", "CLOSING"} = {}
  /\ app' = [app EXCEPT ![a].io = "cntl", ![a].flags = @ \cup {"IOCTL"}]
  /\ UNCHANGED <<list, cds, cast, cntl, dch, quiet>>

\* The softcs once the thread of a has the controller lock.
Entered(a) == [app EXCEPT ![a].io = "run"]

CdidReq(a) ==
  \E c \in Calls :
    /\ dch.up /\ ~Used(c)
    /\ cds' = [cds EXCEPT ![c] = [ai |-> a, count |-> 0]]
    /\ app' = [Entered(a) EXCEPT ![a].view = @ \cup {c}]
    /\ UNCHANGED <<cast, cntl>>

\* Mutant: whose call it is does not matter.
BugMayUse(a, c) == dch.up /\ Used(c)

MayUse(a, c) == dch.up /\ cds[c].ai \in {"BROADCAST", a}

\* Mutant: the others are not told.
BugConnectResp(a, c, response) ==
  IF cds[c].ai = "BROADCAST"
  THEN /\ cds' = [cds EXCEPT ![c].ai = a]
       /\ app' = Entered(a)
       /\ UNCHANGED <<cast, cntl>>
  ELSE /\ response = "reject"
       /\ Release(a, Entered(a), c)

\* I4B_CONNECT_RESP and I4B_LINK_B_CHANNEL_DRIVER_REQ: the first program that
\* responds owns the call, and the others are told that it is gone.
ConnectResp(a, c, response) ==
  IF cds[c].ai = "BROADCAST"
  THEN /\ cds' = [cds EXCEPT ![c].ai = a]
       /\ CastStart("cntl", Entered(a), a, Msg(DISCONNECT_IND, c))
       /\ cntl' = [by |-> a, then |-> response, cd |-> c]
  ELSE /\ response = "reject"
       /\ Release(a, Entered(a), c)

\* SETUP_RESP_DNTCRE
Ignore(a, c) ==
  IF cds[c].count < 2 THEN Release(a, Entered(a), c)
  ELSE /\ cds' = [cds EXCEPT ![c].count = @ - 1]
       /\ app' = Entered(a)
       /\ UNCHANGED <<cast, cntl>>

\* I4B_CONNECT_REPLAY_REQ
Replay(a, c) ==
  /\ cds[c].ai = "BROADCAST"
  /\ app' = [Entered(a) EXCEPT ![a] = PutQueue(@, Msg(CONNECT_IND, c))]
  /\ UNCHANGED <<cds, cast, cntl>>

\* One command; most have no effect here.
IoctlRun(a) ==
  /\ app[a].io = "cntl" /\ cntl.by = "free"
  /\ \/ CdidReq(a)
     \/ \E c \in Calls :
          /\ MayUse(a, c)
          /\ \/ \E response \in {"accept", "reject"} : ConnectResp(a, c, response)
             \/ Ignore(a, c)
             \/ Release(a, Entered(a), c)
             \/ Replay(a, c)
     \/ app' = Entered(a) /\ UNCHANGED <<cds, cast, cntl>>
  /\ UNCHANGED <<list, dch, quiet>>

WakeCloser(s) ==
  IF "CLOSING" \in s.flags /\ s.cl = "asleep" THEN [s EXCEPT !.cl = "loop"] ELSE s

IoctlEnd(a) ==
  /\ app[a].io = "run" /\ cntl.by # a
  /\ app' = [app EXCEPT ![a] =
       WakeCloser([app[a] EXCEPT !.io = "out", !.flags = @ \ {"IOCTL"}])]
  /\ UNCHANGED <<list, cds, cast, cntl, dch, quiet>>

-----------------------------------------------------------------------------
(* i4b_read and i4b_poll *)

Asleep == {"SLEEP_WAKEUP", "SLEEP_ENTERED"}

\* The body of the loop: take a message, sleep, or give up.
ReadLoop(s) ==
  CASE s.q > 0 -> [s EXCEPT !.q = @ - 1, !.rd = "out"]
    [] s.q = 0 /\ "BLOCK" \in s.flags ->
         [s EXCEPT !.flags = @ \cup Asleep, !.rd = "asleep"]
    [] OTHER -> [s EXCEPT !.rd = "out"]

Read(a) ==
  /\ "read" \in uses /\ app[a].st = "open" /\ app[a].rd = "out"
  /\ app[a].flags \cap {"SLEEP_ENTERED", "CLOSING"} = {}
  /\ app' = [app EXCEPT ![a] = ReadLoop(@)]
  /\ UNCHANGED <<list, cds, cast, cntl, dch, quiet>>

Signal(a) ==
  /\ app[a].rd = "asleep"
  /\ app' = [app EXCEPT ![a].rd = "signal"]
  /\ UNCHANGED <<list, cds, cast, cntl, dch, quiet>>

\* msleep returns.
ReadWoken(a) ==
  LET s == [app[a] EXCEPT !.flags = @ \ Asleep]
  IN /\ s.rd \in {"awake", "signal"}
     /\ app' = [app EXCEPT ![a] = IF "CLOSING" \in s.flags \/ s.rd = "signal"
                                  THEN WakeCloser([s EXCEPT !.rd = "out"])
                                  ELSE ReadLoop(s)]
     /\ UNCHANGED <<list, cds, cast, cntl, dch, quiet>>

Poll(a) ==
  /\ "poll" \in uses /\ ~quiet
  /\ app[a].st = "open" /\ app[a].cl = "out" /\ app[a].poll = "out"
  /\ app[a].q = 0
  /\ app' = [app EXCEPT ![a].poll = "asleep", ![a].flags = @ \cup {"SELECT"}]
  /\ UNCHANGED <<list, cds, cast, cntl, dch, quiet>>

PollTimeout(a) ==
  /\ app[a].poll = "asleep"
  /\ app' = [app EXCEPT ![a].poll = "out"]
  /\ UNCHANGED <<list, cds, cast, cntl, dch, quiet>>

\* FIONBIO
SetBlocking(a) ==
  /\ "nonblock" \in uses /\ ~quiet /\ app[a].st = "open" /\ app[a].cl = "out"
  /\ app' = [app EXCEPT ![a].flags = IF "BLOCK" \in @ THEN @ \ {"BLOCK"}
                                     ELSE @ \cup {"BLOCK"}]
  /\ UNCHANGED <<list, cds, cast, cntl, dch, quiet>>

-----------------------------------------------------------------------------
(* i4b_open, i4b_close, i4b_ai_free_softc, i4b_update_all_d_channels *)

Open(a) ==
  /\ ~quiet /\ app[a].st = "none"
  /\ app' = [app EXCEPT ![a] = [NewSoftc EXCEPT !.st = "opening", !.flags = {"BLOCK"}]]
  /\ list' = Append(list, a)
  /\ UNCHANGED <<cds, cast, cntl, dch, quiet>>

Updating(a) == app[a].st = "opening" \/ app[a].cl = "dchan"

\* Count the program, under the sx lock.
DchCount(a) ==
  /\ Updating(a) /\ dch.sx = "free"
  /\ dch' = [dch EXCEPT !.sx = a,
                        !.refs = IF app[a].st = "opening" THEN @ + 1
                                 ELSE IF @ # 0 THEN @ - 1 ELSE 0]
  /\ UNCHANGED <<app, list, cds, cast, cntl, quiet>>

UpdateDone(s) == IF s.st = "opening" THEN [s EXCEPT !.st = "open"]
                 ELSE [s EXCEPT !.cl = "drain"]

\* The D-channel goes down: dss1_setup_ft frees every call.  i4b_setup_driver
\* holds i4b_global_lock, so that a broadcast is not interrupted.
Told(s, a) ==
  LET gone == {c \in Calls : cds[c].ai \in {"BROADCAST", a}}
  IN PutMessages(s, Cardinality(gone), s.view \ gone)

\* Mutant: the D-channel driver is detached one program too early.
BugDchUpdate(a) ==
  LET attach == dch.refs = 1 /\ app[a].st = "opening"
      detach == dch.refs < 2 /\ app[a].st # "opening"
  IN /\ Updating(a) /\ dch.sx = a
     /\ attach \/ detach => cntl.by = "free"
     /\ dch' = [dch EXCEPT !.sx = "free", !.up = (@ \/ attach) /\ ~detach]
     /\ app' = [app EXCEPT ![a] = UpdateDone(@)]
     /\ UNCHANGED <<list, cds, cast, cntl, quiet>>

\* The first program attaches the D-channel driver, the last one detaches it.
DchUpdate(a) ==
  LET attach == dch.refs = 1 /\ app[a].st = "opening"
      detach == dch.refs = 0
  IN /\ Updating(a) /\ dch.sx = a
     /\ attach \/ detach => cntl.by = "free"
     /\ dch' = [dch EXCEPT !.sx = "free", !.up = (@ \/ attach) /\ ~detach]
     /\ cds' = IF detach THEN [c \in Calls |-> FreeCd] ELSE cds
     /\ app' = [x \in Apps |->
          LET s == IF detach /\ app[x].st # "none" THEN Told(app[x], x) ELSE app[x]
          IN IF x = a THEN UpdateDone(s) ELSE s]
     /\ UNCHANGED <<list, cast, cntl, quiet>>

\* Wait until no thread sleeps in i4b_read or runs i4b_ioctl.
CloseLoop(s) ==
  IF s.flags \cap {"SLEEP_WAKEUP", "SLEEP_ENTERED", "IOCTL"} # {}
  THEN [WakeReader(s) EXCEPT !.cl = "asleep"]
  ELSE [s EXCEPT !.cl = "calls"]

Close(a) ==
  /\ \/ app[a].st = "open" /\ app[a].cl = "out"
     \/ app[a].cl = "loop"
  /\ app' = [app EXCEPT ![a] = CloseLoop([app[a] EXCEPT !.flags = @ \cup {"CLOSING"}])]
  /\ UNCHANGED <<list, cds, cast, cntl, dch, quiet>>

\* i4b_disconnect_by_appl_interface.  The softc takes no more messages.
CloseCalls(a) ==
  /\ app[a].cl = "calls" /\ cntl.by = "free"
  /\ cds' = [c \in Calls |-> IF dch.up /\ cds[c].ai = a THEN FreeCd ELSE cds[c]]
  /\ app' = [app EXCEPT ![a].cl = "dchan"]
  /\ UNCHANGED <<list, cast, cntl, dch, quiet>>

CloseDrain(a) ==
  /\ app[a].cl = "drain"
  /\ app' = [app EXCEPT ![a].cl = "closed", ![a].q = 0]
  /\ UNCHANGED <<list, cds, cast, cntl, dch, quiet>>

\* Mutant: the references are not looked at.
BugFreeSoftc(a) ==
  /\ app[a].cl = "closed"
  /\ app' = [app EXCEPT ![a] = NewSoftc]
  /\ list' = SubSeq(list, 1, Place(a) - 1) \o SubSeq(list, Place(a) + 1, Len(list))
  /\ UNCHANGED <<cds, cast, cntl, dch, quiet>>

\* The destructor runs after the last close of the file.
FreeSoftc(a) ==
  /\ app[a].cl = "closed" /\ app[a].refs = 0
  /\ app' = [app EXCEPT ![a] = NewSoftc]
  /\ list' = SubSeq(list, 1, Place(a) - 1) \o SubSeq(list, Place(a) + 1, Len(list))
  /\ UNCHANGED <<cds, cast, cntl, dch, quiet>>

BecomeQuiet == /\ "quiet" \in uses /\ ~quiet /\ quiet' = TRUE
               /\ UNCHANGED <<app, list, cds, cast, cntl, dch>>

-----------------------------------------------------------------------------

Network == \E c \in Calls : IncomingCall(c) \/ RemoteRelease(c)

Casting == \E t \in Casters : CastPut(t) \/ CastNext(t)

LockHolder == Offered \/ Freed \/ Responded

\* What a thread of program a does once it is inside the driver.
Inside(a) == \/ IoctlRun(a) \/ IoctlEnd(a) \/ ReadWoken(a)
             \/ DchCount(a) \/ DchUpdate(a)
             \/ app[a].cl = "loop" /\ Close(a)
             \/ CloseCalls(a) \/ CloseDrain(a) \/ FreeSoftc(a)

Program(a) == \/ Open(a) \/ Read(a) \/ Signal(a) \/ Poll(a) \/ PollTimeout(a)
              \/ SetBlocking(a) \/ IoctlBegin(a)
              \/ app[a].cl = "out" /\ Close(a)

Next == /\ UNCHANGED uses
        /\ \/ Network \/ DriverMessage \/ Casting \/ LockHolder
           \/ \E a \in Apps : Inside(a) \/ Program(a)
           \/ BecomeQuiet

Spec == Init /\ [][Next]_vars

\* Threads inside the kernel run; no program need call it.
Fairness ==
  /\ \A t \in Casters : /\ WF_vars(UNCHANGED uses /\ CastPut(t))
                        /\ WF_vars(UNCHANGED uses /\ CastNext(t))
  /\ WF_vars(UNCHANGED uses /\ LockHolder)
  /\ \A a \in Apps :
       /\ WF_vars(UNCHANGED uses /\ IoctlRun(a))
       /\ WF_vars(UNCHANGED uses /\ IoctlEnd(a))
       /\ WF_vars(UNCHANGED uses /\ ReadWoken(a))
       /\ WF_vars(UNCHANGED uses /\ DchCount(a))
       /\ WF_vars(UNCHANGED uses /\ DchUpdate(a))
       /\ WF_vars(UNCHANGED uses /\ app[a].cl = "loop" /\ Close(a))
       /\ WF_vars(UNCHANGED uses /\ CloseCalls(a))
       /\ WF_vars(UNCHANGED uses /\ CloseDrain(a))
       /\ WF_vars(UNCHANGED uses /\ FreeSoftc(a))

FairSpec == Spec /\ Fairness

-----------------------------------------------------------------------------
(* Properties. *)

Owners == {"NONE", "BROADCAST"} \cup Apps

\* Type invariant of the softcs, the calls and the locks.
TypeOK ==
  /\ uses \in Loads
  /\ app \in [Apps ->
       [st : {"none", "opening", "open"},
        flags : SUBSET {"CLOSING", "SLEEP_WAKEUP", "SLEEP_ENTERED", "SELECT",
                        "IOCTL", "BLOCK"},
        q : 0 .. QMax, refs : 0 .. Cardinality(Casters),
        rd : {"out", "asleep", "awake", "signal"}, poll : {"out", "asleep"},
        io : {"out", "cntl", "run"},
        cl : {"out", "loop", "asleep", "calls", "dchan", "drain", "closed"},
        view : SUBSET Calls, lossy : BOOLEAN]]
  /\ list \in Seq(Apps)
  /\ cds \in [Calls -> [ai : Owners, count : 0 .. Cardinality(Apps)]]
  /\ cntl.by \in Apps \cup {"free", "net"}
  /\ dch \in [refs : 0 .. Cardinality(Apps), sx : Apps \cup {"free"}, up : BOOLEAN]

\* A broadcast that is under way and a call both refer to softcs that are not
\* freed, and a softc is not freed under a broadcast (i4b_ai_putqueue,
\* i4b_ai_free_softc, i4b_disconnect_by_appl_interface).
NoUseAfterFree ==
  /\ \A t \in Casters : cast[t].at # "NONE" =>
       cast[t].at \in Range(list) /\ app[cast[t].at].refs > 0
  /\ \A c \in Calls : cds[c].ai \in Apps =>
       app[cds[c].ai].cl \in {"out", "loop", "asleep", "calls"}
         /\ app[cds[c].ai].st = "open"

\* Programs hear of what happens.  A thread that sleeps in i4b_read or in poll does so
\* on an empty queue: no message is put without waking it.  And with the controller
\* unlocked a program that lost no message knows of no call but those that still ring
\* for everybody and its own: when another program answers, or the call ends, it has
\* been told.
ProgramsInformed ==
  TypeOK /\ \A a \in Apps :
    /\ app[a].rd = "asleep" \/ app[a].poll = "asleep" => app[a].q = 0
    /\ cntl.by = "free" /\ app[a].st = "open" /\ app[a].cl = "out" /\ ~app[a].lossy
         => \A c \in Calls \cap app[a].view : cds[c].ai \in {"BROADCAST", a}

\* No ioctl of one program ends or takes over a call that another one owns (the check
\* of ai_type and ai_ptr in i4b_ioctl).
CallProtected ==
  [][\A a, b \in Apps : \A c \in Calls :
       /\ a # b /\ cds[c].ai = b
       /\ app[a].io = "cntl" /\ app'[a].io = "run"
       => cds'[c] = cds[c]]_vars

\* The D-channel is up exactly while a program has the device open, whatever
\* the order in which programs open and close it (i4b_open_refcount).
DchannelFollows ==
  dch.sx = "free" =>
    /\ dch.up = (dch.refs > 0)
    /\ dch.refs = Cardinality({a \in Apps : app[a].st = "open"
                                  /\ app[a].cl \notin {"drain", "closed"}})

\* Once no new messages arrive every close of the device comes to its end: no
\* reader, ioctl or broadcast keeps it waiting.
CloseEnds == \A a \in Apps : quiet /\ app[a].cl # "out" ~> app[a].st = "none"
=============================================================================
