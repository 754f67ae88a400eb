----------------------------- MODULE CapiDevice -----------------------------
(***************************************************************************)
(* One open /dev/capi20 (struct capi_ai_softc of layer4/i4b_capidrv.c): the *)
(* threads that read, write, poll and close it, and the kernel that puts   *)
(* messages into its queue. Readers and the closing thread sleep on the    *)
(* same condition variable (sc_cv_rdqueue). What happens while the lock of *)
(* the application is held is one action.                                  *)
(***************************************************************************)
EXTENDS Integers, FiniteSets

CONSTANTS
  CapiThreads,  \* threads of the program
  LimitHigh,    \* IFQ_LIMIT_HIGH
  LimitLow,     \* IFQ_LIMIT_LOW
  MaxLost,      \* bound on the failures to get memory
  Nobody

ASSUME CapiDeviceAssumption ==
  LimitHigh \in Nat /\ LimitLow \in 0 .. LimitHigh /\ MaxLost \in Nat /\ Nobody \notin CapiThreads

VARIABLES
  fl,      \* sc_flags: the set of flags that are on
  inq,     \* length of sc_rdqueue
  busy,    \* sc_write_busy
  msg,     \* the thread whose request is in sc_msg and the decoded structures
  pcs,     \* what each thread does
  opens,   \* the share of i4b_open_refcount that this application has
  failures \* failures to get memory

cdVars == <<fl, inq, busy, msg, pcs, opens, failures>>

CapiFlags == {"CLOSING", "RD_WAKEUP", "RD_ENTERED", "WR_ENTERED", "SELECT", "BLOCK", "IOCTL",
              "D_OPEN", "MBUF_LOST"}

\* Those in S after cv_broadcast(&sc->sc_cv_rdqueue)
Broadcast(S) ==
  [t \in CapiThreads |->
     IF S[t] = "read_asleep" THEN "read_awake"
     ELSE IF S[t] = "close_asleep" THEN "close" ELSE S[t]]

Set(t, pc) == [pcs EXCEPT ![t] = pc]

CdInit ==
  /\ fl = {"BLOCK"} /\ inq = 0 /\ busy = FALSE /\ msg = Nobody /\ opens = 0 /\ failures = 0
  /\ pcs = [t \in CapiThreads |-> "idle"]

-----------------------------------------------------------------------------
(* The kernel *)

\* capi_ai_putqueue for one application: drop for CAPI_PUTQUEUE_FLAG_DROP_OK, mem if
\* there is a buffer
PutQueue(drop, mem) ==
  LET full == ~mem \/ inq >= LimitHigh IN
  /\ failures' = IF mem THEN failures ELSE failures + 1
  /\ failures' <= MaxLost
  /\ IF "CLOSING" \in fl \/ (drop /\ (full \/ inq >= LimitLow)) THEN UNCHANGED <<fl, inq, pcs>>
     ELSE IF full THEN fl' = fl \cup {"MBUF_LOST"} /\ UNCHANGED <<inq, pcs>>
     ELSE /\ inq' = inq + 1
          /\ fl' = fl \ {"RD_WAKEUP", "SELECT"}
          /\ LET woken == IF "RD_WAKEUP" \in fl THEN Broadcast(pcs) ELSE pcs IN
             pcs' = [t \in CapiThreads |->
                       IF "SELECT" \in fl /\ woken[t] = "poll_asleep" THEN "idle" ELSE woken[t]]
  /\ UNCHANGED <<busy, msg, opens>>

-----------------------------------------------------------------------------
(* capi_read *)

\* The queue is read, or the thread goes to sleep.
ReadQueue(t, f) ==
  IF inq > 0 THEN inq' = inq - 1 /\ fl' = f /\ pcs' = Set(t, "idle")
  ELSE /\ UNCHANGED inq
       /\ IF "BLOCK" \in f
          THEN fl' = f \cup {"RD_WAKEUP", "RD_ENTERED"} /\ pcs' = Set(t, "read_asleep")
          ELSE fl' = f /\ pcs' = Set(t, "idle")

CapiRead(t) ==
  /\ pcs[t] = "idle" /\ fl \cap {"RD_ENTERED", "CLOSING", "MBUF_LOST"} = {}
  /\ ReadQueue(t, fl)
  /\ UNCHANGED <<busy, msg, opens, failures>>

\* after the sleep, which a signal ends too
ReadOn(t, signal) ==
  /\ pcs[t] = "read_awake" \/ (signal /\ pcs[t] = "read_asleep")
  /\ LET f == fl \ {"RD_WAKEUP", "RD_ENTERED"} IN
     IF "CLOSING" \in f THEN fl' = f /\ pcs' = Broadcast(Set(t, "idle")) /\ UNCHANGED inq
     ELSE IF signal THEN fl' = f /\ pcs' = Set(t, "idle") /\ UNCHANGED inq
     ELSE ReadQueue(t, f)
  /\ UNCHANGED <<busy, msg, opens, failures>>

-----------------------------------------------------------------------------
(* capi_write *)

\* Mutant: sc_write_busy is not looked at.
BugWriteBegin(t) ==
  /\ pcs[t] = "idle"
  /\ busy' = TRUE /\ msg' = t /\ pcs' = Set(t, "copy")
  /\ UNCHANGED <<fl, inq, opens, failures>>

\* the request is copied from the program, without a lock
WriteBegin(t) ==
  /\ pcs[t] = "idle" /\ ~busy
  /\ busy' = TRUE /\ msg' = t /\ pcs' = Set(t, "copy")
  /\ UNCHANGED <<fl, inq, opens, failures>>

\* the request is invalid, or the device is being closed, or it is handled
WriteEnter(t) ==
  /\ pcs[t] = "copy"
  /\ \/ pcs' = Set(t, "leave") /\ UNCHANGED fl
     \/ /\ fl \cap {"WR_ENTERED", "CLOSING"} = {}
        /\ fl' = fl \cup {"WR_ENTERED"} /\ pcs' = Set(t, "handle")
  /\ UNCHANGED <<inq, busy, msg, opens, failures>>

\* the end of the handler
WriteHandled(t) ==
  /\ pcs[t] = "handle"
  /\ fl' = fl \ {"WR_ENTERED"}
  /\ pcs' = IF "CLOSING" \in fl THEN Broadcast(Set(t, "leave")) ELSE Set(t, "leave")
  /\ UNCHANGED <<inq, busy, msg, opens, failures>>

WriteEnd(t) ==
  /\ pcs[t] = "leave"
  /\ busy' = FALSE /\ msg' = Nobody /\ pcs' = Set(t, "idle")
  /\ UNCHANGED <<fl, inq, opens, failures>>

-----------------------------------------------------------------------------
(* capi_ioctl and capi_poll *)

IoctlBegin(t) ==
  /\ pcs[t] = "idle" /\ fl \cap {"IOCTL", "CLOSING"} = {}
  /\ fl' = fl \cup {"IOCTL"} /\ pcs' = Set(t, "ioctl")
  /\ UNCHANGED <<inq, busy, msg, opens, failures>>

\* FIONBIO
SetBlock(t) ==
  /\ pcs[t] = "ioctl" /\ pcs' = Set(t, "ioctl_end")
  /\ fl' = IF "BLOCK" \in fl THEN fl \ {"BLOCK"} ELSE fl \cup {"BLOCK"}
  /\ UNCHANGED <<inq, busy, msg, opens, failures>>

\* CAPI_START_D_CHANNEL_REQ: the flag, and without the lock i4b_update_all_d_channels(1)
StartD(t) ==
  /\ pcs[t] = "ioctl"
  /\ pcs' = Set(t, IF "D_OPEN" \in fl THEN "ioctl_end" ELSE "start")
  /\ fl' = fl \cup {"D_OPEN"}
  /\ UNCHANGED <<inq, busy, msg, opens, failures>>

Started(t) ==
  /\ pcs[t] = "start" /\ pcs' = Set(t, "ioctl_end") /\ opens' = opens + 1
  /\ UNCHANGED <<fl, inq, busy, msg, failures>>

\* any other command changes nothing here
IoctlEnd(t) ==
  /\ pcs[t] \in {"ioctl", "ioctl_end"}
  /\ fl' = fl \ {"IOCTL"}
  /\ pcs' = IF "CLOSING" \in fl THEN Broadcast(Set(t, "idle")) ELSE Set(t, "idle")
  /\ UNCHANGED <<inq, busy, msg, opens, failures>>

\* capi_poll for input; it returns at once if there is a message or one was lost
CapiPoll(t) ==
  /\ pcs[t] = "idle" /\ inq = 0 /\ "MBUF_LOST" \notin fl
  /\ fl' = fl \cup {"SELECT"} /\ pcs' = Set(t, "poll_asleep")
  /\ UNCHANGED <<inq, busy, msg, opens, failures>>

\* a timeout or a signal
PollEnd(t) ==
  /\ pcs[t] = "poll_asleep" /\ pcs' = Set(t, "idle")
  /\ UNCHANGED <<fl, inq, busy, msg, opens, failures>>

-----------------------------------------------------------------------------
(* capi_close *)

InUse == {"RD_WAKEUP", "RD_ENTERED", "WR_ENTERED", "IOCTL"}

CloseBegin(t) ==
  /\ pcs[t] = "idle" /\ "CLOSING" \notin fl
  /\ fl' = fl \cup {"CLOSING"} /\ pcs' = Set(t, "close")
  /\ UNCHANGED <<inq, busy, msg, opens, failures>>

\* wakes the reader and sleeps until nobody uses the device
CapiCloseWait(t) ==
  /\ pcs[t] = "close"
  /\ IF fl \cap InUse # {}
     THEN /\ fl' = fl \ {"RD_WAKEUP"}
          /\ LET S == IF "RD_WAKEUP" \in fl THEN Broadcast(pcs) ELSE pcs IN
             pcs' = [S EXCEPT ![t] = "close_asleep"]
     ELSE UNCHANGED fl /\ pcs' = Set(t, "release")
  /\ UNCHANGED <<inq, busy, msg, opens, failures>>

\* the calls are disconnected, then i4b_update_all_d_channels(0) if the D-channel was
\* started
CloseRelease(t) ==
  /\ pcs[t] = "release" /\ pcs' = Set(t, "drain")
  /\ opens' = IF "D_OPEN" \in fl /\ opens > 0 THEN opens - 1 ELSE opens
  /\ UNCHANGED <<fl, inq, busy, msg, failures>>

CloseDrain(t) ==
  /\ pcs[t] = "drain" /\ pcs' = Set(t, "closed")
  /\ inq' = 0 /\ fl' = fl \ {"D_OPEN"}
  /\ UNCHANGED <<busy, msg, opens, failures>>

-----------------------------------------------------------------------------
ThreadStep(t) ==
  \/ \E signal \in BOOLEAN : ReadOn(t, signal)
  \/ WriteEnter(t) \/ WriteHandled(t) \/ WriteEnd(t)
  \/ SetBlock(t) \/ StartD(t) \/ Started(t) \/ IoctlEnd(t) \/ PollEnd(t)
  \/ CapiCloseWait(t) \/ CloseRelease(t) \/ CloseDrain(t)

CdNext ==
  \/ \E drop, mem \in BOOLEAN : PutQueue(drop, mem)
  \/ \E t \in CapiThreads :
       \/ CapiRead(t) \/ WriteBegin(t) \/ IoctlBegin(t) \/ CapiPoll(t) \/ CloseBegin(t)
       \/ ThreadStep(t)

\* A thread that is not asleep goes on: no handler waits for another thread. Nothing is
\* assumed of signals, timeouts and messages.
CdFair ==
  \A t \in CapiThreads :
    WF_cdVars(\/ ReadOn(t, FALSE) \/ WriteEnter(t) \/ WriteHandled(t) \/ WriteEnd(t)
              \/ SetBlock(t) \/ StartD(t) \/ Started(t) \/ IoctlEnd(t)
              \/ CapiCloseWait(t) \/ CloseRelease(t) \/ CloseDrain(t))

CdSpec == CdInit /\ [][CdNext]_cdVars /\ CdFair

-----------------------------------------------------------------------------
(* Properties *)

CdTypeOK ==
  /\ fl \subseteq CapiFlags /\ inq \in 0 .. LimitHigh /\ busy \in BOOLEAN
  /\ msg \in CapiThreads \cup {Nobody} /\ opens \in Nat /\ failures \in 0 .. MaxLost
  /\ pcs \in [CapiThreads ->
                {"idle", "read_asleep", "read_awake", "copy", "handle", "leave", "ioctl", "start",
                 "ioctl_end", "poll_asleep", "close", "close_asleep", "release", "drain", "closed"}]

Doing(S) == {t \in CapiThreads : pcs[t] \in S}

\* A request that is copied or handled is the one in sc_msg: the structures that
\* capi_write decodes it into, which no lock protects, have one user.
RequestIsOwn == \A t \in Doing({"copy", "handle"}) : msg = t

\* No one sleeps for what has already happened: a reader not while there is a message or
\* the device is being closed and its closer waits, the closer not when nobody uses the
\* device, poll not while there is a message.
NobodySleepsInVain ==
  /\ Doing({"read_asleep"}) # {} => inq = 0 /\ Doing({"close_asleep", "release"}) = {}
  /\ Doing({"close_asleep"}) # {} => fl \cap InUse # {}
  /\ Doing({"poll_asleep"}) # {} => inq = 0

\* The application counts once as long as it has started the D-channel, and not at all
\* after it was closed, whatever start races with the close.
StartsCounted ==
  /\ opens = IF "D_OPEN" \in fl /\ Doing({"start", "drain"}) = {} THEN 1 ELSE 0
  /\ Doing({"closed"}) # {} => opens = 0

\* What the threads of an application share without a lock is not confused.
SharesKept == CdTypeOK /\ RequestIsOwn /\ StartsCounted

\* A close returns: everybody that uses the device lets go of it and says so.
CapiCloseReturns ==
  \A t \in CapiThreads : pcs[t] = "close" ~> pcs[t] = "closed"
=============================================================================
