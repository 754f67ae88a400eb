------------------------------- MODULE Isdnd -------------------------------
(***************************************************************************)
(* The call control of the daemon isdnd (usr.sbin/i4b/isdnd/fsm.c and      *)
(* msg_decoder.h).  The daemon holds a table of configuration entries; an  *)
(* entry dials, answers, rejects or calls back for one driver.  It is      *)
(* single-threaded: it reads one message at a time from /dev/i4b, and      *)
(* when there is none handle_recovery runs the timers of the entries.  Its *)
(* requests (ioctl) act on the kernel at once, while what the kernel has   *)
(* to say waits in the queue `q`: messages about a call are read after the *)
(* daemon has changed its mind about it.                                   *)
(*                                                                         *)
(* The kernel is abstracted to the life of a call as its user sees it; the *)
(* modules Dss1Call and AppInterface model that side in detail.            *)
(*                                                                         *)
(* Left out: logging, accounting, charging, the display, program execution *)
(* and the choice of the next telephone number.  A timer may fire at any   *)
(* moment after it is started.                                             *)
(***************************************************************************)
EXTENDS Integers, Sequences, FiniteSets

CONSTANTS
  N,          \* number of configuration entries (nentries)
  Sites,      \* the installations of the instance, see Installations
  CallCount,  \* most calls, incoming and outgoing, of a behaviour
  Requests    \* most requests of drivers that are queued at a time

Entries == 1..N
Calls == 1..CallCount
CDID_UNUSED == 0

Config ==
  [react   : {"ACCEPT", "REJECT", "ALERT", "IGNORE", "ANSWER", "CALLBACK"},
   inout   : {"INOUT", "INONLY", "OUTONLY"},
   calledback : BOOLEAN,    \* dialouttype is DIALOUT_CALLEDBACK
   alert   : BOOLEAN,       \* the alert time is not zero
   retries : Int,           \* dialretries, -1 for ever
   usedown : BOOLEAN,
   maxconnect : BOOLEAN,    \* maxconnecttime is not zero
   timed   : BOOLEAN,       \* the entry is valid at certain times only
   need    : Nat,           \* digits that its number has
   budget  : Nat]           \* calls per budget period, 0 for no limit

\* The table of entries, the requests that its drivers make, how many digits of
\* the called number arrive one by one, and the number of calls.
Installations ==
  [table  : [Entries -> Config],
   asks   : SUBSET {"DIALOUT_IND", "DRVRDISC_REQ", "DRVRANSWER_REQ", "DRVRREJECT_REQ"},
   digits : Nat, calls : Nat]

ASSUME ConfigAssumption ==
  /\ N \in Nat /\ CallCount \in Nat /\ Requests \in Nat
  /\ \A s \in Sites : s \in Installations /\ s.calls <= CallCount

VARIABLES
  site,  \* the installation, which never changes
  cep,   \* cep[e]: the entry's state, call, timer, counters and last answer
  kern,  \* kern[c]: what the kernel knows of call c
  q,     \* messages that isdnd has not read
  drained, \* a read found the queue empty: the loop goes on to the timers
  spent  \* spent[e]: outgoing calls of an entry with a budget in this period

vars == <<site, cep, kern, q, drained, spent>>

Cfg == site.table
Asks == site.asks
Digits == site.digits

States == {"IDLE", "DIAL", "DIAL_FAIL", "INCOMING", "WAIT_CONNECT", "CONNECTED"}
Answers == {"NONE", "CONNECTED", "NOT_CONNECTED", "INCOMING_CALL", "TFAIL",
            "PFAIL", "INONLY", "NO_ENTRY"}

NewEntry(e) ==
  [state |-> "IDLE", cdid |-> CDID_UNUSED, waitfunc |-> 0, due |-> FALSE, dials |-> 0,
   incoming |-> FALSE, budgeted |-> FALSE, left |-> 0,
   told |-> "NONE"]

Init ==
  /\ site \in Sites
  /\ cep = [e \in Entries |-> NewEntry(e)]
  /\ kern = [c \in Calls |-> [state |-> "free", digits |-> 0]]
  /\ q = << >>
  /\ drained = FALSE
  /\ spent = [e \in Entries |-> 0]

-----------------------------------------------------------------------------
(* The kernel, as the requests of the daemon change it.  A world `w` holds *)
(* the part of the state that a handler works on.                          *)

World == [cep |-> cep, kern |-> kern, q |-> q]

CallMsg(type, c) == [type |-> type, cdid |-> c, digits |-> 0]

Post(w, m) == [w EXCEPT !.q = Append(@, m)]

Live(w, c) == c \in Calls /\ w.kern[c].state \notin {"free", "gone"}

\* The kernel frees the call and tells its owner (N_FREE_CD).
FreeCall(w, c) ==
  Post([w EXCEPT !.kern[c].state = "gone"], CallMsg("DISCONNECT_IND", c))

DisconnectReq(w, c) == IF Live(w, c) THEN FreeCall(w, c) ELSE w

\* SETUP_RESP_ACCEPT has an effect on a call that was not answered only.
AcceptResp(w, c) ==
  IF c \in Calls /\ w.kern[c].state = "ringing"
  THEN [w EXCEPT !.kern[c].state = "taken"]
  ELSE w

\* SETUP_RESP_REJECT ends the call in every state.
RejectResp(w, c) == IF Live(w, c) THEN FreeCall(w, c) ELSE w

ConnectInd(w, c) ==
  Post(w, [type |-> "CONNECT_IND", cdid |-> c, digits |-> w.kern[c].digits])

\* The kernel repeats the indication while nobody has taken the call.
ReplayReq(w, c) ==
  IF w.kern[c].state = "ringing" THEN ConnectInd(w, c) ELSE w

FreeCdids(w) == {c \in 1..site.calls : w.kern[c].state = "free"}
NextCdid(w) == CHOOSE c \in FreeCdids(w) : \A d \in FreeCdids(w) : c <= d

-----------------------------------------------------------------------------
(* What a handler does to one entry `r`.                                   *)

SetState(r, state, waitfunc) ==
  [r EXCEPT !.state = state, !.waitfunc = waitfunc, !.due = FALSE]

Respond(r, status) == [r EXCEPT !.told = status]

\* Mutant: the last failure starts no timer.
BugDialFailed(e, r) ==
  LET n == IF Cfg[e].retries = -1 THEN 0 ELSE r.dials + 1
      s == [r EXCEPT !.dials = n]
  IN IF n < Cfg[e].retries \/ Cfg[e].retries = -1
     THEN SetState(s, "DIAL_FAIL", 2)
     ELSE IF Cfg[e].usedown
     THEN SetState(Respond(s, "PFAIL"), "DIAL_FAIL", 0)
     ELSE SetState(Respond(s, "TFAIL"), "IDLE", 0)

\* The count only matters while the number of retries is limited.
DialFailed(e, r) ==
  LET n == IF Cfg[e].retries = -1 THEN 0 ELSE r.dials + 1
      s == [r EXCEPT !.dials = n]
  IN IF n < Cfg[e].retries \/ Cfg[e].retries = -1
     THEN SetState(s, "DIAL_FAIL", 2)
     ELSE IF Cfg[e].usedown
     THEN SetState(Respond(s, "PFAIL"), "DIAL_FAIL", 1)
     ELSE SetState(Respond(s, "TFAIL"), "IDLE", 0)

Disconnected(r) == SetState(Respond(r, "NOT_CONNECTED"), "IDLE", 0)

Dropped(e, r) ==
  LET s == CASE r.state = "DIAL" -> DialFailed(e, r)
             [] r.state \in {"CONNECTED", "INCOMING", "WAIT_CONNECT"} -> Disconnected(r)
             [] OTHER -> r
  IN [s EXCEPT !.cdid = CDID_UNUSED]

-----------------------------------------------------------------------------
(* The events of fsm.c.                                                    *)

\* Every entry of call c, but the exception, learns that c is over.
EvDisconnectFromI4b(w, c, exception) ==
  [w EXCEPT !.cep = [e \in Entries |->
     IF w.cep[e].cdid = c /\ e # exception THEN Dropped(e, w.cep[e])
                                           ELSE w.cep[e]]]

\* Mutant: a call that was just answered is not ended.
BugEvDisconnectFromUser(w, e) ==
  LET v == IF w.cep[e].state \in {"DIAL", "CONNECTED"}
           THEN DisconnectReq(w, w.cep[e].cdid)
           ELSE w
  IN [v EXCEPT !.cep[e] = [Disconnected(@) EXCEPT !.cdid = CDID_UNUSED]]

EvDisconnectFromUser(w, e) ==
  LET v == IF w.cep[e].state \in {"DIAL", "WAIT_CONNECT", "CONNECTED"}
           THEN DisconnectReq(w, w.cep[e].cdid)
           ELSE w
  IN [v EXCEPT !.cep[e] = [Disconnected(@) EXCEPT !.cdid = CDID_UNUSED]]

EvRejectFromUser(w, e) ==
  IF w.cep[e].state = "INCOMING"
  THEN LET c == w.cep[e].cdid
       IN EvDisconnectFromI4b(RejectResp(w, c), c, 0)
  ELSE w

EvConnectFromUser(w, e) ==
  IF w.cep[e].state = "INCOMING"
  THEN LET c == w.cep[e].cdid
           v == [AcceptResp(w, c) EXCEPT !.cep[e] = SetState(@, "WAIT_CONNECT", 1)]
       IN EvDisconnectFromI4b(v, c, e)
  ELSE w

\* The handlers of fsm.c are shown with the choices of the environment that
\* they meet: `o.valid`, the entries that are valid at this time of day, and
\* `o.nochan`, whether the kernel finds no B-channel.
SendConnectReq(w, e, o) ==
  LET c == NextCdid(w)
      v == [w EXCEPT !.cep[e].cdid = c, !.kern[c].state = "calling"]
  IN IF o.nochan THEN FreeCall(v, c) ELSE v

DialCode(w, e, o) ==
  IF Cfg[e].inout = "INONLY"
  THEN [w EXCEPT !.cep[e] = SetState(Respond(@, "INONLY"), "IDLE", 0)]
  ELSE IF e \notin o.valid
  THEN [w EXCEPT !.cep[e] = SetState(Respond(@, "NO_ENTRY"), "IDLE", 0)]
  ELSE LET u == [w EXCEPT !.cep[e].incoming = FALSE]
       IN IF FreeCdids(u) = {}
          THEN [u EXCEPT !.cep[e] = DialFailed(e, [@ EXCEPT !.cdid = CDID_UNUSED])]
          ELSE [SendConnectReq(u, e, o) EXCEPT !.cep[e] = SetState(@, "DIAL", 0)]

EvDialFromUser(w, e, o) ==
  LET limited == Cfg[e].budget > 0
      v == [w EXCEPT !.cep[e].budgeted = limited /\ w.cep[e].left # 0,
                     !.cep[e].dials = 0]
  IN IF w.cep[e].state # "IDLE" THEN w
     ELSE IF limited /\ w.cep[e].left = 0
     THEN [v EXCEPT !.cep[e] = DialFailed(e, @)]
     ELSE IF Cfg[e].react = "CALLBACK"
     THEN [v EXCEPT !.cep[e] = SetState(@, "DIAL_FAIL", 2)]
     ELSE DialCode(v, e, o)

EvDialFromI4b(w, e, o) ==
  IF w.cep[e].state = "DIAL_FAIL" THEN DialCode(w, e, o) ELSE w

CepIsCalledBack(e) == Cfg[e].react = "ACCEPT" /\ Cfg[e].calledback

\* The entry of the call that the table holds first (get_cep_by_cdid).
GetCepByCdid(w, c) ==
  LET held == {e \in Entries : w.cep[e].cdid = c}
  IN IF held = {} THEN 0 ELSE CHOOSE e \in held : \A f \in held : e <= f

\* Mutant: the call is not paid for.
BugConnected(e, r) ==
  SetState(Respond(r, "CONNECTED"), "CONNECTED", IF Cfg[e].maxconnect THEN 1 ELSE 0)

\* The entry connects; an outgoing call is paid from the budget.
Connected(e, r) ==
  LET s == SetState(Respond(r, "CONNECTED"), "CONNECTED",
                    IF Cfg[e].maxconnect THEN 1 ELSE 0)
  IN IF ~r.incoming /\ r.budgeted
     THEN [s EXCEPT !.left = @ - 1, !.budgeted = FALSE]
     ELSE s

EvConnectFromI4b(w, c) ==
  LET e == GetCepByCdid(w, c)
      v == IF w.cep[e].state = "DIAL" /\ CepIsCalledBack(e)
           THEN EvDisconnectFromUser(w, e) ELSE w
  IN IF e = 0 THEN w
     ELSE IF v.cep[e].state \in {"WAIT_CONNECT", "DIAL"}
     THEN [v EXCEPT !.cep[e] = Connected(e, @)]
     ELSE v

NumberMatches(m, e, o) == Cfg[e].need <= m.digits /\ e \in o.valid

\* What entry e does with an incoming call that its number matches, and
\* whether the walk over the table ends there.
React(w, e, c, o) ==
  LET v == [w EXCEPT !.cep[e] = [SetState(@, "INCOMING", 3) EXCEPT
                                   !.cdid = c, !.incoming = TRUE]]
      ring == [v EXCEPT !.cep[e] = Respond(@, "INCOMING_CALL")]
      react == Cfg[e].react
  IN CASE react = "ACCEPT"   -> [w |-> EvConnectFromUser(v, e), done |-> TRUE]
       [] react = "REJECT"   -> [w |-> EvRejectFromUser(v, e), done |-> TRUE]
       [] react = "ALERT"    -> [w |-> [ring EXCEPT !.cep[e].waitfunc = 0], done |-> FALSE]
       [] react = "IGNORE"   -> [w |-> EvDisconnectFromUser(v, e), done |-> FALSE]
       [] react = "ANSWER"   -> IF Cfg[e].alert
                                THEN [w |-> ring, done |-> FALSE]
                                ELSE [w |-> EvConnectFromUser(v, e), done |-> TRUE]
       [] react = "CALLBACK" -> [w |-> EvDialFromUser(EvRejectFromUser(v, e), e, o),
                                 done |-> TRUE]

\* One turn of the walk over the table for the CONNECT_IND m.
Offer(w, e, m, o) ==
  IF Cfg[e].inout = "OUTONLY" \/ ~NumberMatches(m, e, o)
  THEN [w |-> w, done |-> FALSE]
  ELSE IF w.cep[e].state \in {"IDLE", "DIAL_FAIL"} THEN React(w, e, m.cdid, o)
  ELSE IF CepIsCalledBack(e) THEN React(EvDisconnectFromUser(w, e), e, m.cdid, o)
  ELSE [w |-> w, done |-> FALSE]

EvIncomingFromI4b(w, m, o) ==
  LET walk[e \in 0..N] ==
        IF e = 0 THEN [w |-> w, done |-> FALSE]
        ELSE IF walk[e - 1].done THEN walk[e - 1]
        ELSE Offer(walk[e - 1].w, e, m, o)
  IN walk[N].w

Handle(w, m, o) ==
  CASE m.type = "CONNECT_IND"        -> EvIncomingFromI4b(w, m, o)
    [] m.type = "INFORMATION_IND"    -> ReplayReq(w, m.cdid)
    [] m.type = "CONNECT_ACTIVE_IND" -> EvConnectFromI4b(w, m.cdid)
    [] m.type = "DISCONNECT_IND"     -> EvDisconnectFromI4b(w, m.cdid, 0)
    [] m.type = "DIALOUT_IND"        -> EvDialFromUser(w, m.cdid, o)
    [] m.type = "DRVRDISC_REQ"       -> EvDisconnectFromUser(w, m.cdid)
    [] m.type = "DRVRANSWER_REQ"     -> EvConnectFromUser(w, m.cdid)
    [] m.type = "DRVRREJECT_REQ"     -> EvRejectFromUser(w, m.cdid)

-----------------------------------------------------------------------------
(* The steps of the daemon.                                                *)

Choices == [valid : {Entries \ late : late \in SUBSET {e \in Entries : Cfg[e].timed}},
            nochan : BOOLEAN]

Became(e, w, state) == w.cep[e].state = state /\ cep[e].state # state

Commit(w) ==
  /\ cep' = w.cep
  /\ kern' = w.kern
  /\ q' = w.q
  /\ spent' = [e \in Entries |->
                 IF Cfg[e].budget > 0 /\ Became(e, w, "CONNECTED") /\ ~w.cep[e].incoming
                 THEN spent[e] + 1 ELSE spent[e]]

\* isdnrdhdl: one message is read and handled.
ReadMessage ==
  /\ ~drained
  /\ q # << >>
  /\ \E o \in Choices : Commit(Handle([World EXCEPT !.q = Tail(@)], Head(q), o))
  /\ UNCHANGED drained

\* isdnrdhdl returns when there is nothing to read.
ReadNothing ==
  /\ ~drained
  /\ q = << >>
  /\ drained' = TRUE
  /\ UNCHANGED <<cep, kern, q, spent>>

\* A call is hung up by the operator, from the screen or a monitor, or since
\* the program that answers it has ended.
Hangup(e) ==
  /\ cep[e].state = "CONNECTED"
  /\ drained \/ Cfg[e].react = "ANSWER"
  /\ Commit(EvDisconnectFromUser(World, e))
  /\ UNCHANGED drained

\* The configuration is read again: all calls are closed, then the table is
\* built anew.
Reread ==
  /\ drained
  /\ LET walk[e \in 0..N] ==
           IF e = 0 THEN World ELSE EvDisconnectFromUser(walk[e - 1], e)
         w == walk[N]
     IN /\ cep' = [e \in Entries |-> [NewEntry(e) EXCEPT !.told = w.cep[e].told]]
        /\ kern' = w.kern
        /\ q' = w.q
        /\ spent' = [e \in Entries |-> 0]
  /\ UNCHANGED drained

\* The wait time of entry e is over.
Expire(e) ==
  /\ cep[e].waitfunc # 0
  /\ ~cep[e].due
  /\ cep' = [cep EXCEPT ![e].due = TRUE]
  /\ UNCHANGED <<kern, q, drained, spent>>

\* One turn of the walk of handle_recovery; `o.renew` holds the entries that
\* begin a new budget period.  After a timeout the walk ends.
Recover(w, e, o) ==
  LET v == IF e \in o.renew THEN [w EXCEPT !.cep[e].left = Cfg[e].budget] ELSE w
      f == IF v.cep[e].due THEN v.cep[e].waitfunc ELSE 0
  IN CASE f = 0 -> [w |-> v, done |-> FALSE]
       [] f = 1 -> [w |-> EvDisconnectFromUser(v, e), done |-> TRUE]
       [] f = 2 -> [w |-> EvDialFromI4b(v, e, o), done |-> FALSE]
       [] f = 3 -> [w |-> EvConnectFromUser(v, e), done |-> FALSE]

\* How far the walk came, and what it did.
Walk(o) ==
  LET walk[e \in 0..N] ==
        IF e = 0 THEN [w |-> World, done |-> FALSE, renewed |-> {}]
        ELSE IF walk[e - 1].done THEN walk[e - 1]
        ELSE LET t == Recover(walk[e - 1].w, e, o)
             IN [w |-> t.w, done |-> t.done,
                 renewed |-> walk[e - 1].renewed \cup ({e} \cap o.renew)]
  IN walk[N]

Renewals == SUBSET {e \in Entries : Cfg[e].budget > 0}

HandleRecovery ==
  /\ drained
  /\ drained' = FALSE
  /\ \E c \in Choices, renew \in Renewals :
       LET end == Walk([valid |-> c.valid, nochan |-> c.nochan, renew |-> renew])
       IN /\ cep' = end.w.cep
          /\ kern' = end.w.kern
          /\ q' = end.w.q
          /\ spent' = [e \in Entries |-> IF e \in end.renewed THEN 0 ELSE spent[e]]

-----------------------------------------------------------------------------
(* The steps of the kernel and of the drivers.                             *)

\* An incoming call is broadcast; it may have some of its digits already.
IncomingCall ==
  /\ FreeCdids(World) # {}
  /\ \E d \in 0..Digits :
       LET c == NextCdid(World)
       IN Commit(ConnectInd([World EXCEPT !.kern[c] = [state |-> "ringing", digits |-> d]], c))
  /\ UNCHANGED drained

\* Another digit of the called number arrives.
MoreDigits(c) ==
  /\ kern[c].state = "ringing"
  /\ kern[c].digits < Digits
  /\ Commit(Post([World EXCEPT !.kern[c].digits = @ + 1], CallMsg("INFORMATION_IND", c)))
  /\ UNCHANGED drained

CallActive(c) ==
  /\ kern[c].state \in {"calling", "taken"}
  /\ Commit(Post([World EXCEPT !.kern[c].state = "active"], CallMsg("CONNECT_ACTIVE_IND", c)))
  /\ UNCHANGED drained

\* The remote side, a timer of the kernel or another program ends the call.
CallReleased(c) ==
  /\ Live(World, c)
  /\ Commit(FreeCall(World, c))
  /\ UNCHANGED drained

IsRequest(m) == m.type \in Asks

\* The driver of entry e asks for something.
DriverRequest(e, type) ==
  /\ type \in Asks
  /\ Cardinality({i \in DOMAIN q : IsRequest(q[i])}) < Requests
  /\ Commit(Post(World, CallMsg(type, e)))
  /\ UNCHANGED drained

Next ==
  /\ UNCHANGED site
  /\ \/ ReadMessage
     \/ ReadNothing
     \/ HandleRecovery
     \/ Reread
     \/ \E e \in Entries :
          \/ Expire(e)
          \/ Hangup(e)
          \/ DriverRequest(e, "DIALOUT_IND")
          \/ DriverRequest(e, "DRVRDISC_REQ")
          \/ DriverRequest(e, "DRVRANSWER_REQ")
          \/ DriverRequest(e, "DRVRREJECT_REQ")
     \/ IncomingCall
     \/ \E c \in Calls : MoreDigits(c) \/ CallActive(c) \/ CallReleased(c)

Spec == Init /\ [][Next]_vars

\* The daemon runs, messages do not arrive faster than it reads them, time
\* passes, and the kernel answers or gives up a call that waits for the other
\* side.
FairSpec ==
  /\ Spec
  /\ WF_vars(UNCHANGED site /\ ReadMessage)
  /\ SF_vars(UNCHANGED site /\ ReadNothing)
  /\ WF_vars(UNCHANGED site /\ HandleRecovery)
  /\ \A e \in Entries : WF_vars(UNCHANGED site /\ Expire(e))
  /\ \A c \in Calls :
       WF_vars(UNCHANGED site /\ kern[c].state \in {"calling", "ringing", "taken"} /\ (CallActive(c) \/ CallReleased(c)))

-----------------------------------------------------------------------------
(* Properties.                                                             *)

\* The type invariant: in particular a budget is never overdrawn below zero.
TypeOK ==
  /\ site \in Sites
  /\ \A e \in Entries :
       /\ cep[e] \in [state : States, cdid : Calls \cup {CDID_UNUSED},
                      waitfunc : 0..3, due : BOOLEAN, dials : Nat, incoming : BOOLEAN,
                      budgeted : BOOLEAN, left : 0..Cfg[e].budget, told : Answers]
       /\ spent[e] \in Nat
  /\ drained \in BOOLEAN
  /\ \A c \in Calls :
       kern[c] \in [state : {"free", "calling", "ringing", "taken", "active", "gone"},
                    digits : 0..Digits]

Holding(e) == cep[e].state \in {"DIAL", "WAIT_CONNECT", "CONNECTED"}

\* "More than one entry is allowed to answer a call, though only one entry
\* can connect" (fsm.c): two entries never hold the same call, whatever the
\* order of answers, timers and repeated indications.
OneEntryConnects ==
  \A e, f \in Entries :
    Holding(e) /\ Holding(f) /\ cep[e].cdid = cep[f].cdid => e = f

\* A call that the daemon has asked for or taken is held by an entry: however
\* answers, timeouts, callbacks and a new configuration follow each other, no
\* call goes on (and costs money) that no entry can end.
NoOrphanCall ==
  \A c \in Calls :
    kern[c].state \in {"calling", "taken", "active"} =>
      \E e \in Entries : Holding(e) /\ cep[e].cdid = c

\* An entry that holds a call holds one of the kernel, or the message that
\* will take it away is in the queue: no entry waits for a call that is gone
\* and will not be heard of again (an entry that dials has no timer).
HeldCallIsReal ==
  \A e \in Entries :
    cep[e].state \in {"DIAL", "CONNECTED"} =>
      LET c == cep[e].cdid
      IN \/ Live(World, c)
         \/ \E i \in DOMAIN q : q[i].type = "DISCONNECT_IND" /\ q[i].cdid = c

\* The driver was last told CONNECTED exactly while its entry is connected:
\* every way out of ST_CONNECTED answers the driver.
DriverKnows ==
  \A e \in Entries : (cep[e].told = "CONNECTED") <=> (cep[e].state = "CONNECTED")

\* The calls of the kernel, the entries of the daemon and the drivers belong together,
\* one to one, however answers, timers, hang-ups and configurations follow each other.
CallsHeld == TypeOK /\ OneEntryConnects /\ NoOrphanCall /\ HeldCallIsReal /\ DriverKnows

\* The manual of isdnd.rc: within a budget period the configured number of
\* outgoing calls succeeds, "any further attempt to call out will be blocked".
BudgetKept ==
  \A e \in Entries : Cfg[e].budget > 0 => spent[e] <= Cfg[e].budget

\* No entry is left behind in a passing state: an entry that dials, waits to
\* dial again, rings or answers comes to rest or connects.
EntryComesToRest ==
  \A e \in Entries :
    cep[e].state \notin {"IDLE", "CONNECTED"} ~> cep[e].state \in {"IDLE", "CONNECTED"}

=============================================================================
