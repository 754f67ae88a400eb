------------------------------ MODULE Shorthold ------------------------------
(***************************************************************************)
(* Short-hold mode (layer4/i4b_l4.c): the timer of a connected call that   *)
(* counts charging units and hangs up an idle line shortly before the next *)
(* unit begins, and the update of its parameters during the call           *)
(* (I4B_TIMEOUT_UPD in layer4/i4b_i4bdrv.c).                               *)
(*                                                                         *)
(* Time is SECOND; the clock does not pass a callout that is due.          *)
(***************************************************************************)
EXTENDS Integers

CONSTANTS
  Settings,    \* the shorthold_data that programs hand over
  MaxTime,     \* bound on the clock
  MaxUpdates   \* bound on I4B_TIMEOUT_UPD

ASSUME ShortholdAssumption ==
  /\ \A s \in Settings : /\ s.alg \in {"FIXU", "VARU"}
                         /\ s.unit \in Nat /\ s.early \in Nat /\ s.idle \in Nat
  /\ MaxTime \in Nat /\ MaxUpdates \in Nat

VARIABLES
  now,      \* time_uptime
  incoming, \* dir_incoming
  call,     \* "calling", "connected" or "hungup" by the timer
  cd,       \* shorthold_data, aocd_flag, idle_state, cunits of the call
  due,      \* when idle_callout fires, or NEVER
  last,     \* last_active_time
  given,    \* the shorthold_data last handed over
  start,    \* connect_time
  updates   \* number of updates during the call

shVars == <<now, incoming, call, cd, due, last, given, start, updates>>

NEVER == -1

Loaded(s, aocd, ist, cunits) ==
  [alg |-> s.alg, unit |-> s.unit, early |-> s.early, idle |-> s.idle,
   aocd |-> aocd, ist |-> ist, cunits |-> cunits]

IdleTimeOnly(s) == [alg |-> "FIXU", unit |-> 0, early |-> 0, idle |-> s.idle]

\* I4B_CONNECT_REQ, with or without advice of charge, or I4B_CONNECT_RESP, which
\* has nothing but an idle time.
ShInit ==
  /\ now = 0 /\ last = 0 /\ start = 0 /\ call = "calling" /\ due = NEVER
  /\ updates = 0
  /\ \E s \in Settings, aocd \in BOOLEAN :
       \/ /\ incoming = FALSE /\ given = s
          /\ cd = Loaded(given, aocd, "NOT_STARTED", 0)
       \/ /\ incoming = TRUE /\ given = IdleTimeOnly(s)
          /\ cd = Loaded(given, FALSE, "NOT_STARTED", 0)

-----------------------------------------------------------------------------
(* i4b_idle_check, as [cd, due, hungup] *)

Waiting(c, time) == [cd |-> c, due |-> now + time, hungup |-> FALSE]

\* case IST_STARTED: a unit begins.
NextUnit(c) ==
  Waiting([c EXCEPT !.ist = "CHECK", !.cunits = IF c.aocd THEN @ ELSE @ + 1],
          c.unit)

\* Mutant: the comparison is off by one.
BugActiveEarly(c) == c.idle <= 0 \/ now - last < c.idle - 1

Active(c) == c.idle <= 0 \/ now - last < c.idle

IdleCheck(c) ==
  IF c.ist = "STARTED" \/ (Active(c) /\ c.early <= 0) THEN NextUnit(c)
  ELSE IF Active(c) THEN Waiting([c EXCEPT !.ist = "STARTED"], c.early)
  ELSE [cd |-> [c EXCEPT !.ist = "NOT_STARTED"], due |-> NEVER, hungup |-> TRUE]

-----------------------------------------------------------------------------
(* i4b_l4_setup_timeout, as [cd, due, hungup] *)

\* Only the idle time counts, and it is checked every second.
Simple(c) == [c EXCEPT !.unit = 1, !.early = 0, !.aocd = TRUE]

Variable(c) == [c EXCEPT !.unit = @ - 1, !.early = 0, !.aocd = TRUE]

Fixed(c) == [c EXCEPT !.unit = @ - c.early]

HasUnits(c) == ~incoming /\ c.unit > 0 /\ c.unit > c.early

Computed(c) == IF ~HasUnits(c) THEN Simple(c)
               ELSE IF c.alg = "VARU" THEN Variable(c) ELSE Fixed(c)

SetupTimeout(c) ==
  LET d == Computed(c)
      begins == d.ist = "NOT_STARTED" /\ (~d.aocd \/ d.idle > 0)
      r == IF begins THEN IdleCheck([d EXCEPT !.ist = "STARTED"])
           ELSE [cd |-> d, due |-> due, hungup |-> FALSE]
  IN IF HasUnits(c) /\ c.alg = "VARU" THEN [r EXCEPT !.cd.unit = 1] ELSE r

Apply(r) ==
  /\ cd' = r.cd /\ due' = r.due
  /\ call' = IF r.hungup THEN "hungup" ELSE "connected"

-----------------------------------------------------------------------------

\* i4b_l4_connect_active_ind
ConnectActive ==
  /\ call = "calling"
  /\ last' = now /\ start' = now
  /\ Apply(SetupTimeout(cd))
  /\ UNCHANGED <<now, given, updates>>

\* A driver moved data.
Traffic ==
  /\ call = "connected" /\ last' = now
  /\ UNCHANGED <<now, call, cd, due, given, start, updates>>

\* idle_callout fires.
Timeout ==
  /\ call = "connected" /\ due = now
  /\ Apply(IdleCheck(cd))
  /\ UNCHANGED <<now, last, given, start, updates>>

\* I4B_TIMEOUT_UPD
TimeoutUpd(s) ==
  LET c == Loaded(s, cd.aocd, cd.ist, cd.cunits)
  IN /\ call # "hungup" /\ updates < MaxUpdates
     /\ updates' = updates + 1 /\ given' = s
     /\ IF c.ist # "NOT_STARTED" THEN Apply(SetupTimeout(c))
        ELSE cd' = c /\ UNCHANGED <<due, call>>
     /\ UNCHANGED <<now, last, start>>

\* The clock goes on, and stays bounded.
Tick ==
  /\ now < MaxTime /\ now # due
  /\ now' = now + 1
  /\ UNCHANGED <<call, cd, due, last, given, start, updates>>

ShNext ==
  /\ UNCHANGED incoming
  /\ \/ ConnectActive \/ Traffic \/ Timeout \/ Tick
     \/ \E s \in Settings : TimeoutUpd(s)

ShSpec == ShInit /\ [][ShNext]_shVars

-----------------------------------------------------------------------------
(* Properties. *)

Units(s) == ~incoming /\ s.unit > 0 /\ s.unit > s.early

FixedUnits == Units(given) /\ given.alg = "FIXU" /\ updates = 0

\* Type invariant of the short-hold data of a call.
TypeOK ==
  /\ now \in 0 .. MaxTime /\ last \in 0 .. now /\ start \in 0 .. now
  /\ incoming \in BOOLEAN
  /\ call \in {"calling", "connected", "hungup"}
  /\ due = NEVER \/ due >= now
  /\ cd.unit \in Nat /\ cd.early \in Nat /\ cd.idle \in Nat /\ cd.cunits \in Nat
  /\ cd.aocd \in BOOLEAN /\ cd.ist \in {"NOT_STARTED", "STARTED", "CHECK"}

\* Calculated charging: a call with fixed units and no advice of charge has been
\* charged one unit for every unit it began.
ChargedUnits ==
  call = "connected" /\ FixedUnits /\ ~cd.aocd /\ due # now =>
    cd.cunits = (now - start) \div given.unit + 1

\* A timer that runs closes an idle line: no later than one unit after idle_time,
\* and with variable units, once the first unit is over, at once.
IdleIsClosed ==
  call = "connected" /\ cd.ist # "NOT_STARTED" /\ updates = 0 /\ given.idle > 0
    /\ due # now =>
    LET slack == IF Units(given) /\ (given.alg = "FIXU" \/ now - start < given.unit)
                 THEN given.unit ELSE 1
    IN now - last < given.idle + slack

\* An outgoing call with fixed units is hung up only if the line has been idle
\* for idle_time, and exactly earlyhup_time before the next unit begins
\* (i4b_idle_check and the description above it), while units are charged and
\* idle lines closed in time.  While the timer runs an update with the parameters
\* that are in force changes nothing of that, though the lengths are computed in
\* place (I4B_TIMEOUT_UPD).
HangupBeforeUnit ==
  [][/\ TypeOK' /\ ChargedUnits' /\ IdleIsClosed'
     /\ call = "connected" /\ call' = "hungup" /\ FixedUnits =>
          /\ now - last >= given.idle /\ given.idle > 0
          /\ (now - start + given.early) % given.unit = 0
     /\ updates' # updates /\ given' = given /\ cd.ist # "NOT_STARTED"
          => cd' = cd /\ due' = due]_shVars
=============================================================================
