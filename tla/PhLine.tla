------------------------------- MODULE PhLine -------------------------------
(***************************************************************************)
(* The activation of the line: the physical layer state machine of the     *)
(* chip drivers (ihfc_fsm_update, layer1/ihfc3/i4b_ihfc2_drv.c, with the   *)
(* tables of i4b_isac.h and i4b_hfc.h) and the supervision by the          *)
(* D-channel protocol (dss1/dss1_l3fsm.h), which holds the line up while   *)
(* there are references and lets it go down when nothing was heard for 15  *)
(* to 30 seconds. All of it runs under the lock of the controller: one     *)
(* handler is one action. The states the chip goes through by itself are   *)
(* external.                                                               *)
(***************************************************************************)
EXTENDS Integers

CONSTANTS
  Tables,   \* chips, of {"isac", "hfcTE", "hfcNT"}
  MaxHold   \* bound on the references

ASSUME PhLineAssumption ==
  Tables \subseteq {"isac", "hfcTE", "hfcNT"} /\ MaxHold \in Nat

VARIABLES
  tab,       \* d_fsm_table
  chip,      \* the state of the chip, 0..15
  irq,       \* the chip reports a changed state
  seen,      \* sc_state.state: the state that was read last
  t3,        \* T3callout is pending
  attached,  \* the D-channel driver is connected
  holds,     \* L1_auto_activate
  act,       \* L1_activity
  idle,      \* L1_activity_callout is pending
  count,     \* L1_deactivate_count
  frame,     \* sc_received_frame
  saving,    \* no_power_save is off
  own,       \* L1_auto_activate_variable
  calm       \* the other end does what is asked for from now on

phVars == <<tab, chip, irq, seen, t3, attached, holds, act, idle, count, frame,
            saving, own, calm>>

-----------------------------------------------------------------------------
(* The tables: active, can_up, can_down and the index of a command, if any *)

None == 9
Row(a, u, d, c) == [active |-> a = 1, up |-> u = 1, down |-> d = 1, cmd |-> c]

isac_fsm_table ==
  [s \in 0..15 |->
     CASE s = 0 -> Row(0, 1, 1, 1)        [] s \in {4, 7, 8} -> Row(0, 0, 1, None)
       [] s = 6 -> Row(0, 0, 0, 1)        [] s \in {12, 13} -> Row(1, 0, 0, 0)
       [] s = 15 -> Row(0, 1, 0, None)    [] OTHER -> Row(0, 0, 0, None)]

\* Mutant: F3 is not a state the line can be activated in.
BugHfcTable ==
  [s \in 0..15 |->
     CASE s \in {0, 9} -> Row(0, 0, 0, 2) [] s \in {10, 13} -> Row(0, 1, 0, None)
       [] s \in 4..6 -> Row(0, 0, 1, None) [] s = 7 -> Row(1, 0, 0, None)
       [] s = 11 -> Row(0, 0, 1, 3)       [] s = 12 -> Row(1, 0, 1, 4)
       [] OTHER -> Row(0, 0, 0, None)]

\* F0 to F8 are 0 to 8, G0 to G4 are 9 to 13.
hfc_fsm_table ==
  [s \in 0..15 |->
     CASE s \in {0, 9} -> Row(0, 0, 0, 2) [] s \in {3, 10, 13} -> Row(0, 1, 0, None)
       [] s \in 4..6 -> Row(0, 0, 1, None) [] s = 7 -> Row(1, 0, 0, None)
       [] s = 11 -> Row(0, 0, 1, 3)       [] s = 12 -> Row(1, 0, 1, 4)
       [] OTHER -> Row(0, 0, 0, None)]

State(s) == IF tab = "isac" THEN isac_fsm_table[s] ELSE hfc_fsm_table[s]

Reset0 == CASE tab = "isac" -> 15 [] tab = "hfcTE" -> 0 [] tab = "hfcNT" -> 9

-----------------------------------------------------------------------------
(* The chip *)

\* What a command makes of a state (fsm_write). G2 with permission to go to G3,
\* and G3 locked, are the states 14 and 15 of the chip that are not in use.
Allowed == 14
Locked == 15
Shown(s) == IF tab = "hfcNT" /\ s \in {Allowed, Locked} THEN s - 3 ELSE s

Commanded(s, cmd) ==
  CASE tab = "isac" ->
         (CASE cmd = 0 /\ s \in {0, 15} -> 7
            [] cmd = 1 /\ s \in {0, 4, 6, 7, 8} -> 15 [] OTHER -> s)
    [] tab = "hfcTE" ->
         (CASE cmd = 0 /\ s = 3 -> 4 [] cmd = 1 /\ s \in 4..6 -> 3
            [] cmd = 2 /\ s = 0 -> 2 [] OTHER -> s)
    [] tab = "hfcNT" ->
         (CASE cmd = 0 /\ s \in {10, 13} -> 11
            [] cmd = 1 /\ s \in {11, 12, Allowed, Locked} -> 13
            [] cmd = 2 /\ s = 9 -> 10 [] cmd = 3 /\ s = 11 -> Allowed
            [] cmd = 4 /\ s = 12 -> Locked [] OTHER -> s)

\* Steps with the help of the other end, steps against it, and those of the chip
Forward(s) ==
  CASE tab = "isac" -> (CASE s = 7 -> {8} [] s = 8 -> {12} [] s = 4 -> {12} [] OTHER -> {})
    [] tab = "hfcTE" -> (CASE s = 4 -> {5} [] s = 5 -> {6} [] s = 6 -> {7} [] s = 2 -> {3}
                           [] s = 8 -> {6} [] OTHER -> {})
    [] tab = "hfcNT" -> (CASE s = Allowed -> {12} [] s = 13 -> {10} [] OTHER -> {})

Backward(s) ==
  CASE tab = "isac" -> (CASE s \in {7, 8, 4} -> {0, 6} [] s = 12 -> {4, 0}
                          [] s = 15 -> {8} [] OTHER -> {})
    [] tab = "hfcTE" -> (CASE s \in 4..6 -> {3} [] s = 7 -> {3, 8} [] s = 3 -> {6}
                           [] s = 8 -> {3} [] OTHER -> {})
    [] tab = "hfcNT" -> (CASE s \in {12, Allowed} -> {11} [] s = 10 -> {11} [] OTHER -> {})

-----------------------------------------------------------------------------
(* ihfc_fsm_update *)

\* The flag that is acted upon; hold is *L1_auto_activate_ptr.
Effective(flag, active, hold, timer) ==
  LET f == IF flag = 0 /\ hold /\ ~active /\ ~timer THEN 3 ELSE flag IN
  CASE f = 3 /\ active -> 0
    [] f = 3 /\ ~active /\ ~hold -> 2
    [] OTHER -> f

\* Mutant: T3 is started for a request of the user only.
BugT3Started(timer, f) == timer \/ f = 1

T3Started(timer, f) == timer \/ f \in {1, 3}

\* The chip is c before the call, timer and pend are the callout and the interrupt.
FsmUpdate(flag, c, timer, hold, pend) ==
  LET s == State(Shown(c))
      f == Effective(flag, s.active, hold, timer)
      c1 == IF s.cmd # None THEN Commanded(c, s.cmd) ELSE c
      c2 == IF f \in {2, 3} /\ s.down THEN Commanded(c1, 1) ELSE c1
      c3 == IF f \in {1, 3} /\ s.up THEN Commanded(c2, 0) ELSE c2 IN
  /\ chip' = c3 /\ irq' = (pend \/ Shown(c3) # Shown(c))
  /\ t3' = T3Started(timer, f)
  /\ seen' = Shown(c)
  /\ own' = CASE flag = 1 -> 1 [] flag = 2 -> 0 [] OTHER -> own
  /\ act' = IF attached /\ State(seen).active # s.active THEN s.active ELSE act

Hold == IF attached THEN holds > 0 ELSE own > 0

Upper == <<tab, attached, holds, idle, count, frame, saving, calm>>

-----------------------------------------------------------------------------
(* Handlers of the chip driver *)

Interrupt ==
  irq /\ FsmUpdate(0, chip, t3, Hold, FALSE) /\ UNCHANGED Upper

\* Four seconds are enough for a chip whose other end answers.
fsm_T3_expire ==
  /\ t3 /\ (calm => Forward(chip) = {} /\ ~irq)
  /\ FsmUpdate(3, chip, FALSE, Hold, irq) /\ UNCHANGED Upper

\* ihfc_reset: early interrupts are read, then the state machine is released and
\* activated again if it was active. T3 is left alone.
ChipReset ==
  /\ ~calm /\ FsmUpdate(IF State(seen).active THEN 1 ELSE 0, Reset0, t3, Hold, FALSE)
  /\ UNCHANGED Upper

\* CMR_PH_ACTIVATE and CMR_PH_DEACTIVATE of the control device
CtlActivate == ~calm /\ FsmUpdate(1, chip, t3, Hold, irq) /\ UNCHANGED Upper
CtlDeactivate == ~calm /\ FsmUpdate(2, chip, t3, Hold, irq) /\ UNCHANGED Upper

LineForward ==
  /\ chip' \in Forward(chip) /\ irq' = TRUE
  /\ UNCHANGED <<seen, t3, act, own, Upper>>

LineBackward ==
  /\ ~calm /\ chip' \in Backward(chip) /\ irq' = TRUE
  /\ UNCHANGED <<seen, t3, act, own, Upper>>

-----------------------------------------------------------------------------
(* The D-channel protocol *)

Keep == UNCHANGED <<chip, irq, seen, t3, own>>

\* dss1_L1_activity_timeout, with h references
ActivityTimeout(h) ==
  /\ IF act /\ h = 0 /\ ~frame /\ saving
     THEN /\ UNCHANGED frame
          /\ IF count = 1
             THEN count' = 0 /\ FsmUpdate(2, chip, t3, h > 0, irq)
             ELSE count' = 1 /\ Keep /\ UNCHANGED act
     ELSE count' = 0 /\ frame' = FALSE /\ Keep /\ UNCHANGED act
  /\ idle' = TRUE /\ holds' = h

IdleTimeout ==
  /\ attached /\ idle /\ ActivityTimeout(holds)
  /\ UNCHANGED <<tab, attached, saving, calm>>

dss1_L1_activate_req ==
  /\ attached /\ holds < MaxHold
  /\ holds' = holds + 1
  /\ IF holds = 0
     THEN idle' = FALSE /\ count' = 0 /\ FsmUpdate(1, chip, t3, TRUE, irq)
     ELSE Keep /\ UNCHANGED <<idle, count, act>>
  /\ UNCHANGED <<tab, attached, frame, saving, calm>>

dss1_L1_deactivate_req ==
  /\ attached /\ holds > 0
  /\ IF holds = 1 THEN ActivityTimeout(0)
     ELSE holds' = holds - 1 /\ Keep /\ UNCHANGED <<idle, count, frame, act>>
  /\ UNCHANGED <<tab, attached, saving, calm>>

\* dss1_l2_put_mbuf
FrameReceived ==
  /\ attached /\ State(seen).active /\ ~calm /\ frame' = TRUE
  /\ Keep /\ UNCHANGED <<tab, attached, holds, act, idle, count, saving, calm>>

\* The pointers are set (CMR_SET_L1_ACTIVITY_VARIABLE); the callout runs.
Attached(on) ==
  IF on THEN act' = State(seen).active /\ idle' = TRUE
        ELSE act' = FALSE /\ idle' = FALSE

\* dss1_setup_ft: a protocol is connected with everything cleared.
Attach(on) ==
  /\ attached # on /\ ~calm /\ attached' = on
  /\ holds' = 0 /\ count' = 0 /\ frame' = FALSE
  /\ Attached(on)
  /\ own' = IF on THEN own ELSE 0
  /\ UNCHANGED <<tab, chip, irq, seen, t3, saving, calm>>

\* External: from now on nothing disturbs the line and nobody resets it.
BecomeCalm ==
  /\ ~calm /\ attached /\ calm' = TRUE
  /\ UNCHANGED <<tab, chip, irq, seen, t3, attached, holds, act, idle, count, frame,
                 saving, own>>

PhInit ==
  /\ tab \in Tables /\ chip = Reset0 /\ irq = TRUE /\ seen = Reset0 /\ t3 = FALSE
  /\ attached = FALSE /\ holds = 0 /\ act = FALSE /\ idle = FALSE /\ count = 0
  /\ frame = FALSE /\ saving \in BOOLEAN /\ own = 0 /\ calm = FALSE

PhNext ==
  \/ Interrupt \/ fsm_T3_expire \/ ChipReset \/ CtlActivate \/ CtlDeactivate
  \/ LineForward \/ LineBackward
  \/ IdleTimeout \/ dss1_L1_activate_req \/ dss1_L1_deactivate_req \/ FrameReceived
  \/ \E on \in BOOLEAN : Attach(on)
  \/ BecomeCalm

\* Interrupts and callouts come, and the chip makes the steps it can make.
PhFair ==
  /\ WF_phVars(Interrupt) /\ WF_phVars(fsm_T3_expire) /\ WF_phVars(LineForward)
  /\ WF_phVars(IdleTimeout)

PhSpec == PhInit /\ [][PhNext]_phVars /\ PhFair

-----------------------------------------------------------------------------
(* Properties *)

PhTypeOK ==
  /\ tab \in Tables /\ chip \in 0..15 /\ seen \in 0..15 /\ irq \in BOOLEAN
  /\ t3 \in BOOLEAN /\ attached \in BOOLEAN /\ holds \in 0..MaxHold /\ act \in BOOLEAN
  /\ idle \in BOOLEAN /\ count \in 0..1 /\ frame \in BOOLEAN /\ saving \in BOOLEAN
  /\ own \in 0..1 /\ calm \in BOOLEAN

\* What the protocol believes of the line is the state that was read last, though
\* it was connected when the line was already up.
ActivityKnown == attached => (act <=> State(seen).active)

\* While the protocol holds a line that is down, T3 is running or the interrupt
\* that will start it is pending: there will be another attempt, whatever the chip,
\* the other end and the user did.
HeldLineRetried == attached /\ holds > 0 /\ ~State(seen).active => t3 \/ irq

\* A line that nobody holds is watched, so that it can be let go.
IdleLineWatched == attached /\ holds = 0 => idle

\* The line is neither forgotten while it is needed nor while it is not: what is known
\* of it is true, and a timer or an interrupt will look after it.
LineKept == PhTypeOK /\ ActivityKnown /\ HeldLineRetried /\ IdleLineWatched

\* Once the other end answers, a line that is held comes up, and a network side
\* deactivates a line that nobody holds and on which nothing is heard.
LineFollowsHolds ==
  /\ calm /\ attached /\ holds > 0 ~> State(seen).active \/ holds = 0
  /\ tab = "hfcNT" /\ saving /\ calm /\ attached /\ holds = 0
       ~> ~State(seen).active \/ holds > 0
=============================================================================
