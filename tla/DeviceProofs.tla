---------------------------- MODULE DeviceProofs ----------------------------
(***************************************************************************)
(* Proofs about the timer that hangs up when no device has traffic         *)
(* (Shorthold), for every unit length, idle time and earlyhup time; and    *)
(* about CapiDevice and BchanDev, for every number of threads, of channels *)
(* and of tones, and every length of the queues.                           *)
(***************************************************************************)
EXTENDS MCDevices, Shorthold, TLAPS

\* The time that the provers may take for a step
USE ZenonT(3), SMTT(20), ZenonT(60)

-----------------------------------------------------------------------------
(* Short-hold mode (Shorthold) *)

ShortholdData ==
  [alg : {"FIXU", "VARU"}, unit : Nat, early : Nat, idle : Nat, aocd : BOOLEAN,
   ist : {"NOT_STARTED", "STARTED", "CHECK"}, cunits : Nat]

\* The call has fixed units.
Fix(c) == HasUnits(c) /\ c.alg = "FIXU"

\* What i4b_l4_setup_timeout makes of the lengths that were handed over
InForce(c) ==
  [alg |-> c.alg, unit |-> IF Fix(c) THEN c.unit - c.early ELSE 1,
   early |-> IF Fix(c) THEN c.early ELSE 0, idle |-> c.idle,
   aocd |-> IF Fix(c) THEN c.aocd ELSE TRUE, ist |-> c.ist, cunits |-> c.cunits]

FirstWait(c) ==
  IF ~HasUnits(c) THEN 1 ELSE IF c.alg = "VARU" THEN c.unit - 1 ELSE c.unit - c.early

\* Two sets of short-hold data are told apart by their fields.
LEMMA SameData ==
  ASSUME NEW c \in ShortholdData, NEW d \in ShortholdData,
         c.alg = d.alg, c.unit = d.unit, c.early = d.early, c.idle = d.idle,
         c.aocd = d.aocd, c.ist = d.ist, c.cunits = d.cunits
  PROVE  c = d
BY DEF ShortholdData

\* Setting fields keeps the type.
LEMMA SetState ==
  ASSUME NEW c \in ShortholdData, NEW n \in Nat,
         NEW i \in {"NOT_STARTED", "STARTED", "CHECK"}
  PROVE  /\ [c EXCEPT !.ist = i, !.cunits = n] \in ShortholdData
         /\ [c EXCEPT !.ist = i] \in ShortholdData
BY ZenonT(60) DEF ShortholdData

Alike(c, d) ==
  /\ c.alg = d.alg /\ c.early = d.early /\ c.idle = d.idle
  /\ c.aocd = d.aocd /\ c.ist = d.ist /\ c.cunits = d.cunits

LEMMA ComputedLemma ==
  ASSUME NEW c \in ShortholdData, incoming \in BOOLEAN
  PROVE  /\ Computed(c) \in ShortholdData
         /\ Computed(c).unit = FirstWait(c)
         /\ Alike(Computed(c), InForce(c))
         /\ InForce(c) \in ShortholdData
<1>0. /\ c.unit \in Nat /\ c.early \in Nat /\ c.idle \in Nat /\ c.cunits \in Nat
      /\ c.aocd \in BOOLEAN /\ c.alg \in {"FIXU", "VARU"}
      /\ c.ist \in {"NOT_STARTED", "STARTED", "CHECK"}
  BY DEF ShortholdData
<1>1. CASE ~HasUnits(c)
  <2>1. Computed(c) = [c EXCEPT !.unit = 1, !.early = 0, !.aocd = TRUE]
    BY <1>1 DEF Computed, Simple
  <2>t. PICK t \in BOOLEAN : t = TRUE
    OBVIOUS
  <2>a. Computed(c) = [c EXCEPT !.unit = 1, !.early = 0, !.aocd = t]
    BY <2>1, <2>t
  <2>c. [c EXCEPT !.unit = 1, !.early = 0, !.aocd = t] \in ShortholdData
    BY ZenonT(60) DEF ShortholdData
  <2>b. Computed(c) \in ShortholdData
    BY <2>a, <2>c
  <2>2. Computed(c) \in ShortholdData /\ Computed(c).unit = 1
    BY <2>1, <2>b DEF ShortholdData
  <2>3. InForce(c) = [alg |-> c.alg, unit |-> 1, early |-> 0, idle |-> c.idle,
                      aocd |-> TRUE, ist |-> c.ist, cunits |-> c.cunits]
        /\ FirstWait(c) = 1
    BY <1>1 DEF InForce, Fix, FirstWait
  <2>4. InForce(c) \in ShortholdData
    BY <1>0, <2>3 DEF ShortholdData
  <2>5. Alike(Computed(c), InForce(c))
    BY <1>0, <2>1, <2>3 DEF Alike, ShortholdData
  <2> QED
    BY <2>2, <2>3, <2>4, <2>5
<1>2. CASE HasUnits(c) /\ c.alg = "VARU"
  <2>1. Computed(c) = [c EXCEPT !.unit = c.unit - 1, !.early = 0, !.aocd = TRUE]
    BY <1>2 DEF Computed, Variable
  <2>2. c.unit - 1 \in Nat
    BY <1>0, <1>2 DEF HasUnits
  <2>t. PICK t \in BOOLEAN : t = TRUE
    OBVIOUS
  <2>a. Computed(c) = [c EXCEPT !.unit = c.unit - 1, !.early = 0, !.aocd = t]
    BY <2>1, <2>t
  <2>c. [c EXCEPT !.unit = c.unit - 1, !.early = 0, !.aocd = t] \in ShortholdData
    BY ZenonT(60), <2>2 DEF ShortholdData
  <2>b. Computed(c) \in ShortholdData
    BY <2>a, <2>c
  <2>3. Computed(c) \in ShortholdData /\ Computed(c).unit = c.unit - 1
    BY <2>1, <2>b DEF ShortholdData
  <2>4. InForce(c) = [alg |-> c.alg, unit |-> 1, early |-> 0, idle |-> c.idle,
                      aocd |-> TRUE, ist |-> c.ist, cunits |-> c.cunits]
        /\ FirstWait(c) = c.unit - 1
    BY <1>2 DEF InForce, Fix, FirstWait
  <2>5. InForce(c) \in ShortholdData
    BY <1>0, <2>4 DEF ShortholdData
  <2>6. Alike(Computed(c), InForce(c))
    BY <1>0, <2>1, <2>4 DEF Alike, ShortholdData
  <2> QED
    BY <2>3, <2>4, <2>5, <2>6
<1>3. CASE HasUnits(c) /\ c.alg = "FIXU"
  <2>1. Computed(c) = [c EXCEPT !.unit = c.unit - c.early]
    BY <1>3 DEF Computed, Fixed
  <2>2. c.unit - c.early \in Nat
    BY <1>0, <1>3 DEF HasUnits
  <2>3. Computed(c) \in ShortholdData /\ Computed(c).unit = c.unit - c.early
    BY <2>1, <2>2 DEF ShortholdData
  <2>4. InForce(c) = [alg |-> c.alg, unit |-> c.unit - c.early, early |-> c.early,
                      idle |-> c.idle, aocd |-> c.aocd, ist |-> c.ist, cunits |-> c.cunits]
        /\ FirstWait(c) = c.unit - c.early
    BY <1>3 DEF InForce, Fix, FirstWait
  <2>5. InForce(c) \in ShortholdData
    BY <1>0, <2>2, <2>4 DEF ShortholdData
  <2>6. Alike(Computed(c), InForce(c))
    BY <1>0, <2>1, <2>4 DEF Alike, ShortholdData
  <2> QED
    BY <2>3, <2>4, <2>5, <2>6
<1> QED
  BY <1>0, <1>1, <1>2, <1>3

LEMMA UnitInForce ==
  ASSUME NEW c \in ShortholdData
  PROVE  IF HasUnits(c) /\ c.alg = "VARU" THEN InForce(c).unit = 1
         ELSE InForce(c).unit = FirstWait(c)
BY DEF InForce, Fix, FirstWait, ShortholdData

Outcome(r, c, t) == r.cd = c /\ r.due = t /\ r.hungup = FALSE

\* An update while the timer runs
LEMMA SetupRunning ==
  ASSUME NEW c \in ShortholdData, incoming \in BOOLEAN, c.ist # "NOT_STARTED"
  PROVE  Outcome(SetupTimeout(c), InForce(c), due)
<1> DEFINE d == Computed(c)
           r == [cd |-> d, due |-> due, hungup |-> FALSE]
<1>1. d \in ShortholdData /\ d.unit = FirstWait(c) /\ Alike(d, InForce(c))
      /\ InForce(c) \in ShortholdData
  BY ComputedLemma
<1>2. d.ist = c.ist
  BY <1>1 DEF Alike, InForce
<1>3. CASE HasUnits(c) /\ c.alg = "VARU"
  <2>1. SetupTimeout(c) = [r EXCEPT !.cd.unit = 1]
    BY <1>2, <1>3 DEF SetupTimeout
  <2> HIDE DEF d
  <2>2. Outcome([r EXCEPT !.cd.unit = 1], [d EXCEPT !.unit = 1], due)
    BY DEF Outcome
  <2>3. [d EXCEPT !.unit = 1] = InForce(c)
    BY <1>1, <1>3, UnitInForce, SameData DEF Alike, ShortholdData
  <2> QED
    BY <2>1, <2>2, <2>3
<1>4. CASE ~(HasUnits(c) /\ c.alg = "VARU")
  <2>1. SetupTimeout(c) = r
    BY <1>2, <1>4 DEF SetupTimeout
  <2> HIDE DEF d
  <2>2. d = InForce(c)
    BY <1>1, <1>4, UnitInForce, SameData DEF Alike
  <2> QED
    BY <2>1, <2>2 DEF Outcome
<1> QED
  BY <1>3, <1>4

\* The timer is started when the call is connected.
Begins(c) == InForce(c).aocd = FALSE \/ c.idle > 0

Begun(c) ==
  [InForce(c) EXCEPT !.ist = "CHECK",
                     !.cunits = IF InForce(c).aocd THEN c.cunits ELSE c.cunits + 1]

LEMMA SetupStarts ==
  ASSUME NEW c \in ShortholdData, incoming \in BOOLEAN, c.ist = "NOT_STARTED", now \in Nat
  PROVE  IF Begins(c) THEN Outcome(SetupTimeout(c), Begun(c), now + FirstWait(c))
         ELSE Outcome(SetupTimeout(c), InForce(c), due)
<1> DEFINE d == Computed(c)
           e == [d EXCEPT !.ist = "STARTED"]
           x == [e EXCEPT !.ist = "CHECK", !.cunits = IF e.aocd THEN @ ELSE @ + 1]
           r == [cd |-> x, due |-> now + FirstWait(c), hungup |-> FALSE]
           q == [cd |-> d, due |-> due, hungup |-> FALSE]
<1>1. d \in ShortholdData /\ d.unit = FirstWait(c) /\ Alike(d, InForce(c))
      /\ InForce(c) \in ShortholdData
  BY ComputedLemma
<1>2. /\ d.ist = c.ist /\ d.aocd = InForce(c).aocd /\ d.idle = c.idle
      /\ d.cunits = c.cunits /\ d.aocd \in BOOLEAN
  BY ZenonT(60), <1>1 DEF InForce, Alike, ShortholdData
<1>3. (~d.aocd \/ d.idle > 0) <=> Begins(c)
  BY <1>2 DEF Begins
<1>4. IF HasUnits(c) /\ c.alg = "VARU"
      THEN SetupTimeout(c) = IF Begins(c) THEN [IdleCheck(e) EXCEPT !.cd.unit = 1]
                             ELSE [q EXCEPT !.cd.unit = 1]
      ELSE SetupTimeout(c) = IF Begins(c) THEN IdleCheck(e) ELSE q
  BY ZenonT(60), <1>2, <1>3 DEF SetupTimeout
<1> HIDE DEF d
<1>5. IdleCheck(e) = r
  BY ZenonT(60), <1>1 DEF IdleCheck, NextUnit, Waiting, ShortholdData
<1>6. x \in ShortholdData /\ Begun(c) \in ShortholdData
  <2>1. e \in ShortholdData
    BY ZenonT(60), <1>1, SetState
  <2>2. (IF e.aocd THEN e.cunits ELSE e.cunits + 1) \in Nat
        /\ (IF InForce(c).aocd THEN c.cunits ELSE c.cunits + 1) \in Nat
    BY <2>1 DEF ShortholdData
  <2> HIDE DEF e
  <2> QED
    BY ZenonT(60), <1>1, <2>1, <2>2, SetState DEF Begun
<1>7. Alike(x, Begun(c)) /\ Begun(c).unit = InForce(c).unit /\ x.unit = d.unit
  BY ZenonT(60), <1>1, <1>2 DEF Begun, Alike, ShortholdData
<1> HIDE DEF x, e
<1>8. CASE HasUnits(c) /\ c.alg = "VARU"
  <2>1. [x EXCEPT !.unit = 1] = Begun(c)
    <3>1. [x EXCEPT !.unit = 1] \in ShortholdData /\ [x EXCEPT !.unit = 1].unit = 1
      BY <1>6 DEF ShortholdData
    <3>2. Alike([x EXCEPT !.unit = 1], Begun(c))
      BY <1>6, <1>7 DEF Alike, ShortholdData
    <3>3. Begun(c).unit = 1
      BY <1>7, <1>8, UnitInForce
    <3> QED
      BY ZenonT(60), <1>6, <3>1, <3>2, <3>3, SameData DEF Alike
  <2>2. [d EXCEPT !.unit = 1] = InForce(c)
    BY <1>1, <1>8, UnitInForce, SameData DEF Alike, ShortholdData
  <2>3. Outcome([r EXCEPT !.cd.unit = 1], [x EXCEPT !.unit = 1], now + FirstWait(c))
    BY DEF Outcome
  <2>4. Outcome([q EXCEPT !.cd.unit = 1], [d EXCEPT !.unit = 1], due)
    BY DEF Outcome
  <2> QED
    BY ZenonT(60), <1>4, <1>5, <1>8, <2>1, <2>2, <2>3, <2>4
<1>9. CASE ~(HasUnits(c) /\ c.alg = "VARU")
  <2>1. d = InForce(c)
    BY <1>1, <1>9, UnitInForce, SameData DEF Alike
  <2>2. x = Begun(c)
    BY <1>1, <1>6, <1>7, <1>9, UnitInForce, SameData DEF Alike
  <2>3. Outcome(r, x, now + FirstWait(c)) /\ Outcome(q, d, due)
    BY DEF Outcome
  <2> QED
    BY ZenonT(60), <1>4, <1>5, <1>9, <2>1, <2>2, <2>3
<1> QED
  BY <1>8, <1>9

-----------------------------------------------------------------------------
(* The inductive invariant of the short-hold mode *)

Setting(s) ==
  s.alg \in {"FIXU", "VARU"} /\ s.unit \in Nat /\ s.early \in Nat /\ s.idle \in Nat

ShTyped ==
  /\ now \in 0 .. MaxTime /\ last \in 0 .. now /\ start \in 0 .. now
  /\ incoming \in BOOLEAN /\ call \in {"calling", "connected", "hungup"}
  /\ due \in Int /\ (due = NEVER \/ due >= now)
  /\ cd \in ShortholdData /\ updates \in Nat /\ Setting(given)

Fixing == Units(given) /\ given.alg = "FIXU"

Running == call = "connected" /\ cd.ist # "NOT_STARTED"

\* The lengths before and after i4b_l4_setup_timeout
Fresh ==
  /\ cd.alg = given.alg /\ cd.unit = given.unit /\ cd.early = given.early
  /\ cd.idle = given.idle /\ cd.cunits = 0

InEffect ==
  /\ cd.alg = given.alg /\ cd.idle = given.idle
  /\ cd.unit = IF Fixing THEN given.unit - given.early ELSE 1
  /\ cd.early = IF Fixing THEN given.early ELSE 0
  /\ Fixing \/ cd.aocd = TRUE

ShState ==
  /\ (due = NEVER) <=> (cd.ist = "NOT_STARTED")
  /\ call # "connected" => cd.ist = "NOT_STARTED"
  /\ call = "calling" => Fresh
  /\ call = "connected" => last >= start
  /\ Running => InEffect
  /\ call = "connected" /\ FixedUnits /\ cd.aocd = FALSE => Running

\* Unit k is the one that was entered last.
Unit(k) ==
  /\ cd.aocd = FALSE => cd.cunits = k + 1 /\ now >= start + k * given.unit
  /\ cd.ist = "CHECK" => due = start + k * given.unit + given.unit - given.early
  /\ cd.ist = "STARTED" =>
       /\ due = start + k * given.unit + given.unit
       /\ now >= due - given.early /\ given.early > 0

UnitsBegan == Running /\ FixedUnits => \E k \in Nat : Unit(k)

LastSeen ==
  Running /\ updates = 0 /\ given.idle > 0 =>
    IF Fixing
    THEN last + given.idle > due - IF cd.ist = "CHECK" THEN given.unit ELSE given.early
    ELSE /\ cd.ist = "CHECK"
         /\ \/ last + given.idle > due - 1
            \/ Units(given) /\ due = start + given.unit - 1

ShInv == ShTyped /\ ShState /\ UnitsBegan /\ LastSeen

LEMMA DataFields ==
  ASSUME cd \in ShortholdData
  PROVE  /\ cd.alg \in {"FIXU", "VARU"} /\ cd.unit \in Nat /\ cd.early \in Nat
         /\ cd.idle \in Nat /\ cd.cunits \in Nat /\ cd.aocd \in BOOLEAN
         /\ cd.ist \in {"NOT_STARTED", "STARTED", "CHECK"}
BY DEF ShortholdData

LEMMA LoadedType ==
  ASSUME NEW s, Setting(s), NEW aocd \in BOOLEAN, NEW n \in Nat,
         NEW i \in {"NOT_STARTED", "STARTED", "CHECK"}
  PROVE  Loaded(s, aocd, i, n) \in ShortholdData
BY ZenonT(60) DEF Loaded, Setting, ShortholdData

LEMMA ShInitInv == ShInit => ShInv
<1> SUFFICES ASSUME ShInit PROVE ShInv
  OBVIOUS
<1>1. PICK s \in Settings, aocd \in BOOLEAN :
        \/ incoming = FALSE /\ given = s /\ cd = Loaded(given, aocd, "NOT_STARTED", 0)
        \/ /\ incoming = TRUE /\ given = IdleTimeOnly(s)
           /\ cd = Loaded(given, FALSE, "NOT_STARTED", 0)
  BY ZenonT(60) DEF ShInit
<1>2. Setting(given) /\ incoming \in BOOLEAN
  <2>1. Setting(s) /\ Setting(IdleTimeOnly(s))
    BY ShortholdAssumption DEF Setting, IdleTimeOnly
  <2>2. given = s \/ given = IdleTimeOnly(s)
    BY ZenonT(60), <1>1
  <2>3. Setting(given)
    BY <2>1, <2>2
  <2>4. incoming \in BOOLEAN
    BY ZenonT(60), <1>1
  <2> QED
    BY <2>3, <2>4
<1>3. PICK a \in BOOLEAN : cd = Loaded(given, a, "NOT_STARTED", 0)
  BY ZenonT(60), <1>1
<1>4. cd \in ShortholdData
  BY <1>2, <1>3, LoadedType
<1>5. ShTyped
  BY <1>2, <1>4, ShortholdAssumption DEF ShInit, ShTyped, NEVER
<1>6. Fresh /\ cd.ist = "NOT_STARTED"
  BY <1>3 DEF Fresh, Loaded
<1>7. ShState
  BY <1>6 DEF ShInit, ShState, Running
<1>8. UnitsBegan /\ LastSeen
  BY DEF ShInit, UnitsBegan, LastSeen, Running
<1> QED
  BY <1>5, <1>7, <1>8 DEF ShInv

LEMMA TrafficStep ==
  ASSUME ShInv, Traffic, incoming' = incoming
  PROVE  ShInv'
<1>0. /\ last' = now /\ now' = now /\ call' = call /\ cd' = cd /\ due' = due
      /\ given' = given /\ start' = start /\ updates' = updates
  BY DEF Traffic
<1>1. ShTyped /\ ShState /\ UnitsBegan /\ LastSeen
  BY DEF ShInv
<1>2. ShTyped'
  BY <1>0, <1>1 DEF ShTyped, Setting
<1>3. ShState'
  BY <1>0, <1>1 DEF ShState, ShTyped, Running, Fresh, InEffect, Fixing, FixedUnits, Units
<1>4. UnitsBegan'
  BY <1>0, <1>1 DEF UnitsBegan, Unit, Running, FixedUnits, Units
<1>5. LastSeen'
  <2>1. last' \in Nat /\ last \in Nat /\ last' >= last /\ due \in Int
        /\ given.idle \in Nat /\ given.unit \in Nat /\ given.early \in Nat
    BY <1>0, <1>1, ShortholdAssumption DEF ShTyped, Setting
  <2> QED
    BY <1>0, <1>1, <2>1 DEF LastSeen, Running, Fixing, Units
<1> QED
  BY <1>2, <1>3, <1>4, <1>5 DEF ShInv

LEMMA TickStep ==
  ASSUME ShInv, Tick, incoming' = incoming
  PROVE  ShInv'
<1>0. /\ last' = last /\ now' = now + 1 /\ call' = call /\ cd' = cd /\ due' = due
      /\ given' = given /\ start' = start /\ updates' = updates
      /\ now < MaxTime /\ now # due
  BY DEF Tick
<1>1. ShTyped /\ ShState /\ UnitsBegan /\ LastSeen
  BY DEF ShInv
<1>2. ShTyped'
  BY <1>0, <1>1, ShortholdAssumption DEF ShTyped, Setting
<1>3. ShState'
  BY <1>0, <1>1 DEF ShState, ShTyped, Running, Fresh, InEffect, Fixing, FixedUnits, Units
<1>4. UnitsBegan'
  <2> SUFFICES ASSUME (Running /\ FixedUnits)' PROVE (\E k \in Nat : Unit(k))'
    BY DEF UnitsBegan
  <2>1. Running /\ FixedUnits
    BY <1>0 DEF Running, FixedUnits, Units
  <2>2. PICK k \in Nat : Unit(k)
    BY <1>1, <2>1 DEF UnitsBegan
  <2>3. now \in Nat /\ start \in Nat /\ given.unit \in Nat /\ due \in Int /\ given.early \in Nat
    BY <1>1, ShortholdAssumption DEF ShTyped, Setting
  <2>4. k * given.unit \in Nat
    BY <2>3
  <2> DEFINE m == k * given.unit
  <2>5. Unit(k)'
    <3> SUFFICES /\ cd.aocd = FALSE => cd.cunits = k + 1 /\ now + 1 >= start + m
                 /\ cd.ist = "CHECK" => due = start + m + given.unit - given.early
                 /\ cd.ist = "STARTED" => /\ due = start + m + given.unit
                                          /\ now + 1 >= due - given.early /\ given.early > 0
      BY <1>0 DEF Unit
    <3>1. /\ cd.aocd = FALSE => cd.cunits = k + 1 /\ now >= start + m
          /\ cd.ist = "CHECK" => due = start + m + given.unit - given.early
          /\ cd.ist = "STARTED" => /\ due = start + m + given.unit
                                   /\ now >= due - given.early /\ given.early > 0
      BY <2>2 DEF Unit
    <3> HIDE DEF m
    <3>2. m \in Nat
      BY <2>4 DEF m
    <3> QED
      BY <2>3, <3>1, <3>2
  <2> QED
    BY <2>5
<1>5. LastSeen'
  BY <1>0, <1>1 DEF LastSeen, Running, Fixing, Units
<1> QED
  BY <1>2, <1>3, <1>4, <1>5 DEF ShInv

\* i4b_l4_connect_active_ind starts the timer, unless nothing is to be watched.
LEMMA CallConnects ==
  ASSUME ShInv, ConnectActive, incoming' = incoming
  PROVE  ShInv'
<1>0. /\ last' = now /\ start' = now /\ now' = now /\ given' = given /\ updates' = updates
      /\ call = "calling"
  BY DEF ConnectActive
<1>1. ShTyped /\ ShState
  BY DEF ShInv
<1>2. cd \in ShortholdData /\ incoming \in BOOLEAN /\ now \in Nat
  BY <1>1, ShortholdAssumption DEF ShTyped
<1>3. Fresh /\ cd.ist = "NOT_STARTED" /\ due = NEVER
  BY <1>0, <1>1 DEF ShState
<1>4. /\ cd.unit \in Nat /\ cd.early \in Nat /\ cd.idle \in Nat /\ cd.aocd \in BOOLEAN
      /\ cd.alg \in {"FIXU", "VARU"}
  BY <1>2, DataFields
<1>5. Fix(cd) <=> Fixing
  BY <1>3 DEF Fresh, Fix, Fixing, HasUnits, Units
<1>6. InForce(cd) \in ShortholdData
  BY <1>2, ComputedLemma
<1>7. CASE Begins(cd)
  <2>1. Outcome(SetupTimeout(cd), Begun(cd), now + FirstWait(cd))
    BY <1>2, <1>3, <1>7, SetupStarts
  <2>2. cd' = Begun(cd) /\ due' = now + FirstWait(cd) /\ call' = "connected"
    BY <2>1 DEF Outcome, ConnectActive, Apply
  <2>3. /\ cd'.alg = given.alg /\ cd'.idle = given.idle
        /\ cd'.unit = IF Fixing THEN given.unit - given.early ELSE 1
        /\ cd'.early = IF Fixing THEN given.early ELSE 0
        /\ cd'.ist = "CHECK"
        /\ cd'.cunits = IF InForce(cd).aocd THEN 0 ELSE 1
    BY <1>3, <1>5, <2>2 DEF Begun, InForce, Fresh
  <2>4. cd'.aocd = InForce(cd).aocd /\ cd'.aocd \in BOOLEAN
    BY <1>6, <2>2 DEF Begun, ShortholdData
  <2>5. Fixing \/ cd'.aocd = TRUE
    BY <1>5, <2>4 DEF InForce
  <2>6. cd' \in ShortholdData
    <3>1. (IF InForce(cd).aocd THEN cd.cunits ELSE cd.cunits + 1) \in Nat
      BY <1>2, DataFields
    <3>2. Begun(cd) \in ShortholdData
      BY ZenonT(60), <1>6, <3>1, SetState DEF Begun
    <3> QED
      BY <2>2, <3>2
  <2>7. due' = now + IF ~Units(given) THEN 1
                     ELSE IF given.alg = "VARU" THEN given.unit - 1
                     ELSE given.unit - given.early
    BY <1>3, <2>2 DEF FirstWait, Fresh, HasUnits, Units
  <2>8. due' \in Nat /\ due' >= now
    BY <1>2, <1>3, <1>4, <2>7 DEF Units, Fresh
  <2>9. ShTyped'
    BY <1>0, <1>1, <1>2, <2>2, <2>6, <2>8 DEF ShTyped, Setting
  <2>10. ShState'
    <3>1. InEffect'
      BY <1>0, <2>3, <2>5 DEF InEffect, Fixing, Units
    <3> QED
      BY <1>0, <1>2, <2>2, <2>3, <2>8, <3>1 DEF ShState, Running, NEVER
  <2>11. UnitsBegan'
    <3> SUFFICES ASSUME (Running /\ FixedUnits)' PROVE Unit(0)'
      BY DEF UnitsBegan
    <3>1. Units(given) /\ given.alg = "FIXU"
      BY <1>0 DEF FixedUnits, Units
    <3>2. due' = now + given.unit - given.early /\ given.unit \in Nat /\ given.early \in Nat
      BY <1>2, <1>3, <1>4, <2>7, <3>1 DEF Fresh
    <3>3. cd'.aocd = FALSE => cd'.cunits = 1
      BY <2>3, <2>4
    <3>4. 0 * given.unit = 0
      BY <3>2
    <3> QED
      BY <1>0, <1>2, <2>3, <3>2, <3>3, <3>4 DEF Unit
  <2>12. LastSeen'
    BY <1>0, <1>2, <1>3, <1>4, <2>3, <2>7 DEF LastSeen, Fixing, Units, Fresh
  <2> QED
    BY <2>9, <2>10, <2>11, <2>12 DEF ShInv
<1>8. CASE ~Begins(cd)
  <2>1. Outcome(SetupTimeout(cd), InForce(cd), due)
    BY <1>2, <1>3, <1>8, SetupStarts
  <2>2. cd' = InForce(cd) /\ due' = due /\ call' = "connected"
    BY <2>1 DEF Outcome, ConnectActive, Apply
  <2>3. cd'.ist = "NOT_STARTED" /\ cd'.aocd # FALSE
    BY ZenonT(60), <1>3, <1>8, <2>2 DEF InForce, Begins
  <2>4. ShTyped'
    BY <1>0, <1>1, <1>2, <1>6, <2>2 DEF ShTyped, Setting
  <2>5. ShState'
    <3>1. (due' = NEVER) /\ cd'.ist = "NOT_STARTED" /\ call' = "connected" /\ ~Running'
      BY <1>3, <2>2, <2>3 DEF Running
    <3>2. last' >= start'
      BY <1>0, <1>2
    <3>3. ~(FixedUnits' /\ cd'.aocd = FALSE)
      BY ZenonT(60), <2>3
    <3> QED
      BY <3>1, <3>2, <3>3 DEF ShState, NEVER
  <2>6. UnitsBegan' /\ LastSeen'
    BY <2>3 DEF UnitsBegan, LastSeen, Running
  <2> QED
    BY <2>4, <2>5, <2>6 DEF ShInv
<1> QED
  BY <1>7, <1>8

\* An update with what is in force
LEMMA Again ==
  ASSUME ShInv, Running
  PROVE  InForce(Loaded(given, cd.aocd, cd.ist, cd.cunits)) = cd
<1>1. cd \in ShortholdData /\ Setting(given) /\ incoming \in BOOLEAN /\ InEffect
  BY DEF ShInv, ShTyped, ShState
<1> DEFINE c == Loaded(given, cd.aocd, cd.ist, cd.cunits)
<1>2. c \in ShortholdData
  BY <1>1, DataFields, LoadedType
<1>3. /\ c.alg = given.alg /\ c.unit = given.unit /\ c.early = given.early
      /\ c.idle = given.idle /\ c.aocd = cd.aocd /\ c.ist = cd.ist /\ c.cunits = cd.cunits
  BY DEF Loaded
<1> HIDE DEF c
<1>4. InForce(c) \in ShortholdData
  BY <1>1, <1>2, ComputedLemma
<1>5. Fix(c) <=> Fixing
  BY <1>3 DEF Fix, Fixing, HasUnits, Units
<1>6. /\ InForce(c).alg = cd.alg /\ InForce(c).unit = cd.unit /\ InForce(c).early = cd.early
      /\ InForce(c).idle = cd.idle /\ InForce(c).ist = cd.ist /\ InForce(c).cunits = cd.cunits
  BY ZenonT(60), <1>1, <1>3, <1>5 DEF InForce, InEffect
<1>7. InForce(c).aocd = cd.aocd
  BY ZenonT(60), <1>1, <1>3, <1>5 DEF InForce, InEffect
<1>8. InForce(c) = cd
  BY <1>1, <1>4, <1>6, <1>7, SameData
<1> QED
  BY <1>8 DEF c

\* I4B_TIMEOUT_UPD
LEMMA UpdateStep ==
  ASSUME ShInv, NEW s \in Settings, TimeoutUpd(s), incoming' = incoming
  PROVE  /\ ShInv'
         /\ call' = call
         /\ given' = given /\ cd.ist # "NOT_STARTED" => cd' = cd /\ due' = due
<1> DEFINE c == Loaded(s, cd.aocd, cd.ist, cd.cunits)
<1>0. /\ last' = last /\ start' = start /\ now' = now /\ given' = s
      /\ updates' = updates + 1 /\ call # "hungup"
  BY DEF TimeoutUpd
<1>1. ShTyped /\ ShState
  BY DEF ShInv
<1>2. cd \in ShortholdData /\ incoming \in BOOLEAN /\ updates \in Nat
  BY <1>1 DEF ShTyped
<1>3. Setting(s)
  BY ShortholdAssumption DEF Setting
<1>4. c \in ShortholdData
  BY <1>2, <1>3, DataFields, LoadedType
<1>5. /\ c.alg = s.alg /\ c.unit = s.unit /\ c.early = s.early
      /\ c.idle = s.idle /\ c.aocd = cd.aocd /\ c.ist = cd.ist /\ c.cunits = cd.cunits
  BY DEF Loaded
<1>6. cd.ist = "NOT_STARTED" => cd' = c /\ due' = due /\ call' = call
  BY ZenonT(60), <1>5 DEF TimeoutUpd
<1>7. cd.ist # "NOT_STARTED" => Apply(SetupTimeout(c))
  BY <1>5 DEF TimeoutUpd
<1>8. cd.ist # "NOT_STARTED" => Running
  BY <1>1 DEF ShState, Running
<1>9. given' = given /\ cd.ist # "NOT_STARTED" => InForce(c) = cd
  BY <1>0, <1>8, Again
<1> HIDE DEF c
<1>10. CASE cd.ist = "NOT_STARTED"
  <2>1. ShTyped'
    BY <1>0, <1>1, <1>3, <1>4, <1>6, <1>10 DEF ShTyped, Setting
  <2>2. updates' # 0 /\ cd'.ist = "NOT_STARTED"
    BY <1>0, <1>2, <1>5, <1>6, <1>10
  <2>3. call' = "calling" => Fresh'
    BY <1>0, <1>1, <1>5, <1>6, <1>10 DEF ShState, Fresh
  <2>4. ShState'
    BY <1>0, <1>1, <1>6, <1>10, <2>2, <2>3 DEF ShState, Running, FixedUnits
  <2>5. UnitsBegan' /\ LastSeen'
    BY <2>2 DEF UnitsBegan, LastSeen, Running
  <2> QED
    BY <1>6, <1>10, <2>1, <2>4, <2>5 DEF ShInv
<1>11. CASE cd.ist # "NOT_STARTED"
  <2>1. Outcome(SetupTimeout(c), InForce(c), due)
    BY <1>2, <1>4, <1>5, <1>11, SetupRunning
  <2>2. cd' = InForce(c) /\ due' = due /\ call' = "connected"
    BY <1>7, <1>11, <2>1 DEF Outcome, Apply
  <2>3. cd' \in ShortholdData
    BY <1>2, <1>4, <2>2, ComputedLemma
  <2>4. ShTyped'
    BY <1>0, <1>1, <1>3, <2>2, <2>3 DEF ShTyped, Setting
  <2>5. Fix(c) <=> Fixing'
    <3>1. Fixing' <=> ~incoming /\ s.unit > 0 /\ s.unit > s.early /\ s.alg = "FIXU"
      BY Zenon, <1>0 DEF Fixing, Units
    <3>2. Fix(c) <=> ~incoming /\ s.unit > 0 /\ s.unit > s.early /\ s.alg = "FIXU"
      BY Zenon, <1>5 DEF Fix, HasUnits
    <3> QED
      BY Zenon, <3>1, <3>2
  <2>6. InEffect'
    BY <1>0, <1>5, <2>2, <2>5 DEF InEffect, InForce
  <2>7. updates' # 0 /\ cd'.ist = cd.ist
    <3>1. updates' # 0
      BY <1>0, <1>2
    <3>2. InForce(c).ist = c.ist
      BY ZenonT(60) DEF InForce
    <3> QED
      BY <1>5, <2>2, <3>1, <3>2
  <2>8. ShState'
    BY <1>0, <1>1, <1>8, <1>11, <2>2, <2>6, <2>7 DEF ShState, Running, FixedUnits
  <2>9. UnitsBegan' /\ LastSeen'
    BY <2>7 DEF UnitsBegan, LastSeen, FixedUnits
  <2> QED
    BY <1>8, <1>9, <1>11, <2>2, <2>4, <2>8, <2>9 DEF ShInv, Running
<1> QED
  BY <1>10, <1>11

\* idle_callout fires: i4b_idle_check
LEMMA ExpiryStep ==
  ASSUME ShInv, Timeout, incoming' = incoming
  PROVE  /\ ShInv'
         /\ call' = "hungup" /\ FixedUnits =>
              /\ now - last >= given.idle /\ given.idle > 0
              /\ (now - start + given.early) % given.unit = 0
<1>0. /\ last' = last /\ start' = start /\ now' = now /\ given' = given
      /\ updates' = updates /\ call = "connected" /\ due = now
  BY DEF Timeout
<1>1. ShTyped /\ ShState /\ UnitsBegan /\ LastSeen
  BY DEF ShInv
<1>2. /\ now \in Nat /\ last \in Nat /\ start \in Nat /\ updates \in Nat
      /\ last <= now /\ start <= now /\ cd \in ShortholdData
      /\ given.unit \in Nat /\ given.early \in Nat /\ given.idle \in Nat
  BY <1>1, ShortholdAssumption DEF ShTyped, Setting
<1>3. /\ cd.unit \in Nat /\ cd.early \in Nat /\ cd.idle \in Nat /\ cd.cunits \in Nat
      /\ cd.aocd \in BOOLEAN /\ cd.ist \in {"STARTED", "CHECK"}
  BY <1>0, <1>1, <1>2, DataFields DEF ShState, NEVER
<1>4. Running /\ InEffect
  BY <1>0, <1>1, <1>3 DEF ShState, Running
<1>5. FixedUnits => \E k \in Nat : Unit(k)
  BY <1>1, <1>4 DEF UnitsBegan
<1>6. FixedUnits => Fixing /\ cd.unit = given.unit - given.early /\ cd.early = given.early
                    /\ given.unit > given.early
  BY <1>4 DEF FixedUnits, Fixing, InEffect, Units
<1>7. CASE cd.ist = "STARTED" \/ (Active(cd) /\ cd.early <= 0)
  <2> DEFINE n == IF cd.aocd THEN cd.cunits ELSE cd.cunits + 1
  <2>1. cd' = [cd EXCEPT !.ist = "CHECK", !.cunits = n] /\ due' = now + cd.unit
        /\ call' = "connected"
    BY <1>7 DEF Timeout, Apply, IdleCheck, NextUnit, Waiting
  <2>2. n \in Nat
    BY <1>3
  <2>3. cd' \in ShortholdData
    BY ZenonT(60), <1>2, <2>1, <2>2, SetState
  <2>4. /\ cd'.alg = cd.alg /\ cd'.unit = cd.unit /\ cd'.early = cd.early
        /\ cd'.idle = cd.idle /\ cd'.aocd = cd.aocd /\ cd'.ist = "CHECK" /\ cd'.cunits = n
    BY <1>2, <2>1 DEF ShortholdData
  <2>5. due' \in Nat /\ due' >= now
    BY <1>2, <1>3, <2>1
  <2>6. ShTyped'
    BY <1>0, <1>1, <2>1, <2>3, <2>5 DEF ShTyped, Setting
  <2>7. InEffect'
    BY <1>0, <1>4, <2>4 DEF InEffect, Fixing, Units
  <2>8. ShState'
    BY <1>0, <1>1, <2>1, <2>4, <2>5, <2>7 DEF ShState, Running, NEVER
  <2>9. UnitsBegan'
    <3> SUFFICES ASSUME FixedUnits' PROVE (\E k \in Nat : Unit(k))'
      BY DEF UnitsBegan
    <3>1. FixedUnits
      BY <1>0 DEF FixedUnits, Units
    <3>2. PICK k \in Nat : Unit(k)
      BY <1>5, <3>1
    <3> DEFINE m == k * given.unit
    <3>3. m \in Nat /\ (k + 1) * given.unit = m + given.unit /\ k + 1 \in Nat
      BY <1>2
    <3>4. /\ cd.aocd = FALSE => cd.cunits = k + 1
          /\ cd.ist = "CHECK" => now = start + m + given.unit - given.early
          /\ cd.ist = "STARTED" => now = start + m + given.unit
      BY <1>0, <3>2 DEF Unit
    <3> HIDE DEF m
    <3>5. now = start + m + given.unit
      BY <1>2, <1>3, <1>6, <1>7, <3>1, <3>3, <3>4
    <3>6. cd'.aocd = FALSE => cd'.cunits = (k + 1) + 1
      BY <2>4, <3>4
    <3>7. now' >= start' + (k + 1) * given'.unit
      BY <1>0, <1>2, <3>3, <3>5
    <3>8. due' = start' + (k + 1) * given'.unit + given'.unit - given'.early
      BY <1>0, <1>2, <1>6, <2>1, <3>1, <3>3, <3>5
    <3>9. Unit(k + 1)'
      BY <2>4, <3>6, <3>7, <3>8 DEF Unit
    <3> QED
      BY <3>3, <3>9
  <2>10. LastSeen'
    <3> SUFFICES ASSUME updates = 0, given.idle > 0 PROVE LastSeen'
      BY <1>0 DEF LastSeen
    <3>1. Active(cd) => last + given.idle > now
      BY <1>2, <1>4 DEF Active, InEffect
    <3>2. Fixing => last + given.idle > now - given.early
      BY <1>0, <1>1, <1>2, <1>3, <1>4, <1>7, <3>1 DEF LastSeen
    <3>3. ~Fixing => last + given.idle > now
      BY <1>0, <1>1, <1>2, <1>3, <1>4, <1>7, <3>1 DEF LastSeen
    <3>4. Fixing => due' = now + given.unit - given.early
      BY <1>2, <1>4, <2>1 DEF InEffect
    <3>5. ~Fixing => due' = now + 1
      BY <1>4, <2>1 DEF InEffect
    <3>6. Fixing' = Fixing
      BY <1>0 DEF Fixing, Units
    <3>7. CASE Fixing
      BY <1>0, <1>2, <2>4, <3>2, <3>4, <3>6, <3>7 DEF LastSeen
    <3>8. CASE ~Fixing
      BY <1>0, <1>2, <2>4, <3>3, <3>5, <3>6, <3>8 DEF LastSeen
    <3> QED
      BY <3>7, <3>8
  <2> QED
    BY <2>1, <2>6, <2>8, <2>9, <2>10 DEF ShInv
<1>8. CASE cd.ist = "CHECK" /\ Active(cd) /\ cd.early > 0
  <2>1. cd' = [cd EXCEPT !.ist = "STARTED"] /\ due' = now + cd.early /\ call' = "connected"
    BY <1>3, <1>8 DEF Timeout, Apply, IdleCheck, Waiting
  <2>3. cd' \in ShortholdData
    BY <1>2, <2>1 DEF ShortholdData
  <2>4. /\ cd'.alg = cd.alg /\ cd'.unit = cd.unit /\ cd'.early = cd.early
        /\ cd'.idle = cd.idle /\ cd'.aocd = cd.aocd /\ cd'.ist = "STARTED"
        /\ cd'.cunits = cd.cunits
    BY <1>2, <2>1 DEF ShortholdData
  <2>5. due' \in Nat /\ due' >= now
    BY <1>2, <1>3, <2>1
  <2>6. ShTyped'
    BY <1>0, <1>1, <2>1, <2>3, <2>5 DEF ShTyped, Setting
  <2>7. InEffect'
    BY <1>0, <1>4, <2>4 DEF InEffect, Fixing, Units
  <2>8. ShState'
    BY <1>0, <1>1, <2>1, <2>4, <2>5, <2>7 DEF ShState, Running, NEVER
  <2>9. Fixing /\ cd.early = given.early
    BY <1>3, <1>4, <1>8 DEF InEffect
  <2>10. UnitsBegan'
    <3> SUFFICES ASSUME FixedUnits' PROVE (\E k \in Nat : Unit(k))'
      BY DEF UnitsBegan
    <3>1. FixedUnits
      BY <1>0 DEF FixedUnits, Units
    <3>2. PICK k \in Nat : Unit(k)
      BY <1>5, <3>1
    <3> DEFINE m == k * given.unit
    <3>3. m \in Nat
      BY <1>2
    <3>4. /\ cd.aocd = FALSE => cd.cunits = k + 1 /\ now >= start + m
          /\ now = start + m + given.unit - given.early
      BY <1>0, <1>8, <3>2 DEF Unit
    <3>5. m = k * given.unit
      OBVIOUS
    <3> HIDE DEF m
    <3>6. due' = start' + k * given'.unit + given'.unit
          /\ now' >= due' - given'.early /\ given'.early > 0
      BY <1>0, <1>2, <1>8, <2>1, <2>9, <3>3, <3>4, <3>5
    <3>7. cd'.aocd = FALSE => cd'.cunits = k + 1 /\ now' >= start' + k * given'.unit
      BY <1>0, <2>4, <3>4, <3>5
    <3>8. Unit(k)'
      BY <2>4, <3>6, <3>7 DEF Unit
    <3> QED
      BY <3>8
  <2>11. LastSeen'
    <3> SUFFICES ASSUME updates = 0, given.idle > 0 PROVE LastSeen'
      BY <1>0 DEF LastSeen
    <3>1. last + given.idle > now
      BY <1>2, <1>4, <1>8 DEF Active, InEffect
    <3>2. Fixing'
      BY <1>0, <2>9 DEF Fixing, Units
    <3> QED
      BY <1>0, <1>2, <2>1, <2>4, <2>9, <3>1, <3>2 DEF LastSeen
  <2> QED
    BY <2>1, <2>6, <2>8, <2>10, <2>11 DEF ShInv
<1>9. CASE cd.ist = "CHECK" /\ ~Active(cd)
  <2>1. cd' = [cd EXCEPT !.ist = "NOT_STARTED"] /\ due' = NEVER /\ call' = "hungup"
    BY <1>3, <1>9 DEF Timeout, Apply, IdleCheck
  <2>3. cd' \in ShortholdData /\ cd'.ist = "NOT_STARTED"
    BY <1>2, <2>1 DEF ShortholdData
  <2>4. ShTyped'
    BY <1>0, <1>1, <2>1, <2>3 DEF ShTyped, Setting, NEVER
  <2>5. ShState'
    BY <1>0, <2>1, <2>3 DEF ShState, Running, NEVER
  <2>6. UnitsBegan' /\ LastSeen'
    BY <2>1 DEF UnitsBegan, LastSeen, Running
  <2>7. now - last >= given.idle /\ given.idle > 0
    BY <1>2, <1>4, <1>9 DEF Active, InEffect
  <2>8. ASSUME FixedUnits PROVE (now - start + given.early) % given.unit = 0
    <3>1. PICK k \in Nat : Unit(k)
      BY <1>5, <2>8
    <3> DEFINE m == k * given.unit
    <3>2. m \in Nat /\ (k + 1) * given.unit = m + given.unit
      BY <1>2
    <3>3. now = start + m + given.unit - given.early
      BY <1>0, <1>9, <3>1 DEF Unit
    <3> HIDE DEF m
    <3>4. now - start + given.early = (k + 1) * given.unit
      BY <1>2, <3>2, <3>3
    <3>5. given.unit > 0
      BY <1>2, <1>6, <2>8
    <3>6. ((k + 1) * given.unit) % given.unit = 0
      BY <1>2, <3>5
    <3> QED
      BY <3>4, <3>6
  <2> QED
    BY <2>4, <2>5, <2>6, <2>7, <2>8 DEF ShInv
<1> QED
  BY <1>3, <1>7, <1>8, <1>9

LEMMA ShNextInv ==
  ASSUME ShInv, [ShNext]_shVars
  PROVE  ShInv'
<1>1. CASE UNCHANGED shVars
  <2>1. /\ now' = now /\ incoming' = incoming /\ call' = call /\ cd' = cd /\ due' = due
        /\ last' = last /\ given' = given /\ start' = start /\ updates' = updates
    BY <1>1 DEF shVars
  <2>2. ShTyped' /\ ShState'
    BY <2>1 DEF ShInv, ShTyped, Setting, ShState, Running, Fresh, InEffect, Fixing,
                FixedUnits, Units
  <2>3. UnitsBegan' /\ LastSeen'
    BY <2>1 DEF ShInv, UnitsBegan, Unit, LastSeen, Running, Fixing, FixedUnits, Units
  <2> QED
    BY <2>2, <2>3 DEF ShInv
<1>2. CASE ShNext
  BY <1>2, CallConnects, TrafficStep, ExpiryStep, TickStep, UpdateStep DEF ShNext
<1> QED
  BY <1>1, <1>2

LEMMA ShTypeOK ==
  ASSUME ShInv
  PROVE  TypeOK
BY DataFields DEF ShInv, ShTyped, TypeOK

LEMMA Quotient ==
  ASSUME NEW t \in Nat, NEW u \in Nat, NEW k \in Nat, u > 0, k * u <= t, t < k * u + u
  PROVE  t \div u = k
OBVIOUS

LEMMA ShCharged ==
  ASSUME ShInv
  PROVE  ChargedUnits
<1> SUFFICES ASSUME call = "connected", FixedUnits, ~cd.aocd, due # now
             PROVE  cd.cunits = (now - start) \div given.unit + 1
  BY DEF ChargedUnits
<1>1. ShTyped /\ ShState /\ UnitsBegan
  BY DEF ShInv
<1>2. /\ now \in Nat /\ start \in Nat /\ start <= now /\ due \in Int /\ cd.aocd \in BOOLEAN
      /\ given.unit \in Nat /\ given.early \in Nat /\ cd \in ShortholdData
      /\ given.unit > given.early
  BY <1>1, DataFields, ShortholdAssumption DEF ShTyped, Setting, FixedUnits, Units
<1>3. Running /\ cd.aocd = FALSE
  BY <1>1, <1>2 DEF ShState
<1>4. cd.ist \in {"STARTED", "CHECK"}
  BY <1>2, <1>3, DataFields DEF Running
<1>5. due > now
  BY <1>1, <1>2, <1>4 DEF ShTyped, ShState
<1>6. PICK k \in Nat : Unit(k)
  BY <1>1, <1>3 DEF UnitsBegan
<1> DEFINE m == k * given.unit
<1>7. m \in Nat /\ m = k * given.unit
  BY <1>2
<1>8. cd.cunits = k + 1 /\ now >= start + m
      /\ (due = start + m + given.unit - given.early \/ due = start + m + given.unit)
  BY <1>3, <1>4, <1>6 DEF Unit
<1> HIDE DEF m
<1>9. m <= now - start /\ now - start < m + given.unit
  BY <1>2, <1>5, <1>7, <1>8
<1>10. PICK t \in Nat : t = now - start
  BY <1>2
<1>11. k * given.unit <= t /\ t < k * given.unit + given.unit
  BY <1>7, <1>9, <1>10
<1>12. given.unit > 0
  BY <1>2
<1>13. PICK u \in Nat : u = given.unit
  BY <1>2
<1>14. u > 0 /\ k * u <= t /\ t < k * u + u
  BY <1>11, <1>12, <1>13
<1>15. t \div u = k
  BY <1>14, Quotient
<1> QED
  BY <1>8, <1>10, <1>13, <1>15

LEMMA ShClosed ==
  ASSUME ShInv
  PROVE  IdleIsClosed
<1> SUFFICES ASSUME call = "connected", cd.ist # "NOT_STARTED", updates = 0,
                    given.idle > 0, due # now
             PROVE  now - last < given.idle +
                      IF Units(given) /\ (given.alg = "FIXU" \/ now - start < given.unit)
                      THEN given.unit ELSE 1
  BY DEF IdleIsClosed
<1>1. ShTyped /\ ShState /\ LastSeen /\ Running
  BY DEF ShInv, Running
<1>2. /\ now \in Nat /\ start \in Nat /\ last \in Nat /\ last <= now /\ due \in Int
      /\ given.unit \in Nat /\ given.early \in Nat /\ given.idle \in Nat
      /\ last >= start /\ given.alg \in {"FIXU", "VARU"}
  BY <1>1, ShortholdAssumption DEF ShTyped, ShState, Setting
<1>3. due > now
  BY <1>1, <1>2 DEF ShTyped, ShState
<1>4. CASE Fixing
  <2>1. last + given.idle > due - given.unit
    BY <1>1, <1>2, <1>4 DEF LastSeen, Fixing, Units
  <2> QED
    BY <1>2, <1>3, <1>4, <2>1 DEF Fixing
<1>5. CASE ~Fixing
  <2>1. \/ last + given.idle > due - 1
        \/ Units(given) /\ due = start + given.unit - 1
    BY <1>1, <1>5 DEF LastSeen
  <2>2. CASE last + given.idle > due - 1
    <3>1. now - last < given.idle /\ given.unit \in Nat
      BY <1>2, <1>3, <2>2
    <3> QED
      BY <1>2, <3>1
  <2>3. CASE Units(given) /\ due = start + given.unit - 1
    BY <1>2, <1>3, <2>3
  <2> QED
    BY <2>1, <2>2, <2>3
<1> QED
  BY <1>4, <1>5

\* For all lengths of units, early hang-up times and idle times, and however often
\* data moves and the daemon updates them: i4b_idle_check hangs up a call with
\* fixed units only when it has been idle for idle_time, exactly earlyhup_time
\* before a unit ends, and charges one unit for each that began.
THEOREM HangupBeforeUnitAlways == ShSpec => HangupBeforeUnit
<1>1. ShInit => ShInv
  BY ShInitInv
<1>2. ShInv /\ [ShNext]_shVars => ShInv'
  BY ShNextInv
<1> DEFINE Step ==
     /\ TypeOK' /\ ChargedUnits' /\ IdleIsClosed'
     /\ call = "connected" /\ call' = "hungup" /\ FixedUnits =>
          /\ now - last >= given.idle /\ given.idle > 0
          /\ (now - start + given.early) % given.unit = 0
     /\ updates' # updates /\ given' = given /\ cd.ist # "NOT_STARTED"
          => cd' = cd /\ due' = due
<1>3. ShInv /\ ShInv' /\ [ShNext]_shVars => [Step]_shVars
  <2> SUFFICES ASSUME ShInv, ShInv', ShNext PROVE Step
    OBVIOUS
  <2>1. TypeOK'
    BY ShTypeOK, PTL
  <2>2. ChargedUnits'
    BY ShCharged, PTL
  <2>3. IdleIsClosed'
    BY ShClosed, PTL
  <2>4. incoming' = incoming
    BY DEF ShNext
  <2>5. CASE \E s \in Settings : TimeoutUpd(s)
    <3>1. call' = call /\ (given' = given /\ cd.ist # "NOT_STARTED" => cd' = cd /\ due' = due)
      BY <2>4, <2>5, UpdateStep
    <3> QED
      BY <2>1, <2>2, <2>3, <3>1
  <2>6. CASE Timeout
    <3>1. updates' = updates
      BY <2>6 DEF Timeout
    <3> QED
      BY <2>1, <2>2, <2>3, <2>4, <2>6, <3>1, ExpiryStep
  <2>7. CASE ConnectActive \/ Traffic \/ Tick
    <3>1. updates' = updates /\ (call = "calling" \/ call' = call)
      BY <2>7 DEF ConnectActive, Traffic, Tick
    <3> QED
      BY <2>1, <2>2, <2>3, <3>1
  <2> QED
    BY <2>5, <2>6, <2>7 DEF ShNext
<1> QED
  BY <1>1, <1>2, <1>3, PTL DEF ShSpec, HangupBeforeUnit

-----------------------------------------------------------------------------
(* The devices *)

\* A reference that is smaller is another.
LEMMA LessDiffers == \A m, n \in Nat : m < n => m # n
OBVIOUS

-----------------------------------------------------------------------------
(* /dev/capi20: the invariant *)

Reading == {"read_asleep", "read_awake"}
Writing == {"copy", "handle", "leave"}
Controlling == {"ioctl", "start", "ioctl_end"}
Closers == {"close", "close_asleep", "release", "drain", "closed"}
Past == {"release", "drain", "closed"}

\* What thread t does agrees with the flags and the other members of the softc.
ThreadFits(t) ==
  /\ pcs[t] \in Writing => busy /\ msg = t
  /\ pcs[t] \in Reading => "RD_ENTERED" \in fl
  /\ pcs[t] = "read_asleep" => "RD_WAKEUP" \in fl /\ inq = 0
  /\ pcs[t] = "handle" => "WR_ENTERED" \in fl
  /\ pcs[t] \in Controlling => "IOCTL" \in fl
  /\ pcs[t] = "start" => "D_OPEN" \in fl
  /\ pcs[t] = "poll_asleep" => "SELECT" \in fl /\ inq = 0
  /\ pcs[t] \in Closers => "CLOSING" \in fl
  /\ pcs[t] = "close_asleep" => "RD_WAKEUP" \notin fl /\ fl \cap InUse # {}
  /\ pcs[t] \in Past => fl \cap InUse = {}
  /\ pcs[t] = "closed" => "D_OPEN" \notin fl

\* At most one thread reads, one runs an ioctl and one closes.
Apart(x, y) ==
  \A S \in {Reading, Controlling, Closers} : ~(x \in S /\ y \in S)

CdInv ==
  /\ CdTypeOK
  /\ \A t \in CapiThreads : ThreadFits(t)
  /\ \A t, u \in CapiThreads : t # u => Apart(pcs[t], pcs[u])
  /\ "RD_WAKEUP" \in fl => "RD_ENTERED" \in fl
  /\ StartsCounted

PcSet == {"idle", "read_asleep", "read_awake", "copy", "handle", "leave", "ioctl", "start",
          "ioctl_end", "poll_asleep", "close", "close_asleep", "release", "drain", "closed"}

LEMMA CdInitially ==
  ASSUME CdInit
  PROVE  CdInv
<1>1. CdTypeOK
  <2>1. inq \in 0 .. LimitHigh /\ failures \in 0 .. MaxLost /\ opens \in Nat
    BY CapiDeviceAssumption DEF CdInit
  <2> QED
    BY <2>1 DEF CdInit, CdTypeOK, CapiFlags
<1>2. \A t \in CapiThreads : pcs[t] = "idle"
  BY DEF CdInit
<1>3. \A t \in CapiThreads : ThreadFits(t)
  BY <1>2 DEF ThreadFits, Reading, Writing, Controlling, Closers, Past
<1>4. \A t, u \in CapiThreads : Apart(pcs[t], pcs[u])
  BY <1>2 DEF Apart, Reading, Controlling, Closers
<1>5. StartsCounted
  BY <1>2 DEF CdInit, StartsCounted, Doing
<1> QED
  BY <1>1, <1>3, <1>4, <1>5 DEF CdInv, CdInit

-----------------------------------------------------------------------------
(* Steps of one thread *)

\* What another thread may do meanwhile: it is woken.
Eased(x, y) ==
  \/ y = x
  \/ x = "read_asleep" /\ y = "read_awake"
  \/ x = "close_asleep" /\ y = "close"

\* Thread t gets to x, others may be woken.
MovesTo(t, x) ==
  /\ pcs' \in [CapiThreads -> PcSet] /\ pcs'[t] = x
  /\ \A u \in CapiThreads \ {t} : Eased(pcs[u], pcs'[u])

LEMMA Moved ==
  ASSUME CdInv, NEW t \in CapiThreads, NEW x \in PcSet, pcs' = Set(t, x)
  PROVE  MovesTo(t, x) /\ \A u \in CapiThreads \ {t} : pcs'[u] = pcs[u]
BY DEF CdInv, CdTypeOK, Set, MovesTo, PcSet, Eased

\* cv_broadcast leaves nobody asleep on the condition variable.
LEMMA MovedAndWoken ==
  ASSUME CdInv, NEW t \in CapiThreads, NEW x \in PcSet \ {"read_asleep", "close_asleep"},
         pcs' = Broadcast(Set(t, x))
  PROVE  /\ MovesTo(t, x)
         /\ \A u \in CapiThreads : pcs'[u] \notin {"read_asleep", "close_asleep"}
<1> DEFINE S == Set(t, x)
<1>1. S \in [CapiThreads -> PcSet] /\ S[t] = x /\ \A u \in CapiThreads \ {t} : S[u] = pcs[u]
  BY DEF CdInv, CdTypeOK, Set, PcSet
<1> HIDE DEF S
<1>2. pcs' = Broadcast(S)
  BY DEF S
<1>3. \A u \in CapiThreads :
        /\ pcs'[u] \in PcSet /\ Eased(S[u], pcs'[u])
        /\ pcs'[u] \notin {"read_asleep", "close_asleep"}
  BY <1>1, <1>2 DEF Broadcast, PcSet, Eased
<1>4. pcs' \in [CapiThreads -> PcSet]
  BY <1>2, <1>3 DEF Broadcast
<1>5. pcs'[t] = x
  BY <1>1, <1>3 DEF Eased
<1> QED
  BY <1>1, <1>3, <1>4, <1>5 DEF MovesTo

\* The exclusive parts of the code stay so.
LEMMA StayApart ==
  ASSUME CdInv, NEW t \in CapiThreads, NEW x, MovesTo(t, x),
         \A u \in CapiThreads \ {t} : Apart(x, pcs[u])
  PROVE  \A v, u \in CapiThreads : v # u => Apart(pcs'[v], pcs'[u])
<1>1. ASSUME NEW u \in CapiThreads \ {t}, NEW S \in {Reading, Controlling, Closers}
      PROVE  pcs'[u] \in S <=> pcs[u] \in S
  BY DEF MovesTo, Eased, Reading, Controlling, Closers
<1>2. ASSUME NEW v \in CapiThreads \ {t}, NEW u \in CapiThreads \ {t}, v # u
      PROVE  Apart(pcs'[v], pcs'[u])
  BY <1>1, <1>2 DEF CdInv, Apart
<1>3. ASSUME NEW u \in CapiThreads \ {t}
      PROVE  Apart(pcs'[t], pcs'[u]) /\ Apart(pcs'[u], pcs'[t])
  BY <1>1 DEF MovesTo, Apart
<1> QED
  BY <1>2, <1>3

\* t is where it was, or in no exclusive part.
LEMMA NothingEntered ==
  ASSUME CdInv, NEW t \in CapiThreads, NEW x,
         \A S \in {Reading, Controlling, Closers} : x \in S => pcs[t] \in S
  PROVE  \A u \in CapiThreads \ {t} : Apart(x, pcs[u])
BY DEF CdInv, Apart

LEMMA FreeOfAll ==
  ASSUME NEW x, x \notin Reading, x \notin Controlling, x \notin Closers, NEW y
  PROVE  Apart(x, y)
BY DEF Apart

\* A step that has nothing to do with the start of the D-channel
LEMMA StartsKept ==
  ASSUME CdInv, NEW t \in CapiThreads, NEW x, MovesTo(t, x),
         x \notin {"start", "drain", "closed"}, pcs[t] \notin {"start", "drain", "closed"},
         "D_OPEN" \in fl' <=> "D_OPEN" \in fl, opens' = opens
  PROVE  StartsCounted'
<1>1. \A u \in CapiThreads : pcs'[u] \in {"start", "drain"} <=> pcs[u] \in {"start", "drain"}
  BY DEF MovesTo, Eased
<1>2. \A u \in CapiThreads : pcs'[u] \in {"closed"} <=> pcs[u] \in {"closed"}
  BY DEF MovesTo, Eased
<1>3. Doing({"start", "drain"})' = Doing({"start", "drain"})
  BY <1>1 DEF Doing
<1>4. Doing({"closed"})' = Doing({"closed"})
  BY <1>2 DEF Doing
<1> QED
  BY <1>3, <1>4 DEF CdInv, StartsCounted

LEMMA Together ==
  ASSUME CdInv, NEW t \in CapiThreads, NEW x, MovesTo(t, x),
         fl' \subseteq CapiFlags, inq' \in 0 .. LimitHigh, busy' \in BOOLEAN,
         msg' \in CapiThreads \cup {Nobody}, opens' \in Nat, failures' \in 0 .. MaxLost,
         ThreadFits(t)', \A u \in CapiThreads \ {t} : ThreadFits(u)',
         \A u \in CapiThreads \ {t} : Apart(x, pcs[u]),
         "RD_WAKEUP" \in fl' => "RD_ENTERED" \in fl', StartsCounted'
  PROVE  CdInv'
<1>1. CdTypeOK'
  BY DEF CdTypeOK, MovesTo, PcSet
<1>2. \A v, u \in CapiThreads : v # u => Apart(pcs'[v], pcs'[u])
  BY StayApart
<1>3. \A u \in CapiThreads : ThreadFits(u)'
  OBVIOUS
<1> QED
  BY <1>1, <1>2, <1>3 DEF CdInv

\* The numbers, for the steps that count
LEMMA InqBounds ==
  ASSUME CdInv
  PROVE  inq \in Nat /\ inq <= LimitHigh /\ LimitHigh \in Nat
<1>1. inq \in 0 .. LimitHigh
  BY DEF CdInv, CdTypeOK
<1>2. LimitHigh \in Nat
  BY CapiDeviceAssumption
<1> QED
  BY <1>1, <1>2

-----------------------------------------------------------------------------
(* capi_read *)

\* What ReadQueue does with the flags f of a thread that has none of its own in them
LEMMA ReadQueueStep ==
  ASSUME CdInv, NEW t \in CapiThreads, NEW f, f = fl \ {"RD_WAKEUP", "RD_ENTERED"},
         "CLOSING" \notin fl, pcs[t] \in {"idle"} \cup Reading,
         \A u \in CapiThreads \ {t} : pcs[u] \notin Reading,
         ReadQueue(t, f), UNCHANGED <<busy, msg, opens, failures>>
  PROVE  CdInv'
<1>0. inq \in Nat /\ inq <= LimitHigh /\ LimitHigh \in Nat
  BY InqBounds
<1>1. PICK x \in {"idle", "read_asleep"} :
        /\ pcs' = Set(t, x)
        /\ x = "idle" => fl' = f
        /\ x = "read_asleep" => fl' = f \cup {"RD_WAKEUP", "RD_ENTERED"} /\ inq = 0 /\ inq' = 0
  <2>1. CASE inq > 0
    BY <2>1 DEF ReadQueue
  <2>2. CASE ~(inq > 0)
    <3>1. inq = 0
      BY <1>0, <2>2
    <3> QED
      BY <2>2, <3>1 DEF ReadQueue
  <2> QED
    BY <2>1, <2>2
<1>2. MovesTo(t, x) /\ \A u \in CapiThreads \ {t} : pcs'[u] = pcs[u]
  BY <1>1, Moved DEF PcSet
<1>3. inq' \in 0 .. LimitHigh /\ (inq = 0 => inq' = 0)
  <2>1. inq' = inq \/ (inq > 0 /\ inq' = inq - 1)
    BY DEF ReadQueue
  <2> QED
    BY <1>0, <2>1
<1>4. fl' \subseteq CapiFlags /\ ("RD_WAKEUP" \in fl' => "RD_ENTERED" \in fl')
  BY <1>1 DEF CdInv, CdTypeOK, CapiFlags
<1>5. ThreadFits(t)'
  BY <1>1, <1>2 DEF ThreadFits, MovesTo, Reading, Writing, Controlling, Closers, Past
<1>6. ASSUME NEW u \in CapiThreads \ {t}
      PROVE  ThreadFits(u)'
  <2>1. pcs'[u] = pcs[u] /\ ThreadFits(u) /\ pcs[u] \notin Reading /\ pcs[u] \notin Closers
    BY <1>2 DEF CdInv, ThreadFits
  <2>2. \A g \in CapiFlags \ {"RD_WAKEUP", "RD_ENTERED"} : g \in fl' <=> g \in fl
    BY <1>1
  <2> QED
    BY <2>1, <2>2, <1>3 DEF ThreadFits, Reading, Closers, Past, CapiFlags
<1>7. \A u \in CapiThreads \ {t} : Apart(x, pcs[u])
  BY <1>1 DEF Apart, Reading, Controlling, Closers
<1>8. StartsCounted'
  BY <1>1, <1>2, StartsKept DEF Reading
<1> QED
  BY <1>2, <1>3, <1>4, <1>5, <1>6, <1>7, <1>8, Together DEF CdInv, CdTypeOK

LEMMA ReadStep ==
  ASSUME CdInv, NEW t \in CapiThreads, CapiRead(t)
  PROVE  CdInv'
<1>1. "RD_WAKEUP" \notin fl /\ "RD_ENTERED" \notin fl /\ "CLOSING" \notin fl
  BY DEF CapiRead, CdInv
<1>2. \A u \in CapiThreads : pcs[u] \notin Reading
  BY <1>1 DEF CdInv, ThreadFits
<1>3. fl = fl \ {"RD_WAKEUP", "RD_ENTERED"}
  BY <1>1
<1> QED
  BY <1>1, <1>2, <1>3, ReadQueueStep DEF CapiRead

LEMMA ReadOnStep ==
  ASSUME CdInv, NEW t \in CapiThreads, NEW signal \in BOOLEAN, ReadOn(t, signal)
  PROVE  CdInv'
<1> DEFINE f == fl \ {"RD_WAKEUP", "RD_ENTERED"}
<1>1. pcs[t] \in Reading
  BY DEF ReadOn, Reading
<1>2. \A u \in CapiThreads \ {t} : pcs[u] \notin Reading
  BY <1>1 DEF CdInv, Apart
<1>3. CASE "CLOSING" \notin fl /\ ~signal
  BY <1>1, <1>2, <1>3, ReadQueueStep DEF ReadOn
<1>4. CASE "CLOSING" \in fl \/ signal
  <2>1. fl' = f /\ UNCHANGED <<inq, busy, msg, opens, failures>>
    BY <1>4 DEF ReadOn
  <2>2. MovesTo(t, "idle") /\ \A u \in CapiThreads \ {t} : pcs'[u] # "read_asleep"
    BY <1>2, <1>4, Moved, MovedAndWoken DEF ReadOn, PcSet, Reading
  <2>3. "CLOSING" \in fl => \A u \in CapiThreads : pcs'[u] # "close_asleep"
    BY <1>4, MovedAndWoken DEF ReadOn, PcSet
  <2>4. fl' \subseteq CapiFlags /\ "RD_WAKEUP" \notin fl'
    BY <2>1 DEF CdInv, CdTypeOK
  <2>5. ThreadFits(t)'
    BY <2>2 DEF ThreadFits, MovesTo, Reading, Writing, Controlling, Closers, Past
  <2>6. ASSUME NEW u \in CapiThreads \ {t}
        PROVE  ThreadFits(u)'
    <3>1. Eased(pcs[u], pcs'[u]) /\ ThreadFits(u) /\ pcs[u] \notin Reading
      BY <1>2, <2>2 DEF CdInv, MovesTo
    <3>2. pcs'[u] # "close_asleep"
      BY <2>3, <3>1 DEF ThreadFits, Closers, Eased
    <3>3. \A g \in CapiFlags \ {"RD_WAKEUP", "RD_ENTERED"} : g \in fl' <=> g \in fl
      BY <2>1
    <3>4. fl \cap InUse = {} => fl' \cap InUse = {}
      BY <2>1
    <3> QED
      BY <2>1, <3>1, <3>2, <3>3, <3>4
      DEF ThreadFits, Reading, Writing, Controlling, Closers, Past, CapiFlags, Eased
  <2>7. \A u \in CapiThreads \ {t} : Apart("idle", pcs[u])
    BY FreeOfAll DEF Reading, Controlling, Closers
  <2>8. StartsCounted'
    BY <1>1, <2>1, <2>2, StartsKept DEF Reading
  <2> QED
    BY <2>1, <2>2, <2>4, <2>5, <2>6, <2>7, <2>8, Together DEF CdInv, CdTypeOK
<1> QED
  BY <1>3, <1>4

-----------------------------------------------------------------------------
(* capi_ai_putqueue *)

LEMMA PutQueueStep ==
  ASSUME CdInv, NEW drop \in BOOLEAN, NEW mem \in BOOLEAN, PutQueue(drop, mem)
  PROVE  CdInv'
<1>1. inq \in Nat /\ inq <= LimitHigh /\ LimitHigh \in Nat
  BY InqBounds
<1>2. failures' \in 0 .. MaxLost
  <2>1. failures \in 0 .. MaxLost /\ MaxLost \in Nat
    BY CapiDeviceAssumption DEF CdInv, CdTypeOK
  <2>2. (failures' = failures \/ failures' = failures + 1) /\ failures' <= MaxLost
    BY DEF PutQueue
  <2> QED
    BY <2>1, <2>2
<1>3. UNCHANGED <<busy, msg, opens>>
  BY DEF PutQueue
<1>4. CASE /\ fl' = fl \/ fl' = fl \cup {"MBUF_LOST"}
           /\ UNCHANGED <<inq, pcs>>
  <2>1. \A g \in CapiFlags \ {"MBUF_LOST"} : g \in fl' <=> g \in fl
    BY <1>4
  <2>2. fl' \cap InUse = fl \cap InUse
    BY <1>4 DEF InUse
  <2>3. ASSUME NEW t \in CapiThreads
        PROVE  ThreadFits(t)'
    <3>1. ThreadFits(t) /\ pcs'[t] = pcs[t]
      BY <1>4 DEF CdInv
    <3> QED
      BY <1>3, <1>4, <2>1, <2>2, <3>1 DEF ThreadFits, CapiFlags
  <2>4. CdTypeOK'
    BY <1>2, <1>3, <1>4 DEF CdInv, CdTypeOK, CapiFlags
  <2>5. StartsCounted'
    BY <1>3, <1>4, <2>1 DEF CdInv, StartsCounted, Doing, CapiFlags
  <2>6. \A t, u \in CapiThreads : t # u => Apart(pcs'[t], pcs'[u])
    BY <1>4 DEF CdInv
  <2> QED
    BY <2>1, <2>3, <2>4, <2>5, <2>6 DEF CdInv, CapiFlags
<1>5. CASE ~(fl' = fl \/ fl' = fl \cup {"MBUF_LOST"}) \/ ~UNCHANGED <<inq, pcs>>
  <2>1. /\ "CLOSING" \notin fl /\ inq < LimitHigh /\ inq' = inq + 1
        /\ fl' = fl \ {"RD_WAKEUP", "SELECT"}
    BY <1>1, <1>5 DEF PutQueue
  <2> DEFINE woken == IF "RD_WAKEUP" \in fl THEN Broadcast(pcs) ELSE pcs
  <2>2. pcs' = [t \in CapiThreads |->
                  IF "SELECT" \in fl /\ woken[t] = "poll_asleep" THEN "idle" ELSE woken[t]]
    BY <1>1, <1>5 DEF PutQueue
  <2>3. ASSUME NEW t \in CapiThreads
        PROVE  /\ pcs'[t] \in PcSet \ {"read_asleep", "poll_asleep"}
               /\ \/ pcs'[t] = pcs[t]
                  \/ pcs[t] = "read_asleep" /\ pcs'[t] = "read_awake"
                  \/ pcs[t] = "poll_asleep" /\ pcs'[t] = "idle"
    <3>1. ThreadFits(t) /\ pcs[t] \in PcSet
      BY DEF CdInv, CdTypeOK, PcSet
    <3>2. pcs[t] # "close_asleep"
      BY <2>1, <3>1 DEF ThreadFits, Closers
    <3>3. woken[t] = IF pcs[t] = "read_asleep" THEN "read_awake" ELSE pcs[t]
      BY <3>1, <3>2 DEF Broadcast, ThreadFits
    <3>4. pcs'[t] = IF "SELECT" \in fl /\ woken[t] = "poll_asleep" THEN "idle" ELSE woken[t]
      BY <2>2
    <3> HIDE DEF woken
    <3> QED
      BY <3>1, <3>3, <3>4 DEF ThreadFits, PcSet
  <2> HIDE DEF woken
  <2>4. pcs' \in [CapiThreads -> PcSet]
    BY <2>2, <2>3
  <2>5. inq' \in 0 .. LimitHigh
    BY <1>1, <2>1
  <2>6. fl' \subseteq CapiFlags
    BY <2>1 DEF CdInv, CdTypeOK
  <2>7. CdTypeOK'
    BY <1>2, <1>3, <2>4, <2>5, <2>6 DEF CdInv, CdTypeOK, PcSet
  <2>8. ASSUME NEW t \in CapiThreads
        PROVE  ThreadFits(t)'
    <3>1. ThreadFits(t) /\ pcs[t] \notin Closers
      BY <2>1 DEF CdInv, ThreadFits
    <3> QED
      BY <1>3, <2>1, <2>3, <3>1 DEF ThreadFits, Reading, Writing, Controlling, Closers, Past
  <2>9. ASSUME NEW t \in CapiThreads, NEW u \in CapiThreads, t # u
        PROVE  Apart(pcs'[t], pcs'[u])
    <3>1. ASSUME NEW S \in {Reading, Controlling, Closers}, NEW v \in CapiThreads, pcs'[v] \in S
          PROVE  pcs[v] \in S
      BY <2>3, <3>1 DEF Reading, Controlling, Closers
    <3> QED
      BY <2>9, <3>1 DEF CdInv, Apart
  <2>10. StartsCounted'
    <3>1. Doing({"start", "drain"})' = Doing({"start", "drain"})
      BY <2>3 DEF Doing
    <3>2. Doing({"closed"})' = Doing({"closed"})
      BY <2>3 DEF Doing
    <3> QED
      BY <1>3, <2>1, <3>1, <3>2 DEF CdInv, StartsCounted
  <2> QED
    BY <2>1, <2>7, <2>8, <2>9, <2>10 DEF CdInv
<1> QED
  BY <1>4, <1>5


-----------------------------------------------------------------------------
(* capi_write *)

LEMMA WriteBeginStep ==
  ASSUME CdInv, NEW t \in CapiThreads, WriteBegin(t)
  PROVE  CdInv'
<1>1. MovesTo(t, "copy") /\ \A u \in CapiThreads \ {t} : pcs'[u] = pcs[u]
  BY Moved DEF WriteBegin, PcSet
<1>2. ThreadFits(t)'
  BY <1>1 DEF WriteBegin, MovesTo, ThreadFits, Reading, Controlling, Closers, Past
<1>3. ASSUME NEW u \in CapiThreads \ {t}
      PROVE  ThreadFits(u)'
  <2>1. ThreadFits(u) /\ pcs'[u] = pcs[u] /\ pcs[u] \notin Writing
    BY <1>1 DEF CdInv, ThreadFits, WriteBegin
  <2> QED
    BY <2>1 DEF WriteBegin, ThreadFits
<1>4. \A u \in CapiThreads \ {t} : Apart("copy", pcs[u])
  BY FreeOfAll DEF Reading, Controlling, Closers
<1>5. StartsCounted'
  BY <1>1, StartsKept DEF WriteBegin
<1> QED
  BY <1>1, <1>2, <1>3, <1>4, <1>5, Together DEF WriteBegin, CdInv, CdTypeOK

LEMMA WriteEnterStep ==
  ASSUME CdInv, NEW t \in CapiThreads, WriteEnter(t)
  PROVE  CdInv'
<1>1. PICK x \in {"leave", "handle"} :
        /\ pcs' = Set(t, x)
        /\ x = "leave" => fl' = fl
        /\ x = "handle" => "CLOSING" \notin fl /\ fl' = fl \cup {"WR_ENTERED"}
  BY DEF WriteEnter
<1>2. MovesTo(t, x) /\ \A u \in CapiThreads \ {t} : pcs'[u] = pcs[u]
  BY <1>1, Moved DEF PcSet
<1>3. \A g \in CapiFlags \ {"WR_ENTERED"} : g \in fl' <=> g \in fl
  BY <1>1
<1>4. ThreadFits(t)'
  <2>1. busy' /\ msg' = t
    BY DEF WriteEnter, CdInv, ThreadFits, Writing
  <2> QED
    BY <1>1, <1>2, <2>1 DEF MovesTo, ThreadFits, Reading, Controlling, Closers, Past
<1>5. ASSUME NEW u \in CapiThreads \ {t}
      PROVE  ThreadFits(u)'
  <2>1. ThreadFits(u) /\ pcs'[u] = pcs[u]
    BY <1>2 DEF CdInv
  <2>2. x = "handle" => pcs[u] \notin Closers
    BY <1>1, <2>1 DEF ThreadFits
  <2>3. "WR_ENTERED" \in fl => "WR_ENTERED" \in fl'
    BY <1>1
  <2> QED
    BY <1>1, <1>3, <2>1, <2>2, <2>3 DEF WriteEnter, ThreadFits, Closers, Past, CapiFlags
<1>6. \A u \in CapiThreads \ {t} : Apart(x, pcs[u])
  BY <1>1, FreeOfAll DEF Reading, Controlling, Closers
<1>7. StartsCounted'
  BY <1>1, <1>2, StartsKept DEF WriteEnter
<1>8. fl' \subseteq CapiFlags /\ ("RD_WAKEUP" \in fl' => "RD_ENTERED" \in fl')
  BY <1>1 DEF CdInv, CdTypeOK, CapiFlags
<1> QED
  BY <1>2, <1>4, <1>5, <1>6, <1>7, <1>8, Together DEF WriteEnter, CdInv, CdTypeOK

\* One of the flags of InUse is cleared, and the closing thread told so.
LEMMA LetGo ==
  ASSUME CdInv, NEW t \in CapiThreads, NEW x \in {"leave", "idle"},
         NEW flag \in {"WR_ENTERED", "IOCTL"}, fl' = fl \ {flag},
         pcs' = IF "CLOSING" \in fl THEN Broadcast(Set(t, x)) ELSE Set(t, x),
         pcs[t] \in {"handle", "ioctl", "ioctl_end"}, x = "leave" <=> pcs[t] = "handle",
         flag = IF pcs[t] = "handle" THEN "WR_ENTERED" ELSE "IOCTL",
         UNCHANGED <<inq, busy, msg, opens, failures>>
  PROVE  CdInv'
<1>1. MovesTo(t, x)
  BY Moved, MovedAndWoken DEF PcSet
<1>2. ASSUME NEW u \in CapiThreads
      PROVE  pcs'[u] # "close_asleep"
  <2>1. CASE "CLOSING" \in fl
    BY <2>1, MovedAndWoken DEF PcSet
  <2>2. CASE "CLOSING" \notin fl
    <3>1. ThreadFits(u)
      BY DEF CdInv
    <3>2. pcs[u] # "close_asleep"
      BY <2>2, <3>1 DEF ThreadFits, Closers
    <3> QED
      BY <1>1, <3>2 DEF MovesTo, Eased
  <2> QED
    BY <2>1, <2>2
<1>3. \A g \in CapiFlags \ {flag} : g \in fl' <=> g \in fl
  OBVIOUS
<1>4. fl \cap InUse = {} => fl' \cap InUse = {}
  OBVIOUS
<1>5. ThreadFits(t)'
  <2>1. x = "leave" => busy' /\ msg' = t
    BY DEF CdInv, ThreadFits, Writing
  <2> QED
    BY <1>1, <2>1 DEF MovesTo, ThreadFits, Reading, Writing, Controlling, Closers, Past
<1>6. ASSUME NEW u \in CapiThreads \ {t}
      PROVE  ThreadFits(u)'
  <2>1. ThreadFits(u) /\ ThreadFits(t) /\ Apart(pcs[t], pcs[u]) /\ Eased(pcs[u], pcs'[u])
    BY <1>1 DEF CdInv, MovesTo
  <2>2. flag = "WR_ENTERED" => pcs[u] # "handle"
    BY <2>1 DEF ThreadFits, Writing
  <2>3. flag = "IOCTL" => pcs[u] \notin Controlling
    BY <2>1 DEF Apart, Controlling
  <2> QED
    BY <1>2, <1>3, <1>4, <2>1, <2>2, <2>3
    DEF ThreadFits, Eased, Reading, Writing, Controlling, Closers, Past, CapiFlags
<1>7. \A u \in CapiThreads \ {t} : Apart(x, pcs[u])
  BY FreeOfAll DEF Reading, Controlling, Closers
<1>8. StartsCounted'
  BY <1>1, StartsKept
<1>9. fl' \subseteq CapiFlags /\ ("RD_WAKEUP" \in fl' => "RD_ENTERED" \in fl')
  BY <1>3 DEF CdInv, CdTypeOK, CapiFlags
<1> QED
  BY <1>1, <1>5, <1>6, <1>7, <1>8, <1>9, Together DEF CdInv, CdTypeOK

LEMMA WriteHandledStep ==
  ASSUME CdInv, NEW t \in CapiThreads, WriteHandled(t)
  PROVE  CdInv'
BY LetGo DEF WriteHandled

LEMMA WriteEndStep ==
  ASSUME CdInv, NEW t \in CapiThreads, WriteEnd(t)
  PROVE  CdInv'
<1>1. MovesTo(t, "idle") /\ \A u \in CapiThreads \ {t} : pcs'[u] = pcs[u]
  BY Moved DEF WriteEnd, PcSet
<1>2. ThreadFits(t)'
  BY <1>1 DEF MovesTo, ThreadFits, Reading, Writing, Controlling, Closers, Past
<1>3. ASSUME NEW u \in CapiThreads \ {t}
      PROVE  ThreadFits(u)'
  <2>1. ThreadFits(u) /\ ThreadFits(t) /\ pcs'[u] = pcs[u]
    BY <1>1 DEF CdInv
  <2>2. pcs[u] \notin Writing
    BY <2>1 DEF ThreadFits, WriteEnd, Writing
  <2> QED
    BY <2>1, <2>2 DEF WriteEnd, ThreadFits
<1>4. \A u \in CapiThreads \ {t} : Apart("idle", pcs[u])
  BY FreeOfAll DEF Reading, Controlling, Closers
<1>5. StartsCounted'
  BY <1>1, StartsKept DEF WriteEnd
<1> QED
  BY <1>1, <1>2, <1>3, <1>4, <1>5, Together DEF WriteEnd, CdInv, CdTypeOK


-----------------------------------------------------------------------------
(* capi_ioctl and capi_poll *)

LEMMA IoctlBeginStep ==
  ASSUME CdInv, NEW t \in CapiThreads, IoctlBegin(t)
  PROVE  CdInv'
<1>1. MovesTo(t, "ioctl") /\ \A u \in CapiThreads \ {t} : pcs'[u] = pcs[u]
  BY Moved DEF IoctlBegin, PcSet
<1>2. fl' = fl \cup {"IOCTL"} /\ "CLOSING" \notin fl /\ "IOCTL" \notin fl
  BY DEF IoctlBegin
<1>3. ASSUME NEW u \in CapiThreads
      PROVE  ThreadFits(u) /\ pcs[u] \notin Closers /\ pcs[u] \notin Controlling
  BY <1>2 DEF CdInv, ThreadFits
<1>4. ThreadFits(t)'
  BY <1>1, <1>2 DEF MovesTo, ThreadFits, Reading, Writing, Controlling, Closers, Past
<1>5. ASSUME NEW u \in CapiThreads \ {t}
      PROVE  ThreadFits(u)'
  BY <1>1, <1>2, <1>3 DEF IoctlBegin, ThreadFits, Closers, Past
<1>6. \A u \in CapiThreads \ {t} : Apart("ioctl", pcs[u])
  BY <1>3 DEF Apart, Reading, Controlling, Closers
<1>7. StartsCounted'
  BY <1>1, StartsKept DEF IoctlBegin
<1>8. fl' \subseteq CapiFlags /\ ("RD_WAKEUP" \in fl' => "RD_ENTERED" \in fl')
  BY <1>2 DEF CdInv, CdTypeOK, CapiFlags
<1> QED
  BY <1>1, <1>4, <1>5, <1>6, <1>7, <1>8, Together DEF IoctlBegin, CdInv, CdTypeOK

\* An ioctl goes on: a flag that is not about who uses the device may change.
LEMMA IoctlGoesOn ==
  ASSUME CdInv, NEW t \in CapiThreads, NEW x \in {"start", "ioctl_end"}, pcs' = Set(t, x),
         pcs[t] \in Controlling, fl' \subseteq CapiFlags,
         \A g \in CapiFlags \ {"BLOCK", "D_OPEN"} : g \in fl' <=> g \in fl,
         "D_OPEN" \in fl => "D_OPEN" \in fl', x = "start" => "D_OPEN" \in fl',
         StartsCounted', opens' \in Nat, UNCHANGED <<inq, busy, msg, failures>>
  PROVE  CdInv'
<1>1. MovesTo(t, x) /\ \A u \in CapiThreads \ {t} : pcs'[u] = pcs[u]
  BY Moved DEF PcSet
<1>2. ThreadFits(t) /\ "IOCTL" \in fl /\ "IOCTL" \in fl'
  BY DEF CdInv, ThreadFits, CapiFlags
<1>3. fl' \cap InUse = fl \cap InUse
  BY DEF CdInv, CdTypeOK, CapiFlags, InUse
<1>4. ThreadFits(t)'
  BY <1>1, <1>2 DEF MovesTo, ThreadFits, Reading, Writing, Controlling, Closers, Past
<1>5. ASSUME NEW u \in CapiThreads \ {t}
      PROVE  ThreadFits(u)'
  <2>1. ThreadFits(u) /\ pcs'[u] = pcs[u]
    BY <1>1 DEF CdInv
  <2>2. pcs[u] # "closed"
    BY <1>2, <2>1 DEF ThreadFits, Past, InUse
  <2> QED
    BY <1>3, <2>1, <2>2 DEF ThreadFits, CapiFlags
<1>6. \A u \in CapiThreads \ {t} : Apart(x, pcs[u])
  <2>1. \A S \in {Reading, Controlling, Closers} : x \in S => pcs[t] \in S
    BY DEF Reading, Controlling, Closers
  <2> QED
    BY <2>1, NothingEntered
<1>7. "RD_WAKEUP" \in fl' => "RD_ENTERED" \in fl'
  BY DEF CdInv, CapiFlags
<1> QED
  BY <1>1, <1>4, <1>5, <1>6, <1>7, Together DEF CdInv, CdTypeOK

LEMMA SetBlockStep ==
  ASSUME CdInv, NEW t \in CapiThreads, SetBlock(t)
  PROVE  CdInv'
<1>1. fl' \subseteq CapiFlags /\ \A g \in CapiFlags \ {"BLOCK"} : g \in fl' <=> g \in fl
  BY DEF SetBlock, CdInv, CdTypeOK, CapiFlags
<1>2. MovesTo(t, "ioctl_end")
  BY Moved DEF SetBlock, PcSet
<1>3. StartsCounted'
  BY <1>1, <1>2, StartsKept DEF SetBlock, CapiFlags
<1> QED
  BY <1>1, <1>3, IoctlGoesOn DEF SetBlock, CdInv, CdTypeOK, CapiFlags, Controlling

LEMMA StartDStep ==
  ASSUME CdInv, NEW t \in CapiThreads, StartD(t)
  PROVE  CdInv'
<1>1. fl' = fl \cup {"D_OPEN"} /\ fl' \subseteq CapiFlags /\ pcs[t] = "ioctl"
  BY DEF StartD, CdInv, CdTypeOK, CapiFlags
<1>2. CASE "D_OPEN" \in fl
  <2>1. pcs' = Set(t, "ioctl_end")
    BY <1>2 DEF StartD
  <2>2. StartsCounted'
    BY <1>1, <1>2, <2>1, Moved, StartsKept DEF StartD, PcSet
  <2> QED
    BY <1>1, <2>1, <2>2, IoctlGoesOn DEF StartD, CdInv, CdTypeOK, Controlling
<1>3. CASE "D_OPEN" \notin fl
  <2>1. pcs' = Set(t, "start") /\ pcs'[t] = "start"
    BY <1>3, Moved DEF StartD, MovesTo, PcSet
  <2>2. opens' = 0
    BY <1>3 DEF StartD, CdInv, StartsCounted
  <2>3. StartsCounted'
    BY <2>1, <2>2 DEF StartsCounted, Doing
  <2> QED
    BY <1>1, <2>1, <2>3, IoctlGoesOn DEF StartD, CdInv, CdTypeOK, Controlling
<1> QED
  BY <1>2, <1>3

LEMMA StartedStep ==
  ASSUME CdInv, NEW t \in CapiThreads, Started(t)
  PROVE  CdInv'
<1>1. ThreadFits(t) /\ "D_OPEN" \in fl /\ "IOCTL" \in fl
  BY DEF CdInv, ThreadFits, Started, Controlling
<1>2. MovesTo(t, "ioctl_end") /\ \A u \in CapiThreads \ {t} : pcs'[u] = pcs[u]
  BY Moved DEF Started, PcSet
<1>3. opens = 0 /\ opens' = 1
  <2>1. t \in Doing({"start", "drain"})
    BY DEF Started, Doing
  <2>2. opens = 0
    BY <2>1 DEF CdInv, StartsCounted
  <2> QED
    BY <2>2 DEF Started
<1>4. ASSUME NEW u \in CapiThreads
      PROVE  pcs'[u] \notin {"start", "drain", "closed"}
  <2>1. CASE u = t
    BY <1>2, <2>1 DEF MovesTo
  <2>2. CASE u # t
    <3>1. pcs'[u] = pcs[u] /\ ThreadFits(u) /\ Apart(pcs[t], pcs[u])
      BY <1>2, <2>2 DEF CdInv
    <3>2. pcs[u] # "start"
      BY <3>1 DEF Apart, Started, Controlling
    <3>3. pcs[u] \notin Past
      BY <1>1, <3>1 DEF ThreadFits, InUse
    <3> QED
      BY <3>1, <3>2, <3>3 DEF Past
  <2> QED
    BY <2>1, <2>2
<1>5. StartsCounted'
  BY <1>1, <1>3, <1>4 DEF Started, StartsCounted, Doing
<1> QED
  BY <1>1, <1>3, <1>5, IoctlGoesOn DEF Started, CdInv, CdTypeOK, Controlling

LEMMA IoctlEndStep ==
  ASSUME CdInv, NEW t \in CapiThreads, IoctlEnd(t)
  PROVE  CdInv'
BY LetGo DEF IoctlEnd

LEMMA PollStep ==
  ASSUME CdInv, NEW t \in CapiThreads, CapiPoll(t)
  PROVE  CdInv'
<1>1. MovesTo(t, "poll_asleep") /\ \A u \in CapiThreads \ {t} : pcs'[u] = pcs[u]
  BY Moved DEF CapiPoll, PcSet
<1>2. /\ \A g \in CapiFlags \ {"SELECT"} : g \in fl' <=> g \in fl
      /\ fl' \cap InUse = fl \cap InUse /\ "SELECT" \in fl' /\ inq = 0 /\ inq' = 0
  BY DEF CapiPoll, InUse
<1>3. ThreadFits(t)'
  BY <1>1, <1>2 DEF MovesTo, ThreadFits, Reading, Writing, Controlling, Closers, Past
<1>4. ASSUME NEW u \in CapiThreads \ {t}
      PROVE  ThreadFits(u)'
  BY <1>1, <1>2 DEF CapiPoll, CdInv, ThreadFits, CapiFlags
<1>5. \A u \in CapiThreads \ {t} : Apart("poll_asleep", pcs[u])
  BY FreeOfAll DEF Reading, Controlling, Closers
<1>6. StartsCounted'
  BY <1>1, StartsKept DEF CapiPoll
<1>7. fl' \subseteq CapiFlags /\ ("RD_WAKEUP" \in fl' => "RD_ENTERED" \in fl')
  BY DEF CapiPoll, CdInv, CdTypeOK, CapiFlags
<1> QED
  BY <1>1, <1>3, <1>4, <1>5, <1>6, <1>7, Together DEF CapiPoll, CdInv, CdTypeOK

LEMMA PollEndStep ==
  ASSUME CdInv, NEW t \in CapiThreads, PollEnd(t)
  PROVE  CdInv'
<1>1. MovesTo(t, "idle") /\ \A u \in CapiThreads \ {t} : pcs'[u] = pcs[u]
  BY Moved DEF PollEnd, PcSet
<1>2. ThreadFits(t)'
  BY <1>1 DEF MovesTo, ThreadFits, Reading, Writing, Controlling, Closers, Past
<1>3. ASSUME NEW u \in CapiThreads \ {t}
      PROVE  ThreadFits(u)'
  BY <1>1 DEF PollEnd, CdInv, ThreadFits
<1>4. \A u \in CapiThreads \ {t} : Apart("idle", pcs[u])
  BY FreeOfAll DEF Reading, Controlling, Closers
<1>5. StartsCounted'
  BY <1>1, StartsKept DEF PollEnd
<1> QED
  BY <1>1, <1>2, <1>3, <1>4, <1>5, Together DEF PollEnd, CdInv, CdTypeOK


-----------------------------------------------------------------------------
(* capi_close *)

LEMMA CloseBeginStep ==
  ASSUME CdInv, NEW t \in CapiThreads, CloseBegin(t)
  PROVE  CdInv'
<1>1. MovesTo(t, "close") /\ \A u \in CapiThreads \ {t} : pcs'[u] = pcs[u]
  BY Moved DEF CloseBegin, PcSet
<1>2. ASSUME NEW u \in CapiThreads
      PROVE  ThreadFits(u) /\ pcs[u] \notin Closers
  BY DEF CdInv, ThreadFits, CloseBegin
<1>3. ThreadFits(t)'
  BY <1>1 DEF CloseBegin, MovesTo, ThreadFits, Reading, Writing, Controlling, Closers, Past
<1>4. ASSUME NEW u \in CapiThreads \ {t}
      PROVE  ThreadFits(u)'
  BY <1>1, <1>2 DEF CloseBegin, ThreadFits, Closers, Past
<1>5. \A u \in CapiThreads \ {t} : Apart("close", pcs[u])
  BY <1>2 DEF Apart, Reading, Controlling, Closers
<1>6. StartsCounted'
  BY <1>1, StartsKept DEF CloseBegin
<1>7. fl' \subseteq CapiFlags /\ ("RD_WAKEUP" \in fl' => "RD_ENTERED" \in fl')
  BY DEF CloseBegin, CdInv, CdTypeOK, CapiFlags
<1> QED
  BY <1>1, <1>3, <1>4, <1>5, <1>6, <1>7, Together DEF CloseBegin, CdInv, CdTypeOK

\* A closing thread gets on.
LEMMA CloseGoesOn ==
  ASSUME CdInv, NEW t \in CapiThreads, NEW x \in Closers, pcs[t] \in Closers
  PROVE  /\ \A u \in CapiThreads \ {t} : Apart(x, pcs[u]) /\ pcs[u] \notin Closers
         /\ ThreadFits(t) /\ "CLOSING" \in fl
<1>1. \A S \in {Reading, Controlling, Closers} : x \in S => pcs[t] \in S
  BY DEF Reading, Controlling, Closers
<1> QED
  BY <1>1, NothingEntered DEF CdInv, ThreadFits, Apart

LEMMA CloseWaitStep ==
  ASSUME CdInv, NEW t \in CapiThreads, CapiCloseWait(t)
  PROVE  CdInv'
<1>1. CASE fl \cap InUse # {}
  <2> DEFINE S == IF "RD_WAKEUP" \in fl THEN Broadcast(pcs) ELSE pcs
  <2>1. /\ fl' = fl \ {"RD_WAKEUP"} /\ pcs' = [S EXCEPT ![t] = "close_asleep"]
        /\ UNCHANGED <<inq, busy, msg, opens, failures>>
    BY <1>1 DEF CapiCloseWait
  <2>2. /\ \A u \in CapiThreads \ {t} : Apart("close_asleep", pcs[u]) /\ pcs[u] \notin Closers
        /\ "CLOSING" \in fl
    BY CloseGoesOn DEF CapiCloseWait, Closers
  <2>3. S \in [CapiThreads -> PcSet] /\ \A u \in CapiThreads : Eased(pcs[u], S[u])
    BY DEF CdInv, CdTypeOK, Broadcast, PcSet, Eased
  <2>4. ASSUME NEW u \in CapiThreads
        PROVE  S[u] # "read_asleep"
    <3>1. ThreadFits(u)
      BY DEF CdInv
    <3> QED
      BY <3>1 DEF ThreadFits, Broadcast
  <2> HIDE DEF S
  <2>5. MovesTo(t, "close_asleep") /\ \A u \in CapiThreads \ {t} : pcs'[u] = S[u]
    BY <2>1, <2>3 DEF MovesTo, PcSet
  <2>6. fl' \cap InUse # {}
    BY <1>1, <2>1 DEF CdInv, InUse
  <2>7. ThreadFits(t)'
    BY <2>1, <2>2, <2>5, <2>6
    DEF MovesTo, ThreadFits, Reading, Writing, Controlling, Closers, Past
  <2>8. ASSUME NEW u \in CapiThreads \ {t}
        PROVE  ThreadFits(u)'
    <3>1. ThreadFits(u) /\ Eased(pcs[u], pcs'[u]) /\ pcs'[u] # "read_asleep"
      BY <2>3, <2>4, <2>5 DEF CdInv
    <3>2. \A g \in CapiFlags \ {"RD_WAKEUP"} : g \in fl' <=> g \in fl
      BY <2>1
    <3> QED
      BY <2>1, <2>2, <3>1, <3>2
      DEF ThreadFits, Eased, Reading, Writing, Controlling, Closers, Past, CapiFlags
  <2>9. StartsCounted'
    BY <2>1, <2>5, StartsKept DEF CapiCloseWait
  <2>10. fl' \subseteq CapiFlags /\ "RD_WAKEUP" \notin fl'
    BY <2>1 DEF CdInv, CdTypeOK
  <2> QED
    BY <2>1, <2>2, <2>5, <2>7, <2>8, <2>9, <2>10, Together DEF CdInv, CdTypeOK
<1>2. CASE fl \cap InUse = {}
  <2>1. UNCHANGED <<fl, inq, busy, msg, opens, failures>> /\ pcs' = Set(t, "release")
    BY <1>2 DEF CapiCloseWait
  <2>2. MovesTo(t, "release") /\ \A u \in CapiThreads \ {t} : pcs'[u] = pcs[u]
    BY <2>1, Moved DEF PcSet
  <2>3. /\ \A u \in CapiThreads \ {t} : Apart("release", pcs[u]) /\ pcs[u] \notin Closers
        /\ "CLOSING" \in fl
    BY CloseGoesOn DEF CapiCloseWait, Closers
  <2>4. ThreadFits(t)'
    BY <1>2, <2>1, <2>2, <2>3
    DEF MovesTo, ThreadFits, Reading, Writing, Controlling, Closers, Past
  <2>5. ASSUME NEW u \in CapiThreads \ {t}
        PROVE  ThreadFits(u)'
    BY <2>1, <2>2 DEF CdInv, ThreadFits
  <2>6. StartsCounted'
    BY <2>1, <2>2, StartsKept DEF CapiCloseWait
  <2> QED
    BY <2>1, <2>2, <2>3, <2>4, <2>5, <2>6, Together DEF CdInv, CdTypeOK
<1> QED
  BY <1>1, <1>2

\* Past the wait nobody is in the code of the device: no start of the D-channel is left.
LEMMA NobodyStarts ==
  ASSUME CdInv, NEW t \in CapiThreads, pcs[t] \in Past
  PROVE  fl \cap InUse = {} /\ \A u \in CapiThreads : pcs[u] # "start"
<1>1. fl \cap InUse = {}
  BY DEF CdInv, ThreadFits
<1> QED
  BY <1>1 DEF CdInv, ThreadFits, Controlling, InUse

LEMMA CloseReleaseStep ==
  ASSUME CdInv, NEW t \in CapiThreads, CloseRelease(t)
  PROVE  CdInv'
<1>1. MovesTo(t, "drain") /\ \A u \in CapiThreads \ {t} : pcs'[u] = pcs[u]
  BY Moved DEF CloseRelease, PcSet
<1>2. /\ \A u \in CapiThreads \ {t} : Apart("drain", pcs[u]) /\ pcs[u] \notin Closers
      /\ "CLOSING" \in fl
  BY CloseGoesOn DEF CloseRelease, Closers
<1>3. fl \cap InUse = {} /\ \A u \in CapiThreads : pcs[u] # "start"
  BY NobodyStarts DEF CloseRelease, Past
<1>4. opens' = 0
  <2>1. Doing({"start", "drain"}) = {}
    BY <1>2, <1>3 DEF Doing, CloseRelease, Closers
  <2>2. opens = IF "D_OPEN" \in fl THEN 1 ELSE 0
    BY <2>1 DEF CdInv, StartsCounted
  <2> QED
    BY <2>2 DEF CloseRelease
<1>5. StartsCounted'
  BY <1>1, <1>4 DEF StartsCounted, Doing, MovesTo
<1>6. ThreadFits(t)'
  BY <1>1, <1>2, <1>3
  DEF CloseRelease, MovesTo, ThreadFits, Reading, Writing, Controlling, Closers, Past
<1>7. ASSUME NEW u \in CapiThreads \ {t}
      PROVE  ThreadFits(u)'
  BY <1>1 DEF CloseRelease, CdInv, ThreadFits
<1> QED
  BY <1>1, <1>2, <1>4, <1>5, <1>6, <1>7, Together DEF CloseRelease, CdInv, CdTypeOK

LEMMA CloseDrainStep ==
  ASSUME CdInv, NEW t \in CapiThreads, CloseDrain(t)
  PROVE  CdInv'
<1>1. MovesTo(t, "closed") /\ \A u \in CapiThreads \ {t} : pcs'[u] = pcs[u]
  BY Moved DEF CloseDrain, PcSet
<1>2. /\ \A u \in CapiThreads \ {t} : Apart("closed", pcs[u]) /\ pcs[u] \notin Closers
      /\ "CLOSING" \in fl
  BY CloseGoesOn DEF CloseDrain, Closers
<1>3. fl \cap InUse = {} /\ \A u \in CapiThreads : pcs[u] # "start"
  BY NobodyStarts DEF CloseDrain, Past
<1>4. \A g \in CapiFlags \ {"D_OPEN"} : g \in fl' <=> g \in fl
  BY DEF CloseDrain
<1>5. fl' \cap InUse = {}
  BY <1>3 DEF CloseDrain
<1>6. opens' = 0
  <2>1. t \in Doing({"start", "drain"})
    BY DEF Doing, CloseDrain
  <2> QED
    BY <2>1 DEF CloseDrain, CdInv, StartsCounted
<1>7. StartsCounted'
  BY <1>6 DEF CloseDrain, StartsCounted
<1>8. ThreadFits(t)'
  BY <1>1, <1>2, <1>5
  DEF CloseDrain, MovesTo, ThreadFits, Reading, Writing, Controlling, Closers, Past
<1>9. ASSUME NEW u \in CapiThreads \ {t}
      PROVE  ThreadFits(u)'
  <2>1. ThreadFits(u) /\ pcs'[u] = pcs[u] /\ pcs[u] \notin Closers /\ pcs[u] # "start"
    BY <1>1, <1>2, <1>3 DEF CdInv
  <2> QED
    BY <1>4, <2>1 DEF CloseDrain, ThreadFits, Closers, Past, CapiFlags
<1>10. inq' \in 0 .. LimitHigh
  BY InqBounds DEF CloseDrain
<1>11. fl' \subseteq CapiFlags /\ ("RD_WAKEUP" \in fl' => "RD_ENTERED" \in fl')
  BY <1>4 DEF CloseDrain, CdInv, CdTypeOK, CapiFlags
<1> QED
  BY <1>1, <1>2, <1>6, <1>7, <1>8, <1>9, <1>10, <1>11, Together DEF CloseDrain, CdInv, CdTypeOK


-----------------------------------------------------------------------------
LEMMA CdNextStep ==
  ASSUME CdInv, CdNext
  PROVE  CdInv'
<1>1. CASE \E drop, mem \in BOOLEAN : PutQueue(drop, mem)
  BY <1>1, PutQueueStep
<1>2. ASSUME NEW t \in CapiThreads,
             CapiRead(t) \/ WriteBegin(t) \/ IoctlBegin(t) \/ CapiPoll(t) \/ CloseBegin(t)
      PROVE  CdInv'
  BY <1>2, ReadStep, WriteBeginStep, IoctlBeginStep, PollStep, CloseBeginStep
<1>3. ASSUME NEW t \in CapiThreads, ThreadStep(t)
      PROVE  CdInv'
  BY <1>3, ReadOnStep, WriteEnterStep, WriteHandledStep, WriteEndStep, SetBlockStep,
     StartDStep, StartedStep, IoctlEndStep, PollEndStep, CloseWaitStep, CloseReleaseStep,
     CloseDrainStep
  DEF ThreadStep
<1> QED
  BY <1>1, <1>2, <1>3 DEF CdNext

LEMMA CdStutter ==
  ASSUME CdInv, UNCHANGED cdVars
  PROVE  CdInv'
BY DEF cdVars, CdInv, CdTypeOK, ThreadFits, Apart, StartsCounted, Doing

\* The invariant of an open /dev/capi20 (layer4/i4b_capidrv.c): every thread in capi_read,
\* capi_write, capi_ioctl, capi_poll and capi_close is where the flags of the softc say.
THEOREM CdInvariance == CdSpec => []CdInv
<1>1. CdInit => CdInv
  BY CdInitially
<1>2. CdInv /\ [CdNext]_cdVars => CdInv'
  BY CdNextStep, CdStutter
<1> QED
  BY <1>1, <1>2, PTL DEF CdSpec

\* What the threads of an application share without a lock is not confused: the request
\* in sc_msg is that of the thread that handles it (sc_write_busy), and the application
\* counts once in i4b_open_refcount from CAPI_START_D_CHANNEL_REQ until it is closed.
THEOREM SharesAlwaysKept == CdSpec => []SharesKept
<1>1. CdInv => SharesKept
  <2> SUFFICES ASSUME CdInv PROVE SharesKept
    OBVIOUS
  <2>1. RequestIsOwn
    BY DEF RequestIsOwn, CdInv, ThreadFits, Doing, Writing
  <2> QED
    BY <2>1 DEF SharesKept, CdInv
<1> QED
  BY <1>1, CdInvariance, PTL

LEMMA NobodyInVain ==
  ASSUME CdInv
  PROVE  NobodySleepsInVain
<1>1. ASSUME NEW t \in CapiThreads, pcs[t] = "read_asleep"
      PROVE  inq = 0 /\ \A u \in CapiThreads : pcs[u] \notin {"close_asleep", "release"}
  <2>1. ThreadFits(t) /\ "RD_WAKEUP" \in fl /\ inq = 0
    BY <1>1 DEF CdInv, ThreadFits
  <2>2. ASSUME NEW u \in CapiThreads
        PROVE  pcs[u] \notin {"close_asleep", "release"}
    <3>1. ThreadFits(u)
      BY DEF CdInv
    <3> QED
      BY <2>1, <3>1 DEF ThreadFits, Past, InUse
  <2> QED
    BY <2>1, <2>2
<1>2. ASSUME NEW t \in CapiThreads, pcs[t] = "close_asleep"
      PROVE  fl \cap InUse # {}
  BY <1>2 DEF CdInv, ThreadFits
<1>3. ASSUME NEW t \in CapiThreads, pcs[t] = "poll_asleep"
      PROVE  inq = 0
  BY <1>3 DEF CdInv, ThreadFits
<1>4. Doing({"read_asleep"}) # {} => inq = 0 /\ Doing({"close_asleep", "release"}) = {}
  BY <1>1 DEF Doing
<1>5. Doing({"close_asleep"}) # {} => fl \cap InUse # {}
  BY <1>2 DEF Doing
<1>6. Doing({"poll_asleep"}) # {} => inq = 0
  BY <1>3 DEF Doing
<1> QED
  BY <1>4, <1>5, <1>6 DEF NobodySleepsInVain


-----------------------------------------------------------------------------
(* A unit of i4btel or i4brbch: the invariant *)

Closes == {"close", "closed"}
Signs == {"RDWAIT", "WRWAIT", "TONE", "RDWAIT_STATUS", "NO_STATUS"}

ThreadRec ==
  [op : DataCalls \cup {"none", "close", "closed", "dread"},
   pc : {"idle", "access", "change", "sleep", "woken", "spin"},
   f : Chan \cup {NoChan}, ref : 0..RefMax, on : Idents]

\* Thread t, which sleeps, will be woken by one who finds g.
Awaits(t, g) ==
  \/ g = "RDWAIT" /\ th[t].on = "rx" /\ Current(t)
  \/ g = "WRWAIT" /\ th[t].on = "tx" /\ Current(t)
  \/ g = "TONE" /\ th[t].on = "tones" /\ th[t].op = "close" /\ Current(t)
  \/ g \in {"RDWAIT_STATUS", "NO_STATUS"} /\ th[t].on = "status"

SleepFits(t) ==
  /\ th[t].on \in {"rx", "tx", "tones"} => th[t].f # NoChan
  /\ th[t].op = "read" => th[t].on \in {"rx", "unit"}
  /\ th[t].op = "write" => th[t].on \in {"tx", "unit"}
  /\ th[t].op = "close" => th[t].on \in {"tx", "tones"}
  /\ th[t].on = "unit" => kind = "rbch" /\ ft = NoChan
  /\ \A g \in Signs : Awaits(t, g) => g \in st
  /\ th[t].on = "rx" /\ Current(t) => rx[th[t].f] = 0
  /\ kind = "tel" /\ th[t].op \in {"read", "write", "close"} => Current(t)

\* A thread saw no refcount that is still to come; the one that is still there is that of
\* the translator the unit is connected to.
RefFits(t) ==
  th[t].f # NoChan => th[t].ref <= ref[th[t].f] /\ (Current(t) => ft = th[t].f)

CallFits(t) ==
  /\ th[t].op \in DataCalls => "FILE" \in st
  /\ th[t].op \in Closes => "FILE" \notin st /\ "ISOPEN" \in st

Fits(t) == RefFits(t) /\ CallFits(t) /\ (th[t].pc = "sleep" => SleepFits(t))

OneCloses ==
  \A t, u \in Thread : th[t].op \in Closes /\ th[u].op \in Closes => t = u

BdInv ==
  /\ BdTypeOK /\ th \in [Thread -> ThreadRec]
  /\ \A c \in Chan : user[c] = "unit" <=> ft = c
  /\ \A t \in Thread : Fits(t)
  /\ "FILE" \in st => "ISOPEN" \in st
  /\ OneCloses

LEMMA BdInitially ==
  ASSUME BdInit
  PROVE  BdInv
<1>1. th \in [Thread -> ThreadRec] /\ \A t \in Thread : th[t] = Idle
  <2>1. 0 \in 0..RefMax
    BY BchanDevAssumption
  <2>2. Idle \in ThreadRec
    BY <2>1 DEF Idle, ThreadRec, DataCalls, Idents
  <2> QED
    BY <2>2 DEF BdInit
<1>2. BdTypeOK
  <2>1. 0 \in 0..RefMax /\ 0 \in 0..QMax /\ 0 \in 0..(QMax + 1) /\ 0 \in Nat
    BY BchanDevAssumption
  <2>2. \A t \in Thread :
          /\ th[t].op \in DataCalls \cup {"none", "close", "closed", "dread"}
          /\ th[t].pc \in {"idle", "access", "change", "sleep", "woken", "spin"}
          /\ th[t].f \in Chan \cup {NoChan} /\ th[t].ref \in 0..RefMax
          /\ th[t].on \in Idents
    BY <1>1 DEF ThreadRec
  <2>3. /\ ref \in [Chan -> 0..RefMax] /\ rx \in [Chan -> 0..QMax]
        /\ tx \in [Chan -> 0..(QMax + 1)] /\ played \in Nat
    BY <2>1 DEF BdInit
  <2> QED
    BY <2>2, <2>3 DEF BdInit, BdTypeOK
<1>3. \A t \in Thread : Fits(t)
  BY <1>1 DEF Fits, RefFits, CallFits, Idle, DataCalls, Closes
<1>4. OneCloses
  BY <1>1 DEF OneCloses, Idle, Closes
<1>5. \A c \in Chan : user[c] = "unit" <=> ft = c
  BY BchanDevAssumption DEF BdInit
<1> QED
  BY <1>1, <1>2, <1>3, <1>4, <1>5 DEF BdInv, BdInit


-----------------------------------------------------------------------------
(* Steps that leave the connections of the translators alone *)

Quiet == UNCHANGED <<kind, uses, ft, user, ref>>

\* The variables other than th keep their types.
LEMMA TypeKept ==
  ASSUME BdInv, Quiet, th' \in [Thread -> ThreadRec], rx' \in [Chan -> 0..QMax],
         tx' \in [Chan -> 0..(QMax + 1)], st' \subseteq Flags,
         prog' \in Programs \cup {<<>>}, played' \in Nat
  PROVE  BdTypeOK'
<1>1. \A t \in Thread :
        /\ th'[t].op \in DataCalls \cup {"none", "close", "closed", "dread"}
        /\ th'[t].pc \in {"idle", "access", "change", "sleep", "woken", "spin"}
        /\ th'[t].f \in Chan \cup {NoChan} /\ th'[t].ref \in 0..RefMax
        /\ th'[t].on \in Idents
  BY DEF ThreadRec
<1> QED
  BY <1>1 DEF BdInv, BdTypeOK, Quiet

\* u does what it did, or it was woken.
Resting(u) == th'[u] = th[u] \/ th'[u] = [th[u] EXCEPT !.pc = "woken"]

LEMMA RestingFields ==
  ASSUME BdInv, NEW u \in Thread, Resting(u)
  PROVE  /\ th'[u].op = th[u].op /\ th'[u].f = th[u].f /\ th'[u].ref = th[u].ref
         /\ th'[u].on = th[u].on
         /\ th'[u].pc = "sleep" => th[u].pc = "sleep"
BY DEF BdInv, ThreadRec, Resting

LEMMA RestingFits ==
  ASSUME BdInv, Quiet, NEW u \in Thread, Resting(u),
         th[u].op \in DataCalls => "FILE" \in st',
         th[u].op \in Closes => "FILE" \notin st' /\ "ISOPEN" \in st',
         th'[u].pc = "sleep" =>
           /\ \A g \in Signs : Awaits(u, g) => g \in st'
           /\ th[u].on = "rx" /\ Current(u) => rx'[th[u].f] = 0
  PROVE  Fits(u)'
<1>1. /\ th'[u].op = th[u].op /\ th'[u].f = th[u].f /\ th'[u].ref = th[u].ref
      /\ th'[u].on = th[u].on
      /\ th'[u].pc = "sleep" => th[u].pc = "sleep"
  BY RestingFields
<1>2. Fits(u) /\ (Current(u)' <=> Current(u)) /\ kind' = kind /\ ft' = ft
  BY <1>1 DEF BdInv, Current, Quiet
<1>3. RefFits(u)'
  BY <1>1, <1>2 DEF Fits, RefFits, Quiet
<1>4. CallFits(u)'
  BY <1>1 DEF CallFits
<1>5. ASSUME th'[u].pc = "sleep"
      PROVE  SleepFits(u)'
  <2>1. SleepFits(u)
    BY <1>1, <1>2, <1>5 DEF Fits
  <2>2. \A g \in Signs : Awaits(u, g)' => g \in st'
    BY <1>1, <1>2, <1>5 DEF Awaits
  <2>3. (th[u].on = "rx" /\ Current(u) => rx[th[u].f] = 0)'
    BY <1>1, <1>2, <1>5
  <2> QED
    BY <1>1, <1>2, <2>1, <2>2, <2>3 DEF SleepFits
<1> QED
  BY <1>3, <1>4, <1>5 DEF Fits

\* wakeup() wakes whom it is for, and nobody else.
LEMMA WakeFields ==
  ASSUME NEW T \in [Thread -> ThreadRec], NEW on, NEW f
  PROVE  /\ Wake(T, on, f) \in [Thread -> ThreadRec]
         /\ \A u \in Thread :
              /\ Wake(T, on, f)[u] = T[u] \/ Wake(T, on, f)[u] = [T[u] EXCEPT !.pc = "woken"]
              /\ T[u].on = on /\ (f = NoChan \/ T[u].f = f) => Wake(T, on, f)[u].pc # "sleep"
<1>1. ASSUME NEW u \in Thread
      PROVE  /\ Wake(T, on, f)[u] \in ThreadRec
             /\ Wake(T, on, f)[u] = T[u] \/ Wake(T, on, f)[u] = [T[u] EXCEPT !.pc = "woken"]
             /\ T[u].on = on /\ (f = NoChan \/ T[u].f = f) => Wake(T, on, f)[u].pc # "sleep"
  <2>1. Wake(T, on, f)[u] = IF T[u].pc = "sleep" /\ T[u].on = on /\ (f = NoChan \/ T[u].f = f)
                            THEN [T[u] EXCEPT !.pc = "woken"] ELSE T[u]
    BY DEF Wake
  <2>2. T[u] \in ThreadRec
    OBVIOUS
  <2>3. [T[u] EXCEPT !.pc = "woken"] \in ThreadRec /\ [T[u] EXCEPT !.pc = "woken"].pc = "woken"
    BY <2>2 DEF ThreadRec
  <2> QED
    BY <2>1, <2>2, <2>3
<1>2. Wake(T, on, f) \in [Thread -> ThreadRec]
  BY <1>1 DEF Wake
<1> QED
  BY <1>1, <1>2

LEMMA WakeReaches ==
  ASSUME NEW T \in [Thread -> ThreadRec], NEW on, NEW f, NEW u \in Thread,
         T[u].on = on, f = NoChan \/ T[u].f = f
  PROVE  Wake(T, on, f)[u].pc # "sleep"
<1>1. T[u] \in ThreadRec
  OBVIOUS
<1>2. Wake(T, on, f)[u] = IF T[u].pc = "sleep" THEN [T[u] EXCEPT !.pc = "woken"] ELSE T[u]
  BY DEF Wake
<1>3. [T[u] EXCEPT !.pc = "woken"].pc = "woken"
  BY <1>1 DEF ThreadRec
<1> QED
  BY <1>2, <1>3

\* An interrupt or a step of the daemon: nobody does anything but wake up.
LEMMA Undisturbed ==
  ASSUME BdInv, Quiet, th' \in [Thread -> ThreadRec], rx' \in [Chan -> 0..QMax],
         tx' \in [Chan -> 0..(QMax + 1)], st' \subseteq Flags,
         prog' \in Programs \cup {<<>>}, played' \in Nat,
         "FILE" \in st' <=> "FILE" \in st, "ISOPEN" \in st' <=> "ISOPEN" \in st,
         ASSUME NEW u \in Thread
         PROVE  /\ Resting(u)
                /\ th'[u].pc = "sleep" =>
                     /\ \A g \in Signs : Awaits(u, g) => g \in st'
                     /\ th[u].on = "rx" /\ Current(u) => rx'[th[u].f] = 0
  PROVE  BdInv'
<1>1. BdTypeOK'
  BY TypeKept
<1>2. \A u \in Thread : Fits(u)'
  BY RestingFits DEF BdInv, Fits, CallFits
<1>3. OneCloses'
  BY RestingFields DEF BdInv, OneCloses
<1> QED
  BY <1>1, <1>2, <1>3 DEF BdInv, Quiet


\* What a thread sleeps for has not happened.
LEMMA SleeperKnown ==
  ASSUME BdInv, NEW u \in Thread, th[u].pc = "sleep"
  PROVE  /\ \A g \in Signs : Awaits(u, g) => g \in st
         /\ th[u].on = "rx" /\ Current(u) => rx[th[u].f] = 0
BY DEF BdInv, Fits, SleepFits

\* Whoever waits for a queue of a translator, and may, waits for that of the unit.
LEMMA CurrentIsUnit ==
  ASSUME BdInv, NEW u \in Thread, th[u].f # NoChan, Current(u)
  PROVE  ft = th[u].f
BY DEF BdInv, Fits, RefFits

LEMMA SleeperHasChan ==
  ASSUME BdInv, NEW u \in Thread, th[u].pc = "sleep", th[u].on \in {"rx", "tx", "tones"}
  PROVE  th[u].f \in Chan
BY DEF BdInv, Fits, SleepFits, ThreadRec

\* ioctls
LEMMA FlagStep ==
  ASSUME BdInv, UNCHANGED <<kind, uses, ft, user, ref, rx, tx, prog, played, th>>,
         NEW g \in {"NOBLOCK", "BRIDGE", "ISOPEN2"}, st' = st \cup {g} \/ st' = st \ {g}
  PROVE  BdInv'
<1>1. st' \subseteq Flags /\ \A h \in Signs \cup {"FILE", "ISOPEN"} : h \in st' <=> h \in st
  BY DEF BdInv, BdTypeOK, Flags, Signs
<1>2. ASSUME NEW u \in Thread
      PROVE  /\ Resting(u)
             /\ th'[u].pc = "sleep" =>
                  /\ \A h \in Signs : Awaits(u, h) => h \in st'
                  /\ th[u].on = "rx" /\ Current(u) => rx'[th[u].f] = 0
  BY <1>1, SleeperKnown DEF Resting
<1> QED
  BY <1>1, <1>2, Undisturbed DEF Quiet, BdInv, BdTypeOK

LEMMA StatusOpenStep ==
  ASSUME BdInv, StatusOpen
  PROVE  BdInv'
<1>1. /\ st' \subseteq Flags /\ st \subseteq st'
      /\ \A h \in {"FILE", "ISOPEN"} : h \in st' <=> h \in st
  BY DEF StatusOpen, BdInv, BdTypeOK, Flags
<1>2. ASSUME NEW u \in Thread
      PROVE  /\ Resting(u)
             /\ th'[u].pc = "sleep" =>
                  /\ \A h \in Signs : Awaits(u, h) => h \in st'
                  /\ th[u].on = "rx" /\ Current(u) => rx'[th[u].f] = 0
  BY <1>1, SleeperKnown DEF Resting, StatusOpen
<1> QED
  BY <1>1, <1>2, Undisturbed DEF StatusOpen, Quiet, BdInv, BdTypeOK

LEMMA EmptyStep ==
  ASSUME BdInv, EmptyInputQueue
  PROVE  BdInv'
<1>1. 0 \in 0..QMax
  BY BchanDevAssumption
<1>2. rx' \in [Chan -> 0..QMax] /\ \A c \in Chan : rx[c] = 0 => rx'[c] = 0
  BY <1>1 DEF EmptyInputQueue, BdInv, BdTypeOK
<1>3. ASSUME NEW u \in Thread
      PROVE  /\ Resting(u)
             /\ th'[u].pc = "sleep" =>
                  /\ \A h \in Signs : Awaits(u, h) => h \in st'
                  /\ th[u].on = "rx" /\ Current(u) => rx'[th[u].f] = 0
  BY <1>2, SleeperKnown, SleeperHasChan DEF Resting, EmptyInputQueue
<1> QED
  BY <1>2, <1>3, Undisturbed DEF EmptyInputQueue, Quiet, BdInv, BdTypeOK

LEMMA ResponseStep ==
  ASSUME BdInv, Response
  PROVE  BdInv'
<1>1. UNCHANGED <<kind, uses, ft, user, ref, rx, tx, prog, played>> /\ th \in [Thread -> ThreadRec]
  BY DEF Response, BdInv
<1>2. /\ st' \subseteq Flags
      /\ \A h \in Flags \ {"NO_STATUS", "RDWAIT_STATUS"} : h \in st' <=> h \in st
  BY DEF Response, BdInv, BdTypeOK
<1>3. CASE "RDWAIT_STATUS" \in st
  <2>1. th' = Wake(th, "status", NoChan)
    BY <1>3 DEF Response
  <2>2. th' \in [Thread -> ThreadRec]
    BY <1>1, <2>1, WakeFields
  <2>3. \A u \in Thread : Resting(u) /\ (th[u].on = "status" => th'[u].pc # "sleep")
    BY <1>1, <2>1, WakeFields DEF Resting
  <2>4. ASSUME NEW u \in Thread, th'[u].pc = "sleep"
        PROVE  /\ \A h \in Signs : Awaits(u, h) => h \in st'
               /\ th[u].on = "rx" /\ Current(u) => rx'[th[u].f] = 0
    <3>1. th[u].on # "status" /\ th[u].pc = "sleep"
      BY <2>3, <2>4, RestingFields
    <3> QED
      BY <1>1, <1>2, <3>1, SleeperKnown DEF Awaits, Signs, Flags
  <2> QED
    BY <1>1, <1>2, <2>2, <2>3, <2>4, Undisturbed DEF Quiet, BdInv, BdTypeOK, Flags
<1>4. CASE "RDWAIT_STATUS" \notin st
  <2>1. th' = th
    BY <1>4 DEF Response
  <2>2. ASSUME NEW u \in Thread, th'[u].pc = "sleep"
        PROVE  /\ \A h \in Signs : Awaits(u, h) => h \in st'
               /\ th[u].on = "rx" /\ Current(u) => rx'[th[u].f] = 0
    <3>1. th[u].on # "status" /\ th[u].pc = "sleep"
      BY <1>4, <2>1, <2>2, SleeperKnown DEF Awaits, Signs
    <3> QED
      BY <1>1, <1>2, <3>1, SleeperKnown DEF Awaits, Signs, Flags
  <2> QED
    BY <1>1, <1>2, <2>1, <2>2, Undisturbed DEF Quiet, Resting, BdInv, BdTypeOK, Flags
<1> QED
  BY <1>3, <1>4


-----------------------------------------------------------------------------
(* Layer 1 *)

\* The interrupt takes the flag away, and nobody who counts on it sleeps on.
LEMMA InterruptWakes ==
  ASSUME BdInv, NEW c \in Chan \cup {NoChan}, c = NoChan \/ user[c] = "unit",
         NEW sign \in {"RDWAIT", "WRWAIT", "TONE"}, NEW ident,
         ident = CASE sign = "RDWAIT" -> "rx" [] sign = "WRWAIT" -> "tx" [] sign = "TONE" -> "tones",
         th' = IF sign \in st THEN Wake(th, ident, c) ELSE th
  PROVE  /\ th' \in [Thread -> ThreadRec]
         /\ \A u \in Thread : Resting(u) /\ (th'[u].pc = "sleep" => ~Awaits(u, sign))
<1>1. th \in [Thread -> ThreadRec]
  BY DEF BdInv
<1>2. th' \in [Thread -> ThreadRec] /\ \A u \in Thread : Resting(u)
  BY <1>1, WakeFields DEF Resting
<1>3. ASSUME NEW u \in Thread, th'[u].pc = "sleep", Awaits(u, sign)
      PROVE  FALSE
  <2>1. th[u].pc = "sleep" /\ th[u].on = ident /\ Current(u)
    BY <1>2, <1>3, RestingFields DEF Awaits
  <2>2. th[u].f \in Chan
    BY <2>1, SleeperHasChan
  <2>3. th[u].f = ft
    BY <2>1, <2>2, CurrentIsUnit, BchanDevAssumption
  <2>4. c = NoChan \/ th[u].f = c
    BY <2>3 DEF BdInv
  <2>5. sign \in st
    BY <1>3, <2>1, SleeperKnown DEF Signs
  <2>6. th' = Wake(th, ident, c)
    BY <2>5
  <2>7. Wake(th, ident, c)[u].pc # "sleep"
    BY <1>1, <2>1, <2>4, WakeReaches
  <2> QED
    BY <1>3, <2>6, <2>7
<1> QED
  BY <1>2, <1>3

LEMMA PutMbufStep ==
  ASSUME BdInv, NEW c \in Chan, PutMbuf(c)
  PROVE  BdInv'
<1>1. UNCHANGED <<kind, uses, ft, user, ref, tx, prog, played>> /\ st' = st \ {"RDWAIT"}
  BY DEF PutMbuf
<1>2. /\ th' \in [Thread -> ThreadRec]
      /\ \A u \in Thread : Resting(u) /\ (th'[u].pc = "sleep" => ~Awaits(u, "RDWAIT"))
  BY InterruptWakes DEF PutMbuf
<1>3. rx' \in [Chan -> 0..QMax]
  <2>1. rx \in [Chan -> 0..QMax] /\ QMax \in Nat
    BY BchanDevAssumption DEF BdInv, BdTypeOK
  <2>2. rx' = [rx EXCEPT ![c] = IF rx[c] < QMax THEN rx[c] + 1 ELSE rx[c]]
    BY DEF PutMbuf
  <2>3. (IF rx[c] < QMax THEN rx[c] + 1 ELSE rx[c]) \in 0..QMax
    BY <2>1
  <2> QED
    BY <2>1, <2>2, <2>3
<1>4. ASSUME NEW u \in Thread, th'[u].pc = "sleep"
      PROVE  /\ \A h \in Signs : Awaits(u, h) => h \in st'
             /\ th[u].on = "rx" /\ Current(u) => rx'[th[u].f] = 0
  <2>1. th[u].pc = "sleep" /\ ~Awaits(u, "RDWAIT")
    BY <1>2, <1>4, RestingFields
  <2> QED
    BY <1>1, <2>1, SleeperKnown DEF Awaits
<1>5. st' \subseteq Flags /\ \A h \in {"FILE", "ISOPEN"} : h \in st' <=> h \in st
  BY <1>1 DEF BdInv, BdTypeOK
<1> QED
  BY <1>1, <1>2, <1>3, <1>4, <1>5, Undisturbed DEF Quiet, BdInv, BdTypeOK

\* Fewer or more samples: i4b_tel_tone
LEMMA PlayedType ==
  ASSUME BdInv
  PROVE  played \in Nat /\ Total(prog) \in Nat /\ BufLen \in Nat /\ played + BufLen \in Nat
<1>1. played \in Nat /\ prog \in Programs \cup {<<>>}
  BY DEF BdInv, BdTypeOK
<1>2. BufLen \in Nat
  BY BchanDevAssumption
<1> QED
  BY <1>1, <1>2, TotalAssumption

LEMMA GetMbufStep ==
  ASSUME BdInv, NEW c \in Chan, GetMbuf(c)
  PROVE  BdInv'
<1>1. UNCHANGED <<kind, uses, ft, user, ref, rx, prog>> /\ th \in [Thread -> ThreadRec]
  BY DEF GetMbuf, BdInv
<1>2. CASE tx[c] > 0 /\ tx' = [tx EXCEPT ![c] = @ - 1] /\ UNCHANGED <<st, played, th>>
  <2>1. tx' \in [Chan -> 0..(QMax + 1)]
    <3>1. tx \in [Chan -> 0..(QMax + 1)] /\ QMax \in Nat
      BY BchanDevAssumption DEF BdInv, BdTypeOK
    <3>2. tx[c] - 1 \in 0..(QMax + 1)
      BY <1>2, <3>1
    <3> QED
      BY <1>2, <3>1, <3>2
  <2>2. ASSUME NEW u \in Thread
        PROVE  /\ Resting(u)
               /\ th'[u].pc = "sleep" =>
                    /\ \A h \in Signs : Awaits(u, h) => h \in st'
                    /\ th[u].on = "rx" /\ Current(u) => rx'[th[u].f] = 0
    BY <1>1, <1>2, SleeperKnown DEF Resting
  <2> QED
    BY <1>1, <1>2, <2>1, <2>2, Undisturbed DEF Quiet, BdInv, BdTypeOK
<1>3. CASE "TONE" \in st /\ Tone(th) /\ UNCHANGED tx
  <2>1. played' \in Nat
    BY <1>3, PlayedType DEF Tone
  <2>2. CASE ~ToneEnds
    <3>1. UNCHANGED <<st, th>>
      BY <1>3, <2>2 DEF Tone
    <3>2. ASSUME NEW u \in Thread
          PROVE  /\ Resting(u)
                 /\ th'[u].pc = "sleep" =>
                      /\ \A h \in Signs : Awaits(u, h) => h \in st'
                      /\ th[u].on = "rx" /\ Current(u) => rx'[th[u].f] = 0
      BY <1>1, <3>1, SleeperKnown DEF Resting
    <3> QED
      BY <1>1, <1>3, <2>1, <3>1, <3>2, Undisturbed DEF Quiet, BdInv, BdTypeOK
  <2>3. CASE ToneEnds
    <3>1. st' = st \ {"TONE"} /\ th' = IF "TONE" \in st THEN Wake(th, "tones", NoChan) ELSE th
      BY <1>3, <2>3 DEF Tone
    <3>2. /\ th' \in [Thread -> ThreadRec]
          /\ \A u \in Thread : Resting(u) /\ (th'[u].pc = "sleep" => ~Awaits(u, "TONE"))
      BY <3>1, InterruptWakes
    <3>3. ASSUME NEW u \in Thread, th'[u].pc = "sleep"
          PROVE  /\ \A h \in Signs : Awaits(u, h) => h \in st'
                 /\ th[u].on = "rx" /\ Current(u) => rx'[th[u].f] = 0
      <4>1. th[u].pc = "sleep" /\ ~Awaits(u, "TONE")
        BY <3>2, <3>3, RestingFields
      <4> QED
        BY <1>1, <3>1, <4>1, SleeperKnown
    <3>4. st' \subseteq Flags /\ \A h \in {"FILE", "ISOPEN"} : h \in st' <=> h \in st
      BY <3>1 DEF BdInv, BdTypeOK
    <3> QED
      BY <1>1, <1>3, <2>1, <3>2, <3>3, <3>4, Undisturbed DEF Quiet, BdInv, BdTypeOK
  <2> QED
    BY <2>2, <2>3
<1>4. CASE /\ st' = st \ {"WRWAIT"} /\ UNCHANGED <<tx, played>>
           /\ th' = IF "WRWAIT" \in st THEN Wake(th, "tx", c) ELSE th
  <2>1. /\ th' \in [Thread -> ThreadRec]
        /\ \A u \in Thread : Resting(u) /\ (th'[u].pc = "sleep" => ~Awaits(u, "WRWAIT"))
    BY <1>4, InterruptWakes DEF GetMbuf
  <2>2. ASSUME NEW u \in Thread, th'[u].pc = "sleep"
        PROVE  /\ \A h \in Signs : Awaits(u, h) => h \in st'
               /\ th[u].on = "rx" /\ Current(u) => rx'[th[u].f] = 0
    <3>1. th[u].pc = "sleep" /\ ~Awaits(u, "WRWAIT")
      BY <2>1, <2>2, RestingFields
    <3> QED
      BY <1>1, <1>4, <3>1, SleeperKnown
  <2>3. st' \subseteq Flags /\ \A h \in {"FILE", "ISOPEN"} : h \in st' <=> h \in st
    BY <1>4 DEF BdInv, BdTypeOK
  <2> QED
    BY <1>1, <1>4, <2>1, <2>2, <2>3, Undisturbed DEF Quiet, BdInv, BdTypeOK
<1> QED
  BY <1>2, <1>3, <1>4 DEF GetMbuf

LEMMA OtherWakesStep ==
  ASSUME BdInv, NEW c \in Chan, OtherWakes(c)
  PROVE  BdInv'
<1>1. PICK on \in {"rx", "tx"} : th' = Wake(th, on, c)
  BY DEF OtherWakes
<1>2. th \in [Thread -> ThreadRec]
  BY DEF BdInv
<1>3. th' \in [Thread -> ThreadRec] /\ \A u \in Thread : Resting(u)
  BY <1>1, <1>2, WakeFields DEF Resting
<1>4. ASSUME NEW u \in Thread, th'[u].pc = "sleep"
      PROVE  /\ \A h \in Signs : Awaits(u, h) => h \in st'
             /\ th[u].on = "rx" /\ Current(u) => rx'[th[u].f] = 0
  <2>1. th[u].pc = "sleep"
    BY <1>3, <1>4, RestingFields
  <2> QED
    BY <2>1, SleeperKnown DEF OtherWakes
<1> QED
  BY <1>3, <1>4, Undisturbed DEF OtherWakes, Quiet, BdInv, BdTypeOK


-----------------------------------------------------------------------------
(* Steps of a system call *)

\* Thread t becomes r, nobody else moves. r is not asleep, or fits as a sleeper.
LEMMA CallMoves ==
  ASSUME BdInv, Quiet, NEW t \in Thread, NEW r \in ThreadRec, th' = [th EXCEPT ![t] = r],
         rx' \in [Chan -> 0..QMax], tx' \in [Chan -> 0..(QMax + 1)], st' \subseteq Flags,
         prog' \in Programs \cup {<<>>}, played' \in Nat,
         "FILE" \in st' => "ISOPEN" \in st', Fits(t)',
         r.op \in Closes => \A u \in Thread \ {t} : th[u].op \notin Closes,
         ASSUME NEW u \in Thread \ {t}
         PROVE  /\ th[u].op \in DataCalls => "FILE" \in st'
                /\ th[u].op \in Closes => "FILE" \notin st' /\ "ISOPEN" \in st'
                /\ th[u].pc = "sleep" =>
                     /\ \A g \in Signs : Awaits(u, g) => g \in st'
                     /\ th[u].on = "rx" /\ Current(u) => rx'[th[u].f] = 0
  PROVE  BdInv'
<1>1. th' \in [Thread -> ThreadRec] /\ th'[t] = r /\ \A u \in Thread \ {t} : th'[u] = th[u]
  BY DEF BdInv
<1>2. BdTypeOK'
  BY <1>1, TypeKept
<1>3. ASSUME NEW u \in Thread \ {t}
      PROVE  Fits(u)'
  BY <1>1, RestingFits DEF Resting
<1>4. OneCloses'
  BY <1>1 DEF BdInv, OneCloses
<1> QED
  BY <1>1, <1>2, <1>3, <1>4 DEF BdInv, Quiet

\* What u # t needs of a step that takes no flag away and only empties queues
LEMMA OthersKeep ==
  ASSUME BdInv, NEW u \in Thread,
         st \subseteq st', "FILE" \in st' <=> "FILE" \in st, "ISOPEN" \in st' <=> "ISOPEN" \in st,
         \A c \in Chan : rx[c] = 0 => rx'[c] = 0
  PROVE  /\ th[u].op \in DataCalls => "FILE" \in st'
         /\ th[u].op \in Closes => "FILE" \notin st' /\ "ISOPEN" \in st'
         /\ th[u].pc = "sleep" =>
              /\ \A g \in Signs : Awaits(u, g) => g \in st'
              /\ th[u].on = "rx" /\ Current(u) => rx'[th[u].f] = 0
<1>1. CallFits(u)
  BY DEF BdInv, Fits
<1>2. ASSUME th[u].pc = "sleep"
      PROVE  /\ \A g \in Signs : Awaits(u, g) => g \in st'
             /\ th[u].on = "rx" /\ Current(u) => rx'[th[u].f] = 0
  BY <1>2, SleeperKnown, SleeperHasChan
<1> QED
  BY <1>1, <1>2 DEF CallFits

LEMMA IdleType ==
  /\ Idle \in ThreadRec /\ Idle.op = "none" /\ Idle.pc = "idle" /\ Idle.f = NoChan
  /\ \A op \in DataCalls \cup {"none", "close", "closed", "dread"} :
       LET r == [Idle EXCEPT !.op = op, !.pc = "access"] IN
       r \in ThreadRec /\ r.op = op /\ r.pc = "access" /\ r.f = NoChan
<1>1. 0 \in 0..RefMax
  BY BchanDevAssumption
<1>2. Idle \in ThreadRec /\ Idle.op = "none" /\ Idle.pc = "idle" /\ Idle.f = NoChan
  BY <1>1 DEF Idle, ThreadRec, Idents
<1> QED
  BY <1>1, <1>2 DEF Idle, ThreadRec, Idents

\* A thread that is not asleep and has no translator fits if its call does.
LEMMA AwakeFits ==
  ASSUME NEW t \in Thread, th'[t].pc # "sleep", th'[t].f = NoChan, CallFits(t)'
  PROVE  Fits(t)'
BY DEF Fits, RefFits

LEMMA NoneFits ==
  ASSUME BdInv, NEW t \in Thread, th' = [th EXCEPT ![t] = Idle]
  PROVE  Fits(t)'
<1>1. th'[t] = Idle
  BY DEF BdInv
<1>2. CallFits(t)'
  BY <1>1, IdleType DEF CallFits, DataCalls, Closes
<1> QED
  BY <1>1, <1>2, IdleType, AwakeFits

\* A call returns.
LEMMA Returned ==
  ASSUME BdInv, Quiet, NEW t \in Thread, Done(t),
         rx' \in [Chan -> 0..QMax], tx' \in [Chan -> 0..(QMax + 1)], st' \subseteq Flags,
         prog' \in Programs \cup {<<>>}, played' \in Nat,
         "FILE" \in st' => "ISOPEN" \in st',
         ASSUME NEW u \in Thread \ {t}
         PROVE  /\ th[u].op \in DataCalls => "FILE" \in st'
                /\ th[u].op \in Closes => "FILE" \notin st' /\ "ISOPEN" \in st'
                /\ th[u].pc = "sleep" =>
                     /\ \A g \in Signs : Awaits(u, g) => g \in st'
                     /\ th[u].on = "rx" /\ Current(u) => rx'[th[u].f] = 0
  PROVE  BdInv'
<1>1. th' = [th EXCEPT ![t] = Idle]
  BY DEF Done, Go
<1>2. Fits(t)'
  BY <1>1, NoneFits
<1>3. Idle.op \notin Closes /\ Idle \in ThreadRec
  BY IdleType DEF Closes
<1> QED
  BY <1>1, <1>2, <1>3, CallMoves


\* The connected code of a call runs on the translator of the unit.
LEMMA ConnectedFacts ==
  ASSUME BdInv, NEW t \in Thread, NEW op, Connected(t, op)
  PROVE  /\ th[t].f \in Chan /\ ft = th[t].f /\ Current(t) /\ th[t].op = op
         /\ th[t].pc \in {"change", "woken"}
<1>1. th[t].f \in Chan /\ th[t].f # NoChan /\ Current(t)
  BY DEF BdInv, Connected, AtCheck, ThreadRec
<1> QED
  BY <1>1, CurrentIsUnit DEF Connected, AtCheck

\* A thread with the translator of the unit goes to sleep on it.
LEMMA FallsAsleep ==
  ASSUME BdInv, Quiet, NEW t \in Thread, NEW on \in {"rx", "tx", "tones"}, Sleep(t, on),
         th[t].f \in Chan, Current(t), CallFits(t)',
         th[t].op = "read" => on = "rx", th[t].op = "write" => on = "tx",
         th[t].op = "close" => on \in {"tx", "tones"},
         on = "rx" => "RDWAIT" \in st' /\ rx'[th[t].f] = 0, on = "tx" => "WRWAIT" \in st',
         on = "tones" /\ th[t].op = "close" => "TONE" \in st'
  PROVE  /\ Fits(t)'
         /\ [th[t] EXCEPT !.pc = "sleep", !.on = on] \in ThreadRec
         /\ [th[t] EXCEPT !.pc = "sleep", !.on = on].op = th[t].op
<1> DEFINE r == [th[t] EXCEPT !.pc = "sleep", !.on = on]
<1>1. th[t] \in ThreadRec
  BY DEF BdInv
<1>2. /\ r \in ThreadRec /\ r.op = th[t].op /\ r.f = th[t].f /\ r.ref = th[t].ref
      /\ r.on = on /\ r.pc = "sleep"
  BY <1>1 DEF ThreadRec, Idents
<1>3. th'[t] = r
  BY DEF BdInv, Sleep, Go
<1> HIDE DEF r
<1>4. Current(t)' /\ ft' = ft /\ kind' = kind /\ ref' = ref
  BY <1>2, <1>3 DEF Current, Quiet
<1>5. RefFits(t)'
  BY <1>2, <1>3, <1>4 DEF BdInv, Fits, RefFits
<1>6. \A g \in Signs : Awaits(t, g)' => g \in st'
  BY <1>2, <1>3 DEF Awaits, Signs
<1>7. (th[t].on = "rx" /\ Current(t) => rx[th[t].f] = 0)'
  BY <1>2, <1>3
<1>8. th[t].f # NoChan
  BY BchanDevAssumption
<1>9. SleepFits(t)'
  BY <1>2, <1>3, <1>4, <1>6, <1>7, <1>8 DEF SleepFits
<1>10. Fits(t)'
  BY <1>5, <1>9 DEF Fits
<1> QED
  BY <1>2, <1>10 DEF r

LEMMA NumberTypes ==
  ASSUME BdInv
  PROVE  /\ rx \in [Chan -> 0..QMax] /\ tx \in [Chan -> 0..(QMax + 1)] /\ QMax \in Nat
         /\ played \in Nat /\ prog \in Programs \cup {<<>>} /\ st \subseteq Flags
BY BchanDevAssumption DEF BdInv, BdTypeOK

\* The calls of a thread that keeps its call and the file
LEMMA CallKept ==
  ASSUME BdInv, NEW t \in Thread, th'[t].op = th[t].op,
         "FILE" \in st' <=> "FILE" \in st, "ISOPEN" \in st' <=> "ISOPEN" \in st
  PROVE  CallFits(t)'
BY DEF BdInv, Fits, CallFits

LEMMA ReadCallStep ==
  ASSUME BdInv, NEW t \in Thread, Read(t)
  PROVE  BdInv'
<1>1. Quiet /\ UNCHANGED <<tx, prog, played>>
  BY DEF Read, Quiet
<1>2. th[t].f \in Chan /\ ft = th[t].f /\ Current(t) /\ th[t].op = "read"
  BY ConnectedFacts DEF Read
<1>3. /\ rx \in [Chan -> 0..QMax] /\ tx \in [Chan -> 0..(QMax + 1)] /\ QMax \in Nat
      /\ played \in Nat /\ prog \in Programs \cup {<<>>} /\ st \subseteq Flags
  BY NumberTypes
<1>4. CASE rx[th[t].f] > 0
  <2>1. rx' = [rx EXCEPT ![th[t].f] = rx[th[t].f] - 1] /\ Done(t) /\ st' = st
    BY <1>4 DEF Read
  <2>2. rx[th[t].f] - 1 \in 0..QMax /\ rx[th[t].f] # 0
    BY <1>2, <1>3, <1>4
  <2>3. rx' \in [Chan -> 0..QMax] /\ \A c \in Chan : rx[c] = 0 => rx'[c] = 0
    BY <1>3, <2>1, <2>2
  <2> QED
    BY <1>1, <1>3, <2>1, <2>3, OthersKeep, Returned DEF BdInv
<1>5. CASE ~(rx[th[t].f] > 0)
  <2>1. rx' = rx /\ rx[th[t].f] = 0
    BY <1>2, <1>3, <1>5 DEF Read
  <2>2. CASE "NOBLOCK" \in st
    <3> DEFINE r == [th[t] EXCEPT !.pc = "spin"]
    <3>1. th' = [th EXCEPT ![t] = r] /\ st' = st
      BY <1>5, <2>2 DEF Read, Go
    <3>2. /\ r \in ThreadRec /\ r.op = th[t].op /\ r.f = th[t].f /\ r.ref = th[t].ref
          /\ r.pc = "spin"
      BY DEF BdInv, ThreadRec
    <3> HIDE DEF r
    <3>3. th'[t] = r
      BY <3>1 DEF BdInv
    <3>4. CallFits(t)'
      BY <3>1, <3>2, <3>3, CallKept
    <3>5. RefFits(t)'
      BY <1>1, <3>2, <3>3 DEF BdInv, Fits, RefFits, Current, Quiet
    <3>6. Fits(t)'
      BY <3>2, <3>3, <3>4, <3>5 DEF Fits
    <3>7. r.op \notin Closes
      BY <1>2, <3>2 DEF Closes
    <3> QED
      BY <1>1, <1>3, <2>1, <3>1, <3>2, <3>6, <3>7, OthersKeep, CallMoves DEF BdInv
  <2>3. CASE "NOBLOCK" \notin st
    <3> DEFINE r == [th[t] EXCEPT !.pc = "sleep", !.on = "rx"]
    <3>1. Sleep(t, "rx") /\ st' = st \cup {"RDWAIT"}
      BY <1>5, <2>3 DEF Read
    <3>2. /\ st \subseteq st' /\ st' \subseteq Flags
          /\ \A h \in {"FILE", "ISOPEN"} : h \in st' <=> h \in st
      BY <1>3, <3>1 DEF Flags
    <3>3. th' = [th EXCEPT ![t] = r] /\ th'[t].op = th[t].op
      BY <3>1 DEF BdInv, Sleep, Go, ThreadRec
    <3>4. CallFits(t)'
      BY <3>2, <3>3, CallKept
    <3>5. Fits(t)' /\ r \in ThreadRec /\ r.op = th[t].op
      BY <1>1, <1>2, <2>1, <3>1, <3>4, FallsAsleep
    <3>6. r.op \notin Closes
      BY <1>2, <3>5 DEF Closes
    <3> HIDE DEF r
    <3> QED
      BY <1>1, <1>3, <2>1, <3>2, <3>3, <3>5, <3>6, OthersKeep, CallMoves DEF BdInv
  <2> QED
    BY <2>2, <2>3
<1> QED
  BY <1>4, <1>5


\* A write takes TONE away: no close waits for the tones meanwhile.
LEMMA WriteOthers ==
  ASSUME BdInv, NEW t \in Thread, th[t].op \in DataCalls, NEW u \in Thread,
         \A g \in Flags \ {"TONE"} : g \in st => g \in st',
         "FILE" \in st' <=> "FILE" \in st, "ISOPEN" \in st' <=> "ISOPEN" \in st, rx' = rx
  PROVE  /\ th[u].op \in DataCalls => "FILE" \in st'
         /\ th[u].op \in Closes => "FILE" \notin st' /\ "ISOPEN" \in st'
         /\ th[u].pc = "sleep" =>
              /\ \A g \in Signs : Awaits(u, g) => g \in st'
              /\ th[u].on = "rx" /\ Current(u) => rx'[th[u].f] = 0
<1>1. CallFits(u) /\ CallFits(t)
  BY DEF BdInv, Fits
<1>2. th[u].op # "close"
  BY <1>1 DEF CallFits, Closes
<1>3. ASSUME th[u].pc = "sleep"
      PROVE  /\ \A g \in Signs : Awaits(u, g) => g \in st'
             /\ th[u].on = "rx" /\ Current(u) => rx'[th[u].f] = 0
  <2>1. ~Awaits(u, "TONE")
    BY <1>2 DEF Awaits
  <2>2. Signs \subseteq Flags
    BY DEF Signs, Flags
  <2> QED
    BY <1>3, <2>1, <2>2, SleeperKnown
<1> QED
  BY <1>1, <1>3 DEF CallFits

LEMMA WriteCallStep ==
  ASSUME BdInv, NEW t \in Thread, Write(t)
  PROVE  BdInv'
<1> DEFINE s == IF kind = "tel" /\ th[t].pc = "change" THEN st \ {"TONE"} ELSE st
<1>1. Quiet /\ UNCHANGED <<rx, prog, played>>
  BY DEF Write, Quiet
<1>2. th[t].f \in Chan /\ ft = th[t].f /\ Current(t) /\ th[t].op = "write"
  BY ConnectedFacts DEF Write
<1>3. /\ rx \in [Chan -> 0..QMax] /\ tx \in [Chan -> 0..(QMax + 1)] /\ QMax \in Nat
      /\ played \in Nat /\ prog \in Programs \cup {<<>>} /\ st \subseteq Flags
  BY NumberTypes
<1>4. st' = s \/ st' = s \cup {"WRWAIT"}
  BY DEF Write
<1>5. /\ st' \subseteq Flags /\ \A g \in Flags \ {"TONE"} : g \in st => g \in st'
      /\ \A h \in {"FILE", "ISOPEN"} : h \in st' <=> h \in st
  BY <1>3, <1>4 DEF Flags
<1>6. "FILE" \in st' => "ISOPEN" \in st'
  BY <1>5 DEF BdInv
<1>7. th[t].op \in DataCalls
  BY <1>2 DEF DataCalls
<1>8. CASE tx[th[t].f] < QMax
  <2>1. tx' = [tx EXCEPT ![th[t].f] = tx[th[t].f] + 1] /\ Done(t)
    BY <1>8 DEF Write
  <2>2. tx[th[t].f] + 1 \in 0..(QMax + 1)
    BY <1>2, <1>3, <1>8
  <2>3. tx' \in [Chan -> 0..(QMax + 1)]
    BY <1>3, <2>1, <2>2
  <2> QED
    BY <1>1, <1>3, <1>5, <1>6, <1>7, <2>1, <2>3, WriteOthers, Returned
<1>9. CASE ~(tx[th[t].f] < QMax) /\ "NOBLOCK" \in st
  <2>1. tx' = tx /\ Done(t)
    BY <1>9 DEF Write
  <2> QED
    BY <1>1, <1>3, <1>5, <1>6, <1>7, <2>1, WriteOthers, Returned
<1>10. CASE ~(tx[th[t].f] < QMax) /\ "NOBLOCK" \notin st
  <2> DEFINE r == [th[t] EXCEPT !.pc = "sleep", !.on = "tx"]
  <2>1. tx' = tx /\ Sleep(t, "tx") /\ "WRWAIT" \in st'
    BY <1>10 DEF Write
  <2>2. th' = [th EXCEPT ![t] = r] /\ th'[t].op = th[t].op
    BY <2>1 DEF BdInv, Sleep, Go, ThreadRec
  <2>3. CallFits(t)'
    BY <1>5, <2>2, CallKept
  <2>4. Fits(t)' /\ r \in ThreadRec /\ r.op = th[t].op
    BY <1>1, <1>2, <2>1, <2>3, FallsAsleep
  <2>5. r.op \notin Closes
    BY <1>2, <2>4 DEF Closes
  <2> HIDE DEF r
  <2> QED
    BY <1>1, <1>3, <1>5, <1>6, <1>7, <2>1, <2>2, <2>4, <2>5, WriteOthers, CallMoves
<1> QED
  BY <1>8, <1>9, <1>10

\* A close gets on: the other threads are not in a close.
LEMMA CloseMoves ==
  ASSUME BdInv, Quiet, NEW t \in Thread, NEW r \in ThreadRec, th' = [th EXCEPT ![t] = r],
         th[t].op \in Closes, Fits(t)', st \subseteq st', st' \subseteq Flags,
         "FILE" \in st' <=> "FILE" \in st, "ISOPEN" \in st' <=> "ISOPEN" \in st,
         UNCHANGED <<rx, tx, prog, played>>
  PROVE  BdInv'
<1>1. \A u \in Thread \ {t} : th[u].op \notin Closes
  BY DEF BdInv, OneCloses
<1> QED
  BY <1>1, NumberTypes, OthersKeep, CallMoves DEF BdInv

\* op becomes "closed", before the translator is looked at again
LEMMA ClosedFits ==
  ASSUME BdInv, NEW t \in Thread, th[t].op \in Closes, Closed(t), st' = st
  PROVE  /\ Fits(t)' /\ [Idle EXCEPT !.op = "closed", !.pc = "access"] \in ThreadRec
         /\ th' = [th EXCEPT ![t] = [Idle EXCEPT !.op = "closed", !.pc = "access"]]
<1> DEFINE r == [Idle EXCEPT !.op = "closed", !.pc = "access"]
<1>1. r \in ThreadRec /\ r.op = "closed" /\ r.pc = "access" /\ r.f = NoChan
  BY IdleType
<1>2. th' = [th EXCEPT ![t] = r]
  BY DEF Closed, Go
<1> HIDE DEF r
<1>3. th'[t] = r
  BY <1>2 DEF BdInv
<1>4. CallFits(t)'
  BY <1>1, <1>3 DEF BdInv, Fits, CallFits, DataCalls, Closes
<1>5. Fits(t)'
  BY <1>1, <1>3, <1>4, AwakeFits
<1> QED
  BY <1>1, <1>2, <1>5 DEF r

LEMMA CloseWaitCallStep ==
  ASSUME BdInv, NEW t \in Thread, CloseWait(t)
  PROVE  BdInv'
<1>1. Quiet /\ UNCHANGED <<rx, tx, prog, played>>
  BY DEF CloseWait, Quiet
<1>2. th[t].f \in Chan /\ ft = th[t].f /\ Current(t) /\ th[t].op = "close" /\ th[t].op \in Closes
  BY ConnectedFacts DEF CloseWait, Closes
<1>3. st \subseteq Flags
  BY NumberTypes
<1>4. ASSUME NEW on \in {"tx", "tones"}, Sleep(t, on), on = "tx" => st' = st \cup {"WRWAIT"},
             on = "tones" => st' = st /\ "TONE" \in st
      PROVE  BdInv'
  <2> DEFINE r == [th[t] EXCEPT !.pc = "sleep", !.on = on]
  <2>1. /\ st \subseteq st' /\ st' \subseteq Flags
        /\ \A h \in {"FILE", "ISOPEN"} : h \in st' <=> h \in st
    BY <1>3, <1>4 DEF Flags
  <2>2. th' = [th EXCEPT ![t] = r] /\ th'[t].op = th[t].op
    BY <1>4 DEF BdInv, Sleep, Go, ThreadRec
  <2>3. CallFits(t)'
    BY <2>1, <2>2, CallKept
  <2>4. Fits(t)' /\ r \in ThreadRec
    BY <1>1, <1>2, <1>4, <2>3, FallsAsleep
  <2> HIDE DEF r
  <2> QED
    BY <1>1, <1>2, <2>1, <2>2, <2>4, CloseMoves
<1>5. CASE tx[th[t].f] > 0 /\ th[t].on # "tones"
  BY <1>4, <1>5 DEF CloseWait
<1>6. CASE ~(tx[th[t].f] > 0 /\ th[t].on # "tones") /\ "TONE" \in st
  BY <1>4, <1>6 DEF CloseWait
<1>7. CASE ~(tx[th[t].f] > 0 /\ th[t].on # "tones") /\ "TONE" \notin st
  <2>1. Closed(t) /\ st' = st
    BY <1>7 DEF CloseWait
  <2> QED
    BY <1>1, <1>2, <1>3, <2>1, ClosedFits, CloseMoves
<1> QED
  BY <1>5, <1>6, <1>7


LEMMA CloseNotConnectedStep ==
  ASSUME BdInv, NEW t \in Thread, CloseNotConnected(t)
  PROVE  BdInv'
<1>1. Quiet /\ UNCHANGED <<rx, tx, prog, played>> /\ Closed(t) /\ st' = st
  BY DEF CloseNotConnected, Quiet
<1>2. th[t].op \in Closes
  BY DEF CloseNotConnected, NotConnected, Closes
<1> QED
  BY <1>1, <1>2, NumberTypes, ClosedFits, CloseMoves

LEMMA CloseDoneStep ==
  ASSUME BdInv, NEW t \in Thread, CloseDone(t)
  PROVE  BdInv'
<1>1. Quiet /\ UNCHANGED <<rx, tx, prog, played>> /\ Done(t) /\ st' = st \ {"ISOPEN", "BRIDGE"}
  BY DEF CloseDone, Quiet
<1>2. th[t].op \in Closes
  BY DEF CloseDone, NotConnected, Connected, Closes
<1>3. "FILE" \notin st /\ \A u \in Thread \ {t} : th[u].op \notin Closes
  BY <1>2 DEF BdInv, OneCloses, Fits, CallFits
<1>4. st' \subseteq Flags /\ "FILE" \notin st' /\ \A g \in Signs : g \in st => g \in st'
  BY <1>1, <1>3 DEF BdInv, BdTypeOK, Signs
<1>5. ASSUME NEW u \in Thread \ {t}
      PROVE  /\ th[u].op \in DataCalls => "FILE" \in st'
             /\ th[u].op \in Closes => "FILE" \notin st' /\ "ISOPEN" \in st'
             /\ th[u].pc = "sleep" =>
                  /\ \A g \in Signs : Awaits(u, g) => g \in st'
                  /\ th[u].on = "rx" /\ Current(u) => rx'[th[u].f] = 0
  <2>1. CallFits(u)
    BY DEF BdInv, Fits
  <2>2. th[u].op \notin DataCalls
    BY <1>3, <2>1 DEF CallFits
  <2> QED
    BY <1>1, <1>3, <1>4, <2>2, SleeperKnown
<1> QED
  BY <1>1, <1>4, <1>5, NumberTypes, Returned

LEMMA OpenStep ==
  ASSUME BdInv, Open
  PROVE  BdInv'
<1>1. Quiet /\ UNCHANGED <<rx, tx, prog, played, th>> /\ th \in [Thread -> ThreadRec]
  BY DEF Open, Quiet, BdInv
<1>2. st' \subseteq Flags /\ \A g \in Signs : g \in st => g \in st'
  BY DEF Open, BdInv, BdTypeOK, Flags, Signs
<1>3. "FILE" \in st' => "ISOPEN" \in st'
  BY DEF Open, BdInv
<1>4. ASSUME NEW u \in Thread
      PROVE  Fits(u)'
  <2>1. CallFits(u)
    BY DEF BdInv, Fits
  <2>2. th[u].op \in DataCalls => "FILE" \in st'
    BY <2>1 DEF CallFits, Open
  <2>3. th[u].op \in Closes => "FILE" \notin st' /\ "ISOPEN" \in st'
    BY <2>1 DEF CallFits, Open
  <2>4. th[u].pc = "sleep" =>
          /\ \A g \in Signs : Awaits(u, g) => g \in st'
          /\ th[u].on = "rx" /\ Current(u) => rx'[th[u].f] = 0
    BY <1>1, <1>2, SleeperKnown
  <2> QED
    BY <1>1, <2>2, <2>3, <2>4, RestingFits DEF Resting
<1>5. BdTypeOK'
  BY <1>1, <1>2, NumberTypes, TypeKept
<1>6. OneCloses'
  BY <1>1 DEF BdInv, OneCloses
<1> QED
  BY <1>1, <1>3, <1>4, <1>5, <1>6 DEF BdInv, Quiet

LEMMA CallStep ==
  ASSUME BdInv, NEW t \in Thread, NEW op \in Calls, Call(t, op)
  PROVE  BdInv'
<1>1. Quiet /\ UNCHANGED <<rx, tx, prog, played>>
  BY DEF Call, Quiet
<1>2. PICK new \in DataCalls \cup {"close", "closed", "dread"} :
        /\ new = IF op = "close" /\ kind = "rbch" THEN "closed" ELSE op
        /\ th' = [th EXCEPT ![t] = [Idle EXCEPT !.op = new, !.pc = "access"]]
  BY DEF Call, Calls, Go
<1> DEFINE r == [Idle EXCEPT !.op = new, !.pc = "access"]
<1>3. r \in ThreadRec /\ r.op = new /\ r.pc = "access" /\ r.f = NoChan
  BY IdleType
<1> HIDE DEF r
<1>4. th' = [th EXCEPT ![t] = r] /\ th'[t] = r
  BY <1>2 DEF BdInv, r
<1>5. CASE op = "close"
  <2>1. "FILE" \in st /\ st' = st \ {"FILE"} /\ \A u \in Thread : th[u].op \notin DataCalls
    BY <1>5 DEF Call
  <2>2. "ISOPEN" \in st' /\ st' \subseteq Flags /\ \A g \in Signs : g \in st => g \in st'
    BY <2>1 DEF BdInv, BdTypeOK, Signs
  <2>3. \A u \in Thread : th[u].op \notin Closes
    BY <2>1 DEF BdInv, Fits, CallFits
  <2>4. new \in Closes /\ new \notin DataCalls
    BY <1>2, <1>5 DEF Closes, DataCalls
  <2>5. CallFits(t)'
    BY <1>3, <1>4, <2>1, <2>2, <2>4 DEF CallFits
  <2>6. Fits(t)'
    BY <1>3, <1>4, <2>5, AwakeFits
  <2>7. ASSUME NEW u \in Thread \ {t}
        PROVE  /\ th[u].op \in DataCalls => "FILE" \in st'
               /\ th[u].op \in Closes => "FILE" \notin st' /\ "ISOPEN" \in st'
               /\ th[u].pc = "sleep" =>
                    /\ \A g \in Signs : Awaits(u, g) => g \in st'
                    /\ th[u].on = "rx" /\ Current(u) => rx'[th[u].f] = 0
    BY <1>1, <2>1, <2>2, <2>3, SleeperKnown
  <2> QED
    BY <1>1, <1>3, <1>4, <2>2, <2>3, <2>6, <2>7, NumberTypes, CallMoves
<1>6. CASE op # "close"
  <2>1. st' = st /\ (op \in DataCalls => "FILE" \in st)
    BY <1>6 DEF Call
  <2>2. new = op /\ new \notin Closes
    BY <1>2, <1>6 DEF Closes, Calls, DataCalls
  <2>3. CallFits(t)'
    BY <1>3, <1>4, <2>1, <2>2 DEF CallFits
  <2>4. Fits(t)'
    BY <1>3, <1>4, <2>3, AwakeFits
  <2> QED
    BY <1>1, <1>3, <1>4, <2>1, <2>2, <2>4, NumberTypes, OthersKeep, CallMoves DEF BdInv
<1> QED
  BY <1>5, <1>6

LEMMA CallGoesOn ==
  ASSUME BdInv, NEW t \in Thread, NEW r \in ThreadRec, th' = [th EXCEPT ![t] = r],
         r.op = th[t].op, Fits(t)',
         UNCHANGED <<kind, uses, ft, user, ref, rx, tx, st, prog, played>>
  PROVE  BdInv'
<1>1. r.op \in Closes => \A u \in Thread \ {t} : th[u].op \notin Closes
  BY DEF BdInv, OneCloses
<1> QED
  BY <1>1, NumberTypes, OthersKeep, CallMoves DEF BdInv, Quiet

LEMMA AccessStep ==
  ASSUME BdInv, NEW t \in Thread, Access(t)
  PROVE  BdInv'
<1> DEFINE r == [th[t] EXCEPT !.pc = "change", !.f = ft, !.ref = ref[ft], !.on = "none"]
<1>1. UNCHANGED <<kind, uses, ft, user, ref, rx, tx, st, prog, played>> /\ ft # NoChan
  BY DEF Access
<1>2. ft \in Chan /\ ref[ft] \in 0..RefMax
  BY <1>1 DEF BdInv, BdTypeOK
<1>3. th[t] \in ThreadRec
  BY DEF BdInv
<1>4. /\ r \in ThreadRec /\ r.op = th[t].op /\ r.f = ft /\ r.ref = ref[ft] /\ r.pc = "change"
  BY <1>2, <1>3 DEF ThreadRec, Idents
<1>5. th' = [th EXCEPT ![t] = r]
  BY DEF Access, Go
<1> HIDE DEF r
<1>6. th'[t] = r
  BY <1>5 DEF BdInv
<1>7. RefFits(t)'
  <2>1. ref[ft] <= ref[ft]
    BY <1>2
  <2> QED
    BY <1>1, <1>4, <1>6, <2>1 DEF RefFits
<1>8. CallFits(t)'
  BY <1>1, <1>4, <1>6, CallKept
<1>9. Fits(t)'
  BY <1>4, <1>6, <1>7, <1>8 DEF Fits
<1> QED
  BY <1>1, <1>4, <1>5, <1>9, CallGoesOn

LEMMA ReaccessStep ==
  ASSUME BdInv, NEW t \in Thread, Reaccess(t)
  PROVE  BdInv'
<1>1. UNCHANGED <<kind, uses, ft, user, ref, rx, tx, st, prog, played>>
  BY DEF Reaccess
<1>2. th[t].op \in DataCalls \cup {"none", "close", "closed", "dread"}
  BY DEF BdInv, ThreadRec
<1> DEFINE r == [Idle EXCEPT !.op = th[t].op, !.pc = "access"]
<1>3. r \in ThreadRec /\ r.op = th[t].op /\ r.pc = "access" /\ r.f = NoChan
  BY <1>2, IdleType
<1>4. th' = [th EXCEPT ![t] = r]
  BY DEF Reaccess, Go
<1> HIDE DEF r
<1>5. th'[t] = r
  BY <1>4 DEF BdInv
<1>6. CallFits(t)'
  BY <1>1, <1>3, <1>5, CallKept
<1>7. Fits(t)'
  BY <1>3, <1>5, <1>6, AwakeFits
<1> QED
  BY <1>1, <1>3, <1>4, <1>7, CallGoesOn


LEMMA DataNotConnectedStep ==
  ASSUME BdInv, NEW t \in Thread, DataNotConnected(t)
  PROVE  BdInv'
<1>1. UNCHANGED <<kind, uses, ft, user, ref, rx, tx, st, prog, played>> /\ Quiet
  BY DEF DataNotConnected, Quiet
<1>2. ft = NoChan /\ th[t].op \in DataCalls
  BY DEF DataNotConnected, NotConnected
<1>3. CASE kind = "tel" \/ "NOBLOCK" \in st
  <2>1. Done(t)
    BY <1>3 DEF DataNotConnected
  <2> QED
    BY <1>1, <2>1, NumberTypes, OthersKeep, Returned DEF BdInv
<1>4. CASE ~(kind = "tel" \/ "NOBLOCK" \in st)
  <2> DEFINE r == [th[t] EXCEPT !.pc = "sleep", !.on = "unit", !.f = NoChan]
  <2>1. th' = [th EXCEPT ![t] = r]
    BY <1>4 DEF DataNotConnected, Go
  <2>2. th[t] \in ThreadRec /\ kind = "rbch"
    BY <1>4, BchanDevAssumption DEF BdInv, BdTypeOK
  <2>3. r \in ThreadRec /\ r.op = th[t].op /\ r.f = NoChan /\ r.pc = "sleep" /\ r.on = "unit"
    BY <2>2 DEF ThreadRec, Idents
  <2> HIDE DEF r
  <2>4. th'[t] = r
    BY <2>1 DEF BdInv
  <2>5. CallFits(t)'
    BY <1>1, <2>3, <2>4, CallKept
  <2>6. SleepFits(t)'
    BY <1>1, <1>2, <2>2, <2>3, <2>4 DEF SleepFits, Awaits, DataCalls
  <2>7. Fits(t)'
    BY <2>3, <2>4, <2>5, <2>6 DEF Fits, RefFits
  <2> QED
    BY <1>1, <2>1, <2>3, <2>7, CallGoesOn
<1> QED
  BY <1>3, <1>4

LEMMA SignalStep ==
  ASSUME BdInv, NEW t \in Thread, Signal(t)
  PROVE  BdInv'
<1>1. UNCHANGED <<kind, uses, ft, user, ref, rx, tx, st, prog, played>> /\ Quiet
  BY DEF Signal, Quiet
<1>2. CASE th[t].op = "close"
  <2>1. Closed(t) /\ th[t].op \in Closes
    BY <1>2 DEF Signal, Closes
  <2> QED
    BY <1>1, <2>1, NumberTypes, ClosedFits, CloseMoves
<1>3. CASE th[t].op # "close"
  <2>1. Done(t)
    BY <1>3 DEF Signal
  <2> QED
    BY <1>1, <2>1, NumberTypes, OthersKeep, Returned DEF BdInv
<1> QED
  BY <1>2, <1>3

LEMMA StatusReadStep ==
  ASSUME BdInv, NEW t \in Thread, StatusRead(t)
  PROVE  BdInv'
<1>1. Quiet /\ UNCHANGED <<rx, tx, prog, played>>
  BY DEF StatusRead, Quiet
<1>2. th[t].op = "dread"
  BY DEF StatusRead, Connected, NotConnected
<1>3. /\ st \subseteq st' /\ st' \subseteq Flags
      /\ \A h \in {"FILE", "ISOPEN"} : h \in st' <=> h \in st
  BY DEF StatusRead, BdInv, BdTypeOK, Flags
<1>4. CASE "NO_STATUS" \notin st
  <2>1. Done(t)
    BY <1>4 DEF StatusRead
  <2> QED
    BY <1>1, <1>3, <2>1, NumberTypes, OthersKeep, Returned DEF BdInv
<1>5. CASE "NO_STATUS" \in st
  <2> DEFINE r == [th[t] EXCEPT !.pc = "sleep", !.on = "status"]
  <2>1. th' = [th EXCEPT ![t] = r] /\ {"RDWAIT_STATUS", "NO_STATUS"} \subseteq st'
    BY <1>5 DEF StatusRead, Sleep, Go
  <2>2. th[t] \in ThreadRec
    BY DEF BdInv
  <2>3. /\ r \in ThreadRec /\ r.op = "dread" /\ r.f = th[t].f /\ r.ref = th[t].ref
        /\ r.pc = "sleep" /\ r.on = "status"
    BY <1>2, <2>2 DEF ThreadRec, Idents
  <2> HIDE DEF r
  <2>4. th'[t] = r
    BY <2>1 DEF BdInv
  <2>5. CallFits(t)'
    BY <2>3, <2>4 DEF CallFits, DataCalls, Closes
  <2>6. RefFits(t)'
    BY <1>1, <2>3, <2>4 DEF BdInv, Fits, RefFits, Current, Quiet
  <2>7. SleepFits(t)'
    BY <2>1, <2>3, <2>4 DEF SleepFits, Awaits
  <2>8. Fits(t)'
    BY <2>5, <2>6, <2>7 DEF Fits
  <2>9. r.op \notin Closes
    BY <2>3 DEF Closes
  <2> QED
    BY <1>1, <1>3, <2>1, <2>3, <2>8, <2>9, NumberTypes, OthersKeep, CallMoves DEF BdInv
<1> QED
  BY <1>4, <1>5

\* I4B_TEL_TONES: the new program may end at once and wake those who wait for it.
LEMMA TonesStep ==
  ASSUME BdInv, NEW t \in Thread, Tones(t)
  PROVE  BdInv'
<1>1. Quiet /\ rx' = rx
  BY DEF Tones, Quiet
<1>2. th[t].f \in Chan /\ ft = th[t].f /\ Current(t) /\ th[t].op = "tones"
  BY ConnectedFacts DEF Tones
<1>3. /\ rx \in [Chan -> 0..QMax] /\ tx \in [Chan -> 0..(QMax + 1)] /\ QMax \in Nat
      /\ played \in Nat /\ prog \in Programs \cup {<<>>} /\ st \subseteq Flags
  BY NumberTypes
<1>4. CASE Sleep(t, "tones") /\ UNCHANGED <<st, prog, played, tx>>
  <2> DEFINE r == [th[t] EXCEPT !.pc = "sleep", !.on = "tones"]
  <2>1. th' = [th EXCEPT ![t] = r] /\ th'[t].op = th[t].op
    BY <1>4 DEF BdInv, Sleep, Go, ThreadRec
  <2>2. CallFits(t)'
    BY <1>4, <2>1, CallKept
  <2>3. Fits(t)' /\ r \in ThreadRec /\ r.op = th[t].op
    BY <1>1, <1>2, <1>4, <2>2, FallsAsleep
  <2> HIDE DEF r
  <2> QED
    BY <1>1, <1>4, <2>1, <2>3, CallGoesOn DEF Quiet
<1>5. ASSUME NEW p \in Programs, NEW memory \in BOOLEAN, tx[th[t].f] <= QMax,
             NEW ends \in BOOLEAN, prog' = p,
             played' = IF ~memory THEN 0 ELSE IF ends THEN Total(p) ELSE BufLen,
             st' = IF ends THEN st \ {"TONE"} ELSE st \cup {"TONE"},
             th' = IF ends THEN Wake([th EXCEPT ![t] = Idle], "tones", NoChan)
                   ELSE [th EXCEPT ![t] = Idle],
             tx' = IF memory THEN [tx EXCEPT ![th[t].f] = tx[th[t].f] + 1] ELSE tx
      PROVE  BdInv'
  <2>1. played' \in Nat /\ prog' \in Programs \cup {<<>>}
    <3>1. Total(p) \in Nat /\ BufLen \in Nat
      BY TotalAssumption, BchanDevAssumption
    <3> QED
      BY <1>5, <3>1
  <2>2. tx' \in [Chan -> 0..(QMax + 1)]
    <3>1. PICK c \in Chan : c = th[t].f
      BY <1>2
    <3>2. tx[c] \in 0..(QMax + 1) /\ tx[c] <= QMax
      BY <1>3, <1>5, <3>1
    <3>3. tx[c] + 1 \in 0..(QMax + 1)
      BY <1>3, <3>2
    <3>4. tx' = IF memory THEN [tx EXCEPT ![c] = tx[c] + 1] ELSE tx
      <4>1. tx' = IF memory THEN [tx EXCEPT ![th[t].f] = tx[th[t].f] + 1] ELSE tx
        BY <1>5, ZenonT(60)
      <4> QED
        BY <3>1, <4>1, Zenon
    <3> QED
      BY <1>3, <3>3, <3>4
  <2>3. /\ st' \subseteq Flags /\ \A g \in Flags \ {"TONE"} : g \in st => g \in st'
        /\ \A h \in {"FILE", "ISOPEN"} : h \in st' <=> h \in st
    BY <1>3, <1>5 DEF Flags
  <2> DEFINE T == [th EXCEPT ![t] = Idle]
  <2>4. T \in [Thread -> ThreadRec] /\ T[t] = Idle /\ \A u \in Thread \ {t} : T[u] = th[u]
    BY IdleType DEF BdInv
  <2> HIDE DEF T
  <2>5. th' = T \/ th' = Wake(T, "tones", NoChan)
    BY <1>5 DEF T
  <2>6. /\ th' \in [Thread -> ThreadRec]
        /\ \A u \in Thread : th'[u] = T[u] \/ th'[u] = [T[u] EXCEPT !.pc = "woken"]
    BY <2>4, <2>5, WakeFields
  <2>7. th'[t].op = "none" /\ th'[t].f = NoChan /\ th'[t].pc # "sleep"
    <3>1. th'[t] = Idle \/ th'[t] = [Idle EXCEPT !.pc = "woken"]
      BY <2>4, <2>6
    <3> QED
      BY <3>1 DEF Idle
  <2>8. CallFits(t)'
    BY <2>7 DEF CallFits, DataCalls, Closes
  <2>9. Fits(t)'
    BY <2>7, <2>8, AwakeFits
  <2>10. ASSUME NEW u \in Thread \ {t}
         PROVE  Fits(u)' /\ th'[u].op = th[u].op
    <3>1. Resting(u)
      BY <2>4, <2>6 DEF Resting
    <3>2. th[t].op \in DataCalls
      BY <1>2 DEF DataCalls
    <3>3. /\ th[u].op \in DataCalls => "FILE" \in st'
          /\ th[u].op \in Closes => "FILE" \notin st' /\ "ISOPEN" \in st'
          /\ th[u].pc = "sleep" =>
               /\ \A g \in Signs : Awaits(u, g) => g \in st'
               /\ th[u].on = "rx" /\ Current(u) => rx'[th[u].f] = 0
      BY <1>1, <2>3, <3>2, WriteOthers
    <3> QED
      BY <1>1, <3>1, <3>3, RestingFits, RestingFields
  <2>11. BdTypeOK'
    BY <1>1, <1>3, <2>1, <2>2, <2>3, <2>6, TypeKept
  <2>12. OneCloses'
    BY <2>7, <2>10 DEF BdInv, OneCloses, Closes
  <2> QED
    BY <1>1, <2>3, <2>6, <2>9, <2>10, <2>11, <2>12 DEF BdInv, Quiet
<1>6. CASE /\ tx[th[t].f] <= QMax
           /\ \E p \in Programs, memory \in BOOLEAN :
                LET ends == memory /\ BufLen > Total(p)
                    T == [th EXCEPT ![t] = Idle] IN
                /\ prog' = p
                /\ played' = IF ~memory THEN 0 ELSE IF ends THEN Total(p) ELSE BufLen
                /\ st' = IF ends THEN st \ {"TONE"} ELSE st \cup {"TONE"}
                /\ th' = IF ends THEN Wake(T, "tones", NoChan) ELSE T
                /\ tx' = IF memory THEN [tx EXCEPT ![th[t].f] = @ + 1] ELSE tx
  <2>1. PICK p \in Programs, memory \in BOOLEAN :
                LET ends == memory /\ BufLen > Total(p)
                    T == [th EXCEPT ![t] = Idle] IN
                /\ prog' = p
                /\ played' = IF ~memory THEN 0 ELSE IF ends THEN Total(p) ELSE BufLen
                /\ st' = IF ends THEN st \ {"TONE"} ELSE st \cup {"TONE"}
                /\ th' = IF ends THEN Wake(T, "tones", NoChan) ELSE T
                /\ tx' = IF memory THEN [tx EXCEPT ![th[t].f] = @ + 1] ELSE tx
    BY <1>6
  <2>2. PICK ends \in BOOLEAN : ends = (memory /\ BufLen > Total(p))
    OBVIOUS
  <2> QED
    BY <1>5, <1>6, <2>1, <2>2
<1> QED
  BY <1>4, <1>6 DEF Tones


-----------------------------------------------------------------------------
(* i4b_setup_driver *)

\* Nobody is current after the refcount of c has grown, if nobody but the users of c was.
LEMMA NobodyCurrent ==
  ASSUME BdInv, NEW c \in Chan, NEW n \in {1, 2}, ref' = [ref EXCEPT ![c] = ref[c] + n],
         NEW u \in Thread, th[u].f # NoChan, th'[u].f = th[u].f, th'[u].ref = th[u].ref
  PROVE  /\ th'[u].ref <= ref'[th'[u].f]
         /\ Current(u)' => Current(u) /\ th[u].f # c
<1>1. RefFits(u) /\ th[u].f \in Chan /\ th[u].ref \in 0..RefMax
  BY DEF BdInv, Fits, ThreadRec
<1>2. ref \in [Chan -> 0..RefMax] /\ RefMax \in Nat
  BY BchanDevAssumption DEF BdInv, BdTypeOK
<1>3. th[u].ref <= ref[th[u].f]
  BY <1>1 DEF RefFits
<1>4. CASE th[u].f = c
  <2>1. ref'[th'[u].f] = ref[c] + n
    BY <1>2, <1>4
  <2>2. ref[c] \in Nat /\ th[u].ref \in Nat /\ th[u].ref <= ref[c]
    BY <1>1, <1>2, <1>3, <1>4
  <2>3. th[u].ref < ref[c] + n
    BY <2>2
  <2>4. th'[u].ref \in Nat /\ th'[u].ref < ref'[th'[u].f] /\ ref'[th'[u].f] \in Nat
    BY <2>1, <2>2, <2>3
  <2>5. th'[u].ref # ref'[th'[u].f]
    BY <2>4, LessDiffers
  <2>6. ~Current(u)'
    BY <2>5 DEF Current
  <2> QED
    BY <2>4, <2>6
<1>5. CASE th[u].f # c
  <2>1. ref'[th'[u].f] = ref[th[u].f]
    BY <1>1, <1>2, <1>5
  <2> QED
    BY <1>3, <1>5, <2>1 DEF Current
<1> QED
  BY <1>4, <1>5

\* tel_setup_ft for a disconnection: no one sleeps on for what the call was to bring.
LEMMA UnsetWakes ==
  ASSUME NEW T \in [Thread -> ThreadRec], NEW c \in Chan, Unset(T, c)
  PROVE  /\ th' \in [Thread -> ThreadRec]
         /\ \A u \in Thread : th'[u] = T[u] \/ th'[u] = [T[u] EXCEPT !.pc = "woken"]
         /\ kind = "tel" => \A u \in Thread : th'[u].pc = "sleep" =>
              /\ ~("RDWAIT" \in st /\ T[u].on = "rx" /\ T[u].f = c)
              /\ ~("WRWAIT" \in st /\ T[u].on = "tx" /\ T[u].f = c)
              /\ ~("TONE" \in st /\ T[u].on = "tones")
<1>1. CASE kind # "tel"
  BY <1>1 DEF Unset
<1>2. CASE kind = "tel"
  <2> DEFINE R == IF "RDWAIT" \in st THEN Wake(T, "rx", c) ELSE T
             W == IF "WRWAIT" \in st THEN Wake(R, "tx", c) ELSE R
             After(X, Y) == X \in [Thread -> ThreadRec] /\ \A u \in Thread :
                              X[u] = Y[u] \/ X[u] = [Y[u] EXCEPT !.pc = "woken"]
             Same(X, Y) == \A u \in Thread :
                             /\ X[u].f = Y[u].f /\ X[u].on = Y[u].on
                             /\ X[u].pc = "sleep" => Y[u].pc = "sleep"
  <2>1. After(R, T)
    BY WakeFields
  <2>2. "RDWAIT" \in st => \A u \in Thread : T[u].on = "rx" /\ T[u].f = c => R[u].pc # "sleep"
    BY WakeReaches
  <2> HIDE DEF R
  <2>3. After(W, R)
    BY <2>1, WakeFields
  <2>4. "WRWAIT" \in st => \A u \in Thread : R[u].on = "tx" /\ R[u].f = c => W[u].pc # "sleep"
    BY <2>1, WakeReaches
  <2>5. th' = IF "TONE" \in st THEN Wake(W, "tones", NoChan) ELSE W
    BY <1>2 DEF Unset, R
  <2> HIDE DEF W
  <2>6. After(th', W)
    BY <2>3, <2>5, WakeFields
  <2>7. "TONE" \in st => \A u \in Thread : W[u].on = "tones" => th'[u].pc # "sleep"
    BY <2>3, <2>5, WakeReaches
  <2>8. ASSUME NEW X, NEW Y \in [Thread -> ThreadRec], After(X, Y)
        PROVE  Same(X, Y)
    BY <2>8 DEF ThreadRec
  <2>9. Same(R, T) /\ Same(W, R) /\ Same(th', W)
    <3>1. R \in [Thread -> ThreadRec] /\ W \in [Thread -> ThreadRec]
      BY <2>1, <2>3
    <3> HIDE DEF Same, After
    <3> QED
      BY <2>1, <2>3, <2>6, <2>8, <3>1, ZenonT(30)
  <2>10. After(th', T)
    <3>1. ASSUME NEW X \in [Thread -> ThreadRec], NEW Y \in [Thread -> ThreadRec],
                 NEW Z \in [Thread -> ThreadRec], After(X, Y), After(Y, Z)
          PROVE  After(X, Z)
      BY <3>1 DEF ThreadRec
    <3> HIDE DEF After
    <3>2. After(W, T)
      BY <2>1, <2>3, <3>1 DEF After
    <3> QED
      BY <2>3, <2>6, <3>1, <3>2 DEF After
  <2> QED
    BY <2>2, <2>4, <2>7, <2>9, <2>10
<1> QED
  BY <1>1, <1>2


\* The unit changes its translator: a thread that knows one finds that it is out of date.
LEMMA Estranged ==
  ASSUME BdInv, NEW u \in Thread, Resting(u), kind' = kind,
         "FILE" \in st' <=> "FILE" \in st, "ISOPEN" \in st' <=> "ISOPEN" \in st,
         \A g \in {"RDWAIT_STATUS", "NO_STATUS"} : g \in st => g \in st',
         th[u].f # NoChan => th'[u].ref <= ref'[th'[u].f] /\ ~Current(u)',
         th'[u].pc = "sleep" =>
           /\ th[u].on = "unit" => ft' = NoChan
           /\ kind = "tel" => th[u].op \notin {"read", "write", "close"}
  PROVE  Fits(u)'
<1>1. /\ th'[u].op = th[u].op /\ th'[u].f = th[u].f /\ th'[u].ref = th[u].ref
      /\ th'[u].on = th[u].on
      /\ th'[u].pc = "sleep" => th[u].pc = "sleep"
  BY RestingFields
<1>2. Fits(u)
  BY DEF BdInv
<1>3. RefFits(u)'
  BY <1>1 DEF RefFits
<1>4. CallFits(u)'
  BY <1>1, CallKept
<1>5. ASSUME th'[u].pc = "sleep"
      PROVE  SleepFits(u)'
  <2>1. SleepFits(u)
    BY <1>1, <1>2, <1>5 DEF Fits
  <2>2. th[u].on \in {"rx", "tx", "tones"} => ~Current(u)'
    BY <2>1 DEF SleepFits
  <2>3. \A g \in {"RDWAIT_STATUS", "NO_STATUS"} : th[u].on = "status" => g \in st'
    BY <2>1 DEF SleepFits, Awaits, Signs
  <2>4. \A g \in Signs : Awaits(u, g)' => g \in st'
    BY <1>1, <2>2, <2>3 DEF Awaits
  <2> QED
    BY <1>1, <1>5, <2>1, <2>2, <2>4 DEF SleepFits
<1> QED
  BY <1>3, <1>4, <1>5 DEF Fits

LEMMA SetupType ==
  ASSUME BdInv, NEW c \in Chan, NEW n \in {1, 2}, ref' = [ref EXCEPT ![c] = ref[c] + n],
         ref[c] + n <= RefMax, Drained(c), th' \in [Thread -> ThreadRec],
         user' \in [Chan -> {"none", "unit", "other"}], ft' \in Chan \cup {NoChan},
         st' \subseteq Flags, UNCHANGED <<kind, uses, prog, played>>
  PROVE  BdTypeOK'
<1>1. \A t \in Thread :
        /\ th'[t].op \in DataCalls \cup {"none", "close", "closed", "dread"}
        /\ th'[t].pc \in {"idle", "access", "change", "sleep", "woken", "spin"}
        /\ th'[t].f \in Chan \cup {NoChan} /\ th'[t].ref \in 0..RefMax
        /\ th'[t].on \in Idents
  BY DEF ThreadRec
<1>2. ref' \in [Chan -> 0..RefMax]
  <2>1. ref \in [Chan -> 0..RefMax] /\ RefMax \in Nat
    BY BchanDevAssumption DEF BdInv, BdTypeOK
  <2>2. ref[c] + n \in 0..RefMax
    BY <2>1
  <2> QED
    BY <2>1, <2>2
<1>3. rx' \in [Chan -> 0..QMax] /\ tx' \in [Chan -> 0..(QMax + 1)]
  <2>1. 0 \in 0..QMax /\ 0 \in 0..(QMax + 1)
    BY BchanDevAssumption
  <2> QED
    BY <2>1, NumberTypes DEF Drained
<1> QED
  BY <1>1, <1>2, <1>3 DEF BdInv, BdTypeOK

\* The flags that tel_setup_ft changes
LEMMA UnsetFlags ==
  ASSUME BdInv, NEW T, NEW c, Unset(T, c)
  PROVE  /\ st' \subseteq Flags
         /\ \A g \in Flags \ {"RDWAIT", "WRWAIT", "TONE"} : g \in st' <=> g \in st
BY DEF BdInv, BdTypeOK, Unset

LEMMA DisconnectStep ==
  ASSUME BdInv, NEW c \in Chan, Disconnect(c)
  PROVE  BdInv'
<1>1. /\ ft = c /\ ft' = NoChan /\ Unset(th, c) /\ Drained(c)
      /\ ref' = [ref EXCEPT ![c] = ref[c] + 1] /\ user' = [user EXCEPT ![c] = "none"]
      /\ UNCHANGED <<kind, uses, prog, played>>
  BY DEF Disconnect
<1>2. th \in [Thread -> ThreadRec]
  BY DEF BdInv
<1>3. /\ th' \in [Thread -> ThreadRec] /\ \A u \in Thread : Resting(u)
      /\ kind = "tel" => \A u \in Thread : th'[u].pc = "sleep" =>
           /\ ~("RDWAIT" \in st /\ th[u].on = "rx" /\ th[u].f = c)
           /\ ~("WRWAIT" \in st /\ th[u].on = "tx" /\ th[u].f = c)
           /\ ~("TONE" \in st /\ th[u].on = "tones")
  BY <1>1, <1>2, UnsetWakes DEF Resting
<1>4. /\ st' \subseteq Flags
      /\ \A g \in Flags \ {"RDWAIT", "WRWAIT", "TONE"} : g \in st' <=> g \in st
  BY <1>1, UnsetFlags
<1>5. BdTypeOK'
  <2>1. user' \in [Chan -> {"none", "unit", "other"}]
    BY <1>1 DEF BdInv, BdTypeOK
  <2>2. ref[c] + 1 <= RefMax
    <3>1. ref[c] \in 0..RefMax /\ RefMax \in Nat /\ ref[c] < RefMax
      BY BchanDevAssumption DEF BdInv, BdTypeOK, Disconnect
    <3> QED
      BY <3>1
  <2> QED
    BY <1>1, <1>3, <1>4, <2>1, <2>2, SetupType
<1>6. ASSUME NEW u \in Thread
      PROVE  Fits(u)'
  <2>1. th[u].f # NoChan => th'[u].ref <= ref'[th'[u].f] /\ ~Current(u)'
    <3>1. ASSUME th[u].f # NoChan
          PROVE  th'[u].ref <= ref'[th'[u].f] /\ (Current(u)' => Current(u) /\ th[u].f # c)
      BY <1>1, <1>3, <3>1, RestingFields, NobodyCurrent
    <3> QED
      BY <1>1, <3>1, CurrentIsUnit
  <2>2. ASSUME kind = "tel", th'[u].pc = "sleep", th[u].op \in {"read", "write", "close"}
        PROVE  FALSE
    <3>1. th[u].pc = "sleep" /\ SleepFits(u)
      BY <1>3, <2>2, RestingFields DEF BdInv, Fits
    <3>2. Current(u) /\ th[u].on \in {"rx", "tx", "tones"} /\ th[u].f # NoChan
      BY <2>2, <3>1 DEF SleepFits
    <3>3. th[u].f = c
      BY <1>1, <3>2, CurrentIsUnit
    <3>4. /\ th[u].on = "rx" => "RDWAIT" \in st
          /\ th[u].on = "tx" => "WRWAIT" \in st
          /\ th[u].on = "tones" /\ th[u].op = "close" => "TONE" \in st
      BY <3>1, <3>2, SleeperKnown DEF Awaits, Signs
    <3>5. th[u].on = "tones" => th[u].op = "close"
      BY <2>2, <3>1 DEF SleepFits
    <3> QED
      BY <1>3, <2>2, <3>2, <3>3, <3>4, <3>5
  <2> QED
    BY <1>1, <1>3, <1>4, <2>1, <2>2, Estranged DEF Flags
<1>7. OneCloses'
  BY <1>3, RestingFields DEF BdInv, OneCloses
<1>8. \A d \in Chan : user'[d] = "unit" <=> ft' = d
  BY <1>1, BchanDevAssumption DEF BdInv, BdTypeOK
<1> QED
  BY <1>3, <1>4, <1>5, <1>6, <1>7, <1>8 DEF BdInv, Flags


\* A unit that is not connected is set up: nobody was current, and nobody is.
LEMMA ConnectFits ==
  ASSUME BdInv, NEW c \in Chan, NEW n \in {1, 2}, ref' = [ref EXCEPT ![c] = ref[c] + n],
         ft = NoChan, kind' = kind, NEW u \in Thread, Resting(u),
         \A g \in Flags \ {"RDWAIT", "WRWAIT", "TONE"} : g \in st' <=> g \in st,
         th'[u].pc = "sleep" /\ th[u].on = "unit" => ft' = NoChan
  PROVE  Fits(u)'
<1>1. th[u].f # NoChan => ~Current(u)
  BY CurrentIsUnit
<1>2. th[u].f # NoChan => th'[u].ref <= ref'[th'[u].f] /\ ~Current(u)'
  BY <1>1, RestingFields, NobodyCurrent
<1>3. ASSUME kind = "tel", th'[u].pc = "sleep", th[u].op \in {"read", "write", "close"}
      PROVE  FALSE
  <2>1. th[u].pc = "sleep" /\ SleepFits(u)
    BY <1>3, RestingFields DEF BdInv, Fits
  <2> QED
    BY <1>1, <1>3, <2>1 DEF SleepFits
<1> QED
  BY <1>2, <1>3, Estranged DEF Flags

LEMMA ConnectStep ==
  ASSUME BdInv, NEW c \in Chan, NEW accepted \in BOOLEAN, Connect(c, accepted)
  PROVE  BdInv'
<1> DEFINE T == IF kind = "rbch" THEN Wake(th, "unit", NoChan) ELSE th
<1>1. ft = NoChan /\ user[c] = "none" /\ Drained(c) /\ UNCHANGED <<kind, uses, prog, played>>
  BY DEF Connect
<1>2. th \in [Thread -> ThreadRec] /\ ref[c] \in 0..RefMax /\ RefMax \in Nat
  BY BchanDevAssumption DEF BdInv, BdTypeOK
<1>3. /\ T \in [Thread -> ThreadRec]
      /\ \A u \in Thread : T[u] = th[u] \/ T[u] = [th[u] EXCEPT !.pc = "woken"]
  BY <1>2, WakeFields
<1>4. ASSUME NEW u \in Thread, th[u].on = "unit"
      PROVE  T[u].pc # "sleep"
  <2>1. CASE kind = "rbch"
    BY <1>2, <1>4, <2>1, WakeReaches
  <2>2. CASE kind # "rbch"
    BY <1>4, <2>2 DEF BdInv, Fits, SleepFits
  <2> QED
    BY <2>1, <2>2
<1>5. CASE accepted /\ "BRIDGE" \notin st
  <2>1. /\ ref[c] < RefMax /\ ref' = [ref EXCEPT ![c] = ref[c] + 1] /\ ft' = c
        /\ user' = [user EXCEPT ![c] = "unit"] /\ th' = T /\ st' = st
    BY <1>5 DEF Connect
  <2> HIDE DEF T
  <2>2. \A u \in Thread : Resting(u)
    BY <1>3, <2>1 DEF Resting
  <2>3. \A u \in Thread : Fits(u)'
    BY <1>1, <1>4, <2>1, <2>2, ConnectFits
  <2>4. BdTypeOK'
    <3>1. user' \in [Chan -> {"none", "unit", "other"}] /\ st' \subseteq Flags
      BY <2>1 DEF BdInv, BdTypeOK
    <3>2. ref[c] + 1 <= RefMax
      BY <1>2, <2>1
    <3> QED
      BY <1>1, <1>3, <2>1, <3>1, <3>2, SetupType
  <2>5. OneCloses'
    BY <2>2, RestingFields DEF BdInv, OneCloses
  <2>6. \A d \in Chan : user'[d] = "unit" <=> ft' = d
    BY <1>1, <2>1, BchanDevAssumption DEF BdInv, BdTypeOK
  <2> QED
    BY <1>3, <2>1, <2>3, <2>4, <2>5, <2>6 DEF BdInv
<1>6. CASE ~(accepted /\ "BRIDGE" \notin st)
  <2>1. /\ ref[c] + 1 < RefMax /\ ref' = [ref EXCEPT ![c] = ref[c] + 2] /\ Unset(T, c)
        /\ UNCHANGED <<ft, user>>
    BY <1>6 DEF Connect
  <2> HIDE DEF T
  <2>2. /\ th' \in [Thread -> ThreadRec]
        /\ \A u \in Thread : th'[u] = T[u] \/ th'[u] = [T[u] EXCEPT !.pc = "woken"]
    BY <1>3, <2>1, UnsetWakes
  <2>3. ASSUME NEW u \in Thread
        PROVE  Resting(u)
    <3>1. [[th[u] EXCEPT !.pc = "woken"] EXCEPT !.pc = "woken"] = [th[u] EXCEPT !.pc = "woken"]
      BY <1>2 DEF ThreadRec
    <3> QED
      BY <1>3, <2>2, <3>1 DEF Resting
  <2>4. /\ st' \subseteq Flags
        /\ \A g \in Flags \ {"RDWAIT", "WRWAIT", "TONE"} : g \in st' <=> g \in st
    BY <2>1, UnsetFlags
  <2>5. \A u \in Thread : Fits(u)'
    BY <1>1, <2>1, <2>3, <2>4, ConnectFits
  <2>6. BdTypeOK'
    <3>1. user' \in [Chan -> {"none", "unit", "other"}] /\ ft' \in Chan \cup {NoChan}
      BY <2>1 DEF BdInv, BdTypeOK
    <3>2. ref[c] + 2 <= RefMax
      BY <1>2, <2>1
    <3> QED
      BY <1>1, <2>1, <2>2, <2>4, <3>1, <3>2, SetupType
  <2>7. OneCloses'
    BY <2>3, RestingFields DEF BdInv, OneCloses
  <2> QED
    BY <2>1, <2>2, <2>4, <2>5, <2>6, <2>7 DEF BdInv, Flags
<1> QED
  BY <1>5, <1>6

LEMMA OtherSetupStep ==
  ASSUME BdInv, NEW c \in Chan, OtherSetup(c)
  PROVE  BdInv'
<1>1. /\ user[c] # "unit" /\ Drained(c) /\ ref[c] < RefMax
      /\ ref' = [ref EXCEPT ![c] = ref[c] + 1]
      /\ user' = [user EXCEPT ![c] = IF user[c] = "none" THEN "other" ELSE "none"]
      /\ UNCHANGED <<kind, uses, ft, st, prog, played, th>>
  BY DEF OtherSetup
<1>2. ft # c /\ th \in [Thread -> ThreadRec]
  BY <1>1 DEF BdInv
<1>3. ASSUME NEW u \in Thread
      PROVE  Fits(u)'
  <2>1. Fits(u)
    BY DEF BdInv
  <2>2. th[u].f # NoChan =>
          th[u].ref <= ref'[th[u].f] /\ (Current(u)' => Current(u) /\ th[u].f # c)
    BY <1>1, NobodyCurrent
  <2>3. RefFits(u)'
    BY <1>1, <2>1, <2>2 DEF Fits, RefFits
  <2>4. CallFits(u)'
    BY <1>1, <2>1 DEF Fits, CallFits
  <2>5. ASSUME th[u].pc = "sleep"
        PROVE  SleepFits(u)'
    <3>1. SleepFits(u)
      BY <2>1, <2>5 DEF Fits
    <3>2. th[u].on \in {"rx", "tx", "tones"} /\ Current(u)' => Current(u) /\ th[u].f # c
      BY <2>2, <3>1 DEF SleepFits
    <3>3. \A g \in Signs : Awaits(u, g)' => g \in st'
      BY <1>1, <3>1, <3>2 DEF SleepFits, Awaits
    <3>4. ASSUME th[u].on = "rx", Current(u)'
          PROVE  rx'[th[u].f] = 0
      <4>1. th[u].f \in Chan /\ th[u].f # c /\ rx[th[u].f] = 0
        BY <2>5, <3>1, <3>2, <3>4, SleeperHasChan DEF SleepFits
      <4> QED
        BY <1>1, <4>1, NumberTypes DEF Drained
    <3>5. ASSUME kind = "tel", th[u].op \in {"read", "write", "close"}
          PROVE  Current(u)'
      <4>1. Current(u) /\ th[u].on \in {"rx", "tx", "tones"} /\ th[u].f # NoChan
        BY <3>1, <3>5 DEF SleepFits
      <4>2. th[u].f # c /\ th[u].f \in Chan
        BY <1>2, <4>1, CurrentIsUnit DEF ThreadRec
      <4>3. ref'[th[u].f] = ref[th[u].f]
        BY <1>1, <4>2 DEF BdInv, BdTypeOK
      <4> QED
        BY <1>1, <4>1, <4>3 DEF Current
    <3> QED
      BY <1>1, <3>1, <3>3, <3>4, <3>5 DEF SleepFits
  <2> QED
    BY <1>1, <2>3, <2>4, <2>5 DEF Fits
<1>4. BdTypeOK'
  <2>1. user' \in [Chan -> {"none", "unit", "other"}] /\ st' \subseteq Flags
    BY <1>1 DEF BdInv, BdTypeOK
  <2>2. ref[c] + 1 <= RefMax
    <3>1. ref[c] \in 0..RefMax /\ RefMax \in Nat
      BY BchanDevAssumption DEF BdInv, BdTypeOK
    <3> QED
      BY <1>1, <3>1
  <2>3. ft' \in Chan \cup {NoChan}
    BY <1>1 DEF BdInv, BdTypeOK
  <2> QED
    BY <1>1, <1>2, <2>1, <2>2, <2>3, SetupType
<1>5. OneCloses'
  BY <1>1 DEF BdInv, OneCloses
<1>6. \A d \in Chan : user'[d] = "unit" <=> ft' = d
  BY <1>1 DEF BdInv, BdTypeOK
<1> QED
  BY <1>1, <1>2, <1>3, <1>4, <1>5, <1>6 DEF BdInv


-----------------------------------------------------------------------------
LEMMA BdCallStep ==
  ASSUME BdInv, NEW t \in Thread, Returns(t) \/ Signal(t)
  PROVE  BdInv'
BY AccessStep, ReaccessStep, ReadCallStep, WriteCallStep, CloseWaitCallStep,
   CloseNotConnectedStep, CloseDoneStep, TonesStep, StatusReadStep, DataNotConnectedStep,
   SignalStep
DEF Returns

LEMMA BdFlagStep ==
  ASSUME BdInv, SetSoundBridge \/ StatusClose \/ \E on \in BOOLEAN : SetNonBlocking(on)
  PROVE  BdInv'
<1>1. CASE SetSoundBridge
  BY <1>1, FlagStep DEF SetSoundBridge
<1>2. CASE StatusClose
  BY <1>2, FlagStep DEF StatusClose
<1>3. ASSUME NEW on \in BOOLEAN, SetNonBlocking(on)
      PROVE  BdInv'
  BY <1>3, FlagStep DEF SetNonBlocking
<1> QED
  BY <1>1, <1>2, <1>3

LEMMA BdNextStep ==
  ASSUME BdInv, BdNext
  PROVE  BdInv'
<1>1. ASSUME NEW t \in Thread, NEW op \in Calls, Call(t, op)
      PROVE  BdInv'
  BY <1>1, CallStep
<1>2. ASSUME NEW t \in Thread, Returns(t) \/ Signal(t)
      PROVE  BdInv'
  BY <1>2, BdCallStep
<1>3. CASE SetSoundBridge \/ StatusClose \/ \E on \in BOOLEAN : SetNonBlocking(on)
  BY <1>3, BdFlagStep
<1>4. CASE Open \/ EmptyInputQueue \/ StatusOpen \/ Response
  BY <1>4, OpenStep, EmptyStep, StatusOpenStep, ResponseStep
<1>5. ASSUME NEW c \in Chan,
             PutMbuf(c) \/ GetMbuf(c) \/ Disconnect(c) \/ OtherSetup(c) \/ OtherWakes(c)
      PROVE  BdInv'
  BY <1>5, PutMbufStep, GetMbufStep, DisconnectStep, OtherSetupStep, OtherWakesStep
<1>6. ASSUME NEW c \in Chan, NEW accepted \in BOOLEAN, Connect(c, accepted)
      PROVE  BdInv'
  BY <1>6, ConnectStep
<1> QED
  BY <1>1, <1>2, <1>3, <1>4, <1>5, <1>6 DEF BdNext

LEMMA BdStutter ==
  ASSUME BdInv, UNCHANGED bdVars
  PROVE  BdInv'
<1>1. UNCHANGED <<kind, uses, ft, user, ref, rx, tx, st, prog, played, th>>
  BY DEF bdVars
<1>2. BdTypeOK'
  BY <1>1 DEF BdInv, BdTypeOK
<1>3. \A u \in Thread : Fits(u)'
  BY <1>1 DEF BdInv, Fits, RefFits, CallFits, SleepFits, Awaits, Current
<1>4. OneCloses'
  BY <1>1 DEF BdInv, OneCloses
<1> QED
  BY <1>1, <1>2, <1>3, <1>4 DEF BdInv

\* The invariant of a unit of driver/i4b_tel.c or driver/i4b_rbch.c: every thread inside a
\* system call agrees with the flags of the unit and the refcounts of the translators.
THEOREM BdInvariance == BdSpec => []BdInv
<1>1. BdInit => BdInv
  BY BdInitially
<1>2. BdInv /\ [BdNext]_bdVars => BdInv'
  BY BdNextStep, BdStutter
<1> QED
  BY <1>1, <1>2, PTL DEF BdSpec

LEMMA BdGuards ==
  ASSUME BdInv
  PROVE  RefcountGuards
<1>1. ASSUME NEW t \in Thread, th[t].f # NoChan, Current(t)
      PROVE  ft = th[t].f /\ user[th[t].f] = "unit"
  <2>1. ft = th[t].f /\ th[t].f \in Chan
    BY <1>1, CurrentIsUnit DEF BdInv, ThreadRec
  <2> QED
    BY <2>1 DEF BdInv
<1> QED
  BY <1>1 DEF RefcountGuards, BdInv

\* FIFO_TRANSLATOR_ACCESS and the refcount are enough: a thread that finds the refcount as
\* it left it, after a change of locks or a sleep, works on the translator its unit is
\* connected to, whatever calls ended and began meanwhile.
THEOREM RefcountAlwaysGuards == BdSpec => []RefcountGuards
<1>1. BdInv => RefcountGuards
  BY BdGuards
<1> QED
  BY <1>1, BdInvariance, PTL

LEMMA BdWakes ==
  ASSUME BdInv
  PROVE  NoMissedWakeup /\ DisconnectWakes
<1>1. ASSUME NEW t \in Thread, th[t].pc = "sleep"
      PROVE  /\ th[t].on = "rx" /\ Current(t) => "RDWAIT" \in st /\ rx[th[t].f] = 0
             /\ th[t].on = "tx" /\ Current(t) => "WRWAIT" \in st
             /\ th[t].on = "status" => {"RDWAIT_STATUS", "NO_STATUS"} \subseteq st
             /\ th[t].on = "unit" => ft = NoChan
             /\ kind = "tel" /\ th[t].op \in {"read", "write", "close"} => Current(t)
  <2>1. SleepFits(t)
    BY <1>1 DEF BdInv, Fits
  <2>2. \A g \in Signs : Awaits(t, g) => g \in st
    BY <2>1 DEF SleepFits
  <2>3. /\ th[t].on = "rx" /\ Current(t) => "RDWAIT" \in st
        /\ th[t].on = "tx" /\ Current(t) => "WRWAIT" \in st
        /\ th[t].on = "status" => {"RDWAIT_STATUS", "NO_STATUS"} \subseteq st
    BY <2>2 DEF Awaits, Signs
  <2> QED
    BY <2>1, <2>3 DEF SleepFits
<1> QED
  BY <1>1 DEF NoMissedWakeup, DisconnectWakes

\* Nobody sleeps on a device for what has already happened: the flag that the interrupt,
\* the daemon or the closing thread looks at is on as long as somebody sleeps for it, and
\* tel_setup_ft wakes every read, write and close of a telephone whose call ends.
THEOREM WakeupsAlwaysArrive == BdSpec /\ CdSpec => []WakeupsArrive
<1>1. BdInv /\ CdInv => WakeupsArrive
  BY BdWakes, NobodyInVain DEF WakeupsArrive
<1> QED
  BY <1>1, BdInvariance, CdInvariance, PTL

=============================================================================
