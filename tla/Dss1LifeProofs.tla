--------------------------- MODULE Dss1LifeProofs ---------------------------
(***************************************************************************)
(* Proofs about the life of a call in Dss1Call, for every number of        *)
(* descriptors, channels, pipes and drivers: its timer, what it owes the   *)
(* other end, its channel, and that no message reaches the wrong call.     *)
(*                                                                         *)
(* "Alive" is what every descriptor in use satisfies.  The first part      *)
(* shows that each event of cd_update turns an alive descriptor into one   *)
(* that is alive and has the same identity, or releases it; the second     *)
(* part draws the conclusions for the controller.  The types and the       *)
(* accounts come from Dss1CallProofs.                                      *)
(***************************************************************************)
EXTENDS Dss1CallProofs

\* The time that the provers may take for a step
USE ZenonT(3), SMTT(20), ZenonT(60)

-----------------------------------------------------------------------------
OutStates == {"OUTGOING", "U1", "U2", "U2_ACK", "U3", "U3_TO", "U4", "U4_TO"}
InStates  == {"INCOMING", "IN_ACK", "U6", "U6_TO", "U7", "U7_TO", "U8"}
Answered  == {"IN_ACK", "U6", "U6_TO", "U7", "U7_TO", "U8", "UA", "UA_TO"}

\* The other end has heard of the call.
Owing(d, st) == \/ ~d.incoming /\ st \in OutStates \ {"OUTGOING"}
                \/ st \in {"U8", "UA", "UA_TO"}

\* The descriptor may be in state st.
Suits(d, st) ==
  /\ st # "U0"
  /\ d.incoming => st \notin OutStates
  /\ ~d.incoming => st \notin InStates
  /\ Owing(d, st) => d.need_release
  /\ NtMode /\ st \in Answered => d.hold \/ d.alloc

\* The call reference tells who chose it.
Named(d) ==
  /\ d.cdid # CDID_UNUSED
  /\ d.incoming => d.cr \in IncomingCRs /\ d.pipe \in RxPipes
  /\ ~d.incoming => d.cr = d.cdid

Alive(d) == d \in Descriptors /\ Named(d) /\ d.timer /\ Suits(d, d.state)

\* e is what has become of d, by steps that keep the channel, or free it.
Identity(d, e) ==
  /\ e.cdid = d.cdid /\ e.cr = d.cr /\ e.incoming = d.incoming
  /\ d.incoming => e.pipe = d.pipe

ChannelKept(d, e) == d.alloc /\ e.alloc => e.chan = d.chan

Lives(d, e) == Alive(e) /\ Identity(d, e) /\ ChannelKept(d, e)

Ends(d, e) == e = UnusedCd \/ Lives(d, e)

\* Nothing but the channel, the driver, counters and flags changed: a channel
\* is only added.
Stays(d, e) ==
  /\ e \in Descriptors
  /\ e.cdid = d.cdid /\ e.cr = d.cr /\ e.incoming = d.incoming /\ e.pipe = d.pipe
  /\ e.state = d.state /\ e.hold = d.hold /\ e.timer = d.timer
  /\ d.need_release => e.need_release
  /\ d.alloc => e.alloc /\ e.chan = d.chan

\* What a handler keeps until it changes "hold" or ends the call.
Keeps(d, e) ==
  /\ e \in Descriptors /\ Identity(d, e) /\ e.hold = d.hold
  /\ d.need_release => e.need_release
  /\ d.alloc => e.alloc /\ e.chan = d.chan

Grows(d, s) == s \in Contexts /\ Keeps(d, s.d)

-----------------------------------------------------------------------------
(* States. *)

\* The order of L3_STATES, as the handlers and the release rule compare it.
LEMMA Orders ==
  \A st \in States :
    /\ Between("OUTGOING", st, "INCOMING") <=> st \in OutStates \ {"OUTGOING"}
    /\ Between("OUTGOING", st, "U3") <=> st \in {"U1", "U2", "U2_ACK"}
    /\ Between("OUTGOING", st, "U4") <=> st \in {"U1", "U2", "U2_ACK", "U3", "U3_TO"}
    /\ Between("OUTGOING", st, "UA") <=>
         st \in (OutStates \cup InStates) \ {"OUTGOING"}
    /\ Between("INCOMING", st, "U6") <=> st = "IN_ACK"
    /\ Between("INCOMING", st, "U7") <=> st \in {"IN_ACK", "U6", "U6_TO"}
    /\ Between("INCOMING", st, "U8") <=> st \in InStates \ {"INCOMING", "U8"}
    /\ Between("U7_TO", st, "UC") <=> st \in {"U8", "UA", "UA_TO"}
<1> SUFFICES ASSUME NEW st \in States
    PROVE
    /\ Between("OUTGOING", st, "INCOMING") <=> st \in OutStates \ {"OUTGOING"}
    /\ Between("OUTGOING", st, "U3") <=> st \in {"U1", "U2", "U2_ACK"}
    /\ Between("OUTGOING", st, "U4") <=> st \in {"U1", "U2", "U2_ACK", "U3", "U3_TO"}
    /\ Between("OUTGOING", st, "UA") <=>
         st \in (OutStates \cup InStates) \ {"OUTGOING"}
    /\ Between("INCOMING", st, "U6") <=> st = "IN_ACK"
    /\ Between("INCOMING", st, "U7") <=> st \in {"IN_ACK", "U6", "U6_TO"}
    /\ Between("INCOMING", st, "U8") <=> st \in InStates \ {"INCOMING", "U8"}
    /\ Between("U7_TO", st, "UC") <=> st \in {"U8", "UA", "UA_TO"}
  OBVIOUS
<1>1. /\ No["U0"] = 0 /\ No["OUTGOING"] = 1 /\ No["U1"] = 2 /\ No["U2"] = 3
      /\ No["U2_ACK"] = 4 /\ No["U3"] = 5 /\ No["U3_TO"] = 6 /\ No["U4"] = 7
      /\ No["U4_TO"] = 8 /\ No["INCOMING"] = 9 /\ No["IN_ACK"] = 10
      /\ No["U6"] = 11 /\ No["U6_TO"] = 12 /\ No["U7"] = 13 /\ No["U7_TO"] = 14
      /\ No["U8"] = 15 /\ No["UA"] = 16 /\ No["UA_TO"] = 17 /\ No["UC"] = 18
      /\ No["UC_TO"] = 19
  BY DEF No
<1>2. st \in {"U0", "OUTGOING", "U1", "U2", "U2_ACK", "U3", "U3_TO", "U4",
              "U4_TO", "INCOMING", "IN_ACK", "U6", "U6_TO", "U7", "U7_TO", "U8",
              "UA", "UA_TO", "UC", "UC_TO"}
  BY StatesList
<1> QED
  BY <1>1, <1>2 DEF Between, OutStates, InStates

\* A state and the one that waits for its STATUS message suit the same calls.
LEMMA BeforeSuits ==
  ASSUME NEW d, NEW st \in ToStates
  PROVE  Suits(d, st) => Suits(d, Before(st))
<1>1. st \in {"U3_TO", "U4_TO", "U6_TO", "U7_TO", "UA_TO", "UC_TO"}
  BY DEF ToStates
<1> QED
  BY <1>1 DEF Suits, Owing, Before, OutStates, InStates, Answered

LEMMA TimeoutSuits ==
  ASSUME NEW d, NEW st \in States, Suits(d, st), TimeoutState(st) # "U0"
  PROVE  Suits(d, TimeoutState(st)) /\ TimeoutState(st) \in States
<1>1. st \in {"U3", "U4", "U6", "U7", "UA", "UC"}
  BY DEF TimeoutState
<1>2. TimeoutState(st) \in States
  BY TimeoutStates
<1> QED
  BY <1>1, <1>2 DEF Suits, Owing, TimeoutState, OutStates, InStates, Answered

-----------------------------------------------------------------------------
(* The primitives of CallDesc and their effect on the descriptor. *)

LEMMA StaysAlive ==
  ASSUME NEW d, NEW e, Alive(d), Stays(d, e)
  PROVE  Lives(d, e)
<1>1. d \in Descriptors /\ e \in Descriptors
  BY DEF Alive, Stays
<1>2. /\ d.alloc \in BOOLEAN /\ e.alloc \in BOOLEAN /\ d.need_release \in BOOLEAN
      /\ e.need_release \in BOOLEAN /\ d.hold \in BOOLEAN /\ d.incoming \in BOOLEAN
  BY <1>1 DEF Descriptors
<1>3. Named(e) /\ e.timer
  BY DEF Alive, Stays, Named
<1>4. Suits(e, e.state)
  BY <1>2 DEF Alive, Stays, Suits, Owing
<1> QED
  BY <1>1, <1>3, <1>4 DEF Alive, Lives, Stays, Identity, ChannelKept

LEMMA StaysChain ==
  ASSUME NEW d, NEW e, NEW f, Stays(d, e), Stays(e, f)
  PROVE  Stays(d, f)
BY DEF Stays

LEMMA LivesChain ==
  ASSUME NEW d, NEW e, NEW f, Stays(d, e), Lives(e, f)
  PROVE  Lives(d, f)
BY DEF Stays, Lives, Identity, ChannelKept

LEMMA StaysSame ==
  ASSUME NEW d \in Descriptors
  PROVE  Stays(d, d)
BY DEF Stays

\* cd_allocate_channel adds a channel or none, and never changes one.
LEMMA AllocateStays ==
  ASSUME NEW s \in Contexts
  PROVE  /\ Stays(s.d, AllocateChannel(s).d) /\ AllocateChannel(s) \in Contexts
<1>0. s.d \in Descriptors /\ s.util \in SUBSET Channels
  BY DEF Contexts
<1>1. ASSUME NEW ch \in Channels, ~s.d.alloc
      PROVE  Stays(s.d, Take(s, ch).d) /\ Take(s, ch) \in Contexts
  <2> DEFINE d == [s.d EXCEPT !.chan = ch, !.alloc = TRUE]
             t == [s EXCEPT !.d = d, !.util = s.util \cup {ch}]
  <2>1. Take(s, ch) = t
    BY Zenon DEF Take, Contexts, Descriptors
  <2>2. /\ d \in Descriptors
        /\ d.cdid = s.d.cdid /\ d.cr = s.d.cr /\ d.incoming = s.d.incoming
        /\ d.pipe = s.d.pipe /\ d.state = s.d.state /\ d.hold = s.d.hold
        /\ d.timer = s.d.timer /\ d.need_release = s.d.need_release
    BY Zenon, <1>0, ChannelTypes DEF Descriptors
  <2> HIDE DEF d
  <2>3. t \in Contexts /\ t.d = d
    BY ZenonT(60), <2>2 DEF Contexts
  <2> HIDE DEF t
  <2> QED
    BY <1>1, <2>1, <2>2, <2>3 DEF Stays
<1>2. CASE s.d.alloc
  BY <1>0, <1>2, StaysSame DEF AllocateChannel
<1>3. CASE ~s.d.alloc /\ s.d.chan \in Channels /\ s.d.chan \notin s.util
  <2>1. AllocateChannel(s) = Take(s, s.d.chan)
    BY <1>3 DEF AllocateChannel, Contexts, Descriptors, CHAN_NOT_ANY, Channels
  <2> QED
    BY <1>1, <1>3, <2>1
<1>4. CASE ~s.d.alloc /\ s.d.chan = CHAN_NOT_ANY
  <2> DEFINE d == [s.d EXCEPT !.alloc = TRUE]
             t == [s EXCEPT !.d = d]
  <2>1. AllocateChannel(s) = t
    BY <1>4, ChannelTypes DEF AllocateChannel, Contexts, Descriptors
  <2>2. /\ d \in Descriptors
        /\ d.cdid = s.d.cdid /\ d.cr = s.d.cr /\ d.incoming = s.d.incoming
        /\ d.pipe = s.d.pipe /\ d.state = s.d.state /\ d.hold = s.d.hold
        /\ d.timer = s.d.timer /\ d.need_release = s.d.need_release
    BY Zenon, <1>0 DEF Descriptors
  <2> HIDE DEF d
  <2>3. t \in Contexts /\ t.d = d
    BY <2>2 DEF Contexts
  <2> HIDE DEF t
  <2> QED
    BY <1>4, <2>1, <2>2, <2>3 DEF Stays
<1>5. CASE ~s.d.alloc /\ s.d.chan \notin Channels \cup {CHAN_NOT_ANY} /\ FreeChannels(s) # {}
  <2>1. AllocateChannel(s) = Take(s, LowestFree(s))
    BY <1>5 DEF AllocateChannel
  <2>2. LowestFree(s) \in Channels
    BY Zenon, <1>5, LeastExists, ChannelTypes DEF LowestFree, FreeChannels
  <2> QED
    BY <1>1, <1>5, <2>1, <2>2
<1>6. CASE /\ ~s.d.alloc /\ ~(s.d.chan \in Channels /\ s.d.chan \notin s.util)
           /\ s.d.chan # CHAN_NOT_ANY
           /\ ~(s.d.chan \notin Channels \cup {CHAN_NOT_ANY} /\ FreeChannels(s) # {})
  <2> DEFINE d == [s.d EXCEPT !.chan = CHAN_ANY]
             t == [s EXCEPT !.d = d]
  <2>1. AllocateChannel(s) = t
    BY <1>6 DEF AllocateChannel, Contexts, Descriptors
  <2>2. /\ d \in Descriptors
        /\ d.cdid = s.d.cdid /\ d.cr = s.d.cr /\ d.incoming = s.d.incoming
        /\ d.pipe = s.d.pipe /\ d.state = s.d.state /\ d.hold = s.d.hold
        /\ d.timer = s.d.timer /\ d.need_release = s.d.need_release
    BY Zenon, <1>0, ChannelTypes DEF Descriptors
  <2> HIDE DEF d
  <2>3. t \in Contexts /\ t.d = d
    BY <2>2 DEF Contexts
  <2> HIDE DEF t
  <2> QED
    BY <1>6, <2>1, <2>2, <2>3 DEF Stays
<1> QED
  BY <1>2, <1>3, <1>4, <1>5, <1>6

LEMMA TryStays ==
  ASSUME NEW s \in Contexts
  PROVE  Stays(s.d, TryChannel(s).d) /\ TryChannel(s) \in Contexts
<1>1. s.d \in Descriptors
  BY DEF Contexts
<1> QED
  BY <1>1, AllocateStays, StaysSame DEF TryChannel

LEMMA UnlinkStays ==
  ASSUME NEW s \in Contexts
  PROVE  /\ Stays(s.d, Unlink(s).d) /\ Unlink(s) \in Contexts
         /\ Unlink(s).d.alloc = s.d.alloc
<1> DEFINE d == [s.d EXCEPT !.want = FALSE]
           f == IF OnBChannel(s) /\ s.ft[s.d.chan] = Key(s.id, s.d.drv)
                THEN [s.ft EXCEPT ![s.d.chan] = NoKey] ELSE s.ft
           t == [s EXCEPT !.d = d, !.ft = f]
<1>0. s.d \in Descriptors /\ s.ft \in Drivings
  BY DEF Contexts
<1>1. Unlink(s) = t
  BY DEF Unlink, Contexts, Descriptors
<1>2. /\ d \in Descriptors
      /\ d.cdid = s.d.cdid /\ d.cr = s.d.cr /\ d.incoming = s.d.incoming
      /\ d.pipe = s.d.pipe /\ d.state = s.d.state /\ d.hold = s.d.hold
      /\ d.timer = s.d.timer /\ d.need_release = s.d.need_release
      /\ d.alloc = s.d.alloc /\ d.chan = s.d.chan
  BY Zenon, <1>0 DEF Descriptors
<1>3. f \in Drivings
  BY <1>0 DEF Drivings, OnBChannel
<1> HIDE DEF d, f
<1>4. t \in Contexts /\ t.d = d
  BY Zenon, <1>2, <1>3 DEF Contexts
<1> HIDE DEF t
<1> QED
  BY <1>1, <1>2, <1>4 DEF Stays

LEMMA LinkStays ==
  ASSUME NEW s \in Contexts, NEW drv \in Drivers \cup {"TONE"}, NEW accepts \in BOOLEAN
  PROVE  Stays(s.d, Link(s, drv, accepts).d) /\ Link(s, drv, accepts) \in Contexts
<1> DEFINE u == Unlink(s)
           k == Key(s.id, drv)
           free == /\ OnBChannel(u) /\ u.ft[u.d.chan] = NoKey
                   /\ \A ch \in BChannels : u.ft[ch] # k
           d == [u.d EXCEPT !.want = TRUE, !.drv = drv]
           f == IF free /\ accepts THEN [u.ft EXCEPT ![u.d.chan] = k] ELSE u.ft
           t == [u EXCEPT !.d = d, !.ft = f]
<1>0. u \in Contexts /\ Stays(s.d, u.d)
  BY UnlinkStays
<1>k. k \in Keys
  BY KeyTypes DEF Contexts
<1>l. Link(s, drv, accepts) = [u EXCEPT !.d.want = TRUE, !.d.drv = drv, !.ft = f]
  BY DEF Link
<1> HIDE DEF u
<1>1. Link(s, drv, accepts) = t
  BY Zenon, <1>0, <1>l DEF Contexts, Descriptors
<1>2. /\ d \in Descriptors
      /\ d.cdid = u.d.cdid /\ d.cr = u.d.cr /\ d.incoming = u.d.incoming
      /\ d.pipe = u.d.pipe /\ d.state = u.d.state /\ d.hold = u.d.hold
      /\ d.timer = u.d.timer /\ d.need_release = u.d.need_release
      /\ d.alloc = u.d.alloc /\ d.chan = u.d.chan
  BY Zenon, <1>0 DEF Contexts, Descriptors
<1> HIDE DEF d, k
<1>3. f \in Drivings
  BY Zenon, <1>0, <1>k DEF Contexts, Drivings
<1> HIDE DEF f
<1>4. t \in Contexts /\ t.d = d
  BY Zenon, <1>0, <1>2, <1>3 DEF Contexts
<1> HIDE DEF t
<1>5. Stays(u.d, d)
  BY <1>2 DEF Stays
<1> QED
  BY <1>0, <1>1, <1>4, <1>5, StaysChain

\* PutOnHold gives the channel back, which a held call does without.
LEMMA HoldFields ==
  ASSUME NEW s \in Contexts
  PROVE  LET e == PutOnHold(s).d IN
         /\ PutOnHold(s) \in Contexts /\ e \in Descriptors
         /\ e.cdid = s.d.cdid /\ e.cr = s.d.cr /\ e.incoming = s.d.incoming
         /\ e.pipe = s.d.pipe /\ e.state = s.d.state /\ e.timer = s.d.timer
         /\ s.d.need_release => e.need_release
         /\ e.hold /\ ~e.alloc
<1> DEFINE u == IF s.d.want THEN [Unlink(s) EXCEPT !.d.want = TRUE] ELSE s
<1>1. u \in Contexts /\ Stays(s.d, u.d)
  <2>1. CASE s.d.want
    <3> DEFINE v == Unlink(s)
               d == [v.d EXCEPT !.want = TRUE]
    <3>1. v \in Contexts /\ Stays(s.d, v.d)
      BY UnlinkStays
    <3> HIDE DEF v
    <3>2. u = [v EXCEPT !.d = d]
      BY Zenon, <2>1, <3>1 DEF Contexts, Descriptors, v
    <3>3. /\ d \in Descriptors
          /\ d.cdid = v.d.cdid /\ d.cr = v.d.cr /\ d.incoming = v.d.incoming
          /\ d.pipe = v.d.pipe /\ d.state = v.d.state /\ d.hold = v.d.hold
          /\ d.timer = v.d.timer /\ d.need_release = v.d.need_release
          /\ d.alloc = v.d.alloc /\ d.chan = v.d.chan
      BY Zenon, <3>1 DEF Contexts, Descriptors
    <3> HIDE DEF d
    <3>4. [v EXCEPT !.d = d] \in Contexts /\ [v EXCEPT !.d = d].d = d
      BY Zenon, <3>1, <3>3 DEF Contexts
    <3>5. Stays(v.d, d)
      BY <3>3 DEF Stays
    <3> QED
      BY ZenonT(60), <3>1, <3>2, <3>4, <3>5, StaysChain
  <2>2. CASE ~s.d.want
    <3>1. s.d \in Descriptors
      BY DEF Contexts
    <3> QED
      BY <2>2, <3>1, StaysSame
  <2> QED
    BY <2>1, <2>2
<1> HIDE DEF u
<1> DEFINE w == FreeChannel(u)
<1>2. /\ w \in Contexts /\ w.d.cdid = u.d.cdid /\ w.d.cr = u.d.cr
      /\ w.d.incoming = u.d.incoming /\ w.d.pipe = u.d.pipe /\ w.d.state = u.d.state
      /\ w.d.timer = u.d.timer /\ w.d.need_release = u.d.need_release /\ ~w.d.alloc
  <2>1. CASE ~u.d.alloc
    BY <1>1, <2>1 DEF FreeChannel
  <2>2. CASE u.d.alloc
    <3> DEFINE d == [u.d EXCEPT !.chan = CHAN_ANY, !.alloc = FALSE]
               v == u.util \ ({u.d.chan} \cap Channels)
    <3>1. w = [u EXCEPT !.d = d, !.util = v]
      BY Zenon, <1>1, <2>2 DEF FreeChannel, Contexts, Descriptors
    <3>2. /\ d \in Descriptors
          /\ d.cdid = u.d.cdid /\ d.cr = u.d.cr /\ d.incoming = u.d.incoming
          /\ d.pipe = u.d.pipe /\ d.state = u.d.state
          /\ d.timer = u.d.timer /\ d.need_release = u.d.need_release /\ ~d.alloc
      BY Zenon, <1>1, ChannelTypes DEF Contexts, Descriptors
    <3>3. v \in SUBSET Channels
      BY <1>1 DEF Contexts
    <3> HIDE DEF d, v
    <3>4. w \in Contexts /\ w.d = d
      BY Zenon, <1>1, <3>1, <3>2, <3>3 DEF Contexts
    <3> QED
      BY <3>2, <3>4
  <2> QED
    BY <2>1, <2>2
<1> HIDE DEF w
<1> DEFINE d == [w.d EXCEPT !.hold = TRUE]
<1>3. PutOnHold(s) = [w EXCEPT !.d = d]
  BY Zenon, <1>2 DEF PutOnHold, Contexts, Descriptors, w, u
<1>4. /\ d \in Descriptors
      /\ d.cdid = w.d.cdid /\ d.cr = w.d.cr /\ d.incoming = w.d.incoming
      /\ d.pipe = w.d.pipe /\ d.state = w.d.state /\ d.timer = w.d.timer
      /\ d.need_release = w.d.need_release /\ d.alloc = w.d.alloc /\ d.hold
  BY Zenon, <1>2 DEF Contexts, Descriptors
<1> HIDE DEF d
<1>5. [w EXCEPT !.d = d] \in Contexts /\ [w EXCEPT !.d = d].d = d
  BY Zenon, <1>2, <1>4 DEF Contexts
<1> QED
  BY <1>1, <1>2, <1>3, <1>4, <1>5 DEF Stays

-----------------------------------------------------------------------------
(* Compositions of primitives. *)

LEMMA KeepsStays ==
  ASSUME NEW d, NEW e, NEW f, Keeps(d, e), Stays(e, f)
  PROVE  Keeps(d, f)
BY DEF Keeps, Stays, Identity

LEMMA GrowsSame ==
  ASSUME NEW s \in Contexts
  PROVE  Grows(s.d, s)
BY DEF Grows, Keeps, Identity, Contexts

\* What has been kept lives on in every state that suits it.
LEMMA KeepsLives ==
  ASSUME NEW d, NEW e, Alive(d), Keeps(d, e), e.timer, Suits(e, e.state)
  PROVE  Lives(d, e)
<1>1. Named(e)
  BY DEF Alive, Keeps, Identity, Named
<1>2. Identity(d, e) /\ ChannelKept(d, e) /\ e \in Descriptors
  BY DEF Keeps, ChannelKept
<1> QED
  BY <1>1, <1>2 DEF Lives, Alive

\* cd_set_state keeps the call and starts its timer.
LEMMA SetStateFields ==
  ASSUME NEW s \in Contexts, NEW new \in States \ {"U0"}
  PROVE  LET t == SetState(s, new) IN
         /\ t \in Contexts /\ t.d.timer
         /\ t.d.state = new \/ (new \in ToStates /\ t.d.state = Before(new))
         /\ t.d.cdid = s.d.cdid /\ t.d.cr = s.d.cr /\ t.d.incoming = s.d.incoming
         /\ t.d.pipe = s.d.pipe /\ t.d.hold = s.d.hold /\ t.d.alloc = s.d.alloc
         /\ t.d.chan = s.d.chan /\ t.d.need_release = s.d.need_release
         /\ t.d.want = s.d.want
<1> DEFINE counted == Multipoint /\ new \in {"U3_TO", "U4_TO"}
           back == \/ counted /\ s.d.responded /\ s.d.enquiries < EnquiryMax
                   \/ ~counted /\ NoEnquiry /\ new \in ToStates
           st == IF back THEN Before(new) ELSE new
           n == IF counted /\ back THEN s.d.enquiries + 1 ELSE s.d.enquiries
           d == [s.d EXCEPT !.state = st, !.enquiries = n, !.timer = TRUE]
<1>1. SetState(s, new) = [s EXCEPT !.d = d]
  BY Zenon DEF SetState, Contexts, Descriptors
<1>2. st \in States /\ (st = new \/ (new \in ToStates /\ st = Before(new)))
  BY TimeoutStates DEF ToStates
<1>3. n \in 0 .. EnquiryMax
  BY CallAssumption DEF Contexts, Descriptors
<1> HIDE DEF st, n
<1>4. /\ d \in Descriptors /\ d.timer /\ d.state = st
      /\ d.cdid = s.d.cdid /\ d.cr = s.d.cr /\ d.incoming = s.d.incoming
      /\ d.pipe = s.d.pipe /\ d.hold = s.d.hold /\ d.alloc = s.d.alloc
      /\ d.chan = s.d.chan /\ d.need_release = s.d.need_release /\ d.want = s.d.want
  BY ZenonT(40), <1>2, <1>3 DEF Contexts, Descriptors
<1> HIDE DEF d
<1>5. [s EXCEPT !.d = d] \in Contexts /\ [s EXCEPT !.d = d].d = d
  BY Zenon, <1>4 DEF Contexts
<1> QED
  BY Zenon, <1>1, <1>2, <1>4, <1>5

LEMMA SuitsSame ==
  ASSUME NEW d, NEW e, NEW st, Suits(d, st), e.incoming = d.incoming,
         e.need_release = d.need_release, e.hold = d.hold, e.alloc = d.alloc
  PROVE  Suits(e, st)
BY Zenon DEF Suits, Owing

LEMMA SetStateLives ==
  ASSUME NEW d, NEW s, Alive(d), Grows(d, s), NEW new \in States, Suits(s.d, new)
  PROVE  Lives(d, SetState(s, new).d) /\ Grows(d, SetState(s, new))
<1> DEFINE t == SetState(s, new)
<1>0. s \in Contexts /\ new # "U0"
  BY DEF Grows, Suits
<1>1. /\ t \in Contexts /\ t.d.timer
      /\ t.d.state = new \/ (new \in ToStates /\ t.d.state = Before(new))
      /\ t.d.cdid = s.d.cdid /\ t.d.cr = s.d.cr /\ t.d.incoming = s.d.incoming
      /\ t.d.pipe = s.d.pipe /\ t.d.hold = s.d.hold /\ t.d.alloc = s.d.alloc
      /\ t.d.chan = s.d.chan /\ t.d.need_release = s.d.need_release
  BY <1>0, SetStateFields
<1> HIDE DEF t
<1>2. Suits(t.d, new)
  BY <1>1, SuitsSame
<1>3. Suits(t.d, t.d.state)
  BY <1>1, <1>2, BeforeSuits
<1>4. Keeps(d, t.d)
  BY <1>1 DEF Grows, Keeps, Identity, Contexts
<1>5. Lives(d, t.d)
  BY <1>1, <1>3, <1>4, KeepsLives
<1> QED
  BY <1>1, <1>4, <1>5 DEF Grows, t

\* Assignments to single fields.
LEMMA NeedReleaseGrows ==
  ASSUME NEW s \in Contexts
  PROVE  /\ NeedRelease(s) \in Contexts /\ Stays(s.d, NeedRelease(s).d)
         /\ NeedRelease(s).d.need_release /\ NeedRelease(s).d.alloc = s.d.alloc
<1> DEFINE d == [s.d EXCEPT !.need_release = TRUE]
<1>1. NeedRelease(s) = [s EXCEPT !.d = d]
  BY Zenon DEF NeedRelease, Contexts, Descriptors
<1>2. /\ d \in Descriptors /\ d.need_release
      /\ d.cdid = s.d.cdid /\ d.cr = s.d.cr /\ d.incoming = s.d.incoming
      /\ d.pipe = s.d.pipe /\ d.state = s.d.state /\ d.hold = s.d.hold
      /\ d.timer = s.d.timer /\ d.alloc = s.d.alloc /\ d.chan = s.d.chan
  BY ZenonT(40) DEF Contexts, Descriptors
<1> HIDE DEF d
<1>3. [s EXCEPT !.d = d] \in Contexts /\ [s EXCEPT !.d = d].d = d
  BY Zenon, <1>2 DEF Contexts
<1> QED
  BY <1>1, <1>2, <1>3 DEF Stays

LEMMA CountStays ==
  ASSUME NEW s \in Contexts
  PROVE  /\ \A n \in 0 .. IndMax :
              [s EXCEPT !.d.ind = n] \in Contexts /\ Stays(s.d, [s EXCEPT !.d.ind = n].d)
         /\ s.d.enquiries < EnquiryMax =>
              LET t == [s EXCEPT !.d.enquiries = @ + 1] IN
              t \in Contexts /\ Stays(s.d, t.d)
              /\ t.d.alloc = s.d.alloc /\ t.d.need_release = s.d.need_release
<1>1. ASSUME NEW n \in 0 .. IndMax
      PROVE  [s EXCEPT !.d.ind = n] \in Contexts /\ Stays(s.d, [s EXCEPT !.d.ind = n].d)
  BY <1>1 DEF Stays, Contexts, Descriptors
<1>2. ASSUME s.d.enquiries < EnquiryMax
      PROVE  LET t == [s EXCEPT !.d.enquiries = @ + 1] IN
             t \in Contexts /\ Stays(s.d, t.d)
             /\ t.d.alloc = s.d.alloc /\ t.d.need_release = s.d.need_release
  BY <1>2, CallAssumption DEF Stays, Contexts, Descriptors
<1> QED
  BY <1>1, <1>2

LEMMA RelinkStays ==
  ASSUME NEW s \in Contexts, NEW drv \in Drivers \cup {"TONE"}, NEW accepts \in BOOLEAN
  PROVE  Stays(s.d, Relink(s, drv, accepts).d) /\ Relink(s, drv, accepts) \in Contexts
<1>1. s.d \in Descriptors
  BY DEF Contexts
<1> QED
  BY <1>1, LinkStays, StaysSame DEF Relink

-----------------------------------------------------------------------------
(* The events of cd_update. *)

LEMMA DeadEnds ==
  ASSUME NEW d, NEW s, NEW e, Dead(s, e)
  PROVE  Ends(d, s.d)
BY DEF Dead, Ends

LEMMA SameLives ==
  ASSUME NEW s \in Contexts, Alive(s.d)
  PROVE  Lives(s.d, s.d)
BY StaysSame, StaysAlive DEF Contexts

\* A channel added after the state was set.
LEMMA ThenStays ==
  ASSUME NEW d, NEW s, NEW t, Alive(d), Grows(d, s), Alive(s.d),
         t \in Contexts, Stays(s.d, t.d)
  PROVE  Lives(d, t.d)
<1>1. Lives(s.d, t.d)
  BY StaysAlive
<1>2. Keeps(d, t.d)
  BY KeepsStays DEF Grows
<1>3. t.d.timer /\ Suits(t.d, t.d.state)
  BY <1>1 DEF Lives, Alive
<1> QED
  BY <1>2, <1>3, KeepsLives

LEMMA CallerLives ==
  ASSUME NEW s \in Contexts, Alive(s.d)
  PROVE  /\ ~s.d.incoming => \A complete \in BOOLEAN : Lives(s.d, EvSetupRq(s, complete).d)
         /\ Lives(s.d, EvInfoRq(s).d) /\ Lives(s.d, EvCallPrc(s).d)
         /\ Lives(s.d, EvSetupAk(s).d) /\ Lives(s.d, EvAlert(s).d)
<1>0. /\ Grows(s.d, s) /\ Lives(s.d, s.d) /\ Suits(s.d, s.d.state)
      /\ s.d.state \in States /\ s.d.incoming \in BOOLEAN
  BY GrowsSame, SameLives DEF Alive, Descriptors
<1>1. ASSUME ~s.d.incoming, NEW complete \in BOOLEAN
      PROVE  Lives(s.d, EvSetupRq(s, complete).d)
  <2> DEFINE n == NeedRelease(s)
             new == IF complete THEN "U1" ELSE "U2"
  <2>1. /\ n \in Contexts /\ Stays(s.d, n.d) /\ n.d.need_release
        /\ n.d.incoming = s.d.incoming
    BY NeedReleaseGrows DEF Stays
  <2>2. EvSetupRq(s, complete) = IF s.d.state = "OUTGOING" THEN SetState(n, new) ELSE s
    BY DEF EvSetupRq
  <2> HIDE DEF n
  <2>3. Grows(s.d, n)
    BY <1>0, <2>1, KeepsStays DEF Grows
  <2>4. new \in States /\ Suits(n.d, new)
    BY <1>1, <2>1, EventStates DEF Suits, Owing, OutStates, InStates, Answered
  <2> HIDE DEF new
  <2>5. Lives(s.d, SetState(n, new).d)
    BY <2>3, <2>4, SetStateLives
  <2> QED
    BY <1>0, <2>2, <2>5
<1>2. Lives(s.d, EvInfoRq(s).d)
  BY <1>0, SetStateLives DEF EvInfoRq
<1>3. Lives(s.d, EvCallPrc(s).d)
  <2>1. CASE ~Between("OUTGOING", s.d.state, "U3")
    BY <1>0, <2>1 DEF EvCallPrc
  <2>2. CASE Between("OUTGOING", s.d.state, "U3")
    <3> DEFINE b == SetState(s, "U3")
    <3>1. s.d.state \in {"U1", "U2", "U2_ACK"}
      BY <1>0, <2>2, Orders
    <3>2. Suits(s.d, "U3") /\ "U3" \in States
      BY <1>0, <3>1, EventStates DEF Suits, Owing, OutStates, InStates, Answered
    <3>3. Lives(s.d, b.d) /\ Grows(s.d, b)
      BY <1>0, <3>2, SetStateLives
    <3> HIDE DEF b
    <3>4. TryChannel(b) \in Contexts /\ Stays(b.d, TryChannel(b).d)
      BY <3>3, TryStays DEF Grows
    <3>5. Lives(s.d, TryChannel(b).d)
      BY <3>3, <3>4, ThenStays DEF Lives
    <3> QED
      BY <2>2, <3>5 DEF EvCallPrc, b
  <2> QED
    BY <2>1, <2>2
<1>4. Lives(s.d, EvSetupAk(s).d)
  <2>1. CASE s.d.state = "U2"
    <3> DEFINE b == SetState(s, "U2_ACK")
    <3>1. Suits(s.d, "U2_ACK") /\ "U2_ACK" \in States
      BY <1>0, <2>1, EventStates DEF Suits, Owing, OutStates, InStates, Answered
    <3>2. Lives(s.d, b.d) /\ Grows(s.d, b)
      BY <1>0, <3>1, SetStateLives
    <3>3. EvSetupAk(s) = TryChannel(b)
      BY <2>1 DEF EvSetupAk
    <3> HIDE DEF b
    <3>4. TryChannel(b) \in Contexts /\ Stays(b.d, TryChannel(b).d)
      BY <3>2, TryStays DEF Grows
    <3> QED
      BY <3>2, <3>3, <3>4, ThenStays DEF Lives
  <2>2. CASE s.d.state # "U2"
    BY <1>0, <1>3, <2>2 DEF EvSetupAk
  <2> QED
    BY <2>1, <2>2
<1>5. Lives(s.d, EvAlert(s).d)
  <2>1. CASE ~Between("OUTGOING", s.d.state, "U4")
    BY <1>0, <2>1 DEF EvAlert
  <2>2. CASE Between("OUTGOING", s.d.state, "U4")
    <3> DEFINE a == IF No[s.d.state] < No["U3"] THEN TryChannel(s) ELSE s
    <3>1. s.d.state \in {"U1", "U2", "U2_ACK", "U3", "U3_TO"}
      BY <1>0, <2>2, Orders
    <3>2. a \in Contexts /\ Stays(s.d, a.d)
      BY TryStays, StaysSame DEF Contexts
    <3>e. EvAlert(s) = SetState(a, "U4")
      BY <2>2 DEF EvAlert
    <3> HIDE DEF a
    <3>3. Grows(s.d, a) /\ Alive(a.d) /\ a.d.state = s.d.state
      BY <1>0, <3>2, KeepsStays, StaysAlive DEF Grows, Lives, Stays
    <3>4. Suits(a.d, "U4") /\ "U4" \in States
      <4>1. Suits(a.d, a.d.state) /\ a.d.incoming \in BOOLEAN
        BY <3>3 DEF Alive, Descriptors
      <4> QED
        BY <3>1, <3>3, <4>1, EventStates
           DEF Suits, Owing, OutStates, InStates, Answered
    <3> QED
      BY <3>3, <3>4, <3>e, SetStateLives
  <2> QED
    BY <2>1, <2>2
<1> QED
  BY <1>1, <1>2, <1>3, <1>4, <1>5

\* CONNECT moves an outgoing call to the pipe of the terminal that answers.
LEMMA ConnectEnds ==
  ASSUME NEW s, NEW e \in Environments, Live(s, e), Alive(s.d), ~s.d.incoming,
         NEW p \in Pipes
  PROVE  Ends(s.d, EvConnect(s, p).d)
<1> DEFINE a == TryChannel(s)
           u == SetPipe(a, p)
<1>0. s \in Contexts /\ Grows(s.d, s) /\ Lives(s.d, s.d) /\ s.d.state \in States
  BY GrowsSame, SameLives DEF Live, Alive, Descriptors
<1>1. CASE ~Between("OUTGOING", s.d.state, "UA")
  BY <1>0, <1>1 DEF EvConnect, Ends
<1>2. CASE Between("OUTGOING", s.d.state, "UA")
  <2>1. a \in Contexts /\ Stays(s.d, a.d) /\ Live(a, e)
    BY <1>0, TryStays, TryRelinkLemma
  <2>e. EvConnect(s, p) = IF s.d.chan # CHAN_ANY /\ a.d.alloc
                          THEN SetState(u, "UA") ELSE NoChannelAvailable(a)
    BY <1>2 DEF EvConnect
  <2> HIDE DEF a
  <2>2. Grows(s.d, a) /\ Alive(a.d) /\ a.d.state = s.d.state /\ a.d.incoming = s.d.incoming
    BY <1>0, <2>1, KeepsStays, StaysAlive DEF Grows, Lives, Stays
  <2>3. Ends(s.d, NoChannelAvailable(a).d)
    BY <2>1, ReleaseLemma, DeadEnds
  <2>4. ASSUME a.d.alloc PROVE Ends(s.d, SetState(u, "UA").d)
    <3>1. a.auto # 0 /\ a.auto + 1 < AutoMod
      BY <2>1, CallDescAssumption DEF Live, Refers, Environments, Contexts
    <3>2. u \in Contexts /\ u.d = [a.d EXCEPT !.pipe = p]
      BY <2>1, <3>1, SetPipeFields
    <3> HIDE DEF u
    <3>3. /\ u.d \in Descriptors
          /\ u.d.cdid = a.d.cdid /\ u.d.cr = a.d.cr /\ u.d.incoming = a.d.incoming
          /\ u.d.hold = a.d.hold /\ u.d.alloc = a.d.alloc /\ u.d.chan = a.d.chan
          /\ u.d.need_release = a.d.need_release
      BY <2>1, <3>2 DEF Contexts, Descriptors
    <3>4. Grows(s.d, u)
      BY <2>2, <3>2, <3>3 DEF Grows, Keeps, Identity
    <3>5. s.d.state \in (OutStates \cup InStates) \ {"OUTGOING"}
      BY <1>0, <1>2, Orders
    <3>6. a.d.need_release
      BY <2>2, <3>5 DEF Alive, Suits, Owing
    <3>7. Suits(u.d, "UA") /\ "UA" \in States
      BY <2>2, <2>4, <3>3, <3>6, EventStates DEF Suits, OutStates, InStates
    <3>8. Lives(s.d, SetState(u, "UA").d)
      BY <3>4, <3>7, SetStateLives
    <3> QED
      BY <3>8 DEF Ends
  <2> QED
    BY <2>3, <2>4, <2>e
<1> QED
  BY <1>1, <1>2

LEMMA CalleeLives ==
  ASSUME NEW s \in Contexts, Alive(s.d)
  PROVE  /\ Lives(s.d, EvInfo(s).d) /\ Lives(s.d, EvProceedingRq(s).d)
         /\ Lives(s.d, EvAlertRq(s).d) /\ Lives(s.d, EvConAck(s).d)
         /\ Lives(s.d, EvSetAcRs(s).d)
<1>0. /\ Grows(s.d, s) /\ Lives(s.d, s.d) /\ Suits(s.d, s.d.state)
      /\ s.d.state \in States /\ s.d.incoming \in BOOLEAN
  BY GrowsSame, SameLives DEF Alive, Descriptors
<1>1. Lives(s.d, EvInfo(s).d)
  BY <1>0, SetStateLives DEF EvInfo
<1>2. Lives(s.d, EvProceedingRq(s).d)
  <2>1. CASE Between("INCOMING", s.d.state, "U6")
    <3>1. s.d.state = "IN_ACK"
      BY <1>0, <2>1, Orders
    <3>2. Suits(s.d, "U6") /\ "U6" \in States
      BY <1>0, <3>1, EventStates DEF Suits, Owing, OutStates, InStates, Answered
    <3> QED
      BY <1>0, <2>1, <3>2, SetStateLives DEF EvProceedingRq
  <2> QED
    BY <1>0, <2>1 DEF EvProceedingRq
<1>3. Lives(s.d, EvAlertRq(s).d)
  <2>1. CASE Between("INCOMING", s.d.state, "U7")
    <3>1. s.d.state \in {"IN_ACK", "U6", "U6_TO"}
      BY <1>0, <2>1, Orders
    <3>2. Suits(s.d, "U7") /\ "U7" \in States
      BY <1>0, <3>1, EventStates DEF Suits, Owing, OutStates, InStates, Answered
    <3> QED
      BY <1>0, <2>1, <3>2, SetStateLives DEF EvAlertRq
  <2> QED
    BY <1>0, <2>1 DEF EvAlertRq
<1>4. ASSUME NEW t, Grows(s.d, t), Lives(s.d, t.d)
      PROVE  Lives(s.d, EvConAck(t).d)
  <2>1. CASE t.d.state = "U8"
    <3>1. Suits(t.d, t.d.state) /\ t.d.incoming \in BOOLEAN
      BY <1>4 DEF Lives, Alive, Descriptors
    <3>2. Suits(t.d, "UA") /\ "UA" \in States
      BY <2>1, <3>1, EventStates DEF Suits, Owing, OutStates, InStates, Answered
    <3> QED
      BY <1>4, <2>1, <3>2, SetStateLives DEF EvConAck
  <2> QED
    BY <1>4, <2>1 DEF EvConAck
<1>5. Lives(s.d, EvSetAcRs(s).d)
  <2>1. CASE ~Between("INCOMING", s.d.state, "U8")
    BY <1>0, <2>1 DEF EvSetAcRs
  <2>2. CASE Between("INCOMING", s.d.state, "U8")
    <3> DEFINE n == NeedRelease(s)
               b == SetState(n, "U8")
    <3>1. n \in Contexts /\ Stays(s.d, n.d) /\ n.d.need_release /\ n.d.alloc = s.d.alloc
      BY NeedReleaseGrows
    <3>e. EvSetAcRs(s) = IF NtMode THEN EvConAck(b) ELSE b
      BY <2>2 DEF EvSetAcRs
    <3> HIDE DEF n
    <3>2. Grows(s.d, n) /\ n.d.incoming = s.d.incoming /\ n.d.hold = s.d.hold
      BY <1>0, <3>1, KeepsStays DEF Grows, Stays
    <3>3. s.d.state \in InStates \ {"INCOMING", "U8"}
      BY <1>0, <2>2, Orders
    <3>4. Suits(n.d, "U8") /\ "U8" \in States
      BY <1>0, <3>1, <3>2, <3>3, EventStates
         DEF Suits, Owing, OutStates, InStates, Answered
    <3>5. Lives(s.d, b.d) /\ Grows(s.d, b)
      BY <3>2, <3>4, SetStateLives
    <3> HIDE DEF b
    <3> QED
      BY <1>4, <3>5, <3>e
  <2> QED
    BY <2>1, <2>2
<1> QED
  BY <1>0, <1>1, <1>2, <1>3, <1>4, <1>5

\* SETUP needs no more of the descriptor than that its call may begin.
LEMMA SetupEnds ==
  ASSUME NEW s, NEW e \in Environments, Live(s, e), Alive(s.d),
         NEW complete \in BOOLEAN, NEW tone \in BOOLEAN, NEW accepts \in BOOLEAN,
         NEW ind \in 0 .. IndMax
  PROVE  Ends(s.d, EvSetup(s, complete, tone, accepts, ind).d)
<1> DEFINE n == IF NtMode \/ P2P THEN NeedRelease(s) ELSE s
           a == AllocateChannel(n)
           new == IF complete THEN "U6" ELSE "IN_ACK"
           b == SetState(a, new)
           t == IF tone THEN Link(b, "TONE", accepts) ELSE b
<1>0. s \in Contexts /\ Grows(s.d, s) /\ Lives(s.d, s.d) /\ s.d.incoming \in BOOLEAN
  BY GrowsSame, SameLives DEF Live, Alive, Descriptors
<1>1. CASE s.d.state \notin {"INCOMING", "IN_ACK"}
  BY <1>0, <1>1 DEF EvSetup, Ends
<1>2. CASE s.d.state \in {"INCOMING", "IN_ACK"}
  <2>1. n \in Contexts /\ Stays(s.d, n.d) /\ Live(n, e)
    BY <1>0, NeedReleaseGrows, ReleaseLemma, StaysSame DEF Contexts
  <2>e. EvSetup(s, complete, tone, accepts, ind) =
          IF ~a.d.alloc THEN NoChannelAvailable(a)
          ELSE IF ind = 0 THEN Release(NeedRelease(t)) ELSE [t EXCEPT !.d.ind = ind]
    BY <1>2 DEF EvSetup
  <2> HIDE DEF n
  <2>2. a \in Contexts /\ Stays(n.d, a.d) /\ Live(a, e)
    BY <2>1, AllocateStays, AllocateLemma
  <2> HIDE DEF a
  <2>3. Grows(s.d, a) /\ a.d.incoming = s.d.incoming
    BY <1>0, <2>1, <2>2, KeepsStays DEF Grows, Stays
  <2>4. CASE ~a.d.alloc
    BY <2>2, <2>4, <2>e, ReleaseLemma, DeadEnds
  <2>5. CASE a.d.alloc
    <3>1. s.d.incoming
      BY <1>0, <1>2 DEF Alive, Suits, InStates
    <3>2. new \in States \ {"U0"} /\ Suits(a.d, new)
      BY <2>3, <2>5, <3>1, EventStates DEF Suits, Owing, OutStates, InStates, Answered
    <3> HIDE DEF new
    <3>3. Lives(s.d, b.d) /\ Grows(s.d, b) /\ Live(b, e)
      BY <2>2, <2>3, <3>2, SetStateLives, SetStateLemma
    <3> HIDE DEF b
    <3>4. t \in Contexts /\ Stays(b.d, t.d) /\ Live(t, e)
      BY ZenonT(60), <3>3, LinkStays, LinkLemma, StaysSame DEF Grows, Contexts
    <3> HIDE DEF t
    <3>5. Ends(s.d, Release(NeedRelease(t)).d)
      BY <3>4, ReleaseLemma, DeadEnds
    <3>6. [t EXCEPT !.d.ind = ind] \in Contexts /\ Stays(t.d, [t EXCEPT !.d.ind = ind].d)
      BY ZenonT(60), <3>4, CountStays
    <3>7. Stays(b.d, [t EXCEPT !.d.ind = ind].d)
      BY <3>4, <3>6, StaysChain
    <3>8. Lives(s.d, [t EXCEPT !.d.ind = ind].d)
      BY ZenonT(60), <3>3, <3>6, <3>7, ThenStays DEF Lives
    <3> QED
      BY <2>5, <2>e, <3>5, <3>8 DEF Ends
  <2> QED
    BY <2>4, <2>5
<1> QED
  BY <1>1, <1>2

\* "hold" changes, and with it whether the call needs a channel.
LEMMA HoldFieldStep ==
  ASSUME NEW s \in Contexts, NEW b \in BOOLEAN
  PROVE  LET t == [s EXCEPT !.d.hold = b] IN
         /\ t \in Contexts /\ t.d.hold = b
         /\ t.d.cdid = s.d.cdid /\ t.d.cr = s.d.cr /\ t.d.incoming = s.d.incoming
         /\ t.d.pipe = s.d.pipe /\ t.d.state = s.d.state /\ t.d.timer = s.d.timer
         /\ t.d.alloc = s.d.alloc /\ t.d.chan = s.d.chan
         /\ t.d.need_release = s.d.need_release
BY DEF Contexts, Descriptors

LEMMA RetrievingStays ==
  ASSUME NEW s \in Contexts, NEW b \in BOOLEAN
  PROVE  LET t == [s EXCEPT !.d.retrieving = b] IN
         t \in Contexts /\ Stays(s.d, t.d)
BY DEF Stays, Contexts, Descriptors

LEMMA HoldLives ==
  ASSUME NEW s \in Contexts, Alive(s.d)
  PROVE  Lives(s.d, PutOnHold(s).d) /\ PutOnHold(s) \in Contexts
<1> DEFINE e == PutOnHold(s).d
<1>1. /\ PutOnHold(s) \in Contexts /\ e \in Descriptors
      /\ e.cdid = s.d.cdid /\ e.cr = s.d.cr /\ e.incoming = s.d.incoming
      /\ e.pipe = s.d.pipe /\ e.state = s.d.state /\ e.timer = s.d.timer
      /\ s.d.need_release => e.need_release
      /\ e.hold /\ ~e.alloc
  BY HoldFields
<1> HIDE DEF e
<1>2. Named(e) /\ e.timer
  BY <1>1 DEF Alive, Named
<1>3. Suits(e, e.state)
  BY <1>1 DEF Alive, Suits, Owing
<1>4. Lives(s.d, e)
  BY <1>1, <1>2, <1>3 DEF Lives, Alive, Identity, ChannelKept
<1> QED
  BY <1>1, <1>4 DEF e

\* A call that needs no channel for its state, or has one, is taken off hold.
LEMMA UnholdLives ==
  ASSUME NEW d, NEW s \in Contexts, Alive(d), Stays(d, s.d), ~NtMode \/ s.d.alloc
  PROVE  LET t == [s EXCEPT !.d.hold = FALSE] IN
         t \in Contexts /\ Lives(d, t.d) /\ (s.d.alloc => t.d.alloc)
         /\ (d.alloc => t.d.alloc /\ t.d.chan = d.chan)
<1> DEFINE t == [s EXCEPT !.d.hold = FALSE]
<1>1. /\ t \in Contexts
      /\ t.d.cdid = s.d.cdid /\ t.d.cr = s.d.cr /\ t.d.incoming = s.d.incoming
      /\ t.d.pipe = s.d.pipe /\ t.d.state = s.d.state /\ t.d.timer = s.d.timer
      /\ t.d.alloc = s.d.alloc /\ t.d.chan = s.d.chan
      /\ t.d.need_release = s.d.need_release
  BY Zenon, HoldFieldStep
<1> HIDE DEF t
<1>2. Alive(s.d) /\ Identity(d, s.d)
  BY StaysAlive DEF Lives
<1>3. t.d \in Descriptors /\ Named(t.d) /\ t.d.timer
  BY <1>1, <1>2 DEF Alive, Named, Contexts
<1>4. Suits(t.d, t.d.state)
  BY <1>1, <1>2 DEF Alive, Suits, Owing
<1>5. Identity(d, t.d) /\ ChannelKept(d, t.d) /\ (d.alloc => t.d.alloc /\ t.d.chan = d.chan)
  BY <1>1, <1>2 DEF Identity, ChannelKept, Stays
<1>6. Lives(d, t.d)
  BY <1>3, <1>4, <1>5 DEF Lives, Alive
<1> QED
  BY <1>1, <1>5, <1>6 DEF t

LEMMA NeutralLives ==
  ASSUME NEW s \in Contexts, Alive(s.d)
  PROVE  /\ Lives(s.d, EvDisconnect(s).d)
         /\ \A live \in BOOLEAN : Lives(s.d, EvStatus(s, live).d)
         /\ Lives(s.d, EvHoldInd(s).d) /\ Lives(s.d, EvHoldReq(s).d)
         /\ Lives(s.d, EvRetrieveReq(s).d)
         /\ \A drv \in Drivers \cup {"TONE"}, accepts \in BOOLEAN :
              /\ Lives(s.d, EvRetrieveInd(s, drv, accepts).d)
              /\ Lives(s.d, EvRetrieveAck(s, drv, accepts).d)
<1>0. /\ Grows(s.d, s) /\ Lives(s.d, s.d) /\ Suits(s.d, s.d.state)
      /\ s.d.state \in States /\ s.d \in Descriptors /\ Stays(s.d, s.d)
  BY GrowsSame, SameLives, StaysSame DEF Alive, Descriptors
<1>1. Lives(s.d, EvDisconnect(s).d)
  <2>1. Suits(s.d, "UC") /\ "UC" \in States
    BY EventStates DEF Suits, Owing, OutStates, InStates, Answered
  <2> QED
    BY <1>0, <2>1, SetStateLives DEF EvDisconnect
<1>2. ASSUME NEW live \in BOOLEAN PROVE Lives(s.d, EvStatus(s, live).d)
  <2>1. CASE s.d.state \notin ToStates
    BY <1>0, <2>1 DEF EvStatus, ToStates
  <2>2. CASE s.d.state \in ToStates
    <3> DEFINE new == Before(s.d.state)
               n == [s EXCEPT !.d.enquiries = @ + 1]
    <3>1. new \in States /\ Suits(s.d, new)
      BY <1>0, <2>2, BeforeSuits, TimeoutStates
    <3>e. \/ EvStatus(s, live) = s
          \/ EvStatus(s, live) = SetState(s, new)
          \/ s.d.enquiries < EnquiryMax /\ EvStatus(s, live) = SetState(n, new)
      BY DEF EvStatus
    <3>2. ASSUME s.d.enquiries < EnquiryMax PROVE Grows(s.d, n) /\ Suits(n.d, new)
      <4>1. /\ n \in Contexts /\ Stays(s.d, n.d)
            /\ n.d.alloc = s.d.alloc /\ n.d.need_release = s.d.need_release
        BY <3>2, CountStays
      <4> HIDE DEF n, new
      <4> QED
        BY <1>0, <3>1, <4>1, KeepsStays, SuitsSame DEF Grows, Stays
    <3> HIDE DEF n, new
    <3> QED
      BY <1>0, <3>1, <3>2, <3>e, SetStateLives
  <2> QED
    BY <2>1, <2>2
<1>3. Lives(s.d, EvHoldInd(s).d)
  BY <1>0, HoldLives DEF EvHoldInd
<1>4. Lives(s.d, EvHoldReq(s).d)
  <2> DEFINE h == PutOnHold(s)
             t == [h EXCEPT !.d.retrieving = FALSE]
  <2>1. h \in Contexts /\ Lives(s.d, h.d) /\ ~h.d.alloc
    BY HoldLives, HoldFields
  <2>e. EvHoldReq(s) = s \/ EvHoldReq(s) = t
    BY DEF EvHoldReq
  <2> HIDE DEF h
  <2>2. t \in Contexts /\ Stays(h.d, t.d) /\ t.d.alloc = h.d.alloc
    <3>1. t \in Contexts /\ Stays(h.d, t.d)
      BY Zenon, <2>1, RetrievingStays
    <3>2. t.d.alloc = h.d.alloc
      BY Zenon, <2>1 DEF Contexts, Descriptors
    <3> QED
      BY <3>1, <3>2
  <2> HIDE DEF t
  <2>3. Lives(h.d, t.d)
    BY <2>1, <2>2, StaysAlive DEF Lives
  <2>4. Lives(s.d, t.d)
    BY <2>1, <2>2, <2>3 DEF Lives, Identity, ChannelKept
  <2> QED
    BY <1>0, <2>4, <2>e
<1>5. Lives(s.d, EvRetrieveReq(s).d)
  <2>1. CASE ~(s.d.hold /\ ~NtMode)
    BY <1>0, <2>1 DEF EvRetrieveReq
  <2>2. CASE s.d.hold /\ ~NtMode
    <3> DEFINE h == [s EXCEPT !.d.hold = FALSE]
               t == [h EXCEPT !.d.retrieving = TRUE]
    <3>1. /\ h \in Contexts /\ Lives(s.d, h.d)
          /\ s.d.alloc => h.d.alloc /\ h.d.chan = s.d.chan
      BY Zenon, <1>0, <2>2, UnholdLives
    <3>e. EvRetrieveReq(s) = t
      BY <2>2 DEF EvRetrieveReq, Contexts, Descriptors
    <3> HIDE DEF h
    <3>2. t \in Contexts /\ Stays(h.d, t.d)
      BY Zenon, <3>1, RetrievingStays
    <3> HIDE DEF t
    <3>3. Lives(h.d, t.d)
      BY <3>1, <3>2, StaysAlive DEF Lives
    <3>4. Lives(s.d, t.d)
      BY <3>1, <3>2, <3>3 DEF Lives, Identity, ChannelKept, Stays
    <3> QED
      BY <3>4, <3>e
  <2> QED
    BY <2>1, <2>2
<1>6. ASSUME NEW drv \in Drivers \cup {"TONE"}, NEW accepts \in BOOLEAN
      PROVE  /\ Lives(s.d, EvRetrieveInd(s, drv, accepts).d)
             /\ Lives(s.d, EvRetrieveAck(s, drv, accepts).d)
  <2> DEFINE a == AllocateChannel(s)
             h == [a EXCEPT !.d.hold = FALSE]
             q == [a EXCEPT !.d.retrieving = FALSE]
  <2>1. a \in Contexts /\ Stays(s.d, a.d)
    BY AllocateStays
  <2>e. /\ \/ EvRetrieveInd(s, drv, accepts) = s
           \/ EvRetrieveInd(s, drv, accepts) = a
           \/ a.d.alloc /\ EvRetrieveInd(s, drv, accepts) = Relink(h, drv, accepts)
        /\ \/ EvRetrieveAck(s, drv, accepts) = s
           \/ EvRetrieveAck(s, drv, accepts) = Relink(q, drv, accepts)
    BY DEF EvRetrieveInd, EvRetrieveAck
  <2> HIDE DEF a
  <2>2. Lives(s.d, a.d)
    BY <2>1, StaysAlive
  <2>3. ASSUME a.d.alloc PROVE Lives(s.d, Relink(h, drv, accepts).d)
    <3> DEFINE r == Relink(h, drv, accepts)
    <3>1. /\ h \in Contexts /\ Lives(s.d, h.d)
          /\ s.d.alloc => h.d.alloc /\ h.d.chan = s.d.chan
      BY Zenon, <2>1, <2>3, UnholdLives
    <3> HIDE DEF h
    <3>2. Stays(h.d, r.d)
      BY <3>1, RelinkStays
    <3> HIDE DEF r
    <3>3. Lives(h.d, r.d)
      BY <3>1, <3>2, StaysAlive DEF Lives
    <3>4. Lives(s.d, r.d)
      BY <3>1, <3>2, <3>3 DEF Lives, Identity, ChannelKept, Stays
    <3> QED
      BY <3>4 DEF r
  <2>4. Lives(s.d, Relink(q, drv, accepts).d)
    <3> DEFINE r == Relink(q, drv, accepts)
    <3>1. q \in Contexts /\ Stays(a.d, q.d)
      BY Zenon, <2>1, RetrievingStays
    <3> HIDE DEF q
    <3>2. Stays(q.d, r.d)
      BY <3>1, RelinkStays
    <3> HIDE DEF r
    <3>3. Stays(s.d, r.d)
      BY <2>1, <3>1, <3>2, StaysChain
    <3>4. Lives(s.d, r.d)
      BY <3>3, StaysAlive
    <3> QED
      BY <3>4 DEF r
  <2> HIDE DEF h, q
  <2> QED
    BY <1>0, <2>2, <2>3, <2>4, <2>e
<1> QED
  BY <1>1, <1>2, <1>3, <1>4, <1>5, <1>6

-----------------------------------------------------------------------------
(* From descriptors to states. *)

Distinct ==
  \A c, d \in CDs :
    c # d /\ InUse(c) /\ InUse(d) =>
      /\ cds[c].cdid # cds[d].cdid
      /\ cds[c].incoming /\ cds[d].incoming /\ cds[c].cr = cds[d].cr =>
           cds[c].pipe # cds[d].pipe

\* The inductive invariant, beside IInv.
LInv == (\A c \in CDs : InUse(c) => Alive(cds[c])) /\ Distinct

\* What a step does to the descriptors: c alone may change, to d.
Becomes(c, d) == cds'[c] = d /\ \A b \in CDs \ {c} : cds'[b] = cds[b]

Preserved == LInv' /\ \A b \in CDs : ChannelKept(cds[b], cds'[b])

LEMMA CommitBecomes ==
  ASSUME TypeOK, NEW c \in CDs, NEW s, s.id = c, Commit(s)
  PROVE  Becomes(c, s.d)
BY DEF TypeOK, Commit, Becomes

LEMMA FitsId ==
  ASSUME IInv, NEW c \in CDs, NEW s, Fits(s, EnvOf(c))
  PROVE  s.id = c
BY EnvLemma DEF Fits, Live, Dead

LEMMA ModeKept ==
  ASSUME mode' = mode
  PROVE  NtMode' = NtMode /\ RxPipes' = RxPipes
BY DEF NtMode, RxPipes, Multipoint, P2P

LEMMA AliveMode ==
  ASSUME mode' = mode, NEW b \in CDs, Alive(cds'[b])
  PROVE  Alive(cds[b])'
<1>1. Named(cds[b])' /\ (cds[b].timer)' /\ (cds[b] \in Descriptors)'
  BY ModeKept DEF Alive, Named
<1>2. Suits(cds[b], cds[b].state)'
  BY ModeKept DEF Alive, Suits, Owing
<1> QED
  BY <1>1, <1>2 DEF Alive

\* A call in use that lives on, or ends.
LEMMA EndsPreserves ==
  ASSUME TypeOK, LInv, NEW c \in CDs, InUse(c), NEW d, Ends(cds[c], d),
         Becomes(c, d), mode' = mode
  PROVE  Preserved
<1>0. UnusedCd.cdid = CDID_UNUSED /\ UnusedCd.alloc = FALSE
  BY DEF UnusedCd
<1>1. \A b \in CDs : ChannelKept(cds[b], cds'[b])
  BY <1>0 DEF Becomes, ChannelKept, Ends, Lives
<1>2. d.cdid # CDID_UNUSED => Lives(cds[c], d)
  BY <1>0 DEF Ends
<1>3. ASSUME NEW b \in CDs, InUse(b)' PROVE Alive(cds'[b])
  BY <1>2, <1>3 DEF Becomes, InUse, LInv, Lives
<1>4. ASSUME NEW b \in CDs, InUse(b)'
      PROVE  /\ InUse(b) /\ cds'[b].cdid = cds[b].cdid /\ cds'[b].cr = cds[b].cr
             /\ cds'[b].incoming = cds[b].incoming
             /\ cds[b].incoming => cds'[b].pipe = cds[b].pipe
  BY <1>2, <1>4 DEF Becomes, InUse, Lives, Identity
<1>5. Distinct'
  BY <1>4 DEF LInv, Distinct
<1>6. ASSUME NEW b \in CDs, InUse(b)' PROVE Alive(cds[b])'
  BY <1>3, <1>6, AliveMode
<1> QED
  BY <1>1, <1>5, <1>6 DEF Preserved, LInv

\* A call that begins with a number and a reference of its own, or ends at once.
LEMMA BeginsPreserves ==
  ASSUME TypeOK, LInv, UnusedHoldsNothing, NEW c \in CDs, ~InUse(c), NEW d,
         d = UnusedCd \/ Alive(d), Becomes(c, d), mode' = mode,
         d.cdid # CDID_UNUSED =>
           /\ \A b \in CDs : cds[b].cdid # d.cdid
           /\ d.incoming => \A b \in CDs : InUse(b) /\ cds[b].cr = d.cr => cds[b].pipe # d.pipe
  PROVE  Preserved
<1>0. UnusedCd.cdid = CDID_UNUSED /\ UnusedCd.alloc = FALSE
  BY DEF UnusedCd
<1>1. cds[c] = UnusedCd
  BY DEF UnusedHoldsNothing
<1>2. \A b \in CDs : ChannelKept(cds[b], cds'[b])
  BY <1>0, <1>1 DEF Becomes, ChannelKept
<1>3. ASSUME NEW b \in CDs, InUse(b)' PROVE Alive(cds'[b])
  BY <1>0, <1>3 DEF Becomes, InUse, LInv
<1>4. ASSUME NEW b \in CDs, InUse(b)' PROVE Alive(cds[b])'
  BY <1>3, <1>4, AliveMode
<1>5. ASSUME NEW a \in CDs, NEW b \in CDs, a # b, InUse(a)', InUse(b)'
      PROVE  /\ cds'[a].cdid # cds'[b].cdid
             /\ cds'[a].incoming /\ cds'[b].incoming /\ cds'[a].cr = cds'[b].cr =>
                  cds'[a].pipe # cds'[b].pipe
  <2>1. CASE a = c
    BY <1>5, <2>1 DEF Becomes, InUse
  <2>2. CASE b = c
    BY <1>5, <2>2 DEF Becomes, InUse
  <2>3. CASE a # c /\ b # c
    BY <1>5, <2>3 DEF Becomes, InUse, LInv, Distinct
  <2> QED
    BY <2>1, <2>2, <2>3
<1>6. Distinct'
  BY <1>5 DEF Distinct
<1> QED
  BY <1>2, <1>4, <1>6 DEF Preserved, LInv

\* A step that touches no descriptor, or ends some.
LEMMA SomeEnd ==
  ASSUME LInv, mode' = mode,
         \A b \in CDs : cds'[b] = cds[b] \/ cds'[b] = UnusedCd
  PROVE  Preserved
<1>0. UnusedCd.cdid = CDID_UNUSED /\ UnusedCd.alloc = FALSE
  BY DEF UnusedCd
<1>1. \A b \in CDs : ChannelKept(cds[b], cds'[b])
  BY <1>0 DEF ChannelKept
<1>2. \A b \in CDs : InUse(b)' => InUse(b) /\ cds'[b] = cds[b]
  BY <1>0 DEF InUse
<1>3. ASSUME NEW b \in CDs, InUse(b)' PROVE Alive(cds[b])'
  BY <1>2, <1>3, AliveMode DEF LInv
<1>4. Distinct'
  BY <1>2 DEF LInv, Distinct
<1> QED
  BY <1>1, <1>3, <1>4 DEF Preserved, LInv

\* get_cdid never returns a number in use.
LEMMA NewCdidFresh ==
  ASSUME TypeOK, NewCdid # CDID_UNUSED
  PROVE  NewCdid \in 1 .. CdidEnd - 1 /\ \A c \in CDs : cds[c].cdid # NewCdid
<1> DEFINE used == {cds[c].cdid : c \in CDs}
           free == (1 .. CdidEnd - 1) \ used
           after == {k \in free : k > count}
           pool == IF after # {} THEN after ELSE free
<1>1. pool \in SUBSET Nat /\ pool \subseteq free
  OBVIOUS
<1>2. free # {}
  BY DEF NewCdid, NextCdid
<1>3. pool # {}
  BY <1>2
<1>4. NewCdid = CHOOSE k \in pool : \A j \in pool : k <= j
  BY <1>2 DEF NewCdid, NextCdid
<1> HIDE DEF pool
<1>5. NewCdid \in pool
  BY Zenon, <1>1, <1>3, <1>4, LeastExists
<1>6. NewCdid \in free
  BY <1>1, <1>5
<1> QED
  BY <1>6

\* A new call, and what n_allocate_cd is given for it.
Begun(d, p, incoming, cr) ==
  /\ Alive(d) /\ d.cdid = NewCdid /\ d.incoming = incoming /\ d.pipe = p
  /\ incoming => d.cr = cr

Offered(p, incoming, cr) == incoming => cr \in IncomingCRs /\ p \in RxPipes

\* i4b_allocate_cd and n_allocate_cd start a call that is alive.
LEMMA AllocatedAlive ==
  ASSUME IInv, attached, NEW c \in CDs, ~InUse(c), NewCdid # CDID_UNUSED,
         NEW p \in Pipes, NEW incoming \in BOOLEAN, NEW cr \in Nat,
         Offered(p, incoming, cr)
  PROVE  Begun(Allocated(c, p, incoming, cr).d, p, incoming, cr)
<1> DEFINE e == EnvOf(c)
           n == IF incoming THEN cr ELSE NewCdid
           d == [UnusedCd EXCEPT !.cdid = NewCdid, !.incoming = incoming, !.cr = n]
           s == [Ctx(c) EXCEPT !.d = d]
           t == SetPipe(s, p)
           new == IF incoming THEN "INCOMING" ELSE "OUTGOING"
           r == SetState(t, new)
<1>0. e \in Environments /\ Dead(Ctx(c), e)
  BY EnvLemma, DeadLemma
<1>1. NewCdid \in 0 .. CdidEnd - 1
  BY NewCdidType DEF IInv
<1>r. Allocated(c, p, incoming, cr) = r
  BY DEF Allocated
<1>2. /\ d \in Descriptors /\ d.cdid = NewCdid /\ d.pipe = NoPipe
      /\ d.incoming = incoming /\ d.cr = n
  <2>1. n \in Nat
    BY <1>1
  <2>2. UnusedCd.pipe = NoPipe
    BY DEF UnusedCd
  <2> HIDE DEF n
  <2> QED
    BY ZenonT(40), <1>1, <2>1, <2>2, UnusedCdType DEF Descriptors
<1> HIDE DEF d, e
<1>3. s \in Contexts /\ s.d = d /\ s.auto = e.auto
  BY <1>0, <1>2 DEF Dead, Contexts
<1> HIDE DEF s
<1>4. s.auto + 1 < AutoMod
  BY <1>0, <1>3, CallDescAssumption DEF Environments
<1>5. t \in Contexts /\ t.d = [d EXCEPT !.pipe = p]
  BY <1>2, <1>3, <1>4, SetPipeFields
<1> HIDE DEF t
<1>6. t.d.cdid = NewCdid /\ t.d.pipe = p /\ t.d.incoming = incoming /\ t.d.cr = n
  BY <1>2, <1>5 DEF Descriptors
<1>7. new \in States \ {"U0"} /\ new \notin ToStates
  BY EventStates DEF ToStates
<1>8. /\ r \in Contexts /\ r.d.timer /\ r.d.state = new
      /\ r.d.cdid = t.d.cdid /\ r.d.cr = t.d.cr /\ r.d.incoming = t.d.incoming
      /\ r.d.pipe = t.d.pipe
  BY ZenonT(60), <1>5, <1>7, SetStateFields
<1> HIDE DEF r
<1>9. Suits(r.d, r.d.state)
  BY <1>6, <1>8 DEF Suits, Owing, OutStates, InStates, Answered
<1>10. Named(r.d) /\ r.d \in Descriptors
  BY <1>6, <1>8 DEF Named, Contexts, Offered
<1> QED
  BY <1>6, <1>8, <1>9, <1>10, <1>r DEF Alive, Begun

-----------------------------------------------------------------------------
(* The actions. *)

LEMMA CtxAlive ==
  ASSUME IInv, LInv, attached, NEW c \in CDs, InUse(c)
  PROVE  /\ EnvOf(c) \in Environments /\ Live(Ctx(c), EnvOf(c))
         /\ Ctx(c) \in Contexts /\ Ctx(c).d = cds[c] /\ Alive(Ctx(c).d)
BY EnvLemma, LiveLemma, CtxLemma DEF IInv, LInv

\* The end of a handler on a call in use.
LEMMA HandlerPreserves ==
  ASSUME IInv, LInv, NEW c \in CDs, InUse(c), NEW r, Fits(r, EnvOf(c)),
         Ends(cds[c], r.d), Commit(r), mode' = mode
  PROVE  Preserved /\ \A b \in CDs \ {c} : cds'[b] = cds[b]
<1>1. TypeOK
  BY DEF IInv
<1>2. Becomes(c, r.d)
  BY <1>1, FitsId, CommitBecomes
<1> QED
  BY <1>1, <1>2, EndsPreserves DEF Becomes

LEMMA RequestPreserves ==
  ASSUME IInv, LInv, NEW c \in CDs, NEW ev, NEW r, Request(c, ev, r),
         Fits(r, EnvOf(c)),
         ev \in (IF cds[c].incoming THEN IncomingEvents ELSE OutgoingEvents)
           => Ends(cds[c], r.d)
  PROVE  Preserved
<1>1. attached /\ InUse(c) /\ mode' = mode /\ Commit(Update(Ctx(c), ev, r))
  BY DEF Request
<1>2. Live(Ctx(c), EnvOf(c)) /\ Ctx(c) \in Contexts /\ Ctx(c).d = cds[c] /\ Alive(Ctx(c).d)
  BY <1>1, CtxAlive
<1>3. Ends(cds[c], cds[c])
  BY <1>2, SameLives DEF Ends
<1>4. Fits(Update(Ctx(c), ev, r), EnvOf(c)) /\ Ends(cds[c], Update(Ctx(c), ev, r).d)
  BY <1>2, <1>3 DEF Update, Fits
<1> QED
  BY <1>1, <1>4, HandlerPreserves

LEMMA ConnectRequestedEnds ==
  ASSUME IInv, LInv, attached, NEW c \in CDs, InUse(c), NEW ch \in ChannelIEs(c),
         NEW complete \in BOOLEAN
  PROVE  /\ Fits(ConnectRequested(c, ch, complete), EnvOf(c))
         /\ Ends(cds[c], ConnectRequested(c, ch, complete).d)
<1> DEFINE s == IF cds[c].alloc THEN Ctx(c) ELSE [Ctx(c) EXCEPT !.d.chan = ch]
           reserve == NtMode \/ ch \in Channels \cup {CHAN_NOT_ANY}
           a == IF reserve THEN AllocateChannel(s) ELSE s
           e == EnvOf(c)
           r == EvSetupRq(a, complete)
<1>1. /\ e \in Environments /\ Live(Ctx(c), e) /\ Ctx(c) \in Contexts
      /\ Ctx(c).d = cds[c] /\ Alive(cds[c]) /\ ch \in ChannelIds
  BY CtxAlive, ChannelIEsType
<1>2. Live(s, e)
  BY Zenon, <1>1, CountLemma
<1>3. s \in Contexts /\ Stays(cds[c], s.d)
  <2>1. CASE cds[c].alloc
    BY <1>1, <2>1, StaysSame DEF Alive
  <2>2. CASE ~cds[c].alloc
    <3>1. s = [Ctx(c) EXCEPT !.d.chan = ch]
      BY <2>2
    <3>2. s \in Contexts
      BY <1>2 DEF Live
    <3> QED
      BY <1>1, <2>2, <3>1, <3>2 DEF Stays, Contexts, Descriptors
  <2> QED
    BY <2>1, <2>2
<1>d. ConnectRequested(c, ch, complete) =
        IF reserve /\ ~a.d.alloc THEN FreeCd(a) ELSE Update(a, "SETUPRQ", r)
  BY DEF ConnectRequested
<1> HIDE DEF s
<1>4. Live(a, e) /\ a \in Contexts /\ Stays(cds[c], a.d)
  BY <1>2, <1>3, AllocateLemma, AllocateStays, StaysChain
<1> HIDE DEF a
<1>5. Lives(cds[c], a.d) /\ Alive(a.d)
  BY <1>1, <1>4, StaysAlive DEF Lives
<1>6. Dead(FreeCd(a), e) /\ Live(r, e)
  BY <1>1, <1>4, FreeCdLemma, CallerEvents
<1>7. ~a.d.incoming => Lives(a.d, r.d)
  BY <1>4, <1>5, CallerLives
<1> HIDE DEF r
<1>8. ~a.d.incoming => Lives(cds[c], r.d)
  BY <1>4, <1>7, LivesChain
<1>9. Update(a, "SETUPRQ", r) = IF a.d.incoming THEN a ELSE r
  BY DEF Update, IncomingEvents, OutgoingEvents, NeutralEvents
<1> QED
  BY <1>4, <1>5, <1>6, <1>8, <1>9, <1>d, DeadEnds DEF Fits, Ends, Dead

LEMMA ApplicationLife ==
  ASSUME IInv, LInv, Applications
  PROVE  Preserved
<1>l. \A c \in CDs : attached /\ InUse(c) =>
        /\ EnvOf(c) \in Environments /\ Live(Ctx(c), EnvOf(c))
        /\ Ctx(c) \in Contexts /\ Ctx(c).d = cds[c] /\ Alive(Ctx(c).d)
  BY CtxAlive
<1>q. \A c \in CDs : \A ev, r : Request(c, ev, r) => attached /\ InUse(c)
  BY DEF Request
<1>e. \A c \in CDs : attached /\ InUse(c) =>
        /\ Fits(EvRelease(Ctx(c)), EnvOf(c)) /\ Ends(cds[c], EvRelease(Ctx(c)).d)
        /\ Fits(EvSetRjRs(Ctx(c)), EnvOf(c)) /\ Ends(cds[c], EvSetRjRs(Ctx(c)).d)
  <2>1. ASSUME NEW c \in CDs, attached, InUse(c)
        PROVE  Dead(EvRelease(Ctx(c)), EnvOf(c)) /\ Dead(EvSetRjRs(Ctx(c)), EnvOf(c))
    BY <1>l, <2>1, ReleaseLemma DEF EvRelease, EvSetRjRs
  <2> QED
    BY <2>1, DeadEnds DEF Fits
<1>1. CASE CdidReq
  <2>1. CASE NoCdid
    BY <2>1, SomeEnd DEF NoCdid
  <2>2. CASE ~NoCdid
    <3> DEFINE c == Lowest(Unused)
               s == Allocated(c, 0, FALSE, 0)
    <3>1. /\ attached /\ Unused # {} /\ NewCdid # CDID_UNUSED
          /\ Commit(s) /\ mode' = mode
      BY Zenon, <1>1, <2>2 DEF CdidReq
    <3>2. c \in CDs /\ ~InUse(c) /\ 0 \in Pipes /\ TypeOK /\ UnusedHoldsNothing
      BY <3>1, LowestUnused, CallDescAssumption DEF IInv
    <3> HIDE DEF c
    <3>3. Live(s, EnvOf(c))
      BY Zenon, <3>1, <3>2, AllocatedLemma
    <3>z. 0 \in Nat /\ FALSE \in BOOLEAN /\ Offered(0, FALSE, 0)
      BY DEF Offered
    <3>b. Begun(s.d, 0, FALSE, 0)
      BY ZenonT(40), <3>1, <3>2, <3>z, AllocatedAlive
    <3>4. Alive(s.d) /\ s.d.cdid = NewCdid /\ s.d.incoming = FALSE
      BY ZenonT(60), <3>b DEF Begun
    <3> HIDE DEF s
    <3>5. Becomes(c, s.d)
      BY <3>1, <3>2, <3>3, FitsId, CommitBecomes DEF Fits
    <3>6. \A b \in CDs : cds[b].cdid # s.d.cdid
      BY <3>1, <3>2, <3>4, NewCdidFresh
    <3> QED
      BY <3>1, <3>2, <3>4, <3>5, <3>6, BeginsPreserves
  <2> QED
    BY <2>1, <2>2
<1>2. CASE ConnectReq
  <2>1. PICK c \in CDs, complete \in BOOLEAN :
          \E ch \in ChannelIEs(c) :
            /\ attached /\ InUse(c) /\ Commit(ConnectRequested(c, ch, complete))
            /\ mode' = mode
    BY <1>2 DEF ConnectReq
  <2> QED
    BY <2>1, ConnectRequestedEnds, HandlerPreserves
<1>3. CASE ConnectRespAccept
  <2>1. PICK c \in CDs : Request(c, "SETACRS", EvSetAcRs(Ctx(c)))
    BY <1>3 DEF ConnectRespAccept
  <2>2. Fits(EvSetAcRs(Ctx(c)), EnvOf(c)) /\ Ends(cds[c], EvSetAcRs(Ctx(c)).d)
    BY <1>l, <1>q, <2>1, CalleeEvents, CalleeLives DEF Fits, Ends
  <2> QED
    BY <2>1, <2>2, RequestPreserves
<1>4. CASE ConnectRespReject
  BY <1>4, <1>e, <1>q, RequestPreserves DEF ConnectRespReject
<1>5. CASE ConnectRespIgnore
  <2> DEFINE x(c) == [Ctx(c) EXCEPT !.d.ind = @ - 1]
  <2>1. PICK c \in CDs : Request(c, "RELEASE",
          IF cds[c].ind < 2 THEN EvRelease(Ctx(c)) ELSE x(c))
    BY <1>5 DEF ConnectRespIgnore
  <2>2. attached /\ InUse(c)
    BY <1>q, <2>1
  <2>3. ASSUME ~(cds[c].ind < 2)
        PROVE  Fits(x(c), EnvOf(c)) /\ Ends(cds[c], x(c).d)
    <3>1. /\ Ctx(c) \in Contexts /\ Ctx(c).d = cds[c] /\ Alive(cds[c])
          /\ Live(Ctx(c), EnvOf(c)) /\ cds[c].ind \in 0 .. IndMax
      BY <1>l, <2>2 DEF Alive, Descriptors
    <3>2. Ctx(c).d.ind - 1 \in 0 .. IndMax
      BY <2>3, <3>1, CallAssumption
    <3>3. Live(x(c), EnvOf(c))
      BY ZenonT(40), <3>1, <3>2, CountLemma
    <3>4. Stays(Ctx(c).d, x(c).d)
      BY ZenonT(40), <3>1, <3>2, CountStays
    <3> HIDE DEF x
    <3> QED
      BY <3>1, <3>3, <3>4, StaysAlive DEF Fits, Ends
  <2> HIDE DEF x
  <2> QED
    BY <1>e, <2>1, <2>2, <2>3, RequestPreserves
<1>6. CASE DisconnectReq
  BY <1>6, <1>e, <1>q, RequestPreserves DEF DisconnectReq
<1>7. CASE AlertReq
  <2>1. PICK c \in CDs : \/ Request(c, "ALERTRQ", EvAlertRq(Ctx(c)))
                         \/ Request(c, "PROCEEDINGRQ", EvProceedingRq(Ctx(c)))
    BY <1>7 DEF AlertReq
  <2>2. /\ Fits(EvAlertRq(Ctx(c)), EnvOf(c)) /\ Ends(cds[c], EvAlertRq(Ctx(c)).d)
        /\ Fits(EvProceedingRq(Ctx(c)), EnvOf(c)) /\ Ends(cds[c], EvProceedingRq(Ctx(c)).d)
    BY <1>l, <1>q, <2>1, CalleeEvents, CalleeLives DEF Fits, Ends
  <2> QED
    BY <2>1, <2>2, RequestPreserves
<1>8. CASE InformationReq
  <2>1. PICK c \in CDs : Request(c, "INFORQ", EvInfoRq(Ctx(c)))
    BY <1>8 DEF InformationReq
  <2>2. Fits(EvInfoRq(Ctx(c)), EnvOf(c)) /\ Ends(cds[c], EvInfoRq(Ctx(c)).d)
    BY <1>l, <1>q, <2>1, CallerEvents, CallerLives DEF Fits, Ends
  <2> QED
    BY <2>1, <2>2, RequestPreserves
<1>9. CASE HoldReq
  <2>1. PICK c \in CDs : Request(c, "HOLD_REQ", EvHoldReq(Ctx(c)))
    BY <1>9 DEF HoldReq
  <2>2. Fits(EvHoldReq(Ctx(c)), EnvOf(c)) /\ Ends(cds[c], EvHoldReq(Ctx(c)).d)
    BY <1>l, <1>q, <2>1, NeutralEventsLemma, NeutralLives DEF Fits, Ends
  <2> QED
    BY <2>1, <2>2, RequestPreserves
<1>10. CASE RetrieveReq
  <2>1. PICK c \in CDs : Request(c, "RETRIEVE_REQ", EvRetrieveReq(Ctx(c)))
    BY <1>10 DEF RetrieveReq
  <2>2. Fits(EvRetrieveReq(Ctx(c)), EnvOf(c)) /\ Ends(cds[c], EvRetrieveReq(Ctx(c)).d)
    BY <1>l, <1>q, <2>1, NeutralEventsLemma, NeutralLives DEF Fits, Ends
  <2> QED
    BY <2>1, <2>2, RequestPreserves
<1>11. CASE LinkReq
  <2>1. PICK c \in CDs, drv \in Drivers \cup {"TONE"}, accepts \in BOOLEAN :
          attached /\ InUse(c) /\ Commit(Link(Ctx(c), drv, accepts)) /\ mode' = mode
    BY <1>11 DEF LinkReq
  <2>2. Live(Link(Ctx(c), drv, accepts), EnvOf(c))
    BY <1>l, <2>1, LinkLemma
  <2>3. Ends(cds[c], Link(Ctx(c), drv, accepts).d)
    BY <1>l, <2>1, LinkStays, StaysAlive DEF Ends
  <2> QED
    BY <2>1, <2>2, <2>3, HandlerPreserves DEF Fits
<1>12. CASE UnlinkReq
  <2>1. PICK c \in CDs :
          attached /\ InUse(c) /\ Commit(Unlink(Ctx(c))) /\ mode' = mode
    BY <1>12 DEF UnlinkReq
  <2>2. Live(Unlink(Ctx(c)), EnvOf(c))
    BY ZenonT(40), <1>l, <2>1, UnlinkLemma
  <2>3. Ends(cds[c], Unlink(Ctx(c)).d)
    BY <1>l, <2>1, UnlinkStays, StaysAlive DEF Ends
  <2> QED
    BY <2>1, <2>2, <2>3, HandlerPreserves DEF Fits
<1> QED
  BY <1>1, <1>2, <1>3, <1>4, <1>5, <1>6, <1>7, <1>8, <1>9, <1>10, <1>11, <1>12
     DEF Applications

\* dss1_decode_ie changes a channel only while none is allocated.
LEMMA DecodedAlive ==
  ASSUME IInv, LInv, attached, NEW c \in CDs, InUse(c), NEW ch \in ChannelIEs(c)
  PROVE  LET s == Decoded(c, ch) IN
         /\ EnvOf(c) \in Environments /\ Live(s, EnvOf(c)) /\ s \in Contexts
         /\ Stays(cds[c], s.d) /\ Alive(s.d)
<1> DEFINE s == Decoded(c, ch)
           n == IF cds[c].alloc THEN cds[c].chan ELSE ch
           d == [cds[c] EXCEPT !.responded = TRUE, !.chan = n]
<1>c. /\ EnvOf(c) \in Environments /\ Ctx(c) \in Contexts /\ Ctx(c).d = cds[c]
      /\ Alive(cds[c])
  BY ZenonT(60), CtxAlive
<1>l. Live(s, EnvOf(c)) /\ s \in Contexts
  BY ZenonT(60), DecodedLive DEF Live
<1>1. /\ EnvOf(c) \in Environments /\ Live(s, EnvOf(c)) /\ s \in Contexts
      /\ Ctx(c) \in Contexts /\ Ctx(c).d = cds[c] /\ Alive(cds[c])
      /\ cds[c] \in Descriptors
  BY <1>c, <1>l DEF Alive
<1>2. n \in ChannelIds /\ (cds[c].alloc => n = cds[c].chan)
  BY <1>1, ChannelIEsType DEF Descriptors
<1>3. s.d = d
  BY Zenon, <1>1 DEF Decoded, Contexts, Descriptors
<1> HIDE DEF n, s
<1>4. /\ d.cdid = cds[c].cdid /\ d.cr = cds[c].cr /\ d.incoming = cds[c].incoming
      /\ d.pipe = cds[c].pipe /\ d.state = cds[c].state /\ d.hold = cds[c].hold
      /\ d.timer = cds[c].timer /\ d.alloc = cds[c].alloc /\ d.chan = n
      /\ d.need_release = cds[c].need_release
  BY Zenon, <1>1 DEF Descriptors
<1> HIDE DEF d
<1>5. Stays(cds[c], s.d)
  BY <1>1, <1>2, <1>3, <1>4 DEF Stays, Contexts
<1>6. Alive(s.d)
  BY <1>1, <1>5, StaysAlive DEF Lives
<1> QED
  BY <1>1, <1>5, <1>6 DEF s

\* A message changes a call only if the call is on the pipe, or on none yet.
Spares(p) ==
  \A b \in CDs : InUse(b) /\ cds[b].pipe \notin {0, p} => cds'[b] = cds[b]

LEMMA ReceivePreserves ==
  ASSUME IInv, LInv, NEW p, NEW c \in CDs, NEW ch \in ChannelIEs(c), NEW ev, NEW r,
         Receive(c, p, ev, Decoded(c, ch), r), Fits(r, EnvOf(c)),
         ev \in (IF cds[c].incoming THEN IncomingEvents ELSE OutgoingEvents)
           => Ends(Decoded(c, ch).d, r.d)
  PROVE  Preserved /\ Spares(p)
<1> DEFINE s == Decoded(c, ch)
           t == Update(s, ev, r)
<1>1. /\ attached /\ InUse(c) /\ mode' = mode /\ Commit(t) /\ cds[c].pipe \in {0, p}
  BY ZenonT(60) DEF Receive, Reaches, Matching
<1>2. Live(s, EnvOf(c)) /\ s \in Contexts /\ Stays(cds[c], s.d) /\ Alive(s.d)
  BY <1>1, DecodedAlive
<1>d. t = IF ev \in (IF s.d.incoming THEN IncomingEvents ELSE OutgoingEvents) THEN r ELSE s
  BY DEF Update
<1>3. Ends(s.d, s.d) /\ s.d.incoming = cds[c].incoming
  BY <1>2, SameLives DEF Ends, Stays
<1>4. Fits(t, EnvOf(c)) /\ Ends(s.d, t.d)
  BY <1>2, <1>3, <1>d DEF Fits
<1> HIDE DEF s, t
<1>5. Ends(cds[c], t.d)
  BY <1>2, <1>4, LivesChain DEF Ends
<1>6. Preserved /\ \A b \in CDs \ {c} : cds'[b] = cds[b]
  BY <1>1, <1>4, <1>5, HandlerPreserves
<1> QED
  BY <1>1, <1>6 DEF Spares

\* A call from the other end, with a reference that no call on its pipe has.
LEMMA NewCallPreserves ==
  ASSUME IInv, LInv, NEW p \in RxPipes, RxNewCall(p)
  PROVE  Preserved /\ Spares(p)
<1>p. p \in Pipes
  BY CallDescAssumption DEF RxPipes
<1>1. PICK cr \in IncomingCRs, ch \in ChanInputs, ind \in 0 .. IndMax,
           complete \in BOOLEAN, accepts \in BOOLEAN, tone \in {FALSE, NtMode} :
        /\ attached /\ Unused # {} /\ Matching(p, cr) = {}
        /\ \/ NoCdid
           \/ /\ NewCdid # CDID_UNUSED
              /\ Commit(EvSetup(NewCall(p, cr, ch), complete, tone, accepts, ind))
              /\ CountCdid
              /\ UNCHANGED <<attached, mode, silent>>
  BY ZenonT(60) DEF RxNewCall
<1>2. CASE NoCdid
  BY <1>2, SomeEnd DEF NoCdid, Spares
<1>3. CASE ~NoCdid
  <2> DEFINE c == Lowest(Unused)
             n == Allocated(c, p, TRUE, cr)
             s == NewCall(p, cr, ch)
             t == EvSetup(s, complete, tone, accepts, ind)
             d == [n.d EXCEPT !.responded = TRUE, !.chan = ch]
  <2>1. NewCdid # CDID_UNUSED /\ mode' = mode /\ Commit(t)
    BY ZenonT(60), <1>1, <1>3
  <2>2. /\ c \in CDs /\ ~InUse(c) /\ TypeOK /\ UnusedHoldsNothing
        /\ EnvOf(c) \in Environments
    BY <1>1, LowestUnused, EnvLemma DEF IInv
  <2>n. s = [n EXCEPT !.d.responded = TRUE, !.d.chan = ch]
    BY DEF NewCall
  <2> HIDE DEF c, s
  <2>3. cr \in Nat /\ ch \in ChannelIds /\ tone \in BOOLEAN /\ TRUE \in BOOLEAN
    BY Zenon, CallAssumption, NtModeType
  <2>4. Live(n, EnvOf(c)) /\ ~n.d.alloc
    BY Zenon, <1>p, <1>1, <2>1, <2>2, <2>3, AllocatedLemma
  <2>o. Offered(p, TRUE, cr)
    BY DEF Offered
  <2>b. Begun(n.d, p, TRUE, cr)
    BY ZenonT(40), <1>p, <1>1, <2>1, <2>2, <2>3, <2>o, AllocatedAlive
  <2> HIDE DEF n
  <2>5. /\ Alive(n.d) /\ n.d.cdid = NewCdid /\ n.d.incoming = TRUE /\ n.d.pipe = p
        /\ n.d.cr = cr
    BY <2>b DEF Begun
  <2>6. Live([n EXCEPT !.d.responded = TRUE,
                       !.d.chan = IF n.d.alloc THEN @ ELSE ch], EnvOf(c))
    BY Zenon, <2>3, <2>4, DecodedLemma
  <2>7. Live(s, EnvOf(c)) /\ s \in Contexts
    BY <2>4, <2>6, <2>n DEF Live
  <2>8. s.d = d /\ n.d \in Descriptors
    BY Zenon, <2>4, <2>n DEF Live, Contexts, Descriptors
  <2>9. /\ d.cdid = n.d.cdid /\ d.cr = n.d.cr /\ d.incoming = n.d.incoming
        /\ d.pipe = n.d.pipe /\ d.state = n.d.state /\ d.hold = n.d.hold
        /\ d.timer = n.d.timer /\ d.need_release = n.d.need_release
    BY Zenon, <2>8 DEF Descriptors
  <2> HIDE DEF d
  <2>10. Stays(n.d, s.d)
    BY <2>4, <2>7, <2>8, <2>9 DEF Stays, Contexts
  <2>11. Alive(s.d) /\ Identity(n.d, s.d)
    BY <2>5, <2>10, StaysAlive DEF Lives
  <2>12. Ends(s.d, t.d) /\ Fits(t, EnvOf(c))
    BY ZenonT(60), <2>2, <2>3, <2>7, <2>11, SetupEnds, CalleeEvents
  <2> HIDE DEF t
  <2>13. Becomes(c, t.d)
    BY <2>1, <2>2, <2>12, FitsId, CommitBecomes
  <2>14. t.d = UnusedCd \/ (Alive(t.d) /\ Identity(s.d, t.d))
    BY <2>12 DEF Ends, Lives
  <2>15. UnusedCd.cdid = CDID_UNUSED
    BY DEF UnusedCd
  <2>16. ASSUME t.d.cdid # CDID_UNUSED
         PROVE  /\ \A b \in CDs : cds[b].cdid # t.d.cdid
                /\ \A b \in CDs : InUse(b) /\ cds[b].cr = t.d.cr => cds[b].pipe # t.d.pipe
    <3>1. t.d.cdid = NewCdid /\ t.d.cr = cr /\ t.d.pipe = p
      BY <2>5, <2>11, <2>14, <2>15, <2>16 DEF Identity
    <3>2. \A b \in CDs : cds[b].cdid # t.d.cdid
      BY <2>1, <2>2, <3>1, NewCdidFresh
    <3>3. \A b \in CDs : InUse(b) /\ cds[b].cr = cr => cds[b].pipe # p
      BY <1>1 DEF Matching
    <3> QED
      BY <3>1, <3>2, <3>3
  <2>17. Preserved
    BY <2>1, <2>2, <2>13, <2>14, <2>16, BeginsPreserves
  <2>18. Spares(p)
    BY <2>2, <2>13 DEF Spares, Becomes
  <2> QED
    BY <2>17, <2>18
<1> QED
  BY <1>2, <1>3

\* Messages received on pipe p.
LEMMA NetworkLife ==
  ASSUME IInv, LInv, NEW p \in RxPipes, Network(p)
  PROVE  Preserved /\ Spares(p)
<1>p. p \in Pipes
  BY CallDescAssumption DEF RxPipes
<1>l. ASSUME NEW c \in CDs, NEW ch \in ChannelIEs(c), NEW ev, NEW r,
             Receive(c, p, ev, Decoded(c, ch), r)
      PROVE  /\ EnvOf(c) \in Environments /\ Live(Decoded(c, ch), EnvOf(c))
             /\ Decoded(c, ch) \in Contexts /\ Alive(Decoded(c, ch).d)
             /\ Ends(Decoded(c, ch).d, Decoded(c, ch).d)
             /\ Decoded(c, ch).d.incoming = cds[c].incoming
             /\ Dead(EvRelease(Decoded(c, ch)), EnvOf(c))
  <2>1. attached /\ InUse(c)
    BY <1>l DEF Receive, Reaches
  <2>2. /\ EnvOf(c) \in Environments /\ Live(Decoded(c, ch), EnvOf(c))
        /\ Decoded(c, ch) \in Contexts /\ Stays(cds[c], Decoded(c, ch).d)
        /\ Alive(Decoded(c, ch).d)
    BY <2>1, DecodedAlive
  <2>3. Dead(EvRelease(Decoded(c, ch)), EnvOf(c))
    BY <2>2, ReleaseLemma DEF EvRelease
  <2>4. Ends(Decoded(c, ch).d, Decoded(c, ch).d)
    BY <2>2, SameLives DEF Ends
  <2> QED
    BY <2>2, <2>3, <2>4 DEF Stays
<1>1. CASE RxNewCall(p)
  BY <1>1, NewCallPreserves
<1>2. CASE RxSetup(p)
  <2>1. PICK c \in CDs, ind \in 0 .. IndMax, complete \in BOOLEAN,
             accepts \in BOOLEAN, tone \in {FALSE, NtMode} :
          \E ch \in ChannelIEs(c) :
            Receive(c, p, "SETUP", Decoded(c, ch),
                    EvSetup(Decoded(c, ch), complete, tone, accepts, ind))
    BY Zenon, <1>2 DEF RxSetup
  <2>2. PICK ch \in ChannelIEs(c) :
          Receive(c, p, "SETUP", Decoded(c, ch),
                  EvSetup(Decoded(c, ch), complete, tone, accepts, ind))
    BY <2>1
  <2>3. tone \in BOOLEAN
    BY ZenonT(40), NtModeType
  <2> DEFINE s == Decoded(c, ch)
             r == EvSetup(s, complete, tone, accepts, ind)
  <2>4. EnvOf(c) \in Environments /\ Live(s, EnvOf(c)) /\ Alive(s.d)
    BY ZenonT(60), <1>l, <2>2
  <2>5. Fits(r, EnvOf(c)) /\ Ends(s.d, r.d)
    BY ZenonT(60), <2>3, <2>4, CalleeEvents, SetupEnds
  <2> QED
    BY <2>2, <2>5, ReceivePreserves
<1>3. CASE RxProgress(p)
  <2>1. PICK c \in CDs : \E ch \in ChannelIEs(c) :
          LET s == Decoded(c, ch) IN
          \/ Receive(c, p, "SETUPAK", s, EvSetupAk(s))
          \/ Receive(c, p, "CALLPRC", s, EvCallPrc(s))
          \/ Receive(c, p, "ALERT", s, EvAlert(s))
          \/ Receive(c, p, "INFO", s, EvInfo(s))
    BY <1>3 DEF RxProgress
  <2>2. PICK ch \in ChannelIEs(c) :
          LET s == Decoded(c, ch) IN
          \/ Receive(c, p, "SETUPAK", s, EvSetupAk(s))
          \/ Receive(c, p, "CALLPRC", s, EvCallPrc(s))
          \/ Receive(c, p, "ALERT", s, EvAlert(s))
          \/ Receive(c, p, "INFO", s, EvInfo(s))
    BY <2>1
  <2> DEFINE s == Decoded(c, ch)
  <2>3. /\ EnvOf(c) \in Environments /\ Live(s, EnvOf(c)) /\ s \in Contexts
        /\ Alive(s.d)
    BY ZenonT(60), <1>l, <2>2
  <2>4. /\ Fits(EvSetupAk(s), EnvOf(c)) /\ Fits(EvCallPrc(s), EnvOf(c))
        /\ Fits(EvAlert(s), EnvOf(c)) /\ Fits(EvInfo(s), EnvOf(c))
    BY <2>3, CallerEvents, CalleeEvents DEF Fits
  <2>5. /\ Ends(s.d, EvSetupAk(s).d) /\ Ends(s.d, EvCallPrc(s).d)
        /\ Ends(s.d, EvAlert(s).d) /\ Ends(s.d, EvInfo(s).d)
    BY ZenonT(60), <2>3, CallerLives, CalleeLives DEF Ends
  <2> QED
    BY <2>2, <2>4, <2>5, ReceivePreserves
<1>4. CASE RxConnect(p)
  <2>1. PICK c \in CDs : \E ch \in ChannelIEs(c) :
          Receive(c, p, "CONNECT", Decoded(c, ch), EvConnect(Decoded(c, ch), p))
    BY <1>4 DEF RxConnect
  <2>2. PICK ch \in ChannelIEs(c) :
          Receive(c, p, "CONNECT", Decoded(c, ch), EvConnect(Decoded(c, ch), p))
    BY <2>1
  <2> DEFINE s == Decoded(c, ch)
  <2>3. /\ EnvOf(c) \in Environments /\ Live(s, EnvOf(c)) /\ Alive(s.d)
        /\ s.d.incoming = cds[c].incoming
    BY <1>l, <2>2
  <2>4. Fits(EvConnect(s, p), EnvOf(c))
    BY ZenonT(60), <1>p, <2>3, CallerEvents
  <2>5. ~cds[c].incoming => Ends(s.d, EvConnect(s, p).d)
    BY <1>p, <2>3, ConnectEnds
  <2>6. "CONNECT" \notin IncomingEvents
    BY DEF IncomingEvents, NeutralEvents
  <2> QED
    BY <2>2, <2>4, <2>5, <2>6, ReceivePreserves
<1>5. CASE RxConAck(p)
  <2>1. PICK c \in CDs : \E ch \in ChannelIEs(c) :
          Receive(c, p, "CONACK", Decoded(c, ch), EvConAck(Decoded(c, ch)))
    BY <1>5 DEF RxConAck
  <2>2. PICK ch \in ChannelIEs(c) :
          Receive(c, p, "CONACK", Decoded(c, ch), EvConAck(Decoded(c, ch)))
    BY <2>1
  <2>3. Fits(EvConAck(Decoded(c, ch)), EnvOf(c))
    BY <1>l, <2>2, CalleeEvents DEF Fits
  <2>4. Ends(Decoded(c, ch).d, EvConAck(Decoded(c, ch)).d)
    BY ZenonT(60), <1>l, <2>2, CalleeLives DEF Ends
  <2> QED
    BY <2>2, <2>3, <2>4, ReceivePreserves
<1>6. CASE RxStatus(p)
  <2>1. PICK c \in CDs, live \in BOOLEAN : \E ch \in ChannelIEs(c) :
          Receive(c, p, "STATUS", Decoded(c, ch), EvStatus(Decoded(c, ch), live))
    BY <1>6 DEF RxStatus
  <2>2. PICK ch \in ChannelIEs(c) :
          Receive(c, p, "STATUS", Decoded(c, ch), EvStatus(Decoded(c, ch), live))
    BY <2>1
  <2>3. Fits(EvStatus(Decoded(c, ch), live), EnvOf(c))
    BY ZenonT(60), <1>l, <2>2, NeutralEventsLemma DEF Fits
  <2>4. Ends(Decoded(c, ch).d, EvStatus(Decoded(c, ch), live).d)
    BY ZenonT(60), <1>l, <2>2, NeutralLives DEF Ends
  <2> QED
    BY <2>2, <2>3, <2>4, ReceivePreserves
<1>7. CASE RxHold(p)
  <2>1. PICK c \in CDs : \E ch \in ChannelIEs(c) :
          Receive(c, p, "HOLD_IND", Decoded(c, ch), EvHoldInd(Decoded(c, ch)))
    BY <1>7 DEF RxHold
  <2>2. PICK ch \in ChannelIEs(c) :
          Receive(c, p, "HOLD_IND", Decoded(c, ch), EvHoldInd(Decoded(c, ch)))
    BY <2>1
  <2>3. Fits(EvHoldInd(Decoded(c, ch)), EnvOf(c))
    BY ZenonT(60), <1>l, <2>2, NeutralEventsLemma DEF Fits
  <2>4. Ends(Decoded(c, ch).d, EvHoldInd(Decoded(c, ch)).d)
    BY ZenonT(60), <1>l, <2>2, NeutralLives DEF Ends
  <2> QED
    BY <2>2, <2>3, <2>4, ReceivePreserves
<1>8. CASE RxRetrieve(p)
  <2>1. PICK c \in CDs, drv \in Drivers \cup {"TONE"}, accepts \in BOOLEAN :
          \E ch \in ChannelIEs(c) :
            LET s == Decoded(c, ch) IN
            \/ Receive(c, p, "RETRIEVE_IND", s, EvRetrieveInd(s, drv, accepts))
            \/ Receive(c, p, "RETRIEVE_ACK", s, EvRetrieveAck(s, drv, accepts))
    BY <1>8 DEF RxRetrieve
  <2>2. PICK ch \in ChannelIEs(c) :
          LET s == Decoded(c, ch) IN
          \/ Receive(c, p, "RETRIEVE_IND", s, EvRetrieveInd(s, drv, accepts))
          \/ Receive(c, p, "RETRIEVE_ACK", s, EvRetrieveAck(s, drv, accepts))
    BY <2>1
  <2> DEFINE s == Decoded(c, ch)
  <2>3. /\ EnvOf(c) \in Environments /\ Live(s, EnvOf(c)) /\ s \in Contexts
        /\ Alive(s.d)
    BY ZenonT(60), <1>l, <2>2
  <2>4. /\ Fits(EvRetrieveInd(s, drv, accepts), EnvOf(c))
        /\ Fits(EvRetrieveAck(s, drv, accepts), EnvOf(c))
    BY <2>3, NeutralEventsLemma DEF Fits
  <2>5. /\ Ends(s.d, EvRetrieveInd(s, drv, accepts).d)
        /\ Ends(s.d, EvRetrieveAck(s, drv, accepts).d)
    BY ZenonT(60), <2>3, NeutralLives DEF Ends
  <2> QED
    BY <2>2, <2>4, <2>5, ReceivePreserves
<1>9. CASE RxRelease(p)
  <2> DEFINE x(c, ch, rejects) ==
               IF Multipoint /\ cds[c].pipe = 0 /\ ~rejects THEN Decoded(c, ch)
               ELSE EvRelease(Decoded(c, ch))
  <2>1. PICK c \in CDs, rejects \in BOOLEAN : \E ch \in ChannelIEs(c) :
          Receive(c, p, "RELEASE", Decoded(c, ch), x(c, ch, rejects))
    BY Zenon, <1>9 DEF RxRelease
  <2>2. PICK ch \in ChannelIEs(c) :
          Receive(c, p, "RELEASE", Decoded(c, ch), x(c, ch, rejects))
    BY <2>1
  <2>3. Fits(x(c, ch, rejects), EnvOf(c)) /\ Ends(Decoded(c, ch).d, x(c, ch, rejects).d)
    <3>1. /\ Live(Decoded(c, ch), EnvOf(c)) /\ Dead(EvRelease(Decoded(c, ch)), EnvOf(c))
          /\ Ends(Decoded(c, ch).d, Decoded(c, ch).d)
      BY <1>l, <2>2
    <3> QED
      BY <3>1, DeadEnds DEF Fits
  <2> HIDE DEF x
  <2> QED
    BY <2>2, <2>3, ReceivePreserves
<1>10. CASE RxDisconnect(p)
  <2> DEFINE x(c, ch) == IF Multipoint THEN Decoded(c, ch) ELSE EvDisconnect(Decoded(c, ch))
  <2>1. PICK c \in CDs : \E ch \in ChannelIEs(c) :
          Receive(c, p, "DISCONNECT", Decoded(c, ch), x(c, ch))
    BY Zenon, <1>10 DEF RxDisconnect
  <2>2. PICK ch \in ChannelIEs(c) :
          Receive(c, p, "DISCONNECT", Decoded(c, ch), x(c, ch))
    BY <2>1
  <2>3. Fits(x(c, ch), EnvOf(c)) /\ Ends(Decoded(c, ch).d, x(c, ch).d)
    <3>1. /\ EnvOf(c) \in Environments /\ Live(Decoded(c, ch), EnvOf(c))
          /\ Decoded(c, ch) \in Contexts /\ Alive(Decoded(c, ch).d)
          /\ Ends(Decoded(c, ch).d, Decoded(c, ch).d)
      BY ZenonT(60), <1>l, <2>2
    <3>2. Live(EvDisconnect(Decoded(c, ch)), EnvOf(c))
      BY <3>1, NeutralEventsLemma
    <3>3. Lives(Decoded(c, ch).d, EvDisconnect(Decoded(c, ch)).d)
      BY ZenonT(60), <3>1, NeutralLives
    <3> QED
      BY <3>1, <3>2, <3>3 DEF Fits, Ends
  <2> HIDE DEF x
  <2> QED
    BY <2>2, <2>3, ReceivePreserves
<1> QED
  BY <1>1, <1>2, <1>3, <1>4, <1>5, <1>6, <1>7, <1>8, <1>9, <1>10 DEF Network

\* The timer of a call: the next state, or the end.
LEMMA TimeoutLife ==
  ASSUME IInv, LInv, NEW c \in CDs, Timeout(c)
  PROVE  Preserved
<1> DEFINE s == [Ctx(c) EXCEPT !.d.timer = FALSE]
           new == TimeoutState(cds[c].state)
           r == SetState(s, new)
<1>1. attached /\ InUse(c) /\ mode' = mode /\ Commit(r)
  BY DEF Timeout
<1>2. /\ EnvOf(c) \in Environments /\ Live(Ctx(c), EnvOf(c))
      /\ Ctx(c) \in Contexts /\ Ctx(c).d = cds[c] /\ Alive(cds[c])
  BY <1>1, CtxAlive
<1>3. Live(s, EnvOf(c)) /\ s \in Contexts
  BY ZenonT(40), <1>2, FieldLemma DEF Live
<1>4. s.d = [cds[c] EXCEPT !.timer = FALSE] /\ cds[c] \in Descriptors
  BY <1>2 DEF Contexts, Descriptors
<1> HIDE DEF s
<1>5. /\ s.d.cdid = cds[c].cdid /\ s.d.cr = cds[c].cr /\ s.d.incoming = cds[c].incoming
      /\ s.d.pipe = cds[c].pipe /\ s.d.hold = cds[c].hold /\ s.d.alloc = cds[c].alloc
      /\ s.d.chan = cds[c].chan /\ s.d.need_release = cds[c].need_release
  BY Zenon, <1>4 DEF Descriptors
<1>6. Grows(cds[c], s)
  BY <1>3, <1>5 DEF Grows, Keeps, Identity, Contexts
<1>7. cds[c].state \in States /\ Suits(cds[c], cds[c].state)
  BY ZenonT(60), <1>2 DEF Alive, Descriptors
<1>8. new \in States
  BY <1>7, TimeoutStates
<1>9. Fits(r, EnvOf(c))
  BY <1>2, <1>3, <1>8, SetStateLemma DEF Fits
<1>10. CASE new = "U0"
  <2>1. Dead(r, EnvOf(c))
    BY <1>2, <1>3, <1>8, <1>10, SetStateLemma
  <2> QED
    BY <1>1, <1>9, <2>1, DeadEnds, HandlerPreserves
<1>11. CASE new # "U0"
  <2>1. Suits(cds[c], new)
    BY <1>7, <1>11, TimeoutSuits
  <2> HIDE DEF new
  <2>2. Suits(s.d, new)
    BY <1>5, <2>1, SuitsSame
  <2>3. Lives(cds[c], r.d)
    BY <1>2, <1>6, <1>8, <2>2, SetStateLives
  <2> HIDE DEF r
  <2>4. Ends(cds[c], r.d)
    BY <2>3 DEF Ends
  <2> QED
    BY <1>1, <1>9, <2>4, HandlerPreserves
<1> QED
  BY <1>10, <1>11

LEMMA ControllerLife ==
  ASSUME IInv, LInv, PipeReset \/ Attach \/ Detach
  PROVE  Preserved
<1>0. cds \in [CDs -> Descriptors]
  BY DEF IInv, TypeOK
<1>1. CASE PipeReset
  <2>1. PICK p \in Pipes : ReleaseAll(CallsOn(p), res.auto) /\ mode' = mode
    BY <1>1 DEF PipeReset
  <2>2. \A b \in CDs : cds'[b] = cds[b] \/ cds'[b] = UnusedCd
    BY <2>1 DEF ReleaseAll
  <2> QED
    BY <2>1, <2>2, SomeEnd
<1>2. CASE Detach
  <2>1. ReleaseAll({c \in CDs : InUse(c)}, 0) /\ mode' = mode
    BY <1>2 DEF Detach
  <2>2. \A b \in CDs : cds'[b] = cds[b] \/ cds'[b] = UnusedCd
    BY <2>1 DEF ReleaseAll
  <2> QED
    BY <2>1, <2>2, SomeEnd
<1>3. CASE Attach
  <2>1. \A b \in CDs : cds'[b] = UnusedCd
    BY <1>3 DEF Attach
  <2>2. UnusedCd.cdid = CDID_UNUSED /\ UnusedCd.alloc = FALSE
    BY DEF UnusedCd
  <2>3. \A b \in CDs : ~InUse(b)' /\ ChannelKept(cds[b], cds'[b])
    BY <2>1, <2>2 DEF InUse, ChannelKept
  <2> QED
    BY <2>3 DEF Preserved, LInv, Distinct
<1> QED
  BY <1>1, <1>2, <1>3

-----------------------------------------------------------------------------
(* The theorems. *)

LEMMA InitLInv ==
  ASSUME Init
  PROVE  LInv
<1>1. \A c \in CDs : ~InUse(c)
  BY DEF Init, InUse, UnusedCd
<1> QED
  BY <1>1 DEF LInv, Distinct

LEMMA IdleState ==
  ASSUME IInv, NEW c \in CDs, ~InUse(c)
  PROVE  cds[c].state = "U0" /\ cds[c].timer = FALSE
<1>1. cds[c] = UnusedCd
  BY DEF IInv, UnusedHoldsNothing
<1>2. UnusedCd.state = "U0" /\ UnusedCd.timer = FALSE
  BY DEF UnusedCd
<1> QED
  BY <1>1, <1>2

LEMMA StepLInv ==
  ASSUME IInv, LInv, [Next]_vars
  PROVE  Preserved
<1>s. ASSUME UNCHANGED <<cds, mode>> PROVE Preserved
  BY <1>s, SomeEnd
<1>1. CASE Applications
  BY <1>1, ApplicationLife
<1>2. CASE PipeReset \/ Attach \/ Detach
  BY <1>2, ControllerLife
<1>3. CASE \E p \in RxPipes : Network(p)
  BY <1>3, NetworkLife
<1>4. CASE Timeouts
  BY <1>4, TimeoutLife DEF Timeouts
<1>5. CASE GoSilent
  BY <1>5, <1>s DEF GoSilent
<1>6. CASE UNCHANGED vars
  BY <1>6, <1>s DEF vars
<1> QED
  BY <1>1, <1>2, <1>3, <1>4, <1>5, <1>6 DEF Next

\* Every call in use is alive, and no two of them can be confused.
THEOREM LifeInvariance == Spec => [](IInv /\ LInv)
<1>1. Init => IInv /\ LInv
  BY InitIInv, InitLInv
<1>2. IInv /\ LInv /\ [Next]_vars => (IInv /\ LInv)'
  BY StepIInv, StepLInv DEF Preserved
<1> QED
  BY <1>1, <1>2, PTL DEF Spec

\* cd_set_state: the timer of a descriptor runs exactly while it is in use, so
\* that no call can be left without a way to its end.
THEOREM TimerAlwaysRuns == Spec => []TimerRunning
<1>1. IInv /\ LInv => TimerRunning
  <2>1. SUFFICES ASSUME IInv, LInv, NEW c \in CDs PROVE InUse(c) <=> cds[c].timer
    BY DEF TimerRunning
  <2>2. CASE InUse(c)
    BY <2>1, <2>2 DEF LInv, Alive
  <2>3. CASE ~InUse(c)
    BY ZenonT(60), <2>1, <2>3, IdleState
  <2> QED
    BY <2>2, <2>3
<1> QED
  BY <1>1, LifeInvariance, PTL

\* need_release: a call that the other end has heard of, by SETUP or CONNECT,
\* is marked so that its end is signalled, in every state it passes through.
THEOREM ReleaseAlwaysOwed == Spec => []ReleaseOwed
<1>1. IInv /\ LInv => ReleaseOwed
  <2>1. SUFFICES ASSUME IInv, LInv, NEW c \in CDs,
                        \/ ~cds[c].incoming /\ Between("OUTGOING", cds[c].state, "INCOMING")
                        \/ Between("U7_TO", cds[c].state, "UC")
                 PROVE  cds[c].need_release
    BY DEF ReleaseOwed
  <2>2. cds[c].state \in States
    BY <2>1 DEF IInv, TypeOK, Descriptors
  <2>3. \/ ~cds[c].incoming /\ cds[c].state \in OutStates \ {"OUTGOING"}
        \/ cds[c].state \in {"U8", "UA", "UA_TO"}
    BY <2>1, <2>2, Orders
  <2>4. InUse(c)
    BY ZenonT(60), <2>1, <2>3, IdleState DEF OutStates
  <2>5. Suits(cds[c], cds[c].state)
    BY <2>1, <2>4 DEF LInv, Alive
  <2> QED
    BY <2>3, <2>5 DEF Suits, Owing
<1> QED
  BY <1>1, LifeInvariance, PTL

\* In NT-mode an active call that is not on hold has its channel.
THEOREM NtChannelAlways == Spec => []NtActiveHasChannel
<1>1. IInv /\ LInv => NtActiveHasChannel
  <2>1. SUFFICES ASSUME IInv, LInv, NtMode, NEW c \in CDs,
                        cds[c].state \in {"UA", "UA_TO"}, ~cds[c].hold
                 PROVE  cds[c].alloc
    BY DEF NtActiveHasChannel
  <2>2. InUse(c)
    BY ZenonT(60), <2>1, IdleState
  <2>3. Suits(cds[c], cds[c].state)
    BY <2>1, <2>2 DEF LInv, Alive
  <2> QED
    BY <2>1, <2>3 DEF Suits, Answered
<1> QED
  BY <1>1, LifeInvariance, PTL

\* cd_by_unitcr: no second descriptor ever matches a received call reference,
\* and no CDID is given to two calls.
THEOREM LookupAlwaysUnambiguous == Spec => []LookupUnambiguous
<1>1. IInv /\ LInv => LookupUnambiguous
  <2>1. SUFFICES ASSUME IInv, LInv, NEW c \in CDs, NEW d \in CDs, c # d,
                        InUse(c), InUse(d)
                 PROVE  /\ cds[c].cdid # cds[d].cdid
                        /\ \A p \in RxPipes : cds[c].cr = cds[d].cr =>
                             ~({cds[c].pipe, cds[d].pipe} \subseteq {0, p})
    BY DEF LookupUnambiguous
  <2>2. /\ cds[c].cdid # cds[d].cdid
        /\ cds[c].incoming /\ cds[d].incoming /\ cds[c].cr = cds[d].cr =>
             cds[c].pipe # cds[d].pipe
    BY <2>1 DEF LInv, Distinct
  <2>3. /\ Named(cds[c]) /\ cds[c] \in Descriptors
        /\ Named(cds[d]) /\ cds[d] \in Descriptors
    BY <2>1 DEF LInv, Alive
  <2>4. ASSUME NEW p \in RxPipes, cds[c].cr = cds[d].cr,
               {cds[c].pipe, cds[d].pipe} \subseteq {0, p}
        PROVE  FALSE
    <3>0. /\ cds[c].cdid \in 0 .. CdidEnd - 1 /\ cds[d].cdid \in 0 .. CdidEnd - 1
          /\ cds[c].incoming \in BOOLEAN /\ cds[d].incoming \in BOOLEAN
      BY <2>3 DEF Descriptors
    <3>1. CASE cds[c].incoming /\ cds[d].incoming
      <4>1. cds[c].pipe \in RxPipes /\ cds[d].pipe \in RxPipes /\ cds[c].pipe # cds[d].pipe
        BY <2>2, <2>3, <2>4, <3>1 DEF Named
      <4> QED
        BY <2>4, <4>1 DEF RxPipes
    <3>2. CASE ~cds[c].incoming /\ ~cds[d].incoming
      BY <2>2, <2>3, <2>4, <3>2 DEF Named
    <3>3. IncomingCRs \cap (0 .. CdidEnd - 1) = {}
      BY CallAssumption, CallDescAssumption
    <3>4. CASE cds[c].incoming /\ ~cds[d].incoming
      <4>1. cds[c].cr \in IncomingCRs /\ cds[c].cr = cds[d].cdid
        BY <2>3, <2>4, <3>4 DEF Named
      <4> QED
        BY <3>0, <3>3, <4>1
    <3>5. CASE ~cds[c].incoming /\ cds[d].incoming
      <4>1. cds[d].cr \in IncomingCRs /\ cds[d].cr = cds[c].cdid
        BY <2>3, <2>4, <3>5 DEF Named
      <4> QED
        BY <3>0, <3>3, <4>1
    <3> QED
      BY <3>0, <3>1, <3>2, <3>4, <3>5
  <2> QED
    BY <2>2, <2>4
<1> QED
  BY <1>1, LifeInvariance, PTL

\* dss1_decode_ie and cd_by_unitcr: no step changes the channel of a call that
\* keeps one, and no message touches a call on the pipe of another terminal.
THEOREM CallsUndisturbed == Spec => CallUndisturbed
<1> DEFINE A == \A c \in CDs :
                  /\ cds[c].alloc /\ cds'[c].alloc => cds'[c].chan = cds[c].chan
                  /\ \A p \in RxPipes :
                       InUse(c) /\ cds[c].pipe \notin {0, p} /\ cds'[c] # cds[c]
                         => ~Network(p)
<1>1. IInv /\ LInv /\ [Next]_vars => A
  <2>1. SUFFICES ASSUME IInv, LInv, [Next]_vars PROVE A
    OBVIOUS
  <2>2. \A c \in CDs : ChannelKept(cds[c], cds'[c])
    BY <2>1, StepLInv DEF Preserved
  <2>3. \A p \in RxPipes : Network(p) => Spares(p)
    BY <2>1, NetworkLife
  <2> QED
    BY <2>2, <2>3 DEF ChannelKept, Spares
<1>2. IInv /\ LInv /\ [Next]_vars => [A]_vars
  BY <1>1
<1> QED
  BY <1>2, LifeInvariance, PTL DEF Spec, CallUndisturbed
=============================================================================
