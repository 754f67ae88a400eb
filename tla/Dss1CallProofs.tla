--------------------------- MODULE Dss1CallProofs ---------------------------
(***************************************************************************)
(* Proofs about Dss1Call, for every number of descriptors, channels, pipes *)
(* and drivers: the type invariant and the accounts of channels,           *)
(* references and drivers.                                                 *)
(*                                                                         *)
(* A handler is a composition of the primitives of CallDesc on a context.  *)
(* "Live" says of a context that it agrees with the rest of the controller *)
(* (the environment e: what the other calls hold), "Dead" the same of one  *)
(* whose call is released.  Each primitive preserves Live, hence each      *)
(* event does, and CommitLemma turns that into the invariant.              *)
(***************************************************************************)
EXTENDS Dss1Call, FiniteSetTheorems, WellFoundedInduction, TLAPS

\* The time that the provers may take for a step
USE ZenonT(3), SMTT(20), ZenonT(60)

-----------------------------------------------------------------------------
Drivings == [BChannels -> Keys \cup {NoKey}]

Contexts ==
  [id : CDs, d : Descriptors, util : SUBSET Channels, ft : Drivings,
   ref : [Pipes -> Int], auto : 0 .. AutoMod - 1]

\* What the calls other than id hold.
Environments ==
  [id : CDs, util : SUBSET Channels, ft : Drivings, ref : [Pipes -> Int],
   auto : 0 .. N - 1]

Own(d) == IF d.alloc THEN {d.chan} \cap Channels ELSE {}

Once(ft) ==
  \A ch, k \in BChannels : ch # k /\ ft[ch] # NoKey => ft[ch] # ft[k]

OthersLinked(s, e) == \A ch \in BChannels \cap e.util : s.ft[ch] = e.ft[ch]

Unlinked(s, e) == \A ch \in BChannels \ e.util : s.ft[ch] = NoKey

OwnLinked(s, e) ==
  \A ch \in BChannels \ e.util : s.ft[ch] # NoKey =>
    ch \in Own(s.d) /\ s.d.want /\ s.ft[ch] = Key(s.id, s.d.drv)

Holds(s, e) == s.util = e.util \cup Own(s.d) /\ e.util \cap Own(s.d) = {}

Refers(s, e) ==
  /\ s.d.pipe \in Pipes
  /\ \A q \in Pipes : s.ref[q] = e.ref[q] + (IF q = s.d.pipe THEN 1 ELSE 0)
  /\ s.auto = e.auto + 1

Live(s, e) ==
  /\ s \in Contexts /\ s.id = e.id /\ s.d.cdid # CDID_UNUSED
  /\ Holds(s, e) /\ Refers(s, e)
  /\ OthersLinked(s, e) /\ OwnLinked(s, e) /\ Once(s.ft)

Dead(s, e) ==
  /\ s \in Contexts /\ s.id = e.id /\ s.d = UnusedCd
  /\ s.util = e.util /\ s.auto = e.auto
  /\ \A q \in Pipes : s.ref[q] = e.ref[q]
  /\ OthersLinked(s, e) /\ Unlinked(s, e) /\ Once(s.ft)

\* d differs from s.d only in what no account depends on.
Same(d, s) ==
  /\ d \in Descriptors
  /\ d.cdid = s.d.cdid /\ d.pipe = s.d.pipe /\ d.drv = s.d.drv
  /\ d.alloc = s.d.alloc /\ (d.alloc => d.chan = s.d.chan)
  /\ s.d.want => d.want

-----------------------------------------------------------------------------
(* Constants. *)

\* The table of states lists the states of L3_STATES.
LEMMA StatesList ==
  States = {"U0", "OUTGOING", "U1", "U2", "U2_ACK", "U3", "U3_TO", "U4",
            "U4_TO", "INCOMING", "IN_ACK", "U6", "U6_TO", "U7", "U7_TO", "U8",
            "UA", "UA_TO", "UC", "UC_TO"}
BY DEF States, No

\* A timeout leads to a state, and only a state of the table is left for "U0".
LEMMA TimeoutStates ==
  /\ \A st \in States : TimeoutState(st) \in States
  /\ \A st \in ToStates : Before(st) \in States \ {"U0"}
  /\ ToStates \subseteq States \ {"U0"}
BY StatesList DEF TimeoutState, Before, ToStates

\* The linear searches of get_cdid and cd_allocate_channel find something.
LEMMA LeastExists ==
  ASSUME NEW S \in SUBSET Nat, S # {}
  PROVE  \E x \in S : \A y \in S : x <= y
<1>1. PICK x \in S : \A y \in S : ~(<<y, x>> \in OpToRel(<, Nat))
  BY NatLessThanWellFounded, WFMin, Zenon
<1>2. \A y \in S : ~(y < x)
  BY Zenon, <1>1 DEF OpToRel
<1> QED BY <1>2

LEMMA ChannelTypes ==
  /\ Channels \subseteq ChannelIds /\ Channels \subseteq Nat
  /\ BChannels \subseteq Channels
  /\ CHAN_ANY \in ChannelIds /\ CHAN_NOT_ANY \in ChannelIds
  /\ CHAN_ANY \notin Channels /\ CHAN_NOT_ANY \notin Channels
  /\ CHAN_D1 \in Channels /\ CHAN_D1 \notin BChannels
BY CallDescAssumption
   DEF Channels, ChannelIds, BChannels, CHAN_ANY, CHAN_NOT_ANY, CHAN_D1

LEMMA KeyTypes ==
  ASSUME NEW id \in CDs, NEW drv \in Drivers \cup {"TONE"}
  PROVE  Key(id, drv) \in Keys /\ Key(id, drv) # NoKey
BY CallDescAssumption DEF Key, Keys, NoKey

LEMMA UnusedCdType == UnusedCd \in Descriptors /\ UnusedCd.alloc = FALSE
BY CallDescAssumption, CallAssumption, ChannelTypes, StatesList
   DEF UnusedCd, Descriptors, CDID_UNUSED, NoPipe, CHAN_ANY

-----------------------------------------------------------------------------
(* The primitives. *)

\* Assignments to the fields of a descriptor that no account depends on.
LEMMA PlainLemma ==
  ASSUME NEW s, NEW e, NEW d, Live(s, e), Same(d, s)
  PROVE  Live([s EXCEPT !.d = d], e)
<1> DEFINE t == [s EXCEPT !.d = d]
<1>1. /\ t \in Contexts /\ t.d = d /\ t.id = s.id /\ t.util = s.util
      /\ t.ft = s.ft /\ t.ref = s.ref /\ t.auto = s.auto
  BY DEF Live, Same, Contexts
<1>2. Own(d) = Own(s.d)
  BY DEF Same, Own
<1> HIDE DEF t
<1>3. Live(t, e)
  BY <1>1, <1>2 DEF Live, Same, Holds, Refers, OthersLinked, OwnLinked
<1> QED BY <1>3 DEF t

\* i4b_link_bchandrvr, deactivation: no driver is left on the call's channel.
LEMMA UnlinkLemma ==
  ASSUME NEW s, NEW e, Live(s, e)
  PROVE  /\ Live(Unlink(s), e) /\ Unlinked(Unlink(s), e)
         /\ Unlink(s).d = [s.d EXCEPT !.want = FALSE]
<1> DEFINE d == [s.d EXCEPT !.want = FALSE]
           f == IF OnBChannel(s) /\ s.ft[s.d.chan] = Key(s.id, s.d.drv)
                THEN [s.ft EXCEPT ![s.d.chan] = NoKey] ELSE s.ft
           t == [s EXCEPT !.d = d, !.ft = f]
<1>1. Unlink(s) = t
  BY DEF Unlink, Live, Contexts, Descriptors
<1>2. /\ d \in Descriptors /\ d.cdid = s.d.cdid /\ d.pipe = s.d.pipe
      /\ d.drv = s.d.drv /\ d.alloc = s.d.alloc /\ d.chan = s.d.chan
  BY Zenon DEF Live, Contexts, Descriptors
<1>3. f \in Drivings
  BY DEF Live, Contexts, Drivings, OnBChannel
<1> HIDE DEF d, f
<1>4. /\ t \in Contexts /\ t.d = d /\ t.id = s.id /\ t.util = s.util
      /\ t.ft = f /\ t.ref = s.ref /\ t.auto = s.auto
  BY Zenon, <1>2, <1>3 DEF Live, Contexts
<1> HIDE DEF t
<1>5. Own(d) = Own(s.d)
  BY <1>2 DEF Own
<1>6. \A ch \in BChannels : f[ch] = s.ft[ch] \/ f[ch] = NoKey
  BY DEF f, Live, Contexts, Drivings, OnBChannel
<1>7. \A ch \in BChannels \cap e.util : f[ch] = s.ft[ch]
  BY DEF f, Live, Contexts, Drivings, OnBChannel, Holds, Own
<1>8. Unlinked(t, e)
  <2>1. SUFFICES ASSUME NEW ch \in BChannels \ e.util PROVE f[ch] = NoKey
    BY <1>4 DEF Unlinked
  <2>2. CASE s.ft[ch] = NoKey
    BY <2>2, <1>6
  <2>3. CASE s.ft[ch] # NoKey
    <3>1. ch \in Own(s.d) /\ s.ft[ch] = Key(s.id, s.d.drv)
      BY <2>3 DEF Live, OwnLinked
    <3>2. s.d.alloc /\ s.d.chan = ch
      BY <3>1 DEF Own
    <3>3. OnBChannel(s)
      BY <3>2 DEF OnBChannel
    <3> QED BY <3>1, <3>2, <3>3 DEF f, Live, Contexts, Drivings
  <2> QED BY <2>2, <2>3
<1>9. Once(f)
  BY <1>6 DEF Once, Live
<1>10. Live(t, e)
  <2>1. OthersLinked(t, e) /\ OwnLinked(t, e)
    BY <1>4, <1>7, <1>8 DEF Live, OthersLinked, OwnLinked, Unlinked
  <2>2. Holds(t, e) /\ Refers(t, e)
    BY <1>2, <1>4, <1>5 DEF Live, Holds, Refers
  <2> QED BY <1>2, <1>4, <1>9, <2>1, <2>2 DEF Live
<1> QED BY <1>1, <1>4, <1>8, <1>10 DEF d

\* i4b_link_bchandrvr, activation
LEMMA LinkLemma ==
  ASSUME NEW s, NEW e, Live(s, e),
         NEW drv \in Drivers \cup {"TONE"}, NEW accepts \in BOOLEAN
  PROVE  Live(Link(s, drv, accepts), e)
<1> DEFINE u == Unlink(s)
           k == Key(s.id, drv)
           free == /\ OnBChannel(u) /\ u.ft[u.d.chan] = NoKey
                   /\ \A ch \in BChannels : u.ft[ch] # k
           d == [u.d EXCEPT !.want = TRUE, !.drv = drv]
           f == IF free /\ accepts THEN [u.ft EXCEPT ![u.d.chan] = k] ELSE u.ft
           t == [u EXCEPT !.d = d, !.ft = f]
<1>0. Live(u, e) /\ Unlinked(u, e)
  BY Zenon, UnlinkLemma
<1>a. s.id = e.id /\ u.id = e.id /\ e.id \in CDs
  BY <1>0 DEF Live, Contexts
<1> HIDE DEF u
<1>1. Link(s, drv, accepts) = t
  BY Zenon, <1>0 DEF Link, Live, Contexts, Descriptors, u
<1>2. /\ d \in Descriptors /\ d.cdid = u.d.cdid /\ d.pipe = u.d.pipe
      /\ d.drv = drv /\ d.want /\ d.alloc = u.d.alloc /\ d.chan = u.d.chan
  BY Zenon, <1>0 DEF Live, Contexts, Descriptors
<1>b. k \in Keys /\ k # NoKey
  BY <1>a, KeyTypes
<1> HIDE DEF d, k
<1>3. f \in Drivings
  BY Zenon, <1>0, <1>b DEF Live, Contexts, Drivings
<1>c. free => u.d.chan \in BChannels /\ u.d.alloc
  BY DEF OnBChannel
<1>d. \A ch \in BChannels : f[ch] = u.ft[ch] \/ (free /\ ch = u.d.chan /\ f[ch] = k)
  BY <1>0, <1>c DEF Live, Contexts, Drivings
<1>e. free => \A ch \in BChannels : u.ft[ch] # k
  OBVIOUS
<1> HIDE DEF f, free
<1>4. /\ t \in Contexts /\ t.d = d /\ t.id = u.id /\ t.util = u.util
      /\ t.ft = f /\ t.ref = u.ref /\ t.auto = u.auto
  BY Zenon, <1>0, <1>2, <1>3 DEF Live, Contexts
<1> HIDE DEF t
<1>5. Own(d) = Own(u.d)
  BY <1>2 DEF Own
<1>6. \A ch \in BChannels \cap e.util : f[ch] = u.ft[ch]
  BY Zenon, <1>0, <1>c, <1>d, ChannelTypes DEF Live, Holds, Own
<1>7. OwnLinked(t, e)
  <2>1. SUFFICES ASSUME NEW ch \in BChannels \ e.util, f[ch] # NoKey
                 PROVE  ch \in Own(d) /\ d.want /\ f[ch] = Key(e.id, d.drv)
    BY <1>4, <1>a DEF OwnLinked
  <2>2. u.ft[ch] = NoKey
    BY <1>0 DEF Unlinked
  <2>3. free /\ ch = u.d.chan /\ f[ch] = k
    BY <2>1, <2>2, <1>d
  <2>4. ch \in Own(u.d)
    BY ZenonT(40), <2>3, <1>c, ChannelTypes DEF Own
  <2> QED BY <2>3, <2>4, <1>2, <1>5, <1>a DEF k
<1>8. Once(f)
  BY <1>0, <1>d, <1>e DEF Once, Live
<1>9. Holds(t, e) /\ Refers(t, e)
  BY <1>0, <1>2, <1>4, <1>5 DEF Live, Holds, Refers
<1>10. OthersLinked(t, e)
  BY <1>0, <1>4, <1>6 DEF Live, OthersLinked
<1>11. Live(t, e)
  BY <1>0, <1>2, <1>4, <1>7, <1>8, <1>9, <1>10 DEF Live
<1> QED BY <1>1, <1>11

\* One channel more, or none: what cd_allocate_channel does when it succeeds.
LEMMA TakeLemma ==
  ASSUME NEW s, NEW e, Live(s, e), ~s.d.alloc, NEW ch \in Channels \ s.util
  PROVE  Live(Take(s, ch), e) /\ Take(s, ch).d.alloc
<1> DEFINE d == [s.d EXCEPT !.chan = ch, !.alloc = TRUE]
           t == [s EXCEPT !.d = d, !.util = s.util \cup {ch}]
<1>1. Take(s, ch) = t
  BY Zenon DEF Take, Live, Contexts, Descriptors
<1>2. /\ d \in Descriptors /\ d.cdid = s.d.cdid /\ d.pipe = s.d.pipe
      /\ d.drv = s.d.drv /\ d.want = s.d.want /\ d.alloc /\ d.chan = ch
  BY Zenon, ChannelTypes DEF Live, Contexts, Descriptors
<1> HIDE DEF d
<1>3. /\ t \in Contexts /\ t.d = d /\ t.id = s.id /\ t.util = s.util \cup {ch}
      /\ t.ft = s.ft /\ t.ref = s.ref /\ t.auto = s.auto
  BY Zenon, <1>2 DEF Live, Contexts
<1> HIDE DEF t
<1>4. Own(s.d) = {} /\ Own(d) = {ch}
  BY <1>2 DEF Own
<1>5. Holds(t, e) /\ Refers(t, e)
  BY <1>2, <1>3, <1>4 DEF Live, Holds, Refers
<1>6. OthersLinked(t, e) /\ OwnLinked(t, e)
  BY <1>2, <1>3, <1>4 DEF Live, OthersLinked, OwnLinked
<1> QED BY <1>1, <1>2, <1>3, <1>5, <1>6 DEF Live

\* cd_allocate_channel keeps the account of channels, success or failure.
LEMMA AllocateLemma ==
  ASSUME NEW s, NEW e, Live(s, e)
  PROVE  Live(AllocateChannel(s), e)
<1> DEFINE free == FreeChannels(s)
<1>1. CASE s.d.alloc
  BY <1>1 DEF AllocateChannel
<1>2. CASE ~s.d.alloc /\ s.d.chan \in Channels /\ s.d.chan \notin s.util
  <2>1. AllocateChannel(s) = Take(s, s.d.chan)
    BY <1>2 DEF AllocateChannel, Live, Contexts, Descriptors, CHAN_NOT_ANY, Channels
  <2> QED BY <1>2, <2>1, TakeLemma
<1>3. CASE ~s.d.alloc /\ s.d.chan = CHAN_NOT_ANY
  <2> DEFINE d == [s.d EXCEPT !.alloc = TRUE]
             t == [s EXCEPT !.d = d]
  <2>1. AllocateChannel(s) = t
    BY <1>3, ChannelTypes DEF AllocateChannel, Live, Contexts, Descriptors
  <2>2. /\ d \in Descriptors /\ d.cdid = s.d.cdid /\ d.pipe = s.d.pipe
        /\ d.drv = s.d.drv /\ d.want = s.d.want /\ d.alloc /\ d.chan = s.d.chan
    BY Zenon DEF Live, Contexts, Descriptors
  <2> HIDE DEF d
  <2>3. /\ t \in Contexts /\ t.d = d /\ t.id = s.id /\ t.util = s.util
        /\ t.ft = s.ft /\ t.ref = s.ref /\ t.auto = s.auto
    BY <2>2 DEF Live, Contexts
  <2> HIDE DEF t
  <2>4. Own(s.d) = {} /\ Own(d) = {}
    BY <1>3, <2>2, ChannelTypes DEF Own
  <2>5. Live(t, e)
    BY <2>2, <2>3, <2>4 DEF Live, Holds, Refers, OthersLinked, OwnLinked
  <2> QED BY <2>1, <2>5
<1>4. CASE ~s.d.alloc /\ s.d.chan \notin Channels \cup {CHAN_NOT_ANY} /\ free # {}
  <2>1. AllocateChannel(s) = Take(s, LowestFree(s))
    BY <1>4 DEF AllocateChannel
  <2>2. LowestFree(s) \in free
    BY Zenon, <1>4, LeastExists, ChannelTypes DEF LowestFree, FreeChannels
  <2> QED BY <1>4, <2>1, <2>2, TakeLemma DEF FreeChannels
<1>5. CASE /\ ~s.d.alloc /\ ~(s.d.chan \in Channels /\ s.d.chan \notin s.util)
           /\ s.d.chan # CHAN_NOT_ANY
           /\ ~(s.d.chan \notin Channels \cup {CHAN_NOT_ANY} /\ free # {})
  <2> DEFINE d == [s.d EXCEPT !.chan = CHAN_ANY]
  <2>1. AllocateChannel(s) = [s EXCEPT !.d = d]
    BY <1>5 DEF AllocateChannel, Live, Contexts, Descriptors
  <2>2. Same(d, s)
    BY <1>5, ChannelTypes DEF Same, Live, Contexts, Descriptors
  <2> QED BY <2>1, <2>2, PlainLemma
<1> QED BY <1>1, <1>2, <1>3, <1>4, <1>5

\* cd_free_channel, once no driver is on the channel
LEMMA FreeChannelLemma ==
  ASSUME NEW s, NEW e, Live(s, e), Unlinked(s, e)
  PROVE  /\ Live(FreeChannel(s), e) /\ Unlinked(FreeChannel(s), e)
         /\ ~FreeChannel(s).d.alloc
<1>1. CASE ~s.d.alloc
  BY <1>1 DEF FreeChannel
<1>2. CASE s.d.alloc
  <2> DEFINE d == [s.d EXCEPT !.chan = CHAN_ANY, !.alloc = FALSE]
             t == [s EXCEPT !.d = d, !.util = s.util \ ({s.d.chan} \cap Channels)]
  <2>1. FreeChannel(s) = t
    BY Zenon, <1>2 DEF FreeChannel, Live, Contexts, Descriptors
  <2>2. /\ d \in Descriptors /\ d.cdid = s.d.cdid /\ d.pipe = s.d.pipe
        /\ ~d.alloc
    BY Zenon, ChannelTypes DEF Live, Contexts, Descriptors
  <2> HIDE DEF d
  <2>3. /\ t \in Contexts /\ t.d = d /\ t.id = s.id
        /\ t.util = s.util \ ({s.d.chan} \cap Channels)
        /\ t.ft = s.ft /\ t.ref = s.ref /\ t.auto = s.auto
    BY Zenon, <2>2 DEF Live, Contexts
  <2> HIDE DEF t
  <2>4. Own(s.d) = {s.d.chan} \cap Channels /\ Own(d) = {}
    BY <1>2, <2>2 DEF Own
  <2>5. Holds(t, e) /\ Refers(t, e)
    BY <2>2, <2>3, <2>4 DEF Live, Holds, Refers
  <2>6. OthersLinked(t, e) /\ OwnLinked(t, e) /\ Unlinked(t, e)
    BY <2>3 DEF Live, OthersLinked, OwnLinked, Unlinked
  <2> QED BY <2>1, <2>2, <2>3, <2>5, <2>6 DEF Live
<1> QED BY <1>1, <1>2

\* cd_set_pipe moves the reference of the call, or gives it its first one.
LEMMA SetPipeFields ==
  ASSUME NEW s \in Contexts, NEW p \in Pipes \cup {NoPipe},
         s.d.pipe # NoPipe => s.auto # 0, s.auto + 1 < AutoMod
  PROVE  LET t == SetPipe(s, p) IN
         /\ t \in Contexts
         /\ t.d = [s.d EXCEPT !.pipe = p]
         /\ t.id = s.id /\ t.util = s.util /\ t.ft = s.ft
         /\ \A q \in Pipes :
              t.ref[q] = s.ref[q] + (IF q = p THEN 1 ELSE 0)
                                  - (IF q = s.d.pipe THEN 1 ELSE 0)
         /\ t.auto = s.auto + (IF p \in Pipes THEN 1 ELSE 0)
                            - (IF s.d.pipe \in Pipes THEN 1 ELSE 0)
<1> DEFINE old == s.d.pipe
           up  == IF p = NoPipe THEN s.ref ELSE [s.ref EXCEPT ![p] = @ + 1]
           r   == IF old = NoPipe THEN up ELSE [up EXCEPT ![old] = @ - 1]
           n   == IF p = NoPipe THEN s.auto ELSE Plus1(s.auto)
           a   == IF old = NoPipe THEN n ELSE Minus(n, 1)
           d   == [s.d EXCEPT !.pipe = p]
<1>0. old \in Pipes \cup {NoPipe} /\ NoPipe \notin Pipes
  BY CallDescAssumption DEF Contexts, Descriptors, NoPipe
<1>1. SetPipe(s, p) = [s EXCEPT !.ref = r, !.auto = a, !.d = d]
  BY DEF SetPipe, Contexts, Descriptors
<1>2. d \in Descriptors
  BY DEF Contexts, Descriptors
<1>3. r \in [Pipes -> Int]
  BY <1>0 DEF Contexts
<1>4. \A q \in Pipes : r[q] = s.ref[q] + (IF q = p THEN 1 ELSE 0)
                                       - (IF q = old THEN 1 ELSE 0)
  BY <1>0 DEF Contexts
<1>5. /\ a = s.auto + (IF p \in Pipes THEN 1 ELSE 0)
                    - (IF old \in Pipes THEN 1 ELSE 0)
      /\ a \in 0 .. AutoMod - 1
  BY <1>0, CallDescAssumption DEF Contexts, Plus1, Minus
<1> HIDE DEF r, a, d
<1>6. LET t == SetPipe(s, p) IN
      /\ t \in Contexts /\ t.d = d
      /\ t.id = s.id /\ t.util = s.util /\ t.ft = s.ft
      /\ t.ref = r /\ t.auto = a
  BY Zenon, <1>1, <1>2, <1>3, <1>5 DEF Contexts
<1> QED BY <1>4, <1>5, <1>6 DEF d

LEMMA SetPipeLemma ==
  ASSUME NEW s, NEW e \in Environments, Live(s, e), NEW p \in Pipes
  PROVE  Live(SetPipe(s, p), e)
<1> DEFINE t == SetPipe(s, p)
<1>1. s.auto # 0 /\ s.auto + 1 < AutoMod
  BY CallDescAssumption DEF Live, Refers, Environments, Contexts
<1>2. /\ t \in Contexts
      /\ t.d = [s.d EXCEPT !.pipe = p]
      /\ t.id = s.id /\ t.util = s.util /\ t.ft = s.ft
      /\ \A q \in Pipes :
           t.ref[q] = s.ref[q] + (IF q = p THEN 1 ELSE 0)
                               - (IF q = s.d.pipe THEN 1 ELSE 0)
      /\ t.auto = s.auto + (IF p \in Pipes THEN 1 ELSE 0)
                         - (IF s.d.pipe \in Pipes THEN 1 ELSE 0)
  BY <1>1, SetPipeFields DEF Live
<1> HIDE DEF t
<1>3. /\ t.d.cdid = s.d.cdid /\ t.d.pipe = p /\ t.d.drv = s.d.drv
      /\ t.d.want = s.d.want /\ t.d.alloc = s.d.alloc /\ t.d.chan = s.d.chan
  BY <1>2 DEF Live, Contexts, Descriptors
<1>4. Own(t.d) = Own(s.d)
  BY <1>3 DEF Own
<1>5. Refers(t, e)
  BY <1>2, <1>3 DEF Live, Refers, Environments, Contexts
<1>6. Holds(t, e) /\ OthersLinked(t, e) /\ OwnLinked(t, e)
  BY <1>2, <1>3, <1>4 DEF Live, Holds, OthersLinked, OwnLinked
<1>7. Live(t, e)
  BY <1>2, <1>3, <1>5, <1>6 DEF Live
<1> QED BY <1>7 DEF t

\* n_free_cd returns everything the call holds.
LEMMA FreeCdLemma ==
  ASSUME NEW s, NEW e \in Environments, Live(s, e)
  PROVE  Dead(FreeCd(s), e)
<1> DEFINE u == Unlink(s)
           v == SetPipe(u, NoPipe)
           w == FreeChannel(v)
<1>1. Live(u, e) /\ Unlinked(u, e)
  BY Zenon, UnlinkLemma
<1> HIDE DEF u
<1>2. u.auto # 0 /\ u.auto + 1 < AutoMod
  BY <1>1, CallDescAssumption DEF Live, Refers, Environments, Contexts
<1>3. /\ v \in Contexts
      /\ v.d = [u.d EXCEPT !.pipe = NoPipe]
      /\ v.id = u.id /\ v.util = u.util /\ v.ft = u.ft
      /\ \A q \in Pipes :
           v.ref[q] = u.ref[q] + (IF q = NoPipe THEN 1 ELSE 0)
                               - (IF q = u.d.pipe THEN 1 ELSE 0)
      /\ v.auto = u.auto + (IF NoPipe \in Pipes THEN 1 ELSE 0)
                         - (IF u.d.pipe \in Pipes THEN 1 ELSE 0)
  BY <1>1, <1>2, SetPipeFields DEF Live
<1>a. NoPipe \notin Pipes
  BY CallDescAssumption DEF NoPipe
<1>b. (\A q \in Pipes : v.ref[q] = e.ref[q]) /\ v.auto = e.auto
  BY <1>1, <1>3, <1>a DEF Live, Refers, Environments
<1> HIDE DEF v
<1>4. v.d.alloc = u.d.alloc /\ v.d.chan = u.d.chan
  BY <1>1, <1>3 DEF Live, Contexts, Descriptors
<1>5. /\ w \in Contexts /\ w.id = v.id /\ w.ft = v.ft /\ w.ref = v.ref
      /\ w.auto = v.auto
      /\ w.util = v.util \ Own(u.d)
  <2>1. CASE ~v.d.alloc
    BY <1>3, <1>4, <2>1 DEF FreeChannel, Own
  <2>2. CASE v.d.alloc
    <3> DEFINE d == [v.d EXCEPT !.chan = CHAN_ANY, !.alloc = FALSE]
    <3>1. d \in Descriptors
      BY Zenon, <1>3, ChannelTypes DEF Contexts, Descriptors
    <3>2. w = [v EXCEPT !.d = d, !.util = v.util \ ({v.d.chan} \cap Channels)]
      BY Zenon, <1>3, <2>2 DEF FreeChannel, Contexts, Descriptors
    <3> HIDE DEF d
    <3>3. /\ w \in Contexts /\ w.id = v.id /\ w.ft = v.ft /\ w.ref = v.ref
          /\ w.auto = v.auto /\ w.util = v.util \ ({v.d.chan} \cap Channels)
      BY ZenonT(40), <1>3, <3>1, <3>2 DEF Contexts
    <3> QED BY <1>4, <2>2, <3>3 DEF Own
  <2> QED BY <2>1, <2>2
<1> HIDE DEF w
<1>6. w.util = e.util
  BY <1>1, <1>3, <1>5 DEF Live, Holds
<1> DEFINE t == [w EXCEPT !.d = UnusedCd]
<1>7. FreeCd(s) = t
  BY DEF FreeCd, u, v, w
<1>8. /\ t \in Contexts /\ t.d = UnusedCd /\ t.id = w.id /\ t.util = w.util
      /\ t.ft = w.ft /\ t.ref = w.ref /\ t.auto = w.auto
  BY <1>5, UnusedCdType DEF Contexts
<1> HIDE DEF t
<1>9. OthersLinked(t, e) /\ Unlinked(t, e) /\ Once(t.ft) /\ t.id = e.id
  BY <1>1, <1>3, <1>5, <1>8 DEF Live, OthersLinked, Unlinked
<1>10. Dead(t, e)
  BY <1>b, <1>5, <1>6, <1>8, <1>9 DEF Dead
<1> QED BY <1>7, <1>10

-----------------------------------------------------------------------------
(* Assignments and small compositions. *)

LEMMA FieldLemma ==
  ASSUME NEW s, NEW e, Live(s, e), NEW b \in BOOLEAN
  PROVE  /\ Live([s EXCEPT !.d.hold = b], e)
         /\ Live([s EXCEPT !.d.retrieving = b], e)
         /\ Live([s EXCEPT !.d.need_release = TRUE], e)
         /\ Live([s EXCEPT !.d.want = TRUE], e)
         /\ Live([s EXCEPT !.d.timer = b], e)
<1>0. s \in Contexts
  BY DEF Live
<1>1. Live([s EXCEPT !.d.hold = b], e)
  <2>1. Same([s.d EXCEPT !.hold = b], s)
    BY <1>0 DEF Same, Contexts, Descriptors
  <2> QED BY <2>1, <1>0, PlainLemma DEF Contexts, Descriptors
<1>2. Live([s EXCEPT !.d.retrieving = b], e)
  <2>1. Same([s.d EXCEPT !.retrieving = b], s)
    BY <1>0 DEF Same, Contexts, Descriptors
  <2> QED BY <2>1, <1>0, PlainLemma DEF Contexts, Descriptors
<1>3. Live([s EXCEPT !.d.need_release = TRUE], e)
  <2>1. Same([s.d EXCEPT !.need_release = TRUE], s)
    BY ZenonT(40), <1>0 DEF Same, Contexts, Descriptors
  <2> QED BY Zenon, <2>1, <1>0, PlainLemma DEF Contexts, Descriptors
<1>4. Live([s EXCEPT !.d.want = TRUE], e)
  <2>1. Same([s.d EXCEPT !.want = TRUE], s)
    BY Zenon, <1>0 DEF Same, Contexts, Descriptors
  <2> QED BY Zenon, <2>1, <1>0, PlainLemma DEF Contexts, Descriptors
<1>5. Live([s EXCEPT !.d.timer = b], e)
  <2>1. Same([s.d EXCEPT !.timer = b], s)
    BY <1>0 DEF Same, Contexts, Descriptors
  <2> QED BY <2>1, <1>0, PlainLemma DEF Contexts, Descriptors
<1> QED BY <1>1, <1>2, <1>3, <1>4, <1>5

LEMMA CountLemma ==
  ASSUME NEW s, NEW e, Live(s, e)
  PROVE  /\ s.d.enquiries < EnquiryMax => Live([s EXCEPT !.d.enquiries = @ + 1], e)
         /\ \A n \in 0 .. IndMax : Live([s EXCEPT !.d.ind = n], e)
         /\ \A ch \in ChannelIds : ~s.d.alloc => Live([s EXCEPT !.d.chan = ch], e)
<1>0. s \in Contexts
  BY DEF Live
<1>1. ASSUME s.d.enquiries < EnquiryMax
      PROVE  Live([s EXCEPT !.d.enquiries = @ + 1], e)
  <2>1. Same([s.d EXCEPT !.enquiries = @ + 1], s)
    BY <1>0, <1>1, CallAssumption DEF Same, Contexts, Descriptors
  <2> QED BY <2>1, <1>0, PlainLemma DEF Contexts, Descriptors
<1>2. ASSUME NEW n \in 0 .. IndMax PROVE Live([s EXCEPT !.d.ind = n], e)
  <2>1. Same([s.d EXCEPT !.ind = n], s)
    BY <1>0 DEF Same, Contexts, Descriptors
  <2> QED BY <2>1, <1>0, PlainLemma DEF Contexts, Descriptors
<1>3. ASSUME NEW ch \in ChannelIds, ~s.d.alloc
      PROVE  Live([s EXCEPT !.d.chan = ch], e)
  <2>1. Same([s.d EXCEPT !.chan = ch], s)
    BY <1>0, <1>3 DEF Same, Contexts, Descriptors
  <2> QED BY <2>1, <1>0, PlainLemma DEF Contexts, Descriptors
<1> QED BY <1>1, <1>2, <1>3

\* cd_set_state: a state other than U0 changes no account, U0 clears them all.
LEMMA SetStateLemma ==
  ASSUME NEW s, NEW e \in Environments, Live(s, e), NEW new \in States
  PROVE  /\ new # "U0" => /\ Live(SetState(s, new), e)
                          /\ SetState(s, new).d.alloc = s.d.alloc
         /\ new = "U0" => Dead(SetState(s, new), e)
<1>1. CASE new = "U0"
  BY <1>1, FreeCdLemma DEF SetState
<1>2. CASE new # "U0"
  <2> DEFINE counted == Multipoint /\ new \in {"U3_TO", "U4_TO"}
             back == \/ counted /\ s.d.responded /\ s.d.enquiries < EnquiryMax
                     \/ ~counted /\ NoEnquiry /\ new \in ToStates
             st == IF back THEN Before(new) ELSE new
             n == IF counted /\ back THEN s.d.enquiries + 1 ELSE s.d.enquiries
             d == [s.d EXCEPT !.state = st, !.enquiries = n, !.timer = TRUE]
  <2>0. s \in Contexts
    BY DEF Live
  <2>1. SetState(s, new) = [s EXCEPT !.d = d]
    BY Zenon, <1>2, <2>0 DEF SetState, Contexts, Descriptors
  <2>2. st \in States
    BY TimeoutStates DEF ToStates
  <2>3. n \in 0 .. EnquiryMax
    BY <2>0, CallAssumption DEF Contexts, Descriptors
  <2> HIDE DEF st, n
  <2>4. Same(d, s)
    BY Zenon, <2>0, <2>2, <2>3 DEF Same, Contexts, Descriptors
  <2> HIDE DEF d
  <2>5. [s EXCEPT !.d = d].d = d
    BY <2>0 DEF Contexts
  <2> QED BY <1>2, <2>1, <2>4, <2>5, PlainLemma DEF Same
<1> QED BY <1>1, <1>2

Fits(s, e) == Live(s, e) \/ Dead(s, e)

LEMMA ReleaseLemma ==
  ASSUME NEW s, NEW e \in Environments, Live(s, e)
  PROVE  Dead(Release(s), e) /\ Dead(NoChannelAvailable(s), e)
         /\ Live(NeedRelease(s), e)
<1>1. Live(NeedRelease(s), e)
  BY Zenon, FieldLemma DEF NeedRelease
<1>2. \A t : Live(t, e) => Dead(Release(t), e)
  BY SetStateLemma, StatesList DEF Release
<1> QED BY <1>1, <1>2 DEF NoChannelAvailable

LEMMA HoldLemma ==
  ASSUME NEW s, NEW e, Live(s, e)
  PROVE  Live(PutOnHold(s), e)
<1> DEFINE u == IF s.d.want THEN [Unlink(s) EXCEPT !.d.want = TRUE] ELSE s
<1>1. Live(u, e)
  BY Zenon, UnlinkLemma, FieldLemma
<1>2. Unlinked(u, e)
  <2>1. CASE s.d.want
    <3>1. Live(Unlink(s), e) /\ Unlinked(Unlink(s), e)
      BY Zenon, UnlinkLemma
    <3>2. u.ft = Unlink(s).ft
      BY <2>1, <3>1 DEF Live, Contexts, Descriptors
    <3> QED BY <3>1, <3>2 DEF Unlinked
  <2>2. CASE ~s.d.want
    BY <2>2 DEF Live, OwnLinked, Unlinked
  <2> QED BY <2>1, <2>2
<1> HIDE DEF u
<1>3. Live(FreeChannel(u), e)
  BY <1>1, <1>2, FreeChannelLemma
<1>4. Live([FreeChannel(u) EXCEPT !.d.hold = TRUE], e)
  BY Zenon, <1>3, FieldLemma
<1> QED BY <1>4 DEF PutOnHold, u

LEMMA TryRelinkLemma ==
  ASSUME NEW s, NEW e, Live(s, e)
  PROVE  /\ Live(TryChannel(s), e)
         /\ \A drv \in Drivers \cup {"TONE"}, accepts \in BOOLEAN :
              Live(Relink(s, drv, accepts), e)
BY AllocateLemma, LinkLemma DEF TryChannel, Relink

-----------------------------------------------------------------------------
(* The events of cd_update. *)

\* States the events go to.
LEMMA EventStates ==
  {"U1", "U2", "U2_ACK", "U3", "U4", "U6", "IN_ACK", "U7", "U8", "UA", "UC",
   "INCOMING", "OUTGOING"} \subseteq States \ {"U0"}
BY StatesList

LEMMA CallerEvents ==
  ASSUME NEW s, NEW e \in Environments, Live(s, e)
  PROVE  /\ \A complete \in BOOLEAN : Live(EvSetupRq(s, complete), e)
         /\ Live(EvInfoRq(s), e) /\ Live(EvCallPrc(s), e)
         /\ Live(EvSetupAk(s), e) /\ Live(EvAlert(s), e)
         /\ \A p \in Pipes : Fits(EvConnect(s, p), e)
<1>0. \A t, new : Live(t, e) /\ new \in States \ {"U0"} => Live(SetState(t, new), e)
  BY SetStateLemma
<1>t. \A t : Live(t, e) => Live(TryChannel(t), e)
  BY TryRelinkLemma
<1>1. ASSUME NEW complete \in BOOLEAN PROVE Live(EvSetupRq(s, complete), e)
  BY <1>0, ReleaseLemma, EventStates DEF EvSetupRq
<1>2. Live(EvInfoRq(s), e)
  BY <1>0, EventStates DEF EvInfoRq
<1>3. Live(EvCallPrc(s), e)
  BY <1>0, <1>t, EventStates DEF EvCallPrc
<1>4. Live(EvSetupAk(s), e)
  BY <1>0, <1>t, <1>3, EventStates DEF EvSetupAk
<1>5. Live(EvAlert(s), e)
  BY <1>0, <1>t, EventStates DEF EvAlert
<1>6. ASSUME NEW p \in Pipes PROVE Fits(EvConnect(s, p), e)
  <2> DEFINE a == TryChannel(s)
  <2>1. Live(a, e)
    BY <1>t
  <2> HIDE DEF a
  <2>2. Live(SetState(SetPipe(a, p), "UA"), e)
    BY <2>1, <1>0, SetPipeLemma, EventStates
  <2>3. Dead(NoChannelAvailable(a), e)
    BY <2>1, ReleaseLemma
  <2> QED BY <2>2, <2>3 DEF EvConnect, Fits, a
<1> QED BY <1>1, <1>2, <1>3, <1>4, <1>5, <1>6

LEMMA CalleeEvents ==
  ASSUME NEW s, NEW e \in Environments, Live(s, e)
  PROVE  /\ \A complete, tone, accepts \in BOOLEAN, ind \in 0 .. IndMax :
              Fits(EvSetup(s, complete, tone, accepts, ind), e)
         /\ Live(EvInfo(s), e) /\ Live(EvProceedingRq(s), e)
         /\ Live(EvAlertRq(s), e) /\ Live(EvConAck(s), e) /\ Live(EvSetAcRs(s), e)
         /\ Fits(EvSetRjRs(s), e)
<1>0. \A t, new : Live(t, e) /\ new \in States \ {"U0"} => Live(SetState(t, new), e)
  BY SetStateLemma
<1>1. ASSUME NEW complete \in BOOLEAN, NEW tone \in BOOLEAN,
             NEW accepts \in BOOLEAN, NEW ind \in 0 .. IndMax
      PROVE  Fits(EvSetup(s, complete, tone, accepts, ind), e)
  <2> DEFINE n == IF NtMode \/ P2P THEN NeedRelease(s) ELSE s
             a == AllocateChannel(n)
             b == SetState(a, IF complete THEN "U6" ELSE "IN_ACK")
             t == IF tone THEN Link(b, "TONE", accepts) ELSE b
  <2>1. Live(a, e)
    BY ReleaseLemma, AllocateLemma
  <2> HIDE DEF a
  <2>2. Live(b, e)
    BY <2>1, <1>0, EventStates
  <2> HIDE DEF b
  <2>3. Live(t, e)
    BY <2>2, LinkLemma
  <2> HIDE DEF t
  <2>4. Dead(NoChannelAvailable(a), e)
    BY <2>1, ReleaseLemma
  <2>5. Dead(Release(NeedRelease(t)), e)
    BY <2>3, ReleaseLemma
  <2>6. Live([t EXCEPT !.d.ind = ind], e)
    BY Zenon, <2>3, CountLemma
  <2> QED BY <2>4, <2>5, <2>6 DEF EvSetup, Fits, a, b, t
<1>2. Live(EvInfo(s), e)
  BY <1>0, EventStates DEF EvInfo
<1>3. Live(EvProceedingRq(s), e)
  BY <1>0, EventStates DEF EvProceedingRq
<1>4. Live(EvAlertRq(s), e)
  BY <1>0, EventStates DEF EvAlertRq
<1>5. \A t : Live(t, e) => Live(EvConAck(t), e)
  BY <1>0, EventStates DEF EvConAck
<1>6. Live(EvSetAcRs(s), e)
  BY <1>0, <1>5, ReleaseLemma, EventStates DEF EvSetAcRs
<1>7. Fits(EvSetRjRs(s), e)
  BY ReleaseLemma DEF EvSetRjRs, Fits
<1> QED BY <1>1, <1>2, <1>3, <1>4, <1>5, <1>6, <1>7

LEMMA NeutralEventsLemma ==
  ASSUME NEW s, NEW e \in Environments, Live(s, e)
  PROVE  /\ Fits(EvRelease(s), e) /\ Live(EvDisconnect(s), e)
         /\ \A live \in BOOLEAN : Live(EvStatus(s, live), e)
         /\ Live(EvHoldInd(s), e) /\ Live(EvHoldReq(s), e)
         /\ Live(EvRetrieveReq(s), e)
         /\ \A drv \in Drivers \cup {"TONE"}, accepts \in BOOLEAN :
              /\ Live(EvRetrieveInd(s, drv, accepts), e)
              /\ Live(EvRetrieveAck(s, drv, accepts), e)
<1>0. \A t, new : Live(t, e) /\ new \in States \ {"U0"} => Live(SetState(t, new), e)
  BY SetStateLemma
<1>1. Fits(EvRelease(s), e)
  BY ReleaseLemma DEF EvRelease, Fits
<1>2. Live(EvDisconnect(s), e)
  BY <1>0, EventStates DEF EvDisconnect
<1>3. ASSUME NEW live \in BOOLEAN PROVE Live(EvStatus(s, live), e)
  <2>1. \A st \in ToStates : Before(st) \in States \ {"U0"}
    BY TimeoutStates
  <2>2. CASE /\ live /\ s.d.state \in {"U3_TO", "U4_TO", "U6_TO", "U7_TO"}
             /\ s.d.enquiries < EnquiryMax
    <3>1. EvStatus(s, live)
            = SetState([s EXCEPT !.d.enquiries = @ + 1], Before(s.d.state))
      BY <2>2 DEF EvStatus
    <3>2. Live([s EXCEPT !.d.enquiries = @ + 1], e)
      BY <2>2, CountLemma
    <3>3. s.d.state \in ToStates
      BY <2>2 DEF ToStates
    <3> QED BY <1>0, <2>1, <3>1, <3>2, <3>3
  <2>3. CASE live /\ s.d.state \in {"UA_TO", "UC_TO"}
    <3>1. EvStatus(s, live) = SetState(s, Before(s.d.state))
      BY <2>3 DEF EvStatus
    <3> QED BY Zenon, <1>0, <2>1, <2>3, <3>1 DEF ToStates
  <2>4. CASE /\ ~(/\ live /\ s.d.state \in {"U3_TO", "U4_TO", "U6_TO", "U7_TO"}
                  /\ s.d.enquiries < EnquiryMax)
             /\ ~(live /\ s.d.state \in {"UA_TO", "UC_TO"})
    <3>1. EvStatus(s, live) = s
      BY <2>4 DEF EvStatus
    <3> QED BY <3>1
  <2> QED BY <2>2, <2>3, <2>4
<1>4. Live(EvHoldInd(s), e)
  BY HoldLemma DEF EvHoldInd
<1>5. Live(EvHoldReq(s), e)
  BY Zenon, HoldLemma, FieldLemma DEF EvHoldReq
<1>6. Live(EvRetrieveReq(s), e)
  <2>1. [s EXCEPT !.d.hold = FALSE, !.d.retrieving = TRUE]
          = [[s EXCEPT !.d.hold = FALSE] EXCEPT !.d.retrieving = TRUE]
    BY DEF Live, Contexts, Descriptors
  <2>2. Live([[s EXCEPT !.d.hold = FALSE] EXCEPT !.d.retrieving = TRUE], e)
    BY Zenon, FieldLemma
  <2> QED BY <2>1, <2>2 DEF EvRetrieveReq
<1>7. ASSUME NEW drv \in Drivers \cup {"TONE"}, NEW accepts \in BOOLEAN
      PROVE  /\ Live(EvRetrieveInd(s, drv, accepts), e)
             /\ Live(EvRetrieveAck(s, drv, accepts), e)
  <2> DEFINE a == AllocateChannel(s)
  <2>1. Live(a, e)
    BY AllocateLemma
  <2> HIDE DEF a
  <2>2. /\ Live(Relink([a EXCEPT !.d.hold = FALSE], drv, accepts), e)
        /\ Live(Relink([a EXCEPT !.d.retrieving = FALSE], drv, accepts), e)
    BY ZenonT(40), <2>1, FieldLemma, TryRelinkLemma
  <2> QED BY <2>1, <2>2 DEF EvRetrieveInd, EvRetrieveAck, a
<1> QED BY <1>1, <1>2, <1>3, <1>4, <1>5, <1>6, <1>7

-----------------------------------------------------------------------------
(* From contexts to states. *)

DetachedIdle == ~attached => \A c \in CDs : ~InUse(c)

\* The inductive invariant.
IInv ==
  /\ TypeOK /\ UnusedHoldsNothing /\ DetachedIdle
  /\ ChannelsExclusive /\ ReferencesCounted
  /\ DriverOnOwnChannel /\ DriverOnce

OtherCallsOn(c, p) == CallsOn(p) \ {c}
OtherCalls(c) == {d \in CDs : InUse(d)} \ {c}

EnvOf(c) ==
  [id |-> c,
   util |-> {CHAN_D1} \cup UNION {OwnChannel(d) : d \in CDs \ {c}},
   ft |-> res.ft,
   ref |-> [p \in Pipes |-> Cardinality(OtherCallsOn(c, p))],
   auto |-> Cardinality(OtherCalls(c))]

LEMMA CallsFinite ==
  /\ IsFiniteSet(CDs) /\ Cardinality(CDs) = N
  /\ \A S \in SUBSET CDs : /\ IsFiniteSet(S) /\ Cardinality(S) \in Nat
                           /\ Cardinality(S) <= N
<1>1. IsFiniteSet(CDs) /\ Cardinality(CDs) = N
  BY CallDescAssumption, FS_Interval DEF CDs
<1>2. ASSUME NEW S \in SUBSET CDs
      PROVE  IsFiniteSet(S) /\ Cardinality(S) \in Nat /\ Cardinality(S) <= N
  BY <1>1, FS_Subset, FS_CardinalityType
<1> QED BY <1>1, <1>2

LEMMA OtherCounts ==
  ASSUME TypeOK, NEW c \in CDs
  PROVE  /\ Cardinality(OtherCalls(c)) \in 0 .. N - 1
         /\ Cardinality({d \in CDs : InUse(d)})
              = Cardinality(OtherCalls(c)) + (IF InUse(c) THEN 1 ELSE 0)
         /\ \A p \in Pipes :
              /\ Cardinality(OtherCallsOn(c, p)) \in Nat
              /\ Cardinality(CallsOn(p)) = Cardinality(OtherCallsOn(c, p))
                   + (IF InUse(c) /\ cds[c].pipe = p THEN 1 ELSE 0)
<1>1. /\ Cardinality({d \in CDs : InUse(d)})
           = Cardinality(OtherCalls(c)) + (IF InUse(c) THEN 1 ELSE 0)
      /\ Cardinality(OtherCalls(c)) \in Nat
  <2> DEFINE T == {d \in CDs : InUse(d)}
  <2>1. T \in SUBSET CDs /\ (c \in T <=> InUse(c))
    OBVIOUS
  <2>2. IsFiniteSet(T) /\ Cardinality(T) \in Nat /\ OtherCalls(c) \in SUBSET CDs
    BY <2>1, CallsFinite DEF OtherCalls
  <2>3. Cardinality(T \ {c}) = IF c \in T THEN Cardinality(T) - 1 ELSE Cardinality(T)
    BY <2>2, FS_RemoveElement
  <2>4. Cardinality(OtherCalls(c)) \in Nat
    BY <2>2, CallsFinite
  <2> QED BY <2>1, <2>2, <2>3, <2>4 DEF OtherCalls
<1>2. Cardinality(OtherCalls(c)) <= N - 1
  <2>1. OtherCalls(c) \in SUBSET (CDs \ {c})
    BY DEF OtherCalls
  <2>2. IsFiniteSet(CDs \ {c}) /\ Cardinality(CDs \ {c}) = N - 1
    BY CallsFinite, FS_RemoveElement
  <2> QED BY <2>1, <2>2, FS_Subset
<1>3. ASSUME NEW p \in Pipes
      PROVE  /\ Cardinality(OtherCallsOn(c, p)) \in Nat
             /\ Cardinality(CallsOn(p)) = Cardinality(OtherCallsOn(c, p))
                  + (IF InUse(c) /\ cds[c].pipe = p THEN 1 ELSE 0)
  <2>1. CallsOn(p) \in SUBSET CDs /\ OtherCallsOn(c, p) \in SUBSET CDs
        /\ (c \in CallsOn(p) <=> InUse(c) /\ cds[c].pipe = p)
    BY DEF CallsOn, OtherCallsOn
  <2>2. /\ IsFiniteSet(CallsOn(p)) /\ Cardinality(CallsOn(p)) \in Nat
        /\ Cardinality(OtherCallsOn(c, p)) \in Nat
    BY <2>1, CallsFinite
  <2>3. Cardinality(OtherCallsOn(c, p)) = IF c \in CallsOn(p)
          THEN Cardinality(CallsOn(p)) - 1 ELSE Cardinality(CallsOn(p))
    BY Zenon, <2>2, FS_RemoveElement DEF OtherCallsOn
  <2> QED BY <2>1, <2>2, <2>3
<1> QED BY <1>1, <1>2, <1>3, CallDescAssumption

LEMMA EnvLemma ==
  ASSUME IInv, NEW c \in CDs
  PROVE  /\ EnvOf(c) \in Environments /\ EnvOf(c).id = c
         /\ EnvOf(c).util = {CHAN_D1} \cup UNION {OwnChannel(d) : d \in CDs \ {c}}
         /\ EnvOf(c).ft = res.ft
         /\ \A p \in Pipes : EnvOf(c).ref[p] = Cardinality(OtherCallsOn(c, p))
         /\ EnvOf(c).auto = Cardinality(OtherCalls(c))
<1> DEFINE U == {CHAN_D1} \cup UNION {OwnChannel(d) : d \in CDs \ {c}}
           R == [p \in Pipes |-> Cardinality(OtherCallsOn(c, p))]
           A == Cardinality(OtherCalls(c))
<1>1. U \in SUBSET Channels
  BY ChannelTypes DEF OwnChannel
<1>2. R \in [Pipes -> Int] /\ A \in 0 .. N - 1
  <2>1. TypeOK
    BY DEF IInv
  <2>2. A \in 0 .. N - 1 /\ \A p \in Pipes : Cardinality(OtherCallsOn(c, p)) \in Nat
    BY Zenon, <2>1, OtherCounts
  <2> QED BY <2>2
<1>3. res.ft \in Drivings
  BY DEF IInv, TypeOK, Resources, Drivings
<1>4. EnvOf(c) = [id |-> c, util |-> U, ft |-> res.ft, ref |-> R, auto |-> A]
  BY DEF EnvOf
<1>5. \A p \in Pipes : R[p] = Cardinality(OtherCallsOn(c, p))
  OBVIOUS
<1> HIDE DEF U, R, A
<1>6. /\ EnvOf(c) \in Environments /\ EnvOf(c).id = c
      /\ EnvOf(c).util = U /\ EnvOf(c).ft = res.ft
      /\ EnvOf(c).ref = R /\ EnvOf(c).auto = A
  BY <1>1, <1>2, <1>3, <1>4 DEF Environments
<1> QED BY <1>5, <1>6 DEF U, A

LEMMA CtxLemma ==
  ASSUME TypeOK, NEW c \in CDs
  PROVE  /\ Ctx(c) \in Contexts /\ Ctx(c).id = c /\ Ctx(c).d = cds[c]
         /\ Ctx(c).util = res.util /\ Ctx(c).ft = res.ft
         /\ Ctx(c).ref = res.ref /\ Ctx(c).auto = res.auto
BY DEF Ctx, Contexts, TypeOK, Resources, Drivings

\* In every state of the invariant a call in use fits its environment ...
LEMMA LiveLemma ==
  ASSUME IInv, attached, NEW c \in CDs, InUse(c)
  PROVE  Live(Ctx(c), EnvOf(c))
<1> DEFINE s == Ctx(c)
           e == EnvOf(c)
<1>0. TypeOK
  BY DEF IInv
<1>1. /\ s \in Contexts /\ s.id = c /\ s.d = cds[c] /\ s.util = res.util
      /\ s.ft = res.ft /\ s.ref = res.ref /\ s.auto = res.auto
  BY <1>0, CtxLemma
<1>2. /\ e \in Environments /\ e.id = c /\ e.ft = res.ft
      /\ e.util = {CHAN_D1} \cup UNION {OwnChannel(d) : d \in CDs \ {c}}
      /\ \A p \in Pipes : e.ref[p] = Cardinality(OtherCallsOn(c, p))
      /\ e.auto = Cardinality(OtherCalls(c))
  BY EnvLemma
<1> HIDE DEF s, e
<1>3. Own(s.d) = OwnChannel(c)
  BY <1>1 DEF Own, OwnChannel
<1>4. Holds(s, e)
  BY <1>1, <1>2, <1>3 DEF Holds, IInv, ChannelsExclusive
<1>5. Refers(s, e)
  <2>1. cds[c].pipe \in Pipes
    BY DEF IInv, UnusedHoldsNothing
  <2>2. \A p \in Pipes : res.ref[p] = Cardinality(CallsOn(p))
    BY DEF IInv, ReferencesCounted
  <2>3. res.auto = Cardinality({d \in CDs : InUse(d)})
    BY DEF IInv, ReferencesCounted
  <2>4. Cardinality({d \in CDs : InUse(d)}) = Cardinality(OtherCalls(c)) + 1
    BY <1>0, OtherCounts
  <2>5. \A p \in Pipes : Cardinality(CallsOn(p)) = Cardinality(OtherCallsOn(c, p))
                   + (IF p = cds[c].pipe THEN 1 ELSE 0)
    BY Zenon, <1>0, OtherCounts
  <2> QED BY <1>1, <1>2, <2>1, <2>2, <2>3, <2>4, <2>5 DEF Refers
<1>6. OthersLinked(s, e)
  BY <1>1, <1>2 DEF OthersLinked
<1>7. OwnLinked(s, e)
  <2>1. SUFFICES ASSUME NEW ch \in BChannels \ e.util, res.ft[ch] # NoKey
                 PROVE  /\ ch \in OwnChannel(c) /\ cds[c].want
                        /\ res.ft[ch] = Key(c, cds[c].drv)
    BY <1>1, <1>3 DEF OwnLinked
  <2>2. PICK b \in CDs : /\ ch \in OwnChannel(b) /\ cds[b].want
                         /\ res.ft[ch] = Key(b, cds[b].drv)
    BY <2>1 DEF IInv, DriverOnOwnChannel
  <2>3. b = c
    BY <1>2, <2>1, <2>2
  <2> QED BY <2>2, <2>3
<1>8. Once(s.ft)
  BY <1>1 DEF Once, IInv, DriverOnce
<1>9. Live(s, e)
  BY <1>1, <1>2, <1>4, <1>5, <1>6, <1>7, <1>8 DEF Live, InUse
<1> QED BY <1>9 DEF s, e

\* ... and so does one that is not.
LEMMA DeadLemma ==
  ASSUME IInv, attached, NEW c \in CDs, ~InUse(c)
  PROVE  Dead(Ctx(c), EnvOf(c))
<1> DEFINE s == Ctx(c)
           e == EnvOf(c)
<1>0. TypeOK
  BY DEF IInv
<1>1. /\ s \in Contexts /\ s.id = c /\ s.d = cds[c] /\ s.util = res.util
      /\ s.ft = res.ft /\ s.ref = res.ref /\ s.auto = res.auto
  BY <1>0, CtxLemma
<1>2. /\ e \in Environments /\ e.id = c /\ e.ft = res.ft
      /\ e.util = {CHAN_D1} \cup UNION {OwnChannel(d) : d \in CDs \ {c}}
      /\ \A p \in Pipes : e.ref[p] = Cardinality(OtherCallsOn(c, p))
      /\ e.auto = Cardinality(OtherCalls(c))
  BY EnvLemma
<1> HIDE DEF s, e
<1>3. cds[c] = UnusedCd /\ OwnChannel(c) = {}
  BY UnusedCdType DEF IInv, UnusedHoldsNothing, OwnChannel
<1>4. s.util = e.util
  BY <1>1, <1>2, <1>3 DEF IInv, ChannelsExclusive
<1>5. s.auto = e.auto /\ \A q \in Pipes : s.ref[q] = e.ref[q]
  <2>1. /\ \A p \in Pipes : res.ref[p] = Cardinality(CallsOn(p))
        /\ res.auto = Cardinality({d \in CDs : InUse(d)})
    BY DEF IInv, ReferencesCounted
  <2>2. /\ Cardinality({d \in CDs : InUse(d)}) = Cardinality(OtherCalls(c)) + 0
        /\ Cardinality(OtherCalls(c)) \in Nat
        /\ \A p \in Pipes :
             /\ Cardinality(CallsOn(p)) = Cardinality(OtherCallsOn(c, p)) + 0
             /\ Cardinality(OtherCallsOn(c, p)) \in Nat
    BY <1>0, OtherCounts
  <2> QED BY <1>1, <1>2, <2>1, <2>2
<1>6. OthersLinked(s, e)
  BY <1>1, <1>2 DEF OthersLinked
<1>7. Unlinked(s, e)
  <2>1. SUFFICES ASSUME NEW ch \in BChannels \ e.util, res.ft[ch] # NoKey
                 PROVE  FALSE
    BY <1>1 DEF Unlinked
  <2>2. PICK b \in CDs : ch \in OwnChannel(b)
    BY <2>1 DEF IInv, DriverOnOwnChannel
  <2> QED BY <1>2, <1>3, <2>1, <2>2
<1>8. Once(s.ft)
  BY <1>1 DEF Once, IInv, DriverOnce
<1>9. Dead(s, e)
  BY <1>1, <1>2, <1>3, <1>4, <1>5, <1>6, <1>7, <1>8 DEF Dead
<1> QED BY <1>9 DEF s, e

\* A step that leaves the calls and the controller alone preserves the invariant.
LEMMA StutterLemma ==
  ASSUME IInv, UNCHANGED <<cds, res, attached, mode>>, count' \in 0 .. CdidEnd,
         silent' \in BOOLEAN
  PROVE  IInv'
<1>1. /\ \A c \in CDs : InUse(c)' = InUse(c) /\ OwnChannel(c)' = OwnChannel(c)
      /\ \A p \in Pipes : CallsOn(p)' = CallsOn(p)
  BY Zenon DEF InUse, OwnChannel, CallsOn
<1>2. TypeOK'
  BY DEF IInv, TypeOK
<1>3. UnusedHoldsNothing' /\ DetachedIdle'
  BY Zenon DEF IInv, UnusedHoldsNothing, DetachedIdle, InUse
<1>4. ChannelsExclusive'
  BY Zenon DEF IInv, ChannelsExclusive, OwnChannel
<1>5. ReferencesCounted'
  BY Zenon DEF IInv, ReferencesCounted, CallsOn, InUse
<1>6. DriverOnOwnChannel' /\ DriverOnce'
  BY Zenon DEF IInv, DriverOnOwnChannel, DriverOnce, OwnChannel
<1> QED BY <1>2, <1>3, <1>4, <1>5, <1>6 DEF IInv

\* A handler that leaves a context which fits preserves the invariant.
LEMMA CommitLemma ==
  ASSUME IInv, attached, attached', NEW c \in CDs, NEW s, Fits(s, EnvOf(c)),
         Commit(s), count' \in 0 .. CdidEnd, UNCHANGED <<mode, silent>>
  PROVE  IInv'
<1> DEFINE e == EnvOf(c)
<1>0. TypeOK
  BY DEF IInv
<1>1. /\ e \in Environments /\ e.id = c /\ e.ft = res.ft
      /\ e.util = {CHAN_D1} \cup UNION {OwnChannel(d) : d \in CDs \ {c}}
      /\ \A p \in Pipes : e.ref[p] = Cardinality(OtherCallsOn(c, p))
      /\ e.auto = Cardinality(OtherCalls(c))
  BY EnvLemma
<1> HIDE DEF e
<1>2. Fits(s, e)
  BY DEF e
<1>3. s \in Contexts /\ s.id = c
  BY <1>1, <1>2 DEF Fits, Live, Dead
<1>4. cds' = [cds EXCEPT ![c] = s.d]
  BY <1>3 DEF Commit
<1>5. /\ res'.util = s.util /\ res'.ft = s.ft /\ res'.ref = s.ref
      /\ res'.auto = s.auto /\ res' \in Resources
  BY <1>3 DEF Commit, Contexts, Resources, Drivings
<1>6. cds \in [CDs -> Descriptors] /\ cds' \in [CDs -> Descriptors]
  BY <1>0, <1>3, <1>4 DEF TypeOK, Contexts
<1>7. cds'[c] = s.d /\ \A b \in CDs \ {c} : cds'[b] = cds[b]
  BY <1>4, <1>6
<1>8. TypeOK'
  BY <1>0, <1>5, <1>6 DEF TypeOK
<1>9. IF s.d.cdid # CDID_UNUSED THEN s.d.pipe \in Pipes ELSE s.d = UnusedCd
  <2>1. CASE Live(s, e)
    BY <2>1 DEF Live, Refers
  <2>2. CASE Dead(s, e)
    <3>1. s.d = UnusedCd
      BY <2>2 DEF Dead
    <3>2. UnusedCd.cdid = CDID_UNUSED
      BY DEF UnusedCd
    <3> QED BY <3>1, <3>2
  <2> QED BY <1>2, <2>1, <2>2 DEF Fits
<1>10. UnusedHoldsNothing'
  BY <1>7, <1>9 DEF IInv, UnusedHoldsNothing, InUse
<1>11. DetachedIdle'
  BY DEF DetachedIdle
<1>12. OwnChannel(c)' = Own(s.d) /\ \A b \in CDs \ {c} : OwnChannel(b)' = OwnChannel(b)
  BY <1>7 DEF OwnChannel, Own
<1>13. s.util = e.util \cup Own(s.d) /\ e.util \cap Own(s.d) = {}
  BY Zenon, <1>2, UnusedCdType DEF Fits, Live, Dead, Holds, Own
<1>14. ChannelsExclusive'
  <2>1. \A a, b \in CDs : a # b => OwnChannel(a)' \cap OwnChannel(b)' = {}
    BY <1>1, <1>12, <1>13 DEF IInv, ChannelsExclusive
  <2>2. \A b \in CDs : CHAN_D1 \notin OwnChannel(b)'
    BY <1>1, <1>12, <1>13 DEF IInv, ChannelsExclusive
  <2>3. res'.util = {CHAN_D1} \cup UNION {OwnChannel(b)' : b \in CDs}
    BY <1>1, <1>5, <1>12, <1>13
  <2> QED BY <2>1, <2>2, <2>3 DEF ChannelsExclusive
<1>15. ReferencesCounted'
  <2>0. (InUse(c)' <=> s.d.cdid # CDID_UNUSED) /\ \A b \in CDs \ {c} : InUse(b)' = InUse(b)
    BY Zenon, <1>7 DEF InUse
  <2>1. /\ OtherCalls(c) \in SUBSET CDs /\ c \notin OtherCalls(c)
        /\ Cardinality(OtherCalls(c)) \in Nat /\ IsFiniteSet(OtherCalls(c))
    BY CallsFinite DEF OtherCalls
  <2>2. ASSUME NEW p \in Pipes
        PROVE  /\ c \notin OtherCallsOn(c, p) /\ IsFiniteSet(OtherCallsOn(c, p))
               /\ Cardinality(OtherCallsOn(c, p)) \in Nat
    <3>1. OtherCallsOn(c, p) \in SUBSET CDs /\ c \notin OtherCallsOn(c, p)
      BY DEF OtherCallsOn, CallsOn
    <3> QED BY <3>1, CallsFinite
  <2>3. CASE Live(s, e)
    <3>1. s.d.cdid # CDID_UNUSED /\ s.d.pipe \in Pipes /\ Refers(s, e)
      BY <2>3 DEF Live, Refers
    <3>2. {b \in CDs : InUse(b)}' = OtherCalls(c) \cup {c}
      BY <2>0, <3>1 DEF OtherCalls
    <3>3. Cardinality(OtherCalls(c) \cup {c}) = Cardinality(OtherCalls(c)) + 1
      BY ZenonT(40), <2>1, FS_AddElement
    <3>4. ASSUME NEW p \in Pipes PROVE res'.ref[p] = Cardinality(CallsOn(p)')
      <4>1. CASE p = s.d.pipe
        <5>1. CallsOn(p)' = OtherCallsOn(c, p) \cup {c}
          BY <1>7, <2>0, <3>1, <4>1 DEF OtherCallsOn, CallsOn
        <5>2. Cardinality(CallsOn(p)') = Cardinality(OtherCallsOn(c, p)) + 1
          BY ZenonT(40), <2>2, <5>1, FS_AddElement
        <5> QED BY <1>1, <1>5, <3>1, <4>1, <5>2 DEF Refers
      <4>2. CASE p # s.d.pipe
        <5>1. CallsOn(p)' = OtherCallsOn(c, p)
          BY <1>7, <2>0, <4>2 DEF OtherCallsOn, CallsOn
        <5> QED BY <1>1, <1>5, <2>2, <3>1, <4>2, <5>1 DEF Refers
      <4> QED BY <4>1, <4>2
    <3> QED BY Zenon, <1>1, <1>5, <3>1, <3>2, <3>3, <3>4 DEF ReferencesCounted, Refers
  <2>4. CASE Dead(s, e)
    <3>1. s.d.cdid = CDID_UNUSED
      BY <2>4 DEF Dead, UnusedCd
    <3>2. {b \in CDs : InUse(b)}' = OtherCalls(c)
      BY <2>0, <3>1 DEF OtherCalls
    <3>3. ASSUME NEW p \in Pipes PROVE res'.ref[p] = Cardinality(CallsOn(p)')
      <4>1. CallsOn(p)' = OtherCallsOn(c, p)
        BY <1>7, <2>0, <3>1 DEF OtherCallsOn, CallsOn
      <4> QED BY ZenonT(40), <1>1, <1>5, <2>4, <4>1 DEF Dead
    <3> QED BY Zenon, <1>1, <1>5, <2>4, <3>2, <3>3 DEF ReferencesCounted, Dead
  <2> QED BY <1>2, <2>3, <2>4 DEF Fits
<1>16. DriverOnOwnChannel'
  <2>1. SUFFICES ASSUME NEW ch \in BChannels, s.ft[ch] # NoKey
                 PROVE  \E b \in CDs : /\ ch \in OwnChannel(b)' /\ cds'[b].want
                                       /\ s.ft[ch] = Key(b, cds'[b].drv)
    BY <1>5 DEF DriverOnOwnChannel
  <2>2. CASE ch \in e.util
    <3>1. s.ft[ch] = res.ft[ch]
      BY ZenonT(40), <1>1, <1>2, <2>2 DEF Fits, Live, Dead, OthersLinked
    <3>2. PICK b \in CDs : /\ ch \in OwnChannel(b) /\ cds[b].want
                           /\ res.ft[ch] = Key(b, cds[b].drv)
      BY <2>1, <3>1 DEF IInv, DriverOnOwnChannel
    <3>3. PICK a \in CDs \ {c} : ch \in OwnChannel(a)
      BY <1>1, <2>2, ChannelTypes
    <3>4. a = b
      BY <3>2, <3>3 DEF IInv, ChannelsExclusive
    <3> QED BY <1>7, <1>12, <3>1, <3>2, <3>3, <3>4
  <2>3. CASE ch \notin e.util
    <3>1. ch \in BChannels \ e.util
      BY <2>1, <2>3
    <3>2. CASE Live(s, e)
      <4>1. OwnLinked(s, e)
        BY <3>2 DEF Live
      <4>2. ch \in Own(s.d) /\ s.d.want /\ s.ft[ch] = Key(s.id, s.d.drv)
        BY <2>1, <3>1, <4>1 DEF OwnLinked
      <4> QED BY <1>3, <1>7, <1>12, <4>2
    <3>3. CASE Dead(s, e)
      <4>1. Unlinked(s, e)
        BY <3>3 DEF Dead
      <4> QED BY <2>1, <3>1, <4>1 DEF Unlinked
    <3> QED BY <1>2, <3>2, <3>3 DEF Fits
  <2> QED BY <2>2, <2>3
<1>17. DriverOnce'
  <2>1. Once(s.ft)
    BY <1>2 DEF Fits, Live, Dead
  <2> QED BY <1>5, <2>1 DEF Once, DriverOnce
<1> QED BY <1>8, <1>10, <1>11, <1>14, <1>15, <1>16, <1>17 DEF IInv

-----------------------------------------------------------------------------
(* The actions. *)

\* Direction filter and commit of a request or a message for a call in use.
LEMMA UpdateLemma ==
  ASSUME IInv, attached, NEW c \in CDs, NEW s, NEW r, NEW ev,
         Live(s, EnvOf(c)), Fits(r, EnvOf(c)), Commit(Update(s, ev, r)),
         UNCHANGED <<count, attached, mode, silent>>
  PROVE  IInv'
<1>1. Fits(Update(s, ev, r), EnvOf(c))
  BY DEF Update, Fits
<1>2. count' \in 0 .. CdidEnd
  BY DEF IInv, TypeOK
<1> QED BY <1>1, <1>2, CommitLemma

\* get_cdid returns CDID_UNUSED or a number of its range.
LEMMA NewCdidType ==
  ASSUME TypeOK
  PROVE  NewCdid \in 0 .. CdidEnd - 1
<1> DEFINE used == {cds[c].cdid : c \in CDs}
           free == (1 .. CdidEnd - 1) \ used
           after == {k \in free : k > count}
           pool == IF after # {} THEN after ELSE free
<1>1. pool \in SUBSET Nat /\ pool \subseteq free
  OBVIOUS
<1>2. CASE free = {}
  BY <1>2, CallDescAssumption DEF NewCdid, NextCdid, CDID_UNUSED
<1>3. CASE free # {}
  <2>1. pool # {}
    BY <1>3
  <2>2. NewCdid = CHOOSE k \in pool : \A j \in pool : k <= j
    BY <1>3 DEF NewCdid, NextCdid
  <2> HIDE DEF pool
  <2>3. NewCdid \in pool
    BY Zenon, <1>1, <2>1, <2>2, LeastExists
  <2> QED BY <1>1, <2>3
<1> QED BY <1>2, <1>3

LEMMA CountType ==
  ASSUME TypeOK, CountCdid
  PROVE  count' \in 0 .. CdidEnd
BY NewCdidType, CallDescAssumption DEF CountCdid

LEMMA LowestUnused ==
  ASSUME Unused # {}
  PROVE  Lowest(Unused) \in CDs /\ ~InUse(Lowest(Unused))
<1>1. Unused \in SUBSET Nat
  BY DEF Unused, CDs
<1>2. Lowest(Unused) \in Unused
  BY Zenon, <1>1, LeastExists DEF Lowest
<1> QED BY <1>2 DEF Unused

\* i4b_allocate_cd and n_allocate_cd
LEMMA AllocatedLemma ==
  ASSUME IInv, attached, NEW c \in CDs, ~InUse(c), NewCdid # CDID_UNUSED,
         NEW p \in Pipes, NEW incoming \in BOOLEAN, NEW cr \in Nat
  PROVE  /\ Live(Allocated(c, p, incoming, cr), EnvOf(c))
         /\ ~Allocated(c, p, incoming, cr).d.alloc
<1> DEFINE e == EnvOf(c)
           n == IF incoming THEN cr ELSE NewCdid
           d == [UnusedCd EXCEPT !.cdid = NewCdid, !.incoming = incoming, !.cr = n]
           s == [Ctx(c) EXCEPT !.d = d]
           t == SetPipe(s, p)
<1>0. e \in Environments /\ Dead(Ctx(c), e)
  BY EnvLemma, DeadLemma
<1>1. NewCdid \in 0 .. CdidEnd - 1
  BY NewCdidType DEF IInv
<1>2. /\ d \in Descriptors /\ d.cdid = NewCdid /\ d.pipe = NoPipe
      /\ d.alloc = FALSE
  <2>1. n \in Nat
    BY <1>1
  <2>2. UnusedCd.pipe = NoPipe
    BY DEF UnusedCd
  <2> HIDE DEF n
  <2> QED BY ZenonT(40), <1>1, <2>1, <2>2, UnusedCdType DEF Descriptors
<1> HIDE DEF d, e
<1>3. /\ s \in Contexts /\ s.d = d /\ s.id = e.id /\ s.util = e.util
      /\ s.auto = e.auto /\ s.ft = Ctx(c).ft
      /\ \A q \in Pipes : s.ref[q] = e.ref[q]
  BY <1>0, <1>2 DEF Dead, Contexts
<1> HIDE DEF s
<1>a. s.auto + 1 < AutoMod /\ NoPipe \notin Pipes
  BY <1>0, <1>3, CallDescAssumption DEF Environments, NoPipe
<1>4. /\ t \in Contexts
      /\ t.d = [d EXCEPT !.pipe = p]
      /\ t.id = s.id /\ t.util = s.util /\ t.ft = s.ft
      /\ \A q \in Pipes :
           t.ref[q] = s.ref[q] + (IF q = p THEN 1 ELSE 0)
                               - (IF q = NoPipe THEN 1 ELSE 0)
      /\ t.auto = s.auto + (IF p \in Pipes THEN 1 ELSE 0)
                         - (IF NoPipe \in Pipes THEN 1 ELSE 0)
  BY <1>2, <1>3, <1>a, SetPipeFields
<1> HIDE DEF t
<1>5. t.d.cdid = NewCdid /\ t.d.pipe = p /\ t.d.alloc = FALSE
  BY <1>2, <1>4 DEF Descriptors
<1>6. Holds(t, e)
  BY <1>3, <1>4, <1>5 DEF Holds, Own
<1>7. Refers(t, e)
  BY <1>0, <1>3, <1>4, <1>5, <1>a DEF Refers, Environments
<1>8. OthersLinked(t, e) /\ OwnLinked(t, e) /\ Once(t.ft)
  BY <1>0, <1>3, <1>4 DEF Dead, OthersLinked, OwnLinked, Unlinked
<1>9. Live(t, e)
  BY <1>3, <1>4, <1>5, <1>6, <1>7, <1>8 DEF Live
<1>10. LET new == IF incoming THEN "INCOMING" ELSE "OUTGOING"
       IN Live(SetState(t, new), e) /\ ~SetState(t, new).d.alloc
  BY <1>0, <1>5, <1>9, SetStateLemma, EventStates
<1> QED BY <1>10 DEF Allocated, d, e, s, t

\* dss1_decode_ie on a call in use, or on a new one
LEMMA DecodedLemma ==
  ASSUME NEW s, NEW e, Live(s, e), NEW ch \in ChannelIds
  PROVE  Live([s EXCEPT !.d.responded = TRUE,
                        !.d.chan = IF s.d.alloc THEN @ ELSE ch], e)
<1> DEFINE n == IF s.d.alloc THEN s.d.chan ELSE ch
           d == [s.d EXCEPT !.responded = TRUE, !.chan = n]
<1>0. s \in Contexts
  BY DEF Live
<1>1. [s EXCEPT !.d.responded = TRUE, !.d.chan = IF s.d.alloc THEN @ ELSE ch]
        = [s EXCEPT !.d = d]
  BY Zenon, <1>0 DEF Contexts, Descriptors
<1>2. n \in ChannelIds /\ (s.d.alloc => n = s.d.chan)
  BY <1>0 DEF Contexts, Descriptors
<1> HIDE DEF n
<1>3. Same(d, s)
  BY Zenon, <1>0, <1>2 DEF Same, Contexts, Descriptors
<1> QED BY <1>1, <1>3, PlainLemma

LEMMA ChannelIEsType == \A c \in CDs : ChannelIEs(c) \subseteq ChannelIds
BY CallAssumption, ChannelTypes DEF ChannelIEs

LEMMA NtModeType ==
  ASSUME IInv
  PROVE  NtMode \in BOOLEAN
BY CallAssumption DEF IInv, TypeOK, NtMode, DriverModes

LEMMA DecodedLive ==
  ASSUME IInv, attached, NEW c \in CDs, InUse(c), NEW ch \in ChannelIEs(c)
  PROVE  Live(Decoded(c, ch), EnvOf(c))
<1>1. Live(Ctx(c), EnvOf(c))
  BY LiveLemma
<1>2. Ctx(c).d = cds[c]
  BY CtxLemma DEF IInv
<1>3. ch \in ChannelIds
  BY ChannelIEsType
<1>4. Live([Ctx(c) EXCEPT !.d.responded = TRUE,
                          !.d.chan = IF Ctx(c).d.alloc THEN @ ELSE ch], EnvOf(c))
  BY Zenon, <1>1, <1>3, DecodedLemma
<1> QED BY <1>2, <1>4 DEF Decoded

\* Requests of applications.
LEMMA ApplicationStep ==
  ASSUME IInv, Applications
  PROVE  IInv'
<1> USE DEF Fits
<1>r. ASSUME NEW c \in CDs, NEW ev, NEW r, Request(c, ev, r), Fits(r, EnvOf(c))
      PROVE  IInv'
  <2>1. attached /\ InUse(c) /\ Commit(Update(Ctx(c), ev, r))
        /\ UNCHANGED <<count, attached, mode, silent>>
    BY <1>r DEF Request
  <2>2. Live(Ctx(c), EnvOf(c))
    BY <2>1, LiveLemma
  <2> QED BY <1>r, <2>1, <2>2, UpdateLemma
<1>l. \A c \in CDs : attached /\ InUse(c) =>
        EnvOf(c) \in Environments /\ Live(Ctx(c), EnvOf(c))
  BY LiveLemma, EnvLemma
<1>q. \A c \in CDs : \A ev, r : Request(c, ev, r) => attached /\ InUse(c)
  BY DEF Request
<1>1. CASE CdidReq
  <2>1. CASE NoCdid
    <3>1. count' \in 0 .. CdidEnd
      BY <2>1, CountType DEF NoCdid, IInv
    <3>2. UNCHANGED <<cds, res, attached, mode>> /\ silent' \in BOOLEAN
      BY <2>1 DEF NoCdid, IInv, TypeOK
    <3> QED BY <3>1, <3>2, StutterLemma
  <2>2. CASE ~NoCdid
    <3> DEFINE c == Lowest(Unused)
    <3>1. /\ attached /\ Unused # {} /\ NewCdid # CDID_UNUSED
          /\ Commit(Allocated(c, 0, FALSE, 0)) /\ CountCdid
          /\ UNCHANGED <<attached, mode, silent>>
      BY Zenon, <1>1, <2>2 DEF CdidReq
    <3>2. c \in CDs /\ ~InUse(c)
      BY <3>1, LowestUnused
    <3> HIDE DEF c
    <3>3. Live(Allocated(c, 0, FALSE, 0), EnvOf(c))
      BY Zenon, <3>1, <3>2, AllocatedLemma, CallDescAssumption
    <3>4. count' \in 0 .. CdidEnd
      BY <3>1, CountType DEF IInv
    <3> QED BY Zenon, <3>1, <3>2, <3>3, <3>4, CommitLemma
  <2> QED BY <2>1, <2>2
<1>2. CASE ConnectReq
  <2>1. PICK c \in CDs, complete \in BOOLEAN :
          \E ch \in ChannelIEs(c) :
            /\ attached /\ InUse(c) /\ Commit(ConnectRequested(c, ch, complete))
            /\ UNCHANGED <<count, attached, mode, silent>>
    BY <1>2 DEF ConnectReq
  <2>2. PICK ch \in ChannelIEs(c) :
            /\ attached /\ InUse(c) /\ Commit(ConnectRequested(c, ch, complete))
            /\ UNCHANGED <<count, attached, mode, silent>>
    BY <2>1
  <2> DEFINE s == IF cds[c].alloc THEN Ctx(c) ELSE [Ctx(c) EXCEPT !.d.chan = ch]
             reserve == NtMode \/ ch \in Channels \cup {CHAN_NOT_ANY}
             a == IF reserve THEN AllocateChannel(s) ELSE s
             e == EnvOf(c)
  <2>3. e \in Environments /\ Live(Ctx(c), e) /\ Ctx(c).d = cds[c]
    BY <1>l, <2>2, CtxLemma DEF IInv
  <2>4. Live(s, e)
    BY Zenon, <2>3, ChannelIEsType, CountLemma
  <2> HIDE DEF s
  <2>5. Live(a, e)
    BY <2>4, AllocateLemma
  <2> HIDE DEF a
  <2>6. Fits(FreeCd(a), e) /\ Fits(Update(a, "SETUPRQ", EvSetupRq(a, complete)), e)
    BY ZenonT(40), <2>3, <2>5, FreeCdLemma, CallerEvents DEF Update
  <2>7. Fits(ConnectRequested(c, ch, complete), e)
    BY <2>6 DEF ConnectRequested, a, s
  <2>8. count' \in 0 .. CdidEnd
    BY <2>2 DEF IInv, TypeOK
  <2> QED BY <2>2, <2>7, <2>8, CommitLemma
<1>3. CASE ConnectRespAccept
  BY <1>3, <1>r, <1>l, <1>q, CalleeEvents DEF ConnectRespAccept
<1>4. CASE ConnectRespReject
  BY <1>4, <1>r, <1>l, <1>q, CalleeEvents DEF ConnectRespReject
<1>5. CASE ConnectRespIgnore
  <2>1. PICK c \in CDs : Request(c, "RELEASE",
          IF cds[c].ind < 2 THEN EvRelease(Ctx(c)) ELSE [Ctx(c) EXCEPT !.d.ind = @ - 1])
    BY <1>5 DEF ConnectRespIgnore
  <2>2. Live(Ctx(c), EnvOf(c)) /\ EnvOf(c) \in Environments
    BY <1>l, <1>q, <2>1
  <2>3. Fits(EvRelease(Ctx(c)), EnvOf(c))
    BY <2>2, NeutralEventsLemma
  <2>4. ASSUME ~(cds[c].ind < 2)
        PROVE  Live([Ctx(c) EXCEPT !.d.ind = @ - 1], EnvOf(c))
    <3>1. Ctx(c).d = cds[c] /\ cds[c].ind \in 0 .. IndMax
      BY CtxLemma DEF IInv, TypeOK, Descriptors
    <3>2. Ctx(c).d.ind - 1 \in 0 .. IndMax
      BY <2>4, <3>1, CallAssumption
    <3> QED BY ZenonT(40), <2>2, <3>2, CountLemma
  <2> QED BY <1>r, <2>1, <2>3, <2>4
<1>6. CASE DisconnectReq
  BY <1>6, <1>r, <1>l, <1>q, NeutralEventsLemma DEF DisconnectReq
<1>7. CASE AlertReq
  BY <1>7, <1>r, <1>l, <1>q, CalleeEvents DEF AlertReq
<1>8. CASE InformationReq
  BY <1>8, <1>r, <1>l, <1>q, CallerEvents DEF InformationReq
<1>9. CASE HoldReq
  BY <1>9, <1>r, <1>l, <1>q, NeutralEventsLemma DEF HoldReq
<1>10. CASE RetrieveReq
  BY <1>10, <1>r, <1>l, <1>q, NeutralEventsLemma DEF RetrieveReq
<1>11. CASE LinkReq
  <2>1. PICK c \in CDs, drv \in Drivers \cup {"TONE"}, accepts \in BOOLEAN :
          /\ attached /\ InUse(c) /\ Commit(Link(Ctx(c), drv, accepts))
          /\ UNCHANGED <<count, attached, mode, silent>>
    BY <1>11 DEF LinkReq
  <2>2. Live(Link(Ctx(c), drv, accepts), EnvOf(c)) /\ count' \in 0 .. CdidEnd
    BY <1>l, <2>1, LinkLemma DEF IInv, TypeOK
  <2> QED BY <2>1, <2>2, CommitLemma
<1>12. CASE UnlinkReq
  <2>1. PICK c \in CDs :
          /\ attached /\ InUse(c) /\ Commit(Unlink(Ctx(c)))
          /\ UNCHANGED <<count, attached, mode, silent>>
    BY <1>12 DEF UnlinkReq
  <2>2. Live(Unlink(Ctx(c)), EnvOf(c)) /\ count' \in 0 .. CdidEnd
    BY ZenonT(40), <1>l, <2>1, UnlinkLemma DEF IInv, TypeOK
  <2> QED BY <2>1, <2>2, CommitLemma
<1> QED BY <1>1, <1>2, <1>3, <1>4, <1>5, <1>6, <1>7, <1>8, <1>9, <1>10, <1>11,
           <1>12 DEF Applications

\* Messages received on pipe p.
LEMMA NetworkStep ==
  ASSUME IInv, NEW p \in RxPipes, Network(p)
  PROVE  IInv'
<1> USE DEF Fits
<1>p. p \in Pipes
  BY CallDescAssumption DEF RxPipes
<1>r. ASSUME NEW c \in CDs, NEW ch \in ChannelIEs(c), NEW ev, NEW r,
             Receive(c, p, ev, Decoded(c, ch), r),
             Fits(r, EnvOf(c))
      PROVE  IInv'
  <2>1. attached /\ InUse(c) /\ Commit(Update(Decoded(c, ch), ev, r))
        /\ UNCHANGED <<count, attached, mode, silent>>
    BY <1>r DEF Receive, Reaches
  <2>2. Live(Decoded(c, ch), EnvOf(c))
    BY <2>1, DecodedLive
  <2> QED BY <1>r, <2>1, <2>2, UpdateLemma
<1>l. \A c \in CDs : \A ch \in ChannelIEs(c) : \A ev, r :
        Receive(c, p, ev, Decoded(c, ch), r) =>
          EnvOf(c) \in Environments /\ Live(Decoded(c, ch), EnvOf(c))
  BY Zenon, DecodedLive, EnvLemma DEF Receive, Reaches
<1>1. CASE RxNewCall(p)
  <2>1. PICK cr \in IncomingCRs, ch \in ChanInputs, ind \in 0 .. IndMax,
             complete \in BOOLEAN, accepts \in BOOLEAN, tone \in {FALSE, NtMode} :
          /\ attached /\ Unused # {}
          /\ \/ NoCdid
             \/ /\ NewCdid # CDID_UNUSED
                /\ Commit(EvSetup(NewCall(p, cr, ch), complete, tone, accepts, ind))
                /\ CountCdid
                /\ UNCHANGED <<attached, mode, silent>>
    BY ZenonT(40), <1>1 DEF RxNewCall
  <2>2. CASE NoCdid
    <3>1. count' \in 0 .. CdidEnd
      BY <2>2, CountType DEF NoCdid, IInv
    <3>2. UNCHANGED <<cds, res, attached, mode>> /\ silent' \in BOOLEAN
      BY <2>2 DEF NoCdid, IInv, TypeOK
    <3> QED BY <3>1, <3>2, StutterLemma
  <2>3. CASE ~NoCdid
    <3> DEFINE c == Lowest(Unused)
               n == Allocated(c, p, TRUE, cr)
               s == NewCall(p, cr, ch)
    <3>1. /\ NewCdid # CDID_UNUSED /\ CountCdid /\ UNCHANGED <<attached, mode, silent>>
          /\ Commit(EvSetup(s, complete, tone, accepts, ind))
      BY ZenonT(40), <2>1, <2>3
    <3>2. c \in CDs /\ ~InUse(c)
      BY <2>1, LowestUnused
    <3>3. EnvOf(c) \in Environments
      BY Zenon, <3>2, EnvLemma
    <3> HIDE DEF c
    <3>4. cr \in Nat /\ ch \in ChannelIds /\ tone \in BOOLEAN
      BY Zenon, CallAssumption, NtModeType
    <3>5. Live(n, EnvOf(c)) /\ ~n.d.alloc
      BY Zenon, <1>p, <2>1, <3>1, <3>2, <3>4, AllocatedLemma
    <3> HIDE DEF n
    <3>6. Live([n EXCEPT !.d.responded = TRUE,
                         !.d.chan = IF n.d.alloc THEN @ ELSE ch], EnvOf(c))
      BY Zenon, <3>4, <3>5, DecodedLemma
    <3>7. Live(s, EnvOf(c))
      BY <3>5, <3>6 DEF NewCall, c, n
    <3> HIDE DEF s
    <3>8. Fits(EvSetup(s, complete, tone, accepts, ind), EnvOf(c))
      BY <3>3, <3>4, <3>7, CalleeEvents
    <3>9. count' \in 0 .. CdidEnd
      BY <3>1, CountType DEF IInv
    <3> QED BY <2>1, <3>1, <3>2, <3>8, <3>9, CommitLemma
  <2> QED BY <2>2, <2>3
<1>2. CASE RxSetup(p)
  <2>1. PICK c \in CDs, ind \in 0 .. IndMax, complete \in BOOLEAN,
             accepts \in BOOLEAN, tone \in {FALSE, NtMode} :
          \E ch \in ChannelIEs(c) :
            Receive(c, p, "SETUP", Decoded(c, ch),
                    EvSetup(Decoded(c, ch), complete, tone, accepts, ind))
    BY Zenon, <1>2 DEF RxSetup
  <2>2. PICK ch \in ChannelIEs(c) :
          Receive(c, p, "SETUP", Decoded(c, ch),
                  EvSetup(Decoded(c, ch), complete, tone, accepts, ind))
    BY <2>1
  <2>3. tone \in BOOLEAN
    BY ZenonT(40), NtModeType
  <2>4. Fits(EvSetup(Decoded(c, ch), complete, tone, accepts, ind), EnvOf(c))
    BY <1>l, <2>2, <2>3, CalleeEvents
  <2> QED BY <1>r, <2>2, <2>4
<1>3. CASE RxProgress(p)
  BY <1>3, <1>r, <1>l, CallerEvents, CalleeEvents DEF RxProgress
<1>4. CASE RxConnect(p)
  BY <1>4, <1>r, <1>l, <1>p, CallerEvents DEF RxConnect
<1>5. CASE RxConAck(p)
  BY <1>5, <1>r, <1>l, CalleeEvents DEF RxConAck
<1>6. CASE RxStatus(p)
  BY <1>6, <1>r, <1>l, NeutralEventsLemma DEF RxStatus
<1>7. CASE RxHold(p)
  BY <1>7, <1>r, <1>l, NeutralEventsLemma DEF RxHold
<1>8. CASE RxRetrieve(p)
  BY <1>8, <1>r, <1>l, NeutralEventsLemma DEF RxRetrieve
<1>9. CASE RxRelease(p)
  BY ZenonT(40), <1>9, <1>r, <1>l, NeutralEventsLemma DEF RxRelease
<1>10. CASE RxDisconnect(p)
  BY <1>10, <1>r, <1>l, NeutralEventsLemma DEF RxDisconnect
<1> QED BY <1>1, <1>2, <1>3, <1>4, <1>5, <1>6, <1>7, <1>8, <1>9, <1>10 DEF Network

\* The timer of a call.
LEMMA TimeoutStep ==
  ASSUME IInv, NEW c \in CDs, Timeout(c)
  PROVE  IInv'
<1> DEFINE s == [Ctx(c) EXCEPT !.d.timer = FALSE]
<1>1. /\ attached /\ InUse(c) /\ UNCHANGED <<count, attached, mode, silent>>
      /\ Commit(SetState(s, TimeoutState(cds[c].state)))
  BY DEF Timeout
<1>2. Live(Ctx(c), EnvOf(c)) /\ EnvOf(c) \in Environments
  BY <1>1, LiveLemma, EnvLemma
<1>3. Live(s, EnvOf(c))
  BY ZenonT(40), <1>2, FieldLemma
<1> HIDE DEF s
<1>4. TimeoutState(cds[c].state) \in States
  BY TimeoutStates DEF IInv, TypeOK, Descriptors
<1>5. Fits(SetState(s, TimeoutState(cds[c].state)), EnvOf(c))
  BY <1>2, <1>3, <1>4, SetStateLemma DEF Fits
<1>6. count' \in 0 .. CdidEnd
  BY <1>1 DEF IInv, TypeOK
<1> QED BY <1>1, <1>5, <1>6, CommitLemma

\* The end of a set of calls, in whatever order.
LEMMA ReleaseAllLemma ==
  ASSUME IInv, attached, NEW S \in SUBSET {c \in CDs : InUse(c)},
         NEW a \in 0 .. AutoMod - 1, ReleaseAll(S, a),
         attached' \in BOOLEAN, UNCHANGED <<count, mode, silent>>,
         attached' => a = res.auto,
         ~attached' => S = {c \in CDs : InUse(c)}
  PROVE  IInv'
<1> DEFINE X == {cds[c].chan : c \in {d \in S : cds[d].alloc}}
           F == [ch \in BChannels |->
                   IF \E c \in S : /\ cds[c].alloc /\ cds[c].chan = ch
                                   /\ res.ft[ch] = Key(c, cds[c].drv)
                   THEN NoKey ELSE res.ft[ch]]
           R == [p \in Pipes |-> res.ref[p] - Cardinality({c \in S : cds[c].pipe = p})]
           A == Minus(a, Cardinality(S))
<1>0. TypeOK
  BY DEF IInv
<1>1. cds' = [c \in CDs |-> IF c \in S THEN UnusedCd ELSE cds[c]]
  BY Zenon DEF ReleaseAll
<1>2. res' = [util |-> res.util \ X, ft |-> F, ref |-> R, auto |-> A]
  BY Zenon DEF ReleaseAll
<1>3. IsFiniteSet(S) /\ Cardinality(S) \in Nat /\ Cardinality(S) <= N
  BY CallsFinite
<1>4. A \in 0 .. AutoMod - 1
  BY <1>3, CallDescAssumption DEF Minus
<1>5. res.util \ X \in SUBSET Channels /\ F \in Drivings
  BY <1>0 DEF TypeOK, Resources, Drivings
<1>6. R \in [Pipes -> Int]
  <2>1. \A p \in Pipes : Cardinality({c \in S : cds[c].pipe = p}) \in Nat
    <3>1. \A p \in Pipes : {c \in S : cds[c].pipe = p} \in SUBSET CDs
      OBVIOUS
    <3> QED BY <3>1, CallsFinite
  <2>2. \A p \in Pipes : res.ref[p] \in Int
    BY <1>0 DEF TypeOK, Resources
  <2> QED BY <2>1, <2>2
<1>7. \A ch \in BChannels : F[ch] = IF \E c \in S : /\ cds[c].alloc /\ cds[c].chan = ch
                                                 /\ res.ft[ch] = Key(c, cds[c].drv)
                                  THEN NoKey ELSE res.ft[ch]
  OBVIOUS
<1>8. \A p \in Pipes : R[p] = res.ref[p] - Cardinality({c \in S : cds[c].pipe = p})
  OBVIOUS
<1>9. \A x : x \in X <=> \E c \in S : cds[c].alloc /\ cds[c].chan = x
  OBVIOUS
<1> HIDE DEF X, F, R, A
<1>10. /\ res'.util = res.util \ X /\ res'.ft = F /\ res'.ref = R /\ res'.auto = A
       /\ res' \in Resources
  BY <1>2, <1>4, <1>5, <1>6 DEF Resources, Drivings
<1>11. cds' \in [CDs -> Descriptors]
  BY <1>0, <1>1, UnusedCdType DEF TypeOK
<1>12. \A c \in CDs : cds'[c] = IF c \in S THEN UnusedCd ELSE cds[c]
  BY <1>1
<1>13. TypeOK'
  BY <1>0, <1>10, <1>11 DEF TypeOK
<1>14. UnusedCd.cdid = CDID_UNUSED
  BY DEF UnusedCd
<1>15. UnusedHoldsNothing'
  BY <1>12, <1>14 DEF IInv, UnusedHoldsNothing, InUse
<1>16. DetachedIdle'
  BY <1>12, <1>14 DEF DetachedIdle, InUse
<1>17. \A c \in CDs : OwnChannel(c)' = IF c \in S THEN {} ELSE OwnChannel(c)
  BY <1>12, UnusedCdType DEF OwnChannel
<1>18. ChannelsExclusive'
  <2>1. \A c, d \in CDs : c # d => OwnChannel(c)' \cap OwnChannel(d)' = {}
    BY <1>17 DEF IInv, ChannelsExclusive
  <2>2. ASSUME attached'
        PROVE  /\ \A c \in CDs : CHAN_D1 \notin OwnChannel(c)'
               /\ res'.util = {CHAN_D1} \cup UNION {OwnChannel(c)' : c \in CDs}
    <3>1. \A c \in CDs : CHAN_D1 \notin OwnChannel(c)'
      BY <1>17 DEF IInv, ChannelsExclusive
    <3>2. \A x \in Channels : x \in X <=> \E c \in S : x \in OwnChannel(c)
      BY <1>9 DEF OwnChannel
    <3>3. res.util = {CHAN_D1} \cup UNION {OwnChannel(c) : c \in CDs}
      BY DEF IInv, ChannelsExclusive
    <3>4. ASSUME NEW x \in Channels
          PROVE  x \in res.util \ X
                   <=> x = CHAN_D1 \/ \E c \in CDs : x \in OwnChannel(c)'
      BY <1>17, <3>2, <3>3 DEF IInv, ChannelsExclusive
    <3>5. \A c \in CDs : OwnChannel(c)' \in SUBSET Channels
      BY <1>17 DEF OwnChannel
    <3>6. res.util \ X = {CHAN_D1} \cup UNION {OwnChannel(c)' : c \in CDs}
      BY ZenonT(40), <1>5, <3>4, <3>5, ChannelTypes
    <3> QED BY <1>10, <3>1, <3>6
  <2> QED BY <2>1, <2>2 DEF ChannelsExclusive
<1>19. ReferencesCounted'
  <2>1. SUFFICES ASSUME attached'
                 PROVE  /\ \A p \in Pipes : R[p] = Cardinality(CallsOn(p)')
                        /\ A = Cardinality({c \in CDs : InUse(c)}')
    BY <1>10 DEF ReferencesCounted
  <2>2. ASSUME NEW p \in Pipes PROVE R[p] = Cardinality(CallsOn(p)')
    <3>1. CallsOn(p)' = CallsOn(p) \ S
      BY <1>12, <1>14 DEF CallsOn, InUse
    <3>2. {c \in S : cds[c].pipe = p} = CallsOn(p) \cap S
      BY DEF CallsOn
    <3>3. CallsOn(p) \in SUBSET CDs
      BY DEF CallsOn
    <3>4. Cardinality(CallsOn(p) \ S) = Cardinality(CallsOn(p)) - Cardinality(CallsOn(p) \cap S)
      BY Zenon, <3>3, CallsFinite, FS_Difference
    <3>5. res.ref[p] = Cardinality(CallsOn(p))
      BY DEF IInv, ReferencesCounted
    <3> QED BY <1>8, <3>1, <3>2, <3>4, <3>5
  <2>3. A = Cardinality({c \in CDs : InUse(c)}')
    <3> DEFINE T == {c \in CDs : InUse(c)}
    <3>1. {c \in CDs : InUse(c)}' = T \ S
      BY <1>12, <1>14 DEF InUse
    <3>2. T \in SUBSET CDs /\ S \in SUBSET T /\ T \cap S = S
      OBVIOUS
    <3>3. IsFiniteSet(T) /\ Cardinality(T) \in Nat
      BY <3>2, CallsFinite
    <3>4. res.auto = Cardinality(T)
      BY DEF IInv, ReferencesCounted
    <3> HIDE DEF T
    <3>5. Cardinality(S) <= Cardinality(T)
      BY <3>2, <3>3, FS_Subset
    <3>6. Cardinality(T \ S) = Cardinality(T) - Cardinality(S)
      BY ZenonT(40), <3>2, <3>3, FS_Difference
    <3>7. A = Cardinality(T) - Cardinality(S)
      BY <2>1, <3>3, <3>4, <3>5, <1>3 DEF A, Minus
    <3> QED BY ZenonT(40), <3>1, <3>6, <3>7
  <2> QED BY <2>2, <2>3
<1>20. DriverOnOwnChannel'
  <2>1. SUFFICES ASSUME NEW ch \in BChannels, F[ch] # NoKey
                 PROVE  \E c \in CDs : /\ ch \in OwnChannel(c)' /\ cds'[c].want
                                       /\ F[ch] = Key(c, cds'[c].drv)
    BY <1>10 DEF DriverOnOwnChannel
  <2>2. F[ch] = res.ft[ch]
    BY <1>7, <2>1
  <2>3. PICK c \in CDs : /\ ch \in OwnChannel(c) /\ cds[c].want
                         /\ res.ft[ch] = Key(c, cds[c].drv)
    BY <2>1, <2>2 DEF IInv, DriverOnOwnChannel
  <2>4. cds[c].alloc /\ cds[c].chan = ch
    BY <2>3 DEF OwnChannel
  <2>5. c \notin S
    BY <1>7, <2>1, <2>3, <2>4
  <2> QED BY <1>12, <1>17, <2>2, <2>3, <2>5
<1>21. DriverOnce'
  BY <1>7, <1>10 DEF IInv, DriverOnce
<1> QED BY <1>13, <1>15, <1>16, <1>18, <1>19, <1>20, <1>21 DEF IInv

\* The pipe reset, and the attachment of the D-channel.
LEMMA ControllerStep ==
  ASSUME IInv, PipeReset \/ Attach \/ Detach
  PROVE  IInv'
<1>0. TypeOK
  BY DEF IInv
<1>1. CASE PipeReset
  <2>1. PICK p \in Pipes : /\ attached /\ ReleaseAll(CallsOn(p), res.auto)
                           /\ UNCHANGED <<count, attached, mode, silent>>
    BY <1>1 DEF PipeReset
  <2>2. CallsOn(p) \in SUBSET {c \in CDs : InUse(c)} /\ res.auto \in 0 .. AutoMod - 1
    BY <1>0 DEF CallsOn, TypeOK, Resources
  <2> QED BY <1>0, <2>1, <2>2, ReleaseAllLemma DEF TypeOK
<1>2. CASE Detach
  <2>1. 0 \in 0 .. AutoMod - 1
    BY CallDescAssumption
  <2> QED BY ZenonT(40), <1>2, <2>1, ReleaseAllLemma DEF Detach
<1>3. CASE Attach
  <2>1. /\ ~attached /\ attached' = TRUE /\ mode' \in Modes
        /\ UNCHANGED <<count, silent>>
        /\ cds' = [c \in CDs |-> UnusedCd]
        /\ res' = [util |-> {CHAN_D1}, ft |-> res.ft,
                   ref |-> [p \in Pipes |-> 0], auto |-> 0]
    BY <1>3 DEF Attach
  <2>2. \A c \in CDs : cds'[c] = UnusedCd /\ OwnChannel(c)' = {} /\ ~InUse(c)'
    BY <2>1, UnusedCdType DEF OwnChannel, InUse, UnusedCd
  <2>3. /\ res'.util = {CHAN_D1} /\ res'.ft = res.ft /\ res'.auto = 0
        /\ \A p \in Pipes : res'.ref[p] = 0
    BY <2>1
  <2>4. res' \in Resources
    BY <1>0, <2>1, ChannelTypes, CallDescAssumption DEF TypeOK, Resources
  <2>5. TypeOK'
    BY <1>0, <2>1, <2>4, UnusedCdType DEF TypeOK
  <2>6. UnusedHoldsNothing' /\ DetachedIdle'
    BY <2>1, <2>2 DEF UnusedHoldsNothing, DetachedIdle
  <2>7. ChannelsExclusive'
    BY <2>2, <2>3 DEF ChannelsExclusive
  <2>8. ReferencesCounted'
    <3>1. {c \in CDs : InUse(c)}' = {} /\ \A p \in Pipes : CallsOn(p)' = {}
      BY <2>2 DEF CallsOn
    <3> QED BY <2>3, <3>1, FS_EmptySet DEF ReferencesCounted
  <2>9. \A ch \in BChannels : res.ft[ch] = NoKey
    <3>1. \A c \in CDs : OwnChannel(c) = {}
      BY <2>1, UnusedCdType DEF IInv, DetachedIdle, UnusedHoldsNothing, OwnChannel
    <3> QED BY <3>1 DEF IInv, DriverOnOwnChannel
  <2>10. DriverOnOwnChannel' /\ DriverOnce'
    BY <2>3, <2>9 DEF DriverOnOwnChannel, DriverOnce
  <2> QED BY <2>5, <2>6, <2>7, <2>8, <2>10 DEF IInv
<1> QED BY <1>1, <1>2, <1>3

-----------------------------------------------------------------------------
(* The theorems. *)

LEMMA InitIInv ==
  ASSUME Init
  PROVE  IInv
<1>1. /\ cds = [c \in CDs |-> UnusedCd] /\ ~attached
      /\ res = [util |-> {}, ft |-> [ch \in BChannels |-> NoKey],
                ref |-> [p \in Pipes |-> 0], auto |-> 0]
  BY DEF Init
<1>2. \A c \in CDs : cds[c] = UnusedCd /\ OwnChannel(c) = {} /\ ~InUse(c)
  BY <1>1, UnusedCdType DEF OwnChannel, InUse, UnusedCd
<1>3. \A ch \in BChannels : res.ft[ch] = NoKey
  BY <1>1
<1>4. res \in Resources
  <2> DEFINE f == [ch \in BChannels |-> NoKey]
             r == [p \in Pipes |-> 0]
  <2>1. f \in [BChannels -> Keys \cup {NoKey}] /\ r \in [Pipes -> Int]
        /\ 0 \in 0 .. AutoMod - 1
    BY CallDescAssumption
  <2>2. res = [util |-> {}, ft |-> f, ref |-> r, auto |-> 0]
    BY <1>1
  <2> HIDE DEF f, r
  <2> QED BY Zenon, <2>1, <2>2 DEF Resources
<1>5. TypeOK
  <2>1. cds \in [CDs -> Descriptors]
    BY <1>1, UnusedCdType
  <2>2. count \in 0 .. CdidEnd
    BY CallDescAssumption DEF Init
  <2>3. attached \in BOOLEAN /\ mode \in Modes /\ silent \in BOOLEAN
    BY Zenon DEF Init
  <2> QED BY <1>4, <2>1, <2>2, <2>3 DEF TypeOK
<1> QED BY <1>1, <1>2, <1>3, <1>5 DEF IInv, UnusedHoldsNothing, DetachedIdle,
      ChannelsExclusive, ReferencesCounted, DriverOnOwnChannel, DriverOnce

LEMMA StepIInv ==
  ASSUME IInv, [Next]_vars
  PROVE  IInv'
<1>s. ASSUME UNCHANGED <<cds, res, count, attached, mode>>, silent' \in BOOLEAN
      PROVE  IInv'
  <2>1. count' \in 0 .. CdidEnd
    BY <1>s DEF IInv, TypeOK
  <2> QED BY <1>s, <2>1, StutterLemma
<1>1. CASE Applications
  BY <1>1, ApplicationStep
<1>2. CASE PipeReset \/ Attach \/ Detach
  BY <1>2, ControllerStep
<1>3. CASE \E p \in RxPipes : Network(p)
  BY <1>3, NetworkStep
<1>4. CASE Timeouts
  BY <1>4, TimeoutStep DEF Timeouts
<1>5. CASE GoSilent
  BY <1>5, <1>s DEF GoSilent
<1>6. CASE UNCHANGED vars
  BY <1>6, <1>s DEF vars, IInv, TypeOK
<1> QED BY <1>1, <1>2, <1>3, <1>4, <1>5, <1>6 DEF Next

\* The invariant is inductive: it holds in every state the controller reaches.
THEOREM Invariance == Spec => []IInv
<1>1. Init => IInv
  BY InitIInv
<1>2. IInv /\ [Next]_vars => IInv'
  BY StepIInv
<1> QED BY <1>1, <1>2, PTL DEF Spec

\* The controller, its descriptors and its accounts keep their types: in
\* particular the number of status enquiries stays below its limit.
THEOREM TypeCorrect == Spec => []TypeOK
<1>1. IInv => TypeOK
  BY DEF IInv
<1> QED BY <1>1, Invariance, PTL

\* cd_allocate_channel and cd_free_channel: no B-channel is ever given to two
\* calls, and the utilization is exactly what the calls hold, so none leaks.
THEOREM ChannelsCorrect == Spec => []ChannelsExclusive
<1>1. IInv => ChannelsExclusive
  BY DEF IInv
<1> QED BY <1>1, Invariance, PTL

\* cd_set_pipe and n_free_cd: a pipe and layer 1 are referenced exactly once for
\* each call, whichever way calls move and end.
THEOREM ReferencesCorrect == Spec => []ReferencesCounted
<1>1. IInv => ReferencesCounted
  BY DEF IInv
<1> QED BY <1>1, Invariance, PTL

\* i4b_link_bchandrvr: a driver is on a channel only for the call that holds it
\* and wants the driver, and no driver serves two channels.
THEOREM DriversCorrect == Spec => [](DriverOnOwnChannel /\ DriverOnce)
<1>1. IInv => DriverOnOwnChannel /\ DriverOnce
  BY DEF IInv
<1> QED BY <1>1, Invariance, PTL
=============================================================================
