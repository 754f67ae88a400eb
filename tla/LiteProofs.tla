----------------------------- MODULE LiteProofs -----------------------------
(***************************************************************************)
(* Proofs about the telephone interface (LiteCall): however its calls end, *)
(* what they used is accounted for.                                        *)
(*                                                                         *)
(* The hard part is the queue. A call reference is used again after Refs   *)
(* calls. Were the end of its last call still in the queue then, the peer  *)
(* could mix up the two. A call puts at least two messages into the queue, *)
(* so the queue would have to hold 2 * Refs messages: it does not.         *)
(***************************************************************************)
EXTENDS LiteCall, WellFoundedInduction, TLAPS

\* The time that the provers may take for a step
USE ZenonT(3), SMTT(20), ZenonT(60)

States == {"U0", "U2", "U3", "U4", "U6", "U7", "U8", "UA", "UC"}

CallRec ==
  [used : BOOLEAN, in : BOOLEAN, st : States, odd : BOOLEAN, ref : Own \cup Theirs,
   need : BOOLEAN, count : 0 .. StatusMax, chan : NOT_ANY .. NChan, alloc : BOOLEAN]

Entry == [type : {"SETUP", "RELEASE_COMPLETE", "other"}, ref : Own \cup Theirs]

LiteRec ==
  [nt : BOOLEAN, cd : [Descs -> CallRec], active : Descs \cup {ANY}, util : SUBSET Chans,
   txq : Seq(Entry), full : BOOLEAN, next : Own, off : BOOLEAN, ring : BOOLEAN,
   hook : {"on", "off"}]

\* The only descriptor that is ever used
Call(r) == r.cd[0]

\* What every function of the module keeps
Sane(r) ==
  /\ r \in LiteRec /\ Len(r.txq) < QueueMax
  /\ \A i \in Descs : i # 0 => r.cd[i] = NoCall
  /\ r.active = IF Call(r).used THEN 0 ELSE ANY
  /\ ~Call(r).used => Call(r) = NoCall
  /\ Call(r).alloc => Call(r).chan \in Chans \cup {NOT_ANY}
  /\ r.util = IF Call(r).alloc /\ Call(r).chan # NOT_ANY THEN {Call(r).chan} ELSE {}

\* What holds of a call between two steps
Settled(r) ==
  Call(r).used =>
    /\ Call(r).need
    /\ Call(r).in => Call(r).alloc /\ Call(r).st \notin {"U2", "U3", "U4"}
    /\ ~Call(r).in => Call(r).st \in {"U2", "U3", "U4", "UA", "UC"}
                      /\ (Call(r).st = "UA" => Call(r).alloc)

\* What the telephone and the line have to do with the call
Device(r) ==
  /\ r.nt => ~r.ring
  /\ ~r.nt => r.hook = "on"
  /\ r.ring => Call(r).used /\ Call(r).in /\ Call(r).st \notin {"U8", "UA"}
  /\ ~Call(r).used => r.hook = "on"

-----------------------------------------------------------------------------
(* The queue *)

Out(r) == Call(r).used /\ ~Call(r).in

SetupAt(r, k, ref) == r.txq[k].type = "SETUP" /\ r.txq[k].ref = ref
EndAt(r, k, ref) == r.txq[k].type = "RELEASE_COMPLETE" /\ r.txq[k].ref = ref

\* How many calls were begun after the last one with this reference
Age(next, ref) == IF ref < next THEN next - 1 - ref ELSE next - 1 - ref + Refs

\* The references of the two sides do not meet.
RefOf(r) ==
  Call(r).used => IF Call(r).in THEN Call(r).ref \in Theirs
                  ELSE Call(r).ref \in Own /\ Age(r.next, Call(r).ref) = 0

\* A call in the queue is the current one, or its end follows.
SetupsEnd(r) ==
  \A k \in DOMAIN r.txq : r.txq[k].type = "SETUP" =>
    /\ r.txq[k].ref \in Own
    /\ \/ Out(r) /\ Call(r).ref = r.txq[k].ref
       \/ \E l \in DOMAIN r.txq : k < l /\ EndAt(r, l, r.txq[k].ref)

\* NoOrphanCall
Reported(r, o, u) ==
  \A ref \in o \ u :
    \/ Call(r).used /\ Call(r).ref = ref
    \/ \E l \in DOMAIN r.txq : EndAt(r, l, ref)

\* No end of the current outgoing call is queued, and the peer regards the call as
\* open after its SETUP has left the queue.
NotEnded(r) == Out(r) => \A k \in DOMAIN r.txq : ~EndAt(r, k, Call(r).ref)
NotBegun(r, o) ==
  Out(r) => \A k \in DOMAIN r.txq : SetupAt(r, k, Call(r).ref) =>
    /\ Call(r).ref \notin o
    /\ \A j \in DOMAIN r.txq : SetupAt(r, j, Call(r).ref) => j = k

\* The SETUP of the current outgoing call is behind the ends of the earlier ones.
SetupBehind(r) ==
  Out(r) => \A k \in DOMAIN r.txq :
    r.txq[k].type = "RELEASE_COMPLETE" /\ r.txq[k].ref \in Own =>
      \E l \in DOMAIN r.txq : k < l /\ SetupAt(r, l, Call(r).ref)

\* Behind the end of a call are two messages for each call that was begun later.
Spaced(r) ==
  \A k \in DOMAIN r.txq :
    r.txq[k].type = "RELEASE_COMPLETE" /\ r.txq[k].ref \in Own =>
      2 * Age(r.next, r.txq[k].ref) <= Len(r.txq) - k + (IF Out(r) THEN 1 ELSE 0)

QueueOK(r, o, u) ==
  /\ SetupsEnd(r) /\ Reported(r, o, u) /\ NotEnded(r) /\ NotBegun(r, o)
  /\ SetupBehind(r) /\ Spaced(r)

QInv(r, o, u) == u \cap Own = {} /\ RefOf(r) /\ (~r.full => QueueOK(r, o, u))

\* The inductive invariant
LiteInv ==
  /\ Sane(dl) /\ Settled(dl) /\ (~turned => Device(dl)) /\ QInv(dl, open, unheard)
  /\ dl.nt \in Modes /\ up \in BOOLEAN /\ open \subseteq Own \cup Theirs
  /\ said \in 0 .. MaxSaid /\ turned \in BOOLEAN

-----------------------------------------------------------------------------
(* Facts on the constants and the types *)

\* The constants are numbers.
LEMMA Constants ==
  /\ NCall \in Nat /\ NChan \in Nat /\ Refs \in Nat /\ PeerRefs \in Nat
  /\ QueueMax \in Nat /\ StatusMax \in Nat /\ MaxSaid \in Nat
  /\ NCall > 0 /\ NChan > 1 /\ Refs > 0 /\ 1 < QueueMax /\ QueueMax <= 2 * Refs
  /\ 0 \in Descs /\ 0 \in Own /\ ANY \notin Descs
BY LiteAssumption DEF Descs, Own, ANY

LEMMA ZeroNotAny == 0 # ANY
BY DEF ANY

\* The next call reference is the one after the last, or the first again.
LEMMA NextRef ==
  ASSUME NEW n \in Own
  PROVE  (n + 1) % Refs = (IF n + 1 = Refs THEN 0 ELSE n + 1) /\ (n + 1) % Refs \in Own
<1>0. Refs \in Nat /\ Refs > 0 /\ n \in Nat /\ n < Refs
  BY Constants DEF Own
<1>1. CASE n + 1 = Refs
  <2>1. Refs % Refs = 0
    BY <1>0, SMT
  <2> QED
    BY <1>0, <1>1, <2>1 DEF Own
<1>2. CASE n + 1 < Refs
  BY <1>0, <1>2 DEF Own
<1> QED
  BY <1>0, <1>1, <1>2

\* No call is a call.
LEMMA NoCallType == NoCall \in CallRec
BY Constants DEF NoCall, CallRec, States, ANY, NOT_ANY, Own, Theirs

\* Without a call nothing is left to settle.
LEMMA NoCallSettled ==
  ASSUME NEW r, Call(r) = NoCall
  PROVE  Settled(r)
BY DEF Settled, NoCall

\* The fields of a record
LEMMA Fields ==
  ASSUME NEW r \in LiteRec
  PROVE  /\ r.nt \in BOOLEAN /\ r.cd \in [Descs -> CallRec] /\ r.active \in Descs \cup {ANY}
         /\ r.util \subseteq Chans /\ r.txq \in Seq(Entry) /\ r.full \in BOOLEAN
         /\ r.next \in Own /\ r.off \in BOOLEAN /\ r.ring \in BOOLEAN
         /\ r.hook \in {"on", "off"} /\ Call(r) \in CallRec
BY Constants DEF LiteRec, Call

-----------------------------------------------------------------------------
(* What a function leaves alone *)

\* Everything but the calls, the queue and dl_off_hook
Like(r, s) ==
  /\ s.nt = r.nt /\ s.active = r.active /\ s.util = r.util /\ s.next = r.next
  /\ s.ring = r.ring /\ s.hook = r.hook

\* The queue gains messages that neither begin nor end a call.
Longer(r, s) ==
  /\ r.full => s.full
  /\ ~s.full => /\ Len(r.txq) <= Len(s.txq)
                /\ \A k \in 1 .. Len(r.txq) : s.txq[k] = r.txq[k]
                /\ \A k \in Len(r.txq) + 1 .. Len(s.txq) : s.txq[k].type = "other"

\* The call is the same.
SameCall(r, s) ==
  /\ Call(s).used = Call(r).used /\ Call(s).in = Call(r).in /\ Call(s).ref = Call(r).ref
  /\ s.next = r.next /\ s.nt = r.nt

Quiet(r, s) == SameCall(r, s) /\ Longer(r, s)

\* The queue is as long, or longer.
LEMMA LongerSelf ==
  ASSUME NEW r, NEW s, r \in LiteRec, s.txq = r.txq, s.full = r.full
  PROVE  Longer(r, s)
<1>1. r.txq \in Seq(Entry)
  BY Fields
<1> QED
  BY <1>1 DEF Longer

\* The queue grows twice.
LEMMA LongerTwice ==
  ASSUME NEW r, NEW s, NEW t, r \in LiteRec, s \in LiteRec, t \in LiteRec,
         Longer(r, s), Longer(s, t)
  PROVE  Longer(r, t)
<1>1. r.txq \in Seq(Entry) /\ s.txq \in Seq(Entry) /\ t.txq \in Seq(Entry)
  BY Fields
<1>2. Len(r.txq) \in Nat /\ Len(s.txq) \in Nat /\ Len(t.txq) \in Nat
  BY <1>1
<1>3. r.full => t.full
  BY DEF Longer
<1>4. ASSUME ~t.full
      PROVE  /\ Len(r.txq) <= Len(t.txq)
             /\ \A k \in 1 .. Len(r.txq) : t.txq[k] = r.txq[k]
             /\ \A k \in Len(r.txq) + 1 .. Len(t.txq) : t.txq[k].type = "other"
  <2>1. ~s.full
    BY <1>4 DEF Longer
  <2>2. Len(r.txq) <= Len(t.txq)
    BY <1>2, <1>4, <2>1 DEF Longer
  <2>3. \A k \in 1 .. Len(r.txq) : t.txq[k] = r.txq[k]
    BY <1>2, <1>4, <2>1 DEF Longer
  <2>4. ASSUME NEW k \in Len(r.txq) + 1 .. Len(t.txq)
        PROVE  t.txq[k].type = "other"
    <3>1. CASE k <= Len(s.txq)
      <4>1. k \in Len(r.txq) + 1 .. Len(s.txq) /\ k \in 1 .. Len(s.txq)
        BY <1>2, <3>1
      <4> QED
        BY <1>4, <2>1, <4>1 DEF Longer
    <3>2. CASE k > Len(s.txq)
      <4>1. k \in Len(s.txq) + 1 .. Len(t.txq)
        BY <1>2, <3>2
      <4> QED
        BY <1>4, <4>1 DEF Longer
    <3> QED
      BY <1>2, <3>1, <3>2
  <2> QED
    BY <2>2, <2>3, <2>4
<1> QED
  BY <1>3, <1>4 DEF Longer

\* Two changes that leave the call alone
LEMMA QuietTwice ==
  ASSUME NEW r, NEW s, NEW t, r \in LiteRec, s \in LiteRec, t \in LiteRec,
         Quiet(r, s), Quiet(s, t)
  PROVE  Quiet(r, t)
BY LongerTwice DEF Quiet, SameCall

-----------------------------------------------------------------------------
(* The functions *)

\* Replace the call.
Put(r, c) == [r EXCEPT !.cd = [r.cd EXCEPT ![0] = c]]

\* Only the call changes.
LEMMA PutFields ==
  ASSUME NEW r \in LiteRec, NEW c \in CallRec
  PROVE  /\ Put(r, c) \in LiteRec /\ Call(Put(r, c)) = c
         /\ \A i \in Descs : i # 0 => Put(r, c).cd[i] = r.cd[i]
         /\ Put(r, c).txq = r.txq /\ Put(r, c).full = r.full /\ Like(r, Put(r, c))
         /\ Put(r, c).off = r.off
BY Constants DEF LiteRec, Put, Call, Like

\* A call whose channel stays may be replaced.
LEMMA PutSane ==
  ASSUME NEW r, Sane(r), NEW c \in CallRec, Call(r).used, c.used,
         c.alloc = Call(r).alloc, c.chan = Call(r).chan
  PROVE  Sane(Put(r, c))
<1>1. r \in LiteRec
  BY DEF Sane
<1>2. /\ Put(r, c) \in LiteRec /\ Call(Put(r, c)) = c
      /\ \A i \in Descs : i # 0 => Put(r, c).cd[i] = r.cd[i]
      /\ Put(r, c).txq = r.txq /\ Like(r, Put(r, c))
  BY <1>1, PutFields
<1> QED
  BY <1>2 DEF Sane, Like

\* dss1_lite_send_mbuf adds one message, or nothing if the queue is full.
LEMMA SendFields ==
  ASSUME NEW r, Sane(r), NEW m
  PROVE  /\ Sane(Send(r, 0, m)) /\ Send(r, 0, m).cd = r.cd /\ Like(r, Send(r, 0, m))
         /\ Send(r, 0, m).off = r.off
         /\ \/ /\ Len(r.txq) < QueueMax - 1 /\ Send(r, 0, m).full = r.full
               /\ Send(r, 0, m).txq = Append(r.txq, Queued(m, Call(r).ref))
            \/ Send(r, 0, m).full = TRUE /\ Send(r, 0, m).txq = r.txq
<1> DEFINE s == Send(r, 0, m)
<1>1. r \in LiteRec /\ r.txq \in Seq(Entry) /\ Call(r) \in CallRec
  BY Fields DEF Sane
<1>2. Queued(m, Call(r).ref) \in Entry
  BY <1>1, Constants DEF Queued, Entry, CallRec
<1>3. CASE Len(r.txq) < QueueMax - 1
  <2>1. s = [r EXCEPT !.txq = Append(r.txq, Queued(m, Call(r).ref))]
    BY <1>3 DEF Send, Call
  <2>2. Append(r.txq, Queued(m, Call(r).ref)) \in Seq(Entry)
        /\ Len(Append(r.txq, Queued(m, Call(r).ref))) = Len(r.txq) + 1
    BY <1>1, <1>2
  <2>3. s \in LiteRec
    BY <1>1, <2>1, <2>2 DEF LiteRec
  <2>4. s.cd = r.cd /\ Like(r, s) /\ s.off = r.off /\ s.full = r.full
        /\ s.txq = Append(r.txq, Queued(m, Call(r).ref))
    BY <1>1, <2>1 DEF LiteRec, Like
  <2>5. Len(s.txq) < QueueMax
    BY <1>1, <1>3, <2>2, <2>4, Constants
  <2>6. Sane(s)
    BY <2>3, <2>4, <2>5 DEF Sane, Like, Call
  <2> QED
    BY <1>3, <2>4, <2>6
<1>4. CASE ~(Len(r.txq) < QueueMax - 1)
  <2>1. s = [r EXCEPT !.full = TRUE]
    BY <1>4 DEF Send
  <2>2. s \in LiteRec /\ s.cd = r.cd /\ Like(r, s) /\ s.off = r.off /\ s.full = TRUE
        /\ s.txq = r.txq
    BY <1>1, <2>1 DEF LiteRec, Like
  <2> QED
    BY <2>2 DEF Sane, Like, Call
<1> QED
  BY <1>3, <1>4

\* A message that neither begins nor ends a call changes the queue only.
LEMMA SendQuiet ==
  ASSUME NEW r, Sane(r), NEW m, m \notin {"SETUP", "RELEASE_COMPLETE"}
  PROVE  /\ Sane(Send(r, 0, m)) /\ Send(r, 0, m).cd = r.cd /\ Like(r, Send(r, 0, m))
         /\ Longer(r, Send(r, 0, m)) /\ Call(Send(r, 0, m)) = Call(r)
<1> DEFINE s == Send(r, 0, m)
<1>1. /\ Sane(s) /\ s.cd = r.cd /\ Like(r, s)
      /\ \/ s.full = r.full /\ s.txq = Append(r.txq, Queued(m, Call(r).ref))
         \/ s.full = TRUE /\ s.txq = r.txq
  BY SendFields
<1>2. r.txq \in Seq(Entry) /\ Queued(m, Call(r).ref) \in Entry
      /\ Queued(m, Call(r).ref).type = "other"
  BY Fields, Constants DEF Sane, Queued, Entry
<1> HIDE DEF s
<1>3. Longer(r, s)
  BY <1>1, <1>2 DEF Longer
<1> QED
  BY <1>1, <1>3 DEF s, Call

\* The call becomes c, and the queue may gain a message.
Moved(r, s, c) == Sane(s) /\ Like(r, s) /\ Longer(r, s) /\ Call(s) = c

\* The call in another state
At(c, st, odd) == [c EXCEPT !.st = st, !.odd = odd]

\* Another state: the rest of the call stays.
LEMMA AtFields ==
  ASSUME NEW c \in CallRec, NEW st \in States, NEW odd \in BOOLEAN
  PROVE  /\ At(c, st, odd) \in CallRec /\ At(c, st, odd).st = st /\ At(c, st, odd).odd = odd
         /\ At(c, st, odd).used = c.used /\ At(c, st, odd).in = c.in
         /\ At(c, st, odd).ref = c.ref /\ At(c, st, odd).need = c.need
         /\ At(c, st, odd).count = c.count /\ At(c, st, odd).chan = c.chan
         /\ At(c, st, odd).alloc = c.alloc
BY DEF At, CallRec

\* dss1_lite_set_state, when it may change the state
LEMMA SetStateMoves ==
  ASSUME NEW r, Sane(r), Call(r).used, NEW in \in BOOLEAN, NEW st \in States,
         NEW odd \in BOOLEAN, May(r, 0, in, st)
  PROVE  Moved(r, SetState(r, 0, in, st, odd), At(Call(r), st, odd))
<1> DEFINE c == At(Call(r), st, odd)
           a == Enter(r, 0, in, st, odd)
<1>0. r \in LiteRec /\ r.cd \in [Descs -> CallRec] /\ Call(r) \in CallRec /\ 0 \in Descs
  BY Fields, Constants DEF Sane
<1>1. c \in CallRec /\ c.used /\ c.alloc = Call(r).alloc /\ c.chan = Call(r).chan
  BY <1>0, AtFields
<1>2. Call(r).in = in
  BY DEF May, Call
<1>3. a = Put(r, c)
  <2>1. r.cd[0].used = TRUE /\ r.cd[0].in = in /\ r.cd[0] \in CallRec
    BY <1>0, <1>2 DEF Call, CallRec
  <2>2. [[[[r.cd[0] EXCEPT !.used = TRUE] EXCEPT !.in = in] EXCEPT !.st = st] EXCEPT !.odd = odd]
        = c
    BY <2>1 DEF At, Call, CallRec
  <2>3. a = [r EXCEPT !.cd = [r.cd EXCEPT ![0] = [[[[r.cd[0] EXCEPT !.used = TRUE]
                 EXCEPT !.in = in] EXCEPT !.st = st] EXCEPT !.odd = odd]]]
    BY <1>0 DEF LiteRec, Enter
  <2> QED
    BY <2>2, <2>3 DEF Put
<1>4. Sane(Put(r, c)) /\ Like(r, Put(r, c)) /\ Call(Put(r, c)) = c /\ Longer(r, Put(r, c))
  BY <1>0, <1>1, PutSane, PutFields, LongerSelf
<1>5. SetState(r, 0, in, st, odd)
      = IF StatusCheck(Call(Put(r, c))) THEN Send(Put(r, c), 0, "STATUS_ENQUIRY") ELSE Put(r, c)
  <2>1. SetState(r, 0, in, st, odd)
        = IF StatusCheck(a.cd[0]) THEN Send(a, 0, "STATUS_ENQUIRY") ELSE a
    BY DEF SetState
  <2> HIDE DEF a, c
  <2> QED
    BY <1>3, <2>1 DEF Call
<1> HIDE DEF a, c
<1>6. CASE StatusCheck(Call(Put(r, c)))
  <2> DEFINE s == Send(Put(r, c), 0, "STATUS_ENQUIRY")
  <2>1. Sane(s) /\ Like(Put(r, c), s) /\ Longer(Put(r, c), s) /\ Call(s) = c
    BY <1>4, SendQuiet
  <2> HIDE DEF s
  <2>2. Like(r, s) /\ Longer(r, s)
    BY <1>0, <1>4, <2>1, LongerTwice DEF Like, Sane
  <2> QED
    BY <1>5, <1>6, <2>1, <2>2 DEF Moved, s, c
<1>7. CASE ~StatusCheck(Call(Put(r, c)))
  BY <1>4, <1>5, <1>7 DEF Moved, c
<1> QED
  BY <1>6, <1>7

\* The same, when a message follows
LEMMA AdvanceMoves ==
  ASSUME NEW r, Sane(r), Call(r).used, NEW in \in BOOLEAN, NEW st \in States,
         NEW m, m \notin {"SETUP", "RELEASE_COMPLETE"}
  PROVE  IF Call(r).st # st /\ May(r, 0, in, st)
         THEN Moved(r, Advance(r, 0, in, st, m), At(Call(r), st, FALSE))
         ELSE Advance(r, 0, in, st, m) = r /\ Moved(r, r, Call(r))
<1>0. r \in LiteRec
  BY DEF Sane
<1>1. CASE Call(r).st # st /\ May(r, 0, in, st)
  <2> DEFINE a == SetState(r, 0, in, st, FALSE)
             c == At(Call(r), st, FALSE)
             s == Send(a, 0, m)
  <2>1. Advance(r, 0, in, st, m) = s
    BY <1>1 DEF Advance, Call
  <2>2. Moved(r, a, c)
    BY <1>1, SetStateMoves
  <2> HIDE DEF a, c
  <2>3. Sane(s) /\ Like(a, s) /\ Longer(a, s) /\ Call(s) = c
    BY <2>2, SendQuiet DEF Moved
  <2> HIDE DEF s
  <2>4. Longer(r, s)
    BY <1>0, <2>2, <2>3, LongerTwice DEF Moved, Sane
  <2> QED
    BY <1>1, <2>1, <2>2, <2>3, <2>4 DEF Moved, Like, c
<1>2. CASE ~(Call(r).st # st /\ May(r, 0, in, st))
  <2>1. Advance(r, 0, in, st, m) = r
    BY <1>2 DEF Advance, Call
  <2> QED
    BY <1>0, <1>2, <2>1, LongerSelf DEF Moved, Like
<1> QED
  BY <1>1, <1>2

-----------------------------------------------------------------------------
(* The channel *)

\* Only the channel of the call changes.
Placed(r, s) ==
  /\ Sane(s) /\ Quiet(r, s) /\ s.ring = r.ring /\ s.hook = r.hook
  /\ s.txq = r.txq /\ s.full = r.full
  /\ Call(s).st = Call(r).st /\ Call(s).odd = Call(r).odd /\ Call(s).need = Call(r).need
  /\ Call(s).count = Call(r).count /\ (Call(r).alloc => Call(s).alloc)

With(c, chan, alloc) == [c EXCEPT !.chan = chan, !.alloc = alloc]

\* A set of natural numbers has a least member.
LEMMA LeastExists ==
  ASSUME NEW S, S \subseteq Nat, S # {}
  PROVE  \E x \in S : \A y \in S : x <= y
<1>1. PICK x \in S : \A y \in S : ~(<<y, x>> \in OpToRel(<, Nat))
  BY NatLessThanWellFounded, WFMin, Zenon
<1>2. \A y \in S : ~(y < x)
  BY <1>1, Zenon DEF OpToRel
<1> QED
  BY <1>2

Take(r, chan, alloc) ==
  [Put(r, With(Call(r), chan, alloc)) EXCEPT
     !.util = IF alloc /\ chan # NOT_ANY THEN {chan} ELSE {}]

\* What replaces the channel of a call leaves the rest of it alone.
LEMMA WithPlaced ==
  ASSUME NEW r, Sane(r), Call(r).used, ~Call(r).alloc, NEW chan \in NOT_ANY .. NChan,
         NEW alloc \in BOOLEAN, alloc => chan \in Chans \cup {NOT_ANY}
  PROVE  /\ Placed(r, Take(r, chan, alloc))
         /\ Call(Take(r, chan, alloc)).alloc = alloc /\ Call(Take(r, chan, alloc)).chan = chan
<1> DEFINE s == Take(r, chan, alloc)
           c == With(Call(r), chan, alloc)
           p == Put(r, c)
           U == IF alloc /\ chan # NOT_ANY THEN {chan} ELSE {}
<1>0. r \in LiteRec /\ Call(r) \in CallRec
  BY Fields DEF Sane
<1>1. /\ c \in CallRec /\ c.chan = chan /\ c.alloc = alloc /\ c.used = Call(r).used
      /\ c.in = Call(r).in /\ c.ref = Call(r).ref /\ c.st = Call(r).st /\ c.odd = Call(r).odd
      /\ c.need = Call(r).need /\ c.count = Call(r).count
  BY <1>0 DEF With, CallRec
<1> HIDE DEF c
<1>2. /\ p \in LiteRec /\ Call(p) = c
      /\ \A i \in Descs : i # 0 => p.cd[i] = r.cd[i]
      /\ p.txq = r.txq /\ p.full = r.full /\ Like(r, p)
  BY <1>0, <1>1, PutFields
<1> HIDE DEF p
<1>3. s = [p EXCEPT !.util = U]
  BY DEF p, c, Take
<1> HIDE DEF s
<1>4. U \in SUBSET Chans
  OBVIOUS
<1> HIDE DEF U
<1>5. /\ s \in LiteRec /\ s.cd = p.cd /\ s.txq = p.txq /\ s.full = p.full /\ s.nt = p.nt
      /\ s.active = p.active /\ s.next = p.next /\ s.ring = p.ring /\ s.hook = p.hook
      /\ s.util = U
  BY <1>2, <1>3, <1>4 DEF LiteRec
<1>6. Call(s) = c
  BY <1>2, <1>5 DEF Call
<1>7. Sane(s)
  BY <1>1, <1>2, <1>5, <1>6 DEF Sane, Like, U
<1>8. Longer(r, s)
  BY <1>0, <1>2, <1>5, LongerSelf
<1>9. Quiet(r, s)
  BY <1>1, <1>2, <1>5, <1>6, <1>8 DEF Quiet, SameCall, Like
<1> QED
  BY <1>1, <1>2, <1>5, <1>6, <1>7, <1>9 DEF Placed, Like, s

\* dss1_lite_alloc_channel: the call keeps the channel it has; a new one is free.
LEMMA AllocPlaced ==
  ASSUME NEW r, Sane(r), Call(r).used
  PROVE  Placed(r, AllocChannel(r, 0))
<1> DEFINE c == r.cd[0]
           free == IF c.chan \in Chans THEN {c.chan} \ r.util ELSE Chans \ (r.util \cup {0})
           id == CHOOSE x \in free : \A y \in free : x <= y
<1>0. /\ r \in LiteRec /\ c \in CallRec /\ Call(r) = c /\ r.cd \in [Descs -> CallRec]
      /\ c.chan \in NOT_ANY .. NChan /\ c.alloc \in BOOLEAN /\ 0 \in Descs
  BY Fields, Constants DEF Sane, Call, CallRec
<1>1. CASE c.alloc
  <2>1. AllocChannel(r, 0) = r
    BY <1>1 DEF AllocChannel
  <2>2. Longer(r, r)
    BY <1>0, LongerSelf
  <2> QED
    BY <2>1, <2>2 DEF Placed, Quiet, SameCall
<1>2. CASE ~c.alloc /\ c.chan = NOT_ANY
  <2>1. AllocChannel(r, 0) = [r EXCEPT !.cd[0].alloc = TRUE]
    BY <1>2 DEF AllocChannel
  <2>2. r.util = {}
    BY <1>0, <1>2 DEF Sane
  <2>3. [r EXCEPT !.cd[0].alloc = TRUE] = Take(r, NOT_ANY, TRUE)
    BY <1>0, <1>2, <2>2 DEF Take, Put, With, LiteRec, CallRec
  <2>4. Placed(r, Take(r, NOT_ANY, TRUE))
    BY <1>0, <1>2, WithPlaced
  <2> QED
    BY <2>1, <2>3, <2>4
<1>3. CASE ~c.alloc /\ c.chan # NOT_ANY /\ free = {}
  <2>1. AllocChannel(r, 0) = [r EXCEPT !.cd[0].chan = ANY]
    BY <1>3 DEF AllocChannel
  <2>2. r.util = {}
    BY <1>0, <1>3 DEF Sane
  <2>3. PICK n \in NOT_ANY .. NChan : n = ANY
    BY Constants DEF ANY, NOT_ANY
  <2>4. Call(r).alloc = FALSE
    BY <1>0, <1>3
  <2>5. [r EXCEPT !.cd[0].chan = n] = Take(r, n, FALSE)
    BY <1>0, <2>2, <2>4 DEF Take, Put, With, Call, LiteRec, CallRec
  <2>6. Placed(r, Take(r, n, FALSE))
    BY <2>4, WithPlaced
  <2> QED
    BY <2>1, <2>3, <2>5, <2>6
<1>4. CASE ~c.alloc /\ c.chan # NOT_ANY /\ free # {}
  <2>1. AllocChannel(r, 0)
        = [r EXCEPT !.cd[0].alloc = TRUE, !.cd[0].chan = id, !.util = @ \cup {id}]
    BY <1>4 DEF AllocChannel
  <2>2. r.util = {}
    BY <1>0, <1>4 DEF Sane
  <2>3. free \subseteq Chans /\ Chans \subseteq Nat
    BY DEF Chans
  <2>4. \E x \in free : \A y \in free : x <= y
    BY <1>4, <2>3, LeastExists
  <2>5. id \in free
    BY <2>4
  <2> HIDE DEF id, free
  <2>6. id \in Chans /\ id \in NOT_ANY .. NChan /\ id # NOT_ANY
    BY <2>3, <2>5, Constants DEF Chans, NOT_ANY
  <2>7. PICK n \in Chans : n = id /\ n \in NOT_ANY .. NChan /\ n # NOT_ANY
    BY <2>6
  <2>8. [r EXCEPT !.cd[0].alloc = TRUE, !.cd[0].chan = n, !.util = @ \cup {n}]
        = [r EXCEPT !.cd = [r.cd EXCEPT ![0] = With(r.cd[0], n, TRUE)], !.util = {n}]
    <3>1. With(r.cd[0], n, TRUE) = [[r.cd[0] EXCEPT !.alloc = TRUE] EXCEPT !.chan = n]
      BY <1>0 DEF With, CallRec
    <3>2. [r EXCEPT !.cd[0].alloc = TRUE, !.cd[0].chan = n, !.util = @ \cup {n}]
          = [r EXCEPT !.cd = [r.cd EXCEPT ![0] = [[r.cd[0] EXCEPT !.alloc = TRUE]
                                                    EXCEPT !.chan = n]],
                      !.util = r.util \cup {n}]
      BY <1>0 DEF LiteRec
    <3>3. r.util \cup {n} = {n}
      BY <2>2
    <3> QED
      BY <3>1, <3>2, <3>3
  <2>9. @ = Take(r, n, TRUE)
    BY <1>0, <2>7 DEF Take, Put, Call, LiteRec
  <2>10. Placed(r, Take(r, n, TRUE))
    BY <1>0, <1>4, <2>7, WithPlaced
  <2> QED
    BY <2>1, <2>7, <2>8, <2>9, <2>10
<1> QED
  BY <1>0, <1>1, <1>2, <1>3, <1>4

\* With no channel in use, a call that names none gets one.
LEMMA AllocSucceeds ==
  ASSUME NEW r, Sane(r), Call(r).used, ~Call(r).alloc, Call(r).chan = ANY
  PROVE  Call(AllocChannel(r, 0)).alloc
<1> DEFINE c == r.cd[0]
           free == IF c.chan \in Chans THEN {c.chan} \ r.util ELSE Chans \ (r.util \cup {0})
           id == CHOOSE x \in free : \A y \in free : x <= y
<1>0. /\ r \in LiteRec /\ c \in CallRec /\ Call(r) = c /\ r.cd \in [Descs -> CallRec]
      /\ 0 \in Descs
  BY Fields, Constants DEF Sane, Call
<1>1. r.util = {}
  BY DEF Sane
<1>2. 1 \in Chans /\ ANY \notin Chans
  BY Constants DEF Chans, ANY
<1>3. free # {}
  BY <1>0, <1>1, <1>2
<1>4. AllocChannel(r, 0)
      = [r EXCEPT !.cd[0].alloc = TRUE, !.cd[0].chan = id, !.util = @ \cup {id}]
  BY <1>0, <1>3 DEF AllocChannel, ANY, NOT_ANY
<1>5. PICK n : n = id
  OBVIOUS
<1> HIDE DEF id
<1>6. [r EXCEPT !.cd[0].alloc = TRUE, !.cd[0].chan = n, !.util = @ \cup {n}].cd[0].alloc
  BY <1>0 DEF LiteRec, CallRec
<1> QED
  BY <1>4, <1>5, <1>6 DEF Call

\* dss1_lite_decode_channel_id
LEMMA TakePlaced ==
  ASSUME NEW r, Sane(r), Call(r).used, NEW m, m.chan \in Named
  PROVE  Placed(r, TakeChannel(r, 0, m))
<1>0. /\ r \in LiteRec /\ Call(r) \in CallRec /\ r.cd \in [Descs -> CallRec]
      /\ Call(r).alloc \in BOOLEAN /\ 0 \in Descs
  BY Fields, Constants DEF Sane, CallRec
<1>1. CASE Call(r).alloc \/ m.chan = NONE
  <2>1. TakeChannel(r, 0, m) = r
    BY <1>1 DEF TakeChannel, Call
  <2>2. Longer(r, r)
    BY <1>0, LongerSelf
  <2> QED
    BY <2>1, <2>2 DEF Placed, Quiet, SameCall
<1>2. CASE ~Call(r).alloc /\ m.chan # NONE
  <2>1. TakeChannel(r, 0, m) = [r EXCEPT !.cd[0].chan = m.chan]
    BY <1>2 DEF TakeChannel, Call
  <2>2. PICK n \in NOT_ANY .. NChan : n = m.chan
    <3>1. m.chan \in -3 .. NChan /\ m.chan # -3
      BY <1>2, LiteAssumption DEF NONE
    <3> QED
      BY <3>1, Constants DEF NOT_ANY
  <2>3. r.util = {}
    BY <1>2 DEF Sane
  <2>4. [r EXCEPT !.cd[0].chan = n] = Take(r, n, FALSE)
    BY <1>0, <1>2, <2>3 DEF Take, Put, With, Call, LiteRec, CallRec
  <2>5. Placed(r, Take(r, n, FALSE))
    BY <1>2, WithPlaced
  <2> QED
    BY <2>1, <2>2, <2>4, <2>5
<1> QED
  BY <1>0, <1>1, <1>2

-----------------------------------------------------------------------------
(* The begin and the end of a call *)

\* dss1_lite_set_state(cd, DL_ST_FREE): nothing is left of the call but the message in
\* the queue.
LEMMA EndFields ==
  ASSUME NEW r, Sane(r), Call(r).used
  PROVE  /\ Sane(EndCall(r, 0)) /\ Call(EndCall(r, 0)) = NoCall
         /\ EndCall(r, 0).next = r.next /\ EndCall(r, 0).nt = r.nt
         /\ EndCall(r, 0).ring = (IF r.nt THEN r.ring ELSE FALSE)
         /\ EndCall(r, 0).hook = (IF r.nt THEN "on" ELSE r.hook)
         /\ IF Call(r).need
            THEN \/ /\ Len(r.txq) < QueueMax - 1 /\ EndCall(r, 0).full = r.full
                    /\ EndCall(r, 0).txq = Append(r.txq, Queued("RELEASE_COMPLETE", Call(r).ref))
                 \/ EndCall(r, 0).full = TRUE /\ EndCall(r, 0).txq = r.txq
            ELSE EndCall(r, 0).full = r.full /\ EndCall(r, 0).txq = r.txq
<1> DEFINE a == IF r.cd[0].need THEN Send(r, 0, "RELEASE_COMPLETE") ELSE r
           b == [a EXCEPT !.ring = IF r.nt THEN @ ELSE FALSE,
                          !.hook = IF r.nt THEN "on" ELSE @,
                          !.active = IF @ = 0 THEN ANY ELSE @]
           f == FreeChannel(b, 0)
           s == [f EXCEPT !.cd[0] = NoCall]
<1>0. r \in LiteRec /\ Call(r) \in CallRec /\ 0 \in Descs /\ NoCall \in CallRec
  BY Fields, Constants, NoCallType DEF Sane
<1>1. EndCall(r, 0) = s
  BY DEF EndCall, Call
<1>2. /\ Sane(a) /\ a.cd = r.cd /\ Like(r, a)
      /\ IF Call(r).need
         THEN \/ /\ Len(r.txq) < QueueMax - 1 /\ a.full = r.full
                 /\ a.txq = Append(r.txq, Queued("RELEASE_COMPLETE", Call(r).ref))
              \/ a.full = TRUE /\ a.txq = r.txq
         ELSE a.full = r.full /\ a.txq = r.txq
  BY SendFields DEF Call, Like
<1>3. a \in LiteRec /\ a.active = 0 /\ a.nt = r.nt /\ a.ring = r.ring /\ a.hook = r.hook
      /\ a.ring \in BOOLEAN /\ a.hook \in {"on", "off"}
  <2> HIDE DEF a
  <2>1. a \in LiteRec /\ r.active = 0
    BY <1>2 DEF Sane
  <2> QED
    BY <1>2, <2>1, Fields DEF Like
<1> HIDE DEF a
<1>4. b = [a EXCEPT !.ring = (IF r.nt THEN r.ring ELSE FALSE),
                    !.hook = (IF r.nt THEN "on" ELSE r.hook), !.active = ANY]
  BY <1>3 DEF LiteRec
<1>5. /\ b \in LiteRec /\ b.cd = a.cd /\ b.util = a.util /\ b.txq = a.txq
      /\ b.full = a.full /\ b.next = a.next /\ b.nt = a.nt /\ b.active = ANY
      /\ b.ring = (IF r.nt THEN r.ring ELSE FALSE) /\ b.hook = (IF r.nt THEN "on" ELSE r.hook)
  <2>1. (IF r.nt THEN r.ring ELSE FALSE) \in BOOLEAN
        /\ (IF r.nt THEN "on" ELSE r.hook) \in {"on", "off"}
    BY <1>3
  <2> QED
    BY <1>3, <1>4, <2>1 DEF LiteRec
<1> HIDE DEF b
<1>6. /\ f.cd = [b.cd EXCEPT ![0].alloc = FALSE]
      /\ f.util = IF b.cd[0].alloc THEN b.util \ {b.cd[0].chan} ELSE b.util
      /\ f.txq = b.txq /\ f.full = b.full /\ f.next = b.next /\ f.nt = b.nt
      /\ f.active = b.active /\ f.ring = b.ring /\ f.hook = b.hook /\ f.off = b.off
      /\ f = [b EXCEPT !.cd = f.cd, !.util = f.util]
  BY <1>5 DEF FreeChannel, LiteRec
<1>7. f.cd \in [Descs -> CallRec] /\ \A i \in Descs : i # 0 => f.cd[i] = r.cd[i]
  <2>1. b.cd \in [Descs -> CallRec] /\ b.cd = r.cd
    BY <1>2, <1>5, Fields
  <2>2. [b.cd[0] EXCEPT !.alloc = FALSE] \in CallRec
    BY <1>0, <2>1 DEF CallRec
  <2>3. f.cd = [b.cd EXCEPT ![0] = [b.cd[0] EXCEPT !.alloc = FALSE]]
    BY <1>0, <1>6, <2>1
  <2> HIDE DEF f
  <2> QED
    BY <1>0, <2>1, <2>2, <2>3
<1>8. f.util = {}
  BY <1>2, <1>5, <1>6 DEF Sane, Call
<1>9. f \in LiteRec
  BY <1>5, <1>6, <1>7, <1>8 DEF LiteRec
<1> HIDE DEF f
<1>10. /\ s \in LiteRec /\ Call(s) = NoCall
       /\ \A i \in Descs : i # 0 => s.cd[i] = f.cd[i]
       /\ s.txq = f.txq /\ s.full = f.full /\ s.next = f.next /\ s.nt = f.nt /\ s.util = f.util
       /\ s.active = f.active /\ s.ring = f.ring /\ s.hook = f.hook
  BY <1>0, <1>9 DEF LiteRec, Call
<1> HIDE DEF s
<1>11. Sane(s)
  <2>1. Len(s.txq) < QueueMax
    BY <1>2, <1>5, <1>6, <1>10 DEF Sane
  <2>2. \A i \in Descs : i # 0 => s.cd[i] = NoCall
    BY <1>7, <1>10 DEF Sane
  <2>3. NoCall.used = FALSE /\ NoCall.alloc = FALSE
    BY DEF NoCall
  <2> QED
    BY <1>5, <1>6, <1>8, <1>10, <2>1, <2>2, <2>3 DEF Sane
<1>12. s.txq = a.txq /\ s.full = a.full /\ s.next = r.next /\ s.nt = r.nt
  BY <1>2, <1>5, <1>6, <1>10 DEF Like
<1>13. s.ring = (IF r.nt THEN r.ring ELSE FALSE) /\ s.hook = (IF r.nt THEN "on" ELSE r.hook)
  BY <1>5, <1>6, <1>10
<1>14. IF Call(r).need
       THEN \/ /\ Len(r.txq) < QueueMax - 1 /\ s.full = r.full
               /\ s.txq = Append(r.txq, Queued("RELEASE_COMPLETE", Call(r).ref))
            \/ s.full = TRUE /\ s.txq = r.txq
       ELSE s.full = r.full /\ s.txq = r.txq
  BY <1>2, <1>12
<1> QED
  BY <1>1, <1>10, <1>11, <1>12, <1>13, <1>14

\* dss1_lite_alloc_cd has the first descriptor, if there is no call.
LEMMA AllocFirst ==
  ASSUME NEW r, Sane(r)
  PROVE  IF Call(r).used THEN AllocCd(r) = {}
         ELSE AllocCd(r) # {} /\ (CHOOSE i \in AllocCd(r) : TRUE) = 0
<1>1. CASE Call(r).used
  BY <1>1, Constants DEF Sane, AllocCd, ANY
<1>2. CASE ~Call(r).used
  <2>1. r.active = ANY
    BY <1>2 DEF Sane
  <2>2. 0 \in AllocCd(r)
    BY <1>2, <2>1, Constants DEF AllocCd, Call
  <2>3. ASSUME NEW i \in AllocCd(r) PROVE i = 0
    <3>1. i \in 0 .. NCall - 1 /\ \A j \in 0 .. i - 1 : r.cd[j].used
      BY DEF AllocCd, Descs
    <3>2. i > 0 => 0 \in 0 .. i - 1
      BY <3>1, Constants
    <3> QED
      BY <1>2, <3>1, <3>2, Constants DEF Call
  <2> QED
    BY <1>2, <2>2, <2>3
<1> QED
  BY <1>1, <1>2

\* A new call (dss1_lite_alloc_cd and the first dss1_lite_set_state)
Fresh(in, ref) ==
  [NoCall EXCEPT !.used = TRUE, !.in = in, !.st = IF in THEN "U0" ELSE "U2", !.ref = ref]

\* The fields of a new call
LEMMA FreshFields ==
  ASSUME NEW in \in BOOLEAN, NEW ref \in Own \cup Theirs
  PROVE  /\ Fresh(in, ref) \in CallRec /\ Fresh(in, ref).used /\ Fresh(in, ref).in = in
         /\ Fresh(in, ref).ref = ref /\ Fresh(in, ref).st = (IF in THEN "U0" ELSE "U2")
         /\ Fresh(in, ref).alloc = FALSE /\ Fresh(in, ref).chan = ANY
         /\ Fresh(in, ref).odd = FALSE /\ Fresh(in, ref).need = FALSE
         /\ Fresh(in, ref).count = 0
BY NoCallType DEF Fresh, NoCall, CallRec, States

\* dss1_lite_alloc_cd begins a call.
LEMMA NewFields ==
  ASSUME NEW r, Sane(r), ~Call(r).used, NEW in \in BOOLEAN, NEW ref, in => ref \in Theirs
  PROVE  /\ Sane(NewCall(r, 0, in, ref))
         /\ Call(NewCall(r, 0, in, ref)) = Fresh(in, IF in THEN ref ELSE r.next)
         /\ NewCall(r, 0, in, ref).txq = r.txq /\ NewCall(r, 0, in, ref).full = r.full
         /\ NewCall(r, 0, in, ref).nt = r.nt /\ NewCall(r, 0, in, ref).ring = r.ring
         /\ NewCall(r, 0, in, ref).hook = r.hook
         /\ NewCall(r, 0, in, ref).next = (IF in THEN r.next ELSE (r.next + 1) % Refs)
<1> DEFINE n == IF in THEN ref ELSE r.next
           m == IF in THEN r.next ELSE (r.next + 1) % Refs
           st == IF in THEN "U0" ELSE "U2"
           c == [NoCall EXCEPT !.ref = n]
           a == [r EXCEPT !.cd[0] = c, !.next = m, !.active = 0]
           s == Enter(a, 0, in, st, FALSE)
<1>0. /\ r \in LiteRec /\ 0 \in Descs /\ r.next \in Own /\ n \in Own \cup Theirs /\ m \in Own
      /\ st \in States
  BY Fields, Constants, NextRef DEF Sane, States
<1>1. c \in CallRec /\ c.used = FALSE /\ c = [NoCall EXCEPT !.ref = n]
  BY <1>0, NoCallType DEF CallRec, NoCall
<1>2. NewCall(r, 0, in, ref) = SetState(a, 0, in, st, FALSE)
  <2>1. CASE in
    <3>1. in = TRUE
      BY <2>1
    <3>2. a = [r EXCEPT !.cd[0] = [NoCall EXCEPT !.ref = IF TRUE THEN ref ELSE r.next],
                       !.next = IF TRUE THEN r.next ELSE (r.next + 1) % Refs, !.active = 0]
      BY <3>1
    <3> QED
      BY <3>1 DEF NewCall
  <2>2. CASE ~in
    <3>1. in = FALSE
      BY <2>2
    <3> QED
      BY <3>1 DEF NewCall
  <2> QED
    BY <2>1, <2>2
<1> HIDE DEF n, m, st, c
<1>3. /\ a \in LiteRec /\ a.cd = [r.cd EXCEPT ![0] = c] /\ a.next = m /\ a.active = 0
      /\ a.txq = r.txq /\ a.full = r.full /\ a.nt = r.nt /\ a.ring = r.ring /\ a.hook = r.hook
      /\ a.util = r.util /\ a.cd[0] = c
  BY <1>0, <1>1 DEF LiteRec
<1> HIDE DEF a
<1>4. Enter(a, 0, in, st, FALSE) = Put(a, Fresh(in, n))
  <2>1. [[[[c EXCEPT !.used = TRUE] EXCEPT !.in = in] EXCEPT !.st = st] EXCEPT !.odd = FALSE]
        = Fresh(in, n)
    <3>1. NoCall.odd = FALSE
      BY DEF NoCall
    <3> QED
      BY <1>1, <3>1, NoCallType DEF Fresh, st, CallRec
  <2>2. Enter(a, 0, in, st, FALSE)
        = [a EXCEPT !.cd = [a.cd EXCEPT ![0] = [[[[a.cd[0] EXCEPT !.used = TRUE]
                 EXCEPT !.in = in] EXCEPT !.st = st] EXCEPT !.odd = FALSE]]]
    BY <1>0, <1>3 DEF LiteRec, Enter
  <2> QED
    BY <1>3, <2>1, <2>2 DEF Put
<1>5. Fresh(in, n) \in CallRec /\ Fresh(in, n).used /\ Fresh(in, n).alloc = FALSE
      /\ Fresh(in, n).odd = FALSE
  BY <1>0, FreshFields
<1>6. /\ s \in LiteRec /\ Call(s) = Fresh(in, n)
      /\ \A i \in Descs : i # 0 => s.cd[i] = a.cd[i]
      /\ s.txq = a.txq /\ s.full = a.full /\ Like(a, s)
  <2>1. s = Put(a, Fresh(in, n))
    BY <1>4
  <2> HIDE DEF s
  <2>2. PICK d \in CallRec : d = Fresh(in, n)
    BY <1>5
  <2>3. /\ Put(a, d) \in LiteRec /\ Call(Put(a, d)) = d
        /\ \A i \in Descs : i # 0 => Put(a, d).cd[i] = a.cd[i]
        /\ Put(a, d).txq = a.txq /\ Put(a, d).full = a.full /\ Like(a, Put(a, d))
    BY <1>3, PutFields
  <2> QED
    BY <2>1, <2>2, <2>3
<1>7. SetState(a, 0, in, st, FALSE) = s
  <2>1. May(a, 0, in, st)
    BY <1>1, <1>3 DEF May
  <2>2. ~StatusCheck(s.cd[0])
    BY <1>5, <1>6 DEF StatusCheck, Call
  <2> HIDE DEF s
  <2>3. SetState(a, 0, in, st, FALSE)
        = IF StatusCheck(s.cd[0]) THEN Send(s, 0, "STATUS_ENQUIRY") ELSE s
    BY <2>1 DEF SetState, s
  <2> QED
    BY <2>2, <2>3
<1> HIDE DEF s
<1>8. r.util = {}
  <2>1. NoCall.alloc = FALSE
    BY DEF NoCall
  <2> QED
    BY <2>1 DEF Sane
<1>9. \A i \in Descs : i # 0 => s.cd[i] = NoCall
  BY <1>0, <1>3, <1>6, Fields DEF Sane
<1>10. Sane(s)
  BY <1>3, <1>5, <1>6, <1>8, <1>9 DEF Sane, Like
<1> QED
  BY <1>2, <1>3, <1>6, <1>7, <1>10 DEF Like, n, m

-----------------------------------------------------------------------------
(* The steps on the queue *)

\* The queue stays sound, whatever the peer knows.
Keeps(r, s) == \A o, u : QInv(r, o, u) => QInv(s, o, u)

\* Messages that neither begin nor end a call do not matter.
LEMMA QuietKeeps ==
  ASSUME NEW r, NEW s, r \in LiteRec, s \in LiteRec, Quiet(r, s)
  PROVE  Keeps(r, s)
<1> SUFFICES ASSUME NEW o, NEW u, QInv(r, o, u) PROVE QInv(s, o, u)
  BY DEF Keeps
<1>0. /\ r.txq \in Seq(Entry) /\ s.txq \in Seq(Entry)
      /\ Len(r.txq) \in Nat /\ Len(s.txq) \in Nat
      /\ DOMAIN r.txq = 1 .. Len(r.txq) /\ DOMAIN s.txq = 1 .. Len(s.txq)
  BY Fields
<1>1. Out(s) = Out(r) /\ Call(s).ref = Call(r).ref /\ Call(s).used = Call(r).used
      /\ s.next = r.next
  BY DEF Quiet, SameCall, Out
<1>2. RefOf(s)
  BY <1>1 DEF QInv, RefOf, Quiet, SameCall
<1>3. ASSUME ~s.full PROVE QueueOK(s, o, u)
  <2>0. QueueOK(r, o, u)
    BY <1>3 DEF QInv, Quiet, Longer
  <2>1. /\ Len(r.txq) <= Len(s.txq)
        /\ \A k \in 1 .. Len(r.txq) : s.txq[k] = r.txq[k]
        /\ \A k \in DOMAIN s.txq : s.txq[k].type # "other" => k \in DOMAIN r.txq
        /\ \A k \in DOMAIN r.txq : k \in DOMAIN s.txq /\ s.txq[k] = r.txq[k]
    BY <1>0, <1>3 DEF Quiet, Longer
  <2>2. SetupsEnd(s)
    BY <1>1, <2>0, <2>1 DEF QueueOK, SetupsEnd, EndAt
  <2>3. Reported(s, o, u)
    BY <1>1, <2>0, <2>1 DEF QueueOK, Reported, EndAt
  <2>4. NotEnded(s)
    BY <1>1, <2>0, <2>1 DEF QueueOK, NotEnded, EndAt
  <2>5. NotBegun(s, o)
    BY <1>1, <2>0, <2>1 DEF QueueOK, NotBegun, SetupAt
  <2>6. SetupBehind(s)
    BY <1>1, <2>0, <2>1 DEF QueueOK, SetupBehind, SetupAt
  <2>7. Spaced(s)
    <3> SUFFICES ASSUME NEW k \in DOMAIN s.txq, s.txq[k].type = "RELEASE_COMPLETE",
                        s.txq[k].ref \in Own
                 PROVE  2 * Age(s.next, s.txq[k].ref)
                          <= Len(s.txq) - k + (IF Out(s) THEN 1 ELSE 0)
      BY DEF Spaced
    <3>1. k \in DOMAIN r.txq /\ s.txq[k] = r.txq[k]
      BY <2>1
    <3>2. 2 * Age(r.next, r.txq[k].ref) <= Len(r.txq) - k + (IF Out(r) THEN 1 ELSE 0)
      BY <2>0, <3>1 DEF QueueOK, Spaced
    <3>3. Age(r.next, r.txq[k].ref) \in Int
      BY <3>1, Fields, Constants DEF Age, Own
    <3>4. PICK a \in Int, n \in Nat, l \in Nat, b \in {0, 1} :
            /\ a = Age(r.next, r.txq[k].ref) /\ n = Len(r.txq) /\ l = Len(s.txq)
            /\ b = IF Out(r) THEN 1 ELSE 0
      BY <1>0, <3>3
    <3>5. Age(s.next, s.txq[k].ref) = a /\ b = (IF Out(s) THEN 1 ELSE 0)
      BY <1>1, <3>1, <3>4
    <3>6. n <= l /\ k \in Nat
      BY <1>0, <2>1, <3>1, <3>4
    <3>7. 2 * a <= n - k + b
      BY <3>2, <3>4
    <3>8. 2 * a <= l - k + b
      BY <3>6, <3>7
    <3> QED
      BY <3>4, <3>5, <3>8
  <2> QED
    BY <2>2, <2>3, <2>4, <2>5, <2>6, <2>7 DEF QueueOK
<1> QED
  BY <1>2, <1>3 DEF QInv

\* The age of a call reference
LEMMA AgeType ==
  ASSUME NEW n \in Own, NEW ref \in Own
  PROVE  Age(n, ref) \in 0 .. Refs - 1
BY Constants DEF Age, Own

\* What a queue holds when a message is added
LEMMA Appended ==
  ASSUME NEW q \in Seq(Entry), NEW e \in Entry, NEW p, p = Append(q, e)
  PROVE  /\ Len(q) \in Nat /\ Len(p) = Len(q) + 1 /\ p[Len(p)] = e
         /\ DOMAIN q = 1 .. Len(q) /\ DOMAIN p = 1 .. Len(p) /\ Len(p) \in DOMAIN p
         /\ \A k \in DOMAIN q : k \in DOMAIN p /\ p[k] = q[k] /\ k < Len(p)
         /\ \A k \in DOMAIN p : k \in DOMAIN q \/ k = Len(p)
OBVIOUS

\* A call that the peer knows of, or may know of, ends with a message: the peer is told.
LEMMA EndKeeps ==
  ASSUME NEW r, Sane(r), Call(r).used, Call(r).need
  PROVE  Keeps(r, EndCall(r, 0))
<1> DEFINE s == EndCall(r, 0)
           e == Queued("RELEASE_COMPLETE", Call(r).ref)
<1> SUFFICES ASSUME NEW o, NEW u, QInv(r, o, u) PROVE QInv(s, o, u)
  BY DEF Keeps
<1>0. /\ r \in LiteRec /\ r.txq \in Seq(Entry) /\ r.next \in Own /\ r.full \in BOOLEAN
      /\ Call(r) \in CallRec /\ Call(r).in \in BOOLEAN
  BY Fields DEF Sane, CallRec
<1>1. e \in Entry /\ e.type = "RELEASE_COMPLETE" /\ e.ref = Call(r).ref
  BY <1>0 DEF Queued, Entry, CallRec
<1>2. /\ Call(s) = NoCall /\ s.next = r.next
      /\ (s.full = r.full /\ s.txq = Append(r.txq, e)) \/ s.full = TRUE
  BY EndFields
<1> HIDE DEF s, e
<1>3. ~Call(s).used /\ ~Out(s)
  BY <1>2 DEF NoCall, Out
<1>4. RefOf(s)
  BY <1>3 DEF RefOf
<1>5. ASSUME ~s.full PROVE QueueOK(s, o, u)
  <2>0. QueueOK(r, o, u) /\ s.txq = Append(r.txq, e) /\ RefOf(r)
    BY <1>2, <1>5 DEF QInv
  <2>1. /\ Len(r.txq) \in Nat /\ Len(s.txq) = Len(r.txq) + 1 /\ s.txq[Len(s.txq)] = e
        /\ DOMAIN r.txq = 1 .. Len(r.txq) /\ Len(s.txq) \in DOMAIN s.txq
        /\ \A k \in DOMAIN r.txq : k \in DOMAIN s.txq /\ s.txq[k] = r.txq[k] /\ k < Len(s.txq)
        /\ \A k \in DOMAIN s.txq : k \in DOMAIN r.txq \/ k = Len(s.txq)
    BY <1>0, <1>1, <2>0, Appended
  <2>2. SetupsEnd(s)
    BY <1>1, <2>0, <2>1 DEF QueueOK, SetupsEnd, EndAt
  <2>3. Reported(s, o, u)
    BY <1>1, <2>0, <2>1 DEF QueueOK, Reported, EndAt
  <2>4. NotEnded(s) /\ NotBegun(s, o) /\ SetupBehind(s)
    BY <1>3 DEF NotEnded, NotBegun, SetupBehind
  <2>5. Spaced(s)
    <3> SUFFICES ASSUME NEW k \in DOMAIN s.txq, s.txq[k].type = "RELEASE_COMPLETE",
                        s.txq[k].ref \in Own
                 PROVE  2 * Age(s.next, s.txq[k].ref) <= Len(s.txq) - k
      BY <1>3, <2>1 DEF Spaced
    <3>1. CASE k \in DOMAIN r.txq
      <4>1. 2 * Age(r.next, r.txq[k].ref) <= Len(r.txq) - k + (IF Out(r) THEN 1 ELSE 0)
        BY <2>0, <2>1, <3>1 DEF QueueOK, Spaced
      <4>2. Age(r.next, r.txq[k].ref) \in Int
        BY <1>0, <2>1, <3>1, AgeType
      <4>3. Age(s.next, s.txq[k].ref) = Age(r.next, r.txq[k].ref)
        BY <1>2, <2>1, <3>1
      <4>4. k \in Nat /\ 2 * Age(r.next, r.txq[k].ref) <= Len(r.txq) - k + 1
        <5>1. PICK a \in Int : a = Age(r.next, r.txq[k].ref)
          BY <4>2
        <5>2. k \in Nat
          BY <2>1, <3>1
        <5>3. 2 * a <= Len(r.txq) - k + (IF Out(r) THEN 1 ELSE 0)
          BY <4>1, <5>1
        <5>4. 2 * a <= Len(r.txq) - k + 1
          BY <2>1, <5>2, <5>3
        <5> QED
          BY <5>1, <5>2, <5>4
      <4> QED
        BY <2>1, <4>2, <4>3, <4>4
    <3>2. CASE k = Len(s.txq)
      <4>1. Call(r).ref \in Own
        BY <1>1, <2>1, <3>2
      <4>2. ~Call(r).in
        BY <2>0, <4>1, Constants DEF RefOf, Own, Theirs
      <4>3. Age(r.next, Call(r).ref) = 0
        BY <2>0, <4>2 DEF RefOf
      <4> QED
        BY <1>1, <1>2, <2>1, <3>2, <4>3
    <3> QED
      BY <2>1, <3>1, <3>2
  <2> QED
    BY <2>2, <2>3, <2>4, <2>5 DEF QueueOK
<1> QED
  BY <1>4, <1>5 DEF QInv, s

\* A call that the peer has ended: its SETUP has left the queue, and so have the ends
\* of the calls before it.
LEMMA DropKeeps ==
  ASSUME NEW r, NEW s, Sane(r), Call(r).used, s.txq = r.txq, s.full = r.full,
         s.next = r.next, Call(s) = NoCall, NEW o, NEW u, QInv(r, o, u), Call(r).ref \in o
  PROVE  QInv(s, o \ {Call(r).ref}, u)
<1>0. /\ r \in LiteRec /\ r.txq \in Seq(Entry) /\ r.next \in Own
      /\ Call(r) \in CallRec /\ Call(r).in \in BOOLEAN
  BY Fields DEF Sane, CallRec
<1>1. ~Call(s).used /\ ~Out(s)
  BY DEF NoCall, Out
<1>2. RefOf(s)
  BY <1>1 DEF RefOf
<1>3. ASSUME ~s.full PROVE QueueOK(s, o \ {Call(r).ref}, u)
  <2>0. QueueOK(r, o, u) /\ RefOf(r)
    BY <1>3 DEF QInv
  <2>1. Out(r) => \A k \in DOMAIN r.txq : ~SetupAt(r, k, Call(r).ref)
    BY <2>0 DEF QueueOK, NotBegun
  <2>2. Out(r) => \A k \in DOMAIN r.txq :
                    ~(r.txq[k].type = "RELEASE_COMPLETE" /\ r.txq[k].ref \in Own)
    BY <2>0, <2>1 DEF QueueOK, SetupBehind
  <2>3. SetupsEnd(s)
    BY <1>1, <2>0, <2>1 DEF QueueOK, SetupsEnd, EndAt, SetupAt
  <2>4. Reported(s, o \ {Call(r).ref}, u)
    BY <2>0 DEF QueueOK, Reported, EndAt
  <2>5. NotEnded(s) /\ NotBegun(s, o \ {Call(r).ref}) /\ SetupBehind(s)
    BY <1>1 DEF NotEnded, NotBegun, SetupBehind
  <2>6. Spaced(s)
    BY <1>1, <2>0, <2>2 DEF QueueOK, Spaced
  <2> QED
    BY <2>3, <2>4, <2>5, <2>6 DEF QueueOK
<1> QED
  BY <1>2, <1>3 DEF QInv

\* An incoming call
LEMMA InKeeps ==
  ASSUME NEW r, Sane(r), ~Call(r).used, NEW s, s.txq = r.txq, s.full = r.full,
         s.next = r.next, NEW ref \in Theirs, Call(s) = Fresh(TRUE, ref),
         NEW o, NEW u, QInv(r, o, u)
  PROVE  QInv(s, o \cup {ref}, u)
<1>1. Call(s).used /\ Call(s).in /\ Call(s).ref = ref
  <2>1. PICK in \in BOOLEAN : in = TRUE
    OBVIOUS
  <2>2. Fresh(in, ref).used /\ Fresh(in, ref).in = in /\ Fresh(in, ref).ref = ref
    <3>1. ref \in Own \cup Theirs
      OBVIOUS
    <3> QED
      BY <3>1, FreshFields
  <2> QED
    BY <2>1, <2>2
<1>2. ~Out(s) /\ ~Out(r)
  BY <1>1 DEF Out
<1>3. RefOf(s)
  BY <1>1 DEF RefOf
<1>4. ASSUME ~s.full PROVE QueueOK(s, o \cup {ref}, u)
  <2>0. QueueOK(r, o, u)
    BY <1>4 DEF QInv
  <2>e. \A k, x : EndAt(s, k, x) <=> EndAt(r, k, x)
    BY DEF EndAt
  <2>1. SetupsEnd(s)
    BY <1>2, <2>0, <2>e DEF QueueOK, SetupsEnd
  <2>2. Reported(s, o \cup {ref}, u)
    BY <1>1, <2>0, <2>e DEF QueueOK, Reported
  <2>3. NotEnded(s) /\ NotBegun(s, o \cup {ref}) /\ SetupBehind(s)
    BY <1>2 DEF NotEnded, NotBegun, SetupBehind
  <2>4. Spaced(s)
    BY <1>2, <2>0 DEF QueueOK, Spaced
  <2> QED
    BY <2>1, <2>2, <2>3, <2>4 DEF QueueOK
<1> QED
  BY <1>3, <1>4 DEF QInv

\* With a new outgoing call all others are older by one.
LEMMA Older ==
  ASSUME NEW n \in Own, NEW ref \in Own
  PROVE  /\ ref # n => Age((n + 1) % Refs, ref) = Age(n, ref) + 1
         /\ Age((n + 1) % Refs, n) = 0 /\ Age(n, n) = Refs - 1
<1>1. (n + 1) % Refs = IF n + 1 = Refs THEN 0 ELSE n + 1
  BY NextRef
<1>2. PICK m : m = (n + 1) % Refs
  OBVIOUS
<1>3. m = IF n + 1 = Refs THEN 0 ELSE n + 1
  BY <1>1, <1>2
<1>4. /\ ref # n => Age(m, ref) = Age(n, ref) + 1
      /\ Age(m, n) = 0 /\ Age(n, n) = Refs - 1
  BY <1>3, Constants DEF Age, Own
<1> QED
  BY <1>2, <1>4

\* An outgoing call. The end of the last call with its reference is not in the queue:
\* there would have to be room for two messages of each of the calls since.
LEMMA OutKeeps ==
  ASSUME NEW r, Sane(r), ~Call(r).used, NEW s, s \in LiteRec, s.next = (r.next + 1) % Refs,
         Call(s).used, ~Call(s).in, Call(s).ref = r.next,
         \/ /\ Len(r.txq) < QueueMax - 1 /\ s.full = r.full
            /\ s.txq = Append(r.txq, Queued("SETUP", r.next))
         \/ s.full = TRUE
  PROVE  Keeps(r, s)
<1> DEFINE n == r.next
           e == Queued("SETUP", n)
<1> SUFFICES ASSUME NEW o, NEW u, QInv(r, o, u) PROVE QInv(s, o, u)
  BY DEF Keeps
<1>0. r.txq \in Seq(Entry) /\ n \in Own
  BY Fields DEF Sane
<1>1. e \in Entry /\ e.type = "SETUP" /\ e.ref = n
  BY <1>0 DEF Queued, Entry
<1>2. Out(s) /\ ~Out(r)
  BY DEF Out
<1>3. RefOf(s)
  BY <1>0, Older DEF RefOf
<1>4. ASSUME ~s.full PROVE QueueOK(s, o, u)
  <2>0. /\ QueueOK(r, o, u) /\ u \cap Own = {} /\ s.txq = Append(r.txq, e)
        /\ Len(r.txq) < QueueMax - 1
    BY <1>4 DEF QInv
  <2>1. /\ Len(r.txq) \in Nat /\ Len(s.txq) = Len(r.txq) + 1 /\ s.txq[Len(s.txq)] = e
        /\ DOMAIN r.txq = 1 .. Len(r.txq) /\ Len(s.txq) \in DOMAIN s.txq
        /\ \A k \in DOMAIN r.txq : k \in DOMAIN s.txq /\ s.txq[k] = r.txq[k] /\ k < Len(s.txq)
        /\ \A k \in DOMAIN s.txq : k \in DOMAIN r.txq \/ k = Len(s.txq)
    BY <1>0, <1>1, <2>0, Appended
  <2> HIDE DEF e
  <2>2. ASSUME NEW k \in DOMAIN r.txq, EndAt(r, k, n) PROVE FALSE
    <3>1. 2 * Age(n, n) <= Len(r.txq) - k + (IF Out(r) THEN 1 ELSE 0)
      BY <1>0, <2>0, <2>2 DEF QueueOK, Spaced, EndAt
    <3>2. Age(n, n) = Refs - 1
      BY <1>0, Older
    <3>3. k \in Nat /\ k >= 1
      BY <2>1
    <3> HIDE DEF n
    <3> QED
      BY <1>2, <2>0, <2>1, <3>1, <3>2, <3>3, Constants
  <2>3. ASSUME NEW k \in DOMAIN r.txq, SetupAt(r, k, n) PROVE FALSE
    BY <1>2, <2>0, <2>2, <2>3 DEF QueueOK, SetupsEnd, SetupAt
  <2>4. n \notin o
    BY <1>0, <2>0, <2>2 DEF QueueOK, Reported
  <2>5. SetupsEnd(s)
    <3> SUFFICES ASSUME NEW k \in DOMAIN s.txq, s.txq[k].type = "SETUP"
                 PROVE  /\ s.txq[k].ref \in Own
                        /\ \/ Call(s).ref = s.txq[k].ref
                           \/ \E l \in DOMAIN s.txq : k < l /\ EndAt(s, l, s.txq[k].ref)
      BY <1>2 DEF SetupsEnd
    <3>1. CASE k \in DOMAIN r.txq
      BY <1>2, <2>0, <2>1, <3>1 DEF QueueOK, SetupsEnd, EndAt
    <3>2. CASE k = Len(s.txq)
      BY <1>0, <1>1, <2>1, <3>2
    <3> QED
      BY <2>1, <3>1, <3>2
  <2>6. Reported(s, o, u)
    BY <2>0, <2>1 DEF QueueOK, Reported, EndAt
  <2>7. NotEnded(s)
    BY <1>1, <2>1, <2>2 DEF NotEnded, EndAt
  <2>8. NotBegun(s, o)
    BY <2>1, <2>3, <2>4 DEF NotBegun, SetupAt
  <2>9. SetupBehind(s)
    BY <1>1, <2>1 DEF SetupBehind, SetupAt
  <2>10. Spaced(s)
    <3> SUFFICES ASSUME NEW k \in DOMAIN s.txq, s.txq[k].type = "RELEASE_COMPLETE",
                        s.txq[k].ref \in Own
                 PROVE  2 * Age(s.next, s.txq[k].ref) <= Len(s.txq) - k + 1
      BY <1>2 DEF Spaced
    <3>1. k \in DOMAIN r.txq /\ s.txq[k] = r.txq[k]
      BY <1>1, <2>1
    <3>2. PICK ref \in Own : ref = r.txq[k].ref
      BY <3>1
    <3>3. ref # n
      BY <2>2, <3>1, <3>2 DEF EndAt
    <3>4. 2 * Age(n, ref) <= Len(r.txq) - k
      BY <1>2, <2>0, <2>1, <3>1, <3>2 DEF QueueOK, Spaced
    <3>5. Age(s.next, ref) = Age(n, ref) + 1 /\ Age(n, ref) \in Int /\ k \in Int
      BY <1>0, <2>1, <3>1, <3>3, Older, AgeType
    <3> QED
      BY <2>1, <3>1, <3>2, <3>4, <3>5
  <2> QED
    BY <2>5, <2>6, <2>7, <2>8, <2>9, <2>10 DEF QueueOK
<1> QED
  BY <1>3, <1>4 DEF QInv

\* What a queue holds when a message is taken
LEMMA Shortened ==
  ASSUME NEW q \in Seq(Entry), q # <<>>, NEW p, p = Tail(q)
  PROVE  /\ Len(q) \in Nat /\ Len(p) = Len(q) - 1 /\ p \in Seq(Entry) /\ Head(q) = q[1]
         /\ 1 \in DOMAIN q /\ DOMAIN q = 1 .. Len(q) /\ DOMAIN p = 1 .. Len(p)
         /\ \A k \in DOMAIN p : k + 1 \in DOMAIN q /\ p[k] = q[k + 1] /\ k \in Nat
         /\ \A k \in DOMAIN q : k # 1 => k - 1 \in DOMAIN p /\ p[k - 1] = q[k] /\ k \in Nat
<1>1. Len(q) \in Nat /\ Len(q) > 0 /\ Len(Tail(q)) = Len(q) - 1 /\ Tail(q) \in Seq(Entry)
  OBVIOUS
<1>2. \A k \in 1 .. Len(q) - 1 : Tail(q)[k] = q[k + 1]
  OBVIOUS
<1> QED
  BY <1>1, <1>2

\* The peer takes a message: what follows it in the queue is still there.
LEMMA TakenKeeps ==
  ASSUME NEW r, Sane(r), r.txq # <<>>, NEW s, s.txq = Tail(r.txq), s.full = r.full,
         s.next = r.next, Call(s) = Call(r), NEW o, NEW u, QInv(r, o, u),
         NEW p, NEW v,
         p = (CASE Head(r.txq).type = "SETUP" -> o \cup {Head(r.txq).ref}
                [] Head(r.txq).type = "RELEASE_COMPLETE" -> o \ {Head(r.txq).ref}
                [] OTHER -> o),
         v = IF Head(r.txq).type = "RELEASE_COMPLETE" THEN u \ {Head(r.txq).ref} ELSE u
  PROVE  QInv(s, p, v)
<1>0. /\ r.txq \in Seq(Entry) /\ r.next \in Own /\ Head(r.txq) \in Entry
  BY Fields DEF Sane
<1>1. /\ Len(r.txq) \in Nat /\ Len(s.txq) = Len(r.txq) - 1 /\ Head(r.txq) = r.txq[1]
      /\ 1 \in DOMAIN r.txq /\ DOMAIN r.txq = 1 .. Len(r.txq)
      /\ \A k \in DOMAIN s.txq : k + 1 \in DOMAIN r.txq /\ s.txq[k] = r.txq[k + 1] /\ k \in Nat
      /\ \A k \in DOMAIN r.txq : k # 1 =>
           k - 1 \in DOMAIN s.txq /\ s.txq[k - 1] = r.txq[k] /\ k \in Nat
  BY <1>0, Shortened
<1>2. Out(s) = Out(r)
  BY DEF Out
<1>3. RefOf(s) /\ v \cap Own = {}
  BY DEF QInv, RefOf
<1>4. ASSUME ~s.full PROVE QueueOK(s, p, v)
  <2>0. QueueOK(r, o, u)
    BY <1>4 DEF QInv
  <2>1. SetupsEnd(s)
    <3> SUFFICES ASSUME NEW k \in DOMAIN s.txq, s.txq[k].type = "SETUP"
                 PROVE  /\ s.txq[k].ref \in Own
                        /\ \/ Out(s) /\ Call(s).ref = s.txq[k].ref
                           \/ \E l \in DOMAIN s.txq : k < l /\ EndAt(s, l, s.txq[k].ref)
      BY DEF SetupsEnd
    <3>1. k + 1 \in DOMAIN r.txq /\ s.txq[k] = r.txq[k + 1] /\ k \in Nat
      BY <1>1
    <3>2. CASE Out(r) /\ Call(r).ref = r.txq[k + 1].ref
      BY <1>2, <2>0, <3>1, <3>2 DEF QueueOK, SetupsEnd
    <3>3. CASE ~(Out(r) /\ Call(r).ref = r.txq[k + 1].ref)
      <4>1. PICK l \in DOMAIN r.txq : k + 1 < l /\ EndAt(r, l, r.txq[k + 1].ref)
        BY <2>0, <3>1, <3>3 DEF QueueOK, SetupsEnd
      <4>2. l # 1 /\ l \in Nat
        BY <1>1, <3>1, <4>1
      <4>3. PICK j \in DOMAIN s.txq : k < j /\ s.txq[j] = r.txq[l]
        <5>1. l - 1 \in DOMAIN s.txq /\ s.txq[l - 1] = r.txq[l]
          BY <1>1, <4>2
        <5>2. k < l - 1
          BY <3>1, <4>1, <4>2
        <5> QED
          BY <5>1, <5>2
      <4>5. EndAt(s, j, s.txq[k].ref)
        BY <3>1, <4>1, <4>3 DEF EndAt
      <4>4. s.txq[k].ref \in Own
        BY <2>0, <3>1 DEF QueueOK, SetupsEnd
      <4> QED
        BY <4>3, <4>4, <4>5
    <3> QED
      BY <3>2, <3>3
  <2>2. Reported(s, p, v)
    <3> SUFFICES ASSUME NEW ref \in p \ v
                 PROVE  \/ Call(r).used /\ Call(r).ref = ref
                        \/ \E l \in DOMAIN s.txq : EndAt(s, l, ref)
      BY DEF Reported
    <3>1. CASE \E l \in DOMAIN r.txq : l # 1 /\ EndAt(r, l, ref)
      BY <1>1, <3>1 DEF EndAt
    <3>2. CASE Head(r.txq).type = "SETUP" /\ ref = Head(r.txq).ref
      <4>1. CASE Out(r) /\ Call(r).ref = ref
        BY <4>1 DEF Out
      <4>2. CASE ~(Out(r) /\ Call(r).ref = ref)
        <5>1. \E l \in DOMAIN r.txq : 1 < l /\ EndAt(r, l, ref)
          BY <1>1, <2>0, <3>2, <4>2 DEF QueueOK, SetupsEnd
        <5> QED
          BY <3>1, <5>1
      <4> QED
        BY <4>1, <4>2
    <3>3. CASE ref \in o \ u /\ ~EndAt(r, 1, ref)
      BY <2>0, <3>1, <3>3 DEF QueueOK, Reported
    <3>4. CASE ref \in o \ u /\ EndAt(r, 1, ref)
      BY <1>1, <3>4 DEF EndAt
    <3>5. CASE ref \notin o \ u
      BY <1>1, <3>2, <3>5
    <3> QED
      BY <3>3, <3>4, <3>5
  <2>3. NotEnded(s)
    BY <1>1, <1>2, <2>0 DEF QueueOK, NotEnded, EndAt
  <2>4. NotBegun(s, p)
    <3> SUFFICES ASSUME Out(r), NEW k \in DOMAIN s.txq, SetupAt(s, k, Call(r).ref)
                 PROVE  /\ Call(r).ref \notin p
                        /\ \A j \in DOMAIN s.txq : SetupAt(s, j, Call(r).ref) => j = k
      BY <1>2 DEF NotBegun
    <3>1. k + 1 \in DOMAIN r.txq /\ SetupAt(r, k + 1, Call(r).ref) /\ k \in Nat /\ k + 1 # 1
      BY <1>1 DEF SetupAt
    <3>2. Call(r).ref \notin o /\ ~SetupAt(r, 1, Call(r).ref)
      BY <1>1, <2>0, <3>1 DEF QueueOK, NotBegun
    <3>3. Call(r).ref \notin p
      BY <1>1, <3>2 DEF SetupAt
    <3>4. ASSUME NEW j \in DOMAIN s.txq, SetupAt(s, j, Call(r).ref) PROVE j = k
      <4>1. j + 1 \in DOMAIN r.txq /\ SetupAt(r, j + 1, Call(r).ref) /\ j \in Nat
        BY <1>1, <3>4 DEF SetupAt
      <4>2. j + 1 = k + 1
        BY <2>0, <3>1, <4>1 DEF QueueOK, NotBegun
      <4> QED
        BY <3>1, <4>1, <4>2
    <3> QED
      BY <3>3, <3>4
  <2>5. SetupBehind(s)
    <3> SUFFICES ASSUME Out(r), NEW k \in DOMAIN s.txq, s.txq[k].type = "RELEASE_COMPLETE",
                        s.txq[k].ref \in Own
                 PROVE  \E l \in DOMAIN s.txq : k < l /\ SetupAt(s, l, Call(r).ref)
      BY <1>2 DEF SetupBehind
    <3>1. k + 1 \in DOMAIN r.txq /\ s.txq[k] = r.txq[k + 1] /\ k \in Nat
      BY <1>1
    <3>2. PICK l \in DOMAIN r.txq : k + 1 < l /\ SetupAt(r, l, Call(r).ref)
      BY <2>0, <3>1 DEF QueueOK, SetupBehind
    <3>3. l # 1 /\ l \in Nat
      BY <1>1, <3>1, <3>2
    <3>4. PICK j \in DOMAIN s.txq : k < j /\ s.txq[j] = r.txq[l]
      <4>1. l - 1 \in DOMAIN s.txq /\ s.txq[l - 1] = r.txq[l]
        BY <1>1, <3>3
      <4>2. k < l - 1
        BY <3>1, <3>2, <3>3
      <4> QED
        BY <4>1, <4>2
    <3>5. SetupAt(s, j, Call(r).ref)
      BY <3>2, <3>4 DEF SetupAt
    <3> QED
      BY <3>4, <3>5
  <2>6. Spaced(s)
    <3> SUFFICES ASSUME NEW k \in DOMAIN s.txq, s.txq[k].type = "RELEASE_COMPLETE",
                        s.txq[k].ref \in Own
                 PROVE  2 * Age(s.next, s.txq[k].ref)
                          <= Len(s.txq) - k + (IF Out(s) THEN 1 ELSE 0)
      BY DEF Spaced
    <3>1. k + 1 \in DOMAIN r.txq /\ s.txq[k] = r.txq[k + 1] /\ k \in Nat
      BY <1>1
    <3>2. PICK a \in Int : a = Age(s.next, s.txq[k].ref)
      BY <1>0, <3>1, AgeType
    <3>3. PICK x \in {0, 1} : x = IF Out(r) THEN 1 ELSE 0
      OBVIOUS
    <3>4. 2 * a <= Len(r.txq) - (k + 1) + x
      BY <2>0, <3>1, <3>2, <3>3 DEF QueueOK, Spaced
    <3>5. 2 * a <= Len(s.txq) - k + x
      BY <1>1, <3>1, <3>4
    <3> QED
      BY <1>2, <3>2, <3>3, <3>5
  <2> QED
    BY <2>1, <2>2, <2>3, <2>4, <2>5, <2>6 DEF QueueOK
<1> QED
  BY <1>3, <1>4 DEF QInv

-----------------------------------------------------------------------------
(* The handlers of a call *)

\* What a handler makes of a record
Outcome(r, s) ==
  Sane(s) /\ Settled(s) /\ (Device(r) => Device(s)) /\ Keeps(r, s) /\ s.nt = r.nt

\* Two handlers, one after the other
LEMMA OutcomeTwice ==
  ASSUME NEW r, NEW s, NEW t, Outcome(r, s), Outcome(s, t)
  PROVE  Outcome(r, t)
BY DEF Outcome, Keeps

\* Nothing happens.
LEMMA OutcomeSelf ==
  ASSUME NEW r, Sane(r), Settled(r)
  PROVE  Outcome(r, r)
BY DEF Outcome, Keeps

\* Only the channel of the call is another.
LEMMA PlacedOutcome ==
  ASSUME NEW r, NEW s, Sane(r), Settled(r), Placed(r, s)
  PROVE  Outcome(r, s)
<1>1. Keeps(r, s)
  BY QuietKeeps DEF Placed, Sane
<1>2. Settled(s)
  BY DEF Settled, Placed, Quiet, SameCall
<1>3. Device(r) => Device(s)
  BY DEF Device, Placed, Quiet, SameCall
<1> QED
  BY <1>1, <1>2, <1>3 DEF Outcome, Placed, Quiet, SameCall

\* A change of the state keeps the call.
LEMMA MovedQuiet ==
  ASSUME NEW r, NEW s, Sane(r), NEW c, Moved(r, s, c), c.used = Call(r).used,
         c.in = Call(r).in, c.ref = Call(r).ref
  PROVE  Quiet(r, s) /\ Keeps(r, s)
<1>1. Quiet(r, s)
  BY DEF Moved, Quiet, SameCall, Like
<1> QED
  BY <1>1, QuietKeeps DEF Moved, Sane

\* A state that is right for the direction of the call
Right(r, st) ==
  /\ Call(r).in => st \notin {"U2", "U3", "U4"}
  /\ ~Call(r).in => st \in {"U2", "U3", "U4", "UA", "UC"} /\ (st = "UA" => Call(r).alloc)
  /\ Device(r) /\ r.ring => st \notin {"U8", "UA"}

\* dss1_lite_set_state to such a state
LEMMA SetStateOutcome ==
  ASSUME NEW r, Sane(r), Settled(r), Call(r).used, NEW in \in BOOLEAN, NEW st \in States,
         NEW odd \in BOOLEAN, Right(r, st)
  PROVE  Outcome(r, SetState(r, 0, in, st, odd))
<1> DEFINE s == SetState(r, 0, in, st, odd)
           c == At(Call(r), st, odd)
<1>1. CASE May(r, 0, in, st)
  <2>1. Moved(r, s, c)
    BY <1>1, SetStateMoves
  <2>2. Call(r) \in CallRec
    BY Fields DEF Sane
  <2>3. /\ c.st = st /\ c.used = Call(r).used /\ c.in = Call(r).in /\ c.ref = Call(r).ref
        /\ c.need = Call(r).need /\ c.alloc = Call(r).alloc
    <3>1. PICK d \in CallRec : d = Call(r)
      BY <2>2
    <3>2. c = At(d, st, odd)
      BY <3>1
    <3> HIDE DEF c
    <3> QED
      BY <3>1, <3>2 DEF At, CallRec
  <2> HIDE DEF s, c
  <2>4. Keeps(r, s)
    BY <2>1, <2>3, MovedQuiet
  <2>5. Settled(s)
    BY <2>1, <2>3 DEF Settled, Right, Moved
  <2>6. Device(r) => Device(s)
    BY <2>1, <2>3 DEF Device, Right, Moved, Like
  <2> QED
    BY <2>1, <2>4, <2>5, <2>6 DEF Outcome, Moved, Like, s
<1>2. CASE ~May(r, 0, in, st)
  BY <1>2, OutcomeSelf DEF SetState
<1> QED
  BY <1>1, <1>2

\* A message that neither begins nor ends a call
LEMMA SendOutcome ==
  ASSUME NEW r, Sane(r), Settled(r), NEW m, m \notin {"SETUP", "RELEASE_COMPLETE"}
  PROVE  Outcome(r, Send(r, 0, m))
<1> DEFINE s == Send(r, 0, m)
<1>1. Sane(s) /\ Like(r, s) /\ Longer(r, s) /\ Call(s) = Call(r)
  BY SendQuiet
<1> HIDE DEF s
<1>2. Keeps(r, s)
  BY <1>1, QuietKeeps DEF Quiet, SameCall, Like, Sane
<1> QED
  BY <1>1, <1>2 DEF Outcome, Settled, Device, Like, s

\* The same, when a message follows
LEMMA AdvanceOutcome ==
  ASSUME NEW r, Sane(r), Settled(r), Call(r).used, NEW in \in BOOLEAN, NEW st \in States,
         NEW m, m \notin {"SETUP", "RELEASE_COMPLETE"}, Right(r, st)
  PROVE  /\ Outcome(r, Advance(r, 0, in, st, m)) /\ Call(Advance(r, 0, in, st, m)).used
         /\ Call(Advance(r, 0, in, st, m)).in = Call(r).in
         /\ Advance(r, 0, in, st, m).ring = r.ring
<1> DEFINE a == SetState(r, 0, in, st, FALSE)
           c == At(Call(r), st, FALSE)
<1>1. CASE Call(r).st # st /\ May(r, 0, in, st)
  <2>1. Advance(r, 0, in, st, m) = Send(a, 0, m)
    BY <1>1 DEF Advance, Call
  <2>2. Outcome(r, a)
    BY SetStateOutcome
  <2>3. Outcome(a, Send(a, 0, m))
    BY <2>2, SendOutcome DEF Outcome
  <2>4. Moved(r, Advance(r, 0, in, st, m), c)
    BY <1>1, AdvanceMoves
  <2>5. c.used = Call(r).used /\ c.in = Call(r).in
    <3>1. Call(r) \in CallRec
      BY Fields DEF Sane
    <3> QED
      BY <3>1 DEF At, CallRec
  <2> QED
    BY <2>1, <2>2, <2>3, <2>4, <2>5, OutcomeTwice DEF Moved, Like
<1>2. CASE ~(Call(r).st # st /\ May(r, 0, in, st))
  <2>1. Advance(r, 0, in, st, m) = r
    BY <1>2 DEF Advance, Call
  <2> QED
    BY <2>1, OutcomeSelf
<1> QED
  BY <1>1, <1>2

\* The telephone and the line after the end of a call
LEMMA EndDevice ==
  ASSUME NEW r, Sane(r), Call(r).used, r.nt => ~r.ring, ~r.nt => r.hook = "on"
  PROVE  Device(EndCall(r, 0))
<1>1. /\ Call(EndCall(r, 0)) = NoCall /\ EndCall(r, 0).nt = r.nt
      /\ EndCall(r, 0).ring = (IF r.nt THEN r.ring ELSE FALSE)
      /\ EndCall(r, 0).hook = (IF r.nt THEN "on" ELSE r.hook)
  BY EndFields
<1>2. ~NoCall.used
  BY DEF NoCall
<1> QED
  BY <1>1, <1>2 DEF Device

\* A call ends, and the peer is told.
LEMMA EndOutcome ==
  ASSUME NEW r, Sane(r), Call(r).used, Call(r).need
  PROVE  Outcome(r, EndCall(r, 0))
<1>1. Sane(EndCall(r, 0)) /\ Call(EndCall(r, 0)) = NoCall /\ EndCall(r, 0).nt = r.nt
  BY EndFields
<1>2. Settled(EndCall(r, 0))
  BY <1>1, NoCallSettled
<1>3. Device(r) => Device(EndCall(r, 0))
  BY EndDevice DEF Device
<1> QED
  BY <1>1, <1>2, <1>3, EndKeeps DEF Outcome

\* A channel is allocated if one was named.
LEMMA ProceedPlaced ==
  ASSUME NEW r, Sane(r), Call(r).used
  PROVE  Placed(r, Proceed(r, 0))
<1>1. r \in LiteRec
  BY DEF Sane
<1>2. Placed(r, r)
  BY <1>1, LongerSelf DEF Placed, Quiet, SameCall
<1> QED
  BY <1>2, AllocPlaced DEF Proceed

\* ALERT, SETUP ACKNOWLEDGE, CALL PROCEEDING
LEMMA ProgressOutcome ==
  ASSUME NEW r, Sane(r), Settled(r), Call(r).used, NEW st \in {"U2", "U3", "U4"},
         NEW odd \in BOOLEAN
  PROVE  Outcome(r, Progress(r, 0, st, odd))
<1>1. CASE May(r, 0, FALSE, st)
  <2> DEFINE a == SetState(r, 0, FALSE, st, odd)
  <2>1. Progress(r, 0, st, odd) = Proceed(a, 0)
    BY <1>1 DEF Progress
  <2>2. ~Call(r).in /\ st \in States
    BY <1>1 DEF May, Call, States
  <2>3. PICK in \in BOOLEAN : in = FALSE
    OBVIOUS
  <2>4. Right(r, st)
    BY <2>2 DEF Right
  <2>5. Outcome(r, SetState(r, 0, in, st, odd))
        /\ Moved(r, SetState(r, 0, in, st, odd), At(Call(r), st, odd))
    BY <1>1, <2>2, <2>3, <2>4, SetStateOutcome, SetStateMoves
  <2>6. At(Call(r), st, odd).used
    BY Fields DEF Sane, At, CallRec
  <2>7. Outcome(r, a) /\ Call(a).used
    BY <2>3, <2>5, <2>6 DEF Moved
  <2> HIDE DEF a
  <2>8. Outcome(a, Proceed(a, 0))
    BY <2>7, ProceedPlaced, PlacedOutcome DEF Outcome
  <2> QED
    BY <2>1, <2>7, <2>8, OutcomeTwice
<1>2. CASE ~May(r, 0, FALSE, st)
  BY <1>2, OutcomeSelf DEF Progress
<1> QED
  BY <1>1, <1>2

\* The states are numbered.
LEMMA Ranks ==
  /\ Rank["U0"] = 0 /\ Rank["U2"] = 2 /\ Rank["U3"] = 3 /\ Rank["U4"] = 4 /\ Rank["U6"] = 6
  /\ Rank["U7"] = 7 /\ Rank["U8"] = 8 /\ Rank["UA"] = 10 /\ Rank["UC"] = 12
BY DEF Rank

\* CONNECT: the call is connected if it has a channel, and ends if not.
LEMMA ConnectOutcome ==
  ASSUME NEW r, Sane(r), Settled(r), Call(r).used
  PROVE  Outcome(r, Connect(r, 0))
<1> DEFINE s == SetState(r, 0, FALSE, "UA", FALSE)
           a == Proceed(s, 0)
           b == Send(a, 0, "CONNECT_ACKNOWLEDGE")
           t == [b EXCEPT !.hook = IF r.nt THEN "off" ELSE @]
<1>1. CASE Call(r).st = "UA" \/ ~May(r, 0, FALSE, "UA")
  BY <1>1, OutcomeSelf DEF Connect, Call
<1>2. CASE ~(Call(r).st = "UA" \/ ~May(r, 0, FALSE, "UA"))
  <2>1. Connect(r, 0) = IF a.cd[0].alloc /\ a.cd[0].chan # ANY THEN t ELSE EndCall(a, 0)
    BY <1>2 DEF Connect, Call
  <2>2. ~Call(r).in /\ Call(r) \in CallRec
    BY <1>2, Fields DEF May, Call, Sane
  <2>3. PICK no \in BOOLEAN, st \in States : no = FALSE /\ st = "UA"
    BY DEF States
  <2>4. Moved(r, SetState(r, 0, no, st, no), At(Call(r), st, no))
    BY <1>2, <2>3, SetStateMoves
  <2>5. /\ At(Call(r), st, no).used = Call(r).used /\ At(Call(r), st, no).in = Call(r).in
        /\ At(Call(r), st, no).ref = Call(r).ref /\ At(Call(r), st, no).need = Call(r).need
        /\ At(Call(r), st, no).st = st
    BY <2>2 DEF At, CallRec
  <2>6. /\ Sane(s) /\ Like(r, s) /\ Quiet(r, s) /\ Keeps(r, s) /\ Call(s).used
        /\ ~Call(s).in /\ Call(s).need /\ Call(s).st = "UA"
    BY <2>2, <2>3, <2>4, <2>5, MovedQuiet DEF Moved, Settled
  <2> HIDE DEF s
  <2>7. Placed(s, a)
    BY <2>6, ProceedPlaced
  <2> HIDE DEF a
  <2>8. Sane(a) /\ Quiet(s, a) /\ a.ring = r.ring /\ a.hook = r.hook /\ a.nt = r.nt
        /\ Call(a).used /\ ~Call(a).in /\ Call(a).need /\ Call(a).st = "UA"
    BY <2>6, <2>7 DEF Placed, Quiet, SameCall, Like
  <2>9. Keeps(r, a)
    <3>1. Keeps(s, a)
      BY <2>6, <2>8, QuietKeeps DEF Sane
    <3> QED
      BY <2>6, <3>1 DEF Keeps
  <2>10. CASE a.cd[0].alloc /\ a.cd[0].chan # ANY
    <3>1. Settled(a)
      BY <2>8, <2>10 DEF Settled, Call
    <3>2. Sane(b) /\ Like(a, b) /\ Longer(a, b) /\ Call(b) = Call(a)
      BY <2>8, SendQuiet
    <3> HIDE DEF b
    <3>3. b \in LiteRec /\ b.hook \in {"on", "off"}
      BY <3>2, Fields DEF Sane
    <3>4. /\ t \in LiteRec /\ t.cd = b.cd /\ t.txq = b.txq /\ t.full = b.full /\ t.nt = b.nt
          /\ t.active = b.active /\ t.next = b.next /\ t.ring = b.ring /\ t.util = b.util
          /\ t.hook = (IF r.nt THEN "off" ELSE b.hook)
      BY <3>3 DEF LiteRec
    <3> HIDE DEF t
    <3>5. Call(t) = Call(a) /\ Sane(t)
      BY <3>2, <3>4 DEF Sane, Call
    <3>6. Longer(b, t)
      BY <3>3, <3>4, LongerSelf
    <3>7. Longer(a, t)
      BY <2>8, <3>2, <3>3, <3>4, <3>6, LongerTwice DEF Sane
    <3>8. Keeps(a, t)
      BY <2>8, <3>2, <3>4, <3>5, <3>7, QuietKeeps DEF Quiet, SameCall, Like, Sane
    <3>9. Device(r) => Device(t)
      <4>1. Device(r) => ~r.ring
        BY <2>2 DEF Device
      <4>2. t.ring = r.ring /\ t.nt = r.nt /\ t.hook = (IF r.nt THEN "off" ELSE r.hook)
        BY <2>8, <3>2, <3>4 DEF Like
      <4>3. Call(t).used
        BY <2>8, <3>5
      <4> QED
        BY <4>1, <4>2, <4>3 DEF Device
    <3>10. Settled(t) /\ t.nt = r.nt
      BY <2>8, <3>1, <3>2, <3>4, <3>5 DEF Settled, Like
    <3>11. Connect(r, 0) = t
      BY <2>1, <2>10
    <3> QED
      BY <2>9, <3>5, <3>8, <3>9, <3>10, <3>11 DEF Outcome, Keeps
  <2>11. CASE ~(a.cd[0].alloc /\ a.cd[0].chan # ANY)
    <3>1. Outcome(a, EndCall(a, 0))
      BY <2>8, EndOutcome
    <3>2. Device(r) => Device(EndCall(a, 0))
      BY <2>8, EndDevice DEF Device
    <3>3. Connect(r, 0) = EndCall(a, 0)
      BY <2>1, <2>11
    <3> QED
      BY <2>8, <2>9, <3>1, <3>2, <3>3 DEF Outcome, Keeps
  <2> QED
    BY <2>10, <2>11
<1> QED
  BY <1>1, <1>2

\* A field of the call is changed that none of this depends on.
LEMMA PutOutcome ==
  ASSUME NEW r, Sane(r), Settled(r), Call(r).used, NEW c \in CallRec,
         c.used = Call(r).used, c.in = Call(r).in, c.st = Call(r).st, c.ref = Call(r).ref,
         c.need = Call(r).need, c.chan = Call(r).chan, c.alloc = Call(r).alloc
  PROVE  Outcome(r, Put(r, c))
<1>0. r \in LiteRec
  BY DEF Sane
<1>1. Sane(Put(r, c)) /\ Call(Put(r, c)) = c /\ Like(r, Put(r, c))
      /\ Put(r, c).txq = r.txq /\ Put(r, c).full = r.full
  BY <1>0, PutSane, PutFields
<1>2. Longer(r, Put(r, c))
  BY <1>0, <1>1, LongerSelf
<1>3. Keeps(r, Put(r, c))
  BY <1>1, <1>2, QuietKeeps DEF Quiet, SameCall, Like, Sane
<1> QED
  BY <1>1, <1>3 DEF Outcome, Settled, Device, Like

\* The state a call is in is right for it.
LEMMA SameRight ==
  ASSUME NEW r, Settled(r), Call(r).used
  PROVE  Right(r, Call(r).st)
BY DEF Settled, Right, Device

\* dss1_lite_receive_status
LEMMA StatusOutcome ==
  ASSUME NEW r, Sane(r), Settled(r), Call(r).used, NEW x
  PROVE  Outcome(r, ReceiveStatus(r, 0, x))
<1> DEFINE c == r.cd[0]
           back == SetState(r, 0, c.in, c.st, FALSE)
           more == [back EXCEPT !.cd[0].count = @ + 1]
<1>0. c = Call(r) /\ c \in CallRec /\ c.in \in BOOLEAN /\ c.st \in States /\ c.count \in Nat
  BY Fields, Constants DEF Sane, Call, CallRec
<1>1. Outcome(r, r)
  BY OutcomeSelf
<1>2. PICK in \in BOOLEAN, st \in States, no \in BOOLEAN : in = c.in /\ st = c.st /\ no = FALSE
  BY <1>0
<1>3. Right(r, st)
  BY <1>0, <1>2, SameRight
<1>4. Outcome(r, SetState(r, 0, in, st, no))
  BY <1>3, SetStateOutcome
<1>5. Moved(r, SetState(r, 0, in, st, no), At(Call(r), st, no))
  <2>1. May(r, 0, in, st)
    BY <1>0, <1>2 DEF May, Call, Rank, States
  <2> QED
    BY <2>1, SetStateMoves
<1>6. Outcome(r, back) /\ Call(back) = At(c, st, no)
  BY <1>0, <1>2, <1>4, <1>5 DEF Moved
<1> HIDE DEF back
<1>7. ASSUME c.count < StatusMax PROVE Outcome(r, more)
  <2>1. back \in LiteRec /\ Call(back) \in CallRec /\ Call(back).count = c.count
        /\ Call(back).used = c.used
    BY <1>0, <1>6, Fields DEF Outcome, Sane, At, CallRec
  <2>2. PICK n \in 0 .. StatusMax : n = c.count + 1
    BY <1>0, <1>7, Constants
  <2> DEFINE d == [Call(back) EXCEPT !.count = n]
  <2>3. more = Put(back, d)
    BY <2>1, <2>2, Constants DEF Put, Call, LiteRec, CallRec
  <2>4. /\ d \in CallRec /\ d.used = Call(back).used /\ d.in = Call(back).in
        /\ d.st = Call(back).st /\ d.ref = Call(back).ref /\ d.need = Call(back).need
        /\ d.chan = Call(back).chan /\ d.alloc = Call(back).alloc
    BY <2>1 DEF CallRec
  <2> HIDE DEF d, more
  <2>5. Outcome(back, Put(back, d))
    BY <1>0, <1>6, <2>1, <2>4, PutOutcome DEF Outcome
  <2> QED
    BY <1>6, <2>3, <2>5, OutcomeTwice
<1>8. \/ ReceiveStatus(r, 0, x) = r \/ ReceiveStatus(r, 0, x) = back
      \/ ReceiveStatus(r, 0, x) = more /\ c.count < StatusMax
  BY DEF ReceiveStatus, back
<1> QED
  BY <1>1, <1>6, <1>7, <1>8

\* dss1_lite_check_timeout
LEMMA TimeoutOutcome ==
  ASSUME NEW r, Sane(r), Settled(r), Call(r).used
  PROVE  Outcome(r, NextState(r, 0))
<1>1. Outcome(r, EndCall(r, 0))
  BY EndOutcome DEF Settled
<1>2. Outcome(r, SetState(r, 0, Call(r).in, Call(r).st, TRUE))
  <2>1. PICK in \in BOOLEAN, st \in States, yes \in BOOLEAN :
          in = Call(r).in /\ st = Call(r).st /\ yes = TRUE
    BY Fields DEF Sane, CallRec
  <2>2. Right(r, st)
    BY <2>1, SameRight
  <2>3. Outcome(r, SetState(r, 0, in, st, yes))
    BY <2>2, SetStateOutcome
  <2> QED
    BY <2>1, <2>3
<1> QED
  BY <1>1, <1>2 DEF NextState, Call

\* dss1_lite_alert_request
LEMMA AlertOutcome ==
  ASSUME NEW r, Sane(r), Settled(r), Call(r).used, Call(r).in
  PROVE  Outcome(r, AlertRequest(r, 0))
<1>1. PICK yes \in BOOLEAN, six \in States, seven \in States :
        yes = TRUE /\ six = "U6" /\ seven = "U7"
  BY DEF States
<1> DEFINE a == Advance(r, 0, yes, six, "CALL_PROCEEDING")
<1>2. Right(r, six)
  BY <1>1 DEF Right
<1>3. Outcome(r, a) /\ Call(a).used /\ Call(a).in
  BY <1>2, AdvanceOutcome
<1> HIDE DEF a
<1>4. Right(a, seven)
  BY <1>1, <1>3 DEF Right
<1>5. Outcome(a, Advance(a, 0, yes, seven, "ALERT"))
  BY <1>3, <1>4, AdvanceOutcome DEF Outcome
<1>6. AlertRequest(r, 0) = Advance(a, 0, yes, seven, "ALERT")
  BY <1>1 DEF AlertRequest, a
<1> QED
  BY <1>3, <1>5, <1>6, OutcomeTwice

\* A record that differs in the telephone and the line only
Turn(r, ring, hook, off) == [r EXCEPT !.ring = ring, !.hook = hook, !.off = off]

Turned(r, s, ring, hook) ==
  /\ Sane(s) /\ Call(s) = Call(r) /\ Keeps(r, s) /\ s.ring = ring /\ s.hook = hook
  /\ s.nt = r.nt /\ s.next = r.next /\ s.txq = r.txq /\ s.full = r.full
  /\ s.active = r.active

\* The telephone and the line have no part in the queue.
LEMMA Elsewhere ==
  ASSUME NEW r, Sane(r), NEW ring \in BOOLEAN, NEW hook \in {"on", "off"}, NEW off \in BOOLEAN
  PROVE  Turned(r, Turn(r, ring, hook, off), ring, hook)
<1> DEFINE s == Turn(r, ring, hook, off)
<1>0. r \in LiteRec
  BY DEF Sane
<1>1. /\ s \in LiteRec /\ s.cd = r.cd /\ s.txq = r.txq /\ s.full = r.full /\ s.nt = r.nt
      /\ s.active = r.active /\ s.next = r.next /\ s.util = r.util /\ s.ring = ring
      /\ s.hook = hook
  BY <1>0 DEF LiteRec, Turn
<1> HIDE DEF s
<1>2. Sane(s) /\ Call(s) = Call(r)
  BY <1>1 DEF Sane, Call
<1>3. Longer(r, s)
  BY <1>0, <1>1, LongerSelf
<1>4. Quiet(r, s)
  BY <1>1, <1>2, <1>3 DEF Quiet, SameCall
<1>5. Keeps(r, s)
  BY <1>0, <1>1, <1>4, QuietKeeps
<1> QED
  BY <1>1, <1>2, <1>3, <1>4, <1>5 DEF Turned, s

\* dss1_lite_setup_accept_resp: an incoming call is answered, another is left alone.
LEMMA AcceptOutcome ==
  ASSUME NEW r, Sane(r), Settled(r), Call(r).used
  PROVE  Outcome(r, AcceptResp(r, 0))
<1>1. PICK yes \in BOOLEAN, no \in BOOLEAN, six \in States, eight \in States, ten \in States :
        yes = TRUE /\ no = FALSE /\ six = "U6" /\ eight = "U8" /\ ten = "UA"
  BY DEF States
<1> DEFINE a == Advance(r, 0, yes, six, "CALL_PROCEEDING")
           b == SetState(a, 0, yes, eight, no)
           q == [b EXCEPT !.ring = IF r.nt THEN @ ELSE FALSE]
           c == Send(q, 0, "CONNECT")
           d == [c EXCEPT !.cd[0].need = TRUE]
<1>2. AcceptResp(r, 0) = IF a.cd[0].st = "U8" \/ ~May(a, 0, yes, eight) THEN a
                         ELSE IF r.nt THEN SetState(d, 0, yes, ten, no) ELSE d
  BY <1>1 DEF AcceptResp
<1>3. CASE ~Call(r).in
  <2>1. a = r
    BY <1>1, <1>3 DEF Advance, May, Call
  <2>2. ~May(r, 0, yes, eight)
    BY <1>1, <1>3 DEF May, Call
  <2> HIDE DEF a, d
  <2> QED
    BY <1>2, <2>1, <2>2, OutcomeSelf
<1>4. CASE Call(r).in
  <2>1. Right(r, six)
    BY <1>1, <1>4 DEF Right
  <2>2. Outcome(r, a) /\ Call(a).used /\ Call(a).in
    BY <1>4, <2>1, AdvanceOutcome
  <2> HIDE DEF a
  <2>3. CASE a.cd[0].st = "U8" \/ ~May(a, 0, yes, eight)
    BY <1>2, <2>2, <2>3
  <2>4. CASE ~(a.cd[0].st = "U8" \/ ~May(a, 0, yes, eight))
    <3>0. Sane(a) /\ Settled(a) /\ Call(a) \in CallRec /\ a.nt = r.nt
      BY <2>2, Fields DEF Outcome, Sane
    <3>1. Moved(a, b, At(Call(a), eight, no))
      BY <2>2, <2>4, <3>0, SetStateMoves
    <3>2. At(Call(a), eight, no).used = Call(a).used /\ At(Call(a), eight, no).in = Call(a).in
          /\ At(Call(a), eight, no).ref = Call(a).ref /\ At(Call(a), eight, no).st = "U8"
          /\ At(Call(a), eight, no).need = Call(a).need
          /\ At(Call(a), eight, no).alloc = Call(a).alloc
      BY <1>1, <3>0 DEF At, CallRec
    <3>3. /\ Sane(b) /\ Like(a, b) /\ Keeps(a, b) /\ Call(b).used /\ Call(b).in
          /\ Call(b).st = "U8" /\ Call(b).need /\ Call(b).alloc
      BY <2>2, <3>0, <3>1, <3>2, MovedQuiet DEF Moved, Settled
    <3> HIDE DEF b
    <3>4. /\ Sane(q) /\ Call(q) = Call(b) /\ Keeps(b, q) /\ q.nt = b.nt /\ q.hook = b.hook
          /\ q.ring = (IF r.nt THEN b.ring ELSE FALSE)
      <4>1. b \in LiteRec /\ b.hook \in {"on", "off"} /\ b.off \in BOOLEAN
            /\ b.ring \in BOOLEAN
        BY <3>3, Fields DEF Sane
      <4>2. PICK ring \in BOOLEAN : ring = IF r.nt THEN b.ring ELSE FALSE
        BY <4>1
      <4>3. PICK hook \in {"on", "off"}, off \in BOOLEAN : hook = b.hook /\ off = b.off
        BY <4>1
      <4>4. q = Turn(b, ring, hook, off)
        BY <4>1, <4>2, <4>3 DEF LiteRec, Turn
      <4> HIDE DEF q
      <4>5. /\ Sane(q) /\ Call(q) = Call(b) /\ Keeps(b, q) /\ q.nt = b.nt /\ q.hook = hook
            /\ q.ring = ring
        <5>1. Sane(b)
          BY <3>3
        <5>2. Turned(b, Turn(b, ring, hook, off), ring, hook)
          BY <5>1, Elsewhere
        <5> QED
          BY <4>4, <5>2 DEF Turned
      <4> QED
        BY <4>2, <4>3, <4>5
    <3> HIDE DEF q
    <3>5. Sane(c) /\ Like(q, c) /\ Call(c) = Call(q) /\ Keeps(q, c)
      <4>1. Sane(c) /\ Like(q, c) /\ Call(c) = Call(q) /\ Longer(q, c)
        BY <3>4, SendQuiet
      <4> HIDE DEF c
      <4> QED
        BY <3>4, <4>1, QuietKeeps DEF Quiet, SameCall, Like, Sane
    <3> HIDE DEF c
    <3>6. d = c
      <4>1. c \in LiteRec /\ c.cd \in [Descs -> CallRec] /\ c.cd[0].need = TRUE
            /\ c.cd[0] \in CallRec /\ 0 \in Descs
        BY <3>3, <3>4, <3>5, Fields, Constants DEF Sane, Call, CallRec
      <4>2. [c.cd[0] EXCEPT !.need = TRUE] = c.cd[0]
        BY <4>1 DEF CallRec
      <4>3. [c.cd EXCEPT ![0] = c.cd[0]] = c.cd
        BY <4>1
      <4>4. d = [c EXCEPT !.cd = [c.cd EXCEPT ![0] = [c.cd[0] EXCEPT !.need = TRUE]]]
        BY <4>1 DEF LiteRec
      <4> HIDE DEF d
      <4> QED
        BY <4>1, <4>2, <4>3, <4>4 DEF LiteRec
    <3> HIDE DEF d
    <3>7. Outcome(r, d)
      <4>1. Settled(d)
        BY <3>3, <3>4, <3>5, <3>6 DEF Settled
      <4>2. /\ d.nt = r.nt /\ d.hook = a.hook /\ d.ring = (IF r.nt THEN a.ring ELSE FALSE)
            /\ Call(d).used
        BY <3>0, <3>3, <3>4, <3>5, <3>6 DEF Like
      <4>3. Device(a) => Device(d)
        BY <3>0, <4>2 DEF Device
      <4>4. Keeps(r, d)
        BY <2>2, <3>3, <3>4, <3>5, <3>6 DEF Outcome, Keeps
      <4> QED
        BY <2>2, <3>5, <3>6, <4>1, <4>2, <4>3, <4>4 DEF Outcome
    <3>8. ASSUME r.nt PROVE Outcome(d, SetState(d, 0, yes, ten, no))
      <4>1. Right(d, ten)
        BY <1>1, <3>3, <3>4, <3>5, <3>6, <3>7, <3>8 DEF Right, Device, Outcome
      <4>2. Call(d).used
        BY <3>3, <3>4, <3>5, <3>6
      <4> QED
        BY <3>7, <4>1, <4>2, SetStateOutcome DEF Outcome
    <3> QED
      BY <1>2, <2>4, <3>7, <3>8, OutcomeTwice
  <2> QED
    BY <2>3, <2>4
<1> QED
  BY <1>3, <1>4

\* A telephone does not ring yet.
Still(r) == ~r.ring /\ (~r.nt => r.hook = "on")

\* SETUP: the call gets a channel, and the telephone rings or the line is taken; or the
\* call ends at once.
LEMMA SetupOutcome ==
  ASSUME NEW r, Sane(r), Call(r).used, Call(r).in, Call(r).st = "U0", NEW m
  PROVE  LET s == Setup(r, 0, m) IN
         Sane(s) /\ Settled(s) /\ (Still(r) => Device(s)) /\ Keeps(r, s) /\ s.nt = r.nt
<1> DEFINE c == [Call(r) EXCEPT !.need = TRUE]
           y == [r EXCEPT !.cd[0].need = TRUE]
           a == AllocChannel(y, 0)
           v == [a EXCEPT !.ring = TRUE]
           w == [a EXCEPT !.hook = "off"]
           s == Setup(r, 0, m)
<1>0. /\ r \in LiteRec /\ r.cd \in [Descs -> CallRec] /\ Call(r) \in CallRec /\ 0 \in Descs
  BY Fields, Constants DEF Sane
<1>1. /\ c \in CallRec /\ c.used = Call(r).used /\ c.in = Call(r).in /\ c.st = Call(r).st
      /\ c.ref = Call(r).ref /\ c.chan = Call(r).chan /\ c.alloc = Call(r).alloc /\ c.need
  BY <1>0 DEF CallRec
<1>2. y = Put(r, c)
  BY <1>0 DEF Put, Call, LiteRec
<1>3. s = IF ~a.cd[0].alloc THEN EndCall(a, 0)
          ELSE IF ~r.nt THEN AlertRequest(v, 0)
          ELSE IF m.complete THEN AcceptResp(w, 0) ELSE EndCall(w, 0)
  BY DEF Setup
<1> HIDE DEF c, y, s
<1>4. Sane(y) /\ Call(y) = c /\ Like(r, y) /\ Keeps(r, y)
  <2>1. Sane(y) /\ Call(y) = c /\ Like(r, y) /\ y.txq = r.txq /\ y.full = r.full
    BY <1>0, <1>1, <1>2, PutSane, PutFields
  <2>2. Longer(r, y)
    BY <1>0, <2>1, LongerSelf
  <2> QED
    BY <1>0, <1>1, <2>1, <2>2, QuietKeeps DEF Quiet, SameCall, Like, Sane
<1>5. Placed(y, a)
  BY <1>1, <1>4, AllocPlaced
<1> HIDE DEF a
<1>6. /\ Sane(a) /\ Call(a).used /\ Call(a).in /\ Call(a).st = "U0" /\ Call(a).need
      /\ a.nt = r.nt /\ a.ring = r.ring /\ a.hook = r.hook
  BY <1>1, <1>4, <1>5 DEF Placed, Quiet, SameCall, Like
<1>7. Keeps(r, a)
  <2>1. Keeps(y, a)
    BY <1>4, <1>5, QuietKeeps DEF Placed, Sane
  <2> QED
    BY <1>4, <2>1 DEF Keeps
<1>8. /\ a \in LiteRec /\ a.ring \in BOOLEAN /\ a.hook \in {"on", "off"} /\ a.off \in BOOLEAN
  BY <1>6, Fields DEF Sane
<1>9. PICK yes \in BOOLEAN, ring \in BOOLEAN, hook \in {"on", "off"}, off \in BOOLEAN,
           taken \in {"on", "off"} :
        yes = TRUE /\ ring = a.ring /\ hook = a.hook /\ off = a.off /\ taken = "off"
  BY <1>8
<1>10. Turned(a, v, yes, hook)
  <2>1. v = Turn(a, yes, hook, off)
    BY <1>8, <1>9 DEF Turn, LiteRec
  <2>2. Turned(a, Turn(a, yes, hook, off), yes, hook)
    BY <1>6, Elsewhere
  <2> QED
    BY <2>1, <2>2
<1>11. Turned(a, w, ring, taken)
  <2>1. w = Turn(a, ring, taken, off)
    BY <1>8, <1>9 DEF Turn, LiteRec
  <2>2. Turned(a, Turn(a, ring, taken, off), ring, taken)
    BY <1>6, Elsewhere
  <2> QED
    BY <2>1, <2>2
<1> HIDE DEF v, w
<1>12. CASE ~Call(a).alloc
  <2>1. s = EndCall(a, 0)
    BY <1>3, <1>12 DEF Call
  <2>2. Outcome(a, s)
    BY <1>6, <2>1, EndOutcome
  <2>3. Still(r) => Device(s)
    BY <1>6, <2>1, EndDevice DEF Still
  <2> QED
    BY <1>6, <1>7, <2>2, <2>3 DEF Outcome, Keeps, s
<1>13. CASE Call(a).alloc /\ ~r.nt
  <2>1. s = AlertRequest(v, 0)
    BY <1>3, <1>13 DEF Call
  <2>2. Sane(v) /\ Settled(v) /\ Call(v).used /\ Call(v).in /\ Keeps(a, v)
    BY <1>6, <1>10, <1>13 DEF Turned, Settled
  <2>3. Outcome(v, s)
    BY <2>1, <2>2, AlertOutcome
  <2>4. Still(r) => Device(v)
    BY <1>6, <1>9, <1>10, <1>13 DEF Still, Device, Turned
  <2> QED
    BY <1>6, <1>7, <1>10, <2>2, <2>3, <2>4 DEF Outcome, Keeps, Turned, s
<1>14. CASE Call(a).alloc /\ r.nt
  <2>1. Sane(w) /\ Settled(w) /\ Call(w).used /\ Call(w).need /\ Keeps(a, w) /\ w.nt = r.nt
    BY <1>6, <1>11, <1>14 DEF Turned, Settled
  <2>2. Still(r) => Device(w)
    BY <1>6, <1>9, <1>11, <1>14 DEF Still, Device, Turned
  <2>3. Outcome(w, AcceptResp(w, 0)) /\ Outcome(w, EndCall(w, 0))
    BY <2>1, AcceptOutcome, EndOutcome
  <2>4. s = AcceptResp(w, 0) \/ s = EndCall(w, 0)
    BY <1>3, <1>14 DEF Call
  <2>5. Outcome(w, s)
    BY <2>3, <2>4
  <2> QED
    BY <1>7, <2>1, <2>2, <2>5 DEF Outcome, Keeps, s
<1> QED
  BY <1>12, <1>13, <1>14

\* A message for a call but SETUP and RELEASE COMPLETE
LEMMA DecodeOutcome ==
  ASSUME NEW r, Sane(r), Settled(r), Call(r).used, NEW m \in LiteMessages,
         m.type \notin {"SETUP", "RELEASE_COMPLETE"}
  PROVE  Outcome(r, Decode(r, 0, m))
<1> DEFINE a == TakeChannel(r, 0, m)
           d == Decode(r, 0, m)
<1>0. m.chan \in Named \cup {NONE}
  BY DEF LiteMessages
<1>1. Placed(r, a)
  <2>1. CASE m.chan \in Named
    BY <2>1, TakePlaced
  <2>2. CASE m.chan = NONE
    <3>1. a = r /\ r \in LiteRec
      BY <2>2 DEF TakeChannel, Sane
    <3> HIDE DEF a
    <3> QED
      BY <3>1, LongerSelf DEF Placed, Quiet, SameCall
  <2> QED
    BY <1>0, <2>1, <2>2
<1>2. Outcome(r, a) /\ Call(a).used
  BY <1>1, PlacedOutcome DEF Placed, Quiet, SameCall
<1> HIDE DEF a
<1>3. Sane(a) /\ Settled(a) /\ Call(a) \in CallRec /\ Call(a).need
  BY <1>2, Fields DEF Outcome, Sane, Settled
<1> SUFFICES Outcome(a, d)
  BY <1>2, OutcomeTwice
<1>4. PICK yes \in BOOLEAN, no \in BOOLEAN, in \in BOOLEAN :
        yes = TRUE /\ no = FALSE /\ in = Call(a).in
  BY <1>3 DEF CallRec
<1>5. Outcome(a, a)
  BY <1>3, OutcomeSelf
<1>6. CASE m.type = "ALERT"
  <2>1. \/ d = a \/ d = Progress(a, 0, "U4", no)
        \/ May(a, 0, FALSE, "U4") /\ d = SetState(a, 0, no, "U4", no)
    BY <1>4, <1>6 DEF Decode, a
  <2>2. Outcome(a, Progress(a, 0, "U4", no))
    BY <1>2, <1>3, ProgressOutcome
  <2>3. ASSUME May(a, 0, FALSE, "U4") PROVE Outcome(a, SetState(a, 0, no, "U4", no))
    <3>1. Right(a, "U4") /\ "U4" \in States
      BY <1>2, <2>3 DEF Right, May, Call, States
    <3> QED
      BY <1>2, <1>3, <3>1, SetStateOutcome
  <2> QED
    BY <1>5, <2>1, <2>2, <2>3
<1>7. CASE m.type = "SETUP_ACKNOWLEDGE"
  <2>1. d = a \/ d = Progress(a, 0, "U3", no) \/ d = Progress(a, 0, "U2", yes)
    BY <1>4, <1>7 DEF Decode, a
  <2>2. Outcome(a, Progress(a, 0, "U3", no)) /\ Outcome(a, Progress(a, 0, "U2", yes))
    BY <1>2, <1>3, ProgressOutcome
  <2> QED
    BY <1>5, <2>1, <2>2
<1>8. CASE m.type = "CALL_PROCEEDING"
  <2>1. d = Progress(a, 0, "U3", no)
    BY <1>4, <1>8 DEF Decode, a
  <2>2. Outcome(a, Progress(a, 0, "U3", no))
    BY <1>2, <1>3, ProgressOutcome
  <2> QED
    BY <2>1, <2>2
<1>9. CASE m.type = "CONNECT"
  <2>1. d = Connect(a, 0)
    BY <1>9 DEF Decode, a
  <2> QED
    BY <1>2, <1>3, <2>1, ConnectOutcome
<1>10. CASE m.type = "CONNECT_ACKNOWLEDGE"
  <2>1. d = a \/ (Call(a).st = "U8" /\ d = SetState(a, 0, yes, "UA", no))
    BY <1>4, <1>10 DEF Decode, a, Call
  <2>2. ASSUME Call(a).st = "U8" PROVE Outcome(a, SetState(a, 0, yes, "UA", no))
    <3>1. Right(a, "UA") /\ "UA" \in States
      BY <1>2, <1>3, <2>2 DEF Right, Device, Settled, States
    <3> QED
      BY <1>2, <1>3, <3>1, SetStateOutcome
  <2> QED
    BY <1>5, <2>1, <2>2
<1>11. CASE m.type = "DISCONNECT"
  <2>1. d = a \/ d = SetState(a, 0, in, "UC", no)
    BY <1>4, <1>11 DEF Decode, a, Call
  <2>2. Right(a, "UC") /\ "UC" \in States
    BY DEF Right, States
  <2>3. Outcome(a, SetState(a, 0, in, "UC", no))
    BY <1>2, <1>3, <2>2, SetStateOutcome
  <2> QED
    BY <1>5, <2>1, <2>3
<1>12. CASE m.type = "RELEASE"
  <2>1. d = EndCall(a, 0)
    BY <1>12 DEF Decode, a
  <2> QED
    BY <1>2, <1>3, <2>1, EndOutcome
<1>13. CASE m.type = "STATUS_ENQUIRY"
  <2>1. d = Send(a, 0, "STATUS")
    BY <1>13 DEF Decode, a
  <2>2. Outcome(a, Send(a, 0, "STATUS"))
    BY <1>3, SendOutcome
  <2> QED
    BY <2>1, <2>2
<1>14. CASE m.type = "INFORMATION"
  <2>1. d = a \/ (Call(a).in /\ d = SetState(a, 0, yes, "U0", yes))
    BY <1>4, <1>14 DEF Decode, a, Call
  <2>2. ASSUME Call(a).in PROVE Outcome(a, SetState(a, 0, yes, "U0", yes))
    <3>1. Right(a, "U0") /\ "U0" \in States
      BY <2>2 DEF Right, States
    <3> QED
      BY <1>2, <1>3, <3>1, SetStateOutcome
  <2> QED
    BY <1>5, <2>1, <2>2
<1>15. CASE m.type = "STATUS"
  <2>1. d = ReceiveStatus(a, 0, m.state)
    BY <1>15 DEF Decode, a
  <2> QED
    BY <1>2, <1>3, <2>1, StatusOutcome
<1> QED
  BY <1>6, <1>7, <1>8, <1>9, <1>10, <1>11, <1>12, <1>13, <1>14, <1>15 DEF LiteMessages

-----------------------------------------------------------------------------
(* The handset and the line *)

\* The begin of an outgoing call, with or without a channel
Begin(r) == [Send(r, 0, "SETUP") EXCEPT !.cd[0].need = TRUE]

\* The call is the next one, and its SETUP is queued behind the earlier calls.
LEMMA BeginOutcome ==
  ASSUME NEW r, Sane(r), ~Call(r).used, NEW x, Placed(NewCall(r, 0, FALSE, 0), x)
  PROVE  Outcome(r, Begin(x))
<1> DEFINE n == NewCall(r, 0, FALSE, 0)
           y == Send(x, 0, "SETUP")
           c == [Call(y) EXCEPT !.need = TRUE]
           s == Begin(x)
<1>1. /\ Sane(n) /\ Call(n) = Fresh(FALSE, r.next) /\ n.txq = r.txq /\ n.full = r.full
      /\ n.nt = r.nt /\ n.ring = r.ring /\ n.hook = r.hook /\ n.next = (r.next + 1) % Refs
  <2>1. PICK no \in BOOLEAN : no = FALSE
    OBVIOUS
  <2>2. /\ Sane(NewCall(r, 0, no, 0))
        /\ Call(NewCall(r, 0, no, 0)) = Fresh(no, IF no THEN 0 ELSE r.next)
        /\ NewCall(r, 0, no, 0).txq = r.txq /\ NewCall(r, 0, no, 0).full = r.full
        /\ NewCall(r, 0, no, 0).nt = r.nt /\ NewCall(r, 0, no, 0).ring = r.ring
        /\ NewCall(r, 0, no, 0).hook = r.hook
        /\ NewCall(r, 0, no, 0).next = (IF no THEN r.next ELSE (r.next + 1) % Refs)
    BY <2>1, NewFields
  <2> QED
    BY <2>1, <2>2
<1>2. /\ Call(n).used = TRUE /\ Call(n).in = FALSE /\ Call(n).ref = r.next
      /\ Call(n).st = "U2"
  <2>1. PICK no \in BOOLEAN, ref \in Own \cup Theirs : no = FALSE /\ ref = r.next
    BY Fields DEF Sane
  <2>2. Fresh(no, ref).used /\ Fresh(no, ref).in = no /\ Fresh(no, ref).ref = ref
        /\ Fresh(no, ref).st = (IF no THEN "U0" ELSE "U2") /\ Fresh(no, ref) \in CallRec
    BY FreshFields
  <2> QED
    BY <1>1, <2>1, <2>2 DEF CallRec
<1> HIDE DEF n
<1>3. /\ Sane(x) /\ x.txq = r.txq /\ x.full = r.full /\ x.nt = r.nt /\ x.ring = r.ring
      /\ x.hook = r.hook /\ x.next = (r.next + 1) % Refs
      /\ Call(x).used /\ ~Call(x).in /\ Call(x).ref = r.next /\ Call(x).st = "U2"
  BY <1>1, <1>2 DEF Placed, Quiet, SameCall, n
<1>4. /\ Sane(y) /\ y.cd = x.cd /\ Like(x, y)
      /\ \/ /\ Len(x.txq) < QueueMax - 1 /\ y.full = x.full
            /\ y.txq = Append(x.txq, Queued("SETUP", Call(x).ref))
         \/ y.full = TRUE
  BY <1>3, SendFields
<1>5. s = [y EXCEPT !.cd[0].need = TRUE]
  BY DEF Begin
<1> HIDE DEF y, s
<1>6. /\ y \in LiteRec /\ y.cd \in [Descs -> CallRec] /\ Call(y) \in CallRec /\ 0 \in Descs
      /\ Call(y) = Call(x)
  BY <1>4, Fields, Constants DEF Sane, Call
<1>7. s = Put(y, c)
  BY <1>5, <1>6 DEF Put, Call, LiteRec
<1>8. /\ c \in CallRec /\ c.used = Call(x).used /\ c.in = Call(x).in /\ c.st = Call(x).st
      /\ c.ref = Call(x).ref /\ c.chan = Call(y).chan /\ c.alloc = Call(y).alloc /\ c.need
  BY <1>6 DEF CallRec
<1> HIDE DEF c
<1>9. Sane(s) /\ Call(s) = c /\ Like(y, s) /\ s.txq = y.txq /\ s.full = y.full
  BY <1>3, <1>4, <1>6, <1>7, <1>8, PutSane, PutFields
<1>10. Settled(s)
  BY <1>3, <1>8, <1>9 DEF Settled
<1>11. s.nt = r.nt /\ s.ring = r.ring /\ s.hook = r.hook /\ s.next = (r.next + 1) % Refs
  BY <1>3, <1>4, <1>9 DEF Like
<1>12. Device(r) => Device(s)
  BY <1>3, <1>8, <1>9, <1>11 DEF Device
<1>13. Call(s).used /\ ~Call(s).in /\ Call(s).ref = r.next /\ s \in LiteRec
  BY <1>3, <1>8, <1>9 DEF Sane
<1>14. \/ /\ Len(r.txq) < QueueMax - 1 /\ s.full = r.full
          /\ s.txq = Append(r.txq, Queued("SETUP", r.next))
       \/ s.full = TRUE
  BY <1>3, <1>4, <1>9
<1>15. Keeps(r, s)
  BY <1>11, <1>13, <1>14, OutKeeps
<1> QED
  BY <1>9, <1>10, <1>11, <1>12, <1>15 DEF Outcome, s

\* dl_off_hook alone
LEMMA LiftedOutcome ==
  ASSUME NEW r, Sane(r), Settled(r), NEW off \in BOOLEAN
  PROVE  /\ Outcome(r, [r EXCEPT !.off = off]) /\ [r EXCEPT !.off = off].active = r.active
         /\ Call([r EXCEPT !.off = off]) = Call(r)
<1>1. r \in LiteRec
  BY DEF Sane
<1>2. PICK ring \in BOOLEAN, hook \in {"on", "off"} : ring = r.ring /\ hook = r.hook
  BY <1>1, Fields
<1>3. Turned(r, Turn(r, ring, hook, off), ring, hook)
  BY Elsewhere
<1>4. [r EXCEPT !.off = off] = Turn(r, ring, hook, off)
  BY <1>1, <1>2 DEF Turn, LiteRec
<1> QED
  BY <1>2, <1>3, <1>4 DEF Turned, Outcome, Settled, Device

\* dss1_lite_hook_off: a call is answered, or one begins.
LEMMA HookOffOutcome ==
  ASSUME NEW r, Sane(r), Settled(r)
  PROVE  Outcome(r, HookOff(r))
<1> DEFINE a == [r EXCEPT !.off = TRUE]
<1>1. PICK yes \in BOOLEAN : yes = TRUE
  OBVIOUS
<1>2. Outcome(r, a) /\ a.active = r.active /\ Call(a) = Call(r)
  BY <1>1, LiftedOutcome
<1>3. HookOff(r) = IF r.active # ANY THEN AcceptResp(a, r.active)
                   ELSE IF AllocCd(a) = {} THEN a
                   ELSE LET i == CHOOSE i \in AllocCd(a) : TRUE
                        IN [Send(NewCall(a, i, FALSE, 0), i, "SETUP") EXCEPT !.cd[i].need = TRUE]
  BY DEF HookOff
<1> HIDE DEF a
<1>4. Sane(a) /\ Settled(a)
  BY <1>2 DEF Outcome
<1>5. CASE Call(r).used
  <2>1. r.active = 0 /\ 0 # ANY
    <3>1. r.active = IF Call(r).used THEN 0 ELSE ANY
      BY DEF Sane
    <3> QED
      BY <1>5, <3>1, ZeroNotAny
  <2>2. Outcome(a, AcceptResp(a, 0))
    BY <1>2, <1>4, <1>5, AcceptOutcome
  <2>3. HookOff(r) = AcceptResp(a, 0)
    BY <1>3, <2>1
  <2> QED
    BY <1>2, <2>2, <2>3, OutcomeTwice
<1>6. CASE ~Call(r).used
  <2>1. r.active = ANY
    BY <1>6 DEF Sane
  <2>2. AllocCd(a) # {} /\ (CHOOSE i \in AllocCd(a) : TRUE) = 0
    BY <1>2, <1>4, <1>6, AllocFirst
  <2>3. HookOff(r) = Begin(NewCall(a, 0, FALSE, 0))
    BY <1>3, <2>1, <2>2 DEF Begin
  <2>4. Placed(NewCall(a, 0, FALSE, 0), NewCall(a, 0, FALSE, 0))
    <3>1. PICK no \in BOOLEAN : no = FALSE
      OBVIOUS
    <3>2. Sane(NewCall(a, 0, no, 0))
      BY <1>2, <1>4, <1>6, <3>1, NewFields
    <3>3. Longer(NewCall(a, 0, no, 0), NewCall(a, 0, no, 0))
      BY <3>2, LongerSelf DEF Sane
    <3> QED
      BY <3>1, <3>2, <3>3 DEF Placed, Quiet, SameCall
  <2>5. Outcome(a, Begin(NewCall(a, 0, FALSE, 0)))
    BY <1>2, <1>4, <1>6, <2>4, BeginOutcome
  <2> QED
    BY <1>2, <2>3, <2>5, OutcomeTwice
<1> QED
  BY <1>5, <1>6

\* dss1_lite_hook_on, and the end of the ringing: the call ends.
LEMMA HookOnOutcome ==
  ASSUME NEW r, Sane(r), Settled(r)
  PROVE  Outcome(r, HookOn(r)) /\ Outcome(r, RingOff(r))
<1> DEFINE a == [r EXCEPT !.off = FALSE]
<1>1. PICK no \in BOOLEAN : no = FALSE
  OBVIOUS
<1>2. Outcome(r, a) /\ a.active = r.active /\ Call(a) = Call(r)
  BY <1>1, LiftedOutcome
<1>3. HookOn(r) = (IF r.active = ANY THEN a ELSE EndCall(a, r.active))
      /\ RingOff(r) = (IF r.active = ANY THEN r ELSE EndCall(r, r.active))
  BY DEF HookOn, RingOff
<1> HIDE DEF a
<1>4. CASE Call(r).used
  <2>1. r.active = 0 /\ 0 # ANY /\ Call(r).need
    <3>1. r.active = IF Call(r).used THEN 0 ELSE ANY
      BY DEF Sane
    <3>2. Call(r).need
      BY <1>4 DEF Settled
    <3> QED
      BY <1>4, <3>1, <3>2, ZeroNotAny
  <2>2. Outcome(a, EndCall(a, 0)) /\ Outcome(r, EndCall(r, 0))
    BY <1>2, <1>4, <2>1, EndOutcome DEF Outcome
  <2> QED
    BY <1>2, <1>3, <2>1, <2>2, OutcomeTwice
<1>5. CASE ~Call(r).used
  <2>1. r.active = ANY
    BY <1>5 DEF Sane
  <2> QED
    BY <1>2, <1>3, <2>1, OutcomeSelf
<1> QED
  BY <1>4, <1>5

\* dss1_lite_ring_event
LEMMA RingOnOutcome ==
  ASSUME NEW r, Sane(r), Settled(r)
  PROVE  Outcome(r, RingOn(r))
<1>1. CASE Call(r).used
  <2>1. r.active # ANY
    BY <1>1 DEF Sane, ANY
  <2> QED
    BY <2>1, OutcomeSelf DEF RingOn
<1>2. CASE ~Call(r).used
  <2> DEFINE n == NewCall(r, 0, FALSE, 0)
             a == AllocChannel(n, 0)
  <2>1. AllocCd(r) # {} /\ (CHOOSE i \in AllocCd(r) : TRUE) = 0 /\ r.active = ANY
    BY <1>2, AllocFirst DEF Sane
  <2>2. RingOn(r) = IF ~a.cd[0].alloc THEN EndCall(a, 0)
                    ELSE [Send(a, 0, "SETUP") EXCEPT !.cd[0].need = TRUE]
    <3>1. ~(r.active # ANY \/ AllocCd(r) = {})
      BY <2>1
    <3>2. PICK i : i = (CHOOSE j \in AllocCd(r) : TRUE) /\ i = 0
      BY <2>1
    <3>3. RingOn(r) =
            LET b == AllocChannel(NewCall(r, i, FALSE, 0), i)
            IN IF ~b.cd[i].alloc THEN EndCall(b, i)
               ELSE [Send(b, i, "SETUP") EXCEPT !.cd[i].need = TRUE]
      BY <3>1, <3>2, Zenon DEF RingOn
    <3> QED
      BY <3>2, <3>3, Zenon
  <2>3. Sane(n) /\ Call(n).used /\ ~Call(n).alloc /\ Call(n).chan = ANY
    <3>1. PICK no \in BOOLEAN, ref \in Own \cup Theirs : no = FALSE /\ ref = r.next
      BY Fields DEF Sane
    <3>2. Sane(NewCall(r, 0, no, 0))
          /\ Call(NewCall(r, 0, no, 0)) = Fresh(no, IF no THEN 0 ELSE r.next)
      BY <1>2, <3>1, NewFields
    <3>3. Fresh(no, ref).used /\ Fresh(no, ref).alloc = FALSE /\ Fresh(no, ref).chan = ANY
      BY FreshFields
    <3> QED
      BY <3>1, <3>2, <3>3
  <2> HIDE DEF n
  <2>4. Placed(n, a) /\ Call(a).alloc
    BY <2>3, AllocPlaced, AllocSucceeds
  <2> HIDE DEF a
  <2>5. RingOn(r) = Begin(a)
    BY <2>2, <2>4 DEF Begin, Call
  <2> QED
    BY <1>2, <2>4, <2>5, BeginOutcome DEF n
<1> QED
  BY <1>1, <1>2

-----------------------------------------------------------------------------
(* The messages that begin and end a call *)

\* RELEASE COMPLETE: the call is gone and the peer is not told.
LEMMA GoneOutcome ==
  ASSUME NEW r, Sane(r), Call(r).used, NEW m \in LiteMessages, m.type = "RELEASE_COMPLETE",
         NEW o, NEW u, QInv(r, o, u), Call(r).ref \in o
  PROVE  LET s == Decode(r, 0, m) IN
         /\ Sane(s) /\ Settled(s) /\ (Device(r) => Device(s)) /\ s.nt = r.nt
         /\ QInv(s, o \ {Call(r).ref}, u)
<1> DEFINE c == [Call(r) EXCEPT !.need = FALSE]
           y == [r EXCEPT !.cd[0].need = FALSE]
           s == Decode(r, 0, m)
<1>1. m.chan = NONE
  BY DEF LiteMessages
<1>2. s = EndCall(y, 0)
  <2>1. TakeChannel(r, 0, m) = r
    BY <1>1 DEF TakeChannel
  <2> QED
    BY <2>1 DEF Decode
<1>3. /\ r \in LiteRec /\ r.cd \in [Descs -> CallRec] /\ Call(r) \in CallRec /\ 0 \in Descs
  BY Fields, Constants DEF Sane
<1>4. y = Put(r, c)
  BY <1>3 DEF Put, Call, LiteRec
<1>5. /\ c \in CallRec /\ c.used = Call(r).used /\ c.in = Call(r).in /\ c.st = Call(r).st
      /\ c.ref = Call(r).ref /\ c.chan = Call(r).chan /\ c.alloc = Call(r).alloc /\ ~c.need
  BY <1>3 DEF CallRec
<1> HIDE DEF c, y, s
<1>6. Sane(y) /\ Call(y) = c /\ Like(r, y) /\ y.txq = r.txq /\ y.full = r.full
  BY <1>3, <1>4, <1>5, PutSane, PutFields
<1>7. y.nt = r.nt /\ y.ring = r.ring /\ y.hook = r.hook /\ y.next = r.next
  BY <1>6 DEF Like
<1>8. /\ Sane(s) /\ Call(s) = NoCall /\ s.next = y.next /\ s.nt = y.nt
      /\ s.txq = y.txq /\ s.full = y.full
  BY <1>2, <1>5, <1>6, EndFields
<1>9. Settled(s)
  BY <1>8, NoCallSettled
<1>10. Device(r) => Device(s)
  BY <1>2, <1>5, <1>6, <1>7, EndDevice DEF Device
<1>11. QInv(s, o \ {Call(r).ref}, u)
  BY <1>6, <1>7, <1>8, DropKeeps
<1> QED
  BY <1>7, <1>8, <1>9, <1>10, <1>11 DEF s

\* SETUP, when there is no other call
LEMMA ComesOutcome ==
  ASSUME NEW r, Sane(r), ~Call(r).used, NEW m \in LiteMessages, m.type = "SETUP",
         NEW ref \in Theirs, NEW o, NEW u, QInv(r, o, u)
  PROVE  LET s == Decode(NewCall(r, 0, TRUE, ref), 0, m) IN
         /\ Sane(s) /\ Settled(s) /\ (Device(r) => Device(s)) /\ s.nt = r.nt
         /\ QInv(s, o \cup {ref}, u)
<1> DEFINE n == NewCall(r, 0, TRUE, ref)
           a == TakeChannel(n, 0, m)
           s == Decode(n, 0, m)
<1>1. m.chan \in Named
  BY DEF LiteMessages
<1>2. s = Setup(a, 0, m)
  BY DEF Decode
<1>3. /\ Sane(n) /\ Call(n) = Fresh(TRUE, ref) /\ n.txq = r.txq /\ n.full = r.full
      /\ n.nt = r.nt /\ n.ring = r.ring /\ n.hook = r.hook /\ n.next = r.next
  <2>1. PICK yes \in BOOLEAN : yes = TRUE
    OBVIOUS
  <2>2. /\ Sane(NewCall(r, 0, yes, ref))
        /\ Call(NewCall(r, 0, yes, ref)) = Fresh(yes, IF yes THEN ref ELSE r.next)
        /\ NewCall(r, 0, yes, ref).txq = r.txq /\ NewCall(r, 0, yes, ref).full = r.full
        /\ NewCall(r, 0, yes, ref).nt = r.nt /\ NewCall(r, 0, yes, ref).ring = r.ring
        /\ NewCall(r, 0, yes, ref).hook = r.hook
        /\ NewCall(r, 0, yes, ref).next = (IF yes THEN r.next ELSE (r.next + 1) % Refs)
    BY <2>1, NewFields
  <2> QED
    BY <2>1, <2>2
<1> HIDE DEF n
<1>4. Call(n).used /\ Call(n).in /\ Call(n).st = "U0"
  <2>1. PICK yes \in BOOLEAN, f \in Own \cup Theirs : yes = TRUE /\ f = ref
    OBVIOUS
  <2>2. Fresh(yes, f).used /\ Fresh(yes, f).in = yes
        /\ Fresh(yes, f).st = (IF yes THEN "U0" ELSE "U2")
    BY FreshFields
  <2> QED
    BY <1>3, <2>1, <2>2
<1>5. QInv(n, o \cup {ref}, u)
  BY <1>3, InKeeps
<1>6. Placed(n, a)
  BY <1>1, <1>3, <1>4, TakePlaced
<1> HIDE DEF a, s
<1>7. /\ Sane(a) /\ Call(a).used /\ Call(a).in /\ Call(a).st = "U0" /\ a.nt = n.nt
      /\ a.ring = n.ring /\ a.hook = n.hook
  BY <1>3, <1>4, <1>6 DEF Placed, Quiet, SameCall
<1>8. Keeps(n, a)
  BY <1>3, <1>6, QuietKeeps DEF Placed, Sane
<1>9. Sane(s) /\ Settled(s) /\ (Still(a) => Device(s)) /\ Keeps(a, s) /\ s.nt = a.nt
  BY <1>2, <1>7, SetupOutcome
<1>10. Device(r) => Still(a)
  BY <1>3, <1>7 DEF Device, Still
<1>11. QInv(s, o \cup {ref}, u)
  BY <1>5, <1>8, <1>9 DEF Keeps
<1> QED
  BY <1>3, <1>7, <1>9, <1>10, <1>11 DEF s, n

-----------------------------------------------------------------------------
(* The steps *)

\* The handlers that concern neither the peer's calls nor the mode
LEMMA StepKept ==
  ASSUME LiteInv, Outcome(dl, dl'), UNCHANGED <<up, open, unheard, turned>>,
         said' \in 0 .. MaxSaid
  PROVE  LiteInv'
<1>1. Sane(dl)' /\ Settled(dl)' /\ (Device(dl) => Device(dl)') /\ dl.nt' = dl.nt
      /\ QInv(dl, open, unheard)'
  BY DEF LiteInv, Outcome, Keeps
<1> QED
  BY <1>1 DEF LiteInv

\* dss1_lite_process
LEMMA LiftedAgainOutcome ==
  ASSUME LiteInv
  PROVE  Outcome(dl, LiftedAgain)
BY HookOffOutcome, OutcomeSelf DEF LiftedAgain, LiteInv

\* No descriptor but the first has a call.
LEMMA OneCall ==
  ASSUME NEW r, Sane(r), NEW i \in Descs, r.cd[i].used
  PROVE  i = 0 /\ Call(r).used /\ r.active = 0
BY DEF Sane, NoCall, Call

\* A message of the peer
LEMMA SaysStep ==
  ASSUME LiteInv, NEW m \in LiteMessages, NEW ref \in Own \cup Theirs, Says(m, ref)
  PROVE  LiteInv'
<1> DEFINE r == LiftedAgain
<1>1. Outcome(dl, r)
  BY LiftedAgainOutcome
<1>2. /\ said' \in 0 .. MaxSaid /\ up' \in BOOLEAN /\ turned' = turned
      /\ turned \in BOOLEAN /\ open \subseteq Own \cup Theirs /\ dl.nt \in Modes
  <2>1. /\ up' = up /\ turned' = turned /\ (m.type = "STATUS" \/ said < MaxSaid)
        /\ said' = IF m.type = "STATUS" THEN said ELSE said + 1
    BY DEF Says
  <2>2. /\ said \in 0 .. MaxSaid /\ up \in BOOLEAN /\ turned \in BOOLEAN
        /\ open \subseteq Own \cup Theirs /\ dl.nt \in Modes
    BY DEF LiteInv
  <2>3. said' \in 0 .. MaxSaid
    BY <2>1, <2>2, Constants
  <2> QED
    BY <2>1, <2>2, <2>3
<1>3. /\ Sane(r) /\ Settled(r) /\ r.nt = dl.nt /\ (~turned => Device(r))
      /\ QInv(r, open, unheard)
  BY <1>1 DEF Outcome, LiteInv, Keeps
<1>4. CASE m.type = "SETUP"
  <2>1. /\ ref \in Theirs /\ ref \notin open /\ open' = open \cup {ref}
        /\ IF AllocCd(r) = {}
           THEN dl' = r /\ unheard' = unheard \cup {ref}
           ELSE LET i == CHOOSE i \in AllocCd(r) : TRUE
                IN Becomes(Decode(NewCall(r, i, TRUE, ref), i, m))
    BY <1>4 DEF Says
  <2> HIDE DEF r
  <2>2. CASE AllocCd(r) = {}
    <3>1. dl' = r /\ unheard' = unheard \cup {ref}
      BY <2>1, <2>2
    <3>2. ref \notin Own
      BY <2>1, Constants DEF Own, Theirs
    <3>3. QInv(r, open \cup {ref}, unheard \cup {ref})
      <4>1. (unheard \cup {ref}) \cap Own = {}
        BY <1>3, <3>2 DEF QInv
      <4>2. ASSUME ~r.full PROVE QueueOK(r, open \cup {ref}, unheard \cup {ref})
        <5>1. QueueOK(r, open, unheard) /\ RefOf(r)
          BY <1>3, <4>2 DEF QInv
        <5>2. Reported(r, open \cup {ref}, unheard \cup {ref})
          BY <5>1 DEF QueueOK, Reported
        <5>3. NotBegun(r, open \cup {ref})
          <6>1. Out(r) => Call(r).ref \in Own
            BY <5>1 DEF RefOf, Out
          <6> QED
            BY <3>2, <5>1, <6>1 DEF QueueOK, NotBegun
        <5> QED
          BY <5>1, <5>2, <5>3 DEF QueueOK
      <4> QED
        BY <1>3, <4>1, <4>2 DEF QInv
    <3> QED
      BY <1>2, <1>3, <2>1, <3>1, <3>3 DEF LiteInv
  <2>3. CASE AllocCd(r) # {}
    <3> DEFINE s == Decode(NewCall(r, 0, TRUE, ref), 0, m)
    <3>1. ~Call(r).used
      <4>1. PICK i \in AllocCd(r) : TRUE
        BY <2>3
      <4>2. r.active = ANY
        BY <4>1 DEF AllocCd
      <4>3. r.active = IF Call(r).used THEN 0 ELSE ANY
        BY <1>3 DEF Sane
      <4> QED
        BY <4>2, <4>3 DEF ANY
    <3>2. (CHOOSE i \in AllocCd(r) : TRUE) = 0
      BY <1>3, <3>1, AllocFirst
    <3>3. dl' = s /\ unheard' = unheard
      BY <2>1, <2>3, <3>2 DEF Becomes
    <3>4. /\ Sane(s) /\ Settled(s) /\ (Device(r) => Device(s)) /\ s.nt = r.nt
          /\ QInv(s, open \cup {ref}, unheard)
      BY <1>3, <1>4, <2>1, <3>1, ComesOutcome
    <3> HIDE DEF s
    <3> QED
      BY <1>2, <1>3, <2>1, <3>3, <3>4 DEF LiteInv
  <2> QED
    BY <2>2, <2>3
<1>5. CASE m.type # "SETUP"
  <2>1. PICK i \in Descs :
          /\ ref \in open /\ r.cd[i].used /\ r.cd[i].ref = ref /\ Becomes(Decode(r, i, m))
          /\ open' = IF m.type = "RELEASE_COMPLETE" THEN open \ {ref} ELSE open
    BY <1>5 DEF Says
  <2> HIDE DEF r
  <2>2. i = 0 /\ Call(r).used /\ Call(r).ref = ref
    BY <1>3, <2>1, OneCall DEF Call
  <2>3. dl' = Decode(r, 0, m) /\ unheard' = unheard
    BY <2>1, <2>2 DEF Becomes
  <2>4. CASE m.type = "RELEASE_COMPLETE"
    <3> DEFINE s == Decode(r, 0, m)
    <3>1. /\ Sane(s) /\ Settled(s) /\ (Device(r) => Device(s)) /\ s.nt = r.nt
          /\ QInv(s, open \ {Call(r).ref}, unheard)
      BY <1>3, <2>1, <2>2, <2>4, GoneOutcome
    <3> HIDE DEF s
    <3>2. dl' = s /\ open' = open \ {ref}
      BY <2>1, <2>3, <2>4 DEF s
    <3> QED
      BY <1>2, <1>3, <2>2, <2>3, <3>1, <3>2 DEF LiteInv
  <2>5. CASE m.type # "RELEASE_COMPLETE"
    <3>1. Outcome(r, Decode(r, 0, m))
      BY <1>3, <1>5, <2>2, <2>5, DecodeOutcome
    <3>2. Outcome(dl, dl')
      BY <1>1, <2>3, <3>1, OutcomeTwice
    <3> QED
      BY <1>2, <2>1, <2>3, <2>5, <3>2, StepKept DEF Says
  <2> QED
    BY <2>4, <2>5
<1> QED
  BY <1>4, <1>5

\* The peer gives up a call.
LEMMA ForgetsStep ==
  ASSUME LiteInv, NEW ref, PeerForgets(ref)
  PROVE  LiteInv'
<1>1. /\ dl' = dl /\ up' = up /\ said' = said /\ turned' = turned
      /\ open' = open \ {ref} /\ unheard' = unheard \ {ref}
  BY DEF PeerForgets
<1>2. QInv(dl, open, unheard)
  BY DEF LiteInv
<1>3. QInv(dl, open \ {ref}, unheard \ {ref})
  <2>1. (unheard \ {ref}) \cap Own = {}
    BY <1>2 DEF QInv
  <2>2. ASSUME ~dl.full PROVE QueueOK(dl, open \ {ref}, unheard \ {ref})
    <3>1. QueueOK(dl, open, unheard)
      BY <1>2, <2>2 DEF QInv
    <3>2. Reported(dl, open \ {ref}, unheard \ {ref})
      BY <3>1 DEF QueueOK, Reported
    <3>3. NotBegun(dl, open \ {ref})
      BY <3>1 DEF QueueOK, NotBegun
    <3> QED
      BY <3>1, <3>2, <3>3 DEF QueueOK
  <2> QED
    BY <1>2, <2>1, <2>2 DEF QInv
<1> QED
  BY <1>1, <1>3 DEF LiteInv

\* The peer takes a message from the queue.
LEMMA TakesStep ==
  ASSUME LiteInv, PeerTakes
  PROVE  LiteInv'
<1> DEFINE h == Head(dl.txq)
           s == [dl EXCEPT !.txq = Tail(dl.txq)]
<1>1. /\ Sane(dl) /\ Settled(dl) /\ (~turned => Device(dl)) /\ QInv(dl, open, unheard)
      /\ dl \in LiteRec /\ dl.txq \in Seq(Entry) /\ Len(dl.txq) < QueueMax
  BY Fields DEF LiteInv, Sane
<1>2. /\ dl.txq # <<>> /\ dl' = s /\ UNCHANGED <<up, said, turned>>
      /\ open' = (CASE h.type = "SETUP" -> open \cup {h.ref}
                    [] h.type = "RELEASE_COMPLETE" -> open \ {h.ref}
                    [] OTHER -> open)
      /\ unheard' = IF h.type = "RELEASE_COMPLETE" THEN unheard \ {h.ref} ELSE unheard
  BY DEF PeerTakes
<1>3. h \in Entry /\ Tail(dl.txq) \in Seq(Entry) /\ Len(Tail(dl.txq)) = Len(dl.txq) - 1
      /\ Len(dl.txq) \in Nat
  BY <1>1, <1>2
<1>4. /\ s \in LiteRec /\ s.cd = dl.cd /\ s.txq = Tail(dl.txq) /\ s.full = dl.full
      /\ s.next = dl.next /\ s.nt = dl.nt /\ s.ring = dl.ring /\ s.hook = dl.hook
      /\ s.active = dl.active /\ s.util = dl.util
  BY <1>1, <1>3 DEF LiteRec
<1> HIDE DEF s
<1>5. Call(s) = Call(dl)
  BY <1>4 DEF Call
<1>6. Len(s.txq) < QueueMax
  BY <1>1, <1>3, <1>4, Constants
<1>7. Sane(s)
  BY <1>1, <1>4, <1>5, <1>6 DEF Sane
<1>8. Settled(s) /\ (~turned => Device(s))
  BY <1>1, <1>4, <1>5 DEF Settled, Device
<1>9. QInv(s, open', unheard')
  BY <1>1, <1>2, <1>4, <1>5, TakenKeeps
<1>10. open' \subseteq Own \cup Theirs
  <2>1. open \subseteq Own \cup Theirs /\ h.ref \in Own \cup Theirs
    BY <1>3 DEF LiteInv, Entry
  <2> QED
    BY <1>2, <2>1
<1> QED
  BY <1>2, <1>4, <1>7, <1>8, <1>9, <1>10 DEF LiteInv

\* dss1_lite_l1_setup
LEMMA L1SetupStep ==
  ASSUME LiteInv, NEW on \in BOOLEAN, NEW nt \in Modes, L1Setup(on, nt)
  PROVE  LiteInv'
<1> DEFINE s == [dl EXCEPT !.txq = <<>>, !.full = FALSE, !.nt = nt]
<1>1. /\ Sane(dl) /\ Settled(dl) /\ (~turned => Device(dl)) /\ QInv(dl, open, unheard)
      /\ dl \in LiteRec /\ nt \in BOOLEAN /\ turned \in BOOLEAN /\ said \in 0 .. MaxSaid
  BY LiteAssumption DEF LiteInv, Sane
<1>2. /\ dl' = s /\ up' = on /\ turned' = (turned \/ (nt # dl.nt /\ dl.active # ANY))
      /\ open' = {} /\ unheard' = {} /\ said < MaxSaid /\ said' = said + 1
  BY DEF L1Setup
<1>3. /\ s \in LiteRec /\ s.cd = dl.cd /\ s.txq = <<>> /\ s.full = FALSE
      /\ s.next = dl.next /\ s.nt = nt /\ s.ring = dl.ring /\ s.hook = dl.hook
      /\ s.active = dl.active /\ s.util = dl.util
  <2>0. <<>> \in Seq(Entry) /\ FALSE \in BOOLEAN
    OBVIOUS
  <2>1. PICK q \in Seq(Entry), no \in BOOLEAN : q = <<>> /\ no = FALSE
    BY <2>0, Zenon
  <2>2. s = [dl EXCEPT !.txq = q, !.full = no, !.nt = nt]
    BY <2>1
  <2> HIDE DEF s
  <2>3. s \in LiteRec
    BY <1>1, <2>2 DEF LiteRec
  <2>4. /\ s.cd = dl.cd /\ s.txq = q /\ s.full = no
        /\ s.next = dl.next /\ s.nt = nt /\ s.ring = dl.ring /\ s.hook = dl.hook
        /\ s.active = dl.active /\ s.util = dl.util
    BY <1>1, <2>2 DEF LiteRec
  <2> QED
    BY <2>1, <2>3, <2>4
<1> HIDE DEF s
<1>4. Call(s) = Call(dl)
  BY <1>3 DEF Call
<1>5. Len(s.txq) < QueueMax
  BY <1>3, Constants
<1>6. Sane(s)
  BY <1>1, <1>3, <1>4, <1>5 DEF Sane
<1>7. Settled(s)
  BY <1>1, <1>4 DEF Settled
<1>8. ASSUME ~turned' PROVE Device(s)
  <2>1. ~turned /\ Device(dl) /\ (nt = dl.nt \/ ~Call(dl).used)
    BY <1>1, <1>2, <1>8, Constants DEF Sane
  <2> QED
    BY <1>3, <1>4, <2>1 DEF Device
<1>9. QInv(s, open', unheard')
  <2>1. DOMAIN s.txq = {}
    BY <1>3
  <2>2. RefOf(s)
    BY <1>1, <1>3, <1>4 DEF QInv, RefOf
  <2>3. QueueOK(s, {}, {})
    BY <2>1 DEF QueueOK, SetupsEnd, Reported, NotEnded, NotBegun, SetupBehind, Spaced
  <2> QED
    BY <1>2, <2>2, <2>3 DEF QInv
<1>10. said' \in 0 .. MaxSaid
  BY <1>1, <1>2, Constants
<1>11. turned' \in BOOLEAN
  BY <1>1, <1>2
<1> QED
  BY <1>2, <1>3, <1>6, <1>7, <1>8, <1>9, <1>10, <1>11 DEF LiteInv

\* The handset, the line and the time
LEMMA LocalStep ==
  ASSUME LiteInv, Lift \/ PutBack \/ Ring \/ RingEnds \/ Dtmf \/ LitePoll \/ CheckTimeout
  PROVE  LiteInv'
<1>1. Sane(dl) /\ Settled(dl) /\ said \in 0 .. MaxSaid
  BY DEF LiteInv
<1>2. UNCHANGED <<up, open, unheard, turned>> /\ said' = said
  BY DEF Lift, PutBack, Ring, RingEnds, Dtmf, LitePoll, CheckTimeout, Becomes
<1>3. SUFFICES Outcome(dl, dl')
  BY <1>1, <1>2, StepKept
<1>4. CASE Lift
  BY <1>1, <1>4, HookOffOutcome DEF Lift, Becomes
<1>5. CASE PutBack
  BY <1>1, <1>5, HookOnOutcome DEF PutBack, Becomes
<1>6. CASE Ring
  BY <1>1, <1>6, RingOnOutcome DEF Ring, Becomes
<1>7. CASE RingEnds
  BY <1>1, <1>7, HookOnOutcome DEF RingEnds, Becomes
<1>8. CASE Dtmf
  <2>1. dl' = Send(dl, dl.active, "INFORMATION") /\ dl.active # ANY
    BY <1>8 DEF Dtmf, Becomes
  <2>2. dl.active = 0 /\ Call(dl).used
    BY <1>1, <2>1 DEF Sane
  <2>3. Outcome(dl, Send(dl, 0, "INFORMATION"))
    BY <1>1, <2>2, SendOutcome
  <2> QED
    BY <2>1, <2>2, <2>3
<1>9. CASE LitePoll
  BY <1>9, LiftedAgainOutcome DEF LitePoll, Becomes
<1>10. CASE CheckTimeout
  <2>1. Call(dl).used /\ dl' = NextState(LiftedAgain, 0)
    BY <1>10 DEF CheckTimeout, Becomes, Call
  <2>2. LiftedAgain = dl
    BY <1>1, <2>1, Constants DEF LiftedAgain, Sane
  <2> QED
    BY <1>1, <2>1, <2>2, TimeoutOutcome
<1> QED
  BY <1>4, <1>5, <1>6, <1>7, <1>8, <1>9, <1>10

-----------------------------------------------------------------------------
(* The theorem *)

\* After the first dss1_lite_l1_setup there are no calls, and the queue is empty.
LEMMA LiteStarts ==
  ASSUME LiteInit
  PROVE  LiteInv
<1>1. PICK nt \in Modes :
        dl = [nt |-> nt, cd |-> [i \in Descs |-> NoCall], active |-> ANY, util |-> {},
              txq |-> <<>>, full |-> FALSE, next |-> 0, off |-> FALSE, ring |-> FALSE,
              hook |-> "on"]
  BY DEF LiteInit
<1>2. nt \in BOOLEAN
  BY LiteAssumption
<1>3. dl \in LiteRec
  BY <1>1, <1>2, NoCallType, Constants DEF LiteRec
<1>4. /\ Call(dl) = NoCall /\ \A i \in Descs : dl.cd[i] = NoCall
      /\ dl.active = ANY /\ dl.util = {} /\ dl.txq = <<>> /\ dl.nt = nt /\ ~dl.ring
      /\ dl.hook = "on"
  BY <1>1, Constants DEF Call
<1>5. ~NoCall.used /\ ~NoCall.alloc
  BY DEF NoCall
<1>6. Len(dl.txq) < QueueMax
  BY <1>4, Constants
<1>7. Sane(dl)
  BY <1>3, <1>4, <1>5, <1>6 DEF Sane
<1>8. Settled(dl) /\ Device(dl)
  BY <1>4, <1>5 DEF Settled, Device
<1>9. QInv(dl, {}, {})
  <2>1. DOMAIN dl.txq = {}
    BY <1>4
  <2>2. RefOf(dl)
    BY <1>4, <1>5 DEF RefOf
  <2>3. QueueOK(dl, {}, {})
    BY <2>1 DEF QueueOK, SetupsEnd, Reported, NotEnded, NotBegun, SetupBehind, Spaced
  <2> QED
    BY <2>2, <2>3 DEF QInv
<1>10. up = TRUE /\ open = {} /\ unheard = {} /\ said = 0 /\ turned = FALSE
  BY DEF LiteInit
<1>11. said \in 0 .. MaxSaid
  BY <1>10, Constants
<1>12. up \in BOOLEAN /\ turned \in BOOLEAN /\ open \subseteq Own \cup Theirs
       /\ QInv(dl, open, unheard) /\ dl.nt \in Modes
  BY <1>4, <1>9, <1>10
<1> QED
  BY <1>7, <1>8, <1>11, <1>12 DEF LiteInv

\* The invariant says what the property says.
LEMMA InvAccounts ==
  ASSUME LiteInv
  PROVE  LiteAccounted
<1>1. /\ Sane(dl) /\ Settled(dl) /\ (~turned => Device(dl)) /\ QInv(dl, open, unheard)
      /\ dl \in LiteRec /\ Call(dl) \in CallRec
  BY Fields DEF LiteInv, Sane
<1>2. LiteTypeOK
  <2>1. /\ dl.active \in Descs \cup {ANY} /\ dl.util \subseteq Chans /\ dl.full \in BOOLEAN
        /\ dl.next \in Own /\ dl.hook \in {"on", "off"} /\ dl.cd \in [Descs -> CallRec]
    BY <1>1, Fields
  <2>2. DOMAIN Rank = States
    BY DEF Rank, States
  <2>3. ASSUME NEW i \in Descs
        PROVE  /\ dl.cd[i].ref \in Own \cup Theirs /\ dl.cd[i].count \in 0 .. StatusMax
               /\ dl.cd[i].chan \in NOT_ANY .. NChan /\ dl.cd[i].st \in DOMAIN Rank
    BY <2>1, <2>2 DEF CallRec
  <2>4. Len(dl.txq) < QueueMax
    BY <1>1 DEF Sane
  <2> QED
    BY <2>1, <2>3, <2>4 DEF LiteTypeOK, LiteInv
<1>3. TimeoutCoversCalls
  <2> SUFFICES ASSUME NEW i \in Descs PROVE dl.cd[i].used <=> (i = 0 /\ dl.active = i)
    BY DEF TimeoutCoversCalls
  <2>1. CASE i = 0
    <3>1. dl.active = IF Call(dl).used THEN 0 ELSE ANY
      BY <1>1 DEF Sane
    <3>2. Call(dl).used \in BOOLEAN /\ Call(dl) = dl.cd[0]
      BY <1>1 DEF CallRec, Call
    <3> QED
      BY <2>1, <3>1, <3>2 DEF ANY
  <2>2. CASE i # 0
    <3>1. dl.cd[i] = NoCall
      BY <1>1, <2>2 DEF Sane
    <3> QED
      BY <2>2, <3>1 DEF NoCall
  <2> QED
    BY <2>1, <2>2
<1>4. NoOrphanCall
  <2> SUFFICES ASSUME ~dl.full, NEW ref \in open \ unheard
               PROVE  \/ \E i \in Descs : dl.cd[i].used /\ dl.cd[i].ref = ref
                      \/ \E k \in DOMAIN dl.txq :
                           dl.txq[k] = [type |-> "RELEASE_COMPLETE", ref |-> ref]
    BY DEF NoOrphanCall
  <2>1. Reported(dl, open, unheard)
    BY <1>1 DEF QInv, QueueOK
  <2>2. CASE Call(dl).used /\ Call(dl).ref = ref
    BY <2>2, Constants DEF Call
  <2>3. ASSUME NEW l \in DOMAIN dl.txq, EndAt(dl, l, ref)
        PROVE  dl.txq[l] = [type |-> "RELEASE_COMPLETE", ref |-> ref]
    <3>1. dl.txq \in Seq(Entry)
      BY <1>1, Fields
    <3>2. dl.txq[l] \in Entry
      BY <2>3, <3>1
    <3> QED
      BY <2>3, <3>2 DEF EndAt, Entry
  <2> QED
    BY <2>1, <2>2, <2>3 DEF Reported
<1>5. ChannelsAccounted
  <2> DEFINE J == {j \in Descs : dl.cd[j].alloc}
  <2>1. J = IF Call(dl).alloc THEN {0} ELSE {}
    <3>1. \A j \in Descs : j # 0 => dl.cd[j] = NoCall
      BY <1>1 DEF Sane
    <3>2. ~NoCall.alloc
      BY DEF NoCall
    <3>3. \A j \in Descs : j # 0 => ~dl.cd[j].alloc
      BY <3>1, <3>2
    <3>4. 0 \in Descs /\ Call(dl) = dl.cd[0]
      BY Constants DEF Call
    <3>5. CASE Call(dl).alloc
      BY <3>3, <3>4, <3>5
    <3>6. CASE ~Call(dl).alloc
      BY <3>3, <3>4, <3>6
    <3> QED
      BY <3>5, <3>6
  <2>2. {dl.cd[i].chan : i \in J} = IF Call(dl).alloc THEN {Call(dl).chan} ELSE {}
    BY <2>1 DEF Call
  <2>3. dl.util = {dl.cd[i].chan : i \in J} \ {NOT_ANY}
    BY <1>1, <2>2 DEF Sane
  <2>4. ASSUME NEW i \in Descs, dl.cd[i].used, dl.cd[i].st \in {"U8", "UA"}
        PROVE  dl.cd[i].alloc
    <3>1. i = 0 /\ Call(dl).used
      BY <1>1, <2>4, OneCall
    <3> QED
      BY <1>1, <2>4, <3>1 DEF Settled, Call, CallRec
  <2> QED
    BY <2>3, <2>4 DEF ChannelsAccounted
<1>6. DeviceFollowsCall
  <2>1. ASSUME dl.active = ANY, ~turned PROVE ~dl.ring /\ dl.hook = "on"
    <3>1. ~Call(dl).used
      BY <1>1, <2>1, Constants DEF Sane
    <3> QED
      BY <1>1, <2>1, <3>1 DEF Device
  <2>2. ASSUME dl.ring, ~turned
        PROVE  dl.cd[dl.active].in /\ dl.cd[dl.active].st \notin {"U8", "UA"}
    <3>1. Call(dl).used /\ Call(dl).in /\ Call(dl).st \notin {"U8", "UA"}
      BY <1>1, <2>2 DEF Device
    <3>2. dl.active = 0
      BY <1>1, <3>1 DEF Sane
    <3> QED
      BY <3>1, <3>2 DEF Call
  <2> QED
    BY <2>1, <2>2 DEF DeviceFollowsCall
<1> QED
  BY <1>2, <1>3, <1>4, <1>5, <1>6 DEF LiteAccounted

\* However a call of the telephone interface ends (dss1_lite_set_state), what it used is
\* accounted for: there is one call at most and its time is watched, its channel is
\* marked, the telephone and the line follow it, and the peer is told of its end unless
\* the queue is full.
THEOREM LiteAlwaysAccounted == LiteSpec => []LiteAccounted
<1>1. LiteInit => LiteInv
  BY LiteStarts
<1>2. LiteInv /\ [LiteNext]_liteVars => LiteInv'
  <2> SUFFICES ASSUME LiteInv, [LiteNext]_liteVars PROVE LiteInv'
    OBVIOUS
  <2>1. CASE Lift \/ PutBack \/ Ring \/ RingEnds \/ Dtmf \/ LitePoll \/ CheckTimeout
    BY <2>1, LocalStep
  <2>2. CASE PeerTakes
    BY <2>2, TakesStep
  <2>3. ASSUME NEW m \in LiteMessages, NEW ref \in Own \cup Theirs, Says(m, ref)
        PROVE  LiteInv'
    BY <2>3, SaysStep
  <2>4. ASSUME NEW ref \in Own \cup Theirs, PeerForgets(ref)
        PROVE  LiteInv'
    BY <2>4, ForgetsStep
  <2>5. ASSUME NEW on \in BOOLEAN, NEW nt \in Modes, L1Setup(on, nt)
        PROVE  LiteInv'
    BY <2>5, L1SetupStep
  <2>6. CASE UNCHANGED liteVars
    BY <2>6 DEF liteVars, LiteInv
  <2> QED
    BY <2>1, <2>2, <2>3, <2>4, <2>5, <2>6 DEF LiteNext
<1>3. LiteInv => LiteAccounted
  BY InvAccounts
<1> QED
  BY <1>1, <1>2, <1>3, PTL DEF LiteSpec

=============================================================================
