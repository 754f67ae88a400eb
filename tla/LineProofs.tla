----------------------------- MODULE LineProofs -----------------------------
(***************************************************************************)
(* Proofs about the lines. LineInterconnect: for every number of calls,    *)
(* controllers and cables and every size of a cable. Dss1Link: for every   *)
(* modulus of the frame numbers, every length of the queue and any number  *)
(* of frames on the line. PhLine: for each kind of chip and every number   *)
(* of references to the line.                                              *)
(***************************************************************************)
EXTENDS LineInterconnect, Dss1Link, PhLine, WellFoundedInduction, TLAPS

\* The time that the provers may take for a step
USE ZenonT(3), SMTT(20), ZenonT(60)

-----------------------------------------------------------------------------
(* The interconnect (LineInterconnect): slots, each call, two calls *)

SlotTypes ==
  /\ slot_end \in [Cables -> SlotEnds \cup {0}] /\ bitmap \in [Cables -> SUBSET Nat]
  /\ moved \subseteq Cables /\ li \in [Parties -> Slots \cup {NoSlot}]

\* A bit is set exactly for the slot a call receives from; no two calls receive from one
\* slot; and unless the cable was resized a call sends in the other slot of the pair.
SlotBits ==
  \A k \in Cables : \A s \in Nat :
    s \in bitmap[k] <=> \E c \in Parties : li[c] # NoSlot /\ li[c].cable = k /\ li[c].rx = s

SlotsApart ==
  \A c, d \in Parties :
    c # d /\ li[c] # NoSlot /\ li[d] # NoSlot /\ li[c].cable = li[d].cable
      => li[c].rx # li[d].rx

SlotsFace ==
  \A c \in Parties :
    li[c] # NoSlot /\ li[c].cable \notin moved
      => li[c].tx < 2 * Half(li[c].cable) /\ li[c].rx = Peer(li[c].cable, li[c].tx)

SlotInv == SlotTypes /\ SlotBits /\ SlotsApart /\ SlotsFace

\* d is a call, s its slot, and it is pending when a handler will link it next.
CallOK(d, s, pending) ==
  /\ d.linked # "no" => d.linked = d.copy /\ d.want /\ d.chan = "real" /\ d.used
  /\ d.linked = "bridge" /\ ~pending => d.fifo = s /\ s # NoSlot
  /\ ~d.used => s = NoSlot /\ d.peer = NoParty
  /\ s # NoSlot => d.peer # NoParty
  /\ pending => d.used

CallTypes ==
  /\ cds \in [Parties -> Descriptors]
  /\ halves \subseteq [op : {"connect", "disconnect"}, c : Parties, d : Parties]
  /\ todo \in [Controllers -> Parties \cup {NoParty}]
  /\ asked \in 0 .. MaxAsked /\ ops \in OpSets
  /\ \A n \in Controllers : todo[n] # NoParty => Home[todo[n]] = n

CallInv == CallTypes /\ \A c \in Parties : CallOK(cds[c], li[c], todo[Home[c]] = c)

CrossInv ==
  \A c, d \in Parties :
    /\ c # d /\ li[c] # NoSlot /\ li[d] # NoSlot /\ li[c].cable \notin moved
    /\ cds[c].peer = d /\ cds[d].peer = c
    => li[c].cable = li[d].cable /\ li[c].tx = li[d].rx /\ li[c].rx = li[d].tx

LineInv == SlotInv /\ CallInv /\ CrossInv

-----------------------------------------------------------------------------
(* Slots *)

\* Half the slots of a cable is a natural number.
LEMMA HalfNat ==
  ASSUME SlotTypes, NEW k \in Cables
  PROVE Half(k) \in Nat
<1>1. SlotEnds \subseteq Nat
  BY LineAssumption
<1>2. slot_end[k] \in SlotEnds \cup {0}
  BY DEF SlotTypes
<1>3. slot_end[k] \in SlotEnds => slot_end[k] \in Nat
  BY <1>1, Zenon
<1>4. slot_end[k] \in Nat
  BY <1>2, <1>3
<1> QED BY <1>4 DEF Half

\* The peer of the peer is the slot itself.
LEMMA PeerTwice ==
  ASSUME SlotTypes, NEW k \in Cables, NEW s \in Nat
  PROVE /\ Peer(k, s) \in Nat
        /\ s < 2 * Half(k) => Peer(k, s) < 2 * Half(k) /\ Peer(k, Peer(k, s)) = s
BY HalfNat DEF Peer

\* What i4b_slot_li_alloc finds: nothing, or a slot whose bit is not set, and next to
\* the other end if that has a slot.
LEMMA SlotForFacts ==
  ASSUME SlotInv, NEW c \in Parties, NEW d \in Parties, NEW s \in SlotFor(c, d), s # NoSlot
  PROVE /\ s \in Slots /\ s.rx \notin bitmap[s.cable] /\ s.rx = Peer(s.cable, s.tx)
        /\ li[d] # NoSlot => s.cable = li[d].cable /\ s.tx = li[d].rx
        /\ s.cable \notin moved => s.tx < 2 * Half(s.cable)
<1>1. CASE li[d] # NoSlot
  <2>1. li[d] \in Slots
    BY <1>1 DEF SlotInv, SlotTypes
  <2>2. s \in SlotsOn(li[d].cable, li[d].rx)
    BY <1>1 DEF SlotFor
  <2>3. li[d].cable \in Cables /\ li[d].rx \in Nat /\ li[d].tx \in Nat
    BY <2>1 DEF Slots
  <2>4. /\ s = Slot(li[d].cable, Peer(li[d].cable, li[d].rx), li[d].rx)
        /\ Peer(li[d].cable, li[d].rx) \notin bitmap[li[d].cable]
    BY <2>2 DEF SlotsOn
  <2>5. Peer(li[d].cable, li[d].rx) \in Nat
    BY <2>3, PeerTwice DEF SlotInv
  <2>6. s.cable = li[d].cable /\ s.rx = Peer(li[d].cable, li[d].rx) /\ s.tx = li[d].rx
    BY <2>4 DEF Slot
  <2>7. s \in Slots
    BY <2>4, <2>3, <2>5 DEF Slot, Slots
  <2>8. ASSUME s.cable \notin moved PROVE s.tx < 2 * Half(s.cable)
    <3>1. li[d].tx < 2 * Half(li[d].cable) /\ li[d].rx = Peer(li[d].cable, li[d].tx)
      BY <2>8, <2>6, <1>1 DEF SlotInv, SlotsFace
    <3> QED BY <3>1, <2>3, <2>6, PeerTwice DEF SlotInv
  <2> QED BY <2>4, <2>6, <2>7, <2>8
<1>2. CASE li[d] = NoSlot
  <2>1. s \in FreshSlots(c, d)
    BY <1>2 DEF SlotFor
  <2>2. PICK k \in Cables, y \in UNION {Found(j) : j \in Cables} : s \in SlotsOn(k, y)
    BY <2>1 DEF FreshSlots
  <2>3. s.tx \in Found(s.cable)
    BY <2>1 DEF FreshSlots
  <2>4. s = Slot(k, Peer(k, y), y) /\ Peer(k, y) \notin bitmap[k]
    BY <2>2 DEF SlotsOn
  <2>5. s.cable = k /\ s.rx = Peer(k, y) /\ s.tx = y
    BY <2>4 DEF Slot
  <2>6. y \in 0 .. Half(k) - 1 /\ Half(k) \in Nat
    BY <2>3, <2>5, HalfNat DEF Found, SlotInv
  <2>7. y \in Nat /\ y < 2 * Half(k)
    BY <2>6
  <2>8. s \in Slots
    BY <2>4, <2>7, PeerTwice DEF Slot, Slots, SlotInv
  <2> QED BY <1>2, <2>4, <2>5, <2>7, <2>8
<1> QED BY <1>1, <1>2

\* Nothing about the slots changes.
LEMMA KeepKeeps ==
  ASSUME SlotInv, KeepSlots, UNCHANGED <<slot_end, moved>>
  PROVE SlotInv'
<1>1. li' = li /\ bitmap' = bitmap /\ slot_end' = slot_end /\ moved' = moved
  BY DEF KeepSlots
<1>2. SlotTypes'
  BY <1>1 DEF SlotInv, SlotTypes
<1>3. SlotBits'
  BY <1>1 DEF SlotInv, SlotBits
<1>4. SlotsApart'
  BY <1>1 DEF SlotInv, SlotsApart
<1>5. SlotsFace'
  BY <1>1 DEF SlotInv, SlotsFace, Half, Peer
<1> QED
  BY <1>2, <1>3, <1>4, <1>5 DEF SlotInv

\* A slot that is found keeps the account, and faces the slot of the other end.
LEMMA AllocKeeps ==
  ASSUME SlotInv, NEW c \in Parties, NEW d \in Parties, li[c] = NoSlot, Alloc(c, d),
         UNCHANGED <<slot_end, moved>>
  PROVE /\ SlotInv'
        /\ \A e \in Parties : e # c => li'[e] = li[e]
        /\ li'[c] # NoSlot /\ li[d] # NoSlot
             => /\ li'[c].cable = li[d].cable
                /\ li'[c].cable \notin moved => li'[c].tx = li[d].rx /\ li'[c].rx = li[d].tx
<1>1. PICK s \in SlotFor(c, d) :
        /\ li' = [li EXCEPT ![c] = s]
        /\ bitmap' = IF s = NoSlot THEN bitmap ELSE [bitmap EXCEPT ![s.cable] = @ \cup {s.rx}]
  BY DEF Alloc
<1>2. CASE s = NoSlot
  <2>1. li' = li /\ bitmap' = bitmap
    BY <1>1, <1>2 DEF SlotInv, SlotTypes
  <2>2. SlotInv'
    BY <2>1, KeepKeeps DEF KeepSlots
  <2>3. li'[c] = NoSlot
    BY <1>1, <1>2, <2>1
  <2> QED
    BY <2>1, <2>2, <2>3
<1>3. CASE s # NoSlot
  <2>1. /\ s \in Slots /\ s.rx \notin bitmap[s.cable] /\ s.rx = Peer(s.cable, s.tx)
        /\ li[d] # NoSlot => s.cable = li[d].cable /\ s.tx = li[d].rx
        /\ s.cable \notin moved => s.tx < 2 * Half(s.cable)
    BY <1>3, SlotForFacts
  <2>2. s.cable \in Cables /\ s.rx \in Nat /\ s.tx \in Nat
    BY <2>1 DEF Slots
  <2>3. /\ li' = [li EXCEPT ![c] = s] /\ li'[c] = s
        /\ \A e \in Parties : e # c => li'[e] = li[e]
    BY <1>1 DEF SlotInv, SlotTypes
  <2>4. bitmap' = [bitmap EXCEPT ![s.cable] = @ \cup {s.rx}]
    BY <1>1, <1>3
  <2>5. \A k \in Cables : Half(k)' = Half(k) /\ \A t \in Nat : Peer(k, t)' = Peer(k, t)
    BY DEF Half, Peer
  <2>6. SlotTypes'
    BY <2>1, <2>2, <2>3, <2>4 DEF SlotInv, SlotTypes
  <2>7. \A k \in Cables : \A t \in Nat :
          t \in bitmap'[k] <=> \E e \in Parties : li'[e] # NoSlot /\ li'[e].cable = k /\ li'[e].rx = t
    <3> SUFFICES ASSUME NEW k \in Cables, NEW t \in Nat
                 PROVE t \in bitmap'[k]
                         <=> \E e \in Parties : li'[e] # NoSlot /\ li'[e].cable = k /\ li'[e].rx = t
      OBVIOUS
    <3>1. t \in bitmap'[k] <=> t \in bitmap[k] \/ (k = s.cable /\ t = s.rx)
      BY <2>2, <2>4 DEF SlotInv, SlotTypes
    <3>2. t \in bitmap[k] <=> \E e \in Parties : li[e] # NoSlot /\ li[e].cable = k /\ li[e].rx = t
      BY DEF SlotInv, SlotBits
    <3> QED BY <3>1, <3>2, <2>3, <1>3
  <2>8. \A e \in Parties :
          li[e] # NoSlot /\ li[e].cable = s.cable => li[e].rx # s.rx
    BY <2>1, <2>2 DEF SlotInv, SlotBits
  <2>9. \A e, f \in Parties :
          e # f /\ li'[e] # NoSlot /\ li'[f] # NoSlot /\ li'[e].cable = li'[f].cable
            => li'[e].rx # li'[f].rx
    BY <2>3, <2>8 DEF SlotInv, SlotsApart
  <2>10. \A e \in Parties :
           li'[e] # NoSlot /\ li'[e].cable \notin moved
             => li'[e].tx < 2 * Half(li'[e].cable) /\ li'[e].rx = Peer(li'[e].cable, li'[e].tx)
    <3> SUFFICES ASSUME NEW e \in Parties, li'[e] # NoSlot, li'[e].cable \notin moved
                 PROVE li'[e].tx < 2 * Half(li'[e].cable) /\ li'[e].rx = Peer(li'[e].cable, li'[e].tx)
      OBVIOUS
    <3>1. CASE e = c
      BY <3>1, <2>3, <2>1
    <3>2. CASE e # c
      BY <3>2, <2>3 DEF SlotInv, SlotsFace
    <3> QED BY <3>1, <3>2
  <2>11. SlotInv'
    BY <2>6, <2>7, <2>9, <2>10 DEF SlotInv, SlotBits, SlotsApart, SlotsFace, Half, Peer
  <2>12. ASSUME li[d] # NoSlot, s.cable \notin moved
         PROVE s.cable = li[d].cable /\ s.tx = li[d].rx /\ s.rx = li[d].tx
    <3>1. li[d] \in Slots
      BY <2>12 DEF SlotInv, SlotTypes
    <3>2. li[d].cable \in Cables /\ li[d].rx \in Nat /\ li[d].tx \in Nat
      BY <3>1 DEF Slots
    <3>3. li[d].tx < 2 * Half(li[d].cable) /\ li[d].rx = Peer(li[d].cable, li[d].tx)
      BY <2>12, <2>1 DEF SlotInv, SlotsFace
    <3>4. Peer(li[d].cable, li[d].rx) = li[d].tx
      BY <3>2, <3>3, PeerTwice DEF SlotInv
    <3> QED BY <3>4, <2>1, <2>12
  <2> QED BY <2>1, <2>3, <2>11, <2>12
<1> QED BY <1>2, <1>3

\* A slot that is given back keeps the account.
LEMMA FreeKeeps ==
  ASSUME SlotInv, NEW c \in Parties, Free(c), UNCHANGED <<slot_end, moved>>
  PROVE /\ SlotInv'
        /\ li'[c] = NoSlot
        /\ \A e \in Parties : e # c => li'[e] = li[e]
<1>1. /\ li' = [li EXCEPT ![c] = NoSlot] /\ li'[c] = NoSlot
      /\ \A e \in Parties : e # c => li'[e] = li[e]
  BY DEF Free, SlotInv, SlotTypes
<1>2. \A k \in Cables : \A t \in Nat :
        t \in bitmap'[k] <=> t \in bitmap[k] /\ ~(li[c] # NoSlot /\ k = li[c].cable /\ t = li[c].rx)
  <2>1. CASE li[c] = NoSlot
    BY <2>1 DEF Free
  <2>2. CASE li[c] # NoSlot
    <3>1. bitmap' = [bitmap EXCEPT ![li[c].cable] = @ \ {li[c].rx}]
      BY <2>2 DEF Free
    <3> QED BY <2>2, <3>1 DEF SlotInv, SlotTypes
  <2> QED BY <2>1, <2>2
<1>3. SlotTypes'
  <2>1. bitmap' \in [Cables -> SUBSET Nat]
    BY DEF Free, SlotInv, SlotTypes, Slots
  <2> QED BY <1>1, <2>1 DEF SlotInv, SlotTypes
<1>4. \A k \in Cables : \A t \in Nat :
        t \in bitmap'[k] <=> \E e \in Parties : li'[e] # NoSlot /\ li'[e].cable = k /\ li'[e].rx = t
  <2> TAKE k \in Cables
  <2> TAKE t \in Nat
  <2>1. t \in bitmap'[k]
          <=> t \in bitmap[k] /\ ~(li[c] # NoSlot /\ k = li[c].cable /\ t = li[c].rx)
    BY <1>2
  <2>2. t \in bitmap[k] <=> \E e \in Parties : li[e] # NoSlot /\ li[e].cable = k /\ li[e].rx = t
    BY DEF SlotInv, SlotBits
  <2>3. ASSUME t \in bitmap'[k]
        PROVE  \E e \in Parties : li'[e] # NoSlot /\ li'[e].cable = k /\ li'[e].rx = t
    <3>1. PICK e \in Parties : li[e] # NoSlot /\ li[e].cable = k /\ li[e].rx = t
      BY <2>1, <2>2, <2>3
    <3>2. e # c
      BY <2>1, <2>3, <3>1
    <3> QED
      BY <1>1, <3>1, <3>2
  <2>4. ASSUME NEW e \in Parties, li'[e] # NoSlot /\ li'[e].cable = k /\ li'[e].rx = t
        PROVE  t \in bitmap'[k]
    <3>1. e # c /\ li[e] # NoSlot /\ li[e].cable = k /\ li[e].rx = t
      BY <1>1, <2>4
    <3>2. ~(li[c] # NoSlot /\ k = li[c].cable /\ t = li[c].rx)
      BY <3>1 DEF SlotInv, SlotsApart
    <3> QED
      BY <2>1, <2>2, <3>1, <3>2
  <2> QED
    BY <2>3, <2>4
<1>5. \A e \in Parties :
        li'[e] # NoSlot /\ li'[e].cable \notin moved
          => li'[e].tx < 2 * Half(li'[e].cable) /\ li'[e].rx = Peer(li'[e].cable, li'[e].tx)
  BY <1>1 DEF SlotInv, SlotsFace
<1>6. \A e, f \in Parties :
        e # f /\ li'[e] # NoSlot /\ li'[f] # NoSlot /\ li'[e].cable = li'[f].cable
          => li'[e].rx # li'[f].rx
  BY <1>1 DEF SlotInv, SlotsApart
<1>7. SlotBits' /\ SlotsApart'
  BY <1>4, <1>6 DEF SlotBits, SlotsApart
<1>8. SlotsFace'
  BY <1>5 DEF SlotsFace, Half, Peer
<1> QED BY <1>1, <1>3, <1>7, <1>8 DEF SlotInv

-----------------------------------------------------------------------------
(* Calls *)

\* i4b_link_bchandrvr(cd, 0) leaves no driver linked.
LEMMA UnlinkFacts ==
  ASSUME NEW d \in Descriptors, d.linked # "no" => d.linked = d.copy /\ d.chan = "real"
  PROVE /\ Unlink(d) \in Descriptors /\ Unlink(d).linked = "no" /\ Unlink(d).want = FALSE
        /\ Unlink(d).used = d.used /\ Unlink(d).peer = d.peer /\ Unlink(d).chan = d.chan
        /\ Unlink(d).hold = d.hold /\ Unlink(d).drv = d.drv /\ Unlink(d).copy = d.copy
BY DEF Unlink, Descriptors

\* i4b_link_bchandrvr(cd, 1) links the driver of the copy, and the bridge only to a slot.
LEMMA LinkFacts ==
  ASSUME NEW d \in Descriptors, d.linked # "no" => d.linked = d.copy /\ d.chan = "real",
         NEW s \in Slots \cup {NoSlot}, NEW able
  PROVE LET x == LinkTo(d, s, able) IN
        /\ x \in Descriptors /\ x.used = d.used /\ x.peer = d.peer
        /\ x.linked # "no" => x.linked = x.copy /\ x.want /\ x.chan = "real"
        /\ x.linked = "bridge" => x.fifo = s /\ s # NoSlot
<1> DEFINE u == [Unlink(d) EXCEPT !.copy = d.drv, !.want = TRUE]
<1>1. /\ u \in Descriptors /\ u.linked = "no" /\ u.want = TRUE /\ u.copy = u.drv
      /\ u.used = d.used /\ u.peer = d.peer
  BY ZenonT(60), UnlinkFacts DEF Descriptors
<1>2. LinkTo(d, s, able) =
        IF able /\ u.chan = "real" /\ u.linked = "no" /\ (u.drv = "bridge" => s # NoSlot)
        THEN [u EXCEPT !.linked = u.drv, !.fifo = IF u.drv = "bridge" THEN s ELSE NoSlot]
        ELSE u
  BY DEF LinkTo
<1> DEFINE fits == able /\ u.chan = "real" /\ u.linked = "no" /\ (u.drv = "bridge" => s # NoSlot)
           f == IF u.drv = "bridge" THEN s ELSE NoSlot
           v == [u EXCEPT !.linked = u.drv, !.fifo = f]
<1> HIDE DEF u
<1>3. CASE fits
  <2>1. LinkTo(d, s, able) = v
    BY <1>2, <1>3
  <2>2. f \in Slots \cup {NoSlot}
    OBVIOUS
  <2> HIDE DEF f
  <2>3. /\ v \in Descriptors /\ v.used = u.used /\ v.peer = u.peer /\ v.linked = u.drv
        /\ v.copy = u.copy /\ v.want = u.want /\ v.chan = u.chan /\ v.fifo = f
    BY ZenonT(60), <1>1, <2>2 DEF Descriptors
  <2> HIDE DEF v
  <2> QED BY <1>1, <1>3, <2>1, <2>3 DEF f
<1>4. CASE ~fits
  BY <1>1, <1>2, <1>4
<1> QED BY <1>3, <1>4

\* A handler changes one call and its own lock.
LEMMA CallStep ==
  ASSUME CallInv, NEW c \in Parties, NEW x \in Descriptors, cds' = [cds EXCEPT ![c] = x],
         \A e \in Parties : e # c => li'[e] = li[e],
         NEW q \in {c, NoParty}, todo' = [todo EXCEPT ![Home[c]] = q],
         todo[Home[c]] \in {c, NoParty},
         halves' \subseteq [op : {"connect", "disconnect"}, c : Parties, d : Parties],
         asked' \in 0 .. MaxAsked, ops' = ops,
         CallOK(x, li'[c], q = c)
  PROVE CallInv' /\ cds'[c] = x /\ \A e \in Parties : e # c => cds'[e] = cds[e]
<1>0. Home \in [Parties -> Controllers] /\ NoParty \notin Parties
  BY LineAssumption
<1>1. cds'[c] = x /\ \A e \in Parties : e # c => cds'[e] = cds[e]
  BY DEF CallInv, CallTypes
<1>2. todo'[Home[c]] = q /\ \A n \in Controllers : n # Home[c] => todo'[n] = todo[n]
  BY <1>0 DEF CallInv, CallTypes
<1>3. CallTypes'
  <2>1. cds' \in [Parties -> Descriptors]
    BY DEF CallInv, CallTypes
  <2>2. todo' \in [Controllers -> Parties \cup {NoParty}]
    BY DEF CallInv, CallTypes
  <2>3. \A n \in Controllers : todo'[n] # NoParty => Home[todo'[n]] = n
    BY <1>0, <1>2 DEF CallInv, CallTypes
  <2> QED BY <2>1, <2>2, <2>3 DEF CallInv, CallTypes
<1>4. ASSUME NEW e \in Parties PROVE CallOK(cds'[e], li'[e], todo'[Home[e]] = e)
  <2>1. CASE e = c
    BY <2>1, <1>1, <1>2
  <2>2. CASE e # c
    <3>1. (todo'[Home[e]] = e) <=> (todo[Home[e]] = e)
      BY <2>2, <1>0, <1>2
    <3>2. cds'[e] = cds[e] /\ li'[e] = li[e]
      BY <2>2, <1>1
    <3>3. CallOK(cds[e], li[e], todo[Home[e]] = e)
      BY DEF CallInv
    <3> QED BY <3>1, <3>2, <3>3 DEF CallOK
  <2> QED BY <2>1, <2>2
<1>5. CallInv'
  BY <1>3, <1>4 DEF CallInv
<1> QED BY <1>1, <1>5

\* Two calls still face each other if c does.
LEMMA CrossStep ==
  ASSUME CrossInv, NEW c \in Parties, moved' = moved,
         \A e \in Parties : e # c => li'[e] = li[e] /\ cds'[e].peer = cds[e].peer,
         \A d \in Parties :
           /\ d # c /\ li'[c] # NoSlot /\ li[d] # NoSlot /\ cds'[c].peer = d /\ cds[d].peer = c
           /\ li'[c].cable \notin moved \/ li[d].cable \notin moved
           => li'[c].cable = li[d].cable /\ li'[c].tx = li[d].rx /\ li'[c].rx = li[d].tx
  PROVE CrossInv'
<1> SUFFICES ASSUME NEW e \in Parties, NEW f \in Parties, e # f, li'[e] # NoSlot, li'[f] # NoSlot,
                    li'[e].cable \notin moved, cds'[e].peer = f, cds'[f].peer = e
             PROVE li'[e].cable = li'[f].cable /\ li'[e].tx = li'[f].rx /\ li'[e].rx = li'[f].tx
  BY DEF CrossInv
<1>1. CASE e = c
  BY <1>1
<1>2. CASE f = c
  BY <1>2
<1>3. CASE e # c /\ f # c
  BY <1>3 DEF CrossInv
<1> QED BY <1>1, <1>2, <1>3

-----------------------------------------------------------------------------
(* Handlers *)

\* What a handler finds that has the lock of the controller
LEMMA CallFacts ==
  ASSUME LineInv, NEW c \in Parties, Ready(c)
  PROVE /\ cds[c] \in Descriptors /\ CallOK(cds[c], li[c], FALSE)
        /\ todo = [todo EXCEPT ![Home[c]] = NoParty] /\ todo[Home[c]] = NoParty
        /\ li[c] \in Slots \cup {NoSlot} /\ Home[c] \in Controllers /\ c # NoParty
<1>0. Home \in [Parties -> Controllers] /\ NoParty \notin Parties
  BY LineAssumption
<1>1. todo[Home[c]] = NoParty
  BY DEF Ready
<1>2. CallOK(cds[c], li[c], todo[Home[c]] = c)
  BY DEF LineInv, CallInv
<1>3. CallOK(cds[c], li[c], FALSE)
  BY <1>0, <1>1, <1>2 DEF CallOK
<1> QED BY ZenonT(60), <1>0, <1>1, <1>3 DEF LineInv, CallInv, CallTypes, SlotInv, SlotTypes

\* A handler that leaves the slots alone, and the peer of a call that has one
LEMMA QuietStep ==
  ASSUME LineInv, NEW c \in Parties, Ready(c), NEW x \in Descriptors,
         cds' = [cds EXCEPT ![c] = x], x.peer = cds[c].peer \/ li[c] = NoSlot,
         NEW q \in {c, NoParty}, todo' = [todo EXCEPT ![Home[c]] = q],
         CallOK(x, li[c], q = c), KeepSlots, UNCHANGED <<slot_end, moved, ops>>,
         halves' \subseteq [op : {"connect", "disconnect"}, c : Parties, d : Parties],
         asked' \in 0 .. MaxAsked
  PROVE LineInv'
<1>1. li' = li /\ moved' = moved /\ SlotInv'
  BY KeepKeeps DEF KeepSlots, LineInv
<1>2. CallOK(x, li'[c], q = c)
  BY <1>1
<1>3. CallInv' /\ cds'[c] = x /\ \A e \in Parties : e # c => cds'[e] = cds[e]
  <2>1. todo[Home[c]] \in {c, NoParty}
    BY CallFacts
  <2>2. CallInv
    BY DEF LineInv
  <2> QED BY <1>1, <1>2, <2>1, <2>2, CallStep
<1>4. CrossInv'
  <2>1. CASE li[c] = NoSlot
    BY <1>1, <1>3, <2>1, CrossStep DEF LineInv
  <2>2. CASE x.peer = cds[c].peer
    BY <1>1, <1>3, <2>2 DEF LineInv, CrossInv
  <2> QED BY <2>1, <2>2
<1> QED BY <1>1, <1>3, <1>4 DEF LineInv

\* A handler that gives the slot of the call back
LEMMA FreeStep ==
  ASSUME LineInv, NEW c \in Parties, Ready(c), NEW x \in Descriptors,
         cds' = [cds EXCEPT ![c] = x], NEW q \in {c, NoParty},
         todo' = [todo EXCEPT ![Home[c]] = q], CallOK(x, NoSlot, q = c), Free(c),
         UNCHANGED <<slot_end, moved, ops>>,
         halves' \subseteq [op : {"connect", "disconnect"}, c : Parties, d : Parties],
         asked' \in 0 .. MaxAsked
  PROVE LineInv'
<1>1. SlotInv' /\ li'[c] = NoSlot /\ \A e \in Parties : e # c => li'[e] = li[e]
  BY FreeKeeps DEF LineInv
<1>2. CallInv' /\ cds'[c] = x /\ \A e \in Parties : e # c => cds'[e] = cds[e]
  <2>1. todo[Home[c]] \in {c, NoParty}
    BY CallFacts
  <2>2. CallInv
    BY DEF LineInv
  <2> QED BY <1>1, <2>1, <2>2, CallStep
<1>3. CrossInv'
  BY <1>1, <1>2, CrossStep DEF LineInv
<1> QED BY <1>1, <1>2, <1>3 DEF LineInv

\* A handler that looks for a slot next to the peer
LEMMA AllocStep ==
  ASSUME LineInv, NEW c \in Parties, NEW d \in Parties, Ready(c), NEW x \in Descriptors,
         cds' = [cds EXCEPT ![c] = x], x.peer = d, NEW q \in {c, NoParty},
         todo' = [todo EXCEPT ![Home[c]] = q], CallOK(x, li'[c], q = c),
         li[c] = NoSlot, Alloc(c, d), UNCHANGED <<slot_end, moved, ops>>,
         halves' \subseteq [op : {"connect", "disconnect"}, c : Parties, d : Parties],
         asked' \in 0 .. MaxAsked
  PROVE LineInv'
<1>1. /\ SlotInv' /\ \A e \in Parties : e # c => li'[e] = li[e]
      /\ li'[c] # NoSlot /\ li[d] # NoSlot
           => /\ li'[c].cable = li[d].cable
              /\ li'[c].cable \notin moved => li'[c].tx = li[d].rx /\ li'[c].rx = li[d].tx
  BY AllocKeeps DEF LineInv
<1>2. CallInv' /\ cds'[c] = x /\ \A e \in Parties : e # c => cds'[e] = cds[e]
  <2>1. todo[Home[c]] \in {c, NoParty}
    BY CallFacts
  <2>2. CallInv
    BY DEF LineInv
  <2> QED BY <1>1, <2>1, <2>2, CallStep
<1>3. CrossInv'
  BY <1>1, <1>2, CrossStep DEF LineInv
<1> QED BY <1>1, <1>2, <1>3 DEF LineInv

\* The second step of a handler, capi_connect_bridge and the others
LEMMA LinkNowKeeps ==
  ASSUME LineInv, NEW n \in Controllers, NEW able, LinkNow(n, able)
  PROVE LineInv'
<1>0. Home \in [Parties -> Controllers] /\ NoParty \notin Parties
  BY LineAssumption
<1> DEFINE c == todo[n]
           x == LinkTo(cds[c], li[c], able)
<1>1. /\ c \in Parties /\ Home[c] = n /\ cds[c] \in Descriptors /\ li[c] \in Slots \cup {NoSlot}
      /\ CallOK(cds[c], li[c], TRUE) /\ CallInv
  <2>1. c \in Parties /\ Home[c] = n /\ CallInv
    BY DEF LinkNow, LineInv, CallInv, CallTypes
  <2>2. cds[c] \in Descriptors /\ li[c] \in Slots \cup {NoSlot}
    BY <2>1 DEF LineInv, CallInv, CallTypes, SlotInv, SlotTypes
  <2>3. CallOK(cds[c], li[c], todo[Home[c]] = c)
    BY <2>1 DEF CallInv
  <2>4. CallOK(cds[c], li[c], TRUE)
    BY <2>1, <2>3 DEF CallOK
  <2> QED BY <2>1, <2>2, <2>4
<1>2. /\ x \in Descriptors /\ x.used = cds[c].used /\ x.peer = cds[c].peer
      /\ x.linked # "no" => x.linked = x.copy /\ x.want /\ x.chan = "real"
      /\ x.linked = "bridge" => x.fifo = li[c] /\ li[c] # NoSlot
  <2>1. cds[c].linked # "no" => cds[c].linked = cds[c].copy /\ cds[c].chan = "real"
    BY <1>1 DEF CallOK
  <2> QED BY <1>1, <2>1, LinkFacts
<1>3. /\ cds' = [cds EXCEPT ![c] = x] /\ todo' = [todo EXCEPT ![Home[c]] = NoParty]
      /\ li' = li /\ moved' = moved /\ SlotInv'
  BY <1>1, KeepKeeps DEF LinkNow, KeepSlots, KeepCable, LineInv
<1>4. /\ halves' \subseteq [op : {"connect", "disconnect"}, c : Parties, d : Parties]
      /\ asked' \in 0 .. MaxAsked /\ ops' = ops
  BY DEF LinkNow, LineInv, CallInv, CallTypes, KeepCable
<1> HIDE DEF x, c
<1>5. CallOK(x, li'[c], NoParty = c)
  BY <1>0, <1>1, <1>2, <1>3 DEF CallOK
<1>6. todo[Home[c]] \in {c, NoParty}
  BY <1>1 DEF c
<1>7. CallInv' /\ cds'[c] = x /\ \A e \in Parties : e # c => cds'[e] = cds[e]
  BY <1>1, <1>2, <1>3, <1>4, <1>5, <1>6, CallStep
<1>8. CrossInv'
  BY <1>1, <1>2, <1>3, <1>7 DEF LineInv, CrossInv
<1> QED BY <1>3, <1>7, <1>8 DEF LineInv

\* One half of a line interconnect request
LEMMA DoKeeps ==
  ASSUME LineInv, NEW op, NEW c \in Parties, NEW d \in Parties, Ready(c), Do(op, c, d),
         UNCHANGED <<slot_end, moved, ops>>,
         halves' \subseteq [op : {"connect", "disconnect"}, c : Parties, d : Parties],
         asked' \in 0 .. MaxAsked
  PROVE LineInv'
<1>0. /\ cds[c] \in Descriptors /\ CallOK(cds[c], li[c], FALSE) /\ c # NoParty /\ d # NoParty
      /\ todo = [todo EXCEPT ![Home[c]] = NoParty] /\ cds \in [Parties -> Descriptors]
  BY CallFacts, LineAssumption DEF LineInv, CallInv, CallTypes
<1>1. CASE KeepSlots /\ UNCHANGED <<cds, todo>>
  <2>1. cds' = [cds EXCEPT ![c] = cds[c]] /\ todo' = [todo EXCEPT ![Home[c]] = NoParty]
    BY <1>0, <1>1
  <2>2. CallOK(cds[c], li[c], NoParty = c)
    BY <1>0 DEF CallOK
  <2> QED BY <1>0, <1>1, <2>1, <2>2, QuietStep
<1>2. CASE ConnectBridge(c, d) /\ cds[c].used /\ cds[c].peer = NoParty /\ li[c] = NoSlot
  <2> DEFINE x == [cds[c] EXCEPT !.peer = d, !.drv = "bridge"]
  <2>1. cds' = [cds EXCEPT ![c] = x]
    BY <1>0, <1>2 DEF ConnectBridge
  <2>2. /\ x \in Descriptors /\ x.peer = d /\ x.linked = cds[c].linked /\ x.copy = cds[c].copy
        /\ x.want = cds[c].want /\ x.chan = cds[c].chan /\ x.used /\ x.fifo = cds[c].fifo
    BY <1>0, <1>2 DEF Descriptors
  <2> HIDE DEF x
  <2>3. CASE cds[c].chan # "no"
    <3>1. Alloc(c, d) /\ todo' = [todo EXCEPT ![Home[c]] = c]
      BY <1>2, <2>3 DEF ConnectBridge
    <3>2. CallOK(x, li'[c], c = c)
      BY <1>0, <2>2 DEF CallOK
    <3> QED BY <1>2, <2>1, <2>2, <3>1, <3>2, AllocStep
  <2>4. CASE cds[c].chan = "no"
    <3>1. KeepSlots /\ todo' = [todo EXCEPT ![Home[c]] = NoParty]
      BY <1>0, <1>2, <2>4 DEF ConnectBridge
    <3>2. CallOK(x, li[c], NoParty = c)
      BY <1>0, <1>2, <2>2 DEF CallOK
    <3> QED BY <1>2, <2>1, <2>2, <3>1, <3>2, QuietStep
  <2> QED BY <2>3, <2>4
<1>3. CASE DisconnectBridge(c, d) /\ cds[c].used /\ cds[c].peer = d
  <2> DEFINE x == [cds[c] EXCEPT !.peer = NoParty, !.drv = "other"]
  <2>1. /\ cds' = [cds EXCEPT ![c] = x] /\ Free(c) /\ todo' = [todo EXCEPT ![Home[c]] = c]
    BY <1>0, <1>3 DEF DisconnectBridge
  <2>2. /\ x \in Descriptors /\ x.linked = cds[c].linked /\ x.copy = cds[c].copy
        /\ x.want = cds[c].want /\ x.chan = cds[c].chan /\ x.used
    BY <1>0, <1>3 DEF Descriptors
  <2> HIDE DEF x
  <2>3. CallOK(x, NoSlot, c = c)
    BY <1>0, <2>2 DEF CallOK
  <2> QED BY <2>1, <2>2, <2>3, FreeStep
<1> QED BY <1>1, <1>2, <1>3 DEF Do, ConnectBridge, DisconnectBridge

\* SELECT_B_PROTOCOL_REQ and CONNECT_RESP
LEMMA SelectB3Keeps ==
  ASSUME LineInv, NEW c \in Parties, SelectB3(c)
  PROVE LineInv'
<1>0. /\ cds[c] \in Descriptors /\ CallOK(cds[c], li[c], FALSE) /\ c # NoParty /\ Ready(c)
      /\ todo = [todo EXCEPT ![Home[c]] = NoParty] /\ cds \in [Parties -> Descriptors]
      /\ halves \subseteq [op : {"connect", "disconnect"}, c : Parties, d : Parties]
      /\ asked \in 0 .. MaxAsked
  BY CallFacts DEF LineInv, CallInv, CallTypes, SelectB3
<1> DEFINE x == [cds[c] EXCEPT !.drv = "other"]
<1>1. /\ cds' = [cds EXCEPT ![c] = x] /\ KeepSlots /\ KeepCable /\ UNCHANGED <<halves, todo>>
  BY <1>0 DEF SelectB3
<1>2. /\ x \in Descriptors /\ x.peer = cds[c].peer /\ x.linked = cds[c].linked
      /\ x.copy = cds[c].copy /\ x.want = cds[c].want /\ x.chan = cds[c].chan
      /\ x.used = cds[c].used /\ x.fifo = cds[c].fifo
  BY <1>0 DEF Descriptors
<1> HIDE DEF x
<1>3. CallOK(x, li[c], NoParty = c)
  BY <1>0, <1>2 DEF CallOK
<1> QED BY <1>0, <1>1, <1>2, <1>3, QuietStep DEF KeepCable

\* EV_L3_RETRIEVE_REQ
LEMMA RetrieveReqKeeps ==
  ASSUME LineInv, NEW c \in Parties, RetrieveReq(c)
  PROVE LineInv'
<1>0. /\ cds[c] \in Descriptors /\ CallOK(cds[c], li[c], FALSE) /\ c # NoParty /\ Ready(c)
      /\ todo = [todo EXCEPT ![Home[c]] = NoParty] /\ cds \in [Parties -> Descriptors]
      /\ halves \subseteq [op : {"connect", "disconnect"}, c : Parties, d : Parties]
      /\ asked \in 0 .. MaxAsked
  BY CallFacts DEF LineInv, CallInv, CallTypes, RetrieveReq
<1> DEFINE x == [cds[c] EXCEPT !.hold = "retrieving"]
<1>1. /\ cds' = [cds EXCEPT ![c] = x] /\ KeepSlots /\ KeepCable /\ UNCHANGED <<halves, todo>>
  BY <1>0 DEF RetrieveReq
<1>2. /\ x \in Descriptors /\ x.peer = cds[c].peer /\ x.linked = cds[c].linked
      /\ x.copy = cds[c].copy /\ x.want = cds[c].want /\ x.chan = cds[c].chan
      /\ x.used = cds[c].used /\ x.fifo = cds[c].fifo
  BY <1>0 DEF Descriptors
<1> HIDE DEF x
<1>3. CallOK(x, li[c], NoParty = c)
  BY <1>0, <1>2 DEF CallOK
<1> QED BY <1>0, <1>1, <1>2, <1>3, QuietStep DEF KeepCable

\* DISCONNECT_B3_REQ
LEMMA DisconnectB3Keeps ==
  ASSUME LineInv, NEW c \in Parties, DisconnectB3(c)
  PROVE LineInv'
<1>0. /\ cds[c] \in Descriptors /\ CallOK(cds[c], li[c], FALSE) /\ c # NoParty /\ Ready(c)
      /\ todo = [todo EXCEPT ![Home[c]] = NoParty] /\ cds \in [Parties -> Descriptors]
      /\ halves \subseteq [op : {"connect", "disconnect"}, c : Parties, d : Parties]
      /\ asked \in 0 .. MaxAsked
  BY CallFacts DEF LineInv, CallInv, CallTypes, DisconnectB3
<1> DEFINE x == Unlink(cds[c])
<1>1. /\ cds' = [cds EXCEPT ![c] = x] /\ KeepSlots /\ KeepCable /\ UNCHANGED <<halves, todo>>
  BY <1>0 DEF DisconnectB3
<1>2. /\ x \in Descriptors /\ x.peer = cds[c].peer /\ x.linked = "no"
      /\ x.used = cds[c].used
  BY <1>0, UnlinkFacts DEF CallOK
<1> HIDE DEF x
<1>3. CallOK(x, li[c], NoParty = c)
  BY <1>0, <1>2 DEF CallOK
<1> QED BY <1>0, <1>1, <1>2, <1>3, QuietStep DEF KeepCable

\* i4b_allocate_cd
LEMMA NewCallKeeps ==
  ASSUME LineInv, NEW c \in Parties, NewCall(c)
  PROVE LineInv'
<1>0. /\ cds[c] \in Descriptors /\ CallOK(cds[c], li[c], FALSE) /\ c # NoParty /\ Ready(c)
      /\ todo = [todo EXCEPT ![Home[c]] = NoParty] /\ cds \in [Parties -> Descriptors]
      /\ halves \subseteq [op : {"connect", "disconnect"}, c : Parties, d : Parties]
      /\ asked \in 0 .. MaxAsked
  BY CallFacts DEF LineInv, CallInv, CallTypes, NewCall
<1> DEFINE x == [Unused EXCEPT !.used = TRUE]
<1>1. /\ cds' = [cds EXCEPT ![c] = x] /\ KeepSlots /\ KeepCable /\ UNCHANGED <<halves, todo>>
  BY <1>0 DEF NewCall
<1>2. /\ x \in Descriptors /\ x.peer = cds[c].peer /\ x.linked = "no"
      /\ x.used = TRUE /\ li[c] = NoSlot
  BY <1>0 DEF Descriptors, Unused, CallOK, NewCall
<1> HIDE DEF x
<1>3. CallOK(x, li[c], NoParty = c)
  BY <1>0, <1>2 DEF CallOK
<1> QED BY <1>0, <1>1, <1>2, <1>3, QuietStep DEF KeepCable

\* CONNECT_B3_REQ
LEMMA ConnectB3Keeps ==
  ASSUME LineInv, NEW c \in Parties, NEW able, ConnectB3(c, able)
  PROVE LineInv'
<1>0. /\ cds[c] \in Descriptors /\ CallOK(cds[c], li[c], FALSE) /\ c # NoParty /\ Ready(c)
      /\ todo = [todo EXCEPT ![Home[c]] = NoParty] /\ cds \in [Parties -> Descriptors]
      /\ halves \subseteq [op : {"connect", "disconnect"}, c : Parties, d : Parties]
      /\ asked \in 0 .. MaxAsked
  BY CallFacts DEF LineInv, CallInv, CallTypes, ConnectB3
<1> DEFINE x == LinkTo([cds[c] EXCEPT !.drv = "other"], li[c], able)
<1>1. /\ cds' = [cds EXCEPT ![c] = x] /\ KeepSlots /\ KeepCable /\ UNCHANGED <<halves, todo>>
  BY <1>0 DEF ConnectB3
<1>2. /\ x \in Descriptors /\ x.peer = cds[c].peer /\ x.used /\ li[c] \in Slots \cup {NoSlot}
      /\ x.linked # "no" => x.linked = x.copy /\ x.want /\ x.chan = "real"
      /\ x.linked = "bridge" => x.fifo = li[c] /\ li[c] # NoSlot
  <2> DEFINE y == [cds[c] EXCEPT !.drv = "other"]
  <2>1. /\ y \in Descriptors /\ y.linked = cds[c].linked /\ y.copy = cds[c].copy
        /\ y.chan = cds[c].chan /\ y.used /\ y.peer = cds[c].peer
    BY <1>0 DEF Descriptors, ConnectB3
  <2>2. y.linked # "no" => y.linked = y.copy /\ y.chan = "real"
    BY <1>0, <2>1 DEF CallOK
  <2>3. li[c] \in Slots \cup {NoSlot}
    BY <1>0, CallFacts
  <2>4. x = LinkTo(y, li[c], able)
    OBVIOUS
  <2> HIDE DEF x, y
  <2> QED BY <2>1, <2>2, <2>3, <2>4, LinkFacts
<1> HIDE DEF x
<1>3. CallOK(x, li[c], NoParty = c)
  BY <1>0, <1>2 DEF CallOK
<1> QED BY <1>0, <1>1, <1>2, <1>3, QuietStep DEF KeepCable

\* EV_L3_HOLD_IND and EV_L3_HOLD_REQ
LEMMA HoldCallKeeps ==
  ASSUME LineInv, NEW c \in Parties, HoldCall(c)
  PROVE LineInv'
<1>0. /\ cds[c] \in Descriptors /\ CallOK(cds[c], li[c], FALSE) /\ c # NoParty /\ Ready(c)
      /\ todo = [todo EXCEPT ![Home[c]] = NoParty] /\ cds \in [Parties -> Descriptors]
      /\ halves \subseteq [op : {"connect", "disconnect"}, c : Parties, d : Parties]
      /\ asked \in 0 .. MaxAsked
  BY CallFacts DEF LineInv, CallInv, CallTypes, HoldCall
<1> DEFINE u == IF cds[c].want THEN [Unlink(cds[c]) EXCEPT !.want = TRUE] ELSE cds[c]
           x == [u EXCEPT !.chan = "no", !.hold = "held"]
<1>1. /\ cds' = [cds EXCEPT ![c] = x] /\ Free(c) /\ KeepCable /\ UNCHANGED <<halves, todo>>
  BY <1>0 DEF HoldCall
<1>2. u \in Descriptors /\ u.linked = "no" /\ u.used
  <2>1. CASE cds[c].want
    <3> DEFINE w == Unlink(cds[c])
    <3>1. w \in Descriptors /\ w.linked = "no" /\ w.used
      BY <1>0, UnlinkFacts DEF CallOK, HoldCall
    <3> HIDE DEF w
    <3>2. [w EXCEPT !.want = TRUE] \in Descriptors /\ [w EXCEPT !.want = TRUE].linked = "no"
            /\ [w EXCEPT !.want = TRUE].used
      BY <3>1 DEF Descriptors
    <3> QED BY <2>1, <3>2 DEF w
  <2>2. CASE ~cds[c].want
    BY <1>0, <2>2 DEF CallOK, HoldCall
  <2> QED BY <2>1, <2>2
<1> HIDE DEF u
<1>3. x \in Descriptors /\ x.linked = "no" /\ x.used
  BY <1>2 DEF Descriptors
<1> HIDE DEF x
<1>4. CallOK(x, NoSlot, NoParty = c)
  BY <1>0, <1>3 DEF CallOK
<1> QED BY <1>0, <1>1, <1>3, <1>4, FreeStep DEF KeepCable

\* n_free_cd
LEMMA EndCallKeeps ==
  ASSUME LineInv, NEW c \in Parties, EndCall(c)
  PROVE LineInv'
<1>0. /\ cds[c] \in Descriptors /\ CallOK(cds[c], li[c], FALSE) /\ c # NoParty /\ Ready(c)
      /\ todo = [todo EXCEPT ![Home[c]] = NoParty] /\ cds \in [Parties -> Descriptors]
      /\ halves \subseteq [op : {"connect", "disconnect"}, c : Parties, d : Parties]
      /\ asked \in 0 .. MaxAsked
  BY CallFacts DEF LineInv, CallInv, CallTypes, EndCall
<1> DEFINE u == Unlink(cds[c])
           x == [u EXCEPT !.used = FALSE, !.peer = NoParty, !.chan = "no", !.hold = "no",
                          !.drv = "other", !.copy = "other"]
<1>1. /\ cds' = [cds EXCEPT ![c] = x] /\ Free(c) /\ KeepCable /\ UNCHANGED <<halves, todo>>
  BY <1>0 DEF EndCall
<1>2. u \in Descriptors /\ u.linked = "no"
  BY <1>0, UnlinkFacts DEF CallOK
<1> HIDE DEF u
<1>3. x \in Descriptors /\ x.linked = "no" /\ x.peer = NoParty
  BY <1>2 DEF Descriptors
<1> HIDE DEF x
<1>4. CallOK(x, NoSlot, NoParty = c)
  BY <1>0, <1>3 DEF CallOK
<1> QED BY <1>0, <1>1, <1>3, <1>4, FreeStep DEF KeepCable

\* cd_allocate_channel, with what the handler does to the call around it
LEMMA AllocateKeeps ==
  ASSUME LineInv, NEW c \in Parties, Ready(c), Allocate(c), NEW x \in Descriptors,
         cds' = [cds EXCEPT ![c] = x], NEW q \in {c, NoParty},
         todo' = [todo EXCEPT ![Home[c]] = q], cds[c].used,
         x.peer = cds[c].peer, x.linked = cds[c].linked, x.copy = cds[c].copy,
         x.want = cds[c].want, x.used = cds[c].used, x.fifo = cds[c].fifo,
         cds[c].chan = "real" => x.chan = "real",
         KeepCable, UNCHANGED halves
  PROVE LineInv'
<1>0. /\ CallOK(cds[c], li[c], FALSE) /\ c # NoParty /\ cds[c].peer \in Parties \cup {NoParty}
      /\ halves' \subseteq [op : {"connect", "disconnect"}, c : Parties, d : Parties]
      /\ asked' \in 0 .. MaxAsked
  BY CallFacts DEF LineInv, CallInv, CallTypes, KeepCable, Descriptors
<1>1. CASE cds[c].peer # NoParty /\ li[c] = NoSlot
  <2>1. Alloc(c, cds[c].peer)
    BY <1>1 DEF Allocate
  <2>2. CallOK(x, li'[c], q = c)
    BY <1>0, <1>1 DEF CallOK
  <2> QED BY <1>0, <1>1, <2>1, <2>2, AllocStep DEF KeepCable
<1>2. CASE ~(cds[c].peer # NoParty /\ li[c] = NoSlot)
  <2>1. KeepSlots
    BY <1>2 DEF Allocate
  <2>2. CallOK(x, li[c], q = c)
    BY <1>0 DEF CallOK
  <2> QED BY <1>0, <2>1, <2>2, QuietStep DEF KeepCable
<1> QED BY <1>1, <1>2

\* A channel for a call that is set up, or retrieved
LEMMA ChannelKeeps ==
  ASSUME LineInv, NEW c \in Parties, NEW found \in {"no", "real", "void"},
         SetupChannel(c, found) \/ RetrieveCall(c, found)
  PROVE LineInv'
<1>0. /\ Ready(c) /\ Allocate(c) /\ cds[c].used /\ KeepCable /\ UNCHANGED halves
      /\ cds \in [Parties -> Descriptors] /\ cds[c] \in Descriptors
  BY DEF LineInv, CallInv, CallTypes, SetupChannel, RetrieveCall
<1>1. NewChan(c, found) \in {"no", "real", "void"} /\ (cds[c].chan = "real" => NewChan(c, found) = "real")
  BY <1>0 DEF NewChan, Descriptors
<1>2. PICK h \in {"no", "held", "retrieving"} :
        cds' = [cds EXCEPT ![c] = [cds[c] EXCEPT !.chan = NewChan(c, found), !.hold = h]]
  <2>1. CASE SetupChannel(c, found)
    <3>1. cds' = [cds EXCEPT ![c] = [cds[c] EXCEPT !.chan = NewChan(c, found), !.hold = "no"]]
      BY ZenonT(60), <1>0, <2>1 DEF SetupChannel, Descriptors
    <3> QED BY <3>1
  <2>2. CASE RetrieveCall(c, found)
    <3> DEFINE refused == cds[c].hold = "held" /\ NewChan(c, found) = "no"
               h == IF refused THEN cds[c].hold ELSE "no"
    <3>1. cds' = [cds EXCEPT ![c].chan = NewChan(c, found), ![c].hold = IF refused THEN @ ELSE "no"]
      BY <2>2 DEF RetrieveCall
    <3>2. h \in {"no", "held", "retrieving"}
      BY <1>0 DEF Descriptors
    <3>3. cds' = [cds EXCEPT ![c] = [cds[c] EXCEPT !.chan = NewChan(c, found), !.hold = h]]
      BY <1>0, <3>1
    <3> QED BY <3>2, <3>3
  <2> QED BY <2>1, <2>2
<1>3. PICK q \in {c, NoParty} : todo' = [todo EXCEPT ![Home[c]] = q]
  BY CallFacts, <1>0 DEF SetupChannel, RetrieveCall
<1> DEFINE x == [cds[c] EXCEPT !.chan = NewChan(c, found), !.hold = h]
<1>4. /\ x \in Descriptors /\ x.peer = cds[c].peer /\ x.linked = cds[c].linked
      /\ x.copy = cds[c].copy /\ x.want = cds[c].want /\ x.used = cds[c].used
      /\ x.fifo = cds[c].fifo /\ x.chan = NewChan(c, found)
  BY ZenonT(60), <1>0, <1>1 DEF Descriptors
<1>5. cds' = [cds EXCEPT ![c] = x]
  BY <1>2
<1> HIDE DEF x
<1> QED BY <1>0, <1>1, <1>3, <1>4, <1>5, AllocateKeeps

\* I4B_CTL_SET_PCM_SLOT_END
LEMMA SetSlotEndKeeps ==
  ASSUME LineInv, NEW k \in Cables, NEW n \in SlotEnds, SetSlotEnd(k, n)
  PROVE LineInv'
<1>1. /\ slot_end' = [slot_end EXCEPT ![k] = n] /\ li' = li /\ bitmap' = bitmap
      /\ moved' = IF bitmap[k] = {} THEN moved ELSE moved \cup {k}
      /\ UNCHANGED <<cds, halves, todo, asked, ops>>
  BY DEF SetSlotEnd, KeepSlots
<1>2. CallInv'
  BY <1>1 DEF LineInv, CallInv, CallTypes, CallOK
<1>3. CrossInv'
  BY <1>1 DEF LineInv, CrossInv
<1>4. SlotInv'
  <2>1. SlotTypes'
    BY <1>1 DEF LineInv, SlotInv, SlotTypes
  <2>2. ASSUME NEW c \in Parties, li[c] # NoSlot, li[c].cable \notin moved'
        PROVE /\ li[c].tx < 2 * Half(li[c].cable)'
              /\ li[c].rx = Peer(li[c].cable, li[c].tx)'
    <3>1. li[c] \in Slots /\ li[c].cable \in Cables /\ li[c].rx \in Nat
      BY <2>2 DEF LineInv, SlotInv, SlotTypes, Slots
    <3>2. li[c].rx \in bitmap[li[c].cable]
      BY <2>2, <3>1 DEF LineInv, SlotInv, SlotBits
    <3>3. li[c].cable # k /\ li[c].cable \notin moved
      BY <1>1, <2>2, <3>2
    <3>4. slot_end'[li[c].cable] = slot_end[li[c].cable]
      BY <1>1, <3>1, <3>3 DEF LineInv, SlotInv, SlotTypes
    <3>5. li[c].tx < 2 * Half(li[c].cable) /\ li[c].rx = Peer(li[c].cable, li[c].tx)
      BY <2>2, <3>3 DEF LineInv, SlotInv, SlotsFace
    <3> QED BY <3>4, <3>5, <1>1 DEF Half, Peer
  <2>3. /\ \A e \in Cables : \A s \in Nat :
             s \in bitmap'[e]
               <=> \E c \in Parties : li'[c] # NoSlot /\ li'[c].cable = e /\ li'[c].rx = s
        /\ \A c, d \in Parties :
             c # d /\ li'[c] # NoSlot /\ li'[d] # NoSlot /\ li'[c].cable = li'[d].cable
               => li'[c].rx # li'[d].rx
    BY <1>1 DEF LineInv, SlotInv, SlotBits, SlotsApart
  <2>4. ASSUME NEW c \in Parties, li'[c] # NoSlot, li'[c].cable \notin moved'
        PROVE (li[c].tx < 2 * Half(li[c].cable) /\ li[c].rx = Peer(li[c].cable, li[c].tx))'
    <3>1. li[c] # NoSlot /\ li[c].cable \notin moved'
      BY <1>1, <2>4
    <3> QED BY <1>1, <2>2, <3>1
  <2> QED BY <2>1, <2>3, <2>4 DEF SlotInv, SlotBits, SlotsApart, SlotsFace
<1> QED BY <1>2, <1>3, <1>4 DEF LineInv

-----------------------------------------------------------------------------
(* Theorems *)

\* The invariant holds before any call.
LEMMA LineInvInit == LiInit => LineInv
<1> SUFFICES ASSUME LiInit PROVE LineInv
  OBVIOUS
<1>0. Home \in [Parties -> Controllers] /\ NoParty \notin Parties /\ MaxAsked \in Nat
  BY LineAssumption
<1>1. SlotInv
  BY DEF LiInit, SlotInv, SlotBits, SlotsApart, SlotsFace, SlotTypes
<1>2. Unused \in Descriptors /\ Unused.linked = "no" /\ Unused.peer = NoParty
  BY DEF Unused, Descriptors
<1>3. CallTypes
  BY <1>0, <1>2 DEF LiInit, CallTypes
<1>4. ASSUME NEW c \in Parties PROVE CallOK(cds[c], li[c], todo[Home[c]] = c)
  BY <1>0, <1>2 DEF LiInit, CallOK
<1>5. CrossInv
  BY DEF LiInit, CrossInv
<1> QED BY <1>1, <1>3, <1>4, <1>5 DEF LineInv, CallInv

\* Every handler keeps it.
LEMMA LineInvNext == LineInv /\ [LiNext]_liVars => LineInv'
<1> SUFFICES ASSUME LineInv, [LiNext]_liVars PROVE LineInv'
  OBVIOUS
<1>1. ASSUME NEW n \in Controllers, NEW able, LinkNow(n, able) PROVE LineInv'
  BY <1>1, LinkNowKeeps
<1>2. ASSUME NEW c \in Parties, NEW d \in Parties, NEW op \in {"connect", "disconnect"},
             Request(op, c, d)
      PROVE LineInv'
  <2>1. /\ Ready(c) /\ Do(op, c, d) /\ UNCHANGED <<slot_end, moved, ops>>
        /\ halves' = halves \cup {[op |-> op, c |-> d, d |-> c]}
        /\ asked < MaxAsked /\ asked' = asked + 1
    BY <1>2 DEF Request
  <2>2. /\ halves' \subseteq [op : {"connect", "disconnect"}, c : Parties, d : Parties]
        /\ asked' \in 0 .. MaxAsked
    BY <2>1, LineAssumption DEF LineInv, CallInv, CallTypes
  <2> QED BY <2>1, <2>2, DoKeeps
<1>3. ASSUME NEW h \in halves, SecondHalf(h) PROVE LineInv'
  <2>1. h.c \in Parties /\ h.d \in Parties
    BY DEF LineInv, CallInv, CallTypes
  <2>2. /\ Ready(h.c) /\ Do(h.op, h.c, h.d) /\ UNCHANGED <<slot_end, moved, ops>>
        /\ halves' \subseteq [op : {"connect", "disconnect"}, c : Parties, d : Parties]
        /\ asked' \in 0 .. MaxAsked
    BY <1>3 DEF SecondHalf, KeepCable, LineInv, CallInv, CallTypes
  <2> QED BY <2>1, <2>2, DoKeeps
<1>4. ASSUME NEW c \in Parties, NEW found \in {"no", "real", "void"},
             SetupChannel(c, found) \/ RetrieveCall(c, found)
      PROVE LineInv'
  BY <1>4, ChannelKeeps
<1>5. ASSUME NEW c \in Parties, NEW able, ConnectB3(c, able) PROVE LineInv'
  BY <1>5, ConnectB3Keeps
<1>6. ASSUME NEW c \in Parties,
             \/ SelectB3(c) \/ DisconnectB3(c) \/ HoldCall(c) \/ RetrieveReq(c)
             \/ NewCall(c) \/ EndCall(c)
      PROVE LineInv'
  BY <1>6, SelectB3Keeps, DisconnectB3Keeps, HoldCallKeeps, RetrieveReqKeeps, NewCallKeeps,
     EndCallKeeps
<1>7. ASSUME NEW k \in Cables, NEW n \in SlotEnds, SetSlotEnd(k, n) PROVE LineInv'
  BY <1>7, SetSlotEndKeeps
<1>8. CASE UNCHANGED liVars
  <2>1. SlotInv'
    BY <1>8, KeepKeeps DEF liVars, LineInv, KeepSlots
  <2>2. CallInv'
    BY <1>8 DEF liVars, LineInv, CallInv, CallTypes, CallOK
  <2>3. CrossInv'
    BY <1>8 DEF liVars, LineInv, CrossInv
  <2> QED BY <2>1, <2>2, <2>3 DEF LineInv
<1> QED BY <1>1, <1>2, <1>3, <1>4, <1>5, <1>6, <1>7, <1>8 DEF LiNext

\* What the handlers of the bridge and of the calls keep about slots and calls
THEOREM LineInvariant == LiSpec => []LineInv
BY LineInvInit, LineInvNext, PTL DEF LiSpec

\* i4b_slot_li_alloc and i4b_slot_li_free give no slot out twice and lose none.
THEOREM SlotsAccountedAlways == LiSpec => []SlotsAccounted
<1>1. LineInv => SlotsAccounted
  <2> SUFFICES ASSUME LineInv PROVE SlotsAccounted
    OBVIOUS
  <2>1. ASSUME NEW k \in Cables
        PROVE bitmap[k] = {li[c].rx : c \in {p \in Parties : li[p] # NoSlot /\ li[p].cable = k}}
    <3>1. bitmap[k] \subseteq Nat
      BY DEF LineInv, SlotInv, SlotTypes
    <3>2. \A c \in Parties : li[c] # NoSlot => li[c].rx \in Nat
      BY DEF LineInv, SlotInv, SlotTypes, Slots
    <3>3. \A s \in Nat : s \in bitmap[k]
            <=> \E c \in Parties : li[c] # NoSlot /\ li[c].cable = k /\ li[c].rx = s
      BY DEF LineInv, SlotInv, SlotBits
    <3> QED BY <3>1, <3>2, <3>3
  <2> QED BY <2>1 DEF SlotsAccounted, LineInv, SlotInv, SlotsApart
<1> QED BY <1>1, LineInvariant, PTL

\* Calls that i4b_slot_li_alloc connects with each other hear each other, and no two
\* calls send in one slot.
THEOREM PartnersCrossAlways == LiSpec => []PartnersCross
<1>1. LineInv => PartnersCross
  <2> SUFFICES ASSUME LineInv, NEW c \in Parties, NEW d \in Parties, c # d, li[c] # NoSlot,
                      li[d] # NoSlot, li[c].cable \notin moved
               PROVE /\ li[c].cable = li[d].cable => li[c].tx # li[d].tx
                     /\ cds[c].peer = d /\ cds[d].peer = c =>
                          li[c].cable = li[d].cable /\ li[c].tx = li[d].rx /\ li[c].rx = li[d].tx
    BY DEF PartnersCross
  <2>1. ASSUME li[c].cable = li[d].cable PROVE li[c].tx # li[d].tx
    BY <2>1 DEF LineInv, SlotInv, SlotsFace, SlotsApart
  <2> QED BY <2>1 DEF LineInv, CrossInv
<1> QED BY <1>1, LineInvariant, PTL

\* capi_bridge_setup_ft: a FIFO is bridged only to the slot its call has.
THEOREM BridgeOwnsSlotAlways == LiSpec => []BridgeOwnsSlot
<1>1. LineInv => BridgeOwnsSlot
  <2> SUFFICES ASSUME LineInv, NEW c \in Parties, cds[c].linked = "bridge", todo[Home[c]] # c
               PROVE cds[c].fifo = li[c] /\ cds[c].chan = "real"
    BY DEF BridgeOwnsSlot
  <2>1. CallOK(cds[c], li[c], todo[Home[c]] = c)
    BY DEF LineInv, CallInv
  <2> QED BY <2>1 DEF CallOK
<1> QED BY <1>1, LineInvariant, PTL

\* Both together: bridged calls hear each other and nobody else.
THEOREM BridgesCrossAlways == LiSpec => []BridgesCross
BY PartnersCrossAlways, BridgeOwnsSlotAlways, PTL DEF BridgesCross
-----------------------------------------------------------------------------
(* The search for a free pair *)

\* The search takes the first free pair: where there is one, there is a least one.
LEMMA LeastExists ==
  ASSUME NEW S \in SUBSET Nat, S # {}
  PROVE  \E x \in S : \A y \in S : x <= y
<1>1. PICK x \in S : \A y \in S : ~(<<y, x>> \in OpToRel(<, Nat))
  BY NatLessThanWellFounded, WFMin, Zenon
<1>2. \A y \in S : ~(y < x)
  BY Zenon, <1>1 DEF OpToRel
<1> QED BY <1>2

\* The word that a slot lies in begins at a multiple of the length, and two such
\* beginnings are at least a word apart.
LEMMA WordOf ==
  ASSUME NEW L \in Nat \ {0}, NEW y \in Nat
  PROVE  \E w \in 0 .. y : w % L = 0 /\ y - w \in 0 .. L - 1
<1> DEFINE r == y % L
           q == y \div L
<1>1. r \in 0 .. L - 1 /\ q \in Nat /\ y = L * q + r
  OBVIOUS
<1>2. (L * q) % L = 0
  OBVIOUS
<1>3. L * q \in 0 .. y
  BY <1>1
<1> HIDE DEF r, q
<1> WITNESS L * q \in 0 .. y
<1> QED
  BY <1>1, <1>2, <1>3

LEMMA WordsApart ==
  ASSUME NEW L \in Nat \ {0}, NEW v \in Nat, NEW w \in Nat, v % L = 0, w % L = 0, v < w
  PROVE  v + L <= w
<1> DEFINE a == v \div L
           b == w \div L
<1>1. a \in Nat /\ b \in Nat /\ v = L * a /\ w = L * b
  OBVIOUS
<1> HIDE DEF a, b
<1>2. a < b
  <2>1. SUFFICES ASSUME b <= a PROVE FALSE
    BY <1>1
  <2>2. L * b <= L * a
    BY <1>1, <2>1
  <2> QED
    BY <1>1, <2>2
<1>3. L * (a + 1) <= L * b
  BY <1>1, <1>2
<1>4. L * (a + 1) = L * a + L
  BY <1>1
<1> QED
  BY <1>1, <1>3, <1>4

\* In its own word the loop tests each slot once.
LEMMA InWord ==
  ASSUME NEW L \in Nat \ {0}, NEW i \in 0 .. L - 1
  PROVE  i % L = i
OBVIOUS

\* i4b_slot_li_alloc, __i4b_slot_li_alloc: the first word that is not full holds the
\* first free pair.
LEMMA SearchFinds ==
  ASSUME SlotTypes, NEW k \in Cables, NEW x \in 0 .. Half(k) - 1, FreePair(k, x)
  PROVE  Found(k) # {}
<1> DEFINE H == Half(k)
           F(i) == FreePair(k, i)
           S == {i \in 0 .. H - 1 : F(i)}
<1>0. H \in Nat /\ WordLen \in Nat \ {0}
  BY HalfNat, LineAssumption
<1>1. PICK y \in S : \A i \in S : y <= i
  <2>1. S \in SUBSET Nat /\ S # {}
    BY <1>0
  <2> QED
    BY <2>1, LeastExists
<1>2. y \in Nat /\ y < H /\ F(y) /\ \A i \in Nat : i < y => ~F(i)
  <2>1. y \in 0 .. H - 1 /\ F(y)
    OBVIOUS
  <2>2. ASSUME NEW i \in Nat, i < y, F(i) PROVE FALSE
    BY <1>0, <1>1, <2>1, <2>2
  <2> QED
    BY <1>0, <2>1, <2>2
<1> HIDE DEF S, H
<1>3. PICK w \in 0 .. y : w % WordLen = 0 /\ y - w \in 0 .. WordLen - 1
  BY <1>0, <1>2, WordOf
<1>4. w \in Nat /\ y = w + (y - w)
  BY <1>2, <1>3
<1>5. w \in FirstWord(k)
  <2>1. WordFree(k, w)
    BY <1>2, <1>3, <1>4 DEF WordFree
  <2> QED
    BY <1>0, <1>2, <1>3, <1>4, <2>1 DEF FirstWord, H
<1>6. ASSUME NEW v \in FirstWord(k) PROVE w <= v
  <2>1. v \in Nat /\ v % WordLen = 0 /\ WordFree(k, v)
    BY <1>0 DEF FirstWord, H
  <2>2. PICK i \in 0 .. WordLen - 1 : F(v + i)
    BY <2>1 DEF WordFree
  <2>3. ASSUME v < w PROVE FALSE
    <3>1. v + WordLen <= w
      BY <1>0, <1>3, <1>4, <2>1, <2>3, WordsApart
    <3>2. v + i \in Nat /\ v + i < y
      BY <1>0, <1>2, <1>3, <1>4, <2>1, <2>2, <3>1
    <3> QED
      BY <1>2, <2>2, <3>2
  <2> QED
    BY <1>4, <2>1, <2>3
<1>7. ASSUME NEW z \in w .. y PROVE w + ((z - w) % WordLen) = z
  <2>1. z - w \in 0 .. WordLen - 1 /\ z \in Nat
    BY <1>0, <1>2, <1>3, <1>4
  <2>2. (z - w) % WordLen = z - w
    BY <1>0, <2>1, InWord
  <2> QED
    BY <1>4, <2>1, <2>2
<1>8. F(w + ((y - w) % WordLen))
  <2>1. y \in w .. y
    BY <1>2, <1>3, <1>4
  <2> QED
    BY <1>2, <1>7, <2>1
<1>9. ASSUME NEW z \in w .. y - 1 PROVE ~F(w + ((z - w) % WordLen))
  <2>1. z \in w .. y /\ z \in Nat /\ z < y
    BY <1>2, <1>4
  <2> QED
    BY <1>2, <1>7, <2>1
<1>10. y \in Found(k)
  <2>1. y \in 0 .. Half(k) - 1 /\ w <= y
    BY <1>0, <1>2, <1>3, <1>4 DEF H
  <2> QED
    BY <1>5, <1>6, <1>8, <1>9, <2>1 DEF Found
<1> QED
  BY <1>10

LEMMA SearchIsRight ==
  ASSUME SlotTypes, NEW k \in Cables, NEW y \in Found(k)
  PROVE  \E x \in 0 .. Half(k) - 1 : FreePair(k, x)
<1>0. Half(k) \in Nat /\ WordLen \in Nat \ {0}
  BY HalfNat, LineAssumption
<1>1. PICK w \in FirstWord(k) : w <= y /\ FreePair(k, w + ((y - w) % WordLen))
  BY DEF Found
<1>2. w \in Nat /\ y \in Nat /\ y <= Half(k) - 1
  BY <1>0 DEF FirstWord, Found
<1>3. y - w \in Nat
  BY <1>1, <1>2
<1>4. (y - w) % WordLen \in 0 .. y - w
  <2>1. ASSUME NEW n \in Nat PROVE n % WordLen \in 0 .. n
    <3> DEFINE q == n \div WordLen
               r == n % WordLen
    <3>1. q \in Nat /\ r \in Nat /\ n = WordLen * q + r
      BY <1>0
    <3>2. WordLen * q \in Nat
      BY <1>0, <3>1
    <3> HIDE DEF q, r
    <3>3. r \in 0 .. n
      BY <3>1, <3>2
    <3> QED
      BY <3>3 DEF r
  <2> QED
    BY <1>3, <2>1
<1>5. w + ((y - w) % WordLen) \in 0 .. Half(k) - 1
  BY <1>0, <1>2, <1>4
<1> QED
  BY <1>1, <1>5

\* The search by words in i4b_slot_li_alloc finds a pair exactly if there is a free one,
\* for every length of a word and of a cable, whatever was allocated before.
THEOREM SearchAlwaysComplete == LiSpec => []SearchComplete
<1>1. ASSUME LineInv PROVE SearchComplete
  <2>1. SlotTypes
    BY <1>1 DEF LineInv, SlotInv
  <2> QED
    BY <2>1, SearchFinds, SearchIsRight DEF SearchComplete
<1> QED
  BY <1>1, LineInvariant, PTL

-----------------------------------------------------------------------------
(* The data link (Dss1Link): what a pipe satisfies, and what is on the line *)

Content == Data \cup {ZIF}

PipeRec ==
  [state : DOMAIN StateNo, refcount : 0 .. 1, q : Seq(Content), size : Nat, length : Nat,
   tx_nr : 0 .. NrMax - 1, cur : Nat, curLength : Nat, curNr : 0 .. NrMax - 1, t200 : BOOLEAN]

\* The window lies inside the queue, and what is still to be sent of it ends with it.
Inside(p) ==
  /\ p.length <= p.size /\ p.size <= Len(p.q)
  /\ p.length > 0 /\ p.curLength > 0 => p.cur >= 1 /\ p.cur + p.curLength = p.size + 1

\* The messages that are still to be sent of the window get numbers that are not wrapped:
\* without this the last part of WindowSound is not inductive.
Unwrapped(p) ==
  ~line.short /\ p.length > 0 =>
    \A i \in 0 .. p.curLength - 1 : p.q[p.cur + i] # ZIF => p.curNr + i \in 1 .. NrMax - 2

Sound(p) == p \in PipeRec /\ Inside(p) /\ Unwrapped(p)

SoundFrame(f) ==
  /\ f \in Frames \cup UFrames
  /\ ~line.short /\ f.type = "I" /\ f.data # ZIF => f.ns \in 1 .. NrMax - 2

LinkInv == TypeOK /\ Sound(pipe) /\ \A i \in 1 .. Len(fwd) : SoundFrame(fwd[i])

-----------------------------------------------------------------------------
(* Types *)

States == {"PAUSE", "SEND_TEI", "SEND_SABME", "SEND_UA", "SINGLE_FRAME", "MULTI_FRAME"}

LEMMA StateTypes ==
  /\ DOMAIN StateNo = States
  /\ \A s \in States : StateNo[s] \in Nat /\ TimeoutState[s] \in States
BY DEF StateNo, States, TimeoutState

LEMMA Modulus == NrMax \in Nat /\ NrMax >= 4 /\ 0 \in 0 .. NrMax - 1
BY LinkAssumption

\* The fields of a pipe, and a pipe from its fields
LEMMA PipeFields ==
  ASSUME NEW p \in PipeRec
  PROVE  /\ p.state \in States /\ p.refcount \in 0 .. 1 /\ p.q \in Seq(Content)
         /\ p.size \in Nat /\ p.length \in Nat /\ p.tx_nr \in 0 .. NrMax - 1
         /\ p.cur \in Nat /\ p.curLength \in Nat /\ p.curNr \in 0 .. NrMax - 1
         /\ p.t200 \in BOOLEAN /\ Len(p.q) \in Nat
BY StateTypes DEF PipeRec

\* Only the state changes, or the references, or the acknowledged number.
LEMMA Restated ==
  ASSUME NEW p, Sound(p), NEW s \in States
  PROVE  Sound([p EXCEPT !.state = s])
<1>1. [p EXCEPT !.state = s] \in PipeRec /\ p \in PipeRec
  BY StateTypes DEF Sound, PipeRec
<1> QED
  BY <1>1 DEF Sound, PipeRec, Inside, Unwrapped

LEMMA Referenced ==
  ASSUME NEW p, Sound(p), NEW r \in 0 .. 1
  PROVE  Sound([p EXCEPT !.refcount = r])
<1>1. [p EXCEPT !.refcount = r] \in PipeRec /\ p \in PipeRec
  BY StateTypes DEF Sound, PipeRec
<1> QED
  BY <1>1 DEF Sound, PipeRec, Inside, Unwrapped

LEMMA Acknowledged ==
  ASSUME NEW p, Sound(p), NEW n \in 0 .. NrMax - 1
  PROVE  Sound([p EXCEPT !.tx_nr = n])
<1>1. [p EXCEPT !.tx_nr = n] \in PipeRec /\ p \in PipeRec
  BY StateTypes DEF Sound, PipeRec
<1> QED
  BY <1>1 DEF Sound, PipeRec, Inside, Unwrapped

LEMMA PauseSound ==
  ASSUME NEW p, Sound(p)
  PROVE  Sound(Pause(p)) /\ Pause(p).state = "PAUSE"
<1>1. p \in PipeRec
  BY DEF Sound
<1>2. << >> \in Seq(Content) /\ Len(<< >>) = 0 /\ 0 \in 0 .. 1 /\ 0 \in Nat
      /\ "PAUSE" \in DOMAIN StateNo /\ 0 \in 0 .. NrMax - 1
  BY StateTypes, Modulus DEF States
<1>3. Pause(p) \in PipeRec
  BY <1>1, <1>2 DEF PipeRec, Pause
<1>4. /\ Pause(p).length = 0 /\ Pause(p).size = 0 /\ Pause(p).q = << >>
      /\ Pause(p).state = "PAUSE"
  BY <1>1 DEF PipeRec, Pause
<1> QED
  BY <1>2, <1>3, <1>4 DEF Sound, Inside, Unwrapped

LEMMA ActivatedSound ==
  ASSUME NEW p, Sound(p)
  PROVE  Sound(Activated(p))
BY Restated DEF Activated, States

\* dss1_pipe_set_state changes the state, or drains the queue as well.
LEMMA SetStateSound ==
  ASSUME NEW p, Sound(p), NEW new \in States, NEW keep
  PROVE  Sound(SetState(p, new, keep))
<1>1. Sound(SingleFrame(p, keep)) /\ Sound(SendTei(p)) /\ Sound(Pause(p))
  BY PauseSound, Restated DEF SingleFrame, SendTei, States
<1>2. Sound([p EXCEPT !.state = new])
  BY Restated
<1> QED
  BY <1>1, <1>2 DEF SetState

-----------------------------------------------------------------------------
(* check_NR *)

\* The acknowledged frames leave the window, from its front.
LEMMA Shortened ==
  ASSUME NEW p, Sound(p), NEW n \in Nat, n <= p.length
  PROVE  Sound([p EXCEPT !.length = n])
<1>1. p \in PipeRec /\ p.length \in Nat /\ p.size \in Nat
  BY PipeFields DEF Sound
<1>2. [p EXCEPT !.length = n] \in PipeRec
  BY <1>1 DEF PipeRec
<1>3. Inside([p EXCEPT !.length = n])
  BY <1>1 DEF PipeRec, Inside, Sound
<1>4. Unwrapped([p EXCEPT !.length = n])
  BY <1>1 DEF PipeRec, Unwrapped, Sound
<1> QED
  BY <1>2, <1>3, <1>4 DEF Sound

LEMMA Emptied ==
  ASSUME NEW p, Sound(p)
  PROVE  Sound([p EXCEPT !.size = 0, !.length = 0])
<1>1. p \in PipeRec /\ Len(p.q) \in Nat
  BY PipeFields DEF Sound
<1>2. [p EXCEPT !.size = 0, !.length = 0] \in PipeRec
  BY <1>1 DEF PipeRec
<1> QED
  BY <1>1, <1>2 DEF PipeRec, Inside, Unwrapped, Sound

LEMMA DiffType ==
  ASSUME NEW a \in 0 .. NrMax - 1, NEW b \in 0 .. NrMax - 1
  PROVE  (a + NrMax - b) % NrMax \in Nat
BY Modulus

\* "multi frame" keeps the queue and the window, since the state is above it already.
LEMMA MultiFrame ==
  ASSUME NEW p, p \in PipeRec, NEW keep
  PROVE  LET r == SetState(p, "MULTI_FRAME", keep) IN
         r.length = p.length /\ r.size = p.size /\ r.q = p.q
BY DEF PipeRec, SetState

LEMMA CheckNRSound ==
  ASSUME NEW p, Sound(p), NEW nr \in 0 .. NrMax - 1, NEW keep
  PROVE  Sound(CheckNR(p, nr, keep))
<1> DEFINE d == NrDiff(p, nr)
           p1 == [p EXCEPT !.tx_nr = nr]
           p2 == SetState(p1, "SINGLE_FRAME", keep)
           p3 == SetState(p1, "MULTI_FRAME", keep)
<1>1. p \in PipeRec /\ p.length \in Nat /\ d \in Nat
  BY PipeFields, DiffType DEF Sound, NrDiff
<1>2. Sound(p1)
  BY Acknowledged
<1>3. p1 \in PipeRec /\ p1.length = p.length
  BY <1>1, <1>2 DEF Sound, PipeRec
<1>4. Sound(p2) /\ Sound(p3)
  BY <1>2, SetStateSound DEF States
<1>5. p3.length = p.length
  BY <1>3, MultiFrame
<1>6. CheckNR(p, nr, keep) =
        CASE d = 0 -> p1
          [] d > p.length -> [p2 EXCEPT !.size = 0, !.length = 0]
          [] OTHER -> [p3 EXCEPT !.length = p3.length - d]
  BY DEF CheckNR
<1> HIDE DEF d, p1, p2, p3
<1>7. Sound([p2 EXCEPT !.size = 0, !.length = 0])
  BY <1>4, Emptied
<1>8. ASSUME ~(d > p.length) PROVE Sound([p3 EXCEPT !.length = p3.length - d])
  <2>1. p3.length - d \in Nat /\ p3.length - d <= p3.length
    BY <1>1, <1>5, <1>8
  <2> QED
    BY <1>4, <2>1, Shortened
<1> QED
  BY <1>2, <1>6, <1>7, <1>8


-----------------------------------------------------------------------------
(* A new window *)

LEMMA ZifsType ==
  ASSUME NEW n \in Nat
  PROVE  /\ Zifs(n) \in Seq(Content) /\ Len(Zifs(n)) = n
         /\ \A i \in 1 .. n : Zifs(n)[i] = ZIF
BY DEF Zifs, Content

\* What is behind the window
LEMMA RestType ==
  ASSUME NEW q \in Seq(Content), NEW n \in Nat, n <= Len(q)
  PROVE  /\ SubSeq(q, n + 1, Len(q)) \in Seq(Content)
         /\ Len(SubSeq(q, n + 1, Len(q))) = Len(q) - n
<1>1. Len(q) \in Nat /\ DOMAIN q = 1 .. Len(q) /\ \A i \in 1 .. Len(q) : q[i] \in Content
  OBVIOUS
<1> DEFINE m == Len(q) - n
<1>2. m \in Nat /\ SubSeq(q, n + 1, Len(q)) = [i \in 1 .. m |-> q[i + n]]
  BY <1>1
<1>3. \A i \in 1 .. m : q[i + n] \in Content
  BY <1>1
<1> HIDE DEF m
<1>4. [i \in 1 .. m |-> q[i + n]] \in Seq(Content) /\ Len([i \in 1 .. m |-> q[i + n]]) = m
  BY <1>2, <1>3
<1> QED
  BY <1>2, <1>4 DEF m

\* The number of leading zero-length frames, up to two
LEMMA LeadingCounted ==
  ASSUME NEW q \in Seq(Content)
  PROVE  /\ LeadingZifs(q) \in 0 .. 2
         /\ LeadingZifs(q) >= 1 => Len(q) >= 1 /\ q[1] = ZIF
         /\ LeadingZifs(q) >= 2 => Len(q) >= 2 /\ q[2] = ZIF
<1>1. Len(q) \in Nat
  OBVIOUS
<1>2. CASE Len(q) = 0 \/ q[1] # ZIF
  BY <1>1, <1>2 DEF LeadingZifs
<1>3. CASE Len(q) # 0 /\ q[1] = ZIF /\ (Len(q) = 1 \/ q[2] # ZIF)
  BY <1>1, <1>3 DEF LeadingZifs
<1>4. CASE Len(q) # 0 /\ q[1] = ZIF /\ Len(q) # 1 /\ q[2] = ZIF
  <2>1. LeadingZifs(q) = 2
    BY <1>4 DEF LeadingZifs
  <2>2. \A n \in Nat : n # 0 /\ n # 1 => n >= 2
    OBVIOUS
  <2>3. Len(q) >= 2
    BY <1>1, <1>4, <2>2
  <2> QED
    BY <1>4, <2>1, <2>3
<1> QED
  BY <1>2, <1>3, <1>4

\* How many frames fit
LEMMA SizeOfWindow ==
  ASSUME NEW a \in Nat, NEW b \in Nat
  PROVE  Minimum(a, b) \in Nat /\ Minimum(a, b) <= a /\ Minimum(a, b) <= b
BY DEF Minimum

\* After a new window the first frames are zero-length ones if they have to be.
LEMMA NewWindowSound ==
  ASSUME NEW p, Sound(p), p.length = 0, NEW zifs \in ZifChoices(p)
  PROVE  Sound(NewWindow(p, zifs))
<1> DEFINE q1 == SubSeq(p.q, p.size + 1, Len(p.q))
           q2 == Zifs(zifs) \o q1
           max == IF NeedZif(p) THEN 2 ELSE NrMax - 1 - p.tx_nr
           size == Minimum(max, Len(q2))
           r == NewWindow(p, zifs)
<1>1. /\ p \in PipeRec /\ p.q \in Seq(Content) /\ p.size \in Nat /\ p.tx_nr \in 0 .. NrMax - 1
      /\ p.size <= Len(p.q) /\ NrMax \in Nat
  BY PipeFields, Modulus DEF Sound, Inside
<1>2. q1 \in Seq(Content)
  BY <1>1, RestType
<1>3. /\ LeadingZifs(q1) \in 0 .. 2
      /\ LeadingZifs(q1) >= 1 => Len(q1) >= 1 /\ q1[1] = ZIF
      /\ LeadingZifs(q1) >= 2 => Len(q1) >= 2 /\ q1[2] = ZIF
  BY <1>2, LeadingCounted
<1>4. /\ zifs \in Nat
      /\ ~line.short /\ NeedZif(p) => zifs = 2 - LeadingZifs(q1)
  BY <1>3 DEF ZifChoices
<1>5. /\ r = [p EXCEPT !.q = q2, !.size = size, !.length = size, !.cur = 1,
                       !.curLength = size, !.curNr = p.tx_nr, !.t200 = FALSE]
  BY Zenon DEF NewWindow
<1> HIDE DEF q1, r
<1>6. /\ Zifs(zifs) \in Seq(Content) /\ Len(Zifs(zifs)) = zifs
      /\ \A i \in 1 .. zifs : Zifs(zifs)[i] = ZIF
  BY <1>4, ZifsType
<1>7. /\ q2 \in Seq(Content) /\ Len(q2) = zifs + Len(q1) /\ Len(q2) \in Nat /\ Len(q1) \in Nat
      /\ \A i \in 1 .. zifs : q2[i] = ZIF
      /\ \A i \in zifs + 1 .. Len(q2) : q2[i] = q1[i - zifs]
  <2> DEFINE z == Zifs(zifs)
  <2>1. z \in Seq(Content) /\ Len(z) = zifs /\ \A i \in 1 .. zifs : z[i] = ZIF
    BY <1>6
  <2> HIDE DEF z
  <2>2. /\ z \o q1 \in Seq(Content) /\ Len(z \o q1) = zifs + Len(q1)
        /\ Len(z \o q1) \in Nat /\ Len(q1) \in Nat
    BY <1>2, <2>1
  <2>3. \A i \in 1 .. zifs : (z \o q1)[i] = ZIF
    BY <1>2, <1>4, <2>1, <2>2
  <2>4. \A i \in zifs + 1 .. Len(z \o q1) : (z \o q1)[i] = q1[i - zifs]
    BY <1>2, <1>4, <2>1, <2>2
  <2> QED
    BY <2>2, <2>3, <2>4 DEF z
<1> HIDE DEF q2
<1>8. max \in Nat /\ size \in Nat /\ size <= max /\ size <= Len(q2)
  <2>1. max \in Nat
    BY <1>1
  <2> QED
    BY <1>7, <2>1, SizeOfWindow
<1>9. ASSUME ~line.short, NEW i \in 0 .. size - 1, q2[1 + i] # ZIF
      PROVE  p.tx_nr + i \in 1 .. NrMax - 2
  <2>1. CASE NeedZif(p)
    <3>1. i \in {0, 1} /\ 1 + i <= Len(q2) /\ zifs = 2 - LeadingZifs(q1)
      BY <1>4, <1>7, <1>8, <1>9, <2>1
    <3>2. zifs \in {0, 1, 2} /\ LeadingZifs(q1) = 2 - zifs
      BY <1>3, <3>1
    <3>3. CASE zifs = 2
      BY <1>7, <1>9, <3>1, <3>3
    <3>4. CASE zifs = 1
      <4>1. q2[1] = ZIF /\ q1[1] = ZIF
        BY <1>3, <1>7, <3>2, <3>4
      <4>2. 1 + i = 2 => q2[2] = q1[1]
        BY <1>7, <3>1, <3>4
      <4> QED
        BY <1>9, <3>1, <4>1, <4>2
    <3>5. CASE zifs = 0
      <4>1. q1[1] = ZIF /\ q1[2] = ZIF
        BY <1>3, <3>2, <3>5
      <4>2. q2[1 + i] = q1[1 + i]
        BY <1>7, <3>1, <3>5
      <4> QED
        BY <1>9, <3>1, <4>1, <4>2
    <3> QED
      BY <3>2, <3>3, <3>4, <3>5
  <2>2. CASE ~NeedZif(p)
    <3>1. p.tx_nr \notin {0, NrMax - 1} /\ size <= NrMax - 1 - p.tx_nr
      BY <1>8, <2>2 DEF NeedZif
    <3> QED
      BY <1>1, <1>8, <1>9, <3>1
  <2> QED
    BY <2>1, <2>2
<1> HIDE DEF max, size
<1>10. /\ r \in PipeRec /\ r.q = q2 /\ r.size = size /\ r.length = size /\ r.cur = 1
       /\ r.curLength = size /\ r.curNr = p.tx_nr
  BY <1>1, <1>5, <1>7, <1>8 DEF PipeRec
<1>11. Inside(r)
  BY <1>7, <1>8, <1>10 DEF Inside
<1>12. Unwrapped(r)
  BY <1>9, <1>10 DEF Unwrapped
<1> QED
  BY <1>10, <1>11, <1>12 DEF Sound, r


-----------------------------------------------------------------------------
(* dss1_l2_get_mbuf *)

LEMMA WindowIsSound ==
  ASSUME NEW p, Sound(p), NEW zifs \in ZifChoices(p)
  PROVE  /\ Sound(Window(p, zifs))
         /\ Window(p, zifs).curLength > 0 => Window(p, zifs).length > 0
              \/ Window(p, zifs).length = Window(p, zifs).curLength
<1>1. CASE p.length = 0
  <2>1. Window(p, zifs) = NewWindow(p, zifs)
    BY <1>1 DEF Window
  <2>2. NewWindow(p, zifs).length = NewWindow(p, zifs).curLength
    BY DEF NewWindow, Sound, PipeRec
  <2> QED
    BY <1>1, <2>1, <2>2, NewWindowSound
<1>2. CASE p.length # 0
  <2>1. Window(p, zifs) = p /\ p.length > 0
    BY <1>2, PipeFields DEF Window, Sound
  <2> QED
    BY <2>1
<1> QED
  BY <1>1, <1>2

\* The next frame of the window
LEMMA SentSound ==
  ASSUME NEW p, Sound(p), p.curLength > 0, p.length > 0
  PROVE  Sound(Sent(p))
<1> DEFINE r == Sent(p)
<1>1. /\ p \in PipeRec /\ p.cur \in Nat /\ p.curLength \in Nat /\ p.curNr \in 0 .. NrMax - 1
      /\ NrMax \in Nat /\ p.size \in Nat
  BY PipeFields, Modulus DEF Sound
<1>2. /\ p.cur + 1 \in Nat /\ p.curLength - 1 \in Nat /\ (p.curNr + 1) % NrMax \in 0 .. NrMax - 1
      /\ p.curNr + 1 < NrMax => (p.curNr + 1) % NrMax = p.curNr + 1
  BY <1>1
<1>3. /\ r = [p EXCEPT !.cur = p.cur + 1, !.curLength = p.curLength - 1,
                       !.curNr = (p.curNr + 1) % NrMax]
  BY DEF Sent
<1> DEFINE n == (p.curNr + 1) % NrMax
<1> HIDE DEF r, n
<1>4. /\ r \in PipeRec /\ r.q = p.q /\ r.size = p.size /\ r.length = p.length
      /\ r.cur = p.cur + 1 /\ r.curLength = p.curLength - 1 /\ r.curNr = n
  BY <1>1, <1>2, <1>3 DEF PipeRec, n
<1>5. Inside(r)
  BY <1>1, <1>4 DEF Inside, Sound
<1>6. Unwrapped(r)
  <2> SUFFICES ASSUME ~line.short, NEW i \in 0 .. r.curLength - 1, r.q[r.cur + i] # ZIF
               PROVE  r.curNr + i \in 1 .. NrMax - 2
    BY DEF Unwrapped
  <2>1. i + 1 \in 0 .. p.curLength - 1 /\ p.q[p.cur + (i + 1)] # ZIF
    <3>1. i + 1 \in 0 .. p.curLength - 1 /\ r.cur + i = p.cur + (i + 1)
      BY <1>1, <1>4
    <3> QED
      BY <1>4, <3>1
  <2>2. p.curNr + (i + 1) \in 1 .. NrMax - 2
    BY <2>1 DEF Sound, Unwrapped
  <2>3. i \in Nat
    BY <1>1, <1>4
  <2>4. n = p.curNr + 1
    BY <1>1, <1>2, <2>2, <2>3 DEF n
  <2> QED
    BY <1>1, <1>4, <2>2, <2>3, <2>4
<1> QED
  BY <1>4, <1>5, <1>6 DEF Sound, r

LEMMA NotSentSound ==
  ASSUME NEW p, Sound(p)
  PROVE  Sound(NotSent(p))
<1> DEFINE r == NotSent(p)
<1>1. p \in PipeRec
  BY DEF Sound
<1>2. r \in PipeRec /\ r.q = p.q /\ r.size = p.size /\ r.length = p.length /\ r.curLength = 0
  BY <1>1 DEF NotSent, PipeRec
<1> HIDE DEF r
<1> QED
  BY <1>2 DEF Sound, Inside, Unwrapped, r

LEMMA FrameSound ==
  ASSUME NEW p, Sound(p), p.curLength > 0, p.length > 0
  PROVE  SoundFrame(CurrentFrame(p))
<1>1. /\ p \in PipeRec /\ p.cur \in Nat /\ p.curLength \in Nat /\ p.curNr \in 0 .. NrMax - 1
      /\ p.size \in Nat /\ p.q \in Seq(Content) /\ Len(p.q) \in Nat
  BY PipeFields DEF Sound
<1>2. p.cur + 0 = p.cur /\ 0 \in 0 .. p.curLength - 1 /\ p.curNr + 0 = p.curNr
  BY <1>1
<1>3. p.cur \in 1 .. Len(p.q)
  BY <1>1 DEF Sound, Inside
<1>4. PICK d \in Content : d = p.q[p.cur]
  BY <1>1, <1>3
<1>5. ~line.short /\ d # ZIF => p.curNr \in 1 .. NrMax - 2
  <2>1. ~line.short /\ p.q[p.cur + 0] # ZIF => p.curNr + 0 \in 1 .. NrMax - 2
    BY <1>2 DEF Sound, Unwrapped
  <2> QED
    BY <1>2, <1>4, <2>1
<1>6. PICK b \in BOOLEAN : b = (p.curLength = 1)
  OBVIOUS
<1>7. CurrentFrame(p) = [type |-> "I", ns |-> p.curNr, p |-> b, data |-> d]
  BY <1>3, <1>4, <1>6, <1>1 DEF CurrentFrame, IFrame
<1>8. CurrentFrame(p) \in Frames
  BY <1>1, <1>7 DEF Frames, Content
<1> QED
  BY <1>5, <1>7, <1>8 DEF SoundFrame

-----------------------------------------------------------------------------
(* The line *)

Travels(ch) == ch \in Seq(Frames \cup UFrames) /\ \A i \in 1 .. Len(ch) : SoundFrame(ch[i])

LEMMA ForwardTail ==
  ASSUME NEW ch, Travels(ch), ch # << >>
  PROVE  Travels(Tail(ch)) /\ SoundFrame(Head(ch))
<1>1. ch \in Seq(Frames \cup UFrames) /\ Len(ch) \in Nat /\ Len(ch) >= 1
  BY DEF Travels
<1>2. Tail(ch) \in Seq(Frames \cup UFrames) /\ Len(Tail(ch)) = Len(ch) - 1
  BY <1>1
<1>3. ASSUME NEW i \in 1 .. Len(Tail(ch))
      PROVE  SoundFrame(Tail(ch)[i])
  <2>1. i + 1 \in 1 .. Len(ch) /\ Tail(ch)[i] = ch[i + 1]
    BY <1>1, <1>2
  <2> QED
    BY <2>1 DEF Travels
<1>4. Head(ch) = ch[1] /\ 1 \in 1 .. Len(ch)
  BY <1>1
<1> QED
  BY <1>2, <1>3, <1>4 DEF Travels

LEMMA ForwardAppend ==
  ASSUME NEW ch, Travels(ch), NEW f, SoundFrame(f)
  PROVE  Travels(Append(ch, f))
<1>1. ch \in Seq(Frames \cup UFrames) /\ Len(ch) \in Nat /\ f \in Frames \cup UFrames
  BY DEF Travels, SoundFrame
<1>2. Append(ch, f) \in Seq(Frames \cup UFrames) /\ Len(Append(ch, f)) = Len(ch) + 1
  BY <1>1
<1>3. ASSUME NEW i \in 1 .. Len(Append(ch, f))
      PROVE  SoundFrame(Append(ch, f)[i])
  <2>1. CASE i = Len(ch) + 1
    BY <1>1, <2>1
  <2>2. CASE i # Len(ch) + 1
    <3>1. i \in 1 .. Len(ch) /\ Append(ch, f)[i] = ch[i]
      BY <1>1, <1>2, <2>2
    <3> QED
      BY <3>1 DEF Travels
  <2> QED
    BY <2>1, <2>2
<1> QED
  BY <1>2, <1>3 DEF Travels

\* What dss1_pipe_set_state sends: nothing, or one U-frame
Announcements == {<< >>, <<Sabme>>, <<Disc>>}

LEMMA UFrameSound ==
  SoundFrame(Sabme) /\ SoundFrame(Disc) /\ Sabme \in UFrames /\ Disc \in UFrames
BY DEF SoundFrame, UFrames, Sabme, Disc

LEMMA ForwardAnnounces ==
  ASSUME NEW ch, Travels(ch), NEW out \in Announcements
  PROVE  Travels(ch \o out)
<1>1. ch \in Seq(Frames \cup UFrames)
  BY DEF Travels
<1>2. CASE out = << >>
  <2>1. ch \o out = ch
    BY <1>1, <1>2
  <2> QED
    BY <2>1
<1>3. ASSUME NEW f, f \in {Sabme, Disc}, out = <<f>>
      PROVE  Travels(ch \o out)
  <2>1. f \in Frames \cup UFrames /\ SoundFrame(f)
    BY <1>3, UFrameSound
  <2>2. ch \o out = Append(ch, f)
    BY <1>1, <1>3, <2>1
  <2> QED
    BY <2>1, <2>2, ForwardAppend
<1> QED
  BY <1>2, <1>3 DEF Announcements

LEMMA Announced ==
  ASSUME NEW p, NEW new, NEW keep
  PROVE  /\ SetStateTx(p, new, keep) \in Announcements
         /\ ActivateTx(p) \in Announcements
         /\ << >> \in Announcements
BY DEF SetStateTx, ActivateTx, Announcements

LEMMA DataQueued ==
  ASSUME NEW p, Sound(p)
  PROVE  QueuedData(p.q) \subseteq Data
BY PipeFields DEF QueuedData, Content, Sound

-----------------------------------------------------------------------------
(* A step *)

LEMMA Known ==
  ASSUME LinkInv
  PROVE  /\ line \in Lines /\ line.load \in Nat
         /\ Sound(pipe) /\ Travels(fwd)
         /\ rx_nr \in 0 .. NrMax - 1
         /\ bwd \in Seq(Replies \cup UFrames)
         /\ next \in 1 .. line.load + 1
         /\ delivered \subseteq Data /\ dropped \subseteq Data
<1>1. line \in Lines /\ line.load \in Nat
  BY LinkAssumption DEF LinkInv, TypeOK, AllLines
<1> QED
  BY <1>1 DEF LinkInv, TypeOK, Travels

LEMMA Stepped ==
  ASSUME LinkInv, line' = line, Sound(pipe'), Travels(fwd'), rx_nr' \in 0 .. NrMax - 1,
         bwd' \in Seq(Replies \cup UFrames), next' \in 1 .. line.load + 1,
         delivered' \subseteq Data, dropped' \subseteq Data
  PROVE  LinkInv'
<1>1. Data' = Data /\ Content' = Content /\ Frames' = Frames /\ PipeRec' = PipeRec
  BY DEF Data, Content, Frames, PipeRec
<1>2. Sound(pipe)'
  BY <1>1 DEF Sound, Inside, Unwrapped
<1>3. (\A i \in 1 .. Len(fwd) : SoundFrame(fwd[i]))'
  BY <1>1 DEF Travels, SoundFrame
<1>4. TypeOK'
  <2>1. pipe' \in PipeRec
    BY DEF Sound
  <2>2. (line \in Lines)' /\ (next \in 1 .. line.load + 1)'
    BY Known
  <2>3. /\ (rx_nr \in 0 .. NrMax - 1)' /\ (bwd \in Seq(Replies \cup UFrames))'
        /\ (delivered \subseteq Data)' /\ (dropped \subseteq Data)'
        /\ (fwd \in Seq(Frames \cup UFrames))'
    BY <1>1 DEF Travels
  <2>4. (pipe \in PipeRec)'
    BY <1>1, <2>1
  <2> QED
    BY <2>2, <2>3, <2>4 DEF TypeOK, PipeRec, Content
<1> QED
  BY <1>2, <1>3, <1>4 DEF LinkInv


-----------------------------------------------------------------------------
(* One lemma per action of the sender *)

LEMMA OpenPipeStep ==
  ASSUME LinkInv, line' = line, OpenPipe
  PROVE  LinkInv'
<1>1. Sound(Activated(pipe))
  BY Known, ActivatedSound
<1>2. PICK r \in 0 .. 1 : r = 1
  OBVIOUS
<1>3. Sound(pipe')
  BY <1>1, <1>2, Referenced DEF OpenPipe
<1>4. Travels(fwd')
  BY Known, Announced, ForwardAnnounces DEF OpenPipe
<1> QED
  BY <1>3, <1>4, Known, Stepped DEF OpenPipe

LEMMA ClosePipeStep ==
  ASSUME LinkInv, line' = line, ClosePipe
  PROVE  LinkInv'
<1>1. PICK r \in 0 .. 1 : r = 0
  OBVIOUS
<1>2. Sound(pipe')
  BY <1>1, Known, Referenced DEF ClosePipe
<1> QED
  BY <1>2, Known, Stepped DEF ClosePipe

LEMMA DataReqStep ==
  ASSUME LinkInv, line' = line, DataReq
  PROVE  LinkInv'
<1>1. /\ next \in Data /\ next' \in 1 .. line.load + 1
  BY Known DEF DataReq, Data
<1>2. CASE Len(pipe.q) >= QueueMax
  <2>1. pipe' = pipe /\ dropped' \subseteq Data
    BY <1>1, <1>2, Known DEF DataReq
  <2> QED
    BY <1>1, <2>1, Known, Stepped DEF DataReq
<1>3. CASE ~(Len(pipe.q) >= QueueMax)
  <2>1. pipe' = [pipe EXCEPT !.q = Append(pipe.q, next)] /\ dropped' = dropped
    BY <1>3 DEF DataReq
  <2>2. /\ pipe \in PipeRec /\ pipe.q \in Seq(Content) /\ next \in Content
        /\ Len(pipe.q) \in Nat /\ pipe.size \in Nat /\ pipe.length \in Nat
        /\ pipe.cur \in Nat /\ pipe.curLength \in Nat
    BY <1>1, Known, PipeFields DEF Sound, Content
  <2>3. /\ Append(pipe.q, next) \in Seq(Content)
        /\ Len(Append(pipe.q, next)) = Len(pipe.q) + 1
        /\ \A i \in 1 .. Len(pipe.q) : Append(pipe.q, next)[i] = pipe.q[i]
    BY <2>2
  <2>4. /\ pipe' \in PipeRec /\ pipe'.q = Append(pipe.q, next) /\ pipe'.size = pipe.size
        /\ pipe'.length = pipe.length /\ pipe'.cur = pipe.cur
        /\ pipe'.curLength = pipe.curLength /\ pipe'.curNr = pipe.curNr
    BY <2>1, <2>2, <2>3 DEF PipeRec
  <2>5. Inside(pipe) /\ Unwrapped(pipe)
    BY Known DEF Sound
  <2>6. Inside(pipe')
    BY <2>2, <2>3, <2>4, <2>5 DEF Inside
  <2>7. Unwrapped(pipe')
    <3> SUFFICES ASSUME ~line.short, pipe'.length > 0, NEW i \in 0 .. pipe'.curLength - 1,
                        pipe'.q[pipe'.cur + i] # ZIF
                 PROVE  pipe'.curNr + i \in 1 .. NrMax - 2
      BY DEF Unwrapped
    <3>1. pipe.cur + i \in 1 .. Len(pipe.q)
      <4>1. i \in 0 .. pipe.curLength - 1 /\ pipe.length > 0 /\ pipe.curLength > 0
        BY <2>2, <2>4
      <4>2. /\ pipe.cur >= 1 /\ pipe.cur + pipe.curLength = pipe.size + 1
            /\ pipe.size <= Len(pipe.q)
        BY <2>5, <4>1 DEF Inside
      <4> QED
        BY <2>2, <4>1, <4>2
    <3>2. pipe'.q[pipe'.cur + i] = pipe.q[pipe.cur + i]
      BY <2>3, <2>4, <3>1
    <3>3. i \in 0 .. pipe.curLength - 1 /\ pipe.length > 0
      BY <2>4
    <3>4. pipe.curNr + i \in 1 .. NrMax - 2
      BY <2>5, <3>2, <3>3 DEF Unwrapped
    <3> QED
      BY <2>4, <3>4
  <2>8. Sound(pipe')
    BY <2>4, <2>6, <2>7 DEF Sound
  <2> QED
    BY <1>1, <2>1, <2>8, Known, Stepped DEF DataReq
<1> QED
  BY <1>2, <1>3

LEMMA DataAcknowledgeStep ==
  ASSUME LinkInv, line' = line, DataAcknowledge
  PROVE  LinkInv'
<1>1. PICK S \in SUBSET QueuedData(pipe.q) \ {{}} :
        /\ pipe' = [pipe EXCEPT !.q =
                      [i \in DOMAIN pipe.q |-> IF pipe.q[i] \in S THEN ZIF ELSE pipe.q[i]]]
        /\ dropped' = dropped \cup S
        /\ UNCHANGED <<rx_nr, fwd, bwd, next, delivered>>
  BY DEF DataAcknowledge
<1> DEFINE q1 == [i \in DOMAIN pipe.q |-> IF pipe.q[i] \in S THEN ZIF ELSE pipe.q[i]]
<1>2. /\ pipe \in PipeRec /\ pipe.q \in Seq(Content) /\ Len(pipe.q) \in Nat
      /\ pipe.size \in Nat /\ pipe.length \in Nat /\ pipe.cur \in Nat /\ pipe.curLength \in Nat
  BY Known, PipeFields DEF Sound
<1>3. DOMAIN pipe.q = 1 .. Len(pipe.q) /\ \A i \in 1 .. Len(pipe.q) : pipe.q[i] \in Content
  BY <1>2
<1>4. /\ q1 \in Seq(Content) /\ Len(q1) = Len(pipe.q)
      /\ \A i \in 1 .. Len(pipe.q) : q1[i] # ZIF => pipe.q[i] # ZIF
  BY <1>2, <1>3 DEF Content
<1> HIDE DEF q1
<1>5. pipe' = [pipe EXCEPT !.q = q1]
  BY <1>1 DEF q1
<1>6. /\ pipe' \in PipeRec /\ pipe'.q = q1 /\ pipe'.size = pipe.size
      /\ pipe'.length = pipe.length /\ pipe'.cur = pipe.cur
      /\ pipe'.curLength = pipe.curLength /\ pipe'.curNr = pipe.curNr
  BY <1>2, <1>4, <1>5 DEF PipeRec
<1>7. Inside(pipe) /\ Unwrapped(pipe)
  BY Known DEF Sound
<1>8. Inside(pipe')
  BY <1>4, <1>6, <1>7 DEF Inside
<1>9. Unwrapped(pipe')
  <2> SUFFICES ASSUME ~line.short, pipe'.length > 0, NEW i \in 0 .. pipe'.curLength - 1,
                      pipe'.q[pipe'.cur + i] # ZIF
               PROVE  pipe'.curNr + i \in 1 .. NrMax - 2
    BY DEF Unwrapped
  <2>1. pipe.cur + i \in 1 .. Len(pipe.q)
    BY <1>2, <1>6, <1>7 DEF Inside
  <2> QED
    BY <1>4, <1>6, <1>7, <2>1 DEF Unwrapped
<1>10. Sound(pipe')
  BY <1>6, <1>8, <1>9 DEF Sound
<1>11. S \subseteq Data
  BY Known, DataQueued
<1> QED
  BY <1>1, <1>10, <1>11, Known, Stepped


LEMMA StateTimeoutStep ==
  ASSUME LinkInv, line' = line, StateTimeout
  PROVE  LinkInv'
<1>1. PICK keep \in MayKeep :
        LET new == TimeoutState[pipe.state] IN
        /\ pipe' = SetState(pipe, new, keep)
        /\ fwd' = fwd \o SetStateTx(pipe, new, keep)
        /\ dropped' = dropped \cup Lost(pipe, pipe')
        /\ UNCHANGED <<rx_nr, bwd, next, delivered>>
  BY DEF StateTimeout
<1>2. PICK new \in States : new = TimeoutState[pipe.state]
  BY Known, PipeFields, StateTypes DEF Sound
<1>3. Sound(pipe')
  BY <1>1, <1>2, Known, SetStateSound
<1>4. Travels(fwd')
  BY <1>1, Known, Announced, ForwardAnnounces
<1>5. Lost(pipe, pipe') \subseteq Data
  BY Known, DataQueued DEF Lost
<1> QED
  BY <1>1, <1>3, <1>4, <1>5, Known, Stepped

LEMMA GetMbufTimeoutStep ==
  ASSUME LinkInv, line' = line, GetMbufTimeout
  PROVE  LinkInv'
<1>1. /\ pipe \in PipeRec /\ pipe.size \in Nat /\ pipe.length \in Nat
      /\ pipe.length <= pipe.size /\ pipe.size <= Len(pipe.q) /\ Len(pipe.q) \in Nat
  BY Known, PipeFields DEF Sound, Inside
<1>2. PICK n \in Nat : n = pipe.size - pipe.length /\ n <= Len(pipe.q)
  BY <1>1
<1>3. pipe' = [pipe EXCEPT !.size = n, !.length = 0, !.t200 = FALSE]
  BY <1>2 DEF GetMbufTimeout
<1>4. pipe' \in PipeRec /\ pipe'.length = 0 /\ pipe'.size = n /\ pipe'.q = pipe.q
  BY <1>1, <1>3 DEF PipeRec
<1>5. Sound(pipe')
  BY <1>2, <1>4 DEF Sound, Inside, Unwrapped
<1> QED
  BY <1>5, Known, Stepped DEF GetMbufTimeout

LEMMA GetMbufStep ==
  ASSUME LinkInv, line' = line, GetMbuf
  PROVE  LinkInv'
<1>1. PICK zifs \in ZifChoices(pipe), copied \in (IF line.short THEN BOOLEAN ELSE {TRUE}) :
        LET p1 == Window(pipe, zifs) IN
        /\ CASE p1.curLength > 0 /\ copied ->
                  pipe' = Sent(p1) /\ fwd' = Append(fwd, CurrentFrame(p1))
             [] p1.curLength > 0 /\ ~copied ->
                  pipe' = NotSent(Sent(p1)) /\ UNCHANGED fwd
             [] OTHER ->
                  pipe' = NotSent(p1) /\ UNCHANGED fwd
        /\ UNCHANGED <<rx_nr, bwd, next, delivered, dropped>>
  BY DEF GetMbuf
<1> DEFINE p1 == Window(pipe, zifs)
<1>2. Sound(p1) /\ (p1.curLength > 0 => p1.length > 0 \/ p1.length = p1.curLength)
  BY Known, WindowIsSound
<1> HIDE DEF p1
<1>3. p1.curLength \in Nat /\ p1.length \in Nat
  BY <1>2, PipeFields DEF Sound
<1>4. p1.curLength > 0 => p1.length > 0
  BY <1>2, <1>3
<1>5. CASE p1.curLength > 0 /\ copied
  <2>1. pipe' = Sent(p1) /\ fwd' = Append(fwd, CurrentFrame(p1))
    BY <1>1, <1>5 DEF p1
  <2>2. Sound(pipe') /\ Travels(fwd')
    BY <1>2, <1>4, <1>5, <2>1, Known, SentSound, FrameSound, ForwardAppend
  <2> QED
    BY <1>1, <2>2, Known, Stepped
<1>6. CASE p1.curLength > 0 /\ ~copied
  <2>1. pipe' = NotSent(Sent(p1)) /\ fwd' = fwd
    BY <1>1, <1>6 DEF p1
  <2>2. Sound(pipe')
    BY <1>2, <1>4, <1>6, <2>1, SentSound, NotSentSound
  <2> QED
    BY <1>1, <2>1, <2>2, Known, Stepped
<1>7. CASE ~(p1.curLength > 0)
  <2>1. pipe' = NotSent(p1) /\ fwd' = fwd
    BY <1>1, <1>7 DEF p1
  <2>2. Sound(pipe')
    BY <1>2, <2>1, NotSentSound
  <2> QED
    BY <1>1, <2>1, <2>2, Known, Stepped
<1> QED
  BY <1>5, <1>6, <1>7

LEMMA BwdTail ==
  ASSUME NEW ch \in Seq(Replies \cup UFrames), ch # << >>
  PROVE  /\ Tail(ch) \in Seq(Replies \cup UFrames)
         /\ Head(ch).type \notin {"SABME", "DISC"} => Head(ch).nr \in 0 .. NrMax - 1
<1>1. Tail(ch) \in Seq(Replies \cup UFrames) /\ Head(ch) \in Replies \cup UFrames
  OBVIOUS
<1> QED
  BY <1>1 DEF Replies, UFrames, Sabme, Disc

LEMMA PutMbufStep ==
  ASSUME LinkInv, line' = line, PutMbuf
  PROVE  LinkInv'
<1>1. PICK keep \in MayKeep :
        LET f    == Head(bwd)
            p0   == IF line.side = "TE" THEN pipe ELSE Activated(pipe)
            out0 == IF line.side = "TE" THEN << >> ELSE ActivateTx(pipe)
            out1 == IF TeiAssigned(p0) /\ f.type = "S"
                    THEN CheckNRTx(p0, f.nr, keep) ELSE << >>
        IN /\ bwd # << >>
           /\ pipe' = IF ~TeiAssigned(p0) THEN p0 ELSE
                      CASE f.type = "SABME" -> SetState(p0, "SEND_UA", keep)
                        [] f.type = "DISC"  -> SetState(p0, "PAUSE", keep)
                        [] OTHER            -> CheckNR(p0, f.nr, keep)
           /\ fwd' = fwd \o out0 \o out1
           /\ bwd' = Tail(bwd)
           /\ dropped' = dropped \cup Lost(pipe, pipe')
           /\ UNCHANGED <<rx_nr, next, delivered>>
  BY DEF PutMbuf
<1> DEFINE f == Head(bwd)
           p0 == IF line.side = "TE" THEN pipe ELSE Activated(pipe)
           out0 == IF line.side = "TE" THEN << >> ELSE ActivateTx(pipe)
           out1 == IF TeiAssigned(p0) /\ f.type = "S"
                   THEN CheckNRTx(p0, f.nr, keep) ELSE << >>
<1>2. Sound(p0)
  BY Known, ActivatedSound
<1>3. bwd' \in Seq(Replies \cup UFrames)
      /\ (f.type \notin {"SABME", "DISC"} => f.nr \in 0 .. NrMax - 1)
  BY <1>1, Known, BwdTail
<1>4. out0 \in Announcements /\ out1 \in Announcements
  BY Announced DEF CheckNRTx
<1>5. fwd' = fwd \o out0 \o out1
  BY <1>1
<1> HIDE DEF out0, out1
<1>6. Travels(fwd')
  BY <1>4, <1>5, Known, ForwardAnnounces
<1>7. /\ ~TeiAssigned(p0) => pipe' = p0
      /\ TeiAssigned(p0) /\ f.type = "SABME" => pipe' = SetState(p0, "SEND_UA", keep)
      /\ TeiAssigned(p0) /\ f.type = "DISC" => pipe' = SetState(p0, "PAUSE", keep)
      /\ TeiAssigned(p0) /\ f.type \notin {"SABME", "DISC"} => pipe' = CheckNR(p0, f.nr, keep)
  BY <1>1
<1> HIDE DEF p0, f
<1>8. Sound(pipe')
  <2>1. Sound(SetState(p0, "SEND_UA", keep)) /\ Sound(SetState(p0, "PAUSE", keep))
    BY <1>2, SetStateSound DEF States
  <2>2. f.type \notin {"SABME", "DISC"} => Sound(CheckNR(p0, f.nr, keep))
    BY <1>2, <1>3, CheckNRSound
  <2> QED
    BY <1>2, <1>7, <2>1, <2>2
<1>9. Lost(pipe, pipe') \subseteq Data
  BY Known, DataQueued DEF Lost
<1>10. dropped' \subseteq Data /\ UNCHANGED <<rx_nr, next, delivered>>
  BY <1>1, <1>9, Known
<1> QED
  BY <1>3, <1>6, <1>8, <1>10, Known, Stepped


-----------------------------------------------------------------------------
(* One lemma per action of the peer and of the line *)

LEMMA PeerIFrameStep ==
  ASSUME LinkInv, line' = line, PeerIFrame
  PROVE  LinkInv'
<1> DEFINE f == Head(fwd)
           ok == f.ns = rx_nr
           nr == IF ok THEN (rx_nr + 1) % NrMax ELSE rx_nr
<1>1. Travels(fwd') /\ SoundFrame(f) /\ f.type = "I"
  BY Known, ForwardTail DEF PeerIFrame
<1>2. f.data \in Content
  BY <1>1 DEF SoundFrame, Frames, UFrames, Sabme, Disc, Content
<1>3. nr \in 0 .. NrMax - 1
  BY Known, Modulus
<1>4. SFrame(nr) \in Replies
  BY <1>3 DEF SFrame, Replies
<1>5. /\ rx_nr' = nr
      /\ delivered' = IF ok THEN delivered \cup ({f.data} \ {ZIF}) ELSE delivered
      /\ bwd' = Append(bwd, SFrame(nr)) \/ bwd' = bwd
      /\ UNCHANGED <<pipe, next, dropped>>
  BY DEF PeerIFrame
<1> HIDE DEF f, ok, nr
<1>6. delivered' \subseteq Data
  BY <1>2, <1>5, Known DEF Content
<1>7. bwd' \in Seq(Replies \cup UFrames)
  BY <1>4, <1>5, Known
<1> QED
  BY <1>1, <1>3, <1>5, <1>6, <1>7, Known, Stepped

LEMMA PeerUFrameStep ==
  ASSUME LinkInv, line' = line, PeerUFrame
  PROVE  LinkInv'
<1>1. Travels(fwd') /\ rx_nr' \in 0 .. NrMax - 1
  BY Known, ForwardTail, Modulus DEF PeerUFrame
<1> QED
  BY <1>1, Known, Stepped DEF PeerUFrame

LEMMA PeerSendsStep ==
  ASSUME LinkInv, line' = line, PeerSendsNR \/ PeerSabme
  PROVE  LinkInv'
<1>1. SFrame(rx_nr) \in Replies /\ Sabme \in UFrames
  BY Known DEF SFrame, Replies, UFrames
<1>2. /\ bwd' = Append(bwd, SFrame(rx_nr)) \/ bwd' = Append(bwd, Sabme)
      /\ UNCHANGED <<pipe, rx_nr, fwd, next, delivered, dropped>>
  BY DEF PeerSendsNR, PeerSabme
<1>3. bwd' \in Seq(Replies \cup UFrames)
  BY <1>1, <1>2, Known
<1> QED
  BY <1>2, <1>3, Known, Stepped

LEMMA PeerPauseStep ==
  ASSUME LinkInv, line' = line, PeerPause
  PROVE  LinkInv'
<1>1. rx_nr' \in 0 .. NrMax - 1
  BY Modulus DEF PeerPause
<1>2. Disc \in UFrames
  BY DEF UFrames
<1>3. bwd' = bwd \o <<Disc>> \/ bwd' = bwd \o << >>
  BY DEF PeerPause
<1>4. bwd' \in Seq(Replies \cup UFrames)
  BY <1>2, <1>3, Known
<1> QED
  BY <1>1, <1>4, Known, Stepped DEF PeerPause

LEMMA LoseStep ==
  ASSUME LinkInv, line' = line, LoseFwd \/ LoseBwd
  PROVE  LinkInv'
<1>1. Travels(fwd')
  BY Known, ForwardTail DEF LoseFwd, LoseBwd
<1>2. bwd' \in Seq(Replies \cup UFrames)
  BY Known, BwdTail DEF LoseFwd, LoseBwd
<1> QED
  BY <1>1, <1>2, Known, Stepped DEF LoseFwd, LoseBwd

-----------------------------------------------------------------------------
(* The theorem *)

LEMMA LinkInit == Init => LinkInv
<1> SUFFICES ASSUME Init
             PROVE  LinkInv
  OBVIOUS
<1>1. line \in Lines /\ line.load \in Nat
  BY LinkAssumption DEF Init, AllLines
<1>2. pipe \in PipeRec
  BY StateTypes, Modulus DEF Init, PipeRec, States
<1>3. Sound(pipe)
  BY <1>2 DEF Init, Sound, Inside, Unwrapped
<1>4. /\ rx_nr \in 0 .. NrMax - 1 /\ next \in 1 .. line.load + 1
      /\ delivered \subseteq Data /\ dropped \subseteq Data
  BY <1>1, Modulus DEF Init
<1>5. fwd \in Seq(Frames \cup UFrames) /\ bwd \in Seq(Replies \cup UFrames) /\ Len(fwd) = 0
  BY DEF Init
<1> QED
  BY <1>1, <1>2, <1>3, <1>4, <1>5 DEF LinkInv, TypeOK, PipeRec, Content

\* LinkInv is inductive: it is what dss1_l2_get_mbuf, dss1_l2_put_mbuf, the two timeouts
\* and the users of the pipe keep between them.
THEOREM LinkInvariance == Spec => []LinkInv
<1>1. LinkInv /\ [Next]_vars => LinkInv'
  <2> SUFFICES ASSUME LinkInv, [Next]_vars
               PROVE  LinkInv'
    OBVIOUS
  <2>1. CASE UNCHANGED vars
    BY <2>1, Known, Stepped DEF vars
  <2>2. CASE Next
    BY <2>2, OpenPipeStep, ClosePipeStep, DataReqStep, DataAcknowledgeStep, StateTimeoutStep,
       GetMbufTimeoutStep, GetMbufStep, PutMbufStep, PeerIFrameStep, PeerUFrameStep,
       PeerSendsStep, PeerPauseStep, LoseStep DEF Next
  <2> QED
    BY <2>1, <2>2
<1> QED
  BY LinkInit, <1>1, PTL DEF Spec

\* The window of a pipe always lies inside its queue, what is still to be sent of it ends
\* with it, and no message travels under the first or the last frame number while mbufs are
\* not short: for every modulus, every queue length, any number of frames in flight and
\* whatever is lost (dss1_l2_get_mbuf, dss1_l2_put_mbuf, dss1_l2_get_mbuf_timeout).
THEOREM WindowAlwaysSound == Spec => []WindowSound
<1>1. LinkInv => WindowSound
  BY DEF LinkInv, WindowSound, Sound, Inside, SoundFrame
<1> QED
  BY <1>1, LinkInvariance, PTL


-----------------------------------------------------------------------------
(* The line (PhLine) *)

\* A state of the chip that was not read yet has an interrupt pending: without this
\* LineKept is not inductive, since CMR_PH_DEACTIVATE reads the chip but starts no timer.
SeenOrPending == irq \/ seen = Shown(chip)

PhInv == LineKept /\ SeenOrPending

Rows == [active : BOOLEAN, up : BOOLEAN, down : BOOLEAN, cmd : 0..9]

\* The rows of both tables
LEMMA StateType ==
  ASSUME NEW s \in 0..15
  PROVE  State(s) \in Rows
<1>1. isac_fsm_table[s] \in Rows
  BY DEF isac_fsm_table, Row, Rows, None
<1>2. hfc_fsm_table[s] \in Rows
  BY DEF hfc_fsm_table, Row, Rows, None
<1> QED
  BY <1>1, <1>2 DEF State

LEMMA ShownType ==
  ASSUME NEW s \in 0..15
  PROVE  Shown(s) \in 0..15
BY DEF Shown, Allowed, Locked

LEMMA ResetType ==
  ASSUME tab \in Tables
  PROVE  Reset0 \in 0..15
BY PhLineAssumption DEF Reset0

\* A command takes the chip to one of its states (fsm_write).
LEMMA CommandedType ==
  ASSUME tab \in Tables, NEW s \in 0..15, NEW cmd \in 0..9
  PROVE  Commanded(s, cmd) \in 0..15
<1>1. CASE tab = "isac"
  BY <1>1 DEF Commanded
<1>2. CASE tab = "hfcTE"
  BY <1>2 DEF Commanded
<1>3. CASE tab = "hfcNT"
  BY <1>3 DEF Commanded, Allowed, Locked
<1> QED
  BY <1>1, <1>2, <1>3, PhLineAssumption

LEMMA LineStepType ==
  ASSUME tab \in Tables, NEW s \in 0..15
  PROVE  Forward(s) \subseteq 0..15 /\ Backward(s) \subseteq 0..15
<1>1. CASE tab = "isac"
  BY <1>1 DEF Forward, Backward
<1>2. CASE tab = "hfcTE"
  BY <1>2 DEF Forward, Backward
<1>3. CASE tab = "hfcNT"
  BY <1>3 DEF Forward, Backward, Allowed, Locked
<1> QED
  BY <1>1, <1>2, <1>3, PhLineAssumption

LEMMA EffectiveType ==
  ASSUME NEW flag \in 0..3, NEW active \in BOOLEAN,
         NEW hold \in BOOLEAN, NEW timer \in BOOLEAN
  PROVE  /\ Effective(flag, active, hold, timer) \in 0..3
         /\ hold /\ ~active /\ flag # 2 =>
              T3Started(timer, Effective(flag, active, hold, timer))
BY DEF Effective, T3Started

\* What ihfc_fsm_update leaves behind, whoever calls it: the state that was read is
\* known above, and a line that is held and down has a timer unless the request was to
\* deactivate it.
FsmDone(flag, c, timer, hold, pend) ==
  /\ chip' \in 0..15 /\ irq' \in BOOLEAN /\ t3' \in BOOLEAN
  /\ seen' \in 0..15 /\ own' \in 0..1 /\ act' \in BOOLEAN
  /\ seen' = Shown(c) /\ (timer => t3') /\ (pend => irq')
  /\ ActivityKnown' /\ SeenOrPending'
  /\ hold /\ ~State(Shown(c)).active /\ flag # 2 => t3'

FsmReady ==
  /\ tab \in Tables /\ seen \in 0..15 /\ own \in 0..1 /\ act \in BOOLEAN
  /\ attached \in BOOLEAN /\ ActivityKnown /\ tab' = tab /\ attached' = attached

LEMMA FsmLemma ==
  ASSUME FsmReady,
         NEW flag \in 0..3, NEW c \in 0..15, NEW timer \in BOOLEAN,
         NEW hold \in BOOLEAN, NEW pend \in BOOLEAN,
         FsmUpdate(flag, c, timer, hold, pend)
  PROVE  FsmDone(flag, c, timer, hold, pend)
<1> USE DEF FsmReady
<1> DEFINE s == State(Shown(c))
           f == Effective(flag, s.active, hold, timer)
           c1 == IF s.cmd # None THEN Commanded(c, s.cmd) ELSE c
           c2 == IF f \in {2, 3} /\ s.down THEN Commanded(c1, 1) ELSE c1
           c3 == IF f \in {1, 3} /\ s.up THEN Commanded(c2, 0) ELSE c2
<1>1. s \in Rows
  BY StateType, ShownType
<1>2. s.active \in BOOLEAN /\ s.cmd \in 0..9
  BY <1>1 DEF Rows
<1>3. c1 \in 0..15
  BY <1>2, CommandedType
<1>4. c2 \in 0..15
  <2> HIDE DEF c1
  <2> QED
    BY <1>3, CommandedType
<1>5. c3 \in 0..15
  <2> HIDE DEF c2
  <2> QED
    BY <1>4, CommandedType
<1>6. /\ chip' = c3 /\ irq' = (pend \/ Shown(c3) # Shown(c))
      /\ t3' = T3Started(timer, f) /\ seen' = Shown(c)
      /\ own' = CASE flag = 1 -> 1 [] flag = 2 -> 0 [] OTHER -> own
      /\ act' = IF attached /\ State(seen).active # s.active THEN s.active ELSE act
  BY DEF FsmUpdate
<1>7. t3' \in BOOLEAN /\ (timer => t3') /\ (hold /\ ~s.active /\ flag # 2 => t3')
  <2> HIDE DEF s
  <2> QED
    BY <1>2, <1>6, EffectiveType DEF T3Started
<1>8. seen' \in 0..15 /\ own' \in 0..1
  BY <1>6, ShownType
<1>9. act' \in BOOLEAN /\ ActivityKnown'
  <2>1. State(seen') = s
    BY <1>6
  <2>2. State(seen)' = s
    BY <2>1 DEF State
  <2>3. State(seen).active \in BOOLEAN
    BY StateType DEF Rows
  <2> HIDE DEF s
  <2> QED
    BY <1>2, <1>6, <2>2, <2>3 DEF ActivityKnown
<1>10. irq' \in BOOLEAN /\ (pend => irq') /\ SeenOrPending'
  <2>1. Shown(chip)' = Shown(c3)
    BY <1>6 DEF Shown
  <2> HIDE DEF c3
  <2> QED
    BY ZenonT(60), <1>6, <2>1 DEF SeenOrPending
<1> QED
  BY <1>5, <1>6, <1>7, <1>8, <1>9, <1>10 DEF FsmDone

LEMMA HoldType ==
  ASSUME PhTypeOK
  PROVE  Hold \in BOOLEAN
<1>1. CASE attached
  BY <1>1 DEF Hold
<1>2. CASE ~attached
  BY <1>2 DEF Hold
<1> QED
  BY <1>1, <1>2

LEMMA PhInitInv == PhInit => PhInv
<1> SUFFICES ASSUME PhInit
             PROVE  PhInv
  OBVIOUS
<1>1. PhTypeOK
  <2>1. chip \in 0..15 /\ seen \in 0..15 /\ tab \in Tables
    BY ResetType DEF PhInit
  <2>2. holds \in 0..MaxHold /\ count \in 0..1 /\ own \in 0..1
    BY PhLineAssumption DEF PhInit
  <2> QED
    BY ZenonT(60), <2>1, <2>2 DEF PhInit, PhTypeOK
<1> QED
  BY <1>1 DEF PhInit, PhInv, LineKept, ActivityKnown, HeldLineRetried, IdleLineWatched,
              SeenOrPending


\* A call of ihfc_fsm_update that leaves the protocol's own variables as they are
LEMMA DriverStep ==
  ASSUME PhInv, UNCHANGED Upper,
         NEW flag \in 0..3, NEW c \in 0..15, NEW timer \in BOOLEAN, NEW pend \in BOOLEAN,
         NEW hold \in BOOLEAN, hold = Hold, FsmUpdate(flag, c, timer, hold, pend),
         flag = 2 => timer = t3 /\ pend = irq /\ c = chip
  PROVE  PhInv'
<1>1. PhTypeOK /\ ActivityKnown
  BY DEF PhInv, LineKept
<1>2. FsmReady
  BY <1>1 DEF PhTypeOK, Upper, FsmReady
<1>3. FsmDone(flag, c, timer, hold, pend)
  BY <1>2, FsmLemma
<1>4. PhTypeOK'
  BY <1>1, <1>3 DEF FsmDone, PhTypeOK, Upper
<1>5. HeldLineRetried'
  <2>1. State(seen)' = State(Shown(c))
    BY <1>3 DEF FsmDone, State, Upper
  <2>2. SUFFICES ASSUME attached, holds > 0, ~State(Shown(c)).active
                 PROVE  t3' \/ irq'
    BY <2>1 DEF HeldLineRetried, Upper
  <2>3. hold
    BY ZenonT(60), <2>2 DEF Hold
  <2>4. CASE flag # 2
    BY <1>3, <2>2, <2>3, <2>4 DEF FsmDone
  <2>5. CASE flag = 2
    <3>1. CASE irq
      BY <1>3, <2>5, <3>1 DEF FsmDone
    <3>2. CASE ~irq
      <4>1. seen = Shown(c)
        BY <2>5, <3>2 DEF PhInv, SeenOrPending
      <4>2. t3
        BY <2>2, <3>2, <4>1 DEF PhInv, LineKept, HeldLineRetried
      <4> QED
        BY <1>3, <2>5, <4>2 DEF FsmDone
    <3> QED
      BY <3>1, <3>2
  <2> QED
    BY <2>4, <2>5
<1>6. IdleLineWatched'
  BY DEF IdleLineWatched, PhInv, LineKept, Upper
<1> QED
  BY <1>3, <1>4, <1>5, <1>6 DEF FsmDone, PhInv, LineKept

LEMMA DriverActions ==
  ASSUME PhInv
  PROVE  /\ Interrupt => PhInv'
         /\ fsm_T3_expire => PhInv'
         /\ ChipReset => PhInv'
         /\ CtlActivate => PhInv'
         /\ CtlDeactivate => PhInv'
<1>1. PICK x \in 0..15 : x = chip
  BY DEF PhInv, LineKept, PhTypeOK
<1>2. PICK t \in BOOLEAN : t = t3
  BY DEF PhInv, LineKept, PhTypeOK
<1>3. PICK i \in BOOLEAN : i = irq
  BY DEF PhInv, LineKept, PhTypeOK
<1>4. PICK h \in BOOLEAN : h = Hold
  BY HoldType DEF PhInv, LineKept
<1>5. PICK r \in 0..15 : r = Reset0
  BY ResetType DEF PhInv, LineKept, PhTypeOK
<1>0. PICK n \in BOOLEAN : n = FALSE
  OBVIOUS
<1>6. PICK g \in {0, 1} : g = IF State(seen).active THEN 1 ELSE 0
  OBVIOUS
<1>7. ASSUME Interrupt
      PROVE  PhInv'
  <2>1. FsmUpdate(0, x, t, h, n) /\ UNCHANGED Upper
    BY ZenonT(60), <1>0, <1>1, <1>2, <1>4, <1>7 DEF Interrupt
  <2> QED
    BY <1>4, <2>1, DriverStep
<1>8. ASSUME fsm_T3_expire
      PROVE  PhInv'
  <2>1. FsmUpdate(3, x, n, h, i) /\ UNCHANGED Upper
    BY ZenonT(60), <1>0, <1>1, <1>3, <1>4, <1>8 DEF fsm_T3_expire
  <2> QED
    BY <1>4, <2>1, DriverStep
<1>9. ASSUME ChipReset
      PROVE  PhInv'
  <2>1. FsmUpdate(g, r, t, h, n) /\ UNCHANGED Upper
    BY ZenonT(60), <1>0, <1>2, <1>4, <1>5, <1>6, <1>9 DEF ChipReset
  <2> QED
    BY <1>4, <2>1, DriverStep
<1>10. ASSUME CtlActivate
       PROVE  PhInv'
  <2>1. FsmUpdate(1, x, t, h, i) /\ UNCHANGED Upper
    BY <1>1, <1>2, <1>3, <1>4, <1>10 DEF CtlActivate
  <2> QED
    BY <1>4, <2>1, DriverStep
<1>11. ASSUME CtlDeactivate
       PROVE  PhInv'
  <2>1. FsmUpdate(2, x, t, h, i) /\ UNCHANGED Upper
    BY <1>1, <1>2, <1>3, <1>4, <1>11 DEF CtlDeactivate
  <2> QED
    BY <1>1, <1>2, <1>3, <1>4, <2>1, DriverStep
<1> QED
  BY <1>7, <1>8, <1>9, <1>10, <1>11

LEMMA ChipActions ==
  ASSUME PhInv
  PROVE  /\ LineForward => PhInv'
         /\ LineBackward => PhInv'
<1>1. PhTypeOK /\ ActivityKnown /\ IdleLineWatched
  BY DEF PhInv, LineKept
<1>2. ASSUME chip' \in 0..15, irq' = TRUE, UNCHANGED <<seen, t3, act, own, Upper>>
      PROVE  PhInv'
  <2>1. PhTypeOK'
    BY <1>1, <1>2 DEF PhTypeOK, Upper
  <2>2. ActivityKnown'
    BY <1>1, <1>2 DEF ActivityKnown, State, Upper
  <2>3. IdleLineWatched'
    BY <1>1, <1>2 DEF IdleLineWatched, Upper
  <2> QED
    BY <1>2, <2>1, <2>2, <2>3 DEF PhInv, LineKept, HeldLineRetried, SeenOrPending
<1>3. Forward(chip) \subseteq 0..15 /\ Backward(chip) \subseteq 0..15
  BY <1>1, LineStepType DEF PhTypeOK
<1> QED
  BY ZenonT(60), <1>2, <1>3 DEF LineForward, LineBackward

\* dss1_L1_activity_timeout without references
LEMMA TimeoutStep ==
  ASSUME PhInv, attached, ActivityTimeout(0), UNCHANGED <<tab, attached, saving, calm>>
  PROVE  PhInv'
<1>1. PhTypeOK /\ ActivityKnown /\ SeenOrPending
  BY DEF PhInv, LineKept
<1>2. holds' = 0 /\ idle' = TRUE /\ count' \in 0..1 /\ frame' \in BOOLEAN
  <2>1. holds' = 0 /\ idle' = TRUE
    BY DEF ActivityTimeout
  <2>2. count' \in 0..1
    BY DEF ActivityTimeout
  <2>3. frame' \in BOOLEAN
    BY ZenonT(60), <1>1 DEF ActivityTimeout, PhTypeOK
  <2> QED
    BY <2>1, <2>2, <2>3
<1>3. /\ chip' \in 0..15 /\ irq' \in BOOLEAN /\ t3' \in BOOLEAN
      /\ seen' \in 0..15 /\ own' \in 0..1 /\ act' \in BOOLEAN
      /\ ActivityKnown' /\ SeenOrPending'
  <2>1. CASE Keep /\ UNCHANGED act
    <3>1. /\ chip' \in 0..15 /\ irq' \in BOOLEAN /\ t3' \in BOOLEAN
          /\ seen' \in 0..15 /\ own' \in 0..1 /\ act' \in BOOLEAN
      BY <1>1, <2>1 DEF PhTypeOK, Keep
    <3> QED
      BY <1>1, <2>1, <3>1 DEF Keep, ActivityKnown, SeenOrPending, State, Shown
  <2>2. CASE FsmUpdate(2, chip, t3, 0 > 0, irq)
    <3>1. PICK x \in 0..15 : x = chip
      BY <1>1 DEF PhTypeOK
    <3>2. PICK t \in BOOLEAN : t = t3
      BY <1>1 DEF PhTypeOK
    <3>3. PICK i \in BOOLEAN : i = irq
      BY <1>1 DEF PhTypeOK
    <3>4. PICK h \in BOOLEAN : h = FALSE
      OBVIOUS
    <3>0. (0 > 0) = FALSE
      OBVIOUS
    <3>5. FsmUpdate(2, x, t, h, i)
      BY <3>0, <2>2, <3>1, <3>2, <3>3, <3>4
    <3>6. FsmReady
      BY <1>1 DEF PhTypeOK, FsmReady
    <3>7. FsmDone(2, x, t, h, i)
      BY <3>5, <3>6, FsmLemma
    <3> QED
      BY <3>7 DEF FsmDone
  <2> QED
    BY <2>1, <2>2 DEF ActivityTimeout
<1>4. PhTypeOK'
  BY <1>1, <1>2, <1>3, PhLineAssumption DEF PhTypeOK
<1> QED
  BY <1>2, <1>3, <1>4 DEF PhInv, LineKept, HeldLineRetried, IdleLineWatched

\* ... and with references, when it only starts again.
LEMMA HeldTimeout ==
  ASSUME PhInv, holds # 0, IdleTimeout
  PROVE  PhInv'
<1>1. PhTypeOK
  BY DEF PhInv, LineKept
<1>2. /\ count' = 0 /\ frame' = FALSE /\ Keep /\ UNCHANGED act /\ idle' = TRUE
      /\ holds' = holds /\ UNCHANGED <<tab, attached, saving, calm>>
  BY DEF IdleTimeout, ActivityTimeout
<1>3. PhTypeOK'
  <2>1. count' \in 0..1
    BY <1>2
  <2>2. frame' \in BOOLEAN /\ idle' \in BOOLEAN
    BY ZenonT(60), <1>2
  <2> QED
    BY <1>1, <1>2, <2>1, <2>2 DEF PhTypeOK, Keep
<1> QED
  BY <1>2, <1>3 DEF PhInv, LineKept, Keep, ActivityKnown, HeldLineRetried,
                    IdleLineWatched, SeenOrPending, State, Shown

LEMMA ActivateStep ==
  ASSUME PhInv, dss1_L1_activate_req
  PROVE  PhInv'
<1>1. PhTypeOK /\ ActivityKnown
  BY DEF PhInv, LineKept
<1>2. /\ holds' \in 0..MaxHold /\ holds' > 0 /\ attached
      /\ UNCHANGED <<tab, attached, frame, saving, calm>>
  BY <1>1, PhLineAssumption DEF dss1_L1_activate_req, PhTypeOK
<1>3. CASE holds = 0
  <2>1. PICK x \in 0..15 : x = chip
    BY <1>1 DEF PhTypeOK
  <2>2. PICK t \in BOOLEAN : t = t3
    BY <1>1 DEF PhTypeOK
  <2>3. PICK i \in BOOLEAN : i = irq
    BY <1>1 DEF PhTypeOK
  <2>4. PICK h \in BOOLEAN : h = TRUE
    OBVIOUS
  <2>5. FsmUpdate(1, x, t, h, i) /\ idle' = FALSE /\ count' = 0
    BY ZenonT(60), <1>3, <2>1, <2>2, <2>3, <2>4 DEF dss1_L1_activate_req
  <2>6. FsmReady
    BY <1>1, <1>2 DEF PhTypeOK, FsmReady
  <2>7. FsmDone(1, x, t, h, i)
    BY <2>5, <2>6, FsmLemma
  <2>8. PhTypeOK'
    <3>1. count' \in 0..1
      BY <2>5
    <3>2. idle' \in BOOLEAN
      BY ZenonT(60), <2>5
    <3> QED
      BY <1>1, <1>2, <3>1, <3>2, <2>7 DEF PhTypeOK, FsmDone
  <2>9. State(seen)' = State(Shown(x))
    BY <1>2, <2>7 DEF State, FsmDone
  <2>10. ~State(seen)'.active => t3'
    BY <2>4, <2>7, <2>9 DEF FsmDone
  <2>11. HeldLineRetried'
    BY <2>10 DEF HeldLineRetried
  <2>12. IdleLineWatched'
    BY <1>2 DEF IdleLineWatched
  <2> QED
    BY <2>7, <2>8, <2>11, <2>12 DEF PhInv, LineKept, FsmDone
<1>4. CASE holds # 0
  <2>1. Keep /\ UNCHANGED <<idle, count, act>>
    BY <1>4 DEF dss1_L1_activate_req
  <2>2. PhTypeOK'
    BY <1>1, <1>2, <2>1 DEF PhTypeOK, Keep
  <2>3. HeldLineRetried'
    <3>1. holds > 0
      BY <1>1, <1>4, PhLineAssumption DEF PhTypeOK
    <3> QED
      BY <1>2, <2>1, <3>1 DEF HeldLineRetried, Keep, PhInv, LineKept, State
  <2> QED
    BY <1>1, <1>2, <2>1, <2>2, <2>3
       DEF PhInv, LineKept, Keep, ActivityKnown, IdleLineWatched, SeenOrPending, State, Shown
<1> QED
  BY <1>3, <1>4

LEMMA DeactivateStep ==
  ASSUME PhInv, dss1_L1_deactivate_req
  PROVE  PhInv'
<1>1. PhTypeOK
  BY DEF PhInv, LineKept
<1>2. CASE holds = 1
  BY <1>2, TimeoutStep DEF dss1_L1_deactivate_req
<1>3. CASE holds # 1
  <2>1. /\ holds' = holds - 1 /\ Keep /\ holds > 0
        /\ UNCHANGED <<idle, count, frame, act, tab, attached, saving, calm>>
    BY <1>3 DEF dss1_L1_deactivate_req
  <2>2. holds' \in 0..MaxHold /\ holds' > 0
    BY <1>1, <1>3, <2>1, PhLineAssumption DEF PhTypeOK
  <2>3. PhTypeOK'
    BY <1>1, <2>1, <2>2 DEF PhTypeOK, Keep
  <2> QED
    BY <2>1, <2>2, <2>3
       DEF PhInv, LineKept, Keep, ActivityKnown, HeldLineRetried, IdleLineWatched,
           SeenOrPending, State, Shown
<1> QED
  BY <1>2, <1>3

LEMMA AttachStep ==
  ASSUME PhInv, NEW on \in BOOLEAN, Attach(on)
  PROVE  PhInv'
<1>1. PhTypeOK
  BY DEF PhInv, LineKept
<1>2. /\ attached' = on /\ holds' = 0 /\ count' = 0 /\ frame' = FALSE
      /\ UNCHANGED <<tab, chip, irq, seen, t3, saving, calm>>
  BY DEF Attach
<1>3. own' \in 0..1
  BY <1>1 DEF Attach, PhTypeOK
<1>4. State(seen).active \in BOOLEAN
  BY <1>1, StateType DEF PhTypeOK, Rows
<1>5. /\ act' \in BOOLEAN /\ idle' \in BOOLEAN
      /\ on => act' = State(seen).active /\ idle' = TRUE
  BY ZenonT(60), <1>4 DEF Attach, Attached
<1>6. PhTypeOK'
  <2>1. count' \in 0..1 /\ holds' \in 0..MaxHold
    BY <1>2, PhLineAssumption
  <2>2. frame' \in BOOLEAN /\ attached' \in BOOLEAN
    BY ZenonT(60), <1>2
  <2> QED
    BY <1>1, <1>2, <1>3, <1>5, <2>1, <2>2 DEF PhTypeOK
<1>7. State(seen)' = State(seen) /\ Shown(chip)' = Shown(chip)
  BY <1>2 DEF State, Shown
<1>8. ActivityKnown'
  BY <1>2, <1>5, <1>7 DEF ActivityKnown
<1>9. HeldLineRetried' /\ IdleLineWatched'
  BY <1>2, <1>5 DEF HeldLineRetried, IdleLineWatched
<1> QED
  BY <1>2, <1>6, <1>7, <1>8, <1>9 DEF PhInv, LineKept, SeenOrPending

\* What remains changes nothing that the invariant is about but sc_received_frame.
LEMMA OtherSteps ==
  ASSUME PhInv, FrameReceived \/ BecomeCalm \/ UNCHANGED phVars
  PROVE  PhInv'
<1>1. PhTypeOK
  BY DEF PhInv, LineKept
<1>2. /\ UNCHANGED <<tab, chip, irq, seen, t3, own, attached, holds, act, idle, count, saving>>
      /\ frame' \in {frame, TRUE} /\ calm' \in {calm, TRUE}
  BY ZenonT(60) DEF FrameReceived, BecomeCalm, phVars, Keep
<1>3. PhTypeOK'
  BY ZenonT(60), <1>1, <1>2 DEF PhTypeOK
<1> QED
  BY <1>2, <1>3 DEF PhInv, LineKept, ActivityKnown, HeldLineRetried, IdleLineWatched,
                    SeenOrPending, State, Shown

LEMMA PhNextInv == PhInv /\ [PhNext]_phVars => PhInv'
<1> SUFFICES ASSUME PhInv, [PhNext]_phVars
             PROVE  PhInv'
  OBVIOUS
<1>1. CASE IdleTimeout
  <2>1. CASE holds = 0
    BY <1>1, <2>1, TimeoutStep DEF IdleTimeout
  <2> QED
    BY <1>1, <2>1, HeldTimeout
<1>2. CASE FrameReceived \/ BecomeCalm \/ UNCHANGED phVars
  BY <1>2, OtherSteps
<1> QED
  BY <1>1, <1>2, DriverActions, ChipActions, ActivateStep, DeactivateStep, AttachStep
     DEF PhNext

\* The line is never forgotten (dss1_L1_activity_timeout, ihfc_fsm_update): what the
\* protocol believes of it is what was read last, a line that is held and down has T3
\* running or an interrupt pending, and one that nobody holds is watched, for every chip
\* and any number of references.
THEOREM LineKeptAlways == PhSpec => []LineKept
<1>1. PhInit => PhInv
  BY PhInitInv
<1>2. PhInv /\ [PhNext]_phVars => PhInv'
  BY PhNextInv
<1>3. PhInv => LineKept
  BY DEF PhInv
<1> QED
  BY <1>1, <1>2, <1>3, PTL DEF PhSpec

=============================================================================
