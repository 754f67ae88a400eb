-------------------------- MODULE LineInterconnect --------------------------
(***************************************************************************)
(* Calls that are connected with each other over the PCM cable between the *)
(* chips: the slots of a cable (layer4/i4b_l4mgmt.c) and the bridge of the *)
(* CAPI (capi_connect_bridge and capi_disconnect_bridge,                   *)
(* layer4/i4b_capidrv.c).                                                  *)
(*                                                                         *)
(* A call is handled under the lock of its controller, the slots are       *)
(* handled under i4b_global_lock. A handler that needs both is two steps,  *)
(* with the handlers of other controllers between them.                    *)
(***************************************************************************)
EXTENDS Integers, FiniteSets, Sequences

CONSTANTS
  Parties,      \* call descriptor ids (cdid)
  Controllers,
  Home,         \* the controller of a call (CDID2CONTROLLER)
  Cables,
  Wires,        \* L1_pcm_cable_map of each controller
  SlotEnds,     \* what slot_end of a cable may be set to
  WordLen,      \* bits of a word of slot_bitmap (32 in the code)
  MaxAsked,     \* bound on the line interconnect requests
  OpSets,       \* bound: what may happen in one behaviour, besides connections
  NoParty, NoSlot

ASSUME LineAssumption ==
  /\ Home \in [Parties -> Controllers]
  /\ Wires \in [Controllers -> Seq(Cables)]
  /\ SlotEnds \subseteq {n \in Nat : n % 2 = 0}
  /\ WordLen \in Nat \ {0} /\ MaxAsked \in Nat
  /\ NoParty \notin Parties /\ NoParty \notin Controllers
  /\ OpSets \subseteq SUBSET {"third", "disconnect", "hold", "end", "b3", "unable", "no", "void",
                              "resize", "again"}
  /\ NoSlot \notin [cable : Cables, rx : Nat, tx : Nat]

VARIABLES
  slot_end,  \* number of slots of each cable
  bitmap,    \* slot_bitmap: the slots of each cable that are received from
  moved,     \* cables whose slot_end was changed while they were in use
  li,        \* li_data_ptr of each call
  cds,       \* the rest of each call descriptor, see Fresh
  halves,    \* second calls of line interconnect requests that are still to do
  todo,      \* the call that the holder of a controller's lock will link next
  asked,     \* number of line interconnect requests
  ops        \* what may happen in this behaviour

liVars == <<slot_end, bitmap, moved, li, cds, halves, todo, asked, ops>>

\* peer: li_cdid; chan: channel_allocated ("void" with CHAN_NOT_ANY, which no FIFO
\* belongs to); hold: call_is_on_hold or call_is_retrieving; drv, copy: driver_type
\* and its copy, "other" than the bridge; want: b_link_want_active; linked, fifo:
\* what the B-channel FIFO is set up for
Unused == [used |-> FALSE, peer |-> NoParty, chan |-> "no", hold |-> "no",
           drv |-> "other", copy |-> "other", want |-> FALSE, linked |-> "no",
           fifo |-> NoSlot]

-----------------------------------------------------------------------------
(* Slots of a cable *)

Half(k) == slot_end[k] \div 2

\* The peer slot
Peer(k, s) == IF s < Half(k) THEN s + Half(k) ELSE s - Half(k)

\* Is the pair that y belongs to free?
FreePair(k, y) == {y, y + Half(k)} \cap bitmap[k] = {}

\* The words of the bitmap are read at multiples of their length.
WordFree(k, w) == \E i \in 0 .. WordLen - 1 : FreePair(k, w + i)

\* Mutant: a word with a bit set is skipped.
BugFirstWord(k) ==
  {w \in 0 .. Half(k) - 1 :
     w % WordLen = 0 /\ \A i \in 0 .. WordLen - 1 : FreePair(k, w + i)}

\* The words, of those that begin below the middle, that are not all ones
FirstWord(k) == {w \in 0 .. Half(k) - 1 : w % WordLen = 0 /\ WordFree(k, w)}

\* The slots i4b_slot_li_alloc finds on a cable: the loop goes through the first
\* word that is not full, and tests the same word if it gets past its end.
Found(k) ==
  {y \in 0 .. Half(k) - 1 :
     \E w \in FirstWord(k) :
       /\ \A v \in FirstWord(k) : w <= v
       /\ LET Taken(z) == ~FreePair(k, w + ((z - w) % WordLen)) IN
          w <= y /\ ~Taken(y) /\ \A z \in w .. y - 1 : Taken(z)}

Slot(k, rx, tx) == [cable |-> k, rx |-> rx, tx |-> tx]

\* __i4b_slot_li_alloc: transmit in s and receive in its peer, if that is free.
\* The table of the controller has an entry for every call descriptor.
SlotsOn(k, s) == IF Peer(k, s) \in bitmap[k] THEN {NoSlot} ELSE {Slot(k, Peer(k, s), s)}

\* The cables at position i that the two controllers have in common, with room
RoomAt(c, d, i) ==
  /\ \E j \in DOMAIN Wires[Home[d]] : Wires[Home[d]][j] = Wires[Home[c]][i]
  /\ Found(Wires[Home[c]][i]) # {}

\* A free pair of the first common cable with room
FreshSlots(c, d) ==
  {s \in UNION {SlotsOn(k, y) : k \in Cables, y \in UNION {Found(k) : k \in Cables}} :
     \E i \in DOMAIN Wires[Home[c]] :
       /\ RoomAt(c, d, i) /\ \A h \in 1 .. i - 1 : ~RoomAt(c, d, h)
       /\ s # NoSlot /\ s.cable = Wires[Home[c]][i] /\ s.tx \in Found(s.cable)}

\* Mutant: the slot of the other end is not looked for.
BugSlotFor(c, d) == IF FreshSlots(c, d) = {} THEN {NoSlot} ELSE FreshSlots(c, d)

\* i4b_slot_li_alloc: next to the other end, else in a free pair
SlotFor(c, d) ==
  IF li[d] # NoSlot THEN SlotsOn(li[d].cable, li[d].rx)
  ELSE IF FreshSlots(c, d) = {} THEN {NoSlot} ELSE FreshSlots(c, d)

Alloc(c, d) ==
  \E s \in SlotFor(c, d) :
    /\ li' = [li EXCEPT ![c] = s]
    /\ bitmap' = IF s = NoSlot THEN bitmap ELSE [bitmap EXCEPT ![s.cable] = @ \cup {s.rx}]

\* Mutant: the slot that is sent in is given back.
BugFree(c) ==
  /\ li' = [li EXCEPT ![c] = NoSlot]
  /\ bitmap' = IF li[c] = NoSlot THEN bitmap
               ELSE [bitmap EXCEPT ![li[c].cable] = @ \ {li[c].tx}]

\* i4b_slot_li_free, if there is a slot
Free(c) ==
  /\ li' = [li EXCEPT ![c] = NoSlot]
  /\ bitmap' = IF li[c] = NoSlot THEN bitmap
               ELSE [bitmap EXCEPT ![li[c].cable] = @ \ {li[c].rx}]

KeepSlots == UNCHANGED <<li, bitmap>>

-----------------------------------------------------------------------------
(* i4b_link_bchandrvr, with the slot s of the call *)

\* i4b_setup_driver takes back what the driver of the copy is connected to.
Unlink(d) ==
  IF d.chan = "real" /\ d.linked = d.copy
  THEN [d EXCEPT !.want = FALSE, !.linked = "no", !.fifo = NoSlot]
  ELSE [d EXCEPT !.want = FALSE]

\* capi_bridge_setup_ft refuses without a slot, i4b_setup_driver if the FIFO is in
\* use, and layer 1 what it cannot do (able).
LinkTo(d, s, able) ==
  LET u == [Unlink(d) EXCEPT !.copy = d.drv, !.want = TRUE] IN
  IF able /\ u.chan = "real" /\ u.linked = "no" /\ (u.drv = "bridge" => s # NoSlot)
  THEN [u EXCEPT !.linked = u.drv, !.fifo = IF u.drv = "bridge" THEN s ELSE NoSlot]
  ELSE u

\* The lock of c's controller is free.
Ready(c) == todo[Home[c]] = NoParty
KeepCable == UNCHANGED <<slot_end, moved, asked, ops>>

\* The second step of a handler
LinkNow(n, able) ==
  LET c == todo[n] IN
  /\ c # NoParty
  /\ cds' = [cds EXCEPT ![c] = LinkTo(@, li[c], able)]
  /\ todo' = [todo EXCEPT ![n] = NoParty]
  /\ KeepSlots /\ KeepCable /\ UNCHANGED halves

-----------------------------------------------------------------------------
(* The bridge *)

\* capi_connect_bridge; a call on hold gets its slot later.
ConnectBridge(c, d) ==
  IF cds[c].used /\ cds[c].peer = NoParty /\ li[c] = NoSlot
  THEN /\ cds' = [cds EXCEPT ![c].peer = d, ![c].drv = "bridge"]
       /\ IF cds[c].chan # "no"
          THEN Alloc(c, d) /\ todo' = [todo EXCEPT ![Home[c]] = c]
          ELSE KeepSlots /\ UNCHANGED todo
  ELSE KeepSlots /\ UNCHANGED <<cds, todo>>

\* capi_disconnect_bridge: the slot is free before the FIFO lets go of it.
DisconnectBridge(c, d) ==
  IF cds[c].used /\ cds[c].peer = d
  THEN /\ cds' = [cds EXCEPT ![c].peer = NoParty, ![c].drv = "other"]
       /\ Free(c) /\ todo' = [todo EXCEPT ![Home[c]] = c]
  ELSE KeepSlots /\ UNCHANGED <<cds, todo>>

Do(op, c, d) == IF op = "connect" THEN ConnectBridge(c, d) ELSE DisconnectBridge(c, d)

\* The first half of a request (FACILITY_REQ, line interconnect)
Request(op, c, d) ==
  /\ cds[c].used /\ Ready(c) /\ asked < MaxAsked
  /\ Do(op, c, d)
  /\ halves' = halves \cup {[op |-> op, c |-> d, d |-> c]}
  /\ asked' = asked + 1 /\ UNCHANGED <<slot_end, moved, ops>>

\* The second half, with the lock of the other controller
SecondHalf(h) ==
  /\ h \in halves /\ Ready(h.c)
  /\ Do(h.op, h.c, h.d)
  /\ halves' = halves \ {h}
  /\ KeepCable

-----------------------------------------------------------------------------
(* What else happens to a call *)

NewCall(c) ==
  /\ ~cds[c].used /\ Ready(c)
  /\ cds' = [cds EXCEPT ![c] = [Unused EXCEPT !.used = TRUE]]
  /\ KeepSlots /\ KeepCable /\ UNCHANGED <<halves, todo>>

\* cd_allocate_channel gets a slot if one is missed, and a channel if there is one.
Allocate(c) ==
  IF cds[c].peer # NoParty /\ li[c] = NoSlot THEN Alloc(c, cds[c].peer) ELSE KeepSlots

NewChan(c, found) == IF cds[c].chan = "no" THEN found ELSE cds[c].chan

\* While the call is being set up
SetupChannel(c, found) ==
  /\ cds[c].used /\ Ready(c) /\ cds[c].hold = "no"
  /\ Allocate(c)
  /\ cds' = [cds EXCEPT ![c].chan = NewChan(c, found)]
  /\ KeepCable /\ UNCHANGED <<halves, todo>>

\* CONNECT_B3_REQ, and any other driver: the bridge gives way, the slot is kept.
ConnectB3(c, able) ==
  /\ cds[c].used /\ Ready(c)
  /\ cds' = [cds EXCEPT ![c] = LinkTo([@ EXCEPT !.drv = "other"], li[c], able)]
  /\ KeepSlots /\ KeepCable /\ UNCHANGED <<halves, todo>>

\* SELECT_B_PROTOCOL_REQ and CONNECT_RESP change the driver only.
SelectB3(c) ==
  /\ cds[c].used /\ Ready(c) /\ cds' = [cds EXCEPT ![c].drv = "other"]
  /\ KeepSlots /\ KeepCable /\ UNCHANGED <<halves, todo>>

\* DISCONNECT_B3_REQ
DisconnectB3(c) ==
  /\ cds[c].used /\ Ready(c) /\ cds' = [cds EXCEPT ![c] = Unlink(@)]
  /\ KeepSlots /\ KeepCable /\ UNCHANGED <<halves, todo>>

\* EV_L3_HOLD_IND and EV_L3_HOLD_REQ, with cd_free_channel
HoldCall(c) ==
  /\ cds[c].used /\ Ready(c) /\ cds[c].hold # "held"
  /\ cds' = [cds EXCEPT ![c] = [(IF @.want THEN [Unlink(@) EXCEPT !.want = TRUE] ELSE @)
                                  EXCEPT !.chan = "no", !.hold = "held"]]
  /\ Free(c) /\ KeepCable /\ UNCHANGED <<halves, todo>>

\* EV_L3_RETRIEVE_REQ
RetrieveReq(c) ==
  /\ cds[c].used /\ Ready(c) /\ cds[c].hold = "held"
  /\ cds' = [cds EXCEPT ![c].hold = "retrieving"]
  /\ KeepSlots /\ KeepCable /\ UNCHANGED <<halves, todo>>

\* EV_L3_RETRIEVE_IND, which is refused without a channel, and EV_L3_RETRIEVE_ACK,
\* which links the driver all the same
RetrieveCall(c, found) ==
  /\ cds[c].used /\ Ready(c) /\ cds[c].hold # "no"
  /\ Allocate(c)
  /\ LET refused == cds[c].hold = "held" /\ NewChan(c, found) = "no" IN
     /\ cds' = [cds EXCEPT ![c].chan = NewChan(c, found), ![c].hold = IF refused THEN @ ELSE "no"]
     /\ todo' = IF ~refused /\ cds[c].want THEN [todo EXCEPT ![Home[c]] = c] ELSE todo
  /\ KeepCable /\ UNCHANGED halves

\* n_free_cd: the driver is unlinked, then the slot and the channel are free.
EndCall(c) ==
  /\ cds[c].used /\ Ready(c)
  /\ cds' = [cds EXCEPT ![c] = [Unlink(@) EXCEPT !.used = FALSE, !.peer = NoParty,
                                  !.chan = "no", !.hold = "no", !.drv = "other",
                                  !.copy = "other"]]
  /\ Free(c) /\ KeepCable /\ UNCHANGED <<halves, todo>>

\* I4B_CTL_SET_PCM_SLOT_END, at any time
SetSlotEnd(k, n) ==
  /\ slot_end[k] # n
  /\ slot_end' = [slot_end EXCEPT ![k] = n]
  /\ moved' = IF bitmap[k] = {} THEN moved ELSE moved \cup {k}
  /\ KeepSlots /\ UNCHANGED <<cds, halves, todo, asked, ops>>

LiInit ==
  /\ slot_end = [k \in Cables |-> 0] /\ bitmap = [k \in Cables |-> {}] /\ moved = {}
  /\ li = [c \in Parties |-> NoSlot] /\ cds = [c \in Parties |-> Unused]
  /\ halves = {} /\ todo = [n \in Controllers |-> NoParty]
  /\ asked = 0 /\ ops \in OpSets

LiNext ==
  \/ \E n \in Controllers, able \in {TRUE} \cup {"unable" \notin ops} : LinkNow(n, able)
  \/ \E c, d \in Parties, op \in {"connect"} \cup ({"disconnect"} \cap ops) :
       ("again" \in ops \/ asked = 0) /\ Request(op, c, d)
  \/ \E h \in halves : SecondHalf(h)
  \/ \E c \in Parties :
       \/ \E found \in {"real"} \cup ({"no", "void"} \cap ops) :
            SetupChannel(c, found) \/ RetrieveCall(c, found)
       \/ \E able \in {TRUE} \cup {"unable" \notin ops} : "b3" \in ops /\ ConnectB3(c, able)
       \/ "b3" \in ops /\ (SelectB3(c) \/ DisconnectB3(c))
       \/ "hold" \in ops /\ (HoldCall(c) \/ RetrieveReq(c))
       \/ ("third" \in ops \/ Cardinality({d \in Parties : cds[d].used}) < 2) /\ NewCall(c)
       \/ "end" \in ops /\ EndCall(c)
  \/ \E k \in Cables, n \in SlotEnds :
       (slot_end[k] = 0 \/ "resize" \in ops) /\ SetSlotEnd(k, n)

LiSpec == LiInit /\ [][LiNext]_liVars

-----------------------------------------------------------------------------
(* Properties *)

Slots == [cable : Cables, rx : Nat, tx : Nat]

Descriptors ==
  [used : BOOLEAN, peer : Parties \cup {NoParty}, chan : {"no", "real", "void"},
   hold : {"no", "held", "retrieving"}, drv : {"other", "bridge"},
   copy : {"other", "bridge"}, want : BOOLEAN, linked : {"no", "other", "bridge"}, fifo : Slots \cup {NoSlot}]

LiTypeOK ==
  /\ slot_end \in [Cables -> SlotEnds \cup {0}] /\ bitmap \in [Cables -> SUBSET Nat]
  /\ moved \subseteq Cables /\ li \in [Parties -> Slots \cup {NoSlot}]
  /\ cds \in [Parties -> Descriptors]
  /\ halves \subseteq [op : {"connect", "disconnect"}, c : Parties, d : Parties]
  /\ todo \in [Controllers -> Parties \cup {NoParty}]
  /\ asked \in 0 .. MaxAsked /\ ops \in OpSets

\* The bits of the map are the slots of the calls, one call each: nothing is given
\* out twice and nothing is lost, however calls are held, retrieved and ended in
\* the middle of a request.
SlotsAccounted ==
  /\ \A k \in Cables :
       bitmap[k] = {li[c].rx : c \in {p \in Parties : li[p] # NoSlot /\ li[p].cable = k}}
  /\ \A c, d \in Parties :
       c # d /\ li[c] # NoSlot /\ li[d] # NoSlot /\ li[c].cable = li[d].cable
         => li[c].rx # li[d].rx

\* Two calls that are connected with each other and have slots hear each other, and
\* no two calls send in one slot (unless the cable was resized under them).
PartnersCross ==
  \A c, d \in Parties :
    c # d /\ li[c] # NoSlot /\ li[d] # NoSlot /\ li[c].cable \notin moved
      => /\ li[c].cable = li[d].cable => li[c].tx # li[d].tx
         /\ cds[c].peer = d /\ cds[d].peer = c =>
              li[c].cable = li[d].cable /\ li[c].tx = li[d].rx /\ li[c].rx = li[d].tx

\* A FIFO is bridged to a slot only while its call has that slot; only in the middle
\* of a handler may it still use a slot that was given back.
BridgeOwnsSlot ==
  \A c \in Parties :
    cds[c].linked = "bridge" /\ todo[Home[c]] # c => cds[c].fifo = li[c] /\ cds[c].chan = "real"

\* Bridged calls hear each other and nobody else.
BridgesCross == PartnersCross /\ BridgeOwnsSlot

\* The search by words misses no free pair of slots.
SearchComplete ==
  \A k \in Cables : (\E y \in 0 .. Half(k) - 1 : FreePair(k, y)) <=> Found(k) # {}
=============================================================================
