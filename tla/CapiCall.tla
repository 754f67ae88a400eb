------------------------------ MODULE CapiCall ------------------------------
(***************************************************************************)
(* Calls of CAPI applications (layer4/i4b_capidrv.c) on one controller:    *)
(* what an application writes to /dev/capi20, what the network does, and   *)
(* what every application is told.                                         *)
(*                                                                         *)
(* A request is handled as a whole under the lock of the controller, but   *)
(* the application may be closed between the check of ST_CLOSING and the   *)
(* handler. An indication is heard when it is put into the queue of an     *)
(* application; one that is lost leaves ST_MBUF_LOST set for ever.         *)
(***************************************************************************)
EXTENDS Integers, FiniteSets

CONSTANTS
  Apps,       \* CAPI applications (struct capi_ai_softc)
  Calls,      \* call descriptors of the controller
  Channels,   \* number of its B-channels
  Blocks,     \* values of sc_max_b_data_blocks
  Lines       \* bound: which of "nt", "daemon", "lose", "close", "hold", "two" a behaviour has

ASSUME CapiAssumption ==
  /\ Channels \in Nat /\ Blocks \subseteq Nat /\ IsFiniteSet(Calls) /\ IsFiniteSet(Apps)
  /\ {"all", "i4b"} \cap Apps = {}
  /\ Lines \subseteq SUBSET {"nt", "daemon", "lose", "close", "hold", "two"}

VARIABLES
  call,     \* the call descriptors, see NoCall
  app,      \* "open", "closing" or "gone" for each application
  writing,  \* ST_WR_SLEEP_ENTERED
  listens,  \* sc_CIP_mask_1 asks for the calls
  blocks,   \* sc_max_b_data_blocks
  lost,     \* ST_MBUF_LOST
  view,     \* what an application has been told of a call, see Untold
  kind      \* what the line and the behaviour are like

capiVars == <<call, app, writing, listens, blocks, lost, view, kind>>

\* st: "idle", "dialing" and "acked" (outgoing), "overlap", "offered" and "accepted" (incoming),
\* "active"; ai: ai_type and ai_ptr, "all" is I4B_AI_BROADCAST; count: connect_ind_count;
\* chan: channel_allocated, "void" with CHAN_NOT_ANY; drv, copy: driver_type and its copy;
\* want: b_link_want_active; linked: the driver the FIFO of the channel is set up for;
\* tx, max: length and ifq_maxlen of tx_queue
NoCall == [used |-> FALSE, incoming |-> FALSE, st |-> "idle", ai |-> "all", count |-> 0,
           chan |-> "no", hold |-> "no", drv |-> "none", copy |-> "none", want |-> FALSE,
           linked |-> "no", tx |-> 0, max |-> 0]

\* known: a connection was offered or confirmed, and not ended; b3: the B-channel is
\* connected; owed: blocks of data without a confirmation; ok: no indication was out of
\* order
Untold == [known |-> FALSE, b3 |-> FALSE, owed |-> 0, ok |-> TRUE]

-----------------------------------------------------------------------------
(* Indications *)

\* What an application makes of the next message about a call
Hear(v, m) ==
  CASE m = "connect" -> [v EXCEPT !.known = TRUE]
    [] m = "active" -> [v EXCEPT !.ok = @ /\ v.known]
    [] m = "b3up" -> [v EXCEPT !.b3 = TRUE, !.owed = 0, !.ok = @ /\ v.known /\ ~v.b3]
    [] m = "b3down" -> [v EXCEPT !.b3 = FALSE, !.owed = 0, !.ok = @ /\ v.b3]
    [] m = "sent" -> [v EXCEPT !.owed = @ + 1]
    [] m = "taken" -> [v EXCEPT !.owed = @ - 1, !.ok = @ /\ v.b3 /\ v.owed > 0]
    [] m = "end" -> [v EXCEPT !.known = FALSE, !.ok = @ /\ ~v.b3]

\* A descriptor in a handler, what the applications make of the messages about it, and
\* those that were sent one
At(c) == [d |-> call[c], v |-> [a \in Apps |-> view[a][c]], to |-> {}]

Put(r, S, m) ==
  [r EXCEPT !.v = [a \in Apps |-> IF a \in S THEN Hear(r.v[a], m) ELSE r.v[a]],
            !.to = r.to \cup S]

\* Those that a message about the call goes to
Hearers(d) == IF d.ai = "all" THEN Apps ELSE Apps \cap {d.ai}

\* capi_ai_putqueue for all messages of a handler: an application that is closing gets
\* nothing; a message that cannot be stored is lost.
Tell(c, r) ==
  \E L \in SUBSET {a \in r.to : "lose" \in kind /\ app[a] = "open"} :
    /\ lost' = lost \cup L
    /\ view' = [a \in Apps |->
                  [view[a] EXCEPT ![c] = IF a \in lost' \/ app[a] # "open" THEN Untold ELSE r.v[a]]]

Becomes(c, r) == call' = [call EXCEPT ![c] = r.d] /\ Tell(c, r)

-----------------------------------------------------------------------------
(* The B-channel *)

\* i4b_link_bchandrvr(cd,0): the queue of the FIFO is drained
UnlinkB3(r) ==
  IF r.d.chan = "real" /\ r.d.linked = r.d.copy
  THEN LET e == [r EXCEPT !.d.want = FALSE, !.d.linked = "no", !.d.tx = 0, !.d.max = 0] IN
       IF r.d.linked = "capi" THEN Put(e, Hearers(r.d), "b3down") ELSE e
  ELSE [r EXCEPT !.d.want = FALSE]

\* capi_setup_ft is called before the layer 1, which may refuse.
SetupB3(r, able) ==
  LET up == Put(r, Hearers(r.d), "b3up") IN
  IF able
  THEN [up EXCEPT !.d.linked = "capi", !.d.max = IF r.d.ai \in Apps THEN blocks[r.d.ai] ELSE 0]
  ELSE Put(up, Hearers(r.d), "b3down")

\* i4b_link_bchandrvr(cd,1)
LinkB3(r, able) ==
  LET u == UnlinkB3(r)
      w == [u EXCEPT !.d.copy = r.d.drv, !.d.want = TRUE]
  IN IF r.d.chan # "real" \/ r.d.drv = "none" THEN w
     ELSE IF r.d.drv = "capi" THEN SetupB3(w, able)
     ELSE IF able THEN [w EXCEPT !.d.linked = r.d.drv] ELSE w

\* channels that no call has
Spare == Channels - Cardinality({c \in Calls : call[c].chan = "real"})

\* cd_allocate_channel: an allocated channel is kept; without a channel in the message
\* any that is spare is taken; "void" if the message asks for none.
Allocated(d) ==
  IF d.chan # "no" THEN {d.chan} ELSE {"no", "void"} \cup {"real" : x \in 1 .. Spare}

\* ... of all channels
AllocatedAny(d) == IF d.chan # "no" THEN d.chan ELSE IF Spare > 0 THEN "real" ELSE "no"

SetChan(r, ch) == [r EXCEPT !.d.chan = ch]

-----------------------------------------------------------------------------
(* Owners *)

\* Mutant: the others are not told.
BugTakeCall(r, a) ==
  IF r.d.ai = "all" THEN Put([r EXCEPT !.d.ai = a], {a}, "connect") ELSE r

\* capi_disconnect_broadcast: the others are told that the call has ended. The new owner
\* knows the call, if it was offered to it or not.
TakeCall(r, a) ==
  IF r.d.ai = "all"
  THEN Put(Put([r EXCEPT !.d.ai = a], Apps \ {a}, "end"), {a}, "connect")
  ELSE r

\* Mutant: the B-channel is disconnected after the indication.
BugFreeCall(r) ==
  LET e == UnlinkB3(Put(r, Hearers(r.d), "end")) IN [e EXCEPT !.d = NoCall]

\* n_free_cd, i4b_l4_disconnect_ind(cd,0)
FreeCall(r) ==
  LET e == Put(UnlinkB3(r), Hearers(r.d), "end") IN [e EXCEPT !.d = NoCall]

\* i4b_l4_connect_active_ind
Activate(r) == Put([r EXCEPT !.d.st = "active"], Hearers(r.d), "active")

-----------------------------------------------------------------------------
(* capi_write *)

Keep == UNCHANGED <<app, listens, blocks, kind>>

\* only if the device is not being closed
BeginWrite(a) ==
  /\ app[a] = "open" /\ ~writing[a]
  /\ writing' = [writing EXCEPT ![a] = TRUE]
  /\ Keep /\ UNCHANGED <<call, lost, view>>

\* The handler of a request for a call that the application may act on, which ends
\* with the flag cleared
Handle(a, c, r) == writing[a] /\ writing' = [writing EXCEPT ![a] = FALSE] /\ Becomes(c, r) /\ Keep

\* A descriptor that can be allocated; bound: a second call in some behaviours only, with
\* one application
CanAllocate(c) == ~call[c].used /\ ("two" \in kind \/ \A x \in Calls : ~call[x].used)

MayAct(a, c) == call[c].used /\ call[c].ai \in {"all", a}

\* A request that changes nothing: of another's call, of no call, or a response
IgnoredWrite(a) ==
  /\ writing[a] /\ writing' = [writing EXCEPT ![a] = FALSE]
  /\ Keep /\ UNCHANGED <<call, lost, view>>

\* LISTEN, which is not done if there is no memory for its confirmation
ListenReq(a) ==
  /\ writing[a] /\ writing' = [writing EXCEPT ![a] = FALSE]
  /\ listens' = [listens EXCEPT ![a] = ~@]
  /\ UNCHANGED <<call, app, blocks, lost, view, kind>>

\* CONNECT, from the confirmation on
Dial(a, c, r) ==
  LET k == Put(r, {a}, "connect")
      w == [k EXCEPT !.d.drv = "capi"]
      n == SetChan(w, IF "nt" \in kind THEN AllocatedAny(r.d) ELSE r.d.chan)
      s == [n EXCEPT !.d.st = IF @ = "idle" THEN "dialing" ELSE @]
  IN Handle(a, c, IF "nt" \in kind /\ n.d.chan = "no" THEN FreeCall(w) ELSE s)

\* CONNECT: of a new call, or again of the same
ConnectReq(a, c) ==
  \/ /\ CanAllocate(c)
     /\ Dial(a, c, [At(c) EXCEPT !.d = [NoCall EXCEPT !.used = TRUE, !.ai = a]])
  \/ /\ MayAct(a, c) /\ ~call[c].incoming
     /\ Dial(a, c, At(c))

\* CONNECT without memory for the confirmation: the descriptor stays as it is.
ConnectNoMem(a, c) ==
  /\ "lose" \in kind /\ CanAllocate(c) /\ writing[a]
  /\ writing' = [writing EXCEPT ![a] = FALSE]
  /\ call' = [call EXCEPT ![c] = [NoCall EXCEPT !.used = TRUE, !.ai = a]]
  /\ lost' = lost \cup {x \in {a} : app[x] = "open"}
  /\ view' = [x \in Apps |-> IF x \in lost' THEN [view[x] EXCEPT ![c] = Untold] ELSE view[x]]
  /\ Keep

\* DATA_B3 that is queued; it is refused at once if there is no B-channel or the
\* queue is full
DataReq(a, c) ==
  /\ call[c].used /\ call[c].ai = a /\ call[c].linked = "capi" /\ call[c].tx < call[c].max
  /\ Handle(a, c, Put([At(c) EXCEPT !.d.tx = @ + 1], {a}, "sent"))

\* CONNECT_B3
ConnectB3Req(a, c, able) ==
  /\ MayAct(a, c)
  /\ Handle(a, c, LinkB3([TakeCall(At(c), a) EXCEPT !.d.drv = "capi"], able))

\* DISCONNECT_B3
DisconnectB3Req(a, c) ==
  /\ call[c].used /\ call[c].ai = a
  /\ Handle(a, c, UnlinkB3(At(c)))

\* DISCONNECT: by anyone, as long as the call is offered to all
DisconnectReq(a, c) == MayAct(a, c) /\ Handle(a, c, FreeCall(UnlinkB3(At(c))))

\* SELECT_B_PROTOCOL with a supported protocol
SelectBReq(a, c) ==
  /\ MayAct(a, c)
  /\ Handle(a, c, [TakeCall(At(c), a) EXCEPT !.d.drv = "capi"])

\* FACILITY with HOLD, and the answer of EV_L3_HOLD_REQ
HoldReq(a, c) ==
  /\ MayAct(a, c) /\ "hold" \in kind /\ "nt" \notin kind /\ call[c].hold # "held"
  /\ call[c].st \in {"active", "acked"}
  /\ LET u == IF call[c].want THEN [UnlinkB3(At(c)) EXCEPT !.d.want = TRUE] ELSE At(c) IN
     Handle(a, c, [u EXCEPT !.d.chan = "no", !.d.hold = "held"])

\* FACILITY with RETRIEVE
RetrReq(a, c) ==
  /\ MayAct(a, c) /\ "nt" \notin kind /\ call[c].hold = "held"
  /\ Handle(a, c, [At(c) EXCEPT !.d.hold = "back"])

\* CONNECT response: ignore the call
IgnoreResp(a, c) ==
  /\ MayAct(a, c) /\ call[c].incoming
  /\ Handle(a, c, IF call[c].count < 2 THEN FreeCall(At(c)) ELSE [At(c) EXCEPT !.d.count = @ - 1])

\* ... accept it
AcceptResp(a, c) ==
  /\ MayAct(a, c) /\ call[c].incoming
  /\ LET t == [TakeCall(At(c), a) EXCEPT !.d.drv = "capi"] IN
     Handle(a, c, IF call[c].st \notin {"overlap", "offered"} THEN t
                  ELSE IF "nt" \in kind THEN Activate(t)
                  ELSE [t EXCEPT !.d.st = "accepted"])

\* ... reject it
RejectResp(a, c) ==
  /\ MayAct(a, c) /\ call[c].incoming
  /\ Handle(a, c, FreeCall([TakeCall(At(c), a) EXCEPT !.d.drv = "capi"]))

\* CONNECT_B3 response
ConnectB3Resp(a, c, able) ==
  /\ call[c].used /\ call[c].incoming /\ call[c].ai = a
  /\ \/ Handle(a, c, LinkB3(At(c), able))
     \/ Handle(a, c, FreeCall(At(c)))

-----------------------------------------------------------------------------
(* The network and the hardware *)

Net(c, r) == Becomes(c, r) /\ Keep /\ UNCHANGED writing

\* EV_L3_SETUP, of a new call or repeated: a channel, the dial tone, the offer
Offer(c, d, st, tone, able) ==
  \E ch \in Allocated(d) :
    LET r == [At(c) EXCEPT !.d = [d EXCEPT !.chan = ch, !.st = st]]
        t == IF tone THEN LinkB3([r EXCEPT !.d.drv = "tone"], able) ELSE r
        S == {a \in Hearers(t.d) : listens[a] /\ app[a] = "open"}
        n == Cardinality(S) + IF "daemon" \in kind /\ d.ai \notin Apps THEN 1 ELSE 0
        o == [Put(t, S, "connect") EXCEPT !.d.count = n]
    IN Net(c, IF ch = "no" THEN FreeCall(r) ELSE IF n = 0 THEN FreeCall(o) ELSE o)

NetSetup(c, st, tone, able) ==
  /\ tone => "nt" \in kind
  /\ \/ CanAllocate(c) /\ Offer(c, [NoCall EXCEPT !.used = TRUE, !.incoming = TRUE], st, tone, able)
     \/ call[c].used /\ call[c].st = "overlap" /\ Offer(c, call[c], st, tone, able)

\* EV_L3_SETUPAK, EV_L3_CALLPRC and EV_L3_ALERT: a channel for an outgoing call
NetChannel(c) ==
  /\ call[c].st \in {"dialing", "acked"}
  /\ \E ch \in Allocated(call[c]) : Net(c, [SetChan(At(c), ch) EXCEPT !.d.st = "acked"])

\* EV_L3_CONNECT, and the EV_L3_CONACK of an incoming call
NetConnect(c) ==
  \/ /\ call[c].st \in {"dialing", "acked"}
     /\ \E ch \in Allocated(call[c]) :
          LET r == SetChan(At(c), ch) IN
          Net(c, IF ch = "no" THEN FreeCall(r) ELSE Activate(r))
  \/ call[c].st = "accepted" /\ Net(c, Activate(At(c)))

\* EV_L3_RELEASE, a timeout, or a request of the owner on /dev/i4b
NetEnd(c) == call[c].used /\ Net(c, FreeCall(At(c)))

\* EV_L3_HOLD_IND
NetHold(c) ==
  /\ "nt" \in kind /\ "hold" \in kind /\ call[c].hold # "held"
  /\ call[c].st \in {"active", "offered", "accepted"}
  /\ LET u == IF call[c].want THEN [UnlinkB3(At(c)) EXCEPT !.d.want = TRUE] ELSE At(c) IN
     Net(c, [u EXCEPT !.d.chan = "no", !.d.hold = "held"])

\* EV_L3_RETRIEVE_IND with a channel, EV_L3_RETRIEVE_ACK
NetRetrieve(c, able) ==
  \E ch \in Allocated(call[c]) :
    /\ IF "nt" \in kind THEN call[c].hold = "held" /\ ch # "no" ELSE call[c].hold = "back"
    /\ LET r == [SetChan(At(c), ch) EXCEPT !.d.hold = "no"] IN
       Net(c, IF r.d.want THEN LinkB3(r, able) ELSE r)

\* capi_get_mbuf: the hardware takes a block, the confirmation is sent.
TakeBlock(c) ==
  /\ call[c].linked = "capi" /\ call[c].ai \in Apps /\ call[c].tx > 0
  /\ Net(c, Put([At(c) EXCEPT !.d.tx = @ - 1], {call[c].ai}, "taken"))

\* I4B_CONNECT_RESP and I4B_LINK_B_CHANNEL_DRIVER_REQ of isdnd
DaemonTake(c) ==
  /\ "daemon" \in kind /\ call[c].used /\ call[c].ai = "all"
  /\ \E st \in {call[c].st, IF "nt" \in kind THEN "active" ELSE "accepted"} :
       Net(c, Put([At(c) EXCEPT !.d.ai = "i4b", !.d.drv = "other", !.d.st = st], Apps, "end"))

DaemonLink(c, able) ==
  /\ call[c].used /\ call[c].ai = "i4b"
  /\ Net(c, LinkB3(At(c), able)) \/ Net(c, UnlinkB3(At(c)))

-----------------------------------------------------------------------------
(* The device *)

\* CAPI_REGISTER_REQ
Register(a, n) ==
  /\ app[a] = "open"
  /\ blocks' = [blocks EXCEPT ![a] = n]
  /\ UNCHANGED <<call, app, writing, listens, lost, view, kind>>

CloseApp(a) ==
  /\ "close" \in kind /\ app[a] = "open"
  /\ app' = [app EXCEPT ![a] = "closing"]
  /\ view' = [view EXCEPT ![a] = [c \in Calls |-> Untold]]
  /\ lost' = lost \ {a}
  /\ UNCHANGED <<call, writing, listens, blocks, kind>>

\* i4b_disconnect_by_appl_interface, once no request is being handled
CloseDone(a) ==
  /\ app[a] = "closing" /\ ~writing[a]
  /\ app' = [app EXCEPT ![a] = "gone"]
  /\ call' = [c \in Calls |-> IF call[c].used /\ call[c].ai = a THEN NoCall ELSE call[c]]
  /\ UNCHANGED <<writing, listens, blocks, lost, view, kind>>

OpenApp(a) ==
  /\ "close" \in kind /\ app[a] = "gone" /\ app' = [app EXCEPT ![a] = "open"]
  /\ listens' = [listens EXCEPT ![a] = FALSE] /\ blocks' = [blocks EXCEPT ![a] = 0]
  /\ UNCHANGED <<call, writing, lost, view, kind>>

-----------------------------------------------------------------------------
CapiInit ==
  /\ call = [c \in Calls |-> NoCall]
  /\ kind \in Lines
  /\ app \in [Apps -> {"open", "gone"}]
  /\ Cardinality({a \in Apps : app[a] = "open"}) = IF "two" \in kind THEN 1 ELSE Cardinality(Apps)
  /\ writing = [a \in Apps |-> FALSE]
  /\ listens = [a \in Apps |-> FALSE]
  /\ blocks = [a \in Apps |-> 0]
  /\ lost = {}
  /\ view = [a \in Apps |-> [c \in Calls |-> Untold]]

AppNext(a) ==
  \/ BeginWrite(a) \/ IgnoredWrite(a) \/ ListenReq(a)
  \/ \E n \in Blocks : Register(a, n)
  \/ CloseApp(a) \/ CloseDone(a) \/ OpenApp(a)
  \/ \E c \in Calls :
       \/ ConnectReq(a, c) \/ ConnectNoMem(a, c) \/ DataReq(a, c)
       \/ DisconnectB3Req(a, c) \/ DisconnectReq(a, c) \/ SelectBReq(a, c)
       \/ HoldReq(a, c) \/ RetrReq(a, c)
       \/ IgnoreResp(a, c) \/ AcceptResp(a, c) \/ RejectResp(a, c)
       \/ \E able \in BOOLEAN : ConnectB3Req(a, c, able) \/ ConnectB3Resp(a, c, able)

NetNext(c) ==
  \/ NetChannel(c) \/ NetConnect(c) \/ NetEnd(c) \/ NetHold(c) \/ TakeBlock(c) \/ DaemonTake(c)
  \/ \E able \in BOOLEAN :
       \/ NetRetrieve(c, able) \/ DaemonLink(c, able)
       \/ \E st \in {"overlap", "offered"}, tone \in BOOLEAN : NetSetup(c, st, tone, able)

CapiNext == (\E a \in Apps : AppNext(a)) \/ (\E c \in Calls : NetNext(c))

CapiSpec == CapiInit /\ [][CapiNext]_capiVars

-----------------------------------------------------------------------------
(* Properties *)

CapiTypeOK ==
  /\ call \in [Calls -> [used : BOOLEAN, incoming : BOOLEAN,
                         st : {"idle", "dialing", "acked", "overlap", "offered", "accepted", "active"},
                         ai : Apps \cup {"all", "i4b"}, count : 0 .. Cardinality(Apps) + 1,
                         chan : {"no", "real", "void"}, hold : {"no", "held", "back"},
                         drv : {"none", "capi", "tone", "other"},
                         copy : {"none", "capi", "tone", "other"}, want : BOOLEAN,
                         linked : {"no", "capi", "tone", "other"}, tx : Nat, max : Blocks \cup {0}]]
  /\ app \in [Apps -> {"open", "closing", "gone"}]
  /\ writing \in [Apps -> BOOLEAN] /\ listens \in [Apps -> BOOLEAN]
  /\ blocks \in [Apps -> Blocks \cup {0}] /\ lost \subseteq Apps
  /\ view \in [Apps -> [Calls -> [known : BOOLEAN, b3 : BOOLEAN, owed : Nat, ok : BOOLEAN]]]
  /\ Spare >= 0

\* What the application a has been told can be trusted.
Trusts(a) == app[a] = "open" /\ a \notin lost

\* An application that lost no message never gets an indication out of order: the
\* B-channel of a call it knows is connected and disconnected in turn, blocks are
\* confirmed while it is connected and at most once, and a call ends after its
\* B-channel (capi_ai_*_ind through link, hold, retrieval, refusal and release).
IndicationsInOrder == \A a \in Apps, c \in Calls : Trusts(a) => view[a][c].ok

\* An application believes a B-channel to be connected exactly if the FIFO of a call of
\* its own is set up for it, and then waits for as many confirmations as there are blocks
\* in the queue, no more than it asked for when the FIFO was set up: however the
\* B-channel is lost, no confirmation is waited for in vain.
B3AsTold ==
  \A a \in Apps, c \in Calls :
    LET mine == call[c].used /\ call[c].ai = a /\ call[c].linked = "capi" IN
    Trusts(a) => /\ view[a][c].b3 <=> mine
                 /\ view[a][c].owed = IF mine THEN call[c].tx ELSE 0
                 /\ call[c].tx <= call[c].max

\* An application that was offered a call, or made it, and has not been told of its end
\* may still act on it: it is told when another application takes the call.
KnownCallsAreOpen ==
  \A a \in Apps, c \in Calls : Trusts(a) /\ view[a][c].known => MayAct(a, c)

\* The owner of a call exists, and a FIFO that is set up for the CAPI belongs to a call
\* with an owner: the __KASSERTs of the indications hold, and ai_ptr is not the structure
\* of an application that was closed.
OwnerExists ==
  \A c \in Calls :
    /\ call[c].ai \in Apps => app[call[c].ai] # "gone"
    /\ call[c].linked = "capi" => call[c].ai \in Apps

\* Applications and calls belong together: who knows a call may act on it, and the owner
\* of a call exists.
CallsHaveOwners == CapiTypeOK /\ KnownCallsAreOpen /\ OwnerExists

\* What an application is told is in order and true.
AppsToldTruth == IndicationsInOrder /\ B3AsTold
=============================================================================
