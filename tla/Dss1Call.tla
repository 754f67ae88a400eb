------------------------------ MODULE Dss1Call ------------------------------
(***************************************************************************)
(* Layer 3 of the D-channel protocol, one controller: the call state       *)
(* machine (dss1_l3fsm.h), the dispatch of received messages and of        *)
(* requests from layer 4 (dss1_l3decoder.h, i4b_i4bdrv.c), allocation of   *)
(* call descriptors (i4b_l4mgmt.c) and the attachment of the D-channel     *)
(* driver (dss1_setup_ft).                                                 *)
(*                                                                         *)
(* All of it runs under the controller lock, so a handler is one step.     *)
(* What a message carries (channel, call state, sending complete, cause)   *)
(* is chosen freely.  Messages sent are not kept.                          *)
(***************************************************************************)
EXTENDS CallDesc

CONSTANTS
  Modes,        \* how the controller may be configured, see DriverModes
  EnquiryMax,   \* STATUS_ENQUIRY_TIMEOUT
  IncomingCRs,  \* call references that the other end may choose
  IndMax,       \* bound: application interfaces that see an incoming call
  ChanInputs,   \* channel numbers that messages and requests carry
  Events        \* the events of the instance

\* Network or terminal side, point to point or not, without status enquiries
DriverModes == [nt : BOOLEAN, p2p : BOOLEAN, quiet : BOOLEAN]

ASSUME CallAssumption ==
  /\ Modes \subseteq DriverModes /\ Modes # {}
  /\ EnquiryMax \in Nat /\ IndMax \in Nat
  /\ IncomingCRs \subseteq Nat \ (0 .. CdidEnd)
  /\ ChanInputs \subseteq ChannelIds

VARIABLES
  cds,       \* N_call_desc
  res,       \* util, ft, ref and auto of the controller
  count,     \* N_cdid_count
  attached,  \* N_fifo_translator # NULL
  mode,      \* sc_nt_mode, sc_point_to_point, no_layer3_status_enquiry
  silent     \* the other end and the applications have stopped for good

vars == <<cds, res, count, attached, mode, silent>>

-----------------------------------------------------------------------------
(* L3_STATES: the order of the states, and where a timeout leads. *)

No == [U0 |-> 0, OUTGOING |-> 1, U1 |-> 2, U2 |-> 3, U2_ACK |-> 4, U3 |-> 5,
       U3_TO |-> 6, U4 |-> 7, U4_TO |-> 8, INCOMING |-> 9, IN_ACK |-> 10,
       U6 |-> 11, U6_TO |-> 12, U7 |-> 13, U7_TO |-> 14, U8 |-> 15,
       UA |-> 16, UA_TO |-> 17, UC |-> 18, UC_TO |-> 19]

States == DOMAIN No

\* Without an answer the states that wait for a STATUS message fall back.
ToStates == {"U3_TO", "U4_TO", "U6_TO", "U7_TO", "UA_TO", "UC_TO"}

\* L3_STATES_TIMEOUT
TimeoutState(st) ==
  CASE st = "U3" -> "U3_TO" [] st = "U4" -> "U4_TO" [] st = "U6" -> "U6_TO"
    [] st = "U7" -> "U7_TO" [] st = "UA" -> "UA_TO" [] st = "UC" -> "UC_TO"
    [] OTHER -> "U0"

\* "newstate--" and "state - 1" on one of the ToStates
Before(st) ==
  CASE st = "U3_TO" -> "U3" [] st = "U4_TO" -> "U4" [] st = "U6_TO" -> "U6"
    [] st = "U7_TO" -> "U7" [] st = "UA_TO" -> "UA" [] OTHER -> "UC"

Between(lo, st, hi) == No[lo] < No[st] /\ No[st] < No[hi]

\* L3_EVENT_IS_LOCAL_INCOMING, L3_EVENT_IS_LOCAL_OUTGOING
NeutralEvents == {"STATUS", "RELEASE", "INFO", "HOLD_IND", "RETRIEVE_IND",
                  "RETRIEVE_ACK", "DISCONNECT", "INFORQ", "HOLD_REQ",
                  "RETRIEVE_REQ"}
IncomingEvents == {"ALERTRQ", "PROCEEDINGRQ", "SETACRS", "SETRJRS", "SETUP",
                   "CONACK"} \cup NeutralEvents
OutgoingEvents == {"SETUPRQ", "SETUPAK", "CALLPRC", "ALERT", "CONNECT"}
                    \cup NeutralEvents

NtMode    == mode.nt      \* NT_MODE(sc)
P2P       == mode.p2p     \* IS_POINT_TO_POINT(sc)
NoEnquiry == mode.quiet   \* NO_STATUS_ENQUIRY(sc)

Multipoint == NtMode /\ ~P2P

-----------------------------------------------------------------------------
(* cd_set_state: U0 releases the call; every other state starts the timer, *)
(* and the ToStates may be left again at once.                             *)

\* Mutant: no timeout while a STATUS message is awaited.
BugSetStateNoTimer(s, new) ==
  IF new = "U0" THEN FreeCd(s)
  ELSE [s EXCEPT !.d.state = new, !.d.timer = new \notin ToStates]

\* Mutant: status enquiries are not counted.
BugSetStateUncounted(s, new) ==
  LET back == Multipoint /\ new \in {"U3_TO", "U4_TO"} /\ s.d.responded
  IN IF new = "U0" THEN FreeCd(s)
     ELSE [s EXCEPT !.d.state = IF back THEN Before(new) ELSE new, !.d.timer = TRUE]

SetState(s, new) ==
  LET counted == Multipoint /\ new \in {"U3_TO", "U4_TO"}
      back    == \/ counted /\ s.d.responded /\ s.d.enquiries < EnquiryMax
                 \/ ~counted /\ NoEnquiry /\ new \in ToStates
  IN IF new = "U0" THEN FreeCd(s)
     ELSE [s EXCEPT !.d.state = IF back THEN Before(new) ELSE new,
                    !.d.enquiries = IF counted /\ back THEN @ + 1 ELSE @,
                    !.d.timer = TRUE]

Release(s) == SetState(s, "U0")

NeedRelease(s) == [s EXCEPT !.d.need_release = TRUE]

\* Labels "no_channel_available" and "sms_release"
NoChannelAvailable(s) ==
  Release(IF NtMode \/ P2P THEN NeedRelease(s) ELSE s)

\* The message named a channel: try to reserve it.
TryChannel(s) == IF s.d.chan # CHAN_ANY THEN AllocateChannel(s) ELSE s

\* Mutant: the driver stays on the channel.
BugPutOnHoldLinked(s) == [FreeChannel(s) EXCEPT !.d.hold = TRUE]

\* Take the driver off the channel, give the channel back, still want a link.
PutOnHold(s) ==
  LET u == IF s.d.want THEN [Unlink(s) EXCEPT !.d.want = TRUE] ELSE s
  IN [FreeChannel(u) EXCEPT !.d.hold = TRUE]

Relink(s, drv, accepts) == IF s.d.want THEN Link(s, drv, accepts) ELSE s

-----------------------------------------------------------------------------
(* cd_update, one operator for each event.  Those that only send a message *)
(* (STATENQ, FACILITY, PROGRESSRQ, DEFLECTRQ, MCIDRQ) are like INFO.       *)

EvSetRjRs(s) == Release(NeedRelease(s))

EvRelease(s) == Release(s)

EvDisconnect(s) ==
  IF s.d.state \in {"UC", "UC_TO"} THEN s ELSE SetState(s, "UC")

\* "live" tells whether the reported call state is one of a call in progress.
EvStatus(s, live) ==
  CASE live /\ s.d.state \in {"U3_TO", "U4_TO", "U6_TO", "U7_TO"}
            /\ s.d.enquiries < EnquiryMax ->
         SetState([s EXCEPT !.d.enquiries = @ + 1], Before(s.d.state))
    [] live /\ s.d.state \in {"UA_TO", "UC_TO"} -> SetState(s, Before(s.d.state))
    [] OTHER -> s

EvHoldInd(s) ==
  IF /\ NtMode /\ ~s.d.hold
     /\ s.d.state \in {"UA", "UA_TO", "U6", "U6_TO", "U7", "U7_TO", "U8"}
  THEN PutOnHold(s) ELSE s

\* Mutant: the call is resumed although no channel is free.
BugRetrieveNoChannel(s, drv, accepts) ==
  IF s.d.hold /\ NtMode
  THEN Relink([AllocateChannel(s) EXCEPT !.d.hold = FALSE], drv, accepts) ELSE s

EvRetrieveInd(s, drv, accepts) ==
  LET a == AllocateChannel(s) IN
  CASE ~(s.d.hold /\ NtMode) -> s
    [] s.d.hold /\ NtMode /\ ~a.d.alloc -> a
    [] OTHER -> Relink([a EXCEPT !.d.hold = FALSE], drv, accepts)

EvHoldReq(s) ==
  IF /\ ~NtMode /\ ~s.d.hold
     /\ s.d.state \in {"UA", "UA_TO", "U2_ACK", "U3", "U3_TO", "U4", "U4_TO"}
  THEN [PutOnHold(s) EXCEPT !.d.retrieving = FALSE] ELSE s

EvRetrieveReq(s) ==
  IF s.d.hold /\ ~NtMode
  THEN [s EXCEPT !.d.hold = FALSE, !.d.retrieving = TRUE] ELSE s

EvRetrieveAck(s, drv, accepts) ==
  IF s.d.retrieving /\ ~NtMode
  THEN Relink([AllocateChannel(s) EXCEPT !.d.retrieving = FALSE], drv, accepts)
  ELSE s

EvSetupRq(s, complete) ==
  IF s.d.state = "OUTGOING"
  THEN SetState(NeedRelease(s), IF complete THEN "U1" ELSE "U2") ELSE s

EvInfoRq(s) ==
  IF s.d.state \in {"U2", "U2_ACK"} THEN SetState(s, s.d.state) ELSE s

EvInfo(s) == IF s.d.state = "IN_ACK" THEN SetState(s, s.d.state) ELSE s

EvCallPrc(s) ==
  IF Between("OUTGOING", s.d.state, "U3") THEN TryChannel(SetState(s, "U3")) ELSE s

EvSetupAk(s) ==
  CASE s.d.state = "U2"     -> TryChannel(SetState(s, "U2_ACK"))
    [] s.d.state = "U2_ACK" -> s
    [] OTHER                -> EvCallPrc(s)

EvAlert(s) ==
  IF Between("OUTGOING", s.d.state, "U4")
  THEN SetState(IF No[s.d.state] < No["U3"] THEN TryChannel(s) ELSE s, "U4")
  ELSE s

EvConnect(s, p) ==
  LET a == TryChannel(s)
      connected == s.d.chan # CHAN_ANY /\ a.d.alloc
  IN CASE ~Between("OUTGOING", s.d.state, "UA") -> s
       [] Between("OUTGOING", s.d.state, "UA") /\ connected ->
            SetState(SetPipe(a, p), "UA")
       [] OTHER -> NoChannelAvailable(a)

\* "ind" application interfaces were told of the call; without any it ends.
EvSetup(s, complete, tone, accepts, ind) ==
  LET n == IF NtMode \/ P2P THEN NeedRelease(s) ELSE s
      a == AllocateChannel(n)
      b == SetState(a, IF complete THEN "U6" ELSE "IN_ACK")
      t == IF tone THEN Link(b, "TONE", accepts) ELSE b
  IN CASE s.d.state \notin {"INCOMING", "IN_ACK"} -> s
       [] s.d.state \in {"INCOMING", "IN_ACK"} /\ ~a.d.alloc ->
            NoChannelAvailable(a)
       [] s.d.state \in {"INCOMING", "IN_ACK"} /\ a.d.alloc /\ ind = 0 ->
            Release(NeedRelease(t))
       [] OTHER -> [t EXCEPT !.d.ind = ind]

EvProceedingRq(s) ==
  IF Between("INCOMING", s.d.state, "U6") THEN SetState(s, "U6") ELSE s

EvAlertRq(s) ==
  IF Between("INCOMING", s.d.state, "U7") THEN SetState(s, "U7") ELSE s

EvConAck(s) == IF s.d.state = "U8" THEN SetState(s, "UA") ELSE s

\* Mutant: an accepted call is not marked for release.
BugAcceptNotOwed(s) ==
  IF Between("INCOMING", s.d.state, "U8")
  THEN SetState(s, IF NtMode THEN "UA" ELSE "U8") ELSE s

EvSetAcRs(s) ==
  LET b == SetState(NeedRelease(s), "U8") IN
  CASE ~Between("INCOMING", s.d.state, "U8") -> s
    [] Between("INCOMING", s.d.state, "U8") /\ NtMode -> EvConAck(b)
    [] OTHER -> b

-----------------------------------------------------------------------------
(* The context of a call descriptor, and its return to the controller.     *)

Ctx(c) == [id |-> c, d |-> cds[c], util |-> res.util, ft |-> res.ft,
           ref |-> res.ref, auto |-> res.auto]

Commit(s) ==
  /\ cds' = [cds EXCEPT ![s.id] = s.d]
  /\ res' = [util |-> s.util, ft |-> s.ft, ref |-> s.ref, auto |-> s.auto]

InUse(c) == cds[c].cdid # CDID_UNUSED

\* Events of the wrong direction are dropped (label F_UEM).
Update(s, ev, r) ==
  IF ev \in (IF s.d.incoming THEN IncomingEvents ELSE OutgoingEvents)
  THEN r ELSE s

\* A request of an application, or of layer 4, for a call in use.
Request(c, ev, r) ==
  /\ attached /\ ev \in Events /\ InUse(c)
  /\ Commit(Update(Ctx(c), ev, r))
  /\ UNCHANGED <<count, attached, mode, silent>>

\* Mutant: the pipe of the call is not compared.
BugMatchingAnyPipe(p, cr) == {c \in CDs : InUse(c) /\ cds[c].cr = cr}

\* cd_by_unitcr
Matching(p, cr) == {c \in CDs : InUse(c) /\ cds[c].cr = cr /\ cds[c].pipe \in {0, p}}

Lowest(S) == CHOOSE c \in S : \A d \in S : c <= d

\* An NT takes no broadcast frames; every other side has one pipe.
RxPipes == IF Multipoint THEN Pipes \ {0} ELSE {0}

\* dss1_decode_ie: the channel is taken over while none is allocated.
Decoded(c, ch) ==
  [Ctx(c) EXCEPT !.d.responded = TRUE,
                 !.d.chan = IF cds[c].alloc THEN @ ELSE ch]

\* Channel identifications: any, or none in the message.
ChannelIEs(c) == IF cds[c].alloc THEN {CHAN_ANY} ELSE ChanInputs

Reaches(c, p, ev) ==
  /\ attached /\ ev \in Events /\ InUse(c)
  /\ c \in Matching(p, cds[c].cr) /\ c = Lowest(Matching(p, cds[c].cr))

\* dss1_pipe_data_ind for a known call reference
Receive(c, p, ev, s, r) ==
  /\ Reaches(c, p, ev)
  /\ Commit(Update(s, ev, r))
  /\ UNCHANGED <<count, attached, mode, silent>>

-----------------------------------------------------------------------------
(* Allocation: i4b_allocate_cd and n_allocate_cd. *)

Unused == {c \in CDs : ~InUse(c)}
NewCdid == NextCdid(count, {cds[c].cdid : c \in CDs})

Allocated(c, p, incoming, cr) ==
  SetState(SetPipe([Ctx(c) EXCEPT
                      !.d = [UnusedCd EXCEPT !.cdid = NewCdid,
                                             !.incoming = incoming,
                                             !.cr = IF incoming THEN cr ELSE NewCdid]],
                   p),
           IF incoming THEN "INCOMING" ELSE "OUTGOING")

CountCdid == count' = IF NewCdid = CDID_UNUSED THEN CdidEnd ELSE NewCdid

NoCdid == /\ NewCdid = CDID_UNUSED
          /\ CountCdid
          /\ UNCHANGED <<cds, res, attached, mode, silent>>

\* I4B_CDID_REQ
CdidReq ==
  /\ attached /\ "SETUPRQ" \in Events /\ Unused # {}
  /\ \/ NoCdid
     \/ /\ NewCdid # CDID_UNUSED
        /\ Commit(Allocated(Lowest(Unused), 0, FALSE, 0))
        /\ CountCdid
        /\ UNCHANGED <<attached, mode, silent>>

\* SETUP with a call reference that is not known
NewCall(p, cr, ch) ==
  [Allocated(Lowest(Unused), p, TRUE, cr) EXCEPT !.d.responded = TRUE, !.d.chan = ch]

RxNewCall(p) ==
  \E cr \in IncomingCRs, ch \in ChanInputs, ind \in 0 .. IndMax,
     complete, accepts \in BOOLEAN, tone \in {FALSE, NtMode} :
    /\ attached /\ "SETUP" \in Events /\ Unused # {}
    /\ Matching(p, cr) = {}
    /\ \/ NoCdid
       \/ /\ NewCdid # CDID_UNUSED
          /\ Commit(EvSetup(NewCall(p, cr, ch), complete, tone, accepts, ind))
          /\ CountCdid
          /\ UNCHANGED <<attached, mode, silent>>

-----------------------------------------------------------------------------
(* Requests of the applications. *)

\* I4B_CONNECT_REQ: an NT, and a request for a channel by number or for none,
\* reserve the channel first.
ConnectRequested(c, ch, complete) ==
  LET s == IF cds[c].alloc THEN Ctx(c) ELSE [Ctx(c) EXCEPT !.d.chan = ch]
      reserve == NtMode \/ ch \in Channels \cup {CHAN_NOT_ANY}
      a == IF reserve THEN AllocateChannel(s) ELSE s
  IN IF reserve /\ ~a.d.alloc THEN FreeCd(a)
     ELSE Update(a, "SETUPRQ", EvSetupRq(a, complete))

ConnectReq ==
  \E c \in CDs, complete \in BOOLEAN : \E ch \in ChannelIEs(c) :
    /\ attached /\ "SETUPRQ" \in Events /\ InUse(c)
    /\ Commit(ConnectRequested(c, ch, complete))
    /\ UNCHANGED <<count, attached, mode, silent>>

\* I4B_CONNECT_RESP; SETUP_RESP_DNTCRE ends the call with the last interface.
ConnectRespAccept == \E c \in CDs : Request(c, "SETACRS", EvSetAcRs(Ctx(c)))
ConnectRespReject == \E c \in CDs : Request(c, "SETRJRS", EvSetRjRs(Ctx(c)))
ConnectRespIgnore ==
  \E c \in CDs : Request(c, "RELEASE",
    IF cds[c].ind < 2 THEN EvRelease(Ctx(c)) ELSE [Ctx(c) EXCEPT !.d.ind = @ - 1])

DisconnectReq == \E c \in CDs : Request(c, "RELEASE", EvRelease(Ctx(c)))

AlertReq ==
  \E c \in CDs : \/ Request(c, "ALERTRQ", EvAlertRq(Ctx(c)))
                 \/ Request(c, "PROCEEDINGRQ", EvProceedingRq(Ctx(c)))

InformationReq == \E c \in CDs : Request(c, "INFORQ", EvInfoRq(Ctx(c)))
HoldReq == \E c \in CDs : Request(c, "HOLD_REQ", EvHoldReq(Ctx(c)))
RetrieveReq == \E c \in CDs : Request(c, "RETRIEVE_REQ", EvRetrieveReq(Ctx(c)))

\* I4B_LINK_B_CHANNEL_DRIVER_REQ
LinkReq ==
  \E c \in CDs, drv \in Drivers \cup {"TONE"}, accepts \in BOOLEAN :
    /\ attached /\ "LINK" \in Events /\ InUse(c)
    /\ Commit(Link(Ctx(c), drv, accepts))
    /\ UNCHANGED <<count, attached, mode, silent>>

UnlinkReq ==
  \E c \in CDs :
    /\ attached /\ "LINK" \in Events /\ InUse(c)
    /\ Commit(Unlink(Ctx(c)))
    /\ UNCHANGED <<count, attached, mode, silent>>

-----------------------------------------------------------------------------
(* Messages for a call that is known. *)

RxSetup(p) ==
  \E c \in CDs, ind \in 0 .. IndMax,
     complete, accepts \in BOOLEAN, tone \in {FALSE, NtMode} :
  \E ch \in ChannelIEs(c) :
    Receive(c, p, "SETUP", Decoded(c, ch),
            EvSetup(Decoded(c, ch), complete, tone, accepts, ind))

RxProgress(p) ==
  \E c \in CDs : \E ch \in ChannelIEs(c) :
    LET s == Decoded(c, ch) IN
    \/ Receive(c, p, "SETUPAK", s, EvSetupAk(s))
    \/ Receive(c, p, "CALLPRC", s, EvCallPrc(s))
    \/ Receive(c, p, "ALERT", s, EvAlert(s))
    \/ Receive(c, p, "INFO", s, EvInfo(s))

RxConnect(p) ==
  \E c \in CDs : \E ch \in ChannelIEs(c) :
    Receive(c, p, "CONNECT", Decoded(c, ch), EvConnect(Decoded(c, ch), p))

RxConAck(p) ==
  \E c \in CDs : \E ch \in ChannelIEs(c) :
    Receive(c, p, "CONACK", Decoded(c, ch), EvConAck(Decoded(c, ch)))

RxStatus(p) ==
  \E c \in CDs, live \in BOOLEAN : \E ch \in ChannelIEs(c) :
    Receive(c, p, "STATUS", Decoded(c, ch), EvStatus(Decoded(c, ch), live))

RxHold(p) ==
  \E c \in CDs : \E ch \in ChannelIEs(c) :
    Receive(c, p, "HOLD_IND", Decoded(c, ch), EvHoldInd(Decoded(c, ch)))

RxRetrieve(p) ==
  \E c \in CDs, drv \in Drivers \cup {"TONE"}, accepts \in BOOLEAN :
  \E ch \in ChannelIEs(c) :
    LET s == Decoded(c, ch) IN
    \/ Receive(c, p, "RETRIEVE_IND", s, EvRetrieveInd(s, drv, accepts))
    \/ Receive(c, p, "RETRIEVE_ACK", s, EvRetrieveAck(s, drv, accepts))

\* RELEASE, RELEASE_COMPLETE, and DISCONNECT without "want_late_inband".  While
\* an NT still calls every terminal, one that hangs up does not end the call
\* unless it rejects it or is busy.
RxRelease(p) ==
  \E c \in CDs, rejects \in BOOLEAN : \E ch \in ChannelIEs(c) :
    LET s == Decoded(c, ch) IN
    Receive(c, p, "RELEASE", s,
            IF Multipoint /\ cds[c].pipe = 0 /\ ~rejects THEN s ELSE EvRelease(s))

\* DISCONNECT with "want_late_inband"
RxDisconnect(p) ==
  \E c \in CDs : \E ch \in ChannelIEs(c) :
    LET s == Decoded(c, ch) IN
    Receive(c, p, "DISCONNECT", s, IF Multipoint THEN s ELSE EvDisconnect(s))

-----------------------------------------------------------------------------
(* Timers, the pipe and the driver. *)

\* cd_set_state_timeout
Timeout(c) ==
  /\ attached /\ InUse(c) /\ cds[c].timer
  /\ Commit(SetState([Ctx(c) EXCEPT !.d.timer = FALSE], TimeoutState(cds[c].state)))
  /\ UNCHANGED <<count, attached, mode, silent>>

\* EV_L3_RELEASE for every call of a set, one after the other.
ReleaseAll(S, auto) ==
  /\ cds' = [c \in CDs |-> IF c \in S THEN UnusedCd ELSE cds[c]]
  /\ res' = [util |-> res.util \ {cds[c].chan : c \in {d \in S : cds[d].alloc}},
             ft   |-> [ch \in BChannels |->
                         IF \E c \in S : /\ cds[c].alloc /\ cds[c].chan = ch
                                         /\ res.ft[ch] = Key(c, cds[c].drv)
                         THEN NoKey ELSE res.ft[ch]],
             ref  |-> [p \in Pipes |->
                         res.ref[p] - Cardinality({c \in S : cds[c].pipe = p})],
             auto |-> Minus(auto, Cardinality(S))]

CallsOn(p) == {c \in CDs : InUse(c) /\ cds[c].pipe = p}

\* dss1_pipe_reset_ind: the pipe went to ST_L2_PAUSE, or a RESTART message.
PipeReset ==
  \E p \in Pipes :
    /\ attached /\ "RESET" \in Events /\ CallsOn(p) # {}
    /\ ReleaseAll(CallsOn(p), res.auto)
    /\ UNCHANGED <<count, attached, mode, silent>>

\* dss1_setup_ft, connect: as N_driver_type says by now
Attach ==
  /\ ~attached
  /\ attached' = TRUE /\ mode' \in Modes
  /\ cds' = [c \in CDs |-> UnusedCd]
  /\ res' = [util |-> {CHAN_D1}, ft |-> res.ft,
             ref |-> [p \in Pipes |-> 0], auto |-> 0]
  /\ UNCHANGED <<count, silent>>

\* dss1_setup_ft, disconnect: auto-activate is cleared, then the pipes reset.
Detach ==
  /\ attached /\ "DETACH" \in Events
  /\ attached' = FALSE
  /\ ReleaseAll({c \in CDs : InUse(c)}, 0)
  /\ UNCHANGED <<count, mode, silent>>

-----------------------------------------------------------------------------
Init ==
  /\ cds = [c \in CDs |-> UnusedCd]
  /\ res = [util |-> {}, ft |-> [ch \in BChannels |-> NoKey],
            ref |-> [p \in Pipes |-> 0], auto |-> 0]
  /\ count = 0 /\ attached = FALSE /\ mode \in Modes /\ silent = FALSE

Applications ==
  \/ CdidReq \/ ConnectReq \/ ConnectRespAccept \/ ConnectRespReject
  \/ ConnectRespIgnore \/ DisconnectReq \/ AlertReq \/ InformationReq
  \/ HoldReq \/ RetrieveReq \/ LinkReq \/ UnlinkReq

\* dss1_pipe_data_ind on pipe p
Network(p) ==
  \/ RxNewCall(p) \/ RxSetup(p) \/ RxProgress(p) \/ RxConnect(p)
  \/ RxConAck(p) \/ RxStatus(p) \/ RxHold(p) \/ RxRetrieve(p)
  \/ RxRelease(p) \/ RxDisconnect(p)

Timeouts == \E c \in CDs : Timeout(c)

GoSilent == /\ "SILENT" \in Events /\ ~silent
            /\ silent' = TRUE
            /\ UNCHANGED <<cds, res, count, attached, mode>>

Next ==
  \/ /\ ~silent
     /\ \/ Applications \/ PipeReset \/ Attach \/ Detach
        \/ \E p \in RxPipes : Network(p)
  \/ Timeouts
  \/ GoSilent

Spec == Init /\ [][Next]_vars

\* Callouts expire.
FairSpec == Spec /\ \A c \in CDs : WF_vars(Timeout(c))

-----------------------------------------------------------------------------
Descriptors ==
  [cdid : 0 .. CdidEnd - 1, cr : Nat, incoming : BOOLEAN, state : States,
   pipe : Pipes \cup {NoPipe}, chan : ChannelIds, alloc : BOOLEAN,
   need_release : BOOLEAN, enquiries : 0 .. EnquiryMax, responded : BOOLEAN,
   hold : BOOLEAN, retrieving : BOOLEAN, want : BOOLEAN,
   drv : Drivers \cup {"TONE", "NONE"}, ind : 0 .. IndMax, timer : BOOLEAN]

Resources ==
  [util : SUBSET Channels, ft : [BChannels -> Keys \cup {NoKey}],
   ref : [Pipes -> Int], auto : 0 .. AutoMod - 1]

\* Type invariant of the controller.
TypeOK ==
  /\ cds \in [CDs -> Descriptors]
  /\ res \in Resources
  /\ count \in 0 .. CdidEnd
  /\ attached \in BOOLEAN /\ mode \in Modes /\ silent \in BOOLEAN

\* An unused descriptor holds nothing; one in use has a pipe.
UnusedHoldsNothing ==
  \A c \in CDs : IF InUse(c) THEN cds[c].pipe \in Pipes ELSE cds[c] = UnusedCd

OwnChannel(c) == IF cds[c].alloc THEN {cds[c].chan} \cap Channels ELSE {}

\* N_channel_utilization is what the calls hold, besides the D-channel: no
\* channel leaks when a call ends, and no two calls are given the same one.
ChannelsExclusive ==
  /\ \A c, d \in CDs : c # d => OwnChannel(c) \cap OwnChannel(d) = {}
  /\ attached => /\ \A c \in CDs : CHAN_D1 \notin OwnChannel(c)
                 /\ res.util = {CHAN_D1} \cup UNION {OwnChannel(c) : c \in CDs}

\* "Allocated CD's need to be freed to decrement L1 activation references":
\* a pipe is referenced once for each of its calls, and layer 1 is kept
\* active once for each call, through every path that moves or ends a call.
ReferencesCounted ==
  attached =>
    /\ \A p \in Pipes : res.ref[p] = Cardinality(CallsOn(p))
    /\ res.auto = Cardinality({c \in CDs : InUse(c)})

\* A driver is linked to a channel only for the call that holds the channel,
\* and only while that call wants it: i4b_link_bchandrvr is always undone
\* before the channel is given away, through hold, release and reset.
DriverOnOwnChannel ==
  \A ch \in BChannels : res.ft[ch] # NoKey =>
    \E c \in CDs : /\ ch \in OwnChannel(c) /\ cds[c].want
                   /\ res.ft[ch] = Key(c, cds[c].drv)

\* No driver unit serves two channels.
DriverOnce ==
  \A ch, k \in BChannels : ch # k /\ res.ft[ch] # NoKey => res.ft[ch] # res.ft[k]

\* cd_by_unitcr takes the first match: there is never a second one, although
\* calls of the adapter match whichever terminal answers, and CDIDs are reused.
LookupUnambiguous ==
  \A c, d \in CDs :
    c # d /\ InUse(c) /\ InUse(d) =>
      /\ cds[c].cdid # cds[d].cdid
      /\ \A p \in RxPipes :
           cds[c].cr = cds[d].cr => ~({cds[c].pipe, cds[d].pipe} \subseteq {0, p})

\* "the timeout is always running while the CD is allocated" (cd_set_state)
TimerRunning == \A c \in CDs : InUse(c) <=> cds[c].timer

\* In NT-mode a call that is active and not on hold has its channel (which may
\* be none by agreement, CHAN_NOT_ANY).
NtActiveHasChannel ==
  NtMode => \A c \in CDs :
    cds[c].state \in {"UA", "UA_TO"} /\ ~cds[c].hold => cds[c].alloc

\* "need to release the call when: sent connect, sent setup, setup rejected":
\* once the other end has heard of the call, from SETUP or from CONNECT, the
\* end of the call is signalled whichever way it ends.
ReleaseOwed ==
  \A c \in CDs :
    \/ ~cds[c].incoming /\ Between("OUTGOING", cds[c].state, "INCOMING")
    \/ Between("U7_TO", cds[c].state, "UC")
    => cds[c].need_release

\* No message disturbs a call it is not for. "The channel id value cannot be changed when
\* channel is allocated", whatever channel a message names; and although terminals of an
\* NT choose call references on their own, and every terminal may answer a call of the NT,
\* a call that has left the broadcast pipe is not touched by messages of another terminal.
CallUndisturbed ==
  [][\A c \in CDs :
       /\ cds[c].alloc /\ cds'[c].alloc => cds'[c].chan = cds[c].chan
       /\ \A p \in RxPipes :
            InUse(c) /\ cds[c].pipe \notin {0, p} /\ cds'[c] # cds[c] => ~Network(p)]_vars

\* When the other end and the applications fall silent, every call is released:
\* the number of unanswered status enquiries is bounded in every state.
SilenceReleases == silent ~> (\A c \in CDs : ~InUse(c))

\* "clear auto-activate": a detached D-channel does not keep layer 1 active.
DetachedNotActivated == ~attached => res.auto = 0
=============================================================================
