------------------------------ MODULE LiteCall ------------------------------
(***************************************************************************)
(* The call control of a telephone interface (dss1/dss1_lite.c): the small *)
(* Q.931 protocol that lets a USB telephone, a USB telephone line or the   *)
(* loopback device look like an ISDN terminal or exchange to the D-channel *)
(* stack of the same controller.                                           *)
(*                                                                         *)
(* "dl" is struct dss1_lite. With dl.nt = FALSE it is a terminal that      *)
(* rings a telephone, with dl.nt = TRUE an exchange in front of a line     *)
(* that rings it. I-frames it has queued are taken by the peer in order    *)
(* (see LiteLink). The peer is the D-channel stack, any Q.931 equipment.   *)
(***************************************************************************)
EXTENDS Integers, Sequences, FiniteSets

CONSTANTS
  Modes,      \* values of dl_is_nt_mode
  NCall,      \* DL_NCALL
  NChan,      \* DL_NCHAN: the channels are CHAN_D1 = 0 and CHAN_B1 .. NChan - 1
  Named,      \* what a channel identification may name (below, or a channel)
  Refs,       \* number of call references it uses (8 in the code)
  PeerRefs,   \* number of call references the peer uses
  QueueMax,   \* DL_QUEUE_MAX
  StatusMax,  \* DL_STATUS_COUNT_MAX
  MaxSaid     \* bound on what the peer does: messages but STATUS, and setups of the D-channel

ASSUME LiteAssumption ==
  /\ Modes \subseteq BOOLEAN
  /\ {NCall, NChan, Refs, PeerRefs, QueueMax, StatusMax, MaxSaid} \subseteq Nat
  /\ Named \subseteq -3 .. NChan /\ NCall > 0 /\ NChan > 1 /\ Refs > 0
  /\ 1 < QueueMax /\ QueueMax <= 2 * Refs

VARIABLES
  dl,     \* struct dss1_lite
  up,     \* the D-channel is connected (prot_curr of CHAN_D1)
  open,   \* calls that the peer regards as open, by call reference
  unheard,\* calls of the peer whose SETUP was ignored
  said,   \* how often the peer did so
  turned  \* the mode was changed during a call

liteVars == <<dl, up, open, unheard, said, turned>>

Descs == 0 .. NCall - 1
Chans == 0 .. NChan - 1

ANY == -1      \* CHAN_ANY
NOT_ANY == -2  \* CHAN_NOT_ANY
NONE == -3     \* no channel identification, or one that is not binding

\* The call references of the interface and of the peer
Own == 0 .. Refs - 1
Theirs == Refs .. Refs + PeerRefs - 1

NoCall == [used |-> FALSE, in |-> FALSE, st |-> "U0", odd |-> FALSE, ref |-> 0,
           need |-> FALSE, count |-> 0, chan |-> ANY, alloc |-> FALSE]

\* The order of the states; the odd state of each waits for a STATUS or is *_ACK.
Rank == [U0 |-> 0, U2 |-> 2, U3 |-> 3, U4 |-> 4, U6 |-> 6, U7 |-> 7, U8 |-> 8,
         UA |-> 10, UC |-> 12]

\* Column "flags" of dss1_lite_out_states and dss1_lite_in_states
StatusCheck(c) == c.odd /\ c.st \notin {"U0", "U2"}

-----------------------------------------------------------------------------
(* Functions of a struct dss1_lite *)

\* The messages that begin and end a call keep their type and reference.
Queued(m, ref) ==
  IF m \in {"SETUP", "RELEASE_COMPLETE"} THEN [type |-> m, ref |-> ref]
  ELSE [type |-> "other", ref |-> 0]

\* dss1_lite_send_message, dss1_lite_send_mbuf
Send(r, i, m) ==
  IF Len(r.txq) < QueueMax - 1
  THEN [r EXCEPT !.txq = Append(@, Queued(m, r.cd[i].ref))]
  ELSE [r EXCEPT !.full = TRUE]

\* dss1_lite_free_channel
FreeChannel(r, i) ==
  [r EXCEPT !.cd[i].alloc = FALSE,
            !.util = IF r.cd[i].alloc THEN @ \ {r.cd[i].chan} ELSE @]

\* dss1_lite_alloc_channel
AllocChannel(r, i) ==
  LET c == r.cd[i]
      free == IF c.chan \in Chans THEN {c.chan} \ r.util ELSE Chans \ (r.util \cup {0})
      id == CHOOSE x \in free : \A y \in free : x <= y
  IN CASE c.alloc -> r
       [] ~c.alloc /\ c.chan = NOT_ANY -> [r EXCEPT !.cd[i].alloc = TRUE]
       [] ~c.alloc /\ c.chan # NOT_ANY /\ free = {} -> [r EXCEPT !.cd[i].chan = ANY]
       [] OTHER -> [r EXCEPT !.cd[i].alloc = TRUE, !.cd[i].chan = id, !.util = @ \cup {id}]

\* dss1_lite_set_state(cd, DL_ST_FREE)
EndCall(r, i) ==
  LET a == IF r.cd[i].need THEN Send(r, i, "RELEASE_COMPLETE") ELSE r
      b == [a EXCEPT !.ring = IF r.nt THEN @ ELSE FALSE,
                     !.hook = IF r.nt THEN "on" ELSE @,
                     !.active = IF @ = i THEN ANY ELSE @]
  IN IF ~r.cd[i].used THEN r
     ELSE [FreeChannel(b, i) EXCEPT !.cd[i] = NoCall]

\* dss1_lite_set_state for the other states: whether it may, and what it does.
May(r, i, in, st) ==
  r.cd[i].used => r.cd[i].in = in /\ Rank[r.cd[i].st] <= Rank[st]

Enter(r, i, in, st, odd) ==
  [r EXCEPT !.cd[i].used = TRUE, !.cd[i].in = in, !.cd[i].st = st, !.cd[i].odd = odd]

SetState(r, i, in, st, odd) ==
  LET a == Enter(r, i, in, st, odd)
  IN IF ~May(r, i, in, st) THEN r
     ELSE IF StatusCheck(a.cd[i]) THEN Send(a, i, "STATUS_ENQUIRY") ELSE a

\* Go to another state, if that is allowed, and send a message.
Advance(r, i, in, st, m) ==
  IF r.cd[i].st # st /\ May(r, i, in, st)
  THEN Send(SetState(r, i, in, st, FALSE), i, m) ELSE r

\* Column "next_state"
NextState(r, i) ==
  LET c == r.cd[i] IN
  IF c.odd \/ c.st \in {"U0", "U2", "U8"} THEN EndCall(r, i)
  ELSE SetState(r, i, c.in, c.st, TRUE)

\* dss1_lite_alloc_cd: the descriptor, if there is one, and the call in it.
AllocCd(r) ==
  {i \in Descs : r.active = ANY /\ ~r.cd[i].used /\ \A j \in 0 .. i - 1 : r.cd[j].used}

NewCall(r, i, in, ref) ==
  LET a == [r EXCEPT !.cd[i] = [NoCall EXCEPT !.ref = IF in THEN ref ELSE r.next],
                     !.next = IF in THEN @ ELSE (@ + 1) % Refs, !.active = i]
  IN IF in THEN SetState(a, i, TRUE, "U0", FALSE) ELSE SetState(a, i, FALSE, "U2", FALSE)

-----------------------------------------------------------------------------
(* Requests and events of the interface *)

\* dss1_lite_alert_request, with the dss1_lite_proceed_request in it
AlertRequest(r, i) ==
  Advance(Advance(r, i, TRUE, "U6", "CALL_PROCEEDING"), i, TRUE, "U7", "ALERT")

\* dss1_lite_setup_accept_resp
AcceptResp(r, i) ==
  LET a == Advance(r, i, TRUE, "U6", "CALL_PROCEEDING")
      b == SetState(a, i, TRUE, "U8", FALSE)
      c == Send([b EXCEPT !.ring = IF r.nt THEN @ ELSE FALSE], i, "CONNECT")
      d == [c EXCEPT !.cd[i].need = TRUE]
  IN IF a.cd[i].st = "U8" \/ ~May(a, i, TRUE, "U8") THEN a
     ELSE IF r.nt THEN SetState(d, i, TRUE, "UA", FALSE) ELSE d

\* Mutant: the call is not marked as known to the peer.
BugHookOff(r) ==
  LET a == [r EXCEPT !.off = TRUE] IN
  IF r.active # ANY THEN AcceptResp(a, r.active)
  ELSE IF AllocCd(a) = {} THEN a
  ELSE LET i == CHOOSE i \in AllocCd(a) : TRUE
       IN Send(NewCall(a, i, FALSE, 0), i, "SETUP")

\* dss1_lite_hook_off
HookOff(r) ==
  LET a == [r EXCEPT !.off = TRUE] IN
  IF r.active # ANY THEN AcceptResp(a, r.active)
  ELSE IF AllocCd(a) = {} THEN a
  ELSE LET i == CHOOSE i \in AllocCd(a) : TRUE
       IN [Send(NewCall(a, i, FALSE, 0), i, "SETUP") EXCEPT !.cd[i].need = TRUE]

\* dss1_lite_hook_on
HookOn(r) ==
  LET a == [r EXCEPT !.off = FALSE] IN
  IF r.active = ANY THEN a ELSE EndCall(a, r.active)

\* dss1_lite_ring_event
RingOn(r) ==
  IF r.active # ANY \/ AllocCd(r) = {} THEN r
  ELSE LET i == CHOOSE i \in AllocCd(r) : TRUE
           a == AllocChannel(NewCall(r, i, FALSE, 0), i)
       IN IF ~a.cd[i].alloc THEN EndCall(a, i)
          ELSE [Send(a, i, "SETUP") EXCEPT !.cd[i].need = TRUE]

RingOff(r) == IF r.active = ANY THEN r ELSE EndCall(r, r.active)

-----------------------------------------------------------------------------
(* dss1_lite_decode_mbuf: a message for descriptor i. A message has a type, *)
(* the channel it names, the call state of a STATUS, and whether a SETUP    *)
(* has the complete number.                                                 *)

\* dss1_lite_decode_channel_id
TakeChannel(r, i, m) ==
  IF r.cd[i].alloc \/ m.chan = NONE THEN r ELSE [r EXCEPT !.cd[i].chan = m.chan]

\* A channel is allocated if one was named.
Proceed(r, i) == IF r.cd[i].chan # ANY THEN AllocChannel(r, i) ELSE r

Setup(r, i, m) ==
  LET a == AllocChannel([r EXCEPT !.cd[i].need = TRUE], i) IN
  IF ~a.cd[i].alloc THEN EndCall(a, i)
  ELSE IF ~r.nt THEN AlertRequest([a EXCEPT !.ring = TRUE], i)
  ELSE IF m.complete THEN AcceptResp([a EXCEPT !.hook = "off"], i)
  ELSE EndCall([a EXCEPT !.hook = "off"], i)

Connect(r, i) ==
  LET a == Proceed(SetState(r, i, FALSE, "UA", FALSE), i)
      b == Send(a, i, "CONNECT_ACKNOWLEDGE")
  IN IF r.cd[i].st = "UA" \/ ~May(r, i, FALSE, "UA") THEN r
     ELSE IF a.cd[i].alloc /\ a.cd[i].chan # ANY
          THEN [b EXCEPT !.hook = IF r.nt THEN "off" ELSE @]
          ELSE EndCall(a, i)

\* Mutant: the answers to STATUS ENQUIRY are not counted.
BugReceiveStatus(r, i, s) ==
  LET c == r.cd[i]
      back == SetState(r, i, c.in, c.st, FALSE)
  IN CASE ~StatusCheck(c) -> r
       [] c.st = "UA" -> IF s = "UA" THEN back ELSE r
       [] c.st = "UC" -> IF s = "UC" THEN back ELSE r
       [] OTHER -> IF s = "setup" THEN back ELSE r

\* dss1_lite_receive_status
ReceiveStatus(r, i, s) ==
  LET c == r.cd[i]
      back == SetState(r, i, c.in, c.st, FALSE)
  IN CASE ~StatusCheck(c) -> r
       [] StatusCheck(c) /\ c.st = "UA" -> IF s = "UA" THEN back ELSE r
       [] StatusCheck(c) /\ c.st = "UC" -> IF s = "UC" THEN back ELSE r
       [] OTHER -> IF s = "setup" /\ c.count < StatusMax
                   THEN [back EXCEPT !.cd[i].count = @ + 1] ELSE r

\* ALERT, SETUP ACKNOWLEDGE, CALL PROCEEDING
Progress(r, i, st, odd) ==
  IF ~May(r, i, FALSE, st) THEN r ELSE Proceed(SetState(r, i, FALSE, st, odd), i)

Decode(r0, i, m) ==
  LET r == TakeChannel(r0, i, m)
      c == r.cd[i] IN
  CASE m.type = "SETUP" -> Setup(r, i, m)
    [] m.type = "ALERT" ->
         IF ~May(r, i, FALSE, "U4") THEN r
         ELSE IF Rank[c.st] < Rank["U3"] THEN Progress(r, i, "U4", FALSE)
         ELSE SetState(r, i, FALSE, "U4", FALSE)
    [] m.type = "SETUP_ACKNOWLEDGE" ->
         IF c.st # "U2" THEN Progress(r, i, "U3", FALSE)
         ELSE IF c.odd THEN r ELSE Progress(r, i, "U2", TRUE)
    [] m.type = "CALL_PROCEEDING" -> Progress(r, i, "U3", FALSE)
    [] m.type = "CONNECT" -> Connect(r, i)
    [] m.type = "CONNECT_ACKNOWLEDGE" ->
         IF c.st = "U8" THEN SetState(r, i, TRUE, "UA", FALSE) ELSE r
    [] m.type = "DISCONNECT" ->
         IF c.st = "UC" THEN r ELSE SetState(r, i, c.in, "UC", FALSE)
    [] m.type = "RELEASE" -> EndCall(r, i)
    [] m.type = "RELEASE_COMPLETE" -> EndCall([r EXCEPT !.cd[i].need = FALSE], i)
    [] m.type = "STATUS_ENQUIRY" -> Send(r, i, "STATUS")
    [] m.type = "INFORMATION" ->
         IF c.in /\ c.st = "U0" THEN SetState(r, i, TRUE, "U0", TRUE) ELSE r
    [] m.type = "STATUS" -> ReceiveStatus(r, i, m.state)

-----------------------------------------------------------------------------
\* After the first dss1_lite_l1_setup
LiteInit ==
  /\ \E nt \in Modes :
       dl = [nt |-> nt, cd |-> [i \in Descs |-> NoCall], active |-> ANY, util |-> {},
             txq |-> <<>>, full |-> FALSE, next |-> 0, off |-> FALSE, ring |-> FALSE,
             hook |-> "on"]
  /\ up = TRUE /\ open = {} /\ unheard = {} /\ said = 0 /\ turned = FALSE

Becomes(r) == dl' = r /\ UNCHANGED unheard

\* yealink_intr_callback, iloop_timeout: the handset is lifted or put back.
Lift == ~dl.nt /\ Becomes(HookOff(dl)) /\ UNCHANGED <<up, open, said, turned>>
PutBack == ~dl.nt /\ Becomes(HookOn(dl)) /\ UNCHANGED <<up, open, said, turned>>

\* g_phone_handle_request, g_phone_isoc_read_callback: the line rings.
Ring == dl.nt /\ Becomes(RingOn(dl)) /\ UNCHANGED <<up, open, said, turned>>

\* g_phone_watchdog: the line has stopped ringing.
RingEnds ==
  /\ dl.nt /\ dl.hook = "on"
  /\ Becomes(RingOff(dl)) /\ UNCHANGED <<up, open, said, turned>>

\* dss1_lite_dtmf_event
Dtmf ==
  /\ ~dl.nt /\ dl.active # ANY /\ dl.cd[dl.active].st = "U2"
  /\ Becomes(Send(dl, dl.active, "INFORMATION")) /\ UNCHANGED <<up, open, said, turned>>

\* dss1_lite_process begins with this: "simulate another hook off".
LiftedAgain == IF dl.active = ANY /\ dl.off /\ ~dl.nt THEN HookOff(dl) ELSE dl

\* dss1_lite_process, when nothing was received and no time is up
LitePoll == up /\ Becomes(LiftedAgain) /\ UNCHANGED <<up, open, said, turned>>

\* ... and when the time of a call is up (dss1_lite_check_timeout)
CheckTimeout ==
  /\ up /\ dl.cd[0].used
  /\ Becomes(NextState(LiftedAgain, 0)) /\ UNCHANGED <<up, open, said, turned>>

\* ... and when the peer has sent a message about a call. A SETUP begins one, with a
\* reference the peer does not use; it is ignored while there is another call.
Says(m, ref) ==
  /\ up /\ (m.type = "STATUS" \/ said < MaxSaid)
  /\ said' = IF m.type = "STATUS" THEN said ELSE said + 1
  /\ UNCHANGED <<up, turned>>
  /\ LET r == LiftedAgain IN
     IF m.type = "SETUP"
     THEN /\ ref \in Theirs \ open /\ open' = open \cup {ref}
          /\ IF AllocCd(r) = {}
             THEN dl' = r /\ unheard' = unheard \cup {ref}
             ELSE LET i == CHOOSE i \in AllocCd(r) : TRUE
                  IN Becomes(Decode(NewCall(r, i, TRUE, ref), i, m))
     ELSE /\ ref \in open
          /\ open' = IF m.type = "RELEASE_COMPLETE" THEN open \ {ref} ELSE open
          /\ \E i \in Descs :
               r.cd[i].used /\ r.cd[i].ref = ref /\ Becomes(Decode(r, i, m))

\* The peer gives up a call that the interface does not, or no longer, know of.
PeerForgets(ref) ==
  /\ up /\ ref \in open /\ \A i \in Descs : dl.cd[i].used => dl.cd[i].ref # ref
  /\ open' = open \ {ref} /\ unheard' = unheard \ {ref} /\ UNCHANGED <<dl, up, said, turned>>

\* The peer takes a frame from the queue (LiteLink has the frames).
PeerTakes ==
  /\ up /\ dl.txq # <<>>
  /\ LET m == Head(dl.txq) IN
     /\ open' = CASE m.type = "SETUP" -> open \cup {m.ref}
                  [] m.type = "RELEASE_COMPLETE" -> open \ {m.ref}
                  [] OTHER -> open
     /\ unheard' = IF m.type = "RELEASE_COMPLETE" THEN unheard \ {m.ref} ELSE unheard
  /\ dl' = [dl EXCEPT !.txq = Tail(@)] /\ UNCHANGED <<up, said, turned>>

\* dss1_lite_l1_setup for the D-channel: the queue is emptied, the calls stay. The
\* peer begins anew (dss1_setup_ft).
L1Setup(on, nt) ==
  /\ up' = on
  /\ dl' = [dl EXCEPT !.txq = <<>>, !.full = FALSE, !.nt = nt]
  /\ turned' = (turned \/ (nt # dl.nt /\ dl.active # ANY))
  /\ open' = {} /\ unheard' = {} /\ said < MaxSaid /\ said' = said + 1

LiteMessages ==
  [type : {"SETUP"}, chan : Named, complete : BOOLEAN]
    \cup [type : {"ALERT", "CALL_PROCEEDING", "SETUP_ACKNOWLEDGE", "CONNECT"},
          chan : Named]
    \cup [type : {"CONNECT_ACKNOWLEDGE", "DISCONNECT", "RELEASE", "RELEASE_COMPLETE",
                  "STATUS_ENQUIRY", "INFORMATION"}, chan : {NONE}]
    \cup [type : {"STATUS"}, chan : {NONE}, state : {"setup", "UA", "UC", "other"}]

LiteNext ==
  \/ Lift \/ PutBack \/ Ring \/ RingEnds \/ Dtmf \/ LitePoll \/ CheckTimeout \/ PeerTakes
  \/ \E m \in LiteMessages, ref \in Own \cup Theirs : Says(m, ref)
  \/ \E ref \in Own \cup Theirs : PeerForgets(ref)
  \/ \E on \in BOOLEAN, nt \in Modes : L1Setup(on, nt)

LiteSpec == LiteInit /\ [][LiteNext]_liteVars /\ WF_liteVars(CheckTimeout)

-----------------------------------------------------------------------------
(* Properties *)

LiteTypeOK ==
  /\ dl.nt \in Modes /\ dl.active \in Descs \cup {ANY} /\ dl.util \subseteq Chans
  /\ Len(dl.txq) < QueueMax /\ dl.full \in BOOLEAN /\ dl.next \in Own /\ dl.hook \in {"on", "off"}
  /\ \A i \in Descs :
       LET c == dl.cd[i] IN
       /\ c.ref \in Own \cup Theirs /\ c.count \in 0 .. StatusMax
       /\ c.chan \in NOT_ANY .. NChan /\ c.st \in DOMAIN Rank
  /\ up \in BOOLEAN /\ open \subseteq Own \cup Theirs /\ said \in 0 .. MaxSaid /\ turned \in BOOLEAN

\* There is never more than one call, it is the active one, and it is in the first
\* descriptor: the timeout is checked for that descriptor alone.
TimeoutCoversCalls == \A i \in Descs : dl.cd[i].used <=> (i = 0 /\ dl.active = i)

\* A call that the peer regards as open is a call here, or the peer is about to be told
\* that it is over: the end of a call is lost only with a full queue.
NoOrphanCall ==
  ~dl.full => \A ref \in open \ unheard :
    \/ \E i \in Descs : dl.cd[i].used /\ dl.cd[i].ref = ref
    \/ \E k \in DOMAIN dl.txq : dl.txq[k] = [type |-> "RELEASE_COMPLETE", ref |-> ref]

\* The channels that are marked are those of the calls, and a call that is connected
\* has a channel or was told that it has none.
ChannelsAccounted ==
  /\ dl.util = {dl.cd[i].chan : i \in {j \in Descs : dl.cd[j].alloc}} \ {NOT_ANY}
  /\ \A i \in Descs : dl.cd[i].used /\ dl.cd[i].st \in {"U8", "UA"} => dl.cd[i].alloc

\* The telephone rings and the line is taken for a call only: not after its end,
\* and no telephone rings on once it was answered.
DeviceFollowsCall ==
  /\ dl.active = ANY /\ ~turned => ~dl.ring /\ dl.hook = "on"
  /\ dl.ring /\ ~turned => dl.cd[dl.active].in /\ dl.cd[dl.active].st \notin {"U8", "UA"}

InSetup(i) == dl.cd[i].used /\ dl.cd[i].st \notin {"UA", "UC"}

\* A call that is neither answered nor refused ends, though the peer answers every
\* STATUS ENQUIRY: the answers are counted.
SetupEnds == []<>(~up \/ \A i \in Descs : ~InSetup(i))

\* However a call of the telephone interface ends, what it used is accounted for: the
\* timeout, the peer, the channels and the device.
LiteAccounted ==
  /\ LiteTypeOK
  /\ TimeoutCoversCalls /\ NoOrphanCall /\ ChannelsAccounted /\ DeviceFollowsCall
=============================================================================
