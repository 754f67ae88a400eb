------------------------------ MODULE Dss1Link ------------------------------
(***************************************************************************)
(* Numbered I-frame transfer of the D-channel data link (dss1_l2fsm.c):    *)
(* one sending pipe, the D-channel, and the receiving half of the pipe at  *)
(* the other end.  The D-channel keeps frames in order and may lose any of *)
(* them.  Either end may drop its pipe (ST_L2_PAUSE) at any moment, which  *)
(* makes the frame numbers of the two ends disagree.                       *)
(*                                                                         *)
(* "pipe" is the DSS1_TCP_pipe of the sender with the sc_current_* fields  *)
(* of its softc.  "rx_nr" is the peer's receive counter.  An L3 message is *)
(* its number, 1, 2, 3, ... in the order L3 handed it to L2; ZIF is a      *)
(* frame that consists of its header only.                                 *)
(***************************************************************************)
EXTENDS Naturals, Sequences

CONSTANTS
  NrMax,      \* modulus of the frame numbers (NR_MAX, 128 in the code)
  Lines,      \* the lines of the instance, see AllLines
  Cap,        \* bound: frames in flight in each direction
  QueueMax    \* IFQ_MAXLEN, the length of a pipe's queue

\* The sender's side of the bus; "short": i4b_getmbuf and m_copypacket may fail;
\* "prompt": no frame is in flight for as long as a state timeout; "load" bounds
\* the L3 messages handed to L2.
AllLines ==
  [side : {"P2P", "TE", "NT"}, short : BOOLEAN, prompt : BOOLEAN, load : Nat]

ASSUME LinkAssumption ==
  /\ NrMax \in Nat /\ NrMax >= 4
  /\ \A l \in Lines : l \in AllLines
  /\ Cap \in Nat \ {0}
  /\ QueueMax \in Nat \ {0}

VARIABLES
  line,       \* the line, which never changes
  pipe,       \* the sending pipe
  rx_nr,      \* the peer's rx_nr
  fwd,        \* frames on their way to the peer
  bwd,        \* frames on their way back
  next,       \* number of the next L3 message
  delivered,  \* messages the peer's L3 received (dss1_pipe_data_ind)
  dropped     \* messages L2 or L3 gave up: drained, truncated, queue full

vars == <<line, pipe, rx_nr, fwd, bwd, next, delivered, dropped>>

ZIF == 0
Data == 1 .. line.load

StateNo == [PAUSE |-> 0, SEND_TEI |-> 1, SEND_SABME |-> 2, SEND_UA |-> 3,
            SINGLE_FRAME |-> 4, MULTI_FRAME |-> 5]

TimeoutState == [PAUSE |-> "PAUSE", SEND_TEI |-> "SEND_TEI",
                 SEND_SABME |-> "SEND_TEI", SEND_UA |-> "SEND_TEI",
                 SINGLE_FRAME |-> "SEND_TEI", MULTI_FRAME |-> "SINGLE_FRAME"]

TeiAssigned(p) == StateNo[p.state] > StateNo["SEND_TEI"]

IFrame(ns, pbit, d) == [type |-> "I", ns |-> ns, p |-> pbit, data |-> d]
SFrame(nr) == [type |-> "S", nr |-> nr]
Sabme == [type |-> "SABME"]
Disc == [type |-> "DISC"]

QueuedData(q) == {q[i] : i \in 1 .. Len(q)} \ {ZIF}

-----------------------------------------------------------------------------
(* dss1_pipe_set_state: the pipe after the change, the U-frames it sends   *)
(* and the messages it gives up.                                           *)

Pause(p) == [p EXCEPT !.state = "PAUSE", !.refcount = 0, !.q = << >>,
                      !.size = 0, !.length = 0, !.tx_nr = 0, !.t200 = FALSE]

\* SEND_TEI keeps a pipe that is in use: its TEI is a fixed one.
SendTei(p) ==
  IF p.refcount > 0 THEN [p EXCEPT !.state = "SEND_SABME"] ELSE Pause(p)

\* An idle pipe is removed unless the other calls of the bus keep it.
SingleFrame(p, keep) ==
  IF p.refcount = 0 /\ p.q = << >> /\ ~keep
  THEN Pause(p) ELSE [p EXCEPT !.state = "SINGLE_FRAME"]

MayKeep ==
  CASE line.side = "P2P" -> {TRUE} [] line.side = "NT" -> BOOLEAN [] OTHER -> {FALSE}

SetState(p, new, keep) ==
  IF ~TeiAssigned(p) /\ StateNo[new] >= StateNo["SEND_TEI"] + 2
  THEN p
  ELSE CASE new = "SINGLE_FRAME" -> SingleFrame(p, keep)
         [] new = "SEND_TEI"     -> SendTei(p)
         [] new = "PAUSE"        -> Pause(p)
         [] OTHER                -> [p EXCEPT !.state = new]

SetStateTx(p, new, keep) ==
  LET r == SetState(p, new, keep).state IN
  CASE new = "SEND_TEI" /\ r = "SEND_SABME" /\ line.side # "NT" -> <<Sabme>>
    [] new = "SINGLE_FRAME" /\ r = "PAUSE" /\ p.state # "PAUSE" /\ line.side = "NT"
         -> <<Disc>>
    [] OTHER -> << >>

Lost(p, p1) == QueuedData(p.q) \ QueuedData(p1.q)

\* dss1_pipe_activate_req
Activated(p) ==
  IF p.state = "PAUSE" THEN [p EXCEPT !.state = "SEND_SABME"] ELSE p

ActivateTx(p) ==
  IF p.state = "PAUSE" /\ line.side # "NT" THEN <<Sabme>> ELSE << >>

-----------------------------------------------------------------------------
(* dss1_l2_put_mbuf, the "check_NR" part: NR acknowledges, or it does not  *)
(* fit the window and every frame is sent again.                           *)

NrDiff(p, nr) == (nr + NrMax - p.tx_nr) % NrMax

\* Mutant: the window is not reset when NR does not fit.
BugCheckNRKeepsWindow(p, nr, keep) ==
  LET p1 == [p EXCEPT !.tx_nr = nr] IN
  IF NrDiff(p, nr) = 0 THEN p1
  ELSE [SetState(p1, "MULTI_FRAME", keep) EXCEPT
          !.length = IF @ < NrDiff(p, nr) THEN 0 ELSE @ - NrDiff(p, nr)]

CheckNR(p, nr, keep) ==
  LET d  == NrDiff(p, nr)
      p1 == [p EXCEPT !.tx_nr = nr]
  IN CASE d = 0 -> p1
       [] d > p.length ->
            [SetState(p1, "SINGLE_FRAME", keep) EXCEPT !.size = 0, !.length = 0]
       [] OTHER ->
            [SetState(p1, "MULTI_FRAME", keep) EXCEPT !.length = @ - d]

CheckNRTx(p, nr, keep) ==
  IF NrDiff(p, nr) > p.length
  THEN SetStateTx([p EXCEPT !.tx_nr = nr], "SINGLE_FRAME", keep) ELSE << >>

-----------------------------------------------------------------------------
(* dss1_l2_get_mbuf for the one pipe.                                      *)

\* Zero-length frames wanted in front, and the ones that are there.
NeedZif(p) == \/ p.tx_nr \in {0, NrMax - 1}
              \/ StateNo[p.state] <= StateNo["SINGLE_FRAME"]

LeadingZifs(q) ==
  IF Len(q) = 0 \/ q[1] # ZIF THEN 0 ELSE IF Len(q) = 1 \/ q[2] # ZIF THEN 1 ELSE 2

Zifs(n) == [i \in 1 .. n |-> ZIF]

Minimum(a, b) == IF a <= b THEN a ELSE b

\* Mutant: the window reaches up to the last number.
BugNewWindowWraps(p, zifs) ==
  LET q2   == Zifs(zifs) \o SubSeq(p.q, p.size + 1, Len(p.q))
      size == Minimum(IF NeedZif(p) THEN 2 ELSE NrMax - p.tx_nr, Len(q2))
  IN [p EXCEPT !.q = q2, !.size = size, !.length = size, !.cur = 1,
               !.curLength = size, !.curNr = p.tx_nr, !.t200 = FALSE]

\* A new window: forget what is acknowledged, number the frames from tx_nr.
NewWindow(p, zifs) ==
  LET q1   == SubSeq(p.q, p.size + 1, Len(p.q))
      q2   == Zifs(zifs) \o q1
      max  == IF NeedZif(p) THEN 2 ELSE NrMax - 1 - p.tx_nr
      size == Minimum(max, Len(q2))
  IN [p EXCEPT !.q = q2, !.size = size, !.length = size, !.cur = 1,
               !.curLength = size, !.curNr = p.tx_nr, !.t200 = FALSE]

ZifChoices(p) ==
  LET want == IF NeedZif(p)
              THEN 2 - LeadingZifs(SubSeq(p.q, p.size + 1, Len(p.q))) ELSE 0
  IN IF line.short THEN 0 .. want ELSE {want}

Window(p, zifs) == IF p.length = 0 THEN NewWindow(p, zifs) ELSE p

Sent(p) == [p EXCEPT !.cur = @ + 1, !.curLength = @ - 1,
                     !.curNr = (@ + 1) % NrMax]

NotSent(p) == [p EXCEPT !.curLength = 0, !.t200 = @ \/ p.q # << >>]

CurrentFrame(p) ==
  IFrame(p.curNr, p.curLength = 1,
         IF p.cur <= Len(p.q) THEN p.q[p.cur] ELSE ZIF)

-----------------------------------------------------------------------------
Init ==
  /\ line \in Lines
  /\ pipe = [state |-> "PAUSE", refcount |-> 0, q |-> << >>, size |-> 0,
             length |-> 0, tx_nr |-> 0, cur |-> 0, curLength |-> 0,
             curNr |-> 0, t200 |-> FALSE]
  /\ rx_nr = 0
  /\ fwd = << >> /\ bwd = << >>
  /\ next = 1 /\ delivered = {} /\ dropped = {}

Room(ch, frames) == Len(ch) + Len(frames) <= Cap

\* A call takes the pipe (cd_set_pipe) and activates it.
OpenPipe ==
  /\ pipe.refcount = 0
  /\ Room(fwd, ActivateTx(pipe))
  /\ pipe' = [Activated(pipe) EXCEPT !.refcount = 1]
  /\ fwd' = fwd \o ActivateTx(pipe)
  /\ UNCHANGED <<rx_nr, bwd, next, delivered, dropped>>

\* The last call leaves the pipe.
ClosePipe ==
  /\ pipe.refcount = 1
  /\ pipe' = [pipe EXCEPT !.refcount = 0]
  /\ UNCHANGED <<rx_nr, fwd, bwd, next, delivered, dropped>>

\* dss1_pipe_data_req
DataReq ==
  /\ next <= line.load
  /\ next' = next + 1
  /\ IF Len(pipe.q) >= QueueMax
     THEN dropped' = dropped \cup {next} /\ UNCHANGED pipe
     ELSE pipe' = [pipe EXCEPT !.q = Append(@, next)] /\ UNCHANGED dropped
  /\ UNCHANGED <<rx_nr, fwd, bwd, delivered>>

\* dss1_pipe_data_acknowledge: the frames of one call shrink to the header.
DataAcknowledge ==
  \E S \in SUBSET QueuedData(pipe.q) \ {{}} :
    /\ pipe' = [pipe EXCEPT !.q =
                  [i \in DOMAIN @ |-> IF @[i] \in S THEN ZIF ELSE @[i]]]
    /\ dropped' = dropped \cup S
    /\ UNCHANGED <<rx_nr, fwd, bwd, next, delivered>>

\* dss1_pipe_set_state_timeout
StateTimeout ==
  \E keep \in MayKeep :
    LET new == TimeoutState[pipe.state]
        p1  == SetState(pipe, new, keep)
        out == SetStateTx(pipe, new, keep)
    IN /\ pipe.state # "PAUSE"
       /\ line.prompt => fwd = << >> /\ bwd = << >>
       /\ Room(fwd, out)
       /\ pipe' = p1
       /\ fwd' = fwd \o out
       /\ dropped' = dropped \cup Lost(pipe, p1)
       /\ UNCHANGED <<rx_nr, bwd, next, delivered>>

\* dss1_l2_get_mbuf_timeout: T200, repeat what is not acknowledged.
GetMbufTimeout ==
  /\ pipe.t200
  /\ pipe' = [pipe EXCEPT !.size = @ - pipe.length, !.length = 0, !.t200 = FALSE]
  /\ UNCHANGED <<rx_nr, fwd, bwd, next, delivered, dropped>>

\* dss1_l2_get_mbuf: layer 1 asks for a frame.
GetMbuf ==
  \E zifs \in ZifChoices(pipe), copied \in (IF line.short THEN BOOLEAN ELSE {TRUE}) :
    LET p1 == Window(pipe, zifs) IN
    /\ TeiAssigned(pipe)
    /\ Len(fwd) < Cap
    /\ CASE p1.curLength > 0 /\ copied ->
              pipe' = Sent(p1) /\ fwd' = Append(fwd, CurrentFrame(p1))
         [] p1.curLength > 0 /\ ~copied ->
              pipe' = NotSent(Sent(p1)) /\ UNCHANGED fwd
         [] OTHER ->
              pipe' = NotSent(p1) /\ UNCHANGED fwd
    /\ UNCHANGED <<rx_nr, bwd, next, delivered, dropped>>

\* dss1_l2_put_mbuf at the sender.
PutMbuf ==
  \E keep \in MayKeep :
    LET f    == Head(bwd)
        p0   == IF line.side = "TE" THEN pipe ELSE Activated(pipe)
        out0 == IF line.side = "TE" THEN << >> ELSE ActivateTx(pipe)
        p1   == IF ~TeiAssigned(p0) THEN p0 ELSE
                CASE f.type = "SABME" -> SetState(p0, "SEND_UA", keep)
                  [] f.type = "DISC"  -> SetState(p0, "PAUSE", keep)
                  [] OTHER            -> CheckNR(p0, f.nr, keep)
        out1 == IF TeiAssigned(p0) /\ f.type = "S"
                THEN CheckNRTx(p0, f.nr, keep) ELSE << >>
    IN /\ bwd # << >>
       /\ Room(fwd, out0 \o out1)
       /\ bwd' = Tail(bwd)
       /\ pipe' = p1
       /\ fwd' = fwd \o out0 \o out1
       /\ dropped' = dropped \cup Lost(pipe, p1)
       /\ UNCHANGED <<rx_nr, next, delivered>>

-----------------------------------------------------------------------------
(* The peer: the same code, of which only the receive counter matters.     *)

\* dss1_l2_put_mbuf at the peer, an I-frame.  Without the P-bit the answer
\* is left out when an I-frame of the peer will carry the number.
PeerIFrame ==
  /\ fwd # << >> /\ Head(fwd).type = "I"
  /\ fwd' = Tail(fwd)
  /\ LET f  == Head(fwd)
         ok == f.ns = rx_nr
         nr == IF ok THEN (rx_nr + 1) % NrMax ELSE rx_nr
     IN /\ rx_nr' = nr
        /\ delivered' = IF ok THEN delivered \cup ({f.data} \ {ZIF}) ELSE delivered
        /\ \/ Room(bwd, <<f>>) /\ bwd' = Append(bwd, SFrame(nr))
           \/ ok /\ ~f.p /\ UNCHANGED bwd
  /\ UNCHANGED <<pipe, next, dropped>>

PeerUFrame ==
  /\ fwd # << >> /\ Head(fwd).type \in {"SABME", "DISC"}
  /\ fwd' = Tail(fwd)
  /\ rx_nr' = 0
  /\ UNCHANGED <<pipe, bwd, next, delivered, dropped>>

\* An I-frame of the peer carries its rx_nr too.
PeerSendsNR ==
  /\ Len(bwd) < Cap
  /\ bwd' = Append(bwd, SFrame(rx_nr))
  /\ UNCHANGED <<pipe, rx_nr, fwd, next, delivered, dropped>>

\* The peer's state timeout: SABME from everyone but an NT.
PeerSabme ==
  /\ line.side # "TE" /\ Len(bwd) < Cap
  /\ bwd' = Append(bwd, Sabme)
  /\ UNCHANGED <<pipe, rx_nr, fwd, next, delivered, dropped>>

\* The peer removes its pipe; an NT sends DISC, twice: the second
\* copy finds the pipe removed, or stands in for a first one that was lost.
PeerPause ==
  LET out == IF line.side = "TE" THEN <<Disc>> ELSE << >> IN
  /\ Room(bwd, out)
  /\ bwd' = bwd \o out
  /\ rx_nr' = 0
  /\ UNCHANGED <<pipe, fwd, next, delivered, dropped>>

-----------------------------------------------------------------------------
LoseFwd == /\ fwd # << >> /\ fwd' = Tail(fwd)
           /\ UNCHANGED <<pipe, rx_nr, bwd, next, delivered, dropped>>

LoseBwd == /\ bwd # << >> /\ bwd' = Tail(bwd)
           /\ UNCHANGED <<pipe, rx_nr, fwd, next, delivered, dropped>>

Next ==
  /\ UNCHANGED line
  /\ \/ OpenPipe \/ ClosePipe \/ DataReq \/ DataAcknowledge
     \/ StateTimeout \/ GetMbufTimeout \/ GetMbuf \/ PutMbuf
     \/ PeerIFrame \/ PeerUFrame \/ PeerSendsNR \/ PeerSabme \/ PeerPause
     \/ LoseFwd \/ LoseBwd

Spec == Init /\ [][Next]_vars

-----------------------------------------------------------------------------
Frames == [type : {"I"}, ns : 0 .. NrMax - 1, p : BOOLEAN, data : Data \cup {ZIF}]
Replies == [type : {"S"}, nr : 0 .. NrMax - 1]
UFrames == {Sabme, Disc}

\* Type invariant of the link.
TypeOK ==
  /\ line \in Lines
  /\ pipe \in [state : DOMAIN StateNo, refcount : 0 .. 1,
               q : Seq(Data \cup {ZIF}), size : Nat, length : Nat,
               tx_nr : 0 .. NrMax - 1, cur : Nat, curLength : Nat,
               curNr : 0 .. NrMax - 1, t200 : BOOLEAN]
  /\ rx_nr \in 0 .. NrMax - 1
  /\ fwd \in Seq(Frames \cup UFrames)
  /\ bwd \in Seq(Replies \cup UFrames)
  /\ next \in 1 .. line.load + 1
  /\ delivered \subseteq Data /\ dropped \subseteq Data

\* The window lies inside the queue, so that dss1_l2_get_mbuf never frees more
\* frames than there are, and sc_current_mbuf never runs off the queue, even
\* when mbufs are short and a frame is not copied.  And a message never travels under
\* number 0 or NrMax - 1, the numbers a peer that reset its counter could acknowledge
\* by accident ("maximum unwrapped window"), unless mbufs are short.
WindowSound ==
  /\ TypeOK
  /\ pipe.length <= pipe.size /\ pipe.size <= Len(pipe.q)
  /\ pipe.length > 0 /\ pipe.curLength > 0 =>
       pipe.cur + pipe.curLength = pipe.size + 1
  /\ \A i \in 1 .. Len(fwd) :
       ~line.short /\ fwd[i].type = "I" /\ fwd[i].data # ZIF => fwd[i].ns \in 1 .. NrMax - 2

\* "It is better to have two copies of a frame than none": a message leaves
\* the sender's queue only when the peer's L3 has it, or when L2 or L3 gave
\* it up, whatever is lost and whichever end resets its numbers, and it reaches the
\* peer's L3 only after every earlier one.  The exceptions are a shortage of mbufs,
\* and an answer that is older than a state timeout.
NoMessageLost ==
  ~line.short /\ line.prompt =>
    /\ \A d \in 1 .. next - 1 : d \in delivered \cup dropped \cup QueuedData(pipe.q)
    /\ \A d \in delivered : \A e \in 1 .. d - 1 : e \in delivered \cup dropped
=============================================================================
