------------------------------ MODULE LiteLink ------------------------------
(***************************************************************************)
(* The I-frames of a telephone interface (dss1/dss1_lite.c), which has no  *)
(* retransmission timer: at every dss1_lite_process it sends the first     *)
(* frames of its queue again, and takes the number it counts from out of   *)
(* every frame of the peer, whatever the number is.                        *)
(*                                                                         *)
(* The peer is a receiver of LAPD: it takes the frame that bears the       *)
(* number it expects and reports that number. Frame numbers are those of   *)
(* the code divided by two, modulo Mod (128 in the code).                  *)
(***************************************************************************)
EXTENDS Integers, Sequences, SequencesExt

CONSTANTS
  Mod,       \* modulus of the frame numbers
  TxMax,     \* DL_QUEUE_MAX
  MaxFrames, \* bound on the frames that are queued
  MaxReports \* bound on the reports of the peer that wait

ASSUME LiteLinkAssumption ==
  /\ {Mod, TxMax, MaxFrames, MaxReports} \subseteq Nat
  /\ TxMax > 1 /\ TxMax \div 2 < Mod

VARIABLES
  given,   \* the frames that were queued, 1 .. given
  wait,    \* dl_tx_mbuf from dl_tx_in to dl_tx_out
  num,     \* dl_tx_num
  win,     \* dl_tx_window
  taken,   \* the frames the peer has taken
  nr,      \* the number the peer expects
  back,    \* reports of the peer, oldest first
  again    \* the D-channel was set up again

llVars == <<given, wait, num, win, taken, nr, back, again>>

WIN_MAX == TxMax \div 2

LlInit ==
  /\ given = 0 /\ wait = <<>> /\ num = 0 /\ nr = 0 /\ win = 0
  /\ taken = <<>> /\ back = <<>> /\ again = FALSE

\* dss1_lite_send_mbuf for an I-frame that fits the queue
Queue ==
  /\ given < MaxFrames /\ Len(wait) < TxMax - 1
  /\ given' = given + 1 /\ wait' = Append(wait, given + 1)
  /\ UNCHANGED <<num, win, taken, nr, back, again>>

\* Mutant: the loop frees one frame more.
BugCheckNr(s, n) ==
  LET d == (n - s.num) % Mod IN
  IF d > s.win THEN [s EXCEPT !.num = n, !.win = 0]
  ELSE [num |-> n, win |-> s.win - d,
        wait |-> IF d = 0 THEN s.wait ELSE SubSeq(s.wait, d + 2, Len(s.wait))]

\* check_nr in dss1_lite_decode_mbuf, on a record of what it changes
CheckNr(s, n) ==
  LET d == (n - s.num) % Mod IN
  IF d > s.win THEN [s EXCEPT !.num = n, !.win = 0]
  ELSE [num |-> n, win |-> s.win - d, wait |-> SubSeq(s.wait, d + 1, Len(s.wait))]

\* dss1_lite_peer_get_mbuf: every report that waits
Receive == FoldLeft(CheckNr, [num |-> num, win |-> win, wait |-> wait], back)

\* The peer gets frame f with number n; p says that it has to answer.
PeerGets(s, n, f, p) ==
  IF n # s.nr THEN [s EXCEPT !.back = Append(@, s.nr)]
  ELSE [taken |-> Append(s.taken, f), nr |-> (s.nr + 1) % Mod,
        back |-> IF p THEN Append(s.back, (s.nr + 1) % Mod) ELSE s.back]

\* dss1_lite_process: the window is sent, but for the frames m_dup cannot copy, and
\* the last one asks for an answer. It is not sent while the line is busy.
Transmit(s, gone) ==
  LET w == IF Len(s.wait) > WIN_MAX THEN WIN_MAX ELSE Len(s.wait)
      f == SelectSeq([j \in 1 .. w |-> j], LAMBDA j : j \notin gone)
      p == FoldLeft(LAMBDA q, j : PeerGets(q, (s.num + j - 1) % Mod, s.wait[j], j = w),
                    [taken |-> taken, nr |-> nr, back |-> <<>>], f)
  IN win' = w /\ taken' = p.taken /\ nr' = p.nr /\ back' = p.back

LinkProcess ==
  LET s == Receive IN
  /\ num' = s.num /\ wait' = s.wait /\ UNCHANGED <<given, again>>
  /\ \/ \E gone \in SUBSET (1 .. WIN_MAX) : Transmit(s, gone)
     \/ win' = s.win /\ back' = <<>> /\ UNCHANGED <<taken, nr>>

\* The peer reports the number it expects (RR, RNR, REJ or an I-frame), or a report
\* of its own is lost.
Report ==
  /\ Len(back) < MaxReports
  /\ back' = Append(back, nr) /\ UNCHANGED <<given, wait, num, win, taken, nr, again>>

LoseReport ==
  /\ back # <<>> /\ back' = Tail(back)
  /\ UNCHANGED <<given, wait, num, win, taken, nr, again>>

\* dss1_lite_l1_setup: the queue is emptied, dl_tx_num stays; the peer counts from 0.
SetupAgain ==
  /\ wait' = <<>> /\ win' = 0 /\ back' = <<>> /\ nr' = 0 /\ again' = TRUE
  /\ UNCHANGED <<given, num, taken>>

LlNext == Queue \/ LinkProcess \/ Report \/ LoseReport \/ SetupAgain

LlSpec == LlInit /\ [][LlNext]_llVars

-----------------------------------------------------------------------------
(* Properties *)

\* The peer takes the frames once and in the order of the queue, without a gap, though
\* every process sends the same frames with numbers that may have changed.  A frame is
\* freed only when the peer has taken it: the number is taken from any frame, but only
\* what was sent is freed.  (Not so when the D-channel was set up again.)
FramesTaken ==
  ~again =>
    /\ \A k \in DOMAIN taken : taken[k] = k
    /\ \A f \in 1 .. given : Len(taken) < f => \E k \in DOMAIN wait : wait[k] = f
=============================================================================
