------------------------------ MODULE CallDesc ------------------------------
(***************************************************************************)
(* Call descriptors and the resources they hold: channels of the           *)
(* controller (i4b_l4mgmt.c), references on the D-channel pipes and on     *)
(* layer 1 (dss1_l3fsm.h), B-channel drivers (i4b_l4.c).                   *)
(*                                                                         *)
(* Every handler of the D-channel code runs under the controller lock and  *)
(* works on one call descriptor.  It is written here as a function of a    *)
(* "context": the descriptor and the resources of the controller,          *)
(*                                                                         *)
(*   [id |-> its place in the array, d |-> the descriptor,                 *)
(*    util |-> the channels in use, ft |-> the driver on each B-channel,   *)
(*    ref |-> the refcount of each pipe, auto |-> L1_auto_activate]        *)
(***************************************************************************)
EXTENDS Integers, FiniteSets

CONSTANTS
  N,          \* number of call descriptors
  NChan,      \* the B-channels are 1 .. NChan (L1_channel_end - 1)
  Pipes,      \* D-channel pipes; 0 is the adapter
  Drivers,    \* units of B-channel drivers
  CdidEnd,    \* N_cdid_end, exclusive
  AutoMod     \* range of L1_auto_activate, a uint32_t

ASSUME CallDescAssumption ==
  /\ N \in Nat \ {0} /\ NChan \in Nat
  /\ Pipes \subseteq Nat /\ IsFiniteSet(Pipes) /\ 0 \in Pipes
  /\ CdidEnd \in Nat \ {0}
  /\ AutoMod \in Nat /\ AutoMod > N + 1
  /\ Drivers \cap {"NONE", "TONE"} = {}

CDs == 1 .. N
CHAN_D1 == 0
CHAN_ANY == -1
CHAN_NOT_ANY == -2
Channels == 0 .. NChan
BChannels == 1 .. NChan
ChannelIds == -2 .. NChan + 1    \* NChan + 1 stands for any larger number

CDID_UNUSED == 0
NoPipe == -1

\* What can be linked to a B-channel: a driver unit, or the tone generator
\* that every call descriptor owns.
Keys == {<<d, 0>> : d \in Drivers} \cup {<<"TONE", c>> : c \in CDs}
NoKey == <<"NONE", 0>>
Key(id, drv) == IF drv = "TONE" THEN <<"TONE", id>> ELSE <<drv, 0>>

\* i4b_free_cd leaves a descriptor that i4b_allocate_cd clears.
UnusedCd == [cdid |-> CDID_UNUSED, cr |-> 0, incoming |-> FALSE, state |-> "U0",
             pipe |-> NoPipe, chan |-> CHAN_ANY, alloc |-> FALSE,
             need_release |-> FALSE, enquiries |-> 0, responded |-> FALSE,
             hold |-> FALSE, retrieving |-> FALSE, want |-> FALSE,
             drv |-> "NONE", ind |-> 0, timer |-> FALSE]

-----------------------------------------------------------------------------
(* Channels. *)

Take(s, ch) == [s EXCEPT !.util = @ \cup {ch}, !.d.chan = ch, !.d.alloc = TRUE]

FreeChannels(s) == Channels \ s.util

LowestFree(s) == CHOOSE ch \in FreeChannels(s) :
                   \A k \in FreeChannels(s) : ch <= k

\* Mutant: a channel asked for by number is not looked up in the utilization.
BugAllocateTaken(s) ==
  IF ~s.d.alloc /\ s.d.chan \in Channels THEN Take(s, s.d.chan)
  ELSE IF ~s.d.alloc /\ FreeChannels(s) # {} THEN Take(s, LowestFree(s)) ELSE s

\* cd_allocate_channel: a channel by number, no channel at all, or the first
\* free one.  A failure forgets the number.
AllocateChannel(s) ==
  CASE s.d.alloc -> s
    [] ~s.d.alloc /\ s.d.chan \in Channels /\ s.d.chan \notin s.util ->
         Take(s, s.d.chan)
    [] ~s.d.alloc /\ s.d.chan = CHAN_NOT_ANY -> [s EXCEPT !.d.alloc = TRUE]
    [] ~s.d.alloc /\ s.d.chan \notin Channels \cup {CHAN_NOT_ANY}
                  /\ FreeChannels(s) # {} -> Take(s, LowestFree(s))
    [] OTHER -> [s EXCEPT !.d.chan = CHAN_ANY]

\* cd_free_channel
FreeChannel(s) ==
  IF s.d.alloc
  THEN [s EXCEPT !.util = @ \ ({s.d.chan} \cap Channels),
                 !.d.chan = CHAN_ANY, !.d.alloc = FALSE]
  ELSE s

-----------------------------------------------------------------------------
(* B-channel drivers: i4b_link_bchandrvr and i4b_setup_driver. *)

OnBChannel(s) == s.d.alloc /\ s.d.chan \in BChannels

\* Only the driver of this call is taken off its own channel.
Unlink(s) ==
  [s EXCEPT !.d.want = FALSE,
            !.ft = IF OnBChannel(s) /\ s.ft[s.d.chan] = Key(s.id, s.d.drv)
                   THEN [s.ft EXCEPT ![s.d.chan] = NoKey] ELSE s.ft]

\* Nothing happens if the channel or the driver is in use, or if the driver or
\* layer 1 refuses the protocol ("accepts" is FALSE).
Link(s, drv, accepts) ==
  LET u == Unlink(s)
      k == Key(s.id, drv)
      free == /\ OnBChannel(u) /\ u.ft[u.d.chan] = NoKey
              /\ \A ch \in BChannels : u.ft[ch] # k
  IN [u EXCEPT !.d.want = TRUE, !.d.drv = drv,
               !.ft = IF free /\ accepts
                      THEN [u.ft EXCEPT ![u.d.chan] = k] ELSE u.ft]

-----------------------------------------------------------------------------
(* References: cd_set_pipe, dss1_L1_activate_req, dss1_L1_deactivate_req. *)

\* Arithmetic of L1_auto_activate_t, which is unsigned.
Plus1(x) == IF x + 1 = AutoMod THEN 0 ELSE x + 1
Minus(x, k) == IF k <= x THEN x - k ELSE x + AutoMod - k

SetPipe(s, p) ==
  LET old == s.d.pipe
      up  == IF p = NoPipe THEN s.ref ELSE [s.ref EXCEPT ![p] = @ + 1]
      n   == IF p = NoPipe THEN s.auto ELSE Plus1(s.auto)
  IN [s EXCEPT !.ref = IF old = NoPipe THEN up ELSE [up EXCEPT ![old] = @ - 1],
               !.auto = IF old = NoPipe THEN n ELSE Minus(n, 1),
               !.d.pipe = p]

\* Mutant: the pipe is not given back.
BugFreeCdKeepsPipe(s) == [FreeChannel(Unlink(s)) EXCEPT !.d = UnusedCd]

\* n_free_cd: disconnect the driver, drop the pipe, then the channel.
FreeCd(s) == [FreeChannel(SetPipe(Unlink(s), NoPipe)) EXCEPT !.d = UnusedCd]

-----------------------------------------------------------------------------
(* Descriptors. *)

\* Mutant: numbers in use are not skipped.
BugNextCdidAny(count, used) == IF count + 1 >= CdidEnd THEN 1 ELSE count + 1

\* get_cdid: the next number, in a circle, that no descriptor uses.
NextCdid(count, used) ==
  LET free  == (1 .. CdidEnd - 1) \ used
      after == {k \in free : k > count}
      pool  == IF after # {} THEN after ELSE free
  IN IF free = {} THEN CDID_UNUSED
     ELSE CHOOSE k \in pool : \A j \in pool : k <= j
=============================================================================
