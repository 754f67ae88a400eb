----------------------------- MODULE MCDevices ------------------------------
(***************************************************************************)
(* The threads of the programs inside the character devices: one unit of   *)
(* i4btel or i4brbch, or one open /dev/capi20.                             *)
(***************************************************************************)
EXTENDS BchanDev, CapiDevice

VARIABLE part

FewUses == {{"write", "close", "tones"}, {"read", "close"}, {"write", "dread"}}
TonePrograms == {<<1>>, <<3>>}

Init ==
  /\ part \in {"unit", "capi"} /\ BdInit /\ CdInit
  /\ part # "unit" => kind = "tel" /\ uses = {"read", "close"}

Next ==
  \/ part = "unit" /\ BdNext /\ UNCHANGED <<part, cdVars>>
  \/ part = "capi" /\ CdNext /\ UNCHANGED <<part, bdVars>>

\* The fairness of BdFair and CdFair
Spec ==
  /\ Init /\ [][Next]_<<part, bdVars, cdVars>>
  /\ \A t \in Thread :
       WF_bdVars(part = "unit" /\ Returns(t) /\ UNCHANGED <<part, cdVars>>)
  /\ \A c \in Chan :
       WF_bdVars(part = "unit" /\ GetMbuf(c) /\ UNCHANGED <<part, cdVars>>)
  /\ \A t \in CapiThreads :
       WF_cdVars(/\ part = "capi"
                 /\ \/ ReadOn(t, FALSE) \/ WriteEnter(t) \/ WriteHandled(t) \/ WriteEnd(t)
                    \/ SetBlock(t) \/ StartD(t) \/ Started(t) \/ IoctlEnd(t)
                    \/ CapiCloseWait(t) \/ CloseRelease(t) \/ CloseDrain(t)
                 /\ UNCHANGED <<part, bdVars>>)

\* No thread sleeps on a device for what has already happened, or on through the end of
\* its call (NoMissedWakeup, DisconnectWakes, NobodySleepsInVain).
WakeupsArrive == NoMissedWakeup /\ DisconnectWakes /\ NobodySleepsInVain

\* Every close of a device returns (CloseReturns, CapiCloseReturns).
ClosesReturn == CloseReturns /\ CapiCloseReturns
=============================================================================
