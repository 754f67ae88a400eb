----------------------------- MODULE MCEndings ------------------------------
(***************************************************************************)
(* What has to end: the close of /dev/i4b while threads are inside it, and *)
(* the set-up of a call on a telephone interface; with the safety of that  *)
(* interface and of its frames.                                            *)
(***************************************************************************)
EXTENDS AppInterface, LiteCall, LiteLink

VARIABLE part

\* Programs that close while they read and control, or read and are written to.
ClosingLoads == {{"read", "ioctl", "quiet"}, {"read", "driver", "quiet"}}

NamedDef == {NONE, NOT_ANY, 1}

EndInit ==
  /\ part \in {"close", "calls", "frames"} /\ Init /\ LiteInit /\ LlInit
  /\ part # "close" => uses = {"read", "ioctl", "quiet"}
  /\ part # "calls" => ~dl.nt

EndNext ==
  \/ part = "close" /\ Next /\ UNCHANGED <<part, liteVars, llVars>>
  \/ part = "calls" /\ LiteNext /\ UNCHANGED <<part, vars, llVars>>
  \/ part = "frames" /\ LlNext /\ UNCHANGED <<part, vars, liteVars>>

\* Nothing of a part that rests in its initial state is enabled by Fairness.
EndSpec ==
  /\ EndInit /\ [][EndNext]_<<part, vars, liteVars, llVars>>
  /\ Fairness /\ WF_liteVars(CheckTimeout)

\* Every close of /dev/i4b and every call set-up of a telephone interface comes to its
\* end (CloseEnds, SetupEnds): no reader, ioctl or broadcast keeps a close waiting, and a
\* peer that answers every STATUS ENQUIRY does not keep a call in set-up.
EverythingEnds == CloseEnds /\ SetupEnds
=============================================================================
