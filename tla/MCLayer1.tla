------------------------------ MODULE MCLayer1 ------------------------------
(***************************************************************************)
(* Layer 1: the HDLC emulation and the activation of the line.  A          *)
(* behaviour exercises one of them while the other rests.                  *)
(***************************************************************************)
EXTENDS Hdlc, PhLine

VARIABLE part

FewFrames == {<<126>>, <<255, 31>>, <<248, 255, 7>>, <<0, 62, 252, 1>>, <<>>, <<127, 254>>}

Init ==
  /\ part \in {"hdlc", "line"} /\ HdInit /\ PhInit
  /\ part # "hdlc" => dchan = FALSE /\ skew = 0
  /\ part # "line" => tab = "isac" /\ saving = FALSE

Next ==
  \/ part = "hdlc" /\ HdNext /\ UNCHANGED <<part, phVars>>
  \/ part = "line" /\ PhNext /\ UNCHANGED <<part, hdVars>>

\* The fairness of PhFair
Spec ==
  /\ Init /\ [][Next]_<<part, hdVars, phVars>>
  /\ WF_phVars(part = "line" /\ Interrupt /\ UNCHANGED <<part, hdVars>>)
  /\ WF_phVars(part = "line" /\ fsm_T3_expire /\ UNCHANGED <<part, hdVars>>)
  /\ WF_phVars(part = "line" /\ LineForward /\ UNCHANGED <<part, hdVars>>)
  /\ WF_phVars(part = "line" /\ IdleTimeout /\ UNCHANGED <<part, hdVars>>)
=============================================================================
