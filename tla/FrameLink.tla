----------------------------- MODULE FrameLink ------------------------------
(***************************************************************************)
(* What a link promises its user: what arrives was accepted, arrives at    *)
(* most once, unchanged and in order. A link that is not clean may also    *)
(* make up something.                                                      *)
(***************************************************************************)
EXTENDS Naturals, Sequences, SequencesExt

VARIABLES
  accepted,  \* the messages the link was given, oldest first
  arrived,   \* the messages it handed over
  clean      \* nothing has disturbed the link

linkVars == <<accepted, arrived, clean>>

\* a is what is left of b when some elements are taken away.
SubSequence(a, b) ==
  Len(a) < FoldLeft(LAMBDA k, x : IF k <= Len(a) /\ a[k] = x THEN k + 1 ELSE k, 1, b)

LinkInit == accepted = <<>> /\ arrived = <<>> /\ clean = TRUE

Accept ==
  /\ Len(accepted') = Len(accepted) + 1 /\ IsPrefix(accepted, accepted')
  /\ UNCHANGED <<arrived, clean>>

\* A message arrives, perhaps on a link that was just disturbed.
Arrive ==
  /\ Len(arrived') = Len(arrived) + 1 /\ IsPrefix(arrived, arrived')
  /\ clean' => SubSequence(arrived', accepted)
  /\ clean' \in {clean, FALSE} /\ UNCHANGED accepted

Disturb == clean' = FALSE /\ UNCHANGED <<accepted, arrived>>

LinkNext == Accept \/ Arrive \/ Disturb

LinkSpec == LinkInit /\ [][LinkNext]_linkVars
=============================================================================
