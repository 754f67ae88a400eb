------------------------------ MODULE MCLayer4 ------------------------------
(***************************************************************************)
(* Layer 4: the short-hold timer of a call, or the line interconnect       *)
(* between calls of two controllers.                                       *)
(***************************************************************************)
EXTENDS Shorthold, LineInterconnect

VARIABLE part

FixedSettings ==
  [alg : {"FIXU"}, unit : {4, 5}, early : {0, 1, 2}, idle : {0, 2, 6}]

VariableSettings ==
  [alg : {"VARU"}, unit : {1, 3, 4}, early : {0}, idle : {0, 2, 6}]

\* Lengths that do not fit, which fall back to the idle time alone.
WrongSettings ==
  [alg : {"FIXU", "VARU"}, unit : {0, 2}, early : {2, 3}, idle : {2}]

AllSettings == FixedSettings \cup VariableSettings \cup WrongSettings

\* Two controllers on one cable
HomeDef == [c \in Parties |-> IF c = 1 THEN "x" ELSE "y"]
WiresDef == [n \in Controllers |-> <<0>>]
OpDef == {{"third", "again"}, {"again", "disconnect", "end"}, {"hold", "b3"},
          {"hold", "no", "void", "unable"}, {"resize"}}

L4Init ==
  /\ part \in {"hold", "interconnect"} /\ ShInit /\ LiInit
  /\ part # "hold" =>
       ~incoming /\ ~cd.aocd /\ given = [alg |-> "FIXU", unit |-> 4, early |-> 0, idle |-> 0]
  /\ part # "interconnect" => ops = {"resize"}

L4Next ==
  \/ part = "hold" /\ ShNext /\ UNCHANGED <<part, liVars>>
  \/ part = "interconnect" /\ LiNext /\ UNCHANGED <<part, shVars>>

L4Spec == L4Init /\ [][L4Next]_<<part, shVars, liVars>>
=============================================================================
