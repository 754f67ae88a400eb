----------------------------- MODULE MCDss1Link -----------------------------
(* Instances of Dss1Link for TLC. *)
EXTENDS Dss1Link

\* Every side with enough mbufs, and a terminal without
PromptLines ==
  [side : {"P2P", "TE"}, short : {FALSE}, prompt : {TRUE}, load : {2}]
    \cup [side : {"NT"}, short : {FALSE}, prompt : {TRUE}, load : {1}]
    \cup [side : {"TE"}, short : {TRUE}, prompt : {FALSE}, load : {1}]
=============================================================================
