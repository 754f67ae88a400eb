----------------------------- MODULE MCDss1Call -----------------------------
(* Instances of Dss1Call for TLC. *)
EXTENDS Dss1Call

AllEvents == IncomingEvents \cup OutgoingEvents
               \cup {"LINK", "RESET", "DETACH", "SILENT"}

PairEvents == {"SETUPRQ", "CONNECT", "SETUP", "SETACRS", "RELEASE", "HOLD_REQ",
               "RETRIEVE_REQ", "RETRIEVE_ACK", "HOLD_IND", "RETRIEVE_IND",
               "LINK", "RESET", "DETACH"}

\* None or any, and a B-channel by number
FewChannels == {CHAN_ANY, 1}

\* The four driver types; both sides without status enquiries
FourTypes == {m \in DriverModes : ~m.quiet}
BothSides == {m \in DriverModes : m.quiet /\ ~m.p2p}

\* The broadcast pipe and two terminals
ThreePipes == {0, 1, 2}
OneCR == {200}
=============================================================================
