--------------------------- MODULE MCAppInterface ---------------------------
(* Instances of AppInterface for TLC. *)
EXTENDS AppInterface, TLC

CONSTANTS a1, a2, c1

AppSymmetry == Permutations(Apps)

\* Programs that answer calls; programs that read, without memory.
SafetyLoads == {{"calls", "ioctl", "driver"},
                {"read", "poll", "nonblock", "driver", "short"}}
=============================================================================
