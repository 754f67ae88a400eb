------------------------------ MODULE MCIsdnd ------------------------------
(***************************************************************************)
(* Small instances of Isdnd: tables of two entries.                        *)
(***************************************************************************)
EXTENDS Isdnd

Plain ==
  [react |-> "ACCEPT", inout |-> "INOUT", calledback |-> FALSE, alert |-> FALSE,
   retries |-> 1, usedown |-> FALSE, maxconnect |-> FALSE, timed |-> FALSE,
   need |-> 0, budget |-> 0]

Site(table, asks, digits, calls) ==
  [table |-> table, asks |-> asks, digits |-> digits, calls |-> calls]

\* A site that is called back, and one that is called back by another.
CallingBack ==
  Site(<< [Plain EXCEPT !.react = "CALLBACK", !.need = 1],
          [Plain EXCEPT !.calledback = TRUE] >>,
       {"DIALOUT_IND"}, 1, 2)

\* Two sites that are dialed, one within a budget and at certain times, and one
\* for ever.
Dialing ==
  Site(<< [Plain EXCEPT !.inout = "OUTONLY", !.budget = 1, !.usedown = TRUE, !.timed = TRUE],
          [Plain EXCEPT !.react = "IGNORE", !.retries = -1, !.maxconnect = TRUE] >>,
       {"DIALOUT_IND", "DRVRDISC_REQ"}, 0, 2)

\* The entry that answers comes after one whose number is longer.
Overlapping ==
  Site(<< [Plain EXCEPT !.react = "ALERT", !.need = 1],
          [Plain EXCEPT !.react = "ANSWER", !.alert = TRUE] >>,
       {"DRVRANSWER_REQ", "DRVRREJECT_REQ"}, 1, 2)

\* Calls of one number are refused; a machine answers the others after a
\* while, and is taken down when dialing fails.
Filtering ==
  Site(<< [Plain EXCEPT !.react = "REJECT", !.need = 1, !.inout = "INONLY"],
          [Plain EXCEPT !.react = "ANSWER", !.alert = TRUE, !.retries = 2,
                        !.usedown = TRUE] >>,
       {"DIALOUT_IND"}, 1, 1)

\* The machine alone (the other entry matches no number), with a second call.
Lone ==
  Site(<< [Plain EXCEPT !.need = 9, !.inout = "INONLY"], Filtering.table[2] >>,
       {"DIALOUT_IND"}, 0, 2)

AllKinds == {CallingBack, Dialing, Overlapping}
Resting == {Filtering, Lone}
=============================================================================
