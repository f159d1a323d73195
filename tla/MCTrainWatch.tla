---------------------------- MODULE MCTrainWatch ----------------------------
(* Journeys around midnight and at noon, on one and on neighbouring days; the  *)
(* lead of two of them reaches back over midnight, and one of these is open    *)
(* again before its window ends.  The clock runs from Monday to Wednesday in   *)
(* the default steps of the poll.                                              *)
EXTENDS TrainWatch

At(h, m) == 60 * h + m
Weekly(days, start, end, always, lead) ==
  [active |-> TRUE, days |-> days, start |-> start, end |-> end,
   always |-> always, lead |-> lead]

MCJourneys == {Weekly(days, w[1], w[2], always, w[3]) :
  days \in {{1}, {2}, {2, 3}}, always \in BOOLEAN,
  w \in {<<At(7, 0), At(9, 30), 4>>, <<At(16, 2), At(23, 59), 12>>,
         <<At(0, 0), At(22, 30), 0>>, <<At(2, 0), At(9, 30), 4>>,
         <<At(1, 30), At(22, 30), 12>>}}

MCDepartures == {DayMinutes + At(9, 30), DayMinutes + At(22, 27)}

\* The window a test expects not to shrink, with the default lead.
MCAllDay == {Weekly(1..7, At(0, 0), At(23, 59), FALSE, 4)}
=============================================================================
