--------------------------- MODULE MCLiaisonBoard ---------------------------
(* LiaisonBoard with small constants.  The scenarios ask for what the properties tell *)
(* apart: edits and a crash beside the start of a second process; edits beside a      *)
(* poll; a crash, a failed statement or a purge beside a poll of a train that changes *)
(* its status.                                                                        *)
EXTENDS LiaisonBoard

CONSTANTS nice, menton

OneTrain == {1}
OtherRoute == {[outbound |-> menton, inbound |-> "none"], [outbound |-> "none", inbound |-> "inactive"]}

Happens(e, f, p, open, announced) ==
  [edits |-> e, faults |-> f, purges |-> p, open |-> open, announced |-> announced]

MCScenarios == {Happens(2, 1, 0, {}, {}),
                Happens(2, 0, 0, {"outbound"}, {"on_time"}),
                Happens(1, 1, 0, {"outbound"}, {"on_time"}),
                Happens(0, 1, 0, {"outbound"}, Status),
                Happens(0, 0, 1, {"outbound"}, Status)}
=============================================================================
