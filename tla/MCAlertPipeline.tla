--------------------------- MODULE MCAlertPipeline --------------------------
(* Small instances of AlertPipeline: one or two trains, one ingest loop, one  *)
(* request handler, and delays on both sides of the delay step and of the     *)
(* critical threshold.                                                        *)
EXTENDS AlertPipeline

\* Email may be switched off between two deliveries; Teams is an environment variable.
MCEmailOnly == [c \in Channel |-> IF c = "email" THEN {TRUE} ELSE {FALSE}]
MCBothChannels == [c \in Channel |-> {TRUE}]
MCEmailSwitched == [c \in Channel |-> IF c = "email" THEN BOOLEAN ELSE {TRUE}]
Cancelled == [cancelled |-> TRUE, delay |-> NoDelay]
Late(n) == [cancelled |-> FALSE, delay |-> n]
MCReadings == {Cancelled, Late(5)}
MCDelayReadings == {Late(5), Late(10)}
=============================================================================
