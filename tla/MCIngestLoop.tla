---------------------------- MODULE MCIngestLoop ----------------------------
(* IngestLoop with two trains that meet at Monaco and two journeys from there. *)
EXTENDS IngestLoop

MCStation == {"cannes", "nice", "monaco", "menton", "torino"}
MCCalls == [t \in Train |->
  IF t = "east" THEN <<"nice", "monaco", "menton", "torino">>
  ELSE <<"menton", "monaco", "nice", "cannes">>]
MCBase == [t \in Train |-> IF t = "east" THEN 1 ELSE 2]
\* The East-bound's number is within the West-bound's trip id, and the text of the
\* West-bound's direction holds a word of Menton's label.
MCWithin == Train \X Train \ {<<"west", "east">>}
MCShows == [t \in Train |-> IF t = "east" THEN {"torino"} ELSE {"cannes", "menton"}]
MCNames == [t \in Train |-> IF t = "east" THEN {} ELSE {"cannes"}]
MCCorridor == <<"cannes", "nice", "monaco", "menton">>
MCOrder == <<"west", "east">>
OneTrain == <<"east">>
ToNice == [origin |-> "monaco", destination |-> "nice"]
ToMenton == [origin |-> "monaco", destination |-> "menton"]
MCJourney == {ToNice, ToMenton}
\* One journey is told of a delay of five minutes, the other of suppressions and of more.
MCSeverities == [j \in MCJourney |-> {"delay"} \cup IF j = ToNice THEN {} ELSE {"cancellation"}]
MCMinDelay == [j \in MCJourney |-> IF j = ToNice THEN 5 ELSE 6]
MCWindows == {{}, MCJourney}
MCAlways == {MCJourney}
MCFailures == {{}, {"monaco"}, {"menton"}}
=============================================================================
