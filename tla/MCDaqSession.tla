---------------------------- MODULE MCDaqSession ----------------------------
(* Modes that share something, and between them all nine.                    *)
EXTENDS DaqSession

UsedTogether == {
  {"CONTINUOUS_CHANNEL_DATA", "CHANNEL_DATA"},  \* the file manager
  {"STATION_BEAM_DATA"},
  {"RAW_DATA"}, {"BEAM_DATA"}, {"INTEGRATED_BEAM_DATA"},
  {"INTEGRATED_CHANNEL_DATA"}, {"CORRELATOR_DATA"}, {"ANTENNA_BUFFER"}}

\* the third is the first that is not ignored; burst data are there for the manager
Received ==
  [m \in DaqModes |-> CASE m \in {"CONTINUOUS_CHANNEL_DATA", "STATION_BEAM_DATA"} -> 3
                       [] m = "CHANNEL_DATA" -> 1
                       [] OTHER -> 2]

Configurations ==
  [write_to_disk : {TRUE}, together : BOOLEAN, threshold : {TRUE}]
    \cup [write_to_disk : {FALSE}, together : {TRUE}, threshold : {FALSE}]
=============================================================================
