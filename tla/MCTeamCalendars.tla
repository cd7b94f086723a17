--------------------------- MODULE MCTeamCalendars ---------------------------
(* TeamCalendars for TLC: its configurations give every constant a value.   *)
EXTENDS TeamCalendars
==============================================================================
